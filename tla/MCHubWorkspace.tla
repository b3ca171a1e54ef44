---------------------------- MODULE MCHubWorkspace ----------------------------
EXTENDS HubWorkspace

\* Two hubs in one organization.
OneOrg == {<<<<"a">>, <<"b">>>>, <<<<"a">>, <<"c">>>>}

\* Two organizations with one hub each: their counters start from one base.
TwoOrgs == {<<<<"a">>, <<"b">>>>, <<<<"c">>, <<"d">>>>}
===============================================================================
