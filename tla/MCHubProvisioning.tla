--------------------------- MODULE MCHubProvisioning ---------------------------
EXTENDS HubProvisioning

\* One hub.
OneHub == {<<<<"a">>, <<"b">>>>}

\* Organization a-b with workspace c and organization a with workspace b-c:
\* both hubs' objects bear the name kcp-a-b-c-cluster-manager.
Colliding == {<<<<"a", "b">>, <<"c">>>>, <<<<"a">>, <<"b", "c">>>>}
===============================================================================
