--------------------------- MODULE MCManagedClusters ---------------------------
EXTENDS ManagedClusters

DevHub == <<"myorg", "devhub">>
QeHub == <<"myorg", "qehub">>

\* The two hubs of the demo script, one cluster each.
Demo == {<<DevHub, "dev">>, <<QeHub, "qe">>}

\* A second cluster in one of the hubs.
ThreeClusters == Demo \cup {<<DevHub, "test">>}
===============================================================================
