SPECIFICATION McFairSpec
CONSTANTS
  Clusters <- ThreeClusters
  None = None
  MaxDisruptions = 1
INVARIANTS McTypeOK HubAuthorizersComeLast
PROPERTIES SoleClusterAuthorized TwoTakeTurns
\* With no cluster joined the controllers rest.
CHECK_DEADLOCK FALSE
