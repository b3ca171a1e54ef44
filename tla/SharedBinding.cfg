SPECIFICATION McFairSpec
CONSTANTS
  Clusters <- Demo
  None = None
  MaxDisruptions = 0
PROPERTIES IndependentHubs
CHECK_DEADLOCK FALSE
