SPECIFICATION ProvisioningSpec
CONSTANTS
  Hubs <- Colliding
  None = None
  RegBase = 1
  WorkBase = 2
  MaxPort = 3
  MaxCreates = 1
  MaxRestarts = 0
  MaxDisruptions = 0
  MaxBundles = 2
INVARIANTS OneHubPerClusterManager
\* With the last workspace deleted and nothing left to resync the system rests.
CHECK_DEADLOCK FALSE
