SPECIFICATION FairSpec
CONSTANTS
  Hubs <- OneOrg
  None = None
  RegBase = 1
  WorkBase = 3
  MaxPort = 8
  MaxCreates = 1
  MaxRestarts = 0
  MaxDisruptions = 0
PROPERTIES EveryHubProvisioned
CHECK_DEADLOCK FALSE
