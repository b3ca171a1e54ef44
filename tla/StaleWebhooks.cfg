SPECIFICATION ProvisioningSpec
CONSTANTS
  Hubs <- OneHub
  None = None
  RegBase = 1
  WorkBase = 2
  MaxPort = 3
  MaxCreates = 1
  MaxRestarts = 0
  MaxDisruptions = 0
  MaxBundles = 2
PROPERTIES AppliedWebhooksPresent
CHECK_DEADLOCK FALSE
