SPECIFICATION ProvisioningFairSpec
CONSTANTS
  Hubs <- OneHub
  None = None
  RegBase = 1
  WorkBase = 2
  MaxPort = 3
  MaxCreates = 2
  MaxRestarts = 1
  MaxDisruptions = 1
  MaxBundles = 1
INVARIANTS ProvisioningTypeOK ConditionImpliesWebhooks ControllersAfterWebhooks 
PROPERTIES ImplementsHubWorkspace ImplementsHubLifecycle OrphansStayUnled  ConditionTracksReports ConditionEventuallyBacked ControllersEventuallyBacked
\* With the last workspace deleted and nothing left to resync the system rests.
CHECK_DEADLOCK FALSE
