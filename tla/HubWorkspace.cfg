SPECIFICATION Spec
CONSTANTS
  Hubs <- OneOrg
  None = None
  RegBase = 1
  WorkBase = 3
  MaxPort = 5
  MaxCreates = 1
  MaxRestarts = 1
  MaxDisruptions = 1
INVARIANTS  CleanPassLeavesNoGaps StartImpliesProvisioned CountersLeadPorts
PROPERTIES PortsNeverMove ExhaustedUntilRestart
