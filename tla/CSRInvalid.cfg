SPECIFICATION CsrFairSpec
CONSTANTS
  Requests = {r1}
  None = None
  MaxCAs = 1
  MaxCreates = 1
  MaxRestarts = 0
  MaxDisruptions = 1
PROPERTIES InvalidEventuallyFailed
\* With no request left and nothing to resync the controller rests.
CHECK_DEADLOCK FALSE
