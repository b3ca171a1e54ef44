SPECIFICATION OrgFairSpec
CONSTANTS
  Keys = {o1, o2}
  URLs = {u1, u2}
  None = None
  MaxCreates = 2
  MaxDisruptions = 2
INVARIANTS  QueueConsistent OneControllerPerOrganization AddressesFollowWorkspaces
PROPERTIES EveryKeyGetsItsTurn EventuallyWatched
\* With no organization left and nothing to resync the controller rests.
CHECK_DEADLOCK FALSE
