SPECIFICATION MCSpec
CONSTANTS
  Requests = {r1}
  None = None
  MaxCAs = 2
  MaxCreates = 2
  MaxRestarts = 1
  MaxDisruptions = 3
  Times <- MCTimes
  Expirations <- MCExpirations
  Usages <- MCUsages
INVARIANTS
   CopiesFollowRevisions SignedOnlyWhenApproved NeverSignedAndFailed
  UsableForBoundedTime LongerRequestsLastLonger ClientCertificatesOnly
PROPERTIES CertificateNeverReplaced FailureLostUntilRefreshed RequestsAnsweredOnce ApprovedEventuallySigned
\* With no request left and nothing to resync the controller rests, as does the
\* policy after its answer.
CHECK_DEADLOCK FALSE
