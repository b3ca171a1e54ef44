------------------------------- MODULE CSRSigner -------------------------------
(***************************************************************************)
(* The csrSigningController of one hub: it signs the approved certificate  *)
(* requests of managed clusters with the CA whose files the process was    *)
(* given, and fails those that ask for other usages than a client          *)
(* certificate's.                                                          *)
(*                                                                         *)
(* The worker holds the very object of the informer's cache.  On the way   *)
(* to signing it takes a copy first; on the way to failing a request it    *)
(* appends the condition to the cached object itself.                      *)
(***************************************************************************)
EXTENDS Naturals

CONSTANTS
  Requests,       \* names of certificate requests
  None,           \* no request
  MaxCAs,         \* bound: how many CAs the files ever hold, one after the other
  MaxCreates,     \* bound: how often a request of one name is created
  MaxRestarts,    \* bound: how often the process dies
  MaxDisruptions  \* bound: lost calls, deleted requests and label edits

ASSUME RequestsAssumption ==
  /\ None \notin Requests
  /\ MaxCAs \in Nat /\ MaxCreates \in Nat /\ MaxRestarts \in Nat /\ MaxDisruptions \in Nat

VARIABLES
  request,      \* the requests as the API server stores them
  csrLister,    \* the objects in the informer's cache
  csrQueue,     \* the keys waiting in the work queue
  csrPc,        \* what the worker does next
  csrSent,      \* the object it is about to send with UpdateStatus
  csrKey,       \* its name, None between passes
  ca,           \* the CA the controller loaded; 0: none yet
  caFile,       \* the CA in certFile and keyFile; 0: missing or malformed
  caExpired,    \* the CAs whose certificates have expired
  creates, restarts, disruptions

serverVars == <<request, creates>>
caVars == <<ca, caFile, caExpired>>
workerVars == <<csrPc, csrSent, csrKey>>
countVars == <<restarts, disruptions>>
csrVars == <<serverVars, csrLister, csrQueue, workerVars, caVars, countVars>>

\* rev is the resourceVersion.  eligible: the cluster label is there and the
\* signer is kubernetes.io/kube-apiserver-client.  failed counts the Failed
\* conditions, 2 standing for more than one.  A certificate is told apart from
\* others by its serial number, here the revision that brings it.
RequestObjects ==
  [rev : Nat, exists : BOOLEAN, eligible : BOOLEAN, usagesValid : BOOLEAN,
   decision : {"None", "Approved", "Denied"}, failed : 0..2, cert : Nat]
NoRequest ==
  [rev |-> 0, exists |-> FALSE, eligible |-> FALSE, usagesValid |-> FALSE,
   decision |-> "None", failed |-> 0, cert |-> 0]

CsrTypeOK ==
  /\ request \in [Requests -> RequestObjects]
  /\ csrLister \in [Requests -> RequestObjects]
  /\ csrQueue \in SUBSET Requests
  /\ csrPc \in {"idle", "update"}
  /\ csrSent \in RequestObjects
  /\ csrKey \in Requests \cup {None} /\ (csrPc = "update" => csrKey \in Requests)
  /\ ca \in 0..MaxCAs /\ caFile \in 0..MaxCAs /\ caExpired \in SUBSET (1..MaxCAs)
  /\ creates \in [Requests -> 0..MaxCreates]
  /\ restarts \in 0..MaxRestarts /\ disruptions \in 0..MaxDisruptions

CsrInit ==
  /\ request = [r \in Requests |-> NoRequest]
  /\ creates = [r \in Requests |-> 0]
  /\ caFile = 0 /\ caExpired = {}
  /\ csrLister = [r \in Requests |-> NoRequest]
  /\ csrQueue = {}
  /\ csrPc = "idle" /\ csrSent = NoRequest /\ csrKey = None
  /\ ca = 0
  /\ restarts = 0 /\ disruptions = 0

Disrupt == disruptions < MaxDisruptions /\ disruptions' = disruptions + 1
Stored(q) == [q EXCEPT !.rev = @ + 1]
Created(n, eligible, usagesValid) ==
  [NoRequest EXCEPT !.rev = n, !.exists = TRUE, !.eligible = eligible, !.usagesValid = usagesValid]
Gone(n) == [NoRequest EXCEPT !.rev = n]
-------------------------------------------------------------------------------
(* Agents, administrators and the API server. *)

CreateRequest(r) ==
  /\ ~request[r].exists /\ creates[r] < MaxCreates
  /\ creates' = [creates EXCEPT ![r] = @ + 1]
  /\ \E eligible, usagesValid \in BOOLEAN :
       request' = [request EXCEPT ![r] = Stored(Created(@.rev, eligible, usagesValid))]

DecideRequest(r) ==
  /\ request[r].exists /\ request[r].decision = "None"
  /\ \E decision \in {"Approved", "Denied"} :
       request' = [request EXCEPT ![r] = Stored([@ EXCEPT !.decision = decision])]
  /\ UNCHANGED creates

DeleteRequest(r) ==
  /\ request[r].exists
  /\ request' = [request EXCEPT ![r] = Stored(Gone(@.rev))]
  /\ UNCHANGED creates

\* Any other write to the request: only its revision moves.
TouchRequest(r) ==
  /\ request[r].exists
  /\ request' = [request EXCEPT ![r] = Stored(@)]
  /\ UNCHANGED creates

ReplaceCA ==
  /\ caFile < MaxCAs
  /\ caFile' = caFile + 1
  /\ UNCHANGED <<serverVars, csrLister, csrQueue, workerVars, ca, caExpired, countVars>>

ExpireCA ==
  /\ caFile # 0
  /\ caExpired' = 1..caFile
  /\ UNCHANGED <<serverVars, csrLister, csrQueue, workerVars, ca, caFile, countVars>>

CsrEnvironment ==
  \/ /\ \E r \in Requests : CreateRequest(r) \/ DecideRequest(r)
     /\ UNCHANGED <<csrLister, csrQueue, workerVars, caVars, countVars>>
  \/ /\ \E r \in Requests : DeleteRequest(r) \/ TouchRequest(r)
     /\ Disrupt
     /\ UNCHANGED <<csrLister, csrQueue, workerVars, caVars, restarts>>
  \/ ReplaceCA \/ ExpireCA
-------------------------------------------------------------------------------
(* The informer.  It replaces a cached object when a newer one arrives, or  *)
(* when a broken watch makes it list everything afresh; a resync only       *)
(* replays what is cached.                                                  *)

CsrInformer(r) ==
  /\ csrLister[r].rev # request[r].rev
  /\ csrLister' = [csrLister EXCEPT ![r] = request[r]]
  /\ csrQueue' = csrQueue \cup {r}
  /\ UNCHANGED <<serverVars, workerVars, caVars, countVars>>

CsrRelist ==
  /\ csrLister # request
  /\ csrLister' = request
  /\ csrQueue' = csrQueue \cup {r \in Requests : request[r].exists}
  /\ Disrupt
  /\ UNCHANGED <<serverVars, workerVars, caVars, restarts>>

CsrResync(r) ==
  /\ csrLister[r].exists
  /\ csrQueue' = csrQueue \cup {r}
  /\ UNCHANGED <<serverVars, csrLister, workerVars, caVars, countVars>>
-------------------------------------------------------------------------------
(* One pass of sync over request r. *)

\* Mutant: what nobody denied counts as approved.
isApprovedUnlessDenied(q) == q.decision # "Denied"

\* A Denied condition outweighs an Approved one.
isApproved(q) == q.decision = "Approved"

\* Mutant: a request that has its certificate is signed once more.
IgnoredUnlessSigned(q) == ~q.exists \/ ~q.eligible \/ ~isApproved(q)

\* The early returns of sync.  A Failed condition is not among the reasons.
Ignored(q) == ~q.exists \/ ~q.eligible \/ ~isApproved(q) \/ q.cert # 0

UsagesChecked(q) == q.usagesValid

CsrSyncIgnores(r) ==
  /\ csrPc = "idle" /\ r \in csrQueue
  /\ Ignored(csrLister[r])
  /\ csrQueue' = csrQueue \ {r}
  /\ UNCHANGED <<serverVars, csrLister, workerVars, caVars, countVars>>

Send(r, q) == csrPc' = "update" /\ csrKey' = r /\ csrSent' = q /\ csrQueue' = csrQueue \ {r}

\* Mutant: the condition is set, as meta.SetStatusCondition does.
AppendFailedOnce(q) == [q EXCEPT !.failed = 1]

\* Mutant: the conditions pile up without end.
AppendFailedUncapped(q) == [q EXCEPT !.failed = @ + 1]

\* Every failed attempt appends one more condition to the cached object.
AppendFailed(q) == [q EXCEPT !.failed = IF @ = 2 THEN 2 ELSE @ + 1]

\* Mutant: the pass goes on to sign what it has failed.
FailRequestAndSign(r) ==
  LET failed == AppendFailed(csrLister[r]) IN
  /\ csrPc = "idle" /\ r \in csrQueue
  /\ ~Ignored(csrLister[r]) /\ ~UsagesChecked(csrLister[r])
  /\ csrLister' = [csrLister EXCEPT ![r] = failed]
  /\ Send(r, [failed EXCEPT !.cert = failed.rev + 1])
  /\ UNCHANGED <<serverVars, caVars, countVars>>

FailRequest(r) ==
  /\ csrPc = "idle" /\ r \in csrQueue
  /\ ~Ignored(csrLister[r]) /\ ~UsagesChecked(csrLister[r])
  /\ csrLister' = [csrLister EXCEPT ![r] = AppendFailed(@)]
  /\ Send(r, csrLister'[r])
  /\ UNCHANGED <<serverVars, caVars, countVars>>

loadCertKeyPair == caFile

\* initCA reads the files once; what it loaded is kept for good.
initCA == IF ca # 0 THEN ca ELSE loadCertKeyPair

\* The policy refuses to sign with a CA that has expired.
Signs(a) == a # 0 /\ a \notin caExpired

sign(q) == q.rev + 1

\* Mutant: the certificate is put into the cached object as well.
SignRequestInPlace(r) ==
  LET signed == [csrLister[r] EXCEPT !.cert = sign(csrLister[r])] IN
  /\ csrPc = "idle" /\ r \in csrQueue
  /\ ~Ignored(csrLister[r]) /\ UsagesChecked(csrLister[r])
  /\ Signs(initCA)
  /\ ca' = initCA
  /\ csrLister' = [csrLister EXCEPT ![r] = signed]
  /\ Send(r, signed)
  /\ UNCHANGED <<serverVars, caFile, caExpired, countVars>>

SignRequest(r) ==
  /\ csrPc = "idle" /\ r \in csrQueue
  /\ ~Ignored(csrLister[r]) /\ UsagesChecked(csrLister[r])
  /\ Signs(initCA)
  /\ ca' = initCA
  /\ Send(r, [csrLister[r] EXCEPT !.cert = sign(csrLister[r])])
  /\ UNCHANGED <<serverVars, csrLister, caFile, caExpired, countVars>>

\* The files are unreadable or the CA has expired: the key stays queued.
CannotSign(r) ==
  /\ csrPc = "idle" /\ r \in csrQueue
  /\ ~Ignored(csrLister[r]) /\ UsagesChecked(csrLister[r])
  /\ ~Signs(initCA)
  /\ ca' = initCA
  /\ UNCHANGED <<serverVars, csrLister, csrQueue, workerVars, caFile, caExpired, countVars>>

EndCsrSync(retry) ==
  /\ csrPc' = "idle" /\ csrKey' = None /\ csrSent' = NoRequest
  /\ csrQueue' = IF retry THEN csrQueue \cup {csrKey} ELSE csrQueue
  /\ UNCHANGED <<csrLister, caVars>>

\* The API server takes a status that was derived from the stored revision and
\* has no condition type twice.
Accepted(q, sent) == q.exists /\ q.rev = sent.rev /\ sent.failed <= 1

\* Of what is sent only the certificate and the Failed conditions are taken.
Written ==
  [request EXCEPT ![csrKey] = Stored([@ EXCEPT !.cert = csrSent.cert, !.failed = csrSent.failed])]

UpdateStatus ==
  /\ csrPc = "update"
  /\ \/ /\ Accepted(request[csrKey], csrSent)
        /\ request' = Written
        /\ EndCsrSync(FALSE)
     \/ /\ ~Accepted(request[csrKey], csrSent)
        /\ request' = request
        /\ EndCsrSync(TRUE)
  /\ UNCHANGED <<creates, countVars>>

\* The call is lost, or only its answer.
UpdateLost ==
  /\ csrPc = "update"
  /\ \/ request' = request
     \/ Accepted(request[csrKey], csrSent) /\ request' = Written
  /\ EndCsrSync(TRUE)
  /\ Disrupt
  /\ UNCHANGED <<creates, restarts>>

CsrSync(r) == CsrSyncIgnores(r) \/ FailRequest(r) \/ SignRequest(r) \/ CannotSign(r)

ProcessRestart ==
  /\ restarts < MaxRestarts /\ restarts' = restarts + 1
  /\ csrLister' = [r \in Requests |-> NoRequest]
  /\ csrQueue' = {}
  /\ csrPc' = "idle" /\ csrSent' = NoRequest /\ csrKey' = None
  /\ ca' = 0
  /\ UNCHANGED <<serverVars, caFile, caExpired, disruptions>>

CsrNext ==
  \/ \E r \in Requests : CsrInformer(r) \/ CsrResync(r) \/ CsrSync(r)
  \/ UpdateStatus \/ UpdateLost \/ CsrRelist
  \/ CsrEnvironment \/ ProcessRestart

CsrSpec == CsrInit /\ [][CsrNext]_csrVars

\* Watches deliver, resync timers fire, the worker runs and every waiting key
\* gets its turn.
CsrFairness ==
  /\ \A r \in Requests :
       WF_csrVars(CsrInformer(r)) /\ WF_csrVars(CsrResync(r)) /\ SF_csrVars(CsrSync(r))
  /\ WF_csrVars(UpdateStatus)

CsrFairSpec == CsrSpec /\ CsrFairness
-------------------------------------------------------------------------------
\* A copy of revision n, in the cache or on its way back to the API server,
\* agrees with the stored request of revision n in all that sync decides on.
SameRequest(q, stored) ==
  /\ q.exists = stored.exists /\ q.eligible = stored.eligible
  /\ q.usagesValid = stored.usagesValid /\ q.decision = stored.decision

CachedCopy(r) ==
  LET q == csrLister[r] IN
  /\ q.rev <= request[r].rev
  /\ q.rev = request[r].rev => SameRequest(q, request[r]) /\ q.cert = request[r].cert
  /\ q.failed # 0 => ~q.usagesValid

SentCopy ==
  /\ csrSent.rev <= request[csrKey].rev
  /\ csrSent.rev = request[csrKey].rev
       => SameRequest(csrSent, request[csrKey]) /\ request[csrKey].cert = 0
  /\ csrSent.exists /\ csrSent.eligible /\ csrSent.decision = "Approved"
  /\ csrSent.cert # 0 => csrSent.usagesValid
  /\ csrSent.failed # 0 => ~csrSent.usagesValid

\* What the conflict check of UpdateStatus rests on.  FailRequest changes a
\* cached object without a new revision: the damage stays in its Failed
\* conditions, and to requests that cannot be signed anyway.
CopiesFollowRevisions ==
  /\ \A r \in Requests : CachedCopy(r)
  /\ csrPc = "update" => SentCopy

\* The worker decides on a cached object and on approvals that may since belong
\* to a deleted namesake: even so a certificate only ever reaches a request that
\* was itself approved, for usages that were checked.
SignedOnlyWhenApproved ==
  \A r \in Requests :
    request[r].cert # 0
      => /\ request[r].exists /\ request[r].decision = "Approved"
         /\ request[r].eligible /\ request[r].usagesValid

\* A pass over a stale copy signs what is signed already; its certificate is
\* thrown away and the agent keeps the one it may have fetched.
CertificateNeverReplaced ==
  [][\A r \in Requests :
       request[r].cert # 0 /\ request'[r].exists => request'[r].cert = request[r].cert]_csrVars

\* A request is signed or failed, never both: agents act upon whichever of the
\* two they see first.
NeverSignedAndFailed == \A r \in Requests : request[r].cert = 0 \/ request[r].failed = 0

Signable(r) ==
  /\ request[r].exists /\ request[r].eligible /\ request[r].usagesValid
  /\ request[r].decision = "Approved"

\* Lost calls, lost answers, conflicts, unreadable files and restarts delay a
\* certificate but do not prevent it, once the CA the controller goes by can sign.
ApprovedEventuallySigned ==
  (<>[]Signs(initCA))
    => \A r \in Requests : Signable(r) ~> (request[r].cert # 0 \/ ~Signable(r))

\* types.go: "A "Failed" condition is added via the /status subresource,
\* indicating the signer failed to issue the certificate."  An approved request
\* for usages the signer refuses gets that condition.
Unsignable(r) ==
  /\ request[r].exists /\ request[r].eligible /\ ~request[r].usagesValid
  /\ request[r].decision = "Approved"
InvalidEventuallyFailed ==
  \A r \in Requests : Unsignable(r) ~> (request[r].failed # 0 \/ ~Unsignable(r))

\* An attempt to fail the request was lost, and the cached object shows it all
\* the same: that of the stored revision, with a condition that is not stored.
FailureLost(r) ==
  /\ request[r].exists /\ csrLister[r].rev = request[r].rev
  /\ csrLister[r].failed # 0 /\ request[r].failed = 0
  /\ csrPc = "update" /\ csrKey = r => csrSent.failed = 2

\* Retries and resyncs do not make up for it: each sends one condition more and
\* is refused, until the request is written by another or the cache refilled.
FailureLostUntilRefreshed ==
  [][\A r \in Requests :
       FailureLost(r) => \/ FailureLost(r)'
                         \/ request'[r].rev # request[r].rev
                         \/ csrLister'[r].failed = 0]_csrVars
-------------------------------------------------------------------------------
Kind(q) ==
  IF ~q.exists THEN "none" ELSE IF ~q.eligible THEN "foreign"
  ELSE IF q.usagesValid THEN "signable" ELSE "misused"

Status(q) ==
  IF ~q.exists THEN "absent" ELSE IF q.decision = "None" THEN "pending"
  ELSE IF q.decision = "Denied" THEN "denied" ELSE IF q.cert # 0 THEN "signed"
  ELSE IF q.failed # 0 THEN "failed" ELSE "approved"

Promise == INSTANCE CertificateRequests
  WITH kind <- [r \in Requests |-> Kind(request[r])],
       status <- [r \in Requests |-> Status(request[r])]

\* Caches that lag, conflicts, repeated passes, lost answers and restarts are
\* invisible in the stored requests: each is answered at most once, as it was
\* asked and decided.
RequestsAnsweredOnce == Promise!Spec
===============================================================================
