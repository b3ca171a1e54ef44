---------------------------- MODULE CSRSignerProofs ----------------------------
(***************************************************************************)
(* Proofs about the csrSigningController, for any requests and bounds.     *)
(***************************************************************************)
EXTENDS CSRSigner, TLAPS

\* The record updates of the model, field by field.
LEMMA StoredFields ==
  ASSUME NEW q \in RequestObjects
  PROVE  /\ Stored(q) \in RequestObjects
         /\ Stored(q).rev = q.rev + 1
         /\ SameRequest(Stored(q), q)
         /\ Stored(q).cert = q.cert /\ Stored(q).failed = q.failed
<1>1. Stored(q) \in RequestObjects /\ Stored(q).rev = q.rev + 1
  BY SMT DEF Stored, RequestObjects
<1>2. SameRequest(Stored(q), q) /\ Stored(q).cert = q.cert /\ Stored(q).failed = q.failed
  BY Zenon DEF Stored, RequestObjects, SameRequest
<1> QED BY <1>1, <1>2

LEMMA AppendFailedFields ==
  ASSUME NEW q \in RequestObjects
  PROVE  /\ AppendFailed(q) \in RequestObjects
         /\ AppendFailed(q).rev = q.rev /\ AppendFailed(q).cert = q.cert
         /\ SameRequest(AppendFailed(q), q)
<1>1. AppendFailed(q) \in RequestObjects
  BY SMT DEF AppendFailed, RequestObjects
<1>2. AppendFailed(q).rev = q.rev /\ AppendFailed(q).cert = q.cert /\ SameRequest(AppendFailed(q), q)
  BY Zenon DEF AppendFailed, RequestObjects, SameRequest
<1> QED BY <1>1, <1>2

LEMMA CertifiedFields ==
  ASSUME NEW q \in RequestObjects, NEW c \in Nat
  PROVE  LET s == [q EXCEPT !.cert = c] IN
         /\ s \in RequestObjects
         /\ s.rev = q.rev /\ s.cert = c /\ s.failed = q.failed /\ SameRequest(s, q)
BY Zenon DEF RequestObjects, SameRequest

LEMMA StatusFields ==
  ASSUME NEW q \in RequestObjects, NEW s \in RequestObjects
  PROVE  LET w == [q EXCEPT !.cert = s.cert, !.failed = s.failed] IN
         /\ w \in RequestObjects
         /\ w.rev = q.rev /\ w.cert = s.cert /\ w.failed = s.failed /\ SameRequest(w, q)
BY Zenon DEF RequestObjects, SameRequest

LEMMA DecidedFields ==
  ASSUME NEW q \in RequestObjects, NEW d \in {"Approved", "Denied"}
  PROVE  LET w == [q EXCEPT !.decision = d] IN
         /\ w \in RequestObjects
         /\ w.rev = q.rev /\ w.cert = q.cert /\ w.failed = q.failed
         /\ w.usagesValid = q.usagesValid
BY Zenon DEF RequestObjects

LEMMA NewFields ==
  ASSUME NEW n \in Nat, NEW e \in BOOLEAN, NEW u \in BOOLEAN
  PROVE  /\ Created(n, e, u) \in RequestObjects /\ Created(n, e, u).rev = n
         /\ Created(n, e, u).cert = 0 /\ Created(n, e, u).failed = 0
         /\ Gone(n) \in RequestObjects /\ Gone(n).rev = n
         /\ Gone(n).cert = 0 /\ Gone(n).failed = 0 /\ ~Gone(n).exists
<1>1. NoRequest \in RequestObjects
  BY DEF NoRequest, RequestObjects
<1> DEFINE w == Created(n, e, u)
<1> DEFINE d == Gone(n)
<1>2. w \in RequestObjects /\ w.rev = n /\ w.cert = NoRequest.cert /\ w.failed = NoRequest.failed
  BY <1>1, Zenon DEF Created, RequestObjects
<1>3. d \in RequestObjects /\ d.rev = n /\ d.cert = NoRequest.cert /\ d.failed = NoRequest.failed
      /\ d.exists = NoRequest.exists
  BY <1>1, Zenon DEF Gone, RequestObjects
<1>4. NoRequest.cert = 0 /\ NoRequest.failed = 0 /\ ~NoRequest.exists
  BY DEF NoRequest
<1> QED BY <1>1, <1>2, <1>3, <1>4, Zenon
-------------------------------------------------------------------------------
(* The inductive invariant: the types, what copies have in common with the *)
(* stored requests, and what is stored.                                    *)

FailedOnlyWhenInvalid == \A r \in Requests : request[r].failed # 0 => ~request[r].usagesValid

\* The empty cache of a new process agrees with a name that was never used.
NeverWritten == \A r \in Requests : request[r].rev = 0 => request[r] = NoRequest

SignerInv ==
  /\ CsrTypeOK
  /\ CopiesFollowRevisions
  /\ SignedOnlyWhenApproved
  /\ FailedOnlyWhenInvalid
  /\ NeverWritten

\* The environment and the API server give a request a new revision: no copy
\* agrees with it any more, and none has to.
LEMMA NewRevision ==
  ASSUME SignerInv, NEW r \in Requests, NEW q \in RequestObjects,
         q.rev = request[r].rev + 1, request' = [request EXCEPT ![r] = q],
         UNCHANGED csrLister, csrPc' = "idle" \/ UNCHANGED workerVars
  PROVE  CopiesFollowRevisions' /\ NeverWritten' /\ request' \in [Requests -> RequestObjects]
<1> USE DEF SignerInv, CsrTypeOK
<1>1. \A t \in Requests : request[t].rev \in Nat /\ csrLister[t].rev \in Nat
  BY DEF RequestObjects
<1>2. csrSent.rev \in Nat
  BY DEF RequestObjects
<1>3. ASSUME NEW t \in Requests PROVE CachedCopy(t)'
  BY <1>1, <1>3 DEF CopiesFollowRevisions, CachedCopy
<1>4. ASSUME csrPc' = "update" PROVE SentCopy'
  BY <1>1, <1>2, <1>4 DEF CopiesFollowRevisions, SentCopy, workerVars
<1>5. NeverWritten'
  BY <1>1 DEF NeverWritten
<1> QED BY <1>3, <1>4, <1>5 DEF CopiesFollowRevisions

LEMMA InitInv == CsrInit => SignerInv
<1> SUFFICES ASSUME CsrInit PROVE SignerInv
  OBVIOUS
<1> USE RequestsAssumption DEF CsrInit
<1>1. NoRequest \in RequestObjects
  BY DEF NoRequest, RequestObjects
<1>2. CsrTypeOK
  BY <1>1 DEF CsrTypeOK
<1>3. \A r \in Requests : request[r] = NoRequest /\ csrLister[r] = NoRequest
  OBVIOUS
<1>4. NoRequest.cert = 0 /\ NoRequest.failed = 0 /\ NoRequest.rev = 0
  BY DEF NoRequest
<1>5. CopiesFollowRevisions
  BY <1>3, <1>4 DEF CopiesFollowRevisions, CachedCopy, SameRequest
<1>6. SignedOnlyWhenApproved /\ FailedOnlyWhenInvalid /\ NeverWritten
  BY <1>3, <1>4 DEF SignedOnlyWhenApproved, FailedOnlyWhenInvalid, NeverWritten
<1> QED BY <1>2, <1>5, <1>6 DEF SignerInv

LEMMA EnvironmentInv ==
  ASSUME SignerInv, CsrEnvironment
  PROVE  SignerInv'
<1> USE DEF SignerInv, CsrTypeOK
<1>1. \A r \in Requests : request[r].rev \in Nat
  BY DEF RequestObjects
<1>2. ASSUME NEW r \in Requests, CreateRequest(r),
             UNCHANGED <<csrLister, csrQueue, workerVars, caVars, countVars>>
      PROVE  SignerInv'
  <2>1. PICK e \in BOOLEAN, u \in BOOLEAN :
          request' = [request EXCEPT ![r] = Stored(Created(request[r].rev, e, u))]
    BY <1>2 DEF CreateRequest
  <2> DEFINE w == Created(request[r].rev, e, u)
  <2>2. w \in RequestObjects /\ w.rev = request[r].rev /\ w.cert = 0 /\ w.failed = 0
    BY <1>1, NewFields
  <2>3. request' = [request EXCEPT ![r] = Stored(w)]
    BY <2>1
  <2> HIDE DEF w
  <2>4. /\ Stored(w) \in RequestObjects /\ Stored(w).rev = request[r].rev + 1
        /\ Stored(w).cert = 0 /\ Stored(w).failed = 0
    BY <2>2, StoredFields
  <2>5. CopiesFollowRevisions' /\ NeverWritten' /\ request' \in [Requests -> RequestObjects]
    BY <1>2, <2>3, <2>4, NewRevision
  <2>6. creates' \in [Requests -> 0..MaxCreates]
    BY <1>2, RequestsAssumption DEF CreateRequest
  <2>7. SignedOnlyWhenApproved' /\ FailedOnlyWhenInvalid'
    BY <2>3, <2>4 DEF SignedOnlyWhenApproved, FailedOnlyWhenInvalid
  <2> QED BY <1>2, <2>5, <2>6, <2>7 DEF workerVars, caVars, countVars
<1>3. ASSUME NEW r \in Requests, DecideRequest(r),
             UNCHANGED <<csrLister, csrQueue, workerVars, caVars, countVars>>
      PROVE  SignerInv'
  <2>1. PICK d \in {"Approved", "Denied"} :
          request' = [request EXCEPT ![r] = Stored([request[r] EXCEPT !.decision = d])]
    BY <1>3 DEF DecideRequest
  <2> DEFINE w == [request[r] EXCEPT !.decision = d]
  <2>2. /\ w \in RequestObjects /\ w.rev = request[r].rev /\ w.cert = request[r].cert
        /\ w.failed = request[r].failed /\ w.usagesValid = request[r].usagesValid
    BY DecidedFields
  <2>3. request' = [request EXCEPT ![r] = Stored(w)]
    BY <2>1
  <2> HIDE DEF w
  <2>4. /\ Stored(w) \in RequestObjects /\ Stored(w).rev = request[r].rev + 1
        /\ Stored(w).cert = request[r].cert /\ Stored(w).failed = request[r].failed
        /\ Stored(w).usagesValid = request[r].usagesValid
    BY <2>2, StoredFields DEF SameRequest
  <2>5. CopiesFollowRevisions' /\ NeverWritten' /\ request' \in [Requests -> RequestObjects]
    BY <1>3, <2>3, <2>4, NewRevision
  <2>6. request[r].cert = 0
    BY <1>3 DEF DecideRequest, SignedOnlyWhenApproved
  <2>7. SignedOnlyWhenApproved' /\ FailedOnlyWhenInvalid'
    BY <2>3, <2>4, <2>6 DEF SignedOnlyWhenApproved, FailedOnlyWhenInvalid
  <2> QED BY <1>3, <2>5, <2>7 DEF DecideRequest, workerVars, caVars, countVars
<1>4. ASSUME NEW r \in Requests, DeleteRequest(r) \/ TouchRequest(r), Disrupt,
             UNCHANGED <<csrLister, csrQueue, workerVars, caVars, restarts>>
      PROVE  SignerInv'
  <2> DEFINE d == Gone(request[r].rev)
  <2>1. PICK w \in {d, request[r]} : request' = [request EXCEPT ![r] = Stored(w)]
    BY <1>4 DEF DeleteRequest, TouchRequest
  <2>2. d \in RequestObjects /\ d.rev = request[r].rev /\ d.cert = 0 /\ d.failed = 0
    BY <1>1, NewFields
  <2> HIDE DEF d
  <2>3. w \in RequestObjects /\ w.rev = request[r].rev
    BY <2>1, <2>2
  <2>4. /\ Stored(w) \in RequestObjects /\ Stored(w).rev = request[r].rev + 1
        /\ Stored(w).cert = w.cert /\ Stored(w).failed = w.failed /\ SameRequest(Stored(w), w)
    BY <2>3, StoredFields
  <2>5. CopiesFollowRevisions' /\ NeverWritten' /\ request' \in [Requests -> RequestObjects]
    BY <1>4, <2>1, <2>4, NewRevision
  <2>6. SignedOnlyWhenApproved' /\ FailedOnlyWhenInvalid'
    BY <2>1, <2>2, <2>4 DEF SignedOnlyWhenApproved, FailedOnlyWhenInvalid, SameRequest
  <2>7. disruptions' \in 0..MaxDisruptions /\ UNCHANGED creates
    BY <1>4, RequestsAssumption DEF Disrupt, DeleteRequest, TouchRequest
  <2> QED BY <1>4, <2>5, <2>6, <2>7 DEF workerVars, caVars
<1>5. CASE ReplaceCA \/ ExpireCA
  <2>1. UNCHANGED <<serverVars, csrLister, csrQueue, workerVars, ca, countVars>>
    BY <1>5 DEF ReplaceCA, ExpireCA
  <2>2. caFile' \in 0..MaxCAs /\ caExpired' \in SUBSET (1..MaxCAs)
    <3>1. CASE ReplaceCA
      BY <3>1, RequestsAssumption DEF ReplaceCA
    <3>2. CASE ExpireCA
      <4>1. 1..caFile \in SUBSET (1..MaxCAs)
        BY RequestsAssumption
      <4> QED BY <3>2, <4>1 DEF ExpireCA
    <3> QED BY <1>5, <3>1, <3>2
  <2> QED
    BY <2>1, <2>2 DEF serverVars, workerVars, countVars, CopiesFollowRevisions, CachedCopy,
                      SentCopy, SignedOnlyWhenApproved, FailedOnlyWhenInvalid, NeverWritten
<1> QED BY <1>2, <1>3, <1>4, <1>5 DEF CsrEnvironment
-------------------------------------------------------------------------------
(* The informer and a restart leave the stored requests alone. *)
LEMMA InformerInv ==
  ASSUME SignerInv, (\E r \in Requests : CsrInformer(r) \/ CsrResync(r)) \/ CsrRelist
  PROVE  SignerInv'
<1> USE DEF SignerInv, CsrTypeOK
<1>1. UNCHANGED <<serverVars, workerVars, caVars, restarts>>
  BY DEF CsrInformer, CsrResync, CsrRelist, countVars
<1>2. csrQueue' \in SUBSET Requests /\ disruptions' \in 0..MaxDisruptions
  BY RequestsAssumption DEF CsrInformer, CsrResync, CsrRelist, countVars, Disrupt
<1>3. /\ csrLister' \in [Requests -> RequestObjects]
      /\ \A t \in Requests : csrLister'[t] \in {csrLister[t], request[t]}
  BY DEF CsrInformer, CsrResync, CsrRelist
<1>4. ASSUME NEW t \in Requests PROVE CachedCopy(t)'
  <2>1. request[t].rev \in Nat
    BY DEF RequestObjects
  <2> QED
    BY <1>1, <1>3, <2>1 DEF CopiesFollowRevisions, CachedCopy, SameRequest, serverVars,
                            FailedOnlyWhenInvalid
<1>5. csrPc' = "update" => SentCopy'
  BY <1>1 DEF CopiesFollowRevisions, SentCopy, SameRequest, serverVars, workerVars
<1>6. SignedOnlyWhenApproved' /\ FailedOnlyWhenInvalid' /\ NeverWritten'
  BY <1>1 DEF SignedOnlyWhenApproved, FailedOnlyWhenInvalid, NeverWritten, serverVars
<1> QED
  BY <1>1, <1>2, <1>3, <1>4, <1>5, <1>6
  DEF CopiesFollowRevisions, serverVars, workerVars, caVars

LEMMA RestartInv ==
  ASSUME SignerInv, ProcessRestart
  PROVE  SignerInv'
<1> USE DEF SignerInv, CsrTypeOK, ProcessRestart
<1>1. NoRequest \in RequestObjects /\ NoRequest.rev = 0 /\ NoRequest.failed = 0
  BY DEF NoRequest, RequestObjects
<1>2. CsrTypeOK'
  BY <1>1, RequestsAssumption DEF serverVars
<1>3. ASSUME NEW t \in Requests PROVE CachedCopy(t)'
  <2>1. csrLister'[t] = NoRequest
    OBVIOUS
  <2>2. request[t].rev \in Nat
    BY DEF RequestObjects
  <2> QED BY <1>1, <2>1, <2>2 DEF CachedCopy, SameRequest, NeverWritten, serverVars
<1>4. SignedOnlyWhenApproved' /\ FailedOnlyWhenInvalid' /\ NeverWritten'
  BY DEF SignedOnlyWhenApproved, FailedOnlyWhenInvalid, NeverWritten, serverVars
<1> QED BY <1>2, <1>3, <1>4 DEF CopiesFollowRevisions
-------------------------------------------------------------------------------
(* The worker decides. *)
LEMMA SyncInv ==
  ASSUME SignerInv, NEW r \in Requests, CsrSync(r)
  PROVE  SignerInv'
<1> USE DEF SignerInv, CsrTypeOK
<1> DEFINE q == csrLister[r]
<1>1. q \in RequestObjects /\ q.rev \in Nat /\ request[r].rev \in Nat
  BY DEF RequestObjects
<1>2. UNCHANGED <<serverVars, countVars, caFile, caExpired>>
  BY DEF CsrSync, CsrSyncIgnores, FailRequest, SignRequest, CannotSign, caVars
<1>3. SignedOnlyWhenApproved' /\ FailedOnlyWhenInvalid' /\ NeverWritten'
  BY <1>2 DEF SignedOnlyWhenApproved, FailedOnlyWhenInvalid, NeverWritten, serverVars
<1>4. ca' \in 0..MaxCAs /\ csrQueue' \in SUBSET Requests
  BY DEF CsrSync, CsrSyncIgnores, FailRequest, SignRequest, CannotSign, initCA, loadCertKeyPair, Send, caVars
<1>5. CASE CsrSyncIgnores(r) \/ CannotSign(r)
  <2>1. UNCHANGED <<csrLister, workerVars>>
    BY <1>5 DEF CsrSyncIgnores, CannotSign
  <2>2. CopiesFollowRevisions'
    BY <1>2, <2>1 DEF CopiesFollowRevisions, CachedCopy, SentCopy, serverVars, workerVars
  <2> QED
    BY <1>2, <1>3, <1>4, <2>1, <2>2 DEF serverVars, countVars, workerVars
<1>6. CASE FailRequest(r)
  <2> DEFINE s == AppendFailed(q)
  <2>1. s \in RequestObjects /\ s.rev = q.rev /\ s.cert = q.cert /\ SameRequest(s, q)
    BY <1>1, AppendFailedFields
  <2>2. csrLister' = [csrLister EXCEPT ![r] = s] /\ csrPc' = "update" /\ csrKey' = r
    BY <1>6 DEF FailRequest, Send
  <2>3. csrSent' = s
    BY <1>6, <2>2 DEF FailRequest, Send
  <2>4. ~Ignored(q) /\ ~q.usagesValid
    BY <1>6 DEF FailRequest, UsagesChecked
  <2> HIDE DEF q, s
  <2>5. ASSUME NEW t \in Requests PROVE CachedCopy(t)'
    <3>1. CASE t = r
      BY <1>2, <2>1, <2>2, <2>4, <3>1
      DEF CopiesFollowRevisions, CachedCopy, SameRequest, serverVars, q
    <3>2. CASE t # r
      BY <1>2, <2>2, <3>2 DEF CopiesFollowRevisions, CachedCopy, serverVars
    <3> QED BY <3>1, <3>2
  <2>6. SentCopy'
    <3>1. CachedCopy(r)
      BY DEF CopiesFollowRevisions
    <3>2. request'[r] = request[r]
      BY <1>2 DEF serverVars
    <3> QED
      BY <2>1, <2>2, <2>3, <2>4, <3>1, <3>2
      DEF SentCopy, CachedCopy, SameRequest, Ignored, isApproved, q
  <2> QED
    BY <1>2, <1>3, <1>4, <2>1, <2>2, <2>3, <2>5, <2>6
    DEF CopiesFollowRevisions, serverVars, countVars
<1>7. CASE SignRequest(r)
  <2> DEFINE s == [csrLister[r] EXCEPT !.cert = sign(csrLister[r])]
  <2>1. /\ s \in RequestObjects /\ s.rev = q.rev /\ s.cert = sign(q)
        /\ s.failed = q.failed /\ SameRequest(s, q)
    <3>1. sign(q) \in Nat
      BY <1>1 DEF sign
    <3> QED BY <1>1, <3>1, CertifiedFields, Zenon
  <2>2. csrLister' = csrLister /\ csrPc' = "update" /\ csrKey' = r /\ csrSent' = s
    BY <1>7 DEF SignRequest, Send
  <2>3. ~Ignored(q) /\ q.usagesValid
    BY <1>7 DEF SignRequest, UsagesChecked
  <2> HIDE DEF q, s
  <2>4. ASSUME NEW t \in Requests PROVE CachedCopy(t)'
    BY <1>2, <2>2 DEF CopiesFollowRevisions, CachedCopy, serverVars
  <2>5. SentCopy'
    <3>1. CachedCopy(r)
      BY DEF CopiesFollowRevisions
    <3>2. request'[r] = request[r]
      BY <1>2 DEF serverVars
    <3> QED
      BY <2>1, <2>2, <2>3, <3>1, <3>2
      DEF SentCopy, CachedCopy, SameRequest, Ignored, isApproved, q
  <2> QED
    BY <1>2, <1>3, <1>4, <2>1, <2>2, <2>4, <2>5
    DEF CopiesFollowRevisions, serverVars, countVars
<1> QED BY <1>5, <1>6, <1>7 DEF CsrSync
-------------------------------------------------------------------------------
(* The worker's answer reaches the API server, or does not. *)

\* What is written is written to a request that has no certificate yet and on
\* which the worker decided as it is stored.
LEMMA WrittenFields ==
  ASSUME SignerInv, csrPc = "update", Accepted(request[csrKey], csrSent), request' = Written
  PROVE  LET s == request'[csrKey] IN
         /\ csrKey \in Requests /\ s \in RequestObjects
         /\ request' = [request EXCEPT ![csrKey] = s]
         /\ s.rev = request[csrKey].rev + 1
         /\ request[csrKey].cert = 0
         /\ SameRequest(s, csrSent) /\ s.cert = csrSent.cert /\ s.failed = csrSent.failed
<1> USE DEF SignerInv, CsrTypeOK
<1> DEFINE w == [request[csrKey] EXCEPT !.cert = csrSent.cert, !.failed = csrSent.failed]
<1>1. csrKey \in Requests /\ csrSent \in RequestObjects /\ request[csrKey] \in RequestObjects
  OBVIOUS
<1>2. /\ w \in RequestObjects /\ w.rev = request[csrKey].rev /\ w.cert = csrSent.cert
      /\ w.failed = csrSent.failed /\ SameRequest(w, request[csrKey])
  BY <1>1, StatusFields, Zenon
<1>3. request' = [request EXCEPT ![csrKey] = Stored(w)]
  BY DEF Written
<1> HIDE DEF w
<1>4. /\ Stored(w) \in RequestObjects /\ Stored(w).rev = request[csrKey].rev + 1
      /\ SameRequest(Stored(w), w) /\ Stored(w).cert = csrSent.cert
      /\ Stored(w).failed = csrSent.failed
  BY <1>2, StoredFields
<1>5. request'[csrKey] = Stored(w)
  BY <1>1, <1>3
<1>6. SameRequest(csrSent, request[csrKey]) /\ request[csrKey].cert = 0
  BY DEF CopiesFollowRevisions, SentCopy, Accepted
<1>7. SameRequest(Stored(w), csrSent)
  BY <1>2, <1>4, <1>6 DEF SameRequest
<1> QED BY <1>1, <1>3, <1>4, <1>5, <1>6, <1>7

LEMMA AnswerInv ==
  ASSUME SignerInv, UpdateStatus \/ UpdateLost
  PROVE  SignerInv'
<1> USE DEF SignerInv, CsrTypeOK
<1>1. /\ csrPc = "update" /\ csrPc' = "idle" /\ csrKey' = None /\ csrSent' = NoRequest
      /\ csrQueue' \in SUBSET Requests /\ UNCHANGED <<csrLister, caVars, creates, restarts>>
  BY DEF UpdateStatus, UpdateLost, EndCsrSync, countVars
<1>2. NoRequest \in RequestObjects
  BY DEF NoRequest, RequestObjects
<1>3. disruptions' \in 0..MaxDisruptions
  <2>1. CASE UpdateStatus
    BY <2>1 DEF UpdateStatus, countVars
  <2>2. CASE UpdateLost
    BY <2>2, RequestsAssumption DEF UpdateLost, Disrupt
  <2> QED BY <2>1, <2>2
<1>4. CASE request' = request
  <2>1. CopiesFollowRevisions'
    BY <1>1, <1>4 DEF CopiesFollowRevisions, CachedCopy
  <2>2. SignedOnlyWhenApproved' /\ FailedOnlyWhenInvalid' /\ NeverWritten'
    BY <1>4 DEF SignedOnlyWhenApproved, FailedOnlyWhenInvalid, NeverWritten
  <2> QED BY <1>1, <1>2, <1>3, <1>4, <2>1, <2>2 DEF caVars
<1>5. CASE Accepted(request[csrKey], csrSent) /\ request' = Written
  <2> DEFINE s == request'[csrKey]
  <2>1. /\ csrKey \in Requests /\ s \in RequestObjects
        /\ request' = [request EXCEPT ![csrKey] = s] /\ s.rev = request[csrKey].rev + 1
        /\ SameRequest(s, csrSent) /\ s.cert = csrSent.cert /\ s.failed = csrSent.failed
    BY <1>1, <1>5, WrittenFields
  <2> HIDE DEF s
  <2>2. CopiesFollowRevisions' /\ NeverWritten' /\ request' \in [Requests -> RequestObjects]
    BY <1>1, <2>1, NewRevision
  <2>3. SentCopy
    BY <1>1 DEF CopiesFollowRevisions
  <2>4. SignedOnlyWhenApproved' /\ FailedOnlyWhenInvalid'
    BY <2>1, <2>3 DEF SentCopy, SameRequest, SignedOnlyWhenApproved, FailedOnlyWhenInvalid
  <2> QED BY <1>1, <1>2, <1>3, <2>2, <2>4 DEF caVars
<1> QED BY <1>4, <1>5 DEF UpdateStatus, UpdateLost

LEMMA NextInv == SignerInv /\ [CsrNext]_csrVars => SignerInv'
<1> SUFFICES ASSUME SignerInv, [CsrNext]_csrVars PROVE SignerInv'
  OBVIOUS
<1>1. CASE UNCHANGED csrVars
  BY <1>1 DEF csrVars, serverVars, workerVars, caVars, countVars, SignerInv, CsrTypeOK,
              CopiesFollowRevisions, CachedCopy, SentCopy, SignedOnlyWhenApproved,
              FailedOnlyWhenInvalid, NeverWritten
<1> QED
  BY <1>1, EnvironmentInv, InformerInv, RestartInv, SyncInv, AnswerInv DEF CsrNext

LEMMA SignerInvariant == CsrSpec => []SignerInv
<1> QED BY InitInv, NextInv, PTL DEF CsrSpec
-------------------------------------------------------------------------------
\* The variables of the signer keep their types.
THEOREM CsrTypeCorrect == CsrSpec => []CsrTypeOK
BY SignerInvariant, PTL DEF SignerInv

\* The conflict check of UpdateStatus is enough for a worker that goes by a
\* cache it also writes to: copies of the stored revision agree with it.
THEOREM CopiesCorrect == CsrSpec => []CopiesFollowRevisions
BY SignerInvariant, PTL DEF SignerInv

\* Only a request that was itself approved, for checked usages, gets a
\* certificate, however old the worker's copy is.
THEOREM SignedSound == CsrSpec => []SignedOnlyWhenApproved
BY SignerInvariant, PTL DEF SignerInv

\* No request is both signed and failed.
THEOREM NeverBoth == CsrSpec => []NeverSignedAndFailed
<1>1. SignerInv => NeverSignedAndFailed
  BY DEF SignerInv, SignedOnlyWhenApproved, FailedOnlyWhenInvalid, NeverSignedAndFailed
<1> QED BY <1>1, SignerInvariant, PTL

\* Whatever is lost, repeated or stale, a stored certificate stays as it is for
\* as long as its request exists.
THEOREM CertificateStays == CsrSpec => CertificateNeverReplaced
<1> DEFINE Kept == \A r \in Requests :
      request[r].cert # 0 /\ request'[r].exists => request'[r].cert = request[r].cert
<1>1. SignerInv /\ [CsrNext]_csrVars => [Kept]_csrVars
  <2> SUFFICES ASSUME SignerInv, CsrNext PROVE Kept
    BY DEF csrVars
  <2> USE DEF SignerInv, CsrTypeOK
  <2>1. CASE request' = request
    BY <2>1
  <2>2. ASSUME NEW r \in Requests, CreateRequest(r) \/ DecideRequest(r) \/ DeleteRequest(r) \/ TouchRequest(r)
        PROVE  Kept
    <3>1. CASE CreateRequest(r) \/ DecideRequest(r)
      BY <3>1 DEF CreateRequest, DecideRequest, SignedOnlyWhenApproved
    <3>2. CASE DeleteRequest(r)
      <4> DEFINE d == Gone(request[r].rev)
      <4>1. d \in RequestObjects /\ ~d.exists
        <5>1. request[r].rev \in Nat
          BY DEF RequestObjects
        <5> QED BY <5>1, NewFields
      <4>2. ~Stored(d).exists
        BY <4>1, StoredFields DEF SameRequest
      <4>3. request' = [request EXCEPT ![r] = Stored(d)]
        BY <3>2 DEF DeleteRequest
      <4> HIDE DEF d
      <4> QED BY <4>2, <4>3
    <3>3. CASE TouchRequest(r)
      BY <3>3, StoredFields DEF TouchRequest
    <3> QED BY <2>2, <3>1, <3>2, <3>3
  <2>3. ASSUME UpdateStatus \/ UpdateLost PROVE Kept
    <3>1. CASE Accepted(request[csrKey], csrSent) /\ request' = Written
      BY <2>3, <3>1, WrittenFields DEF UpdateStatus, UpdateLost
    <3> QED BY <2>1, <2>3, <3>1 DEF UpdateStatus, UpdateLost
  <2> QED
    BY <2>1, <2>2, <2>3
    DEF CsrNext, CsrEnvironment, CsrInformer, CsrResync, CsrSync, CsrSyncIgnores, FailRequest,
        SignRequest, CannotSign, CsrRelist, ReplaceCA, ExpireCA, ProcessRestart, serverVars
<1> QED BY <1>1, SignerInvariant, PTL DEF CsrSpec, CertificateNeverReplaced

\* A write by the environment shows in the revision.
LEMMA EnvironmentMovesRevision ==
  ASSUME SignerInv, CsrEnvironment
  PROVE  \A r \in Requests : request'[r] = request[r] \/ request'[r].rev # request[r].rev
<1> USE DEF SignerInv, CsrTypeOK
<1>1. \A r \in Requests : request[r].rev \in Nat
  BY DEF RequestObjects
<1>2. ASSUME NEW t \in Requests, NEW q \in RequestObjects, q.rev = request[t].rev,
             request' = [request EXCEPT ![t] = Stored(q)], NEW r \in Requests
      PROVE  request'[r] = request[r] \/ request'[r].rev # request[r].rev
  <2>1. Stored(q).rev = request[t].rev + 1
    BY <1>2, StoredFields
  <2> QED BY <1>1, <1>2, <2>1
<1>3. ASSUME NEW t \in Requests, CreateRequest(t)
      PROVE  \E q \in RequestObjects : q.rev = request[t].rev /\ request' = [request EXCEPT ![t] = Stored(q)]
  BY <1>1, <1>3, NewFields DEF CreateRequest
<1>4. ASSUME NEW t \in Requests, DecideRequest(t)
      PROVE  \E q \in RequestObjects : q.rev = request[t].rev /\ request' = [request EXCEPT ![t] = Stored(q)]
  <2>1. PICK d \in {"Approved", "Denied"} :
          request' = [request EXCEPT ![t] = Stored([request[t] EXCEPT !.decision = d])]
    BY <1>4 DEF DecideRequest
  <2> QED BY <2>1, DecidedFields
<1>5. ASSUME NEW t \in Requests, DeleteRequest(t) \/ TouchRequest(t)
      PROVE  \E q \in RequestObjects : q.rev = request[t].rev /\ request' = [request EXCEPT ![t] = Stored(q)]
  BY <1>1, <1>5, NewFields DEF DeleteRequest, TouchRequest
<1>6. ReplaceCA \/ ExpireCA => request' = request
  BY DEF ReplaceCA, ExpireCA, serverVars
<1> QED BY <1>2, <1>3, <1>4, <1>5, <1>6 DEF CsrEnvironment

\* FailRequest appends to a cached object that is never signed, and the API
\* server refuses two conditions of one type: a failure that was lost is lost
\* for good unless the cached object is replaced.
THEOREM LostFailuresStay == CsrSpec => FailureLostUntilRefreshed
<1> DEFINE Stays(r) == \/ FailureLost(r)'
                       \/ request'[r].rev # request[r].rev
                       \/ csrLister'[r].failed = 0
<1>1. SignerInv /\ [CsrNext]_csrVars
        => [\A r \in Requests : FailureLost(r) => Stays(r)]_csrVars
  <2> SUFFICES ASSUME SignerInv, CsrNext, NEW r \in Requests, FailureLost(r) PROVE Stays(r)
    BY DEF csrVars
  <2> USE DEF SignerInv, CsrTypeOK
  <2>1. CASE UNCHANGED <<request, csrLister, workerVars>>
    BY <2>1 DEF FailureLost, workerVars
  <2>2. CASE CsrEnvironment
    <3>1. UNCHANGED <<csrLister, workerVars>>
      BY <2>2 DEF CsrEnvironment, ReplaceCA, ExpireCA
    <3>2. request'[r] = request[r] \/ request'[r].rev # request[r].rev
      BY <2>2, EnvironmentMovesRevision
    <3> QED BY <3>1, <3>2 DEF FailureLost, workerVars
  <2>3. ASSUME NEW t \in Requests, CsrInformer(t) PROVE Stays(r)
    BY <2>3 DEF CsrInformer, FailureLost, serverVars, workerVars
  <2>4. CASE CsrRelist
    BY <2>4 DEF CsrRelist, FailureLost
  <2>5. CASE ProcessRestart
    BY <2>5 DEF ProcessRestart, NoRequest
  <2>6. ASSUME NEW t \in Requests, FailRequest(t) PROVE Stays(r)
    <3>1. /\ csrLister' = [csrLister EXCEPT ![t] = AppendFailed(csrLister[t])]
          /\ csrKey' = t /\ csrSent' = csrLister'[t] /\ request' = request
      BY <2>6 DEF FailRequest, Send, serverVars
    <3>2. CASE t = r
      <4>1. csrLister[r] \in RequestObjects
        OBVIOUS
      <4>2. AppendFailed(csrLister[r]).failed = 2
        BY <4>1, SMT DEF AppendFailed, RequestObjects, FailureLost
      <4>3. AppendFailed(csrLister[r]).rev = csrLister[r].rev
        BY <4>1, AppendFailedFields
      <4> QED BY <3>1, <3>2, <4>2, <4>3 DEF FailureLost
    <3>3. CASE t # r
      BY <3>1, <3>3 DEF FailureLost
    <3> QED BY <3>2, <3>3
  <2>7. ASSUME NEW t \in Requests, SignRequest(t) PROVE Stays(r)
    <3>1. csrKey' = t /\ csrLister[t].usagesValid /\ UNCHANGED <<request, csrLister>>
      BY <2>7 DEF SignRequest, Send, UsagesChecked, serverVars
    <3>2. ~csrLister[r].usagesValid
      BY DEF FailureLost, CopiesFollowRevisions, CachedCopy
    <3> QED BY <3>1, <3>2 DEF FailureLost
  <2>8. CASE UpdateStatus \/ UpdateLost
    <3>1. csrPc = "update" /\ csrPc' = "idle" /\ csrLister' = csrLister
      BY <2>8 DEF UpdateStatus, UpdateLost, EndCsrSync
    <3>2. request'[r] = request[r]
      <4>1. CASE Accepted(request[csrKey], csrSent) /\ request' = Written
        <5>1. csrKey # r
          BY <3>1, <4>1 DEF FailureLost, Accepted
        <5> QED BY <4>1, <5>1 DEF Written
      <4> QED BY <2>8, <4>1 DEF UpdateStatus, UpdateLost
    <3> QED BY <3>1, <3>2 DEF FailureLost
  <2>9. ASSUME NEW t \in Requests, CsrResync(t) \/ CsrSyncIgnores(t) \/ CannotSign(t)
        PROVE  UNCHANGED <<request, csrLister, workerVars>>
    BY <2>9 DEF CsrResync, CsrSyncIgnores, CannotSign, serverVars
  <2> QED
    BY <2>1, <2>2, <2>3, <2>4, <2>5, <2>6, <2>7, <2>8, <2>9 DEF CsrNext, CsrSync
<1> QED BY <1>1, SignerInvariant, PTL DEF CsrSpec, FailureLostUntilRefreshed
-------------------------------------------------------------------------------
(* The stored requests do what CertificateRequests promises.  The mapping   *)
(* takes one request at a time, and a step writes to one request at most.   *)

\* What the worker sends is an answer.
SendsAnswers == csrPc = "update" => csrSent.cert # 0 \/ csrSent.failed # 0

LEMMA AnswersSent == SignerInv /\ SendsAnswers /\ [CsrNext]_csrVars => SendsAnswers'
<1> SUFFICES ASSUME SignerInv, SendsAnswers, [CsrNext]_csrVars PROVE SendsAnswers'
  OBVIOUS
<1> USE DEF SignerInv, CsrTypeOK
<1>1. ASSUME NEW r \in Requests, FailRequest(r) PROVE SendsAnswers'
  <2>1. csrSent' = AppendFailed(csrLister[r])
    BY <1>1 DEF FailRequest, Send
  <2>2. csrLister[r] \in RequestObjects
    OBVIOUS
  <2>3. AppendFailed(csrLister[r]).failed # 0
    BY <2>2, SMT DEF AppendFailed, RequestObjects
  <2> QED BY <2>1, <2>3 DEF SendsAnswers
<1>2. ASSUME NEW r \in Requests, SignRequest(r) PROVE SendsAnswers'
  <2> DEFINE q == csrLister[r]
  <2>1. q \in RequestObjects /\ q.rev + 1 \in Nat /\ q.rev + 1 # 0
    BY DEF RequestObjects
  <2>2. csrSent' = [q EXCEPT !.cert = q.rev + 1]
    BY <1>2 DEF SignRequest, Send, sign
  <2> HIDE DEF q
  <2>3. csrSent'.cert = q.rev + 1
    BY <2>1, <2>2, CertifiedFields
  <2> QED BY <2>1, <2>3 DEF SendsAnswers
<1>3. CASE UNCHANGED <<csrPc, csrSent>>
  BY <1>3 DEF SendsAnswers
<1>4. CASE csrPc' = "idle"
  BY <1>4 DEF SendsAnswers
<1> QED
  BY <1>1, <1>2, <1>3, <1>4
  DEF CsrNext, CsrEnvironment, CsrInformer, CsrResync, CsrSync, CsrSyncIgnores, CannotSign, CsrRelist,
      ReplaceCA, ExpireCA, ProcessRestart, UpdateStatus, UpdateLost, EndCsrSync, workerVars, csrVars

\* A write to one request maps to a step of the promise, or to none.
LEMMA WriteMaps ==
  ASSUME request \in [Requests -> RequestObjects], NEW r \in Requests, NEW q \in RequestObjects,
         request' = [request EXCEPT ![r] = q],
         LET old == request[r] IN
           \/ Kind(q) = Kind(old) /\ Status(q) = Status(old)
           \/ Status(old) = "absent" /\ Status(q) = "pending" /\ Kind(q) # "none"
           \/ Status(old) = "pending" /\ Status(q) \in {"approved", "denied"} /\ Kind(q) = Kind(old)
           \/ Status(old) = "approved" /\ Status(q) = "signed" /\ Kind(old) = "signable" /\ Kind(q) = Kind(old)
           \/ Status(old) = "approved" /\ Status(q) = "failed" /\ Kind(old) = "misused" /\ Kind(q) = Kind(old)
           \/ Status(old) # "absent" /\ Status(q) = "absent"
  PROVE  [Promise!Next]_(Promise!requestVars)
<1> DEFINE k == [s \in Requests |-> Kind(request[s])]
           t == [s \in Requests |-> Status(request[s])]
<1>1. k' = [k EXCEPT ![r] = Kind(q)] /\ t' = [t EXCEPT ![r] = Status(q)]
  BY DEF Kind, Status
<1>2. k[r] = Kind(request[r]) /\ t[r] = Status(request[r])
  OBVIOUS
<1>3. Kind(q) \in Promise!Kinds
  BY DEF Kind, Promise!Kinds
<1>4. Status(q) = "absent" => Kind(q) = "none"
  BY DEF Kind, Status
<1>5. k \in [Requests -> Promise!Kinds] /\ t \in [Requests -> Promise!Statuses]
  BY DEF Kind, Status, Promise!Kinds, Promise!Statuses
<1> HIDE DEF k, t
<1>6. CASE Kind(q) = k[r] /\ Status(q) = t[r]
  <2>1. k' = k /\ t' = t
    BY <1>1, <1>5, <1>6
  <2> QED BY <2>1 DEF k, t, Promise!requestVars
<1>7. CASE t[r] = "absent" /\ Status(q) = "pending" /\ Kind(q) # "none"
  <2>1. Promise!Create(r)
    BY <1>1, <1>3, <1>7 DEF Promise!Create, Promise!Move, k, t
  <2> QED BY <2>1 DEF Promise!Next
<1>8. CASE t[r] = "pending" /\ Status(q) \in {"approved", "denied"} /\ Kind(q) = k[r]
  <2>1. k' = k
    BY <1>1, <1>5, <1>8
  <2>2. Promise!Decide(r)
    BY <1>1, <1>8, <2>1 DEF Promise!Decide, Promise!Move, k, t
  <2> QED BY <2>2 DEF Promise!Next
<1>9. CASE t[r] = "approved" /\ Status(q) = "signed" /\ k[r] = "signable" /\ Kind(q) = k[r]
  <2>1. k' = k
    BY <1>1, <1>5, <1>9
  <2>2. Promise!Sign(r)
    BY <1>1, <1>9, <2>1 DEF Promise!Sign, Promise!Move, k, t
  <2> QED BY <2>2 DEF Promise!Next
<1>10. CASE t[r] = "approved" /\ Status(q) = "failed" /\ k[r] = "misused" /\ Kind(q) = k[r]
  <2>1. k' = k
    BY <1>1, <1>5, <1>10
  <2>2. Promise!Fail(r)
    BY <1>1, <1>10, <2>1 DEF Promise!Fail, Promise!Move, k, t
  <2> QED BY <2>2 DEF Promise!Next
<1>11. CASE t[r] # "absent" /\ Status(q) = "absent"
  <2>1. Promise!Delete(r)
    BY <1>1, <1>4, <1>11 DEF Promise!Delete, k, t
  <2> QED BY <2>1 DEF Promise!Next
<1> QED BY <1>2, <1>6, <1>7, <1>8, <1>9, <1>10, <1>11

\* Only an approved request is failed.
FailedOnlyWhenApproved == \A r \in Requests : request[r].failed # 0 => request[r].decision = "Approved"

\* The fields of a new, a decided and a deleted request that make its status.
LEMMA CreatedStatus ==
  ASSUME NEW n \in Nat, NEW e \in BOOLEAN, NEW u \in BOOLEAN
  PROVE  LET c == Stored(Created(n, e, u)) IN
         c \in RequestObjects /\ c.exists /\ c.decision = "None" /\ c.failed = 0
<1> DEFINE c == Created(n, e, u)
<1>1. c \in RequestObjects /\ c.failed = 0
  BY NewFields
<1>2. [NoRequest EXCEPT !.rev = n, !.exists = TRUE, !.eligible = e, !.usagesValid = u].exists
  BY Zenon DEF NoRequest
<1>3. [NoRequest EXCEPT !.rev = n, !.exists = TRUE, !.eligible = e, !.usagesValid = u].decision = "None"
  BY Zenon DEF NoRequest
<1>4. c.exists /\ c.decision = "None"
  BY <1>2, <1>3, Zenon DEF Created
<1> HIDE DEF c
<1>5. Stored(c) \in RequestObjects /\ SameRequest(Stored(c), c) /\ Stored(c).failed = c.failed
  BY <1>1, StoredFields
<1> QED BY <1>1, <1>4, <1>5, Zenon DEF SameRequest, c

LEMMA DecidedStatus ==
  ASSUME NEW q \in RequestObjects, NEW d \in {"Approved", "Denied"}
  PROVE  LET w == Stored([q EXCEPT !.decision = d]) IN
         /\ w \in RequestObjects /\ w.decision = d /\ w.cert = q.cert /\ w.failed = q.failed
         /\ w.exists = q.exists /\ w.eligible = q.eligible /\ w.usagesValid = q.usagesValid
<1> DEFINE w == [q EXCEPT !.decision = d]
<1>1. /\ w \in RequestObjects /\ w.decision = d /\ w.cert = q.cert /\ w.failed = q.failed
      /\ w.exists = q.exists /\ w.eligible = q.eligible /\ w.usagesValid = q.usagesValid
  BY Zenon DEF RequestObjects
<1> HIDE DEF w
<1>2. /\ Stored(w) \in RequestObjects /\ SameRequest(Stored(w), w)
      /\ Stored(w).cert = w.cert /\ Stored(w).failed = w.failed
  BY <1>1, StoredFields
<1> QED BY <1>1, <1>2, Zenon DEF SameRequest, w

LEMMA GoneStatus ==
  ASSUME NEW n \in Nat
  PROVE  LET g == Stored(Gone(n)) IN g \in RequestObjects /\ ~g.exists /\ g.failed = 0
<1> DEFINE g == Gone(n)
<1>1. g \in RequestObjects /\ g.failed = 0 /\ ~g.exists
  BY NewFields
<1> HIDE DEF g
<1>2. Stored(g) \in RequestObjects /\ SameRequest(Stored(g), g) /\ Stored(g).failed = g.failed
  BY <1>1, StoredFields
<1> QED BY <1>1, <1>2, Zenon DEF SameRequest, g

\* What the environment writes maps to a step, and fails no request.
LEMMA EnvironmentMaps ==
  ASSUME SignerInv, FailedOnlyWhenApproved, NEW r \in Requests,
         CreateRequest(r) \/ DecideRequest(r) \/ DeleteRequest(r) \/ TouchRequest(r)
  PROVE  FailedOnlyWhenApproved' /\ [Promise!Next]_(Promise!requestVars)
<1> USE DEF SignerInv, CsrTypeOK
<1> DEFINE old == request[r]
<1>1. old \in RequestObjects /\ old.rev \in Nat
  BY DEF RequestObjects
<1>2. CASE CreateRequest(r)
  <2>1. PICK e \in BOOLEAN, u \in BOOLEAN :
          request' = [request EXCEPT ![r] = Stored(Created(request[r].rev, e, u))]
    BY <1>2 DEF CreateRequest
  <2> DEFINE q == Stored(Created(request[r].rev, e, u))
  <2>2. q \in RequestObjects /\ q.exists /\ q.decision = "None" /\ q.failed = 0
    BY <1>1, CreatedStatus, Zenon
  <2>3. request' = [request EXCEPT ![r] = q]
    BY <2>1
  <2> HIDE DEF q
  <2>4. Status(old) = "absent" /\ Status(q) = "pending" /\ Kind(q) # "none"
    BY <1>2, <2>2 DEF CreateRequest, Status, Kind
  <2> QED BY <2>2, <2>3, <2>4, WriteMaps DEF FailedOnlyWhenApproved
<1>3. CASE DecideRequest(r)
  <2>1. PICK d \in {"Approved", "Denied"} :
          request' = [request EXCEPT ![r] = Stored([request[r] EXCEPT !.decision = d])]
    BY <1>3 DEF DecideRequest
  <2> DEFINE q == Stored([request[r] EXCEPT !.decision = d])
  <2>2. /\ q \in RequestObjects /\ q.decision = d /\ q.cert = old.cert /\ q.failed = old.failed
        /\ q.exists = old.exists /\ q.eligible = old.eligible /\ q.usagesValid = old.usagesValid
    BY <1>1, DecidedStatus, Zenon
  <2>3. request' = [request EXCEPT ![r] = q]
    BY <2>1
  <2> HIDE DEF q
  <2>4. old.exists /\ old.decision = "None" /\ old.cert = 0 /\ old.failed = 0
    BY <1>3 DEF DecideRequest, SignedOnlyWhenApproved, FailedOnlyWhenApproved
  <2>5. Status(old) = "pending" /\ Status(q) \in {"approved", "denied"} /\ Kind(q) = Kind(old)
    BY <2>2, <2>4 DEF Status, Kind
  <2> QED BY <2>2, <2>3, <2>4, <2>5, WriteMaps DEF FailedOnlyWhenApproved
<1>4. CASE DeleteRequest(r)
  <2> DEFINE q == Stored(Gone(request[r].rev))
  <2>1. q \in RequestObjects /\ ~q.exists /\ q.failed = 0
    BY <1>1, GoneStatus, Zenon
  <2>2. request' = [request EXCEPT ![r] = q]
    BY <1>4 DEF DeleteRequest
  <2> HIDE DEF q
  <2>3. Status(old) # "absent" /\ Status(q) = "absent"
    BY <1>4, <2>1 DEF DeleteRequest, Status
  <2> QED BY <2>1, <2>2, <2>3, WriteMaps DEF FailedOnlyWhenApproved
<1>5. CASE TouchRequest(r)
  <2>1. /\ Stored(old) \in RequestObjects /\ SameRequest(Stored(old), old)
        /\ Stored(old).cert = old.cert /\ Stored(old).failed = old.failed
    BY <1>1, StoredFields
  <2>2. request' = [request EXCEPT ![r] = Stored(old)]
    BY <1>5 DEF TouchRequest
  <2>3. Kind(Stored(old)) = Kind(old) /\ Status(Stored(old)) = Status(old)
    BY <2>1 DEF SameRequest, Kind, Status
  <2> QED BY <2>1, <2>2, <2>3, WriteMaps DEF FailedOnlyWhenApproved, SameRequest
<1> QED BY <1>2, <1>3, <1>4, <1>5

\* What the worker writes answers an approved request, or repeats the answer.
LEMMA AnswerMaps ==
  ASSUME SignerInv, SendsAnswers, FailedOnlyWhenApproved,
         csrPc = "update", Accepted(request[csrKey], csrSent), request' = Written
  PROVE  FailedOnlyWhenApproved' /\ [Promise!Next]_(Promise!requestVars)
<1> DEFINE old == request[csrKey]
           q == request'[csrKey]
<1>1. /\ csrKey \in Requests /\ q \in RequestObjects
      /\ request' = [request EXCEPT ![csrKey] = q]
      /\ old.cert = 0
      /\ SameRequest(q, csrSent) /\ q.cert = csrSent.cert /\ q.failed = csrSent.failed
  BY WrittenFields
<1>2. request \in [Requests -> RequestObjects]
  BY DEF SignerInv, CsrTypeOK
<1>3. /\ SameRequest(csrSent, old) /\ csrSent.exists /\ csrSent.eligible
      /\ csrSent.decision = "Approved"
      /\ csrSent.cert # 0 => csrSent.usagesValid
      /\ csrSent.failed # 0 => ~csrSent.usagesValid
  BY DEF SignerInv, CopiesFollowRevisions, SentCopy, Accepted
<1>4. old.failed # 0 => ~old.usagesValid
  BY <1>1 DEF SignerInv, FailedOnlyWhenInvalid
<1>5. csrSent.cert # 0 \/ csrSent.failed # 0
  BY DEF SendsAnswers
<1> HIDE DEF q, old
<1>6. Kind(q) = Kind(old)
  BY <1>1, <1>3 DEF SameRequest, Kind
<1>7. CASE csrSent.cert # 0
  <2>1. Status(old) = "approved" /\ Status(q) = "signed" /\ Kind(old) = "signable"
    BY <1>1, <1>3, <1>4, <1>7 DEF SameRequest, Status, Kind
  <2> QED BY <1>1, <1>2, <1>3, <1>6, <2>1, WriteMaps DEF old, FailedOnlyWhenApproved, SameRequest
<1>8. CASE csrSent.cert = 0
  <2>1. Status(q) = "failed" /\ Kind(old) = "misused" /\ Status(old) \in {"approved", "failed"}
    BY <1>1, <1>3, <1>5, <1>8 DEF SameRequest, Status, Kind
  <2> QED BY <1>1, <1>2, <1>3, <1>6, <2>1, WriteMaps DEF old, FailedOnlyWhenApproved, SameRequest
<1> QED BY <1>7, <1>8

LEMMA StepMaps ==
  ASSUME SignerInv, SendsAnswers, FailedOnlyWhenApproved, [CsrNext]_csrVars
  PROVE  FailedOnlyWhenApproved' /\ [Promise!Next]_(Promise!requestVars)
<1>1. CASE request' = request
  BY <1>1 DEF FailedOnlyWhenApproved, Promise!requestVars
<1>2. ASSUME NEW r \in Requests,
             CreateRequest(r) \/ DecideRequest(r) \/ DeleteRequest(r) \/ TouchRequest(r)
      PROVE  FailedOnlyWhenApproved' /\ [Promise!Next]_(Promise!requestVars)
  BY <1>2, EnvironmentMaps
<1>3. CASE UpdateStatus \/ UpdateLost
  BY <1>1, <1>3, AnswerMaps DEF UpdateStatus, UpdateLost
<1> QED
  BY <1>1, <1>2, <1>3
  DEF CsrNext, CsrEnvironment, CsrInformer, CsrResync, CsrSync, CsrSyncIgnores, FailRequest,
      SignRequest, CannotSign, CsrRelist, ReplaceCA, ExpireCA, ProcessRestart, serverVars, csrVars

\* The signing controller, with its cache, queue, conflicts, retries and
\* restarts, implements the promise of CertificateRequests.
THEOREM SignerKeepsPromise == CsrSpec => RequestsAnsweredOnce
<1>1. CsrInit => Promise!Init /\ SendsAnswers /\ FailedOnlyWhenApproved
  <2> SUFFICES ASSUME CsrInit PROVE Promise!Init /\ SendsAnswers /\ FailedOnlyWhenApproved
    OBVIOUS
  <2>1. \A r \in Requests : request[r] = NoRequest
    BY DEF CsrInit
  <2>2. ~NoRequest.exists /\ NoRequest.failed = 0
    BY DEF NoRequest
  <2> QED BY <2>1, <2>2 DEF CsrInit, Promise!Init, Kind, Status, SendsAnswers, FailedOnlyWhenApproved
<1>2. SignerInv /\ SendsAnswers /\ FailedOnlyWhenApproved /\ [CsrNext]_csrVars
        => SendsAnswers' /\ FailedOnlyWhenApproved' /\ [Promise!Next]_(Promise!requestVars)
  BY AnswersSent, StepMaps
<1> QED BY <1>1, <1>2, SignerInvariant, PTL DEF CsrSpec, RequestsAnsweredOnce, Promise!Spec
===============================================================================
