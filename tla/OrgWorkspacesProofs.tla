-------------------------- MODULE OrgWorkspacesProofs --------------------------
(***************************************************************************)
(* Proofs about the work queue and the orgWorkspaceController that drives  *)
(* it, for any organizations, addresses and bounds.                        *)
(***************************************************************************)
EXTENDS OrgWorkspaces, TLAPS

-------------------------------------------------------------------------------
(* The order of the queue as a sequence without repetition. *)

Injective(q) == \A i, j \in DOMAIN q : q[i] = q[j] => i = j

LEMMA AppendKeepsOrder ==
  ASSUME NEW q \in Seq(Keys), NEW k \in Keys, k \notin Range(q), Injective(q)
  PROVE  Range(Append(q, k)) = Range(q) \cup {k} /\ Injective(Append(q, k))
<1>1. /\ DOMAIN q = 1..Len(q) /\ Len(q) \in Nat
      /\ DOMAIN Append(q, k) = 1..(Len(q) + 1)
      /\ \A i \in 1..Len(q) : Append(q, k)[i] = q[i]
      /\ Append(q, k)[Len(q) + 1] = k
  OBVIOUS
<1>2. \A i \in 1..Len(q) : q[i] # k
  BY <1>1 DEF Range
<1>3. Range(Append(q, k)) = Range(q) \cup {k}
  BY <1>1 DEF Range
<1> QED BY <1>1, <1>2, <1>3 DEF Injective

LEMMA TailKeepsOrder ==
  ASSUME NEW q \in Seq(Keys), q # <<>>, Injective(q)
  PROVE  Range(Tail(q)) = Range(q) \ {Head(q)} /\ Injective(Tail(q))
<1>1. /\ DOMAIN q = 1..Len(q) /\ Len(q) \in Nat /\ Len(q) > 0
      /\ Tail(q) \in Seq(Keys) /\ Len(Tail(q)) = Len(q) - 1
      /\ DOMAIN Tail(q) = 1..(Len(q) - 1)
      /\ \A i \in 1..(Len(q) - 1) : Tail(q)[i] = q[i + 1]
      /\ Head(q) = q[1]
  OBVIOUS
<1>2. ASSUME NEW x PROVE x \in Range(Tail(q)) <=> x \in Range(q) /\ x # Head(q)
  <2>1. ASSUME x \in Range(Tail(q)) PROVE x \in Range(q) /\ x # Head(q)
    BY <1>1, <2>1 DEF Range, Injective
  <2>2. ASSUME x \in Range(q), x # Head(q) PROVE x \in Range(Tail(q))
    <3>1. PICK i \in 1..Len(q) : q[i] = x
      BY <1>1, <2>2 DEF Range
    <3>2. i - 1 \in 1..(Len(q) - 1) /\ Tail(q)[i - 1] = x
      BY <1>1, <2>2, <3>1
    <3> QED BY <1>1, <3>2 DEF Range
  <2> QED BY <2>1, <2>2
<1>3. Range(Tail(q)) = Range(q) \ {Head(q)}
  BY <1>2
<1> QED BY <1>1, <1>3 DEF Injective

LEMMA EmptyOrder == Range(<<>>) = {} /\ Injective(<<>>) /\ <<>> \in Seq(Keys)
BY DEF Range, Injective
-------------------------------------------------------------------------------
(* The operations of the queue keep its structures in step. *)

QueueInv == QueueTypeOK /\ QueueConsistent

LEMMA QueueConsistentForm ==
  QueueConsistent <=> Range(queue) = dirty \ processing /\ Injective(queue)
BY DEF QueueConsistent, Injective

LEMMA QueueConsistentFormNext ==
  QueueConsistent' <=> Range(queue') = dirty' \ processing' /\ Injective(queue')
BY DEF QueueConsistent, Injective

LEMMA AddKeeps ==
  ASSUME QueueInv, NEW k \in Keys, Add(k), delayed' \in SUBSET Keys
  PROVE  QueueInv'
<1>1. CASE k \in dirty \cup processing
  BY <1>1 DEF QueueInv, QueueTypeOK, QueueConsistent, Add
<1>2. CASE k \notin dirty \cup processing
  <2>1. queue' = Append(queue, k) /\ dirty' = dirty \cup {k} /\ processing' = processing
    BY <1>2 DEF Add
  <2>2. queue \in Seq(Keys) /\ k \notin Range(queue) /\ Injective(queue)
    BY <1>2, QueueConsistentForm DEF QueueInv, QueueTypeOK
  <2>3. Range(queue') = Range(queue) \cup {k} /\ Injective(queue') /\ queue' \in Seq(Keys)
    BY <2>1, <2>2, AppendKeepsOrder
  <2> QED
    BY <1>2, <2>1, <2>3, QueueConsistentForm, QueueConsistentFormNext DEF QueueInv, QueueTypeOK
<1> QED BY <1>1, <1>2

LEMMA GetKeeps ==
  ASSUME QueueInv, NEW k \in Keys, Get(k)
  PROVE  QueueInv'
<1>1. /\ queue # <<>> /\ k = Head(queue) /\ queue' = Tail(queue) /\ processing = {}
      /\ processing' = {k} /\ dirty' = dirty \ {k} /\ delayed' = delayed
  BY DEF Get
<1>2. queue \in Seq(Keys) /\ Injective(queue) /\ Range(queue) = dirty
  BY <1>1, QueueConsistentForm DEF QueueInv, QueueTypeOK
<1>3. Range(queue') = dirty \ {k} /\ Injective(queue') /\ queue' \in Seq(Keys)
  BY <1>1, <1>2, TailKeepsOrder
<1> QED
  BY <1>1, <1>3, QueueConsistentFormNext DEF QueueInv, QueueTypeOK

LEMMA DoneKeeps ==
  ASSUME QueueInv, NEW k \in Keys, NEW failed, Done(k, failed)
  PROVE  QueueInv'
<1>1. /\ k \in processing /\ processing' = processing \ {k} /\ dirty' = dirty
      /\ delayed' \in SUBSET Keys
  BY DEF Done, QueueInv, QueueTypeOK
<1>2. queue \in Seq(Keys) /\ k \notin Range(queue) /\ Injective(queue)
  BY <1>1, QueueConsistentForm DEF QueueInv, QueueTypeOK
<1>3. CASE k \in dirty
  <2>1. queue' = Append(queue, k)
    BY <1>3 DEF Done
  <2>2. Range(queue') = Range(queue) \cup {k} /\ Injective(queue') /\ queue' \in Seq(Keys)
    BY <1>2, <2>1, AppendKeepsOrder
  <2> QED
    BY <1>1, <1>3, <2>2, QueueConsistentForm, QueueConsistentFormNext DEF QueueInv, QueueTypeOK
<1>4. CASE k \notin dirty
  <2>1. queue' = queue
    BY <1>4 DEF Done
  <2> QED
    BY <1>1, <1>2, <1>4, <2>1, QueueConsistentForm, QueueConsistentFormNext
    DEF QueueInv, QueueTypeOK
<1> QED BY <1>3, <1>4

LEMMA EmptyQueueKeeps ==
  ASSUME QueueReset
  PROVE  QueueInv'
BY EmptyOrder, QueueConsistentFormNext DEF QueueReset, QueueInv, QueueTypeOK

\* Each step of the controller is one operation of its queue.
LEMMA OneOperation ==
  ASSUME [OrgNext]_vars
  PROVE  \/ UNCHANGED queueVars
         \/ \E k \in Keys : \/ Add(k) /\ delayed' = delayed
                            \/ Retry(k) \/ Get(k)
                            \/ Done(k, FALSE) \/ Done(k, TRUE)
         \/ QueueReset
<1>1. ASSUME NEW o \in Keys, CreateOrg(o) \/ OrgReady(o) \/ DeleteOrg(o) \/ HubCacheSynced(o)
      PROVE  UNCHANGED queueVars
  BY <1>1 DEF CreateOrg, OrgReady, DeleteOrg, HubCacheSynced
<1>2. ASSUME NEW o \in Keys, OrgInformer(o) \/ OrgResync(o)
      PROVE  Add(o) /\ delayed' = delayed
  BY <1>2 DEF OrgInformer, OrgResync
<1>3. ASSUME NEW o \in Keys, RetryOrg(o) \/ TakeOrg(o) PROVE Retry(o) \/ Get(o)
  BY <1>3 DEF RetryOrg, TakeOrg
<1>4. ASSUME NEW o \in Keys, OrgSync(o) \/ StartFails(o) PROVE Done(o, FALSE) \/ Done(o, TRUE)
  BY <1>4 DEF OrgSync, OrgSyncIgnores, StartHubWorkspaceController, StartFails
<1>5. ASSUME NEW o \in Keys, HubCacheSyncTimeout(o) \/ OrgRestart PROVE QueueReset
  BY <1>5 DEF HubCacheSyncTimeout, OrgRestart, OrgProcessDies
<1>6. OrgRestart => QueueReset
  BY DEF OrgRestart, OrgProcessDies
<1>7. UNCHANGED vars => UNCHANGED queueVars
  BY DEF vars
<1> QED
  BY <1>1, <1>2, <1>3, <1>4, <1>5, <1>6, <1>7 DEF OrgNext

LEMMA QueueInvPreserved == QueueInv /\ [OrgNext]_vars => QueueInv'
<1> SUFFICES ASSUME QueueInv, [OrgNext]_vars PROVE QueueInv'
  OBVIOUS
<1>1. CASE UNCHANGED queueVars
  BY <1>1 DEF queueVars, QueueInv, QueueTypeOK, QueueConsistent
<1>2. ASSUME NEW k \in Keys, (Add(k) /\ delayed' = delayed) \/ Retry(k) PROVE QueueInv'
  <2>1. Add(k) /\ delayed' \in SUBSET Keys
    BY <1>2 DEF Retry, QueueInv, QueueTypeOK
  <2> QED BY <2>1, AddKeeps
<1> QED
  BY <1>1, <1>2, OneOperation, GetKeeps, DoneKeeps, EmptyQueueKeeps

\* The order, the set of dirty keys and the set of keys being processed never
\* drift apart: no key is lost, none is handed out twice for one request.
THEOREM QueueKeepsStep == OrgSpec => []QueueConsistent
<1>1. OrgInit => QueueInv
  BY EmptyOrder, QueueConsistentForm DEF OrgInit, QueueInit, QueueInv, QueueTypeOK
<1>2. QueueInv => QueueConsistent
  BY DEF QueueInv
<1> QED BY <1>1, <1>2, QueueInvPreserved, PTL DEF OrgSpec
-------------------------------------------------------------------------------
(* The queue implements a set of keys.                                     *)

LEMMA OperationMaps ==
  ASSUME QueueInv, [OrgNext]_vars
  PROVE  [Abstract!Next]_(Abstract!setVars)
<1> USE DEF Abstract!Next, Abstract!setVars
<1>1. CASE UNCHANGED queueVars
  BY <1>1 DEF queueVars
<1>2. ASSUME NEW k \in Keys, Add(k) /\ delayed' = delayed PROVE Abstract!AddKey(k)
  BY <1>2 DEF Add, Abstract!AddKey
<1>3. ASSUME NEW k \in Keys, Retry(k)
      PROVE  UNCHANGED <<dirty \cup delayed, processing>>
  BY <1>3 DEF Retry, Add
<1>4. ASSUME NEW k \in Keys, Get(k) PROVE Abstract!Take(k)
  <2>1. queue \in Seq(Keys) /\ queue # <<>> /\ k = Head(queue) /\ processing = {}
    BY <1>4 DEF Get, QueueInv, QueueTypeOK
  <2>2. k \in Range(queue)
    <3>1. 1 \in DOMAIN queue /\ k = queue[1]
      BY <2>1
    <3> QED BY <3>1 DEF Range
  <2>3. k \in dirty
    BY <2>1, <2>2 DEF QueueInv, QueueConsistent
  <2>4. (dirty \cup delayed)' \in {dirty \cup delayed, (dirty \cup delayed) \ {k}}
    BY <1>4, <2>3 DEF Get
  <2> QED BY <1>4, <2>1, <2>3, <2>4 DEF Get, Abstract!Take
<1>5. ASSUME NEW k \in Keys, Done(k, FALSE) \/ Done(k, TRUE) PROVE Abstract!Finish(k)
  <2>1. (dirty \cup delayed)' \in {dirty \cup delayed, dirty \cup delayed \cup {k}}
    BY <1>5 DEF Done
  <2> QED BY <1>5, <2>1 DEF Done, Abstract!Finish
<1>6. QueueReset => Abstract!Reset
  BY DEF QueueReset, Abstract!Reset
<1> QED
  BY <1>1, <1>2, <1>3, <1>4, <1>5, <1>6, OneOperation

\* Every step of the queue is a step of the set of keys that the other
\* modules' controllers take their work from, or none.
THEOREM QueueIsKeySet == OrgSpec => Abstract!Safe
<1>1. OrgInit => QueueInv /\ Abstract!Init
  BY EmptyOrder, QueueConsistentForm
  DEF OrgInit, QueueInit, QueueInv, QueueTypeOK, Abstract!Init
<1> QED BY <1>1, QueueInvPreserved, OperationMaps, PTL DEF OrgSpec, Abstract!Safe
-------------------------------------------------------------------------------
(* Types of the controller's own state. *)

LEMMA ReadyRecord ==
  ASSUME NEW w \in OrgObjects, NEW u \in URLs
  PROVE  LET r == [w EXCEPT !.phase = "Ready", !.url = u] IN
         /\ r \in OrgObjects
         /\ r.inc = w.inc /\ r.type = w.type /\ r.phase = "Ready" /\ r.url = u
BY DEF OrgObjects

LEMMA GoneRecord ==
  ASSUME NEW w \in OrgObjects
  PROVE  LET r == [NoOrg EXCEPT !.inc = w.inc] IN
         /\ r \in OrgObjects /\ r.inc = w.inc /\ r.phase = "Absent"
BY DEF OrgObjects, NoOrg, Types

LEMMA NoOrgType == NoOrg \in OrgObjects /\ NoOrg.inc = 0 /\ NoOrg.phase = "Absent"
BY OrgsAssumption DEF NoOrg, OrgObjects, Types

\* What kcp does to one organization's workspace.
KcpStep(o) == CreateOrg(o) \/ OrgReady(o) \/ DeleteOrg(o)

LEMMA KcpEffect ==
  ASSUME OrgTypeOK, NEW o \in Keys, KcpStep(o)
  PROVE  /\ orgs' \in [Keys -> OrgObjects]
         /\ \A p \in Keys : p # o => orgs'[p] = orgs[p]
         /\ disruptions' \in 0..MaxDisruptions
         /\ UNCHANGED <<queueVars, orgVars>>
         /\ \/ orgs[o].phase = "Absent" /\ orgs'[o].inc = orgs[o].inc + 1
            \/ orgs[o].phase = "Initializing" /\ orgs'[o].inc = orgs[o].inc
            \/ orgs'[o].phase = "Absent" /\ orgs'[o].inc = orgs[o].inc
<1>0. orgs[o] \in OrgObjects /\ orgs[o].inc \in 0..MaxCreates
  BY DEF OrgTypeOK, OrgObjects
<1>1. CASE CreateOrg(o)
  <2>1. PICK t \in Types :
          orgs' = [orgs EXCEPT ![o] =
            [inc |-> orgs[o].inc + 1, phase |-> "Initializing", type |-> t, url |-> "unset"]]
    BY <1>1 DEF CreateOrg
  <2>2. [inc |-> orgs[o].inc + 1, phase |-> "Initializing", type |-> t, url |-> "unset"] \in OrgObjects
    BY <1>0, <1>1, OrgsAssumption DEF CreateOrg, OrgObjects
  <2>3. orgs'[o].inc = orgs[o].inc + 1 /\ orgs[o].phase = "Absent"
    BY <1>1, <2>1 DEF CreateOrg, OrgTypeOK
  <2> QED BY <1>1, <2>1, <2>2, <2>3 DEF CreateOrg, OrgTypeOK
<1>2. CASE OrgReady(o)
  <2>1. PICK u \in URLs : orgs' = [orgs EXCEPT ![o].phase = "Ready", ![o].url = u]
    BY <1>2 DEF OrgReady
  <2>2. orgs' = [orgs EXCEPT ![o] = [orgs[o] EXCEPT !.phase = "Ready", !.url = u]]
    BY <2>1, Zenon DEF OrgTypeOK
  <2>3. /\ [orgs[o] EXCEPT !.phase = "Ready", !.url = u] \in OrgObjects
        /\ [orgs[o] EXCEPT !.phase = "Ready", !.url = u].inc = orgs[o].inc
    BY <1>0, ReadyRecord
  <2> QED BY <1>2, <2>2, <2>3 DEF OrgReady, OrgTypeOK
<1>3. CASE DeleteOrg(o)
  <2>1. orgs' = [orgs EXCEPT ![o] = [NoOrg EXCEPT !.inc = orgs[o].inc]]
    BY <1>3 DEF DeleteOrg
  <2>2. disruptions' \in 0..MaxDisruptions
    BY <1>3, OrgsAssumption DEF DeleteOrg, Disrupt, OrgTypeOK
  <2> QED BY <1>0, <1>3, <2>1, <2>2, GoneRecord DEF DeleteOrg, OrgTypeOK
<1> QED BY <1>1, <1>2, <1>3 DEF KcpStep

LEMMA WorkerEffect ==
  ASSUME OrgTypeOK, [OrgNext]_vars, ~\E o \in Keys : KcpStep(o)
  PROVE  \/ /\ UNCHANGED <<orgs, watched, running>>
            /\ synced' = synced \/ \E o \in Keys : running[o] > 0 /\ synced' = synced \cup {o}
            /\ orgLister' = orgLister
               \/ \E o \in Keys : orgLister' = [orgLister EXCEPT ![o] = orgs[o]]
         \/ /\ UNCHANGED <<orgs, orgLister, synced>>
            /\ \E o \in Keys : startOCMHubWorkspaceController(o)
         \/ OrgProcessDies
<1>1. ASSUME NEW o \in Keys, OrgInformer(o)
      PROVE  UNCHANGED <<orgs, watched, running, synced>>
             /\ orgLister' = [orgLister EXCEPT ![o] = orgs[o]]
  BY <1>1 DEF OrgInformer
<1>2. ASSUME NEW o \in Keys,
             OrgResync(o) \/ RetryOrg(o) \/ TakeOrg(o) \/ OrgSyncIgnores(o) \/ StartFails(o)
      PROVE  UNCHANGED <<orgs, orgVars>>
  BY <1>2 DEF OrgResync, RetryOrg, TakeOrg, OrgSyncIgnores, StartFails
<1>3. ASSUME NEW o \in Keys, StartHubWorkspaceController(o)
      PROVE  UNCHANGED <<orgs, orgLister, synced>> /\ startOCMHubWorkspaceController(o)
  BY <1>3 DEF StartHubWorkspaceController
<1>4. ASSUME NEW o \in Keys, HubCacheSynced(o)
      PROVE  /\ running[o] > 0 /\ synced' = synced \cup {o}
             /\ UNCHANGED <<orgs, orgLister, watched, running>>
  BY <1>4 DEF HubCacheSynced
<1>5. ASSUME NEW o \in Keys, HubCacheSyncTimeout(o) \/ OrgRestart PROVE OrgProcessDies
  BY <1>5 DEF HubCacheSyncTimeout, OrgRestart
<1>6. OrgRestart => OrgProcessDies
  BY DEF OrgRestart
<1>7. UNCHANGED vars => UNCHANGED <<orgs, orgVars>>
  BY DEF vars
<1>8. UNCHANGED <<orgs, orgVars>> => UNCHANGED <<orgs, orgLister, watched, running, synced>>
  BY DEF orgVars
<1> QED
  BY <1>1, <1>2, <1>3, <1>4, <1>5, <1>6, <1>7, <1>8 DEF OrgNext, OrgSync, KcpStep

LEMMA DisruptionsType ==
  ASSUME OrgTypeOK, [OrgNext]_vars
  PROVE  disruptions' \in 0..MaxDisruptions
<1>1. disruptions' = disruptions \/ Disrupt
  BY DEF OrgNext, OrgSync, CreateOrg, OrgReady, DeleteOrg, OrgInformer, OrgResync, RetryOrg,
         TakeOrg, OrgSyncIgnores, StartHubWorkspaceController, StartFails, HubCacheSynced,
         HubCacheSyncTimeout, OrgRestart, vars
<1> QED BY <1>1, OrgsAssumption DEF Disrupt, OrgTypeOK

\* An organization without an entry in the map has no controller: the entry is
\* made with the first one, and only the death of the process removes it.
EntriesCover == \A o \in Keys : running[o] <= IF watched[o] = None THEN 0 ELSE 1

OrgInv == OrgTypeOK /\ QueueConsistent /\ EntriesCover

LEMMA OrgInitInv == OrgInit => OrgInv
<1> SUFFICES ASSUME OrgInit PROVE OrgInv
  OBVIOUS
<1>1. QueueInv
  BY EmptyOrder, QueueConsistentForm DEF OrgInit, QueueInit, QueueInv, QueueTypeOK
<1>2. OrgTypeOK
  BY <1>1, NoOrgType, OrgsAssumption DEF OrgInit, OrgTypeOK, QueueInv
<1>3. EntriesCover
  BY DEF OrgInit, EntriesCover
<1> QED BY <1>1, <1>2, <1>3 DEF OrgInv, QueueInv

LEMMA OrgInvPreserved == OrgInv /\ [OrgNext]_vars => OrgInv'
<1> SUFFICES ASSUME OrgTypeOK, QueueConsistent, EntriesCover, [OrgNext]_vars
             PROVE  OrgInv'
  BY DEF OrgInv
<1>1. QueueInv'
  BY QueueInvPreserved DEF QueueInv, OrgTypeOK
<1>2. disruptions' \in 0..MaxDisruptions
  BY DisruptionsType
<1> SUFFICES /\ orgs' \in [Keys -> OrgObjects] /\ orgLister' \in [Keys -> OrgObjects]
             /\ watched' \in [Keys -> URLs \cup {"unset", None}]
             /\ running' \in [Keys -> Nat]
             /\ synced' \in SUBSET {o \in Keys : watched'[o] # None}
             /\ EntriesCover'
  BY <1>1, <1>2 DEF OrgInv, OrgTypeOK, QueueInv
<1>3. ASSUME NEW o \in Keys, KcpStep(o)
      PROVE  orgs' \in [Keys -> OrgObjects] /\ UNCHANGED <<orgLister, watched, running, synced>>
  BY <1>3, KcpEffect DEF orgVars
<1>4. ASSUME UNCHANGED <<orgs, watched, running>>,
             synced' = synced \/ \E o \in Keys : running[o] > 0 /\ synced' = synced \cup {o},
             orgLister' = orgLister
               \/ \E o \in Keys : orgLister' = [orgLister EXCEPT ![o] = orgs[o]]
      PROVE  /\ orgLister' \in [Keys -> OrgObjects]
             /\ synced' \in SUBSET {o \in Keys : watched'[o] # None}
  <2>1. \A o \in Keys : running[o] > 0 => watched[o] # None
    BY DEF EntriesCover, OrgTypeOK
  <2> QED BY <1>4, <2>1 DEF OrgTypeOK
<1>5. ASSUME NEW o \in Keys, startOCMHubWorkspaceController(o),
             UNCHANGED <<orgs, orgLister, synced>>
      PROVE  /\ watched' \in [Keys -> URLs \cup {"unset", None}]
             /\ running' \in [Keys -> Nat]
             /\ synced' \in SUBSET {p \in Keys : watched'[p] # None}
             /\ EntriesCover'
  <2>1. /\ watched[o] = None /\ running[o] = 0
        /\ watched' = [watched EXCEPT ![o] = orgLister[o].url]
        /\ running' = [running EXCEPT ![o] = running[o] + 1]
    BY <1>5 DEF startOCMHubWorkspaceController, EntriesCover, OrgTypeOK
  <2>2. orgLister[o].url \in URLs \cup {"unset"} /\ orgLister[o].url # None
    BY OrgsAssumption DEF OrgTypeOK, OrgObjects
  <2> QED BY <1>5, <2>1, <2>2 DEF OrgTypeOK, EntriesCover
<1>6. ASSUME OrgProcessDies
      PROVE  /\ orgs' \in [Keys -> OrgObjects] /\ orgLister' \in [Keys -> OrgObjects]
             /\ watched' \in [Keys -> URLs \cup {"unset", None}]
             /\ running' \in [Keys -> Nat]
             /\ synced' \in SUBSET {o \in Keys : watched'[o] # None}
             /\ EntriesCover'
  BY <1>6, NoOrgType DEF OrgProcessDies, OrgTypeOK, EntriesCover
<1>7. CASE \E o \in Keys : KcpStep(o)
  BY <1>3, <1>7 DEF OrgTypeOK, EntriesCover
<1>8. CASE ~\E o \in Keys : KcpStep(o)
  BY <1>4, <1>5, <1>6, <1>8, WorkerEffect DEF OrgTypeOK, EntriesCover
<1> QED BY <1>7, <1>8

\* Every reachable state has the declared types: only a controller that was
\* started has its cache.
THEOREM OrgTypeCorrect == OrgSpec => []OrgTypeOK
<1>1. OrgInv => OrgTypeOK
  BY DEF OrgInv
<1> QED BY <1>1, OrgInitInv, OrgInvPreserved, PTL DEF OrgSpec

\* In the life of a process no organization gets a second
\* hubWorkspaceController, and with it a second pair of port counters.
THEOREM OneController == OrgSpec => []OneControllerPerOrganization
<1>1. OrgInv => OneControllerPerOrganization
  BY DEF OrgInv, OrgTypeOK, EntriesCover, OneControllerPerOrganization
<1> QED BY <1>1, OrgInitInv, OrgInvPreserved, PTL DEF OrgSpec
-------------------------------------------------------------------------------
(* Controllers watch the address the organization has.                     *)
(*                                                                         *)
(* The informer's copy may be old, but a Ready copy of the workspace that  *)
(* bears the name now is exact: a Ready workspace changes only by going    *)
(* away, and a name is used again with a higher inc.                       *)

CopyExact(o) ==
  /\ orgLister[o].inc <= orgs[o].inc
  /\ orgLister[o].phase = "Ready" /\ orgLister[o].inc = orgs[o].inc
       => orgs[o] = orgLister[o] \/ orgs[o].phase = "Absent"
  /\ orgLister[o].phase = "Ready" => orgLister[o].inc > 0
  /\ orgs[o].phase # "Absent" => orgs[o].inc > 0

AddressExact(o) ==
  watched[o] # None =>
    /\ orgs[o].inc > 0
    /\ orgs[o].inc = 1 /\ orgs[o].phase # "Absent"
         => orgs[o].phase = "Ready" /\ orgs[o].type = "organization" /\ watched[o] = orgs[o].url

AddressInv == OrgInv /\ \A o \in Keys : CopyExact(o) /\ AddressExact(o)

LEMMA AddressInvPreserved == AddressInv /\ [OrgNext]_vars => AddressInv'
<1> SUFFICES ASSUME OrgInv, \A o \in Keys : CopyExact(o) /\ AddressExact(o), [OrgNext]_vars,
                    NEW p \in Keys
             PROVE  CopyExact(p)' /\ AddressExact(p)'
  BY OrgInvPreserved DEF AddressInv
<1>0. /\ OrgTypeOK /\ CopyExact(p) /\ AddressExact(p)
      /\ orgs[p].inc \in Nat /\ orgLister[p].inc \in Nat
  BY DEF OrgInv, OrgTypeOK, OrgObjects
<1>1. ASSUME NEW o \in Keys, KcpStep(o) PROVE CopyExact(p)' /\ AddressExact(p)'
  <2>1. /\ orgLister' = orgLister /\ watched' = watched
        /\ p # o => orgs'[p] = orgs[p]
        /\ \/ orgs[o].phase = "Absent" /\ orgs'[o].inc = orgs[o].inc + 1
           \/ orgs[o].phase = "Initializing" /\ orgs'[o].inc = orgs[o].inc
           \/ orgs'[o].phase = "Absent" /\ orgs'[o].inc = orgs[o].inc
    BY <1>0, <1>1, KcpEffect DEF orgVars
  <2> QED BY <1>0, <2>1 DEF CopyExact, AddressExact
<1>2. ASSUME NEW o \in Keys, orgLister' = [orgLister EXCEPT ![o] = orgs[o]],
             UNCHANGED <<orgs, watched>>
      PROVE  CopyExact(p)' /\ AddressExact(p)'
  BY <1>0, <1>2 DEF CopyExact, AddressExact, OrgTypeOK
<1>3. ASSUME UNCHANGED <<orgs, orgLister, watched>> PROVE CopyExact(p)' /\ AddressExact(p)'
  BY <1>0, <1>3 DEF CopyExact, AddressExact
<1>4. ASSUME NEW o \in Keys, startOCMHubWorkspaceController(o), UNCHANGED <<orgs, orgLister>>
      PROVE  CopyExact(p)' /\ AddressExact(p)'
  <2>1. /\ orgLister[o].phase = "Ready" /\ orgLister[o].type = "organization"
        /\ watched' = [watched EXCEPT ![o] = orgLister[o].url]
    BY <1>4 DEF startOCMHubWorkspaceController, Startable
  <2>2. p # o => watched'[p] = watched[p]
    BY <1>0, <2>1 DEF OrgTypeOK
  <2>3. p = o => watched'[p] = orgLister[p].url
    BY <1>0, <2>1 DEF OrgTypeOK
  <2> QED BY <1>0, <1>4, <2>1, <2>2, <2>3 DEF CopyExact, AddressExact
<1>5. CASE OrgProcessDies
  <2>1. orgLister'[p] = NoOrg /\ watched'[p] = None /\ orgs' = orgs
    BY <1>5 DEF OrgProcessDies
  <2> QED BY <1>0, <2>1, NoOrgType DEF CopyExact, AddressExact
<1> QED BY <1>0, <1>1, <1>2, <1>3, <1>4, <1>5, WorkerEffect

\* Until a name is used a second time, a controller never watches anything but
\* an organization at the address that it has.
THEOREM AddressesExact == OrgSpec => []AddressesFollowWorkspaces
<1>1. OrgInit => AddressInv
  BY OrgInitInv, NoOrgType DEF OrgInit, AddressInv, CopyExact, AddressExact
<1>2. AddressInv => AddressesFollowWorkspaces
  BY DEF AddressInv, AddressExact, AddressesFollowWorkspaces
<1> QED BY <1>1, <1>2, AddressInvPreserved, PTL DEF OrgSpec
===============================================================================
