----------------------------- MODULE HubWorkspace -----------------------------
(***************************************************************************)
(* The hubWorkspaceController: one per organization, one worker each.  For *)
(* every Ready hub workspace it applies the management-cluster objects     *)
(* that host the hub, and once the workspace carries the condition         *)
(* ClusterManagerApplied it starts the hub's own controllers.              *)
(*                                                                         *)
(* The node ports are numbers: the two counters grow by one on every pass  *)
(* over a Ready workspace.  A port past MaxPort is refused by the API      *)
(* server however large it is, so the counters stop at MaxPort + 1 without *)
(* losing a behaviour.                                                     *)
(***************************************************************************)
EXTENDS ControlPlane

VARIABLES
  hubLister,  \* the informer's copy of each workspace
  hubQueue,   \* the keys waiting in the controllers' work queues
  hubPc,      \* what the worker of each organization does next
  hubKey,     \* the hub it works on, None between passes
  hubSeen,    \* the condition of that workspace when the lister returned it
  hubFailed,  \* whether a call of this pass failed (the errors ApplyObjects aggregates)
  port,       \* registrationWebhookNodePort and workWebhookNodePort
  started     \* the hubs with an entry in the controllers map

hubVars == <<hubLister, hubQueue, hubPc, hubKey, hubSeen, hubFailed, port, started>>
vars == <<cpVars, hubVars>>

\* The order of hubFiles, then the rest of sync.
AfterFile == [namespace      |-> "secret",
              secret         |-> "registration",
              registration   |-> "work",
              work           |-> "clustermanager",
              clustermanager |-> "start"]
HubFiles == DOMAIN AfterFile

Base == [k \in Kinds |-> IF k = "registration" THEN RegBase ELSE WorkBase]
\* Mutants: the counter runs on past the range; it starts over at the end of
\* the range; it does not advance.
NextPortUncapped(p) == p + 1
NextPortWraps(p) == IF p > MaxPort THEN 1 ELSE p + 1
NextPortStuck(p) == p
NextPort(p) == IF p > MaxPort THEN p ELSE p + 1
PortFree(p) == p <= MaxPort /\ \A c \in ClusterManagers, k \in Kinds : svc[c][k] # p

HubTypeOK ==
  /\ hubLister \in [Hubs -> Workspaces]
  /\ hubQueue \in SUBSET Hubs
  /\ hubPc \in [Orgs -> {"idle", "start"} \cup HubFiles]
  /\ hubKey \in [Orgs -> Hubs \cup {None}]
  /\ \A o \in Orgs : hubPc[o] # "idle" => hubKey[o] \in Hubs /\ Org(hubKey[o]) = o
  /\ hubSeen \in [Orgs -> Conditions]
  /\ hubFailed \in [Orgs -> BOOLEAN]
  /\ port \in [Orgs -> [Kinds -> 1..(MaxPort + 1)]]
  /\ started \in SUBSET Hubs

\* A process that has just started: empty caches, queues and maps.
HubInit ==
  /\ hubLister = [h \in Hubs |-> NoWorkspace]
  /\ hubQueue = {}
  /\ hubPc = [o \in Orgs |-> "idle"]
  /\ hubKey = [o \in Orgs |-> None]
  /\ hubSeen = [o \in Orgs |-> NoCondition]
  /\ hubFailed = [o \in Orgs |-> FALSE]
  /\ port = [o \in Orgs |-> Base]
  /\ started = {}

Init == CpInit /\ HubInit
-------------------------------------------------------------------------------
(* The informer. *)

HubInformer(h) ==
  /\ hubLister[h] # ws[h]
  /\ hubLister' = [hubLister EXCEPT ![h] = ws[h]]
  /\ hubQueue' = hubQueue \cup {h}
  /\ UNCHANGED <<cpVars, hubPc, hubKey, hubSeen, hubFailed, port, started>>

\* Every ten minutes the informer replays what its store holds.
HubResync(h) ==
  /\ hubLister[h].phase # "Absent"
  /\ hubQueue' = hubQueue \cup {h}
  /\ UNCHANGED <<cpVars, hubLister, hubPc, hubKey, hubSeen, hubFailed, port, started>>
-------------------------------------------------------------------------------
(* One pass of sync over hub h. *)

\* The key of a workspace that is gone or not Ready is dropped.
HubSyncIgnores(h) ==
  /\ hubPc[Org(h)] = "idle" /\ h \in hubQueue
  /\ hubLister[h].phase # "Ready"
  /\ hubQueue' = hubQueue \ {h}
  /\ UNCHANGED <<cpVars, hubLister, hubPc, hubKey, hubSeen, hubFailed, port, started>>

\* Mutant: a workspace that already carries the condition is skipped.
BeginHubSyncUnconditioned(h) ==
  LET o == Org(h) IN
  /\ hubPc[o] = "idle" /\ h \in hubQueue
  /\ hubLister[h].phase = "Ready" /\ hubLister[h].cond.status # "True"
  /\ hubQueue' = hubQueue \ {h}
  /\ hubPc' = [hubPc EXCEPT ![o] = "namespace"]
  /\ hubKey' = [hubKey EXCEPT ![o] = h]
  /\ hubSeen' = [hubSeen EXCEPT ![o] = hubLister[h].cond]
  /\ port' = [port EXCEPT ![o] = [k \in Kinds |-> NextPort(@[k])]]
  /\ UNCHANGED <<cpVars, hubLister, hubFailed, started>>

BeginHubSync(h) ==
  LET o == Org(h) IN
  /\ hubPc[o] = "idle" /\ h \in hubQueue
  /\ hubLister[h].phase = "Ready"
  /\ hubQueue' = hubQueue \ {h}
  /\ hubPc' = [hubPc EXCEPT ![o] = "namespace"]
  /\ hubKey' = [hubKey EXCEPT ![o] = h]
  /\ hubSeen' = [hubSeen EXCEPT ![o] = hubLister[h].cond]
  /\ port' = [port EXCEPT ![o] = [k \in Kinds |-> NextPort(@[k])]]
  /\ UNCHANGED <<cpVars, hubLister, hubFailed, started>>

Target(o) == ClusterManagerName(hubKey[o])

\* ApplyObjects goes on to the next object whether or not this one failed.
Applied(o, f) ==
  /\ hubPc[o] = f
  /\ hubPc' = [hubPc EXCEPT ![o] = AfterFile[f]]
  /\ UNCHANGED <<ws, boundVars, hubLister, hubQueue, hubKey, hubSeen, hubFailed, port, started>>

\* Mutant: the error of the call is not collected.
ApplyFailsSilently(o, f) ==
  /\ hubPc[o] = f
  /\ hubPc' = [hubPc EXCEPT ![o] = AfterFile[f]]
  /\ UNCHANGED <<ws, mgmtVars, hubLister, hubQueue, hubKey, hubSeen, hubFailed, port, started>>

ApplyFails(o, f) ==
  /\ hubPc[o] = f
  /\ hubPc' = [hubPc EXCEPT ![o] = AfterFile[f]]
  /\ hubFailed' = [hubFailed EXCEPT ![o] = TRUE]
  /\ UNCHANGED <<ws, mgmtVars, hubLister, hubQueue, hubKey, hubSeen, port, started>>

ApplyNamespace(o) ==
  /\ Applied(o, "namespace")
  /\ namespaces' = namespaces \cup {Target(o)}
  /\ UNCHANGED <<secret, svc, cm>>

ApplySecret(o) ==
  /\ Applied(o, "secret")
  /\ Target(o) \in namespaces
  /\ secret' = [secret EXCEPT ![Target(o)] = hubKey[o]]
  /\ UNCHANGED <<namespaces, svc, cm>>

\* Mutant: an existing service is updated to the counter's port.
ApplyServiceMoves(o, k) ==
  LET c == Target(o) IN
  /\ Applied(o, k)
  /\ c \in namespaces /\ (svc[c][k] = port[o][k] \/ PortFree(port[o][k]))
  /\ svc' = [svc EXCEPT ![c][k] = port[o][k]]
  /\ UNCHANGED <<namespaces, secret, cm>>

\* ApplyService creates a missing service with the counter's node port; of an
\* existing one it compares metadata, selector and type, never the ports.
ApplyService(o, k) ==
  LET c == Target(o) IN
  /\ Applied(o, k)
  /\ \/ svc[c][k] # 0 /\ svc' = svc
     \/ /\ svc[c][k] = 0 /\ c \in namespaces /\ PortFree(port[o][k])
        /\ svc' = [svc EXCEPT ![c][k] = port[o][k]]
  /\ UNCHANGED <<namespaces, secret, cm>>

\* Mutant: the annotation of an existing object is set as well.
ApplyClusterManagerAnnotates(o) ==
  LET c == Target(o) IN
  /\ Applied(o, "clustermanager")
  /\ cm' = [cm EXCEPT ![c] =
              [IF @.exists THEN @ ELSE NoClusterManager
                 EXCEPT !.exists = TRUE, !.drifted = FALSE, !.annotation = hubKey[o]]]
  /\ UNCHANGED <<namespaces, secret, svc>>

\* applyClusterManager creates the object, or restores its spec; the
\* annotation of an existing one is left as it is.
ApplyClusterManager(o) ==
  LET c == Target(o) IN
  /\ Applied(o, "clustermanager")
  /\ cm' = [cm EXCEPT ![c] =
              IF @.exists THEN [@ EXCEPT !.drifted = FALSE]
              ELSE [NoClusterManager EXCEPT !.exists = TRUE, !.annotation = hubKey[o]]]
  /\ UNCHANGED <<namespaces, secret, svc>>

\* The API server refuses an object in a missing namespace, and a service
\* whose node port is taken or out of range.
ApplyRefused(o, f) ==
  LET c == Target(o) IN
  /\ hubPc[o] = f
  /\ \/ f = "secret" /\ c \notin namespaces
     \/ f \in Kinds /\ svc[c][f] = 0 /\ (c \notin namespaces \/ ~PortFree(port[o][f]))
  /\ ApplyFails(o, f)
  /\ UNCHANGED boundVars

\* The call is lost, or meets a conflicting write.
ApplyLost(o, f) ==
  /\ ApplyFails(o, f)
  /\ Disrupt
  /\ UNCHANGED <<tampered, restarts>>

\* The call took effect but its answer was lost: an error all the same.
AnswerLost(o) ==
  /\ hubPc[o] \notin {"idle", "namespace"} /\ ~hubFailed[o]
  /\ hubFailed' = [hubFailed EXCEPT ![o] = TRUE]
  /\ Disrupt
  /\ UNCHANGED <<ws, mgmtVars, tampered, restarts>>
  /\ UNCHANGED <<hubLister, hubQueue, hubPc, hubKey, hubSeen, port, started>>

\* Mutant: a condition that was never set counts as true.
IsWorkspaceStatusConditionNotFalse(cond) == cond.status # "False"

IsWorkspaceStatusConditionTrue(cond) == cond.status = "True"

\* A hub that has an entry in the map keeps it, and with it its controllers.
startHubControllers(h) == started' = started \cup {h}

\* Mutant: the errors of prepareClusterManager do not end the pass.
FinishHubSyncRegardless(o) ==
  LET h == hubKey[o] IN
  /\ hubPc[o] = "start"
  /\ hubPc' = [hubPc EXCEPT ![o] = "idle"]
  /\ hubKey' = [hubKey EXCEPT ![o] = None]
  /\ hubSeen' = [hubSeen EXCEPT ![o] = NoCondition]
  /\ hubFailed' = [hubFailed EXCEPT ![o] = FALSE]
  /\ hubQueue' = IF hubFailed[o] THEN hubQueue \cup {h} ELSE hubQueue
  /\ IF IsWorkspaceStatusConditionTrue(hubSeen[o])
     THEN startHubControllers(h) ELSE UNCHANGED started
  /\ UNCHANGED <<cpVars, hubLister, port>>

\* The tail of sync: retry after an error, otherwise start the hub's
\* controllers when the workspace read at the start of the pass says so.
FinishHubSync(o) ==
  LET h == hubKey[o] IN
  /\ hubPc[o] = "start"
  /\ hubPc' = [hubPc EXCEPT ![o] = "idle"]
  /\ hubKey' = [hubKey EXCEPT ![o] = None]
  /\ hubSeen' = [hubSeen EXCEPT ![o] = NoCondition]
  /\ hubFailed' = [hubFailed EXCEPT ![o] = FALSE]
  /\ hubQueue' = IF hubFailed[o] THEN hubQueue \cup {h} ELSE hubQueue
  /\ IF ~hubFailed[o] /\ IsWorkspaceStatusConditionTrue(hubSeen[o])
     THEN startHubControllers(h) ELSE UNCHANGED started
  /\ UNCHANGED <<cpVars, hubLister, port>>

HubSync(o) ==
  \/ ApplyNamespace(o) \/ ApplySecret(o) \/ ApplyClusterManager(o)
  \/ \E k \in Kinds : ApplyService(o, k)
  \/ \E f \in HubFiles : ApplyRefused(o, f)
  \/ FinishHubSync(o)

\* The process dies and comes back with nothing but the API objects.
Dies == restarts < MaxRestarts /\ restarts' = restarts + 1
HubRestart ==
  /\ hubLister' = [h \in Hubs |-> NoWorkspace]
  /\ hubQueue' = {}
  /\ hubPc' = [o \in Orgs |-> "idle"]
  /\ hubKey' = [o \in Orgs |-> None]
  /\ hubSeen' = [o \in Orgs |-> NoCondition]
  /\ hubFailed' = [o \in Orgs |-> FALSE]
  /\ port' = [o \in Orgs |-> Base]
  /\ started' = {}
-------------------------------------------------------------------------------
(* The controllers of all organizations by themselves: the condition is    *)
(* set by the clusterManagerController, here at any moment, and calls of   *)
(* that controller and of the operator may fail.                           *)

OtherCallLost == Disrupt /\ UNCHANGED <<ws, mgmtVars, tampered, restarts>>

\* The answer of the write may be lost.
ConditionSet(h) ==
  /\ ws[h].phase # "Absent"
  /\ ws' = [ws EXCEPT ![h].cond = [status |-> "True", reason |-> "Applied"]]
  /\ Disrupt \/ UNCHANGED disruptions
  /\ UNCHANGED <<mgmtVars, tampered, restarts>>

Restart == Dies /\ HubRestart /\ UNCHANGED <<ws, mgmtVars, tampered, disruptions>>

HubEnvironment ==
  /\ \/ CpEnvironment \/ OtherCallLost
     \/ \E h \in Hubs : DeleteWorkspace(h) \/ ConditionSet(h)
     \/ \E c \in ClusterManagers : DeleteNamespace(c)
  /\ UNCHANGED hubVars

Next ==
  \/ \E h \in Hubs : HubInformer(h) \/ HubResync(h) \/ HubSyncIgnores(h) \/ BeginHubSync(h)
  \/ \E o \in Orgs : HubSync(o) \/ (\E f \in HubFiles : ApplyLost(o, f)) \/ AnswerLost(o)
  \/ HubEnvironment
  \/ Restart

\* The informers deliver, the resync timers fire and the workers run; the
\* queue is first in, first out, so every key that waits gets its turn.
HubFairness ==
  /\ \A h \in Hubs : WF_vars(HubInformer(h)) /\ WF_vars(HubResync(h))
  /\ \A h \in Hubs : SF_vars(HubSyncIgnores(h) \/ BeginHubSync(h))
  /\ \A o \in Orgs : WF_vars(HubSync(o))

Spec == Init /\ [][Next]_vars
FairSpec == Spec /\ HubFairness
-------------------------------------------------------------------------------
TypeOK == CpTypeOK /\ HubTypeOK

\* What applying a file of hubFiles for hub h leaves behind.
InPlace(h, f) ==
  LET c == ClusterManagerName(h) IN
  \/ f = "namespace" /\ c \in namespaces
  \/ f = "secret" /\ secret[c] = h
  \/ f \in Kinds /\ svc[c][f] # 0
  \/ f = "clustermanager" /\ cm[c].exists

Provisioned(h) == \A f \in HubFiles : InPlace(h, f)

FilesBefore == [namespace      |-> {},
                secret         |-> {"namespace"},
                registration   |-> {"namespace", "secret"},
                work           |-> {"namespace", "secret", "registration"},
                clustermanager |-> HubFiles \ {"clustermanager"},
                start          |-> HubFiles]

\* ApplyObjects collects errors and carries on, so a pass can reach its end
\* with gaps behind it; a pass that has met no error has none, whatever the
\* other organizations and the users do meanwhile.
CleanPassLeavesNoGaps ==
  \A o \in Orgs, h \in Hubs :
    /\ hubPc[o] # "idle" /\ hubKey[o] = h /\ ~hubFailed[o]
    /\ Alone(h) /\ ClusterManagerName(h) \notin tampered
    => \A f \in FilesBefore[hubPc[o]] : InPlace(h, f)

\* hubworkspace.go promises that controllers start only after
\* prepareClusterManager succeeded: whatever calls fail on the way, in whatever
\* passes, a hub with controllers has all of its management-cluster objects,
\* unless an administrator removed some or another hub shares their names.
StartImpliesProvisioned ==
  \A h \in started :
    Alone(h) /\ ClusterManagerName(h) \notin tampered => Provisioned(h)

\* prepareClusterManager draws new ports on every pass, resyncs included, and
\* the webhook configurations keep the port they were given first: no pass may
\* move a service that exists to another port.
PortsNeverMove ==
  [][\A c \in ClusterManagers, k \in Kinds :
       svc[c][k] # 0 /\ svc'[c][k] # 0 => svc'[c][k] = svc[c][k]]_vars

\* The counters that prepareClusterManager advances stay ahead of every port
\* they gave out, until the process dies and they start over: during a pass no
\* other hub of the organization holds a port the pass could ask for of the
\* same kind.
CountersLeadPorts ==
  restarts = 0 =>
    \A h \in Hubs, k \in Kinds :
      LET o == Org(h) IN
      Alone(h) =>
        /\ svc[ClusterManagerName(h)][k] <= port[o][k]
        /\ hubPc[o] # "idle" /\ hubKey[o] # h
             => svc[ClusterManagerName(h)][k] < port[o][k]

\* Nothing is returned to the range the counters draw from: a service that is
\* missing when its counter is past the end cannot be created until the
\* process restarts.
PortsExhausted(h) ==
  \E k \in Kinds : svc[ClusterManagerName(h)][k] = 0 /\ port[Org(h)][k] > MaxPort

\* Retries, resyncs, deletions and other hubs bring none back: nothing that
\* happens in the life of the process helps a hub that has come too late.
ExhaustedUntilRestart ==
  [][\A h \in Hubs :
       Alone(h) /\ PortsExhausted(h) => PortsExhausted(h)' \/ restarts' # restarts]_vars

\* Failed calls, taken ports and deleted objects are repaired by retries and
\* resyncs: a Ready workspace is provisioned in the end, or the organization
\* has used up its node ports.
EventuallyProvisioned ==
  \A h \in Hubs :
    (ws[h].phase = "Ready")
      ~> (Provisioned(h) \/ ws[h].phase # "Ready" \/ PortsExhausted(h))

\* contrib/demo-script.sh waits, after creating a hub workspace, until "the
\* hosted cluster manager is available": every workspace that stays Ready gets
\* its management-cluster objects.
EveryHubProvisioned ==
  \A h \in Hubs : (ws[h].phase = "Ready") ~> (Provisioned(h) \/ ws[h].phase # "Ready")
===============================================================================
