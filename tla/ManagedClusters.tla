---------------------------- MODULE ManagedClusters ----------------------------
(***************************************************************************)
(* The managedClusterControllers, one per running hub: for every           *)
(* ManagedCluster of its hub workspace a controller applies a ClusterRole  *)
(* and a ClusterRoleBinding for the organization workspace, then a pair    *)
(* for the hub workspace.  The names of these objects hold the             *)
(* organization (and the hub), never the cluster: each binding has one     *)
(* subject, the group of the cluster that was synced last.                 *)
(*                                                                         *)
(* The binding of an organization is written by the controllers of all its *)
(* hubs, so its Get and its Update are steps of their own; the objects of  *)
(* a hub have one writer.                                                  *)
(***************************************************************************)
EXTENDS Naturals, FiniteSets

CONSTANTS
  Clusters,       \* managed clusters, <<hub, name>> with hub = <<org, workspace>>
  None,           \* no value
  MaxDisruptions  \* bound: lost calls, lost answers, deleted clusters and deaths of the process

Hub(c) == c[1]
ClusterName(c) == c[2]
Org(h) == h[1]
Hubs == {Hub(c) : c \in Clusters}
Orgs == {Org(h) : h \in Hubs}
ClusterNames == {ClusterName(c) : c \in Clusters}
OrgClusters(o) == {c \in Clusters : Org(Hub(c)) = o}

ASSUME ClustersAssumption ==
  /\ None \notin Clusters \cup ClusterNames
  /\ MaxDisruptions \in Nat

VARIABLES
  joined,      \* the ManagedClusters that exist
  orgRoles,    \* the organizations whose ClusterRole exists
  orgBinding,  \* the cluster in the subject of each organization's binding; None: no binding
  hubRoles,    \* the hubs whose ClusterRole exists
  hubBinding,  \* the same for the binding of each hub
  mcLister,    \* the ManagedClusters in the informers' stores
  mcQueue,     \* the keys waiting in the controllers' work queues
  mcPc,        \* what the worker of each hub does next
  mcKey,       \* the cluster it works on, None between passes
  mcFailed,    \* whether a call of this pass failed
  mcFresh,     \* the hubs whose copy of the organization's binding is the stored one
  disruptions  \* how many disruptions happened

kcpVars == <<joined, orgRoles, orgBinding, hubRoles, hubBinding>>
mcVars == <<mcLister, mcQueue, mcPc, mcKey, mcFailed, mcFresh>>
vars == <<kcpVars, mcVars, disruptions>>

Steps == {"orgRole", "orgGet", "orgWrite", "orgDone", "hubRole", "hubBinding", "hubDone"}

McTypeOK ==
  /\ joined \in SUBSET Clusters
  /\ orgRoles \in SUBSET Orgs /\ hubRoles \in SUBSET Hubs
  /\ orgBinding \in [Orgs -> ClusterNames \cup {None}]
  /\ hubBinding \in [Hubs -> ClusterNames \cup {None}]
  /\ mcLister \in SUBSET Clusters
  /\ mcQueue \in SUBSET Clusters
  /\ mcPc \in [Hubs -> Steps \cup {"idle"}]
  /\ mcKey \in [Hubs -> Clusters \cup {None}]
  /\ \A h \in Hubs : mcPc[h] # "idle" => mcKey[h] \in Clusters /\ Hub(mcKey[h]) = h
  /\ mcFailed \in [Hubs -> BOOLEAN]
  /\ mcFresh \in SUBSET Hubs
  /\ disruptions \in 0..MaxDisruptions

\* A process that has just started.
McStart(lister, queue, pc, key, failed, fresh) ==
  /\ lister = {} /\ queue = {}
  /\ pc = [h \in Hubs |-> "idle"]
  /\ key = [h \in Hubs |-> None]
  /\ failed = [h \in Hubs |-> FALSE]
  /\ fresh = {}

McInit ==
  /\ joined = {} /\ orgRoles = {} /\ hubRoles = {}
  /\ orgBinding = [o \in Orgs |-> None]
  /\ hubBinding = [h \in Hubs |-> None]
  /\ McStart(mcLister, mcQueue, mcPc, mcKey, mcFailed, mcFresh)
  /\ disruptions = 0

Disrupt == disruptions < MaxDisruptions /\ disruptions' = disruptions + 1
-------------------------------------------------------------------------------
(* The hubs' administrators and the informers. *)

Join(c) ==
  /\ c \notin joined
  /\ joined' = joined \cup {c}
  /\ UNCHANGED <<orgRoles, orgBinding, hubRoles, hubBinding, mcVars, disruptions>>

Leave(c) ==
  /\ c \in joined
  /\ Disrupt
  /\ joined' = joined \ {c}
  /\ UNCHANGED <<orgRoles, orgBinding, hubRoles, hubBinding, mcVars>>

McInformer(c) ==
  /\ (c \in mcLister) # (c \in joined)
  /\ mcLister' = IF c \in joined THEN mcLister \cup {c} ELSE mcLister \ {c}
  /\ mcQueue' = mcQueue \cup {c}
  /\ UNCHANGED <<kcpVars, mcPc, mcKey, mcFailed, mcFresh, disruptions>>

\* Every ten minutes the informer replays what its store holds.
McResync(c) ==
  /\ c \in mcLister
  /\ mcQueue' = mcQueue \cup {c}
  /\ UNCHANGED <<kcpVars, mcLister, mcPc, mcKey, mcFailed, mcFresh, disruptions>>
-------------------------------------------------------------------------------
(* One pass of sync over cluster c. *)

\* The authorizers of a cluster that is gone stay as they are.
McSyncIgnores(c) ==
  /\ mcPc[Hub(c)] = "idle" /\ c \in mcQueue \ mcLister
  /\ mcQueue' = mcQueue \ {c}
  /\ UNCHANGED <<kcpVars, mcLister, mcPc, mcKey, mcFailed, mcFresh, disruptions>>

\* Mutant: a cluster whose hub authorizers are in place counts as done.
BeginMcSyncOnce(c) ==
  /\ mcPc[Hub(c)] = "idle" /\ c \in mcQueue \cap mcLister
  /\ mcQueue' = mcQueue \ {c}
  /\ IF hubBinding[Hub(c)] = ClusterName(c)
     THEN UNCHANGED <<mcPc, mcKey>>
     ELSE /\ mcPc' = [mcPc EXCEPT ![Hub(c)] = "orgRole"]
          /\ mcKey' = [mcKey EXCEPT ![Hub(c)] = c]
  /\ UNCHANGED <<kcpVars, mcLister, mcFailed, mcFresh, disruptions>>

BeginMcSync(c) ==
  /\ mcPc[Hub(c)] = "idle" /\ c \in mcQueue \cap mcLister
  /\ mcQueue' = mcQueue \ {c}
  /\ mcPc' = [mcPc EXCEPT ![Hub(c)] = "orgRole"]
  /\ mcKey' = [mcKey EXCEPT ![Hub(c)] = c]
  /\ UNCHANGED <<kcpVars, mcLister, mcFailed, mcFresh, disruptions>>

\* The worker of h goes from step s to step t; a failed call is remembered.
Moves(h, s, t, ok) ==
  /\ mcPc[h] = s
  /\ mcPc' = [mcPc EXCEPT ![h] = t]
  /\ mcFailed' = [mcFailed EXCEPT ![h] = @ \/ ~ok]
  /\ UNCHANGED <<joined, mcLister, mcQueue, mcKey>>

\* Mutant: the key is looked up after it was cleared.
EndMcSyncLateKey(h) ==
  /\ mcPc' = [mcPc EXCEPT ![h] = "idle"]
  /\ mcKey' = [mcKey EXCEPT ![h] = None]
  /\ mcFailed' = [mcFailed EXCEPT ![h] = FALSE]
  /\ mcQueue' = IF mcFailed[h] THEN mcQueue \cup {mcKey'[h]} ELSE mcQueue
  /\ mcFresh' = mcFresh \ {h}
  /\ UNCHANGED <<kcpVars, mcLister, disruptions>>

\* The pass ends: its key is retried after an error.
EndMcSync(h) ==
  /\ mcPc' = [mcPc EXCEPT ![h] = "idle"]
  /\ mcKey' = [mcKey EXCEPT ![h] = None]
  /\ mcFailed' = [mcFailed EXCEPT ![h] = FALSE]
  /\ mcQueue' = IF mcFailed[h] THEN mcQueue \cup {mcKey[h]} ELSE mcQueue
  /\ mcFresh' = mcFresh \ {h}
  /\ UNCHANGED <<kcpVars, mcLister, disruptions>>

ApplyOrgRole(h) ==
  /\ Moves(h, "orgRole", "orgGet", TRUE)
  /\ orgRoles' = orgRoles \cup {Org(h)}
  /\ UNCHANGED <<orgBinding, hubRoles, hubBinding, mcFresh, disruptions>>

\* Mutant: a binding that exists is taken to be the right one.
GetOrgBindingExists(h) ==
  /\ Moves(h, "orgGet", IF orgBinding[Org(h)] # None THEN "orgDone" ELSE "orgWrite", TRUE)
  /\ mcFresh' = mcFresh \cup {h}
  /\ UNCHANGED <<orgRoles, orgBinding, hubRoles, hubBinding, disruptions>>

\* ApplyClusterRoleBinding reads the binding and compares its subject.
GetOrgBinding(h) ==
  /\ Moves(h, "orgGet",
           IF orgBinding[Org(h)] = ClusterName(mcKey[h]) THEN "orgDone" ELSE "orgWrite", TRUE)
  /\ mcFresh' = mcFresh \cup {h}
  /\ UNCHANGED <<orgRoles, orgBinding, hubRoles, hubBinding, disruptions>>

\* The write replaces the subject and makes every other copy stale.
BindOrg(h) ==
  /\ orgBinding' = [orgBinding EXCEPT ![Org(h)] = ClusterName(mcKey[h])]
  /\ mcFresh' = mcFresh \ {g \in Hubs : Org(g) = Org(h)}

\* The write carries the resourceVersion that was read, or creates an object
\* that must not exist: a worker whose copy is stale gets an error.
WriteOrgBinding(h) ==
  /\ Moves(h, "orgWrite", "orgDone", h \in mcFresh)
  /\ IF h \in mcFresh THEN BindOrg(h) ELSE UNCHANGED <<orgBinding, mcFresh>>
  /\ UNCHANGED <<orgRoles, hubRoles, hubBinding, disruptions>>

\* Mutant: the errors of prepareOrgWorkspaceAuthorizers do not end the pass.
OrgDoneRegardless(h) == Moves(h, "orgDone", "hubRole", TRUE) /\ UNCHANGED <<kcpVars, mcFresh, disruptions>>

\* An error of prepareOrgWorkspaceAuthorizers ends the pass.
OrgDone(h) ==
  IF mcFailed[h]
  THEN mcPc[h] = "orgDone" /\ EndMcSync(h)
  ELSE Moves(h, "orgDone", "hubRole", TRUE) /\ UNCHANGED <<kcpVars, mcFresh, disruptions>>

ApplyHubRole(h) ==
  /\ Moves(h, "hubRole", "hubBinding", TRUE)
  /\ hubRoles' = hubRoles \cup {h}
  /\ UNCHANGED <<orgRoles, orgBinding, hubBinding, mcFresh, disruptions>>

ApplyHubBinding(h) ==
  /\ Moves(h, "hubBinding", "hubDone", TRUE)
  /\ hubBinding' = [hubBinding EXCEPT ![h] = ClusterName(mcKey[h])]
  /\ UNCHANGED <<orgRoles, orgBinding, hubRoles, mcFresh, disruptions>>

HubDone(h) == mcPc[h] = "hubDone" /\ EndMcSync(h)

\* A call is lost.  ApplyObjects goes on to the binding when the role failed.
McCallLost(h) ==
  /\ \/ Moves(h, "orgRole", "orgGet", FALSE)
     \/ Moves(h, "orgGet", "orgDone", FALSE)
     \/ Moves(h, "orgWrite", "orgDone", FALSE)
     \/ Moves(h, "hubRole", "hubBinding", FALSE)
     \/ Moves(h, "hubBinding", "hubDone", FALSE)
  /\ Disrupt
  /\ UNCHANGED <<orgRoles, orgBinding, hubRoles, hubBinding, mcFresh>>

\* The last call took effect but its answer was lost: an error all the same.
McAnswerLost(h) ==
  /\ ~mcFailed[h]
  /\ \E s \in {"orgGet", "orgDone", "hubBinding", "hubDone"} : Moves(h, s, s, FALSE)
  /\ Disrupt
  /\ UNCHANGED <<orgRoles, orgBinding, hubRoles, hubBinding, mcFresh>>

McSync(h) ==
  \/ ApplyOrgRole(h) \/ GetOrgBinding(h) \/ WriteOrgBinding(h) \/ OrgDone(h)
  \/ ApplyHubRole(h) \/ ApplyHubBinding(h) \/ HubDone(h)

\* The process dies and comes back with nothing but the API objects.
McRestart ==
  /\ Disrupt
  /\ McStart(mcLister', mcQueue', mcPc', mcKey', mcFailed', mcFresh')
  /\ UNCHANGED kcpVars

McNext ==
  \/ \E c \in Clusters :
       \/ Join(c) \/ Leave(c) \/ McInformer(c) \/ McResync(c)
       \/ McSyncIgnores(c) \/ BeginMcSync(c)
  \/ \E h \in Hubs : McSync(h) \/ McCallLost(h) \/ McAnswerLost(h)
  \/ McRestart

McSpec == McInit /\ [][McNext]_vars

\* Informers deliver, resync timers fire, workers run, and the work queue
\* gives every key its turn (module KeySet).
McFairness ==
  /\ \A c \in Clusters :
       /\ WF_vars(McInformer(c)) /\ WF_vars(McResync(c))
       /\ SF_vars(McSyncIgnores(c) \/ BeginMcSync(c))
  /\ \A h \in Hubs : WF_vars(McSync(h))

McFairSpec == McSpec /\ McFairness
-------------------------------------------------------------------------------
Authorized(c) ==
  /\ Org(Hub(c)) \in orgRoles /\ orgBinding[Org(Hub(c))] = ClusterName(c)
  /\ Hub(c) \in hubRoles /\ hubBinding[Hub(c)] = ClusterName(c)

\* ApplyObjects carries on after an error, sync does not: whatever calls fail
\* and whichever writes collide, the binding of a hub never exists without
\* both objects of its organization, which come first.
HubAuthorizersComeLast ==
  \A h \in Hubs :
    hubBinding[h] # None => Org(h) \in orgRoles /\ orgBinding[Org(h)] # None

\* Deletion removes no authorizer, so those of a cluster that left stay until
\* another is synced: once a cluster is the only one of its organization it is
\* authorized for good, whatever was there before and whatever went wrong.
SoleClusterAuthorized ==
  \A c \in Clusters :
    <>[](joined \cap OrgClusters(Org(Hub(c))) = {c}) => <>[]Authorized(c)

\* Two clusters of one organization, in one hub or in two, overwrite the
\* organization's binding at every resync and refuse each other's writes: even
\* so neither is shut out for good.  (A third one could: two writers can make
\* the copy of the third stale forever.)
TwoTakeTurns ==
  \A c \in Clusters :
    LET present == joined \cap OrgClusters(Org(Hub(c))) IN
    <>[](c \in present /\ Cardinality(present) <= 2)
      => []<>(orgBinding[Org(Hub(c))] = ClusterName(c))

\* contrib/demo-script.sh, after it joined cluster dev to one hub of myorg and
\* cluster qe to another: "Now we have two independent ocm hub control planes
\* in the myorg workspace".  A cluster alone in its hub stays authorized.
IndependentHubs ==
  \A c \in Clusters :
    <>[]({d \in joined : Hub(d) = Hub(c)} = {c}) => <>[]Authorized(c)
===============================================================================
