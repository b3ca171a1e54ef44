----------------------------- MODULE ControlPlane -----------------------------
(***************************************************************************)
(* The API objects through which the controllers of kcp-integration meet: *)
(* the ClusterWorkspaces that kcp serves in an organization workspace, and *)
(* the objects on the management cluster that host one Open Cluster        *)
(* Management hub per workspace (namespace, kubeconfig secret, the two     *)
(* webhook services and the ClusterManager).  The actions of this module   *)
(* are what kcp, the users and administrators do to those objects.         *)
(*                                                                         *)
(* An API write is one atomic step: every writer sends the resourceVersion *)
(* it read, so a lost race surfaces as a failed call, which the            *)
(* controllers' modules allow at every call.                               *)
(***************************************************************************)
EXTENDS Naturals, Sequences, FiniteSets

CONSTANTS
  Hubs,           \* hub workspaces, <<org, name>>; a name is a sequence of '-'-separated parts
  None,           \* no value
  RegBase,        \* 30442: where the registration webhook's node ports start
  WorkBase,       \* 30452: where the work webhook's node ports start
  MaxPort,        \* 32767: the last node port an API server allocates
  MaxCreates,     \* bound: how often a workspace of one name is created
  MaxRestarts,    \* bound: how often the controller process dies
  MaxDisruptions  \* bound: failed API calls and objects deleted or edited behind the controllers' back

Org(h) == h[1]
Orgs == {Org(h) : h \in Hubs}

\* "kcp-%s-%s-cluster-manager": the parts of both names joined with the same
\* separator, so that <<a-b, c>> and <<a, b-c>> yield one name.
ClusterManagerName(h) == h[1] \o h[2]
ClusterManagers == {ClusterManagerName(h) : h \in Hubs}

\* No other hub workspace yields the ClusterManager name of h.
Alone(h) == \A g \in Hubs : ClusterManagerName(g) = ClusterManagerName(h) => g = h

ASSUME ConstantsAssumption ==
  /\ None \notin Hubs
  /\ RegBase \in Nat \ {0} /\ WorkBase \in Nat \ {0} /\ MaxPort \in Nat
  /\ RegBase <= MaxPort + 1 /\ WorkBase <= MaxPort + 1
  /\ MaxCreates \in Nat /\ MaxRestarts \in Nat /\ MaxDisruptions \in Nat

VARIABLES
  ws,           \* the ClusterWorkspace of each hub, as kcp stores it
  namespaces,   \* the ClusterManager namespaces that exist
  secret,       \* whose kubeconfig each namespace's external-hub-kubeconfig holds
  svc,          \* the node port of each webhook service; 0 when there is no service
  cm,           \* the ClusterManager objects
  tampered,     \* ClusterManagers whose objects an administrator deleted or edited
  restarts,     \* how often the process died
  disruptions   \* how many disruptions happened

mgmtVars == <<namespaces, secret, svc, cm>>
boundVars == <<tampered, restarts, disruptions>>
cpVars == <<ws, namespaces, secret, svc, cm, tampered, restarts, disruptions>>

Phases == {"Absent", "Initializing", "Ready"}
Kinds == {"registration", "work"}
Conditions ==
  [status : {"Absent", "True", "False"},
   reason : {"none", "Applied", "ApplyFailed", "ApplyDegraded"}]
NoCondition == [status |-> "Absent", reason |-> "none"]

\* inc tells apart the workspaces that bore one name, one after the other.
Workspaces == [inc : 0..MaxCreates, phase : Phases, cond : Conditions]
NoWorkspace == [inc |-> 0, phase |-> "Absent", cond |-> NoCondition]

\* applied and degraded stand for the status conditions Applied and
\* HubRegistrationDegraded / HubPlacementDegraded that the operator reports.
ClusterManagerObjects ==
  [exists : BOOLEAN, annotation : Hubs \cup {None}, drifted : BOOLEAN,
   applied : {"Absent", "True", "False"}, degraded : BOOLEAN]
NoClusterManager ==
  [exists |-> FALSE, annotation |-> None, drifted |-> FALSE,
   applied |-> "Absent", degraded |-> FALSE]

CpTypeOK ==
  /\ ws \in [Hubs -> Workspaces]
  /\ namespaces \in SUBSET ClusterManagers
  /\ secret \in [ClusterManagers -> Hubs \cup {None}]
  /\ svc \in [ClusterManagers -> [Kinds -> 0..MaxPort]]
  /\ cm \in [ClusterManagers -> ClusterManagerObjects]
  /\ tampered \in SUBSET ClusterManagers
  /\ restarts \in 0..MaxRestarts
  /\ disruptions \in 0..MaxDisruptions

CpInit ==
  /\ ws = [h \in Hubs |-> NoWorkspace]
  /\ namespaces = {}
  /\ secret = [c \in ClusterManagers |-> None]
  /\ svc = [c \in ClusterManagers |-> [k \in Kinds |-> 0]]
  /\ cm = [c \in ClusterManagers |-> NoClusterManager]
  /\ tampered = {}
  /\ restarts = 0
  /\ disruptions = 0

Disrupt == disruptions < MaxDisruptions /\ disruptions' = disruptions + 1
-------------------------------------------------------------------------------
(* kcp and its users. *)

CreateWorkspace(h) ==
  /\ ws[h].phase = "Absent"
  /\ ws[h].inc < MaxCreates
  /\ ws' = [ws EXCEPT ![h] = [inc |-> @.inc + 1, phase |-> "Initializing", cond |-> NoCondition]]
  /\ UNCHANGED <<mgmtVars, boundVars>>

WorkspaceReady(h) ==
  /\ ws[h].phase = "Initializing"
  /\ ws' = [ws EXCEPT ![h].phase = "Ready"]
  /\ UNCHANGED <<mgmtVars, boundVars>>

DeleteWorkspace(h) ==
  /\ ws[h].phase # "Absent"
  /\ Disrupt
  /\ ws' = [ws EXCEPT ![h] = [@ EXCEPT !.phase = "Absent", !.cond = NoCondition]]
  /\ UNCHANGED <<mgmtVars, tampered, restarts>>
-------------------------------------------------------------------------------
(* Administrators of the management cluster. *)

Tamper(c) == Disrupt /\ tampered' = tampered \cup {c} /\ UNCHANGED <<ws, restarts>>

\* Deleting a namespace deletes what it contains.
DeleteNamespace(c) ==
  /\ c \in namespaces
  /\ namespaces' = namespaces \ {c}
  /\ secret' = [secret EXCEPT ![c] = None]
  /\ svc' = [svc EXCEPT ![c] = [k \in Kinds |-> 0]]
  /\ Tamper(c)
  /\ UNCHANGED cm

DeleteClusterManager(c) ==
  /\ cm[c].exists
  /\ cm' = [cm EXCEPT ![c] = NoClusterManager]
  /\ Tamper(c)
  /\ UNCHANGED <<namespaces, secret, svc>>

\* Someone edits the spec, or strips the workspace annotation.
EditClusterManager(c) ==
  /\ cm[c].exists
  /\ \/ cm' = [cm EXCEPT ![c].drifted = TRUE]
     \/ cm' = [cm EXCEPT ![c].annotation = None]
  /\ Tamper(c)
  /\ UNCHANGED <<namespaces, secret, svc>>

CpEnvironment ==
  \/ \E h \in Hubs : CreateWorkspace(h) \/ WorkspaceReady(h)
  \/ \E c \in ClusterManagers : DeleteClusterManager(c) \/ EditClusterManager(c)
===============================================================================
