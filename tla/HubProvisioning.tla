---------------------------- MODULE HubProvisioning ----------------------------
(***************************************************************************)
(* The whole path from a hub workspace to a working hub: the               *)
(* hubWorkspaceControllers of all organizations, the                       *)
(* clusterManagerController, the cluster-manager operator and kcp, meeting *)
(* through API objects only.  The condition ClusterManagerApplied, which   *)
(* module HubWorkspace lets anyone set, is set here by the                 *)
(* clusterManagerController and nobody else.                               *)
(*                                                                         *)
(* A hub's controllers watch resources that the operator installs in the   *)
(* hub workspace.  Their informers wait ten minutes for them; then the     *)
(* whole process exits.                                                    *)
(***************************************************************************)
EXTENDS HubWorkspace, ClusterManagerSync

VARIABLES
  crds,    \* the hub workspaces the operator deployed the hub's resources in
  synced   \* the hubs whose controllers have their caches and run

linkVars == <<crds, synced>>
allVars == <<cpVars, hubVars, hookVars, cmVars, linkVars>>

ProvisioningTypeOK ==
  /\ CpTypeOK /\ HubTypeOK /\ CmTypeOK
  /\ crds \in SUBSET Hubs
  /\ synced \in SUBSET started

ProvisioningInit == Init /\ HooksInit /\ CmInit /\ crds = {} /\ synced = {}
-------------------------------------------------------------------------------
(* The operator on the management cluster. *)

\* With the kubeconfig of the secret the operator deploys the hub in the
\* workspace, publishes the CA bundle of the webhooks and reports success.
OperatorDeploys(c) ==
  /\ cm[c].exists /\ c \in namespaces /\ secret[c] # None
  /\ ws[secret[c]].phase = "Ready"
  /\ crds' = crds \cup {secret[c]}
  /\ caBundle' = [caBundle EXCEPT ![c] = IF @ = 0 THEN 1 ELSE @]
  /\ cm' = [cm EXCEPT ![c].applied = "True", ![c].degraded = FALSE]
  /\ UNCHANGED <<ws, namespaces, secret, svc, boundVars, hubVars, webhooks, cmVars, synced>>

OperatorFails(c) ==
  /\ OperatorReports(c)
  /\ Disrupt
  /\ UNCHANGED <<ws, namespaces, secret, svc, tampered, restarts, hubVars, webhooks, cmVars, linkVars>>

\* With the workspace go its webhook configurations and the hub's resources.
WorkspaceGone(h) ==
  /\ DeleteWorkspace(h)
  /\ webhooks' = [webhooks EXCEPT ![h] = [f \in WebhookFiles |-> None]]
  /\ crds' = crds \ {h}
  /\ UNCHANGED <<hubVars, caBundle, cmVars, synced>>

\* With the namespace goes the ConfigMap of the CA bundle.
NamespaceGone(c) ==
  /\ DeleteNamespace(c)
  /\ caBundle' = [caBundle EXCEPT ![c] = 0]
  /\ UNCHANGED <<hubVars, webhooks, cmVars, linkVars>>
-------------------------------------------------------------------------------
(* The process. *)

CachesSynced(h) ==
  /\ h \in started \ synced /\ h \in crds
  /\ synced' = synced \cup {h}
  /\ UNCHANGED <<cpVars, hubVars, hookVars, cmVars, crds>>

ProcessDies ==
  /\ Dies /\ HubRestart /\ CmRestart
  /\ synced' = {}
  /\ UNCHANGED <<ws, mgmtVars, tampered, disruptions, hookVars, crds>>

\* Ten minutes after they were started a hub's controllers still lack a cache.
CacheSyncTimeout(h) == h \in started \ synced /\ h \notin crds /\ ProcessDies

HubSide(A) == A /\ UNCHANGED <<hookVars, cmVars, linkVars>>
CmSide(A) == A /\ UNCHANGED <<hubVars, linkVars>>

ProvisioningNext ==
  \/ \E h \in Hubs :
       \/ HubSide(HubInformer(h) \/ HubResync(h) \/ HubSyncIgnores(h) \/ BeginHubSync(h))
       \/ WorkspaceGone(h) \/ CachesSynced(h) \/ CacheSyncTimeout(h)
  \/ \E o \in Orgs : HubSide(HubSync(o) \/ (\E f \in HubFiles : ApplyLost(o, f)) \/ AnswerLost(o))
  \/ \E c \in ClusterManagers :
       \/ CmSide(CmInformer(c) \/ CmResync(c) \/ CmSyncIgnores(c) \/ BeginCmSync(c) \/ RotateBundle(c))
       \/ OperatorDeploys(c) \/ OperatorFails(c) \/ NamespaceGone(c)
  \/ CmSide(CmSync \/ WebhooksLost \/ CmCallLost)
  \/ CpEnvironment /\ UNCHANGED <<hubVars, hookVars, cmVars, linkVars>>
  \/ ProcessDies

ProvisioningSpec == ProvisioningInit /\ [][ProvisioningNext]_allVars

\* Informers deliver, resync timers fire, workers run, and every waiting key
\* gets its turn; the operator is assumed to deploy what it can.
ProvisioningFairness ==
  /\ \A h \in Hubs :
       /\ WF_allVars(HubSide(HubInformer(h))) /\ WF_allVars(HubSide(HubResync(h)))
       /\ SF_allVars(HubSide(HubSyncIgnores(h) \/ BeginHubSync(h)))
       /\ WF_allVars(CachesSynced(h))
  /\ \A o \in Orgs : WF_allVars(HubSide(HubSync(o)))
  /\ \A c \in ClusterManagers :
       /\ WF_allVars(CmSide(CmInformer(c))) /\ WF_allVars(CmSide(CmResync(c)))
       /\ SF_allVars(CmSide(CmSyncIgnores(c) \/ BeginCmSync(c)))
       /\ WF_allVars(OperatorDeploys(c))
  /\ WF_allVars(CmSide(CmSync))

ProvisioningFairSpec == ProvisioningSpec /\ ProvisioningFairness
-------------------------------------------------------------------------------
(* HubWorkspace knows neither what the operator reports nor the reason that *)
(* a condition gives.  Without them this system is one of its behaviours:   *)
(* what holds there, where the condition may be set at any moment, holds of *)
(* the two controllers together.                                            *)

WithoutReason(cond) ==
  IF cond.status = "True" THEN [status |-> "True", reason |-> "Applied"] ELSE NoCondition
Unexplained(w) == [w EXCEPT !.cond = WithoutReason(@)]
Unreported(m) == [m EXCEPT !.applied = "Absent", !.degraded = FALSE]

plainWs == [h \in Hubs |-> Unexplained(ws[h])]
plainLister == [h \in Hubs |-> Unexplained(hubLister[h])]
plainSeen == [o \in Orgs |-> WithoutReason(hubSeen[o])]
plainCm == [c \in ClusterManagers |-> Unreported(cm[c])]

Hub == INSTANCE HubWorkspaceProofs WITH
         ws <- plainWs, cm <- plainCm, hubLister <- plainLister, hubSeen <- plainSeen

\* sync of the hubWorkspaceController is written for a condition that others
\* set: nothing the clusterManagerController, the operator and their failures
\* do to it goes beyond what it is prepared for.
ImplementsHubWorkspace == Hub!Spec
-------------------------------------------------------------------------------
WebhooksInstalled(h) == \A f \in WebhookFiles : webhooks[h][f] # None

(* What of this system a user of the hubs sees. *)

NameOf == [h \in Hubs |-> ClusterManagerName(h)]
born == [h \in Hubs |-> ws[h].inc]
alive == {h \in Hubs : ws[h].phase # "Absent"}
claims == {h \in Hubs : cm[ClusterManagerName(h)].annotation = h}
hooked == {h \in Hubs : WebhooksInstalled(h)}
vouched == {h \in Hubs : ws[h].cond.status = "True"}

Lifecycle == INSTANCE HubLifecycle WITH spoiled <- tampered, running <- started

\* The two controllers bring a hub up in order, for one owner of each
\* ClusterManager, and take nothing back, although they agree through stale
\* copies of two objects and every call may fail or take effect unnoticed.
ImplementsHubLifecycle == Lifecycle!LifeSpec
-------------------------------------------------------------------------------
\* sync applies the webhooks before it sets the condition, and a pass that
\* fails half-way sets nothing: a workspace that carries the condition has all
\* four webhook configurations, unless it replaced one of the same name.
ConditionImpliesWebhooks ==
  \A h \in Hubs : ws[h].inc = 1 /\ ws[h].cond.status = "True" => WebhooksInstalled(h)

\* The two controllers agree through the condition alone, read from a cache:
\* even so a hub's controllers never run in a workspace without its webhooks.
ControllersAfterWebhooks ==
  \A h \in started : ws[h].inc = 1 /\ ws[h].phase # "Absent" => WebhooksInstalled(h)

\* Two workspaces whose names yield one ClusterManager name share its objects,
\* and each pass over one of them points the kubeconfig at it.  The annotation
\* set at creation keeps them apart: one of them at most gets controllers.
OneHubPerClusterManager ==
  \A g, h \in started :
    ClusterManagerName(g) = ClusterManagerName(h) => g = h \/ ClusterManagerName(g) \in tampered

\* The webhook configurations keep the address they were created with, while
\* sync draws new ports on every pass: the address stays that of the service.
WebhooksReachServices ==
  \A h \in Hubs, f \in WebhookFiles :
    LET c == ClusterManagerName(h) IN
    c \notin tampered /\ webhooks[h][f] # None
      => webhooks[h][f].port = svc[c][WebhookKind(f)]

\* The annotation that leads from a ClusterManager to its workspace is written
\* at creation only; a ClusterManager that lost it is never acted upon again.
Orphaned(c) == cm[c].exists /\ cm[c].annotation = None

\* The clusterManagerController knows of no annotation either.
Unled(c) == Orphaned(c) /\ cmLister[c].annotation = None /\ (cmPc # "idle" => cmKey # c)

\* Every pass of sync restores the spec of an edited ClusterManager, none the
\* annotation: its hubs get neither webhooks nor a condition any more, from
\* nobody, until it is deleted.
OrphansStayUnled ==
  [][\A c \in ClusterManagers : Unled(c) =>
       /\ Unled(c)' \/ ~cm'[c].exists
       /\ \A h \in Hubs : ClusterManagerName(h) = c =>
            /\ ws'[h].cond \in {ws[h].cond, NoCondition}
            /\ \A f \in WebhookFiles : webhooks'[h][f] \in {webhooks[h][f], None}]_allVars

\* Through lost calls, deleted objects, failure reports, update conflicts and
\* process exits, a workspace that stays Ready has its controllers running in
\* the end, or the node ports ran out, or the annotation was removed.
EventuallyServed ==
  \A h \in Hubs :
    (ws[h].phase = "Ready")
      ~> \/ h \in synced
         \/ ws[h].phase # "Ready" \/ PortsExhausted(h) \/ Orphaned(ClusterManagerName(h))

\* A workspace deleted and created again under its name may get the condition
\* from a pass that installed the webhooks in its predecessor: resyncs make up
\* for it, unless the annotation was removed or a service cannot be recreated.
ConditionEventuallyBacked ==
  \A h \in Hubs :
    (ws[h].cond.status = "True")
      ~> \/ WebhooksInstalled(h)
         \/ ws[h].phase = "Absent" \/ PortsExhausted(h) \/ Orphaned(ClusterManagerName(h))

\* The entry of a hub in the controllers map outlives its workspace: the hub's
\* controllers run in a recreated workspace at once, whose webhooks follow.
ControllersEventuallyBacked ==
  \A h \in Hubs :
    (h \in started /\ ws[h].phase = "Ready")
      ~> \/ WebhooksInstalled(h)
         \/ h \notin started \/ ws[h].phase # "Ready"
         \/ PortsExhausted(h) \/ Orphaned(ClusterManagerName(h))

\* The condition is recomputed from a cache and written back with a conflict
\* check: once what the operator reports stays put, so does the condition.
Reported(h) ==
  LET c == ClusterManagerName(h) IN
  /\ cm[c].annotation = h /\ cm[c].applied # "Absent"
  /\ caBundle[c] # 0 /\ \A k \in Kinds : svc[c][k] # 0
  /\ ws[h].phase # "Absent"

ConditionTracksReports ==
  \A h \in Hubs :
    <>[]Reported(h) => <>[](ws[h].cond = isClusterManagerApplied(cm[ClusterManagerName(h)]))

\* hubworkspace.go: "wait the cluster manager is deployed, and then start the
\* controllers that are on this hub workspace".
ControllersOnlyWhenDeployed ==
  \A h \in started : ws[h].inc = 1 /\ ws[h].phase # "Absent" => h \in crds

\* "ApplyMutatingWebhookConfiguration ensures the form of the specified
\* mutatingwebhookconfiguration is present in the API": a pass whose calls all
\* succeeded leaves what the templates rendered.
AppliedWebhooksPresent ==
  [][CmSide(WebhooksApplied)
       => \A f \in WebhookFiles : webhooks'[cmHub][f] = Rendered(cmConfig, f)]_allVars
===============================================================================
