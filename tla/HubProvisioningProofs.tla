------------------------- MODULE HubProvisioningProofs -------------------------
(***************************************************************************)
(* Proofs about the path from a hub workspace to a working hub, for any    *)
(* hubs, names, port ranges and bounds.                                    *)
(***************************************************************************)
EXTENDS HubProvisioning, HubWorkspaceProofs

USE DEF Orgs, Kinds, HubFiles, AfterFile

\* Most steps of the composition are steps of the hubWorkspaceControllers or
\* leave them alone, so that what holds of those holds here.
LEMMA HubSteps ==
  [ProvisioningNext]_allVars =>
    \/ [Next]_vars
    \/ \E c \in ClusterManagers : OperatorDeploys(c) \/ OperatorFails(c)
    \/ CmSide(CmSync \/ WebhooksLost \/ CmCallLost)
<1> SUFFICES ASSUME [ProvisioningNext]_allVars
             PROVE  \/ [Next]_vars
                    \/ \E c \in ClusterManagers : OperatorDeploys(c) \/ OperatorFails(c)
                    \/ CmSide(CmSync \/ WebhooksLost \/ CmCallLost)
  OBVIOUS
<1>1. ASSUME NEW h \in Hubs,
             HubSide(HubInformer(h) \/ HubResync(h) \/ HubSyncIgnores(h) \/ BeginHubSync(h))
      PROVE  Next
  BY <1>1 DEF HubSide, Next
<1>2. ASSUME NEW h \in Hubs, WorkspaceGone(h) PROVE Next
  BY <1>2 DEF WorkspaceGone, HubEnvironment, Next
<1>3. ProcessDies => Next
  BY DEF ProcessDies, Restart, Next
<1>4. ASSUME NEW h \in Hubs, CachesSynced(h) PROVE UNCHANGED vars
  BY <1>4 DEF CachesSynced, vars
<1>5. ASSUME NEW o \in Orgs,
             HubSide(HubSync(o) \/ (\E f \in HubFiles : ApplyLost(o, f)) \/ AnswerLost(o))
      PROVE  Next
  BY <1>5 DEF HubSide, Next
<1>6. ASSUME NEW c \in ClusterManagers,
             CmSide(CmInformer(c) \/ CmResync(c) \/ CmSyncIgnores(c) \/ BeginCmSync(c) \/ RotateBundle(c))
      PROVE  UNCHANGED vars
  BY <1>6 DEF CmSide, CmInformer, CmResync, CmSyncIgnores, BeginCmSync, RotateBundle, vars
<1>7. ASSUME NEW c \in ClusterManagers, NamespaceGone(c) PROVE Next
  BY <1>7 DEF NamespaceGone, HubEnvironment, Next
<1>8. CpEnvironment /\ UNCHANGED <<hubVars, hookVars, cmVars, linkVars>> => Next
  BY DEF HubEnvironment, Next
<1>9. UNCHANGED allVars => UNCHANGED vars
  BY DEF allVars, vars
<1> QED
  BY <1>1, <1>2, <1>3, <1>4, <1>5, <1>6, <1>7, <1>8, <1>9 DEF ProvisioningNext, CacheSyncTimeout
-------------------------------------------------------------------------------
(* Type correctness. *)

LEMMA ReportType ==
  ASSUME NEW m \in ClusterManagerObjects
  PROVE  /\ [m EXCEPT !.applied = "True", !.degraded = FALSE] \in ClusterManagerObjects
         /\ [m EXCEPT !.applied = "False"] \in ClusterManagerObjects
         /\ [m EXCEPT !.degraded = TRUE] \in ClusterManagerObjects
BY DEF ClusterManagerObjects

LEMMA ConditionWrittenType ==
  ASSUME NEW w \in Workspaces, NEW cond \in Conditions
  PROVE  [w EXCEPT !.cond = cond] \in Workspaces
BY Zenon DEF Workspaces

\* What the operator reports.
LEMMA ReportsType ==
  ASSUME CpTypeOK, NEW c \in ClusterManagers, OperatorDeploys(c) \/ OperatorFails(c)
  PROVE  CpTypeOK'
<1> USE DEF CpTypeOK, boundVars, mgmtVars, cpVars
<1>1. cm[c] \in ClusterManagerObjects
  OBVIOUS
<1>2. CASE OperatorDeploys(c)
  <2>1. cm' = [cm EXCEPT ![c] = [cm[c] EXCEPT !.applied = "True", !.degraded = FALSE]]
    BY <1>2 DEF OperatorDeploys
  <2> QED BY <1>1, <1>2, <2>1, ReportType DEF OperatorDeploys
<1>3. CASE OperatorFails(c)
  <2>1. \/ cm' = [cm EXCEPT ![c] = [cm[c] EXCEPT !.applied = "False"]]
        \/ cm' = [cm EXCEPT ![c] = [cm[c] EXCEPT !.degraded = TRUE]]
    BY <1>3 DEF OperatorFails, OperatorReports
  <2>2. disruptions' \in 0..MaxDisruptions
    BY <1>3, ConstantsAssumption DEF OperatorFails, Disrupt
  <2> QED BY <1>1, <1>3, <2>1, <2>2, ReportType DEF OperatorFails
<1> QED BY <1>2, <1>3

LEMMA PassType ==
  ASSUME CpTypeOK, CmTypeOK, CmSide(CmSync \/ WebhooksLost \/ CmCallLost)
  PROVE  CpTypeOK'
<1> USE DEF CpTypeOK, CmTypeOK, boundVars, mgmtVars, cpVars
<1>1. CASE ReadEndpoints
  BY <1>1 DEF ReadEndpoints
<1>2. CASE WebhooksApplied
  BY <1>2 DEF WebhooksApplied, ApplyWebhooks
<1>3. CASE WebhooksRefused
  BY <1>3 DEF WebhooksRefused
<1>4. CASE GetWorkspace
  BY <1>4 DEF GetWorkspace
<1>5. ASSUME cmPc = "update", ws' = [ws EXCEPT ![cmHub].cond = cmCond] PROVE ws' \in [Hubs -> Workspaces]
  <2>1. ws[cmHub] \in Workspaces /\ cmCond \in Conditions
    BY <1>5
  <2>2. ws' = [ws EXCEPT ![cmHub] = [ws[cmHub] EXCEPT !.cond = cmCond]]
    BY <1>5
  <2>3. [ws[cmHub] EXCEPT !.cond = cmCond] \in Workspaces
    BY <2>1, ConditionWrittenType
  <2> QED BY <2>2, <2>3
<1>6. CASE UpdateStatus
  BY <1>5, <1>6 DEF UpdateStatus
<1>7. CASE WebhooksLost
  BY <1>7, ConstantsAssumption DEF WebhooksLost, ApplyWebhooks, Disrupt
<1>8. CASE CmCallLost
  BY <1>5, <1>8, ConstantsAssumption DEF CmCallLost, Disrupt
<1> QED
  BY <1>1, <1>2, <1>3, <1>4, <1>6, <1>7, <1>8 DEF CmSide, CmSync

LEMMA HubTypePreserved ==
  ASSUME CpTypeOK, HubTypeOK, CmTypeOK, [ProvisioningNext]_allVars
  PROVE  CpTypeOK' /\ HubTypeOK'
<1>1. CASE [Next]_vars
  BY <1>1, TypePreserved DEF TypeOK
<1>2. UNCHANGED hubVars => HubTypeOK'
  BY DEF HubTypeOK, hubVars
<1>3. ASSUME NEW c \in ClusterManagers, OperatorDeploys(c) \/ OperatorFails(c)
      PROVE  CpTypeOK' /\ UNCHANGED hubVars
  BY <1>3, ReportsType DEF OperatorDeploys, OperatorFails
<1>4. CASE CmSide(CmSync \/ WebhooksLost \/ CmCallLost)
  BY <1>2, <1>4, PassType DEF CmSide
<1> QED
  BY <1>1, <1>2, <1>3, <1>4, HubSteps

\* With the assumption on None: a rendered configuration is not an absent one.
LEMMA RenderedType ==
  ASSUME NEW config \in Configs, NEW f \in WebhookFiles
  PROVE  Rendered(config, f) \in Webhooks /\ Rendered(config, f) # None
<1>1. Rendered(config, f) \in Webhooks
  BY DEF Rendered, WebhookKind, Configs, Webhooks
<1> QED BY <1>1, BundlesAssumption DEF Webhooks

LEMMA AppliedCondition ==
  ASSUME NEW m \in ClusterManagerObjects
  PROVE  /\ isClusterManagerApplied(m) \in Conditions
         /\ isClusterManagerApplied(m).status # "False"
BY DEF isClusterManagerApplied, ClusterManagerObjects, Conditions, NoCondition

LEMMA NothingType ==
  /\ NoWorkspace \in Workspaces /\ NoCondition \in Conditions /\ NoConfig \in Configs
  /\ NoClusterManager \in ClusterManagerObjects
BY ConstantsAssumption, BundlesAssumption
DEF NoWorkspace, NoCondition, NoConfig, NoClusterManager, Workspaces, Phases, Conditions, Configs,
    ClusterManagerObjects

LEMMA EndCmSyncType ==
  ASSUME CmTypeOK, NEW retry \in BOOLEAN, cmPc # "idle", EndCmSync(retry), UNCHANGED hookVars
  PROVE  CmTypeOK'
BY NothingType DEF CmTypeOK, EndCmSync, hookVars

\* What the informer and the start of a pass do to the controller's own state.
LEMMA CmStepType ==
  ASSUME CpTypeOK, CmTypeOK, NEW c \in ClusterManagers,
         CmInformer(c) \/ CmResync(c) \/ CmSyncIgnores(c) \/ BeginCmSync(c) \/ RotateBundle(c)
  PROVE  CmTypeOK'
<1> USE DEF CmTypeOK, hookVars, cmVars
<1>1. CASE CmInformer(c)
  BY <1>1 DEF CmInformer, CpTypeOK
<1>2. CASE CmResync(c)
  BY <1>2 DEF CmResync
<1>3. CASE CmSyncIgnores(c)
  BY <1>3 DEF CmSyncIgnores
<1>4. CASE BeginCmSync(c)
  <2>1. cmLister[c].annotation \in Hubs
    BY <1>4 DEF BeginCmSync, ClusterManagerObjects
  <2>2. isClusterManagerApplied(cmLister[c]) \in Conditions
    BY AppliedCondition
  <2> QED BY <1>4, <2>1, <2>2 DEF BeginCmSync
<1>5. CASE RotateBundle(c)
  BY <1>5, BundlesAssumption DEF RotateBundle
<1> QED BY <1>1, <1>2, <1>3, <1>4, <1>5

LEMMA WebhooksType ==
  ASSUME CmTypeOK, NEW files \in SUBSET WebhookFiles, ApplyWebhooks(files)
  PROVE  webhooks' \in [Hubs -> [WebhookFiles -> Webhooks \cup {None}]] /\ UNCHANGED caBundle
<1>1. cmHub \in Hubs /\ cmConfig \in Configs
  BY DEF ApplyWebhooks, CmTypeOK
<1>2. [f \in WebhookFiles |-> IF f \in files THEN ApplyWebhook(cmConfig, f, webhooks[cmHub][f])
                              ELSE webhooks[cmHub][f]] \in [WebhookFiles -> Webhooks \cup {None}]
  BY <1>1, RenderedType DEF ApplyWebhook, CmTypeOK
<1>3. webhooks' = [webhooks EXCEPT ![cmHub] =
         [f \in WebhookFiles |-> IF f \in files THEN ApplyWebhook(cmConfig, f, webhooks[cmHub][f])
                                 ELSE webhooks[cmHub][f]]]
  BY DEF ApplyWebhooks
<1> QED BY <1>2, <1>3 DEF ApplyWebhooks, CmTypeOK

LEMMA CmPassType ==
  ASSUME CpTypeOK, CmTypeOK, CmSide(CmSync \/ WebhooksLost \/ CmCallLost)
  PROVE  CmTypeOK'
<1>1. CASE ReadEndpoints
  <2>1. CASE EndCmSync(TRUE)
    BY <1>1, <2>1, EndCmSyncType DEF ReadEndpoints
  <2>2. CASE ~EndCmSync(TRUE)
    <3>1. [ca |-> caBundle[cmKey], port |-> svc[cmKey]] \in Configs
      BY <1>1 DEF ReadEndpoints, CpTypeOK, CmTypeOK, Configs
    <3>2. /\ cmPc = "endpoints" /\ cmPc' = "webhooks"
          /\ cmConfig' = [ca |-> caBundle[cmKey], port |-> svc[cmKey]]
          /\ UNCHANGED <<cmLister, cmQueue, cmKey, cmHub, cmCond, cmRead, hookVars>>
      BY <1>1, <2>2 DEF ReadEndpoints
    <3> QED BY <3>1, <3>2 DEF CmTypeOK, hookVars
  <2> QED BY <2>1, <2>2
<1>2. CASE WebhooksApplied
  <2>1. webhooks' \in [Hubs -> [WebhookFiles -> Webhooks \cup {None}]] /\ UNCHANGED caBundle
    BY <1>2, WebhooksType DEF WebhooksApplied
  <2> QED BY <1>2, <2>1 DEF WebhooksApplied, ApplyWebhooks, CmTypeOK
<1>3. CASE WebhooksRefused
  BY <1>3, EndCmSyncType DEF WebhooksRefused
<1>4. CASE GetWorkspace
  <2>1. CASE EndCmSync(FALSE)
    BY <1>4, <2>1, EndCmSyncType DEF GetWorkspace
  <2>2. CASE ~EndCmSync(FALSE)
    <3>1. /\ cmPc = "get" /\ cmPc' = "update" /\ cmRead' = ws[cmHub]
          /\ UNCHANGED <<cmLister, cmQueue, cmKey, cmHub, cmCond, cmConfig, hookVars>>
      BY <1>4, <2>2 DEF GetWorkspace
    <3>2. cmRead' \in Workspaces
      BY <3>1 DEF CpTypeOK, CmTypeOK
    <3> QED BY <3>1, <3>2 DEF CmTypeOK, hookVars
  <2> QED BY <2>1, <2>2
<1>5. CASE UpdateStatus
  BY <1>5, EndCmSyncType DEF UpdateStatus
<1>6. CASE WebhooksLost
  <2>1. PICK files \in SUBSET WebhookFiles : ApplyWebhooks(files) /\ EndCmSync(TRUE)
    BY <1>6 DEF WebhooksLost
  <2>2. webhooks' \in [Hubs -> [WebhookFiles -> Webhooks \cup {None}]] /\ UNCHANGED caBundle
    BY <2>1, WebhooksType
  <2> QED BY <2>1, <2>2, NothingType DEF ApplyWebhooks, EndCmSync, CmTypeOK
<1>7. CASE CmCallLost
  BY <1>7, EndCmSyncType DEF CmCallLost
<1> QED
  BY <1>1, <1>2, <1>3, <1>4, <1>5, <1>6, <1>7 DEF CmSide, CmSync

LEMMA CmTypePreserved ==
  ASSUME CpTypeOK, HubTypeOK, CmTypeOK, [ProvisioningNext]_allVars
  PROVE  CmTypeOK'
<1>1. UNCHANGED <<hookVars, cmVars>> => CmTypeOK'
  BY DEF CmTypeOK, hookVars, cmVars
<1>2. ASSUME NEW h \in Hubs, WorkspaceGone(h) PROVE CmTypeOK'
  BY <1>2 DEF WorkspaceGone, CmTypeOK, cmVars
<1>3. ASSUME NEW c \in ClusterManagers, NamespaceGone(c) PROVE CmTypeOK'
  BY <1>3, BundlesAssumption DEF NamespaceGone, CmTypeOK, cmVars
<1>4. ASSUME NEW c \in ClusterManagers, OperatorDeploys(c) PROVE CmTypeOK'
  <2>1. caBundle' \in [ClusterManagers -> 0..MaxBundles]
    BY <1>4, BundlesAssumption DEF OperatorDeploys, CmTypeOK
  <2> QED BY <1>4, <2>1 DEF OperatorDeploys, CmTypeOK, cmVars
<1>5. ASSUME NEW c \in ClusterManagers, OperatorFails(c) PROVE CmTypeOK'
  BY <1>5, BundlesAssumption DEF OperatorFails, OperatorReports, CmTypeOK, cmVars
<1>6. CASE ProcessDies
  BY <1>6, NothingType DEF ProcessDies, CmRestart, CmTypeOK, hookVars
<1>7. ASSUME NEW c \in ClusterManagers,
             CmSide(CmInformer(c) \/ CmResync(c) \/ CmSyncIgnores(c) \/ BeginCmSync(c) \/ RotateBundle(c))
      PROVE  CmTypeOK'
  BY <1>7, CmStepType DEF CmSide
<1>8. CASE CmSide(CmSync \/ WebhooksLost \/ CmCallLost)
  BY <1>8, CmPassType
<1> QED
  BY <1>1, <1>2, <1>3, <1>4, <1>5, <1>6, <1>7, <1>8
  DEF ProvisioningNext, HubSide, CachesSynced, CacheSyncTimeout, allVars

\* The hubs with an entry in the controllers map keep it until the process dies.
LEMMA StartedGrows == [ProvisioningNext]_allVars => ProcessDies \/ started \subseteq started'
<1>1. ASSUME NEW h \in Hubs,
             HubSide(HubInformer(h) \/ HubResync(h) \/ HubSyncIgnores(h) \/ BeginHubSync(h))
      PROVE  started' = started
  BY <1>1 DEF HubSide, HubInformer, HubResync, HubSyncIgnores, BeginHubSync
<1>2. ASSUME NEW h \in Hubs, WorkspaceGone(h) \/ CachesSynced(h) PROVE started' = started
  BY <1>2 DEF WorkspaceGone, CachesSynced, hubVars
<1>3. ASSUME NEW o \in Orgs,
             HubSide(HubSync(o) \/ (\E f \in HubFiles : ApplyLost(o, f)) \/ AnswerLost(o))
      PROVE  started \subseteq started'
  BY <1>3
  DEF HubSide, HubSync, ApplyNamespace, ApplySecret, ApplyService, ApplyClusterManager, Applied,
      ApplyRefused, ApplyLost, ApplyFails, AnswerLost, FinishHubSync, startHubControllers
<1>4. ASSUME NEW c \in ClusterManagers,
             \/ CmSide(CmInformer(c) \/ CmResync(c) \/ CmSyncIgnores(c) \/ BeginCmSync(c) \/ RotateBundle(c))
             \/ OperatorDeploys(c) \/ OperatorFails(c) \/ NamespaceGone(c)
      PROVE  started' = started
  BY <1>4 DEF CmSide, OperatorDeploys, OperatorFails, NamespaceGone, hubVars
<1>5. CmSide(CmSync \/ WebhooksLost \/ CmCallLost) => started' = started
  BY DEF CmSide, hubVars
<1>6. UNCHANGED hubVars => started' = started
  BY DEF hubVars
<1> QED
  BY <1>1, <1>2, <1>3, <1>4, <1>5, <1>6 DEF ProvisioningNext, CacheSyncTimeout, allVars, hubVars

LEMMA LinksTypePreserved ==
  ASSUME ProvisioningTypeOK, [ProvisioningNext]_allVars
  PROVE  crds' \in SUBSET Hubs /\ synced' \in SUBSET started'
<1> USE DEF ProvisioningTypeOK, linkVars
<1>1. CASE ProcessDies
  BY <1>1 DEF ProcessDies
<1>2. ASSUME NEW h \in Hubs, WorkspaceGone(h) \/ CachesSynced(h)
      PROVE  crds' \in SUBSET Hubs /\ synced' \in SUBSET started
  BY <1>2 DEF WorkspaceGone, CachesSynced
<1>3. ASSUME NEW c \in ClusterManagers, OperatorDeploys(c)
      PROVE  crds' \in SUBSET Hubs /\ synced' \in SUBSET started
  BY <1>3 DEF OperatorDeploys, CpTypeOK
<1>4. UNCHANGED linkVars => crds' \in SUBSET Hubs /\ synced' \in SUBSET started
  OBVIOUS
<1> QED
  BY <1>1, <1>2, <1>3, <1>4, StartedGrows
  DEF ProvisioningNext, HubSide, CmSide, CacheSyncTimeout, NamespaceGone, OperatorFails, allVars

\* Every reachable state of the composition has the declared types: the worker
\* of the clusterManagerController always has a workspace to write to, and only
\* hubs with an entry in the controllers map have running controllers.
THEOREM ProvisioningTypeCorrect == ProvisioningSpec => []ProvisioningTypeOK
<1>1. ProvisioningInit => ProvisioningTypeOK
  <2>1. HooksInit /\ CmInit => CmTypeOK
    BY NothingType, BundlesAssumption DEF HooksInit, CmInit, CmTypeOK
  <2> QED
    BY <2>1, CpInitType, HubInitType DEF ProvisioningInit, Init, ProvisioningTypeOK
<1>2. ProvisioningTypeOK /\ [ProvisioningNext]_allVars => ProvisioningTypeOK'
  BY HubTypePreserved, CmTypePreserved, LinksTypePreserved DEF ProvisioningTypeOK
<1> QED BY <1>1, <1>2, PTL DEF ProvisioningSpec
-------------------------------------------------------------------------------
(* What no step undoes. *)

LEMMA TamperedStays == ProvisioningTypeOK /\ [ProvisioningNext]_allVars => tampered \subseteq tampered'
<1> SUFFICES ASSUME ProvisioningTypeOK, [ProvisioningNext]_allVars PROVE tampered \subseteq tampered'
  OBVIOUS
<1>1. CASE [Next]_vars
  BY <1>1, TamperedGrows
<1>2. ASSUME NEW c \in ClusterManagers, OperatorDeploys(c) \/ OperatorFails(c)
      PROVE  tampered' = tampered
  BY <1>2 DEF OperatorDeploys, OperatorFails, boundVars
<1>3. CASE CmSide(CmSync \/ WebhooksLost \/ CmCallLost)
  BY <1>3
  DEF CmSide, CmSync, ReadEndpoints, WebhooksApplied, WebhooksRefused, GetWorkspace, UpdateStatus,
      WebhooksLost, ApplyWebhooks, CmCallLost, cpVars, boundVars
<1> QED BY <1>1, <1>2, <1>3, HubSteps

\* The steps of the clusterManagerController touch no object of the management
\* cluster, those of the operator only ClusterManagers.
LEMMA ServicesUntouched ==
  ASSUME \/ \E c \in ClusterManagers : OperatorDeploys(c) \/ OperatorFails(c)
         \/ CmSide(CmSync \/ WebhooksLost \/ CmCallLost)
  PROVE  UNCHANGED svc
BY DEF OperatorDeploys, OperatorFails, CmSide, CmSync, ReadEndpoints, WebhooksApplied,
       WebhooksRefused, GetWorkspace, UpdateStatus, WebhooksLost, ApplyWebhooks, CmCallLost, cpVars,
       mgmtVars

\* A service keeps its port unless an administrator deletes it.
LEMMA PortKept ==
  ASSUME ProvisioningTypeOK, [ProvisioningNext]_allVars,
         NEW c \in ClusterManagers, NEW k \in Kinds, c \notin tampered', svc[c][k] # 0
  PROVE  svc'[c][k] = svc[c][k]
<1>0. svc \in [ClusterManagers -> [Kinds -> 0..MaxPort]] /\ TypeOK
  BY DEF ProvisioningTypeOK, CpTypeOK, TypeOK
<1>1. CASE [Next]_vars
  <2>1. ASSUME NEW o \in Orgs, NEW j \in Kinds, ServiceCreated(o, j)
        PROVE  svc'[c][k] = svc[c][k]
    BY <1>0, <2>1 DEF ServiceCreated
  <2>2. ASSUME NEW d \in ClusterManagers, svc' = [svc EXCEPT ![d] = [j \in Kinds |-> 0]], d \in tampered'
        PROVE  svc'[c][k] = svc[c][k]
    BY <1>0, <2>2
  <2> QED BY <1>0, <1>1, <2>1, <2>2, ServiceSteps
<1>2. CASE ~[Next]_vars
  BY <1>2, HubSteps, ServicesUntouched
<1> QED BY <1>1, <1>2

LEMMA ReportKeeps ==
  ASSUME NEW m \in ClusterManagerObjects,
         NEW n, \/ n = [m EXCEPT !.applied = "True", !.degraded = FALSE]
                \/ n = [m EXCEPT !.applied = "False"]
                \/ n = [m EXCEPT !.degraded = TRUE]
  PROVE  (m.exists => n.exists) /\ n.annotation = m.annotation
BY DEF ClusterManagerObjects

\* What a step does to one ClusterManager: it comes into being with the
\* annotation of the worker's hub, or keeps its annotation, or an administrator
\* takes one or the other away.
LEMMA ClusterManagerKept ==
  ASSUME ProvisioningTypeOK, [ProvisioningNext]_allVars, NEW c \in ClusterManagers
  PROVE  /\ c \notin tampered' /\ cm[c].exists => cm'[c].exists /\ cm'[c].annotation = cm[c].annotation
         /\ \/ cm'[c].annotation = None
            \/ cm'[c].annotation = cm[c].annotation /\ (cm[c].exists => cm'[c].exists)
            \/ ~cm[c].exists /\ ClusterManagerName(cm'[c].annotation) = c /\ cm'[c].exists
<1> DEFINE Kept == (cm[c].exists => cm'[c].exists) /\ cm'[c].annotation = cm[c].annotation
<1>0. CpTypeOK /\ HubTypeOK /\ cm[c] \in ClusterManagerObjects
  BY DEF ProvisioningTypeOK, CpTypeOK
<1>1. UNCHANGED cm => Kept
  OBVIOUS
<1>2. ASSUME NEW d \in ClusterManagers, OperatorDeploys(d) \/ OperatorFails(d) PROVE Kept
  <2>1. \/ cm' = [cm EXCEPT ![d] = [cm[d] EXCEPT !.applied = "True", !.degraded = FALSE]]
        \/ cm' = [cm EXCEPT ![d] = [cm[d] EXCEPT !.applied = "False"]]
        \/ cm' = [cm EXCEPT ![d] = [cm[d] EXCEPT !.degraded = TRUE]]
    BY <1>2 DEF OperatorDeploys, OperatorFails, OperatorReports
  <2>2. cm \in [ClusterManagers -> ClusterManagerObjects]
    BY <1>0 DEF CpTypeOK
  <2>3. CASE c # d
    BY <2>1, <2>2, <2>3
  <2>4. CASE c = d
    <3>1. \/ cm'[c] = [cm[c] EXCEPT !.applied = "True", !.degraded = FALSE]
          \/ cm'[c] = [cm[c] EXCEPT !.applied = "False"]
          \/ cm'[c] = [cm[c] EXCEPT !.degraded = TRUE]
      BY <2>1, <2>2, <2>4
    <3> QED BY <1>0, <3>1, ReportKeeps
  <2> QED BY <2>3, <2>4
<1>3. ASSUME NEW d \in ClusterManagers, DeleteClusterManager(d)
      PROVE  Kept \/ (c \in tampered' /\ cm'[c].annotation = None)
  BY <1>0, <1>3 DEF DeleteClusterManager, Tamper, CpTypeOK, NoClusterManager
<1>4. ASSUME NEW d \in ClusterManagers, EditClusterManager(d)
      PROVE  Kept \/ (c \in tampered' /\ cm'[c].annotation = None)
  BY <1>0, <1>4 DEF EditClusterManager, Tamper, CpTypeOK, ClusterManagerObjects
<1>5. ASSUME NEW o \in Orgs, ApplyClusterManager(o)
      PROVE  \/ Kept
             \/ ~cm[c].exists /\ ClusterManagerName(cm'[c].annotation) = c /\ cm'[c].exists
  <2>1. hubKey[o] \in Hubs /\ Target(o) \in ClusterManagers
    BY <1>0, <1>5, TargetType DEF ApplyClusterManager, Applied
  <2>2. CASE Target(o) # c
    BY <1>0, <1>5, <2>1, <2>2 DEF ApplyClusterManager, CpTypeOK
  <2>3. CASE Target(o) = c /\ cm[c].exists
    <3>1. cm'[c] = [cm[c] EXCEPT !.drifted = FALSE]
      BY <1>0, <1>5, <2>1, <2>3 DEF ApplyClusterManager, CpTypeOK
    <3> QED BY <1>0, <3>1 DEF ClusterManagerObjects
  <2>4. CASE Target(o) = c /\ ~cm[c].exists
    <3>1. cm'[c] = [NoClusterManager EXCEPT !.exists = TRUE, !.annotation = hubKey[o]]
      BY <1>0, <1>5, <2>1, <2>4 DEF ApplyClusterManager, CpTypeOK
    <3>2. cm'[c].annotation = hubKey[o] /\ cm'[c].exists
      BY <3>1 DEF NoClusterManager
    <3> QED BY <2>4, <3>2 DEF Target
  <2> QED BY <2>2, <2>3, <2>4
<1>6. CASE [Next]_vars
  <2>1. ASSUME NEW h \in Hubs,
               \/ HubInformer(h) \/ HubResync(h) \/ HubSyncIgnores(h) \/ BeginHubSync(h)
               \/ CreateWorkspace(h) \/ WorkspaceReady(h) \/ DeleteWorkspace(h) \/ ConditionSet(h)
        PROVE  UNCHANGED cm
    BY <2>1 DEF HubInformer, HubResync, HubSyncIgnores, BeginHubSync, CreateWorkspace,
                WorkspaceReady, DeleteWorkspace, ConditionSet, mgmtVars, cpVars
  <2>2. ASSUME NEW o \in Orgs, HubSync(o) PROVE UNCHANGED cm \/ ApplyClusterManager(o)
    BY <2>2 DEF HubSync, ApplyNamespace, ApplySecret, ApplyService, ApplyRefused, ApplyFails,
                FinishHubSync, mgmtVars, cpVars
  <2>3. ASSUME NEW o \in Orgs, (\E g \in HubFiles : ApplyLost(o, g)) \/ AnswerLost(o)
        PROVE  UNCHANGED cm
    BY <2>3 DEF ApplyLost, ApplyFails, AnswerLost, mgmtVars
  <2>4. \A d \in ClusterManagers : DeleteNamespace(d) => UNCHANGED cm
    BY DEF DeleteNamespace
  <2>5. Restart \/ UNCHANGED vars => UNCHANGED cm
    BY DEF Restart, vars, cpVars, mgmtVars
  <2> QED
    BY <1>1, <1>3, <1>4, <1>5, <1>6, <2>1, <2>2, <2>3, <2>4, <2>5
    DEF Next, HubEnvironment, CpEnvironment, OtherCallLost, mgmtVars
<1>7. CmSide(CmSync \/ WebhooksLost \/ CmCallLost) => UNCHANGED cm
  BY DEF CmSide, CmSync, ReadEndpoints, WebhooksApplied, WebhooksRefused, GetWorkspace, UpdateStatus,
         WebhooksLost, ApplyWebhooks, CmCallLost, cpVars, mgmtVars
<1> QED BY <1>1, <1>2, <1>6, <1>7, HubSteps

\* What a step does to the webhooks of one hub: they are rendered from what the
\* pass read, one where there was none, or go with the workspace.
LEMMA WebhookKept ==
  ASSUME ProvisioningTypeOK, [ProvisioningNext]_allVars, NEW h \in Hubs, NEW f \in WebhookFiles
  PROVE  \/ webhooks'[h][f] = webhooks[h][f]
         \/ /\ cmPc = "webhooks" /\ h = cmHub /\ ws[h].phase # "Absent"
            /\ webhooks[h][f] = None /\ webhooks'[h][f] = Rendered(cmConfig, f)
         \/ WorkspaceGone(h) /\ webhooks'[h][f] = None
<1>0. CmTypeOK /\ webhooks \in [Hubs -> [WebhookFiles -> Webhooks \cup {None}]]
  BY DEF ProvisioningTypeOK, CmTypeOK
<1>1. ASSUME NEW g \in Hubs, WorkspaceGone(g)
      PROVE  \/ webhooks'[h][f] = webhooks[h][f]
             \/ WorkspaceGone(h) /\ webhooks'[h][f] = None
  <2>1. webhooks' = [webhooks EXCEPT ![g] = [e \in WebhookFiles |-> None]]
    BY <1>1 DEF WorkspaceGone
  <2>2. CASE g = h
    <3>1. webhooks'[h][f] = None
      BY <1>0, <2>1, <2>2
    <3> QED BY <1>1, <2>2, <3>1
  <2>3. CASE g # h
    BY <1>0, <2>1, <2>3
  <2> QED BY <2>2, <2>3
<1>2. ASSUME NEW files \in SUBSET WebhookFiles, ApplyWebhooks(files)
      PROVE  \/ webhooks'[h][f] = webhooks[h][f]
             \/ /\ cmPc = "webhooks" /\ h = cmHub /\ ws[h].phase # "Absent"
                /\ webhooks[h][f] = None /\ webhooks'[h][f] = Rendered(cmConfig, f)
  BY <1>0, <1>2 DEF ApplyWebhooks, ApplyWebhook
<1>3. CASE CmSide(CmSync \/ WebhooksLost \/ CmCallLost)
  <2>1. ReadEndpoints \/ WebhooksRefused \/ GetWorkspace \/ UpdateStatus \/ CmCallLost
          => UNCHANGED webhooks
    BY DEF ReadEndpoints, WebhooksRefused, GetWorkspace, UpdateStatus, CmCallLost, hookVars
  <2> QED BY <1>2, <1>3, <2>1 DEF CmSide, CmSync, WebhooksApplied, WebhooksLost
<1>4. ASSUME NEW c \in ClusterManagers,
             \/ OperatorDeploys(c) \/ OperatorFails(c) \/ NamespaceGone(c)
             \/ CmSide(CmInformer(c) \/ CmResync(c) \/ CmSyncIgnores(c) \/ BeginCmSync(c) \/ RotateBundle(c))
      PROVE  UNCHANGED webhooks
  BY <1>4 DEF OperatorDeploys, OperatorFails, NamespaceGone, CmSide, CmInformer, CmResync,
              CmSyncIgnores, BeginCmSync, RotateBundle, hookVars
<1>5. UNCHANGED hookVars \/ ProcessDies => UNCHANGED webhooks
  BY DEF hookVars, ProcessDies
<1> QED
  BY <1>1, <1>3, <1>4, <1>5 DEF ProvisioningNext, HubSide, CachesSynced, CacheSyncTimeout, allVars

\* What a step does to the controller's own state.
LEMMA CmSteps ==
  ASSUME [ProvisioningNext]_allVars
  PROVE  \/ UNCHANGED <<cmLister, cmPc, cmKey, cmHub, cmCond, cmConfig, cmRead>>
         \/ \E c \in ClusterManagers : CmSide(CmInformer(c) \/ BeginCmSync(c))
         \/ CmSide(CmSync \/ WebhooksLost \/ CmCallLost)
         \/ ProcessDies
<1>1. ASSUME NEW c \in ClusterManagers,
             \/ OperatorDeploys(c) \/ OperatorFails(c) \/ NamespaceGone(c)
             \/ CmResync(c) \/ CmSyncIgnores(c) \/ RotateBundle(c)
      PROVE  UNCHANGED <<cmLister, cmPc, cmKey, cmHub, cmCond, cmConfig, cmRead>>
  BY <1>1 DEF OperatorDeploys, OperatorFails, NamespaceGone, CmResync, CmSyncIgnores, RotateBundle,
              cmVars
<1>2. (\E h \in Hubs : WorkspaceGone(h)) \/ UNCHANGED cmVars
        => UNCHANGED <<cmLister, cmPc, cmKey, cmHub, cmCond, cmConfig, cmRead>>
  BY DEF WorkspaceGone, cmVars
<1> QED
  BY <1>1, <1>2 DEF ProvisioningNext, HubSide, CmSide, CachesSynced, CacheSyncTimeout, allVars
-------------------------------------------------------------------------------
(* The addresses of the webhooks.                                          *)
(*                                                                         *)
(* That a webhook points at a service is decided in ReadEndpoints, when    *)
(* the service's port is read, and carried to the workspace by a pass that *)
(* knows the ClusterManager and its workspace as a key and an annotation:  *)
(* the two have to belong together all along.                              *)

NamesAgree ==
  /\ \A c \in ClusterManagers : cm[c].annotation # None => ClusterManagerName(cm[c].annotation) = c
  /\ \A c \in ClusterManagers :
       cmLister[c].annotation # None => ClusterManagerName(cmLister[c].annotation) = c
  /\ cmPc # "idle" => ClusterManagerName(cmHub) = cmKey

LEMMA NamesAgreePreserved ==
  ASSUME ProvisioningTypeOK, NamesAgree, [ProvisioningNext]_allVars
  PROVE  NamesAgree'
<1>0. CpTypeOK /\ CmTypeOK
  BY DEF ProvisioningTypeOK
<1>1. ASSUME NEW c \in ClusterManagers, cm'[c].annotation # None
      PROVE  ClusterManagerName(cm'[c].annotation) = c
  BY <1>1, ClusterManagerKept DEF NamesAgree
<1>2. ASSUME UNCHANGED <<cmLister, cmPc, cmKey, cmHub>> PROVE NamesAgree'
  BY <1>1, <1>2 DEF NamesAgree
<1>3. ASSUME NEW d \in ClusterManagers, CmInformer(d) PROVE NamesAgree'
  <2>1. \A c \in ClusterManagers : cmLister'[c] \in {cmLister[c], cm[c]}
    BY <1>0, <1>3 DEF CmInformer, CmTypeOK
  <2>2. UNCHANGED <<cmPc, cmKey, cmHub>>
    BY <1>3 DEF CmInformer
  <2> QED BY <1>1, <2>1, <2>2 DEF NamesAgree
<1>4. ASSUME NEW d \in ClusterManagers, BeginCmSync(d) PROVE NamesAgree'
  <2>1. cmKey' = d /\ cmHub' = cmLister[d].annotation /\ cmLister[d].annotation # None
    BY <1>4 DEF BeginCmSync
  <2>2. UNCHANGED cmLister
    BY <1>4 DEF BeginCmSync
  <2> QED BY <1>1, <2>1, <2>2 DEF NamesAgree
<1>5. CASE CmSide(CmSync \/ WebhooksLost \/ CmCallLost)
  <2>1. UNCHANGED cmLister /\ (cmPc' = "idle" \/ (cmPc # "idle" /\ UNCHANGED <<cmKey, cmHub>>))
    BY <1>5
    DEF CmSide, CmSync, ReadEndpoints, WebhooksApplied, WebhooksRefused, GetWorkspace, UpdateStatus,
        WebhooksLost, ApplyWebhooks, CmCallLost, EndCmSync
  <2> QED BY <1>1, <2>1 DEF NamesAgree
<1>6. CASE ProcessDies
  <2>1. cmPc' = "idle" /\ cmLister' = [c \in ClusterManagers |-> NoClusterManager]
    BY <1>6 DEF ProcessDies, CmRestart
  <2>2. \A c \in ClusterManagers : cmLister'[c].annotation = None
    BY <2>1 DEF NoClusterManager
  <2> QED BY <1>1, <2>1, <2>2 DEF NamesAgree
<1> QED BY <1>2, <1>3, <1>4, <1>5, <1>6, CmSteps DEF CmSide

AddressInv ==
  /\ cmPc = "webhooks" /\ cmKey \notin tampered =>
       \A k \in Kinds : svc[cmKey][k] # 0 /\ cmConfig.port[k] = svc[cmKey][k]
  /\ \A h \in Hubs, f \in WebhookFiles :
       LET c == ClusterManagerName(h) IN
       c \notin tampered /\ webhooks[h][f] # None =>
         svc[c][WebhookKind(f)] # 0 /\ webhooks[h][f].port = svc[c][WebhookKind(f)]

LEMMA AddressPreserved ==
  ASSUME ProvisioningTypeOK, NamesAgree, AddressInv, [ProvisioningNext]_allVars
  PROVE  AddressInv'
<1>0. CpTypeOK /\ CmTypeOK /\ tampered \subseteq tampered'
  BY TamperedStays DEF ProvisioningTypeOK
<1>1. ASSUME cmPc' = "webhooks", cmKey' \notin tampered', NEW k \in Kinds
      PROVE  svc'[cmKey'][k] # 0 /\ cmConfig'.port[k] = svc'[cmKey'][k]
  <2>1. CASE cmPc = "webhooks" /\ UNCHANGED <<cmKey, cmConfig>>
    <3>1. cmKey \in ClusterManagers /\ svc[cmKey][k] # 0 /\ cmConfig.port[k] = svc[cmKey][k]
      BY <1>0, <1>1, <2>1 DEF AddressInv, CmTypeOK
    <3> QED BY <1>1, <2>1, <3>1, PortKept
  <2>2. CASE ReadEndpoints
    <3>1. /\ cmKey \in ClusterManagers /\ cmKey' = cmKey /\ svc' = svc
          /\ cmConfig' = [ca |-> caBundle[cmKey], port |-> svc[cmKey]]
          /\ svc[cmKey][k] # 0
      BY <1>0, <1>1, <2>2 DEF ReadEndpoints, EndCmSync, CmTypeOK, cpVars
    <3> QED BY <3>1
  <2>3. ASSUME NEW d \in ClusterManagers, BeginCmSync(d) PROVE FALSE
    BY <1>1, <2>3 DEF BeginCmSync
  <2>4. ASSUME NEW d \in ClusterManagers, CmInformer(d) PROVE UNCHANGED <<cmPc, cmKey, cmConfig>>
    BY <2>4 DEF CmInformer
  <2>5. WebhooksApplied \/ WebhooksRefused \/ GetWorkspace \/ UpdateStatus \/ WebhooksLost \/ CmCallLost
          => cmPc' # "webhooks"
    BY DEF WebhooksApplied, WebhooksRefused, GetWorkspace, UpdateStatus, WebhooksLost, CmCallLost,
           EndCmSync
  <2>6. ProcessDies => cmPc' # "webhooks"
    BY DEF ProcessDies, CmRestart
  <2> QED BY <1>1, <2>1, <2>2, <2>3, <2>4, <2>5, <2>6, CmSteps DEF CmSide, CmSync
<1>2. ASSUME NEW h \in Hubs, NEW f \in WebhookFiles,
             ClusterManagerName(h) \notin tampered', webhooks'[h][f] # None
      PROVE  LET c == ClusterManagerName(h) IN
             svc'[c][WebhookKind(f)] # 0 /\ webhooks'[h][f].port = svc'[c][WebhookKind(f)]
  <2> DEFINE c == ClusterManagerName(h)
  <2> DEFINE k == WebhookKind(f)
  <2>0. c \in ClusterManagers /\ k \in Kinds /\ c \notin tampered
    BY <1>0, <1>2 DEF ClusterManagers, WebhookKind
  <2>1. CASE webhooks'[h][f] = webhooks[h][f]
    <3>1. svc[c][k] # 0 /\ webhooks[h][f].port = svc[c][k]
      BY <1>2, <2>0, <2>1 DEF AddressInv
    <3>2. svc'[c][k] = svc[c][k]
      BY <1>2, <2>0, <3>1, PortKept
    <3> QED BY <2>1, <3>1, <3>2
  <2>2. CASE cmPc = "webhooks" /\ h = cmHub /\ webhooks'[h][f] = Rendered(cmConfig, f)
    <3>1. cmKey = c
      BY <2>2 DEF NamesAgree
    <3>2. svc[c][k] # 0 /\ cmConfig.port[k] = svc[c][k]
      BY <2>0, <2>2, <3>1 DEF AddressInv
    <3>3. svc'[c][k] = svc[c][k]
      BY <1>2, <2>0, <3>2, PortKept
    <3>4. webhooks'[h][f].port = cmConfig.port[k]
      BY <2>2 DEF Rendered
    <3> QED BY <3>2, <3>3, <3>4
  <2> QED BY <1>2, <2>1, <2>2, WebhookKept
<1> QED BY <1>1, <1>2 DEF AddressInv

\* ApplyService compares no ports and ApplyWebhook replaces nothing: under every
\* interleaving of the calls that read a port, hand it on and draw new ones, a
\* webhook points at the service it was made for, even when two hubs share it.
THEOREM WebhooksAddressed == ProvisioningSpec => []WebhooksReachServices
<1>1. ProvisioningInit => NamesAgree /\ AddressInv
  BY DEF ProvisioningInit, Init, CpInit, HooksInit, CmInit, NoClusterManager, NamesAgree, AddressInv
<1>2. AddressInv => WebhooksReachServices
  BY DEF AddressInv, WebhooksReachServices
<1> QED
  BY <1>1, <1>2, ProvisioningTypeCorrect, NamesAgreePreserved, AddressPreserved, PTL
  DEF ProvisioningSpec
-------------------------------------------------------------------------------
(* What a condition vouches for.                                           *)
(*                                                                         *)
(* A workspace's condition travels: from a pass of the                     *)
(* clusterManagerController into the workspace, from there into the        *)
(* informer's copy, into a pass of sync and into the controllers map.      *)
(* What it vouches for is stable, so that a stale copy misleads nobody:    *)
(* the first workspace of the name has its webhooks and the condition      *)
(* until it is gone for good, and the ClusterManager carries the hub's     *)
(* annotation until an administrator interferes.                           *)

Backed(h) == ws[h].inc # 0 /\ (ws[h].inc = 1 /\ ws[h].phase # "Absent" => WebhooksInstalled(h))

Claimed(h) ==
  LET c == ClusterManagerName(h) IN c \in tampered \/ (cm[c].exists /\ cm[c].annotation = h)

Told(h) ==
  ws[h].inc # 0 /\ (ws[h].inc = 1 /\ ws[h].phase # "Absent" => ws[h].cond.status = "True")

Vouched(h) == Backed(h) /\ Claimed(h) /\ Told(h)

\* What a step does to one workspace.
WorkspaceStep(h) ==
  \/ ws'[h] = ws[h]
  \/ ws[h].phase = "Absent" /\ ws'[h].inc = ws[h].inc + 1 /\ ws'[h].cond = NoCondition
  \/ /\ ws[h].phase # "Absent" /\ ws'[h].phase = "Ready"
     /\ ws'[h].inc = ws[h].inc /\ ws'[h].cond = ws[h].cond
  \/ ws'[h].phase = "Absent" /\ ws'[h].inc = ws[h].inc /\ ws'[h].cond = NoCondition
  \/ /\ cmPc = "update" /\ h = cmHub /\ ws[h] = cmRead
     /\ ws'[h].inc = ws[h].inc /\ ws'[h].phase = ws[h].phase /\ ws'[h].cond = cmCond

LEMMA WorkspaceSteps ==
  ASSUME ProvisioningTypeOK, [ProvisioningNext]_allVars, NEW h \in Hubs
  PROVE  WorkspaceStep(h)
<1>0. ws \in [Hubs -> Workspaces] /\ ws[h] \in Workspaces
  BY DEF ProvisioningTypeOK, CpTypeOK
<1>1. UNCHANGED ws => WorkspaceStep(h)
  BY DEF WorkspaceStep
<1>2. ASSUME NEW g \in Hubs, CreateWorkspace(g) PROVE WorkspaceStep(h)
  BY <1>0, <1>2 DEF CreateWorkspace, WorkspaceStep
<1>3. ASSUME NEW g \in Hubs, WorkspaceReady(g) PROVE WorkspaceStep(h)
  <2>1. g # h => ws'[h] = ws[h]
    BY <1>0, <1>3 DEF WorkspaceReady
  <2>2. g = h => ws'[h] = [ws[h] EXCEPT !.phase = "Ready"] /\ ws[h].phase = "Initializing"
    BY <1>0, <1>3 DEF WorkspaceReady
  <2> QED BY <1>0, <2>1, <2>2 DEF Workspaces, WorkspaceStep
<1>4. ASSUME NEW g \in Hubs, DeleteWorkspace(g) PROVE WorkspaceStep(h)
  <2>1. g # h => ws'[h] = ws[h]
    BY <1>0, <1>4 DEF DeleteWorkspace
  <2>2. g = h => ws'[h] = [ws[h] EXCEPT !.phase = "Absent", !.cond = NoCondition]
    BY <1>0, <1>4 DEF DeleteWorkspace
  <2>3. g = h => ws'[h].phase = "Absent" /\ ws'[h].inc = ws[h].inc /\ ws'[h].cond = NoCondition
    BY <1>0, <2>2 DEF Workspaces
  <2> QED BY <2>1, <2>3 DEF WorkspaceStep
<1>5. ASSUME cmPc = "update", ws[cmHub] = cmRead, ws' = [ws EXCEPT ![cmHub].cond = cmCond]
      PROVE  WorkspaceStep(h)
  <2>1. h # cmHub => ws'[h] = ws[h]
    BY <1>0, <1>5
  <2>2. h = cmHub => ws'[h] = [ws[h] EXCEPT !.cond = cmCond]
    BY <1>0, <1>5
  <2>3. h = cmHub => ws'[h].inc = ws[h].inc /\ ws'[h].phase = ws[h].phase /\ ws'[h].cond = cmCond
    BY <1>0, <2>2 DEF Workspaces
  <2> QED BY <1>5, <2>1, <2>3 DEF WorkspaceStep
<1>6. CASE CmSide(CmSync \/ WebhooksLost \/ CmCallLost)
  <2>1. ReadEndpoints \/ WebhooksApplied \/ WebhooksRefused \/ GetWorkspace \/ WebhooksLost
          => UNCHANGED ws
    BY DEF ReadEndpoints, WebhooksApplied, WebhooksRefused, GetWorkspace, WebhooksLost, ApplyWebhooks,
           cpVars
  <2>2. UpdateStatus \/ CmCallLost
          => \/ UNCHANGED ws
             \/ /\ cmPc = "update" /\ ws[cmHub] = cmRead
                /\ ws' = [ws EXCEPT ![cmHub].cond = cmCond]
    BY DEF UpdateStatus, CmCallLost
  <2> QED BY <1>1, <1>5, <1>6, <2>1, <2>2 DEF CmSide, CmSync
<1>7. ASSUME NEW c \in ClusterManagers,
             \/ OperatorDeploys(c) \/ OperatorFails(c) \/ NamespaceGone(c)
             \/ DeleteClusterManager(c) \/ EditClusterManager(c)
             \/ CmSide(CmInformer(c) \/ CmResync(c) \/ CmSyncIgnores(c) \/ BeginCmSync(c) \/ RotateBundle(c))
      PROVE  UNCHANGED ws
  BY <1>7 DEF OperatorDeploys, OperatorFails, NamespaceGone, DeleteNamespace, DeleteClusterManager,
              EditClusterManager, Tamper, CmSide, CmInformer, CmResync, CmSyncIgnores, BeginCmSync,
              RotateBundle, cpVars
<1>8. ASSUME NEW g \in Hubs,
             \/ HubSide(HubInformer(g) \/ HubResync(g) \/ HubSyncIgnores(g) \/ BeginHubSync(g))
             \/ CachesSynced(g) \/ ProcessDies
      PROVE  UNCHANGED ws
  BY <1>8 DEF HubSide, HubInformer, HubResync, HubSyncIgnores, BeginHubSync, CachesSynced, ProcessDies,
              cpVars
<1>9. ASSUME NEW o \in Orgs,
             HubSide(HubSync(o) \/ (\E f \in HubFiles : ApplyLost(o, f)) \/ AnswerLost(o))
      PROVE  UNCHANGED ws
  BY <1>9
  DEF HubSide, HubSync, ApplyNamespace, ApplySecret, ApplyService, ApplyClusterManager, Applied,
      ApplyRefused, ApplyLost, ApplyFails, AnswerLost, FinishHubSync, cpVars
<1>10. UNCHANGED allVars \/ ProcessDies => UNCHANGED ws
  BY DEF allVars, cpVars, ProcessDies
<1>11. ASSUME NEW g \in Hubs, WorkspaceGone(g) \/ CacheSyncTimeout(g) PROVE WorkspaceStep(h)
  BY <1>1, <1>4, <1>10, <1>11 DEF WorkspaceGone, CacheSyncTimeout
<1>12. CASE CpEnvironment
  BY <1>1, <1>2, <1>3, <1>7, <1>12 DEF CpEnvironment
<1> QED
  BY <1>1, <1>6, <1>7, <1>8, <1>9, <1>10, <1>11, <1>12 DEF ProvisioningNext

LEMMA VouchedStays ==
  ASSUME ProvisioningTypeOK, [ProvisioningNext]_allVars, NEW h \in Hubs
  PROVE  (Backed(h) => Backed(h)') /\ (Claimed(h) => Claimed(h)')
<1>1. Claimed(h) => Claimed(h)'
  <2>1. ClusterManagerName(h) \in ClusterManagers
    BY DEF ClusterManagers
  <2> QED BY <2>1, ClusterManagerKept, TamperedStays DEF Claimed
<1>2. ASSUME Backed(h) PROVE Backed(h)'
  <2>0. ws[h].inc \in Nat \ {0}
    BY <1>2, ConstantsAssumption DEF Backed, ProvisioningTypeOK, CpTypeOK, Workspaces
  <2>1. ws'[h].inc # 0
    BY <2>0, WorkspaceSteps DEF WorkspaceStep
  <2>2. ASSUME ws'[h].inc = 1, ws'[h].phase # "Absent", NEW f \in WebhookFiles
        PROVE  webhooks'[h][f] # None
    <3>1. ws[h].inc = 1 /\ ws[h].phase # "Absent"
      BY <2>0, <2>2, WorkspaceSteps DEF WorkspaceStep
    <3>2. webhooks[h][f] # None
      BY <1>2, <3>1 DEF Backed, WebhooksInstalled
    <3>3. ~WorkspaceGone(h)
      <4>1. WorkspaceGone(h) => ws'[h] = [ws[h] EXCEPT !.phase = "Absent", !.cond = NoCondition]
        BY DEF WorkspaceGone, DeleteWorkspace, ProvisioningTypeOK, CpTypeOK
      <4>2. ws[h] \in Workspaces
        BY DEF ProvisioningTypeOK, CpTypeOK
      <4> QED BY <2>2, <4>1, <4>2 DEF Workspaces
    <3> QED BY <3>2, <3>3, WebhookKept
  <2> QED BY <2>1, <2>2 DEF Backed, WebhooksInstalled
<1> QED BY <1>1, <1>2

\* What a step does to what the hubWorkspaceController of one organization
\* knows of one hub.
HubKnowledgeStep(o, h) ==
  \/ UNCHANGED <<hubLister, hubKey, hubSeen, started>>
  \/ hubLister'[h] \in {hubLister[h], ws[h]} /\ UNCHANGED <<hubKey, hubSeen, started>>
  \/ /\ \/ hubKey'[o] = hubKey[o] /\ hubSeen'[o] = hubSeen[o]
        \/ hubSeen'[o] = NoCondition
        \/ hubKey'[o] \in Hubs /\ hubSeen'[o] = hubLister[hubKey'[o]].cond
     /\ \/ started' = started
        \/ \E p \in Orgs : /\ hubSeen[p].status = "True"
                           /\ started' = started \cup {hubKey[p]}
     /\ UNCHANGED hubLister
  \/ hubLister'[h] = NoWorkspace /\ hubSeen'[o] = NoCondition /\ started' = {}

LEMMA HubKnowledgeSteps ==
  ASSUME ProvisioningTypeOK, [ProvisioningNext]_allVars, NEW o \in Orgs, NEW h \in Hubs
  PROVE  HubKnowledgeStep(o, h)
<1> USE DEF HubKnowledgeStep
<1>0. HubTypeOK
  BY DEF ProvisioningTypeOK
<1>1. UNCHANGED <<hubLister, hubKey, hubSeen, started>> => HubKnowledgeStep(o, h)
  OBVIOUS
<1>2. UNCHANGED hubVars => HubKnowledgeStep(o, h)
  BY DEF hubVars
<1>3. ASSUME NEW g \in Hubs, HubInformer(g) PROVE HubKnowledgeStep(o, h)
  BY <1>0, <1>3 DEF HubInformer, HubTypeOK
<1>4. ASSUME NEW g \in Hubs, HubResync(g) \/ HubSyncIgnores(g)
      PROVE  UNCHANGED <<hubLister, hubKey, hubSeen, started>>
  BY <1>4 DEF HubResync, HubSyncIgnores
<1>5. ASSUME NEW g \in Hubs, BeginHubSync(g) PROVE HubKnowledgeStep(o, h)
  <2>1. /\ hubKey' = [hubKey EXCEPT ![Org(g)] = g]
        /\ hubSeen' = [hubSeen EXCEPT ![Org(g)] = hubLister[g].cond]
        /\ UNCHANGED <<hubLister, started>>
    BY <1>5 DEF BeginHubSync
  <2>2. hubKey \in [Orgs -> Hubs \cup {None}] /\ hubSeen \in [Orgs -> Conditions]
    BY <1>0 DEF HubTypeOK
  <2>3. CASE o = Org(g)
    BY <2>1, <2>2, <2>3
  <2>4. CASE o # Org(g)
    BY <2>1, <2>2, <2>4
  <2> QED BY <2>3, <2>4
<1>6. ASSUME NEW p \in Orgs, FinishHubSync(p) PROVE HubKnowledgeStep(o, h)
  <2>1. /\ hubKey' = [hubKey EXCEPT ![p] = None]
        /\ hubSeen' = [hubSeen EXCEPT ![p] = NoCondition]
        /\ UNCHANGED hubLister
    BY <1>6 DEF FinishHubSync
  <2>2. \/ started' = started
        \/ hubSeen[p].status = "True" /\ started' = started \cup {hubKey[p]}
    BY <1>6 DEF FinishHubSync, IsWorkspaceStatusConditionTrue, startHubControllers
  <2>3. hubKey \in [Orgs -> Hubs \cup {None}] /\ hubSeen \in [Orgs -> Conditions]
    BY <1>0 DEF HubTypeOK
  <2>4. (hubKey'[o] = hubKey[o] /\ hubSeen'[o] = hubSeen[o]) \/ hubSeen'[o] = NoCondition
    BY <2>1, <2>3
  <2> QED BY <2>1, <2>2, <2>4
<1>7. ASSUME NEW p \in Orgs,
             \/ ApplyNamespace(p) \/ ApplySecret(p) \/ ApplyClusterManager(p)
             \/ (\E k \in Kinds : ApplyService(p, k)) \/ (\E f \in HubFiles : ApplyRefused(p, f))
             \/ (\E f \in HubFiles : ApplyLost(p, f)) \/ AnswerLost(p)
      PROVE  UNCHANGED <<hubLister, hubKey, hubSeen, started>>
  BY <1>7 DEF ApplyNamespace, ApplySecret, ApplyService, ApplyClusterManager, Applied, ApplyRefused,
              ApplyLost, ApplyFails, AnswerLost
<1>8. ASSUME NEW p \in Orgs,
             HubSide(HubSync(p) \/ (\E f \in HubFiles : ApplyLost(p, f)) \/ AnswerLost(p))
      PROVE  HubKnowledgeStep(o, h)
  BY <1>1, <1>6, <1>7, <1>8 DEF HubSide, HubSync
<1>9. ASSUME NEW g \in Hubs,
             HubSide(HubInformer(g) \/ HubResync(g) \/ HubSyncIgnores(g) \/ BeginHubSync(g))
      PROVE  HubKnowledgeStep(o, h)
  BY <1>1, <1>3, <1>4, <1>5, <1>9 DEF HubSide
<1>10. ProcessDies => HubKnowledgeStep(o, h)
  BY <1>0 DEF ProcessDies, HubRestart
<1>11. ASSUME NEW c \in ClusterManagers,
             \/ CmSide(CmInformer(c) \/ CmResync(c) \/ CmSyncIgnores(c) \/ BeginCmSync(c) \/ RotateBundle(c))
             \/ OperatorDeploys(c) \/ OperatorFails(c) \/ NamespaceGone(c)
      PROVE  UNCHANGED hubVars
  BY <1>11 DEF CmSide, OperatorDeploys, OperatorFails, NamespaceGone
<1>12. ASSUME NEW g \in Hubs, WorkspaceGone(g) \/ CachesSynced(g) PROVE UNCHANGED hubVars
  BY <1>12 DEF WorkspaceGone, CachesSynced
<1> QED
  BY <1>2, <1>8, <1>9, <1>10, <1>11, <1>12 DEF ProvisioningNext, CacheSyncTimeout, CmSide, allVars

VouchInv ==
  /\ \A h \in Hubs : ws[h].phase # "Absent" => ws[h].inc # 0
  /\ \A c \in ClusterManagers : cm[c].annotation # None => cm[c].exists
  /\ \A c \in ClusterManagers : cmLister[c].annotation # None => Claimed(cmLister[c].annotation)
  /\ cmPc # "idle" => Claimed(cmHub) /\ cmCond.status = "True"
  /\ cmPc \in {"get", "update"} => Backed(cmHub)
  /\ cmPc = "update" => cmRead.phase # "Absent"
  /\ \A h \in Hubs : ws[h].cond.status = "True" => ws[h].phase # "Absent" /\ Vouched(h)
  /\ \A h \in Hubs : hubLister[h].cond.status = "True" => Vouched(h)
  /\ \A o \in Orgs : hubSeen[o].status = "True" => hubKey[o] \in Hubs /\ Vouched(hubKey[o])
  /\ \A h \in started : Vouched(h)

\* The condition of a first workspace is rewritten, never withdrawn.
LEMMA ToldStays ==
  ASSUME ProvisioningTypeOK, VouchInv, [ProvisioningNext]_allVars, NEW h \in Hubs, Told(h)
  PROVE  Told(h)'
<1>1. ws[h].inc \in Nat \ {0}
  BY ConstantsAssumption DEF Told, ProvisioningTypeOK, CpTypeOK, Workspaces
<1>2. cmPc = "update" => cmCond.status = "True"
  BY DEF VouchInv
<1> QED BY <1>1, <1>2, WorkspaceSteps DEF WorkspaceStep, Told

\* What a pass of the clusterManagerController carries is True, whatever the
\* operator reported.
LEMMA CarriedCondition ==
  ASSUME VouchInv, [ProvisioningNext]_allVars, cmPc' # "idle"
  PROVE  cmCond'.status = "True"
<1>1. CASE UNCHANGED <<cmPc, cmCond>>
  BY <1>1 DEF VouchInv
<1>2. ASSUME NEW c \in ClusterManagers, BeginCmSync(c) PROVE cmCond'.status = "True"
  BY <1>2 DEF BeginCmSync, isClusterManagerApplied
<1>3. \A c \in ClusterManagers : CmInformer(c) => UNCHANGED <<cmPc, cmCond>>
  BY DEF CmInformer
<1>4. CASE CmSync \/ WebhooksLost \/ CmCallLost
  <2>1. cmPc # "idle" /\ UNCHANGED cmCond
    BY <1>4
    DEF CmSync, ReadEndpoints, WebhooksApplied, WebhooksRefused, GetWorkspace, UpdateStatus,
        WebhooksLost, ApplyWebhooks, CmCallLost, EndCmSync
  <2> QED BY <2>1 DEF VouchInv
<1>5. CASE ProcessDies
  BY <1>5 DEF ProcessDies, CmRestart
<1> QED BY <1>1, <1>2, <1>3, <1>4, <1>5, CmSteps DEF CmSide

\* The hubWorkspaceController's part: it passes on what it was told.
LEMMA KnowledgePreserved ==
  ASSUME ProvisioningTypeOK, VouchInv, [ProvisioningNext]_allVars
  PROVE  /\ \A h \in Hubs : hubLister'[h].cond.status = "True" => Vouched(h)'
         /\ \A o \in Orgs : hubSeen'[o].status = "True" => hubKey'[o] \in Hubs /\ Vouched(hubKey[o])'
         /\ \A h \in started' : Vouched(h)'
<1>0. \A h \in Hubs : Vouched(h) => Vouched(h)'
  BY VouchedStays, ToldStays DEF Vouched
<1>1. ASSUME NEW h \in Hubs, hubLister'[h].cond.status = "True" PROVE Vouched(h)'
  <2>1. \A o \in Orgs : HubKnowledgeStep(o, h)
    BY HubKnowledgeSteps
  <2>2. Org(h) \in Orgs
    OBVIOUS
  <2>3. hubLister'[h] \in {hubLister[h], ws[h], NoWorkspace}
    BY <2>1, <2>2 DEF HubKnowledgeStep
  <2>4. Vouched(h)
    BY <1>1, <2>3 DEF VouchInv, NoWorkspace, NoCondition
  <2> QED BY <1>0, <2>4
<1>2. ASSUME NEW o \in Orgs, hubSeen'[o].status = "True"
      PROVE  hubKey'[o] \in Hubs /\ Vouched(hubKey[o])'
  <2>0. PICK g \in Hubs : Org(g) = o
    OBVIOUS
  <2>1. HubKnowledgeStep(o, g)
    BY HubKnowledgeSteps
  <2>2. \/ hubKey'[o] = hubKey[o] /\ hubSeen'[o] = hubSeen[o]
        \/ hubKey'[o] \in Hubs /\ hubSeen'[o] = hubLister[hubKey'[o]].cond
    BY <1>2, <2>1 DEF HubKnowledgeStep, NoCondition
  <2>3. hubKey'[o] \in Hubs /\ Vouched(hubKey'[o])
    BY <1>2, <2>2 DEF VouchInv
  <2> QED BY <1>0, <2>3 DEF Vouched, Backed, Claimed, Told, WebhooksInstalled
<1>3. ASSUME NEW h \in started' PROVE Vouched(h)'
  <2>0. h \in Hubs
    BY <1>3, HubTypePreserved DEF ProvisioningTypeOK, HubTypeOK
  <2>1. HubKnowledgeStep(Org(h), h)
    BY <2>0, HubKnowledgeSteps
  <2>2. h \in started \/ \E o \in Orgs : hubSeen[o].status = "True" /\ h = hubKey[o]
    BY <1>3, <2>1 DEF HubKnowledgeStep
  <2>3. Vouched(h)
    BY <2>2 DEF VouchInv
  <2> QED BY <1>0, <2>0, <2>3
<1> QED BY <1>1, <1>2, <1>3

\* The clusterManagerController's part: a pass carries on for a hub that has a
\* claim to the ClusterManager, and gets past applyWebhooks with all of them.
PassStep ==
  \/ UNCHANGED <<cmLister, cmPc, cmHub, cmRead>>
  \/ \E c \in ClusterManagers :
       \/ /\ \A d \in ClusterManagers : cmLister'[d] \in {cmLister[d], cm[d]}
          /\ UNCHANGED <<cmPc, cmHub, cmRead>>
       \/ /\ cmPc' = "endpoints" /\ cmHub' = cmLister[c].annotation /\ cmLister[c].annotation # None
          /\ UNCHANGED cmLister
  \/ cmPc' = "idle" /\ UNCHANGED cmLister
  \/ /\ cmPc # "idle" /\ UNCHANGED <<cmLister, cmHub>>
     /\ \/ cmPc' = "webhooks"
        \/ cmPc' = "get" /\ WebhooksApplied
        \/ cmPc = "get" /\ cmPc' = "update" /\ cmRead'.phase # "Absent"
  \/ cmPc' = "idle" /\ \A c \in ClusterManagers : cmLister'[c].annotation = None

LEMMA PassSteps ==
  ASSUME ProvisioningTypeOK, [ProvisioningNext]_allVars
  PROVE  PassStep
<1> USE DEF PassStep
<1>0. CmTypeOK
  BY DEF ProvisioningTypeOK
<1>1. UNCHANGED <<cmLister, cmPc, cmHub, cmRead>> => PassStep
  OBVIOUS
<1>2. ASSUME NEW c \in ClusterManagers, CmInformer(c) PROVE PassStep
  BY <1>0, <1>2 DEF CmInformer, CmTypeOK
<1>3. ASSUME NEW c \in ClusterManagers, BeginCmSync(c) PROVE PassStep
  <2>1. isClusterManagerApplied(cmLister[c]).status # "False"
    BY <1>0, AppliedCondition DEF CmTypeOK
  <2> QED BY <1>3, <2>1 DEF BeginCmSync
<1>4. ASSUME NEW retry \in BOOLEAN, EndCmSync(retry) PROVE PassStep
  BY <1>4 DEF EndCmSync
<1>5. CASE ReadEndpoints
  BY <1>4, <1>5 DEF ReadEndpoints
<1>6. CASE WebhooksApplied
  BY <1>6 DEF WebhooksApplied, ApplyWebhooks
<1>7. CASE GetWorkspace
  BY <1>4, <1>7 DEF GetWorkspace
<1>8. WebhooksRefused \/ UpdateStatus \/ WebhooksLost \/ CmCallLost
        => \E retry \in BOOLEAN : EndCmSync(retry)
  BY DEF WebhooksRefused, UpdateStatus, WebhooksLost, CmCallLost
<1>9. CASE ProcessDies
  BY <1>9 DEF ProcessDies, CmRestart, NoClusterManager
<1> QED BY <1>1, <1>2, <1>3, <1>4, <1>5, <1>6, <1>7, <1>8, <1>9, CmSteps DEF CmSide, CmSync

LEMMA AppliedBacks ==
  ASSUME ProvisioningTypeOK, VouchInv, WebhooksApplied
  PROVE  Backed(cmHub)'
<1>1. /\ CmTypeOK /\ cmHub \in Hubs /\ cmConfig \in Configs
      /\ cmHub' = cmHub /\ ws' = ws /\ ws[cmHub].phase # "Absent"
  BY DEF ProvisioningTypeOK, CmTypeOK, WebhooksApplied, ApplyWebhooks
<1>2. ASSUME NEW f \in WebhookFiles PROVE webhooks'[cmHub][f] # None
  <2>1. webhooks'[cmHub][f] = ApplyWebhook(cmConfig, f, webhooks[cmHub][f])
    BY <1>1 DEF WebhooksApplied, ApplyWebhooks, CmTypeOK
  <2> QED BY <1>1, <2>1, RenderedType DEF ApplyWebhook
<1> QED BY <1>1, <1>2 DEF VouchInv, Backed, WebhooksInstalled

LEMMA VouchPreserved ==
  ASSUME ProvisioningTypeOK, NamesAgree, VouchInv, [ProvisioningNext]_allVars
  PROVE  VouchInv'
<1>0. CpTypeOK /\ CmTypeOK /\ CmTypeOK'
  BY CmTypePreserved DEF ProvisioningTypeOK
<1>1. \A h \in Hubs : (Backed(h) => Backed(h)') /\ (Claimed(h) => Claimed(h)')
  BY VouchedStays
<1>2. ASSUME NEW h \in Hubs, ws'[h].phase # "Absent" PROVE ws'[h].inc # 0
  <2>1. ws[h].inc \in Nat
    BY <1>0, ConstantsAssumption DEF CpTypeOK, Workspaces
  <2> QED BY <1>2, <2>1, WorkspaceSteps DEF WorkspaceStep, VouchInv
<1>3. ASSUME NEW c \in ClusterManagers, cm'[c].annotation # None PROVE cm'[c].exists
  BY <1>3, ClusterManagerKept DEF VouchInv
<1>4. ASSUME NEW c \in ClusterManagers, NEW h \in Hubs, cm[c].annotation = h PROVE Claimed(h)
  BY <1>4, ConstantsAssumption DEF VouchInv, NamesAgree, Claimed
<1>5. ASSUME NEW c \in ClusterManagers, cmLister'[c].annotation # None
      PROVE  Claimed(cmLister[c].annotation)'
  <2>1. cmLister'[c].annotation \in Hubs
    BY <1>0, <1>5 DEF CmTypeOK, ClusterManagerObjects
  <2>2. cmLister'[c] = cmLister[c] \/ cmLister'[c] = cm[c]
    BY <1>5, PassSteps DEF PassStep
  <2>3. Claimed(cmLister'[c].annotation)
    BY <1>4, <1>5, <2>1, <2>2 DEF VouchInv
  <2> QED BY <1>1, <2>1, <2>3 DEF Claimed
<1>6. ASSUME cmPc' # "idle" PROVE Claimed(cmHub)' /\ cmCond'.status = "True"
  <2>1. cmHub' \in Hubs
    BY <1>0, <1>6 DEF CmTypeOK
  <2>2. \/ cmPc # "idle" /\ cmHub' = cmHub
        \/ \E c \in ClusterManagers : /\ cmHub' = cmLister[c].annotation
                                      /\ cmLister[c].annotation # None
    BY <1>6, PassSteps DEF PassStep
  <2>3. Claimed(cmHub')
    BY <2>2 DEF VouchInv
  <2> QED BY <1>1, <1>6, <2>1, <2>3, CarriedCondition DEF Claimed
<1>7. ASSUME cmPc' \in {"get", "update"} PROVE Backed(cmHub)'
  <2>1. CASE WebhooksApplied
    BY <2>1, AppliedBacks
  <2>2. CASE ~WebhooksApplied
    <3>1. cmPc \in {"get", "update"} /\ cmHub' = cmHub
      BY <1>7, <2>2, PassSteps DEF PassStep
    <3>2. cmHub \in Hubs /\ Backed(cmHub)
      BY <1>0, <3>1 DEF CmTypeOK, VouchInv
    <3> QED BY <1>1, <3>1, <3>2 DEF Backed, WebhooksInstalled
  <2> QED BY <2>1, <2>2
<1>8. ASSUME cmPc' = "update" PROVE cmRead'.phase # "Absent"
  BY <1>8, PassSteps DEF PassStep, VouchInv
<1>9. ASSUME NEW h \in Hubs, ws'[h].cond.status = "True" PROVE ws'[h].phase # "Absent" /\ Vouched(h)'
  <2>1. \/ ws[h].cond.status = "True" /\ (ws'[h] = ws[h] \/ ws'[h].phase = "Ready")
        \/ cmPc = "update" /\ h = cmHub /\ ws[h] = cmRead /\ ws'[h].phase = ws[h].phase
    BY <1>9, WorkspaceSteps DEF WorkspaceStep, NoCondition
  <2>2. Backed(h) /\ Claimed(h)
    BY <2>1 DEF VouchInv, Vouched
  <2>3. ws'[h].phase # "Absent" /\ ws'[h].inc # 0
    BY <1>2, <2>1 DEF VouchInv
  <2> QED BY <1>1, <1>9, <2>2, <2>3 DEF Vouched, Told
<1> QED
  BY <1>2, <1>3, <1>5, <1>6, <1>7, <1>8, <1>9, KnowledgePreserved DEF VouchInv

\* Every copy of a condition, in a workspace, in a cache, in a running pass or
\* turned into an entry of the controllers map, vouches for what it promises.
THEOREM VouchInvariant == ProvisioningSpec => [](NamesAgree /\ VouchInv)
<1>1. ProvisioningInit => NamesAgree /\ VouchInv
  BY DEF ProvisioningInit, Init, CpInit, HubInit, HooksInit, CmInit, NoClusterManager, NoWorkspace,
         NoCondition, NamesAgree, VouchInv
<1> QED
  BY <1>1, ProvisioningTypeCorrect, NamesAgreePreserved, VouchPreserved, PTL DEF ProvisioningSpec

\* sync applies the webhooks before it writes the condition and returns when
\* one of them failed: whatever is lost, stale, raced or restarted on the way,
\* a hub's first workspace carries the condition only with all four of them.
THEOREM ConditionsBacked == ProvisioningSpec => []ConditionImpliesWebhooks
<1>1. ProvisioningTypeOK /\ VouchInv => ConditionImpliesWebhooks
  <2> SUFFICES ASSUME ProvisioningTypeOK, VouchInv, NEW h \in Hubs,
                      ws[h].inc = 1, ws[h].cond.status = "True"
               PROVE  WebhooksInstalled(h)
    BY DEF ConditionImpliesWebhooks
  <2> QED BY DEF VouchInv, Vouched, Backed
<1> QED BY <1>1, VouchInvariant, ProvisioningTypeCorrect, PTL

\* startHubControllers acts on a condition read from a cache at the start of a
\* pass: what the condition vouched for then still holds when it acts.
THEOREM ControllersBacked == ProvisioningSpec => []ControllersAfterWebhooks
<1>1. VouchInv => ControllersAfterWebhooks
  BY DEF VouchInv, Vouched, Backed, ControllersAfterWebhooks
<1> QED BY <1>1, VouchInvariant, PTL

\* Two workspaces whose names yield one ClusterManager name share its objects;
\* the annotation written at its creation admits one of them.
THEOREM OneHubOnly == ProvisioningSpec => []OneHubPerClusterManager
<1>1. ProvisioningTypeOK /\ VouchInv => OneHubPerClusterManager
  BY DEF VouchInv, Vouched, Claimed, OneHubPerClusterManager
<1> QED BY <1>1, VouchInvariant, ProvisioningTypeCorrect, PTL

\* The annotation is the only thread from a ClusterManager to its hub: where it
\* is cut, in the store, in the informer's copy and in the running pass, no
\* step of anybody's ties it again while the object exists.
THEOREM OrphansLost == ProvisioningSpec => OrphansStayUnled
<1> DEFINE Lost(c) ==
      /\ Unled(c)' \/ ~cm'[c].exists
      /\ \A h \in Hubs : ClusterManagerName(h) = c =>
           /\ ws'[h].cond \in {ws[h].cond, NoCondition}
           /\ \A f \in WebhookFiles : webhooks'[h][f] \in {webhooks[h][f], None}
<1>1. ProvisioningTypeOK /\ NamesAgree /\ [ProvisioningNext]_allVars
        => [\A c \in ClusterManagers : Unled(c) => Lost(c)]_allVars
  <2> SUFFICES ASSUME ProvisioningTypeOK, NamesAgree, [ProvisioningNext]_allVars,
                      NEW c \in ClusterManagers, Unled(c)
               PROVE  Lost(c)
    OBVIOUS
  <2>1. cm[c].exists /\ cm[c].annotation = None /\ cmLister[c].annotation = None
    BY DEF Unled, Orphaned
  <2>2. cm'[c].annotation = None
    BY <2>1, ClusterManagerKept
  <2>3. cmLister'[c].annotation = None
    BY <2>1, PassSteps DEF PassStep
  <2>4. ASSUME cmPc' # "idle" PROVE cmKey' # c
    <3>1. ASSUME NEW d \in ClusterManagers, BeginCmSync(d) PROVE cmKey' # c
      BY <2>1, <3>1 DEF BeginCmSync
    <3>2. ASSUME NEW d \in ClusterManagers, CmInformer(d) PROVE UNCHANGED <<cmPc, cmKey>>
      BY <3>2 DEF CmInformer
    <3>3. CmSync \/ WebhooksLost \/ CmCallLost => cmPc # "idle" /\ UNCHANGED cmKey
      BY <2>4
      DEF CmSync, ReadEndpoints, WebhooksApplied, WebhooksRefused, GetWorkspace, UpdateStatus,
          WebhooksLost, ApplyWebhooks, CmCallLost, EndCmSync
    <3>4. ~ProcessDies
      BY <2>4 DEF ProcessDies, CmRestart
    <3> QED BY <2>4, <3>1, <3>2, <3>3, <3>4, CmSteps DEF CmSide, Unled
  <2>5. ASSUME NEW h \in Hubs, ClusterManagerName(h) = c
        PROVE  /\ ws'[h].cond \in {ws[h].cond, NoCondition}
               /\ \A f \in WebhookFiles : webhooks'[h][f] \in {webhooks[h][f], None}
    <3>1. cmPc # "idle" => h # cmHub
      BY <2>5 DEF NamesAgree, Unled
    <3>2. ws'[h].cond \in {ws[h].cond, NoCondition}
      BY <3>1, WorkspaceSteps DEF WorkspaceStep
    <3> QED BY <3>1, <3>2, WebhookKept
  <2> QED BY <2>2, <2>3, <2>4, <2>5 DEF Unled, Orphaned
<1> QED
  BY <1>1, ProvisioningTypeCorrect, VouchInvariant, PTL DEF ProvisioningSpec, OrphansStayUnled
===============================================================================
