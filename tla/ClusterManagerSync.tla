-------------------------- MODULE ClusterManagerSync --------------------------
(***************************************************************************)
(* The clusterManagerController: it watches the ClusterManagers of the     *)
(* management cluster.  Once the operator reports on one, the controller   *)
(* installs the admission webhooks in the hub workspace and then sets the  *)
(* workspace's condition ClusterManagerApplied.                            *)
(*                                                                         *)
(* Between two calls of a pass everything else may move: the condition was *)
(* computed from the lister's copy, the webhook addresses from a ConfigMap *)
(* and two Services read before the webhooks are written, and the          *)
(* workspace is read in one call and written in another.                   *)
(***************************************************************************)
EXTENDS ControlPlane

CONSTANT MaxBundles  \* bound: how many CA bundles a ClusterManager ever has

ASSUME BundlesAssumption ==
  MaxBundles \in Nat \ {0} /\ None \notin [ca : 0..MaxBundles, port : 0..MaxPort]

VARIABLES
  caBundle,   \* ca-bundle-configmap of each ClusterManager namespace; 0: no bundle
  webhooks,   \* the webhook configurations in each hub workspace; None: not there
  cmLister,   \* the informer's copy of each ClusterManager
  cmQueue,    \* the keys waiting in the work queue
  cmPc,       \* what the single worker does next
  cmKey,      \* the ClusterManager it works on, None between passes
  cmHub,      \* the workspace its annotation names
  cmCond,     \* the appliedConditon computed from the lister's copy
  cmConfig,   \* the addresses the webhooks are to be given
  cmRead      \* the workspace as read for the status update

hookVars == <<caBundle, webhooks>>
cmVars == <<cmLister, cmQueue, cmPc, cmKey, cmHub, cmCond, cmConfig, cmRead>>

\* Three of the four files point at the registration webhook.
WebhookFiles == {"clustersetbinding", "mutating", "validating", "work"}
WebhookKind(f) == IF f = "work" THEN "work" ELSE "registration"

Configs == [ca : 0..MaxBundles, port : [Kinds -> 0..MaxPort]]
Webhooks == [ca : 0..MaxBundles, port : 0..MaxPort]
NoConfig == [ca |-> 0, port |-> [k \in Kinds |-> 0]]

\* Mutant: every template takes the registration webhook's port.
RenderedRegistration(config, f) == [ca |-> config.ca, port |-> config.port["registration"]]

\* What the template yields for one file.
Rendered(config, f) == [ca |-> config.ca, port |-> config.port[WebhookKind(f)]]

CmTypeOK ==
  /\ caBundle \in [ClusterManagers -> 0..MaxBundles]
  /\ webhooks \in [Hubs -> [WebhookFiles -> Webhooks \cup {None}]]
  /\ cmLister \in [ClusterManagers -> ClusterManagerObjects]
  /\ cmQueue \in SUBSET ClusterManagers
  /\ cmPc \in {"idle", "endpoints", "webhooks", "get", "update"}
  /\ cmKey \in ClusterManagers \cup {None}
  /\ cmHub \in Hubs \cup {None}
  /\ cmPc # "idle" => cmKey \in ClusterManagers /\ cmHub \in Hubs
  /\ cmCond \in Conditions
  /\ cmConfig \in Configs
  /\ cmRead \in Workspaces

HooksInit ==
  /\ caBundle = [c \in ClusterManagers |-> 0]
  /\ webhooks = [h \in Hubs |-> [f \in WebhookFiles |-> None]]

CmInit ==
  /\ cmLister = [c \in ClusterManagers |-> NoClusterManager]
  /\ cmQueue = {}
  /\ cmPc = "idle"
  /\ cmKey = None
  /\ cmHub = None
  /\ cmCond = NoCondition
  /\ cmConfig = NoConfig
  /\ cmRead = NoWorkspace
-------------------------------------------------------------------------------
(* The cluster-manager operator and the administrators, as seen here. *)

\* The operator reports failure or degradation, or publishes a CA bundle.
OperatorReports(c) ==
  /\ cm[c].exists
  /\ \/ cm' = [cm EXCEPT ![c].applied = "False"]
     \/ cm' = [cm EXCEPT ![c].degraded = TRUE]
  /\ \/ c \in namespaces /\ caBundle[c] = 0
        /\ caBundle' = [caBundle EXCEPT ![c] = 1]
     \/ caBundle' = caBundle

RotateBundle(c) ==
  /\ caBundle[c] \in 1..(MaxBundles - 1)
  /\ caBundle' = [caBundle EXCEPT ![c] = @ + 1]
  /\ UNCHANGED <<cpVars, webhooks, cmVars>>
-------------------------------------------------------------------------------
(* The informer. *)

CmInformer(c) ==
  /\ cmLister[c] # cm[c]
  /\ cmLister' = [cmLister EXCEPT ![c] = cm[c]]
  /\ cmQueue' = cmQueue \cup {c}
  /\ UNCHANGED <<cpVars, hookVars, cmPc, cmKey, cmHub, cmCond, cmConfig, cmRead>>

\* Every five minutes the informer replays what its store holds.
CmResync(c) ==
  /\ cmLister[c].exists
  /\ cmQueue' = cmQueue \cup {c}
  /\ UNCHANGED <<cpVars, hookVars, cmLister, cmPc, cmKey, cmHub, cmCond, cmConfig, cmRead>>
-------------------------------------------------------------------------------
(* One pass of sync over ClusterManager c. *)

\* Mutant: a failure gives the condition status False.
isClusterManagerAppliedOrNot(m) ==
  IF m.applied = "Absent" THEN NoCondition
  ELSE IF m.applied = "True" THEN [status |-> "True", reason |-> "Applied"]
  ELSE [status |-> "False", reason |-> "ApplyFailed"]

\* The condition always has status True; only the reason tells a failure.  An
\* operator that has not reported yet leaves the ClusterManager without one.
isClusterManagerApplied(m) ==
  IF m.applied = "Absent" THEN NoCondition
  ELSE [status |-> "True",
        reason |-> IF m.applied # "True" THEN "ApplyFailed"
                   ELSE IF m.degraded THEN "ApplyDegraded" ELSE "Applied"]

CmSyncIgnores(c) ==
  /\ cmPc = "idle" /\ c \in cmQueue
  /\ \/ ~cmLister[c].exists
     \/ cmLister[c].annotation = None
     \/ isClusterManagerApplied(cmLister[c]) = NoCondition
  /\ cmQueue' = cmQueue \ {c}
  /\ UNCHANGED <<cpVars, hookVars, cmLister, cmPc, cmKey, cmHub, cmCond, cmConfig, cmRead>>

\* Mutant: a missing annotation is not noticed.
BeginCmSyncUnannotated(c) ==
  LET cond == isClusterManagerApplied(cmLister[c]) IN
  /\ cmPc = "idle" /\ c \in cmQueue
  /\ cmLister[c].exists /\ cond # NoCondition
  /\ cmQueue' = cmQueue \ {c}
  /\ cmPc' = IF cond.status = "False" THEN "get" ELSE "endpoints"
  /\ cmKey' = c
  /\ cmHub' = cmLister[c].annotation
  /\ cmCond' = cond
  /\ UNCHANGED <<cpVars, hookVars, cmLister, cmConfig, cmRead>>

\* Mutant: the webhooks are applied for the first report only.
BeginCmSyncOnce(c) ==
  LET cond == isClusterManagerApplied(cmLister[c]) IN
  /\ cmPc = "idle" /\ c \in cmQueue
  /\ cmLister[c].exists /\ cmLister[c].annotation # None /\ cond # NoCondition
  /\ cmQueue' = cmQueue \ {c}
  /\ cmPc' = IF ws[cmLister[c].annotation].cond = cond THEN "get" ELSE "endpoints"
  /\ cmKey' = c
  /\ cmHub' = cmLister[c].annotation
  /\ cmCond' = cond
  /\ UNCHANGED <<cpVars, hookVars, cmLister, cmConfig, cmRead>>

\* A condition of status False would skip the webhooks.
BeginCmSync(c) ==
  LET cond == isClusterManagerApplied(cmLister[c]) IN
  /\ cmPc = "idle" /\ c \in cmQueue
  /\ cmLister[c].exists /\ cmLister[c].annotation # None /\ cond # NoCondition
  /\ cmQueue' = cmQueue \ {c}
  /\ cmPc' = IF cond.status = "False" THEN "get" ELSE "endpoints"
  /\ cmKey' = c
  /\ cmHub' = cmLister[c].annotation
  /\ cmCond' = cond
  /\ UNCHANGED <<cpVars, hookVars, cmLister, cmConfig, cmRead>>

EndCmSync(retry) ==
  /\ cmPc' = "idle" /\ cmKey' = None /\ cmHub' = None
  /\ cmCond' = NoCondition /\ cmConfig' = NoConfig /\ cmRead' = NoWorkspace
  /\ cmQueue' = IF retry THEN cmQueue \cup {cmKey} ELSE cmQueue
  /\ UNCHANGED cmLister

\* applyWebhooks reads the CA bundle and the node ports of both services; any
\* of them missing is an error.
ReadEndpoints ==
  /\ cmPc = "endpoints"
  /\ IF caBundle[cmKey] # 0 /\ \A k \in Kinds : svc[cmKey][k] # 0
     THEN /\ cmConfig' = [ca |-> caBundle[cmKey], port |-> svc[cmKey]]
          /\ cmPc' = "webhooks"
          /\ UNCHANGED <<cmLister, cmQueue, cmKey, cmHub, cmCond, cmRead>>
     ELSE EndCmSync(TRUE)
  /\ UNCHANGED <<cpVars, hookVars>>

\* The Apply functions for webhook configurations compare metadata only, and
\* the templates carry none that can differ: what exists stays as it is.
ApplyWebhook(config, f, existing) == IF existing = None THEN Rendered(config, f) ELSE existing

ApplyWebhooks(files) ==
  /\ cmPc = "webhooks" /\ ws[cmHub].phase # "Absent"
  /\ webhooks' = [webhooks EXCEPT ![cmHub] =
       [f \in WebhookFiles |-> IF f \in files THEN ApplyWebhook(cmConfig, f, @[f]) ELSE @[f]]]
  /\ UNCHANGED <<ws, mgmtVars, tampered, restarts, caBundle>>

WebhooksApplied ==
  /\ ApplyWebhooks(WebhookFiles)
  /\ cmPc' = "get"
  /\ UNCHANGED <<disruptions, cmLister, cmQueue, cmKey, cmHub, cmCond, cmConfig, cmRead>>

\* Mutant: the errors of applyWebhooks do not end the pass.
WebhooksLostRegardless ==
  \E files \in SUBSET WebhookFiles :
    /\ ApplyWebhooks(files) /\ Disrupt
    /\ cmPc' = "get" /\ UNCHANGED <<cmLister, cmQueue, cmKey, cmHub, cmCond, cmConfig, cmRead>>

\* All four files are tried; some calls do not arrive, or their answers do not
\* (all of them, when every file took effect).
WebhooksLost ==
  \E files \in SUBSET WebhookFiles : ApplyWebhooks(files) /\ Disrupt /\ EndCmSync(TRUE)

WebhooksRefused ==  \* the workspace's API is gone
  /\ cmPc = "webhooks" /\ ws[cmHub].phase = "Absent"
  /\ EndCmSync(TRUE)
  /\ UNCHANGED <<cpVars, hookVars>>

\* Mutant: conditions of one status are taken for equal.
GetWorkspaceComparingStatus ==
  /\ cmPc = "get"
  /\ IF ws[cmHub].phase = "Absent" \/ ws[cmHub].cond.status = cmCond.status
     THEN EndCmSync(FALSE)
     ELSE /\ cmRead' = ws[cmHub]
          /\ cmPc' = "update"
          /\ UNCHANGED <<cmLister, cmQueue, cmKey, cmHub, cmCond, cmConfig>>
  /\ UNCHANGED <<cpVars, hookVars>>

\* Mutant: a workspace that was not found is updated all the same.
GetWorkspaceFoundOrNot ==
  /\ cmPc = "get"
  /\ IF ws[cmHub].cond = cmCond
     THEN EndCmSync(FALSE)
     ELSE /\ cmRead' = ws[cmHub]
          /\ cmPc' = "update"
          /\ UNCHANGED <<cmLister, cmQueue, cmKey, cmHub, cmCond, cmConfig>>
  /\ UNCHANGED <<cpVars, hookVars>>

\* updateWorksapceStatus: read the workspace; nothing to do when it is gone or
\* its condition is what it should be.
GetWorkspace ==
  /\ cmPc = "get"
  /\ IF ws[cmHub].phase = "Absent" \/ ws[cmHub].cond = cmCond
     THEN EndCmSync(FALSE)
     ELSE /\ cmRead' = ws[cmHub]
          /\ cmPc' = "update"
          /\ UNCHANGED <<cmLister, cmQueue, cmKey, cmHub, cmCond, cmConfig>>
  /\ UNCHANGED <<cpVars, hookVars>>

\* UpdateStatus sends the resourceVersion that was read: a workspace that
\* changed since refuses the write, and the key is retried.
UpdateStatus ==
  /\ cmPc = "update"
  /\ IF ws[cmHub] = cmRead
     THEN ws' = [ws EXCEPT ![cmHub].cond = cmCond] /\ EndCmSync(FALSE)
     ELSE ws' = ws /\ EndCmSync(TRUE)
  /\ UNCHANGED <<mgmtVars, boundVars, hookVars>>

\* A call of the pass or its answer is lost; the error is returned and the key
\* retried.
CmCallLost ==
  /\ cmPc \in {"endpoints", "get", "update"}
  /\ \/ ws' = ws
     \/ cmPc = "update" /\ ws[cmHub] = cmRead /\ ws' = [ws EXCEPT ![cmHub].cond = cmCond]
  /\ Disrupt
  /\ EndCmSync(TRUE)
  /\ UNCHANGED <<mgmtVars, tampered, restarts, hookVars>>

CmSync == ReadEndpoints \/ WebhooksApplied \/ WebhooksRefused \/ GetWorkspace \/ UpdateStatus

CmRestart ==
  /\ cmLister' = [c \in ClusterManagers |-> NoClusterManager]
  /\ cmQueue' = {} /\ cmPc' = "idle" /\ cmKey' = None /\ cmHub' = None
  /\ cmCond' = NoCondition /\ cmConfig' = NoConfig /\ cmRead' = NoWorkspace
===============================================================================
