--------------------------- MODULE HubRefinementProofs ---------------------------
(***************************************************************************)
(* Proof that the whole provisioning path implements HubWorkspace, and the *)
(* properties of HubWorkspace that it has in consequence.                  *)
(***************************************************************************)
EXTENDS HubProvisioningProofs

USE DEF Orgs, Kinds, HubFiles, AfterFile, Org, ClusterManagerName, ClusterManagers,
        Hub!Orgs, Hub!Kinds, Hub!HubFiles, Hub!AfterFile, Hub!Org, Hub!ClusterManagerName,
        Hub!ClusterManagers

\* What is left of a workspace, a condition or a ClusterManager.
LEMMA PlainFields ==
  /\ \A w \in Workspaces : /\ Unexplained(w).inc = w.inc /\ Unexplained(w).phase = w.phase
                           /\ Unexplained(w).cond = WithoutReason(w.cond)
  /\ Unexplained(NoWorkspace) = NoWorkspace /\ WithoutReason(NoCondition) = NoCondition
  /\ \A m \in ClusterManagerObjects : /\ Unreported(m).exists = m.exists
                                      /\ Unreported(m).annotation = m.annotation
BY DEF Unexplained, WithoutReason, Unreported, Workspaces, ClusterManagerObjects, NoWorkspace, NoCondition

\* An edit of a ClusterManager is one of what is left of it.
LEMMA UnreportedEdits ==
  /\ \A m \in ClusterManagerObjects, b \in BOOLEAN :
       Unreported([m EXCEPT !.drifted = b]) = [Unreported(m) EXCEPT !.drifted = b]
  /\ \A m \in ClusterManagerObjects :
       Unreported([m EXCEPT !.annotation = None]) = [Unreported(m) EXCEPT !.annotation = None]
  /\ \A h \in Hubs : Unreported([NoClusterManager EXCEPT !.exists = TRUE, !.annotation = h])
                       = [NoClusterManager EXCEPT !.exists = TRUE, !.annotation = h]
  /\ Unreported(NoClusterManager) = NoClusterManager
<1>1. ASSUME NEW m \in ClusterManagerObjects, NEW b \in BOOLEAN
      PROVE  Unreported([m EXCEPT !.drifted = b]) = [Unreported(m) EXCEPT !.drifted = b]
  BY DEF Unreported, ClusterManagerObjects
<1>2. ASSUME NEW m \in ClusterManagerObjects
      PROVE  Unreported([m EXCEPT !.annotation = None]) = [Unreported(m) EXCEPT !.annotation = None]
  BY DEF Unreported, ClusterManagerObjects
<1>3. ASSUME NEW m \in ClusterManagerObjects, m.applied = "Absent", m.degraded = FALSE
      PROVE  Unreported(m) = m
  BY <1>3 DEF Unreported, ClusterManagerObjects
<1>4. ASSUME NEW h \in Hubs
      PROVE  Unreported([NoClusterManager EXCEPT !.exists = TRUE, !.annotation = h])
             = [NoClusterManager EXCEPT !.exists = TRUE, !.annotation = h]
  <2> DEFINE m == [NoClusterManager EXCEPT !.exists = TRUE, !.annotation = h]
  <2>1. m \in ClusterManagerObjects /\ m.applied = "Absent" /\ m.degraded = FALSE
    BY DEF NoClusterManager, ClusterManagerObjects
  <2> QED BY <1>3, <2>1
<1>5. Unreported(NoClusterManager) = NoClusterManager
  <2>1. /\ NoClusterManager \in ClusterManagerObjects
        /\ NoClusterManager.applied = "Absent" /\ NoClusterManager.degraded = FALSE
    BY DEF NoClusterManager, ClusterManagerObjects
  <2> QED BY <1>3, <2>1
<1> QED BY <1>1, <1>2, <1>4, <1>5

\* It changes with the variable only.
LEMMA PlainUnchanged ==
  /\ UNCHANGED ws => UNCHANGED plainWs
  /\ UNCHANGED hubLister => UNCHANGED plainLister
  /\ UNCHANGED hubSeen => UNCHANGED plainSeen
  /\ UNCHANGED cm => UNCHANGED plainCm
BY DEF plainWs, plainLister, plainSeen, plainCm

\* Conditions are absent or True, and deleted workspaces have none.
Plain(w) == w.cond = NoCondition \/ (w.cond.status = "True" /\ w.phase # "Absent")

ReportInv == \A h \in Hubs : Plain(ws[h]) /\ Plain(hubLister[h])
-------------------------------------------------------------------------------
(* The steps of the hubWorkspaceControllers. *)

LEMMA InformerImplements ==
  ASSUME ProvisioningTypeOK, ReportInv, NEW h \in Hubs, HubInformer(h)
  PROVE  Hub!HubInformer(h) \/ Hub!HubResync(h)
<1> USE PlainUnchanged
<1>0. /\ ws[h] \in Workspaces /\ hubLister[h] \in Workspaces
      /\ plainWs[h] = Unexplained(ws[h]) /\ plainLister[h] = Unexplained(hubLister[h])
  BY DEF ProvisioningTypeOK, CpTypeOK, HubTypeOK, plainWs, plainLister
<1>1. CASE plainLister[h] # plainWs[h]
  <2>1. plainLister' = [plainLister EXCEPT ![h] = plainWs[h]]
    BY <1>0 DEF HubInformer, plainLister, ProvisioningTypeOK, HubTypeOK
  <2> QED BY <1>1, <2>1 DEF HubInformer, Hub!HubInformer, cpVars, Hub!cpVars
<1>2. CASE plainLister[h] = plainWs[h]
  <2>1. hubLister[h].inc = ws[h].inc /\ hubLister[h].phase = ws[h].phase
    <3>1. Unexplained(hubLister[h]) = Unexplained(ws[h])
      BY <1>0, <1>2
    <3>2. /\ Unexplained(ws[h]).inc = ws[h].inc /\ Unexplained(ws[h]).phase = ws[h].phase
          /\ Unexplained(hubLister[h]).inc = hubLister[h].inc
          /\ Unexplained(hubLister[h]).phase = hubLister[h].phase
      BY <1>0, PlainFields
    <3> QED BY <3>1, <3>2
  <2>2. hubLister[h].cond # ws[h].cond
    BY <1>0, <2>1 DEF HubInformer, Workspaces
  <2>3. plainLister[h].phase # "Absent"
    BY <1>0, <2>1, <2>2, PlainFields DEF ReportInv, Plain
  <2>4. UNCHANGED plainLister
    BY <1>0, <1>2 DEF HubInformer, plainLister
  <2> QED BY <2>3, <2>4 DEF HubInformer, Hub!HubResync, cpVars, Hub!cpVars
<1> QED BY <1>1, <1>2

LEMMA PassBeginImplements ==
  ASSUME ProvisioningTypeOK, NEW h \in Hubs
  PROVE  /\ HubResync(h) => Hub!HubResync(h)
         /\ HubSyncIgnores(h) => Hub!HubSyncIgnores(h)
         /\ BeginHubSync(h) => Hub!BeginHubSync(h)
<1> USE PlainUnchanged DEF cpVars, Hub!cpVars
<1>0. plainLister[h].phase = hubLister[h].phase /\ plainLister[h].cond = WithoutReason(hubLister[h].cond)
  BY PlainFields DEF ProvisioningTypeOK, HubTypeOK, plainLister
<1>1. HubResync(h) => Hub!HubResync(h)
  BY <1>0 DEF HubResync, Hub!HubResync
<1>2. HubSyncIgnores(h) => Hub!HubSyncIgnores(h)
  BY <1>0 DEF HubSyncIgnores, Hub!HubSyncIgnores
<1>3. BeginHubSync(h) => Hub!BeginHubSync(h)
  <2> SUFFICES ASSUME BeginHubSync(h) PROVE Hub!BeginHubSync(h)
    OBVIOUS
  <2>1. plainSeen' = [plainSeen EXCEPT ![Org(h)] = plainLister[h].cond]
    BY <1>0 DEF BeginHubSync, plainSeen, ProvisioningTypeOK, HubTypeOK
  <2>2. [k \in Kinds |-> NextPort(port[Org(h)][k])] = [k \in Hub!Kinds |-> Hub!NextPort(port[Org(h)][k])]
    BY DEF NextPort, Hub!NextPort
  <2> QED BY <1>0, <2>1, <2>2 DEF BeginHubSync, Hub!BeginHubSync
<1> QED BY <1>1, <1>2, <1>3

LEMMA PassImplements ==
  ASSUME ProvisioningTypeOK, NEW o \in Orgs, HubSync(o)
  PROVE  Hub!HubSync(o)
<1> USE PlainUnchanged
    DEF cpVars, Hub!cpVars, mgmtVars, Hub!mgmtVars, boundVars, Hub!boundVars, Target, Hub!Target
<1>0. CpTypeOK /\ HubTypeOK
  BY DEF ProvisioningTypeOK
<1>1. ASSUME NEW f \in HubFiles PROVE Applied(o, f) => Hub!Applied(o, f)
  BY DEF Applied, Hub!Applied
<1>2. ApplyNamespace(o) => Hub!ApplyNamespace(o)
  BY <1>1 DEF ApplyNamespace, Hub!ApplyNamespace
<1>3. ApplySecret(o) => Hub!ApplySecret(o)
  BY <1>1 DEF ApplySecret, Hub!ApplySecret
<1>4. ASSUME NEW k \in Kinds PROVE ApplyService(o, k) => Hub!ApplyService(o, k)
  BY <1>1 DEF ApplyService, Hub!ApplyService, PortFree, Hub!PortFree
<1>5. ASSUME ApplyClusterManager(o) PROVE Hub!ApplyClusterManager(o)
  <2> DEFINE c == Target(o)
             m == IF cm[c].exists THEN [cm[c] EXCEPT !.drifted = FALSE]
                  ELSE [NoClusterManager EXCEPT !.exists = TRUE, !.annotation = hubKey[o]]
  <2>1. c \in ClusterManagers /\ hubKey[o] \in Hubs
    BY <1>0, <1>5, TargetType DEF ApplyClusterManager, Applied
  <2>2. plainCm[c] = Unreported(cm[c]) /\ cm[c] \in ClusterManagerObjects
    BY <1>0, <2>1 DEF plainCm, CpTypeOK
  <2>3. Unreported(m) = IF plainCm[c].exists THEN [plainCm[c] EXCEPT !.drifted = FALSE]
                        ELSE [NoClusterManager EXCEPT !.exists = TRUE, !.annotation = hubKey[o]]
    <3>1. cm[c].exists => Unreported(m) = [Unreported(cm[c]) EXCEPT !.drifted = FALSE]
      BY <2>2, UnreportedEdits
    <3>2. ~cm[c].exists => Unreported(m) = [NoClusterManager EXCEPT !.exists = TRUE, !.annotation = hubKey[o]]
      BY <2>1, UnreportedEdits
    <3> QED BY <2>2, <3>1, <3>2, PlainFields
  <2>4. plainCm' = [plainCm EXCEPT ![c] = Unreported(m)]
    <3>1. cm' = [cm EXCEPT ![c] = m]
      BY <1>5 DEF ApplyClusterManager
    <3> QED BY <1>0, <2>1, <3>1 DEF plainCm, CpTypeOK
  <2> QED
    BY <1>1, <1>5, <2>1, <2>3, <2>4
    DEF ApplyClusterManager, Hub!ApplyClusterManager, NoClusterManager, Hub!NoClusterManager
<1>6. ASSUME NEW f \in HubFiles PROVE ApplyRefused(o, f) => Hub!ApplyRefused(o, f)
  BY DEF ApplyRefused, Hub!ApplyRefused, ApplyFails, Hub!ApplyFails, PortFree, Hub!PortFree
<1>7. ASSUME FinishHubSync(o) PROVE Hub!FinishHubSync(o)
  <2>1. plainSeen' = [plainSeen EXCEPT ![o] = NoCondition]
    BY <1>0, <1>7, PlainFields DEF FinishHubSync, plainSeen, HubTypeOK
  <2>2. plainSeen[o].status = "True" <=> hubSeen[o].status = "True"
    BY DEF plainSeen, WithoutReason, NoCondition
  <2> QED
    BY <1>7, <2>1, <2>2
    DEF FinishHubSync, Hub!FinishHubSync, IsWorkspaceStatusConditionTrue,
        Hub!IsWorkspaceStatusConditionTrue, startHubControllers, Hub!startHubControllers,
        NoCondition, Hub!NoCondition
<1> QED BY <1>2, <1>3, <1>4, <1>5, <1>6, <1>7 DEF HubSync, Hub!HubSync

LEMMA LossImplements ==
  ASSUME NEW o \in Orgs
  PROVE  /\ \A f \in HubFiles : ApplyLost(o, f) => Hub!ApplyLost(o, f)
         /\ AnswerLost(o) => Hub!AnswerLost(o)
<1> USE PlainUnchanged DEF mgmtVars, Hub!mgmtVars, Disrupt, Hub!Disrupt
<1>1. ASSUME NEW f \in HubFiles PROVE ApplyLost(o, f) => Hub!ApplyLost(o, f)
  BY DEF ApplyLost, Hub!ApplyLost, ApplyFails, Hub!ApplyFails
<1>2. AnswerLost(o) => Hub!AnswerLost(o)
  BY DEF AnswerLost, Hub!AnswerLost
<1> QED BY <1>1, <1>2

LEMMA RestartImplements == Restart => Hub!Restart
<1> SUFFICES ASSUME Restart PROVE Hub!Restart
  OBVIOUS
<1> USE DEF Restart, HubRestart
<1>1. plainLister' = [h \in Hubs |-> NoWorkspace] /\ plainSeen' = [o \in Orgs |-> NoCondition]
  BY PlainFields DEF plainLister, plainSeen
<1> QED
  BY <1>1, PlainUnchanged
  DEF Hub!Restart, Hub!HubRestart, Dies, Hub!Dies, mgmtVars, Hub!mgmtVars, Base, Hub!Base,
      NoWorkspace, Hub!NoWorkspace, NoCondition, Hub!NoCondition
-------------------------------------------------------------------------------
(* The steps of everybody else. *)

LEMMA UnexplainedEdits ==
  ASSUME NEW w \in Workspaces
  PROVE  /\ Unexplained([w EXCEPT !.phase = "Ready"]) = [Unexplained(w) EXCEPT !.phase = "Ready"]
         /\ Unexplained([w EXCEPT !.phase = "Absent", !.cond = NoCondition])
              = [Unexplained(w) EXCEPT !.phase = "Absent", !.cond = NoCondition]
         /\ \A cond \in Conditions : cond.status = "True" =>
              Unexplained([w EXCEPT !.cond = cond])
                = [Unexplained(w) EXCEPT !.cond = [status |-> "True", reason |-> "Applied"]]
<1>1. Unexplained([w EXCEPT !.phase = "Ready"]) = [Unexplained(w) EXCEPT !.phase = "Ready"]
  BY DEF Unexplained, Workspaces
<1>2. Unexplained([w EXCEPT !.phase = "Absent", !.cond = NoCondition])
        = [Unexplained(w) EXCEPT !.phase = "Absent", !.cond = NoCondition]
  BY PlainFields DEF Unexplained, Workspaces
<1>3. ASSUME NEW cond \in Conditions, cond.status = "True"
      PROVE  Unexplained([w EXCEPT !.cond = cond])
               = [Unexplained(w) EXCEPT !.cond = [status |-> "True", reason |-> "Applied"]]
  BY <1>3 DEF Unexplained, WithoutReason, Workspaces
<1> QED BY <1>1, <1>2, <1>3

LEMMA WorkspaceStepsImplement ==
  ASSUME ProvisioningTypeOK, NEW h \in Hubs
  PROVE  /\ CreateWorkspace(h) => Hub!CreateWorkspace(h)
         /\ WorkspaceReady(h) => Hub!WorkspaceReady(h)
         /\ DeleteWorkspace(h) => Hub!DeleteWorkspace(h)
<1> USE PlainUnchanged
    DEF mgmtVars, Hub!mgmtVars, boundVars, Hub!boundVars, Disrupt, Hub!Disrupt, NoCondition, Hub!NoCondition
<1>0. /\ ws \in [Hubs -> Workspaces] /\ plainWs[h] = Unexplained(ws[h])
      /\ plainWs[h].phase = ws[h].phase /\ plainWs[h].inc = ws[h].inc
  BY PlainFields DEF ProvisioningTypeOK, CpTypeOK, plainWs
<1>1. ASSUME NEW w, ws' = [ws EXCEPT ![h] = w] PROVE plainWs' = [plainWs EXCEPT ![h] = Unexplained(w)]
  BY <1>0, <1>1 DEF plainWs
<1>2. ASSUME CreateWorkspace(h) PROVE Hub!CreateWorkspace(h)
  <2> DEFINE w == [inc |-> ws[h].inc + 1, phase |-> "Initializing", cond |-> NoCondition]
  <2>1. Unexplained(w) = w
    BY DEF Unexplained, WithoutReason
  <2>2. plainWs' = [plainWs EXCEPT ![h] = w]
    BY <1>1, <1>2, <2>1 DEF CreateWorkspace
  <2> QED BY <1>0, <1>2, <2>2 DEF CreateWorkspace, Hub!CreateWorkspace
<1>3. ASSUME WorkspaceReady(h) PROVE Hub!WorkspaceReady(h)
  <2> DEFINE w == [ws[h] EXCEPT !.phase = "Ready"]
  <2>0. ws' = [ws EXCEPT ![h] = w] /\ Unexplained(w) = [Unexplained(ws[h]) EXCEPT !.phase = "Ready"]
    BY <1>0, <1>3, UnexplainedEdits DEF WorkspaceReady
  <2> HIDE DEF w
  <2>1. plainWs' = [plainWs EXCEPT ![h] = [Unexplained(ws[h]) EXCEPT !.phase = "Ready"]]
    BY <1>1, <2>0, Zenon
  <2> QED BY <1>0, <1>3, <2>1 DEF WorkspaceReady, Hub!WorkspaceReady
<1>4. ASSUME DeleteWorkspace(h) PROVE Hub!DeleteWorkspace(h)
  <2> DEFINE w == [ws[h] EXCEPT !.phase = "Absent", !.cond = NoCondition]
  <2>0. /\ ws' = [ws EXCEPT ![h] = w]
        /\ Unexplained(w) = [Unexplained(ws[h]) EXCEPT !.phase = "Absent", !.cond = NoCondition]
    BY <1>0, <1>4, UnexplainedEdits DEF DeleteWorkspace
  <2> HIDE DEF w
  <2>1. plainWs' = [plainWs EXCEPT ![h] =
                      [Unexplained(ws[h]) EXCEPT !.phase = "Absent", !.cond = NoCondition]]
    BY <1>1, <2>0, Zenon
  <2> QED BY <1>0, <1>4, <2>1 DEF DeleteWorkspace, Hub!DeleteWorkspace
<1> QED BY <1>2, <1>3, <1>4

\* Whatever condition is written, to a workspace that exists.
LEMMA ConditionWritten ==
  ASSUME ProvisioningTypeOK, NEW h \in Hubs, NEW cond \in Conditions, cond.status = "True",
         ws[h].phase # "Absent", ws' = [ws EXCEPT ![h].cond = cond],
         Disrupt \/ UNCHANGED disruptions, UNCHANGED <<mgmtVars, tampered, restarts>>
  PROVE  Hub!ConditionSet(h)
<1>1. ws[h] \in Workspaces /\ plainWs[h] = Unexplained(ws[h]) /\ plainWs[h].phase = ws[h].phase
  BY PlainFields DEF ProvisioningTypeOK, CpTypeOK, plainWs
<1>2. ws' = [ws EXCEPT ![h] = [ws[h] EXCEPT !.cond = cond]]
  OBVIOUS
<1>3. plainWs' = [plainWs EXCEPT ![h] = Unexplained([ws[h] EXCEPT !.cond = cond])]
  BY <1>2 DEF ProvisioningTypeOK, CpTypeOK, plainWs
<1>4. plainWs' = [plainWs EXCEPT ![h] =
                    [plainWs[h] EXCEPT !.cond = [status |-> "True", reason |-> "Applied"]]]
  BY <1>1, <1>3, UnexplainedEdits
<1> QED
  BY <1>1, <1>4, PlainUnchanged DEF Hub!ConditionSet, mgmtVars, Hub!mgmtVars, Disrupt, Hub!Disrupt

LEMMA ManagementStepsImplement ==
  ASSUME ProvisioningTypeOK, NEW c \in ClusterManagers
  PROVE  /\ DeleteNamespace(c) => Hub!DeleteNamespace(c)
         /\ DeleteClusterManager(c) => Hub!DeleteClusterManager(c)
         /\ EditClusterManager(c) => Hub!EditClusterManager(c)
<1> USE PlainUnchanged DEF Tamper, Hub!Tamper, Disrupt, Hub!Disrupt
<1>0. /\ cm \in [ClusterManagers -> ClusterManagerObjects]
      /\ plainCm[c] = Unreported(cm[c]) /\ plainCm[c].exists = cm[c].exists
  BY PlainFields DEF ProvisioningTypeOK, CpTypeOK, plainCm
<1>1. ASSUME NEW m, cm' = [cm EXCEPT ![c] = m] PROVE plainCm' = [plainCm EXCEPT ![c] = Unreported(m)]
  BY <1>0, <1>1 DEF plainCm
<1>2. DeleteNamespace(c) => Hub!DeleteNamespace(c)
  BY DEF DeleteNamespace, Hub!DeleteNamespace
<1>3. ASSUME DeleteClusterManager(c) PROVE Hub!DeleteClusterManager(c)
  <2>1. plainCm' = [plainCm EXCEPT ![c] = NoClusterManager]
    BY <1>1, <1>3, UnreportedEdits DEF DeleteClusterManager
  <2> QED
    BY <1>0, <1>3, <2>1
    DEF DeleteClusterManager, Hub!DeleteClusterManager, NoClusterManager, Hub!NoClusterManager
<1>4. ASSUME EditClusterManager(c) PROVE Hub!EditClusterManager(c)
  <2>0. PICK m : /\ cm' = [cm EXCEPT ![c] = m]
                 /\ m = [cm[c] EXCEPT !.drifted = TRUE] \/ m = [cm[c] EXCEPT !.annotation = None]
    BY <1>4 DEF EditClusterManager
  <2>1. \/ plainCm' = [plainCm EXCEPT ![c] = [plainCm[c] EXCEPT !.drifted = TRUE]]
        \/ plainCm' = [plainCm EXCEPT ![c] = [plainCm[c] EXCEPT !.annotation = None]]
    <3>1. plainCm' = [plainCm EXCEPT ![c] = Unreported(m)]
      BY <1>1, <2>0
    <3>2. \/ Unreported(m) = [plainCm[c] EXCEPT !.drifted = TRUE]
          \/ Unreported(m) = [plainCm[c] EXCEPT !.annotation = None]
      BY <1>0, <2>0, UnreportedEdits
    <3> QED BY <3>1, <3>2, Zenon
  <2> QED BY <1>0, <1>4, <2>1 DEF EditClusterManager, Hub!EditClusterManager
<1> QED BY <1>2, <1>3, <1>4

\* What the operator reports is hidden; what fails on its side is a failure
\* elsewhere.
LEMMA ReportsImplement ==
  ASSUME ProvisioningTypeOK, NEW c \in ClusterManagers
  PROVE  /\ OperatorDeploys(c) => UNCHANGED Hub!vars
         /\ OperatorFails(c) => Hub!OtherCallLost /\ UNCHANGED Hub!hubVars
<1> USE PlainUnchanged
<1>0. cm \in [ClusterManagers -> ClusterManagerObjects]
  BY DEF ProvisioningTypeOK, CpTypeOK
<1>1. ASSUME NEW m, cm' = [cm EXCEPT ![c] = m], Unreported(m) = Unreported(cm[c]) PROVE UNCHANGED plainCm
  BY <1>0, <1>1 DEF plainCm
<1>2. ASSUME NEW w \in ClusterManagerObjects
      PROVE  /\ Unreported([w EXCEPT !.applied = "True", !.degraded = FALSE]) = Unreported(w)
             /\ Unreported([w EXCEPT !.applied = "False"]) = Unreported(w)
             /\ Unreported([w EXCEPT !.degraded = TRUE]) = Unreported(w)
  BY DEF Unreported, ClusterManagerObjects
<1>3. ASSUME OperatorDeploys(c) \/ OperatorFails(c) PROVE UNCHANGED plainCm
  <2>1. PICK m : /\ cm' = [cm EXCEPT ![c] = m]
                 /\ \/ m = [cm[c] EXCEPT !.applied = "True", !.degraded = FALSE]
                    \/ m = [cm[c] EXCEPT !.applied = "False"]
                    \/ m = [cm[c] EXCEPT !.degraded = TRUE]
    <3>1. CASE OperatorDeploys(c)
      BY <3>1 DEF OperatorDeploys
    <3>2. CASE OperatorFails(c)
      BY <3>2 DEF OperatorFails, OperatorReports
    <3> QED BY <1>3, <3>1, <3>2
  <2>2. Unreported(m) = Unreported(cm[c])
    BY <1>0, <1>2, <2>1
  <2> QED BY <1>1, <2>1, <2>2
<1>4. OperatorDeploys(c) => UNCHANGED Hub!vars
  BY <1>3 DEF OperatorDeploys, Hub!vars, Hub!cpVars, Hub!hubVars, hubVars, boundVars
<1>5. OperatorFails(c) => Hub!OtherCallLost /\ UNCHANGED Hub!hubVars
  BY <1>3
  DEF OperatorFails, Hub!OtherCallLost, Hub!mgmtVars, Disrupt, Hub!Disrupt, Hub!hubVars, hubVars
<1> QED BY <1>4, <1>5

\* A pass of the clusterManagerController writes to the workspace once.
LEMMA ReportPassImplements ==
  ASSUME ProvisioningTypeOK, VouchInv, CmSide(CmSync \/ WebhooksLost \/ CmCallLost)
  PROVE  Hub!HubEnvironment \/ UNCHANGED Hub!vars
<1> USE PlainUnchanged DEF CmSide
<1>0. UNCHANGED Hub!hubVars
  BY DEF hubVars, Hub!hubVars
<1>1. UNCHANGED cpVars => UNCHANGED Hub!vars
  BY <1>0 DEF cpVars, Hub!cpVars, Hub!vars
<1>2. Disrupt /\ UNCHANGED <<ws, mgmtVars, tampered, restarts>> => Hub!OtherCallLost
  BY DEF Disrupt, Hub!Disrupt, Hub!OtherCallLost, mgmtVars, Hub!mgmtVars
<1>3. ASSUME cmPc = "update", ws[cmHub] = cmRead, ws' = [ws EXCEPT ![cmHub].cond = cmCond],
             Disrupt \/ UNCHANGED disruptions, UNCHANGED <<mgmtVars, tampered, restarts>>
      PROVE  Hub!HubEnvironment
  <2>1. cmHub \in Hubs /\ cmCond \in Conditions /\ cmCond.status = "True" /\ ws[cmHub].phase # "Absent"
    BY <1>3 DEF ProvisioningTypeOK, CmTypeOK, VouchInv
  <2>2. Hub!ConditionSet(cmHub)
    BY <1>3, <2>1, ConditionWritten
  <2> QED BY <1>0, <2>1, <2>2 DEF Hub!HubEnvironment
<1>4. CASE ReadEndpoints \/ WebhooksRefused \/ GetWorkspace
  BY <1>1, <1>4 DEF ReadEndpoints, WebhooksRefused, GetWorkspace
<1>5. CASE WebhooksApplied
  <2>1. UNCHANGED cpVars
    BY <1>5 DEF WebhooksApplied, ApplyWebhooks, cpVars, mgmtVars
  <2> QED BY <1>1, <2>1
<1>6. CASE WebhooksLost
  BY <1>0, <1>2, <1>6 DEF WebhooksLost, ApplyWebhooks, Hub!HubEnvironment
<1>7. CASE UpdateStatus
  BY <1>1, <1>3, <1>7 DEF UpdateStatus, cpVars, mgmtVars, boundVars
<1>8. CASE CmCallLost
  BY <1>0, <1>2, <1>3, <1>8 DEF CmCallLost, Hub!HubEnvironment
<1> QED BY <1>4, <1>5, <1>6, <1>7, <1>8 DEF CmSync
-------------------------------------------------------------------------------
\* ReportInv, which the mapping rests on, is kept.
LEMMA ReportInvPreserved ==
  ASSUME ProvisioningTypeOK, ReportInv, VouchInv, [ProvisioningNext]_allVars
  PROVE  ReportInv'
<1>1. ASSUME NEW h \in Hubs PROVE Plain(ws'[h])
  <2>1. cmPc = "update" /\ h = cmHub /\ ws[h] = cmRead
          => ws[h].phase # "Absent" /\ cmCond.status = "True"
    BY DEF VouchInv
  <2> QED BY <2>1, WorkspaceSteps DEF WorkspaceStep, ReportInv, Plain
<1>2. ASSUME NEW h \in Hubs PROVE Plain(hubLister'[h])
  <2>1. HubKnowledgeStep(Org(h), h)
    BY HubKnowledgeSteps
  <2>2. hubLister'[h] \in {hubLister[h], ws[h], NoWorkspace}
    BY <2>1 DEF HubKnowledgeStep
  <2> QED BY <2>2 DEF ReportInv, Plain, NoWorkspace
<1> QED BY <1>1, <1>2 DEF ReportInv

\* No copy of a workspace carries a condition that outlived it, or one that is
\* False, whatever the operator reported.
THEOREM ReportInvariant == ProvisioningSpec => []ReportInv
<1>1. ProvisioningInit => ReportInv
  BY DEF ProvisioningInit, Init, CpInit, HubInit, CmInit, NoWorkspace, Plain, ReportInv
<1> QED
  BY <1>1, ProvisioningTypeCorrect, VouchInvariant, ReportInvPreserved, PTL DEF ProvisioningSpec

\* Every step of HubWorkspace is one of its instance.
LEMMA HubStepImplements ==
  ASSUME ProvisioningTypeOK, ReportInv, [Next]_vars
  PROVE  [Hub!Next]_Hub!vars
<1> USE PlainUnchanged
<1>1. ASSUME NEW h \in Hubs, HubInformer(h) \/ HubResync(h) \/ HubSyncIgnores(h) \/ BeginHubSync(h)
      PROVE  Hub!Next
  <2>1. Hub!HubInformer(h) \/ Hub!HubResync(h) \/ Hub!HubSyncIgnores(h) \/ Hub!BeginHubSync(h)
    BY <1>1, InformerImplements, PassBeginImplements
  <2> QED BY <2>1 DEF Hub!Next
<1>2. ASSUME NEW o \in Orgs, HubSync(o) \/ (\E f \in HubFiles : ApplyLost(o, f)) \/ AnswerLost(o)
      PROVE  Hub!Next
  <2>1. Hub!HubSync(o) \/ (\E f \in HubFiles : Hub!ApplyLost(o, f)) \/ Hub!AnswerLost(o)
    BY <1>2, PassImplements, LossImplements
  <2> QED BY <2>1 DEF Hub!Next
<1>3. CASE HubEnvironment
  <2>0. UNCHANGED Hub!hubVars
    BY <1>3 DEF HubEnvironment, hubVars, Hub!hubVars
  <2>1. ASSUME NEW h \in Hubs, CreateWorkspace(h) \/ WorkspaceReady(h) \/ DeleteWorkspace(h)
        PROVE  Hub!HubEnvironment
    BY <2>0, <2>1, WorkspaceStepsImplement DEF Hub!HubEnvironment, Hub!CpEnvironment
  <2>2. ASSUME NEW h \in Hubs, ConditionSet(h) PROVE Hub!HubEnvironment
    <3>1. [status |-> "True", reason |-> "Applied"] \in Conditions
      BY DEF Conditions
    <3>2. Hub!ConditionSet(h)
      BY <2>2, <3>1, ConditionWritten DEF ConditionSet
    <3> QED BY <2>0, <3>2 DEF Hub!HubEnvironment
  <2>3. ASSUME NEW c \in ClusterManagers,
               DeleteNamespace(c) \/ DeleteClusterManager(c) \/ EditClusterManager(c)
        PROVE  Hub!HubEnvironment
    BY <2>0, <2>3, ManagementStepsImplement DEF Hub!HubEnvironment, Hub!CpEnvironment
  <2>4. OtherCallLost => Hub!HubEnvironment
    BY <2>0 DEF OtherCallLost, Hub!OtherCallLost, Disrupt, Hub!Disrupt, mgmtVars, Hub!mgmtVars,
                Hub!HubEnvironment
  <2>5. Hub!HubEnvironment
    BY <1>3, <2>1, <2>2, <2>3, <2>4 DEF HubEnvironment, CpEnvironment
  <2> QED BY <2>5 DEF Hub!Next
<1>4. CASE Restart
  BY <1>4, RestartImplements DEF Hub!Next
<1>5. CASE UNCHANGED vars
  BY <1>5 DEF vars, cpVars, hubVars, Hub!vars, Hub!cpVars, Hub!hubVars
<1> QED BY <1>1, <1>2, <1>3, <1>4, <1>5 DEF Next

LEMMA InitImplements == ProvisioningInit => Hub!Init
<1> SUFFICES ASSUME ProvisioningInit PROVE Hub!Init
  OBVIOUS
<1> USE DEF ProvisioningInit, Init, CpInit, HubInit
<1>1. plainWs = [h \in Hubs |-> NoWorkspace] /\ plainLister = [h \in Hubs |-> NoWorkspace]
  BY PlainFields DEF plainWs, plainLister
<1>2. plainSeen = [o \in Orgs |-> NoCondition]
  BY PlainFields DEF plainSeen
<1>3. plainCm = [c \in ClusterManagers |-> NoClusterManager]
  BY UnreportedEdits DEF plainCm
<1> QED
  BY <1>1, <1>2, <1>3
  DEF Hub!Init, Hub!CpInit, Hub!HubInit, Base, Hub!Base, NoWorkspace, Hub!NoWorkspace, NoCondition,
      Hub!NoCondition, NoClusterManager, Hub!NoClusterManager

\* The hubWorkspaceControllers are written for a condition that appears from
\* elsewhere.  The clusterManagerController, the operator, what fails on their
\* side and the exit of the common process never go beyond what HubWorkspace
\* allows its environment.
THEOREM ProvisioningImplementsHub == ProvisioningSpec => ImplementsHubWorkspace
<1>1. ProvisioningTypeOK /\ ReportInv /\ VouchInv /\ [ProvisioningNext]_allVars => [Hub!Next]_Hub!vars
  <2> SUFFICES ASSUME ProvisioningTypeOK, ReportInv, VouchInv, [ProvisioningNext]_allVars
               PROVE  [Hub!Next]_Hub!vars
    OBVIOUS
  <2>1. ASSUME NEW c \in ClusterManagers, OperatorDeploys(c) \/ OperatorFails(c)
        PROVE  Hub!HubEnvironment \/ UNCHANGED Hub!vars
    BY <2>1, ReportsImplement DEF Hub!HubEnvironment
  <2> QED BY <2>1, HubSteps, HubStepImplements, ReportPassImplements DEF Hub!Next
<1> QED
  BY <1>1, InitImplements, ProvisioningTypeCorrect, ReportInvariant, VouchInvariant, PTL
  DEF ProvisioningSpec, ImplementsHubWorkspace, Hub!Spec
-------------------------------------------------------------------------------
(* What HubWorkspace promises, promised by the whole path. *)

LEMMA SameObjects ==
  ASSUME ProvisioningTypeOK
  PROVE  /\ \A h \in Hubs : (Hub!Alone(h) <=> Alone(h)) /\ (Hub!Provisioned(h) <=> Provisioned(h))
         /\ \A h \in Hubs, f \in HubFiles : Hub!InPlace(h, f) <=> InPlace(h, f)
<1>1. ASSUME NEW c \in ClusterManagers PROVE plainCm[c].exists <=> cm[c].exists
  BY PlainFields DEF plainCm, ProvisioningTypeOK, CpTypeOK
<1>2. ASSUME NEW h \in Hubs, NEW f \in HubFiles PROVE Hub!InPlace(h, f) <=> InPlace(h, f)
  BY <1>1 DEF InPlace, Hub!InPlace
<1>3. ASSUME NEW h \in Hubs PROVE Hub!Alone(h) <=> Alone(h)
  BY DEF Alone, Hub!Alone
<1> QED BY <1>2, <1>3 DEF Provisioned, Hub!Provisioned

\* Behind every pass without an error all objects are in place, with the
\* condition set by the clusterManagerController and the process exiting when
\* caches do not sync.
THEOREM PathLeavesNoGaps == ProvisioningSpec => []CleanPassLeavesNoGaps
<1>1. Hub!Spec => []Hub!CleanPassLeavesNoGaps
  BY Hub!CleanPasses, ConstantsAssumption
<1>2. ProvisioningTypeOK /\ Hub!CleanPassLeavesNoGaps => CleanPassLeavesNoGaps
  <2> SUFFICES ASSUME ProvisioningTypeOK, Hub!CleanPassLeavesNoGaps, NEW o \in Orgs, NEW h \in Hubs,
                      hubPc[o] # "idle", hubKey[o] = h, ~hubFailed[o],
                      Alone(h), ClusterManagerName(h) \notin tampered, NEW f \in FilesBefore[hubPc[o]]
               PROVE  InPlace(h, f)
    BY DEF CleanPassLeavesNoGaps
  <2>1. f \in HubFiles
    BY DEF ProvisioningTypeOK, HubTypeOK, FilesBefore
  <2>2. Hub!InPlace(h, f)
    BY SameObjects DEF Hub!CleanPassLeavesNoGaps, FilesBefore, Hub!FilesBefore
  <2> QED BY <2>1, <2>2, SameObjects
<1> QED
  BY <1>1, <1>2, ProvisioningImplementsHub, ProvisioningTypeCorrect, PTL DEF ImplementsHubWorkspace

\* A hub whose controllers run has everything they were to find.
THEOREM PathStartsBehindObjects == ProvisioningSpec => []StartImpliesProvisioned
<1>1. Hub!Spec => []Hub!StartImpliesProvisioned
  BY Hub!StartsBehindObjects, ConstantsAssumption
<1>2. ProvisioningTypeOK /\ Hub!StartImpliesProvisioned => StartImpliesProvisioned
  BY SameObjects DEF ProvisioningTypeOK, HubTypeOK, StartImpliesProvisioned, Hub!StartImpliesProvisioned
<1> QED
  BY <1>1, <1>2, ProvisioningImplementsHub, ProvisioningTypeCorrect, PTL DEF ImplementsHubWorkspace

\* In one life of the process no pass asks for a port of another hub.
THEOREM PathCountersLead == ProvisioningSpec => []CountersLeadPorts
<1>1. Hub!Spec => []Hub!CountersLeadPorts
  BY Hub!CountersLead, ConstantsAssumption
<1>2. ProvisioningTypeOK /\ Hub!CountersLeadPorts => CountersLeadPorts
  BY SameObjects DEF CountersLeadPorts, Hub!CountersLeadPorts
<1> QED
  BY <1>1, <1>2, ProvisioningImplementsHub, ProvisioningTypeCorrect, PTL DEF ImplementsHubWorkspace

\* No step of either controller, the operator or kcp moves a service, whatever
\* ports later passes draw: what ReadEndpoints hands on stays good.
THEOREM PathPortsStay == ProvisioningSpec => PortsNeverMove
<1>1. Hub!Spec => Hub!PortsNeverMove
  BY Hub!PortsStay, ConstantsAssumption
<1>2. [\A c \in Hub!ClusterManagers, k \in Hub!Kinds :
         svc[c][k] # 0 /\ svc'[c][k] # 0 => svc'[c][k] = svc[c][k]]_Hub!vars
        => [\A c \in ClusterManagers, k \in Kinds :
              svc[c][k] # 0 /\ svc'[c][k] # 0 => svc'[c][k] = svc[c][k]]_vars
  <2>1. UNCHANGED Hub!vars => UNCHANGED svc
    BY DEF Hub!vars, Hub!cpVars
  <2> QED BY <2>1
<1> QED
  BY <1>1, <1>2, ProvisioningImplementsHub, PTL
  DEF ImplementsHubWorkspace, PortsNeverMove, Hub!PortsNeverMove

\* Exhausted node ports stay exhausted, whoever deletes, resyncs, reports or
\* retries: only the exit of the process, which ends all controllers, helps.
THEOREM PathExhaustionLasts == ProvisioningSpec => ExhaustedUntilRestart
<1>1. Hub!Spec => Hub!ExhaustedUntilRestart
  BY Hub!ExhaustionLasts, ConstantsAssumption
<1>2. [\A h \in Hubs :
         Hub!Alone(h) /\ Hub!PortsExhausted(h) => Hub!PortsExhausted(h)' \/ restarts' # restarts]_Hub!vars
        => [\A h \in Hubs :
              Alone(h) /\ PortsExhausted(h) => PortsExhausted(h)' \/ restarts' # restarts]_vars
  <2>1. UNCHANGED Hub!vars => UNCHANGED <<svc, port>>
    BY DEF Hub!vars, Hub!cpVars, Hub!hubVars
  <2> QED BY <2>1 DEF Alone, Hub!Alone, PortsExhausted, Hub!PortsExhausted
<1> QED
  BY <1>1, <1>2, ProvisioningImplementsHub, PTL
  DEF ImplementsHubWorkspace, ExhaustedUntilRestart, Hub!ExhaustedUntilRestart
===============================================================================
