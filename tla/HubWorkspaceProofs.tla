--------------------------- MODULE HubWorkspaceProofs ---------------------------
(***************************************************************************)
(* Proofs about the hubWorkspaceControllers, for any hubs, names, port     *)
(* ranges and bounds.                                                      *)
(***************************************************************************)
EXTENDS HubWorkspace, TLAPS

USE DEF Orgs, Kinds, HubFiles, AfterFile

\* A pass of an organization's worker is about a ClusterManager of the model,
\* and the counters stay in range.
LEMMA TargetType ==
  ASSUME HubTypeOK, NEW o \in Orgs, hubPc[o] # "idle"
  PROVE  hubKey[o] \in Hubs /\ Org(hubKey[o]) = o /\ Target(o) \in ClusterManagers
BY DEF HubTypeOK, Target, ClusterManagers

LEMMA NextPortType ==
  ASSUME NEW p \in 1..(MaxPort + 1)
  PROVE  NextPort(p) \in 1..(MaxPort + 1)
BY ConstantsAssumption, SMT DEF NextPort

LEMMA CpInitType == CpInit => CpTypeOK
<1>1. NoWorkspace \in Workspaces
  BY ConstantsAssumption DEF NoWorkspace, Workspaces, NoCondition, Conditions, Phases
<1>2. NoClusterManager \in ClusterManagerObjects
  BY DEF NoClusterManager, ClusterManagerObjects
<1> QED
  BY <1>1, <1>2, ConstantsAssumption DEF CpInit, CpTypeOK

LEMMA HubInitType == HubInit => HubTypeOK
<1>1. NoWorkspace \in Workspaces /\ NoCondition \in Conditions
  BY ConstantsAssumption DEF NoWorkspace, Workspaces, NoCondition, Conditions, Phases
<1>2. Base \in [Kinds -> 1..(MaxPort + 1)]
  BY ConstantsAssumption DEF Base
<1> QED
  BY <1>1, <1>2 DEF HubInit, HubTypeOK
-------------------------------------------------------------------------------
(* Type correctness. *)

\* The record updates, which the provers only see through one at a time.
LEMMA WorkspaceReadyType ==
  ASSUME NEW w \in Workspaces
  PROVE  [w EXCEPT !.phase = "Ready"] \in Workspaces
BY DEF Workspaces, Phases

LEMMA WorkspaceDeletedType ==
  ASSUME NEW w \in Workspaces
  PROVE  [w EXCEPT !.phase = "Absent", !.cond = NoCondition] \in Workspaces
BY DEF Workspaces, Phases, NoCondition, Conditions

LEMMA ClusterManagerEditType ==
  ASSUME NEW m \in ClusterManagerObjects, NEW b \in BOOLEAN
  PROVE  /\ [m EXCEPT !.drifted = b] \in ClusterManagerObjects
         /\ [m EXCEPT !.annotation = None] \in ClusterManagerObjects
BY Zenon DEF ClusterManagerObjects

LEMMA CpEnvironmentType ==
  ASSUME CpTypeOK,
         \/ CpEnvironment \/ OtherCallLost
         \/ \E h \in Hubs : DeleteWorkspace(h) \/ ConditionSet(h)
         \/ \E c \in ClusterManagers : DeleteNamespace(c)
  PROVE  CpTypeOK'
<1> USE ConstantsAssumption DEF CpTypeOK, boundVars, mgmtVars
<1>1. ASSUME NEW h \in Hubs, CreateWorkspace(h) PROVE CpTypeOK'
  BY <1>1 DEF CreateWorkspace, Workspaces, Phases, NoCondition, Conditions
<1>2. ASSUME NEW h \in Hubs, WorkspaceReady(h) PROVE CpTypeOK'
  <2>1. ws' \in [Hubs -> Workspaces]
    <3>1. ws[h] \in Workspaces
      OBVIOUS
    <3>2. ws' = [ws EXCEPT ![h].phase = "Ready"]
      BY <1>2 DEF WorkspaceReady
    <3> QED BY <3>1, <3>2, WorkspaceReadyType, Zenon
  <2>2. UNCHANGED <<mgmtVars, boundVars>>
    BY <1>2 DEF WorkspaceReady
  <2> QED BY <2>1, <2>2
<1>3. ASSUME NEW h \in Hubs, DeleteWorkspace(h) PROVE CpTypeOK'
  <2>1. ws' \in [Hubs -> Workspaces]
    <3>1. ws[h] \in Workspaces
      OBVIOUS
    <3>2. ws' = [ws EXCEPT ![h] = [@ EXCEPT !.phase = "Absent", !.cond = NoCondition]]
      BY <1>3 DEF DeleteWorkspace
    <3> QED BY <3>1, <3>2, WorkspaceDeletedType, Zenon
  <2>2. Disrupt /\ UNCHANGED <<mgmtVars, tampered, restarts>>
    BY <1>3 DEF DeleteWorkspace
  <2> QED BY <2>1, <2>2 DEF Disrupt
<1>4. ASSUME NEW h \in Hubs, ConditionSet(h) PROVE CpTypeOK'
  <2>1. ws' \in [Hubs -> Workspaces]
    BY <1>4 DEF ConditionSet, Workspaces, Conditions
  <2> QED BY <1>4, <2>1 DEF ConditionSet, Disrupt
<1>5. ASSUME NEW c \in ClusterManagers, DeleteNamespace(c) PROVE CpTypeOK'
  BY <1>5 DEF DeleteNamespace, Tamper, Disrupt
<1>6. ASSUME NEW c \in ClusterManagers, DeleteClusterManager(c) PROVE CpTypeOK'
  BY <1>6 DEF DeleteClusterManager, Tamper, Disrupt, ClusterManagerObjects, NoClusterManager
<1>7. ASSUME NEW c \in ClusterManagers, EditClusterManager(c) PROVE CpTypeOK'
  <2>1. cm[c] \in ClusterManagerObjects
    OBVIOUS
  <2>2. cm' \in [ClusterManagers -> ClusterManagerObjects]
    <3>1. CASE cm' = [cm EXCEPT ![c].drifted = TRUE]
      BY <2>1, <3>1, ClusterManagerEditType, Zenon
    <3>2. CASE cm' = [cm EXCEPT ![c].annotation = None]
      BY <2>1, <3>2, ClusterManagerEditType, Zenon
    <3> QED BY <1>7, <3>1, <3>2 DEF EditClusterManager
  <2> QED BY <1>7, <2>2 DEF EditClusterManager, Tamper, Disrupt
<1>8. CASE OtherCallLost
  BY <1>8 DEF OtherCallLost, Disrupt
<1> QED
  BY <1>1, <1>2, <1>3, <1>4, <1>5, <1>6, <1>7, <1>8 DEF CpEnvironment

LEMMA HubSyncType ==
  ASSUME CpTypeOK, HubTypeOK, NEW o \in Orgs, HubSync(o)
  PROVE  CpTypeOK' /\ HubTypeOK'
<1> USE ConstantsAssumption DEF CpTypeOK, HubTypeOK, boundVars, mgmtVars, cpVars
<1>1. ASSUME NEW f \in HubFiles, Applied(o, f) PROVE HubTypeOK'
  BY <1>1 DEF Applied
<1>2. ASSUME NEW f \in HubFiles, ApplyFails(o, f) PROVE HubTypeOK'
  BY <1>2 DEF ApplyFails
<1>3. CASE ApplyNamespace(o)
  <2>1. Target(o) \in ClusterManagers
    BY <1>3, TargetType DEF ApplyNamespace, Applied
  <2> QED BY <1>1, <1>3, <2>1 DEF ApplyNamespace, Applied
<1>4. CASE ApplySecret(o)
  BY <1>1, <1>4, TargetType DEF ApplySecret, Applied
<1>5. CASE ApplyClusterManager(o)
  <2>1. hubKey[o] \in Hubs /\ Target(o) \in ClusterManagers
    BY <1>5, TargetType DEF ApplyClusterManager, Applied
  <2>2. [NoClusterManager EXCEPT !.exists = TRUE, !.annotation = hubKey[o]] \in ClusterManagerObjects
    BY <2>1 DEF NoClusterManager, ClusterManagerObjects
  <2>3. cm[Target(o)] \in ClusterManagerObjects
    BY <2>1
  <2>4. [cm[Target(o)] EXCEPT !.drifted = FALSE] \in ClusterManagerObjects
    BY <2>3, ClusterManagerEditType, Zenon
  <2> QED BY <1>1, <1>5, <2>1, <2>2, <2>4 DEF ApplyClusterManager, Applied
<1>6. ASSUME NEW k \in Kinds, ApplyService(o, k) PROVE CpTypeOK' /\ HubTypeOK'
  <2>1. Target(o) \in ClusterManagers
    BY <1>6, TargetType DEF ApplyService, Applied
  <2>2. svc' \in [ClusterManagers -> [Kinds -> 0..MaxPort]]
    BY <1>6, <2>1 DEF ApplyService, PortFree
  <2> QED BY <1>1, <1>6, <2>2 DEF ApplyService, Applied
<1>7. ASSUME NEW f \in HubFiles, ApplyRefused(o, f) PROVE CpTypeOK' /\ HubTypeOK'
  BY <1>2, <1>7 DEF ApplyRefused, ApplyFails
<1>8. CASE FinishHubSync(o)
  <2>1. hubKey[o] \in Hubs
    BY <1>8, TargetType DEF FinishHubSync, startHubControllers
  <2>2. NoCondition \in Conditions
    BY DEF NoCondition, Conditions
  <2> QED BY <1>8, <2>1, <2>2 DEF FinishHubSync, startHubControllers
<1> QED
  BY <1>3, <1>4, <1>5, <1>6, <1>7, <1>8 DEF HubSync

LEMMA TypePreserved == TypeOK /\ [Next]_vars => TypeOK'
<1> SUFFICES ASSUME CpTypeOK, HubTypeOK, [Next]_vars PROVE CpTypeOK' /\ HubTypeOK'
  BY DEF TypeOK
<1>0. UNCHANGED cpVars => CpTypeOK'
  BY DEF cpVars, CpTypeOK
<1>1. ASSUME NEW h \in Hubs, HubInformer(h) PROVE HubTypeOK'
  BY <1>1 DEF HubInformer, CpTypeOK, HubTypeOK, cpVars
<1>2. ASSUME NEW h \in Hubs, HubResync(h) PROVE HubTypeOK'
  BY <1>2 DEF HubResync, HubTypeOK
<1>3. ASSUME NEW h \in Hubs, HubSyncIgnores(h) PROVE HubTypeOK'
  BY <1>3 DEF HubSyncIgnores, HubTypeOK
<1>4. ASSUME NEW h \in Hubs, BeginHubSync(h) PROVE HubTypeOK'
  <2>1. hubLister[h].cond \in Conditions
    BY <1>4 DEF HubTypeOK, Workspaces
  <2>2. [k \in Kinds |-> NextPort(port[Org(h)][k])] \in [Kinds -> 1..(MaxPort + 1)]
    BY NextPortType DEF HubTypeOK
  <2> QED BY <1>4, <2>1, <2>2 DEF BeginHubSync, HubTypeOK
<1>5. ASSUME NEW o \in Orgs, HubSync(o) PROVE CpTypeOK' /\ HubTypeOK'
  BY <1>5, HubSyncType
<1>6. ASSUME NEW o \in Orgs, NEW f \in HubFiles, ApplyLost(o, f) PROVE CpTypeOK' /\ HubTypeOK'
  BY <1>6, ConstantsAssumption
  DEF ApplyLost, ApplyFails, Disrupt, mgmtVars, CpTypeOK, HubTypeOK
<1>7. CASE HubEnvironment
  <2>1. CpTypeOK'
    BY <1>7, CpEnvironmentType DEF HubEnvironment
  <2> QED BY <1>7, <2>1 DEF HubEnvironment, hubVars, HubTypeOK
<1>8. CASE Restart
  <2>1. CpTypeOK'
    BY <1>8, ConstantsAssumption DEF Restart, Dies, mgmtVars, CpTypeOK
  <2>2. HubInit'
    BY <1>8 DEF Restart, HubRestart, HubInit
  <2>3. HubInit' => HubTypeOK'
    <3>1. NoWorkspace \in Workspaces /\ NoCondition \in Conditions
      BY ConstantsAssumption DEF NoWorkspace, Workspaces, NoCondition, Conditions, Phases
    <3>2. Base \in [Kinds -> 1..(MaxPort + 1)]
      BY ConstantsAssumption DEF Base
    <3> QED BY <3>1, <3>2 DEF HubInit, HubTypeOK
  <2> QED BY <2>1, <2>2, <2>3
<1>9. CASE UNCHANGED vars
  BY <1>9 DEF vars, cpVars, hubVars, CpTypeOK, HubTypeOK
<1>10. \A h \in Hubs : HubInformer(h) \/ HubResync(h) \/ HubSyncIgnores(h) \/ BeginHubSync(h)
                        => UNCHANGED cpVars
  BY DEF HubInformer, HubResync, HubSyncIgnores, BeginHubSync
<1>11. ASSUME NEW o \in Orgs, AnswerLost(o) PROVE CpTypeOK' /\ HubTypeOK'
  BY <1>11, ConstantsAssumption DEF AnswerLost, Disrupt, mgmtVars, CpTypeOK, HubTypeOK
<1> QED
  BY <1>0, <1>1, <1>2, <1>3, <1>4, <1>5, <1>6, <1>7, <1>8, <1>9, <1>10, <1>11 DEF Next

\* Every reachable state of the hubWorkspaceControllers has the declared types:
\* in particular a worker in the middle of a pass holds a hub of its own
\* organization and neither counter leaves its range.
THEOREM TypeCorrect == Spec => []TypeOK
<1>1. Init => TypeOK
  BY CpInitType, HubInitType DEF Init, TypeOK
<1> QED BY <1>1, TypePreserved, PTL DEF Spec
-------------------------------------------------------------------------------
(* Controllers start only behind a complete set of objects.                *)
(*                                                                         *)
(* StartImpliesProvisioned is not inductive: what is true of a pass when   *)
(* it ends is built up one call at a time.  CleanPassLeavesNoGaps says how *)
(* far a pass has come, and no step but an administrator's undoes it.      *)

\* What is in place for a hub that shares its names with no other stays in
\* place until an administrator touches its objects.
LEMMA InPlaceKept ==
  ASSUME TypeOK, [Next]_vars,
         NEW h \in Hubs, NEW f \in HubFiles,
         Alone(h), ClusterManagerName(h) \notin tampered', InPlace(h, f)
  PROVE  InPlace(h, f)'
<1> DEFINE c == ClusterManagerName(h)
<1>0. c \in ClusterManagers /\ CpTypeOK /\ HubTypeOK
  BY DEF ClusterManagers, TypeOK
<1>1. CASE UNCHANGED mgmtVars
  BY <1>1 DEF InPlace, mgmtVars
<1>2. ASSUME NEW d \in ClusterManagers,
             DeleteNamespace(d) \/ DeleteClusterManager(d) \/ EditClusterManager(d)
      PROVE  InPlace(h, f)'
  <2>1. d # c
    BY <1>2 DEF DeleteNamespace, DeleteClusterManager, EditClusterManager, Tamper
  <2> QED
    BY <1>0, <1>2, <2>1
    DEF InPlace, DeleteNamespace, DeleteClusterManager, EditClusterManager, CpTypeOK
<1>3. ASSUME NEW o \in Orgs, HubSync(o) PROVE InPlace(h, f)'
  <2>1. CASE ApplyNamespace(o)
    BY <1>0, <2>1 DEF InPlace, ApplyNamespace
  <2>2. CASE ApplySecret(o)
    <3>1. hubKey[o] \in Hubs
      BY <1>0, <2>2, TargetType DEF ApplySecret, Applied
    <3>2. Target(o) = c => hubKey[o] = h
      BY <3>1 DEF Alone, Target
    <3> QED BY <1>0, <2>2, <3>2 DEF InPlace, ApplySecret, CpTypeOK
  <2>3. ASSUME NEW k \in Kinds, ApplyService(o, k) PROVE InPlace(h, f)'
    <3>1. Target(o) \in ClusterManagers
      BY <1>0, <2>3, TargetType DEF ApplyService, Applied
    <3>2. port[o][k] # 0
      BY <1>0, ConstantsAssumption DEF HubTypeOK
    <3>3. \A j \in Kinds : svc[c][j] # 0 => svc'[c][j] # 0
      BY <1>0, <2>3, <3>1, <3>2 DEF ApplyService, CpTypeOK
    <3> QED BY <1>0, <2>3, <3>3 DEF InPlace, ApplyService
  <2>4. CASE ApplyClusterManager(o)
    <3>1. cm[c].exists => cm'[c].exists
      BY <1>0, <2>4 DEF ApplyClusterManager, CpTypeOK, ClusterManagerObjects, NoClusterManager
    <3> QED BY <1>0, <2>4, <3>1 DEF InPlace, ApplyClusterManager
  <2>5. ASSUME NEW g \in HubFiles, ApplyRefused(o, g) PROVE UNCHANGED mgmtVars
    BY <2>5 DEF ApplyRefused, ApplyFails, mgmtVars
  <2>6. CASE FinishHubSync(o)
    BY <1>1, <2>6 DEF FinishHubSync, cpVars, mgmtVars
  <2> QED BY <1>1, <1>3, <2>1, <2>2, <2>3, <2>4, <2>5, <2>6 DEF HubSync
<1>4. ASSUME NEW g \in Hubs,
             \/ HubInformer(g) \/ HubResync(g) \/ HubSyncIgnores(g) \/ BeginHubSync(g)
             \/ CreateWorkspace(g) \/ WorkspaceReady(g) \/ DeleteWorkspace(g) \/ ConditionSet(g)
      PROVE  UNCHANGED mgmtVars
  BY <1>4 DEF HubInformer, HubResync, HubSyncIgnores, BeginHubSync, CreateWorkspace,
              WorkspaceReady, DeleteWorkspace, ConditionSet, mgmtVars, cpVars
<1>5. ASSUME NEW o \in Orgs, (\E g \in HubFiles : ApplyLost(o, g)) \/ AnswerLost(o)
      PROVE  UNCHANGED mgmtVars
  BY <1>5 DEF ApplyLost, ApplyFails, AnswerLost, mgmtVars
<1>6. CASE HubEnvironment
  BY <1>1, <1>2, <1>4, <1>6 DEF HubEnvironment, CpEnvironment, OtherCallLost
<1>7. CASE Restart \/ UNCHANGED vars
  BY <1>1, <1>7 DEF Restart, vars, cpVars, mgmtVars
<1> QED
  BY <1>1, <1>3, <1>4, <1>5, <1>6, <1>7 DEF Next

LEMMA TamperedGrows == [Next]_vars => tampered \subseteq tampered'
<1> USE DEF cpVars, boundVars, mgmtVars
<1>1. ASSUME NEW h \in Hubs,
             \/ HubInformer(h) \/ HubResync(h) \/ HubSyncIgnores(h) \/ BeginHubSync(h)
             \/ CreateWorkspace(h) \/ WorkspaceReady(h) \/ DeleteWorkspace(h) \/ ConditionSet(h)
      PROVE  tampered' = tampered
  BY <1>1 DEF HubInformer, HubResync, HubSyncIgnores, BeginHubSync, CreateWorkspace,
              WorkspaceReady, DeleteWorkspace, ConditionSet
<1>2. ASSUME NEW c \in ClusterManagers,
             DeleteNamespace(c) \/ DeleteClusterManager(c) \/ EditClusterManager(c)
      PROVE  tampered \subseteq tampered'
  BY <1>2 DEF DeleteNamespace, DeleteClusterManager, EditClusterManager, Tamper
<1>3. ASSUME NEW o \in Orgs, HubSync(o) PROVE tampered' = tampered
  BY <1>3 DEF HubSync, ApplyNamespace, ApplySecret, ApplyService, ApplyClusterManager, Applied,
              ApplyRefused, FinishHubSync
<1>4. ASSUME NEW o \in Orgs, (\E f \in HubFiles : ApplyLost(o, f)) \/ AnswerLost(o)
      PROVE  tampered' = tampered
  BY <1>4 DEF ApplyLost, AnswerLost
<1>5. CASE HubEnvironment
  BY <1>1, <1>2, <1>5 DEF HubEnvironment, CpEnvironment, OtherCallLost
<1>6. CASE Restart \/ UNCHANGED vars
  BY <1>6 DEF Restart, vars
<1> QED
  BY <1>1, <1>3, <1>4, <1>5, <1>6 DEF Next

\* A call that fails leaves a pass that promises nothing.
LEMMA CleanPassPreserved ==
  TypeOK /\ CleanPassLeavesNoGaps /\ [Next]_vars => CleanPassLeavesNoGaps'
<1> SUFFICES ASSUME TypeOK, CleanPassLeavesNoGaps, [Next]_vars, NEW o \in Orgs, NEW h \in Hubs,
                    hubPc'[o] # "idle", hubKey'[o] = h, ~hubFailed'[o],
                    Alone(h), ClusterManagerName(h) \notin tampered',
                    NEW f \in FilesBefore[hubPc'[o]]
             PROVE  InPlace(h, f)'
  BY DEF CleanPassLeavesNoGaps
<1> DEFINE c == ClusterManagerName(h)
<1>0. /\ CpTypeOK /\ HubTypeOK /\ CpTypeOK' /\ HubTypeOK'
      /\ c \notin tampered /\ c \in ClusterManagers
  BY TypePreserved, TamperedGrows DEF TypeOK, ClusterManagers
<1>1. f \in HubFiles
  BY <1>0 DEF HubTypeOK, FilesBefore
<1>2. ASSUME UNCHANGED <<hubPc, hubKey, hubFailed>> PROVE InPlace(h, f)'
  BY <1>0, <1>1, <1>2, InPlaceKept DEF CleanPassLeavesNoGaps
<1>3. ASSUME NEW g \in Hubs, BeginHubSync(g) PROVE InPlace(h, f)'
  <2>1. CASE Org(g) = o
    BY <1>0, <1>3, <2>1 DEF BeginHubSync, HubTypeOK, FilesBefore
  <2>2. CASE Org(g) # o
    BY <1>0, <1>1, <1>3, <2>2, InPlaceKept DEF BeginHubSync, HubTypeOK, CleanPassLeavesNoGaps
  <2> QED BY <2>1, <2>2
<1>4. ASSUME NEW p \in Orgs, p # o,
             HubSync(p) \/ (\E g \in HubFiles : ApplyLost(p, g)) \/ AnswerLost(p)
      PROVE  InPlace(h, f)'
  <2>1. hubPc'[o] = hubPc[o] /\ hubKey'[o] = hubKey[o] /\ hubFailed'[o] = hubFailed[o]
    BY <1>0, <1>4
    DEF HubTypeOK, HubSync, ApplyNamespace, ApplySecret, ApplyService, ApplyClusterManager,
        Applied, ApplyRefused, ApplyLost, ApplyFails, AnswerLost, FinishHubSync
  <2> QED BY <1>0, <1>1, <2>1, InPlaceKept DEF CleanPassLeavesNoGaps
<1>5. ASSUME NEW g \in HubFiles, ApplyFails(o, g) PROVE FALSE
  BY <1>0, <1>5 DEF ApplyFails, HubTypeOK
<1>6. ASSUME NEW g \in HubFiles, Applied(o, g), InPlace(h, g)' PROVE InPlace(h, f)'
  <2>1. FilesBefore[hubPc'[o]] = FilesBefore[g] \cup {g}
    BY <1>0, <1>6 DEF Applied, FilesBefore, HubTypeOK
  <2>2. ASSUME f \in FilesBefore[g] PROVE InPlace(h, f)
    BY <1>0, <1>6, <2>2 DEF Applied, HubTypeOK, CleanPassLeavesNoGaps
  <2> QED BY <1>0, <1>1, <1>6, <2>1, <2>2, InPlaceKept
<1>7. CASE HubSync(o)
  <2>1. hubPc[o] # "idle" => Target(o) = c \/ hubPc'[o] = "idle"
    BY <1>0, <1>7
    DEF HubTypeOK, HubSync, ApplyNamespace, ApplySecret, ApplyService, ApplyClusterManager,
        Applied, ApplyRefused, ApplyFails, FinishHubSync, Target
  <2>2. CASE ApplyNamespace(o)
    BY <1>6, <2>1, <2>2 DEF ApplyNamespace, Applied, InPlace
  <2>3. CASE ApplySecret(o)
    BY <1>0, <1>6, <2>1, <2>3 DEF ApplySecret, Applied, InPlace, CpTypeOK
  <2>4. ASSUME NEW k \in Kinds, ApplyService(o, k) PROVE InPlace(h, f)'
    <3>1. port[o][k] # 0
      BY <1>0, ConstantsAssumption DEF HubTypeOK
    <3>2. svc'[c][k] # 0
      BY <1>0, <2>1, <2>4, <3>1 DEF ApplyService, Applied, CpTypeOK
    <3>3. Applied(o, k)
      BY <2>4 DEF ApplyService
    <3> QED BY <1>6, <3>2, <3>3 DEF InPlace
  <2>5. CASE ApplyClusterManager(o)
    <3>1. cm'[c].exists
      BY <1>0, <2>1, <2>5
      DEF ApplyClusterManager, Applied, CpTypeOK, ClusterManagerObjects, NoClusterManager
    <3> QED BY <1>6, <2>5, <3>1 DEF ApplyClusterManager, InPlace
  <2>6. ASSUME NEW g \in HubFiles, ApplyRefused(o, g) PROVE FALSE
    BY <1>5, <2>6 DEF ApplyRefused
  <2>7. CASE FinishHubSync(o)
    BY <1>0, <2>7 DEF FinishHubSync, startHubControllers, HubTypeOK
  <2> QED BY <1>7, <2>2, <2>3, <2>4, <2>5, <2>6, <2>7 DEF HubSync
<1>8. ASSUME (\E g \in HubFiles : ApplyLost(o, g)) \/ AnswerLost(o) PROVE FALSE
  BY <1>0, <1>5, <1>8 DEF ApplyLost, AnswerLost, HubTypeOK
<1>9. CASE Restart
  BY <1>9 DEF Restart, HubRestart
<1>10. CASE HubEnvironment \/ UNCHANGED vars
  BY <1>2, <1>10 DEF HubEnvironment, hubVars, vars
<1>11. ASSUME NEW g \in Hubs, HubInformer(g) \/ HubResync(g) \/ HubSyncIgnores(g)
       PROVE  InPlace(h, f)'
  BY <1>2, <1>11 DEF HubInformer, HubResync, HubSyncIgnores
<1> QED
  BY <1>3, <1>4, <1>7, <1>8, <1>9, <1>10, <1>11 DEF Next

\* A hub whose controllers were started keeps its objects, and gets into the
\* map only at the end of a pass without gaps.
LEMMA StartImpliesProvisionedPreserved ==
  TypeOK /\ CleanPassLeavesNoGaps /\ StartImpliesProvisioned /\ [Next]_vars
    => StartImpliesProvisioned'
<1> SUFFICES ASSUME TypeOK, CleanPassLeavesNoGaps, StartImpliesProvisioned, [Next]_vars,
                    NEW h \in started', Alone(h), ClusterManagerName(h) \notin tampered',
                    NEW f \in HubFiles
             PROVE  InPlace(h, f)'
  BY DEF StartImpliesProvisioned, Provisioned
<1>0. HubTypeOK /\ h \in Hubs /\ ClusterManagerName(h) \notin tampered
  BY TypePreserved, TamperedGrows DEF TypeOK, HubTypeOK
<1>1. CASE h \in started
  BY <1>0, <1>1, InPlaceKept DEF StartImpliesProvisioned, Provisioned
<1>2. CASE h \notin started
  <2>1. PICK o \in Orgs : FinishHubSync(o)
    BY <1>2
    DEF Next, HubInformer, HubResync, HubSyncIgnores, BeginHubSync, HubSync, ApplyNamespace,
        ApplySecret, ApplyService, ApplyClusterManager, Applied, ApplyRefused, ApplyLost,
        ApplyFails, AnswerLost, HubEnvironment, Restart, HubRestart, hubVars, vars
  <2>2. hubPc[o] = "start" /\ hubKey[o] = h /\ ~hubFailed[o]
    BY <1>2, <2>1 DEF FinishHubSync, startHubControllers
  <2>3. InPlace(h, f)
    BY <1>0, <2>2 DEF CleanPassLeavesNoGaps, FilesBefore
  <2> QED BY <1>0, <2>3, InPlaceKept
<1> QED BY <1>1, <1>2

\* A pass that has met no error left nothing out, however the passes of the
\* organizations, the informers, the users and the crashes interleave.
THEOREM CleanPasses == Spec => []CleanPassLeavesNoGaps
<1>1. Init => CleanPassLeavesNoGaps
  BY DEF Init, HubInit, CleanPassLeavesNoGaps
<1> QED BY <1>1, TypeCorrect, CleanPassPreserved, PTL DEF Spec

\* prepareClusterManager returns its errors and sync returns before
\* startHubControllers when it does: a hub with controllers has everything in
\* place.
THEOREM StartsBehindObjects == Spec => []StartImpliesProvisioned
<1>1. Init => StartImpliesProvisioned
  BY DEF Init, HubInit, StartImpliesProvisioned
<1> QED
  BY <1>1, TypeCorrect, CleanPasses, StartImpliesProvisionedPreserved, PTL DEF Spec
-------------------------------------------------------------------------------
(* Node ports. *)

\* What a step does to the services: nothing, or one service is created with
\* the port its organization's counter stands at, or a namespace takes its
\* services along.
ServiceCreated(o, k) ==
  LET c == Target(o) IN
  /\ hubPc[o] = k /\ svc[c][k] = 0 /\ PortFree(port[o][k])
  /\ svc' = [svc EXCEPT ![c][k] = port[o][k]]
  /\ UNCHANGED <<hubKey, port>>

LEMMA ServiceSteps ==
  ASSUME TypeOK, [Next]_vars
  PROVE  \/ UNCHANGED svc
         \/ \E o \in Orgs, k \in Kinds : ServiceCreated(o, k)
         \/ \E c \in ClusterManagers : /\ svc' = [svc EXCEPT ![c] = [k \in Kinds |-> 0]]
                                        /\ c \in tampered' /\ UNCHANGED hubVars
<1> USE DEF cpVars, mgmtVars
<1>1. ASSUME NEW o \in Orgs, HubSync(o), svc' # svc
      PROVE  \E k \in Kinds : ServiceCreated(o, k)
  BY <1>1 DEF HubSync, ApplyNamespace, ApplySecret, ApplyService, ApplyClusterManager, Applied,
              ApplyRefused, ApplyFails, FinishHubSync, ServiceCreated
<1>2. ASSUME NEW o \in Orgs, (\E f \in HubFiles : ApplyLost(o, f)) \/ AnswerLost(o)
      PROVE  UNCHANGED svc
  BY <1>2 DEF ApplyLost, ApplyFails, AnswerLost
<1>3. ASSUME NEW h \in Hubs,
             \/ HubInformer(h) \/ HubResync(h) \/ HubSyncIgnores(h) \/ BeginHubSync(h)
             \/ CreateWorkspace(h) \/ WorkspaceReady(h) \/ DeleteWorkspace(h) \/ ConditionSet(h)
      PROVE  UNCHANGED svc
  BY <1>3 DEF HubInformer, HubResync, HubSyncIgnores, BeginHubSync, CreateWorkspace,
              WorkspaceReady, DeleteWorkspace, ConditionSet
<1>4. ASSUME NEW c \in ClusterManagers, DeleteClusterManager(c) \/ EditClusterManager(c)
      PROVE  UNCHANGED svc
  BY <1>4 DEF DeleteClusterManager, EditClusterManager
<1>5. ASSUME NEW c \in ClusterManagers, DeleteNamespace(c)
      PROVE  svc' = [svc EXCEPT ![c] = [k \in Kinds |-> 0]] /\ c \in tampered'
  BY <1>5 DEF DeleteNamespace, Tamper
<1>6. CASE HubEnvironment
  BY <1>3, <1>4, <1>5, <1>6 DEF HubEnvironment, CpEnvironment, OtherCallLost
<1>7. CASE Restart \/ UNCHANGED vars
  BY <1>7 DEF Restart, vars
<1> QED
  BY <1>1, <1>2, <1>3, <1>6, <1>7 DEF Next

\* ApplyService never compares ports, so no pass moves a service that exists:
\* the addresses already handed to the webhooks stay good.
THEOREM PortsStay == Spec => PortsNeverMove
<1>1. TypeOK /\ [Next]_vars
        => [\A c \in ClusterManagers, k \in Kinds :
              svc[c][k] # 0 /\ svc'[c][k] # 0 => svc'[c][k] = svc[c][k]]_vars
  <2> SUFFICES ASSUME TypeOK, [Next]_vars, NEW c \in ClusterManagers, NEW k \in Kinds,
                      svc[c][k] # 0, svc'[c][k] # 0
               PROVE  svc'[c][k] = svc[c][k]
    OBVIOUS
  <2>1. svc \in [ClusterManagers -> [Kinds -> 0..MaxPort]]
    BY DEF TypeOK, CpTypeOK
  <2>2. ASSUME NEW o \in Orgs, NEW j \in Kinds, ServiceCreated(o, j)
        PROVE  svc'[c][k] = svc[c][k]
    BY <2>1, <2>2 DEF ServiceCreated
  <2>3. ASSUME NEW d \in ClusterManagers, svc' = [svc EXCEPT ![d] = [j \in Kinds |-> 0]]
        PROVE  svc'[c][k] = svc[c][k]
    BY <2>1, <2>3
  <2> QED BY <2>2, <2>3, ServiceSteps
<1> QED BY <1>1, TypeCorrect, PTL DEF Spec, PortsNeverMove

\* How the counters of an organization move: a pass that begins advances both.
LEMMA CounterSteps ==
  ASSUME TypeOK, [Next]_vars, restarts' = restarts, NEW o \in Orgs
  PROVE  \/ port'[o] = port[o] /\ (hubPc'[o] # "idle" => hubPc[o] # "idle" /\ hubKey'[o] = hubKey[o])
         \/ \E h \in Hubs :
              /\ Org(h) = o /\ hubPc[o] = "idle" /\ hubKey'[o] = h
              /\ port'[o] = [k \in Kinds |-> NextPort(port[o][k])]
              /\ UNCHANGED svc
<1>0. HubTypeOK /\ restarts \in Nat
  BY ConstantsAssumption DEF TypeOK, CpTypeOK
<1>1. ASSUME NEW h \in Hubs, BeginHubSync(h)
      PROVE  \/ port'[o] = port[o] /\ hubPc'[o] = hubPc[o] /\ hubKey'[o] = hubKey[o]
             \/ /\ Org(h) = o /\ hubPc[o] = "idle" /\ hubKey'[o] = h
                /\ port'[o] = [k \in Kinds |-> NextPort(port[o][k])]
                /\ UNCHANGED svc
  BY <1>0, <1>1 DEF BeginHubSync, HubTypeOK, cpVars
<1>2. ASSUME NEW p \in Orgs,
             HubSync(p) \/ (\E f \in HubFiles : ApplyLost(p, f)) \/ AnswerLost(p)
      PROVE  port'[o] = port[o] /\ (hubPc'[o] # "idle" => hubPc[o] # "idle" /\ hubKey'[o] = hubKey[o])
  BY <1>0, <1>2
  DEF HubTypeOK, HubSync, ApplyNamespace, ApplySecret, ApplyService, ApplyClusterManager,
      Applied, ApplyRefused, ApplyLost, ApplyFails, AnswerLost, FinishHubSync
<1>3. ~Restart
  BY <1>0 DEF Restart, Dies
<1>4. HubEnvironment \/ UNCHANGED vars => UNCHANGED <<port, hubPc, hubKey>>
  BY DEF HubEnvironment, hubVars, vars
<1>5. \A h \in Hubs : HubInformer(h) \/ HubResync(h) \/ HubSyncIgnores(h)
                       => UNCHANGED <<port, hubPc, hubKey>>
  BY DEF HubInformer, HubResync, HubSyncIgnores
<1> QED
  BY <1>1, <1>2, <1>3, <1>4, <1>5 DEF Next

LEMMA RestartsGrow == TypeOK /\ [Next]_vars /\ restarts' = 0 => restarts = 0
<1> SUFFICES ASSUME TypeOK, [Next]_vars, restarts' = 0 PROVE restarts = 0
  OBVIOUS
<1> USE DEF cpVars, boundVars
<1>1. ASSUME NEW h \in Hubs,
             \/ HubInformer(h) \/ HubResync(h) \/ HubSyncIgnores(h) \/ BeginHubSync(h)
             \/ CreateWorkspace(h) \/ WorkspaceReady(h) \/ DeleteWorkspace(h) \/ ConditionSet(h)
      PROVE  restarts' = restarts
  BY <1>1 DEF HubInformer, HubResync, HubSyncIgnores, BeginHubSync, CreateWorkspace,
              WorkspaceReady, DeleteWorkspace, ConditionSet
<1>2. ASSUME NEW c \in ClusterManagers,
             DeleteNamespace(c) \/ DeleteClusterManager(c) \/ EditClusterManager(c)
      PROVE  restarts' = restarts
  BY <1>2 DEF DeleteNamespace, DeleteClusterManager, EditClusterManager, Tamper
<1>3. ASSUME NEW o \in Orgs,
             HubSync(o) \/ (\E f \in HubFiles : ApplyLost(o, f)) \/ AnswerLost(o)
      PROVE  restarts' = restarts
  BY <1>3 DEF HubSync, ApplyNamespace, ApplySecret, ApplyService, ApplyClusterManager, Applied,
              ApplyRefused, ApplyLost, AnswerLost, FinishHubSync
<1>4. ~Restart
  BY ConstantsAssumption DEF Restart, Dies, TypeOK, CpTypeOK
<1>5. CASE HubEnvironment
  BY <1>1, <1>2, <1>5 DEF HubEnvironment, CpEnvironment, OtherCallLost
<1>6. CASE UNCHANGED vars
  BY <1>6 DEF vars
<1> QED
  BY <1>1, <1>3, <1>4, <1>5, <1>6 DEF Next

LEMMA CountersLeadPreserved ==
  TypeOK /\ CountersLeadPorts /\ [Next]_vars => CountersLeadPorts'
<1> SUFFICES ASSUME TypeOK, CountersLeadPorts, [Next]_vars, restarts' = 0,
                    NEW h \in Hubs, NEW k \in Kinds, Alone(h)
             PROVE  LET o == Org(h)
                        c == ClusterManagerName(h) IN
                    /\ svc'[c][k] <= port'[o][k]
                    /\ hubPc'[o] # "idle" /\ hubKey'[o] # h => svc'[c][k] < port'[o][k]
  BY DEF CountersLeadPorts
<1> DEFINE o == Org(h)
<1> DEFINE c == ClusterManagerName(h)
<1>0. /\ CpTypeOK /\ HubTypeOK /\ o \in Orgs /\ c \in ClusterManagers /\ MaxPort \in Nat
      /\ svc[c][k] \in 0..MaxPort /\ port[o][k] \in 1..(MaxPort + 1)
      /\ restarts' = restarts
  BY ConstantsAssumption, RestartsGrow DEF TypeOK, CpTypeOK, HubTypeOK, ClusterManagers
<1>1. /\ svc[c][k] <= port[o][k]
      /\ hubPc[o] # "idle" /\ hubKey[o] # h => svc[c][k] < port[o][k]
  BY RestartsGrow DEF CountersLeadPorts
<1>2. CASE port'[o] = port[o]
  \* Only a pass over h itself can have created the service, with its counter.
  <2>1. \/ svc'[c][k] = svc[c][k] \/ svc'[c][k] = 0
        \/ svc'[c][k] = port[o][k] /\ hubKey'[o] = h
    <3>1. ASSUME NEW p \in Orgs, NEW j \in Kinds, ServiceCreated(p, j)
          PROVE  \/ svc'[c][k] = svc[c][k]
                 \/ svc'[c][k] = port[o][k] /\ hubKey'[o] = h
      <4>1. hubKey[p] \in Hubs /\ Org(hubKey[p]) = p /\ Target(p) \in ClusterManagers
        BY <1>0, <3>1, TargetType DEF ServiceCreated
      <4>2. Target(p) = c => hubKey[p] = h
        BY <4>1 DEF Alone, Target
      <4>3. CASE Target(p) = c /\ j = k
        BY <1>0, <3>1, <4>1, <4>2, <4>3 DEF ServiceCreated, CpTypeOK
      <4>4. CASE Target(p) # c \/ j # k
        BY <1>0, <3>1, <4>1, <4>4 DEF ServiceCreated, CpTypeOK
      <4> QED BY <4>3, <4>4
    <3>2. ASSUME NEW d \in ClusterManagers, svc' = [svc EXCEPT ![d] = [j \in Kinds |-> 0]]
          PROVE  svc'[c][k] = svc[c][k] \/ svc'[c][k] = 0
      BY <1>0, <3>2 DEF CpTypeOK
    <3> QED BY <3>1, <3>2, ServiceSteps
  <2>2. \/ hubPc'[o] # "idle" => hubPc[o] # "idle" /\ hubKey'[o] = hubKey[o]
        \/ UNCHANGED svc /\ port'[o] = [j \in Kinds |-> NextPort(port[o][j])]
    BY <1>0, CounterSteps
  <2>3. CASE port'[o] = [j \in Kinds |-> NextPort(port[o][j])] /\ UNCHANGED svc
    BY <1>0, <1>1, <1>2, <2>3 DEF NextPort
  <2> QED BY <1>0, <1>1, <1>2, <2>1, <2>2, <2>3
<1>3. CASE port'[o] # port[o]
  <2>1. UNCHANGED svc /\ port'[o] = [j \in Kinds |-> NextPort(port[o][j])]
    BY <1>0, <1>3, CounterSteps
  <2> QED BY <1>0, <1>1, <2>1 DEF NextPort
<1> QED BY <1>2, <1>3

\* Both counters advance on every pass over a Ready workspace and come back
\* only with a new process: in one process's life no pass asks for a port that
\* another hub of the organization already got for its service of that kind.
THEOREM CountersLead == Spec => []CountersLeadPorts
<1>1. Init => CountersLeadPorts
  <2>1. ASSUME Init, NEW h \in Hubs, NEW k \in Kinds
        PROVE  svc[ClusterManagerName(h)][k] = 0 /\ port[Org(h)][k] \in Nat /\ hubPc[Org(h)] = "idle"
    BY <2>1, ConstantsAssumption DEF Init, CpInit, HubInit, Base, ClusterManagers
  <2> QED BY <2>1 DEF CountersLeadPorts
<1> QED BY <1>1, TypeCorrect, CountersLeadPreserved, PTL DEF Spec

\* PortFree refuses a counter that is past the end, and only a pass over h
\* itself could create its service: a hub that has come too late stays too late
\* for as long as the process lives.
THEOREM ExhaustionLasts == Spec => ExhaustedUntilRestart
<1>1. TypeOK /\ [Next]_vars
        => [\A h \in Hubs :
              Alone(h) /\ PortsExhausted(h) => PortsExhausted(h)' \/ restarts' # restarts]_vars
  <2> SUFFICES ASSUME TypeOK, [Next]_vars, NEW h \in Hubs, Alone(h), NEW k \in Kinds,
                      svc[ClusterManagerName(h)][k] = 0, port[Org(h)][k] > MaxPort,
                      restarts' = restarts
               PROVE  svc'[ClusterManagerName(h)][k] = 0 /\ port'[Org(h)][k] > MaxPort
    BY DEF PortsExhausted
  <2> DEFINE o == Org(h)
  <2> DEFINE c == ClusterManagerName(h)
  <2>0. CpTypeOK /\ HubTypeOK /\ o \in Orgs /\ c \in ClusterManagers /\ MaxPort \in Nat
    BY ConstantsAssumption DEF TypeOK, ClusterManagers
  <2>1. port'[o][k] > MaxPort
    BY <2>0, CounterSteps DEF NextPort
  <2>2. ASSUME NEW p \in Orgs, NEW j \in Kinds, ServiceCreated(p, j) PROVE svc'[c][k] = 0
    <3>1. hubKey[p] \in Hubs /\ Org(hubKey[p]) = p /\ Target(p) \in ClusterManagers
      BY <2>0, <2>2, TargetType DEF ServiceCreated
    <3>2. port[p][j] <= MaxPort
      BY <2>2 DEF ServiceCreated, PortFree
    <3>3. Target(p) # c \/ j # k
      BY <2>0, <3>1, <3>2 DEF Alone, Target, HubTypeOK
    <3> QED BY <2>0, <2>2, <3>1, <3>3 DEF ServiceCreated, CpTypeOK
  <2>3. ASSUME NEW d \in ClusterManagers, svc' = [svc EXCEPT ![d] = [j \in Kinds |-> 0]]
        PROVE  svc'[c][k] = 0
    BY <2>0, <2>3 DEF CpTypeOK
  <2> QED BY <2>1, <2>2, <2>3, ServiceSteps
<1> QED BY <1>1, TypeCorrect, PTL DEF Spec, ExhaustedUntilRestart
===============================================================================
