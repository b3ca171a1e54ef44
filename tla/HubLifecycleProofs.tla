--------------------------- MODULE HubLifecycleProofs ---------------------------
(***************************************************************************)
(* Proof that the whole provisioning path implements HubLifecycle: every   *)
(* step of the program, the operator and kcp is one step of a hub's life,  *)
(* or none at all.                                                         *)
(***************************************************************************)
EXTENDS HubProvisioningProofs

\* What a user sees changes with five of the variables only.
LEMMA LifeUnchanged ==
  /\ UNCHANGED ws => UNCHANGED <<born, alive, vouched>>
  /\ UNCHANGED cm => UNCHANGED claims
  /\ UNCHANGED webhooks => UNCHANGED hooked
  /\ UNCHANGED <<ws, cm, webhooks, tampered, started>> => UNCHANGED Lifecycle!lifeVars
<1>1. UNCHANGED ws => UNCHANGED <<born, alive, vouched>>
  BY DEF born, alive, vouched
<1>2. UNCHANGED cm => UNCHANGED claims
  BY DEF claims
<1>3. UNCHANGED webhooks => UNCHANGED hooked
  BY DEF hooked, WebhooksInstalled
<1> QED BY <1>1, <1>2, <1>3 DEF Lifecycle!lifeVars

\* Whoever the annotation names, or could have named before someone interfered.
LEMMA ClaimedEntitled == \A h \in Hubs : Claimed(h) => Lifecycle!Entitled(h)
BY DEF Claimed, Lifecycle!Entitled, claims, NameOf
-------------------------------------------------------------------------------
(* The steps of the hubWorkspaceControllers. *)

LEMMA ClaimImplements ==
  ASSUME ProvisioningTypeOK, VouchInv, NEW o \in Orgs, HubSide(ApplyClusterManager(o))
  PROVE  (\E h \in Hubs : Lifecycle!Claim(h)) \/ UNCHANGED Lifecycle!lifeVars
<1> DEFINE c == Target(o)
           h == hubKey[o]
<1>0. /\ h \in Hubs /\ c \in ClusterManagers /\ c = ClusterManagerName(h)
      /\ cm \in [ClusterManagers -> ClusterManagerObjects]
      /\ \A g \in Hubs : ClusterManagerName(g) \in ClusterManagers
  BY TargetType
  DEF ProvisioningTypeOK, CpTypeOK, HubTypeOK, HubSide, ApplyClusterManager, Applied, Target,
      ClusterManagers
<1>1. UNCHANGED <<ws, webhooks, tampered, started>>
  BY DEF HubSide, ApplyClusterManager, Applied, boundVars, hookVars
<1>2. CASE cm[c].exists
  <2>1. cm' = [cm EXCEPT ![c] = [cm[c] EXCEPT !.drifted = FALSE]]
    BY <1>0, <1>2 DEF HubSide, ApplyClusterManager
  <2>2. [cm[c] EXCEPT !.drifted = FALSE].annotation = cm[c].annotation
    BY <1>0 DEF ClusterManagerObjects
  <2>3. \A g \in Hubs : cm'[ClusterManagerName(g)].annotation = cm[ClusterManagerName(g)].annotation
    BY <1>0, <2>1, <2>2
  <2>4. UNCHANGED claims
    BY <2>3 DEF claims
  <2> QED BY <1>1, <2>4, LifeUnchanged DEF Lifecycle!lifeVars
<1>3. CASE ~cm[c].exists
  <2>1. cm' = [cm EXCEPT ![c] = [NoClusterManager EXCEPT !.exists = TRUE, !.annotation = h]]
    BY <1>0, <1>3 DEF HubSide, ApplyClusterManager
  <2>2. [NoClusterManager EXCEPT !.exists = TRUE, !.annotation = h].annotation = h
    BY DEF NoClusterManager
  <2>3. cm[c].annotation = None
    BY <1>0, <1>3 DEF VouchInv
  <2>4. \A g \in claims : NameOf[g] # NameOf[h]
    BY <1>0, <2>3, ConstantsAssumption DEF claims, NameOf
  <2>5. claims' = claims \cup {h}
    <3>1. ASSUME NEW g \in Hubs, ClusterManagerName(g) = c
          PROVE  g \in claims' <=> g \in claims \cup {h}
      BY <1>0, <2>1, <2>2, <2>4, <3>1 DEF claims, NameOf
    <3>2. ASSUME NEW g \in Hubs, ClusterManagerName(g) # c
          PROVE  g \in claims' <=> g \in claims \cup {h}
      BY <1>0, <2>1, <3>2 DEF claims
    <3>3. claims \subseteq Hubs /\ claims' \subseteq Hubs
      BY DEF claims
    <3> QED BY <1>0, <3>1, <3>2, <3>3
  <2> QED BY <1>0, <1>1, <2>4, <2>5, LifeUnchanged DEF Lifecycle!Claim
<1> QED BY <1>2, <1>3

\* The condition read at the start of the pass counts: what it vouches for then
\* is still there at its end.
LEMMA RunImplements ==
  ASSUME ProvisioningTypeOK, VouchInv, NEW o \in Orgs, HubSide(FinishHubSync(o))
  PROVE  (\E h \in Hubs : Lifecycle!Run(h)) \/ UNCHANGED Lifecycle!lifeVars
<1>1. UNCHANGED <<ws, cm, webhooks, tampered>>
  BY DEF HubSide, FinishHubSync, cpVars, hookVars
<1>2. CASE UNCHANGED started
  BY <1>1, <1>2, LifeUnchanged
<1>3. CASE ~UNCHANGED started
  <2> DEFINE h == hubKey[o]
  <2>1. hubSeen[o].status = "True" /\ started' = started \cup {h}
    BY <1>3 DEF HubSide, FinishHubSync, IsWorkspaceStatusConditionTrue, startHubControllers
  <2>2. h \in Hubs /\ Backed(h) /\ Claimed(h) /\ Told(h)
    BY <2>1 DEF VouchInv, Vouched
  <2>3. born[h] # 0 /\ (Lifecycle!First(h) => h \in vouched)
    BY <2>2 DEF Told, born, alive, vouched, Lifecycle!First
  <2> QED BY <1>1, <2>1, <2>2, <2>3, ClaimedEntitled, LifeUnchanged DEF Lifecycle!Run
<1> QED BY <1>2, <1>3

LEMMA HubSideImplements ==
  ASSUME ProvisioningTypeOK, VouchInv
  PROVE  /\ \A h \in Hubs :
              HubSide(HubInformer(h) \/ HubResync(h) \/ HubSyncIgnores(h) \/ BeginHubSync(h))
                => UNCHANGED Lifecycle!lifeVars
         /\ \A o \in Orgs :
              HubSide(HubSync(o) \/ (\E f \in HubFiles : ApplyLost(o, f)) \/ AnswerLost(o))
                => \/ \E h \in Hubs : Lifecycle!Claim(h) \/ Lifecycle!Run(h)
                   \/ UNCHANGED Lifecycle!lifeVars
<1>1. ASSUME NEW h \in Hubs,
             HubSide(HubInformer(h) \/ HubResync(h) \/ HubSyncIgnores(h) \/ BeginHubSync(h))
      PROVE  UNCHANGED <<ws, cm, webhooks, tampered, started>>
  BY <1>1 DEF HubSide, HubInformer, HubResync, HubSyncIgnores, BeginHubSync, cpVars, hookVars
<1>2. ASSUME NEW o \in Orgs, UNCHANGED hookVars,
             \/ ApplyNamespace(o) \/ ApplySecret(o) \/ (\E k \in Kinds : ApplyService(o, k))
             \/ (\E f \in HubFiles : ApplyRefused(o, f)) \/ (\E f \in HubFiles : ApplyLost(o, f))
             \/ AnswerLost(o)
      PROVE  UNCHANGED <<ws, cm, webhooks, tampered, started>>
  BY <1>2 DEF ApplyNamespace, ApplySecret, ApplyService, Applied, ApplyRefused, ApplyLost, ApplyFails,
              AnswerLost, mgmtVars, boundVars, hookVars
<1>3. ASSUME NEW o \in Orgs,
             HubSide(HubSync(o) \/ (\E f \in HubFiles : ApplyLost(o, f)) \/ AnswerLost(o))
      PROVE  \/ \E h \in Hubs : Lifecycle!Claim(h) \/ Lifecycle!Run(h)
             \/ UNCHANGED Lifecycle!lifeVars
  <2>1. CASE HubSide(ApplyClusterManager(o))
    BY <2>1, ClaimImplements
  <2>2. CASE HubSide(FinishHubSync(o))
    BY <2>2, RunImplements
  <2>3. CASE ~HubSide(ApplyClusterManager(o)) /\ ~HubSide(FinishHubSync(o))
    BY <1>2, <1>3, <2>3, LifeUnchanged DEF HubSide, HubSync
  <2> QED BY <2>1, <2>2, <2>3
<1> QED BY <1>1, <1>3, LifeUnchanged
-------------------------------------------------------------------------------
(* The steps of the clusterManagerController. *)

LEMMA HookImplements ==
  ASSUME ProvisioningTypeOK, VouchInv, UNCHANGED started,
         NEW files \in SUBSET WebhookFiles, ApplyWebhooks(files)
  PROVE  (\E h \in Hubs : Lifecycle!Hook(h)) \/ UNCHANGED Lifecycle!lifeVars
<1>0. /\ cmHub \in Hubs /\ cmConfig \in Configs /\ Claimed(cmHub) /\ cmHub \in alive
      /\ webhooks \in [Hubs -> [WebhookFiles -> Webhooks \cup {None}]]
      /\ UNCHANGED <<ws, cm, tampered>>
  BY DEF ProvisioningTypeOK, CmTypeOK, VouchInv, ApplyWebhooks, alive, mgmtVars
<1>1. ASSUME NEW h \in Hubs, h # cmHub PROVE h \in hooked' <=> h \in hooked
  BY <1>0, <1>1 DEF ApplyWebhooks, hooked, WebhooksInstalled
<1>2. cmHub \in hooked => cmHub \in hooked'
  BY <1>0 DEF ApplyWebhooks, ApplyWebhook, hooked, WebhooksInstalled
<1>3. hooked \subseteq Hubs /\ hooked' \subseteq Hubs
  BY DEF hooked
<1>4. hooked' = hooked \/ hooked' = hooked \cup {cmHub}
  BY <1>0, <1>1, <1>2, <1>3
<1>5. CASE hooked' = hooked
  BY <1>0, <1>5, LifeUnchanged DEF Lifecycle!lifeVars
<1>6. CASE hooked' = hooked \cup {cmHub}
  BY <1>0, <1>6, LifeUnchanged, ClaimedEntitled DEF Lifecycle!Hook
<1> QED BY <1>4, <1>5, <1>6

LEMMA VouchImplements ==
  ASSUME ProvisioningTypeOK, VouchInv, UNCHANGED <<cm, webhooks, tampered, started>>,
         cmPc = "update", ws[cmHub] = cmRead, ws' = [ws EXCEPT ![cmHub].cond = cmCond]
  PROVE  \E h \in Hubs : Lifecycle!Vouch(h)
<1>0. /\ cmHub \in Hubs /\ cmCond \in Conditions /\ cmCond.status = "True"
      /\ Claimed(cmHub) /\ Backed(cmHub) /\ ws[cmHub].phase # "Absent"
      /\ ws \in [Hubs -> Workspaces] /\ ws[cmHub] \in Workspaces
  BY DEF ProvisioningTypeOK, CpTypeOK, CmTypeOK, VouchInv
<1>1. PICK w : w = [ws[cmHub] EXCEPT !.cond = cmCond]
  OBVIOUS
<1>2. w.inc = ws[cmHub].inc /\ w.phase = ws[cmHub].phase /\ w.cond = cmCond
  BY <1>0, <1>1 DEF Workspaces
<1>3. ws' = [ws EXCEPT ![cmHub] = w]
  BY <1>1
<1>4. UNCHANGED <<born, alive>> /\ vouched' = vouched \cup {cmHub}
  <2>1. ASSUME NEW h \in Hubs
        PROVE  /\ ws'[h].inc = ws[h].inc /\ ws'[h].phase = ws[h].phase
               /\ ws'[h].cond.status = "True" <=> h = cmHub \/ ws[h].cond.status = "True"
    BY <1>0, <1>2, <1>3
  <2> QED BY <1>0, <2>1 DEF born, alive, vouched
<1>5. cmHub \in alive /\ (Lifecycle!First(cmHub) => cmHub \in hooked)
  BY <1>0 DEF Backed, Lifecycle!First, born, alive, hooked
<1> QED BY <1>0, <1>4, <1>5, ClaimedEntitled, LifeUnchanged DEF Lifecycle!Vouch

LEMMA CmSideImplements ==
  ASSUME ProvisioningTypeOK, VouchInv
  PROVE  /\ \A c \in ClusterManagers :
              CmSide(CmInformer(c) \/ CmResync(c) \/ CmSyncIgnores(c) \/ BeginCmSync(c) \/ RotateBundle(c))
                => UNCHANGED Lifecycle!lifeVars
         /\ CmSide(CmSync \/ WebhooksLost \/ CmCallLost)
              => \/ \E h \in Hubs : Lifecycle!Hook(h) \/ Lifecycle!Vouch(h)
                 \/ UNCHANGED Lifecycle!lifeVars
<1>1. ASSUME NEW c \in ClusterManagers,
             CmSide(CmInformer(c) \/ CmResync(c) \/ CmSyncIgnores(c) \/ BeginCmSync(c) \/ RotateBundle(c))
      PROVE  UNCHANGED <<ws, cm, webhooks, tampered, started>>
  BY <1>1 DEF CmSide, CmInformer, CmResync, CmSyncIgnores, BeginCmSync, RotateBundle, cpVars, hookVars,
              hubVars
<1>2. ASSUME CmSide(CmSync \/ WebhooksLost \/ CmCallLost)
      PROVE  \/ \E h \in Hubs : Lifecycle!Hook(h) \/ Lifecycle!Vouch(h)
             \/ UNCHANGED Lifecycle!lifeVars
  <2>0. UNCHANGED started
    BY <1>2 DEF CmSide, hubVars
  <2>1. CASE ReadEndpoints \/ WebhooksRefused \/ GetWorkspace
    BY <2>0, <2>1, LifeUnchanged DEF ReadEndpoints, WebhooksRefused, GetWorkspace, cpVars, hookVars
  <2>2. CASE WebhooksApplied \/ WebhooksLost
    BY <2>0, <2>2, HookImplements DEF WebhooksApplied, WebhooksLost
  <2>3. CASE UpdateStatus \/ CmCallLost
    <3>1. /\ UNCHANGED <<cm, webhooks, tampered, started>>
          /\ \/ UNCHANGED ws
             \/ cmPc = "update" /\ ws[cmHub] = cmRead /\ ws' = [ws EXCEPT ![cmHub].cond = cmCond]
      BY <2>0, <2>3 DEF UpdateStatus, CmCallLost, mgmtVars, boundVars, hookVars
    <3> QED BY <3>1, VouchImplements, LifeUnchanged
  <2> QED BY <1>2, <2>1, <2>2, <2>3 DEF CmSide, CmSync
<1> QED BY <1>1, <1>2, LifeUnchanged
-------------------------------------------------------------------------------
(* The steps of everybody else. *)

LEMMA WorkspacesImplement ==
  ASSUME ProvisioningTypeOK, VouchInv, NEW h \in Hubs
  PROVE  /\ CreateWorkspace(h) /\ UNCHANGED <<webhooks, started>> => Lifecycle!Create(h)
         /\ WorkspaceReady(h) /\ UNCHANGED <<webhooks, started>> => UNCHANGED Lifecycle!lifeVars
         /\ WorkspaceGone(h) => Lifecycle!Delete(h)
<1>0. /\ ws \in [Hubs -> Workspaces] /\ ws[h] \in Workspaces
      /\ ws[h].phase = "Absent" => ws[h].cond.status # "True"
  BY DEF ProvisioningTypeOK, CpTypeOK, VouchInv
<1>1. ASSUME CreateWorkspace(h), UNCHANGED <<webhooks, started>> PROVE Lifecycle!Create(h)
  <2>0. /\ ws' = [ws EXCEPT ![h] = [inc |-> ws[h].inc + 1, phase |-> "Initializing", cond |-> NoCondition]]
        /\ UNCHANGED <<cm, tampered>> /\ ws[h].phase = "Absent"
    BY <1>1 DEF CreateWorkspace, mgmtVars, boundVars
  <2>1. /\ ws'[h].inc = ws[h].inc + 1 /\ ws'[h].phase # "Absent" /\ ws'[h].cond.status # "True"
        /\ \A g \in Hubs \ {h} : ws'[g] = ws[g]
    BY <1>0, <2>0 DEF NoCondition
  <2>2. h \notin alive /\ alive' = alive \cup {h} /\ UNCHANGED vouched
    BY <1>0, <2>0, <2>1 DEF alive, vouched
  <2>3. born' = [born EXCEPT ![h] = born[h] + 1]
    BY <2>1 DEF born
  <2> QED BY <1>1, <2>0, <2>2, <2>3, LifeUnchanged DEF Lifecycle!Create
<1>2. ASSUME WorkspaceReady(h), UNCHANGED <<webhooks, started>> PROVE UNCHANGED Lifecycle!lifeVars
  <2>0. /\ ws' = [ws EXCEPT ![h] = [ws[h] EXCEPT !.phase = "Ready"]]
        /\ UNCHANGED <<cm, tampered>> /\ ws[h].phase = "Initializing"
    BY <1>2 DEF WorkspaceReady, mgmtVars, boundVars
  <2>1. /\ [ws[h] EXCEPT !.phase = "Ready"].inc = ws[h].inc
        /\ [ws[h] EXCEPT !.phase = "Ready"].phase = "Ready"
        /\ [ws[h] EXCEPT !.phase = "Ready"].cond = ws[h].cond
    BY <1>0 DEF Workspaces
  <2>2. ASSUME NEW g \in Hubs
        PROVE  /\ ws'[g].inc = ws[g].inc /\ ws'[g].cond = ws[g].cond
               /\ ws'[g].phase = "Absent" <=> ws[g].phase = "Absent"
    BY <1>0, <2>0, <2>1
  <2>3. UNCHANGED <<born, alive, vouched>>
    BY <2>2 DEF born, alive, vouched
  <2> QED BY <1>2, <2>0, <2>3, LifeUnchanged DEF Lifecycle!lifeVars
<1>3. ASSUME WorkspaceGone(h) PROVE Lifecycle!Delete(h)
  <2>0. /\ ws' = [ws EXCEPT ![h] = [ws[h] EXCEPT !.phase = "Absent", !.cond = NoCondition]]
        /\ webhooks' = [webhooks EXCEPT ![h] = [f \in WebhookFiles |-> None]]
        /\ UNCHANGED <<cm, tampered, started>> /\ ws[h].phase # "Absent"
    BY <1>3 DEF WorkspaceGone, DeleteWorkspace, mgmtVars, hubVars
  <2> DEFINE w == [ws[h] EXCEPT !.phase = "Absent", !.cond = NoCondition]
  <2>1. w.inc = ws[h].inc /\ w.phase = "Absent" /\ w.cond = NoCondition /\ ws' = [ws EXCEPT ![h] = w]
    BY <1>0, <2>0 DEF Workspaces
  <2> HIDE DEF w
  <2>2. h \in alive /\ alive' = alive \ {h} /\ vouched' = vouched \ {h} /\ UNCHANGED born
    BY <1>0, <2>0, <2>1 DEF NoCondition, born, alive, vouched
  <2>3. hooked' = hooked \ {h}
    <3>0. webhooks \in [Hubs -> [WebhookFiles -> Webhooks \cup {None}]]
      BY DEF ProvisioningTypeOK, CmTypeOK
    <3>1. ~WebhooksInstalled(h)'
      BY <2>0, <3>0 DEF WebhooksInstalled, WebhookFiles
    <3>2. ASSUME NEW g \in Hubs, g # h PROVE WebhooksInstalled(g)' <=> WebhooksInstalled(g)
      BY <2>0, <3>0, <3>2 DEF WebhooksInstalled
    <3> QED BY <3>1, <3>2 DEF hooked
  <2> QED BY <2>0, <2>2, <2>3, LifeUnchanged DEF Lifecycle!Delete
<1> QED BY <1>1, <1>2, <1>3

LEMMA InterferenceImplements ==
  ASSUME ProvisioningTypeOK, NEW c \in ClusterManagers, UNCHANGED <<webhooks, started>>,
         DeleteNamespace(c) \/ DeleteClusterManager(c) \/ EditClusterManager(c)
  PROVE  \E h \in Hubs : Lifecycle!Spoil(NameOf[h])
<1>0. cm \in [ClusterManagers -> ClusterManagerObjects]
  BY DEF ProvisioningTypeOK, CpTypeOK
<1>1. PICK h \in Hubs : c = ClusterManagerName(h)
  BY DEF ClusterManagers
<1>2. UNCHANGED ws /\ tampered' = tampered \cup {NameOf[h]}
  BY <1>1 DEF DeleteNamespace, DeleteClusterManager, EditClusterManager, Tamper, NameOf
<1>3. \/ UNCHANGED cm
      \/ /\ \A d \in ClusterManagers \ {c} : cm'[d] = cm[d]
         /\ cm'[c].annotation \in {cm[c].annotation, None}
  BY <1>0
  DEF DeleteNamespace, DeleteClusterManager, EditClusterManager, NoClusterManager, ClusterManagerObjects
<1>4. claims' = claims \/ claims' = {g \in claims : NameOf[g] # NameOf[h]}
  <2>0. \A g \in Hubs : ClusterManagerName(g) \in ClusterManagers
    BY DEF ClusterManagers
  <2>1. UNCHANGED cm => claims' = claims
    BY LifeUnchanged
  <2>2. ASSUME \A d \in ClusterManagers \ {c} : cm'[d] = cm[d], cm'[c].annotation = cm[c].annotation
        PROVE  claims' = claims
    BY <2>0, <2>2 DEF claims
  <2>3. ASSUME \A d \in ClusterManagers \ {c} : cm'[d] = cm[d], cm'[c].annotation = None
        PROVE  claims' = {g \in claims : NameOf[g] # NameOf[h]}
    BY <1>1, <2>0, <2>3, ConstantsAssumption DEF claims, NameOf
  <2> QED BY <1>3, <2>1, <2>2, <2>3
<1> QED BY <1>2, <1>4, LifeUnchanged DEF Lifecycle!Spoil

LEMMA OperatorImplements ==
  ASSUME ProvisioningTypeOK, NEW c \in ClusterManagers, OperatorDeploys(c) \/ OperatorFails(c)
  PROVE  UNCHANGED Lifecycle!lifeVars
<1>0. cm \in [ClusterManagers -> ClusterManagerObjects]
  BY DEF ProvisioningTypeOK, CpTypeOK
<1>1. UNCHANGED <<ws, webhooks, tampered, started>>
  BY DEF OperatorDeploys, OperatorFails, boundVars, hubVars
<1>2. PICK m : /\ cm' = [cm EXCEPT ![c] = m]
               /\ \/ m = [cm[c] EXCEPT !.applied = "True", !.degraded = FALSE]
                  \/ m = [cm[c] EXCEPT !.applied = "False"]
                  \/ m = [cm[c] EXCEPT !.degraded = TRUE]
  <2>1. CASE OperatorDeploys(c)
    BY <2>1 DEF OperatorDeploys
  <2>2. CASE OperatorFails(c)
    BY <2>2 DEF OperatorFails, OperatorReports
  <2> QED BY <2>1, <2>2
<1>3. m.annotation = cm[c].annotation
  BY <1>0, <1>2, ReportKeeps
<1>4. UNCHANGED claims
  <2>1. \A g \in Hubs : cm'[ClusterManagerName(g)].annotation = cm[ClusterManagerName(g)].annotation
    BY <1>0, <1>2, <1>3 DEF ClusterManagers
  <2> QED BY <2>1 DEF claims
<1> QED BY <1>1, <1>4, LifeUnchanged DEF Lifecycle!lifeVars

LEMMA LifeInitImplements == ProvisioningInit => Lifecycle!LifeInit
<1> SUFFICES ASSUME ProvisioningInit PROVE Lifecycle!LifeInit
  OBVIOUS
<1>1. /\ \A h \in Hubs : ws[h] = NoWorkspace /\ webhooks[h] = [f \in WebhookFiles |-> None]
      /\ \A c \in ClusterManagers : cm[c] = NoClusterManager
      /\ \A h \in Hubs : ClusterManagerName(h) \in ClusterManagers
      /\ tampered = {} /\ started = {}
  BY DEF ProvisioningInit, Init, CpInit, HubInit, HooksInit, ClusterManagers
<1>2. born = [h \in Hubs |-> 0] /\ alive = {} /\ vouched = {}
  BY <1>1 DEF NoWorkspace, NoCondition, born, alive, vouched
<1>3. claims = {}
  BY <1>1, ConstantsAssumption DEF NoClusterManager, claims
<1>4. hooked = {}
  BY <1>1 DEF WebhookFiles, WebhooksInstalled, hooked
<1> QED BY <1>1, <1>2, <1>3, <1>4 DEF Lifecycle!LifeInit

LEMMA LifeStepImplements ==
  ASSUME ProvisioningTypeOK, VouchInv, [ProvisioningNext]_allVars
  PROVE  [Lifecycle!LifeNext]_Lifecycle!lifeVars
<1> USE DEF Lifecycle!LifeNext
<1>0. ProcessDies => Lifecycle!LifeNext
  BY LifeUnchanged DEF ProcessDies, HubRestart, mgmtVars, hookVars, Lifecycle!Stop
<1>1. ASSUME NEW h \in Hubs,
             \/ HubSide(HubInformer(h) \/ HubResync(h) \/ HubSyncIgnores(h) \/ BeginHubSync(h))
             \/ CachesSynced(h)
      PROVE  UNCHANGED Lifecycle!lifeVars
  <2>1. CachesSynced(h) => UNCHANGED Lifecycle!lifeVars
    BY LifeUnchanged DEF CachesSynced, cpVars, hubVars, hookVars
  <2> QED BY <1>1, <2>1, HubSideImplements
<1>2. ASSUME NEW h \in Hubs, WorkspaceGone(h) PROVE Lifecycle!LifeNext
  BY <1>2, WorkspacesImplement
<1>3. ASSUME NEW c \in ClusterManagers, NamespaceGone(c) PROVE Lifecycle!LifeNext
  <2>1. UNCHANGED <<webhooks, started>> /\ DeleteNamespace(c)
    BY <1>3 DEF NamespaceGone, hubVars
  <2> QED BY <2>1, InterferenceImplements
<1>4. ASSUME CpEnvironment, UNCHANGED <<hubVars, hookVars, cmVars, linkVars>>
      PROVE  [Lifecycle!LifeNext]_Lifecycle!lifeVars
  <2>1. UNCHANGED <<webhooks, started>>
    BY <1>4 DEF hubVars, hookVars
  <2> QED BY <1>4, <2>1, WorkspacesImplement, InterferenceImplements DEF CpEnvironment
<1>5. UNCHANGED allVars => UNCHANGED Lifecycle!lifeVars
  BY LifeUnchanged DEF allVars, cpVars, hubVars, hookVars
<1> QED
  BY <1>0, <1>1, <1>2, <1>3, <1>4, <1>5, HubSideImplements, CmSideImplements, OperatorImplements
  DEF ProvisioningNext, CacheSyncTimeout

\* Two controllers that agree through stale copies, and whose every call may
\* fail or take effect unnoticed, bring a hub up in order and take nothing
\* back: webhooks, condition, controllers, for one owner of the ClusterManager.
THEOREM ProvisioningImplementsLifecycle == ProvisioningSpec => ImplementsHubLifecycle
<1> QED
  BY LifeInitImplements, LifeStepImplements, ProvisioningTypeCorrect, VouchInvariant, PTL
  DEF ProvisioningSpec, ImplementsHubLifecycle, Lifecycle!LifeSpec
===============================================================================
