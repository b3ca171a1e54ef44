------------------------- MODULE ManagedClustersProofs -------------------------
(***************************************************************************)
(* Proofs about the managedClusterControllers, for any hubs, clusters and  *)
(* bounds.                                                                 *)
(***************************************************************************)
EXTENDS ManagedClusters, TLAPS

LEMMA HubType == \A c \in Clusters : Hub(c) \in Hubs /\ ClusterName(c) \in ClusterNames
BY DEF Hubs, ClusterNames

LEMMA OrgType == \A h \in Hubs : Org(h) \in Orgs
BY DEF Orgs

LEMMA McInitType == McInit => McTypeOK
BY ClustersAssumption DEF McInit, McStart, McTypeOK

\* What every step of a pass does to the worker.
LEMMA MovesType ==
  ASSUME McTypeOK, NEW h \in Hubs, NEW s \in Steps, NEW t \in Steps, NEW ok,
         Moves(h, s, t, ok)
  PROVE  /\ mcKey[h] \in Clusters /\ ClusterName(mcKey[h]) \in ClusterNames
         /\ mcPc' \in [Hubs -> Steps \cup {"idle"}]
         /\ mcFailed' \in [Hubs -> BOOLEAN]
         /\ \A g \in Hubs : mcPc'[g] # "idle" => mcKey'[g] \in Clusters /\ Hub(mcKey'[g]) = g
         /\ UNCHANGED <<joined, mcLister, mcQueue, mcKey>>
<1>1. mcPc[h] # "idle"
  BY DEF Moves, Steps
<1>2. mcKey[h] \in Clusters
  BY <1>1 DEF McTypeOK
<1>3. mcFailed' \in [Hubs -> BOOLEAN]
  <2>1. (mcFailed[h] \/ ~ok) \in BOOLEAN
    BY Zenon
  <2>2. mcFailed' = [mcFailed EXCEPT ![h] = mcFailed[h] \/ ~ok]
    BY DEF Moves
  <2> QED BY <2>1, <2>2, Zenon DEF McTypeOK
<1>4. mcPc' \in [Hubs -> Steps \cup {"idle"}]
  BY DEF Moves, McTypeOK
<1>5. \A g \in Hubs : mcPc'[g] # "idle" => mcKey'[g] \in Clusters /\ Hub(mcKey'[g]) = g
  BY <1>1 DEF Moves, McTypeOK
<1> QED
  BY <1>2, <1>3, <1>4, <1>5, HubType DEF Moves

LEMMA EndType ==
  ASSUME McTypeOK, NEW h \in Hubs, mcPc[h] # "idle", EndMcSync(h)
  PROVE  McTypeOK'
<1>1. mcKey[h] \in Clusters
  BY DEF McTypeOK
<1>2. mcFailed' \in [Hubs -> BOOLEAN]
  BY DEF EndMcSync, McTypeOK
<1> QED
  BY <1>1, <1>2 DEF EndMcSync, McTypeOK, kcpVars

LEMMA SyncType ==
  ASSUME McTypeOK, NEW h \in Hubs, McSync(h) \/ McCallLost(h) \/ McAnswerLost(h)
  PROVE  McTypeOK'
<1> USE DEF Steps
<1>1. CASE ApplyOrgRole(h)
  <2>1. Moves(h, "orgRole", "orgGet", TRUE)
    BY <1>1 DEF ApplyOrgRole
  <2> QED BY <1>1, <2>1, MovesType, OrgType DEF ApplyOrgRole, McTypeOK
<1>2. CASE GetOrgBinding(h)
  <2>1. \E t \in {"orgDone", "orgWrite"} : Moves(h, "orgGet", t, TRUE)
    BY <1>2 DEF GetOrgBinding
  <2> QED BY <1>2, <2>1, MovesType DEF GetOrgBinding, McTypeOK
<1>3. CASE WriteOrgBinding(h)
  <2>1. \E ok : Moves(h, "orgWrite", "orgDone", ok)
    BY <1>3 DEF WriteOrgBinding
  <2>3. ClusterName(mcKey[h]) \in ClusterNames
    BY <2>1, MovesType
  <2>4. /\ orgBinding' \in [Orgs -> ClusterNames \cup {None}]
        /\ mcFresh' \in SUBSET Hubs
    BY <1>3, <2>3 DEF WriteOrgBinding, BindOrg, McTypeOK
  <2> QED BY <1>3, <2>1, <2>4, MovesType DEF WriteOrgBinding, McTypeOK
<1>4. CASE OrgDone(h)
  <2>1. CASE mcFailed[h]
    BY <1>4, <2>1, EndType DEF OrgDone
  <2>2. CASE ~mcFailed[h]
    <3>1. Moves(h, "orgDone", "hubRole", TRUE) /\ UNCHANGED <<kcpVars, mcFresh, disruptions>>
      BY <1>4, <2>2 DEF OrgDone
    <3> QED BY <3>1, MovesType DEF McTypeOK, kcpVars
  <2> QED BY <2>1, <2>2
<1>5. CASE ApplyHubRole(h)
  <2>1. Moves(h, "hubRole", "hubBinding", TRUE)
    BY <1>5 DEF ApplyHubRole
  <2> QED BY <1>5, <2>1, MovesType DEF ApplyHubRole, McTypeOK
<1>6. CASE ApplyHubBinding(h)
  <2>1. Moves(h, "hubBinding", "hubDone", TRUE)
    BY <1>6 DEF ApplyHubBinding
  <2>2. hubBinding' \in [Hubs -> ClusterNames \cup {None}]
    BY <1>6, <2>1, MovesType DEF ApplyHubBinding, McTypeOK
  <2> QED BY <1>6, <2>1, <2>2, MovesType DEF ApplyHubBinding, McTypeOK
<1>7. CASE HubDone(h)
  BY <1>7, EndType DEF HubDone
<1>8. CASE McCallLost(h)
  <2>1. \E s, t \in Steps : Moves(h, s, t, FALSE)
    BY <1>8 DEF McCallLost
  <2>2. disruptions' \in 0..MaxDisruptions
    BY <1>8, ClustersAssumption DEF McCallLost, Disrupt, McTypeOK
  <2> QED BY <1>8, <2>1, <2>2, MovesType DEF McCallLost, McTypeOK
<1>9. CASE McAnswerLost(h)
  <2>1. PICK s \in Steps : Moves(h, s, s, FALSE)
    BY <1>9 DEF McAnswerLost
  <2>2. disruptions' \in 0..MaxDisruptions
    BY <1>9, ClustersAssumption DEF McAnswerLost, Disrupt, McTypeOK
  <2>3. /\ mcPc' \in [Hubs -> Steps \cup {"idle"}]
        /\ mcFailed' \in [Hubs -> BOOLEAN]
        /\ \A g \in Hubs : mcPc'[g] # "idle" => mcKey'[g] \in Clusters /\ Hub(mcKey'[g]) = g
        /\ UNCHANGED <<joined, mcLister, mcQueue, mcKey>>
    BY <2>1, MovesType
  <2>4. UNCHANGED <<orgRoles, orgBinding, hubRoles, hubBinding, mcFresh>>
    BY <1>9 DEF McAnswerLost
  <2> QED BY <2>2, <2>3, <2>4 DEF McTypeOK
<1> QED
  BY <1>1, <1>2, <1>3, <1>4, <1>5, <1>6, <1>7, <1>8, <1>9 DEF McSync

LEMMA McTypePreserved == McTypeOK /\ [McNext]_vars => McTypeOK'
<1> SUFFICES ASSUME McTypeOK, [McNext]_vars PROVE McTypeOK'
  OBVIOUS
<1>1. ASSUME NEW c \in Clusters, Join(c) \/ Leave(c) \/ McInformer(c) \/ McResync(c)
      PROVE  McTypeOK'
  BY <1>1, ClustersAssumption
  DEF Join, Leave, McInformer, McResync, Disrupt, McTypeOK, mcVars, kcpVars
<1>2. ASSUME NEW c \in Clusters, McSyncIgnores(c) \/ BeginMcSync(c) PROVE McTypeOK'
  BY <1>2, HubType DEF McSyncIgnores, BeginMcSync, McTypeOK, kcpVars, Steps
<1>3. CASE McRestart
  BY <1>3, ClustersAssumption DEF McRestart, McStart, Disrupt, McTypeOK, kcpVars
<1>4. CASE UNCHANGED vars
  BY <1>4 DEF vars, kcpVars, mcVars, McTypeOK
<1> QED
  BY <1>1, <1>2, <1>3, <1>4, SyncType DEF McNext

\* Every reachable state has the declared types: a worker in the middle of a
\* pass holds a cluster of its own hub.
THEOREM McTypeCorrect == McSpec => []McTypeOK
<1> QED
  BY McInitType, McTypePreserved, PTL DEF McSpec
-------------------------------------------------------------------------------
(* The authorizers of a hub come last.                                     *)
(*                                                                         *)
(* HubAuthorizersComeLast says nothing of a pass under way.  PassInOrder   *)
(* does: a pass that has met no error has left behind it what it is past,  *)
(* and nobody removes an authorizer.                                       *)

OrgRoleApplied(h) == Org(h) \in orgRoles
OrgBound(h) == orgBinding[Org(h)] # None

PassInOrder ==
  \A h \in Hubs :
    /\ mcPc[h] \in {"orgGet", "orgWrite", "orgDone"} /\ ~mcFailed[h] => OrgRoleApplied(h)
    /\ mcPc[h] = "orgDone" /\ ~mcFailed[h] => OrgBound(h)
    /\ mcPc[h] \in {"hubRole", "hubBinding", "hubDone"} => OrgRoleApplied(h) /\ OrgBound(h)

\* No step removes a role or unbinds an organization.
LEMMA AuthorizersStay ==
  ASSUME McTypeOK, [McNext]_vars, NEW h \in Hubs
  PROVE  /\ OrgRoleApplied(h) => OrgRoleApplied(h)'
         /\ OrgBound(h) => OrgBound(h)'
<1> USE DEF OrgRoleApplied, OrgBound
<1>1. ASSUME UNCHANGED <<orgRoles, orgBinding>>
      PROVE  /\ OrgRoleApplied(h) => OrgRoleApplied(h)'
             /\ OrgBound(h) => OrgBound(h)'
  BY <1>1
<1>2. ASSUME NEW g \in Hubs, WriteOrgBinding(g) PROVE OrgBound(h) => OrgBound(h)'
  <2>1. mcKey[g] \in Clusters
    BY <1>2 DEF WriteOrgBinding, Moves, McTypeOK
  <2>2. ClusterName(mcKey[g]) # None
    BY <2>1, HubType, ClustersAssumption
  <2> QED BY <1>2, <2>2, OrgType DEF WriteOrgBinding, BindOrg, McTypeOK
<1>3. ASSUME NEW g \in Hubs, McSync(g) \/ McCallLost(g) \/ McAnswerLost(g)
      PROVE  \/ UNCHANGED <<orgRoles, orgBinding>> \/ ApplyOrgRole(g) \/ WriteOrgBinding(g)
  BY <1>3 DEF McSync, McCallLost, McAnswerLost, GetOrgBinding, OrgDone, ApplyHubRole,
              ApplyHubBinding, HubDone, EndMcSync, kcpVars
<1>4. ASSUME NEW c \in Clusters,
             \/ Join(c) \/ Leave(c) \/ McInformer(c) \/ McResync(c)
             \/ McSyncIgnores(c) \/ BeginMcSync(c)
      PROVE  UNCHANGED <<orgRoles, orgBinding>>
  BY <1>4 DEF Join, Leave, McInformer, McResync, McSyncIgnores, BeginMcSync, kcpVars
<1>5. McRestart \/ UNCHANGED vars => UNCHANGED <<orgRoles, orgBinding>>
  BY DEF McRestart, vars, kcpVars
<1>6. ASSUME NEW g \in Hubs, ApplyOrgRole(g)
      PROVE  orgRoles \subseteq orgRoles' /\ orgBinding' = orgBinding
  BY <1>6 DEF ApplyOrgRole
<1>7. ASSUME NEW g \in Hubs, WriteOrgBinding(g) PROVE orgRoles' = orgRoles
  BY <1>7 DEF WriteOrgBinding
<1> QED
  BY <1>1, <1>2, <1>3, <1>4, <1>5, <1>6, <1>7 DEF McNext

McInv == McTypeOK /\ PassInOrder /\ HubAuthorizersComeLast

\* What a step of one worker establishes for its own pass.
LEMMA OwnPassInOrder ==
  ASSUME McTypeOK, PassInOrder, NEW h \in Hubs, McSync(h) \/ McCallLost(h) \/ McAnswerLost(h),
         OrgRoleApplied(h) => OrgRoleApplied(h)', OrgBound(h) => OrgBound(h)'
  PROVE  /\ mcPc'[h] \in {"orgGet", "orgWrite", "orgDone"} /\ ~mcFailed'[h] => OrgRoleApplied(h)'
         /\ mcPc'[h] = "orgDone" /\ ~mcFailed'[h] => OrgBound(h)'
         /\ mcPc'[h] \in {"hubRole", "hubBinding", "hubDone"} => OrgRoleApplied(h)' /\ OrgBound(h)'
<1> USE DEF PassInOrder, McTypeOK, Moves
<1>1. CASE ApplyOrgRole(h)
  BY <1>1 DEF ApplyOrgRole, OrgRoleApplied
<1>2. CASE GetOrgBinding(h)
  <2>1. ClusterName(mcKey[h]) # None
    BY <1>2, HubType, ClustersAssumption DEF GetOrgBinding
  <2> QED BY <1>2, <2>1 DEF GetOrgBinding, OrgBound
<1>3. CASE WriteOrgBinding(h)
  <2>1. ClusterName(mcKey[h]) # None
    BY <1>3, HubType, ClustersAssumption DEF WriteOrgBinding
  <2>2. CASE h \in mcFresh
    BY <1>3, <2>1, <2>2, OrgType DEF WriteOrgBinding, BindOrg, OrgBound
  <2>3. CASE h \notin mcFresh
    <3>1. mcPc'[h] = "orgDone"
      BY <1>3 DEF WriteOrgBinding
    <3>2. mcFailed'[h]
      BY <1>3, <2>3 DEF WriteOrgBinding
    <3> QED BY <3>1, <3>2
  <2> QED BY <2>2, <2>3
<1>4. CASE OrgDone(h)
  BY <1>4 DEF OrgDone, EndMcSync
<1>5. CASE ApplyHubRole(h) \/ ApplyHubBinding(h) \/ HubDone(h)
  BY <1>5 DEF ApplyHubRole, ApplyHubBinding, HubDone, EndMcSync
<1>6. CASE McCallLost(h)
  BY <1>6 DEF McCallLost
<1>7. CASE McAnswerLost(h)
  BY <1>7 DEF McAnswerLost
<1> QED
  BY <1>1, <1>2, <1>3, <1>4, <1>5, <1>6, <1>7 DEF McSync

LEMMA McInvPreserved == McInv /\ [McNext]_vars => McInv'
<1> SUFFICES ASSUME McTypeOK, PassInOrder, HubAuthorizersComeLast, [McNext]_vars
             PROVE  PassInOrder' /\ HubAuthorizersComeLast'
  BY McTypePreserved DEF McInv
<1>1. \A h \in Hubs : /\ OrgRoleApplied(h) => OrgRoleApplied(h)'
                      /\ OrgBound(h) => OrgBound(h)'
  BY AuthorizersStay
\* Either the worker of h took a step, or its pass is as it was or has begun.
<1>2. ASSUME NEW h \in Hubs
      PROVE  \/ McSync(h) \/ McCallLost(h) \/ McAnswerLost(h)
             \/ /\ mcPc'[h] \in {mcPc[h], "idle", "orgRole"}
                /\ mcPc'[h] = mcPc[h] /\ mcPc[h] # "idle" => mcFailed'[h] = mcFailed[h]
                /\ hubBinding'[h] = hubBinding[h]
  <2>1. ASSUME NEW g \in Hubs, g # h, McSync(g) \/ McCallLost(g) \/ McAnswerLost(g)
        PROVE  mcPc'[h] = mcPc[h] /\ mcFailed'[h] = mcFailed[h] /\ hubBinding'[h] = hubBinding[h]
    BY <2>1 DEF McSync, McCallLost, McAnswerLost, ApplyOrgRole, GetOrgBinding, WriteOrgBinding,
                OrgDone, ApplyHubRole, ApplyHubBinding, HubDone, EndMcSync, Moves, kcpVars, McTypeOK
  <2>2. ASSUME NEW c \in Clusters,
               \/ Join(c) \/ Leave(c) \/ McInformer(c) \/ McResync(c) \/ McSyncIgnores(c)
        PROVE  mcPc' = mcPc /\ mcFailed' = mcFailed /\ hubBinding' = hubBinding
    BY <2>2 DEF Join, Leave, McInformer, McResync, McSyncIgnores, kcpVars, mcVars
  <2>3. ASSUME NEW c \in Clusters, BeginMcSync(c)
        PROVE  /\ mcPc'[h] \in {mcPc[h], "orgRole"} /\ mcFailed' = mcFailed
               /\ hubBinding' = hubBinding
    BY <2>3 DEF BeginMcSync, kcpVars, McTypeOK
  <2>4. CASE McRestart
    <3>1. mcPc'[h] = "idle" /\ hubBinding' = hubBinding /\ mcFailed'[h] = FALSE
      BY <2>4 DEF McRestart, McStart, kcpVars
    <3> QED BY <2>4, <3>1
  <2>5. CASE UNCHANGED vars
    BY <2>5 DEF vars, kcpVars, mcVars
  <2> QED BY <2>1, <2>2, <2>3, <2>4, <2>5 DEF McNext
<1>3. PassInOrder'
  BY <1>1, <1>2, OwnPassInOrder DEF PassInOrder
<1>4. HubAuthorizersComeLast'
  <2>1. ASSUME NEW h \in Hubs, hubBinding'[h] # None PROVE OrgRoleApplied(h)' /\ OrgBound(h)'
    <3>1. CASE hubBinding[h] # None
      BY <1>1, <3>1 DEF HubAuthorizersComeLast, OrgRoleApplied, OrgBound
    <3>2. CASE hubBinding[h] = None
      <4>1. ApplyHubBinding(h)
        BY <1>2, <2>1, <3>2
        DEF McSync, McCallLost, McAnswerLost, ApplyOrgRole, GetOrgBinding, WriteOrgBinding,
            OrgDone, ApplyHubRole, HubDone, EndMcSync, kcpVars
      <4> QED BY <1>1, <4>1 DEF ApplyHubBinding, Moves, PassInOrder
    <3> QED BY <3>1, <3>2
  <2> QED BY <2>1 DEF HubAuthorizersComeLast, OrgRoleApplied, OrgBound
<1> QED BY <1>3, <1>4

\* The objects of an organization are in place before any of its hubs binds a
\* cluster, however many hubs write them and whatever calls fail on the way.
THEOREM AuthorizersInOrder == McSpec => []HubAuthorizersComeLast
<1>1. McInit => McInv
  BY McInitType DEF McInit, McStart, McInv, PassInOrder, HubAuthorizersComeLast
<1>2. McInv => HubAuthorizersComeLast
  BY DEF McInv
<1> QED
  BY <1>1, <1>2, McInvPreserved, PTL DEF McSpec
===============================================================================
