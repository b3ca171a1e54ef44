----------------------------- MODULE OrgWorkspaces -----------------------------
(***************************************************************************)
(* The orgWorkspaceController: for every Ready ClusterWorkspace of type    *)
(* organization at kcp's root it starts one hubWorkspaceController (module *)
(* HubWorkspace), which watches the organization's workspaces at the URL   *)
(* the organization had then.  The entry in the workspaces map is never    *)
(* removed: an organization that is recreated elsewhere is not followed.   *)
(*                                                                         *)
(* A started controller waits ten minutes for its informer's cache; then   *)
(* the whole process exits.                                                *)
(***************************************************************************)
EXTENDS WorkQueue, FiniteSets

CONSTANTS
  URLs,           \* the addresses under which kcp's shards serve workspaces
  None,           \* no entry
  MaxCreates,     \* bound: how often an organization of one name is created
  MaxDisruptions  \* bound: failed passes, deletions and deaths of the process

ASSUME OrgsAssumption ==
  /\ None \notin URLs \cup {"unset"} /\ "unset" \notin URLs
  /\ MaxCreates \in Nat /\ MaxDisruptions \in Nat

VARIABLES
  orgs,        \* the organizations' workspaces, as kcp stores them
  orgLister,   \* the informer's copy of each
  watched,     \* the address each entry of the workspaces map was made with; None: no entry
  running,     \* how many hubWorkspaceControllers each organization has
  synced,      \* the organizations whose controller has its cache
  disruptions  \* how many disruptions happened

orgVars == <<orgLister, watched, running, synced>>
vars == <<queueVars, orgs, orgVars, disruptions>>

Types == {"organization", "universal"}

\* inc tells apart the workspaces that bore one name, one after the other; url
\* is unset (GetWorkspaceURL returns "") until kcp has placed the workspace.
OrgObjects ==
  [inc : 0..MaxCreates, phase : {"Absent", "Initializing", "Ready"},
   type : Types, url : URLs \cup {"unset"}]
NoOrg == [inc |-> 0, phase |-> "Absent", type |-> "universal", url |-> "unset"]

OrgTypeOK ==
  /\ QueueTypeOK
  /\ orgs \in [Keys -> OrgObjects] /\ orgLister \in [Keys -> OrgObjects]
  /\ watched \in [Keys -> URLs \cup {"unset", None}]
  /\ running \in [Keys -> Nat]
  /\ synced \in SUBSET {o \in Keys : watched[o] # None}
  /\ disruptions \in 0..MaxDisruptions

OrgInit ==
  /\ QueueInit
  /\ orgs = [o \in Keys |-> NoOrg] /\ orgLister = [o \in Keys |-> NoOrg]
  /\ watched = [o \in Keys |-> None] /\ running = [o \in Keys |-> 0]
  /\ synced = {} /\ disruptions = 0

Disrupt == disruptions < MaxDisruptions /\ disruptions' = disruptions + 1
-------------------------------------------------------------------------------
(* kcp and its administrators. *)

CreateOrg(o) ==
  /\ orgs[o].phase = "Absent" /\ orgs[o].inc < MaxCreates
  /\ \E t \in Types :
       orgs' = [orgs EXCEPT ![o] =
                  [inc |-> @.inc + 1, phase |-> "Initializing", type |-> t, url |-> "unset"]]
  /\ UNCHANGED <<queueVars, orgVars, disruptions>>

\* The workspace is placed on a shard, which gives it its address.
OrgReady(o) ==
  /\ orgs[o].phase = "Initializing"
  /\ \E u \in URLs : orgs' = [orgs EXCEPT ![o].phase = "Ready", ![o].url = u]
  /\ UNCHANGED <<queueVars, orgVars, disruptions>>

DeleteOrg(o) ==
  /\ orgs[o].phase # "Absent"
  /\ Disrupt
  /\ orgs' = [orgs EXCEPT ![o] = [NoOrg EXCEPT !.inc = orgs[o].inc]]
  /\ UNCHANGED <<queueVars, orgVars>>
-------------------------------------------------------------------------------
(* The informer, the queue's timers and the worker. *)

OrgInformer(o) ==
  /\ orgLister[o] # orgs[o]
  /\ orgLister' = [orgLister EXCEPT ![o] = orgs[o]]
  /\ Add(o)
  /\ UNCHANGED <<delayed, orgs, watched, running, synced, disruptions>>

\* Every ten minutes the informer replays what its store holds.
OrgResync(o) ==
  /\ orgLister[o].phase # "Absent"
  /\ Add(o)
  /\ UNCHANGED <<delayed, orgs, orgVars, disruptions>>

RetryOrg(o) == Retry(o) /\ UNCHANGED <<orgs, orgVars, disruptions>>

TakeOrg(o) == Get(o) /\ UNCHANGED <<orgs, orgVars, disruptions>>

\* Mutant: the phase is not checked.
StartableInAnyPhase(org) == org.phase # "Absent" /\ org.type = "organization"

Startable(org) == org.phase = "Ready" /\ org.type = "organization"

\* sync drops what is gone, of another type, not Ready or in the map already.
OrgSyncIgnores(o) ==
  /\ Done(o, FALSE)
  /\ ~Startable(orgLister[o]) \/ watched[o] # None
  /\ UNCHANGED <<orgs, orgVars, disruptions>>

\* Mutant: the map is not consulted.
StartRegardless(o) ==
  /\ Startable(orgLister[o]) /\ running[o] < 2
  /\ watched' = [watched EXCEPT ![o] = orgLister[o].url]
  /\ running' = [running EXCEPT ![o] = @ + 1]

\* startOCMHubWorkspaceController: the entry and the controller.
startOCMHubWorkspaceController(o) ==
  /\ Startable(orgLister[o]) /\ watched[o] = None
  /\ watched' = [watched EXCEPT ![o] = orgLister[o].url]
  /\ running' = [running EXCEPT ![o] = @ + 1]

StartHubWorkspaceController(o) ==
  /\ Done(o, FALSE)
  /\ startOCMHubWorkspaceController(o)
  /\ UNCHANGED <<orgs, orgLister, synced, disruptions>>

\* Mutant: the entry is made before the client.
StartFailsWithEntry(o) ==
  /\ Done(o, TRUE)
  /\ Startable(orgLister[o]) /\ watched[o] = None
  /\ Disrupt
  /\ watched' = [watched EXCEPT ![o] = orgLister[o].url]
  /\ UNCHANGED <<orgs, orgLister, running, synced>>

\* No client can be made (a file of the configuration cannot be read): an
\* error before anything is entered in the map.
StartFails(o) ==
  /\ Done(o, TRUE)
  /\ Startable(orgLister[o]) /\ watched[o] = None
  /\ Disrupt
  /\ UNCHANGED <<orgs, orgVars>>

OrgSync(o) == OrgSyncIgnores(o) \/ StartHubWorkspaceController(o)
-------------------------------------------------------------------------------
(* The started controllers and the process. *)

Reachable(o) == orgs[o].phase = "Ready" /\ orgs[o].url = watched[o]

HubCacheSynced(o) ==
  /\ running[o] > 0 /\ o \notin synced /\ Reachable(o)
  /\ synced' = synced \cup {o}
  /\ UNCHANGED <<queueVars, orgs, orgLister, watched, running, disruptions>>

\* Mutant: what the process knew of its caches survives it.
OrgProcessDiesSynced ==
  /\ QueueReset
  /\ orgLister' = [o \in Keys |-> NoOrg]
  /\ watched' = [o \in Keys |-> None] /\ running' = [o \in Keys |-> 0]
  /\ UNCHANGED <<orgs, synced>>

OrgProcessDies ==
  /\ QueueReset
  /\ orgLister' = [o \in Keys |-> NoOrg]
  /\ watched' = [o \in Keys |-> None] /\ running' = [o \in Keys |-> 0]
  /\ synced' = {}
  /\ UNCHANGED orgs

\* Ten minutes after its start a controller still cannot list workspaces.
HubCacheSyncTimeout(o) ==
  /\ running[o] > 0 /\ o \notin synced /\ ~Reachable(o)
  /\ OrgProcessDies
  /\ UNCHANGED disruptions

OrgRestart == OrgProcessDies /\ Disrupt

OrgNext ==
  \/ \E o \in Keys :
       \/ CreateOrg(o) \/ OrgReady(o) \/ DeleteOrg(o)
       \/ OrgInformer(o) \/ OrgResync(o) \/ RetryOrg(o)
       \/ TakeOrg(o) \/ OrgSync(o) \/ StartFails(o)
       \/ HubCacheSynced(o) \/ HubCacheSyncTimeout(o)
  \/ OrgRestart

OrgSpec == OrgInit /\ [][OrgNext]_vars

\* Goroutines that can run, run: every fairness is weak, and that each waiting
\* key gets its turn is what the queue adds.
OrgFairness ==
  /\ \A o \in Keys :
       /\ WF_vars(OrgReady(o))
       /\ WF_vars(OrgInformer(o)) /\ WF_vars(OrgResync(o)) /\ WF_vars(RetryOrg(o))
       /\ WF_vars(OrgSync(o))
       /\ WF_vars(HubCacheSynced(o)) /\ WF_vars(HubCacheSyncTimeout(o))
  /\ WF_vars(\E o \in Keys : TakeOrg(o))

OrgFairSpec == OrgSpec /\ OrgFairness
-------------------------------------------------------------------------------
\* Module HubWorkspace has one controller, and so one pair of port counters,
\* per organization: resyncs, retries and recreated workspaces of the name
\* must not start another in the life of a process.
OneControllerPerOrganization == \A o \in Keys : running[o] <= 1

\* The type and the address are read from the informer's copy, which may be
\* old: as long as a name has been used once, its controller watches an
\* organization at the address it has.
AddressesFollowWorkspaces ==
  \A o \in Keys :
    watched[o] # None /\ orgs[o].inc = 1 /\ orgs[o].phase # "Absent"
      => orgs[o].type = "organization" /\ watched[o] = orgs[o].url

\* The controller runs for a workspace that bore the name before, elsewhere.
Outdated(o) == o \in synced /\ ~Reachable(o)

\* Whatever passes fail, whenever the process dies: an organization that stays
\* Ready is watched in the end, unless it was recreated at another address
\* after its predecessor's controller had its cache.
EventuallyWatched ==
  \A o \in Keys :
    Startable(orgs[o]) ~> \/ o \in synced /\ Reachable(o)
                          \/ ~Startable(orgs[o]) \/ Outdated(o)
===============================================================================
