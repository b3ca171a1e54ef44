# A verification of kcp-integration

kcp-integration runs Open Cluster Management (OCM) hubs in kcp workspaces. A
user creates a *hub workspace* in an *organization workspace*; the program
creates the objects on a management cluster that make the cluster-manager
operator deploy a hub into it, and then runs the hub's own controllers. This
directory holds TLA+ modules of those controllers, the TLC configurations that
check them on small instances, and proofs of some of their properties for all
instances.

    tlc -config HubWorkspace.cfg MCHubWorkspace.tla      # a run
    tlapm HubWorkspaceProofs.tla                         # the proofs of a module

`PROJECT.json` lists the runs, and gives for each definition the lines it models.

## 1. The system

| component | state | operations |
|---|---|---|
| manager (`pkg/controllers/manager.go`) | informer factories with resyncs of 5 and 10 minutes | `Run` starts the two controllers below, one worker each |
| organization workspace controller (`workspace/orgworkspace.go`) | `workspaces`: one cancel function per organization seen, never removed | `sync`: starts one hub workspace controller per Ready organization |
| hub workspace controller (`workspace/hubworkspace.go`), one per organization | two node port counters, `controllers`: one entry per hub started, never removed | `sync`: applies five management-cluster objects; with the condition `ClusterManagerApplied` set, starts the hub's controllers |
| ClusterManager controller (`clustermanager/clustermanager.go`) | none | `sync`: reads the operator's report, installs four webhook configurations in the hub workspace, writes the condition `ClusterManagerApplied` to the workspace |
| CSR signing controller (`workspace/csr/signer.go`), one per hub | `ca`, loaded once from files | `sync`: signs approved client-certificate requests, or marks them Failed |
| signing policy (`workspace/csr/ca.go`) | none | lifetime arithmetic, key usages |
| ManagedCluster controller (`workspace/managedcluster.go`), one per hub | none | `sync`: RBAC for the cluster's agent in the organization and in the hub |
| helpers (`pkg/helpers`) | none | `ApplyObjects`, `applyClusterManager`, conversions |
| controller framework, `resourceapply`, work queue (vendored) | queues, caches | what a failed, repeated or stale `sync` means |

Interaction. The controllers never call each other. They meet through API
objects: `ClusterWorkspace` (phase and condition) in kcp; namespace, secret,
services and `ClusterManager` on the management cluster; webhook configurations
and certificate requests in the hub workspace. They see most of these through
informer caches, which lag, and every write of a whole object carries the
`resourceVersion` that was read. In memory, a controller shares its caches with
its informer and its maps and counters with nobody, since it has one worker.

What makes it hard. `sync` is a sequence of calls, any of which may fail or lose
its answer; `ApplyObjects` carries on after an error; resyncs repeat every pass
and every pass draws new node ports; several organizations' controllers draw
from one port range; the two halves of provisioning agree through one condition
read from a cache; workspaces and requests are deleted and created again under
their names; and a hub whose caches do not sync in ten minutes ends the process
of all hubs (`klog.Exit`), which comes back with empty memory.

What makes the parts correct:

- hub workspace controller: objects in place before controllers start; ports
  that stay and do not clash; Ready workspaces provisioned in the end;
- ClusterManager controller: the condition vouches for the webhooks, follows
  what the operator reports, and the webhooks point at the services;
- both together: a Ready workspace gets running controllers, one hub at most
  acts on a ClusterManager, and a recreated workspace is caught up with;
- CSR signer: signs only what was approved, as it was asked, once, and in the end;
- signing policy: whom it refuses, how long a certificate lasts, what for;
- organization controller: one controller per organization, at its address;
- work queue: no key is lost, doubled or starved, for that is what every
  liveness property of the other parts rests on;
- ManagedCluster controller: the order of the authorizers, and that a cluster
  gets them whatever fails or collides.

## 2. The modules

    ControlPlane              the shared API objects, kcp, users and administrators
      |-- HubWorkspace        the hub workspace controllers of all organizations
      |     |-- HubWorkspaceProofs
      |     `-- MCHubWorkspace
      |-- ClusterManagerSync  the ClusterManager controller
      `-- HubProvisioning     HubWorkspace + ClusterManagerSync + operator + process
            |     (implements HubWorkspace and HubLifecycle)
            |-- HubProvisioningProofs
            |     |-- HubRefinementProofs   it implements HubWorkspace
            |     `-- HubLifecycleProofs    it implements HubLifecycle
            `-- MCHubProvisioning
    HubLifecycle              what a user may rely on, from workspace to controllers
    CSRSigner                 the signing controller of one hub, with its API server
      |     (implements CertificateRequests)
      |-- CSRSignerProofs
      `-- MCCSRSigner         with SigningPolicy
    CertificateRequests       what a hub promises about requests
    SigningPolicy             lifetimes and usages of certificates
      `-- SigningPolicyProofs
    WorkQueue                 client-go's work queue (implements KeySet)
      `-- OrgWorkspaces       the organization workspace controller, driving that queue
            `-- OrgWorkspacesProofs
    KeySet                    what the other modules assume of a work queue
    ManagedClusters           the ManagedCluster controllers of all hubs
      |-- ManagedClustersProofs
      `-- MCManagedClusters

An operator whose comment starts with "Mutant:" belongs to no specification: it
is a plausible mistake that a run must notice when it replaces the operator
after it.

**ControlPlane.** `ws[h]` is the workspace: phase, condition, and the number of
its incarnation under that name. `namespaces`, `secret`, `svc` (node port of
each webhook service) and `cm` are the management-cluster objects, indexed by
ClusterManager name. The name is the program's `kcp-<org>-<workspace>-...`: a
hub's organization and workspace are sequences of dash-separated parts and the
name is their concatenation, so that two hubs can yield one name; `Alone(h)`
says that h shares its name with no other. Its actions are those of kcp, users
and administrators, who may delete a namespace or a ClusterManager, drift its
spec or strip its annotation.

**HubWorkspace.** One worker per organization walks `sync`: `HubSyncIgnores`
(the early returns), `BeginHubSync` (the read from the cache and the counters),
one action per file of `hubFiles`, and `FinishHubSync` (the return with an
error, the check of the condition, `startHubControllers`). Per file, the call
succeeds (`ApplyNamespace`, `ApplySecret`, `ApplyService`,
`ApplyClusterManager`), is refused (`ApplyRefused`: the namespace is missing, or
the port is taken or past the range), is lost (`ApplyLost`), or takes effect but
reports an error (`AnswerLost`). `hubFailed` is the aggregated error. `hubSeen`
is the condition of the object `sync` read at its start: the code checks that
object, not the current one. `ApplyService` shows why an apply function has to
be modelled by what it compares: it never looks at the ports of an existing
service. In this module alone the condition may be set at any moment
(`ConditionSet`), its writer's answer may be lost, and calls of others may fail
(`OtherCallLost`), which is more than the ClusterManager controller does.

**ClusterManagerSync.** One worker: `BeginCmSync` (cache, annotation, the
condition from the operator's report), `ReadEndpoints` (the CA bundle and the two
services), `WebhooksApplied`/`WebhooksLost`, `GetWorkspace`, `UpdateStatus`.
`cmCond`, `cmConfig` and `cmRead` are its local variables between two calls.
`ReadEndpoints` stands for three reads; only `UpdateStatus` has a conflict
check. The four webhook writes are one step that, when a call is lost, leaves
any subset of them in effect.

**HubProvisioning.** Composes both with the operator (`OperatorDeploys`,
`OperatorFails`) and the process. `crds` are the hub workspaces in which the
operator installed the resources that the hub's controllers watch; `synced` the
hubs whose controllers got past `WaitForCacheSync`. `CacheSyncTimeout` is the
`klog.Exit`; `ProcessDies` empties the memory of every controller at once. A
deleted workspace takes its webhooks and resources along (`WorkspaceGone`), a
deleted namespace the CA bundle (`NamespaceGone`). Two refinement mappings lead
from here to simpler modules. `Hub` forgets what HubWorkspace does not know, the
operator's reports and the reason of a condition; `ImplementsHubWorkspace` says
that its environment was drawn wide enough, so that what is checked and proved
of the hub workspace controllers alone holds of the composition. `Lifecycle`
keeps only what a user of the hubs sees.

**HubLifecycle** is the promise of the whole path: a workspace is created, its
ClusterManager claimed for one of the hubs that yield its name, then the webhooks,
then the condition, then the controllers; nothing of it is withdrawn while the
workspace lives. An administrator who touches a ClusterManager
(`Spoil`) ends the exclusive claim to it. The order is promised to the first
workspace of a name, because the program does not keep it for a recreated one
(`First`); and a name's controllers may run after its workspace is gone.

**CSRSigner.** Each stored request has its `rev` (resourceVersion); a certificate
is told apart by the revision that brought it, as by its serial number. The
lister holds older copies; `FailRequest` writes into the cached object, as the
code does, and `SignRequest` into a copy. `csrSent` is the object on its way to
`UpdateStatus`, which succeeds only when its revision is the stored one and no
condition type occurs twice. `ca` is loaded by `initCA` from the files
(`caFile`), which administrators write and time makes expire; what is loaded
stays until the process dies.

**CertificateRequests** is the promise behind it: a request is decided, then
signed or failed, according to what it asked for, at most once, until it is
deleted. Nothing of caches, copies, retries or the CA is in it. `Kind` and
`Status` map a stored request to it.

**SigningPolicy** is the answer to one request, which CSRSigner leaves open: its
usages are checked (`RejectUsages`), then `Certificate` signs it
(`IssueCertificate`), or its `apply` refuses (`RefuseToSign`). Times are whole
seconds, and the two usage tables of `ca.go` stand next to the list of
`signer.go`. The two modules share no variable, so `MCCSRSigner` does not
interleave them: the policy may answer one request before the first one comes to
the signer. It supplies instants and durations on both sides of every bound, and
usages that each table knows, that only one knows, and that none knows.

**WorkQueue** is client-go's queue as one worker drives it: `Add`, `Get`, `Done`
on the order of keys and the two sets, and a timer per key to be retried. A
retry may run out while its key is processed or waits anew. **KeySet** is what
it amounts to, a set of keys of which one at a time is worked on and each gets
its turn, which is how every other module models its queue.

**OrgWorkspaces** drives that queue with `sync`: `OrgSyncIgnores`,
`StartHubWorkspaceController`, `StartFails` (a client cannot be made; nothing is
entered in the map). `watched[o]` is the address an entry of the `workspaces`
map was made with; entries go with the process only. `HubCacheSynced` and
`HubCacheSyncTimeout` are what becomes of a started controller: it reaches the
address, or the process exits. The address "unset" stands for the empty string
that `GetWorkspaceURL` returns before kcp has placed a workspace.

**ManagedClusters** has a worker per hub and the two pairs of role and binding
that `sync` applies. The organization's binding is written by the workers of all
its hubs, so its read and its write are two steps, and `mcFresh` tells whose copy
is the stored one: the others' writes are refused. Objects of one hub have one
writer and are applied in one step each.

Abstractions, in all modules: an API write is atomic; what templates render is
reduced to the hub, the ports, the CA bundle and the cluster; messages and
events are left out, and with them status updates that change a message only;
annotations are either well-formed or missing; requests parse (the API server
admits no others); a finite number of things goes wrong (section 4).

## 3. The runs

| run | question | states |
|---|---|---|
| HubWorkspace | what every pass leaves behind, when controllers start, ports never move or clash: two hubs of one organization; whether anything but a new process helps a hub that came too late for a port | 1.90 M |
| HubCollision | are Ready workspaces provisioned in the end, in two organizations that ask for each other's ports | 432 k |
| HubProvisioning | two hubs that yield one ClusterManager name, in two organizations, through every interleaving of four workers | 1.64 M |
| ProvisioningLiveness | what the condition vouches for, that a Ready workspace ends up served, its condition current and its webhooks installed, recreated ones included; that the composition implements HubWorkspace and HubLifecycle; that a lost annotation is final | 225 k |
| CSRSigner | what gets signed, once, and in the end, on stale copies; for how long and for what a certificate is good, whatever was requested, at every boundary of time | 231 k |
| OrgWorkspaces | one controller per organization, at its address, in the end; the queue never loses, doubles or starves a key | 534 k |
| ManagedClusters | order of the authorizers; that the only cluster of an organization gets them, and two share them in turns | 201 k |

Some properties deserve a word. `CleanPassLeavesNoGaps` relates every position
of the worker to every object of the files before it, whatever other
organizations and users do. `WebhooksReachServices` connects the two
controllers' treatment of ports: the webhooks keep the port they were created
with, and so must the services, even those of two hubs that share them.
`ControllersAfterWebhooks` spans both controllers and the cache between them.
`ConditionTracksReports` says that retries and resyncs bring the condition to
what the operator finally reports, though it is computed from a cache several
calls before it is written. `ConditionEventuallyBacked` and
`ControllersEventuallyBacked` are about workspaces recreated under a name: the
condition, or the controllers, of the predecessor may be there first, and the
webhooks follow.

`ImplementsHubWorkspace` and `ImplementsHubLifecycle` are the two refinements of
section 2. The first would fail if the ClusterManager controller could touch what
HubWorkspace believes to be its own, or give a condition to a workspace that is
gone; the second if any copy of a condition, a claim or a report
were acted upon after it had ceased to be true.

Three action properties say how long a loss lasts. Each gives the exact extent of
something the program does not repair: exhausted node ports, until the process
restarts (`ExhaustedUntilRestart`, behind the run HubExhaustion); a failure that
was reported in vain, until the request is written by another or the cache is
refilled (`FailureLostUntilRefreshed`, behind the run CSRInvalid); a stripped
annotation, until the ClusterManager is deleted (`OrphansStayUnled`). They are
the reason that the escapes and premises of the liveness properties (section 5)
cannot be dropped.

`CopiesFollowRevisions` is what optimistic concurrency rests on: a copy that
carries the stored revision agrees with the store in all that `sync` decides on.
It survives `FailRequest`'s write into the cache only because the damage is
confined to Failed conditions of requests that may not be signed anyway.
`RequestsAnsweredOnce` is the refinement of CertificateRequests, and
`EveryKeyGetsItsTurn` that of KeySet, fairness included: from weak fairness of
the queue's users it concludes the strong fairness the other modules assume.

`UsableForBoundedTime` looks at the five minutes, eight hours, thirty days and the
end of the CA that meet in one comparison each, in two files; its first conjunct
is what lets CSRSigner treat an expired CA as the only reason to refuse.
`LongerRequestsLastLonger` is not the monotonicity one expects: at eight hours the
end jumps back by the backdate, and this is the worst that happens.

`TwoTakeTurns` ends at two clusters, and that is a fact about the program: with
three, two writers can make the copy of the third stale for ever.

Runs that show a disagreement, each with one property taken from a comment, a
document or a script of the repository:

| run | what the code does |
|---|---|
| HubExhaustion | every pass, resyncs included, advances the port counters and nothing returns a port: with no failure at all, later hubs are not provisioned (`hubworkspace.go:137`) |
| Undeployed | `isClusterManagerApplied` has status True whatever is reported: controllers start where nothing is deployed, and ten minutes later the process exits (`clustermanager.go:244`) |
| StaleWebhooks | webhook configurations are compared by metadata only: a rotated CA bundle does not reach them (`admissionregistration.go:48`) |
| CSRInvalid | the lister's object is modified, so one lost call makes every later report of a failure carry two Failed conditions, which is refused (`signer.go:107`) |
| SharedBinding | the hubs of an organization share one binding with one subject: the clusters of the demo script's two "independent" hubs take it from each other at every resync (`managedcluster.go:91`) |

## 4. Bounds

Every bound is a constant. `MaxCreates` (incarnations of a name),
`MaxRestarts`, `MaxDisruptions` (lost calls and answers, deletions, tampering,
failure reports, relists; in OrgWorkspaces and ManagedClusters deaths of the
process too), `MaxPort`, `MaxBundles`, `MaxCAs`.

- *Ports.* The program's bases are 30442 and 30452 and the range ends at 32767;
  the runs use bases 1 or 2 apart and a range of three to six ports. What
  matters is the order of the bases, that the second kind's ports are within
  reach of the first's counter, that two hubs can collide, and that the range
  ends. A counter past the range is refused whatever its value, so it stops at
  `MaxPort + 1`; this loses no behaviour.
- *One restart and one disruption* let a pass fail, or the process die, at every
  point of every pass; the two or three disruptions of OrgWorkspaces and
  CSRSigner let the repair fail as well. Exits because of a cache that does not
  sync are not counted.
- *Two hubs in one organization* share a worker and counters; *two hubs in two
  organizations* (HubCollision, HubProvisioning) run concurrently, on one port
  range or on one ClusterManager. HubProvisioning's two hubs meet no disruptions:
  `OneHubPerClusterManager` under them is proved, as is the refinement of
  HubLifecycle for any number of hubs (section 6).
  ProvisioningLiveness has one hub, which shares nothing with others but what
  those two runs check.
- *Two creations* give a name a predecessor, two CA bundles or CAs an old and a
  new one. *One request* suffices for the signer: requests share its worker and
  the CA, and its safety is proved for any number of them.
- *Instants and durations* of SigningPolicy lie just before, at and just after
  every value a comparison of `duration` or `apply` can turn on, around instant 0;
  the policy uses differences of instants only.
- *Two organizations* in OrgWorkspaces give the queue every order of two keys,
  with each of them dirty, processed and on its timer at once.
- *Three clusters in two hubs* give a hub a worker with two keys beside a
  competing worker.

The proofs hold for all values of the constants.

`CHECK_DEADLOCK FALSE` stands where a system with all its workspaces, requests,
organizations or clusters gone has nothing left to do.

## 5. Fairness

Weak fairness on what the program's goroutines and the informers do by
themselves: delivery of a change, resyncs, retry timers, each step of a pass,
cache syncs and their timeouts. Calls return: a client call that hangs is outside
the model. Retries are rate-limited in the code, not bounded, so a failed key is
back in the queue at once in most models; in WorkQueue it is on its timer first.

Strong fairness on taking a key from the queue, where a queue is modelled as a
set: a key that waits is taken although the worker is busy now and then. This is
checked, not assumed: OrgWorkspaces has weak fairness only and implements
KeySet with its strong fairness (`EveryKeyGetsItsTurn`).

The operator is assumed to deploy what it can, and kcp to place an organization
it has accepted (both weak). There is none on users, administrators, failures,
restarts, relists, or the CA files.

The escapes in the liveness properties are real: `PortsExhausted` (a service is
missing and its counter is past the range), `Orphaned` (an administrator
stripped the annotation, which no pass restores), and `Outdated` (an
organization recreated elsewhere while its predecessor's controller runs,
`orgworkspace.go:101`). The premise of `ApprovedEventuallySigned` is that the CA
the controller goes by, once loaded, can sign: expired files that are replaced
take effect at the next restart (`signer.go:151`).

## 6. Proofs

| module | theorem | what it proves |
|---|---|---|
| HubWorkspaceProofs | `TypeCorrect` | `Spec => []TypeOK` |
| | `CleanPasses` | `Spec => []CleanPassLeavesNoGaps` |
| | `StartsBehindObjects` | `Spec => []StartImpliesProvisioned` |
| | `PortsStay` | `Spec => PortsNeverMove` |
| | `CountersLead` | `Spec => []CountersLeadPorts` |
| | `ExhaustionLasts` | `Spec => ExhaustedUntilRestart` |
| HubProvisioningProofs | `ProvisioningTypeCorrect` | `ProvisioningSpec => []ProvisioningTypeOK` |
| | `WebhooksAddressed` | `ProvisioningSpec => []WebhooksReachServices` |
| | `ConditionsBacked` | `ProvisioningSpec => []ConditionImpliesWebhooks` |
| | `ControllersBacked` | `ProvisioningSpec => []ControllersAfterWebhooks` |
| | `OneHubOnly` | `ProvisioningSpec => []OneHubPerClusterManager` |
| | `OrphansLost` | `ProvisioningSpec => OrphansStayUnled` |
| HubRefinementProofs | `ProvisioningImplementsHub` | `ProvisioningSpec => ImplementsHubWorkspace` |
| | `PathLeavesNoGaps`, `PathStartsBehindObjects`, `PathCountersLead` | `ProvisioningSpec => []` the three invariants of HubWorkspace |
| | `PathPortsStay`, `PathExhaustionLasts` | `ProvisioningSpec =>` its two action properties |
| HubLifecycleProofs | `ProvisioningImplementsLifecycle` | `ProvisioningSpec => ImplementsHubLifecycle` |
| CSRSignerProofs | `CsrTypeCorrect` | `CsrSpec => []CsrTypeOK` |
| | `CopiesCorrect` | `CsrSpec => []CopiesFollowRevisions` |
| | `SignedSound` | `CsrSpec => []SignedOnlyWhenApproved` |
| | `NeverBoth` | `CsrSpec => []NeverSignedAndFailed` |
| | `CertificateStays` | `CsrSpec => CertificateNeverReplaced` |
| | `LostFailuresStay` | `CsrSpec => FailureLostUntilRefreshed` |
| | `SignerKeepsPromise` | `CsrSpec => RequestsAnsweredOnce`: the signer implements CertificateRequests |
| SigningPolicyProofs | `CertificatesBounded`, `OrderKept`, `ClientsOnly` | `PolicySpec => []` each of the three properties of SigningPolicy, for all integers and lists of usages |
| OrgWorkspacesProofs | `OrgTypeCorrect` | `OrgSpec => []OrgTypeOK` |
| | `QueueKeepsStep` | `OrgSpec => []QueueConsistent` |
| | `QueueIsKeySet` | `OrgSpec => Abstract!Safe`: the queue implements KeySet, but for fairness |
| | `OneController` | `OrgSpec => []OneControllerPerOrganization` |
| | `AddressesExact` | `OrgSpec => []AddressesFollowWorkspaces` |
| ManagedClustersProofs | `McTypeCorrect` | `McSpec => []McTypeOK` |
| | `AuthorizersInOrder` | `McSpec => []HubAuthorizersComeLast` |

**HubWorkspaceProofs** are about `Spec` of HubWorkspace, hence for the condition
being set at any moment. `TypeOK` is inductive. `CleanPassLeavesNoGaps` is
inductive together with it: a file's action either puts its object in place or
sets `hubFailed`, no action of a controller removes an object, and who removes
one makes the ClusterManager `tampered`. It is needed for
`StartImpliesProvisioned`, because a start happens at the end of a pass without
error, where `FilesBefore` is all of `hubFiles`. `PortsNeverMove` needs the types
only. `CountersLeadPorts` is inductive with the types because services of a hub
that is `Alone` are created by one worker, from counters that only grow until a
restart. `ExhaustedUntilRestart` needs the types only, and lemmas of both
(`ServiceSteps`, `CounterSteps`): a service is created at its counter, and the
API server takes no port past the range.

**HubProvisioningProofs.** Most steps of the composition are steps of
HubWorkspace or leave it alone (lemma `HubSteps`), so its lemmas serve again.
The addresses need `NamesAgree` (the key a pass works on and the workspace its
annotation names belong together, from the stored object through the cache to
the worker) and `AddressInv` (what a pass carries as a port is the port of a
service, and remains so, since nobody moves a service). The other three come
from one invariant, `VouchInv`. A condition travels from a pass of the
ClusterManager controller into the workspace, the informer's copy, a pass of the
hub workspace controller and the controllers map, and every copy may be stale.
What it vouches for is stable (lemma `VouchedStays`): the webhooks of a name's
first workspace are there until it is gone for good (`Backed`), so
is the condition (`Told`, lemma `ToldStays`: every pass carries a condition that
is True, lemma `CarriedCondition`), and the ClusterManager carries the hub's
annotation until someone tampers with it (`Claimed`). So the invariant says of
every copy that it vouches for all three, and of a pass past `applyWebhooks` that
its hub is backed. A recreated workspace has no such invariant: there the
properties are eventual. `OrphansStayUnled` follows from `NamesAgree`: a pass
writes to the workspace whose name leads to its key, and no pass can start.

**HubRefinementProofs.** The mapping `Hub` collapses a condition to "is True",
so that rewriting its reason is a stutter or a `ConditionSet`, provided that
every copy of a workspace carries a condition that is True or none, and none
when it is gone: that is `ReportInv` (theorem `ReportInvariant`). With it every
step of a pass of the ClusterManager controller is `ConditionSet`,
`OtherCallLost` or a stutter (`ReportPassImplements`), the operator's are
stutters or `OtherCallLost` (`ReportsImplement`), and those of the hub workspace
controllers map to themselves (`HubStepImplements`), except that the delivery of
a changed reason is a resync (`InformerImplements`). `Hub` instantiates
HubWorkspaceProofs, so its theorems hold of the mapped variables
(`Hub!CleanPasses` and so on); the theorems `Path...` read them back, since the
mapping leaves objects, ports and counters alone (`SameObjects`).

**HubLifecycleProofs.** Each step of the composition is one step of
HubLifecycle or a stutter, with one lemma per part of the system (`ClaimImplements`,
`RunImplements`, `HookImplements`, `VouchImplements`, `WorkspacesImplement`,
`InterferenceImplements`, `OperatorImplements`). The guards of HubLifecycle are
what has to be shown: that whoever hooks, vouches or runs is entitled to, that
the first workspace of a name has its webhooks when it is vouched for, and the
condition when its controllers start. All three are `VouchInv`, at the copy the
step acts on.

**CSRSignerProofs.** The invariant is `SignerInv`: the types,
`CopiesFollowRevisions`, `SignedOnlyWhenApproved`, `FailedOnlyWhenInvalid` (what
is stored as Failed asked for other usages) and `NeverWritten` (a name with
revision 0 was never used, which a restarted process's empty cache relies on).
Every write to a request gives it a new revision, after which no older copy is
bound to agree with it (lemma `NewRevision`); a write that is accepted comes
from a copy of the stored revision, so it was decided on what is stored, and
there was no certificate yet (lemma `WrittenFields`).
`FailureLostUntilRefreshed` needs of it that a copy which shows a Failed
condition is never signed; its next report then carries two of them, which the
API server refuses. The refinement needs two more facts: what is sent brings
an answer, and what is Failed was approved.

**SigningPolicyProofs.** `PolicyInv` (theorem `PolicyInvariant`): a signed
request passed the check of usages and its certificate is the one the policy
yields. `ClientUsages` says what the tables make of such a list, and `SignBounds`,
with it, whom the policy refuses and where a certificate ends.

**OrgWorkspacesProofs.** `AppendKeepsOrder` and `TailKeepsOrder` are about
sequences without repetition; with them `QueueConsistent` is inductive, and each
operation of the queue is a step of KeySet. `EntriesCover` (no controller
without an entry, one with it) gives the single controller. For the addresses,
`CopyExact` says that a Ready copy of the workspace that bears the name now is
exact, however old: a Ready workspace changes only by going away.

**ManagedClustersProofs.** `PassInOrder` says what a pass without error has left
behind it at each step; nobody removes an authorizer (lemma `AuthorizersStay`).

The assumptions are those of the modules: `None` and the like are no values of
the sets they stand beside, bounds and ports are natural numbers, the port bases
positive and at most `MaxPort + 1`, at least one CA bundle. TLC evaluates all of
them in the runs.

Model-checked only: all liveness properties, the fairness of
`EveryKeyGetsItsTurn` among them (the prover does not handle liveness under
fairness or `ENABLED`). Every invariant, every action property and every
refinement (but for that fairness) of a passing run is proved.

## 7. Not modelled

- Command line, logging and version (`cmd/`, `pkg/cmd`, `pkg/version`): no state;
  of `manager.go` what `Run` starts and how often it resyncs.
- The conversions of `helpers.go` between unstructured and typed objects and the
  rendering of templates, by their results only. They panic on objects kcp would
  not store, which ends the process; a run of ours would have to invent such an
  object. Contents of manifests beyond names, ports, CA bundle and subjects.
- The retries of a ClusterManager whose annotation is malformed: they change
  nothing. Updates of a condition that change its message only.
- Of the vendored framework: shutting a queue down, metrics, the length of
  back-offs, leader election. Apply functions of kinds the program does not use.
- X.509 and PEM encoding, keys, serial numbers.
- What stays behind when an organization or hub is deleted: the program has no
  deletion path (`clustermanager.go:99` has a TODO), so objects and controllers
  stay, and the models show them staying.
