# hybrid-csi-plugin in TLA+

A verification project for `hybrid-csi-plugin`: what its provisioner does with
the volumes of a Kubernetes cluster, model-checked on small instances with TLC
and, for the central properties, proved with TLAPS for every instance.

## 1. The system

`hybrid-csi-provisioner` serves claims (PVCs) of a *hybrid* storage class whose
parameter `storageClasses` lists backend classes. It owns no storage. For a
claim it chooses the first backend class that can serve the selected node,
creates a *helper claim* of that class under the name of the volume to be made
(`opts.PVName`), waits until the backend has provisioned a volume and bound it to
the helper claim, releases the volume from the helper claim, and bonds it to the
user's claim.

| Component | State | Operations | Interacts with |
|---|---|---|---|
| Provisioning (`pkg/provisioner/provisioner.go`) | locals of a running `Provision` call; backoff; nothing persistent of its own | `Provision`, `createPVbyAnnotation`, `createPVbyPOD`, `waitBindPVC`, `releasePV`, `bondPVC`; `Delete` does nothing | API server (requests, one watch), persistent-volume controller, backend provisioners, garbage collector: all share the claim, helper claim and volume |
| Class selection (`getStorageClassFromNode`, `topology.go`) | none; reads four listers | choice of the class, flattening and comparison of topology terms | StorageClass, CSIDriver, CSINode, Node objects, through caches |
| csi-provisioner process (`cmd/csi-provisioner`) | informer caches, the provision controller's work queue, an identity, the lease it may hold | start, cache sync, run; optional leader election | several processes may run: leader election is off by default and the chart never enables it |
| CSI services (`pkg/csi`) and their server (`cmd/controller`), the node plugin | the socket file, which outlives the process | start (`ParseEndpoint`, listen, serve), `NodeGetInfo`; all other RPCs are unimplemented or answer without acting | kubelet and its registrar, Node objects |
| Cluster tools (`pkg/tools`) | none | cordon, uncordon, create-or-update a claim, wait for a volume's deletion | API server; nothing in the repository calls them but `BuildConfig` |
| Chart and docs | - | deployment | - |

**Hard behaviour.** One `Provision` call is about ten API requests with no
transaction around them. Between any two of them the claim may be deleted or
created again, the persistent-volume controller may bind, rebind or release the
volume, the process may stop, a request may fail or take effect with its answer
lost, and another worker or process may run for the same or another claim. A
call that fails is repeated from the start, finding what the earlier one left.

**What makes each component correct.**

- Provisioning: the volume given to a claim is never deleted under it; no moment
  between Retain and the last patch leaves the volume to be deleted with the
  helper claim; when the call returns, claim and volume agree; a bond is undone by
  no step but the claim's own second call, and then made good; a call returns; a claim
  is eventually served by the backend that was chosen; no two claims get one volume.
- Class selection: the chosen class is the first in the list whose driver runs on
  the node and whose allowed topology contains the node; the result does not
  depend on the order of keys and expressions; a driver coming up never makes a
  choice worse.
- Process: with leader election one process provisions at a time, or of two one has
  lost the lease and is about to give up; what two do in that time destroys nothing; if
  the leader dies another process comes to lead.
- Node plugin: what it registers is complete (both topology labels) and names a
  Node; it is registered at last, however often it dies.
- Tools: a node cordoned by a call is uncordoned by it; a wait for a deletion
  ends, and with success only when the volume is gone.

## 2. The modules

| Module | Models |
|---|---|
| `Cluster` | The objects shared with the cluster and the actions of users, scheduler, persistent-volume controller, backend provisioner, kubelet, claim protection and garbage collector. External: modelled from how `provisioner.go` uses them. |
| `HybridProvisioner` | `Provision` and everything it calls, one action per API request or wait; the controller's caches; API errors, lost answers and crashes; the properties. EXTENDS `Cluster`. |
| `VolumeOwnership` | The abstract specification: a volume is made for one claim, passes to it in one step and for good, and loses its storage only after the claim. |
| `VolumeCustody` | The inductive invariants behind the safety theorems, and the refinement mapping to `VolumeOwnership`. EXTENDS `HybridProvisioner`. |
| `LeaderElection` | The lease of client-go with the durations and the identity that `main.go` gives it, leaders that hang, and the lives of the processes. |
| `ElectedProvisioner` | The processes of `cmd/csi-provisioner` with leader election around `Provision`. EXTENDS `VolumeCustody`, INSTANCE of `LeaderElection`. |
| `NodePlugin` | `cmd/controller` and `pkg/csi` on one node, with the kubelet that registers the driver. |
| `HybridProvisionerProofs` | Type correctness, the facts about steps it rests on, and the order of the deletions of pod and helper claim. EXTENDS `VolumeCustody`. |
| `CustodyProofs` | The custody invariant and the safety theorems that follow. EXTENDS `HybridProvisionerProofs`. |
| `OwnershipProofs` | The refinement of `VolumeOwnership`. EXTENDS `CustodyProofs`. |
| `HandoverProofs` | What a returning call leaves, and what a second call can do to it. EXTENDS `OwnershipProofs`. |
| `ElectionProofs` | Theorems on `ElectedProvisioner`: types, who leads, and custody and hand-over across changes of the leader. EXTENDS `HandoverProofs`. |
| `NodePluginProofs`, `ClusterToolsProofs`, `ClassSelectionProofs` | The theorems on `NodePlugin`, `ClusterTools` and `ClassSelection`. |
| `ClassSelection` | `getStorageClassFromNode` and `topology.go`, over objects that change. |
| `NodeCordon` | `CSINodes`, `CondonNodes`, `UncondonNodes` of `pkg/tools/nodes.go`, and administrators who cordon nodes too. |
| `VolumeWait` | `PVWaitDelete` of `pkg/tools/pv.go`, with a volume that others delete and make again. |
| `ClusterTools` | Both together, as a caller uses them that moves a volume: cordon, wait for the deletion, uncordon. EXTENDS `NodeCordon`, INSTANCE of `VolumeWait`. |
| `MCHybridProvisioner`, `MCElectedProvisioner`, `MCLeaderElection`, `MCClassSelection`, `MCNodePlugin`, `MCClusterTools` | Instances for TLC. |

### State and code

`claim[c]` is the user's claim with UID `c`; `ClaimName[c]` is its name (two
UIDs with one name are a claim and its recreation). `helper[c]` is the helper
claim under `opts.PVName`, which is derived from the UID `c`. A helper claim gets a
fresh UID `w` whenever it is created, and the backend names the volume it makes
after that UID, so `Vols` is both. `owner[w]` is history: the claim a UID was
issued for. `pv[v]` is the volume: state, reclaim policy, `claimRef`, class, node.
`pods[c]` is the helper pod: on its node, `Terminating`, or gone.

`call[p][c]` is the running call for claim `c` in process `p`. Its `pc` follows the
code:

| `pc` | next request or wait | code |
|---|---|---|
| `lookup` | claim lister, possibly stale (`listed`) | `provisioner.go:252` |
| `create` | create the helper claim | 257 |
| `pod` | create the helper pod (method `pod`) | 354 |
| `watch`, `wait` | open the watch; wait 30 s for a Modified event with phase Bound | 457-487 |
| `unpod` | ask for the helper pod's graceful deletion, with backoff | 373 |
| `retain` | policy := Retain | 496 |
| `unfinalize` | helper claim's finalizers without pvc-protection | 501 |
| `delete` | delete the helper claim in the foreground, with backoff | 518 |
| `unref` | `claimRef := null` | 536 |
| `bondClaim` | patch the claim, by name | 422 |
| `bondVolume` | patch policy and `claimRef`, if the class deletes | 449 |
| `store` | return; the controller creates the volume object | 155 |

Each of these actions has the outcomes of the request: it takes effect and is
answered, it takes effect and the answer is lost (`Answered`), it is refused
because of what the cluster holds, or (`ApiError`) it fails without effect. The
early return of each is in the action. A watch event is delivered to a waiting
call in the step that changes the helper claim (`Delivered`); the first event of
a watch, Added, carries the present state and is ignored by the code, so
`OpenWatch` delivers nothing. Binding is not the only such change: `WatchedChange` also
has claim protection put its finalizer back on a helper claim that is not yet
terminating (`Protect`), and the finalizers of a terminating one dropped one by one
(`DropFinalizer`), each of which is a Modified event of a claim in phase Bound.

The deletion of the pod (`DeletePod`) leaves it `Terminating`; `createPVbyPOD` goes on at
once, and the pod is gone some time later (`PodGone`). As long as it is there, claim
protection keeps its finalizer on the helper claim.

`seen[p][c]` is the provision controller's cached view (the node to provision
for), `listed[p]` the provisioner's own claim lister: two caches that lag behind
on their own. `Start` runs from the cache and not from the claim.

What `getStorageClassFromNode` may answer for a node over time is the constant
`Choices`; `ClassSelection` models how the answer comes about. There the terms that
`flatten` returns are a set, since the search takes the first that fits and their order
changes nothing; `sort` takes a permutation that puts the segments in order (segments
that compare equal are equal); the loops of `flatten` and `subset` are the recursive
functions `TermsOf` and `Matched`. `SelectionAssumption` says what the API server admits:
expressions have a value, and no key comes twice in one term.

`Ownership` (`VolumeCustody`) maps this state to the abstract one: a claim's
status and its volume are the claim's, a volume is made for `owner[v]` from the
moment it exists, and is stored as long as its state is `live`. Helper claims,
policies, `claimRef`s, caches and calls have no counterpart: all that `Provision`
and the controllers do with them is a stutter, except that `BackendProvision` is
`Make`, `BondClaim` is `Give` and `Reclaim` is `Lose`.

In `LeaderElection` `mode[p]` is where process `p` is: down, waiting in `le.Run`, or
in `run`. `left[p]` is the time it still has: until a waiting process that has read
the record may take the lease, or until the leader gives up. A leader sleeps one
retry period after a successful write and then tries until the renew deadline, so
it has their sum (`Term`), counted from the answer, which may come `Delay` ticks after the
write; a waiting process has the lease duration, counted from its reading
(`unseen` are those that have not read the last write). Writes whose answer is
lost are in `Acquire` and `Renew`. The flags are not checked, and so nothing is assumed of
them (`DurationsType` says that they are numbers): `Margin` is the condition under which a
leader gives up before its lease ends, and `Excess` by how much it can be late without it. A
leader at its deadline need not stop: `Tick` passes it, which `hung` records; it goes on
provisioning, and may renew the lease if it still has it. Giving up (`Stop`) exits the
process without giving the lease back.

In `ElectedProvisioner` `Lead` adds what `run` does first, the informers' start and the wait
for them; a step of `Provision` needs `Running(p)`, by the process's own belief; `Exit`, the
crash of this composition, drops all calls of the process and may come at any time. One of
its causes is in `getStorageClassFromNode`, which dereferences the selected node: a claim of
a hybrid class that binds immediately has none, and ends the process. `overlap` is history:
two processes have been in calls for one claim at once.

In `NodePlugin` `proc` is the progress of `main`, `socket` the file at the endpoint's
path. `Crash` leaves the file, `ParseEndpoint` removes it, `Listen` fails over one. A call of
`NodeGetInfo` is made by the kubelet, answered from the Node's labels and used in
three steps, between which labels change and the process may die. What the kubelet
does with the answer (labels the node lacks are set, a label of another value is a
collision and the call is repeated) is external.

In `NodeCordon` the loops of `CondonNodes` and `UncondonNodes` run over `todo`, one
request per step; `unschedulable` is the nodes' `spec.unschedulable`. What an
administrator wants (`held`) cannot be told from it by the code. The node ids that
`CSINodes` returns are taken for node names, as `CondonNodes` does; that the node
plugin registers such a name is `RegisteredComplete` of `NodePlugin`. A failing list
of CSINodes changes nothing and is left out. In `VolumeWait`
`wait[w].event` is a Deleted event in the watch channel; all other events are
skipped by the loop. The ten minutes may be over at any moment. Nothing in the
repository calls these functions; `ClusterTools` supplies the caller their names
and results ask for.

### Abstractions

Names, access modes, sizes, images and annotations that nothing reads are left
out. Binding by the persistent-volume controller is one step that the watch sees
as one Modified event. A volume without its asset (created again by the
controller after it was deleted) has state `phantom`.

## 3. The runs

| Run | Bounds | Shows |
|---|---|---|
| `annotation` | 1 process, 1 claim, 2 volumes, 1 node, classes with policy Delete and Retain (only the latter binds immediately), 2 faults, 2 attempts per backoff | `TypeOK`, `BoundVolumeKept`, `NoDoomedVolume`, `HandoverComplete`, `BondedAtRest` |
| `pod` | 1 claim, 2 volumes, 1 class with policy Delete, method `pod`, 1 fault, `FairSpec` | `PodDeletedFirst`, `BoundVolumeKept`, `HandoverComplete`, `ProvisionReturns`, `HandedOver` |
| `custody` | 2 claims, 2 volumes, 2 workers of one process, method annotation with delayed binding, no faults | `CustodyInv` and `HandoverInv`, the invariants the proofs use; `BondUndoneByOwnCall`; `ImplementsOwnership`, the refinement |
| `selection` | 3 classes, 2 drivers, 2 label keys, 2 values, every order of registered keys | `TopologyExact`, `FirstServingClass`, `RegistrationImproves` |
| `election` | 2 processes, 2 starts, 1 claim, 1 volume; lease 3, renew deadline 2, retry period 1 (the defaults in units of 5 s), answers up to 1 tick late, leaders that hang | `ElectedTypeOK`, `OneProvisions`, `CustodyUntilOverlap`, `KeptUntilOverlap`, `CompleteUntilOverlap` |
| `lease` | 3 processes, 3 starts, lease 5: a `Margin` of one tick; leaders that hang; `FairElectionSpec` | `ElectionTypeOK`, `OneLeads`, `TwoNeedHang`, `TakesOver` |
| `node_plugin` | 2 nodes, 2 label values, 2 faults, a right, a wrong, an unknown and a missing node name, labels that change without bound; `FairSpec` | `PluginTypeOK`, `RegisteredComplete`, `RegisteredAtLast` |
| `tools` | 2 nodes, 1 fault, any number of rounds of one caller, 2 volumes one after another, `FairToolsSpec` | `ToolsTypeOK`, `HeldStays`, `WorkIsSafe`, `NothingLeft`, `NilMeansGone`, `WorkEnds` |

Why the bounds are enough: two volumes let a second Provision for a served claim
(stale cache, crash, lost answer) make and release a volume of its own beside
the first; a third adds no new relation between a claim and its volumes. Two
faults let one interrupt a call and another its retry. Two attempts are the
shortest backoff that has both a retry and an exhaustion. Two nodes are one done
and one to do; two volumes let one go and come back during one call. Two starts are
two processes, one of which takes over what the other left, or one process
and its restart; two processes meeting on one volume is what could go wrong. `lease` has
a third process, which can come between the other two. `election` goes no further
than the first state with `overlap` (`CONSTRAINT BeforeOverlap`), which is still checked:
three of its properties say nothing of what follows. What follows an overlap is
`two_leaders`. In `node_plugin` one fault leaves the socket file behind and another ends
the retry. `CHECK_DEADLOCK` is off in the runs of `MCHybridProvisioner` and
`MCElectedProvisioner` because an instance where every claim is served or deleted,
and no start is left, is at rest, and in those of the lease because starts are bounded.
Volumes, in `custody` also claims and in `election` and `two_leaders` processes (whose
identities come from the order of their starts), are symmetric in the runs of invariants and
action properties; no run
of a liveness property uses symmetry. Liveness is checked with method `pod`, whose
call passes through every step of method `annotation` and the two of the pod
besides.

`pod` assumes (`Fairness`): a running call takes its next step, workers
start calls for claims they see, informers catch up, and Kubernetes controllers
and the backend do their work; `SF` on `TakeEvent` says an event that reaches an
open watch again and again is at some time read before the timeout. This is the
scheduling of goroutines and the operation of a cluster; users, scheduler,
faults and the answer of the class selection are not assumed to be fair.
`lease` assumes that time passes, that a waiting process reads the lease and goes on trying and
does not lose every answer (`SF` on `Acquire` with its answer), and that a leader whose
deadline has passed exits in the end; nothing about renewals, so that leaders may come and
go, nor about when a leader that hangs wakes up. `election` has no liveness property and
assumes no fairness.
`node_plugin` assumes that the process and the kubelet go on; `RegisteredAtLast` asks that the
node's labels stay the same from some time on.
`tools` assumes only that a caller that has begun takes its next step, the timeout
of `PVWaitDelete` included; nobody has to delete the volume.

### Where the code differs from what is said of it

| Run | Property | Statement | Behaviour |
|---|---|---|---|
| `missed_event` | `BoundIsNoticed` | `provisioner.go:265` | The helper claim is bound before the watch opens: the Added event is ignored and every retry waits in vain. |
| `recreated` | `BondedConsistently` | `CHANGELOG.md:38` | A recreated claim is patched, but the volume refers to the old UID, and would be reclaimed. |
| `shared` | `NoVolumeShared` | `CHANGELOG.md:38` | Method `pod`: from `unref` to `bondVolume` the volume refers to nobody, and the helper claim of another claim, whose pod runs on that node, is bound to it (`BindAvailable`); both claims are given the volume. |
| `two_leaders` | `KeptUnlessHung` | `CHANGELOG.md:38`, `main.go:64-66` | Retry period and renew deadline together are as long as the lease, so at the defaults a leader gives up no earlier than another may take it, and later if the answer to its last write was late. In that time both see the helper claim bound; the one that is late with `unref` removes the claimRef after `bondVolume` of the other, and the volume goes with the terminating helper claim. |

With a retry period of 2 s, and answers within 3 s, `Margin` holds and this cannot happen without a
leader that hangs (`OnlyHangsLose` in section 4).

The model shows more of this kind, for which the project keeps no run:

- *Rebinding* (`provisioner.go:502`, 521). Foreground deletion leaves the helper claim
  terminating, and after `unref` the volume is bound to it again (`RebindHelper`), which the removal of
  pvc-protection was to avoid. With policy Retain nothing repairs that; with Delete the last
  patch of `bondPVC` does, which is why `pod` has no class with policy Retain.
- *A second release* (`provisioner.go:476`). A second Provision from a stale cache finds the helper
  claim, still terminating, in its lister and opens a watch; the drop of one of its two finalizers is
  a Modified event in phase Bound, and `releasePV` removes the claimRef of a volume that is bonded
  already. So a bond is not permanent. `bondPVC` then restores it (`BondedAtRest`), unless a fault
  comes between.
- *A retry with method `pod`* (`provisioner.go:354`, 371). After AlreadyExists the variable `pod` is an empty
  object and the deletion has no name; the call exhausts its backoff and never comes to `releasePV`.
- *A retry for another class or node* (`provisioner.go:252`) reuses the helper claim it finds by name.

Leader election is off by default and the chart never turns it on. Then nothing keeps two
processes apart and what `two_leaders` shows needs no lease to end. `main.go:162` says that
leader election "should be done here".

## 4. Proofs

Every invariant and action property of the passing runs, and the refinement, is also a
theorem or follows from one (`OneLeads` from `OneProvisions`), for every value of the
constants that satisfies the named assumptions. What is left to TLC is at the end of this
section.

### Provision in one process

`TypeCorrect` (`HybridProvisionerProofs`): `Spec => []TypeOK` for all constants that
satisfy the assumptions. `TypeOK` alone is not inductive: a provisioned volume has
a policy only if its helper claim has a class, hence `TypeInv` adds that running
calls and pending helper claims have one.

`CustodyInvariant`, `NoVolumeDoomed` and `BoundVolumesKept`
(`CustodyProofs`): `Alone => (Spec => []Inv)` for `CustodyInv`, `NoDoomedVolume` and
`BoundVolumeKept`, for any number of claims, volumes, nodes,
classes, attempts and faults. `Alone` (`VolumeCustody`) is one process, and `Separate`:
claims of different names (see `recreated`), and helper claims that bind to no volume but
their own (see `shared`), which method annotation with delayed binding gives. Of one process
the steps use only `OneCaller`: no two processes are in a call for one claim at a time. That
is why the lemmas serve under leader election too.

`NoDoomedVolume` alone is not inductive: that the helper claim may be deleted
depends on the policy the call has set three requests before, on the call being
about that helper claim, and on nobody having undone it. `CustodyInv` says so in
parts: what a call knows (`CallStarted`), which objects are its own (`CallOwned`,
`HelperOwned`, `VolumeOwned`), that its volume has policy Retain from the first
patch of `releasePV` to the last of `bondPVC` (`VolumeRetained`), who has custody
of a volume with policy Delete (`InCustody`), and that a claim's volume outlives
it (`VolumeKept`). `NoDoomedVolume` follows from `InCustody` and `VolumeOwned`,
`BoundVolumeKept` from `VolumeKept`.

The proof goes claim by claim. Every step but a crash is about one claim
(`Elsewhere`), since the volumes are partitioned by `owner`; `ElsewhereKept` shows
that such a step keeps the invariant if it keeps it for its own claim. There is
one lemma per action or pair of like actions. The four that matter: the helper
claim is deleted only when its volume has policy Retain (`UnfinalizeDeleteKept`);
removing `claimRef` leaves no policy Delete behind (`RetainUnrefKept`); a volume is
reclaimed only when its owner's claim is gone (`ReclaimKept`); Provision brings
back an object without an asset only for such a claim (`StoreVolumeKept`).

`OwnershipImplemented` (`OwnershipProofs`): `Alone => (Spec => ImplementsOwnership)`. Under
`CustodyInv`, and `OwnersCreated` (a helper UID is issued for a claim that was created),
every step maps to a step of `VolumeOwnership` or to a stutter: one lemma per action that
changes the mapped state.

`HandoverInvariant`, `HandoversComplete`, `BondsAtRest` and `BondsUndoneByOwnCall`
(`HandoverProofs`), under `Alone`. A second call can release the volume its claim already
has, so what holds is weaker than that a bond lasts, and not inductive. `HandoverInv` says
what makes it good: a call that is past the patch of the claim gives the volume the policy
and claimRef of its class before it returns (`CallHandover`), and, without a fault, a claim
whose volume does not refer to it has a call that will make it do so (`ClaimHandover`).
`BondedAtRest` follows when no call is left. `HandoverComplete` speaks of live claims; for one
that was deleted meanwhile `StoreVolume` may create an object without an asset, of which
`CustodyInv` says that it happens to dead claims only. For `BondUndoneByOwnCall` the steps are
taken one by one: nobody but `UnrefPV` of the claim's own call moves the reference of a volume
away from a live claim, since by `CustodyInv` every other call works on a volume of its own.

`PodsDeletedFirst` (`HybridProvisionerProofs`): for one process, either method and with no
assumption on names or classes. `PodsDeleted`: past the deletion of the pod it is terminating or
gone, since only a call for the same claim makes one. That it is gone is not true: nothing
waits for it.

### Under leader election

`ElectedTypeCorrect` and `OneProvisionsAtATime` (`ElectionProofs`): `ElectedSpec => []ElectedTypeOK`
and `ElectedSpec => []OneProvisions`, for any number of processes, starts, claims and
faults and all durations, with leaders that hang. `LeaderAhead` is the invariant: a leader
with the lease has at most `Excess` ticks more than every process that waits and has read
it; one without it has at most `Excess` ticks left. `Write` establishes it, since all others
have to read the lease again; `Observe` keeps it, since a term and the delay of its
answer exceed the lease by no more than that; `Tick` takes one tick from both sides. `Identified` says
that no start has the identity of another, so that the holder is one process. `LeaderCalls`
brings in the provisioner: a call begins in a leader only (`ProvisionCalls`, by `ChoiceKept`)
and ends with it.

`TwoLeadersNeedHang`: `Margin => (ElectedSpec => []TwoNeedHang)`, by `LeaderSafe`, in which as long as
no leader hangs the leader has the lease and strictly less time than who waits.

`ElectedCustody`, `ElectedVolumesKept` and `ElectedHandovers`: under `Separate` and for all
durations, `CustodyUntilOverlap`, `KeptUntilOverlap` and `CompleteUntilOverlap`. Until two leaders
are in calls for one claim there is `OneCaller`, and with it every lemma on the steps of
`Provision` holds of the processes together (`ProvisionedKept`). `ElectedOwnership`: a behaviour
without such an overlap implements `VolumeOwnership`. `OnlyHangsLose`: under `Margin` and `Separate`,
`KeptUnlessHung` holds, which `two_leaders` refutes without `Margin`. They say of a leader that begins with its
own caches on what a dead one left what the theorems above say of a restart.

### Class selection

`TopologyDecidesService`, `FirstServingClassChosen` and
`RegistrationsImprove` (`ClassSelectionProofs`): `TopologyExact`,
`FirstServingClass` and `RegistrationImproves`, for every list of classes, all terms,
keys, values and lists of registered keys. They rest on what the algorithms of `topology.go`
compute:

- `TermsOfExact`: distributing expression after expression gives exactly the terms that
  take one value of each;
- `SortExact`: a sorting permutation exists and `sort` finds it, so that the result is
  ordered and has the same segments;
- `SubsetExact`: the one pass of `subset` decides inclusion, for a sorted term with one
  segment per key and a sorted list with one value per key. What `SubsetComplete` keeps
  along the loop is that no key still to be found has been passed;
- `TopologyDecided`: together they find a term exactly when one holds of the node.

The induction these need is over the positions of a sequence, with a set or a function in
the place of the operator the library's induction theorems take: `Smallest` and `UpTo` come
from the well-foundedness of the order on `Nat`, `Recursion` gives a recursive function its
existence.

### Node plugin and cluster tools

`PluginTypeCorrect` and `RegistrationsComplete` (`NodePluginProofs`): an answer on its way has
both labels and the name of a Node, and `Register` applies it only if the node agrees.

`ToolsTypeCorrect`, `HeldNodesStay`, `WorkSafe`, `NoneLeft` and `NilIsGone`
(`ClusterToolsProofs`), from `ToolsInv`: the two loops' progress through `todo`
against the list they return (`CordonInv`), and that a Deleted event in the channel, or a
Get that finds nothing, was preceded by a moment without the volume (`WaitInv`).

### Only model-checked

The liveness properties: `ProvisionReturns`, `HandedOver`, `TakesOver`, `RegisteredAtLast`,
`WorkEnds`. Fairness is out of the prover's reach. With method `pod`, or a class that binds
immediately, the properties of custody and hand-over are checked for one claim (`annotation`,
`pod`) and not proved; immediate binding only for a class with policy Retain. For several claims
`NoVolumeShared`, and with it the argument, fails (`shared`).

`HandedOver` begins at `releasePV`: a call with method `pod` that has seen its helper claim bound
may still end at the deletion of the pod (section 3). The choice of a class is evaluated at once on
the objects as they are; caches that lag behind are covered by `Choices` alone. An administrator who
cordons a node between `CondonNodes`' look at it and its patch is in the model (`AdminCordons`), and
so is the later uncordon of that node by the tool; no property excludes it, since the code cannot
tell such a node from its own: `HeldStays` is about nodes held since before the call.

Two habits of `PVWaitDelete` are in the model and no property excludes them: an
error of its first request, whatever it is, counts as "not found" (hence
`faults = 0` in `NilMeansGone`), and a deletion between Get and Watch is never
reported, so that the call ends by its timeout.

## 5. Not modelled

- A request of a process that has just died and that the API server carries out only
  after the next leader has begun: it would have to be under way for as long as the
  rest of the lease. HTTP endpoints, flags, metrics, `BuildConfig`.
- All RPCs of `pkg/csi` but `NodeGetInfo`: they have and change no state. Two node plugins on one
  node at once: the later one would take the socket from the earlier one.
- `PVCResources` and `PVCPodUsage` of `pkg/tools` (reads), and `PVCCreateOrUpdate`, a
  create and, should it fail for whatever reason, a patch of the claim's volume
  name, whose outcome is the API server's. Nothing in the repository calls them.
- Unused functions of `topology.go` (`buildTopologyKeySelector`, `compare`,
  `toCSITopology`).
- Other changes of a helper claim than binding, protection and its end (annotations by the
  scheduler, a resize): they would be Modified events too, before the end of the claim.
- The start of a call without a selected node: it ends the process (`Exit`) before it
  has done anything.
- A class with `allowedTopologies` whose driver is not a CSI driver on the node is
  never chosen, since it has no topology keys (`provisioner.go:188`).

## 6. Plan

1. Done: every module above with its runs; the theorems of section 4.
2. Proofs: custody and hand-over for one claim with method `pod` and immediate binding, which
   needs a custody invariant in which a helper claim may be bound to a volume of an
   earlier one; theorems on `VolumeOwnership` itself.
3. `PVCCreateOrUpdate` with its two requests; `ClusterTools` with two callers, each taking
   the other's cordons for an administrator's.
