# Coil v2 in TLA+

Coil is a CNI plugin for Kubernetes: it assigns addresses to pods (IPAM), makes nodes reach each
other's pods, and offers NAT ("egress") services. This directory holds TLA+ models of its core,
the TLC configurations that check them on small instances, and TLAPS proofs of the main safety
properties for every instance. All file names below are relative to the repository root.

## 1. The system

### Parts, state and operations

| part | source | state | operations |
|---|---|---|---|
| block allocator | `v2/pkg/ipam/allocator.go` | bitset, index allocated last | `register`, `allocate`, `free`, `fill` |
| node IPAM | `v2/pkg/ipam/node.go` | pools, allocators of this node's blocks, `allocInfoMap`, two levels of mutexes, a channel per pool | `Register`, `GC`, `Allocate`, `Free`, `Notify`, `ClearRoutes`, `NodeInternalIP` |
| coild server | `v2/runners/coild_server.go` | none of its own | `Add`, `Del`, `Check` |
| coild start-up | `v2/cmd/coild/sub/run.go` | none | list veths, register, GC, then serve |
| BlockRequest watcher | `v2/controllers/blockrequest_watcher.go` | work queue and cache | `Reconcile` calls `Notify` |
| route exporter | `v2/pkg/nodenet/route_exporter.go` | routing table | `Sync` |
| pod network | `v2/pkg/nodenet/pod.go` | veths, routes, rules | `SetupIPAM`, `SetupEgress`, `Update`, `Check`, `Destroy`, `List` |
| AddressPool type and webhook | `v2/api/v2/addresspool_types.go`, `addresspool_webhook.go` | the subnets of a pool, a list that only grows | `GetBlock`, `Validate`, `validate`, `validateUpdate` |
| pool manager | `v2/pkg/ipam/pool.go` | a bitset of blocks per AddressPool | `AllocateBlock`, `SyncPool`, `DropPool`, `IsUsed` |
| BlockRequest controller | `v2/controllers/blockrequest_controller.go` | work queue and cache | `Reconcile` answers a request |
| AddressPool controller | `v2/controllers/addresspool_controller.go` | work queue and cache | `Reconcile` resyncs a pool or lets it go |
| garbage collector | `v2/runners/garbage_collector.go` | none | deletes blocks of nodes that have left |
| router | `v2/runners/router.go`, `v2/pkg/nodenet/route_syncer.go`, `v2/controllers/addressblock_controller.go` | a one-place channel, routing table | `Notify`, periodic sync |
| egress controller | `v2/controllers/egress_controller.go`, `clusterrolebinding_controller.go` | API objects | `Reconcile` |
| egress watcher | `v2/controllers/egress_watcher.go` | NAT client in the pod | `Reconcile` |
| pod watcher | `v2/controllers/pod_watcher.go` | addresses of client pods | `Reconcile` maintains the tunnels of the NAT server |
| FoU tunnel, NAT | `v2/pkg/fou/fou.go`, `v2/pkg/nat/netfilter` | links, routes, rules, iptables/nftables | `Init`, `AddPeer`, `DelPeer`, `AddClient`, `RemoveClient`, `Sync` |
| commands, certificates, metrics, types | `v2/cmd`, `v2/pkg/cert`, `v2/pkg/metrics`, `v2/api` | configuration | start-up, generated code |

### How they interact

The runtime calls the CNI plugin, which calls coild by gRPC. `coildServer.Add` calls
`nodeIPAM.Allocate`; when no block of the node has room, coild creates a BlockRequest object and
waits on a channel for at most `DefaultAllocTimeout`, holding the mutex of the pool. In
coil-ipam-controller the BlockRequest reconciler takes a free index of the pool's bitset,
creates an AddressBlock labelled with the node and the request, and writes the answer to the
request's status. The watcher in coild sees the status change and calls `Notify`, which sends on
the channel without blocking. coild learns the new block by listing the AddressBlocks of its
node (`syncBlock`). `Free` clears the index; an empty block is returned by removing its
finalizer and deleting it. The deletion event makes the AddressPool reconciler rebuild the
bitset. coild and the collector also delete blocks periodically.

coil-router reads all AddressBlocks and Nodes and routes each block to its node; block events
wake it up, a ticker does the rest. coil-egress-controller turns an Egress object into the
Deployment of its router pods, a Service, a PodDisruptionBudget, a service account and its role.
In a router pod coil-egress sets up masquerading and keeps a FoU tunnel to every client pod. In
a client pod coild makes tunnels to the Service addresses of the egresses, at ADD and whenever
an Egress changes, and routes the destinations of the egress through them.

The parts share nothing but API objects and, on one node, the kernel's tables, which outlive the
processes. Inside each, goroutines share memory under mutexes and informer caches that lag
behind the API server.

### What is hard about it

* Two lock levels held across API calls and across the wait for an answer (`n.mu`, then `p.mu`),
  and a notification that needs `n.mu`.
* Answers that come too early (no receiver yet), too late (the caller has timed out) or for a
  request that has been replaced by another one of the same name.
* Operations of several API calls that fail, or succeed with a lost answer, in the middle
  (`deleteBlock`, `Free`, `Allocate`, `SyncBlocks`, `AllocateBlock` and the status update).
* Crashes: coild rebuilds its memory from the veths it finds, before the first GC deletes what
  looks empty.
* Deletion by name of an object whose owner may have changed since it was read.
* Decisions on cached data: the block of a request, the pool's deletion mark and subnets, the
  nodes, the Egress objects of a namespace.
* Wake-ups that coincide or are dropped: a channel of capacity one, events of pods that have no
  address or do not run yet.
* Kernel tables changed in many small steps, found again half made after a failure or a restart,
  and marked as initialised by one of them.
* Names and addresses used again: an Egress made again while its objects are being collected, a
  pod address that moves to another pod.

### What makes each part correct

* Node IPAM: an address belongs to one container; the bitsets agree with the owners; a pod's
  block stays with the node; only own blocks are deleted; every call ends; unused blocks go
  back; routes recover.
* Pool manager and reconcilers: an AddressPool outlives its blocks; the bitset never takes an
  existing block for free and does not lose a returned one; requests are answered; unused pools
  under deletion go; orphaned blocks are collected and others are not.
* AddressPool: an index means the same addresses as long as the pool lives; blocks do not
  overlap; a request is refused only when the pool is full.
* Router: no change of a block is lost; after the last change the routing table equals the
  peers' blocks; a half-made table never stops it.
* Router pods: ready means able to forward; every client is served and tunnels go with their
  last client; errors are repaired by retries or a restart.
* Client pods: exactly the destinations of the egress go through its tunnels, traffic inside the
  cluster does not, marks follow the flag, and no update interrupts what it need not.
* Egress controller: the objects are as the Egress asks and its own; routers are not started
  without their role; the status is true in the end.

## 2. Modules

| module | content |
|---|---|
| `Allocator` | pure operators: the per-block allocator |
| `NodeIPAM` | coild on one node: node IPAM with the server, watcher, start-up and exporter around it; the controller, other nodes and users are its environment |
| `AddressLease` | abstract specification: blocks held by a node, addresses leased to containers |
| `NodeLease` | the refinement mapping from `NodeIPAM` to `AddressLease` |
| `AddressPool` | pure operators: subnets, validation and `GetBlock` |
| `PoolController` | coil-ipam-controller for one AddressPool: pool manager, both reconcilers, garbage collector, webhook, informer caches; coild, users and nodes are its environment |
| `Router` | coil-router on one node |
| `FoU` | pure operators: the tunnels of one network namespace, `Init`, `AddPeer`, `DelPeer` and what each leaves if it fails |
| `NatServer` | coil-egress in one router pod: set-up, pod watcher, NAT server; on `FoU` |
| `NatClient` | egress in one client pod: the hook of ADD, the egress watcher, NAT client; on `FoU` |
| `EgressController` | coil-egress-controller: the reconcilers of Egress objects and of ClusterRoleBindings |
| `MC*` | instances for TLC |
| `NodeIPAMTypes` | what `allocate` picks, and type correctness of `NodeIPAM` |
| `NodeIPAMProofs` | the safety theorems of `NodeIPAM` |
| `NodeLeaseProofs` | ownership of blocks, and that `NodeIPAM` implements `AddressLease` |
| `PoolControllerProofs` | the safety theorems of `PoolController` and of the arithmetic of `AddressPool` |
| `RouterProofs` | the safety theorems of `Router` |
| `NatServerProofs` | the safety theorems of `NatServer` on `FoU` |
| `NatClientProofs` | the safety theorems of `NatClient` on `FoU` |
| `EgressControllerProofs` | the safety theorems of `EgressController` |

`NodeIPAM` and `PoolController` are two views of one protocol: in the first the answers to
requests, in the second the requests are made by the environment, in every order the other side
can produce.

### NodeIPAM and the code

A thread is a record in `th`: one per container (the CNI calls of a container are serialised by
the runtime) and one for the garbage collector. Its `pc` names the point where the goroutine can
be interleaved with others: an API call, a blocking lock, the `select`. `pmu` and `nmu` are the
mutexes. A step is what happens between two such points.

| actions | code |
|---|---|
| `BeginAdd`, `SetupIPAM`, `SetupIPAMFails`, `BeginDel` | `coildServer.Add`, `Del` |
| `GetPool`, `AllocateKnown`, `AllocateFull`, `DeleteRequest`, `CreateRequest`, `EnterSelect`, `ResultAllocate`, `ResultPanics`, `AllocateFails`, `GetPoolFails` | `nodeIPAM.Allocate`, `getPool`, `nodePool.allocate`, `syncBlock` |
| `FreeUnknown`, `Free`, `FreePanics` | `nodeIPAM.Free`, `nodePool.free` |
| `RemoveFinalizer`, `DeleteObject`, `SyncList`, `SyncExport`, `BlockStepFails` | `nodePool.deleteBlock`, `nodeIPAM.sync`, `routeExporter.Sync` |
| `BeginGC`, `ScanPools`, `GCGetPool`, `GCLock`, `GCPool`, `GCBlock`, `GCPoolDone`, `GCPoolsDone`, `GCListFails` | `nodeIPAM.GC`, `syncUnregisteredPool`, `gc`, `nodePool.gc` |
| `Register`, `RegisterFails` | start-up in `v2/cmd/coild/sub/run.go`, `nodeIPAM.Register` |
| `Observe`, `Reconcile`, `NotifyLookup`, `NotifySend` | informer, `BlockRequestWatcher.Reconcile`, `Notify` |
| `Crash`, `Reboot` | the process or the node goes down |
| `ClearRoutes` | shutdown after the deletion of the Node: `coildServer.Start`, `nodeIPAM.ClearRoutes` |
| `AssignBlock`, `AnswerRequest`, `RefuseRequest`, `OtherNode`, `UserDelete` | the rest of the cluster, as far as coild sees it |

Decisions a reader should know:

* Addresses are offsets in a block; the arithmetic on `net.IP` is left out. A dual-stack pair is
  one address, as in the code (one index, two addresses).
* The runtime does not ADD a container whose veth exists; `SetupIPAM` is atomic and the kernel
  refuses a second route to the same address.
* A panic in a gRPC handler ends the process (no recovery interceptor is installed), and an
  error at start-up does too. Both are restarts.
* `ClearRoutes` is the end of the process: calls and collector have returned, nobody waits for
  the goroutine that removes the routes, so any part of them may survive.
* `getPool` holds `n.mu` during its list call, so it is one step.
* A failed Update or Delete call of `deleteBlock` may have been carried out all the same, its
  answer being lost. After such a failure in `gc` coild still knows the block and gives out
  addresses of it, although it has no finalizer or is gone. A failed netlink call of the exporter leaves
  any part of the additions, or all additions and any part of the removals.
* `failed` remembers the kinds of faults for which a property makes an exception; other kinds
  may happen any number of times.
* `MaxReq` bounds how many BlockRequests a behaviour creates; the guard of `BeginAdd` reserves
  one for every call under way, so a call is never stuck at the bound.

### PoolController and the code

| actions | code |
|---|---|
| `BRStart`, `BRListFails`, `BRGetPool`, `BRAllocate`, `BRCreate`, `BRStatus` and their failures | `BlockRequestReconciler.Reconcile`, `poolManager.AllocateBlock`, `pool.allocateBlock` |
| `APStart`, `APDropPool`, `APGetPool`, `APSyncBlocks`, `APIsUsed`, `APRemoveFinalizer` and their failures | `AddressPoolReconciler.Reconcile`, `SyncPool`, `SyncBlocks`, `DropPool`, `IsUsed` |
| `GCList`, `GCNodes`, `GCRemoveFinalizer`, `GCDelete`, `GCFails` | `garbageCollector.do`, `deleteBlock` |
| `ObservePool`, `ObserveBlocks`, `ObserveRequests` | the informer caches and event filters |
| `Crash` | loss of leadership and restart with fresh caches |
| `CreatePool`, `UpdatePool` | users, through `ValidateCreate` and `ValidateUpdate` of the webhook |
| `CreateRequest`, `DeleteRequest`, `ReturnBlock`, `DeletePool`, `LeaveNode`, `RejoinNode` | coild, users and the node controller |

* Each reconciler has one worker (controller-runtime's default).
* A cache is a copy of the objects that jumps to a newer state at any time; a block's deletion
  event is never lost (`gone`), and a failed reconciliation is queued again.
* Addresses are numbers and a subnet is its first address and its host bits. `carve` follows the
  loop over the subnets with the shift in `uint` of `UintBits` bits.
* At most `MaxFaults` faults happen in a behaviour, of the kinds in `Faults`; making the pool
  again counts as one. `failed.left` remembers what an unrepaired one has left: a bit that is
  clear although its block exists, a request nobody looks at.
* A crash while a Create call is under way either loses or carries out the call.
* `dropped` marks the one situation in which two pool objects, hence two mutexes, exist: an
  AddressPool created again under the same name before `DropPool` has run for the old one.

### AddressLease and NodeLease

`AddressLease` knows blocks and leases and nothing else: `Acquire`, `Return` (of a block without
leases), `Grant` (of an address of a held block that nobody has), `End`, and `Abandon`, after
which nothing is promised. Under the mapping of `NodeLease` a container's lease is the address
of its veth, or before and after that the address coild owns for it; so it lasts through crashes
of coild, when only the kernel knows it. `Abandon` is taken at one of the three failures that the
code itself does not survive (`Void`): a `Free` given up halfway; a Delete call of `gc` carried
out with its answer lost; a user's deletion of an AddressBlock in addition to a `gc` that failed
after it had removed a finalizer (`Unguarded`). Reserved blocks are not held: nothing is leased
from them. `HeldBlock` follows from the refinement, so `node_core` checks only the latter.

### Router and the code

`Notified` and `Tick` are the `select` of `router.Start`; `sync` is cut at `apiReader.List`, the
cached `List` of blocks and each netlink call of `routeSyncer.Sync`. `Reconcile` is
`AddressBlockReconciler.Reconcile` with its non-blocking send. Any error ends the process, as in
the code, and a new one starts from the routes in the kernel. `moved` remembers blocks made
before the last change of their node, for which only the ticker is responsible.

### FoU, NatServer and the code

A namespace is a record (ports, dummy link, links, flow-based devices) and the operators map it
to the next one; `...CutOff` operators give what can be left when a call fails. In `NatServer`,
`Boot` actions follow `cmd/coil-egress/sub/run.go`: tunnel, NAT, initial list, ready. The pod
watcher handles one pod at a time and its loops are cut at each `AddPeer` and `DelPeer`. Pods
come, get addresses, stop being clients, finish and go; an address is used again only by a pod
that gets it after the other has given it back, but the events of both may still be under way.
`cut`, `lost` and `left` remember the situations for which the code has no remedy but a restart:
an address taken away by `addPod` from its next user, an event dropped after a failed `Get` or a
deletion that failed halfway, and tunnels left by a process that ended.

### NatClient and the code

Two threads, `"add"` (`coildServer.Add`, `getHook`, `SetupEgress`) and `"watch"`
(`EgressWatcher.Reconcile`, `Update`), share the namespace under the lock of the container.
`HookPeer`, `HookDelRoute`, `HookAddRoute`, `HookOrig` are the part of the hook that both run,
for one tunnel at a time, cut at each change of a route. Policy-routing rules and the two tables
are modelled with their order of look-up, so that a packet's way can be told. `missed` and
`unmarked` remember the two weaknesses of the code: a change seen before the pod is Running, and
marks that are only configured together with a new route. The destinations of an Egress object
are a list in the code: the model has its members and which of them come more than once
(`repeated`), since the order of a list makes no difference to `diffRoutes`. `Settles` excepts
the deletion of an Egress object only while an ADD still needs it.

### EgressController and the code

The API objects are one record `api`; every object has a lag of its own towards the caches
(`lag`) and a write based on an old version is refused. A reconciliation goes through
`Reconcile`, service account, the two bindings, objects and status, each a step of its own;
`CRBReconcile` is the other reconciler. The calls for Deployment, Service and budget are one step
(`ReconcileChildren`): each works on an object and a cache of its own. They may still end after
any of them, with an error (`Refused`, `Stopped`) or with the process (`Restart`). The cluster
deletes the objects of an Egress that is gone and runs the Deployments. `desiredDeployment`, `desiredService` and `desiredPDB` keep
what each mutate function copies always, only to a new object, and never clears.

## 3. Runs

| run | instance | checks |
|---|---|---|
| `node_core` | 2 containers, 2 blocks of 2 addresses, 1 reserved block, 2 requests; crashes, reboots, shutdowns, failing lists, failing `SetupIPAM`, a finalizer update of `gc` that fails or whose answer is lost, other nodes | `TypeOK`, `AddressUnique`, `UsageAccounted`, `DeletesOwnBlock`, and the refinement `LeaseSpec` |
| `node_partial_failure` | 2 containers, 1 block of 2 addresses; either call of `deleteBlock` fails or is carried out with its answer lost, in `Free` and in `gc`; failing route exports, crashes, user deletions | `FreePanicsOnlyAfterError`, `HeldBlock`, `NoImmediateReuse` |
| `node_live` | 2 containers, 1 block of 1 address; every failure of `Allocate` before it has an address, failing `SetupIPAM`, other nodes | `EveryCallReturns`, `UnusedBlockReturned`, `RoutesRestored` |
| `node_allocate_panic` | 2 containers, 2 blocks of 1 address, no faults | `NoAllocatePanic`: violated |
| `pool_core` | 2 requests of one node, 2 blocks, pools of one or two subnets (one of them too wide for `uint`), updates, 1 fault of any kind in the reconcilers | `TypeOK`, `PoolGuard`, `BitsCoverBlocks`, `StaleBitResynced`, `BlocksCarved`, `NoBlockMeansFull` |
| `pool_live` | 1 request, 1 block, the collector, nodes that leave and come back, the pool made again, 1 fault of any kind | `PoolSafe` (`PoolGuard`, `BitsCoverBlocks` and `StaleBitResynced` together), `EveryRequestAnswered`, `EmptyPoolRemoved`, `OrphansCollected` |
| `pool_two_blocks` | 2 requests, 2 blocks, no faults | `OneBlockPerRequest`: violated |
| `pool_gc_live_node` | 2 requests, 1 block, a node that leaves | `GCSparesLiveNodes`: violated |
| `router` | 2 peers, a dual-stack and a single-stack block, 5 changes, 1 fault or crash | `NoChangeLost`, `NoClash`, `RoutesConverge` |
| `nat_server` | 2 client pods, 3 addresses of two families, a single-stack and a dual-stack router pod, 4 changes, 1 fault or crash | `TypeOK`, `ReadyConfigured`, `ClientsServed`, `PeersKnowPods`, `NoGarbage`, `ServedInTheEnd` |
| `nat_client` | a pod of one or two families that uses 2 egresses, 3 destinations, 2 changes (one version names a destination twice), 1 fault, restart or lost sandbox | `TypeOK`, `RoutesAsSpecified`, `ClusterTrafficStays`, `MarksFollowFlag`, `KeepsRoutes`, `Settles` |
| `egress_controller` | 2 Egress objects in 2 namespaces, one of them with its objects, 2 changes, failures or restarts | `TypeOK`, `EgressAsSpecified` (roles, objects and status), `RolesBeforeRouters`, `Settles` |

Why these bounds. In coild the races are between two CNI calls, the collector and one
notification; with two containers and two addresses per block a block is empty, partly used and
full, the second request exists while an answer to the first is under way, and the search of
`allocate` wraps around. One pool suffices for TLC because pools interact only through `n.mu`,
which the collector also holds with one pool; the theorems cover any number. In `node_partial_failure` the constraint
`AbandonedAlone` stops at a second failure after a `Free` that was given up halfway, since the
properties of that run make an exception for everything after it, and after a route export that
leaks an index; the failures of `gc` and user deletions are combined freely. Other nodes are left
to `node_core`. In the controller
two requests make a request wait for a returned block, and a second incarnation of the pool is
what `DropPool` is about; `UintBits` = 2 puts the overflow of the shift within reach. The two
requests of `pool_core` belong to one node, so that they follow each other; `pool_live` and the
violated runs have two nodes. `Collecting` switches the garbage collector, which `pool_core`
leaves out. On the router a block changes hands with two changes, a node goes and another takes
its address with two more. On the egress server, two pods and a shared address are the least for
an address to be passed on; a second family makes the loops over addresses fail in the middle.
On the client, two egresses let a destination move from one to the other. For the egress
controller an Egress is deleted and made again with two changes, or changed while a request
fails. One fault is enough for a property whose exceptions are about the remains of one;
combinations of two are beyond the time a run should take.

The three violated runs show where the code does less than it, or a document of it, says:

* `NoAllocatePanic`: `nodePool.allocate` takes any request that arrives on the channel for the
  answer to its own. A notification that was under way when the caller timed out reaches the
  next caller; if the collector has returned that block meanwhile, `panic("bug: " + block)`.
* `OneBlockPerRequest` (`CHANGELOG.md`, #198): after a failed status update the retry looks for
  the block in a cache that may not have it.
* `GCSparesLiveNodes`: the collector deletes by name what it has judged by a cached label.

Other weaknesses are stated as exceptions of properties that otherwise hold; within their bounds
the runs find no others:

* A retried DEL panics after a `Free` that failed once its index was cleared
  (`FreePanicsOnlyAfterError`).
* `gc` forgets a block only after both calls of `deleteBlock`. If one fails, or its answer is
  lost, addresses of the block are still given out: the block is gone after a Delete with a lost
  answer, and a user's deletion takes it from under a pod once its finalizer is removed
  (`HeldBlock`, `LeaseSpec`).
* An IPv6 subnet 64 or more bits wider than a block looks empty (`NoBlockMeansFull`).
* The webhook checks neither that the subnets of a pool are of the same families, although
  `docs/usage.md` (lines 68-70) requires it, nor that they do not overlap; `BlocksCarved` is
  about pools whose subnets do not.
* `addPod` deletes a tunnel that another pod may need by now; an event is dropped when `Get`
  fails; a deletion that failed halfway cannot be retried (`ClientsServed`, `PeersKnowPods`).
* A change of an Egress seen before the pod is Running is not applied to it; the last
  destination of a family is never removed; two egresses with one destination never settle
  (`RoutesAsSpecified`, `Settles`).
* An Egress may name a destination twice, which the webhook accepts: `diffRoutes` adds it again
  although its route exists, `RouteAdd` fails, and ADD and every reconciliation end with that
  error (`Unsatisfiable` in `Settles`).
* Marks are not configured after a failure between routes and marks, nor in pods that had their
  routes before the flag was set (`MarksFollowFlag`).
* A budget changed from `minAvailable` to `maxUnavailable` is refused for ever (`BudgetStuck`).
* A router pod stopped between the steps of its set-up may never become ready: `FouAdd` is not
  idempotent (`ServedInTheEnd`).

### Fairness

`NodeIPAM!Fairness` is strong fairness of each thread. Go's mutexes are starvation free, so a
thread that waits for one gets it although others take it again and again; a thread between
waits is simply scheduled. The collector's thread includes its ticker and the start-up.
`AllocateFails` at `wait` is the time-out. Nothing is assumed of the controller, the watcher,
other nodes or users: every call ends and unused blocks go back even if no request is ever
answered. `PoolController!Fairness` is weak fairness of the workers' steps and of the informers,
and strong fairness of the AddressPool worker, which waits for `p.mu`. Nothing is assumed of
coild and of users. In `Router` the ticker ticks and the goroutines and the informer run. In
`NatServer` the process runs or is restarted by the kubelet, and the informer delivers. In
`NatClient` the runtime retries ADD, the watcher runs, and a queued Egress object is not passed
over for ever (strong fairness: a queue is a queue). In `EgressController` the same holds, the
garbage collector of the cluster works and Deployments roll out. Faults and changes are bounded
everywhere, never fair.

## 4. Proofs

The theorems hold for every value of the constants: any numbers of containers, pools, blocks,
nodes, pods, Egress objects and destinations, any block size, any bound on changes and faults
and any set of kinds of faults.

| module | theorem | statement |
|---|---|---|
| `NodeIPAMTypes` | `NextIndexIsClear`, `LastIsLastResort` | `allocate` picks a clear index of the block, and the one it gave last only if no other is clear |
| | `TypeCorrect` | `Spec => []TypeOK` |
| `NodeIPAMProofs` | `Invariant` | `Spec => []IInv` |
| | `AddressesUnique` | `Spec => []AddressUnique` |
| | `UsageIsAccounted` | `Spec => []UsageAccounted` |
| | `FreePanicNeedsError` | `Spec => []FreePanicsOnlyAfterError` |
| | `ReuseIsLastResort` | `Spec => NoImmediateReuse` |
| `NodeLeaseProofs` | `LeaseInvariant` | `Spec => [](IInv /\ LInv)` |
| | `BlocksAreHeld` | `Spec => []HeldBlock` |
| | `OwnBlocksDeleted` | `Spec => []DeletesOwnBlock` |
| | `ImplementsLease` | `Spec => LeaseSpec` |
| `PoolControllerProofs` | `Invariance` | `Spec => []IInv` |
| | `TypeCorrect` | `Spec => []TypeOK` |
| | `PoolGuarded` | `Spec => []PoolGuard` |
| | `BitsCover` | `Spec => []BitsCoverBlocks` |
| | `StaleBits` | `Spec => []StaleBitResynced` |
| | `PoolIsSafe` | `Spec => []PoolSafe` |
| | `CarvedFromPool` | `Spec => []BlocksCarved`, if no valid pool has overlapping subnets |
| | `RefusedWhenFull` | `Spec => NoBlockMeansFull` |
| `RouterProofs` | `Invariance` | `Spec => []IInv` |
| | `RoutesNeverClash` | `Spec => []NoClash` |
| | `ChangesArrive` | `Spec => []NoChangeLost` |
| `NatServerProofs` | `Invariance` | `Spec => []IInv` |
| | `TypeCorrect` | `Spec => []TypeOK` |
| | `ReadyIsConfigured` | `Spec => []ReadyConfigured` |
| | `PodsAreKnown` | `Spec => []PeersKnowPods` |
| | `EveryClientServed` | `Spec => []ClientsServed` |
| | `TunnelsHaveUsers` | `Spec => []NoGarbage` |
| `NatClientProofs` | `Invariance` | `Spec => []IInv` |
| | `TypeCorrect` | `Spec => []TypeOK` |
| | `RoutesAreAsSpecified` | `Spec => []RoutesAsSpecified` |
| | `ClusterTraffic` | `Spec => []ClusterTrafficStays` |
| | `MarksAreAsFlag` | `Spec => []MarksFollowFlag` |
| | `UpdatesKeepRoutes` | `Spec => KeepsRoutes` |
| `EgressControllerProofs` | `Invariance` | `Spec => []IInv` |
| | `TypeCorrect` | `Spec => []TypeOK` |
| | `AsSpecified` | `Spec => []EgressAsSpecified` |
| | `RolesFirst` | `Spec => RolesBeforeRouters` |

### Assumptions

`SizeAssumption` says that a block has an address. The other assumptions give the constants
their types and tell `None` and the like from other values, with these exceptions:

* `IndexAssumption` of `PoolController`: no valid pool has a block of index `N`, which is what
  `N` is declared to be. `PowersAssumption` there states two facts of arithmetic, that powers of
  two are positive and that `2^(h - b) * 2^b = 2^h`, because the provers know nothing of
  exponentiation. TLC evaluates both on every instance.
* `NatClientAssumption`: Egress objects have different Service addresses, as Kubernetes
  guarantees, and an Egress has a destination, which its schema requires (`MinItems=1` in
  `v2/api/v2/egress_types.go`).
* `NatServerAssumption`: the router pod has an address.
* `EgressControllerAssumption`: there are finitely many names of Egress objects, users have
  something to write into each that its webhook accepts, and the binding `coil-egress`, which the
  manifests create, exists.

### coild: `NodeIPAMTypes`, `NodeIPAMProofs`

`TInv` strengthens `TypeOK` with where a thread must have a pool and an answer (`PcOK`) and with
the order of start-up: register, collect, serve (`BootOK`).

`IInv` adds what uniqueness rests on. Its core are the *books*: every owned index is set
(`Held`), no two containers own the same address (`Unique`) and every set index has an owner
(`NoLeak`). Each operation of the allocator has a lemma that says how it moves the books. An
operation is entitled to its lemma by the rest of the invariant:

* A block is forgotten only when nobody owns an address of it. It was empty when the thread
  decided to return it, and it still is, because the thread holds the mutex of the pool from the
  decision to the deletion (`LockOK`, `TargetOK`, `EmptiesOK`) and whoever changes a bitset
  holds or takes that mutex (`Leaves`).
* A container that allocates has no address yet (`LocalOK`).
* After a request, the allocation is from a block of the pool whose mutex is held. That is so
  because the controller answers with a block of the request's pool, and informer, watcher and
  channel keep answers and pools together (`RequestsOK`).
* At start-up two containers register different addresses because the kernel never has two
  routes to one (`VethOK`, `BootInfoOK`).

All this but `RequestsOK` and `VethOK` fails once a `Free` has been abandoned after clearing its
index (`HalfFreed`): the container still has the address in `allocInfoMap` and another may get
it. This is why the properties have that exception. `UsageAccounted` has one more, a failed
route export in `Allocate` (`addSync`), which leaks an index. The theorems show that no other
fault breaks them.

`NoImmediateReuse` needs no books: every step moves the allocator of a block in one of five ways
(`NextMoves`), and while coild starts up the index given last is in use (`LastOK`).

### coild implements AddressLease: `NodeLeaseProofs`

`IInv` says which addresses are owned, not whose their blocks are. `BInv` adds that. The block of
an attached container is this node's and has its finalizer (`AttachedOK`), so nobody else can
make it go, and a coild that has lost its memory finds it again. The finalizer may be missing
only if `gc` has failed between the two calls of `deleteBlock` (`Guarded`, `Unguarded`); from
then on the block is safe only as long as no user deletes AddressBlocks. Any other block that coild knows
or that is this node's has its finalizer too, or it is *doomed*: a thread is at its Delete call,
or coild is starting up, no pod uses the block and the collector, which runs before the first
call, is still to come to it (`KnownOK`, `Doomed`). Without `Doomed` the invariant would be false
after a crash between the removal of the finalizer and the Delete call.

The refinement is proved step by step: each action either leaves the leases and the blocks
alone, ends leases, acquires a block, returns one that has no lease, or grants an address
(`NextLease`), and `StepRefines` turns this into a step of `AddressLease`. After one of the three
failures that the code does not survive (`Void`) the mapping takes `Abandon`.

### coil-ipam-controller: `PoolControllerProofs`

First the arithmetic: an index lies in one subnet, means the same addresses when subnets are
appended, and two indexes share none. `currentIndex` is a recursive function over the subnets;
what is needed of it for every subnet follows from its defining equation and a least
counterexample. Then the state machine. `PoolGuard` is not inductive. What the code relies on is
that API server, cache and worker have ever later versions of the pool (`LifeOK`, `SpecsOK`),
and that from the resync of a pool under deletion on no worker creates a block of it
(`GuardOK`): the BlockRequest worker, once it has the mutex of the pool, looks at a cache that
is not older than the one the resync started from, finds the mark and refuses.
`BitsCoverBlocks` and `StaleBitResynced` are part of the invariant as they are, with what each
worker has in hand (`WorkersOK`).

### coil-router: `RouterProofs`

`SyncOK` says what a sync still has to do: no two of its additions, and none of them and a route
it leaves alone, have one destination. For `NoChangeLost`, `CacheOK` and `KnownOK` say where the
news of a block is: with the informer, in the queue, in the channel, or in the map, the list, or
the routes of the sync under way. `NoChangeLost` is stated for the moment the loop waits;
`KnownOK` has a clause for each stage of the sync.

### Router pods: `NatServerProofs`

`PlanOK` says of the sequence of set-up steps ahead that everything a step stands for is done or
comes before it; so the marks in the namespace, which make a later process skip a part, tell the
truth. `NewsOK` follows a pod from the informer to `podAddrs`, `ServedOK` says that what
`podAddrs` has of a pod that nobody works on is in the kernel, and `KnownOK` that `peers` has it
too. `existsOtherLivePeers` compares a cardinality with one, so the sets of peers must be shown
to be finite.

### Client pods: `NatClientProofs`

Two threads change one namespace. For each tunnel of an Egress object the invariant says who
comes last, the watcher before ADD, and that this one has the present job for it; when nobody
comes any more, the job is in force (`SpecOK`, `Due`). `SyncOK` says what is left to do of the
routes of the tunnel under way, `NetOK` who may change the namespace, `RulesOK` that only an ADD
that has failed leaves the rules of a family half made, from which `ClusterTrafficStays` follows.
`MarksOK` and `CleanOK` say which marks can be wrong at each moment, with the flag and without.

### coil-egress-controller: `EgressControllerProofs`

First sorting: a finite set of namespaces can be listed in order, by a least counterexample, so
`Sorted` is what its definition asks for and `reconcileCRB` leaves out no namespace. Then the
state machine. `EgressAsSpecified` speaks of quiet states only. `SettledOK` is what makes it true
there: for each Egress object without news under way (`Seen`), its bindings, its service account,
each of its objects and its status are right, or the worker has yet to come to that step, or an
event of that very object is on its way. Four facts carry it through a step: caches that lag
behind have an event for it (`CacheOK`); the worker has the current Egress object, or will be
back (`WorkOK`); a write always leaves an event (`ApiStep`), and an event always leaves a place
in a queue (`EventStep`).

`RolesBeforeRouters` is about the middle of a reconciliation that may work on an Egress object
that is gone. `BoundOK` therefore speaks of the worker's own incarnation (`SameEgress`), and
`UidOK` says that an object made again has a greater uid. As long as it is the same incarnation
the cache has it, so neither reconciler drops its namespace from a binding without an event.

### Only model-checked

All liveness properties (`EveryCallReturns`, `UnusedBlockReturned`, `RoutesRestored`,
`EveryRequestAnswered`, `EmptyPoolRemoved`, `OrphansCollected`, `RoutesConverge`,
`ServedInTheEnd` and both `Settles`): fairness and `ENABLED` are outside what the prover handles.
The properties of the violated runs are false.

## 5. Not modelled

Pure I/O and glue: the CNI plugin's JSON, certificates, metrics, the installer, generated code,
flags. IP arithmetic of the allocator. `NodeInternalIP` and `Check`, which only read. In
`coildServer.Add` the look-ups of pod and namespace before `Allocate`. The netlink steps inside
`SetupIPAM` with their roll-back: it either makes the veth or leaves nothing. The data race on
`n.pools` in `syncUnregisteredPool` (its outcome, a runtime crash, is an action). The
expressions of iptables and nftables rules, and the contents of pod templates. In `NatClient`
two pods of one address. The route exporter of one node and the router of another are not
composed: they meet only in the AddressBlock objects, which each of the two modules lets change
freely.

## 6. Plan

Done: the modules above, the refinement of `AddressLease`, and a theorem for every invariant,
action property and refinement that a passing run checks.

Open: the liveness properties, which need a prover for fairness; and a module that composes
`NodeIPAM` with `PoolController`, so that each is the environment of the other.
