--------------------------- MODULE PoolController ---------------------------
(***************************************************************************)
(* coil-ipam-controller for one AddressPool: pkg/ipam/pool.go with the two *)
(* reconcilers that drive it (controllers/blockrequest_controller.go and   *)
(* controllers/addresspool_controller.go) and the collector of orphaned    *)
(* blocks (runners/garbage_collector.go).                                  *)
(*                                                                         *)
(* Each of the three has one worker, as controller-runtime gives them.     *)
(* They share the poolManager and the informer caches, which may lag       *)
(* behind the API server.  A step ends at every API call and where p.mu is *)
(* waited for; reads of a cache are part of the step that uses the value.  *)
(* A block is its index in the pool and the subnets carved for it, a       *)
(* request its UID.                                                        *)
(***************************************************************************)
EXTENDS AddressPool, FiniteSets

CONSTANTS
    Nodes,     \* node names
    Reqs,      \* UIDs of BlockRequests; each is created at most once
    NodeOf,    \* the node a request is for
    N,         \* bound on the indexes that the subnets of a pool have
    UintBits,  \* the width of Go's uint
    Created,   \* the specs that users create the AddressPool with
    Updated,   \* the specs that users update it to
    Collecting, \* whether an interval of the collector elapses
    Faults,    \* what may go wrong, or happen besides
    MaxFaults  \* bound on how often something does

FaultKinds == {"brList", "getPool", "create", "status", "sync", "isUsed",
               "apFin", "gc", "crash", "leave", "rejoin", "recreate"}

Index == 0 .. N - 1
Specs == Created \cup Updated
Nets == [Families -> [base: Nat, host: Nat] \cup {None}]
BlockObject == [req: Reqs, nets: Nets, fin: BOOLEAN, del: BOOLEAN]

ASSUME ConstantsAssumption ==
    /\ N \in Nat \ {0}
    /\ NodeOf \in [Reqs -> Nodes]
    /\ Faults \subseteq FaultKinds
    /\ MaxFaults \in Nat
    /\ None \notin Reqs
    /\ \A S \in SUBSET Index : S # None
    /\ None \notin BlockObject \cup Nets \cup Specs \cup [base: Nat, host: Nat]
    /\ UintBits \in Nat
    /\ Collecting \in BOOLEAN
    /\ Specs \subseteq [bits: Int, subnets: Seq(Nets)]

VARIABLES
  (* the API server *)
    pool,   \* the AddressPool; gen tells its incarnations apart
    blk,    \* the AddressBlock of each index
    req,    \* the BlockRequests
    nodes,  \* the Node objects
  (* the informers of the manager *)
    cpool, cblk, creq,  \* the objects as the caches have them
    gone,   \* a block was deleted and the event has not arrived
    apq,    \* the pool is in the queue of the AddressPool reconciler
    brq,    \* the queue of the BlockRequest reconciler
  (* the memory of the process *)
    bits,   \* pool.allocated of the object in poolManager.pools, None if absent
    br,     \* the BlockRequest worker
    ap,     \* the AddressPool worker
    gc,     \* the garbage collector
  (* observation *)
    failed, \* how many calls have failed, and what they have left behind: the
            \* bits not as the blocks are, a request not queued
    dropped \* DropPool has removed the object that AllocateBlock was using

api    == <<pool, blk, req, nodes>>
caches == <<cpool, cblk, creq, gone>>
queues == <<apq, brq>>
vars   == <<api, caches, queues, bits, br, ap, gc, failed, dropped>>

PoolObject == [gen: 0 .. MaxFaults + 1, st: {"absent", "live", "deleting"},
               spec: Specs \cup {None}]
RequestState == {"unborn", "pending", "granted", "failed", "gone"}
BlockMap == [Index -> BlockObject \cup {None}]

\* own is the bitset of a pool object that DropPool has removed from the
\* manager while the worker still uses it.
BRWorker == [pc: {"idle", "getPool", "lock", "create", "grant", "refuse"},
             u: Reqs \cup {None}, idx: Index \cup {-1}, nets: Nets \cup {None},
             own: (SUBSET Index) \cup {None}]
APWorker == [pc: {"idle", "drop", "getPool", "sync", "isUsed", "fin"},
             ap: PoolObject]
GCWorker == [pc: {"idle", "nodes", "fin", "delete"},
             todo: SUBSET [i: Index, n: Nodes], cur: Index \cup {-1}]

brIdle == [pc |-> "idle", u |-> None, idx |-> -1, nets |-> None,
           own |-> None]
noPool == [gen |-> 0, st |-> "absent", spec |-> None]
apIdle == [pc |-> "idle", ap |-> noPool]
gcIdle == [pc |-> "idle", todo |-> {}, cur |-> -1]

Used == {i \in Index : blk[i] # None}
Present == {u \in Reqs : req[u] \in {"pending", "granted", "failed"}}
Pending == {u \in Reqs : req[u] = "pending"}
Owner(b) == NodeOf[b.req]

Init ==
    /\ \E spec \in Created :
          /\ validate(spec)
          /\ pool = [gen |-> 1, st |-> "live", spec |-> spec]
    /\ blk = [i \in Index |-> None]
    /\ req = [u \in Reqs |-> "unborn"]
    /\ nodes = Nodes
    /\ cpool = pool
    /\ cblk = blk
    /\ creq = req
    /\ gone = FALSE
    /\ apq = TRUE
    /\ brq = {}
    /\ bits = None
    /\ br = brIdle
    /\ ap = apIdle
    /\ gc = gcIdle
    /\ failed = [count |-> 0, left |-> {}]
    /\ dropped = FALSE

-----------------------------------------------------------------------------
(* Building blocks *)

\* Bound: MaxFaults failures and other rare events, of the kinds in Faults.
MayFail(kind) == kind \in Faults /\ failed.count < MaxFaults

FailsLeaving(kind, what) ==
    /\ MayFail(kind)
    /\ failed' = [count |-> failed.count + 1, left |-> failed.left \cup what]

Fails(kind) == FailsLeaving(kind, {})

\* The API server removes the block of index i: its deletion is an event.
Remove(i) ==
    /\ blk' = [blk EXCEPT ![i] = None]
    /\ gone' = (gone \/ blk[i] # None)

\* controller-runtime puts the key back into the queue after an error.
RequeueBR ==
    /\ br' = brIdle
    /\ brq' = brq \cup {br.u}
    /\ UNCHANGED apq

RequeueAP ==
    /\ ap' = apIdle
    /\ apq' = TRUE
    /\ UNCHANGED brq

\* poolManager.getPool: an unknown pool is synchronised with the API server
\* and stored.  It is an error if the AddressPool is not found in the cache.
getPool ==
    \/ /\ bits # None
       /\ UNCHANGED bits
    \/ /\ bits = None
       /\ cpool.st # "absent"
       /\ bits' = Used

getPoolFails ==
    /\ bits = None
    /\ \/ cpool.st = "absent" /\ UNCHANGED failed
       \/ Fails("getPool")
    /\ UNCHANGED bits

\* p.mu of the object in the manager is held by the BlockRequest worker.
Locked == br.pc = "create" /\ br.own = None

-----------------------------------------------------------------------------
(* BlockRequestReconciler.Reconcile *)

\* The blocks that the cache knows to be labelled with the request.
CachedBlocksOf(u) == {i \in Index : cblk[i] # None /\ cblk[i].req = u}

\* Get and List read the caches.  A request that is gone or completed is
\* dropped; one that has a block already only lacks its status.
BRStart(u) ==
    /\ br.pc = "idle"
    /\ u \in brq
    /\ brq' = brq \ {u}
    /\ \/ /\ creq[u] # "pending"
          /\ UNCHANGED br
       \/ /\ creq[u] = "pending"
          /\ CachedBlocksOf(u) # {}
          /\ br' = [brIdle EXCEPT !.pc = "grant", !.u = u]
       \/ /\ creq[u] = "pending"
          /\ CachedBlocksOf(u) = {}
          /\ br' = [brIdle EXCEPT !.pc = "getPool", !.u = u]
    /\ UNCHANGED <<api, caches, apq, bits, ap, gc, failed, dropped>>

\* The List error is logged and the request is not put back.
BRListFails(u) ==
    /\ br.pc = "idle"
    /\ u \in brq
    /\ creq[u] = "pending"
    /\ FailsLeaving("brList", {"request"})
    /\ brq' = brq \ {u}
    /\ UNCHANGED <<api, caches, apq, bits, br, ap, gc, dropped>>

BRGetPool ==
    /\ br.pc = "getPool"
    /\ getPool
    /\ br' = [br EXCEPT !.pc = "lock"]
    /\ UNCHANGED <<api, caches, queues, ap, gc, failed, dropped>>

BRGetPoolFails ==
    /\ br.pc = "getPool"
    /\ getPoolFails
    /\ RequeueBR
    /\ UNCHANGED <<api, caches, ap, gc, dropped>>

\* The bitset of the object the worker got from the manager.
ownBits == IF br.own = None THEN bits ELSE br.own

Lowest(S) == CHOOSE i \in S : \A j \in S : i <= j

\* bitset.NextClear(0), or Len if every bit is set.
NextClear(S) == Lowest((0 .. N) \ S)

\* The blocks of a subnet, in Go's uint: the shift may leave none.
size(spec, k) == 2^(HostBits(spec.subnets[k]) - spec.bits) % 2^UintBits

\* currentIndex when the loop comes to a subnet.
currentIndex(spec) ==
    LET f[k \in DOMAIN spec.subnets] ==
            IF k = 1 THEN 0 ELSE (f[k - 1] + size(spec, k - 1)) % 2^UintBits
    IN  f

\* Mutant of subnetsOf: only the first subnet is looked at.
subnetsOfFirst(spec, i) ==
    {k \in {1} : i < (currentIndex(spec)[k] + size(spec, k)) % 2^UintBits}

\* The subnets that the loop does not skip for an index.
subnetsOf(spec, i) ==
    {k \in DOMAIN spec.subnets :
        i < (currentIndex(spec)[k] + size(spec, k)) % 2^UintBits}

\* The first of them gives the block.
carve(spec, i) ==
    LET k == Lowest(subnetsOf(spec, i))
    IN  GetBlock(spec.subnets[k], i - currentIndex(spec)[k], spec.bits)

\* N is what its comment says: no valid pool has a block of index N.
ASSUME IndexAssumption ==
    \A spec \in Specs : validate(spec) => subnetsOf(spec, N) = {}

\* Facts of arithmetic that hold of every constant: the provers know nothing of
\* exponentiation.
ASSUME PowersAssumption ==
    /\ 2^UintBits > 0
    /\ \A spec \in Specs : validate(spec) =>
          /\ 2^spec.bits > 0
          /\ \A k \in DOMAIN spec.subnets :
                LET h == HostBits(spec.subnets[k])
                IN  /\ 2^(h - spec.bits) > 0
                    /\ 2^(h - spec.bits) * 2^spec.bits = 2^h

\* pool.AllocateBlock takes p.mu, looks for the lowest clear index, and gives
\* up if the cached pool is under deletion or the index is beyond its subnets.
BRAllocate ==
    LET next == NextClear(ownBits)
    IN  /\ br.pc = "lock"
        /\ cpool.st # "absent"
        /\ br' = IF cpool.st = "deleting" \/ subnetsOf(cpool.spec, next) = {}
                 THEN [br EXCEPT !.pc = "refuse", !.own = None]
                 ELSE [br EXCEPT !.pc = "create", !.idx = next,
                                 !.nets = carve(cpool.spec, next)]
        /\ UNCHANGED <<api, caches, queues, bits, ap, gc, failed, dropped>>

\* The pool has left the cache.
BRAllocateFails ==
    /\ br.pc = "lock"
    /\ cpool.st = "absent"
    /\ RequeueBR
    /\ UNCHANGED <<api, caches, bits, ap, gc, failed, dropped>>

newBlock == [req |-> br.u, nets |-> br.nets, fin |-> TRUE, del |-> FALSE]

\* Mutants of SetBit: the bit is not set; the next one is.
SetNoBit == UNCHANGED bits
SetNextBit == bits' = IF br.own = None THEN bits \cup {br.idx + 1} ELSE bits

\* The bit is set once the block has been created.
SetBit == bits' = IF br.own = None THEN bits \cup {br.idx} ELSE bits

BRCreate ==
    /\ br.pc = "create"
    /\ blk[br.idx] = None
    /\ blk' = [blk EXCEPT ![br.idx] = newBlock]
    /\ SetBit
    /\ br' = [brIdle EXCEPT !.pc = "grant", !.u = br.u]
    /\ UNCHANGED <<pool, req, nodes, caches, queues, ap, gc, failed, dropped>>

\* A block of that name exists, or the call fails; a failed call may have
\* been carried out, but the bit is not set.
BRCreateFails ==
    /\ br.pc = "create"
    /\ \/ blk[br.idx] # None /\ UNCHANGED <<blk, failed>>
       \/ /\ Fails("create")
          /\ blk[br.idx] = None
          /\ UNCHANGED blk
       \/ /\ FailsLeaving("create", {"bits"})
          /\ blk[br.idx] = None
          /\ blk' = [blk EXCEPT ![br.idx] = newBlock]
    /\ RequeueBR
    /\ UNCHANGED <<pool, req, nodes, caches, bits, ap, gc, dropped>>

answer == IF br.pc = "grant" THEN "granted" ELSE "failed"

\* The status update carries the UID and the version of the cached request.
BRStatus ==
    /\ br.pc \in {"grant", "refuse"}
    /\ req[br.u] = "pending"
    /\ req' = [req EXCEPT ![br.u] = answer]
    /\ br' = brIdle
    /\ UNCHANGED <<pool, blk, nodes, caches, queues, bits, ap, gc, failed, dropped>>

\* It conflicts with another one, or the request is gone, or the call fails.
BRStatusFails ==
    /\ br.pc \in {"grant", "refuse"}
    /\ \/ req[br.u] # "pending" /\ UNCHANGED <<req, failed>>
       \/ /\ Fails("status")
          /\ req[br.u] = "pending"
          /\ req' \in {req, [req EXCEPT ![br.u] = answer]}
    /\ RequeueBR
    /\ UNCHANGED <<pool, blk, nodes, caches, bits, ap, gc, dropped>>

-----------------------------------------------------------------------------
(* AddressPoolReconciler.Reconcile *)

APStart ==
    /\ ap.pc = "idle"
    /\ apq
    /\ apq' = FALSE
    /\ ap' = [pc |-> IF cpool.st = "absent" THEN "drop" ELSE "getPool",
              ap |-> cpool]
    /\ UNCHANGED <<api, caches, brq, bits, br, gc, failed, dropped>>

\* A BlockRequest worker inside AllocateBlock keeps the dropped object.
APDropPool ==
    /\ ap.pc = "drop"
    /\ bits' = None
    /\ br' = IF br.pc \in {"lock", "create"} /\ br.own = None
             THEN [br EXCEPT !.own = bits] ELSE br
    /\ dropped' = (dropped \/ br.pc \in {"lock", "create"})
    /\ ap' = apIdle
    /\ failed' = [failed EXCEPT !.left = @ \ {"bits"}]
    /\ UNCHANGED <<api, caches, queues, gc>>

APGetPool ==
    /\ ap.pc = "getPool"
    /\ getPool
    /\ ap' = [ap EXCEPT !.pc = "sync"]
    /\ UNCHANGED <<api, caches, queues, br, gc, failed, dropped>>

APGetPoolFails ==
    /\ ap.pc = "getPool"
    /\ getPoolFails
    /\ RequeueAP
    /\ UNCHANGED <<api, caches, br, gc, dropped>>

\* Mutant of resynced: bits are only added.
resyncedMore == bits \cup Used

resynced == Used

\* Mutant of SyncFree: p.mu is not taken.
SyncUnlocked == TRUE

\* p.mu can be taken.
SyncFree == ~Locked

\* pool.SyncBlocks: under p.mu the bits are cleared and set from a list of
\* the API server.
APSyncBlocks ==
    /\ ap.pc = "sync"
    /\ SyncFree
    /\ cpool.st # "absent"
    /\ bits' = resynced
    /\ failed' = [failed EXCEPT !.left = @ \ {"bits"}]
    /\ ap' = IF ap.ap.st = "deleting" THEN [ap EXCEPT !.pc = "isUsed"] ELSE apIdle
    /\ UNCHANGED <<api, caches, queues, br, gc, dropped>>

\* The pool has left the cache, or the list fails after the bits are cleared.
APSyncFails ==
    /\ ap.pc = "sync"
    /\ \/ cpool.st = "absent" /\ UNCHANGED <<bits, failed>>
       \/ /\ cpool.st # "absent"
          /\ SyncFree
          /\ FailsLeaving("sync", {"bits"})
          /\ bits' = {}
    /\ RequeueAP
    /\ UNCHANGED <<api, caches, br, gc, dropped>>

\* Mutant of InUse: the cache is asked instead of the API server.
InUseCached == \E i \in Index : cblk[i] # None

\* pool.IsUsed lists the blocks with the API reader.
InUse == Used # {}

APIsUsed ==
    /\ ap.pc = "isUsed"
    /\ ap' = IF InUse THEN apIdle ELSE [ap EXCEPT !.pc = "fin"]
    /\ UNCHANGED <<api, caches, queues, bits, br, gc, failed, dropped>>

APIsUsedFails ==
    /\ ap.pc = "isUsed"
    /\ Fails("isUsed")
    /\ RequeueAP
    /\ UNCHANGED <<api, caches, bits, br, gc, dropped>>

poolRemoved == [pool EXCEPT !.st = "absent", !.spec = None]

\* The finalizer is removed from the version read at the start; a pool under
\* deletion then goes.
APRemoveFinalizer ==
    /\ ap.pc = "fin"
    /\ pool = ap.ap
    /\ pool' = poolRemoved
    /\ ap' = apIdle
    /\ UNCHANGED <<blk, req, nodes, caches, queues, bits, br, gc, failed, dropped>>

APRemoveFinalizerFails ==
    /\ ap.pc = "fin"
    /\ \/ pool # ap.ap /\ UNCHANGED <<pool, failed>>
       \/ /\ Fails("apFin")
          /\ pool = ap.ap
          /\ pool' \in {pool, poolRemoved}
    /\ RequeueAP
    /\ UNCHANGED <<blk, req, nodes, caches, bits, br, gc, dropped>>

-----------------------------------------------------------------------------
(* The manager process and garbageCollector *)

\* A new leader starts with empty memory and caches that are in sync with the
\* API server; b is the state of the blocks there.
Restart(b) ==
    /\ cpool' = pool
    /\ cblk' = b
    /\ creq' = req
    /\ gone' = FALSE
    /\ apq' = (pool.st # "absent")
    /\ brq' = Pending
    /\ bits' = None
    /\ br' = brIdle
    /\ ap' = apIdle
    /\ gc' = gcIdle
    /\ failed' = [count |-> failed.count + 1, left |-> {}]

\* The process dies; a Create call on its way may still be carried out.
Crash ==
    /\ MayFail("crash")
    /\ \/ UNCHANGED blk
       \/ /\ br.pc = "create"
          /\ blk[br.idx] = None
          /\ blk' = [blk EXCEPT ![br.idx] = newBlock]
    /\ Restart(blk')
    /\ UNCHANGED <<pool, req, nodes, dropped>>

\* garbageCollector.do lists the blocks in the cache ...  Bound: an instance
\* may be shorter than the interval.
GCList ==
    /\ Collecting
    /\ gc.pc = "idle"
    /\ gc' = [gcIdle EXCEPT !.pc = "nodes",
                !.todo = {[i |-> i, n |-> Owner(cblk[i])] :
                             i \in {j \in Index : cblk[j] # None}}]
    /\ UNCHANGED <<api, caches, queues, bits, br, ap, failed, dropped>>

\* Mutant of orphans: the test is inverted.
orphansInverted(S) == {t \in S : t.n \in nodes}

orphans(S) == {t \in S : t.n \notin nodes}

\* The collector goes on with the blocks S, or waits for the next interval.
GCContinue(S) ==
    gc' = IF S = {} THEN gcIdle ELSE [gcIdle EXCEPT !.pc = "fin", !.todo = S]

\* ... then the nodes at the API server ...
GCNodes ==
    /\ gc.pc = "nodes"
    /\ GCContinue(orphans(gc.todo))
    /\ UNCHANGED <<api, caches, queues, bits, br, ap, failed, dropped>>

\* ... and deletes the blocks without a node, by name: first the finalizer,
GCRemoveFinalizer(i) ==
    /\ gc.pc = "fin"
    /\ \E t \in gc.todo : t.i = i
    /\ \/ blk[i] = None /\ UNCHANGED <<blk, gone>>
       \/ /\ blk[i] # None /\ blk[i].del
          /\ Remove(i)
       \/ /\ blk[i] # None /\ ~blk[i].del
          /\ blk' = [blk EXCEPT ![i].fin = FALSE]
          /\ UNCHANGED gone
    /\ gc' = [gc EXCEPT !.pc = "delete", !.cur = i]
    /\ UNCHANGED <<pool, req, nodes, cpool, cblk, creq, queues, bits, br, ap,
                   failed, dropped>>

\* then the object.
GCDelete ==
    LET i == gc.cur
    IN  /\ gc.pc = "delete"
        /\ \/ blk[i] = None /\ UNCHANGED <<blk, gone>>
           \/ /\ blk[i] # None /\ blk[i].fin
              /\ blk' = [blk EXCEPT ![i].del = TRUE]
              /\ UNCHANGED gone
           \/ /\ blk[i] # None /\ ~blk[i].fin
              /\ Remove(i)
        /\ GCContinue({t \in gc.todo : t.i # i})
        /\ UNCHANGED <<pool, req, nodes, cpool, cblk, creq, queues, bits, br,
                       ap, failed, dropped>>

\* An error ends the runner and with it the process.
GCFails ==
    /\ gc.pc # "idle"
    /\ MayFail("gc")
    /\ Restart(blk)
    /\ UNCHANGED <<api, dropped>>

-----------------------------------------------------------------------------
(* The informers *)

\* An event of the AddressPool: every one is queued.
ObservePool ==
    /\ cpool # pool
    /\ cpool' = pool
    /\ apq' = TRUE
    /\ UNCHANGED <<api, cblk, creq, gone, brq, bits, br, ap, gc, failed, dropped>>

\* Mutant of wakes: the predicate drops deletions too.
wakesNever == FALSE

\* Of the events of AddressBlocks only a deletion passes the predicates.
wakes == gone

\* It queues the pool that owns the block.
ObserveBlocks ==
    /\ cblk # blk \/ gone
    /\ cblk' = blk
    /\ gone' = FALSE
    /\ apq' = (apq \/ wakes)
    /\ UNCHANGED <<api, cpool, creq, brq, bits, br, ap, gc, failed, dropped>>

\* Mutant of passes: the filter is that of the watcher in coild.
passesCompleted == {u \in Present \ Pending : creq[u] # req[u]}

\* The filter passes the new and changed BlockRequests without conditions.
passes == {u \in Pending : creq[u] # req[u]}

ObserveRequests ==
    /\ creq # req
    /\ creq' = req
    /\ brq' = brq \cup passes
    /\ UNCHANGED <<api, cpool, cblk, gone, apq, bits, br, ap, gc, failed, dropped>>

-----------------------------------------------------------------------------
(* coild, the users and the rest of the cluster *)

Internal == <<cpool, cblk, creq, queues, bits, br, ap, gc, dropped>>

\* coild requests a block; its request has a fixed name, so there is one per
\* node at a time.
CreateRequest(u) ==
    /\ req[u] = "unborn"
    /\ NodeOf[u] \in nodes
    /\ \A v \in Present : NodeOf[v] # NodeOf[u]
    /\ req' = [req EXCEPT ![u] = "pending"]
    /\ UNCHANGED <<pool, blk, nodes, gone, Internal, failed>>

\* coild deletes the old request before the next, answered or not; the API
\* server deletes the requests of a node that has left.
DeleteRequest(u) ==
    /\ u \in Present
    /\ req' = [req EXCEPT ![u] = "gone"]
    /\ UNCHANGED <<pool, blk, nodes, gone, Internal, failed>>

\* coild returns an empty block.
ReturnBlock(i) ==
    /\ blk[i] # None
    /\ Owner(blk[i]) \in nodes
    /\ Remove(i)
    /\ UNCHANGED <<pool, req, nodes, Internal, failed>>

\* The webhook validates the spec and adds the finalizer.
CreatePool(spec) ==
    /\ Fails("recreate")
    /\ pool.st = "absent"
    /\ validate(spec)
    /\ pool' = [gen |-> pool.gen + 1, st |-> "live", spec |-> spec]
    /\ UNCHANGED <<blk, req, nodes, gone, Internal>>

UpdatePool(spec) ==
    /\ pool.st # "absent"
    /\ pool.spec # spec
    /\ validateUpdate(spec, pool.spec)
    /\ pool' = [pool EXCEPT !.spec = spec]
    /\ UNCHANGED <<blk, req, nodes, gone, Internal, failed>>

\* The finalizer keeps the pool until the controller removes it.
DeletePool ==
    /\ pool.st = "live"
    /\ pool' = [pool EXCEPT !.st = "deleting"]
    /\ UNCHANGED <<blk, req, nodes, gone, Internal, failed>>

LeaveNode(n) ==
    /\ Fails("leave")
    /\ n \in nodes
    /\ nodes' = nodes \ {n}
    /\ UNCHANGED <<pool, blk, req, gone, Internal>>

\* Bound: as often as nodes leave.
RejoinNode(n) ==
    /\ "rejoin" \in Faults
    /\ n \in Nodes \ nodes
    /\ nodes' = nodes \cup {n}
    /\ UNCHANGED <<pool, blk, req, gone, Internal, failed>>

-----------------------------------------------------------------------------

BRStep ==
    \/ \E u \in Reqs : BRStart(u) \/ BRListFails(u)
    \/ BRGetPool \/ BRGetPoolFails \/ BRAllocate \/ BRAllocateFails
    \/ BRCreate \/ BRCreateFails \/ BRStatus \/ BRStatusFails

APStep ==
    \/ APStart \/ APDropPool \/ APGetPool \/ APGetPoolFails
    \/ APSyncBlocks \/ APSyncFails \/ APIsUsed \/ APIsUsedFails
    \/ APRemoveFinalizer \/ APRemoveFinalizerFails

GCStep ==
    \/ GCList \/ GCNodes \/ GCDelete \/ GCFails
    \/ \E i \in Index : GCRemoveFinalizer(i)

Informer == ObservePool \/ ObserveBlocks \/ ObserveRequests

Environment ==
    \/ Crash \/ DeletePool
    \/ \E spec \in Created : CreatePool(spec)
    \/ \E spec \in Updated : UpdatePool(spec)
    \/ \E u \in Reqs : CreateRequest(u) \/ DeleteRequest(u)
    \/ \E i \in Index : ReturnBlock(i)
    \/ \E n \in Nodes : LeaveNode(n) \/ RejoinNode(n)

Next == BRStep \/ APStep \/ GCStep \/ Informer \/ Environment

Spec == Init /\ [][Next]_vars

(***************************************************************************)
(* The workers run and the informers deliver.  The AddressPool worker    *)
(* waits for p.mu, which is starvation free, hence SF for it.  Nothing is  *)
(* assumed of coild, of the users and of the nodes.                        *)
(***************************************************************************)
Fairness ==
    /\ WF_vars(BRStep)
    /\ SF_vars(APStep)
    /\ WF_vars(GCStep)
    /\ WF_vars(ObservePool)
    /\ WF_vars(ObserveBlocks)
    /\ WF_vars(ObserveRequests)

LiveSpec == Spec /\ Fairness

-----------------------------------------------------------------------------
(* Properties *)

\* The values the variables take.
TypeOK ==
    /\ pool \in PoolObject
    /\ blk \in BlockMap
    /\ req \in [Reqs -> RequestState]
    /\ nodes \subseteq Nodes
    /\ cpool \in PoolObject
    /\ cblk \in BlockMap
    /\ creq \in [Reqs -> RequestState]
    /\ gone \in BOOLEAN
    /\ apq \in BOOLEAN
    /\ brq \subseteq Reqs
    /\ bits \in (SUBSET Index) \cup {None}
    /\ br \in BRWorker
    /\ ap \in APWorker
    /\ gc \in GCWorker
    /\ failed \in [count: 0 .. MaxFaults, left: SUBSET {"bits", "request"}]
    /\ dropped \in BOOLEAN

\* An AddressPool goes only when no AddressBlock of it is left: a block being
\* created when the deletion is requested is waited for (SyncPool takes p.mu),
\* and none is created afterwards (AllocateBlock reads the same cache).  The
\* exception: a pool created again before the DropPool of the old one has run.
PoolGuard == dropped \/ (pool.st = "absent" => Used = {})

\* The bitset never takes an existing block for free, so that AllocateBlock
\* does not run into AlreadyExists: neither after a resync racing a creation
\* nor after a change of leader.  The exceptions: until the next resync, a
\* Create call with a lost answer and a list that fails after ClearAll; a pool
\* object that is replaced.
BitsCoverBlocks ==
    \/ dropped
    \/ "bits" \in failed.left
    \/ bits = None
    \/ Used \subseteq bits

\* The index of a returned block is not lost: as long as its bit is set a
\* resync of the pool is queued, running, or will be queued by the deletion
\* event on its way.
StaleBitResynced ==
    \A i \in Index :
       bits # None /\ i \in bits /\ blk[i] = None =>
          gone \/ apq \/ ap.pc \in {"drop", "getPool", "sync"}

\* The three together, for the collector, nodes that leave and a pool that is
\* made again.
PoolSafe == PoolGuard /\ BitsCoverBlocks /\ StaleBitResynced

\* The addresses of a block are inside a subnet of the pool as it is now, and
\* no two blocks share one, whatever is appended to the pool while the cache
\* lags and blocks are created and returned: an index means the same addresses
\* for as long as the pool lives (if its subnets do not overlap).  The
\* exception is that of PoolGuard.
BlocksCarved ==
    \/ dropped
    \/ \A i \in Used :
          /\ \E k \in DOMAIN pool.spec.subnets :
                Inside(blk[i].nets, pool.spec.subnets[k])
          /\ \A j \in Used \ {i} : ~Overlap(blk[i].nets, blk[j].nets)

\* The blocks that the subnets of a spec have room for.
Room(spec) ==
    LET f[k \in 0 .. Len(spec.subnets)] ==
            IF k = 0 THEN 0
            ELSE f[k - 1] + 2^(HostBits(spec.subnets[k]) - spec.bits)
    IN  f[Len(spec.subnets)]

\* AllocateBlock answers ErrNoBlock only if the pool it sees is under deletion
\* or has no room for another block.  The exception: so much room that it
\* overflows uint (an IPv6 subnet 64 bits wider than a block looks empty).
NoBlockMeansFull ==
    [][br.pc # "refuse" /\ br'.pc = "refuse" =>
          \/ cpool.st = "deleting"
          \/ Room(cpool.spec) >= 2^UintBits
          \/ Cardinality(ownBits) >= Room(cpool.spec)]_vars

\* A request that stays is answered as long as the pool is not deleted: no
\* event, requeue or resync is lost.  The List error that is not retried and
\* the lost answer of a Create call are the exceptions.
EveryRequestAnswered ==
    \A u \in Reqs :
       (req[u] = "pending" /\ pool.st = "live")
       ~> \/ req[u] # "pending" \/ pool.st # "live"
          \/ failed.left # {}

\* A pool under deletion without blocks goes: the deletion of its last block
\* wakes up the reconciler that had seen it in use.
EmptyPoolRemoved ==
    (pool.st = "deleting" /\ Used = {})
    ~> (pool.st # "deleting" \/ Used # {})

\* Blocks of nodes that have left are collected.
OrphansCollected ==
    \A i \in Index :
       (blk[i] # None /\ Owner(blk[i]) \notin nodes)
       ~> (blk[i] = None \/ Owner(blk[i]) \in nodes)

-----------------------------------------------------------------------------
(* What the documents say and the code does not guarantee *)

\* CHANGELOG.md:320: "Fix not to create multiple address blocks for a single
\* request".
OneBlockPerRequest ==
    \A i, j \in Index :
       i # j /\ blk[i] # None /\ blk[j] # None => blk[i].req # blk[j].req

\* docs/cmd-coil-ipam-controller.md:19: it "checks orphaned address blocks and
\* deletes them": the blocks of nodes that exist are not touched.
GCSparesLiveNodes ==
    [][\A i \in Index :
          (/\ gc.pc \in {"fin", "delete"} /\ gc' # gc
           /\ blk[i] # None /\ Owner(blk[i]) \in nodes)
          => blk'[i] = blk[i]]_vars

=============================================================================
