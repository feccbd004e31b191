------------------------------ MODULE NodeIPAM ------------------------------
(***************************************************************************)
(* coild on one node ("me"): pkg/ipam/node.go with the handlers that drive *)
(* it (runners/coild_server.go, controllers/blockrequest_watcher.go,       *)
(* cmd/coild/sub/run.go).                                                  *)
(*                                                                         *)
(* Threads are the gRPC calls of the containers (the CNI protocol never    *)
(* runs two calls of one container at a time), the garbage collector and   *)
(* the BlockRequest watcher.  A step ends at every API call, at every      *)
(* blocking lock and where the code waits, because that is where threads   *)
(* interleave.  A coild crash loses the memory and keeps the kernel state  *)
(* (veths, exported routes) and the API objects.                           *)
(***************************************************************************)
EXTENDS Allocator, FiniteSets, Sequences

CONSTANTS
    Containers,  \* pod sandboxes; one (containerID, iface) key each
    GC,          \* the thread that runs nodeIPAM.GC
    Pools,       \* names of AddressPools
    Blocks,      \* names of AddressBlocks: <pool>-<index>
    PoolOf,      \* the pool a block is carved from
    Reserved,    \* blocks of this node labelled coil.cybozu.com/reserved
    Faults,      \* what may go wrong: a subset of FaultKinds
    MaxReq,      \* bound on the BlockRequests created in a behaviour
    None

FaultKinds ==
    {"getPool", "delReq", "mkReq", "syncBlock", "fin", "delete", "addSync",
     "freeSync", "setup", "gcFin", "gcFinLost", "gcDelete", "gcDeleteLost",
     "gcList", "crash", "reboot", "userDelete", "otherNode", "nodeDeleted"}

ASSUME ConstantsAssumption ==
    /\ GC \notin Containers
    /\ PoolOf \in [Blocks -> Pools]
    /\ Reserved \subseteq Blocks
    /\ Faults \subseteq FaultKinds
    /\ MaxReq \in Nat
    /\ Blocks \cap {"pending", "failed"} = {}
    /\ None \notin Containers \cup {GC} \cup Pools \cup Blocks
    /\ None \notin {"pending", "failed"}
    /\ None \notin AllocatorState
    /\ None \notin [b: Blocks, i: Index]
    /\ None \notin [id: Nat, res: Blocks \cup {"pending", "failed"}]

VARIABLES
  (* the API server *)
    blk,        \* AddressBlock objects: who owns them, finalizer, deletion mark
    req,        \* the BlockRequest req-<pool>-me of each pool
    reqs,       \* BlockRequests created so far; gives each one its UID
    grant,      \* a block the controller made for a request not yet answered
  (* the informer behind the watcher of this coild *)
    events,     \* changes of req[p] not yet seen
    cache,      \* req[p] as the informer knows it
    dirty,      \* req[p] is in the work queue
    notifying,  \* the Notify call in progress
  (* the memory of coild *)
    mode,       \* "boot" until the start-up GC is done, then "up"
    boot,       \* containers found by podNet.List, still to be registered
    nmu, pmu,   \* holders of nodeIPAM.mu and of each nodePool.mu
    pools,      \* keys of nodeIPAM.pools
    alloc,      \* nodePool.blockAlloc of all pools
    info,       \* allocInfoMap
    th,         \* program counter and locals of every thread
    visit,      \* pools the GC has still to handle
    empties,    \* empty blocks of the pool the GC is in
  (* the kernel *)
    veth,       \* the address routed to the container's veth
    routes,     \* blocks exported to the routing table
  (* observation *)
    failed,     \* kinds of faults that have happened
    panicked    \* panics that have happened

api    == <<blk, req, reqs, grant>>
watch  == <<events, cache, dirty, notifying>>
locks  == <<nmu, pmu>>
known  == <<pools, alloc>>
gcv    == <<visit, empties>>
proc   == <<mode, boot>>
kernel == <<veth, routes>>
world  == <<api, watch, proc, panicked>>
vars   == <<api, watch, proc, locks, known, info, th, gcv, kernel,
            failed, panicked>>

Threads == Containers \cup {GC}
Addr    == [b: Blocks, i: Index]
Answer  == Blocks \cup {"failed"}
Request == [id: Nat, res: Answer \cup {"pending"}]
Orphan(S) == S \cup {None}

PCs == {"idle", "getPool", "alloc", "delReq", "mkReq", "created", "wait",
        "got", "list", "export", "setup", "free", "rmFin", "delete",
        "scan", "getPools", "gcPool", "gcBlocks"}

Thread == [pc: PCs, pool: Orphan(Pools), addr: Orphan(Addr),
           got: Orphan(Answer), target: Orphan(Blocks), snap: SUBSET Blocks]

idle == [pc |-> "idle", pool |-> None, addr |-> None, got |-> None,
         target |-> None, snap |-> {}]

Object == [owner: {"none", "me", "other"}, fin: BOOLEAN, del: BOOLEAN]
absent == [owner |-> "none", fin |-> FALSE, del |-> FALSE]

\* Mutant of created: without the finalizer.
createdBare(n) == [owner |-> n, fin |-> FALSE, del |-> FALSE]

\* The object as AllocateBlock makes it for node n.
created(n) == [owner |-> n, fin |-> TRUE, del |-> FALSE]

Mine == {b \in Blocks : blk[b].owner = "me"}
InPool(p) == {b \in Blocks : PoolOf[b] = p}

Init ==
    /\ blk = [b \in Blocks |-> IF b \in Reserved THEN created("me") ELSE absent]
    /\ req = [p \in Pools |-> None]
    /\ reqs = 0
    /\ grant = [p \in Pools |-> None]
    /\ events = [p \in Pools |-> <<>>]
    /\ cache = [p \in Pools |-> None]
    /\ dirty = [p \in Pools |-> FALSE]
    /\ notifying = None
    /\ mode = "boot"
    /\ boot = {}
    /\ nmu = None
    /\ pmu = [p \in Pools |-> None]
    /\ pools = {}
    /\ alloc = [b \in Blocks |-> None]
    /\ info = [c \in Containers |-> None]
    /\ th = [g \in Threads |-> idle]
    /\ visit = {}
    /\ empties = {}
    /\ veth = [c \in Containers |-> None]
    /\ routes = {}
    /\ failed = {}
    /\ panicked = {}

-----------------------------------------------------------------------------
(* Building blocks *)

\* failed only keeps the kinds that some property makes an exception for.
Recorded == {"fin", "delete", "freeSync", "addSync", "gcFinLost", "gcDelete",
             "gcDeleteLost", "userDelete"}
Fails(kind) == /\ kind \in Faults
               /\ failed' = failed \cup ({kind} \cap Recorded)

Return(c) == th' = [th EXCEPT ![c] = idle]

Goto(g, label) == th' = [th EXCEPT ![g].pc = label]

\* Mutant of Unlock: the lock is kept.
KeepLocked(p) == UNCHANGED pmu

Unlock(p) == pmu' = [pmu EXCEPT ![p] = None]

Completed(r) == r # None /\ r.res # "pending"

\* A change of the BlockRequest object, announced to the informer.
SetRequest(p, r) ==
    /\ req' = [req EXCEPT ![p] = r]
    /\ events' = [events EXCEPT ![p] = Append(@, r)]

\* syncBlock: learn the blocks of the pool labelled with this node that are
\* not known yet; a known block is left alone.
newBlock(b) == IF b \in Reserved THEN fill ELSE newAllocator

\* Mutant of syncBlock: nothing is learnt.
syncBlockNothing(p) == alloc

syncBlock(p) ==
    [b \in Blocks |-> IF b \in InPool(p) \cap Mine /\ alloc[b] = None
                      THEN newBlock(b) ELSE alloc[b]]

\* getPool under n.mu: a pool met for the first time is synchronised.
getPool(p) ==
    /\ nmu = None
    /\ pools' = pools \cup {p}
    /\ alloc' = IF p \in pools THEN alloc ELSE syncBlock(p)

\* The blocks after an Update that removes the finalizer of b, and after a
\* Delete of b: an object goes when it is marked and has no finalizer.
unfinalized(b) ==
    [blk EXCEPT ![b] = IF @.del THEN absent ELSE [@ EXCEPT !.fin = FALSE]]
deleted(b) ==
    [blk EXCEPT ![b] = IF @.fin THEN [@ EXCEPT !.del = TRUE] ELSE absent]

\* The process is gone.  Its successor lists the veths and registers them.
\* keep is the set of containers whose veth survives.
Restart(keep) ==
    /\ mode' = "boot"
    /\ boot' = keep
    /\ nmu' = None
    /\ pmu' = [p \in Pools |-> None]
    /\ pools' = {}
    /\ alloc' = [b \in Blocks |-> None]
    /\ info' = [c \in Containers |-> None]
    /\ th' = [g \in Threads |-> idle]
    /\ visit' = {}
    /\ empties' = {}
    /\ events' = [p \in Pools |-> <<>>]
    /\ cache' = req
    /\ dirty' = [p \in Pools |-> Completed(req[p])]
    /\ notifying' = None

Attached == {c \in Containers : veth[c] # None}

Panic(site) ==
    /\ panicked' = panicked \cup {site}
    /\ Restart(Attached)
    /\ UNCHANGED <<api, kernel, failed>>

-----------------------------------------------------------------------------
(* coildServer.Add and nodeIPAM.Allocate *)

\* Bound: no more ADDs than the requests they may still create.
Requesting == {c \in Containers :
                  th[c].pc \in {"getPool", "alloc", "delReq", "mkReq"}}

\* The runtime does not ADD a container that is attached.  An address that
\* an earlier ADD left in allocInfoMap is returned again.
BeginAdd(c) ==
    /\ mode = "up"
    /\ th[c].pc = "idle"
    /\ veth[c] = None
    /\ reqs + Cardinality(Requesting) < MaxReq
    /\ IF info[c] # None
       THEN Goto(c, "setup")
       ELSE \E p \in Pools :
               th' = [th EXCEPT ![c] = [idle EXCEPT !.pc = "getPool", !.pool = p]]
    /\ UNCHANGED <<world, locks, known, info, gcv, kernel, failed>>

GetPool(c) ==
    /\ th[c].pc = "getPool"
    /\ getPool(th[c].pool)
    /\ Goto(c, "alloc")
    /\ UNCHANGED <<world, locks, info, gcv, kernel, failed>>

GetPoolFails(c) ==
    /\ th[c].pc = "getPool"
    /\ nmu = None
    /\ th[c].pool \notin pools
    /\ Fails("getPool")
    /\ Return(c)
    /\ UNCHANGED <<world, locks, known, info, gcv, kernel>>

HasRoom(p) == {b \in InPool(p) : alloc[b] # None /\ ~isFull(alloc[b])}

\* nodePool.allocate finds room: Go's map order picks the block.
AllocateKnown(c) ==
    /\ th[c].pc = "alloc"
    /\ pmu[th[c].pool] = None
    /\ \E b \in HasRoom(th[c].pool) :
         /\ info' = [info EXCEPT ![c] = [b |-> b, i |-> NextIndex(alloc[b])]]
         /\ alloc' = [alloc EXCEPT ![b] = allocate(@)]
    /\ th' = [th EXCEPT ![c] = [idle EXCEPT !.pc = "setup"]]
    /\ UNCHANGED <<world, locks, pools, gcv, kernel, failed>>

\* It does not: p.mu stays locked until the request has been answered.
AllocateFull(c) ==
    /\ th[c].pc = "alloc"
    /\ pmu[th[c].pool] = None
    /\ HasRoom(th[c].pool) = {}
    /\ pmu' = [pmu EXCEPT ![th[c].pool] = c]
    /\ Goto(c, "delReq")
    /\ UNCHANGED <<world, nmu, known, info, gcv, kernel, failed>>

\* The error returns of nodePool.allocate, which all release p.mu: an API call
\* fails, the request is refused, or DefaultAllocTimeout passes first.
AllocateFails(c) ==
    /\ \/ th[c].pc = "delReq" /\ Fails("delReq")
       \/ th[c].pc = "mkReq" /\ Fails("mkReq")
       \/ th[c].pc = "wait" /\ UNCHANGED failed
       \/ th[c].pc = "got" /\ th[c].got = "failed" /\ UNCHANGED failed
       \/ th[c].pc = "got" /\ th[c].got # "failed" /\ Fails("syncBlock")
    /\ Unlock(th[c].pool)
    /\ Return(c)
    /\ UNCHANGED <<world, nmu, known, info, gcv, kernel>>

DeleteRequest(c) ==
    /\ th[c].pc = "delReq"
    /\ IF req[th[c].pool] = None
       THEN UNCHANGED <<req, events>>
       ELSE SetRequest(th[c].pool, None)
    /\ Goto(c, "mkReq")
    /\ UNCHANGED <<blk, reqs, grant, cache, dirty, notifying, proc, locks,
                   known, info, gcv, kernel, failed, panicked>>

CreateRequest(c) ==
    /\ th[c].pc = "mkReq"
    /\ SetRequest(th[c].pool, [id |-> reqs + 1, res |-> "pending"])
    /\ reqs' = reqs + 1
    /\ Goto(c, "created")
    /\ UNCHANGED <<blk, grant, cache, dirty, notifying, proc, locks, known,
                   info, gcv, kernel, failed, panicked>>

\* From here on the thread is a receiver of requestCompletionCh.
EnterSelect(c) ==
    /\ th[c].pc = "created"
    /\ Goto(c, "wait")
    /\ UNCHANGED <<world, locks, known, info, gcv, kernel, failed>>

\* The received request was granted: syncBlock, then take an address of its
\* block.
ResultAllocate(c) ==
    LET p == th[c].pool
        b == th[c].got
        synced == syncBlock(p)
    IN  /\ th[c].pc = "got"
        /\ b # "failed"
        /\ synced[b] # None
        /\ ~isFull(synced[b])
        /\ alloc' = [synced EXCEPT ![b] = allocate(@)]
        /\ Unlock(p)
        /\ th' = [th EXCEPT ![c] = [idle EXCEPT !.pc = "list",
                             !.addr = [b |-> b, i |-> NextIndex(synced[b])]]]
        /\ UNCHANGED <<world, nmu, pools, info, gcv, kernel, failed>>

\* panic("bug: " + block): the received block is not a block of this node;
\* panic("bug"): it is full.
ResultPanics(c) ==
    LET b == th[c].got
        synced == syncBlock(th[c].pool)
    IN  /\ th[c].pc = "got"
        /\ b # "failed"
        /\ \/ synced[b] = None /\ Panic("unknownBlock")
           \/ synced[b] # None /\ isFull(synced[b]) /\ Panic("fullBlock")

\* podNet.SetupIPAM; the kernel refuses a second route to one address.
SetupIPAM(c) ==
    /\ th[c].pc = "setup"
    /\ \A d \in Containers : veth[d] # info[c]
    /\ veth' = [veth EXCEPT ![c] = info[c]]
    /\ Return(c)
    /\ UNCHANGED <<world, locks, known, info, gcv, routes, failed>>

\* SetupIPAM fails and removes the veth it made; Add frees the address.
SetupIPAMFails(c) ==
    /\ th[c].pc = "setup"
    /\ \/ Fails("setup")
       \/ (\E d \in Containers : veth[d] = info[c]) /\ UNCHANGED failed
    /\ Goto(c, "free")
    /\ UNCHANGED <<world, locks, known, info, gcv, kernel>>

-----------------------------------------------------------------------------
(* coildServer.Del and nodeIPAM.Free *)

\* podNet.Destroy; a veth that is not there is fine.
Destroy(c) == veth' = [veth EXCEPT ![c] = None]

\* Del destroys the pod network, then frees the address.
BeginDel(c) ==
    /\ mode = "up"
    /\ th[c].pc = "idle"
    /\ veth[c] # None \/ info[c] # None
    /\ Destroy(c)
    /\ Goto(c, "free")
    /\ UNCHANGED <<world, locks, known, info, gcv, routes, failed>>

FreeUnknown(c) ==
    /\ th[c].pc = "free"
    /\ info[c] = None
    /\ Return(c)
    /\ UNCHANGED <<world, locks, known, info, gcv, kernel, failed>>

\* nodePool.free clears the index and returns the block if that was the last.
Free(c) ==
    LET b == info[c].b
        p == PoolOf[b]
        left == free(alloc[b], info[c].i)
    IN  /\ th[c].pc = "free"
        /\ info[c] # None
        /\ pmu[p] = None
        /\ alloc[b] # None
        /\ alloc' = [alloc EXCEPT ![b] = left]
        /\ IF isEmpty(left)
           THEN /\ pmu' = [pmu EXCEPT ![p] = c]
                /\ th' = [th EXCEPT ![c] = [idle EXCEPT !.pc = "rmFin",
                                            !.pool = p, !.target = b]]
                /\ UNCHANGED info
           ELSE /\ info' = [info EXCEPT ![c] = None]
                /\ Return(c)
                /\ UNCHANGED pmu
        /\ UNCHANGED <<world, nmu, pools, gcv, kernel, failed>>

\* panic("bug: " + blockName): the block is not in blockAlloc.
FreePanics(c) ==
    /\ th[c].pc = "free"
    /\ info[c] # None
    /\ pmu[PoolOf[info[c].b]] = None
    /\ alloc[info[c].b] = None
    /\ Panic("free")

-----------------------------------------------------------------------------
(* nodePool.deleteBlock and nodeIPAM.sync, called by Allocate, Free and gc *)

\* gc returns: its locks are released.  At start-up an error ends the process.
EndGC(ok) ==
    IF mode = "boot" /\ ~ok
    THEN Restart(Attached)
    ELSE /\ mode' = "up"
         /\ nmu' = None
         /\ pmu' = [p \in Pools |-> IF pmu[p] = GC THEN None ELSE pmu[p]]
         /\ Return(GC)
         /\ visit' = {}
         /\ empties' = {}
         /\ UNCHANGED <<boot, known, info, watch>>

\* An API call of thread g fails and g returns the error.
ErrorReturn(g) ==
    \/ /\ g = GC
       /\ EndGC(FALSE)
    \/ /\ g # GC
       /\ pmu' = [p \in Pools |-> IF pmu[p] = g THEN None ELSE pmu[p]]
       /\ Return(g)
       /\ UNCHANGED <<proc, nmu, known, info, gcv, watch>>

SyncKind(g) == IF g = GC THEN "gcList"
               ELSE IF th[g].addr # None THEN "addSync" ELSE "freeSync"

\* Remove the finalizer, retried on conflict; a missing block is fine.
RemoveFinalizer(g) ==
    /\ th[g].pc = "rmFin"
    /\ blk' = unfinalized(th[g].target)
    /\ Goto(g, "delete")
    /\ UNCHANGED <<req, reqs, grant, watch, proc, locks, known, info, gcv,
                   kernel, failed, panicked>>

\* Mutant of forget: the block stays in blockAlloc.
remember(b) == alloc

forget(b) == [alloc EXCEPT ![b] = None]

\* Delete by name; a missing block is fine.  The block is then forgotten.
DeleteObject(g) ==
    LET b == th[g].target
    IN  /\ th[g].pc = "delete"
        /\ blk' = deleted(b)
        /\ alloc' = forget(b)
        /\ IF g = GC
           THEN /\ th' = [th EXCEPT ![g].pc = "gcBlocks", ![g].target = None]
                /\ empties' = empties \ {b}
                /\ UNCHANGED pmu
           ELSE /\ th' = [th EXCEPT ![g] = [idle EXCEPT !.pc = "list"]]
                /\ Unlock(th[g].pool)
                /\ UNCHANGED empties
        /\ UNCHANGED <<req, reqs, grant, watch, proc, nmu, pools, info, visit,
                       kernel, failed, panicked>>

\* sync: list the blocks of this node ...
SyncList(g) ==
    /\ th[g].pc = "list"
    /\ th' = [th EXCEPT ![g].pc = "export", ![g].snap = Mine]
    /\ UNCHANGED <<world, locks, known, info, gcv, kernel, failed>>

\* Mutant of exported: routes are removed but not added.
exportedLess(g) == routes \cap th[g].snap

exported(g) == th[g].snap

\* ... and make the routing table equal to the list.  Then Allocate stores
\* the address, Free forgets it, and gc is done.
SyncExport(g) ==
    /\ th[g].pc = "export"
    /\ routes' = exported(g)
    /\ \/ /\ g = GC
          /\ EndGC(TRUE)
       \/ /\ g # GC
          /\ info' = [info EXCEPT ![g] = th[g].addr]
          /\ th' = [th EXCEPT ![g] = IF th[g].addr = None THEN idle
                                     ELSE [idle EXCEPT !.pc = "setup"]]
          /\ UNCHANGED <<watch, proc, locks, known, gcv>>
    /\ UNCHANGED <<api, veth, failed, panicked>>

\* The error returns.  A failed Update or Delete may have been carried out all
\* the same, its answer being lost; exporter.Sync adds what is missing, then
\* removes what is too much, and stops at the first netlink error.
BlockStepFails(g) ==
    /\ \/ /\ th[g].pc = "rmFin"
          /\ \/ /\ Fails(IF g = GC THEN "gcFin" ELSE "fin")
                /\ UNCHANGED blk
             \/ /\ Fails(IF g = GC THEN "gcFinLost" ELSE "fin")
                /\ blk' = unfinalized(th[g].target)
          /\ UNCHANGED routes
       \/ /\ th[g].pc = "delete"
          /\ \/ /\ Fails(IF g = GC THEN "gcDelete" ELSE "delete")
                /\ UNCHANGED blk
             \/ /\ Fails(IF g = GC THEN "gcDeleteLost" ELSE "delete")
                /\ blk' = deleted(th[g].target)
          /\ UNCHANGED routes
       \/ /\ th[g].pc = "list"
          /\ Fails(SyncKind(g))
          /\ UNCHANGED <<blk, routes>>
       \/ /\ th[g].pc = "export"
          /\ Fails(SyncKind(g))
          /\ \/ \E added \in SUBSET th[g].snap : routes' = routes \cup added
             \/ \E removed \in SUBSET (routes \ th[g].snap) :
                   routes' = (routes \cup th[g].snap) \ removed
          /\ UNCHANGED blk
    /\ ErrorReturn(g)
    /\ UNCHANGED <<req, reqs, grant, veth, panicked>>

-----------------------------------------------------------------------------
(* nodeIPAM.GC, at start-up and on every tick *)

\* Start-up: register the address of one container found by podNet.List.
\* An address outside the known blocks is only logged.
Register(c) ==
    LET b == veth[c].b
        i == veth[c].i
        p == PoolOf[b]
        synced == IF p \in pools THEN alloc ELSE syncBlock(p)
    IN  /\ mode = "boot"
        /\ c \in boot
        /\ boot' = boot \ {c}
        /\ pools' = pools \cup {p}
        /\ IF synced[b] # None
           THEN /\ alloc' = [synced EXCEPT ![b] = register(@, i)]
                /\ info' = [info EXCEPT ![c] = veth[c]]
           ELSE /\ alloc' = synced
                /\ UNCHANGED info
        /\ UNCHANGED <<api, watch, mode, locks, th, gcv, kernel, failed,
                       panicked>>

RegisterFails ==
    /\ mode = "boot"
    /\ boot # {}
    /\ Fails("getPool")
    /\ Restart(Attached)
    /\ UNCHANGED <<api, kernel, panicked>>

\* Mutant of BeginGC: it does not wait for all containers to be registered.
BeginGCEarly ==
    /\ th[GC].pc = "idle"
    /\ Goto(GC, "scan")
    /\ UNCHANGED <<world, locks, known, info, gcv, kernel, failed>>

BeginGC ==
    /\ th[GC].pc = "idle"
    /\ boot = {}
    /\ Goto(GC, "scan")
    /\ UNCHANGED <<world, locks, known, info, gcv, kernel, failed>>

\* syncUnregisteredPool: pools that own a block of this node but are not
\* in the map.
ScanPools ==
    /\ th[GC].pc = "scan"
    /\ visit' = {PoolOf[b] : b \in Mine} \ pools
    /\ Goto(GC, "getPools")
    /\ UNCHANGED <<world, locks, known, info, empties, kernel, failed>>

GCGetPool(p) ==
    /\ th[GC].pc = "getPools"
    /\ p \in visit
    /\ getPool(p)
    /\ visit' = visit \ {p}
    /\ UNCHANGED <<world, locks, info, th, empties, kernel, failed>>

\* A list of GC fails: of all blocks, in getPool, or in the syncBlock of np.gc.
GCListFails ==
    /\ \/ th[GC].pc = "scan"
       \/ th[GC].pc = "getPools" /\ visit # {} /\ nmu = None
       \/ th[GC].pc = "gcPool" /\ \E p \in visit : pmu[p] = None
    /\ Fails("gcList")
    /\ EndGC(FALSE)
    /\ UNCHANGED <<api, kernel, panicked>>

\* gc takes n.mu and keeps it until it returns.
GCLock ==
    /\ th[GC].pc = "getPools"
    /\ visit = {}
    /\ nmu = None
    /\ nmu' = GC
    /\ visit' = pools
    /\ Goto(GC, "gcPool")
    /\ UNCHANGED <<world, pmu, known, info, empties, kernel, failed>>

\* Mutant of emptyBlocks: the bitset is not looked at.
everyBlock(p, a) == {b \in InPool(p) : a[b] # None}

emptyBlocks(p, a) == {b \in InPool(p) : a[b] # None /\ isEmpty(a[b])}

\* nodePool.gc: take p.mu, synchronise, look for empty blocks.
GCPool(p) ==
    LET synced == syncBlock(p)
    IN  /\ th[GC].pc = "gcPool"
        /\ p \in visit
        /\ pmu[p] = None
        /\ pmu' = [pmu EXCEPT ![p] = GC]
        /\ alloc' = synced
        /\ visit' = visit \ {p}
        /\ empties' = emptyBlocks(p, synced)
        /\ th' = [th EXCEPT ![GC].pc = "gcBlocks", ![GC].pool = p]
        /\ UNCHANGED <<world, nmu, pools, info, kernel, failed>>

GCBlock(b) ==
    /\ th[GC].pc = "gcBlocks"
    /\ b \in empties
    /\ th' = [th EXCEPT ![GC].pc = "rmFin", ![GC].target = b]
    /\ UNCHANGED <<world, locks, known, info, gcv, kernel, failed>>

GCPoolDone ==
    /\ th[GC].pc = "gcBlocks"
    /\ empties = {}
    /\ Unlock(th[GC].pool)
    /\ th' = [th EXCEPT ![GC].pc = "gcPool", ![GC].pool = None]
    /\ UNCHANGED <<world, nmu, known, info, gcv, kernel, failed>>

GCPoolsDone ==
    /\ th[GC].pc = "gcPool"
    /\ visit = {}
    /\ Goto(GC, "list")
    /\ UNCHANGED <<world, locks, known, info, gcv, kernel, failed>>

-----------------------------------------------------------------------------
(* BlockRequestWatcher and nodeIPAM.Notify *)

\* The informer applies the next change; a completed request passes the
\* event filter.
Observe(p) ==
    /\ mode = "up"
    /\ events[p] # <<>>
    /\ cache' = [cache EXCEPT ![p] = Head(events[p])]
    /\ dirty' = [dirty EXCEPT ![p] = @ \/ Completed(Head(events[p]))]
    /\ events' = [events EXCEPT ![p] = Tail(@)]
    /\ UNCHANGED <<api, notifying, proc, locks, known, info, th, gcv, kernel,
                   failed, panicked>>

\* Reconcile reads the cache, which may have moved on since the event.
Reconcile(p) ==
    /\ mode = "up"
    /\ dirty[p]
    /\ notifying = None
    /\ dirty' = [dirty EXCEPT ![p] = FALSE]
    /\ notifying' = IF Completed(cache[p])
                    THEN [pool |-> p, req |-> cache[p], at |-> "lock"]
                    ELSE None
    /\ UNCHANGED <<api, events, cache, proc, locks, known, info, th, gcv,
                   kernel, failed, panicked>>

\* Notify looks the pool up under n.mu ...
NotifyLookup ==
    /\ notifying # None
    /\ notifying.at = "lock"
    /\ nmu = None
    /\ notifying' = IF notifying.pool \in pools
                    THEN [notifying EXCEPT !.at = "send"] ELSE None
    /\ UNCHANGED <<api, events, cache, dirty, proc, locks, known, info, th,
                   gcv, kernel, failed, panicked>>

\* ... and sends without blocking: with no receiver the request is dropped.
Waiters(p) == {c \in Containers : th[c].pc = "wait" /\ th[c].pool = p}

NotifySend ==
    /\ notifying # None
    /\ notifying.at = "send"
    /\ notifying' = None
    /\ \/ /\ Waiters(notifying.pool) = {}
          /\ UNCHANGED th
       \/ \E c \in Waiters(notifying.pool) :
             th' = [th EXCEPT ![c].pc = "got", ![c].got = notifying.req.res]
    /\ UNCHANGED <<api, events, cache, dirty, proc, locks, known, info, gcv,
                   kernel, failed, panicked>>

-----------------------------------------------------------------------------
(* Crashes, and what the rest of the cluster does to the API objects *)

Crash ==
    /\ Fails("crash")
    /\ Restart(Attached)
    /\ UNCHANGED <<api, kernel, panicked>>

\* The node reboots: the pods and the kernel state are gone too.
Reboot ==
    /\ Fails("reboot")
    /\ Restart({})
    /\ veth' = [c \in Containers |-> None]
    /\ routes' = {}
    /\ UNCHANGED <<api, panicked>>

\* coild is told to stop after the Node object was deleted.  When the last call
\* and the GC have returned, ClearRoutes removes the exported routes.  Nobody
\* waits for the goroutine that does it, and its errors are only logged, so the
\* process may end before all routes are removed.
ClearRoutes ==
    /\ Fails("nodeDeleted")
    /\ mode = "up"
    /\ \A g \in Threads : th[g].pc = "idle"
    /\ Restart(Attached)
    /\ routes' \in SUBSET routes
    /\ UNCHANGED <<api, veth, panicked>>

Untouched == <<proc, locks, known, info, th, gcv, kernel, panicked>>

\* The controller makes a block for a pending request ...
AssignBlock(p, b) ==
    /\ req[p] # None
    /\ ~Completed(req[p])
    /\ grant[p] = None
    /\ b \in InPool(p)
    /\ blk[b].owner = "none"
    /\ blk' = [blk EXCEPT ![b] = created("me")]
    /\ grant' = [grant EXCEPT ![p] = [id |-> req[p].id, res |-> b]]
    /\ UNCHANGED <<req, reqs, watch, Untouched, failed>>

\* ... and updates the request, unless it is another one by now.
AnswerRequest(p) ==
    /\ grant[p] # None
    /\ grant' = [grant EXCEPT ![p] = None]
    /\ IF req[p] # None /\ req[p].id = grant[p].id
       THEN SetRequest(p, grant[p])
       ELSE UNCHANGED <<req, events>>
    /\ UNCHANGED <<blk, reqs, cache, dirty, notifying, Untouched, failed>>

RefuseRequest(p) ==
    /\ req[p] # None
    /\ ~Completed(req[p])
    /\ grant[p] = None
    /\ SetRequest(p, [req[p] EXCEPT !.res = "failed"])
    /\ UNCHANGED <<blk, reqs, grant, cache, dirty, notifying, Untouched,
                   failed>>

\* Another node gets a free block, or returns the one it has.
OtherNode(b) ==
    /\ "otherNode" \in Faults
    /\ \/ blk[b].owner = "none" /\ blk' = [blk EXCEPT ![b] = created("other")]
       \/ blk[b].owner = "other" /\ blk' = [blk EXCEPT ![b] = absent]
    /\ UNCHANGED <<req, reqs, grant, watch, Untouched, failed>>

\* Somebody deletes the AddressBlock object of this node.
UserDelete(b) ==
    /\ Fails("userDelete")
    /\ b \in Mine
    /\ ~blk[b].del
    /\ blk' = deleted(b)
    /\ UNCHANGED <<req, reqs, grant, watch, Untouched>>

-----------------------------------------------------------------------------

AddStep(c) ==
    \/ GetPool(c) \/ GetPoolFails(c)
    \/ AllocateKnown(c) \/ AllocateFull(c)
    \/ DeleteRequest(c) \/ CreateRequest(c) \/ EnterSelect(c)
    \/ ResultAllocate(c) \/ ResultPanics(c) \/ AllocateFails(c)
    \/ SetupIPAM(c) \/ SetupIPAMFails(c)

FreeStep(c) == FreeUnknown(c) \/ Free(c) \/ FreePanics(c)

BlockStep(g) ==
    \/ RemoveFinalizer(g) \/ DeleteObject(g) \/ SyncList(g) \/ SyncExport(g)
    \/ BlockStepFails(g)

GCStep ==
    \/ ScanPools \/ GCListFails \/ GCLock \/ GCPoolDone \/ GCPoolsDone
    \/ \E p \in Pools : GCGetPool(p) \/ GCPool(p)
    \/ \E b \in Blocks : GCBlock(b)

BootStep == RegisterFails \/ \E c \in Containers : Register(c)

WatchStep ==
    \/ NotifyLookup \/ NotifySend
    \/ \E p \in Pools : Observe(p) \/ Reconcile(p)

Environment ==
    \/ Crash \/ Reboot \/ ClearRoutes
    \/ \E p \in Pools : AnswerRequest(p) \/ RefuseRequest(p)
    \/ \E p \in Pools, b \in Blocks : AssignBlock(p, b)
    \/ \E b \in Blocks : OtherNode(b) \/ UserDelete(b)

Next ==
    \/ \E c \in Containers :
          BeginAdd(c) \/ BeginDel(c) \/ AddStep(c) \/ FreeStep(c)
    \/ \E g \in Threads : BlockStep(g)
    \/ BeginGC \/ GCStep \/ BootStep \/ WatchStep
    \/ Environment

Spec == Init /\ [][Next]_vars

(***************************************************************************)
(* Every goroutine is scheduled, and one that waits for a mutex gets it    *)
(* although others keep taking it: Go's mutexes are starvation free.       *)
(* Hence SF for each thread; the GC thread includes its ticker and         *)
(* start-up.  Nothing is assumed of the controller, of the watcher, of     *)
(* other nodes and of users.                                               *)
(***************************************************************************)
Fairness ==
    /\ \A c \in Containers : SF_vars(AddStep(c) \/ FreeStep(c) \/ BlockStep(c))
    /\ SF_vars(BootStep \/ BeginGC \/ GCStep \/ BlockStep(GC))

LiveSpec == Spec /\ Fairness

-----------------------------------------------------------------------------
(* Properties *)

\* The values the variables take; the informer only queues changes of
\* BlockRequests and a Notify call always carries a completed one.
TypeOK ==
    /\ blk \in [Blocks -> Object]
    /\ req \in [Pools -> Orphan(Request)]
    /\ reqs \in Nat
    /\ grant \in [Pools -> Orphan(Request)]
    /\ events \in [Pools -> Seq(Orphan(Request))]
    /\ cache \in [Pools -> Orphan(Request)]
    /\ dirty \in [Pools -> BOOLEAN]
    /\ notifying \in Orphan([pool: Pools, req: [id: Nat, res: Answer],
                             at: {"lock", "send"}])
    /\ mode \in {"boot", "up"}
    /\ boot \subseteq Containers
    /\ nmu \in Orphan({GC})
    /\ pmu \in [Pools -> Orphan(Threads)]
    /\ pools \subseteq Pools
    /\ alloc \in [Blocks -> Orphan(AllocatorState)]
    /\ info \in [Containers -> Orphan(Addr)]
    /\ th \in [Threads -> Thread]
    /\ visit \subseteq Pools
    /\ empties \subseteq Blocks
    /\ veth \in [Containers -> Orphan(Addr)]
    /\ routes \subseteq Blocks
    /\ failed \subseteq Recorded
    /\ panicked \subseteq {"unknownBlock", "fullBlock", "free"}

\* A call of nodeIPAM.Free has returned an error after nodePool.free had
\* already cleared the index: the allocInfoMap still has the container.
HalfFreed == failed \cap {"fin", "delete", "freeSync"} # {}

\* gc has returned an error after it had removed a finalizer and before it
\* forgot the block: coild gives out addresses of a block without finalizer.
Unguarded == failed \cap {"gcFinLost", "gcDelete"} # {}

\* The failures after which the code promises nothing about its blocks: a Free
\* abandoned halfway, a Delete of gc carried out with its answer lost, and a
\* deletion by somebody else together with a block without finalizer.
Void == \/ HalfFreed
        \/ "gcDeleteLost" \in failed
        \/ Unguarded /\ "userDelete" \in failed

\* The address a container may be using or may be given: the one Allocate has
\* picked, or the one in allocInfoMap unless Free has already cleared it.
Releasing(c) == /\ th[c].pc \in {"rmFin", "delete", "list", "export"}
                /\ th[c].addr = None
Owned(c) == IF th[c].addr # None THEN th[c].addr
            ELSE IF Releasing(c) THEN None ELSE info[c]

\* No address is owned twice: whatever interleaving of ADD, DEL, periodic GC
\* and restarts, nodePool.allocate gives an index to one container only, as
\* long as no Free was abandoned halfway.
AddressUnique ==
    HalfFreed \/ \A c, d \in Containers :
                    c # d /\ Owned(c) # None => Owned(c) # Owned(d)

\* The bitset of every block agrees with the allocations: an index is set if
\* and only if a container owns it, so no index leaks (a block would never be
\* returned) and none is free while in use.  A failed route export in Allocate
\* and an abandoned Free are the exceptions.
UsageAccounted ==
    \/ HalfFreed \/ "addSync" \in failed
    \/ \A b \in Blocks \ Reserved :
          alloc[b] # None =>
             alloc[b].usage = {i \in Index : \E c \in Containers :
                                  Owned(c) = [b |-> b, i |-> i]}

\* A pod's address lies in a block that belongs to this node: the AddressBlock
\* is neither deleted nor another node's while a pod uses it, also across
\* crashes, start-up GC and deletion requests by others (the finalizer), until
\* one of the failures the code does not survive.
HeldBlock ==
    Void \/ \A c \in Attached : blk[veth[c].b].owner = "me"

\* deleteBlock is by name: when it runs, the block of that name is this
\* node's own, never one that another node has got in the meantime, and not a
\* reserved one, which is full from the moment it is found.
DeletesOwnBlock ==
    \/ HalfFreed \/ failed \cap {"gcDeleteLost", "userDelete"} # {}
    \/ \A g \in Threads :
          th[g].pc \in {"rmFin", "delete"} => th[g].target \in Mine \ Reserved

\* The panic in nodePool.free needs a Free that was abandoned halfway: no
\* interleaving of GC, restart and DEL alone makes a block with a registered
\* container unknown.
FreePanicsOnlyAfterError == "free" \in panicked => HalfFreed

\* The index given last is given again only when every other index of the
\* block is in use: a freed address is not reused at once if it can be helped.
NoImmediateReuse ==
    [][\A b \in Blocks : \A i \in Index :
          (/\ alloc[b] # None /\ alloc'[b] # None
           /\ i \notin alloc[b].usage /\ i \in alloc'[b].usage
           /\ i = alloc[b].last)
          => alloc'[b].usage = Index]_vars

\* Every CNI call ends, although Allocate waits for a request under p.mu, gc
\* waits for p.mu under n.mu, and Notify waits for n.mu: the time-out of
\* Allocate undoes that knot.
EveryCallReturns ==
    \A c \in Containers : th[c].pc # "idle" ~> th[c].pc = "idle"

\* A block of this node that no container owns does not stay that way: it is
\* allocated from or returned, even if its BlockRequest was given up by a
\* time-out before the controller made the block.
UnusedBlockReturned ==
    \A b \in Blocks \ Reserved :
       (b \in Mine /\ \A c \in Containers : Owned(c) = None \/ Owned(c).b # b)
       ~> (b \notin Mine \/ \E c \in Containers : Owned(c) # None /\ Owned(c).b = b)

\* The routing table recovers: while a pod stays attached its block is
\* exported again and again, whatever stale list a slower sync has written.
RoutesRestored ==
    \A c \in Containers :
       <>[](veth[c] # None) => []<>(veth[c] # None /\ veth[c].b \in routes)

-----------------------------------------------------------------------------
(* What the code asserts and does not guarantee *)

\* node.go:459 and 530: the block of the received request is known and has
\* room; anything else is a "bug".
NoAllocatePanic == panicked \cap {"unknownBlock", "fullBlock"} = {}
=============================================================================
