--------------------------- MODULE NodeLeaseProofs ---------------------------
(***************************************************************************)
(* coild implements AddressLease, for every number of containers, pools    *)
(* and blocks, every block size and every set of faults; with it           *)
(* HeldBlock and DeletesOwnBlock.                                          *)
(*                                                                         *)
(* IInv says which addresses are owned.  What is missing is that their     *)
(* blocks are this node's, also after coild has lost its memory and has    *)
(* learnt the blocks again.  The block of an attached container is this    *)
(* node's and has its finalizer (AttachedOK), so nobody else can make it   *)
(* go.  Any other block that coild knows or that is this node's has its    *)
(* finalizer too, or it is being returned, or coild is starting up and the *)
(* collector will return it before the first call (KnownOK, Doomed).  A    *)
(* collector that fails in the middle of deleteBlock leaves a block without *)
(* its finalizer, which is then only safe from deletion as long as nobody  *)
(* deletes blocks (Guarded, UndeletedOK).                                  *)
(***************************************************************************)
EXTENDS NodeLease, NodeIPAMProofs

-----------------------------------------------------------------------------
(* The inductive invariant *)

\* A pool that a thread is in, that the collector still has to handle or that
\* a known block is of, is in the map of pools.
InPools == {"alloc", "delReq", "mkReq", "created", "wait", "got"}
Collecting == {"gcPool", "gcBlocks", "rmFin", "delete"}

PoolsOK ==
    /\ \A b \in Blocks : alloc[b] # None => PoolOf[b] \in pools
    /\ \A c \in Containers : th[c].pc \in InPools => th[c].pool \in pools
    /\ th[GC].pc \in Collecting => visit \subseteq pools

\* A reserved block is full from the moment it is known, and kept.
ReservedOK ==
    \A b \in Reserved : /\ b \in Mine /\ blk[b].fin
                        /\ alloc[b] # None => isFull(alloc[b])

\* No address is of a reserved block.
OwnedOK == \A c \in Containers : Owned(c) # None => Owned(c).b \notin Reserved

\* A block that a deletion by others does not make go: it has its finalizer.
\* After a collector has failed between the finalizer and the end of the Delete
\* call nothing is said, because then Void allows no such deletion.
Guarded(b) == blk[b].fin \/ Unguarded

\* A container that is attached is in no call.  Its address is the one in
\* allocInfoMap, except before start-up has registered it.  Its block is this
\* node's and stays it, so start-up finds it.
AttachedOK(c) ==
    veth[c] # None =>
       /\ th[c].pc = "idle"
       /\ info[c] = veth[c] \/ c \in boot
       /\ veth[c].b \in Mine \ Reserved
       /\ Guarded(veth[c].b)
       /\ mode = "boot" /\ PoolOf[veth[c].b] \in pools => alloc[veth[c].b] # None

InUse(b) == \E c \in Attached : veth[c].b = b

\* While coild starts up a block without a pod is empty ...
BootEmpty ==
    mode = "boot" => \A b \in Blocks \ Reserved :
                        alloc[b] # None /\ ~InUse(b) => isEmpty(alloc[b])

\* ... and the collector, which runs before the first call, will come to it.
Ahead(b) ==
    LET pc == th[GC].pc
        p == PoolOf[b]
    IN  \/ pc \in {"idle", "scan"}
        \/ pc = "getPools" /\ p \in visit \cup pools
        \/ pc \in Collecting /\ p \in visit
        \/ pc \in Collecting \ {"gcPool"} /\ b \in empties

Returning(b) == \E g \in Threads : th[g].pc = "delete" /\ th[g].target = b

Doomed(b) == Returning(b) \/ (mode = "boot" /\ ~InUse(b) /\ Ahead(b))

\* A block that is known, or this node's, is this node's and is guarded, or it
\* will be given back before an address of it is given out.
KnownOK ==
    \A b \in Blocks : alloc[b] # None \/ b \in Mine =>
                         Doomed(b) \/ (b \in Mine /\ Guarded(b))

\* Without deletions by others all known blocks are this node's.
UndeletedOK ==
    "userDelete" \notin failed =>
       /\ \A b \in Blocks : ~blk[b].del /\ (alloc[b] # None => b \in Mine)
       /\ \A g \in Threads : th[g].pc = "delete" => ~blk[th[g].target].fin

BInv == /\ PoolsOK
        /\ ReservedOK
        /\ OwnedOK
        /\ \A c \in Containers : AttachedOK(c)
        /\ BootEmpty
        /\ KnownOK
        /\ UndeletedOK

\* The inductive invariant, together with IInv.
LInv == Void \/ BInv

\* What a container has in the abstract specification as long as nothing has
\* failed: the address of its veth or else the one that coild owns for it.
Lent(c) == IF veth[c] # None THEN veth[c] ELSE Owned(c)

\* The steps of AddressLease, of the blocks and addresses of coild.
SameLeases == \A c \in Containers : Lent(c)' = Lent(c)

Ends(C) == /\ \A c \in Containers : Lent(c)' = IF c \in C THEN None ELSE Lent(c)
           /\ Mine' = Mine

Acquires(b) == SameLeases /\ Mine' = Mine \cup {b} /\ b \notin Reserved

Returns(b) == /\ SameLeases /\ Mine' = Mine \ {b}
              /\ \A c \in Containers : Lent(c) # None => Lent(c).b # b

Grants(c, a) == /\ Lent(c) = None /\ a.b \in Mine \ Reserved
                /\ \A d \in Containers : Lent(d) # a
                /\ Lent(c)' = a
                /\ \A d \in Containers : d # c => Lent(d)' = Lent(d)
                /\ Mine' = Mine

LeaseStep ==
    \/ \E C \in SUBSET Containers : Ends(C)
    \/ \E b \in Blocks : Acquires(b) \/ Returns(b)
    \/ \E c \in Containers, a \in Addr : Grants(c, a)

-----------------------------------------------------------------------------
(* What the invariant says of a state *)

\* A block has at least one address.
LEMMA FullNotEmpty ==
  ASSUME NEW a, isFull(a)
  PROVE  ~isEmpty(a)
<1>1. 0 \in Index
  BY SizeAssumption DEF Index
<1> QED
  BY <1>1 DEF isFull, isEmpty

\* Attached containers are idle and what coild owns for them is their address.
LEMMA LentFacts ==
  ASSUME TInv, Core, BInv, NEW c \in Containers
  PROVE  /\ Lent(c) \in Orphan(Addr)
         /\ Lent(c) # None => Lent(c).b \in Blocks \ Reserved
         /\ Owned(c) # None => Lent(c) = Owned(c)
         /\ Owned(c) # None => alloc[Owned(c).b] # None /\ ~isEmpty(alloc[Owned(c).b])
<1>1. own[c] = Owned(c) /\ Owned(c) \in Orphan(Addr) /\ veth[c] \in Orphan(Addr)
  BY OwnTyped DEF TInv, TypeTab
<1>2. Owned(c) # None => alloc[Owned(c).b] # None /\ ~isEmpty(alloc[Owned(c).b])
  BY <1>1 DEF Core, Books, Held, isEmpty
<1>3. ASSUME veth[c] # None
      PROVE  Owned(c) \in {None, veth[c]}
  <2>1. th[c].pc = "idle" /\ AttachedOK(c) /\ LocalOK(c)
    BY <1>3 DEF BInv, AttachedOK, Core
  <2>2. Owned(c) = info[c]
    BY <2>1 DEF Owned, Releasing, LocalOK
  <2>3. c \in boot => mode = "boot"
    BY DEF TInv, BootOK, TypeMem
  <2> QED
    BY <1>3, <2>1, <2>2, <2>3 DEF AttachedOK, BootInfoOK, Core
<1>4. Lent(c) # None => Lent(c).b \in Blocks \ Reserved
  BY <1>1 DEF Lent, BInv, AttachedOK, OwnedOK, Orphan, Addr
<1> QED
  BY <1>1, <1>2, <1>3, <1>4 DEF Lent

\* While a thread is in deleteBlock every container is registered.
LEMMA NoBootWhileReturning ==
  ASSUME TInv, NEW g \in Threads, th[g].pc # "idle"
  PROVE  boot = {}
BY DEF TInv, BootOK, TypeMem, Threads

\* Once all containers are registered, what is lent is what coild owns.
LEMMA LentOwned ==
  ASSUME TInv, Core, BInv, boot = {}, NEW c \in Containers
  PROVE  Lent(c) = Owned(c)
<1>1. CASE veth[c] # None
  <2>1. th[c].pc = "idle" /\ info[c] = veth[c] /\ LocalOK(c)
    BY <1>1 DEF BInv, AttachedOK, Core
  <2> QED
    BY <1>1, <2>1 DEF Owned, Releasing, LocalOK, Lent
<1> QED
  BY <1>1 DEF Lent

\* No address of a block that is being returned is lent.
LEMMA TargetFree ==
  ASSUME TInv, Core, BInv, NEW g \in Threads, th[g].pc \in {"rmFin", "delete"}
  PROVE  /\ th[g].target \in Blocks \ Reserved
         /\ PoolOf[th[g].target] = th[g].pool
         /\ alloc[th[g].target] # None /\ isEmpty(alloc[th[g].target])
         /\ \A c \in Containers : Lent(c) # None => Lent(c).b # th[g].target
<1>1. Empty(th[g].target, th[g].pool)
  BY DEF Core, TargetOK
<1>2. th[g].target \notin Reserved
  BY <1>1, FullNotEmpty DEF Empty, BInv, ReservedOK
<1>3. boot = {}
  BY NoBootWhileReturning
<1>4. \A c \in Containers : Lent(c) = Owned(c)
  BY <1>3, LentOwned
<1>5. \A c \in Containers : Lent(c) # None => Lent(c).b # th[g].target
  BY <1>1, <1>4, LentFacts DEF Empty
<1> QED
  BY <1>1, <1>2, <1>5 DEF Empty

\* The blocks of this node after a step that leaves the objects alone.
LEMMA SameMine ==
  ASSUME UNCHANGED blk
  PROVE  Mine' = Mine
BY DEF Mine

\* A block that is not changed stays guarded.
LEMMA GuardedKept ==
  ASSUME failed \subseteq failed'
  PROVE  \A b : blk'[b] = blk[b] /\ Guarded(b) => Guarded(b)'
BY DEF Guarded, Unguarded

\* The API calls of deleteBlock on a block that others do not delete change no
\* more than its finalizer as long as the object is there.
Unfinalizes ==
    \A b \in Blocks : /\ blk'[b].owner = blk[b].owner /\ blk'[b].del = blk[b].del
                      /\ blk'[b].fin => blk[b].fin
                      /\ b \in Reserved => blk'[b].fin = blk[b].fin

-----------------------------------------------------------------------------
(* Steps that leave the objects, the bitsets and the veths alone *)

\* One thread moves, not into or out of the Delete call.
LEMMA QuietLease ==
  ASSUME TInv, Core, BInv, NEW k \in Threads,
         \A g \in Threads : g # k => th'[g] = th[g],
         UNCHANGED <<blk, alloc, pools, mode, boot, veth>>,
         \A c \in Containers : c # k => info'[c] = info[c],
         failed \subseteq failed',
         th[k].pc # "delete", th'[k].pc # "delete",
         k \in Containers =>
            /\ visit' = visit /\ empties' = empties
            /\ Owned(k)' \in {None, Owned(k)}
            /\ veth[k] # None => th'[k].pc = "idle" /\ info'[k] = info[k]
            /\ th'[k].pc \in InPools => th'[k].pool \in pools,
         k = GC =>
            /\ th'[GC].pc \in Collecting => visit' \subseteq pools
            /\ \A b \in Blocks : alloc[b] # None \/ b \in Mine =>
                  (Ahead(b) => Ahead(b)')
  PROVE  BInv' /\ LeaseStep
<1>1. Mine' = Mine /\ Attached' = Attached
  BY DEF Mine, Attached
<1>2. \A c \in Containers : Owned(c)' \in {None, Owned(c)}
  BY ThreadNames DEF Owned, Releasing
<1>3. PoolsOK'
  <2>1. \A c \in Containers : th'[c].pc \in InPools => th'[c].pool \in pools
    BY ThreadNames DEF BInv, PoolsOK
  <2>2. th'[GC].pc \in Collecting => visit' \subseteq pools
    <3>1. CASE k = GC
      BY <3>1
    <3>2. CASE k # GC
      BY <3>2, ThreadNames DEF BInv, PoolsOK, Threads
    <3> QED
      BY <3>1, <3>2
  <2> QED
    BY <2>1, <2>2 DEF BInv, PoolsOK
<1>4. ReservedOK' /\ OwnedOK'
  BY <1>1, <1>2 DEF BInv, ReservedOK, OwnedOK
<1>5. \A c \in Containers : AttachedOK(c)'
  <2> SUFFICES ASSUME NEW c \in Containers
               PROVE  AttachedOK(c)'
    OBVIOUS
  <2>1. AttachedOK(c)
    BY DEF BInv
  <2>2. CASE c = k
    BY <1>1, <2>1, <2>2, GuardedKept DEF AttachedOK
  <2>3. CASE c # k
    BY <1>1, <2>1, <2>3, ThreadNames, GuardedKept DEF AttachedOK
  <2> QED
    BY <2>2, <2>3
<1>6. \A b : InUse(b)' <=> InUse(b)
  BY <1>1 DEF InUse
<1>7. BootEmpty'
  BY <1>6 DEF BInv, BootEmpty
<1>8. \A b : Returning(b) => Returning(b)'
  BY DEF Returning
<1>9. \A b \in Blocks : alloc[b] # None \/ b \in Mine => (Ahead(b) => Ahead(b)')
  BY ThreadNames DEF Ahead, Threads
<1>10. KnownOK'
  BY <1>1, <1>6, <1>8, <1>9, GuardedKept DEF BInv, KnownOK, Doomed
<1>11. UndeletedOK'
  BY <1>1 DEF BInv, UndeletedOK
<1>12. LeaseStep
  <2> DEFINE C == {c \in Containers : veth[c] = None /\ Owned(c)' = None}
  <2>1. \A c \in Containers : Lent(c)' = IF c \in C THEN None ELSE Lent(c)
    BY <1>2 DEF Lent
  <2> QED
    BY <1>1, <2>1 DEF LeaseStep, Ends
<1> QED
  BY <1>3, <1>4, <1>5, <1>7, <1>10, <1>11, <1>12 DEF BInv

\* No thread moves.
LEMMA UntouchedLease ==
  ASSUME TInv, Core, BInv,
         UNCHANGED <<blk, alloc, pools, mode, boot, veth, th, info, visit, empties>>,
         failed \subseteq failed'
  PROVE  BInv' /\ LeaseStep
<1>1. Mine' = Mine /\ Attached' = Attached
  BY DEF Mine, Attached
<1>2. \A c \in Containers : Owned(c)' = Owned(c) /\ Lent(c)' = Lent(c)
  BY DEF Owned, Releasing, Lent
<1>3. PoolsOK' /\ ReservedOK' /\ OwnedOK'
  BY <1>1, <1>2 DEF BInv, PoolsOK, ReservedOK, OwnedOK
<1>4. \A c \in Containers : AttachedOK(c)'
  BY <1>1, GuardedKept DEF BInv, AttachedOK
<1>5. BootEmpty' /\ KnownOK' /\ UndeletedOK'
  BY <1>1, GuardedKept
     DEF BInv, BootEmpty, KnownOK, UndeletedOK, Doomed, Returning, Ahead, InUse
<1>6. Ends({})
  BY <1>1, <1>2 DEF Ends
<1> QED
  BY <1>3, <1>4, <1>5, <1>6 DEF BInv, LeaseStep

\* A new process knows nothing.  Every block of this node either has a pod, so
\* its finalizer, or the collector will come to it.
LEMMA RestartLease ==
  ASSUME TInv, Core, BInv, NEW keep, Restart(keep), keep = Attached',
         Unfinalizes, UNCHANGED blk \/ Unguarded', failed \subseteq failed',
         \A c \in Containers : veth'[c] \in {None, veth[c]}
  PROVE  BInv' /\ LeaseStep
<1>1. /\ Mine' = Mine /\ Mine \subseteq Blocks
      /\ \A b \in Blocks : Guarded(b) => Guarded(b)'
  BY GuardedKept DEF Mine, Unfinalizes, Guarded
<1>2. \A g \in Threads : th'[g].pc = "idle" /\ th'[g].addr = None
  BY IdleTyped DEF Restart
<1>3. /\ \A b \in Blocks : alloc'[b] = None
      /\ \A c \in Containers : info'[c] = None
      /\ pools' = {} /\ mode' = "boot" /\ boot' = Attached'
  BY DEF Restart
<1>4. \A c \in Containers : Owned(c)' = None
  BY <1>2, <1>3, ThreadNames DEF Owned, Releasing
<1>5. PoolsOK' /\ ReservedOK' /\ OwnedOK' /\ BootEmpty' /\ UndeletedOK'
  BY <1>1, <1>2, <1>3, <1>4, ThreadNames, ConstantsAssumption DEF BInv, PoolsOK,
     ReservedOK, OwnedOK, BootEmpty, UndeletedOK, InPools, Collecting, Unfinalizes
<1>6. \A c \in Containers : AttachedOK(c)'
  BY <1>1, <1>2, <1>3, ThreadNames DEF BInv, AttachedOK, Attached
<1>7. KnownOK'
  <2> SUFFICES ASSUME NEW b \in Blocks, b \in Mine', ~Doomed(b)'
               PROVE  Guarded(b)'
    BY <1>1, <1>3 DEF KnownOK
  <2>1. InUse(b)'
    BY <1>2, <1>3, ThreadNames DEF Doomed, Ahead
  <2> QED
    BY <1>6, <2>1 DEF InUse, AttachedOK, Attached
<1>8. LeaseStep
  <2> DEFINE C == {c \in Containers : veth'[c] = None}
  <2>1. \A c \in Containers : Lent(c)' = IF c \in C THEN None ELSE Lent(c)
    BY <1>4 DEF Lent
  <2> QED
    BY <1>1, <2>1 DEF LeaseStep, Ends
<1> QED
  BY <1>5, <1>6, <1>7, <1>8 DEF BInv

\* The collector ends and coild serves calls.  At start-up it has come to every
\* block by then.
LEMMA EndGCLease ==
  ASSUME TInv, Core, BInv, NEW ok \in BOOLEAN, EndGC(ok), UNCHANGED veth,
         Unfinalizes,
         \/ UNCHANGED blk /\ th[GC].pc # "delete"
         \/ Unguarded' /\ "userDelete" \notin failed',
         failed \subseteq failed', th[GC].pc # "idle",
         ok => th[GC].pc = "export"
  PROVE  BInv' /\ LeaseStep
<1>1. CASE mode = "boot" /\ ~ok
  <2>1. Restart(Attached) /\ Attached' = Attached
    BY <1>1 DEF EndGC, Attached
  <2> QED
    BY <2>1, RestartLease
<1>2. CASE ~(mode = "boot" /\ ~ok)
  <2>1. /\ mode' = "up" /\ visit' = {} /\ empties' = {} /\ Return(GC)
        /\ UNCHANGED <<boot, pools, alloc, info>>
    BY <1>2 DEF EndGC, known
  <2>2. /\ th'[GC].pc = "idle"
        /\ \A g \in Threads : g # GC => th'[g] = th[g]
    BY <2>1, ReturnFacts, IdleTyped, ThreadNames DEF TInv
  <2>3. /\ Mine' = Mine /\ Mine \subseteq Blocks /\ Attached' = Attached
        /\ \A b \in Blocks : Guarded(b) => Guarded(b)'
    BY GuardedKept DEF Mine, Attached, Unfinalizes, Guarded
  <2>4. \A c \in Containers : th'[c] = th[c] /\ Owned(c)' = Owned(c)
    BY <2>1, <2>2, ThreadNames DEF Owned, Releasing
  <2>5. PoolsOK' /\ ReservedOK' /\ OwnedOK'
    BY <2>1, <2>2, <2>3, <2>4, ConstantsAssumption DEF BInv, PoolsOK, ReservedOK,
       OwnedOK, Collecting, Unfinalizes
  <2>6. \A c \in Containers : AttachedOK(c)'
    BY <2>1, <2>3, <2>4 DEF BInv, AttachedOK
  <2>7. BootEmpty' /\ UndeletedOK'
    <3>1. BootEmpty'
      BY <2>1 DEF BootEmpty
    <3>2. \A k \in Threads : th'[k].pc = "delete" =>
             th[k].pc = "delete" /\ th'[k].target = th[k].target /\ th[k].target \in Blocks
      BY <2>2, TargetFree
    <3> QED
      BY <2>1, <2>3, <3>1, <3>2 DEF BInv, UndeletedOK, Unfinalizes
  <2>8. ASSUME UNCHANGED blk, th[GC].pc # "delete"
        PROVE  KnownOK'
    <3>1. \A b \in Blocks : Doomed(b) => Returning(b)
      BY <1>2, <2>8 DEF Doomed, Ahead, Collecting, TInv, TypeMem
    <3>2. \A b : Returning(b) => Returning(b)'
      BY <2>2, <2>8 DEF Returning
    <3> QED
      BY <2>1, <2>3, <3>1, <3>2 DEF BInv, KnownOK, Doomed
  <2>9. ASSUME Unguarded', "userDelete" \notin failed'
        PROVE  KnownOK'
    BY <2>1, <2>3, <2>9 DEF BInv, KnownOK, UndeletedOK, Guarded
  <2>10. KnownOK'
    BY <2>8, <2>9
  <2>11. Ends({})
    BY <2>3, <2>4 DEF Ends, Lent
  <2> QED
    BY <2>5, <2>6, <2>7, <2>10, <2>11 DEF BInv, LeaseStep
<1> QED
  BY <1>1, <1>2

-----------------------------------------------------------------------------
(* The steps of coildServer.Add and Del *)

\* The start of an ADD takes nothing: what is registered stays.
LEMMA BeginAddLease ==
  ASSUME TInv, Core, BInv, NEW c \in Containers, BeginAdd(c)
  PROVE  BInv' /\ LeaseStep
<1>1. UNCHANGED <<blk, alloc, pools, mode, boot, veth, info, visit, empties, failed>>
  BY DEF BeginAdd, world, api, proc, known, gcv, kernel
<1>2. th[c].pc = "idle" /\ veth[c] = None /\ LocalOK(c)
  BY DEF BeginAdd, Core
<1>3. /\ \A g \in Threads : g # c => th'[g] = th[g]
      /\ th'[c].pc \in {"setup", "getPool"} /\ th'[c].addr = None
  <2>1. CASE info[c] # None
    BY <1>2, <2>1, GotoFacts, ThreadNames DEF BeginAdd, PCs, TInv, LocalOK
  <2>2. CASE info[c] = None
    <3>1. PICK p \in Pools :
             th' = [th EXCEPT ![c] = [idle EXCEPT !.pc = "getPool", !.pool = p]]
      BY <2>2 DEF BeginAdd
    <3>2. PICK r \in Thread : /\ r = [idle EXCEPT !.pc = "getPool", !.pool = p]
                              /\ r.pc = "getPool" /\ r.addr = None
      BY IdleTyped DEF idle
    <3>3. th' = [th EXCEPT ![c] = r]
      BY <3>1, <3>2
    <3>4. TypeTh /\ c \in Threads
      BY ThreadNames DEF TInv
    <3>5. th'[c] = r /\ \A g \in Threads : g # c => th'[g] = th[g]
      BY <3>3, <3>4, SetFacts
    <3> QED
      BY <3>2, <3>5
  <2> QED
    BY <2>1, <2>2
<1>4. Owned(c)' = Owned(c)
  BY <1>1, <1>2, <1>3 DEF Owned, Releasing, LocalOK
<1> QED
  BY <1>1, <1>2, <1>3, <1>4, QuietLease, ThreadNames DEF InPools

\* Nor do the steps of nodePool.allocate around the BlockRequest, its error
\* returns, a failed SetupIPAM and a Free of an unknown container.
LEMMA AddStepsLease ==
  ASSUME TInv, Core, BInv, NEW c \in Containers,
         \/ GetPoolFails(c) \/ AllocateFull(c) \/ AllocateFails(c)
         \/ DeleteRequest(c) \/ CreateRequest(c) \/ EnterSelect(c)
         \/ SetupIPAMFails(c) \/ FreeUnknown(c)
  PROVE  BInv' /\ LeaseStep
<1>1. /\ UNCHANGED <<blk, alloc, pools, mode, boot, veth, info, visit, empties>>
      /\ failed \subseteq failed'
  BY DEF GetPoolFails, AllocateFull, AllocateFails, DeleteRequest,
     CreateRequest, EnterSelect, SetupIPAMFails, FreeUnknown, Fails, world, api,
     proc, known, gcv, kernel
<1>2. /\ th[c].pc \in {"getPool", "alloc", "delReq", "mkReq", "created", "wait",
                       "got", "setup", "free"}
      /\ LocalOK(c) /\ AttachedOK(c) /\ c \in Threads
  BY ThreadNames DEF GetPoolFails, AllocateFull, AllocateFails, DeleteRequest,
     CreateRequest, EnterSelect, SetupIPAMFails, FreeUnknown, Core, BInv
<1>3. th[c].addr = None /\ veth[c] = None
  BY <1>2 DEF LocalOK, AttachedOK
<1>4. /\ \A g \in Threads : g # c => th'[g] = th[g]
      /\ th'[c].addr = None
      /\ \/ th'[c].pc \in {"idle", "free"}
         \/ /\ th'[c].pc \in InPools /\ th'[c].pool = th[c].pool
            /\ th[c].pc \in InPools
  <2>1. CASE Return(c)
    BY <1>2, <2>1, ReturnFacts, IdleTyped DEF TInv
  <2>2. CASE \E l \in {"delReq", "mkReq", "created", "wait"} :
                Goto(c, l) /\ th[c].pc \in InPools
    BY <1>2, <1>3, <2>2, GotoFacts DEF TInv, PCs, InPools
  <2>3. CASE Goto(c, "free")
    BY <1>2, <1>3, <2>3, GotoFacts DEF TInv, PCs
  <2> QED
    BY <2>1, <2>2, <2>3 DEF GetPoolFails, AllocateFull, AllocateFails,
       DeleteRequest, CreateRequest, EnterSelect, SetupIPAMFails, FreeUnknown, InPools
<1>5. Owned(c)' = Owned(c)
  BY <1>1, <1>2, <1>3, <1>4 DEF Owned, Releasing, InPools
<1>6. th'[c].pc \in InPools => th'[c].pool \in pools
  BY <1>2, <1>4 DEF BInv, PoolsOK, InPools
<1> QED
  BY <1>1, <1>2, <1>3, <1>4, <1>5, <1>6, QuietLease, ThreadNames DEF InPools

\* getPool only learns blocks of this node, empty unless reserved.
LEMMA LearnLease ==
  ASSUME TInv, Core, BInv, NEW p \in Pools, NEW a,
         a = syncBlock(p) \/ (p \in pools /\ a = alloc)
  PROVE  /\ \A b \in Blocks : a[b] # None =>
               \/ a[b] = alloc[b]
               \/ b \in Mine /\ alloc[b] = None /\ a[b] = newBlock(b) /\ PoolOf[b] = p
         /\ \A b \in Blocks : alloc[b] # None => a[b] = alloc[b]
         /\ \A b \in Blocks : a[b] # None => PoolOf[b] \in pools \cup {p}
         /\ \A b \in Reserved : a[b] # None => isFull(a[b])
         /\ a = syncBlock(p) => \A b \in Mine : PoolOf[b] = p => a[b] # None
<1>1. \A b \in Blocks : newBlock(b) # None
  <2>1. newAllocator \in AllocatorState /\ fill \in AllocatorState
    BY SizeAssumption DEF newAllocator, fill, AllocatorState, Index
  <2> QED
    BY <2>1, ConstantsAssumption DEF newBlock
<1>2. \A b \in Blocks : a[b] = alloc[b] \/
         (b \in Mine /\ alloc[b] = None /\ a[b] = newBlock(b) /\ PoolOf[b] = p)
  BY DEF syncBlock, InPool
<1>3. \A b \in Reserved : a[b] # None => isFull(a[b])
  BY <1>2, ConstantsAssumption DEF BInv, ReservedOK, newBlock, fill, isFull
<1>4. a = syncBlock(p) => \A b \in Mine : PoolOf[b] = p => a[b] # None
  BY <1>1 DEF syncBlock, InPool, Mine
<1> QED
  BY <1>1, <1>2, <1>3, <1>4 DEF BInv, PoolsOK

\* A step that learns the blocks of pool p and moves one thread.
LEMMA LearnStepLease ==
  ASSUME TInv, Core, BInv, NEW k \in Threads, NEW p \in Pools,
         \A g \in Threads : g # k => th'[g] = th[g],
         UNCHANGED <<blk, mode, boot, veth, info, failed>>,
         pools' = pools \cup {p},
         alloc' = syncBlock(p) \/ (p \in pools /\ alloc' = alloc),
         th[k].pc # "delete", th'[k].pc # "delete",
         k \in Containers =>
            /\ visit' = visit /\ empties' = empties
            /\ Owned(k)' = Owned(k)
            /\ th[k].pc # "idle"
            /\ th'[k].pc \in InPools => th'[k].pool \in pools',
         k = GC =>
            /\ th'[GC].pc \in Collecting => visit' \subseteq pools'
            /\ \A b \in Blocks : 
                  /\ alloc'[b] # None \/ b \in Mine
                  /\ mode = "boot" /\ ~InUse(b) /\ b \notin Reserved
                  /\ BootEmpty'
                  => (Ahead(b) => Ahead(b)')
  PROVE  BInv' /\ LeaseStep
<1>1. Mine' = Mine /\ Attached' = Attached
  BY DEF Mine, Attached
<1>2. /\ \A b \in Blocks : alloc'[b] # None =>
            \/ alloc'[b] = alloc[b]
            \/ b \in Mine /\ alloc[b] = None /\ alloc'[b] = newBlock(b) /\ PoolOf[b] = p
      /\ \A b \in Blocks : alloc[b] # None => alloc'[b] = alloc[b]
      /\ \A b \in Blocks : alloc'[b] # None => PoolOf[b] \in pools'
      /\ \A b \in Reserved : alloc'[b] # None => isFull(alloc'[b])
      /\ \A b \in Mine : PoolOf[b] = p => p \in pools \/ alloc'[b] # None
  BY LearnLease
<1>3. \A c \in Containers : Owned(c)' = Owned(c) /\ Lent(c)' = Lent(c)
  BY ThreadNames DEF Owned, Releasing, Lent
<1>4. PoolsOK'
  <2>1. \A c \in Containers : th'[c].pc \in InPools => th'[c].pool \in pools'
    BY ThreadNames DEF BInv, PoolsOK
  <2>2. th'[GC].pc \in Collecting => visit' \subseteq pools'
    <3>1. CASE k = GC
      BY <3>1
    <3>2. CASE k # GC
      BY <3>2, ThreadNames DEF BInv, PoolsOK, Threads
    <3> QED
      BY <3>1, <3>2
  <2> QED
    BY <1>2, <2>1, <2>2 DEF BInv, PoolsOK
<1>5. ReservedOK' /\ OwnedOK'
  BY <1>1, <1>2, <1>3 DEF BInv, ReservedOK, OwnedOK
<1>6. \A c \in Containers : AttachedOK(c)'
  <2> SUFFICES ASSUME NEW c \in Containers, veth[c] # None
               PROVE  AttachedOK(c)'
    BY DEF AttachedOK
  <2>1. AttachedOK(c) /\ th'[c] = th[c] /\ c \in Threads
    BY ThreadNames DEF BInv, AttachedOK
  <2>2. veth[c].b \in Mine \ Reserved /\ veth[c].b \in Blocks
    BY <2>1 DEF AttachedOK, Mine
  <2>3. mode = "boot" /\ PoolOf[veth[c].b] \in pools' => alloc'[veth[c].b] # None
    BY <1>2, <2>1, <2>2 DEF AttachedOK
  <2> QED
    BY <1>1, <2>1, <2>3, GuardedKept DEF AttachedOK
<1>7. \A b : InUse(b)' <=> InUse(b)
  BY <1>1 DEF InUse
<1>8. BootEmpty'
  BY <1>2, <1>7 DEF BInv, BootEmpty, newBlock, newAllocator, isEmpty
<1>9. \A b : Returning(b) => Returning(b)'
  BY DEF Returning
<1>10. KnownOK'
  <2> SUFFICES ASSUME NEW b \in Blocks, alloc'[b] # None \/ b \in Mine
               PROVE  Doomed(b)' \/ (b \in Mine /\ Guarded(b))
    BY <1>1, GuardedKept DEF KnownOK
  <2>1. Doomed(b) \/ (b \in Mine /\ Guarded(b))
    BY <1>2 DEF BInv, KnownOK
  <2>2. CASE mode = "boot" /\ ~InUse(b) /\ Ahead(b) /\ b \notin Reserved
    <3>1. Ahead(b)'
      <4>1. CASE k = GC
        BY <1>8, <2>2, <4>1
      <4>2. CASE k # GC
        BY <2>2, <4>2, ThreadNames DEF Ahead, Threads
      <4> QED
        BY <4>1, <4>2
    <3> QED
      BY <1>7, <2>2, <3>1 DEF Doomed
  <2> QED
    BY <1>9, <2>1, <2>2 DEF Doomed, BInv, ReservedOK, Guarded
<1>11. UndeletedOK'
  BY <1>1, <1>2 DEF BInv, UndeletedOK
<1>12. Ends({})
  BY <1>1, <1>3 DEF Ends
<1> QED
  BY <1>4, <1>5, <1>6, <1>8, <1>10, <1>11, <1>12 DEF BInv, LeaseStep

\* getPool in a call of ADD.
LEMMA GetPoolLease ==
  ASSUME TInv, Core, BInv, NEW c \in Containers, GetPool(c)
  PROVE  BInv' /\ LeaseStep
<1>1. UNCHANGED <<blk, mode, boot, veth, info, visit, empties, failed>>
  BY DEF GetPool, world, api, proc, gcv, kernel
<1>2. th[c].pc = "getPool" /\ LocalOK(c) /\ th[c].pool \in Pools /\ c \in Threads
  BY ThreadNames DEF GetPool, Core, TInv, PcOK
<1>3. /\ \A g \in Threads : g # c => th'[g] = th[g]
      /\ th'[c].pc = "alloc" /\ th'[c].addr = th[c].addr /\ th'[c].pool = th[c].pool
  BY GotoFacts, ThreadNames DEF GetPool, PCs, TInv
<1>4. Owned(c)' = Owned(c)
  BY <1>1, <1>2, <1>3 DEF Owned, Releasing
<1>5. /\ pools' = pools \cup {th[c].pool}
      /\ alloc' = syncBlock(th[c].pool) \/ (th[c].pool \in pools /\ alloc' = alloc)
  BY DEF GetPool, getPool
<1> QED
  BY <1>1, <1>2, <1>3, <1>4, <1>5, LearnStepLease, ThreadNames

\* nodePool.allocate takes a clear index of a block that is known, perhaps only
\* since a moment ago.  The block is not reserved, since a reserved one is full,
\* and not being returned, since no other thread has the pool's mutex; so it is
\* this node's.
LEMMA TakeLease ==
  ASSUME TInv, Core, BInv, NEW c \in Containers, NEW b \in Blocks, NEW a,
         a = alloc \/ a = syncBlock(PoolOf[b]), PoolOf[b] \in pools,
         a[b] # None, ~isFull(a[b]), pmu[PoolOf[b]] \in {None, c},
         UNCHANGED <<blk, mode, boot, veth, pools, visit, empties, failed>>,
         alloc' = [a EXCEPT ![b] = allocate(a[b])],
         NEW x, x = [b |-> b, i |-> NextIndex(a[b])],
         \A g \in Threads : g # c => th'[g] = th[g],
         \A d \in Containers : d # c => info'[d] = info[d],
         th[c].pc \in {"alloc", "got"}, th'[c].pc \in {"setup", "list"},
         Owned(c)' = x
  PROVE  BInv' /\ LeaseStep
<1>1. /\ LocalOK(c) /\ info[c] = None /\ mode = "up" /\ th[c].addr = None
      /\ veth[c] = None /\ boot = {} /\ c \in Threads /\ c # GC
  BY ThreadNames DEF Core, LocalOK, NoInfo, TInv, BootOK, TypeMem, BInv, AttachedOK
<1>2. PoolOf[b] \in Pools
  BY ConstantsAssumption
<1>3. /\ \A d \in Blocks : a[d] # None => PoolOf[d] \in pools
      /\ \A d \in Blocks : a[d] # None => alloc[d] # None \/ d \in Mine
      /\ \A d \in Reserved : a[d] # None => isFull(a[d])
      /\ a \in [Blocks -> Orphan(AllocatorState)]
  <2>1. CASE a = alloc
    BY <2>1 DEF BInv, PoolsOK, ReservedOK, TInv, TypeTab
  <2>2. CASE a = syncBlock(PoolOf[b])
    <3>1. a \in [Blocks -> Orphan(AllocatorState)]
      BY <2>2, syncBlockTyped DEF TInv
    <3> QED
      BY <1>2, <2>2, <3>1, LearnLease
  <2> QED
    BY <2>1, <2>2
<1>4. /\ a[b] \in AllocatorState /\ x \in Addr /\ x # None /\ x.b = b
      /\ x.i = NextIndex(a[b]) /\ x.i \in Index \ a[b].usage
  <2>1. a[b] \in AllocatorState
    BY <1>3 DEF Orphan
  <2>2. NextIndex(a[b]) \in Index \ a[b].usage
    BY <2>1, NextIndexIsClear
  <2> QED
    BY <2>1, <2>2, ConstantsAssumption DEF Addr
<1>5. alloc'[b] # None /\ \A d \in Blocks : d # b => alloc'[d] = a[d]
  BY <1>3, <1>4, AllocatorTyped, ConstantsAssumption
<1>6. b \notin Reserved
  BY <1>3
<1>7. b \in Mine
  <2>1. ~Returning(b)
    <3>1. ASSUME NEW g \in Threads, th[g].pc = "delete", th[g].target = b
          PROVE  FALSE
      <4>1. th[g].pool = PoolOf[b] /\ pmu[PoolOf[b]] = g
        BY <3>1, TargetFree DEF Core, LockOK, Holding
      <4> QED
        BY <3>1, <4>1, ThreadNames
    <3> QED
      BY <3>1 DEF Returning
  <2> QED
    BY <1>1, <1>3, <2>1 DEF BInv, KnownOK, Doomed
<1>8. Mine' = Mine /\ Attached' = Attached
  BY DEF Mine, Attached
<1>9. \A d \in Containers : d # c => Owned(d)' = Owned(d) /\ Lent(d)' = Lent(d)
  BY ThreadNames DEF Owned, Releasing, Lent
<1>10. Lent(c) = None /\ Lent(c)' = x
  BY <1>1 DEF Lent, Owned, Releasing
<1>11. PoolsOK'
  BY <1>3, <1>5, <1>1, ThreadNames DEF BInv, PoolsOK, InPools
<1>12. ReservedOK' /\ OwnedOK' /\ BootEmpty'
  BY <1>1, <1>3, <1>4, <1>5, <1>6, <1>8, <1>9, ConstantsAssumption
     DEF BInv, ReservedOK, OwnedOK, BootEmpty
<1>13. \A d \in Containers : AttachedOK(d)'
  <2> SUFFICES ASSUME NEW d \in Containers, veth[d] # None
               PROVE  AttachedOK(d)'
    BY DEF AttachedOK
  <2>1. AttachedOK(d) /\ d # c /\ d \in Threads
    BY <1>1, ThreadNames DEF BInv
  <2> QED
    BY <1>1, <1>8, <2>1, GuardedKept DEF AttachedOK
<1>14. KnownOK' /\ UndeletedOK'
  <2>1. \A d : Returning(d) => Returning(d)'
    BY DEF Returning
  <2>2. \A d \in Blocks : alloc'[d] # None => alloc[d] # None \/ d \in Mine
    BY <1>3, <1>5, <1>7
  <2>3. KnownOK'
    BY <1>1, <1>8, <2>1, <2>2, GuardedKept DEF BInv, KnownOK, Doomed
  <2>4. UndeletedOK'
    BY <1>8, <2>2 DEF BInv, UndeletedOK
  <2> QED
    BY <2>3, <2>4
<1>15. Grants(c, x)
  <2>1. \A d \in Containers : Lent(d) # x
    <3> SUFFICES ASSUME NEW d \in Containers, Owned(d) = x
                 PROVE  FALSE
      BY <1>1, LentOwned
    <3>1. alloc[b] # None /\ x.i \in alloc[b].usage
      BY <1>4, OwnTyped DEF Core, Books, Held
    <3>2. a[b] = alloc[b]
      BY <3>1, syncBlockTyped DEF TInv
    <3> QED
      BY <1>4, <3>1, <3>2
  <2> QED
    BY <1>4, <1>6, <1>7, <1>8, <1>9, <1>10, <2>1 DEF Grants
<1> QED
  BY <1>4, <1>11, <1>12, <1>13, <1>14, <1>15 DEF BInv, LeaseStep

\* An address of a known block.
LEMMA AllocateKnownLease ==
  ASSUME TInv, Core, BInv, NEW c \in Containers, AllocateKnown(c)
  PROVE  BInv' /\ LeaseStep
<1>1. /\ UNCHANGED <<blk, mode, boot, veth, pools, visit, empties, failed>>
      /\ th[c].pc = "alloc" /\ c \in Threads
  BY ThreadNames DEF AllocateKnown, world, api, proc, gcv, kernel
<1>2. PICK b \in HasRoom(th[c].pool) :
         /\ info' = [info EXCEPT ![c] = [b |-> b, i |-> NextIndex(alloc[b])]]
         /\ alloc' = [alloc EXCEPT ![b] = allocate(alloc[b])]
  BY DEF AllocateKnown
<1>3. /\ b \in Blocks /\ PoolOf[b] = th[c].pool /\ alloc[b] # None
      /\ ~isFull(alloc[b]) /\ pmu[PoolOf[b]] = None /\ PoolOf[b] \in pools
  BY <1>2 DEF HasRoom, InPool, AllocateKnown, BInv, PoolsOK
<1> DEFINE x == [b |-> b, i |-> NextIndex(alloc[b])]
<1>4. /\ \A g \in Threads : g # c => th'[g] = th[g]
      /\ th'[c].pc = "setup" /\ th'[c].addr = None
  <2>1. PICK r \in Thread : r = [idle EXCEPT !.pc = "setup"]
                            /\ r.pc = "setup" /\ r.addr = None
    BY IdleTyped DEF idle, PCs
  <2> QED
    BY <1>1, <2>1, SetFacts DEF AllocateKnown, TInv
<1>5. info'[c] = x /\ \A d \in Containers : d # c => info'[d] = info[d]
  BY <1>2 DEF TInv, TypeTab
<1>6. Owned(c)' = x
  BY <1>4, <1>5 DEF Owned, Releasing
<1>7. alloc' = [alloc EXCEPT ![b] = allocate(alloc[b])]
  BY <1>2
<1> QED
  BY <1>1, <1>3, <1>4, <1>5, <1>6, <1>7, TakeLease

\* An address of the block that was asked for.
LEMMA ResultAllocateLease ==
  ASSUME TInv, Core, BInv, NEW c \in Containers, ResultAllocate(c)
  PROVE  BInv' /\ LeaseStep
<1> DEFINE p == th[c].pool
           b == th[c].got
           synced == syncBlock(p)
           x == [b |-> b, i |-> NextIndex(synced[b])]
<1>1. /\ UNCHANGED <<blk, mode, boot, veth, pools, info, visit, empties, failed>>
      /\ th[c].pc = "got" /\ c \in Threads
  BY ThreadNames DEF ResultAllocate, world, api, proc, gcv, kernel
<1>2. /\ LocalOK(c) /\ LockOK(c) /\ pmu[p] = c /\ p \in pools
  BY <1>1, ThreadNames DEF Core, LockOK, Holding, BInv, PoolsOK, InPools
<1>3. b \in Blocks /\ PoolOf[b] = p
  BY <1>1, <1>2 DEF LocalOK, AnswerFor, InPool, ResultAllocate
<1>4. /\ synced[b] # None /\ ~isFull(synced[b])
      /\ alloc' = [synced EXCEPT ![b] = allocate(synced[b])]
      /\ synced \in [Blocks -> Orphan(AllocatorState)]
  BY syncBlockTyped DEF ResultAllocate, TInv
<1>5. x \in Addr /\ x # None
  <2>1. x \in Addr
    BY <1>3, <1>4, NextIndexIsClear DEF Addr, Orphan
  <2> QED
    BY <2>1, ConstantsAssumption DEF Addr
<1>6. th' = [th EXCEPT ![c] = [idle EXCEPT !.pc = "list", !.addr = x]]
  BY DEF ResultAllocate
<1>7. x = [b |-> b, i |-> NextIndex(synced[b])] /\ synced = syncBlock(PoolOf[b])
  BY <1>3
<1> HIDE DEF x, synced, b
<1>8. /\ \A g \in Threads : g # c => th'[g] = th[g]
      /\ th'[c].pc = "list" /\ th'[c].addr = x
  <2>1. PICK r \in Thread : r = [idle EXCEPT !.pc = "list", !.addr = x]
                            /\ r.pc = "list" /\ r.addr = x
    BY <1>5, IdleTyped DEF idle
  <2>2. th' = [th EXCEPT ![c] = r]
    BY <1>6, <2>1
  <2> QED
    BY <1>1, <2>1, <2>2, SetFacts DEF TInv
<1>9. Owned(c)' = x
  BY <1>5, <1>8 DEF Owned
<1> QED
  BY <1>1, <1>2, <1>3, <1>4, <1>7, <1>8, <1>9, TakeLease

\* SetupIPAM gives the pod the address that coild owns for it: the pod will
\* find its block to be this node's, with its finalizer.
LEMMA SetupIPAMLease ==
  ASSUME TInv, Core, BInv, NEW c \in Containers, SetupIPAM(c)
  PROVE  BInv' /\ LeaseStep
<1>1. /\ UNCHANGED <<blk, alloc, info, mode, boot, pools, visit, empties, failed>>
      /\ th[c].pc = "setup" /\ c \in Threads /\ c # GC
      /\ Return(c)
  BY ThreadNames DEF SetupIPAM, world, api, proc, known, gcv
<1>2. /\ LocalOK(c) /\ th[c].addr = None /\ mode = "up" /\ boot = {}
      /\ veth[c] = None
  BY <1>1 DEF Core, LocalOK, TInv, BootOK, TypeMem, BInv, AttachedOK
<1>3. /\ \A g \in Threads : g # c => th'[g] = th[g]
      /\ th'[c].pc = "idle" /\ th'[c].addr = None
  BY <1>1, ReturnFacts, IdleTyped DEF TInv
<1>4. veth'[c] = info[c] /\ \A d \in Containers : d # c => veth'[d] = veth[d]
  BY DEF SetupIPAM, TInv, TypeTab
<1>5. Owned(c) = info[c] /\ Owned(c)' = info[c]
  BY <1>1, <1>2, <1>3 DEF Owned, Releasing
<1>6. \A d \in Containers : Owned(d)' = Owned(d) /\ Lent(d)' = Lent(d)
  BY <1>1, <1>2, <1>3, <1>4, <1>5, ThreadNames DEF Owned, Releasing, Lent
<1>7. Mine' = Mine
  BY <1>1, SameMine
<1>8. PoolsOK' /\ ReservedOK' /\ OwnedOK' /\ BootEmpty' /\ UndeletedOK'
  <2>1. PoolsOK' /\ UndeletedOK'
    BY <1>1, <1>3, <1>7, ThreadNames DEF BInv, PoolsOK, UndeletedOK, InPools
  <2>2. ReservedOK' /\ OwnedOK' /\ BootEmpty'
    BY <1>1, <1>2, <1>6, <1>7 DEF BInv, ReservedOK, OwnedOK, BootEmpty
  <2> QED
    BY <2>1, <2>2
<1>9. ASSUME info[c] # None
      PROVE  info[c].b \in Mine \ Reserved /\ Guarded(info[c].b)
  <2>1. /\ info[c].b \in Blocks \ Reserved
        /\ alloc[info[c].b] # None /\ ~isEmpty(alloc[info[c].b])
    BY <1>5, <1>9, LentFacts
  <2>2. ~Returning(info[c].b)
    BY <2>1, TargetFree DEF Returning
  <2> QED
    BY <1>2, <2>1, <2>2 DEF BInv, KnownOK, Doomed
<1>10. \A d \in Containers : AttachedOK(d)'
  <2> SUFFICES ASSUME NEW d \in Containers
               PROVE  AttachedOK(d)'
    OBVIOUS
  <2>1. CASE d = c
    BY <1>1, <1>2, <1>3, <1>4, <1>7, <1>9, <2>1, GuardedKept DEF AttachedOK
  <2>2. CASE d # c
    <3>1. AttachedOK(d) /\ th'[d] = th[d]
      BY <1>3, <2>2, ThreadNames DEF BInv
    <3> QED
      BY <1>1, <1>4, <1>7, <2>2, <3>1, GuardedKept DEF AttachedOK
  <2> QED
    BY <2>1, <2>2
<1>11. KnownOK'
  <2>1. \A d : Returning(d) => Returning(d)'
    BY <1>1, <1>3 DEF Returning
  <2> QED
    BY <1>1, <1>2, <1>7, <2>1, GuardedKept DEF BInv, KnownOK, Doomed
<1>12. Ends({})
  BY <1>6, <1>7 DEF Ends
<1> QED
  BY <1>8, <1>10, <1>11, <1>12 DEF BInv, LeaseStep

\* Del takes the veth away; the address is still owned.
LEMMA BeginDelLease ==
  ASSUME TInv, Core, BInv, NEW c \in Containers, BeginDel(c)
  PROVE  BInv' /\ LeaseStep
<1>1. /\ UNCHANGED <<blk, alloc, info, mode, boot, pools, visit, empties, failed>>
      /\ th[c].pc = "idle" /\ c \in Threads /\ c # GC /\ mode = "up"
  BY ThreadNames DEF BeginDel, world, api, proc, known, gcv
<1>2. LocalOK(c) /\ th[c].addr = None /\ boot = {} /\ AttachedOK(c)
  BY <1>1 DEF Core, LocalOK, TInv, BootOK, BInv
<1>3. /\ \A g \in Threads : g # c => th'[g] = th[g]
      /\ th'[c].pc = "free" /\ th'[c].addr = None
  BY <1>1, <1>2, GotoFacts DEF BeginDel, TInv, PCs
<1>4. veth'[c] = None /\ \A d \in Containers : d # c => veth'[d] = veth[d]
  BY DEF BeginDel, Destroy, TInv, TypeTab
<1>5. Owned(c) = info[c] /\ Owned(c)' = info[c]
  BY <1>1, <1>2, <1>3 DEF Owned, Releasing
<1>6. \A d \in Containers : Owned(d)' = Owned(d) /\ Lent(d)' = Lent(d)
  <2>1. Lent(c)' = Lent(c)
    BY <1>2, <1>4, <1>5, LentOwned DEF Lent
  <2> QED
    BY <1>1, <1>3, <1>4, <1>5, <2>1, ThreadNames DEF Owned, Releasing, Lent
<1>7. Mine' = Mine
  BY <1>1, SameMine
<1>8. PoolsOK' /\ ReservedOK' /\ OwnedOK' /\ BootEmpty' /\ UndeletedOK'
  <2>1. PoolsOK' /\ UndeletedOK'
    BY <1>1, <1>3, <1>7, ThreadNames DEF BInv, PoolsOK, UndeletedOK, InPools
  <2>2. ReservedOK' /\ OwnedOK' /\ BootEmpty'
    BY <1>1, <1>6, <1>7 DEF BInv, ReservedOK, OwnedOK, BootEmpty
  <2> QED
    BY <2>1, <2>2
<1>9. \A d \in Containers : AttachedOK(d)'
  <2> SUFFICES ASSUME NEW d \in Containers, veth'[d] # None
               PROVE  AttachedOK(d)'
    BY DEF AttachedOK
  <2>1. AttachedOK(d) /\ th'[d] = th[d] /\ d # c
    BY <1>3, <1>4, ThreadNames DEF BInv
  <2> QED
    BY <1>1, <1>4, <1>7, <2>1, GuardedKept DEF AttachedOK
<1>10. KnownOK'
  <2>1. \A d : Returning(d) => Returning(d)'
    BY <1>1, <1>3 DEF Returning
  <2> QED
    BY <1>1, <1>7, <2>1, GuardedKept DEF BInv, KnownOK, Doomed
<1>11. Ends({})
  BY <1>6, <1>7 DEF Ends
<1> QED
  BY <1>8, <1>9, <1>10, <1>11 DEF BInv, LeaseStep

\* nodePool.free ends the lease of the container.
LEMMA FreeLease ==
  ASSUME TInv, Core, BInv, NEW c \in Containers, Free(c)
  PROVE  BInv' /\ LeaseStep
<1> DEFINE b == info[c].b
           left == free(alloc[b], info[c].i)
<1>1. /\ UNCHANGED <<blk, veth, mode, boot, pools, visit, empties, failed>>
      /\ th[c].pc = "free" /\ info[c] # None /\ c \in Threads /\ c # GC
  BY ThreadNames DEF Free, world, api, proc, gcv, kernel
<1>2. /\ LocalOK(c) /\ th[c].addr = None /\ mode = "up" /\ boot = {}
      /\ veth[c] = None
  BY <1>1 DEF Core, LocalOK, TInv, BootOK, TypeMem, BInv, AttachedOK
<1>3. Owned(c) = info[c]
  BY <1>1, <1>2 DEF Owned, Releasing
<1>4. b \in Blocks \ Reserved
  BY <1>1, <1>3, LentFacts
<1>5. \A d \in Blocks : /\ d # b => alloc'[d] = alloc[d]
                        /\ alloc'[d] # None => alloc[d] # None
  BY <1>4 DEF Free, TInv, TypeTab
<1>6. /\ \A g \in Threads : g # c => th'[g] = th[g]
      /\ th'[c].addr = None
      /\ \A d \in Containers : d # c => info'[d] = info[d]
      /\ \/ th'[c].pc = "idle" /\ info'[c] = None
         \/ th'[c].pc = "rmFin"
  <2>1. CASE isEmpty(left)
    <3>1. PICK r \in Thread : /\ r = [idle EXCEPT !.pc = "rmFin",
                                          !.pool = PoolOf[b], !.target = b]
                              /\ r.pc = "rmFin" /\ r.addr = None
      <4>1. b \in Blocks /\ PoolOf[b] \in Pools
        BY <1>4, ConstantsAssumption
      <4> HIDE DEF b
      <4> QED
        BY <4>1, IdleTyped DEF idle
    <3>2. th' = [th EXCEPT ![c] = r] /\ UNCHANGED info
      BY <2>1, <3>1 DEF Free
    <3> QED
      BY <1>1, <3>1, <3>2, SetFacts DEF TInv
  <2>2. CASE ~isEmpty(left)
    <3>1. info' = [info EXCEPT ![c] = None] /\ Return(c)
      BY <2>2 DEF Free
    <3> QED
      BY <1>1, <3>1, ReturnFacts, IdleTyped DEF TInv, TypeTab
  <2> QED
    BY <2>1, <2>2
<1> HIDE DEF b
<1>7. Owned(c)' = None /\ Lent(c)' = None
  BY <1>1, <1>2, <1>6 DEF Owned, Releasing, Lent
<1>8. \A d \in Containers : d # c => Owned(d)' = Owned(d) /\ Lent(d)' = Lent(d)
  BY <1>1, <1>6, ThreadNames DEF Owned, Releasing, Lent
<1>9. Mine' = Mine
  BY <1>1, SameMine
<1>10. PoolsOK' /\ BootEmpty' /\ UndeletedOK'
  BY <1>1, <1>2, <1>5, <1>6, <1>9, ThreadNames DEF BInv, PoolsOK, UndeletedOK,
     BootEmpty, InPools
<1>11. ReservedOK' /\ OwnedOK'
  BY <1>1, <1>4, <1>5, <1>7, <1>8, <1>9, ConstantsAssumption DEF BInv,
     ReservedOK, OwnedOK
<1>12. \A d \in Containers : AttachedOK(d)'
  <2> SUFFICES ASSUME NEW d \in Containers, veth[d] # None
               PROVE  AttachedOK(d)'
    BY <1>1 DEF AttachedOK
  <2>1. AttachedOK(d) /\ th'[d] = th[d] /\ d # c
    BY <1>2, <1>6, ThreadNames DEF BInv
  <2> QED
    BY <1>1, <1>2, <1>6, <1>9, <2>1, GuardedKept DEF AttachedOK
<1>13. KnownOK'
  <2>1. \A d : Returning(d) => Returning(d)'
    BY <1>1, <1>6 DEF Returning
  <2> QED
    BY <1>1, <1>2, <1>5, <1>9, <2>1, GuardedKept DEF BInv, KnownOK, Doomed
<1>14. Ends({c})
  BY <1>7, <1>8, <1>9 DEF Ends
<1> QED
  BY <1>10, <1>11, <1>12, <1>13, <1>14 DEF BInv, LeaseStep

-----------------------------------------------------------------------------
(* nodePool.deleteBlock and nodeIPAM.sync *)

\* The finalizer of a block without leases goes, and with it the object if it
\* was marked.
LEMMA RemoveFinalizerLease ==
  ASSUME TInv, Core, BInv, NEW g \in Threads, RemoveFinalizer(g)
  PROVE  BInv' /\ LeaseStep
<1>1. /\ UNCHANGED <<alloc, info, veth, mode, boot, pools, visit, empties, failed>>
      /\ th[g].pc = "rmFin" /\ boot = {}
  BY NoBootWhileReturning DEF RemoveFinalizer, proc, known, gcv, kernel
<1>2. PICK b \in Blocks \ Reserved :
         /\ b = th[g].target /\ alloc[b] # None
         /\ \A c \in Containers : Lent(c) # None => Lent(c).b # b
  BY <1>1, TargetFree
<1>3. /\ \A d \in Blocks : d # b => blk'[d] = blk[d]
      /\ ~blk'[b].fin
      /\ ~blk[b].del => ~blk'[b].del /\ blk'[b].owner = blk[b].owner
      /\ blk'[b].owner \in {"none", blk[b].owner}
  <2>1. blk' = [blk EXCEPT ![b] = IF blk[b].del THEN absent
                                  ELSE [blk[b] EXCEPT !.fin = FALSE]]
    BY <1>2 DEF RemoveFinalizer, unfinalized
  <2>2. blk \in [Blocks -> Object] /\ blk[b] \in Object
    BY <1>2 DEF TInv, TypeApi
  <2>3. CASE blk[b].del
    BY <1>2, <2>1, <2>2, <2>3 DEF absent
  <2>4. CASE ~blk[b].del
    <3>1. blk' = [blk EXCEPT ![b] = [blk[b] EXCEPT !.fin = FALSE]]
      BY <2>1, <2>4
    <3>2. blk'[b] = [blk[b] EXCEPT !.fin = FALSE]
      BY <1>2, <2>2, <3>1
    <3> QED
      BY <1>2, <2>2, <2>4, <3>1, <3>2 DEF Object
  <2> QED
    BY <2>3, <2>4
<1>4. /\ \A k \in Threads : k # g => th'[k] = th[k]
      /\ th'[g].pc = "delete" /\ th'[g].target = b /\ th'[g].addr = th[g].addr
  BY <1>2, GotoFacts DEF RemoveFinalizer, TInv, PCs
<1>5. \A c \in Containers : Owned(c)' = Owned(c) /\ Lent(c)' = Lent(c)
  BY <1>1, <1>4, ThreadNames DEF Owned, Releasing, Lent
<1>6. /\ Mine' = Mine \/ Mine' = Mine \ {b}
      /\ "userDelete" \notin failed => Mine' = Mine
  BY <1>2, <1>3 DEF Mine, BInv, UndeletedOK
<1>7. PoolsOK' /\ ReservedOK' /\ OwnedOK'
  <2>1. PoolsOK'
    BY <1>1, <1>4, ThreadNames DEF BInv, PoolsOK, InPools, Collecting
  <2>2. ReservedOK' /\ OwnedOK'
    BY <1>1, <1>2, <1>3, <1>5, <1>6, ConstantsAssumption DEF BInv, ReservedOK,
       OwnedOK
  <2> QED
    BY <2>1, <2>2
<1>8. \A c \in Containers : AttachedOK(c)'
  <2> SUFFICES ASSUME NEW c \in Containers, veth[c] # None
               PROVE  AttachedOK(c)'
    BY <1>1 DEF AttachedOK
  <2>1. /\ AttachedOK(c) /\ c \in Threads /\ c # g /\ veth[c].b # b
        /\ veth[c].b \in Blocks
    BY <1>1, <1>2, LentFacts, ThreadNames DEF BInv, AttachedOK, Lent
  <2> QED
    BY <1>1, <1>3, <1>4, <1>6, <2>1, GuardedKept DEF AttachedOK
<1>9. \A d : InUse(d)' <=> InUse(d)
  BY <1>1 DEF InUse, Attached
<1>10. BootEmpty'
  BY <1>1, <1>9 DEF BInv, BootEmpty
<1>11. UndeletedOK'
  <2>1. "userDelete" \notin failed =>
           \A d \in Blocks : ~blk'[d].del /\ (alloc'[d] # None => d \in Mine')
    BY <1>1, <1>2, <1>3, <1>6 DEF BInv, UndeletedOK
  <2>2. ASSUME "userDelete" \notin failed, NEW k \in Threads, th'[k].pc = "delete"
        PROVE  ~blk'[th'[k].target].fin
    <3>1. CASE th'[k].target = b
      BY <1>3, <3>1
    <3>2. CASE th'[k].target # b
      <4>1. k # g /\ th[k].pc = "delete" /\ th'[k].target = th[k].target
        BY <1>4, <2>2, <3>2
      <4>2. th[k].target \in Blocks
        BY <4>1, TargetFree
      <4> QED
        BY <1>3, <2>2, <3>2, <4>1, <4>2 DEF BInv, UndeletedOK
    <3> QED
      BY <3>1, <3>2
  <2> QED
    BY <1>1, <2>1, <2>2 DEF UndeletedOK
<1>12. KnownOK'
  <2>1. \A d : Returning(d) => Returning(d)'
    BY <1>1, <1>4 DEF Returning
  <2>2. Returning(b)'
    BY <1>4 DEF Returning
  <2>3. \A d : Ahead(d) => Ahead(d)'
    <3>1. CASE g = GC
      BY <1>1, <1>4, <3>1 DEF Ahead, Collecting
    <3>2. CASE g # GC
      BY <1>1, <1>4, <3>2, ThreadNames DEF Ahead
    <3> QED
      BY <3>1, <3>2
  <2> QED
    BY <1>1, <1>3, <1>6, <1>9, <2>1, <2>2, <2>3, GuardedKept
       DEF BInv, KnownOK, Doomed
<1>13. LeaseStep
  <2>1. CASE Mine' = Mine
    <3>1. Ends({})
      BY <1>5, <2>1 DEF Ends
    <3> QED
      BY <3>1 DEF LeaseStep
  <2>2. CASE Mine' = Mine \ {b}
    <3>1. Returns(b)
      BY <1>2, <1>5, <2>2 DEF Returns, SameLeases
    <3> QED
      BY <1>2, <3>1 DEF LeaseStep
  <2> QED
    BY <1>6, <2>1, <2>2
<1> QED
  BY <1>7, <1>8, <1>10, <1>11, <1>12, <1>13 DEF BInv

\* The object of a block without leases goes, or is marked if it has got a
\* finalizer again.  coild forgets the block.
LEMMA DeleteObjectLease ==
  ASSUME TInv, Core, BInv, NEW g \in Threads, DeleteObject(g)
  PROVE  BInv' /\ LeaseStep
<1>1. /\ UNCHANGED <<info, veth, mode, boot, pools, visit, failed>>
      /\ th[g].pc = "delete" /\ boot = {}
  BY NoBootWhileReturning DEF DeleteObject, proc, kernel
<1>2. PICK b \in Blocks \ Reserved :
         /\ b = th[g].target /\ alloc[b] # None
         /\ \A c \in Containers : Lent(c) # None => Lent(c).b # b
  BY <1>1, TargetFree
<1>3. /\ \A d \in Blocks : d # b => blk'[d] = blk[d]
      /\ \/ blk'[b].owner = "none" /\ ~blk'[b].fin /\ ~blk'[b].del
         \/ blk'[b].fin /\ blk'[b].owner = blk[b].owner /\ blk[b].fin
  <2>1. blk' = [blk EXCEPT ![b] = IF blk[b].fin THEN [blk[b] EXCEPT !.del = TRUE]
                                  ELSE absent]
    BY <1>2 DEF DeleteObject, deleted
  <2>2. blk \in [Blocks -> Object] /\ blk[b] \in Object
    BY <1>2 DEF TInv, TypeApi
  <2>3. CASE ~blk[b].fin
    BY <1>2, <2>1, <2>2, <2>3 DEF absent
  <2>4. CASE blk[b].fin
    <3>1. blk' = [blk EXCEPT ![b] = [blk[b] EXCEPT !.del = TRUE]]
      BY <2>1, <2>4
    <3>2. blk'[b] = [blk[b] EXCEPT !.del = TRUE]
      BY <1>2, <2>2, <3>1
    <3> QED
      BY <1>2, <2>2, <2>4, <3>1, <3>2 DEF Object
  <2> QED
    BY <2>3, <2>4
<1>4. alloc'[b] = None /\ \A d \in Blocks : d # b => alloc'[d] = alloc[d]
  BY <1>2 DEF DeleteObject, forget, TInv, TypeTab
<1>5. /\ \A k \in Threads : k # g => th'[k] = th[k]
      /\ g = GC => th'[g].pc = "gcBlocks" /\ empties' = empties \ {b}
      /\ g # GC => /\ th'[g].pc = "list" /\ th'[g].addr = None
                   /\ empties' = empties
  <2>1. CASE g = GC
    <3>1. th' = [th EXCEPT ![g].pc = "gcBlocks", ![g].target = None]
          /\ empties' = empties \ {b}
      BY <1>2, <2>1 DEF DeleteObject
    <3>2. th[g] \in Thread /\ th \in [Threads -> Thread]
      BY DEF TInv, TypeTh
    <3> DEFINE r == [th[g] EXCEPT !.pc = "gcBlocks", !.target = None]
    <3>3. r \in Thread /\ r.pc = "gcBlocks"
      BY <3>2 DEF Thread, PCs, Orphan
    <3>4. th' = [th EXCEPT ![g] = r]
      BY <3>1, <3>2
    <3> HIDE DEF r
    <3>5. th'[g] = r /\ \A k \in Threads : k # g => th'[k] = th[k]
      BY <3>3, <3>4, SetFacts DEF TInv
    <3> QED
      BY <2>1, <3>1, <3>3, <3>5
  <2>2. CASE g # GC
    <3>1. PICK r \in Thread : r = [idle EXCEPT !.pc = "list"]
                              /\ r.pc = "list" /\ r.addr = None
      BY IdleTyped DEF idle, PCs
    <3>2. th' = [th EXCEPT ![g] = r] /\ empties' = empties
      BY <2>2, <3>1 DEF DeleteObject
    <3>3. th'[g] = r /\ \A k \in Threads : k # g => th'[k] = th[k]
      BY <3>2, SetFacts DEF TInv
    <3> QED
      BY <2>2, <3>1, <3>2, <3>3
  <2> QED
    BY <2>1, <2>2
<1>6. \A c \in Containers : Owned(c)' = Owned(c) /\ Lent(c)' = Lent(c)
  <2>1. ASSUME NEW c \in Containers, c = g
        PROVE  Owned(c)' = Owned(c)
    BY <1>1, <1>5, <2>1, ThreadNames DEF Owned, Releasing, Core, LocalOK
  <2> QED
    BY <1>1, <1>5, <2>1, ThreadNames DEF Owned, Releasing, Lent
<1>7. Mine' = Mine \/ Mine' = Mine \ {b}
  BY <1>3 DEF Mine
<1>8. PoolsOK' /\ ReservedOK' /\ OwnedOK'
  <2>1. PoolsOK'
    BY <1>1, <1>4, <1>5, ThreadNames DEF BInv, PoolsOK, InPools, Collecting
  <2>2. ReservedOK' /\ OwnedOK'
    BY <1>1, <1>2, <1>3, <1>4, <1>6, <1>7, ConstantsAssumption DEF BInv,
       ReservedOK, OwnedOK
  <2> QED
    BY <2>1, <2>2
<1>9. \A c \in Containers : AttachedOK(c)'
  <2> SUFFICES ASSUME NEW c \in Containers, veth[c] # None
               PROVE  AttachedOK(c)'
    BY <1>1 DEF AttachedOK
  <2>1. /\ AttachedOK(c) /\ c \in Threads /\ c # g /\ veth[c].b # b
        /\ veth[c].b \in Blocks
    BY <1>1, <1>2, LentFacts, ThreadNames DEF BInv, AttachedOK, Lent
  <2> QED
    BY <1>1, <1>3, <1>4, <1>5, <1>7, <2>1, GuardedKept DEF AttachedOK
<1>10. \A d : InUse(d)' <=> InUse(d)
  BY <1>1 DEF InUse, Attached
<1>11. BootEmpty'
  BY <1>1, <1>4, <1>10 DEF BInv, BootEmpty
<1>12. UndeletedOK'
  <2> SUFFICES ASSUME "userDelete" \notin failed
               PROVE  /\ \A d \in Blocks :
                            ~blk'[d].del /\ (alloc'[d] # None => d \in Mine')
                      /\ \A k \in Threads :
                            th'[k].pc = "delete" => ~blk'[th'[k].target].fin
    BY <1>1 DEF UndeletedOK
  <2>1. ~blk[b].fin
    BY <1>1, <1>2 DEF BInv, UndeletedOK
  <2>2. \A d \in Blocks : ~blk'[d].del /\ (alloc'[d] # None => d \in Mine')
    BY <1>3, <1>4, <1>7, <2>1 DEF BInv, UndeletedOK
  <2>3. ASSUME NEW k \in Threads, th'[k].pc = "delete"
        PROVE  ~blk'[th'[k].target].fin
    <3>1. k # g /\ th'[k] = th[k] /\ th[k].target \in Blocks
      BY <1>5, <2>3, TargetFree
    <3> QED
      BY <1>3, <2>1, <2>3, <3>1 DEF BInv, UndeletedOK
  <2> QED
    BY <2>2, <2>3
<1>13. KnownOK'
  <2> SUFFICES ASSUME NEW d \in Blocks, alloc'[d] # None \/ d \in Mine'
               PROVE  Doomed(d)' \/ (d \in Mine' /\ Guarded(d)')
    BY DEF KnownOK
  <2>1. CASE d = b
    BY <1>3, <1>4, <2>1 DEF Mine, Guarded
  <2>2. CASE d # b
    <3>1. Doomed(d) \/ (d \in Mine /\ Guarded(d))
      BY <1>4, <1>7, <2>2 DEF BInv, KnownOK
    <3>2. Returning(d) => Returning(d)'
      BY <1>1, <1>2, <1>5, <2>2 DEF Returning
    <3>3. Ahead(d) => Ahead(d)'
      <4>1. CASE g = GC
        BY <1>1, <1>5, <2>2, <4>1 DEF Ahead, Collecting
      <4>2. CASE g # GC
        BY <1>1, <1>5, <4>2, ThreadNames DEF Ahead
      <4> QED
        BY <4>1, <4>2
    <3> QED
      BY <1>1, <1>3, <1>7, <1>10, <2>2, <3>1, <3>2, <3>3, GuardedKept DEF Doomed
  <2> QED
    BY <2>1, <2>2
<1>14. LeaseStep
  <2>1. CASE Mine' = Mine
    <3>1. Ends({})
      BY <1>6, <2>1 DEF Ends
    <3> QED
      BY <3>1 DEF LeaseStep
  <2>2. CASE Mine' = Mine \ {b}
    <3>1. Returns(b)
      BY <1>2, <1>6, <2>2 DEF Returns, SameLeases
    <3> QED
      BY <1>2, <3>1 DEF LeaseStep
  <2> QED
    BY <1>7, <2>1, <2>2
<1> QED
  BY <1>8, <1>9, <1>11, <1>12, <1>13, <1>14 DEF BInv

\* The list of nodeIPAM.sync changes nothing.
LEMMA SyncListLease ==
  ASSUME TInv, Core, BInv, NEW g \in Threads, SyncList(g)
  PROVE  BInv' /\ LeaseStep
<1>1. /\ UNCHANGED <<blk, alloc, pools, mode, boot, veth, info, visit, empties, failed>>
      /\ th[g].pc = "list"
  BY DEF SyncList, world, api, proc, known, gcv, kernel
<1>2. /\ \A k \in Threads : k # g => th'[k] = th[k]
      /\ th'[g].pc = "export" /\ th'[g].addr = th[g].addr
  <2>1. th' = [th EXCEPT ![g].pc = "export", ![g].snap = Mine]
    BY DEF SyncList
  <2>2. th[g] \in Thread /\ th \in [Threads -> Thread] /\ Mine \subseteq Blocks
    BY DEF TInv, TypeTh, Mine
  <2> DEFINE r == [th[g] EXCEPT !.pc = "export", !.snap = Mine]
  <2>3. r \in Thread /\ r.pc = "export" /\ r.addr = th[g].addr
    BY <2>2 DEF Thread, PCs
  <2>4. th' = [th EXCEPT ![g] = r]
    BY <2>1, <2>2
  <2> HIDE DEF r
  <2> QED
    BY <2>3, <2>4, SetFacts DEF TInv
<1>3. g \in Containers => Owned(g)' = Owned(g) /\ veth[g] = None
  BY <1>1, <1>2 DEF Owned, Releasing, BInv, AttachedOK
<1>4. g = GC => \A b \in Blocks : ~Ahead(b)
  BY <1>1 DEF Ahead, Collecting
<1> QED
  BY <1>1, <1>2, <1>3, <1>4, QuietLease, ThreadNames DEF InPools, Collecting

\* Allocate stores the address, Free forgets it: what coild owns stays.  Or the
\* collector is done.
LEMMA SyncExportLease ==
  ASSUME TInv, Core, BInv, NEW g \in Threads, SyncExport(g)
  PROVE  BInv' /\ LeaseStep
<1>1. UNCHANGED <<blk, veth, failed>> /\ th[g].pc = "export"
  BY DEF SyncExport, api
<1>2. CASE g = GC
  <2>1. EndGC(TRUE)
    BY <1>2 DEF SyncExport
  <2> QED
    BY <1>1, <1>2, <2>1, EndGCLease DEF Unfinalizes
<1>3. CASE g # GC
  <2>1. /\ UNCHANGED <<alloc, pools, mode, boot, visit, empties>>
        /\ info' = [info EXCEPT ![g] = th[g].addr]
        /\ th' = [th EXCEPT ![g] = IF th[g].addr = None THEN idle
                                   ELSE [idle EXCEPT !.pc = "setup"]]
    BY <1>3 DEF SyncExport, proc, known, gcv
  <2>2. g \in Containers /\ veth[g] = None
    BY <1>1, <1>3 DEF Threads, BInv, AttachedOK
  <2>3. PICK r \in Thread :
           /\ r = IF th[g].addr = None THEN idle ELSE [idle EXCEPT !.pc = "setup"]
           /\ r.pc \in {"idle", "setup"} /\ r.addr = None
    BY IdleTyped DEF idle, PCs
  <2>4. th' = [th EXCEPT ![g] = r]
    BY <2>1, <2>3
  <2>5. /\ \A k \in Threads : k # g => th'[k] = th[k]
        /\ th'[g].pc \in {"idle", "setup"} /\ th'[g].addr = None
    BY <2>3, <2>4, SetFacts DEF TInv
  <2>6. info'[g] = th[g].addr /\ \A c \in Containers : c # g => info'[c] = info[c]
    BY <2>1, <2>2 DEF TInv, TypeTab
  <2>7. Owned(g)' = Owned(g)
    BY <1>1, <2>5, <2>6 DEF Owned, Releasing
  <2> QED
    BY <1>1, <1>3, <2>1, <2>2, <2>5, <2>6, <2>7, QuietLease DEF InPools
<1> QED
  BY <1>2, <1>3

\* What a failed call of deleteBlock in gc leaves of the objects: all of them,
\* and all finalizers but one.
LEMMA FailedCall ==
  ASSUME TInv, Core, BInv, "userDelete" \notin failed, NEW g \in Threads,
         th[g].pc = "rmFin", blk' = unfinalized(th[g].target)
  PROVE  Unfinalizes
<1>1. PICK b \in Blocks \ Reserved : b = th[g].target /\ alloc[b] # None
  BY TargetFree
<1>2. ~blk[b].del /\ blk[b] \in Object /\ blk \in [Blocks -> Object]
  BY <1>1 DEF BInv, UndeletedOK, TInv, TypeApi
<1>3. blk' = [blk EXCEPT ![b] = [blk[b] EXCEPT !.fin = FALSE]]
  BY <1>1, <1>2 DEF unfinalized
<1>4. blk'[b] = [blk[b] EXCEPT !.fin = FALSE] /\ \A d \in Blocks : d # b => blk'[d] = blk[d]
  BY <1>1, <1>2, <1>3
<1> QED
  BY <1>1, <1>2, <1>4 DEF Unfinalizes, Object

\* The errors after which the promise holds: an address that was picked and
\* not stored is lost, or the collector gives up.
LEMMA BlockStepFailsLease ==
  ASSUME TInv, Core, BInv, NEW g \in Threads, BlockStepFails(g), ~Void'
  PROVE  BInv' /\ LeaseStep
<1>1. UNCHANGED veth /\ failed \subseteq failed' /\ ErrorReturn(g)
      /\ th[g].pc \in {"rmFin", "delete", "list", "export"}
  BY DEF BlockStepFails, Fails
<1>2. g # GC => /\ UNCHANGED blk
                 /\ th[g].pc \in {"list", "export"} /\ th[g].addr # None
  BY DEF BlockStepFails, Fails, Recorded, SyncKind, Void, HalfFreed
<1>3. CASE g = GC
  <2>1. EndGC(FALSE)
    BY <1>1, <1>3 DEF ErrorReturn
  <2>2. \/ UNCHANGED blk /\ th[g].pc # "delete"
        \/ UNCHANGED blk /\ "gcDelete" \in failed'
        \/ blk' = unfinalized(th[g].target) /\ th[g].pc = "rmFin" /\ "gcFinLost" \in failed'
    BY <1>3 DEF BlockStepFails, Fails, Recorded, Void
  <2>3. \/ UNCHANGED blk /\ th[g].pc # "delete"
        \/ Unguarded' /\ "userDelete" \notin failed'
    BY <2>2 DEF Unguarded, Void
  <2>4. Unfinalizes
    <3>1. CASE UNCHANGED blk
      BY <3>1 DEF Unfinalizes
    <3>2. CASE blk' # blk
      BY <1>1, <2>2, <2>3, <3>2, FailedCall
    <3> QED
      BY <3>1, <3>2
  <2> QED
    BY <1>1, <1>3, <2>1, <2>3, <2>4, EndGCLease
<1>4. CASE g # GC
  <2>1. Return(g) /\ UNCHANGED <<alloc, pools, mode, boot, info, visit, empties>>
    BY <1>1, <1>4 DEF ErrorReturn, proc, known, gcv
  <2>2. g \in Containers /\ veth[g] = None /\ LocalOK(g)
    BY <1>1, <1>4 DEF Threads, BInv, AttachedOK, Core
  <2>3. /\ \A k \in Threads : k # g => th'[k] = th[k]
        /\ th'[g].pc = "idle" /\ th'[g].addr = None
    BY <2>1, ReturnFacts, IdleTyped DEF TInv
  <2>4. Owned(g)' = None
    BY <1>2, <1>4, <2>1, <2>2, <2>3 DEF Owned, Releasing, LocalOK
  <2> QED
    BY <1>1, <1>2, <1>4, <2>1, <2>2, <2>3, <2>4, QuietLease DEF InPools
<1> QED
  BY <1>3, <1>4

-----------------------------------------------------------------------------
(* Start-up and garbage collection *)

\* The block of an attached container is found, so the container is registered.
LEMMA RegisterLease ==
  ASSUME TInv, Core, BInv, NEW c \in Containers, Register(c)
  PROVE  BInv' /\ LeaseStep
<1>1. /\ UNCHANGED <<blk, mode, th, visit, empties, veth, failed>>
      /\ mode = "boot" /\ c \in boot /\ boot' = boot \ {c}
  BY DEF Register, api, gcv, kernel
<1>2. /\ veth[c] # None /\ th[GC].pc = "idle" /\ AttachedOK(c)
      /\ \A d \in Containers : th[d].pc = "idle" /\ th[d].addr = None
  BY <1>1 DEF TInv, BootOK, Attached, Core, LocalOK, BInv
<1>3. PICK x \in Addr : x = veth[c]
  BY <1>2 DEF TInv, TypeTab, Orphan
<1>4. PICK p \in Pools : p = PoolOf[x.b]
  BY <1>3, ConstantsAssumption DEF Addr
<1>5. PICK a : a = IF p \in pools THEN alloc ELSE syncBlock(p)
  OBVIOUS
<1>6. /\ \A b \in Blocks : a[b] # None =>
            \/ a[b] = alloc[b]
            \/ b \in Mine /\ alloc[b] = None /\ a[b] = newBlock(b) /\ PoolOf[b] = p
      /\ \A b \in Blocks : alloc[b] # None => a[b] = alloc[b]
      /\ \A b \in Blocks : a[b] # None => PoolOf[b] \in pools \cup {p}
      /\ \A b \in Reserved : a[b] # None => isFull(a[b])
      /\ p \notin pools => \A b \in Mine : PoolOf[b] = p => a[b] # None
  BY <1>5, LearnLease
<1>7. a \in [Blocks -> Orphan(AllocatorState)] /\ x.b \in Blocks \ Reserved
      /\ x.b \in Mine
  BY <1>2, <1>3, <1>5, syncBlockTyped DEF TInv, TypeTab, AttachedOK, Addr
<1>8. a[x.b] # None
  BY <1>1, <1>2, <1>3, <1>4, <1>6, <1>7 DEF AttachedOK
<1>9. /\ alloc' = [a EXCEPT ![x.b] = register(a[x.b], x.i)]
      /\ info' = [info EXCEPT ![c] = x]
      /\ pools' = pools \cup {p}
  BY <1>3, <1>4, <1>5, <1>8 DEF Register
<1>10. alloc'[x.b] # None /\ \A b \in Blocks : b # x.b => alloc'[b] = a[b]
  <2>1. register(a[x.b], x.i) \in AllocatorState
    BY <1>7, <1>8, AllocatorTyped DEF Orphan, Addr
  <2> QED
    BY <1>7, <1>9, <2>1, ConstantsAssumption
<1>11. info'[c] = x /\ \A d \in Containers : d # c => info'[d] = info[d]
  BY <1>9 DEF TInv, TypeTab
<1>12. \A d \in Containers : d # c => Owned(d)' = Owned(d)
  BY <1>1, <1>11 DEF Owned, Releasing
<1>13. Owned(c)' = x /\ x # None
  BY <1>1, <1>2, <1>3, <1>11 DEF Owned, Releasing
<1>14. \A d \in Containers : Lent(d)' = Lent(d)
  BY <1>1, <1>2, <1>12 DEF Lent
<1>15. Mine' = Mine /\ Attached' = Attached
  BY <1>1 DEF Mine, Attached
<1>16. PoolsOK' /\ ReservedOK' /\ OwnedOK'
  <2>1. PoolsOK'
    BY <1>1, <1>2, <1>4, <1>6, <1>7, <1>8, <1>9, <1>10 DEF PoolsOK, InPools, Collecting
  <2>2. ReservedOK' /\ OwnedOK'
    BY <1>1, <1>6, <1>7, <1>10, <1>12, <1>13, <1>15, ConstantsAssumption DEF BInv,
       ReservedOK, OwnedOK
  <2> QED
    BY <2>1, <2>2
<1>17. \A d \in Containers : AttachedOK(d)'
  <2> SUFFICES ASSUME NEW d \in Containers, veth[d] # None
               PROVE  AttachedOK(d)'
    BY <1>1 DEF AttachedOK
  <2>1. AttachedOK(d) /\ veth[d].b \in Blocks /\ veth[d].b \in Mine
    BY DEF BInv, AttachedOK, Mine
  <2>2. PoolOf[veth[d].b] \in pools' => alloc'[veth[d].b] # None
    BY <1>1, <1>6, <1>9, <1>10, <2>1 DEF AttachedOK
  <2>3. info'[d] = veth[d] \/ d \in boot'
    BY <1>1, <1>3, <1>11, <2>1 DEF AttachedOK
  <2> QED
    BY <1>1, <1>15, <2>1, <2>2, <2>3, GuardedKept DEF AttachedOK
<1>18. \A b : InUse(b)' <=> InUse(b)
  BY <1>1, <1>15 DEF InUse
<1>19. BootEmpty'
  <2>1. InUse(x.b)
    BY <1>2, <1>3 DEF InUse, Attached
  <2> QED
    BY <1>1, <1>6, <1>10, <1>18, <2>1 DEF BInv, BootEmpty, newBlock,
       newAllocator, isEmpty
<1>20. KnownOK' /\ UndeletedOK'
  <2>1. \A b \in Blocks : alloc'[b] # None => alloc[b] # None \/ b \in Mine
    BY <1>6, <1>7, <1>10
  <2>2. \A b : Doomed(b) => Doomed(b)'
    BY <1>1, <1>2, <1>18 DEF Doomed, Returning, Ahead
  <2>3. KnownOK'
    BY <1>1, <1>15, <2>1, <2>2, GuardedKept DEF BInv, KnownOK
  <2>4. UndeletedOK'
    BY <1>1, <1>15, <2>1 DEF BInv, UndeletedOK
  <2> QED
    BY <2>3, <2>4
<1>21. Ends({})
  BY <1>14, <1>15 DEF Ends
<1> QED
  BY <1>16, <1>17, <1>19, <1>20, <1>21 DEF BInv, LeaseStep

\* The collector starts; finds the pools of this node's blocks that are not in
\* the map; takes n.mu with every pool ahead of it; or is through with them.
LEMMA GCMovesLease ==
  ASSUME TInv, Core, BInv, BeginGC \/ ScanPools \/ GCLock \/ GCPoolsDone
  PROVE  BInv' /\ LeaseStep
<1>1. UNCHANGED <<blk, alloc, pools, mode, boot, veth, info, empties, failed>>
  BY DEF BeginGC, ScanPools, GCLock, GCPoolsDone, world, api, proc, known, gcv,
     kernel
<1>2. \A k \in Threads : k # GC => th'[k] = th[k]
  BY GotoFacts, ThreadNames DEF BeginGC, ScanPools, GCLock, GCPoolsDone, PCs,
     TInv
<1>3. \/ th[GC].pc = "idle" /\ th'[GC].pc = "scan"
      \/ /\ th[GC].pc = "scan" /\ th'[GC].pc = "getPools"
         /\ visit' = {PoolOf[b] : b \in Mine} \ pools
      \/ /\ th[GC].pc = "getPools" /\ th'[GC].pc = "gcPool"
         /\ visit = {} /\ visit' = pools
      \/ th[GC].pc = "gcPool" /\ th'[GC].pc = "list" /\ visit = {}
  BY GotoFacts, ThreadNames DEF BeginGC, ScanPools, GCLock, GCPoolsDone, PCs, TInv
<1>4. th'[GC].pc \in Collecting => visit' \subseteq pools
  BY <1>3 DEF Collecting
<1>5. ASSUME NEW b \in Blocks, alloc[b] # None \/ b \in Mine, Ahead(b)
      PROVE  Ahead(b)'
  BY <1>1, <1>3, <1>5 DEF Ahead, Collecting, BInv, PoolsOK
<1> QED
  BY <1>1, <1>2, <1>3, <1>4, <1>5, QuietLease, ThreadNames

\* getPool called by GC.
LEMMA GCGetPoolLease ==
  ASSUME TInv, Core, BInv, NEW p \in Pools, GCGetPool(p)
  PROVE  BInv' /\ LeaseStep
<1>1. /\ UNCHANGED <<blk, mode, boot, veth, info, th, failed>>
      /\ th[GC].pc = "getPools" /\ visit' = visit \ {p}
  BY DEF GCGetPool, world, api, proc, kernel
<1>2. /\ pools' = pools \cup {p}
      /\ alloc' = syncBlock(p) \/ (p \in pools /\ alloc' = alloc)
  BY DEF GCGetPool, getPool
<1>3. \A b \in Blocks : Ahead(b) => Ahead(b)'
  BY <1>1, <1>2 DEF Ahead, Collecting
<1> QED
  BY <1>1, <1>2, <1>3, LearnStepLease, ThreadNames DEF Collecting

\* nodePool.gc finds every empty block of the pool, among them those that the
\* start-up must return.
LEMMA GCPoolLease ==
  ASSUME TInv, Core, BInv, NEW p \in Pools, GCPool(p)
  PROVE  BInv' /\ LeaseStep
<1>1. /\ UNCHANGED <<blk, mode, boot, veth, info, pools, failed>>
      /\ th[GC].pc = "gcPool" /\ p \in visit /\ visit' = visit \ {p}
      /\ alloc' = syncBlock(p) /\ empties' = emptyBlocks(p, syncBlock(p))
  BY DEF GCPool, world, api, proc, kernel
<1>2. p \in pools /\ visit \subseteq pools
  BY <1>1 DEF BInv, PoolsOK, Collecting
<1>3. /\ \A k \in Threads : k # GC => th'[k] = th[k]
      /\ th'[GC].pc = "gcBlocks"
  <2>1. th' = [th EXCEPT ![GC].pc = "gcBlocks", ![GC].pool = p]
    BY DEF GCPool
  <2>2. th[GC] \in Thread /\ th \in [Threads -> Thread]
    BY ThreadNames DEF TInv, TypeTh
  <2> DEFINE r == [th[GC] EXCEPT !.pc = "gcBlocks", !.pool = p]
  <2>3. r \in Thread /\ r.pc = "gcBlocks"
    BY <2>2 DEF Thread, PCs, Orphan
  <2>4. th' = [th EXCEPT ![GC] = r]
    BY <2>1, <2>2, ThreadNames
  <2> HIDE DEF r
  <2> QED
    BY <2>3, <2>4, SetFacts, ThreadNames DEF TInv
<1>4. ASSUME NEW b \in Blocks, alloc'[b] # None \/ b \in Mine,
             mode = "boot", ~InUse(b), b \notin Reserved, BootEmpty', Ahead(b)
      PROVE  Ahead(b)'
  <2>1. PoolOf[b] \in visit
    BY <1>1, <1>4 DEF Ahead, Collecting
  <2>2. CASE PoolOf[b] # p
    BY <1>1, <1>3, <2>1, <2>2 DEF Ahead, Collecting
  <2>3. CASE PoolOf[b] = p
    <3>1. alloc'[b] # None
      BY <1>1, <1>4, <2>3, LearnLease
    <3>2. ~InUse(b)'
      BY <1>1, <1>4 DEF InUse, Attached
    <3>3. isEmpty(alloc'[b])
      BY <1>1, <1>4, <3>1, <3>2 DEF BootEmpty
    <3>4. b \in empties'
      BY <1>1, <2>3, <3>1, <3>3 DEF emptyBlocks, InPool
    <3> QED
      BY <1>3, <3>4 DEF Ahead, Collecting
  <2> QED
    BY <2>2, <2>3
<1> QED
  BY <1>1, <1>2, <1>3, <1>4, LearnStepLease, ThreadNames

\* The collector goes to a block, or leaves the pool when none is left.
LEMMA GCBlocksLease ==
  ASSUME TInv, Core, BInv, GCPoolDone \/ \E b \in Blocks : GCBlock(b)
  PROVE  BInv' /\ LeaseStep
<1>1. /\ UNCHANGED <<blk, alloc, pools, mode, boot, veth, info, visit, empties, failed>>
      /\ th[GC].pc = "gcBlocks"
  BY DEF GCPoolDone, GCBlock, world, api, proc, known, gcv, kernel
<1>2. th[GC] \in Thread /\ th \in [Threads -> Thread]
  BY ThreadNames DEF TInv, TypeTh
<1>3. /\ \A k \in Threads : k # GC => th'[k] = th[k]
      /\ th'[GC].pc = "rmFin" \/ (th'[GC].pc = "gcPool" /\ empties = {})
  <2>1. CASE GCPoolDone
    <3> DEFINE r == [th[GC] EXCEPT !.pc = "gcPool", !.pool = None]
    <3>1. r \in Thread /\ r.pc = "gcPool"
      BY <1>2 DEF Thread, PCs, Orphan
    <3>2. th' = [th EXCEPT ![GC] = r] /\ empties = {}
      BY <1>2, <2>1, ThreadNames DEF GCPoolDone
    <3> HIDE DEF r
    <3> QED
      BY <3>1, <3>2, SetFacts, ThreadNames DEF TInv
  <2>2. ASSUME NEW b \in Blocks, GCBlock(b)
        PROVE  /\ \A k \in Threads : k # GC => th'[k] = th[k]
               /\ th'[GC].pc = "rmFin"
    <3> DEFINE r == [th[GC] EXCEPT !.pc = "rmFin", !.target = b]
    <3>1. r \in Thread /\ r.pc = "rmFin"
      BY <1>2 DEF Thread, PCs, Orphan
    <3>2. th' = [th EXCEPT ![GC] = r]
      BY <1>2, <2>2, ThreadNames DEF GCBlock
    <3> HIDE DEF r
    <3> QED
      BY <3>1, <3>2, SetFacts, ThreadNames DEF TInv
  <2> QED
    BY <2>1, <2>2
<1>4. \A b \in Blocks : Ahead(b) => Ahead(b)'
  BY <1>1, <1>3 DEF Ahead, Collecting
<1>5. visit' \subseteq pools
  BY <1>1 DEF BInv, PoolsOK, Collecting
<1> QED
  BY <1>1, <1>3, <1>4, <1>5, QuietLease, ThreadNames

\* A list of GC fails: at start-up the process ends.
LEMMA GCListFailsLease ==
  ASSUME TInv, Core, BInv, GCListFails
  PROVE  BInv' /\ LeaseStep
<1>1. /\ UNCHANGED <<blk, veth>> /\ failed \subseteq failed' /\ EndGC(FALSE)
      /\ th[GC].pc \in {"scan", "getPools", "gcPool"}
  BY DEF GCListFails, Fails, api, kernel
<1> QED
  BY <1>1, EndGCLease DEF Unfinalizes

-----------------------------------------------------------------------------
(* The watcher, crashes and the rest of the cluster *)

\* The receiver of a request gets its answer, not an address.
LEMMA NotifySendLease ==
  ASSUME TInv, Core, BInv, NotifySend
  PROVE  BInv' /\ LeaseStep
<1>1. UNCHANGED <<blk, alloc, pools, mode, boot, veth, info, visit, empties, failed>>
  BY DEF NotifySend, api, proc, known, gcv, kernel
<1>2. CASE UNCHANGED th
  BY <1>1, <1>2, UntouchedLease
<1>3. ASSUME NEW c \in Waiters(notifying.pool),
             th' = [th EXCEPT ![c].pc = "got", ![c].got = notifying.req.res]
      PROVE  BInv' /\ LeaseStep
  <2>1. c \in Containers /\ c \in Threads /\ c # GC /\ th[c].pc = "wait"
    BY ThreadNames DEF Waiters
  <2>2. th[c] \in Thread /\ th \in [Threads -> Thread] /\ notifying.req.res \in Answer
    BY <2>1 DEF TInv, TypeTh, NotifySend, TypeApi, Orphan
  <2> DEFINE r == [th[c] EXCEPT !.pc = "got", !.got = notifying.req.res]
  <2>3. r \in Thread /\ r.pc = "got" /\ r.pool = th[c].pool /\ r.addr = th[c].addr
    BY <2>2 DEF Thread, PCs, Orphan
  <2>4. th' = [th EXCEPT ![c] = r]
    BY <1>3, <2>1, <2>2
  <2> HIDE DEF r
  <2>5. /\ \A k \in Threads : k # c => th'[k] = th[k]
        /\ th'[c].pc = "got" /\ th'[c].pool = th[c].pool /\ th'[c].addr = th[c].addr
    BY <2>1, <2>3, <2>4, SetFacts DEF TInv
  <2>6. Owned(c)' = Owned(c) /\ veth[c] = None /\ th[c].pool \in pools
    BY <1>1, <2>1, <2>5 DEF Owned, Releasing, BInv, AttachedOK, PoolsOK, InPools
  <2> QED
    BY <1>1, <2>1, <2>5, <2>6, QuietLease
<1> QED
  BY <1>2, <1>3 DEF NotifySend

\* The informer, the watcher and the answers of the controller.
LEMMA RequestsLease ==
  ASSUME TInv, Core, BInv,
         \/ NotifyLookup \/ \E p \in Pools : Observe(p) \/ Reconcile(p)
         \/ \E p \in Pools : AnswerRequest(p) \/ RefuseRequest(p)
  PROVE  BInv' /\ LeaseStep
<1>1. UNCHANGED <<blk, alloc, pools, mode, boot, veth, th, info, visit, empties, failed>>
  BY DEF NotifyLookup, Observe, Reconcile, AnswerRequest, RefuseRequest, api,
     proc, known, gcv, kernel, Untouched
<1> QED
  BY <1>1, UntouchedLease

\* Panics, crashes, reboots, failing start-ups and the end after the deletion
\* of the node.
LEMMA RestartsLease ==
  ASSUME TInv, Core, BInv,
         \/ Crash \/ Reboot \/ ClearRoutes \/ RegisterFails
         \/ \E c \in Containers : ResultPanics(c) \/ FreePanics(c)
  PROVE  BInv' /\ LeaseStep
<1>1. CASE Reboot
  <2>1. /\ Restart({}) /\ UNCHANGED blk /\ failed \subseteq failed'
        /\ \A c \in Containers : veth'[c] = None
    BY <1>1 DEF Reboot, Fails, api
  <2>2. Attached' = {}
    BY <2>1 DEF Attached
  <2> QED
    BY <2>1, <2>2, RestartLease DEF Unfinalizes
<1>2. CASE \/ Crash \/ ClearRoutes \/ RegisterFails
           \/ \E c \in Containers : ResultPanics(c) \/ FreePanics(c)
  <2>1. Restart(Attached) /\ UNCHANGED <<blk, veth>> /\ failed \subseteq failed'
    BY <1>2 DEF Crash, ClearRoutes, RegisterFails, ResultPanics, FreePanics, Panic,
       Fails, api, kernel
  <2>2. Attached' = Attached
    BY <2>1 DEF Attached
  <2> QED
    BY <2>1, <2>2, RestartLease DEF Unfinalizes
<1> QED
  BY <1>1, <1>2

\* Changes of one AddressBlock object by others.  A block that is not this
\* node's is not lent, so it may come and go; one that is goes only without its
\* finalizer, so only when it is doomed.
LEMMA ObjectLease ==
  ASSUME TInv, Core, BInv, NEW b \in Blocks,
         UNCHANGED <<alloc, pools, mode, boot, veth, th, info, visit, empties>>,
         failed \subseteq failed',
         \A d \in Blocks : d # b => blk'[d] = blk[d],
         \/ b \notin Mine /\ b \notin Mine' /\ ~blk'[b].del
         \/ b \notin Mine /\ b \in Mine' /\ blk'[b].fin /\ ~blk'[b].del
         \/ b \in Mine /\ b \in Mine' /\ blk[b].fin /\ blk'[b].fin
            /\ "userDelete" \in failed'
         \/ b \in Mine /\ b \notin Mine' /\ ~Guarded(b) /\ "userDelete" \in failed'
  PROVE  BInv' /\ LeaseStep
<1>1. /\ \A d \in Blocks : d # b => (d \in Mine' <=> d \in Mine)
      /\ Mine \subseteq Blocks /\ Mine' \subseteq Blocks
  BY DEF Mine
<1>2. \A c \in Containers : Owned(c)' = Owned(c) /\ Lent(c)' = Lent(c)
  BY DEF Owned, Releasing, Lent
<1>3. PoolsOK' /\ OwnedOK'
  BY <1>2 DEF BInv, PoolsOK, OwnedOK
<1>4. ReservedOK'
  BY <1>1, ConstantsAssumption DEF BInv, ReservedOK, Guarded
<1>5. \A c \in Containers : AttachedOK(c)'
  <2> SUFFICES ASSUME NEW c \in Containers, veth[c] # None
               PROVE  AttachedOK(c)'
    BY DEF AttachedOK
  <2>1. AttachedOK(c) /\ veth[c].b \in Blocks
    BY DEF BInv, AttachedOK, Mine
  <2> QED
    BY <1>1, <2>1, GuardedKept DEF AttachedOK, Guarded
<1>6. BootEmpty'
  BY DEF BInv, BootEmpty, InUse, Attached
<1>7. \A d : Doomed(d) => Doomed(d)'
  BY DEF Doomed, Returning, Ahead, InUse, Attached
<1>8. KnownOK'
  BY <1>1, <1>7, GuardedKept DEF BInv, KnownOK, Guarded
<1>9. UndeletedOK'
  <2> SUFFICES ASSUME "userDelete" \notin failed'
               PROVE  /\ \A d \in Blocks :
                            ~blk'[d].del /\ (alloc'[d] # None => d \in Mine')
                      /\ \A k \in Threads :
                            th'[k].pc = "delete" => ~blk'[th'[k].target].fin
    BY DEF UndeletedOK
  <2>1. b \notin Mine /\ alloc[b] = None /\ ~blk'[b].del
    BY DEF BInv, UndeletedOK
  <2>2. \A k \in Threads : th[k].pc = "delete" => th[k].target \in Blocks \ {b}
    BY <2>1, TargetFree
  <2> QED
    BY <1>1, <2>1, <2>2 DEF BInv, UndeletedOK
<1>10. LeaseStep
  <2>1. CASE b \notin Mine /\ b \in Mine'
    <3>1. b \notin Reserved
      BY <2>1 DEF BInv, ReservedOK
    <3>2. Acquires(b)
      BY <1>1, <1>2, <2>1, <3>1 DEF Acquires, SameLeases
    <3> QED
      BY <3>2 DEF LeaseStep
  <2>2. CASE b \in Mine /\ b \notin Mine' /\ ~Guarded(b)
    <3>1. ASSUME NEW c \in Containers, Lent(c) # None
          PROVE  Lent(c).b # b
      <4>1. CASE veth[c] # None
        BY <2>2, <4>1 DEF Lent, BInv, AttachedOK
      <4>2. CASE veth[c] = None
        <5>1. Owned(c) # None /\ Lent(c) = Owned(c)
          BY <3>1, <4>2 DEF Lent
        <5>2. alloc[Owned(c).b] # None /\ ~isEmpty(alloc[Owned(c).b])
          BY <5>1, LentFacts
        <5>3. mode = "up"
          BY <4>2, <5>1 DEF Core, BootInfoOK, TInv, BootOK, TypeMem, Owned, Releasing,
             LocalOK
        <5>4. ~Returning(Owned(c).b)
          BY <5>2, TargetFree DEF Returning
        <5> QED
          BY <2>2, <5>1, <5>3, <5>4 DEF BInv, KnownOK, Doomed
      <4> QED
        BY <4>1, <4>2
    <3>2. Returns(b)
      BY <1>1, <1>2, <2>2, <3>1 DEF Returns, SameLeases
    <3> QED
      BY <3>2 DEF LeaseStep
  <2>3. CASE b \in Mine <=> b \in Mine'
    <3>1. Ends({})
      BY <1>1, <1>2, <2>3 DEF Ends
    <3> QED
      BY <3>1 DEF LeaseStep
  <2> QED
    BY <2>1, <2>2, <2>3
<1> QED
  BY <1>3, <1>4, <1>5, <1>6, <1>8, <1>9, <1>10 DEF BInv

\* The controller makes a block for this node or another one, another node
\* returns a block, somebody deletes a block of this node.
LEMMA ClusterLease ==
  ASSUME TInv, Core, BInv, NEW b \in Blocks,
         \/ \E p \in Pools : AssignBlock(p, b)
         \/ OtherNode(b) \/ UserDelete(b),
         ~Void'
  PROVE  BInv' /\ LeaseStep
<1>1. /\ UNCHANGED <<alloc, pools, mode, boot, veth, th, info, visit, empties>>
      /\ failed \subseteq failed'
  BY DEF AssignBlock, OtherNode, UserDelete, Fails, Untouched, proc, known, gcv,
     kernel
<1>2. blk \in [Blocks -> Object]
  BY DEF TInv, TypeApi
<1>3. CASE \E p \in Pools : AssignBlock(p, b)
  <2>1. blk[b].owner = "none" /\ blk' = [blk EXCEPT ![b] = created("me")]
    BY <1>3 DEF AssignBlock
  <2>2. b \notin Mine /\ b \in Mine' /\ blk'[b].fin /\ ~blk'[b].del
    BY <1>2, <2>1 DEF Mine, created
  <2> QED
    BY <1>1, <1>2, <2>1, <2>2, ObjectLease
<1>4. CASE OtherNode(b)
  <2>1. PICK o \in {created("other"), absent} :
           blk[b].owner # "me" /\ blk' = [blk EXCEPT ![b] = o]
    BY <1>4 DEF OtherNode
  <2>2. b \notin Mine /\ b \notin Mine' /\ ~blk'[b].del
    BY <1>2, <2>1 DEF Mine, created, absent
  <2> QED
    BY <1>1, <1>2, <2>1, <2>2, ObjectLease
<1>5. CASE UserDelete(b)
  <2>1. /\ b \in Mine /\ "userDelete" \in failed'
        /\ blk' = [blk EXCEPT ![b] = IF blk[b].fin THEN [blk[b] EXCEPT !.del = TRUE]
                                     ELSE absent]
    BY <1>5 DEF UserDelete, Fails, Recorded, deleted
  <2>2. CASE blk[b].fin
    <3>1. blk'[b] = [blk[b] EXCEPT !.del = TRUE] /\ blk[b] \in Object
      BY <1>2, <2>1, <2>2
    <3>2. blk'[b].fin /\ b \in Mine'
      BY <2>1, <2>2, <3>1 DEF Mine, Object
    <3> QED
      BY <1>1, <1>2, <2>1, <2>2, <3>2, ObjectLease
  <2>3. CASE ~blk[b].fin
    <3>1. b \notin Mine'
      BY <1>2, <2>1, <2>3 DEF Mine, absent
    <3>2. ~Guarded(b)
      BY <1>1, <2>1, <2>3 DEF Guarded, Unguarded, Void
    <3> QED
      BY <1>1, <1>2, <2>1, <3>1, <3>2, ObjectLease
  <2> QED
    BY <2>2, <2>3
<1> QED
  BY <1>3, <1>4, <1>5

-----------------------------------------------------------------------------
(* All steps *)

\* As long as nothing has gone wrong that ends the promise, a step keeps the
\* invariant and does to blocks and leases what AddressLease allows.
LEMMA NextLease ==
  ASSUME TInv, Core, BInv, [Next]_vars, ~Void'
  PROVE  BInv' /\ LeaseStep
<1>1. ASSUME NEW c \in Containers, BeginAdd(c) \/ BeginDel(c) \/ FreeStep(c)
      PROVE  BInv' /\ LeaseStep
  BY <1>1, BeginAddLease, BeginDelLease, AddStepsLease, FreeLease, RestartsLease
     DEF FreeStep
<1>2. ASSUME NEW c \in Containers, AddStep(c)
      PROVE  BInv' /\ LeaseStep
  BY <1>2, GetPoolLease, AddStepsLease, AllocateKnownLease, ResultAllocateLease,
     RestartsLease, SetupIPAMLease DEF AddStep
<1>3. ASSUME NEW g \in Threads, BlockStep(g)
      PROVE  BInv' /\ LeaseStep
  BY <1>3, RemoveFinalizerLease, DeleteObjectLease, SyncListLease,
     SyncExportLease, BlockStepFailsLease DEF BlockStep
<1>4. CASE BeginGC \/ GCStep
  BY <1>4, GCMovesLease, GCGetPoolLease, GCPoolLease, GCBlocksLease,
     GCListFailsLease DEF GCStep
<1>5. CASE BootStep
  BY <1>5, RegisterLease, RestartsLease DEF BootStep
<1>6. CASE WatchStep
  BY <1>6, NotifySendLease, RequestsLease DEF WatchStep
<1>7. CASE Environment
  <2>1. CASE Crash \/ Reboot \/ ClearRoutes
    BY <2>1, RestartsLease
  <2>2. CASE \E p \in Pools : AnswerRequest(p) \/ RefuseRequest(p)
    BY <2>2, RequestsLease
  <2>3. CASE \/ \E p \in Pools, b \in Blocks : AssignBlock(p, b)
             \/ \E b \in Blocks : OtherNode(b) \/ UserDelete(b)
    BY <2>3, ClusterLease
  <2> QED
    BY <1>7, <2>1, <2>2, <2>3 DEF Environment
<1>8. CASE UNCHANGED vars
  BY <1>8, UntouchedLease DEF vars, api, proc, known, gcv, kernel
<1> QED
  BY <1>1, <1>2, <1>3, <1>4, <1>5, <1>6, <1>7, <1>8 DEF Next

\* The invariant holds at first: only reserved blocks are this node's.
LEMMA InitLease == Init => BInv /\ ~Void /\ \A c \in Containers : Lent(c) = None
<1> SUFFICES ASSUME Init
             PROVE  BInv /\ ~Void /\ \A c \in Containers : Lent(c) = None
  OBVIOUS
<1>1. \A g \in Threads : th[g].pc = "idle" /\ th[g].addr = None
  BY IdleTyped DEF Init
<1>2. /\ \A c \in Containers : info[c] = None /\ veth[c] = None
      /\ \A b \in Blocks : alloc[b] = None
      /\ failed = {} /\ mode = "boot"
      /\ \A b \in Blocks : blk[b] = IF b \in Reserved THEN created("me") ELSE absent
  BY DEF Init
<1>3. \A c \in Containers : Owned(c) = None /\ Lent(c) = None
  BY <1>1, <1>2, ThreadNames DEF Owned, Releasing, Lent
<1>4. /\ \A b \in Blocks : b \in Mine <=> b \in Reserved
      /\ \A b \in Reserved : blk[b].fin
      /\ \A b \in Blocks : ~blk[b].del
  BY <1>2, ConstantsAssumption DEF Mine, created, absent
<1>5. PoolsOK /\ ReservedOK /\ OwnedOK /\ BootEmpty
  BY <1>1, <1>2, <1>3, <1>4, ThreadNames, ConstantsAssumption DEF PoolsOK,
     ReservedOK, OwnedOK, BootEmpty, InPools, Collecting
<1>6. KnownOK /\ UndeletedOK
  BY <1>1, <1>2, <1>4 DEF KnownOK, UndeletedOK, Guarded
<1>7. (\A c \in Containers : AttachedOK(c)) /\ ~Void
  BY <1>2 DEF AttachedOK, Void, HalfFreed, Unguarded
<1> QED
  BY <1>3, <1>5, <1>6, <1>7 DEF BInv

\* A failure that ends the promise is not undone.
LEMMA VoidKept ==
  ASSUME [Next]_vars, Void
  PROVE  Void'
BY FailedGrows DEF Void, HalfFreed, Unguarded

\* Without such a failure the books are in order.
LEMMA GoodFacts ==
  ASSUME IInv, LInv, ~Void
  PROVE  TInv /\ Core /\ BInv
BY DEF IInv, LInv, Void

\* A step of coild seen from AddressLease.
LEMMA StepRefines ==
  ASSUME IInv, LInv, [Next]_vars
  PROVE  LInv' /\ [Lease!Next]_(Lease!vars)
<1>1. CASE Void
  <2>1. Void'
    BY <1>1, VoidKept
  <2>2. \A c \in Containers : Leased(c) = None /\ Leased(c)' = None
    BY <1>1, <2>1 DEF Leased
  <2> QED
    BY <1>1, <2>1, <2>2 DEF LInv, Lease!vars
<1>2. CASE ~Void /\ Void'
  <2>1. \A c \in Containers : Leased(c)' = None
    BY <1>2 DEF Leased
  <2>2. Lease!Abandon
    BY <1>2, <2>1 DEF Lease!Abandon, Lease!noLease
  <2> QED
    BY <1>2, <2>2 DEF LInv, Lease!Next
<1>3. CASE ~Void /\ ~Void'
  <2>1. TInv /\ Core /\ BInv
    BY <1>3, GoodFacts
  <2>2. BInv' /\ LeaseStep
    BY <1>3, <2>1, NextLease
  <2>3. \A c \in Containers : Leased(c) = Lent(c) /\ Leased(c)' = Lent(c)'
    BY <1>3 DEF Leased, Lent
  <2>4. UNCHANGED Void
    BY <1>3, Zenon DEF Void, HalfFreed, Unguarded
  <2>5. ASSUME NEW C \in SUBSET Containers, Ends(C)
        PROVE  Lease!End(C)
    <3>1. [c \in Containers |-> Leased(c)]'
             = [c \in Containers |->
                  IF c \in C THEN None ELSE [d \in Containers |-> Leased(d)][c]]
      BY <2>3, <2>5 DEF Ends
    <3>2. UNCHANGED (IF Void THEN {} ELSE Mine \ Reserved)
      BY <1>3, <2>5 DEF Ends
    <3> QED
      BY <2>4, <3>1, <3>2, Zenon DEF Lease!End
  <2>6. ASSUME NEW b \in Blocks, Acquires(b) \/ Returns(b)
        PROVE  UNCHANGED [c \in Containers |-> Leased(c)]
    BY <2>3, <2>6 DEF Acquires, Returns, SameLeases
  <2>7. ASSUME NEW b \in Blocks, Acquires(b)
        PROVE  Lease!Acquire(b)
    <3>1. (IF Void THEN {} ELSE Mine \ Reserved)'
             = (IF Void THEN {} ELSE Mine \ Reserved) \cup {b}
      BY <1>3, <2>7 DEF Acquires
    <3> QED
      BY <2>4, <2>6, <2>7, <3>1, Zenon DEF Lease!Acquire
  <2>8. ASSUME NEW b \in Blocks, Returns(b)
        PROVE  Lease!Return(b)
    <3>1. (IF Void THEN {} ELSE Mine \ Reserved)'
             = (IF Void THEN {} ELSE Mine \ Reserved) \ {b}
      BY <1>3, <2>8 DEF Returns
    <3>2. Lease!LeasedIn(b) = {}
      BY <2>3, <2>8 DEF Returns, Lease!LeasedIn
    <3> QED
      BY <2>4, <2>6, <2>8, <3>1, <3>2, Zenon DEF Lease!Return
  <2>9. ASSUME NEW c \in Containers, NEW a \in Addr, Grants(c, a)
        PROVE  Lease!Grant(c, a)
    <3>1. [d \in Containers |-> Leased(d)]'
             = [[d \in Containers |-> Leased(d)] EXCEPT ![c] = a]
      BY <2>3, <2>9 DEF Grants
    <3>2. UNCHANGED (IF Void THEN {} ELSE Mine \ Reserved)
      BY <1>3, <2>9 DEF Grants
    <3>3. /\ [d \in Containers |-> Leased(d)][c] = None
          /\ a.b \in (IF Void THEN {} ELSE Mine \ Reserved)
          /\ \A d \in Containers : [e \in Containers |-> Leased(e)][d] # a
      BY <1>3, <2>3, <2>9 DEF Grants
    <3> QED
      BY <2>4, <3>1, <3>2, <3>3, Zenon DEF Lease!Grant
  <2>10. Lease!Next
    BY <1>3, <2>2, <2>5, <2>7, <2>8, <2>9, Zenon DEF LeaseStep, Lease!Next
  <2> QED
    BY <2>2, <2>10 DEF LInv
<1> QED
  BY <1>1, <1>2, <1>3

\* What the invariant says of the two properties.
LEMMA LeaseImplies ==
  ASSUME IInv, LInv
  PROVE  HeldBlock /\ DeletesOwnBlock
<1>1. CASE Void
  BY <1>1 DEF Void, HeldBlock, DeletesOwnBlock
<1>2. CASE ~Void
  <2>1. TInv /\ Core /\ BInv
    BY <1>2, GoodFacts
  <2>2. HeldBlock
    BY <2>1 DEF HeldBlock, BInv, AttachedOK, Attached, Mine
  <2>3. ASSUME "userDelete" \notin failed, NEW g \in Threads,
               th[g].pc \in {"rmFin", "delete"}
        PROVE  th[g].target \in Mine \ Reserved
    BY <2>1, <2>3, TargetFree DEF BInv, UndeletedOK
  <2> QED
    BY <2>2, <2>3 DEF DeletesOwnBlock
<1> QED
  BY <1>1, <1>2

-----------------------------------------------------------------------------
(* The theorems *)

\* Both parts of the invariant hold in every reachable state of coild.
THEOREM LeaseInvariant == Spec => [](IInv /\ LInv)
<1>1. Init => IInv /\ LInv
  BY InitInvariant, InitLease DEF LInv
<1>2. (IInv /\ LInv) /\ [Next]_vars => (IInv /\ LInv)'
  BY NextInvariant, StepRefines
<1> QED
  BY <1>1, <1>2, PTL DEF Spec

\* The AddressBlock of every attached pod is this node's: deleteBlock is called
\* for blocks without addresses only, nobody but deleteBlock removes the
\* finalizer, and a coild that starts registers the pods before it collects.
THEOREM BlocksAreHeld == Spec => []HeldBlock
<1>1. IInv /\ LInv => HeldBlock
  BY LeaseImplies
<1> QED
  BY LeaseInvariant, <1>1, PTL

\* deleteBlock, which works by name, meets a block of this node that is not
\* reserved.
THEOREM OwnBlocksDeleted == Spec => []DeletesOwnBlock
<1>1. IInv /\ LInv => DeletesOwnBlock
  BY LeaseImplies
<1> QED
  BY LeaseInvariant, <1>1, PTL

\* coild implements AddressLease: every step grants a free address of a block
\* that is held, ends leases, acquires a block, returns one without leases,
\* gives up the promise, or changes neither blocks nor leases.
THEOREM ImplementsLease == Spec => LeaseSpec
<1>1. Init => Lease!Init
  <2> SUFFICES ASSUME Init
               PROVE  Lease!Init
    OBVIOUS
  <2>1. ~Void /\ \A c \in Containers : Lent(c) = None
    BY InitLease
  <2>2. \A c \in Containers : Leased(c) = None
    BY <2>1 DEF Leased, Lent
  <2> QED
    BY <2>1, <2>2 DEF Lease!Init, Lease!noLease, Mine
<1>2. IInv /\ LInv /\ [Next]_vars => [Lease!Next]_(Lease!vars)
  BY StepRefines
<1> QED
  BY <1>1, <1>2, LeaseInvariant, PTL DEF Spec, LeaseSpec, Lease!Spec

=============================================================================
