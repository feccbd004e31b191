--------------------------- MODULE NodeIPAMProofs ---------------------------
(***************************************************************************)
(* Safety of coild's address management for every number of containers,    *)
(* pools and blocks, every block size and every set of faults:             *)
(* AddressUnique, UsageAccounted and FreePanicsOnlyAfterError.             *)
(*                                                                         *)
(* None of them is inductive.  The books (Held, Unique, NoLeak) relate the *)
(* owners of addresses to the bitsets; they survive the return of a block  *)
(* only because the block is empty and stays so under the mutex of its     *)
(* pool (LockOK, TargetOK, EmptiesOK), an allocation after a request only  *)
(* because the answer is a block of that pool (RequestsOK, LocalOK), and a *)
(* restart only because the kernel never routes one address to two veths   *)
(* (VethOK, BootInfoOK).  All but VethOK and RequestsOK is lost once a     *)
(* Free has been abandoned halfway (HalfFreed).                            *)
(***************************************************************************)
EXTENDS NodeIPAMTypes

-----------------------------------------------------------------------------
(* The inductive invariant *)

\* The result of a BlockRequest of pool p is a block of p.
RequestFor(p) == [id: Nat, res: InPool(p) \cup {"pending", "failed"}]
AnswerFor(p)  == InPool(p) \cup {"failed"}

\* Requests, the events that announce them and the Notify call fit the pool.
RequestsOK ==
    /\ \A p \in Pools : /\ req[p] \in Orphan(RequestFor(p))
                        /\ grant[p] \in Orphan(RequestFor(p))
                        /\ cache[p] \in Orphan(RequestFor(p))
                        /\ events[p] \in Seq(Orphan(RequestFor(p)))
    /\ notifying # None => notifying.req.res \in AnswerFor(notifying.pool)

\* A thread in nodePool.allocate, deleteBlock or nodePool.gc holds the mutex
\* of its pool.
Holding == {"delReq", "mkReq", "created", "wait", "got", "gcBlocks", "rmFin",
            "delete"}

LockOK(g) ==
    th[g].pc \in Holding => th[g].pool \in Pools /\ pmu[th[g].pool] = g

\* A block that is being given back: known, empty, of the thread's pool.
Empty(b, p) == /\ b \in Blocks /\ PoolOf[b] = p
               /\ alloc[b] # None /\ isEmpty(alloc[b])

TargetOK(g) ==
    th[g].pc \in {"rmFin", "delete"} => Empty(th[g].target, th[g].pool)

EmptiesOK(g) ==
    g = GC /\ th[g].pc \in {"gcBlocks", "rmFin", "delete"}
    => \A b \in empties : Empty(b, th[g].pool)

\* A container without an address yet: it is in nodePool.allocate, or it has
\* the address in hand and has not stored it.  The answer it has received is
\* a block of its pool.
NoInfo == {"getPool", "alloc", "delReq", "mkReq", "created", "wait", "got"}

LocalOK(c) ==
    /\ th[c].pc \in NoInfo => info[c] = None
    /\ th[c].addr # None => th[c].pc \in {"list", "export"} /\ info[c] = None
    /\ th[c].pc = "got" => th[c].got \in AnswerFor(th[c].pool)

\* While coild starts up allocInfoMap only holds what the kernel has.
BootInfoOK ==
    mode = "boot" => \A c \in Containers : info[c] \in {None, veth[c]}

\* No two veths have the same address.
VethOK == \A c, d \in Containers :
             c # d /\ veth[c] # None => veth[c] # veth[d]

\* The owners o and the bitsets a: every owned index is set, and set for one
\* owner only.
Held(o, a) ==
    \A c \in Containers :
       o[c] # None => a[o[c].b] # None /\ o[c].i \in a[o[c].b].usage
Unique(o) ==
    \A c, d \in Containers : c # d /\ o[c] # None => o[c] # o[d]
NoLeak(o, a) ==
    \A b \in Blocks \ Reserved : a[b] # None =>
       \A i \in a[b].usage : \E c \in Containers : o[c] = [b |-> b, i |-> i]

own == [c \in Containers |-> Owned(c)]

Books == /\ Held(own, alloc)
         /\ Unique(own)
         /\ "addSync" \in failed \/ NoLeak(own, alloc)

Core == /\ \A g \in Threads : LockOK(g) /\ TargetOK(g) /\ EmptiesOK(g)
        /\ \A c \in Containers : LocalOK(c)
        /\ BootInfoOK
        /\ Books

\* The inductive invariant.
IInv == /\ TInv
        /\ RequestsOK
        /\ VethOK
        /\ HalfFreed \/ Core
        /\ FreePanicsOnlyAfterError
-----------------------------------------------------------------------------
(* The books under the operations of the allocator *)

\* What the operations of the allocator do to the bitset.
LEMMA UsageFacts ==
  ASSUME NEW a \in AllocatorState
  PROVE  /\ \A i : free(a, i).usage = a.usage \ {i}
         /\ \A i : register(a, i).usage = a.usage \cup {i}
         /\ allocate(a).usage = a.usage \cup {NextIndex(a)}
         /\ newAllocator.usage = {}
BY DEF free, register, allocate, Set, newAllocator, AllocatorState

\* syncBlock adds unknown blocks, which are empty unless reserved.
LEMMA BooksSync ==
  ASSUME NEW o, NEW a, NEW a2,
         \A b \in Blocks : a2[b] = a[b] \/ (a[b] = None /\ a2[b] = newBlock(b)),
         o \in [Containers -> Orphan(Addr)],
         Held(o, a)
  PROVE  Held(o, a2) /\ (NoLeak(o, a) => NoLeak(o, a2))
<1>1. Held(o, a2)
  BY DEF Held, Orphan, Addr
<1>2. ASSUME NoLeak(o, a), NEW b \in Blocks \ Reserved, a2[b] # None,
             NEW i \in a2[b].usage
      PROVE  \E c \in Containers : o[c] = [b |-> b, i |-> i]
  <2>1. a2[b] = a[b]
    BY <1>2 DEF newBlock, newAllocator
  <2> QED
    BY <1>2, <2>1 DEF NoLeak
<1> QED
  BY <1>1, <1>2 DEF NoLeak

\* nodePool.allocate: the index it picks was clear, so nobody owned it.
LEMMA BooksTake ==
  ASSUME NEW o \in [Containers -> Orphan(Addr)],
         NEW a \in [Blocks -> Orphan(AllocatorState)],
         NEW c \in Containers, NEW b \in Blocks,
         o[c] = None, a[b] # None, ~isFull(a[b]), NEW o2, NEW a2,
         o2[c] = [b |-> b, i |-> NextIndex(a[b])], a2[b] = allocate(a[b]),
         \A d \in Containers : d # c => o2[d] = o[d],
         \A d \in Blocks : d # b => a2[d] = a[d],
         Held(o, a), Unique(o)
  PROVE  Held(o2, a2) /\ Unique(o2) /\ (NoLeak(o, a) => NoLeak(o2, a2))
<1> DEFINE i == NextIndex(a[b])
           x == [b |-> b, i |-> i]
<1>1. a[b] \in AllocatorState
  BY DEF Orphan
<1>2. i \in Index \ a[b].usage /\ a2[b].usage = a[b].usage \cup {i}
  BY <1>1, NextIndexIsClear, UsageFacts
<1>3. x.b = b /\ x.i = i /\ x # None /\ a2[b] # None
  BY <1>1, <1>2, AllocatorTyped, ConstantsAssumption
<1>4. \A d \in Blocks : d # b => a2[d] = a[d]
  OBVIOUS
<1>5. o2[c] = x /\ \A d \in Containers : d # c => o2[d] = o[d]
  OBVIOUS
<1> HIDE DEF i, x
<1>6. \A d \in Containers : o[d] # None => o[d].b \in Blocks /\ o[d] # x
  BY <1>2, <1>3 DEF Held, Orphan, Addr
<1>7. Held(o2, a2)
  BY <1>2, <1>3, <1>4, <1>5, <1>6 DEF Held
<1>8. Unique(o2)
  BY <1>3, <1>5, <1>6 DEF Unique
<1>9. ASSUME NoLeak(o, a), NEW d \in Blocks \ Reserved, a2[d] # None,
             NEW j \in a2[d].usage
      PROVE  \E e \in Containers : o2[e] = [b |-> d, i |-> j]
  <2>1. CASE d = b /\ j = i
    BY <2>1, <1>5 DEF x
  <2>2. CASE ~(d = b /\ j = i)
    <3>1. a[d] # None /\ j \in a[d].usage
      BY <1>2, <1>4, <1>9, <2>2
    <3>2. PICK e \in Containers : o[e] = [b |-> d, i |-> j]
      BY <1>9, <3>1 DEF NoLeak
    <3>3. [b |-> d, i |-> j] # None
      <4>1. j \in Index
        BY <3>1 DEF Orphan, AllocatorState
      <4> QED
        BY <4>1, ConstantsAssumption
    <3>4. e # c
      BY <3>2, <3>3
    <3> QED
      BY <3>2, <3>4, <1>5
  <2> QED
    BY <2>1, <2>2
<1> QED
  BY <1>7, <1>8, <1>9 DEF NoLeak

\* nodePool.free: the owner gives up the index that is cleared.
LEMMA BooksFree ==
  ASSUME NEW o \in [Containers -> Orphan(Addr)],
         NEW a \in [Blocks -> Orphan(AllocatorState)],
         NEW c \in Containers, NEW x, x = o[c], x # None, NEW o2, NEW a2,
         o2[c] = None, a2[x.b] = free(a[x.b], x.i),
         \A d \in Containers : d # c => o2[d] = o[d],
         \A d \in Blocks : d # x.b => a2[d] = a[d],
         Held(o, a), Unique(o)
  PROVE  Held(o2, a2) /\ Unique(o2) /\ (NoLeak(o, a) => NoLeak(o2, a2))
<1> DEFINE b == x.b
           i == x.i
<1>1. /\ b \in Blocks /\ i \in Index /\ o[c] = [b |-> b, i |-> i]
      /\ a[b] \in AllocatorState
  BY DEF Held, Orphan, Addr
<1>2. a2[b].usage = a[b].usage \ {i} /\ a2[b] # None
  BY <1>1, UsageFacts, AllocatorTyped, ConstantsAssumption
<1>3. \A d \in Blocks : d # b => a2[d] = a[d]
  OBVIOUS
<1>4. o2[c] = None /\ \A d \in Containers : d # c => o2[d] = o[d]
  OBVIOUS
<1>5. \A d \in Containers :
         o[d] # None => o[d].b \in Blocks /\ o[d] = [b |-> o[d].b, i |-> o[d].i]
  BY DEF Orphan, Addr
<1> HIDE DEF b, i
<1>6. \A d \in Containers : d # c /\ o[d] # None => ~(o[d].b = b /\ o[d].i = i)
  BY <1>1, <1>5 DEF Unique
<1>7. Held(o2, a2)
  BY <1>2, <1>3, <1>4, <1>5, <1>6 DEF Held
<1>8. Unique(o2)
  BY <1>4 DEF Unique
<1>9. ASSUME NoLeak(o, a), NEW d \in Blocks \ Reserved, a2[d] # None,
             NEW j \in a2[d].usage
      PROVE  \E e \in Containers : o2[e] = [b |-> d, i |-> j]
  <2>1. a[d] # None /\ j \in a[d].usage /\ ~(d = b /\ j = i)
    BY <1>1, <1>2, <1>3, <1>9, ConstantsAssumption
  <2>2. PICK e \in Containers : o[e] = [b |-> d, i |-> j]
    BY <1>9, <2>1 DEF NoLeak
  <2>3. e # c
    BY <1>1, <2>1, <2>2
  <2> QED
    BY <2>2, <2>3, <1>4
<1> QED
  BY <1>7, <1>8, <1>9 DEF NoLeak

\* deleteBlock: nobody owns an index of an empty block.
LEMMA BooksForget ==
  ASSUME NEW o \in [Containers -> Orphan(Addr)],
         NEW a \in [Blocks -> Orphan(AllocatorState)],
         NEW b \in Blocks, isEmpty(a[b]), NEW a2, a2[b] = None,
         \A d \in Blocks : d # b => a2[d] = a[d],
         Held(o, a)
  PROVE  Held(o, a2) /\ (NoLeak(o, a) => NoLeak(o, a2))
<1>1. \A c \in Containers : o[c] # None => o[c].b \in Blocks /\ o[c].b # b
  BY DEF Held, isEmpty, Orphan, Addr
<1> QED
  BY <1>1 DEF Held, NoLeak

\* Start-up: a container's address is registered.
LEMMA BooksRegister ==
  ASSUME NEW o \in [Containers -> Orphan(Addr)],
         NEW a \in [Blocks -> Orphan(AllocatorState)],
         NEW c \in Containers, NEW x \in Addr,
         o[c] \in {None, x}, \A d \in Containers : d # c => o[d] # x,
         a[x.b] # None, NEW o2, NEW a2,
         o2[c] = x, a2[x.b] = register(a[x.b], x.i),
         \A d \in Containers : d # c => o2[d] = o[d],
         \A d \in Blocks : d # x.b => a2[d] = a[d],
         Held(o, a), Unique(o)
  PROVE  Held(o2, a2) /\ Unique(o2) /\ (NoLeak(o, a) => NoLeak(o2, a2))
<1> DEFINE b == x.b
           i == x.i
<1>1. b \in Blocks /\ i \in Index /\ x = [b |-> b, i |-> i] /\ x # None
  BY ConstantsAssumption DEF Addr
<1>2. a2[b].usage = a[b].usage \cup {i} /\ a2[b] # None
  BY <1>1, UsageFacts, AllocatorTyped, ConstantsAssumption DEF Orphan
<1>3. \A d \in Blocks : d # b => a2[d] = a[d]
  OBVIOUS
<1>4. o2[c] = x /\ \A d \in Containers : d # c => o2[d] = o[d]
  OBVIOUS
<1>5. \A d \in Containers : o[d] # None => o[d].b \in Blocks
  BY DEF Orphan, Addr
<1>6. Held(o2, a2)
  BY <1>1, <1>2, <1>3, <1>4, <1>5 DEF Held
<1>7. Unique(o2)
  BY <1>1, <1>4 DEF Unique
<1>8. ASSUME NoLeak(o, a), NEW d \in Blocks \ Reserved, a2[d] # None,
             NEW j \in a2[d].usage
      PROVE  \E e \in Containers : o2[e] = [b |-> d, i |-> j]
  <2>1. CASE d = b /\ j = i
    BY <2>1, <1>1, <1>4
  <2>2. CASE ~(d = b /\ j = i)
    <3>1. a[d] # None /\ j \in a[d].usage
      BY <1>2, <1>3, <1>8, <2>2
    <3>2. PICK e \in Containers : o[e] = [b |-> d, i |-> j]
      BY <1>8, <3>1 DEF NoLeak
    <3>3. [b |-> d, i |-> j] # None
      <4>1. j \in Index
        BY <3>1 DEF Orphan, AllocatorState
      <4> QED
        BY <4>1, ConstantsAssumption
    <3>4. o2[e] = o[e]
      <4>1. CASE e = c
        BY <3>2, <3>3, <4>1, <1>4
      <4>2. CASE e # c
        BY <4>2, <1>4
      <4> QED
        BY <4>1, <4>2
    <3> QED
      BY <3>2, <3>4
  <2> QED
    BY <2>1, <2>2
<1> QED
  BY <1>6, <1>7, <1>8 DEF NoLeak

\* An address that was picked and not stored is given up, or coild restarts.
LEMMA BooksLose ==
  ASSUME NEW o, NEW a, NEW o2,
         \A c \in Containers : o2[c] \in {None, o[c]},
         Held(o, a), Unique(o)
  PROVE  Held(o2, a) /\ Unique(o2)
BY DEF Held, Unique
-----------------------------------------------------------------------------
(* One thread moves *)

\* Owners are addresses.
LEMMA OwnTyped ==
  ASSUME TInv
  PROVE  /\ own \in [Containers -> Orphan(Addr)]
         /\ \A c \in Containers : own[c] = Owned(c)
<1>1. \A c \in Containers : th[c] \in Thread /\ info[c] \in Orphan(Addr)
  BY DEF TInv, TypeTh, TypeTab, Threads
<1>2. \A c \in Containers : Owned(c) \in Orphan(Addr)
  BY <1>1 DEF Owned, Thread, Orphan
<1> QED
  BY <1>2 DEF own

\* No thread is called None or is both a container and the collector.
LEMMA ThreadNames ==
  /\ \A g \in Threads : g # None
  /\ \A c \in Containers : c \in Threads /\ c # GC
  /\ GC \in Threads
BY ConstantsAssumption DEF Threads

\* What a step of thread k does not take from the others: their locals, the
\* mutexes they hold, their containers and the blocks they are giving back,
\* which are protected by the mutex of the pool.
Leaves(k) ==
    /\ \A g \in Threads : g # k => th'[g] = th[g]
    /\ \A g \in Threads : \A p \in Pools : g # k /\ pmu[p] = g => pmu'[p] = g
    /\ k # GC => empties' = empties
    /\ \A c \in Containers : c # k => info'[c] = info[c]
    /\ \A b \in Blocks :
          alloc[b] # None /\ pmu[PoolOf[b]] \notin {None, k} => alloc'[b] = alloc[b]

\* The other threads keep their part of the invariant.
LEMMA OthersKept ==
  ASSUME TInv, Core, NEW k \in Threads, Leaves(k)
  PROVE  /\ \A g \in Threads : g # k => LockOK(g)' /\ TargetOK(g)' /\ EmptiesOK(g)'
         /\ \A c \in Containers : c # k => LocalOK(c)' /\ Owned(c)' = Owned(c)
<1>1. ASSUME NEW g \in Threads, g # k
      PROVE  LockOK(g)' /\ TargetOK(g)' /\ EmptiesOK(g)'
  <2>1. th'[g] = th[g] /\ LockOK(g) /\ TargetOK(g) /\ EmptiesOK(g)
    BY <1>1 DEF Leaves, Core
  <2>2. LockOK(g)'
    BY <1>1, <2>1 DEF LockOK, Leaves
  <2>3. ASSUME th[g].pc \in Holding, NEW b, Empty(b, th[g].pool)
        PROVE  Empty(b, th[g].pool)'
    <3>1. th[g].pool \in Pools /\ pmu[th[g].pool] = g /\ g \notin {None, k}
      BY <1>1, <2>1, <2>3, ThreadNames DEF LockOK
    <3>2. alloc'[b] = alloc[b]
      BY <2>3, <3>1 DEF Empty, Leaves
    <3> QED
      BY <2>1, <2>3, <3>2 DEF Empty
  <2>4. TargetOK(g)'
    BY <2>1, <2>3 DEF TargetOK, Holding
  <2>5. EmptiesOK(g)'
    BY <1>1, <2>1, <2>3 DEF EmptiesOK, Holding, Leaves
  <2> QED
    BY <2>2, <2>4, <2>5
<1>2. ASSUME NEW c \in Containers, c # k
      PROVE  LocalOK(c)' /\ Owned(c)' = Owned(c)
  <2>1. th'[c] = th[c] /\ info'[c] = info[c] /\ LocalOK(c)
    BY <1>2, ThreadNames DEF Leaves, Core
  <2> QED
    BY <2>1 DEF LocalOK, Owned, Releasing
<1> QED
  BY <1>1, <1>2

\* So Core is kept if thread k and the books are in order.
LEMMA CoreStep ==
  ASSUME TInv, Core, NEW k \in Threads, Leaves(k),
         LockOK(k)', TargetOK(k)', EmptiesOK(k)',
         k \in Containers => LocalOK(k)',
         BootInfoOK', Books'
  PROVE  Core'
BY OthersKept DEF Core

\* The owners after a step of k.
LEMMA OwnStep ==
  ASSUME TInv, Core, NEW k \in Threads, Leaves(k)
  PROVE  /\ (k \in Containers => Owned(k)' = Owned(k)) => own' = own
         /\ k \in Containers =>
               /\ own[k] = Owned(k) /\ own'[k] = Owned(k)'
               /\ \A d \in Containers : d # k => own'[d] = own[d]
<1>1. \A c \in Containers : c # k => Owned(c)' = Owned(c)
  BY OthersKept
<1>2. own' = [c \in Containers |-> Owned(c)'] /\ own = [c \in Containers |-> Owned(c)]
  BY DEF own
<1>3. ASSUME k \in Containers => Owned(k)' = Owned(k)
      PROVE  own' = own
  BY <1>1, <1>2, <1>3
<1>4. ASSUME k \in Containers
      PROVE  /\ own[k] = Owned(k) /\ own'[k] = Owned(k)'
             /\ \A d \in Containers : d # k => own'[d] = own[d]
  BY <1>1, <1>2, <1>4
<1> QED
  BY <1>3, <1>4

\* The books are kept by a step that changes neither owners nor bitsets, or
\* that only learns blocks.
LEMMA BooksKept ==
  ASSUME TInv, Core, own' = own, failed \subseteq failed',
         \A b \in Blocks :
            alloc'[b] = alloc[b] \/ (alloc[b] = None /\ alloc'[b] = newBlock(b))
  PROVE  Books'
<1>1. Held(own, alloc) /\ Unique(own) /\ ("addSync" \in failed \/ NoLeak(own, alloc))
  BY DEF Core, Books
<1>2. Held(own, alloc') /\ (NoLeak(own, alloc) => NoLeak(own, alloc'))
  BY <1>1, OwnTyped, BooksSync
<1>3. Held(own', alloc') /\ Unique(own') /\ ("addSync" \in failed' \/ NoLeak(own', alloc'))
  BY <1>1, <1>2
<1> QED
  BY <1>3 DEF Books, Held, Unique, NoLeak

\* The same when the owner of an index changes and the books are balanced.
LEMMA BooksMoved ==
  ASSUME Core, failed \subseteq failed',
         Held(own', alloc') /\ Unique(own')
         /\ (NoLeak(own, alloc) => NoLeak(own', alloc'))
  PROVE  Books'
BY DEF Core, Books, Held, Unique, NoLeak

\* A step of k that moves no address and no mutex.
LEMMA QuietStep ==
  ASSUME TInv, Core, NEW k \in Threads,
         \A g \in Threads : g # k => th'[g] = th[g],
         UNCHANGED <<pmu, alloc, info, empties>>,
         failed \subseteq failed',
         k \in Containers => Owned(k)' = Owned(k) /\ LocalOK(k)',
         LockOK(k)', TargetOK(k)', EmptiesOK(k)', BootInfoOK'
  PROVE  Core'
<1>1. Leaves(k)
  BY DEF Leaves
<1>2. own' = own
  BY <1>1, OwnStep
<1>3. Books'
  BY <1>2, BooksKept
<1> QED
  BY <1>1, <1>3, CoreStep

\* A step of no thread.
LEMMA UntouchedStep ==
  ASSUME TInv, Core, UNCHANGED <<mode, pmu, alloc, info, th, empties, veth>>,
         failed \subseteq failed'
  PROVE  Core'
<1>1. Leaves(GC) /\ GC \in Threads
  BY ThreadNames DEF Leaves
<1>2. LockOK(GC)' /\ TargetOK(GC)' /\ EmptiesOK(GC)' /\ BootInfoOK'
  BY <1>1 DEF Core, LockOK, TargetOK, EmptiesOK, Empty, BootInfoOK
<1> QED
  BY <1>1, <1>2, QuietStep, ThreadNames

\* A new process knows no block and no container.
LEMMA RestartCore ==
  ASSUME TInv', NEW keep, Restart(keep)
  PROVE  Core'
<1>1. \A g \in Threads : th'[g] = idle
  BY DEF Restart
<1>2. \A g \in Threads : th'[g].pc = "idle" /\ th'[g].addr = None
  BY <1>1, IdleTyped
<1>3. \A c \in Containers : info'[c] = None
  BY DEF Restart
<1>4. \A b \in Blocks : alloc'[b] = None
  BY DEF Restart
<1>5. \A g \in Threads : LockOK(g)' /\ TargetOK(g)' /\ EmptiesOK(g)'
  BY <1>2 DEF LockOK, TargetOK, EmptiesOK, Holding
<1>6. \A c \in Containers : LocalOK(c)' /\ Owned(c)' = None
  BY <1>2, <1>3, ThreadNames DEF LocalOK, Owned, Releasing, NoInfo
<1>7. BootInfoOK'
  BY <1>3 DEF BootInfoOK
<1>8. \A c \in Containers : own'[c] = None
  BY <1>6 DEF own
<1>9. Books'
  BY <1>4, <1>8 DEF Books, Held, Unique, NoLeak
<1> QED
  BY <1>5, <1>6, <1>7, <1>9 DEF Core
-----------------------------------------------------------------------------
(* The actions keep Core: coildServer.Add *)

\* The start of coildServer.Add: an address that is already registered stays
\* the container's own.
LEMMA BeginAddCore ==
  ASSUME TInv, Core, NEW c \in Containers, BeginAdd(c)
  PROVE  Core'
<1>1. UNCHANGED <<mode, pmu, alloc, info, empties, veth, failed>>
  BY DEF BeginAdd, world, proc, locks, known, gcv, kernel
<1>2. th[c].pc = "idle" /\ mode = "up" /\ LocalOK(c)
  BY DEF BeginAdd, Core
<1>3. /\ \A g \in Threads : g # c => th'[g] = th[g]
      /\ th'[c].pc \in {"setup", "getPool"} /\ th'[c].addr = None
      /\ th'[c].pc = "getPool" => info[c] = None
  <2>1. CASE info[c] # None
    BY <1>2, <2>1, GotoFacts, ThreadNames DEF BeginAdd, PCs, TInv, LocalOK
  <2>2. CASE info[c] = None
    <3>1. PICK p \in Pools :
             th' = [th EXCEPT ![c] = [idle EXCEPT !.pc = "getPool", !.pool = p]]
      BY <2>2 DEF BeginAdd
    <3>2. PICK r \in Thread : /\ r = [idle EXCEPT !.pc = "getPool", !.pool = p]
                              /\ r.pc = "getPool" /\ r.addr = None
      BY IdleTyped DEF idle
    <3>3. th' = [th EXCEPT ![c] = r]
      BY <3>1, <3>2
    <3> QED
      BY <2>2, <3>2, <3>3, SetFacts, ThreadNames DEF TInv
  <2> QED
    BY <2>1, <2>2
<1>4. Owned(c)' = Owned(c) /\ LocalOK(c)'
  BY <1>1, <1>2, <1>3 DEF Owned, Releasing, LocalOK, NoInfo
<1>5. LockOK(c)' /\ TargetOK(c)' /\ EmptiesOK(c)' /\ BootInfoOK'
  BY <1>1, <1>2, <1>3, ThreadNames DEF LockOK, TargetOK, EmptiesOK, BootInfoOK,
     Holding
<1> QED
  BY <1>1, <1>3, <1>4, <1>5, QuietStep, ThreadNames

\* getPool learns blocks that nobody owns an address of.
LEMMA GetPoolCore ==
  ASSUME TInv, Core, NEW c \in Containers, GetPool(c)
  PROVE  Core'
<1>1. UNCHANGED <<mode, pmu, info, empties, veth, failed>>
  BY DEF GetPool, world, proc, locks, gcv, kernel
<1>2. th[c].pc = "getPool" /\ LocalOK(c)
  BY DEF GetPool, Core
<1>3. /\ \A g \in Threads : g # c => th'[g] = th[g]
      /\ th'[c].pc = "alloc" /\ th'[c].addr = th[c].addr
  BY GotoFacts, ThreadNames DEF GetPool, PCs, TInv
<1>4. \A b \in Blocks :
         alloc'[b] = alloc[b] \/ (alloc[b] = None /\ alloc'[b] = newBlock(b))
  BY DEF GetPool, getPool, syncBlock
<1>5. Leaves(c)
  BY <1>1, <1>3, <1>4, ThreadNames DEF Leaves
<1>6. Owned(c)' = Owned(c) /\ LocalOK(c)'
  BY <1>1, <1>2, <1>3 DEF Owned, Releasing, LocalOK, NoInfo
<1>7. LockOK(c)' /\ TargetOK(c)' /\ EmptiesOK(c)' /\ BootInfoOK'
  BY <1>1, <1>3, ThreadNames DEF LockOK, TargetOK, EmptiesOK, BootInfoOK,
     Holding, Core
<1>8. Books'
  BY <1>1, <1>4, <1>5, <1>6, OwnStep, BooksKept, ThreadNames
<1> QED
  BY <1>5, <1>6, <1>7, <1>8, CoreStep, ThreadNames

\* The error return of getPool touches no address.
LEMMA GetPoolFailsCore ==
  ASSUME TInv, Core, NEW c \in Containers, GetPoolFails(c)
  PROVE  Core'
<1>1. UNCHANGED <<mode, pmu, alloc, info, empties, veth>> /\ failed \subseteq failed'
  BY DEF GetPoolFails, Fails, world, proc, locks, known, gcv, kernel
<1>2. th[c].pc = "getPool" /\ LocalOK(c)
  BY DEF GetPoolFails, Core
<1>3. /\ \A g \in Threads : g # c => th'[g] = th[g]
      /\ th'[c].pc = "idle" /\ th'[c].addr = None
  BY ReturnFacts, IdleTyped, ThreadNames DEF GetPoolFails, TInv
<1>4. Owned(c)' = Owned(c) /\ LocalOK(c)'
  BY <1>1, <1>2, <1>3 DEF Owned, Releasing, LocalOK, NoInfo
<1>5. LockOK(c)' /\ TargetOK(c)' /\ EmptiesOK(c)' /\ BootInfoOK'
  BY <1>1, <1>3, ThreadNames DEF LockOK, TargetOK, EmptiesOK, BootInfoOK,
     Holding, Core
<1> QED
  BY <1>1, <1>3, <1>4, <1>5, QuietStep, ThreadNames

\* nodePool.allocate gives a clear index of a block whose pool is not locked,
\* so no block that is being returned.
LEMMA AllocateKnownCore ==
  ASSUME TInv, Core, NEW c \in Containers, AllocateKnown(c)
  PROVE  Core'
<1>1. UNCHANGED <<mode, pmu, empties, veth, failed>> /\ th[c].pc = "alloc"
  BY DEF AllocateKnown, world, proc, locks, gcv, kernel
<1>2. LocalOK(c) /\ info[c] = None /\ mode = "up" /\ th[c].addr = None
  BY <1>1 DEF Core, LocalOK, NoInfo, TInv, BootOK, TypeMem
<1>3. PICK b \in HasRoom(th[c].pool) :
         /\ info' = [info EXCEPT ![c] = [b |-> b, i |-> NextIndex(alloc[b])]]
         /\ alloc' = [alloc EXCEPT ![b] = allocate(alloc[b])]
  BY DEF AllocateKnown
<1>4. /\ b \in Blocks /\ PoolOf[b] = th[c].pool /\ alloc[b] # None
      /\ ~isFull(alloc[b]) /\ pmu[PoolOf[b]] = None
  BY <1>3 DEF HasRoom, InPool, AllocateKnown
<1>5. PICK r \in Thread : r = [idle EXCEPT !.pc = "setup"]
                          /\ r.pc = "setup" /\ r.addr = None
  BY IdleTyped DEF idle, PCs
<1>6. /\ \A g \in Threads : g # c => th'[g] = th[g]
      /\ th'[c].pc = "setup" /\ th'[c].addr = None
  BY <1>5, SetFacts, ThreadNames DEF AllocateKnown, TInv
<1>7. \A d \in Containers : d # c => info'[d] = info[d]
  BY <1>3 DEF TInv, TypeTab
<1>8. Leaves(c)
  BY <1>1, <1>3, <1>4, <1>6, <1>7 DEF Leaves, TInv, TypeTab
<1>9. Owned(c) = None /\ Owned(c)' = [b |-> b, i |-> NextIndex(alloc[b])]
  BY <1>1, <1>2, <1>3, <1>6 DEF Owned, Releasing, TInv, TypeTab
<1>10. Books'
  <2>1. own \in [Containers -> Orphan(Addr)]
    BY OwnTyped
  <2>2. Held(own, alloc) /\ Unique(own) /\ alloc \in [Blocks -> Orphan(AllocatorState)]
    BY DEF Core, Books, TInv, TypeTab
  <2>3. /\ own[c] = None /\ own'[c] = [b |-> b, i |-> NextIndex(alloc[b])]
        /\ \A d \in Containers : d # c => own'[d] = own[d]
    BY <1>8, <1>9, OwnStep, ThreadNames
  <2>4. /\ alloc'[b] = allocate(alloc[b])
        /\ \A d \in Blocks : d # b => alloc'[d] = alloc[d]
    BY <1>3, <1>4, <2>2
  <2>5. /\ Held(own', alloc') /\ Unique(own')
        /\ NoLeak(own, alloc) => NoLeak(own', alloc')
    BY <1>4, <2>1, <2>2, <2>3, <2>4, BooksTake
  <2> QED
    BY <1>1, <2>5, BooksMoved
<1>11. LocalOK(c)' /\ LockOK(c)' /\ TargetOK(c)' /\ EmptiesOK(c)' /\ BootInfoOK'
  BY <1>1, <1>2, <1>6, ThreadNames DEF LockOK, TargetOK, EmptiesOK, BootInfoOK,
     LocalOK, Holding, NoInfo
<1> QED
  BY <1>8, <1>10, <1>11, CoreStep, ThreadNames

\* nodePool.allocate keeps p.mu when every known block is full.
LEMMA AllocateFullCore ==
  ASSUME TInv, Core, NEW c \in Containers, AllocateFull(c)
  PROVE  Core'
<1>1. UNCHANGED <<mode, alloc, info, empties, veth, failed>> /\ th[c].pc = "alloc"
  BY DEF AllocateFull, world, proc, known, gcv, kernel
<1>2. LocalOK(c) /\ th[c].pool \in Pools /\ pmu[th[c].pool] = None
      /\ pmu' = [pmu EXCEPT ![th[c].pool] = c]
  BY <1>1 DEF Core, AllocateFull, TInv, PcOK
<1>3. /\ \A g \in Threads : g # c => th'[g] = th[g]
      /\ th'[c].pc = "delReq" /\ th'[c].addr = th[c].addr
      /\ th'[c].pool = th[c].pool
  BY GotoFacts, ThreadNames DEF AllocateFull, PCs, TInv
<1>4. Leaves(c)
  BY <1>1, <1>2, <1>3, ThreadNames DEF Leaves, TInv, TypeMem
<1>5. Owned(c)' = Owned(c) /\ LocalOK(c)'
  BY <1>1, <1>2, <1>3 DEF Owned, Releasing, LocalOK, NoInfo
<1>6. LockOK(c)'
  BY <1>2, <1>3 DEF LockOK, TInv, TypeMem
<1>7. TargetOK(c)' /\ EmptiesOK(c)' /\ BootInfoOK'
  BY <1>1, <1>3, ThreadNames DEF TargetOK, EmptiesOK, BootInfoOK, Core
<1>8. Books'
  BY <1>1, <1>4, <1>5, OwnStep, BooksKept, ThreadNames
<1> QED
  BY <1>4, <1>5, <1>6, <1>7, <1>8, CoreStep, ThreadNames

\* The error returns of nodePool.allocate release p.mu.
LEMMA AllocateFailsCore ==
  ASSUME TInv, Core, NEW c \in Containers, AllocateFails(c)
  PROVE  Core'
<1>1. UNCHANGED <<mode, alloc, info, empties, veth>> /\ failed \subseteq failed'
  BY DEF AllocateFails, Fails, world, proc, known, gcv, kernel
<1>2. th[c].pc \in {"delReq", "mkReq", "wait", "got"} /\ LocalOK(c) /\ LockOK(c)
  BY ThreadNames DEF AllocateFails, Core
<1>3. th[c].pool \in Pools /\ pmu[th[c].pool] = c
      /\ pmu' = [pmu EXCEPT ![th[c].pool] = None]
  BY <1>2 DEF AllocateFails, Unlock, LockOK, Holding
<1>4. /\ \A g \in Threads : g # c => th'[g] = th[g]
      /\ th'[c].pc = "idle" /\ th'[c].addr = None
  BY ReturnFacts, IdleTyped, ThreadNames DEF AllocateFails, TInv
<1>5. Leaves(c)
  BY <1>1, <1>3, <1>4, ThreadNames DEF Leaves, TInv, TypeMem
<1>6. Owned(c)' = Owned(c) /\ LocalOK(c)'
  BY <1>1, <1>2, <1>4 DEF Owned, Releasing, LocalOK, NoInfo
<1>7. LockOK(c)' /\ TargetOK(c)' /\ EmptiesOK(c)' /\ BootInfoOK'
  BY <1>1, <1>4, ThreadNames DEF LockOK, TargetOK, EmptiesOK, BootInfoOK, Core,
     Holding
<1>8. Books'
  BY <1>1, <1>5, <1>6, OwnStep, BooksKept, ThreadNames
<1> QED
  BY <1>5, <1>6, <1>7, <1>8, CoreStep, ThreadNames

\* DeleteRequest, CreateRequest and EnterSelect stay in nodePool.allocate.
LEMMA RequestStepsCore ==
  ASSUME TInv, Core, NEW c \in Containers,
         DeleteRequest(c) \/ CreateRequest(c) \/ EnterSelect(c)
  PROVE  Core'
<1>1. UNCHANGED <<mode, pmu, alloc, info, empties, veth, failed>>
  BY DEF DeleteRequest, CreateRequest, EnterSelect, world, proc, locks, known,
     gcv, kernel
<1>2. th[c].pc \in {"delReq", "mkReq", "created"} /\ LocalOK(c) /\ LockOK(c)
  BY ThreadNames DEF DeleteRequest, CreateRequest, EnterSelect, Core
<1>3. /\ \A g \in Threads : g # c => th'[g] = th[g]
      /\ th'[c].pc \in {"mkReq", "created", "wait"}
      /\ th'[c].addr = th[c].addr /\ th'[c].pool = th[c].pool
  BY GotoFacts, ThreadNames DEF DeleteRequest, CreateRequest, EnterSelect, PCs,
     TInv
<1>4. Owned(c)' = Owned(c) /\ LocalOK(c)'
  BY <1>1, <1>2, <1>3 DEF Owned, Releasing, LocalOK, NoInfo
<1>5. LockOK(c)' /\ TargetOK(c)' /\ EmptiesOK(c)' /\ BootInfoOK'
  BY <1>1, <1>2, <1>3, ThreadNames DEF LockOK, TargetOK, EmptiesOK, BootInfoOK,
     Holding, Core
<1> QED
  BY <1>1, <1>3, <1>4, <1>5, QuietStep, ThreadNames

\* The answer to the request is a block of the pool whose mutex c holds.
LEMMA ResultAllocateCore ==
  ASSUME TInv, Core, NEW c \in Containers, ResultAllocate(c)
  PROVE  Core'
<1> DEFINE p == th[c].pool
           b == th[c].got
           synced == syncBlock(p)
           x == [b |-> b, i |-> NextIndex(synced[b])]
<1>1. UNCHANGED <<mode, info, empties, veth, failed>> /\ th[c].pc = "got"
  BY DEF ResultAllocate, world, proc, gcv, kernel
<1>2. LocalOK(c) /\ LockOK(c) /\ info[c] = None /\ th[c].addr = None
  BY <1>1, ThreadNames DEF Core, LocalOK, NoInfo
<1>3. p \in Pools /\ pmu[p] = c /\ pmu' = [pmu EXCEPT ![p] = None]
  BY <1>1, <1>2 DEF LockOK, Holding, ResultAllocate, Unlock
<1>4. b \in Blocks /\ PoolOf[b] = p
  BY <1>1, <1>2 DEF LocalOK, AnswerFor, InPool, ResultAllocate
<1>5. /\ synced \in [Blocks -> Orphan(AllocatorState)]
      /\ synced[b] # None /\ ~isFull(synced[b])
      /\ alloc' = [synced EXCEPT ![b] = allocate(synced[b])]
  BY syncBlockTyped DEF ResultAllocate, TInv
<1>6. \A d \in Blocks :
         synced[d] = alloc[d] \/ (alloc[d] = None /\ synced[d] = newBlock(d))
  BY DEF syncBlock
<1>7. x \in Addr
  BY <1>4, <1>5, NextIndexIsClear DEF Addr, Orphan
<1>8. th' = [th EXCEPT ![c] = [idle EXCEPT !.pc = "list", !.addr = x]]
  BY DEF ResultAllocate
<1> HIDE DEF x, synced
<1>9. PICK r \in Thread : r = [idle EXCEPT !.pc = "list", !.addr = x]
                          /\ r.pc = "list" /\ r.addr = x
  BY <1>7, IdleTyped DEF idle
<1>10. /\ \A g \in Threads : g # c => th'[g] = th[g]
       /\ th'[c].pc = "list" /\ th'[c].addr = x /\ x # None
  <2>1. th' = [th EXCEPT ![c] = r]
    BY <1>8, <1>9
  <2>2. x # None
    BY <1>7, ConstantsAssumption DEF Addr
  <2> QED
    BY <1>9, <2>1, <2>2, SetFacts, ThreadNames DEF TInv
<1>11. Leaves(c)
  <2>1. \A d \in Blocks : d # b /\ alloc[d] # None => alloc'[d] = alloc[d]
    BY <1>5, <1>6
  <2> QED
    BY <1>1, <1>3, <1>4, <1>10, <2>1, ThreadNames DEF Leaves, TInv, TypeMem
<1>12. Owned(c) = None /\ Owned(c)' = x
  BY <1>1, <1>2, <1>10 DEF Owned
<1>13. Books'
  <2>1. own \in [Containers -> Orphan(Addr)]
    BY OwnTyped
  <2>2. /\ Held(own, synced) /\ Unique(own)
        /\ NoLeak(own, alloc) => NoLeak(own, synced)
    BY <1>6, <2>1, BooksSync DEF Core, Books
  <2>3. /\ own[c] = None /\ own'[c] = [b |-> b, i |-> NextIndex(synced[b])]
        /\ \A d \in Containers : d # c => own'[d] = own[d]
    BY <1>11, <1>12, OwnStep, ThreadNames DEF x
  <2>4. /\ alloc'[b] = allocate(synced[b])
        /\ \A d \in Blocks : d # b => alloc'[d] = synced[d]
    BY <1>4, <1>5
  <2>5. /\ Held(own', alloc') /\ Unique(own')
        /\ NoLeak(own, synced) => NoLeak(own', alloc')
    <3>1. b \in Blocks /\ synced \in [Blocks -> Orphan(AllocatorState)]
          /\ synced[b] # None /\ ~isFull(synced[b])
      BY <1>4, <1>5
    <3> HIDE DEF b
    <3> QED
      BY <2>1, <2>2, <2>3, <2>4, <3>1, BooksTake
  <2> QED
    BY <1>1, <2>2, <2>5, BooksMoved
<1>14. LocalOK(c)' /\ LockOK(c)' /\ TargetOK(c)' /\ EmptiesOK(c)' /\ BootInfoOK'
  BY <1>1, <1>2, <1>10, ThreadNames DEF LockOK, TargetOK, EmptiesOK, BootInfoOK,
     LocalOK, Holding, NoInfo, Core
<1> QED
  BY <1>11, <1>13, <1>14, CoreStep, ThreadNames

\* SetupIPAM and its failure do not touch the books.
LEMMA SetupIPAMCore ==
  ASSUME TInv, Core, NEW c \in Containers, SetupIPAM(c) \/ SetupIPAMFails(c)
  PROVE  Core'
<1>1. UNCHANGED <<mode, pmu, alloc, info, empties>> /\ failed \subseteq failed'
      /\ th[c].pc = "setup"
  BY DEF SetupIPAM, SetupIPAMFails, Fails, world, proc, locks, known, gcv
<1>2. LocalOK(c) /\ th[c].addr = None /\ mode = "up"
  BY <1>1 DEF Core, LocalOK, TInv, BootOK, TypeMem
<1>3. /\ \A g \in Threads : g # c => th'[g] = th[g]
      /\ th'[c].pc \in {"idle", "free"} /\ th'[c].addr = None
  <2>1. TypeTh /\ c \in Threads
    BY ThreadNames DEF TInv
  <2>2. CASE Return(c)
    BY <2>1, <2>2, ReturnFacts, IdleTyped
  <2>3. CASE Goto(c, "free")
    BY <1>2, <2>1, <2>3, GotoFacts DEF PCs
  <2> QED
    BY <2>2, <2>3 DEF SetupIPAM, SetupIPAMFails
<1>4. Owned(c)' = Owned(c) /\ LocalOK(c)'
  BY <1>1, <1>2, <1>3 DEF Owned, Releasing, LocalOK, NoInfo
<1>5. LockOK(c)' /\ TargetOK(c)' /\ EmptiesOK(c)' /\ BootInfoOK'
  BY <1>1, <1>2, <1>3, ThreadNames DEF LockOK, TargetOK, EmptiesOK, BootInfoOK,
     Holding
<1> QED
  BY <1>1, <1>3, <1>4, <1>5, QuietStep, ThreadNames

-----------------------------------------------------------------------------
(* coildServer.Del *)

\* Destroying the veth and freeing an unknown container touch no address.
LEMMA BeginDelCore ==
  ASSUME TInv, Core, NEW c \in Containers, BeginDel(c) \/ FreeUnknown(c)
  PROVE  Core'
<1>1. UNCHANGED <<mode, pmu, alloc, info, empties, failed>>
      /\ th[c].pc \in {"idle", "free"}
  BY DEF BeginDel, FreeUnknown, world, proc, locks, known, gcv
<1>2. LocalOK(c) /\ th[c].addr = None /\ mode = "up"
  BY <1>1 DEF Core, LocalOK, TInv, BootOK, TypeMem, BeginDel, FreeUnknown
<1>3. /\ \A g \in Threads : g # c => th'[g] = th[g]
      /\ th'[c].pc \in {"idle", "free"} /\ th'[c].addr = None
  BY <1>2, ReturnFacts, GotoFacts, IdleTyped, ThreadNames
     DEF BeginDel, FreeUnknown, TInv, PCs
<1>4. Owned(c)' = Owned(c) /\ LocalOK(c)'
  BY <1>1, <1>2, <1>3 DEF Owned, Releasing, LocalOK, NoInfo
<1>5. LockOK(c)' /\ TargetOK(c)' /\ EmptiesOK(c)' /\ BootInfoOK'
  BY <1>1, <1>2, <1>3, ThreadNames DEF LockOK, TargetOK, EmptiesOK, BootInfoOK,
     Holding
<1> QED
  BY <1>1, <1>3, <1>4, <1>5, QuietStep, ThreadNames

\* nodePool.free: the owner gives up the index that is cleared; if the block is
\* empty then, it is returned under p.mu.
LEMMA FreeCore ==
  ASSUME TInv, Core, NEW c \in Containers, Free(c)
  PROVE  Core'
<1> DEFINE x == info[c]
           b == info[c].b
           p == PoolOf[b]
           left == free(alloc[b], info[c].i)
<1>1. UNCHANGED <<mode, empties, veth, failed>> /\ th[c].pc = "free" /\ x # None
  BY DEF Free, world, proc, gcv, kernel
<1>2. LocalOK(c) /\ th[c].addr = None /\ mode = "up"
  BY <1>1 DEF Core, LocalOK, TInv, BootOK, TypeMem
<1>3. /\ b \in Blocks /\ p \in Pools /\ pmu[p] = None
      /\ alloc[b] \in AllocatorState /\ left \in AllocatorState
      /\ alloc' = [alloc EXCEPT ![b] = left]
  <2>1. x \in Addr /\ alloc[b] # None /\ pmu[p] = None
    BY <1>1 DEF Free, TInv, TypeTab, Orphan
  <2>2. b \in Blocks /\ p \in Pools /\ alloc[b] \in AllocatorState /\ x.i \in Index
    BY <2>1, ConstantsAssumption DEF Addr, TInv, TypeTab, Orphan
  <2>3. left \in AllocatorState
    BY <2>2, AllocatorTyped
  <2> QED
    BY <2>1, <2>2, <2>3 DEF Free
<1>4. left # None
  BY <1>3, ConstantsAssumption
<1>5. alloc'[b] = left /\ \A d \in Blocks : d # b => alloc'[d] = alloc[d]
  BY <1>3 DEF TInv, TypeTab
<1> HIDE DEF left
<1>6. /\ \A g \in Threads : g # c => th'[g] = th[g]
      /\ th'[c].addr = None
      /\ \/ /\ th'[c].pc = "idle" /\ info' = [info EXCEPT ![c] = None]
            /\ UNCHANGED pmu
         \/ /\ th'[c].pc = "rmFin" /\ th'[c].pool = p /\ th'[c].target = b
            /\ UNCHANGED info /\ isEmpty(left) /\ pmu' = [pmu EXCEPT ![p] = c]
  <2>1. CASE isEmpty(left)
    <3>1. /\ th' = [th EXCEPT ![c] = [idle EXCEPT !.pc = "rmFin", !.pool = p,
                                     !.target = b]]
          /\ UNCHANGED info /\ pmu' = [pmu EXCEPT ![p] = c]
      BY <2>1 DEF Free, left
    <3>2. PICK r \in Thread : /\ r = [idle EXCEPT !.pc = "rmFin", !.pool = p,
                                              !.target = b]
                              /\ r.pc = "rmFin" /\ r.pool = p /\ r.target = b
                              /\ r.addr = None
      BY <1>3, IdleTyped DEF idle
    <3>3. th' = [th EXCEPT ![c] = r]
      BY <3>1, <3>2
    <3>4. /\ th'[c] = r
          /\ \A g \in Threads : g # c => th'[g] = th[g]
      BY <3>3, SetFacts, ThreadNames DEF TInv
    <3> QED
      BY <2>1, <3>1, <3>2, <3>4
  <2>2. CASE ~isEmpty(left)
    <3>1. info' = [info EXCEPT ![c] = None] /\ UNCHANGED pmu /\ Return(c)
      BY <2>2 DEF Free, left
    <3> QED
      BY <3>1, ReturnFacts, IdleTyped, ThreadNames DEF TInv
  <2> QED
    BY <2>1, <2>2
<1>7. (\A d \in Containers : d # c => info'[d] = info[d])
      /\ (th'[c].pc = "idle" => info'[c] = None)
  BY <1>6 DEF TInv, TypeTab
<1>8. Leaves(c)
  <2>1. \A g \in Threads : \A q \in Pools : g # c /\ pmu[q] = g => pmu'[q] = g
    BY <1>3, <1>6, ThreadNames DEF TInv, TypeMem
  <2>2. \A d \in Blocks : alloc[d] # None /\ pmu[PoolOf[d]] \notin {None, c}
                          => alloc'[d] = alloc[d]
    BY <1>3, <1>5
  <2> QED
    BY <1>1, <1>6, <1>7, <2>1, <2>2 DEF Leaves
<1>9. Owned(c) = x /\ Owned(c)' = None
  BY <1>1, <1>2, <1>6, <1>7 DEF Owned, Releasing
<1>10. Books'
  <2>1. own \in [Containers -> Orphan(Addr)]
    BY OwnTyped
  <2>2. Held(own, alloc) /\ Unique(own) /\ alloc \in [Blocks -> Orphan(AllocatorState)]
    BY DEF Core, Books, TInv, TypeTab
  <2>3. /\ x = own[c] /\ own'[c] = None
        /\ \A d \in Containers : d # c => own'[d] = own[d]
    BY <1>8, <1>9, OwnStep, ThreadNames
  <2>4. /\ alloc'[x.b] = free(alloc[x.b], x.i)
        /\ \A d \in Blocks : d # x.b => alloc'[d] = alloc[d]
    BY <1>5 DEF left
  <2>5. /\ Held(own', alloc') /\ Unique(own')
        /\ NoLeak(own, alloc) => NoLeak(own', alloc')
    BY <1>1, <2>1, <2>2, <2>3, <2>4, BooksFree
  <2> QED
    BY <1>1, <2>5, BooksMoved
<1>11. LockOK(c)'
  BY <1>3, <1>6 DEF LockOK, Holding, TInv, TypeMem
<1>12. TargetOK(c)'
  BY <1>3, <1>4, <1>5, <1>6 DEF TargetOK, Empty
<1>13. LocalOK(c)' /\ EmptiesOK(c)' /\ BootInfoOK'
  BY <1>1, <1>2, <1>6, ThreadNames DEF EmptiesOK, BootInfoOK, LocalOK, NoInfo
<1> QED
  BY <1>8, <1>10, <1>11, <1>12, <1>13, CoreStep, ThreadNames

-----------------------------------------------------------------------------
(* deleteBlock and sync *)

\* An owner that is giving its address back, or has no address in hand.
LEMMA RemoveFinalizerCore ==
  ASSUME TInv, Core, NEW g \in Threads, RemoveFinalizer(g)
  PROVE  Core'
<1>1. UNCHANGED <<mode, pmu, alloc, info, empties, veth, failed>> /\ th[g].pc = "rmFin"
  BY DEF RemoveFinalizer, proc, locks, known, gcv, kernel
<1>2. LockOK(g) /\ TargetOK(g) /\ EmptiesOK(g) /\ (g \in Containers => LocalOK(g))
  BY DEF Core
<1>3. /\ \A k \in Threads : k # g => th'[k] = th[k]
      /\ th'[g].pc = "delete" /\ th'[g].addr = th[g].addr
      /\ th'[g].pool = th[g].pool /\ th'[g].target = th[g].target
  BY GotoFacts DEF RemoveFinalizer, PCs, TInv
<1>4. g \in Containers => Owned(g)' = Owned(g) /\ LocalOK(g)'
  BY <1>1, <1>2, <1>3 DEF Owned, Releasing, LocalOK, NoInfo
<1>5. LockOK(g)' /\ TargetOK(g)' /\ EmptiesOK(g)' /\ BootInfoOK'
  BY <1>1, <1>2, <1>3 DEF LockOK, TargetOK, EmptiesOK, BootInfoOK, Empty,
     Holding, Core
<1> QED
  BY <1>1, <1>3, <1>4, <1>5, QuietStep

\* The block is empty and its pool is locked, so nobody owns an address of it
\* and nobody else is about to give it back.
LEMMA DeleteObjectCore ==
  ASSUME TInv, Core, NEW g \in Threads, DeleteObject(g)
  PROVE  Core'
<1> DEFINE b == th[g].target
           p == th[g].pool
<1>1. UNCHANGED <<mode, info, veth, failed>> /\ th[g].pc = "delete"
      /\ alloc' = [alloc EXCEPT ![b] = None]
  BY DEF DeleteObject, forget, proc, kernel
<1>2. LockOK(g) /\ TargetOK(g) /\ EmptiesOK(g) /\ (g \in Containers => LocalOK(g))
  BY DEF Core
<1>3. p \in Pools /\ pmu[p] = g /\ b \in Blocks /\ PoolOf[b] = p /\ isEmpty(alloc[b])
  BY <1>1, <1>2 DEF LockOK, TargetOK, Empty, Holding
<1>4. alloc'[b] = None /\ \A d \in Blocks : d # b => alloc'[d] = alloc[d]
  BY <1>1, <1>3 DEF TInv, TypeTab
<1>5. /\ \A k \in Threads : k # g => th'[k] = th[k]
      /\ g = GC => /\ th'[g].pc = "gcBlocks" /\ th'[g].pool = p
                   /\ empties' = empties \ {b} /\ UNCHANGED pmu
      /\ g # GC => /\ th'[g].pc = "list" /\ th'[g].addr = None
                   /\ empties' = empties /\ pmu' = [pmu EXCEPT ![p] = None]
  <2>1. CASE g = GC
    <3>1. th' = [th EXCEPT ![g].pc = "gcBlocks", ![g].target = None]
          /\ empties' = empties \ {b} /\ UNCHANGED pmu
      BY <2>1 DEF DeleteObject
    <3>2. th[g] \in Thread /\ th \in [Threads -> Thread]
      BY DEF TInv, TypeTh
    <3> DEFINE r == [th[g] EXCEPT !.pc = "gcBlocks", !.target = None]
    <3>3. r \in Thread /\ r.pc = "gcBlocks" /\ r.pool = p
      BY <3>2 DEF Thread, PCs, Orphan
    <3>4. th' = [th EXCEPT ![g] = r]
      BY <3>1, <3>2
    <3> HIDE DEF r
    <3>5. th'[g] = r /\ \A k \in Threads : k # g => th'[k] = th[k]
      BY <3>3, <3>4, SetFacts DEF TInv
    <3> QED
      BY <2>1, <3>1, <3>3, <3>5
  <2>2. CASE g # GC
    <3>1. th' = [th EXCEPT ![g] = [idle EXCEPT !.pc = "list"]]
          /\ empties' = empties /\ pmu' = [pmu EXCEPT ![p] = None]
      BY <2>2 DEF DeleteObject, Unlock
    <3>2. PICK r \in Thread : r = [idle EXCEPT !.pc = "list"]
                              /\ r.pc = "list" /\ r.addr = None
      BY IdleTyped DEF idle, PCs
    <3>3. th' = [th EXCEPT ![g] = r]
      BY <3>1, <3>2
    <3>4. th'[g] = r /\ \A k \in Threads : k # g => th'[k] = th[k]
      BY <3>3, SetFacts DEF TInv
    <3> QED
      BY <2>2, <3>1, <3>2, <3>4
  <2> QED
    BY <2>1, <2>2
<1>6. Leaves(g)
  <2>1. \A k \in Threads : \A q \in Pools : k # g /\ pmu[q] = k => pmu'[q] = k
    BY <1>3, <1>5 DEF TInv, TypeMem
  <2> QED
    BY <1>1, <1>3, <1>4, <1>5, <2>1 DEF Leaves
<1>7. g \in Containers => Owned(g)' = Owned(g) /\ LocalOK(g)'
  BY <1>1, <1>2, <1>5, ThreadNames DEF Owned, Releasing, LocalOK, NoInfo
<1>8. own' = own
  BY <1>6, <1>7, OwnStep
<1>9. Books'
  <2>1. own \in [Containers -> Orphan(Addr)]
    BY OwnTyped
  <2>2. Held(own, alloc) /\ Unique(own) /\ alloc \in [Blocks -> Orphan(AllocatorState)]
    BY DEF Core, Books, TInv, TypeTab
  <2>3. Held(own, alloc') /\ (NoLeak(own, alloc) => NoLeak(own, alloc'))
    BY <1>3, <1>4, <2>1, <2>2, BooksForget
  <2> QED
    BY <1>1, <1>8, <2>2, <2>3, BooksMoved
<1>10. LockOK(g)' /\ TargetOK(g)' /\ BootInfoOK'
  BY <1>1, <1>3, <1>5 DEF LockOK, TargetOK, BootInfoOK, Holding, Core
<1>11. EmptiesOK(g)'
  BY <1>1, <1>2, <1>4, <1>5 DEF EmptiesOK, Empty
<1> QED
  BY <1>6, <1>7, <1>9, <1>10, <1>11, CoreStep

\* The list of nodeIPAM.sync touches no address.
LEMMA SyncListCore ==
  ASSUME TInv, Core, NEW g \in Threads, SyncList(g)
  PROVE  Core'
<1>1. UNCHANGED <<mode, pmu, alloc, info, empties, veth, failed>> /\ th[g].pc = "list"
  BY DEF SyncList, world, proc, locks, known, gcv, kernel
<1>2. g \in Containers => LocalOK(g)
  BY DEF Core
<1>3. /\ \A k \in Threads : k # g => th'[k] = th[k]
      /\ th'[g].pc = "export" /\ th'[g].addr = th[g].addr
  <2>1. th' = [th EXCEPT ![g].pc = "export", ![g].snap = Mine]
    BY DEF SyncList
  <2>2. th[g] \in Thread /\ th \in [Threads -> Thread] /\ Mine \subseteq Blocks
    BY DEF TInv, TypeTh, Mine
  <2> DEFINE r == [th[g] EXCEPT !.pc = "export", !.snap = Mine]
  <2>3. r \in Thread /\ r.pc = "export" /\ r.addr = th[g].addr
    BY <2>2 DEF Thread, PCs
  <2>4. th' = [th EXCEPT ![g] = r]
    BY <2>1, <2>2
  <2> HIDE DEF r
  <2> QED
    BY <2>3, <2>4, SetFacts DEF TInv
<1>4. g \in Containers => Owned(g)' = Owned(g) /\ LocalOK(g)'
  BY <1>1, <1>2, <1>3 DEF Owned, Releasing, LocalOK, NoInfo
<1>5. LockOK(g)' /\ TargetOK(g)' /\ EmptiesOK(g)' /\ BootInfoOK'
  BY <1>1, <1>3 DEF LockOK, TargetOK, EmptiesOK, BootInfoOK, Holding, Core
<1> QED
  BY <1>1, <1>3, <1>4, <1>5, QuietStep

\* The garbage collector returns, with or without an error.
LEMMA EndGCCore ==
  ASSUME TInv, TInv', Core, NEW ok, EndGC(ok), failed \subseteq failed',
         UNCHANGED veth
  PROVE  Core'
<1>1. CASE Restart(Attached)
  BY <1>1, RestartCore
<1>2. CASE /\ mode' = "up"
           /\ pmu' = [p \in Pools |-> IF pmu[p] = GC THEN None ELSE pmu[p]]
           /\ Return(GC) /\ empties' = {}
           /\ UNCHANGED <<known, info>>
  <2>1. th'[GC].pc = "idle" /\ (\A k \in Threads : k # GC => th'[k] = th[k])
    BY <1>2, ReturnFacts, IdleTyped, ThreadNames DEF TInv
  <2>2. UNCHANGED <<alloc, info>>
    BY <1>2 DEF known
  <2>3. Leaves(GC)
    BY <1>2, <2>1, <2>2 DEF Leaves
  <2>4. LockOK(GC)' /\ TargetOK(GC)' /\ EmptiesOK(GC)' /\ BootInfoOK'
    BY <1>2, <2>1 DEF LockOK, TargetOK, EmptiesOK, BootInfoOK, Holding
  <2>5. Books'
    BY <2>2, <2>3, OwnStep, BooksKept, ThreadNames
  <2> QED
    BY <2>3, <2>4, <2>5, CoreStep, ThreadNames
<1> QED
  BY <1>1, <1>2 DEF EndGC

\* After the export Allocate stores the address it had in hand, and Free
\* forgets the one it has cleared: the owner is the same as before.
LEMMA SyncExportCore ==
  ASSUME TInv, TInv', Core, NEW g \in Threads, SyncExport(g)
  PROVE  Core'
<1>1. UNCHANGED <<veth, failed>> /\ th[g].pc = "export"
  BY DEF SyncExport
<1>2. CASE g = GC
  BY <1>1, <1>2, EndGCCore DEF SyncExport
<1>3. CASE g # GC
  <2>1. g \in Containers /\ LocalOK(g) /\ mode = "up"
    BY <1>1, <1>3 DEF Core, Threads, TInv, BootOK, TypeMem
  <2>2. UNCHANGED <<mode, pmu, alloc, empties>> /\ info' = [info EXCEPT ![g] = th[g].addr]
    BY <1>3 DEF SyncExport, proc, locks, known, gcv
  <2>3. PICK r \in Thread : /\ th' = [th EXCEPT ![g] = r]
                            /\ r.pc \in {"idle", "setup"} /\ r.addr = None
    <3>1. th' = [th EXCEPT ![g] = IF th[g].addr = None THEN idle
                                  ELSE [idle EXCEPT !.pc = "setup"]]
      BY <1>3 DEF SyncExport
    <3>2. [idle EXCEPT !.pc = "setup"] \in Thread
          /\ [idle EXCEPT !.pc = "setup"].pc = "setup"
          /\ [idle EXCEPT !.pc = "setup"].addr = None
      BY IdleTyped DEF idle, PCs
    <3> QED
      BY <3>1, <3>2, IdleTyped
  <2>4. /\ \A k \in Threads : k # g => th'[k] = th[k]
        /\ th'[g].pc \in {"idle", "setup"} /\ th'[g].addr = None
    BY <2>3, SetFacts DEF TInv
  <2>5. info'[g] = th[g].addr /\ \A c \in Containers : c # g => info'[c] = info[c]
    BY <2>1, <2>2 DEF TInv, TypeTab
  <2>6. Leaves(g)
    BY <1>3, <2>2, <2>4, <2>5 DEF Leaves
  <2>7. Owned(g)' = Owned(g) /\ LocalOK(g)'
    BY <1>1, <2>1, <2>4, <2>5 DEF Owned, Releasing, LocalOK, NoInfo
  <2>8. LockOK(g)' /\ TargetOK(g)' /\ EmptiesOK(g)' /\ BootInfoOK'
    BY <2>1, <2>2, <2>4 DEF LockOK, TargetOK, EmptiesOK, BootInfoOK, Holding
  <2>9. Books'
    BY <1>1, <2>2, <2>6, <2>7, OwnStep, BooksKept
  <2> QED
    BY <2>6, <2>7, <2>8, <2>9, CoreStep
<1> QED
  BY <1>2, <1>3

\* A failed call of Allocate leaks the address it had picked ("addSync"); one
\* of Free leaves HalfFreed.
LEMMA BlockStepFailsCore ==
  ASSUME TInv, TInv', Core, NEW g \in Threads, BlockStepFails(g)
  PROVE  HalfFreed' \/ Core'
<1>1. UNCHANGED veth /\ failed \subseteq failed' /\ ErrorReturn(g)
      /\ th[g].pc \in {"rmFin", "delete", "list", "export"}
  BY DEF BlockStepFails, Fails
<1>2. CASE g = GC
  BY <1>1, <1>2, EndGCCore DEF ErrorReturn
<1>3. CASE g # GC /\ th[g].addr = None
  <2>1. failed' \cap {"fin", "delete", "freeSync"} # {}
    BY <1>3 DEF BlockStepFails, Fails, SyncKind, Recorded
  <2> QED
    BY <2>1 DEF HalfFreed
<1>4. CASE g # GC /\ th[g].addr # None
  <2>1. g \in Containers /\ LocalOK(g) /\ mode = "up"
    BY <1>1, <1>4 DEF Core, Threads, TInv, BootOK, TypeMem
  <2>2. th[g].pc \in {"list", "export"} /\ info[g] = None
    BY <1>4, <2>1 DEF LocalOK
  <2>3. "addSync" \in failed'
    BY <1>4, <2>2 DEF BlockStepFails, Fails, SyncKind, Recorded
  <2>4. UNCHANGED <<mode, alloc, info, empties>> /\ Return(g)
        /\ pmu' = [p \in Pools |-> IF pmu[p] = g THEN None ELSE pmu[p]]
    BY <1>1, <1>4 DEF ErrorReturn, proc, known, gcv
  <2>5. /\ \A k \in Threads : k # g => th'[k] = th[k]
        /\ th'[g].pc = "idle" /\ th'[g].addr = None
    BY <2>4, ReturnFacts, IdleTyped DEF TInv
  <2>6. Leaves(g)
    BY <2>4, <2>5 DEF Leaves
  <2>7. Owned(g)' = None /\ LocalOK(g)'
    BY <2>2, <2>4, <2>5 DEF Owned, Releasing, LocalOK, NoInfo
  <2>8. LockOK(g)' /\ TargetOK(g)' /\ EmptiesOK(g)' /\ BootInfoOK'
    BY <2>1, <2>4, <2>5 DEF LockOK, TargetOK, EmptiesOK, BootInfoOK, Holding
  <2>9. Books'
    <3>1. \A c \in Containers : own'[c] \in {None, own[c]}
      BY <2>1, <2>6, <2>7, OwnStep
    <3>2. Held(own, alloc) /\ Unique(own)
      BY DEF Core, Books
    <3>3. Held(own', alloc) /\ Unique(own')
      BY <3>1, <3>2, BooksLose
    <3>4. Held(own', alloc')
      BY <2>4, <3>3
    <3> QED
      BY <2>3, <3>3, <3>4 DEF Books, Held, Unique
  <2> QED
    BY <2>6, <2>7, <2>8, <2>9, CoreStep
<1> QED
  BY <1>2, <1>3, <1>4

-----------------------------------------------------------------------------
(* Start-up and nodeIPAM.GC *)

\* The veths are routed to different addresses, so a container registers an
\* address that no other has registered.
LEMMA RegisterCore ==
  ASSUME TInv, Core, VethOK, NEW c \in Containers, Register(c)
  PROVE  Core'
<1> DEFINE x == veth[c]
           p == PoolOf[x.b]
           synced == IF p \in pools THEN alloc ELSE syncBlock(p)
<1>1. /\ UNCHANGED <<mode, pmu, th, empties, veth, failed>>
      /\ mode = "boot" /\ c \in boot
  BY DEF Register, locks, gcv, kernel
<1>2. x \in Addr /\ x # None /\ th[GC].pc = "idle"
      /\ \A d \in Containers : th[d].pc = "idle" /\ th[d].addr = None
  BY <1>1 DEF TInv, BootOK, Attached, TypeTab, Orphan, Core, LocalOK
<1>3. \A d \in Containers : info[d] \in {None, veth[d]} /\ Owned(d) = info[d]
  BY <1>1, <1>2 DEF Core, BootInfoOK, Owned, Releasing
<1>4. \A b \in Blocks :
         synced[b] = alloc[b] \/ (alloc[b] = None /\ synced[b] = newBlock(b))
  BY DEF syncBlock
<1>5. synced \in [Blocks -> Orphan(AllocatorState)]
  BY syncBlockTyped DEF TInv, TypeTab
<1>6. \/ /\ synced[x.b] # None
         /\ alloc' = [synced EXCEPT ![x.b] = register(synced[x.b], x.i)]
         /\ info' = [info EXCEPT ![c] = x]
      \/ alloc' = synced /\ UNCHANGED info
  BY DEF Register
<1> HIDE DEF synced
<1>7. \A g \in Threads : LockOK(g)' /\ TargetOK(g)' /\ EmptiesOK(g)'
  <2>1. \A g \in Threads : th'[g].pc = "idle"
    BY <1>1, <1>2 DEF Threads
  <2> QED
    BY <2>1 DEF LockOK, TargetOK, EmptiesOK, Holding
<1>8. \A d \in Containers : LocalOK(d)'
  BY <1>1, <1>2 DEF LocalOK, NoInfo
<1>9. \A d \in Containers : Owned(d)' = info'[d]
  BY <1>1, <1>2 DEF Owned, Releasing
<1>10. BootInfoOK' /\ (\A d \in Containers : d # c => info'[d] = info[d])
  BY <1>1, <1>3, <1>6 DEF BootInfoOK, TInv, TypeTab
<1>11. /\ own \in [Containers -> Orphan(Addr)]
       /\ \A d \in Containers : own[d] = info[d] /\ own'[d] = info'[d]
  BY <1>3, <1>9, OwnTyped DEF own
<1>12. /\ Held(own, synced) /\ Unique(own)
       /\ NoLeak(own, alloc) => NoLeak(own, synced)
  BY <1>4, <1>11, BooksSync DEF Core, Books
<1>13. Books'
  <2>1. CASE alloc' = synced /\ UNCHANGED info
    <3>1. own' = own
      BY <1>3, <1>9, <2>1 DEF own
    <3> QED
      BY <1>1, <1>4, <2>1, <3>1, BooksKept
  <2>2. CASE /\ synced[x.b] # None
             /\ alloc' = [synced EXCEPT ![x.b] = register(synced[x.b], x.i)]
             /\ info' = [info EXCEPT ![c] = x]
    <3>1. own[c] \in {None, x} /\ own'[c] = x
          /\ (\A d \in Containers : d # c => own'[d] = own[d])
      BY <1>3, <1>10, <1>11, <2>2 DEF TInv, TypeTab
    <3>2. \A d \in Containers : d # c => own[d] # x
      BY <1>2, <1>3, <1>11 DEF VethOK
    <3>3. x.b \in Blocks
      BY <1>2 DEF Addr
    <3>4. /\ alloc'[x.b] = register(synced[x.b], x.i)
          /\ \A d \in Blocks : d # x.b => alloc'[d] = synced[d]
      BY <1>5, <2>2, <3>3
    <3>5. /\ Held(own', alloc') /\ Unique(own')
          /\ NoLeak(own, synced) => NoLeak(own', alloc')
      <4>1. x \in Addr /\ synced[x.b] # None
        BY <1>2, <2>2
      <4>2. own \in [Containers -> Orphan(Addr)] /\ Held(own, synced) /\ Unique(own)
        BY <1>11, <1>12
      <4> HIDE DEF x
      <4> QED
        BY <1>5, <3>1, <3>2, <3>4, <4>1, <4>2, BooksRegister
    <3> QED
      BY <1>1, <1>12, <3>5, BooksMoved
  <2> QED
    BY <1>6, <2>1, <2>2
<1> QED
  BY <1>7, <1>8, <1>10, <1>13 DEF Core

\* BeginGC, ScanPools, GCLock and GCPoolsDone only move the collector.
LEMMA GCMovesCore ==
  ASSUME TInv, Core, BeginGC \/ ScanPools \/ GCLock \/ GCPoolsDone
  PROVE  Core'
<1>1. UNCHANGED <<mode, pmu, alloc, info, empties, veth, failed>>
  BY DEF BeginGC, ScanPools, GCLock, GCPoolsDone, world, proc, locks, known,
     gcv, kernel
<1>2. /\ \A k \in Threads : k # GC => th'[k] = th[k]
      /\ th'[GC].pc \in {"scan", "getPools", "gcPool", "list"}
  BY GotoFacts, ThreadNames DEF BeginGC, ScanPools, GCLock, GCPoolsDone, PCs,
     TInv
<1>3. LockOK(GC)' /\ TargetOK(GC)' /\ EmptiesOK(GC)' /\ BootInfoOK'
  BY <1>1, <1>2 DEF LockOK, TargetOK, EmptiesOK, BootInfoOK, Holding, Core
<1> QED
  BY <1>1, <1>2, <1>3, QuietStep, ThreadNames

\* getPool called by GC learns blocks.
LEMMA GCGetPoolCore ==
  ASSUME TInv, Core, NEW p \in Pools, GCGetPool(p)
  PROVE  Core'
<1>1. UNCHANGED <<mode, pmu, info, th, empties, veth, failed>>
      /\ th[GC].pc = "getPools"
  BY DEF GCGetPool, world, proc, locks, kernel
<1>2. \A b \in Blocks :
         alloc'[b] = alloc[b] \/ (alloc[b] = None /\ alloc'[b] = newBlock(b))
  BY DEF GCGetPool, getPool, syncBlock
<1>3. Leaves(GC)
  BY <1>1, <1>2 DEF Leaves
<1>4. LockOK(GC)' /\ TargetOK(GC)' /\ EmptiesOK(GC)' /\ BootInfoOK'
  BY <1>1 DEF LockOK, TargetOK, EmptiesOK, BootInfoOK, Holding, Core
<1>5. Books'
  BY <1>1, <1>2, <1>3, OwnStep, BooksKept, ThreadNames
<1> QED
  BY <1>3, <1>4, <1>5, CoreStep, ThreadNames

\* nodePool.gc takes p.mu and finds the empty blocks.
LEMMA GCPoolCore ==
  ASSUME TInv, Core, NEW p \in Pools, GCPool(p)
  PROVE  Core'
<1> DEFINE synced == syncBlock(p)
<1>1. /\ UNCHANGED <<mode, info, veth, failed>>
      /\ pmu[p] = None /\ pmu' = [pmu EXCEPT ![p] = GC]
      /\ alloc' = synced /\ empties' = emptyBlocks(p, synced)
  BY DEF GCPool, world, proc, kernel
<1>2. \A b \in Blocks :
         alloc'[b] = alloc[b] \/ (alloc[b] = None /\ alloc'[b] = newBlock(b))
  BY <1>1 DEF syncBlock
<1>3. /\ \A k \in Threads : k # GC => th'[k] = th[k]
      /\ th'[GC].pc = "gcBlocks" /\ th'[GC].pool = p
  <2>1. th' = [th EXCEPT ![GC].pc = "gcBlocks", ![GC].pool = p]
    BY DEF GCPool
  <2>2. th[GC] \in Thread /\ th \in [Threads -> Thread]
    BY ThreadNames DEF TInv, TypeTh
  <2> DEFINE r == [th[GC] EXCEPT !.pc = "gcBlocks", !.pool = p]
  <2>3. r \in Thread /\ r.pc = "gcBlocks" /\ r.pool = p
    BY <2>2 DEF Thread, PCs, Orphan
  <2>4. th' = [th EXCEPT ![GC] = r]
    BY <2>1, <2>2, ThreadNames
  <2> HIDE DEF r
  <2> QED
    BY <2>3, <2>4, SetFacts, ThreadNames DEF TInv
<1>4. Leaves(GC)
  <2>1. \A g \in Threads : \A q \in Pools : g # GC /\ pmu[q] = g => pmu'[q] = g
    BY <1>1, ThreadNames DEF TInv, TypeMem
  <2> QED
    BY <1>1, <1>2, <1>3, <2>1 DEF Leaves
<1>5. LockOK(GC)' /\ TargetOK(GC)' /\ BootInfoOK'
  BY <1>1, <1>3 DEF LockOK, TargetOK, BootInfoOK, Holding, Core, TInv, TypeMem
<1>6. EmptiesOK(GC)'
  <2>1. \A b \in empties' : b \in Blocks /\ PoolOf[b] = p /\ alloc'[b] # None
                            /\ isEmpty(alloc'[b])
    BY <1>1 DEF emptyBlocks, InPool
  <2> QED
    BY <1>3, <2>1 DEF EmptiesOK, Empty
<1>7. Books'
  BY <1>1, <1>2, <1>4, OwnStep, BooksKept, ThreadNames
<1> QED
  BY <1>4, <1>5, <1>6, <1>7, CoreStep, ThreadNames

\* The block chosen next is an empty one.
LEMMA GCBlockCore ==
  ASSUME TInv, Core, NEW b \in Blocks, GCBlock(b)
  PROVE  Core'
<1>1. UNCHANGED <<mode, pmu, alloc, info, empties, veth, failed>>
      /\ th[GC].pc = "gcBlocks" /\ b \in empties
  BY DEF GCBlock, world, proc, locks, known, gcv, kernel
<1>2. LockOK(GC) /\ EmptiesOK(GC)
  BY ThreadNames DEF Core
<1>3. /\ \A k \in Threads : k # GC => th'[k] = th[k]
      /\ th'[GC].pc = "rmFin" /\ th'[GC].pool = th[GC].pool /\ th'[GC].target = b
  <2>1. th' = [th EXCEPT ![GC].pc = "rmFin", ![GC].target = b]
    BY DEF GCBlock
  <2>2. th[GC] \in Thread /\ th \in [Threads -> Thread]
    BY ThreadNames DEF TInv, TypeTh
  <2> DEFINE r == [th[GC] EXCEPT !.pc = "rmFin", !.target = b]
  <2>3. r \in Thread /\ r.pc = "rmFin" /\ r.pool = th[GC].pool /\ r.target = b
    BY <2>2 DEF Thread, PCs, Orphan
  <2>4. th' = [th EXCEPT ![GC] = r]
    BY <2>1, <2>2, ThreadNames
  <2> HIDE DEF r
  <2> QED
    BY <2>3, <2>4, SetFacts, ThreadNames DEF TInv
<1>4. LockOK(GC)' /\ TargetOK(GC)' /\ EmptiesOK(GC)' /\ BootInfoOK'
  BY <1>1, <1>2, <1>3 DEF LockOK, TargetOK, EmptiesOK, BootInfoOK, Holding, Core,
     Empty
<1> QED
  BY <1>1, <1>3, <1>4, QuietStep, ThreadNames

\* The end of nodePool.gc releases p.mu.
LEMMA GCPoolDoneCore ==
  ASSUME TInv, Core, GCPoolDone
  PROVE  Core'
<1>1. UNCHANGED <<mode, alloc, info, empties, veth, failed>>
      /\ th[GC].pc = "gcBlocks" /\ pmu' = [pmu EXCEPT ![th[GC].pool] = None]
  BY DEF GCPoolDone, Unlock, world, proc, known, gcv, kernel
<1>2. th[GC].pool \in Pools /\ pmu[th[GC].pool] = GC
  BY <1>1, ThreadNames DEF Core, LockOK, Holding
<1>3. /\ \A k \in Threads : k # GC => th'[k] = th[k]
      /\ th'[GC].pc = "gcPool"
  <2>1. th' = [th EXCEPT ![GC].pc = "gcPool", ![GC].pool = None]
    BY DEF GCPoolDone
  <2>2. th[GC] \in Thread /\ th \in [Threads -> Thread]
    BY ThreadNames DEF TInv, TypeTh
  <2> DEFINE r == [th[GC] EXCEPT !.pc = "gcPool", !.pool = None]
  <2>3. r \in Thread /\ r.pc = "gcPool"
    BY <2>2 DEF Thread, PCs, Orphan
  <2>4. th' = [th EXCEPT ![GC] = r]
    BY <2>1, <2>2, ThreadNames
  <2> HIDE DEF r
  <2> QED
    BY <2>3, <2>4, SetFacts, ThreadNames DEF TInv
<1>4. Leaves(GC)
  BY <1>1, <1>2, <1>3, ThreadNames DEF Leaves, TInv, TypeMem
<1>5. LockOK(GC)' /\ TargetOK(GC)' /\ EmptiesOK(GC)' /\ BootInfoOK'
  BY <1>1, <1>3 DEF LockOK, TargetOK, EmptiesOK, BootInfoOK, Holding, Core
<1>6. Books'
  BY <1>1, <1>4, OwnStep, BooksKept, ThreadNames
<1> QED
  BY <1>4, <1>5, <1>6, CoreStep, ThreadNames

-----------------------------------------------------------------------------
(* The watcher and the rest of the cluster *)

\* The receiver gets a block of its pool.
LEMMA NotifySendCore ==
  ASSUME TInv, RequestsOK, Core, NotifySend
  PROVE  Core'
<1>1. UNCHANGED <<mode, pmu, alloc, info, empties, veth, failed>>
  BY DEF NotifySend, proc, locks, known, gcv, kernel
<1>2. CASE UNCHANGED th
  BY <1>1, <1>2, UntouchedStep
<1>3. ASSUME NEW c \in Waiters(notifying.pool),
             th' = [th EXCEPT ![c].pc = "got", ![c].got = notifying.req.res]
      PROVE  Core'
  <2>1. c \in Containers /\ c \in Threads /\ c # GC /\ th[c].pc = "wait"
        /\ th[c].pool = notifying.pool
    BY ThreadNames DEF Waiters
  <2>2. th[c] \in Thread /\ th \in [Threads -> Thread] /\ notifying.req.res \in Answer
    BY <2>1 DEF TInv, TypeTh, NotifySend, TypeApi, Orphan
  <2> DEFINE r == [th[c] EXCEPT !.pc = "got", !.got = notifying.req.res]
  <2>3. r \in Thread /\ r.pc = "got" /\ r.pool = th[c].pool /\ r.addr = th[c].addr
        /\ r.got = notifying.req.res
    BY <2>2 DEF Thread, PCs, Orphan
  <2>4. th' = [th EXCEPT ![c] = r]
    BY <1>3, <2>1, <2>2
  <2> HIDE DEF r
  <2>5. /\ \A k \in Threads : k # c => th'[k] = th[k]
        /\ th'[c].pc = "got" /\ th'[c].pool = th[c].pool /\ th'[c].addr = th[c].addr
        /\ th'[c].got = notifying.req.res
    BY <2>1, <2>3, <2>4, SetFacts DEF TInv
  <2>6. LockOK(c) /\ LocalOK(c)
    BY <2>1 DEF Core
  <2>7. th'[c].got \in AnswerFor(th'[c].pool)
    BY <2>1, <2>5 DEF RequestsOK, NotifySend
  <2>8. Owned(c)' = Owned(c) /\ LocalOK(c)'
    BY <1>1, <2>1, <2>5, <2>6, <2>7 DEF Owned, Releasing, LocalOK, NoInfo, AnswerFor,
       InPool
  <2>9. LockOK(c)' /\ TargetOK(c)' /\ EmptiesOK(c)' /\ BootInfoOK'
    BY <1>1, <2>1, <2>5, <2>6 DEF LockOK, TargetOK, EmptiesOK, BootInfoOK, Core,
       Holding
  <2> QED
    BY <1>1, <2>1, <2>5, <2>8, <2>9, QuietStep
<1> QED
  BY <1>2, <1>3 DEF NotifySend

\* The informer and the watcher touch no address.
LEMMA WatchStepCore ==
  ASSUME TInv, RequestsOK, Core, WatchStep
  PROVE  Core'
<1>1. CASE NotifyLookup \/ \E p \in Pools : Observe(p) \/ Reconcile(p)
  <2>1. UNCHANGED <<mode, pmu, alloc, info, th, empties, veth, failed>>
    BY <1>1 DEF NotifyLookup, Observe, Reconcile, proc, locks, known, gcv, kernel
  <2> QED
    BY <2>1, UntouchedStep
<1> QED
  BY <1>1, NotifySendCore DEF WatchStep

\* Crashes empty the books; the rest of the cluster does not touch them.
LEMMA EnvironmentCore ==
  ASSUME TInv, TInv', Core, Environment
  PROVE  Core'
<1>1. CASE Crash \/ Reboot \/ ClearRoutes
  BY <1>1, RestartCore DEF Crash, Reboot, ClearRoutes
<1>2. CASE \/ \E p \in Pools : AnswerRequest(p) \/ RefuseRequest(p)
           \/ \E p \in Pools, b \in Blocks : AssignBlock(p, b)
           \/ \E b \in Blocks : OtherNode(b) \/ UserDelete(b)
  <2>1. UNCHANGED Untouched /\ failed \subseteq failed'
    BY <1>2 DEF AnswerRequest, RefuseRequest, AssignBlock, OtherNode, UserDelete,
       Fails
  <2>2. UNCHANGED <<mode, pmu, alloc, info, th, empties, veth>>
    BY <2>1 DEF Untouched, proc, locks, known, gcv, kernel
  <2> QED
    BY <2>1, <2>2, UntouchedStep
<1> QED
  BY <1>1, <1>2 DEF Environment

-----------------------------------------------------------------------------
(* The parts of the invariant that hold whatever has failed *)

\* A request is answered with a block of its pool, and the answer keeps its
\* pool on the way through the informer to Notify.
LEMMA RequestsKept ==
  ASSUME RequestsOK, UNCHANGED <<req, grant, events, cache, notifying>>
  PROVE  RequestsOK'
BY DEF RequestsOK, RequestFor, AnswerFor, InPool, Orphan

\* A new informer starts from the objects of the API server.
LEMMA RequestsRestart ==
  ASSUME TInv, RequestsOK, NEW keep, Restart(keep), UNCHANGED <<req, grant>>
  PROVE  RequestsOK'
<1>1. \A p \in Pools : events'[p] = <<>> /\ cache'[p] = req[p]
  BY DEF Restart
<1>2. notifying' = None
  BY DEF Restart
<1>3. \A p \in Pools : <<>> \in Seq(Orphan(RequestFor(p)))
  OBVIOUS
<1> QED
  BY <1>1, <1>2, <1>3 DEF RequestsOK, RequestFor, InPool, Orphan

\* A new value of a request fits its pool, in the API and in the queue.
LEMMA SetRequestFits ==
  ASSUME TInv, RequestsOK, NEW p \in Pools, NEW r \in Orphan(RequestFor(p)),
         SetRequest(p, r)
  PROVE  \A q \in Pools : /\ req'[q] \in Orphan(RequestFor(q))
                          /\ events'[q] \in Seq(Orphan(RequestFor(q)))
<1>1. events[p] \in Seq(Orphan(RequestFor(p)))
  BY DEF RequestsOK
<1>2. Append(events[p], r) \in Seq(Orphan(RequestFor(p)))
  BY <1>1
<1> QED
  BY <1>2 DEF RequestsOK, SetRequest, TInv, TypeApi

\* Hence such a change keeps RequestsOK.
LEMMA SetRequestKeeps ==
  ASSUME TInv, RequestsOK, NEW p \in Pools, NEW r \in Orphan(RequestFor(p)),
         SetRequest(p, r), UNCHANGED <<cache, notifying>>,
         \A q \in Pools : grant'[q] \in {None, grant[q]}
  PROVE  RequestsOK'
<1>1. \A q \in Pools : /\ req'[q] \in Orphan(RequestFor(q))
                       /\ events'[q] \in Seq(Orphan(RequestFor(q)))
  BY SetRequestFits
<1> QED
  BY <1>1 DEF RequestsOK, RequestFor, AnswerFor, InPool, Orphan

\* coild deletes its old request and creates a new one.
LEMMA MakeRequestRequests ==
  ASSUME TInv, RequestsOK, NEW c \in Containers,
         DeleteRequest(c) \/ CreateRequest(c)
  PROVE  RequestsOK'
<1>1. th[c].pool \in Pools
  BY DEF TInv, PcOK, DeleteRequest, CreateRequest
<1>2. UNCHANGED <<grant, cache, notifying>>
  BY DEF DeleteRequest, CreateRequest
<1>3. None \in Orphan(RequestFor(th[c].pool))
      /\ [id |-> reqs + 1, res |-> "pending"] \in Orphan(RequestFor(th[c].pool))
  BY DEF TInv, TypeApi, RequestFor, Orphan
<1>4. CASE UNCHANGED <<req, events>>
  BY <1>2, <1>4, RequestsKept
<1>5. CASE SetRequest(th[c].pool, None)
  BY <1>1, <1>2, <1>3, <1>5, SetRequestKeeps
<1>6. CASE SetRequest(th[c].pool, [id |-> reqs + 1, res |-> "pending"])
  BY <1>1, <1>2, <1>3, <1>6, SetRequestKeeps
<1> QED
  BY <1>4, <1>5, <1>6 DEF DeleteRequest, CreateRequest

\* The informer and the watcher pass on what the controller wrote.
LEMMA WatchRequests ==
  ASSUME TInv, RequestsOK, WatchStep
  PROVE  RequestsOK'
<1>1. ASSUME NEW p \in Pools, Observe(p)
      PROVE  RequestsOK'
  <2>1. UNCHANGED <<req, grant, notifying>> /\ events[p] # <<>>
        /\ cache' = [cache EXCEPT ![p] = Head(events[p])]
        /\ events' = [events EXCEPT ![p] = Tail(events[p])]
    BY <1>1 DEF Observe, api
  <2>2. events[p] \in Seq(Orphan(RequestFor(p)))
    BY DEF RequestsOK
  <2>3. /\ Head(events[p]) \in Orphan(RequestFor(p))
        /\ Tail(events[p]) \in Seq(Orphan(RequestFor(p)))
    BY <2>1, <2>2
  <2>4. \A q \in Pools : /\ cache'[q] \in Orphan(RequestFor(q))
                         /\ events'[q] \in Seq(Orphan(RequestFor(q)))
    BY <2>1, <2>3 DEF RequestsOK, TInv, TypeApi
  <2> QED
    BY <2>1, <2>4 DEF RequestsOK, RequestFor, AnswerFor, InPool, Orphan
<1>2. ASSUME NEW p \in Pools, Reconcile(p)
      PROVE  RequestsOK'
  <2>1. UNCHANGED <<req, grant, events, cache>>
        /\ notifying' = IF Completed(cache[p])
                        THEN [pool |-> p, req |-> cache[p], at |-> "lock"]
                        ELSE None
    BY <1>2 DEF Reconcile, api
  <2>2. Completed(cache[p]) => cache[p].res \in AnswerFor(p)
    BY DEF RequestsOK, RequestFor, AnswerFor, Completed, Orphan
  <2>3. notifying' # None => notifying'.req.res \in AnswerFor(notifying'.pool)
    BY <2>1, <2>2
  <2> QED
    BY <2>1, <2>3 DEF RequestsOK, RequestFor, AnswerFor, InPool, Orphan
<1>3. CASE NotifyLookup
  <2>1. UNCHANGED <<req, grant, events, cache>> /\ notifying # None
        /\ (notifying' = None \/ notifying' = [notifying EXCEPT !.at = "send"])
    BY <1>3 DEF NotifyLookup, api
  <2>2. notifying' # None => /\ notifying'.req = notifying.req
                             /\ notifying'.pool = notifying.pool
    BY <2>1 DEF TInv, TypeApi, Orphan
  <2>3. notifying' # None => notifying'.req.res \in AnswerFor(notifying'.pool)
    BY <2>1, <2>2 DEF RequestsOK
  <2> QED
    BY <2>1, <2>3 DEF RequestsOK, RequestFor, AnswerFor, InPool, Orphan
<1>4. CASE NotifySend
  BY <1>4 DEF NotifySend, api, RequestsOK, RequestFor, InPool, Orphan
<1> QED
  BY <1>1, <1>2, <1>3, <1>4 DEF WatchStep

\* The controller makes a block of the pool of the request and answers with
\* it, or refuses.
LEMMA ControllerRequests ==
  ASSUME TInv, RequestsOK, NEW p \in Pools,
         AnswerRequest(p) \/ RefuseRequest(p)
         \/ \E b \in Blocks : AssignBlock(p, b)
  PROVE  RequestsOK'
<1>0. req[p] \in Orphan(RequestFor(p)) /\ grant[p] \in Orphan(RequestFor(p))
  BY DEF RequestsOK
<1>1. CASE AnswerRequest(p)
  <2>1. UNCHANGED <<cache, notifying>> /\ grant' = [grant EXCEPT ![p] = None]
    BY <1>1 DEF AnswerRequest
  <2>2. \A q \in Pools : grant'[q] \in {None, grant[q]}
    BY <2>1 DEF TInv, TypeApi
  <2>3. CASE UNCHANGED <<req, events>>
    BY <2>1, <2>2, <2>3 DEF RequestsOK, RequestFor, AnswerFor, InPool, Orphan
  <2>4. CASE SetRequest(p, grant[p])
    BY <1>0, <2>1, <2>2, <2>4, SetRequestKeeps
  <2> QED
    BY <1>1, <2>3, <2>4 DEF AnswerRequest
<1>2. CASE RefuseRequest(p)
  <2>1. UNCHANGED <<grant, cache, notifying>> /\ req[p] # None
        /\ SetRequest(p, [req[p] EXCEPT !.res = "failed"])
    BY <1>2 DEF RefuseRequest
  <2>2. [req[p] EXCEPT !.res = "failed"] \in Orphan(RequestFor(p))
    BY <1>0, <2>1 DEF RequestFor, Orphan
  <2> QED
    BY <2>1, <2>2, SetRequestKeeps
<1>3. ASSUME NEW b \in Blocks, AssignBlock(p, b)
      PROVE  RequestsOK'
  <2>1. UNCHANGED <<req, events, cache, notifying>> /\ req[p] # None
        /\ b \in InPool(p)
        /\ grant' = [grant EXCEPT ![p] = [id |-> req[p].id, res |-> b]]
    BY <1>3 DEF AssignBlock, watch
  <2>2. [id |-> req[p].id, res |-> b] \in Orphan(RequestFor(p))
    BY <1>0, <2>1 DEF RequestFor, Orphan
  <2>3. \A q \in Pools : grant'[q] \in Orphan(RequestFor(q))
    BY <2>1, <2>2 DEF RequestsOK, TInv, TypeApi
  <2> QED
    BY <2>1, <2>3 DEF RequestsOK, RequestFor, AnswerFor, InPool, Orphan
<1> QED
  BY <1>1, <1>2, <1>3

\* The collector leaves the requests alone, or the process restarts.
LEMMA EndGCRequests ==
  ASSUME TInv, RequestsOK, NEW ok, EndGC(ok), UNCHANGED <<req, grant>>
  PROVE  RequestsOK'
<1>1. CASE Restart(Attached)
  BY <1>1, RequestsRestart
<1>2. CASE UNCHANGED watch
  BY <1>2, RequestsKept DEF watch
<1> QED
  BY <1>1, <1>2 DEF EndGC

\* Nothing else touches a request.
LEMMA NextRequests ==
  ASSUME TInv, RequestsOK, [Next]_vars
  PROVE  RequestsOK'
<1>1. ASSUME NEW c \in Containers, BeginAdd(c) \/ BeginDel(c) \/ FreeUnknown(c) \/ Free(c)
      PROVE  RequestsOK'
  BY <1>1, RequestsKept DEF BeginAdd, BeginDel, FreeUnknown, Free, world, api, watch
<1>2. ASSUME NEW c \in Containers,
             \/ GetPool(c) \/ GetPoolFails(c) \/ AllocateKnown(c)
             \/ AllocateFull(c) \/ EnterSelect(c) \/ ResultAllocate(c)
             \/ AllocateFails(c) \/ SetupIPAM(c) \/ SetupIPAMFails(c)
      PROVE  RequestsOK'
  BY <1>2, RequestsKept DEF GetPool, GetPoolFails, AllocateKnown, AllocateFull,
     EnterSelect, ResultAllocate, AllocateFails, SetupIPAM, SetupIPAMFails, world,
     api, watch
<1>3. ASSUME NEW site, Panic(site)
      PROVE  RequestsOK'
  BY <1>3, RequestsRestart DEF Panic, api
<1>4. ASSUME NEW g \in Threads, RemoveFinalizer(g) \/ DeleteObject(g) \/ SyncList(g)
      PROVE  RequestsOK'
  BY <1>4, RequestsKept DEF RemoveFinalizer, DeleteObject, SyncList, world, api, watch
<1>5. ASSUME NEW g \in Threads, SyncExport(g) \/ BlockStepFails(g)
      PROVE  RequestsOK'
  <2>1. UNCHANGED <<req, grant>>
    BY <1>5 DEF SyncExport, BlockStepFails, api
  <2>2. (\E ok : EndGC(ok)) \/ UNCHANGED watch
    BY <1>5 DEF SyncExport, BlockStepFails, ErrorReturn
  <2> QED
    BY <2>1, <2>2, EndGCRequests, RequestsKept DEF watch
<1>6. CASE BeginGC \/ ScanPools \/ GCLock \/ GCPoolDone \/ GCPoolsDone
  BY <1>6, RequestsKept DEF BeginGC, ScanPools, GCLock, GCPoolDone, GCPoolsDone,
     world, api, watch
<1>7. CASE GCListFails
  BY <1>7, EndGCRequests DEF GCListFails, api
<1>8. CASE \/ \E p \in Pools : GCGetPool(p) \/ GCPool(p)
           \/ \E b \in Blocks : GCBlock(b)
  BY <1>8, RequestsKept DEF GCGetPool, GCPool, GCBlock, world, api, watch
<1>9. CASE RegisterFails \/ Crash \/ Reboot \/ ClearRoutes
  BY <1>9, RequestsRestart DEF RegisterFails, Crash, Reboot, ClearRoutes, api
<1>10. ASSUME NEW c \in Containers, Register(c)
       PROVE  RequestsOK'
  BY <1>10, RequestsKept DEF Register, api, watch
<1>11. CASE \E b \in Blocks : OtherNode(b) \/ UserDelete(b)
  BY <1>11, RequestsKept DEF OtherNode, UserDelete, watch
<1>12. CASE UNCHANGED vars
  BY <1>12, RequestsKept DEF vars, api, watch
<1>13. ASSUME NEW c \in Containers, AddStep(c) \/ FreeStep(c)
       PROVE  RequestsOK'
  BY <1>1, <1>2, <1>3, <1>13, MakeRequestRequests
     DEF AddStep, FreeStep, ResultPanics, FreePanics
<1>14. ASSUME NEW g \in Threads, BlockStep(g)
       PROVE  RequestsOK'
  BY <1>4, <1>5, <1>14 DEF BlockStep
<1>15. CASE GCStep
  BY <1>6, <1>7, <1>8, <1>15 DEF GCStep
<1>16. CASE Environment
  BY <1>9, <1>11, <1>16, ControllerRequests DEF Environment
<1> QED
  BY <1>1, <1>6, <1>9, <1>10, <1>12, <1>13, <1>14, <1>15, <1>16, WatchRequests
     DEF Next, BootStep

\* A fault that has happened stays recorded.
LEMMA FailedGrows ==
  ASSUME [Next]_vars
  PROVE  failed \subseteq failed'
<1>1. ASSUME NEW c \in Containers, BeginAdd(c) \/ BeginDel(c) \/ AddStep(c) \/ FreeStep(c)
      PROVE  failed \subseteq failed'
  BY <1>1 DEF BeginAdd, BeginDel, AddStep, FreeStep, GetPool, GetPoolFails,
     AllocateKnown, AllocateFull, DeleteRequest, CreateRequest, EnterSelect,
     ResultAllocate, ResultPanics, AllocateFails, SetupIPAM, SetupIPAMFails,
     FreeUnknown, Free, FreePanics, Panic, Fails
<1>2. ASSUME NEW g \in Threads, BlockStep(g)
      PROVE  failed \subseteq failed'
  BY <1>2 DEF BlockStep, RemoveFinalizer, DeleteObject, SyncList, SyncExport,
     BlockStepFails, Fails
<1>3. CASE BeginGC \/ GCStep \/ BootStep \/ WatchStep
  BY <1>3 DEF BeginGC, GCStep, BootStep, WatchStep, ScanPools, GCListFails,
     GCLock, GCPoolDone, GCPoolsDone, GCGetPool, GCPool, GCBlock, RegisterFails,
     Register, NotifyLookup, NotifySend, Observe, Reconcile, Fails
<1>4. CASE Environment
  BY <1>4 DEF Environment, Crash, Reboot, ClearRoutes, AnswerRequest,
     RefuseRequest, AssignBlock, OtherNode, UserDelete, Fails
<1>5. CASE UNCHANGED vars
  BY <1>5 DEF vars
<1> QED
  BY <1>1, <1>2, <1>3, <1>4, <1>5 DEF Next

\* The kernel keeps one route per address: SetupIPAM is refused otherwise.
LEMMA VethKept ==
  ASSUME TInv, VethOK, [Next]_vars
  PROVE  VethOK'
<1>0. veth \in [Containers -> Orphan(Addr)]
  BY DEF TInv, TypeTab
<1>1. ASSUME UNCHANGED veth
      PROVE  VethOK'
  BY <1>1 DEF VethOK
<1>2. ASSUME NEW c \in Containers, SetupIPAM(c)
      PROVE  VethOK'
  BY <1>0, <1>2 DEF SetupIPAM, VethOK
<1>3. ASSUME NEW c \in Containers, BeginDel(c)
      PROVE  VethOK'
  BY <1>0, <1>3 DEF BeginDel, Destroy, VethOK
<1>4. ASSUME Reboot
      PROVE  VethOK'
  BY <1>4 DEF Reboot, VethOK
<1>5. ASSUME NEW c \in Containers, BeginAdd(c) \/ AddStep(c) \/ FreeStep(c)
      PROVE  SetupIPAM(c) \/ UNCHANGED veth
  BY <1>5 DEF BeginAdd, AddStep, FreeStep, GetPool, GetPoolFails,
     AllocateKnown, AllocateFull, DeleteRequest, CreateRequest, EnterSelect,
     ResultAllocate, ResultPanics, AllocateFails, SetupIPAMFails,
     FreeUnknown, Free, FreePanics, Panic, kernel
<1>6. ASSUME NEW g \in Threads, BlockStep(g)
      PROVE  UNCHANGED veth
  BY <1>6 DEF BlockStep, RemoveFinalizer, DeleteObject, SyncList, SyncExport,
     BlockStepFails, kernel
<1>7. ASSUME BeginGC \/ GCStep \/ BootStep \/ WatchStep
      PROVE  UNCHANGED veth
  BY <1>7 DEF BeginGC, GCStep, BootStep, WatchStep, ScanPools, GCListFails,
     GCLock, GCPoolDone, GCPoolsDone, GCGetPool, GCPool, GCBlock, RegisterFails,
     Register, NotifyLookup, NotifySend, Observe, Reconcile, kernel
<1>8. ASSUME Environment
      PROVE  Reboot \/ UNCHANGED veth
  BY <1>8 DEF Environment, Crash, ClearRoutes, AnswerRequest, RefuseRequest,
     AssignBlock, OtherNode, UserDelete, Untouched, kernel
<1>9. ASSUME UNCHANGED vars
      PROVE  UNCHANGED veth
  BY <1>9 DEF vars, kernel
<1> QED
  BY <1>1, <1>2, <1>3, <1>4, <1>5, <1>6, <1>7, <1>8, <1>9 DEF Next

\* Every step keeps Core, or leaves a Free abandoned halfway.
LEMMA NextCore ==
  ASSUME TInv, TInv', RequestsOK, VethOK, Core, [Next]_vars
  PROVE  HalfFreed' \/ Core'
<1>1. ASSUME NEW site, Panic(site)
      PROVE  Core'
  BY <1>1, RestartCore DEF Panic
<1>2. ASSUME NEW c \in Containers, BeginAdd(c) \/ BeginDel(c) \/ FreeStep(c)
      PROVE  Core'
  BY <1>1, <1>2, BeginAddCore, BeginDelCore, FreeCore DEF FreeStep, FreePanics
<1>3. ASSUME NEW c \in Containers, AddStep(c)
      PROVE  Core'
  BY <1>1, <1>3, GetPoolCore, GetPoolFailsCore, AllocateKnownCore,
     AllocateFullCore, RequestStepsCore, ResultAllocateCore, AllocateFailsCore,
     SetupIPAMCore DEF AddStep, ResultPanics
<1>4. ASSUME NEW g \in Threads, BlockStep(g)
      PROVE  HalfFreed' \/ Core'
  BY <1>4, RemoveFinalizerCore, DeleteObjectCore, SyncListCore, SyncExportCore,
     BlockStepFailsCore DEF BlockStep
<1>5. CASE GCListFails
  <2>1. EndGC(FALSE) /\ UNCHANGED veth /\ failed \subseteq failed'
    BY <1>5 DEF GCListFails, Fails, kernel
  <2> QED
    BY <2>1, EndGCCore
<1>6. CASE BeginGC \/ GCStep
  BY <1>5, <1>6, GCMovesCore, GCPoolDoneCore, GCGetPoolCore, GCPoolCore,
     GCBlockCore DEF GCStep
<1>7. CASE BootStep
  BY <1>7, RegisterCore, RestartCore DEF BootStep, RegisterFails
<1>8. CASE UNCHANGED vars
  BY <1>8, UntouchedStep DEF vars, proc, locks, known, gcv, kernel
<1> QED
  BY <1>2, <1>3, <1>4, <1>6, <1>7, <1>8, WatchStepCore, EnvironmentCore DEF Next

\* The panic of nodePool.free: the container owns its address, so its block is
\* known.
LEMMA FreePanicKept ==
  ASSUME TInv, HalfFreed \/ Core, FreePanicsOnlyAfterError, [Next]_vars
  PROVE  FreePanicsOnlyAfterError'
<1>1. HalfFreed => HalfFreed'
  BY FailedGrows DEF HalfFreed
<1>2. ASSUME "free" \in panicked' => "free" \in panicked
      PROVE  FreePanicsOnlyAfterError'
  BY <1>1, <1>2 DEF FreePanicsOnlyAfterError
<1>3. ASSUME NEW c \in Containers, FreePanics(c)
      PROVE  FreePanicsOnlyAfterError'
  <2>1. CASE HalfFreed
    BY <1>1, <2>1 DEF FreePanicsOnlyAfterError
  <2>2. CASE Core
    <3>1. th[c].pc = "free" /\ info[c] # None /\ alloc[info[c].b] = None
      BY <1>3 DEF FreePanics
    <3>2. LocalOK(c) /\ Held(own, alloc)
      BY <2>2 DEF Core, Books
    <3>3. own[c] = info[c]
      BY <3>1, <3>2, OwnTyped DEF LocalOK, Owned, Releasing
    <3> QED
      BY <3>1, <3>2, <3>3 DEF Held
  <2> QED
    BY <2>1, <2>2
<1>4. ASSUME NEW c \in Containers,
             \/ BeginAdd(c) \/ BeginDel(c) \/ AddStep(c)
             \/ FreeUnknown(c) \/ Free(c)
      PROVE  "free" \in panicked' => "free" \in panicked
  <2>1. CASE ResultPanics(c)
    BY <2>1 DEF ResultPanics, Panic
  <2>2. CASE ~ResultPanics(c)
    <3>1. UNCHANGED panicked
      BY <1>4, <2>2 DEF BeginAdd, BeginDel, AddStep, GetPool, GetPoolFails,
         AllocateKnown, AllocateFull, DeleteRequest, CreateRequest, EnterSelect,
         ResultAllocate, AllocateFails, SetupIPAM, SetupIPAMFails, FreeUnknown,
         Free, world
    <3> QED
      BY <3>1
  <2> QED
    BY <2>1, <2>2
<1>5. ASSUME NEW g \in Threads, BlockStep(g)
      PROVE  UNCHANGED panicked
  BY <1>5 DEF BlockStep, RemoveFinalizer, DeleteObject, SyncList, SyncExport,
     BlockStepFails, world
<1>6. ASSUME BeginGC \/ GCStep \/ BootStep \/ WatchStep
      PROVE  UNCHANGED panicked
  BY <1>6 DEF BeginGC, GCStep, BootStep, WatchStep, ScanPools, GCListFails,
     GCLock, GCPoolDone, GCPoolsDone, GCGetPool, GCPool, GCBlock, RegisterFails,
     Register, NotifyLookup, NotifySend, Observe, Reconcile, world
<1>7. ASSUME Environment \/ UNCHANGED vars
      PROVE  UNCHANGED panicked
  BY <1>7 DEF Environment, Crash, Reboot, ClearRoutes, AnswerRequest,
     RefuseRequest, AssignBlock, OtherNode, UserDelete, Untouched, vars
<1> QED
  BY <1>2, <1>3, <1>4, <1>5, <1>6, <1>7 DEF Next, FreeStep

\* The invariant is inductive.
LEMMA InitInvariant == Init => IInv
<1> SUFFICES ASSUME Init
             PROVE  IInv
  OBVIOUS
<1>1. TInv
  BY InitTypes
<1>2. RequestsOK
  <2>1. \A p \in Pools : <<>> \in Seq(Orphan(RequestFor(p)))
    OBVIOUS
  <2> QED
    BY <2>1 DEF Init, RequestsOK, Orphan
<1>3. VethOK /\ FreePanicsOnlyAfterError
  BY DEF Init, VethOK, FreePanicsOnlyAfterError
<1>4. \A g \in Threads : th[g].pc = "idle" /\ th[g].addr = None
  BY IdleTyped DEF Init
<1>5. \A c \in Containers : info[c] = None /\ Owned(c) = None
  BY <1>4, ThreadNames DEF Init, Owned, Releasing
<1>6. \A g \in Threads : LockOK(g) /\ TargetOK(g) /\ EmptiesOK(g)
  BY <1>4 DEF LockOK, TargetOK, EmptiesOK, Holding
<1>7. (\A c \in Containers : LocalOK(c)) /\ BootInfoOK
  BY <1>4, <1>5, ThreadNames DEF LocalOK, NoInfo, BootInfoOK
<1>8. (\A c \in Containers : own[c] = None) /\ (\A b \in Blocks : alloc[b] = None)
  BY <1>5 DEF own, Init
<1>9. Books
  BY <1>8 DEF Books, Held, Unique, NoLeak
<1> QED
  BY <1>1, <1>2, <1>3, <1>6, <1>7, <1>9 DEF IInv, Core

\* Every step keeps the invariant.
LEMMA NextInvariant ==
  ASSUME IInv, [Next]_vars
  PROVE  IInv'
<1>1. TInv /\ RequestsOK /\ VethOK /\ (HalfFreed \/ Core) /\ FreePanicsOnlyAfterError
  BY DEF IInv
<1>2. TInv'
  BY <1>1, NextTypes
<1>3. RequestsOK' /\ VethOK' /\ FreePanicsOnlyAfterError'
  BY <1>1, NextRequests, VethKept, FreePanicKept
<1>4. HalfFreed => HalfFreed'
  BY FailedGrows DEF HalfFreed
<1>5. HalfFreed' \/ Core'
  BY <1>1, <1>2, <1>4, NextCore
<1> QED
  BY <1>2, <1>3, <1>5 DEF IInv

\* What the invariant says of the books is what the two properties state.
LEMMA BooksImply ==
  ASSUME IInv
  PROVE  AddressUnique /\ UsageAccounted
<1>1. TInv /\ (HalfFreed \/ Core)
  BY DEF IInv
<1>2. ASSUME Core
      PROVE  AddressUnique
  <2>1. Unique(own) /\ \A c \in Containers : own[c] = Owned(c)
    BY <1>1, <1>2, OwnTyped DEF Core, Books
  <2> QED
    BY <2>1 DEF AddressUnique, Unique
<1>3. ASSUME Core, "addSync" \notin failed
      PROVE  UsageAccounted
  <2>1. Held(own, alloc) /\ NoLeak(own, alloc)
    BY <1>3 DEF Core, Books
  <2>2. \A c \in Containers : own[c] = Owned(c)
    BY <1>1, OwnTyped
  <2>3. ASSUME NEW b \in Blocks \ Reserved, alloc[b] # None
        PROVE  alloc[b].usage = {i \in Index : \E c \in Containers :
                                    Owned(c) = [b |-> b, i |-> i]}
    <3>1. alloc[b].usage \subseteq Index
      BY <1>1, <2>3 DEF TInv, TypeTab, Orphan, AllocatorState
    <3>2. \A i \in alloc[b].usage : \E c \in Containers :
             Owned(c) = [b |-> b, i |-> i]
      <4>1. \A i \in alloc[b].usage : \E c \in Containers : own[c] = [b |-> b, i |-> i]
        BY <2>1, <2>3 DEF NoLeak
      <4> QED
        BY <2>2, <4>1, Zenon
    <3>3. ASSUME NEW i \in Index, NEW c \in Containers,
                 Owned(c) = [b |-> b, i |-> i]
          PROVE  i \in alloc[b].usage
      <4>1. [b |-> b, i |-> i] # None
        BY ConstantsAssumption
      <4>2. own[c] # None /\ own[c].b = b /\ own[c].i = i
        BY <2>2, <3>3, <4>1
      <4> QED
        BY <2>1, <4>2 DEF Held
    <3> QED
      BY <3>1, <3>2, <3>3
  <2> QED
    BY <2>3 DEF UsageAccounted
<1> QED
  BY <1>1, <1>2, <1>3 DEF AddressUnique, UsageAccounted

-----------------------------------------------------------------------------
(* Addresses that are given again *)

\* Start-up only registers, so until the first call the index given last is
\* in use: a restart does not make a block forget what it should not give.
LastOK ==
    mode = "boot" => \A b \in Blocks :
       alloc[b] # None => alloc[b].last \in alloc[b].usage \cup {-1}

\* A block as it is known, or as it will be when syncBlock finds it.
Before(b) == IF alloc[b] = None THEN newBlock(b) ELSE alloc[b]

\* What a step may do to the allocator of a block.
Moved(b) ==
    \/ alloc'[b] = None
    \/ alloc'[b] = Before(b)
    \/ mode = "up" /\ ~isFull(Before(b)) /\ alloc'[b] = allocate(Before(b))
    \/ mode = "up" /\ \E i \in Index : alloc'[b] = free(Before(b), i)
    \/ mode = "boot" /\ \E i \in Index : alloc'[b] = register(Before(b), i)

\* A step that leaves the allocators alone, or lists a pool, moves none.
LEMMA QuietMoves ==
  ASSUME alloc' = alloc \/ \E p \in Pools : alloc' = syncBlock(p)
  PROVE  \A b \in Blocks : Moved(b)
BY DEF Moved, Before, syncBlock

\* CNI calls run after start-up.
LEMMA CallsAreUp ==
  ASSUME TInv, NEW c \in Containers, th[c].pc # "idle"
  PROVE  mode = "up"
BY DEF TInv, TypeMem, BootOK

\* Restart forgets all blocks.
LEMMA RestartMoves ==
  ASSUME NEW keep, Restart(keep)
  PROVE  \A b \in Blocks : alloc'[b] = None /\ Moved(b)
BY DEF Restart, Moved

\* When gc returns, blocks are as they were, or the process is gone.
LEMMA EndGCMoves ==
  ASSUME NEW ok, EndGC(ok)
  PROVE  /\ \A b \in Blocks : Moved(b)
         /\ mode' = "boot" => \A b \in Blocks : alloc'[b] = None
BY RestartMoves, QuietMoves DEF EndGC, known

\* Allocate and Free move the block of one address.
LEMMA CallMoves ==
  ASSUME TInv, NEW c \in Containers,
         AllocateKnown(c) \/ ResultAllocate(c) \/ Free(c)
  PROVE  /\ \A b \in Blocks : Moved(b)
         /\ mode' = mode
<1>1. mode = "up"
  BY CallsAreUp DEF AllocateKnown, ResultAllocate, Free
<1>2. alloc \in [Blocks -> Orphan(AllocatorState)] /\ info \in [Containers -> Orphan(Addr)]
  BY DEF TInv, TypeTab
<1>3. CASE AllocateKnown(c)
  BY <1>1, <1>2, <1>3 DEF AllocateKnown, HasRoom, InPool, Moved, Before, world, proc
<1>4. CASE ResultAllocate(c)
  <2>1. PICK b : /\ b = th[c].got /\ syncBlock(th[c].pool)[b] # None
                 /\ ~isFull(syncBlock(th[c].pool)[b])
                 /\ alloc' = [syncBlock(th[c].pool) EXCEPT ![b] = allocate(@)]
    BY <1>4 DEF ResultAllocate
  <2>2. \A d \in Blocks : syncBlock(th[c].pool)[d] \in {alloc[d], Before(d)}
    BY DEF syncBlock, Before
  <2>3. syncBlock(th[c].pool) \in [Blocks -> {syncBlock(th[c].pool)[d] : d \in Blocks}]
    BY DEF syncBlock
  <2>4. ASSUME NEW d \in Blocks
        PROVE  Moved(d)
    <3>1. d # b => alloc'[d] = syncBlock(th[c].pool)[d]
      BY <2>1, <2>3
    <3>2. d = b => /\ alloc'[d] = allocate(syncBlock(th[c].pool)[d])
                   /\ syncBlock(th[c].pool)[d] = Before(d)
      BY <2>1, <2>2, <2>3 DEF Before
    <3> QED
      BY <1>1, <2>1, <2>2, <3>1, <3>2 DEF Moved, Before
  <2> QED
    BY <1>4, <2>4 DEF ResultAllocate, world, proc
<1>5. CASE Free(c)
  <2>1. info[c] \in Addr
    BY <1>2, <1>5 DEF Free, Orphan
  <2> QED
    BY <1>1, <1>2, <1>5, <2>1 DEF Free, Moved, Before, Addr, world, proc
<1> QED
  BY <1>3, <1>4, <1>5

\* Register moves the block of one address and only start-up calls it.
LEMMA RegisterMoves ==
  ASSUME TInv, NEW c \in Containers, Register(c)
  PROVE  /\ \A b \in Blocks : Moved(b)
         /\ mode' = mode
<1> DEFINE p == PoolOf[veth[c].b]
           synced == IF p \in pools THEN alloc ELSE syncBlock(p)
<1>1. alloc \in [Blocks -> Orphan(AllocatorState)] /\ veth[c] \in Addr
  BY DEF TInv, TypeTab, BootOK, Attached, Register, Orphan
<1>2. veth[c].b \in Blocks /\ veth[c].i \in Index
  BY <1>1 DEF Addr
<1>3. \A d \in Blocks : synced[d] \in {alloc[d], Before(d)}
  BY DEF syncBlock, Before
<1>4. synced \in [Blocks -> {synced[d] : d \in Blocks}]
  BY <1>1 DEF syncBlock
<1>5. mode = "boot" /\ mode' = mode
  BY DEF Register
<1>6. \/ alloc' = synced
      \/ /\ synced[veth[c].b] # None
         /\ alloc' = [synced EXCEPT ![veth[c].b] = register(@, veth[c].i)]
  BY DEF Register
<1> HIDE DEF synced
<1>7. ASSUME NEW d \in Blocks
      PROVE  Moved(d)
  <2>1. CASE alloc'[d] = synced[d]
    BY <1>3, <2>1 DEF Moved, Before
  <2>2. CASE d = veth[c].b /\ synced[d] # None /\ alloc'[d] = register(synced[d], veth[c].i)
    <3>1. synced[d] = Before(d)
      BY <1>3, <2>2 DEF Before
    <3> QED
      BY <1>2, <1>5, <2>2, <3>1 DEF Moved
  <2> QED
    BY <1>2, <1>4, <1>6, <2>1, <2>2
<1> QED
  BY <1>5, <1>7

\* Every step of coild moves its allocators in one of these ways, and starts
\* over only without any.
LEMMA NextMoves ==
  ASSUME TInv, [Next]_vars
  PROVE  /\ \A b \in Blocks : Moved(b)
         /\ mode' = "boot" => mode = "boot" \/ \A b \in Blocks : alloc'[b] = None
<1> DEFINE Goal == /\ \A b \in Blocks : Moved(b)
                   /\ mode' = "boot" => \/ mode = "boot"
                                        \/ \A b \in Blocks : alloc'[b] = None
<1> SUFFICES Goal
  OBVIOUS
<1>1. ASSUME \E keep : Restart(keep)
      PROVE  Goal
  BY <1>1, RestartMoves
<1>2. ASSUME UNCHANGED <<mode, alloc>>
      PROVE  Goal
  BY <1>2, QuietMoves
<1>3. ASSUME NEW p \in Pools, getPool(p) \/ alloc' = syncBlock(p), UNCHANGED mode
      PROVE  Goal
  BY <1>3, QuietMoves DEF getPool
<1>4. ASSUME \E ok : EndGC(ok)
      PROVE  Goal
  BY <1>4, EndGCMoves
<1> HIDE DEF Goal
<1>5. ASSUME NEW c \in Containers, BeginAdd(c) \/ BeginDel(c) \/ FreeStep(c)
      PROVE  Goal
  <2>1. CASE Free(c)
    BY <2>1, CallMoves DEF Goal
  <2>2. CASE FreePanics(c)
    BY <1>1, <2>2 DEF FreePanics, Panic
  <2>3. CASE BeginAdd(c) \/ BeginDel(c) \/ FreeUnknown(c)
    BY <1>2, <2>3 DEF BeginAdd, BeginDel, FreeUnknown, world, proc, known
  <2> QED
    BY <1>5, <2>1, <2>2, <2>3 DEF FreeStep
<1>6. ASSUME NEW c \in Containers, AddStep(c)
      PROVE  Goal
  <2>1. CASE AllocateKnown(c) \/ ResultAllocate(c)
    BY <2>1, CallMoves DEF Goal
  <2>2. CASE ResultPanics(c)
    BY <1>1, <2>2 DEF ResultPanics, Panic
  <2>3. CASE GetPool(c)
    <3>1. th[c].pool \in Pools
      BY <2>3 DEF GetPool, TInv, PcOK
    <3> QED
      BY <1>3, <2>3, <3>1 DEF GetPool, world, proc
  <2>4. CASE \/ GetPoolFails(c) \/ AllocateFull(c) \/ DeleteRequest(c)
             \/ CreateRequest(c) \/ EnterSelect(c) \/ AllocateFails(c)
             \/ SetupIPAM(c) \/ SetupIPAMFails(c)
    BY <1>2, <2>4 DEF GetPoolFails, AllocateFull, DeleteRequest, CreateRequest,
       EnterSelect, AllocateFails, SetupIPAM, SetupIPAMFails, world, proc, known
  <2> QED
    BY <1>6, <2>1, <2>2, <2>3, <2>4 DEF AddStep
<1>7. ASSUME NEW g \in Threads, BlockStep(g)
      PROVE  Goal
  <2>1. CASE DeleteObject(g)
    <3>1. UNCHANGED mode /\ alloc' = forget(th[g].target)
      BY <2>1 DEF DeleteObject, proc
    <3>2. alloc \in [Blocks -> Orphan(AllocatorState)]
      BY DEF TInv, TypeTab
    <3> QED
      BY <3>1, <3>2 DEF forget, Goal, Moved, Before
  <2>2. CASE RemoveFinalizer(g) \/ SyncList(g)
    BY <1>2, <2>2 DEF RemoveFinalizer, SyncList, world, proc, known
  <2>3. CASE SyncExport(g)
    BY <1>2, <1>4, <2>3 DEF SyncExport, proc, known
  <2>4. CASE BlockStepFails(g)
    BY <1>2, <1>4, <2>4 DEF BlockStepFails, ErrorReturn, proc, known
  <2> QED
    BY <1>7, <2>1, <2>2, <2>3, <2>4 DEF BlockStep
<1>8. CASE BeginGC \/ GCStep
  <2>1. ASSUME NEW p \in Pools, GCGetPool(p) \/ GCPool(p)
        PROVE  Goal
    BY <1>3, <2>1 DEF GCGetPool, GCPool, world, proc
  <2>2. CASE GCListFails
    BY <1>4, <2>2 DEF GCListFails
  <2>3. CASE \/ BeginGC \/ ScanPools \/ GCLock \/ GCPoolDone \/ GCPoolsDone
             \/ \E b \in Blocks : GCBlock(b)
    BY <1>2, <2>3 DEF BeginGC, ScanPools, GCLock, GCPoolDone, GCPoolsDone,
       GCBlock, world, proc, known
  <2> QED
    BY <1>8, <2>1, <2>2, <2>3 DEF GCStep
<1>9. CASE BootStep
  BY <1>1, <1>9, RegisterMoves DEF BootStep, RegisterFails, Goal
<1>10. CASE WatchStep \/ UNCHANGED vars
  BY <1>2, <1>10 DEF WatchStep, NotifyLookup, NotifySend, Observe, Reconcile,
     vars, proc, known
<1>11. CASE Environment
  BY <1>1, <1>2, <1>11 DEF Environment, Crash, Reboot, ClearRoutes, AnswerRequest,
     RefuseRequest, AssignBlock, OtherNode, UserDelete, Untouched, proc, known
<1> QED
  BY <1>5, <1>6, <1>7, <1>8, <1>9, <1>10, <1>11 DEF Next

\* A block that syncBlock finds has given no index, or all of them.
LEMMA BeforeTyped ==
  ASSUME TInv, LastOK, NEW b \in Blocks
  PROVE  /\ Before(b) \in AllocatorState
         /\ mode = "boot" => Before(b).last \in Before(b).usage \cup {-1}
<1>1. newBlock(b) \in AllocatorState /\ newBlock(b).last \in newBlock(b).usage \cup {-1}
  BY SizeAssumption DEF newBlock, fill, newAllocator, AllocatorState, Index
<1>2. alloc[b] # None => alloc[b] \in AllocatorState
  BY DEF TInv, TypeTab, Orphan
<1> QED
  BY <1>1, <1>2 DEF Before, LastOK

\* LastOK is kept: a block is only registered in, or only known again.
LEMMA LastKept ==
  ASSUME TInv, LastOK, [Next]_vars
  PROVE  LastOK'
<1> SUFFICES ASSUME mode' = "boot", NEW b \in Blocks, alloc'[b] # None
             PROVE  alloc'[b].last \in alloc'[b].usage \cup {-1}
  BY DEF LastOK
<1>1. mode = "boot" /\ Moved(b)
  BY NextMoves
<1>2. alloc'[b] = Before(b) \/ \E i \in Index : alloc'[b] = register(Before(b), i)
  BY <1>1 DEF Moved
<1>3. CASE alloc'[b] = Before(b)
  BY <1>1, <1>3, BeforeTyped
<1>4. ASSUME NEW i \in Index, alloc'[b] = register(Before(b), i)
      PROVE  alloc'[b].last \in alloc'[b].usage
  BY <1>4 DEF register, Set
<1> QED
  BY <1>2, <1>3, <1>4

-----------------------------------------------------------------------------
(* The theorems *)

\* The invariant holds in every reachable state of coild.
THEOREM Invariant == Spec => []IInv
<1>1. IInv /\ [Next]_vars => IInv'
  BY NextInvariant
<1> QED
  BY InitInvariant, <1>1, PTL DEF Spec

\* No address is owned twice, for any number of containers, pools and blocks,
\* any block size and any combination of faults, unless a Free was abandoned
\* halfway: nodePool.allocate and nodeIPAM.Register hand out clear indexes
\* only, and deleteBlock forgets blocks that nobody owns an address of.
THEOREM AddressesUnique == Spec => []AddressUnique
<1>1. IInv => AddressUnique
  BY BooksImply
<1> QED
  BY Invariant, <1>1, PTL

\* The bitsets agree with the owners: no index leaks and none is free while in
\* use, unless a route export failed in Allocate or a Free was abandoned.
THEOREM UsageIsAccounted == Spec => []UsageAccounted
<1>1. IInv => UsageAccounted
  BY BooksImply
<1> QED
  BY Invariant, <1>1, PTL

\* The panic of nodePool.free needs a Free that was abandoned halfway.
THEOREM FreePanicNeedsError == Spec => []FreePanicsOnlyAfterError
<1>1. IInv => FreePanicsOnlyAfterError
  BY DEF IInv
<1> QED
  BY Invariant, <1>1, PTL


\* A freed index is not given again while another one of the block is clear,
\* for any block size and whatever else happens: allocate searches from the
\* index given last, which free leaves alone, and a block that is forgotten and
\* found again, or registered anew by start-up, has no freed index to respect.
THEOREM ReuseIsLastResort == Spec => NoImmediateReuse
<1> DEFINE Inv == TInv /\ LastOK
           Reuse(b, i) == /\ alloc[b] # None /\ alloc'[b] # None
                          /\ i \notin alloc[b].usage /\ i \in alloc'[b].usage
                          /\ i = alloc[b].last
<1>1. Init => Inv
  BY InitTypes DEF Init, LastOK
<1>2. Inv /\ [Next]_vars => Inv'
  BY NextTypes, LastKept
<1>3. Inv /\ [Next]_vars => [\A b \in Blocks : \A i \in Index :
                                Reuse(b, i) => alloc'[b].usage = Index]_vars
  <2> SUFFICES ASSUME Inv, [Next]_vars, NEW b \in Blocks, NEW i \in Index, Reuse(b, i)
               PROVE  alloc'[b].usage = Index
    OBVIOUS
  <2>1. Moved(b) /\ alloc'[b] # None /\ Before(b) = alloc[b]
    BY NextMoves DEF Before
  <2>2. alloc[b] \in AllocatorState
    BY <2>1, BeforeTyped
  <2>3. CASE alloc'[b] = alloc[b] \/ \E j \in Index : alloc'[b] = free(alloc[b], j)
    BY <2>2, <2>3 DEF free, AllocatorState
  <2>4. CASE mode = "boot" /\ \E j \in Index : alloc'[b] = register(alloc[b], j)
    BY <2>1, <2>4, BeforeTyped, SizeAssumption DEF Index
  <2>5. CASE ~isFull(alloc[b]) /\ alloc'[b] = allocate(alloc[b])
    <3>1. NextIndex(alloc[b]) = alloc[b].last
      BY <2>5 DEF allocate, Set
    <3> QED
      BY <2>2, <2>5, <3>1, LastIsLastResort
  <2> QED
    BY <2>1, <2>3, <2>4, <2>5 DEF Moved
<1> QED
  BY <1>1, <1>2, <1>3, PTL DEF Spec, NoImmediateReuse
=============================================================================
