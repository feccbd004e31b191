--------------------------- MODULE NodeIPAMTypes ----------------------------
(***************************************************************************)
(* Type correctness of coild: Spec => []TypeOK.                            *)
(*                                                                         *)
(* First what allocate() picks, for every block size.                      *)
(*                                                                         *)
(* TypeOK is not inductive.  What the code relies on without saying so is  *)
(* that a thread between getPool and the answer of its request has a pool, *)
(* that only completed requests are received, and that while coild starts  *)
(* up (mode "boot") no CNI call runs and the garbage collector waits for   *)
(* the registration of all containers.  TInv adds PcOK and BootOK.         *)
(***************************************************************************)
EXTENDS NodeIPAM, WellFoundedInduction, TLAPS

-----------------------------------------------------------------------------
(* The allocator of a block *)

\* bitset.NextClear finds a clear bit if there is one, and the first one.
LEMMA LowestIsLeast ==
  ASSUME NEW S \in SUBSET Index, S # {}
  PROVE  Lowest(S) \in S /\ \A j \in S : Lowest(S) <= j
<1>1. S \subseteq Nat
  BY SizeAssumption DEF Index
<1> DEFINE LT == {ss \in Nat \X Nat : ss[1] < ss[2]}
<1>2. IsWellFoundedOn(LT, Nat)
  BY NatLessThanWellFounded, Zenon DEF OpToRel
<1> HIDE DEF LT
<1>3. PICK x \in S : \A y \in S : ~ (<<y, x>> \in LT)
  BY <1>1, <1>2, WFMin, Zenon
<1>4. ASSUME NEW y \in S
      PROVE  x <= y
  <2>1. <<y, x>> \in Nat \X Nat
    BY <1>1
  <2>2. y < x => <<y, x>> \in LT
    BY <2>1 DEF LT
  <2> QED
    BY <1>1, <1>3, <2>2
<1> QED
  BY <1>4 DEF Lowest

\* What allocate() returns for a block that is not full is an index of the block
\* and its bit is clear, whether the search wraps around or not: an address in
\* use is never given out.
THEOREM NextIndexIsClear ==
  ASSUME NEW a \in AllocatorState, ~isFull(a)
  PROVE  NextIndex(a) \in Index \ a.usage
<1>1. a.usage \subseteq Index /\ a.usage # Index
  BY DEF AllocatorState, isFull
<1>2. ClearFrom(a, 0) = Index \ a.usage
  BY SizeAssumption DEF ClearFrom, Index
<1>3. ClearFrom(a, 0) # {}
  BY <1>1, <1>2
<1>4. ClearFrom(a, a.last + 1) \subseteq Index \ a.usage
  BY DEF ClearFrom
<1> QED
  BY <1>2, <1>3, <1>4, LowestIsLeast DEF NextIndex

\* allocate() gives the index it gave last only when that is the only clear one:
\* the search starts after it and comes to it last.
THEOREM LastIsLastResort ==
  ASSUME NEW a \in AllocatorState, ~isFull(a), NextIndex(a) = a.last
  PROVE  allocate(a).usage = Index
<1>1. a.last \in Index \ a.usage /\ a.usage \subseteq Index
  BY NextIndexIsClear DEF AllocatorState
<1>2. ClearFrom(a, a.last + 1) = {}
  <2> SUFFICES ASSUME ClearFrom(a, a.last + 1) # {}
               PROVE  FALSE
    OBVIOUS
  <2>1. Lowest(ClearFrom(a, a.last + 1)) \in ClearFrom(a, a.last + 1)
    BY LowestIsLeast DEF ClearFrom
  <2>2. NextIndex(a) \in ClearFrom(a, a.last + 1)
    BY <2>1 DEF NextIndex
  <2> QED
    BY <1>1, <2>2, SizeAssumption DEF ClearFrom, Index
<1>3. \A i \in ClearFrom(a, 0) : a.last <= i
  BY <1>2, LowestIsLeast DEF NextIndex, ClearFrom
<1>4. \A i \in Index \ a.usage : i = a.last
  BY <1>1, <1>2, <1>3, SizeAssumption DEF ClearFrom, Index
<1> QED
  BY <1>1, <1>4 DEF allocate, Set

-----------------------------------------------------------------------------
(* The inductive invariant *)

\* Threads in nodePool.allocate have a pool; a received answer is an answer.
PcOK ==
    \A c \in Containers :
       /\ th[c].pc \in {"getPool", "alloc", "delReq", "mkReq", "created",
                        "wait", "got"} => th[c].pool \in Pools
       /\ th[c].pc = "got" => th[c].got \in Answer

\* Start-up: registration first, then GC, then CNI calls.
BootOK ==
    /\ mode = "up" \/ th[GC].pc # "idle" => boot = {}
    /\ mode = "boot" => \A c \in Containers : th[c].pc = "idle"
    /\ boot \subseteq Attached

\* TypeOK in parts: the API server and the informer, the process, the tables
\* of addresses, the threads.
TypeApi ==
    /\ blk \in [Blocks -> Object]
    /\ req \in [Pools -> Orphan(Request)]
    /\ reqs \in Nat
    /\ grant \in [Pools -> Orphan(Request)]
    /\ events \in [Pools -> Seq(Orphan(Request))]
    /\ cache \in [Pools -> Orphan(Request)]
    /\ dirty \in [Pools -> BOOLEAN]
    /\ notifying \in Orphan([pool: Pools, req: [id: Nat, res: Answer],
                             at: {"lock", "send"}])

TypeMem ==
    /\ mode \in {"boot", "up"}
    /\ boot \subseteq Containers
    /\ nmu \in Orphan({GC})
    /\ pmu \in [Pools -> Orphan(Threads)]
    /\ pools \subseteq Pools
    /\ visit \subseteq Pools
    /\ empties \subseteq Blocks
    /\ routes \subseteq Blocks
    /\ failed \subseteq Recorded
    /\ panicked \subseteq {"unknownBlock", "fullBlock", "free"}

TypeTab ==
    /\ alloc \in [Blocks -> Orphan(AllocatorState)]
    /\ info \in [Containers -> Orphan(Addr)]
    /\ veth \in [Containers -> Orphan(Addr)]

TypeTh == th \in [Threads -> Thread]

\* The inductive invariant.
TInv == TypeApi /\ TypeMem /\ TypeTab /\ TypeTh /\ PcOK /\ BootOK

\* TypeOK is the part of TInv that speaks of the values alone.
LEMMA TInvImpliesTypeOK == TInv => TypeOK
BY DEF TInv, TypeOK, TypeApi, TypeMem, TypeTab, TypeTh

-----------------------------------------------------------------------------
(* Threads *)

\* Moving the program counter of one thread changes nothing else.
LEMMA PcTyped ==
  ASSUME NEW f \in [Threads -> Thread], NEW g \in Threads, NEW l \in PCs,
         NEW h, h = [f EXCEPT ![g].pc = l]
  PROVE  /\ h \in [Threads -> Thread]
         /\ h[g].pc = l
         /\ h[g].pool = f[g].pool
         /\ h[g].addr = f[g].addr
         /\ h[g].got = f[g].got
         /\ h[g].target = f[g].target
         /\ h[g].snap = f[g].snap
         /\ \A k \in Threads : k # g => h[k] = f[k]
<1> DEFINE r == [f[g] EXCEPT !.pc = l]
<1>1. f[g] \in Thread
  OBVIOUS
<1>2. r \in Thread /\ r.pc = l /\ r.pool = f[g].pool /\ r.addr = f[g].addr
        /\ r.got = f[g].got /\ r.target = f[g].target /\ r.snap = f[g].snap
  BY <1>1 DEF Thread
<1>3. h = [f EXCEPT ![g] = r]
  OBVIOUS
<1> HIDE DEF r
<1> QED
  BY <1>2, <1>3

\* The same for the action Goto.
LEMMA GotoFacts ==
  ASSUME TypeTh, NEW g \in Threads, NEW l \in PCs, Goto(g, l)
  PROVE  /\ TypeTh'
         /\ th'[g].pc = l
         /\ th'[g].pool = th[g].pool
         /\ th'[g].addr = th[g].addr
         /\ th'[g].got = th[g].got
         /\ th'[g].target = th[g].target
         /\ th'[g].snap = th[g].snap
         /\ \A k \in Threads : k # g => th'[k] = th[k]
BY PcTyped DEF Goto, TypeTh

\* The thread records the actions build from idle are typed.
LEMMA IdleTyped ==
  /\ idle \in Thread
  /\ idle.pc = "idle" /\ idle.addr = None
  /\ \A p \in Pools : [idle EXCEPT !.pc = "getPool", !.pool = p] \in Thread
  /\ \A l \in PCs : [idle EXCEPT !.pc = l] \in Thread
  /\ \A a \in Addr : [idle EXCEPT !.pc = "list", !.addr = a] \in Thread
  /\ \A p \in Pools, b \in Blocks :
        [idle EXCEPT !.pc = "rmFin", !.pool = p, !.target = b] \in Thread
BY DEF idle, Thread, PCs, Orphan

\* A thread that returns is idle, the others are as before.
LEMMA ReturnFacts ==
  ASSUME TypeTh, NEW g \in Threads, Return(g)
  PROVE  /\ TypeTh'
         /\ th'[g] = idle
         /\ \A k \in Threads : k # g => th'[k] = th[k]
BY IdleTyped DEF Return, TypeTh

\* A thread record is replaced, the others are as before.
LEMMA SetFacts ==
  ASSUME TypeTh, NEW g \in Threads, NEW r \in Thread, th' = [th EXCEPT ![g] = r]
  PROVE  /\ TypeTh'
         /\ th'[g] = r
         /\ \A k \in Threads : k # g => th'[k] = th[k]
BY DEF TypeTh

-----------------------------------------------------------------------------
(* Allocators and API objects *)

\* allocate, register and free keep bitset and last index in the block.
LEMMA AllocatorTyped ==
  ASSUME NEW a \in AllocatorState
  PROVE  /\ \A i \in Index : /\ register(a, i) \in AllocatorState
                             /\ free(a, i) \in AllocatorState
         /\ ~isFull(a) => allocate(a) \in AllocatorState
<1>1. ASSUME NEW i \in Index
      PROVE  Set(a, i) \in AllocatorState /\ free(a, i) \in AllocatorState
  BY DEF Set, free, AllocatorState
<1> QED
  BY <1>1, NextIndexIsClear DEF register, allocate

\* syncBlock yields allocators and leaves known blocks alone.
LEMMA syncBlockTyped ==
  ASSUME TypeTab, NEW p
  PROVE  /\ syncBlock(p) \in [Blocks -> Orphan(AllocatorState)]
         /\ \A b \in Blocks : alloc[b] # None => syncBlock(p)[b] = alloc[b]
<1>1. \A b \in Blocks : newBlock(b) \in AllocatorState
  BY SizeAssumption DEF newBlock, newAllocator, fill, AllocatorState, Index
<1> QED
  BY <1>1 DEF syncBlock, Orphan, TypeTab

\* The changes of an AddressBlock object yield AddressBlock objects.
LEMMA ObjectTyped ==
  ASSUME TypeApi, NEW b
  PROVE  /\ absent \in Object
         /\ created("me") \in Object
         /\ created("other") \in Object
         /\ unfinalized(b) \in [Blocks -> Object]
         /\ deleted(b) \in [Blocks -> Object]
<1>1. absent \in Object /\ created("me") \in Object /\ created("other") \in Object
  BY DEF absent, created, Object
<1>2. \A x \in Blocks : /\ [blk[x] EXCEPT !.fin = FALSE] \in Object
                        /\ [blk[x] EXCEPT !.del = TRUE] \in Object
  BY DEF TypeApi, Object
<1> QED
  BY <1>1, <1>2 DEF TypeApi, unfinalized, deleted

\* A change of a BlockRequest keeps the object and the event queue typed.
LEMMA SetRequestTyped ==
  ASSUME TypeApi, NEW p \in Pools, NEW r \in Orphan(Request), SetRequest(p, r)
  PROVE  /\ req' \in [Pools -> Orphan(Request)]
         /\ events' \in [Pools -> Seq(Orphan(Request))]
<1>1. events[p] \in Seq(Orphan(Request))
  BY DEF TypeApi
<1>2. Append(events[p], r) \in Seq(Orphan(Request))
  BY <1>1
<1> QED
  BY <1>2 DEF TypeApi, SetRequest

\* The BlockRequest values that coild and the controller write are typed.
LEMMA RequestTyped ==
  ASSUME TypeApi, NEW p \in Pools
  PROVE  /\ None \in Orphan(Request)
         /\ [id |-> reqs + 1, res |-> "pending"] \in Orphan(Request)
         /\ req[p] # None =>
               /\ [req[p] EXCEPT !.res = "failed"] \in Orphan(Request)
               /\ \A b \in Blocks : [id |-> req[p].id, res |-> b] \in Orphan(Request)
         /\ Completed(cache[p]) => cache[p] \in [id: Nat, res: Answer]
<1>1. req[p] # None => req[p] \in Request
  BY DEF TypeApi, Orphan
<1>2. cache[p] # None => cache[p] \in Request
  BY DEF TypeApi, Orphan
<1>3. reqs \in Nat
  BY DEF TypeApi
<1>4. req[p] # None => /\ [req[p] EXCEPT !.res = "failed"] \in Request
                       /\ \A b \in Blocks : [id |-> req[p].id, res |-> b] \in Request
  BY <1>1 DEF Request, Answer
<1>5. Completed(cache[p]) => cache[p] \in [id: Nat, res: Answer]
  BY <1>2 DEF Request, Completed
<1>6. [id |-> reqs + 1, res |-> "pending"] \in Request
  BY <1>3 DEF Request
<1> QED
  BY <1>4, <1>5, <1>6 DEF Orphan

-----------------------------------------------------------------------------
\* Types are kept by nodeIPAM.getPool in Allocate.
LEMMA GetPoolTypes ==
  ASSUME TInv, NEW c \in Containers, GetPool(c)
  PROVE  TInv'
<1> USE ConstantsAssumption DEF TInv, api, watch, locks, known, gcv, proc,
   kernel, world
<1>1. TypeApi'
  BY SMT DEF TypeApi, PcOK, GetPool, getPool, Orphan
<1>2. TypeMem'
  BY DEF TypeMem, TypeApi, PcOK, GetPool, getPool, Orphan, Threads, Recorded
<1>3. TypeTab'
  BY syncBlockTyped, SMT DEF TypeTab, GetPool, getPool, Orphan
<1>4. TypeTh'
  BY GotoFacts, SMT DEF TypeTh, GetPool, getPool, Threads, PCs
<1>5. PcOK' /\ BootOK'
  BY GotoFacts, SMT DEF TypeTh, TypeMem, PcOK, BootOK, Attached, GetPool,
     getPool, Threads, PCs, idle
<1> QED
  BY <1>1, <1>2, <1>3, <1>4, <1>5

\* Types are kept by the error return of getPool.
LEMMA GetPoolFailsTypes ==
  ASSUME TInv, NEW c \in Containers, GetPoolFails(c)
  PROVE  TInv'
<1> USE ConstantsAssumption DEF TInv, api, watch, locks, known, gcv, proc,
   kernel, world
<1>1. TypeApi'
  BY SMT DEF TypeApi, PcOK, GetPoolFails, Fails, Orphan
<1>2. TypeMem'
  BY DEF TypeMem, TypeApi, PcOK, GetPoolFails, Fails, Orphan, Threads, Recorded
<1>3. TypeTab'
  BY SMT DEF TypeTab, GetPoolFails, Fails, Orphan
<1>4. TypeTh'
  BY ReturnFacts, SMT DEF TypeTh, GetPoolFails, Fails, Threads, PCs
<1>5. PcOK' /\ BootOK'
  BY ReturnFacts, SMT DEF TypeTh, TypeMem, PcOK, BootOK, Attached,
     GetPoolFails, Fails, Threads, PCs, idle
<1> QED
  BY <1>1, <1>2, <1>3, <1>4, <1>5

\* Types are kept by nodePool.allocate when every known block is full.
LEMMA AllocateFullTypes ==
  ASSUME TInv, NEW c \in Containers, AllocateFull(c)
  PROVE  TInv'
<1> USE ConstantsAssumption DEF TInv, api, watch, locks, known, gcv, proc,
   kernel, world
<1>1. TypeApi'
  BY SMT DEF TypeApi, PcOK, AllocateFull, Orphan
<1>2. TypeMem'
  BY DEF TypeMem, TypeApi, PcOK, AllocateFull, Orphan, Threads, Recorded
<1>3. TypeTab'
  BY SMT DEF TypeTab, AllocateFull, Orphan
<1>4. TypeTh'
  BY GotoFacts, SMT DEF TypeTh, AllocateFull, Threads, PCs
<1>5. PcOK' /\ BootOK'
  BY GotoFacts, SMT DEF TypeTh, TypeMem, PcOK, BootOK, Attached,
     AllocateFull, Threads, PCs, idle
<1> QED
  BY <1>1, <1>2, <1>3, <1>4, <1>5

\* Types are kept by the error returns of nodePool.allocate.
LEMMA AllocateFailsTypes ==
  ASSUME TInv, NEW c \in Containers, AllocateFails(c)
  PROVE  TInv'
<1> USE ConstantsAssumption DEF TInv, api, watch, locks, known, gcv, proc,
   kernel, world
<1>1. TypeApi'
  BY SMT DEF TypeApi, PcOK, AllocateFails, Fails, Unlock, Orphan
<1>2. TypeMem'
  BY DEF TypeMem, TypeApi, PcOK, AllocateFails, Fails, Unlock, Orphan,
     Threads, Recorded
<1>3. TypeTab'
  BY SMT DEF TypeTab, AllocateFails, Fails, Unlock, Orphan
<1>4. TypeTh'
  BY ReturnFacts, SMT DEF TypeTh, AllocateFails, Fails, Unlock, Threads, PCs
<1>5. PcOK' /\ BootOK'
  BY ReturnFacts, SMT DEF TypeTh, TypeMem, PcOK, BootOK, Attached,
     AllocateFails, Fails, Unlock, Threads, PCs, idle
<1> QED
  BY <1>1, <1>2, <1>3, <1>4, <1>5

\* Types are kept by the deletion of the old BlockRequest.
LEMMA DeleteRequestTypes ==
  ASSUME TInv, NEW c \in Containers, DeleteRequest(c)
  PROVE  TInv'
<1> USE ConstantsAssumption DEF TInv, api, watch, locks, known, gcv, proc,
   kernel, world
<1>1. TypeApi'
  BY SetRequestTyped, RequestTyped, SMT DEF TypeApi, PcOK, DeleteRequest,
     Orphan
<1>2. TypeMem'
  BY DEF TypeMem, TypeApi, PcOK, DeleteRequest, Orphan, Threads, Recorded
<1>3. TypeTab'
  BY SMT DEF TypeTab, DeleteRequest, Orphan
<1>4. TypeTh'
  BY GotoFacts, SMT DEF TypeTh, DeleteRequest, Threads, PCs
<1>5. PcOK' /\ BootOK'
  BY GotoFacts, SMT DEF TypeTh, TypeMem, PcOK, BootOK, Attached,
     DeleteRequest, Threads, PCs, idle
<1> QED
  BY <1>1, <1>2, <1>3, <1>4, <1>5

\* Types are kept by the start of the wait for an answer.
LEMMA EnterSelectTypes ==
  ASSUME TInv, NEW c \in Containers, EnterSelect(c)
  PROVE  TInv'
<1> USE ConstantsAssumption DEF TInv, api, watch, locks, known, gcv, proc,
   kernel, world
<1>1. TypeApi'
  BY SMT DEF TypeApi, PcOK, EnterSelect, Orphan
<1>2. TypeMem'
  BY DEF TypeMem, TypeApi, PcOK, EnterSelect, Orphan, Threads, Recorded
<1>3. TypeTab'
  BY SMT DEF TypeTab, EnterSelect, Orphan
<1>4. TypeTh'
  BY GotoFacts, SMT DEF TypeTh, EnterSelect, Threads, PCs
<1>5. PcOK' /\ BootOK'
  BY GotoFacts, SMT DEF TypeTh, TypeMem, PcOK, BootOK, Attached,
     EnterSelect, Threads, PCs, idle
<1> QED
  BY <1>1, <1>2, <1>3, <1>4, <1>5

\* Types are kept by podNet.SetupIPAM.
LEMMA SetupIPAMTypes ==
  ASSUME TInv, NEW c \in Containers, SetupIPAM(c)
  PROVE  TInv'
<1> USE ConstantsAssumption DEF TInv, api, watch, locks, known, gcv, proc,
   kernel, world
<1>1. TypeApi'
  BY SMT DEF TypeApi, PcOK, SetupIPAM, Orphan
<1>2. TypeMem'
  BY DEF TypeMem, TypeApi, PcOK, SetupIPAM, Orphan, Threads, Recorded
<1>3. TypeTab'
  BY SMT DEF TypeTab, SetupIPAM, Orphan
<1>4. TypeTh'
  BY ReturnFacts, SMT DEF TypeTh, SetupIPAM, Threads, PCs
<1>5. PcOK' /\ BootOK'
  BY ReturnFacts, SMT DEF TypeTh, TypeMem, PcOK, BootOK, Attached,
     SetupIPAM, Threads, PCs, idle
<1> QED
  BY <1>1, <1>2, <1>3, <1>4, <1>5

\* Types are kept by a failed SetupIPAM.
LEMMA SetupIPAMFailsTypes ==
  ASSUME TInv, NEW c \in Containers, SetupIPAMFails(c)
  PROVE  TInv'
<1> USE ConstantsAssumption DEF TInv, api, watch, locks, known, gcv, proc,
   kernel, world
<1>1. TypeApi'
  BY SMT DEF TypeApi, PcOK, SetupIPAMFails, Fails, Orphan
<1>2. TypeMem'
  BY DEF TypeMem, TypeApi, PcOK, SetupIPAMFails, Fails, Orphan, Threads,
     Recorded
<1>3. TypeTab'
  BY SMT DEF TypeTab, SetupIPAMFails, Fails, Orphan
<1>4. TypeTh'
  BY GotoFacts, SMT DEF TypeTh, SetupIPAMFails, Fails, Threads, PCs
<1>5. PcOK' /\ BootOK'
  BY GotoFacts, SMT DEF TypeTh, TypeMem, PcOK, BootOK, Attached,
     SetupIPAMFails, Fails, Threads, PCs, idle
<1> QED
  BY <1>1, <1>2, <1>3, <1>4, <1>5

\* Types are kept by coildServer.Del up to the call of Free.
LEMMA BeginDelTypes ==
  ASSUME TInv, NEW c \in Containers, BeginDel(c)
  PROVE  TInv'
<1> USE ConstantsAssumption DEF TInv, api, watch, locks, known, gcv, proc,
   kernel, world
<1>1. TypeApi'
  BY SMT DEF TypeApi, PcOK, BeginDel, Destroy, Orphan
<1>2. TypeMem'
  BY DEF TypeMem, TypeApi, PcOK, BeginDel, Destroy, Orphan, Threads, Recorded
<1>3. TypeTab'
  BY SMT DEF TypeTab, BeginDel, Destroy, Orphan
<1>4. TypeTh'
  BY GotoFacts, SMT DEF TypeTh, BeginDel, Destroy, Threads, PCs
<1>5. PcOK' /\ BootOK'
  BY GotoFacts, SMT DEF TypeTh, TypeMem, PcOK, BootOK, Attached, BeginDel,
     Destroy, Threads, PCs, idle
<1> QED
  BY <1>1, <1>2, <1>3, <1>4, <1>5

\* Types are kept by Free of an unknown container.
LEMMA FreeUnknownTypes ==
  ASSUME TInv, NEW c \in Containers, FreeUnknown(c)
  PROVE  TInv'
<1> USE ConstantsAssumption DEF TInv, api, watch, locks, known, gcv, proc,
   kernel, world
<1>1. TypeApi'
  BY SMT DEF TypeApi, PcOK, FreeUnknown, Orphan
<1>2. TypeMem'
  BY DEF TypeMem, TypeApi, PcOK, FreeUnknown, Orphan, Threads, Recorded
<1>3. TypeTab'
  BY SMT DEF TypeTab, FreeUnknown, Orphan
<1>4. TypeTh'
  BY ReturnFacts, SMT DEF TypeTh, FreeUnknown, Threads, PCs
<1>5. PcOK' /\ BootOK'
  BY ReturnFacts, SMT DEF TypeTh, TypeMem, PcOK, BootOK, Attached,
     FreeUnknown, Threads, PCs, idle
<1> QED
  BY <1>1, <1>2, <1>3, <1>4, <1>5

\* Types are kept by the finalizer update of deleteBlock.
LEMMA RemoveFinalizerTypes ==
  ASSUME TInv, NEW g \in Threads, RemoveFinalizer(g)
  PROVE  TInv'
<1> USE ConstantsAssumption DEF TInv, api, watch, locks, known, gcv, proc,
   kernel, world
<1>1. TypeApi'
  BY ObjectTyped, SMT DEF TypeApi, PcOK, RemoveFinalizer, Orphan
<1>2. TypeMem'
  BY DEF TypeMem, TypeApi, PcOK, RemoveFinalizer, Orphan, Threads, Recorded
<1>3. TypeTab'
  BY SMT DEF TypeTab, RemoveFinalizer, Orphan
<1>4. TypeTh'
  BY GotoFacts, SMT DEF TypeTh, RemoveFinalizer, Threads, PCs
<1>5. PcOK' /\ BootOK'
  BY GotoFacts, SMT DEF TypeTh, TypeMem, PcOK, BootOK, Attached,
     RemoveFinalizer, Threads, PCs, idle
<1> QED
  BY <1>1, <1>2, <1>3, <1>4, <1>5

\* Types are kept by the start of nodeIPAM.GC.
LEMMA BeginGCTypes ==
  ASSUME TInv, BeginGC
  PROVE  TInv'
<1> USE ConstantsAssumption DEF TInv, api, watch, locks, known, gcv, proc,
   kernel, world
<1>1. TypeApi'
  BY SMT DEF TypeApi, PcOK, BeginGC, Orphan
<1>2. TypeMem'
  BY DEF TypeMem, TypeApi, PcOK, BeginGC, Orphan, Threads, Recorded
<1>3. TypeTab'
  BY SMT DEF TypeTab, BeginGC, Orphan
<1>4. TypeTh'
  BY GotoFacts, SMT DEF TypeTh, BeginGC, Threads, PCs
<1>5. PcOK' /\ BootOK'
  BY GotoFacts, SMT DEF TypeTh, TypeMem, PcOK, BootOK, Attached, BeginGC,
     Threads, PCs, idle
<1> QED
  BY <1>1, <1>2, <1>3, <1>4, <1>5

\* Types are kept by syncUnregisteredPool.
LEMMA ScanPoolsTypes ==
  ASSUME TInv, ScanPools
  PROVE  TInv'
<1> USE ConstantsAssumption DEF TInv, api, watch, locks, known, gcv, proc,
   kernel, world
<1>1. TypeApi'
  BY SMT DEF TypeApi, PcOK, ScanPools, Mine, Orphan
<1>2. TypeMem'
  BY DEF TypeMem, TypeApi, PcOK, ScanPools, Mine, Orphan, Threads, Recorded
<1>3. TypeTab'
  BY SMT DEF TypeTab, ScanPools, Mine, Orphan
<1>4. TypeTh'
  BY GotoFacts, SMT DEF TypeTh, ScanPools, Mine, Threads, PCs
<1>5. PcOK' /\ BootOK'
  BY GotoFacts, SMT DEF TypeTh, TypeMem, PcOK, BootOK, Attached, ScanPools,
     Mine, Threads, PCs, idle
<1> QED
  BY <1>1, <1>2, <1>3, <1>4, <1>5

\* Types are kept by getPool called by GC.
LEMMA GCGetPoolTypes ==
  ASSUME TInv, NEW p \in Pools, GCGetPool(p)
  PROVE  TInv'
<1> USE ConstantsAssumption DEF TInv, api, watch, locks, known, gcv, proc,
   kernel, world
<1>1. TypeApi'
  BY SMT DEF TypeApi, PcOK, GCGetPool, getPool, Orphan
<1>2. TypeMem'
  BY DEF TypeMem, TypeApi, PcOK, GCGetPool, getPool, Orphan, Threads, Recorded
<1>3. TypeTab'
  BY syncBlockTyped, SMT DEF TypeTab, GCGetPool, getPool, Orphan
<1>4. TypeTh'
  BY SMT DEF TypeTh, GCGetPool, getPool, Threads, PCs
<1>5. PcOK' /\ BootOK'
  BY SMT DEF TypeTh, TypeMem, PcOK, BootOK, Attached, GCGetPool, getPool,
     Threads, PCs, idle
<1> QED
  BY <1>1, <1>2, <1>3, <1>4, <1>5

\* Types are kept by nodeIPAM.gc taking n.mu.
LEMMA GCLockTypes ==
  ASSUME TInv, GCLock
  PROVE  TInv'
<1> USE ConstantsAssumption DEF TInv, api, watch, locks, known, gcv, proc,
   kernel, world
<1>1. TypeApi'
  BY SMT DEF TypeApi, PcOK, GCLock, Orphan
<1>2. TypeMem'
  BY DEF TypeMem, TypeApi, PcOK, GCLock, Orphan, Threads, Recorded
<1>3. TypeTab'
  BY SMT DEF TypeTab, GCLock, Orphan
<1>4. TypeTh'
  BY GotoFacts, SMT DEF TypeTh, GCLock, Threads, PCs
<1>5. PcOK' /\ BootOK'
  BY GotoFacts, SMT DEF TypeTh, TypeMem, PcOK, BootOK, Attached, GCLock,
     Threads, PCs, idle
<1> QED
  BY <1>1, <1>2, <1>3, <1>4, <1>5

\* Types are kept by the end of the loop over the pools.
LEMMA GCPoolsDoneTypes ==
  ASSUME TInv, GCPoolsDone
  PROVE  TInv'
<1> USE ConstantsAssumption DEF TInv, api, watch, locks, known, gcv, proc,
   kernel, world
<1>1. TypeApi'
  BY SMT DEF TypeApi, PcOK, GCPoolsDone, Orphan
<1>2. TypeMem'
  BY DEF TypeMem, TypeApi, PcOK, GCPoolsDone, Orphan, Threads, Recorded
<1>3. TypeTab'
  BY SMT DEF TypeTab, GCPoolsDone, Orphan
<1>4. TypeTh'
  BY GotoFacts, SMT DEF TypeTh, GCPoolsDone, Threads, PCs
<1>5. PcOK' /\ BootOK'
  BY GotoFacts, SMT DEF TypeTh, TypeMem, PcOK, BootOK, Attached,
     GCPoolsDone, Threads, PCs, idle
<1> QED
  BY <1>1, <1>2, <1>3, <1>4, <1>5

\* Types are kept by the informer of the watcher.
LEMMA ObserveTypes ==
  ASSUME TInv, NEW p \in Pools, Observe(p)
  PROVE  TInv'
<1> USE ConstantsAssumption DEF TInv, api, watch, locks, known, gcv, proc,
   kernel, world
<1>1. TypeApi'
  BY SMT DEF TypeApi, PcOK, Observe, Orphan
<1>2. TypeMem'
  BY DEF TypeMem, TypeApi, PcOK, Observe, Orphan, Threads, Recorded
<1>3. TypeTab'
  BY SMT DEF TypeTab, Observe, Orphan
<1>4. TypeTh'
  BY SMT DEF TypeTh, Observe, Threads, PCs
<1>5. PcOK' /\ BootOK'
  BY SMT DEF TypeTh, TypeMem, PcOK, BootOK, Attached, Observe, Threads, PCs,
     idle
<1> QED
  BY <1>1, <1>2, <1>3, <1>4, <1>5

\* Types are kept by the controller answering a request.
LEMMA AnswerRequestTypes ==
  ASSUME TInv, NEW p \in Pools, AnswerRequest(p)
  PROVE  TInv'
<1> USE ConstantsAssumption DEF TInv, api, watch, locks, known, gcv, proc,
   kernel, world
<1>1. TypeApi'
  BY SetRequestTyped, RequestTyped, SMT DEF TypeApi, PcOK, AnswerRequest,
     Untouched, Orphan
<1>2. TypeMem'
  BY DEF TypeMem, TypeApi, PcOK, AnswerRequest, Untouched, Orphan, Threads,
     Recorded
<1>3. TypeTab'
  BY SMT DEF TypeTab, AnswerRequest, Untouched, Orphan
<1>4. TypeTh'
  BY SMT DEF TypeTh, AnswerRequest, Untouched, Threads, PCs
<1>5. PcOK' /\ BootOK'
  BY SMT DEF TypeTh, TypeMem, PcOK, BootOK, Attached, AnswerRequest,
     Untouched, Threads, PCs, idle
<1> QED
  BY <1>1, <1>2, <1>3, <1>4, <1>5

\* Types are kept by the deletion of a block by a user.
LEMMA UserDeleteTypes ==
  ASSUME TInv, NEW b \in Blocks, UserDelete(b)
  PROVE  TInv'
<1> USE ConstantsAssumption DEF TInv, api, watch, locks, known, gcv, proc,
   kernel, world
<1>1. TypeApi'
  BY ObjectTyped, SMT DEF TypeApi, PcOK, UserDelete, Fails, Untouched, Orphan
<1>2. TypeMem'
  BY DEF TypeMem, TypeApi, PcOK, UserDelete, Fails, Untouched, Orphan,
     Threads, Recorded
<1>3. TypeTab'
  BY SMT DEF TypeTab, UserDelete, Fails, Untouched, Orphan
<1>4. TypeTh'
  BY SMT DEF TypeTh, UserDelete, Fails, Untouched, Threads, PCs
<1>5. PcOK' /\ BootOK'
  BY SMT DEF TypeTh, TypeMem, PcOK, BootOK, Attached, UserDelete, Fails,
     Untouched, Threads, PCs, idle
<1> QED
  BY <1>1, <1>2, <1>3, <1>4, <1>5

\* Types are kept by the start of coildServer.Add.
LEMMA BeginAddTypes ==
  ASSUME TInv, NEW c \in Containers, BeginAdd(c)
  PROVE  TInv'
<1> USE ConstantsAssumption DEF TInv, api, watch, locks, known, gcv, proc,
   kernel, world
<1>u. UNCHANGED <<world, locks, known, info, gcv, kernel, failed>>
  BY DEF BeginAdd
<1>0. TypeTh' /\ (\A k \in Threads : k # c => th'[k] = th[k])
        /\ th'[c].pc \in {"setup", "getPool"} /\ (th'[c].pc = "getPool" => th'[c].pool \in Pools)
  <2>1. CASE info[c] # None
    BY <2>1, GotoFacts DEF BeginAdd, Threads, PCs
  <2>2. CASE info[c] = None
    <3>1. PICK p \in Pools :
             th' = [th EXCEPT ![c] = [idle EXCEPT !.pc = "getPool", !.pool = p]]
      BY <2>2 DEF BeginAdd
    <3>2. PICK r \in Thread : /\ r = [idle EXCEPT !.pc = "getPool", !.pool = p]
                              /\ r.pc = "getPool" /\ r.pool = p
      BY IdleTyped DEF idle
    <3>3. th' = [th EXCEPT ![c] = r]
      BY <3>1, <3>2
    <3>4. c \in Threads
      BY DEF Threads
    <3> QED
      BY <3>2, <3>3, <3>4, SetFacts
  <2> QED
    BY <2>1, <2>2
<1>1. TypeApi'
  BY <1>u DEF TypeApi
<1>2. TypeMem'
  BY <1>u DEF TypeMem
<1>3. TypeTab'
  BY <1>u DEF TypeTab
<1>4. TypeTh'
  BY <1>0
<1>5. PcOK' /\ BootOK'
  BY <1>0 DEF TypeMem, PcOK, BootOK, Attached, BeginAdd, Threads
<1> QED
  BY <1>1, <1>2, <1>3, <1>4, <1>5

\* Types are kept by nodePool.allocate in a block that has room.
LEMMA AllocateKnownTypes ==
  ASSUME TInv, NEW c \in Containers, AllocateKnown(c)
  PROVE  TInv'
<1> USE ConstantsAssumption DEF TInv, api, watch, locks, known, gcv, proc,
   kernel, world
<1> PICK b \in HasRoom(th[c].pool) :
      /\ info' = [info EXCEPT ![c] = [b |-> b, i |-> NextIndex(alloc[b])]]
      /\ alloc' = [alloc EXCEPT ![b] = allocate(alloc[b])]
  BY DEF AllocateKnown
<1>a. b \in Blocks /\ alloc[b] \in AllocatorState /\ ~isFull(alloc[b])
  BY DEF HasRoom, InPool, TypeTab, Orphan
<1>b. NextIndex(alloc[b]) \in Index /\ allocate(alloc[b]) \in AllocatorState
  BY <1>a, NextIndexIsClear, AllocatorTyped
<1>c. TypeTh' /\ th'[c].pc = "setup" /\ (\A k \in Threads : k # c => th'[k] = th[k])
  <2> DEFINE r == [idle EXCEPT !.pc = "setup"]
  <2>1. r \in Thread /\ r.pc = "setup"
    BY IdleTyped DEF idle, PCs
  <2> HIDE DEF r
  <2> QED
    BY <2>1, SetFacts DEF AllocateKnown, Threads, r
<1>1. TypeApi'
  BY SMT DEF TypeApi, PcOK, AllocateKnown, Orphan
<1>2. TypeMem'
  BY DEF TypeMem, TypeApi, PcOK, AllocateKnown, Orphan, Threads, Recorded
<1>3. TypeTab'
  BY <1>a, <1>b DEF TypeTab, Orphan, Addr, AllocateKnown
<1>4. TypeTh'
  BY <1>c
<1>5. PcOK' /\ BootOK'
  BY <1>c DEF TypeMem, PcOK, BootOK, Attached, AllocateKnown, Threads
<1> QED
  BY <1>1, <1>2, <1>3, <1>4, <1>5

\* Types are kept by the creation of the BlockRequest (its UID is one more
\* than the last).
LEMMA CreateRequestTypes ==
  ASSUME TInv, NEW c \in Containers, CreateRequest(c)
  PROVE  TInv'
<1> USE ConstantsAssumption DEF TInv, api, watch, locks, known, gcv, proc,
   kernel, world
<1>1. TypeApi'
  <2>1. th[c].pool \in Pools
    BY DEF PcOK, CreateRequest
  <2>2. [id |-> reqs + 1, res |-> "pending"] \in Orphan(Request)
    BY <2>1, RequestTyped
  <2>3. req' \in [Pools -> Orphan(Request)] /\ events' \in [Pools -> Seq(Orphan(Request))]
    BY <2>1, <2>2, SetRequestTyped DEF CreateRequest
  <2> QED
    BY <2>3 DEF TypeApi, CreateRequest
<1>2. TypeMem'
  BY DEF TypeMem, TypeApi, PcOK, CreateRequest, Orphan, Threads, Recorded
<1>3. TypeTab'
  BY SMT DEF TypeTab, CreateRequest, Orphan
<1>4. TypeTh'
  BY GotoFacts, SMT DEF TypeTh, CreateRequest, Threads, PCs
<1>5. PcOK' /\ BootOK'
  BY GotoFacts, SMT DEF TypeTh, TypeMem, PcOK, BootOK, Attached,
     CreateRequest, Threads, PCs, idle
<1> QED
  BY <1>1, <1>2, <1>3, <1>4, <1>5

\* Types are kept by nodePool.free: the index is cleared and an empty block is
\* to be returned.
LEMMA FreeTypes ==
  ASSUME TInv, NEW c \in Containers, Free(c)
  PROVE  TInv'
<1> USE ConstantsAssumption DEF TInv, api, watch, locks, known, gcv, proc,
   kernel, world
<1> DEFINE b == info[c].b
           i == info[c].i
           left == free(alloc[b], i)
<1>a. b \in Blocks /\ i \in Index /\ PoolOf[b] \in Pools /\ alloc[b] \in AllocatorState
  BY DEF Free, TypeTab, Orphan, Addr
<1>b. left \in AllocatorState
  BY <1>a, AllocatorTyped
<1>c. alloc' = [alloc EXCEPT ![b] = left] /\ (UNCHANGED info \/ info' = [info EXCEPT ![c] = None])
  BY DEF Free
<1>d. pmu' \in [Pools -> Orphan(Threads)]
  BY <1>a DEF Free, TypeMem, Orphan, Threads
<1>e. TypeTh' /\ (\A k \in Threads : k # c => th'[k] = th[k]) /\ th'[c].pc \in {"idle", "rmFin"}
  <2>1. CASE isEmpty(left)
    <3> DEFINE r == [idle EXCEPT !.pc = "rmFin", !.pool = PoolOf[b], !.target = b]
    <3>1. r \in Thread /\ r.pc = "rmFin"
      BY <1>a, IdleTyped DEF idle
    <3>2. th' = [th EXCEPT ![c] = r]
      BY <2>1 DEF Free
    <3> HIDE DEF r
    <3> QED
      BY <3>1, <3>2, SetFacts DEF Threads
  <2>2. CASE ~isEmpty(left)
    BY <2>2, ReturnFacts DEF Free, Threads, idle
  <2> QED
    BY <2>1, <2>2
<1> HIDE DEF b, i, left
<1>1. TypeApi'
  BY SMT DEF TypeApi, PcOK, Free, Orphan
<1>2. TypeMem'
  BY <1>d DEF TypeMem, Free
<1>3. TypeTab'
  <2>1. alloc' \in [Blocks -> Orphan(AllocatorState)]
    BY <1>b, <1>c DEF TypeTab, Orphan
  <2>2. info' \in [Containers -> Orphan(Addr)]
    BY <1>c DEF TypeTab, Orphan
  <2> QED
    BY <2>1, <2>2 DEF TypeTab, Free
<1>4. TypeTh'
  BY <1>e
<1>5. PcOK' /\ BootOK'
  BY <1>e DEF TypeMem, PcOK, BootOK, Attached, Free, Threads
<1> QED
  BY <1>1, <1>2, <1>3, <1>4, <1>5

\* Types are kept by BlockRequestWatcher.Reconcile.
LEMMA ReconcileTypes ==
  ASSUME TInv, NEW p \in Pools, Reconcile(p)
  PROVE  TInv'
<1> USE ConstantsAssumption DEF TInv, api, watch, locks, known, gcv, proc,
   kernel, world
<1>1. TypeApi'
  <2>1. notifying' \in Orphan([pool: Pools, req: [id: Nat, res: Answer], at: {"lock", "send"}])
    BY RequestTyped DEF Reconcile, Orphan
  <2> QED
    BY <2>1 DEF TypeApi, Reconcile
<1>2. TypeMem'
  BY DEF TypeMem, TypeApi, PcOK, Reconcile, Orphan, Threads, Recorded
<1>3. TypeTab'
  BY SMT DEF TypeTab, Reconcile, Orphan
<1>4. TypeTh'
  BY SMT DEF TypeTh, Reconcile, Threads, PCs
<1>5. PcOK' /\ BootOK'
  BY SMT DEF TypeTh, TypeMem, PcOK, BootOK, Attached, Reconcile, Threads,
     PCs, idle
<1> QED
  BY <1>1, <1>2, <1>3, <1>4, <1>5

\* Types are kept by the pool look-up of Notify.
LEMMA NotifyLookupTypes ==
  ASSUME TInv, NotifyLookup
  PROVE  TInv'
<1> USE ConstantsAssumption DEF TInv, api, watch, locks, known, gcv, proc,
   kernel, world
<1>1. TypeApi'
  <2> DEFINE Call == [pool: Pools, req: [id: Nat, res: Answer], at: {"lock", "send"}]
  <2>1. notifying \in Call
    BY DEF TypeApi, NotifyLookup, Orphan
  <2>2. [notifying EXCEPT !.at = "send"] \in Call
    BY <2>1
  <2>3. notifying' \in Orphan(Call)
    BY <2>2 DEF NotifyLookup, Orphan
  <2> QED
    BY <2>3 DEF TypeApi, NotifyLookup
<1>2. TypeMem'
  BY DEF TypeMem, TypeApi, PcOK, NotifyLookup, Orphan, Threads, Recorded
<1>3. TypeTab'
  BY SMT DEF TypeTab, NotifyLookup, Orphan
<1>4. TypeTh'
  BY SMT DEF TypeTh, NotifyLookup, Threads, PCs
<1>5. PcOK' /\ BootOK'
  BY SMT DEF TypeTh, TypeMem, PcOK, BootOK, Attached, NotifyLookup, Threads,
     PCs, idle
<1> QED
  BY <1>1, <1>2, <1>3, <1>4, <1>5

\* Types are kept by the controller creating a block.
LEMMA AssignBlockTypes ==
  ASSUME TInv, NEW p \in Pools, NEW b \in Blocks, AssignBlock(p, b)
  PROVE  TInv'
<1> USE ConstantsAssumption DEF TInv, api, watch, locks, known, gcv, proc,
   kernel, world
<1>1. TypeApi'
  <2>1. created("me") \in Object /\ [id |-> req[p].id, res |-> b] \in Orphan(Request)
    BY ObjectTyped, RequestTyped DEF AssignBlock
  <2> QED
    BY <2>1 DEF TypeApi, AssignBlock
<1>2. TypeMem'
  BY DEF TypeMem, TypeApi, PcOK, AssignBlock, Untouched, Orphan, Threads,
     Recorded
<1>3. TypeTab'
  BY SMT DEF TypeTab, AssignBlock, Untouched, Orphan
<1>4. TypeTh'
  BY SMT DEF TypeTh, AssignBlock, Untouched, Threads, PCs
<1>5. PcOK' /\ BootOK'
  BY SMT DEF TypeTh, TypeMem, PcOK, BootOK, Attached, AssignBlock,
     Untouched, Threads, PCs, idle
<1> QED
  BY <1>1, <1>2, <1>3, <1>4, <1>5

\* Types are kept by the controller refusing a request.
LEMMA RefuseRequestTypes ==
  ASSUME TInv, NEW p \in Pools, RefuseRequest(p)
  PROVE  TInv'
<1> USE ConstantsAssumption DEF TInv, api, watch, locks, known, gcv, proc,
   kernel, world
<1>1. TypeApi'
  <2>1. [req[p] EXCEPT !.res = "failed"] \in Orphan(Request)
    BY RequestTyped DEF RefuseRequest
  <2>2. req' \in [Pools -> Orphan(Request)] /\ events' \in [Pools -> Seq(Orphan(Request))]
    BY <2>1, SetRequestTyped DEF RefuseRequest
  <2> QED
    BY <2>2 DEF TypeApi, RefuseRequest
<1>2. TypeMem'
  BY DEF TypeMem, TypeApi, PcOK, RefuseRequest, Untouched, Orphan, Threads,
     Recorded
<1>3. TypeTab'
  BY SMT DEF TypeTab, RefuseRequest, Untouched, Orphan
<1>4. TypeTh'
  BY SMT DEF TypeTh, RefuseRequest, Untouched, Threads, PCs
<1>5. PcOK' /\ BootOK'
  BY SMT DEF TypeTh, TypeMem, PcOK, BootOK, Attached, RefuseRequest,
     Untouched, Threads, PCs, idle
<1> QED
  BY <1>1, <1>2, <1>3, <1>4, <1>5

\* Types are kept by another node acquiring or returning a block.
LEMMA OtherNodeTypes ==
  ASSUME TInv, NEW b \in Blocks, OtherNode(b)
  PROVE  TInv'
<1> USE ConstantsAssumption DEF TInv, api, watch, locks, known, gcv, proc,
   kernel, world
<1>1. TypeApi'
  <2>1. absent \in Object /\ created("other") \in Object
    BY ObjectTyped
  <2>2. blk' \in [Blocks -> Object]
    <3>1. blk \in [Blocks -> Object]
      BY DEF TypeApi
    <3>2. PICK o \in {absent, created("other")} : blk' = [blk EXCEPT ![b] = o]
      BY DEF OtherNode
    <3> QED
      BY <2>1, <3>1, <3>2
  <2> QED
    BY <2>2 DEF TypeApi, OtherNode
<1>2. TypeMem'
  BY DEF TypeMem, TypeApi, PcOK, OtherNode, Untouched, Orphan, Threads,
     Recorded
<1>3. TypeTab'
  BY SMT DEF TypeTab, OtherNode, Untouched, Orphan
<1>4. TypeTh'
  BY SMT DEF TypeTh, OtherNode, Untouched, Threads, PCs
<1>5. PcOK' /\ BootOK'
  BY SMT DEF TypeTh, TypeMem, PcOK, BootOK, Attached, OtherNode, Untouched,
     Threads, PCs, idle
<1> QED
  BY <1>1, <1>2, <1>3, <1>4, <1>5

-----------------------------------------------------------------------------
(* Restarts and returns of the garbage collector *)

\* A restart of coild leaves typed, empty memory; it needs the API objects and
\* the kernel state to be typed.
LEMMA RestartTypes ==
  ASSUME TInv, NEW keep, Restart(keep),
         UNCHANGED <<req, reqs, grant>>,
         blk' \in [Blocks -> Object],
         veth' \in [Containers -> Orphan(Addr)],
         keep \subseteq {c \in Containers : veth'[c] # None},
         routes' \subseteq Blocks,
         failed' \subseteq Recorded,
         panicked' \subseteq {"unknownBlock", "fullBlock", "free"}
  PROVE  TInv'
<1> USE DEF TInv, api, watch, locks, known, gcv, proc, kernel, world
<1>0. th' = [g \in Threads |-> idle] /\ boot' = keep /\ mode' = "boot"
  BY DEF Restart
<1>1. TypeApi'
  <2>1. events' \in [Pools -> Seq(Orphan(Request))]
    BY DEF Restart
  <2>2. dirty' \in [Pools -> BOOLEAN]
    BY DEF Restart, Completed
  <2> QED
    BY <2>1, <2>2 DEF TypeApi, Restart, Orphan
<1>2. TypeMem'
  BY DEF TypeMem, Restart, Orphan
<1>3. TypeTab'
  BY DEF TypeTab, Restart, Orphan
<1>4. TypeTh'
  BY <1>0, IdleTyped DEF TypeTh
<1>5. \A g \in Threads : th'[g].pc = "idle"
  BY <1>0, IdleTyped
<1>6. PcOK'
  BY <1>5 DEF PcOK, Threads
<1>7. BootOK'
  BY <1>0, <1>5 DEF BootOK, Attached, Threads
<1> QED
  BY <1>1, <1>2, <1>3, <1>4, <1>6, <1>7

\* veth is not changed by the actions that end in a restart, but Reboot.
LEMMA AttachedKept ==
  ASSUME TInv, UNCHANGED veth
  PROVE  Attached \subseteq {c \in Containers : veth'[c] # None}
BY DEF Attached

\* A panic is a restart.
LEMMA PanicTypes ==
  ASSUME TInv, NEW site \in {"unknownBlock", "fullBlock", "free"}, Panic(site)
  PROVE  TInv'
<1> USE DEF TInv, api, watch, locks, known, gcv, proc, kernel, world
<1>1. UNCHANGED <<blk, req, reqs, grant, veth, routes, failed>> /\ Restart(Attached)
  BY DEF Panic
<1>2. panicked' \subseteq {"unknownBlock", "fullBlock", "free"}
  BY DEF Panic, TypeMem
<1>3. blk' \in [Blocks -> Object] /\ veth' \in [Containers -> Orphan(Addr)]
        /\ routes' \subseteq Blocks /\ failed' \subseteq Recorded
  BY <1>1 DEF TypeApi, TypeTab, TypeMem
<1> QED
  BY <1>1, <1>2, <1>3, AttachedKept, RestartTypes

\* The garbage collector returns: its locks are released, or, if the start-up
\* GC failed, the process ends.
LEMMA EndGCTypes ==
  ASSUME TInv, NEW ok, EndGC(ok), th[GC].pc # "idle",
         UNCHANGED <<req, reqs, grant, veth, panicked>>,
         blk' \in [Blocks -> Object],
         routes' \subseteq Blocks,
         failed' \subseteq Recorded
  PROVE  TInv'
<1> USE DEF TInv, api, watch, locks, known, gcv, proc, kernel, world
<1>1. CASE Restart(Attached)
  <2>1. veth' \in [Containers -> Orphan(Addr)]
          /\ panicked' \subseteq {"unknownBlock", "fullBlock", "free"}
    BY DEF TypeTab, TypeMem
  <2> QED
    BY <1>1, <2>1, AttachedKept, RestartTypes
<1>2. CASE /\ mode' = "up" /\ nmu' = None
           /\ pmu' = [p \in Pools |-> IF pmu[p] = GC THEN None ELSE pmu[p]]
           /\ Return(GC) /\ visit' = {} /\ empties' = {}
           /\ UNCHANGED <<boot, known, info, watch>>
  <2>1. TypeTh' /\ th'[GC] = idle /\ (\A k \in Threads : k # GC => th'[k] = th[k])
    BY <1>2, ReturnFacts DEF Threads
  <2>2. boot = {}
    BY DEF BootOK
  <2>3. TypeApi'
    BY <1>2 DEF TypeApi
  <2>4. TypeMem'
    BY <1>2 DEF TypeMem, Orphan
  <2>5. TypeTab'
    BY <1>2 DEF TypeTab
  <2>6. PcOK'
    BY <2>1, ConstantsAssumption DEF PcOK, Threads
  <2>7. BootOK'
    BY <1>2, <2>2 DEF BootOK
  <2> QED
    BY <2>1, <2>3, <2>4, <2>5, <2>6, <2>7
<1> QED
  BY <1>1, <1>2 DEF EndGC

\* The error returns of the threads that delete blocks or export routes.
LEMMA ErrorReturnTypes ==
  ASSUME TInv, NEW g \in Threads, ErrorReturn(g), th[g].pc # "idle",
         UNCHANGED <<req, reqs, grant, veth, panicked>>,
         blk' \in [Blocks -> Object],
         routes' \subseteq Blocks,
         failed' \subseteq Recorded
  PROVE  TInv'
<1>1. CASE g = GC
  BY <1>1, EndGCTypes DEF ErrorReturn
<1>2. CASE g # GC
  <2> USE DEF TInv
  <2>1. /\ pmu' = [p \in Pools |-> IF pmu[p] = g THEN None ELSE pmu[p]]
        /\ Return(g)
        /\ UNCHANGED <<proc, nmu, known, info, gcv, watch>>
    BY <1>2 DEF ErrorReturn
  <2>2. TypeTh' /\ th'[g] = idle /\ (\A k \in Threads : k # g => th'[k] = th[k])
    BY <2>1, ReturnFacts
  <2>3. th'[g].pc = "idle"
    BY <2>2, IdleTyped
  <2>4. TypeApi'
    BY <2>1 DEF TypeApi, watch
  <2>5. TypeMem'
    BY <2>1 DEF TypeMem, known, proc, gcv, Orphan
  <2>6. TypeTab'
    BY <2>1 DEF TypeTab, known
  <2>7. PcOK'
    BY <2>2, <2>3 DEF PcOK, Threads
  <2>8. BootOK'
    BY <1>2, <2>1, <2>2, <2>3 DEF BootOK, Attached, proc, Threads
  <2> QED
    BY <2>2, <2>4, <2>5, <2>6, <2>7, <2>8
<1> QED
  BY <1>1, <1>2

\* Types are kept by a crash of coild.
LEMMA CrashTypes ==
  ASSUME TInv, Crash
  PROVE  TInv'
<1> USE DEF TInv, api, watch, locks, known, gcv, proc, kernel, world
<1>1. UNCHANGED <<blk, req, reqs, grant, veth, routes, panicked>> /\ Restart(Attached)
  BY DEF Crash
<1>2. failed' \subseteq Recorded
  BY DEF Crash, Fails, TypeMem
<1>3. blk' \in [Blocks -> Object] /\ veth' \in [Containers -> Orphan(Addr)]
        /\ routes' \subseteq Blocks
        /\ panicked' \subseteq {"unknownBlock", "fullBlock", "free"}
  BY <1>1 DEF TypeApi, TypeTab, TypeMem
<1> QED
  BY <1>1, <1>2, <1>3, AttachedKept, RestartTypes

\* Types are kept by a reboot of the node.
LEMMA RebootTypes ==
  ASSUME TInv, Reboot
  PROVE  TInv'
<1> USE DEF TInv, api, watch, locks, known, gcv, proc, kernel, world
<1>1. UNCHANGED <<blk, req, reqs, grant, panicked>> /\ Restart({})
  BY DEF Reboot
<1>2. failed' \subseteq Recorded
  BY DEF Reboot, Fails, TypeMem
<1>3. blk' \in [Blocks -> Object] /\ veth' \in [Containers -> Orphan(Addr)]
        /\ routes' \subseteq Blocks
        /\ panicked' \subseteq {"unknownBlock", "fullBlock", "free"}
  BY <1>1 DEF Reboot, TypeApi, TypeTab, TypeMem, Orphan
<1> QED
  BY <1>1, <1>2, <1>3, RestartTypes

\* Types are kept by a shutdown that clears the exported routes.
LEMMA ClearRoutesTypes ==
  ASSUME TInv, ClearRoutes
  PROVE  TInv'
<1> USE DEF TInv, api, watch, locks, known, gcv, proc, kernel, world
<1>1. /\ UNCHANGED <<blk, req, reqs, grant, veth, panicked>>
      /\ Restart(Attached)
      /\ routes' \subseteq routes
  BY DEF ClearRoutes
<1>2. failed' \subseteq Recorded
  BY DEF ClearRoutes, Fails, TypeMem
<1>3. blk' \in [Blocks -> Object] /\ veth' \in [Containers -> Orphan(Addr)]
        /\ routes' \subseteq Blocks
        /\ panicked' \subseteq {"unknownBlock", "fullBlock", "free"}
  BY <1>1 DEF TypeApi, TypeTab, TypeMem
<1> QED
  BY <1>1, <1>2, <1>3, AttachedKept, RestartTypes

\* Types are kept by a failed Register, which ends the process.
LEMMA RegisterFailsTypes ==
  ASSUME TInv, RegisterFails
  PROVE  TInv'
<1> USE DEF TInv, api, watch, locks, known, gcv, proc, kernel, world
<1>1. UNCHANGED <<blk, req, reqs, grant, veth, routes, panicked>> /\ Restart(Attached)
  BY DEF RegisterFails
<1>2. failed' \subseteq Recorded
  BY DEF RegisterFails, Fails, TypeMem
<1>3. blk' \in [Blocks -> Object] /\ veth' \in [Containers -> Orphan(Addr)]
        /\ routes' \subseteq Blocks
        /\ panicked' \subseteq {"unknownBlock", "fullBlock", "free"}
  BY <1>1 DEF TypeApi, TypeTab, TypeMem
<1> QED
  BY <1>1, <1>2, <1>3, AttachedKept, RestartTypes

\* Types are kept by a failed list in GC.
LEMMA GCListFailsTypes ==
  ASSUME TInv, GCListFails
  PROVE  TInv'
<1> USE DEF TInv, api, watch, locks, known, gcv, proc, kernel, world
<1>1. /\ UNCHANGED <<blk, req, reqs, grant, veth, routes, panicked>>
      /\ EndGC(FALSE) /\ th[GC].pc # "idle"
  BY DEF GCListFails
<1>2. failed' \subseteq Recorded
  BY DEF GCListFails, Fails, TypeMem
<1>3. blk' \in [Blocks -> Object] /\ routes' \subseteq Blocks
  BY <1>1 DEF TypeApi, TypeMem
<1> QED
  BY <1>1, <1>2, <1>3, EndGCTypes

\* Types are kept by the error returns of deleteBlock and sync.
LEMMA BlockStepFailsTypes ==
  ASSUME TInv, NEW g \in Threads, BlockStepFails(g)
  PROVE  TInv'
<1> USE DEF TInv, api, watch, locks, known, gcv, proc, kernel, world
<1>1. /\ UNCHANGED <<req, reqs, grant, veth, panicked>>
      /\ ErrorReturn(g) /\ th[g].pc # "idle"
  BY DEF BlockStepFails
<1>2. failed' \subseteq Recorded
  BY DEF BlockStepFails, Fails, TypeMem
<1>3. blk' \in [Blocks -> Object]
  BY ObjectTyped DEF BlockStepFails, TypeApi
<1>4. th[g].snap \subseteq Blocks
  BY DEF TypeTh, Thread
<1>5. routes' \subseteq Blocks
  BY <1>4 DEF BlockStepFails, TypeMem
<1> QED
  BY <1>1, <1>2, <1>3, <1>5, ErrorReturnTypes

\* Types are kept by the two panics of nodePool.allocate.
LEMMA ResultPanicsTypes ==
  ASSUME TInv, NEW c \in Containers, ResultPanics(c)
  PROVE  TInv'
BY PanicTypes DEF ResultPanics

\* Types are kept by the panic of nodePool.free.
LEMMA FreePanicsTypes ==
  ASSUME TInv, NEW c \in Containers, FreePanics(c)
  PROVE  TInv'
BY PanicTypes DEF FreePanics

-----------------------------------------------------------------------------
\* Types are kept by the allocation from the received block: syncBlock, then
\* allocate.
LEMMA ResultAllocateTypes ==
  ASSUME TInv, NEW c \in Containers, ResultAllocate(c)
  PROVE  TInv'
<1> USE ConstantsAssumption DEF TInv, api, watch, locks, known, gcv, proc,
   kernel, world
<1> DEFINE p == th[c].pool
           b == th[c].got
           synced == syncBlock(p)
           r == [idle EXCEPT !.pc = "list", !.addr = [b |-> b, i |-> NextIndex(synced[b])]]
<1>a. b \in Blocks
  BY DEF ResultAllocate, PcOK, Answer
<1>b. synced \in [Blocks -> Orphan(AllocatorState)] /\ synced[b] # None /\ ~isFull(synced[b])
  BY syncBlockTyped DEF ResultAllocate
<1>c. synced[b] \in AllocatorState
  BY <1>a, <1>b DEF Orphan
<1>d. NextIndex(synced[b]) \in Index /\ allocate(synced[b]) \in AllocatorState
  BY <1>c, <1>b, NextIndexIsClear, AllocatorTyped
<1>e. r \in Thread /\ r.pc = "list"
  <2>1. [b |-> b, i |-> NextIndex(synced[b])] \in Addr
    BY <1>a, <1>d DEF Addr
  <2> HIDE DEF synced, b
  <2> QED
    BY <2>1, IdleTyped DEF idle
<1>f. alloc' = [synced EXCEPT ![b] = allocate(synced[b])] /\ th' = [th EXCEPT ![c] = r]
  BY DEF ResultAllocate
<1> HIDE DEF r, synced
<1>g. TypeTh' /\ th'[c] = r /\ (\A k \in Threads : k # c => th'[k] = th[k])
  BY <1>e, <1>f, SetFacts DEF Threads
<1>h. UNCHANGED <<world, nmu, pools, info, gcv, kernel, failed>> /\ Unlock(p)
  BY DEF ResultAllocate
<1>1. TypeApi'
  BY <1>h DEF TypeApi
<1>2. TypeMem'
  BY <1>h DEF TypeMem, Unlock, Orphan
<1>3. TypeTab'
  BY <1>b, <1>d, <1>f, <1>h DEF TypeTab, Orphan
<1>4. TypeTh'
  BY <1>g
<1>5. PcOK' /\ BootOK'
  <2>1. th[c].pc = "got" /\ mode' = mode /\ boot' = boot /\ veth' = veth
    BY <1>h DEF ResultAllocate
  <2> QED
    BY <2>1, <1>e, <1>g, ConstantsAssumption DEF TypeMem, PcOK, BootOK,
       Attached, Threads
<1> QED
  BY <1>1, <1>2, <1>3, <1>4, <1>5

\* Types are kept by the Delete call of deleteBlock.
LEMMA DeleteObjectTypes ==
  ASSUME TInv, NEW g \in Threads, DeleteObject(g)
  PROVE  TInv'
<1> USE ConstantsAssumption DEF TInv, api, watch, locks, known, gcv, proc,
   kernel, world
<1>1. TypeApi'
  BY ObjectTyped DEF TypeApi, DeleteObject
<1>2. TypeMem'
  BY DEF TypeMem, DeleteObject, Unlock, Orphan
<1>3. TypeTab'
  BY DEF TypeTab, DeleteObject, forget, Orphan
<1>4. PICK r \in Thread : th' = [th EXCEPT ![g] = r] /\ r.pc \in {"list", "gcBlocks"}
  <2>1. CASE g = GC
    <3>1. th[g] \in Thread
      BY DEF TypeTh
    <3>2. [th[g] EXCEPT !.pc = "gcBlocks", !.target = None] \in Thread
      BY <3>1 DEF Thread, PCs, Orphan
    <3>3. [th[g] EXCEPT !.pc = "gcBlocks", !.target = None].pc = "gcBlocks"
      BY <3>1 DEF Thread
    <3>4. th' = [th EXCEPT ![g] = [th[g] EXCEPT !.pc = "gcBlocks", !.target = None]]
      BY <2>1 DEF DeleteObject, TypeTh
    <3> QED
      BY <3>2, <3>3, <3>4
  <2>2. CASE g # GC
    <3>1. [idle EXCEPT !.pc = "list"] \in Thread /\ [idle EXCEPT !.pc = "list"].pc = "list"
      BY IdleTyped DEF idle, PCs
    <3> QED
      BY <2>2, <3>1 DEF DeleteObject
  <2> QED
    BY <2>1, <2>2
<1>5. TypeTh' /\ th'[g] = r /\ (\A k \in Threads : k # g => th'[k] = th[k])
  BY <1>4, SetFacts
<1>6. th[g].pc = "delete" /\ UNCHANGED <<mode, boot, veth>>
  BY DEF DeleteObject
<1>7. PcOK' /\ BootOK'
  BY <1>4, <1>5, <1>6 DEF TypeMem, PcOK, BootOK, Attached, Threads
<1> QED
  BY <1>1, <1>2, <1>3, <1>5, <1>7

\* Types are kept by the list of nodeIPAM.sync.
LEMMA SyncListTypes ==
  ASSUME TInv, NEW g \in Threads, SyncList(g)
  PROVE  TInv'
<1> USE ConstantsAssumption DEF TInv, api, watch, locks, known, gcv, proc,
   kernel, world
<1> DEFINE r == [th[g] EXCEPT !.pc = "export", !.snap = Mine]
<1>1. th[g] \in Thread /\ Mine \subseteq Blocks
  BY DEF TypeTh, Mine
<1>2. r \in Thread /\ r.pc = "export"
  BY <1>1 DEF Thread, PCs
<1>3. th' = [th EXCEPT ![g] = r] /\ th[g].pc = "list"
        /\ UNCHANGED <<world, locks, known, info, gcv, kernel, failed>>
  BY DEF SyncList, TypeTh
<1> HIDE DEF r
<1>4. TypeTh' /\ th'[g] = r /\ (\A k \in Threads : k # g => th'[k] = th[k])
  BY <1>2, <1>3, SetFacts
<1>5. TypeApi' /\ TypeTab'
  BY <1>3 DEF TypeApi, TypeTab
<1>6. TypeMem'
  BY <1>3 DEF TypeMem
<1>7. PcOK' /\ BootOK'
  BY <1>2, <1>3, <1>4 DEF TypeMem, PcOK, BootOK, Attached, Threads
<1> QED
  BY <1>4, <1>5, <1>6, <1>7

\* Types are kept by the route export of nodeIPAM.sync.
LEMMA SyncExportTypes ==
  ASSUME TInv, NEW g \in Threads, SyncExport(g)
  PROVE  TInv'
<1> USE ConstantsAssumption DEF TInv, api, watch, locks, known, gcv, proc,
   kernel, world
<1>0. th[g] \in Thread /\ th[g].pc = "export" /\ UNCHANGED <<blk, req, reqs, grant, veth, failed, panicked>>
  BY DEF SyncExport, TypeTh
<1>1. blk' \in [Blocks -> Object] /\ routes' \subseteq Blocks /\ failed' \subseteq Recorded
  BY <1>0 DEF TypeApi, TypeMem, SyncExport, exported, Thread
<1>2. CASE g = GC /\ EndGC(TRUE)
  BY <1>0, <1>1, <1>2, EndGCTypes
<1>3. CASE g # GC /\ ~(g = GC /\ EndGC(TRUE))
  <2>1. /\ info' = [info EXCEPT ![g] = th[g].addr]
        /\ th' = [th EXCEPT ![g] = IF th[g].addr = None THEN idle
                                   ELSE [idle EXCEPT !.pc = "setup"]]
        /\ UNCHANGED <<watch, proc, locks, known, gcv>>
    BY <1>3 DEF SyncExport
  <2>2. PICK r \in Thread : th' = [th EXCEPT ![g] = r] /\ r.pc \in {"idle", "setup"}
    <3>1. [idle EXCEPT !.pc = "setup"] \in Thread /\ [idle EXCEPT !.pc = "setup"].pc = "setup"
      BY IdleTyped DEF idle, PCs
    <3> QED
      BY <2>1, <3>1, IdleTyped, Zenon
  <2>3. TypeTh' /\ th'[g] = r /\ (\A k \in Threads : k # g => th'[k] = th[k])
    BY <2>2, SetFacts
  <2>4. TypeApi'
    BY <1>0, <2>1 DEF TypeApi
  <2>5. TypeMem'
    BY <1>0, <1>1, <2>1 DEF TypeMem
  <2>6. TypeTab'
    BY <1>0, <2>1 DEF TypeTab, Thread
  <2>7. PcOK' /\ BootOK'
    BY <1>0, <1>3, <2>1, <2>2, <2>3 DEF TypeMem, PcOK, BootOK, Attached,
       Threads
  <2> QED
    BY <2>3, <2>4, <2>5, <2>6, <2>7
<1> QED
  BY <1>2, <1>3 DEF SyncExport

\* Types are kept by nodeIPAM.Register at start-up.
LEMMA RegisterTypes ==
  ASSUME TInv, NEW c \in Containers, Register(c)
  PROVE  TInv'
<1> USE ConstantsAssumption DEF TInv, api, watch, locks, known, gcv, proc,
   kernel, world
<1> DEFINE b == veth[c].b
           i == veth[c].i
           p == PoolOf[b]
           synced == IF p \in pools THEN alloc ELSE syncBlock(p)
<1>1. veth[c] \in Addr
  BY DEF Register, BootOK, Attached, TypeTab, Orphan
<1>2. b \in Blocks /\ i \in Index /\ p \in Pools
  BY <1>1 DEF Addr
<1>3. synced \in [Blocks -> Orphan(AllocatorState)]
  BY syncBlockTyped DEF TypeTab
<1>4. /\ boot' = boot \ {c} /\ pools' = pools \cup {p}
      /\ \/ /\ synced[b] # None
            /\ alloc' = [synced EXCEPT ![b] = register(synced[b], i)]
            /\ info' = [info EXCEPT ![c] = veth[c]]
         \/ alloc' = synced /\ UNCHANGED info
      /\ UNCHANGED <<api, watch, mode, locks, th, gcv, kernel, failed, panicked>>
  BY DEF Register
<1> HIDE DEF b, i, p, synced
<1>5. TypeTab'
  <2>1. synced[b] # None => register(synced[b], i) \in AllocatorState
    BY <1>2, <1>3, AllocatorTyped DEF Orphan
  <2>2. alloc' \in [Blocks -> Orphan(AllocatorState)]
    BY <1>3, <1>4, <2>1 DEF Orphan
  <2>3. info' \in [Containers -> Orphan(Addr)]
    BY <1>1, <1>4 DEF TypeTab, Orphan
  <2> QED
    BY <1>4, <2>2, <2>3 DEF TypeTab
<1>6. TypeApi' /\ TypeTh'
  BY <1>4 DEF TypeApi, TypeTh
<1>7. TypeMem'
  BY <1>2, <1>4 DEF TypeMem
<1>8. PcOK' /\ BootOK'
  BY <1>4 DEF PcOK, BootOK, Attached
<1> QED
  BY <1>5, <1>6, <1>7, <1>8

\* Types are kept by nodePool.gc up to the first deletion.
LEMMA GCPoolTypes ==
  ASSUME TInv, NEW p \in Pools, GCPool(p)
  PROVE  TInv'
<1> USE ConstantsAssumption DEF TInv, api, watch, locks, known, gcv, proc,
   kernel, world
<1> DEFINE r == [th[GC] EXCEPT !.pc = "gcBlocks", !.pool = p]
<1>1. th[GC] \in Thread /\ GC \in Threads
  BY DEF TypeTh, Threads
<1>2. r \in Thread /\ r.pc = "gcBlocks"
  BY <1>1 DEF Thread, PCs, Orphan
<1>3. th' = [th EXCEPT ![GC] = r] /\ th[GC].pc = "gcPool"
  BY <1>1 DEF GCPool, TypeTh
<1> HIDE DEF r
<1>4. TypeTh' /\ th'[GC] = r /\ (\A k \in Threads : k # GC => th'[k] = th[k])
  BY <1>1, <1>2, <1>3, SetFacts
<1>5. TypeApi'
  BY DEF GCPool, TypeApi
<1>6. TypeTab'
  BY syncBlockTyped DEF GCPool, TypeTab
<1>7. TypeMem'
  BY DEF GCPool, TypeMem, Orphan, Threads, emptyBlocks, InPool
<1>8. PcOK' /\ BootOK'
  BY <1>2, <1>3, <1>4 DEF GCPool, PcOK, BootOK, Attached, Threads
<1> QED
  BY <1>4, <1>5, <1>6, <1>7, <1>8

\* Types are kept by the choice of an empty block in nodePool.gc.
LEMMA GCBlockTypes ==
  ASSUME TInv, NEW b \in Blocks, GCBlock(b)
  PROVE  TInv'
<1> USE ConstantsAssumption DEF TInv, api, watch, locks, known, gcv, proc,
   kernel, world
<1> DEFINE r == [th[GC] EXCEPT !.pc = "rmFin", !.target = b]
<1>1. th[GC] \in Thread /\ GC \in Threads
  BY DEF TypeTh, Threads
<1>2. r \in Thread /\ r.pc = "rmFin"
  BY <1>1 DEF Thread, PCs, Orphan
<1>3. th' = [th EXCEPT ![GC] = r] /\ th[GC].pc = "gcBlocks"
        /\ UNCHANGED <<world, locks, known, info, gcv, kernel, failed>>
  BY <1>1 DEF GCBlock, TypeTh
<1> HIDE DEF r
<1>4. TypeTh' /\ th'[GC] = r /\ (\A k \in Threads : k # GC => th'[k] = th[k])
  BY <1>1, <1>2, <1>3, SetFacts
<1>5. TypeApi' /\ TypeTab'
  BY <1>3 DEF TypeApi, TypeTab
<1>6. TypeMem'
  BY <1>3 DEF TypeMem
<1>7. PcOK' /\ BootOK'
  BY <1>2, <1>3, <1>4 DEF PcOK, BootOK, Attached, Threads
<1> QED
  BY <1>4, <1>5, <1>6, <1>7

\* Types are kept by the end of nodePool.gc.
LEMMA GCPoolDoneTypes ==
  ASSUME TInv, GCPoolDone
  PROVE  TInv'
<1> USE ConstantsAssumption DEF TInv, api, watch, locks, known, gcv, proc,
   kernel, world
<1> DEFINE r == [th[GC] EXCEPT !.pc = "gcPool", !.pool = None]
<1>1. th[GC] \in Thread /\ GC \in Threads
  BY DEF TypeTh, Threads
<1>2. r \in Thread /\ r.pc = "gcPool"
  BY <1>1 DEF Thread, PCs, Orphan
<1>3. th' = [th EXCEPT ![GC] = r] /\ th[GC].pc = "gcBlocks" /\ Unlock(th[GC].pool)
        /\ UNCHANGED <<world, nmu, known, info, gcv, kernel, failed>>
  BY <1>1 DEF GCPoolDone, TypeTh
<1> HIDE DEF r
<1>4. TypeTh' /\ th'[GC] = r /\ (\A k \in Threads : k # GC => th'[k] = th[k])
  BY <1>1, <1>2, <1>3, SetFacts
<1>5. TypeApi' /\ TypeTab'
  BY <1>3 DEF TypeApi, TypeTab
<1>6. TypeMem'
  BY <1>3 DEF TypeMem, Unlock, Orphan
<1>7. PcOK' /\ BootOK'
  BY <1>2, <1>3, <1>4 DEF PcOK, BootOK, Attached, Threads
<1> QED
  BY <1>4, <1>5, <1>6, <1>7

\* Types are kept by the non-blocking send of Notify.
LEMMA NotifySendTypes ==
  ASSUME TInv, NotifySend
  PROVE  TInv'
<1> USE ConstantsAssumption DEF TInv, api, watch, locks, known, gcv, proc,
   kernel, world
<1>1. TypeApi'
  BY DEF NotifySend, TypeApi, Orphan
<1>2. TypeMem' /\ TypeTab'
  BY DEF NotifySend, TypeMem, TypeTab
<1>3. notifying.req.res \in Answer
  BY DEF NotifySend, TypeApi, Orphan
<1>4. CASE UNCHANGED th
  BY <1>1, <1>2, <1>4 DEF NotifySend, TypeTh, PcOK, BootOK, Attached
<1>5. ASSUME NEW c \in Waiters(notifying.pool),
             th' = [th EXCEPT ![c].pc = "got", ![c].got = notifying.req.res]
      PROVE  TypeTh' /\ PcOK' /\ BootOK'
  <2> DEFINE r == [th[c] EXCEPT !.pc = "got", !.got = notifying.req.res]
  <2>1. c \in Containers /\ c \in Threads /\ th[c] \in Thread /\ th[c].pc = "wait"
    BY DEF Waiters, TypeTh, Threads
  <2>2. r \in Thread /\ r.pc = "got" /\ r.pool = th[c].pool /\ r.got \in Answer
    BY <1>3, <2>1 DEF Thread, PCs, Orphan
  <2>3. th' = [th EXCEPT ![c] = r]
    BY <1>5, <2>1 DEF TypeTh
  <2> HIDE DEF r
  <2>4. TypeTh' /\ th'[c] = r /\ (\A k \in Threads : k # c => th'[k] = th[k])
    BY <2>1, <2>2, <2>3, SetFacts
  <2>5. UNCHANGED <<mode, boot, veth>>
    BY DEF NotifySend
  <2>6. PcOK'
    BY <2>1, <2>2, <2>4 DEF PcOK, Threads
  <2>7. BootOK'
    BY <2>1, <2>2, <2>4, <2>5 DEF TypeMem, BootOK, Attached, Threads
  <2> QED
    BY <2>4, <2>6, <2>7
<1> QED
  BY <1>1, <1>2, <1>4, <1>5 DEF NotifySend

-----------------------------------------------------------------------------
(* Type correctness *)

\* The initial state is typed and every thread is idle.
LEMMA InitTypes == Init => TInv
<1> SUFFICES ASSUME Init
             PROVE  TInv
  OBVIOUS
<1> USE ConstantsAssumption
<1>1. TypeApi
  <2>1. blk \in [Blocks -> Object]
    BY DEF Init, Object, absent, created
  <2>2. events \in [Pools -> Seq(Orphan(Request))]
    BY DEF Init
  <2> QED
    BY <2>1, <2>2 DEF TypeApi, Init, Orphan
<1>2. TypeMem
  BY DEF TypeMem, Init, Orphan
<1>3. TypeTab
  BY DEF TypeTab, Init, Orphan
<1>4. TypeTh
  BY IdleTyped DEF TypeTh, Init
<1>5. \A g \in Threads : th[g].pc = "idle"
  BY IdleTyped DEF Init
<1>6. PcOK /\ BootOK
  BY <1>5 DEF PcOK, BootOK, Attached, Threads, Init
<1> QED
  BY <1>1, <1>2, <1>3, <1>4, <1>6 DEF TInv

\* Every step of coild, of the watcher and of the rest of the cluster keeps
\* the variables typed.
LEMMA NextTypes ==
  ASSUME TInv, [Next]_vars
  PROVE  TInv'
<1>1. ASSUME NEW c \in Containers, BeginAdd(c) \/ BeginDel(c) \/ FreeStep(c)
      PROVE  TInv'
  BY <1>1, BeginAddTypes, BeginDelTypes, FreeUnknownTypes, FreeTypes,
     FreePanicsTypes DEF FreeStep
<1>2. ASSUME NEW c \in Containers, AddStep(c)
      PROVE  TInv'
  BY <1>2, GetPoolTypes, GetPoolFailsTypes, AllocateKnownTypes,
     AllocateFullTypes, DeleteRequestTypes, CreateRequestTypes,
     EnterSelectTypes, ResultAllocateTypes, ResultPanicsTypes,
     AllocateFailsTypes, SetupIPAMTypes, SetupIPAMFailsTypes DEF AddStep
<1>3. ASSUME NEW g \in Threads, BlockStep(g)
      PROVE  TInv'
  BY <1>3, RemoveFinalizerTypes, DeleteObjectTypes, SyncListTypes,
     SyncExportTypes, BlockStepFailsTypes DEF BlockStep
<1>4. CASE BeginGC \/ GCStep
  BY <1>4, BeginGCTypes, ScanPoolsTypes, GCListFailsTypes, GCLockTypes,
     GCPoolDoneTypes, GCPoolsDoneTypes, GCGetPoolTypes, GCPoolTypes,
     GCBlockTypes DEF GCStep
<1>5. CASE BootStep
  BY <1>5, RegisterFailsTypes, RegisterTypes DEF BootStep
<1>6. CASE WatchStep
  BY <1>6, NotifyLookupTypes, NotifySendTypes, ObserveTypes, ReconcileTypes
     DEF WatchStep
<1>7. CASE Environment
  BY <1>7, CrashTypes, RebootTypes, ClearRoutesTypes, AnswerRequestTypes,
     RefuseRequestTypes, AssignBlockTypes, OtherNodeTypes, UserDeleteTypes DEF Environment
<1>8. CASE UNCHANGED vars
  BY <1>8 DEF vars, api, watch, locks, known, gcv, proc, kernel, TInv, TypeApi,
     TypeMem, TypeTab, TypeTh, PcOK, BootOK, Attached
<1> QED
  BY <1>1, <1>2, <1>3, <1>4, <1>5, <1>6, <1>7, <1>8 DEF Next

\* Every reachable state of coild is typed: the bitsets only hold indexes of
\* the block, allocInfoMap only addresses of blocks, the locks are held by
\* threads, and a Notify call carries a completed BlockRequest.
THEOREM TypeCorrect == Spec => []TypeOK
<1>1. TInv /\ [Next]_vars => TInv'
  BY NextTypes
<1> QED
  BY InitTypes, <1>1, TInvImpliesTypeOK, PTL DEF Spec
=============================================================================
