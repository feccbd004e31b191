----------------------------- MODULE Allocator -----------------------------
(***************************************************************************)
(* pkg/ipam/allocator.go: the per-block address allocator of coild.  A     *)
(* block of Size addresses is a bitset and the index allocated last; an    *)
(* address is its offset from the base of the block, so the conversions    *)
(* between net.IP and the offset (netutil.IPAdd, IPDiff) are not modelled. *)
(***************************************************************************)
EXTENDS Integers

CONSTANT Size   \* addresses in a block: 1 << blockSizeBits

ASSUME SizeAssumption == Size \in Nat \ {0}

Index == 0 .. Size - 1

\* usage is the set of bits that are set; last is lastAllocIdx, -1 at first.
AllocatorState == [usage: SUBSET Index, last: Index \cup {-1}]

newAllocator == [usage |-> {}, last |-> -1]

isFull(a) == a.usage = Index

isEmpty(a) == a.usage = {}

\* A reserved block is filled when it is found, so nothing is allocated from it.
fill == [usage |-> Index, last |-> Size - 1]

Set(a, idx) == [usage |-> a.usage \cup {idx}, last |-> idx]

\* Mutant of register: the bit is not set.
registerNothing(a, idx) == a

\* register(ip) for an address inside the block.
register(a, idx) == Set(a, idx)

\* The clear bits at or above from, the candidates of bitset.NextClear.
ClearFrom(a, from) == {i \in Index \ a.usage : i >= from}

Lowest(S) == CHOOSE i \in S : \A j \in S : i <= j

\* Mutants of NextIndex: no search, and no rotation.
NextIndexUnchecked(a) == a.last + 1
NextIndexFirstFit(a) == Lowest(ClearFrom(a, 0))

(***************************************************************************)
(* The index allocate() picks in a block that is not full: the first clear *)
(* one after the index allocated last or, when there is none, the first    *)
(* clear one of the block.                                                 *)
(***************************************************************************)
NextIndex(a) ==
    LET after == ClearFrom(a, a.last + 1)
    IN  IF after # {} THEN Lowest(after) ELSE Lowest(ClearFrom(a, 0))

\* The allocator after allocate() has returned NextIndex(a).
allocate(a) == Set(a, NextIndex(a))

\* Mutant of free: the bit stays set.
freeNothing(a, idx) == a

free(a, idx) == [a EXCEPT !.usage = @ \ {idx}]
=============================================================================
