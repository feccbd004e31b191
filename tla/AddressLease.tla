---------------------------- MODULE AddressLease ----------------------------
(***************************************************************************)
(* What the IPAM of a node promises to the containers (the interface       *)
(* NodeIPAM of pkg/ipam/node.go): the node holds blocks, and an address of *)
(* a block it holds is leased to one container at a time.  There are no    *)
(* threads, calls, bitsets or restarts here.                               *)
(***************************************************************************)
CONSTANTS
    Containers,
    Blocks,
    Addr,       \* the addresses, records with their block in field b
    None

VARIABLES
    held,   \* blocks of this node
    lease,  \* the address of each container
    void    \* the promise has ended

vars == <<held, lease, void>>

noLease == [c \in Containers |-> None]

Init ==
    /\ held \subseteq Blocks
    /\ lease = noLease
    /\ void = FALSE

LeasedIn(b) == {c \in Containers : lease[c] # None /\ lease[c].b = b}

Acquire(b) ==
    /\ held' = held \cup {b}
    /\ UNCHANGED <<lease, void>>

\* A block goes back only when no address of it is leased.
Return(b) ==
    /\ LeasedIn(b) = {}
    /\ held' = held \ {b}
    /\ UNCHANGED <<lease, void>>

\* A new lease is of an address that nobody has, in a block that is held.
Grant(c, a) ==
    /\ lease[c] = None
    /\ a.b \in held
    /\ \A d \in Containers : lease[d] # a
    /\ lease' = [lease EXCEPT ![c] = a]
    /\ UNCHANGED <<held, void>>

\* The leases of C end: by a call of one container, or of several at once by
\* the end of the process or of the machine.
End(C) ==
    /\ lease' = [c \in Containers |-> IF c \in C THEN None ELSE lease[c]]
    /\ UNCHANGED <<held, void>>

Abandon ==
    /\ void' = TRUE
    /\ lease' = noLease
    /\ held' = {}

Next ==
    \/ /\ ~void
       /\ \/ \E b \in Blocks : Acquire(b) \/ Return(b)
          \/ \E c \in Containers, a \in Addr : Grant(c, a)
          \/ \E C \in SUBSET Containers : End(C)
    \/ Abandon

Spec == Init /\ [][Next]_vars
=============================================================================
