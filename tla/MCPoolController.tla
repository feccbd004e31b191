-------------------------- MODULE MCPoolController --------------------------
(* Instances of PoolController for TLC. *)
EXTENDS PoolController

CONSTANTS n1, n2, r1, r2

\* The two requests come from different nodes.
TwoNodes == [u \in Reqs |-> IF u = r1 THEN n1 ELSE n2]

\* One node asks twice, one request after the other.
OneNode == [u \in Reqs |-> n1]

\* Dual stack subnets of one block, side by side; one that is too narrow for a
\* block; one whose number of blocks overflows uint.
Dual(a, b, host) == [f \in Families |->
                        [base |-> IF f = "v4" THEN a ELSE b, host |-> host]]
A == Dual(8, 16, 1)
B == Dual(10, 18, 1)
Narrow == Dual(12, 20, 0)
Wide == [f \in Families |-> IF f = "v4" THEN None ELSE [base |-> 32, host |-> 3]]

PoolOf(s) == [bits |-> 1, subnets |-> s]
CreatedOne == {PoolOf(<<A>>)}
UpdatedNone == {}
CreatedAny == {PoolOf(<<A>>), PoolOf(<<Wide>>), PoolOf(<<Narrow>>)}
UpdatedAny == {PoolOf(<<A, B>>), PoolOf(<<B, A>>), PoolOf(<<A, Narrow>>),
               PoolOf(<<Wide, A>>)}
=============================================================================
