------------------------------ MODULE MCRouter ------------------------------
(* Two peers of the router's node; dual-stack and single-stack statuses.  *)
EXTENDS Router

CONSTANTS n0, n1, n2, b1, b2, a1, a2, c1

\* a1, a2 are IPv4 addresses, c1 is an IPv6 address.
FamsOfBlocks == [b \in Blocks |-> IF b = b1 THEN Families ELSE {"v4"}]
NodeStatuses == {[v4 |-> a1, v6 |-> c1], [v4 |-> a2, v6 |-> None]}

=============================================================================
