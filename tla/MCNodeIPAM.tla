---------------------------- MODULE MCNodeIPAM ----------------------------
(* Instances of NodeIPAM for TLC. *)
EXTENDS NodeLease, TLC

CONSTANTS p1, b1, b2, b3

OnePool == [b \in Blocks |-> p1]

Symmetric == Permutations(Containers)

\* The run with partial failures combines those of gc with user deletions.  It
\* follows an abandoned Free, after which its properties promise nothing more,
\* and a leaked index only if nothing else has failed.
AbandonedAlone ==
    HalfFreed \/ "addSync" \in failed => Cardinality(failed) = 1

=============================================================================
