------------------------------ MODULE NodeLease ------------------------------
(* NodeIPAM implements AddressLease. *)
EXTENDS NodeIPAM

\* A pod uses the address of its veth, also while coild is down; before and
\* after that the address is the one coild owns for the container.
Leased(c) == IF Void THEN None
             ELSE IF veth[c] # None THEN veth[c] ELSE Owned(c)

Lease == INSTANCE AddressLease WITH
            held <- IF Void THEN {} ELSE Mine \ Reserved,
            lease <- [c \in Containers |-> Leased(c)],
            void <- Void

\* Every step of coild, of its threads, crashes and of the cluster is a step of
\* AddressLease or changes neither the blocks nor the leases: no address is
\* given to a container while another one uses it, pods that outlive a coild
\* included, no block goes back while a pod or a call has an address of it, and
\* a reserved block is not for leases.
LeaseSpec == Lease!Spec
=============================================================================
