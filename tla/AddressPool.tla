----------------------------- MODULE AddressPool -----------------------------
(***************************************************************************)
(* The AddressPool type and its webhook (api/v2/addresspool_types.go,      *)
(* api/v2/addresspool_webhook.go).  An IP address is a number, a subnet    *)
(* its first address and its host bits; parsed CIDRs are meant, so that    *)
(* what ParseCIDR refuses is left out.                                     *)
(***************************************************************************)
EXTENDS Integers, Sequences

CONSTANT None

Families == {"v4", "v6"}

\* A subnet is [base, host]; a SubnetSet has one or none for each family.
Has(ss, f) == ss[f] # None

\* The host bits that pool.go reads: those of the IPv4 subnet if there is one.
HostBits(ss) == IF Has(ss, "v4") THEN ss["v4"].host ELSE ss["v6"].host

\* SubnetSet.Validate
Validate(ss, minSize) ==
    /\ \E f \in Families : Has(ss, f)
    /\ \A f \in Families : Has(ss, f) => ss[f].host >= minSize
    /\ \A f, g \in Families : Has(ss, f) /\ Has(ss, g) => ss[f].host = ss[g].host

\* SubnetSet.GetBlock: the nth block.
GetBlock(ss, n, sizeBits) ==
    [f \in Families |->
        IF Has(ss, f)
        THEN [base |-> ss[f].base + n * 2^sizeBits, host |-> sizeBits]
        ELSE None]

\* AddressPoolSpec.validate; the schema asks for at least one subnet.
validate(spec) ==
    /\ spec.bits >= 0
    /\ spec.subnets # <<>>
    /\ \A i \in DOMAIN spec.subnets : Validate(spec.subnets[i], spec.bits)

\* Mutant of validateUpdate: the list may be put in a new order.
validateUpdateAsSet(spec, old) ==
    /\ spec.bits = old.bits
    /\ validate(spec)
    /\ \A i \in DOMAIN old.subnets :
          \E j \in DOMAIN spec.subnets : spec.subnets[j] = old.subnets[i]

\* AddressPoolSpec.validateUpdate: subnets are only appended.  Nothing is said
\* of the families or of overlaps of the new ones.
validateUpdate(spec, old) ==
    /\ spec.bits = old.bits
    /\ Len(old.subnets) <= Len(spec.subnets)
    /\ \A i \in DOMAIN old.subnets : spec.subnets[i] = old.subnets[i]
    /\ \A i \in DOMAIN spec.subnets \ DOMAIN old.subnets :
          Validate(spec.subnets[i], spec.bits)

Addresses(net) == net.base .. net.base + 2^net.host - 1

\* Two subnet sets have an address in common.
Overlap(s, t) ==
    \E f \in Families :
       /\ Has(s, f) /\ Has(t, f)
       /\ Addresses(s[f]) \cap Addresses(t[f]) # {}

\* s has the families of t and lies inside it.
Inside(s, t) ==
    \A f \in Families :
       /\ Has(s, f) = Has(t, f)
       /\ Has(s, f) => Addresses(s[f]) \subseteq Addresses(t[f])
=============================================================================
