---------------------------- MODULE MCNatServer ----------------------------
(* Two client pods that share two IPv4 addresses and one IPv6 address.     *)
EXTENDS NatServer

CONSTANTS p1, p2, x, y, z

FamOfAddrs == [a \in Addrs |-> IF a = z THEN "v6" ELSE "v4"]

AddrSetsOfPods == {{x, z}, {y}}
IpsOfPods == [k \in Pods |-> IF k = p1 THEN {x, z} ELSE {}]
RouterPods == {[fams |-> {"v4"}, backend |-> "iptables"],
               [fams |-> {"v4", "v6"}, backend |-> "nftables"]}

=============================================================================
