---------------------------- MODULE MCNatClient ----------------------------
(* Two egresses, one with a Service of both families; destinations: the      *)
(* default route and a network of the cluster in IPv4, one of IPv6.          *)
EXTENDS NatClient, TLC

MCFamOf == "g1" :> "v4" @@ "h1" :> "v6" @@ "g2" :> "v4"
MCClusterIPs == "e1" :> {"g1", "h1"} @@ "e2" :> {"g2"}
MCDestFam == "any" :> "v4" @@ "corp" :> "v4" @@ "any6" :> "v6"
MCCovers == "any" :> {"web", "pod", "lan"} @@ "corp" :> {"lan"} @@ "any6" :> {"web", "pod", "lan"}

Once(dests, sport) == [dests |-> dests, repeated |-> {}, sport |-> sport]

MCVersions ==
    "e1" :> <<Once({"corp", "any6"}, "fixed"),
              Once({"any", "any6"}, "fixed"),
              Once({"any6"}, "auto")>> @@
    "e2" :> <<Once({"any"}, "fixed"),
              Once({"corp"}, "auto"),
              [dests |-> {"any"}, repeated |-> {"any"}, sport |-> "fixed"]>>
=============================================================================
