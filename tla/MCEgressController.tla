------------------------- MODULE MCEgressController -------------------------
(* Two Egress objects in two namespaces.                                    *)
EXTENDS EgressController, TLC

MCNsOf == "e1" :> 1 @@ "e2" :> 2
MCVersions ==
    "e2" :> <<[replicas |-> 1, opts |-> {"strategy", "template", "minAvailable"}],
              [replicas |-> 2, opts |-> {"annotations", "maxUnavailable", "affinityConfig"}]>> @@
    "e1" :> <<[replicas |-> 1, opts |-> {}]>>
=============================================================================
