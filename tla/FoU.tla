-------------------------------- MODULE FoU --------------------------------
(***************************************************************************)
(* Foo-over-UDP tunnels of one network namespace: pkg/fou/fou.go.  The     *)
(* state is a record that outlives the process which uses it; the egress   *)
(* servers and coild (for its client pods) build on these operators.       *)
(***************************************************************************)
EXTENDS Naturals, Sequences

CONSTANTS
    Addrs,   \* addresses of peers
    FamOf,   \* their families
    NoLink   \* no tunnel to a peer

Families == {"v4", "v6"}

\* Source ports of a tunnel: the port of FoU, or 0, which the kernel fills in
\* from the hash of the flow.
Sports == {"fixed", "auto"}

ASSUME FoUAssumption ==
    /\ FamOf \in [Addrs -> Families]
    /\ NoLink \notin Sports

\* The ports listened on, the dummy link that marks an initialised namespace,
\* the tunnel of each peer and the flow-based devices that decapsulate.
Tunnels == [ports: SUBSET Families, dummy: BOOLEAN,
            links: [Addrs -> Sports \cup {NoLink}], flow: SUBSET Families]

newNetns == [ports |-> {}, dummy |-> FALSE,
             links |-> [a \in Addrs |-> NoLink], flow |-> {}]

Linked(t, a) == t.links[a] # NoLink

-----------------------------------------------------------------------------
(* Init *)

IsInitialized(t) == t.dummy

\* The port of a family is opened if the namespace has an address of it.
fouStep(f, fams) == IF f \in fams THEN <<[op |-> "fou", fam |-> f]>> ELSE <<>>

\* What Init does in a namespace without the dummy link, in this order.
InitSteps(fams) ==
    fouStep("v4", fams) \o fouStep("v6", fams)
    \o <<[op |-> "fouDummy", fam |-> "v4"]>>

\* FouAdd fails if the port is taken, as it is after an Init that was cut off.
FouAddOK(t, f) == f \notin t.ports
FouAdd(t, f) == [t EXCEPT !.ports = @ \cup {f}]
MarkInitialized(t) == [t EXCEPT !.dummy = TRUE]

-----------------------------------------------------------------------------
(* AddPeer and DelPeer *)

DelPeer(t, a) == [t EXCEPT !.links[a] = NoLink]

\* A tunnel with the right source port is kept, another one is replaced.
addOrRecreatePeer(t, a, s) ==
    IF t.links[a] = s THEN t ELSE [DelPeer(t, a) EXCEPT !.links[a] = s]

\* The device that decapsulates is made once and reused.
withFlowDevice(t, a) == [t EXCEPT !.flow = @ \cup {FamOf[a]}]

AddPeer(t, a, s) == withFlowDevice(addOrRecreatePeer(t, a, s), a)

\* The states a failing AddPeer leaves behind.
AddPeerCutOff(t, a, s) ==
    {t, addOrRecreatePeer(t, a, s)}
    \cup (IF t.links[a] \in {s, NoLink} THEN {} ELSE {DelPeer(t, a)})

=============================================================================
