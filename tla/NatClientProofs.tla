-------------------------- MODULE NatClientProofs --------------------------
(***************************************************************************)
(* Egress NAT in a client pod for any Egress objects, destinations,        *)
(* changes and faults.  The invariant says, for each tunnel of an Egress   *)
(* object, which thread will see to it last or that it is in force         *)
(* (SpecOK), what is left to do of a SyncNat under way (SyncOK), that only *)
(* an ADD that has failed leaves rules half made (RulesOK), and which      *)
(* marks can be wrong (MarksOK, CleanOK).                                  *)
(***************************************************************************)
EXTENDS NatClient, TLAPS

-----------------------------------------------------------------------------
(* The inductive invariant *)

\* Jobs of a hook: one for an address, with destinations of its family.
JobsOK(js) ==
    /\ \A j \in js : \A d \in j.networks : DestFam[d] = FamOf[j.gw]
    /\ \A j, k \in js : j.gw = k.gw => j = k

\* What a thread holds at each point.
ThreadOK(t) ==
    /\ JobsOK(thr[t].gws \cup thr[t].job)
    /\ thr[t].gws \cap thr[t].job = {}
    /\ thr[t].pc \in {"idle", "getHook", "done"} => thr[t].gws = {}
    /\ thr[t].pc \notin {"sync", "failed"} => thr[t].job = {}

\* SyncNat for job j: when the routes to delete are deleted and those to add
\* are added, the tunnel has the routes of the job.  With a repeated destination
\* there is always one to add.
SyncOK(t) ==
    thr[t].pc = "sync" => \E j \in thr[t].job :
       /\ thr[t].job = {j} /\ supported(j.gw)
       /\ net.fou.links[j.gw] = j.sport
       /\ thr[t].dels \subseteq collectRoutesBySubnet(net, j.gw) \ j.networks
       /\ thr[t].adds = adds(net, j)
       /\ collectRoutesBySubnet(net, j.gw) \subseteq j.networks \cup thr[t].dels

\* The watcher works for one Egress object, on what the cache has of it now
\* unless there is another event.
WatchOK ==
    /\ thr["watch"].pc \in {"idle", "next", "sync"}
    /\ thr["watch"].pc = "idle" => thr["watch"].egs = {}
    /\ thr["watch"].pc # "idle" => \E e \in Egresses :
          /\ thr["watch"].egs = {e}
          /\ \A j \in thr["watch"].gws \cup thr["watch"].job : j.gw \in ClusterIPs[e]
          /\ \/ e \in queue
             \/ cached[e] # NoEgress
                /\ thr["watch"].gws \cup thr["watch"].job \subseteq jobsOf(e)

\* The namespace is new until ADD sets it up, and nobody else changes it before
\* ADD is over.
NetOK ==
    /\ net = NoNetns <=> thr["add"].pc = "idle"
    /\ thr["add"].pc \in {"getHook", "init"} => net = newNet
    /\ thr["watch"].pc = "sync" => thr["add"].pc \in {"done", "failed"}

\* Only a failed ADD leaves some of the rules of a family.
RulesOK ==
    net # NoNetns /\ thr["add"].pc # "failed" =>
       \A f \in Families : net.rules[f] \in {{}, RuleNames}

\* ADD has read the Egress objects and has not failed.
Up == thr["add"].pc \in {"init", "next", "sync", "done"}

\* The tunnel of job j is as it should be.
InForce(j) ==
    /\ thr["add"].pc # "init"
    /\ collectRoutesBySubnet(net, j.gw) = j.networks
    /\ net.fou.links[j.gw] = j.sport

\* The jobs a thread has for a tunnel.
Pending(t, g) == {j \in thr[t].gws \cup thr[t].job : j.gw = g}

\* Who comes last for the tunnel of j, the watcher before ADD, has j to do.
Due(j) ==
    IF Pending("watch", j.gw) # {} THEN j \in Pending("watch", j.gw)
    ELSE IF Pending("add", j.gw) # {} THEN j \in Pending("add", j.gw)
    ELSE InForce(j)

\* There is nothing to say of an Egress object with an event, without a cached
\* copy, or whose change the watcher let pass.
Excused(e) ==
    \/ e \in queue
    \/ cached[e] = NoEgress
    \/ e \in missed /\ e \notin thr["watch"].egs

SpecOK ==
    Up => \A e \in Egresses : Excused(e) \/
             \A j \in jobsOf(e) : supported(j.gw) => Due(j)

\* Marks of a family are complete, or about to be, if there are routes; and a
\* family without its table has no marks at all.
MarksOK ==
    net # NoNetns /\ thr["add"].pc # "failed" =>
       /\ \A f \in podFams \ unmarked : net.marks[f] = {} \/ "table" \in net.marks[f]
       /\ origOnly => \A f \in podFams \ unmarked :
             \/ f \notin routedFams
             \/ net.marks[f] = Marks
             \/ \E t \in Threads : thr[t].pc = "sync" /\ f \in thr[t].conf

\* Without the flag, marks are left only as long as no tunnel has been seen to.
CleanOK ==
    Up /\ ~ origOnly /\ (\E f \in podFams \ unmarked : net.marks[f] # {}) =>
       \A e \in Egresses : Excused(e) \/
          \A j \in jobsOf(e) : supported(j.gw) => j \in Pending("watch", j.gw)

IInv == /\ TypeOK
        /\ \A t \in Threads : ThreadOK(t) /\ SyncOK(t)
        /\ WatchOK /\ NetOK /\ RulesOK /\ SpecOK /\ MarksOK /\ CleanOK

-----------------------------------------------------------------------------
(* The operators on a namespace *)

\* m is n after a call that only concerns the tunnel to g: a route is lost only
\* with the tunnel it goes through.
Touched(n, m, g) ==
    /\ m \in Netns
    /\ m.rules = n.rules /\ m.marks = n.marks
    /\ \A a \in Addrs : a # g => m.fou.links[a] = n.fou.links[a]
    /\ \A d \in Dests : \/ m.routes[d] = n.routes[d]
                        \/ /\ n.routes[d] = g /\ m.routes[d] = NoRoute
                           /\ m.fou.links[g] # n.fou.links[g]

\* m is n after a call that only concerns the marks.
Remarked(n, m) ==
    /\ m \in Netns
    /\ m.fou = n.fou /\ m.rules = n.rules /\ m.routes = n.routes

\* AddPeer and each of the steps it consists of concern one tunnel.
LEMMA TunnelFacts ==
    ASSUME NEW t \in Tunnels, NEW g \in Addrs, NEW s \in Sports
    PROVE  /\ DelPeer(t, g) \in Tunnels
           /\ addOrRecreatePeer(t, g, s) \in Tunnels
           /\ AddPeer(t, g, s) \in Tunnels
           /\ AddPeer(t, g, s).links[g] = s
           /\ \A a \in Addrs : a # g =>
                 /\ DelPeer(t, g).links[a] = t.links[a]
                 /\ addOrRecreatePeer(t, g, s).links[a] = t.links[a]
                 /\ AddPeer(t, g, s).links[a] = t.links[a]
<1> DEFINE p == DelPeer(t, g)
           q == addOrRecreatePeer(t, g, s)
<1>1. /\ p \in Tunnels
      /\ \A a \in Addrs : a # g => p.links[a] = t.links[a]
  BY DEF DelPeer, Tunnels
<1> HIDE DEF p
<1>2. q = t \/ q = [p EXCEPT !.links[g] = s]
  BY DEF addOrRecreatePeer, p
<1>3. t.links[g] = s => q = t
  BY DEF addOrRecreatePeer
<1>4. t.links[g] # s => q = [p EXCEPT !.links[g] = s]
  BY DEF addOrRecreatePeer, p
<1> HIDE DEF q
<1>5. /\ q \in Tunnels
      /\ q.links[g] = s
      /\ \A a \in Addrs : a # g => q.links[a] = t.links[a]
  <2>1. CASE t.links[g] = s
    BY <1>3, <2>1
  <2>2. CASE t.links[g] # s
    BY <1>1, <1>4, <2>2 DEF Tunnels
  <2> QED BY <2>1, <2>2
<1>6. /\ AddPeer(t, g, s) \in Tunnels
      /\ AddPeer(t, g, s).links = q.links
  BY <1>5, FoUAssumption DEF AddPeer, withFlowDevice, Tunnels, q
<1> QED BY <1>1, <1>5, <1>6 DEF p, q

\* WithTunnels passes on to the routes what happened to the tunnel.
LEMMA WithTunnelsFacts ==
    ASSUME NEW n \in Netns, NEW g \in Addrs, NEW t \in Tunnels,
           \A a \in Addrs : a # g => t.links[a] = n.fou.links[a]
    PROVE  /\ Touched(n, WithTunnels(n, t, g), g)
           /\ WithTunnels(n, t, g).fou = t
<1>1. CASE t.links[g] = n.fou.links[g]
  <2> DEFINE m == [n EXCEPT !.fou = t]
  <2>1. /\ m \in Netns /\ m.fou = t /\ m.rules = n.rules
        /\ m.routes = n.routes /\ m.marks = n.marks
    BY DEF Netns
  <2>2. WithTunnels(n, t, g) = m
    BY <1>1 DEF WithTunnels
  <2> HIDE DEF m
  <2> QED BY <2>1, <2>2 DEF Touched
<1>2. CASE t.links[g] # n.fou.links[g]
  <2> DEFINE r == [d \in Dests |-> IF n.routes[d] = g THEN NoRoute ELSE n.routes[d]]
             w == withoutRoutes(n, g)
             m == [w EXCEPT !.fou = t]
  <2>1. r \in [Dests -> Addrs \cup {NoRoute}]
    BY DEF Netns
  <2>2. /\ w \in Netns /\ w.routes = r /\ w.rules = n.rules /\ w.marks = n.marks
    BY <2>1 DEF Netns, withoutRoutes
  <2>3. WithTunnels(n, t, g) = m
    BY <1>2 DEF WithTunnels
  <2> HIDE DEF w
  <2>4. /\ m \in Netns /\ m.fou = t /\ m.rules = n.rules
        /\ m.routes = r /\ m.marks = n.marks
    BY <2>2 DEF Netns
  <2> HIDE DEF m
  <2> QED BY <1>2, <2>3, <2>4 DEF Touched
<1> QED BY <1>1, <1>2

\* The namespace after AddPeer, and after an AddPeer that fails.
LEMMA PeerFacts ==
    ASSUME NEW n \in Netns, NEW g \in Addrs, NEW s \in Sports
    PROVE  /\ Touched(n, WithTunnels(n, AddPeer(n.fou, g, s), g), g)
           /\ WithTunnels(n, AddPeer(n.fou, g, s), g).fou.links[g] = s
           /\ \A u \in AddPeerCutOff(n.fou, g, s) : Touched(n, WithTunnels(n, u, g), g)
<1>1. n.fou \in Tunnels
  BY DEF Netns
<1>2. /\ Touched(n, WithTunnels(n, AddPeer(n.fou, g, s), g), g)
      /\ WithTunnels(n, AddPeer(n.fou, g, s), g).fou = AddPeer(n.fou, g, s)
  BY <1>1, TunnelFacts, WithTunnelsFacts
<1>3. WithTunnels(n, AddPeer(n.fou, g, s), g).fou.links[g] = s
  BY <1>1, <1>2, TunnelFacts
<1>4. ASSUME NEW u \in AddPeerCutOff(n.fou, g, s)
      PROVE  Touched(n, WithTunnels(n, u, g), g)
  <2>1. u \in {n.fou, addOrRecreatePeer(n.fou, g, s), DelPeer(n.fou, g)}
    BY DEF AddPeerCutOff
  <2>2. u \in Tunnels /\ \A a \in Addrs : a # g => u.links[a] = n.fou.links[a]
    <3>1. CASE u = n.fou
      BY <1>1, <3>1
    <3>2. CASE u = addOrRecreatePeer(n.fou, g, s)
      BY <1>1, <3>2, TunnelFacts
    <3>3. CASE u = DelPeer(n.fou, g)
      BY <1>1, <3>3, TunnelFacts
    <3> QED BY <2>1, <3>1, <3>2, <3>3
  <2> QED BY <2>2, WithTunnelsFacts
<1> QED BY <1>2, <1>3, <1>4

\* Replacing the marks of a namespace concerns nothing else.
LEMMA NewMarks ==
    ASSUME NEW n \in Netns, NEW ms \in [Families -> SUBSET Marks]
    PROVE  Remarked(n, [n EXCEPT !.marks = ms]) /\ [n EXCEPT !.marks = ms].marks = ms
BY DEF Netns, Remarked

\* configureOriginatingOnly completes the marks of the families it is called
\* for; when it fails, the others are as they were.
LEMMA ConfigureFacts ==
    ASSUME NEW n \in Netns, NEW fams \in SUBSET Families
    PROVE  /\ Remarked(n, configureOriginatingOnly(n, fams))
           /\ \A f \in Families : configureOriginatingOnly(n, fams).marks[f]
                 = IF f \in fams \cap podFams THEN Marks ELSE n.marks[f]
           /\ \A m \in configureCutOff(n, fams) :
                 Remarked(n, m) /\ \A f \in Families \ fams : m.marks[f] = n.marks[f]
<1>1. n.marks \in [Families -> SUBSET Marks]
  BY DEF Netns
<1>2. /\ Remarked(n, configureOriginatingOnly(n, fams))
      /\ \A f \in Families : configureOriginatingOnly(n, fams).marks[f]
            = IF f \in fams \cap podFams THEN Marks ELSE n.marks[f]
  <2> DEFINE ms == [f \in Families |->
                IF f \in fams \cap podFams
                THEN withConnmark(n.marks[f] \cup {"table", "fwmark"}) ELSE n.marks[f]]
  <2>1. \A f \in Families : ms[f] = IF f \in fams \cap podFams THEN Marks ELSE n.marks[f]
    BY <1>1 DEF withConnmark, Marks
  <2>2. ms \in [Families -> SUBSET Marks]
    BY <1>1, <2>1
  <2>3. configureOriginatingOnly(n, fams) = [n EXCEPT !.marks = ms]
    BY DEF configureOriginatingOnly
  <2> HIDE DEF ms
  <2> QED BY <2>1, <2>2, <2>3, NewMarks
<1>3. ASSUME NEW m \in configureCutOff(n, fams)
      PROVE  Remarked(n, m) /\ \A f \in Families \ fams : m.marks[f] = n.marks[f]
  <2>1. PICK s \in {{}, {"table"}, {"table", "fwmark"}} :
           m = [n EXCEPT !.marks = [f \in Families |->
                  IF f \in fams \cap podFams THEN n.marks[f] \cup s ELSE n.marks[f]]]
    BY DEF configureCutOff
  <2> DEFINE ms == [f \in Families |->
                IF f \in fams \cap podFams THEN n.marks[f] \cup s ELSE n.marks[f]]
  <2>2. ms \in [Families -> SUBSET Marks]
    BY <1>1 DEF Marks
  <2>3. \A f \in Families \ fams : ms[f] = n.marks[f]
    OBVIOUS
  <2>4. m = [n EXCEPT !.marks = ms]
    BY <2>1
  <2> HIDE DEF ms
  <2> QED BY <2>2, <2>3, <2>4, NewMarks
<1> QED BY <1>2, <1>3

\* removeOriginatingOnly takes the marks of the families that have a table.
LEMMA RemoveFacts ==
    ASSUME NEW n \in Netns, NEW fams \in SUBSET Families
    PROVE  /\ Remarked(n, removeOriginatingOnly(n, fams))
           /\ \A f \in Families : removeOriginatingOnly(n, fams).marks[f]
                 = IF f \in fams /\ "table" \in n.marks[f] THEN {} ELSE n.marks[f]
<1> DEFINE ms == [f \in Families |->
              IF f \in fams /\ "table" \in n.marks[f]
              THEN withoutConnmark(n.marks[f] \ {"table", "fwmark"}) ELSE n.marks[f]]
<1>1. n.marks \in [Families -> SUBSET Marks]
  BY DEF Netns
<1>2. \A f \in Families :
         ms[f] = IF f \in fams /\ "table" \in n.marks[f] THEN {} ELSE n.marks[f]
  BY <1>1 DEF withoutConnmark, Marks
<1>3. ms \in [Families -> SUBSET Marks]
  BY <1>1, <1>2
<1>4. removeOriginatingOnly(n, fams) = [n EXCEPT !.marks = ms]
  BY DEF removeOriginatingOnly
<1> HIDE DEF ms
<1> QED BY <1>2, <1>3, <1>4, NewMarks

\* A removal that fails concerns the marks only.
LEMMA RemoveCutOffFacts ==
    ASSUME NEW n \in Netns, NEW m \in removeCutOff(n)
    PROVE  Remarked(n, m)
<1>1. CASE m \in {removeOriginatingOnly(n, fams) : fams \in {{}, {"v4"}}}
  BY <1>1, RemoveFacts DEF Families
<1>2. ASSUME m \notin {removeOriginatingOnly(n, fams) : fams \in {{}, {"v4"}}}
      PROVE  Remarked(n, m)
  <2>1. PICK f \in Families, s \in {{"table"}, {"table", "fwmark"}} :
           m = IF "table" \in n.marks[f]
               THEN [removeOriginatingOnly(n, {"v4"} \ {f}) EXCEPT !.marks[f] = @ \ s]
               ELSE removeOriginatingOnly(n, {"v4"} \ {f})
    BY <1>2 DEF removeCutOff
  <2> DEFINE b == removeOriginatingOnly(n, {"v4"} \ {f})
             ms == [b.marks EXCEPT ![f] = @ \ s]
  <2>2. Remarked(n, b)
    BY RemoveFacts DEF Families
  <2>3. m = b \/ m = [b EXCEPT !.marks[f] = @ \ s]
    BY <2>1
  <2> HIDE DEF b
  <2>4. ms \in [Families -> SUBSET Marks]
    BY <2>2 DEF Remarked, Netns
  <2>5. [b EXCEPT !.marks[f] = @ \ s] = [b EXCEPT !.marks = ms]
    BY <2>2 DEF Remarked, Netns
  <2> HIDE DEF ms
  <2>6. Remarked(b, [b EXCEPT !.marks = ms])
    BY <2>2, <2>4, NewMarks DEF Remarked
  <2> QED BY <2>2, <2>3, <2>5, <2>6 DEF Remarked
<1> QED BY <1>1, <1>2

\* A namespace that ADD has set up: complete rules for the families of the pod,
\* and nothing else yet.
LEMMA InitFacts ==
    ASSUME TypeOK
    PROVE  LET m == InitRules(InitFou(newNet), podFams)
           IN  /\ m \in Netns
               /\ \A f \in Families : m.rules[f] \in {{}, RuleNames}
               /\ m.routes = newNet.routes
               /\ m.marks = newNet.marks
<1>1. podFams \subseteq Families
  BY NatClientAssumption DEF TypeOK
<1> DEFINE i == InitFou(newNet)
           rs == [f \in Families |->
                    IF f \in podFams THEN {initRules[k] : k \in 1 .. Len(initRules)}
                    ELSE newNet.rules[f]]
           ds == [d \in Dests |-> IF DestFam[d] \in podFams THEN NoRoute
                                  ELSE newNet.routes[d]]
           m == InitRules(i, podFams)
<1>2. newNet \in Netns
  BY DEF newNet, newNetns, Netns, Tunnels
<1>3. MarkInitialized([newNet.fou EXCEPT !.ports = podFams]) \in Tunnels
  BY <1>1, <1>2 DEF MarkInitialized, Tunnels, Netns
<1>4. /\ i \in Netns
      /\ i.rules = newNet.rules /\ i.routes = newNet.routes /\ i.marks = newNet.marks
  <2> DEFINE t == MarkInitialized([newNet.fou EXCEPT !.ports = podFams])
  <2>1. i = [newNet EXCEPT !.fou = t]
    BY DEF InitFou
  <2> HIDE DEF t, i
  <2> QED BY <2>1, <1>2, <1>3 DEF Netns, t
<1>5. m = [i EXCEPT !.rules = rs, !.routes = ds]
  BY <1>4 DEF InitRules
<1>6. {initRules[k] : k \in 1 .. Len(initRules)} = RuleNames
  BY DEF initRules, RuleNames
<1>7. \A f \in Families : rs[f] \in {{}, RuleNames}
  BY <1>6 DEF newNet
<1>8. ds = newNet.routes
  BY DEF newNet
<1>9. /\ newNet.routes \in [Dests -> Addrs \cup {NoRoute}]
      /\ newNet.marks \in [Families -> SUBSET Marks]
      /\ rs \in [Families -> SUBSET RuleNames]
  BY <1>7 DEF newNet
<1> HIDE DEF i, rs, ds
<1>10. m \in Netns /\ m.rules = rs /\ m.routes = ds /\ m.marks = i.marks
  BY <1>4, <1>5, <1>8, <1>9 DEF Netns
<1> QED BY <1>4, <1>7, <1>8, <1>10 DEF i

\* The namespace of a new sandbox.
LEMMA NewNetFacts ==
    newNet \in Netns
BY DEF newNet, newNetns, Netns, Tunnels

\* The steps of cl.Init leave a namespace.
LEMMA RulesFacts ==
    ASSUME NEW n \in Netns, NEW f \in Families, NEW k \in 0 .. Len(initRules) - 1,
           NEW fams \in SUBSET Families
    PROVE  /\ clear(n, f) \in Netns
           /\ WithRules(n, f, k) \in Netns
           /\ InitRules(n, fams) \in Netns
<1>1. Len(initRules) = 4 /\ \A i \in 1 .. 4 : initRules[i] \in RuleNames
  BY DEF initRules, RuleNames
<1>2. clear(n, f) \in Netns
  <2> DEFINE rs == [n.rules EXCEPT ![f] = {}]
             ds == [d \in Dests |-> IF DestFam[d] = f THEN NoRoute ELSE n.routes[d]]
  <2>1. rs \in [Families -> SUBSET RuleNames] /\ ds \in [Dests -> Addrs \cup {NoRoute}]
    BY DEF Netns
  <2>2. clear(n, f) = [n EXCEPT !.rules = rs, !.routes = ds]
    BY DEF clear, Netns
  <2> HIDE DEF rs, ds
  <2> QED BY <2>1, <2>2 DEF Netns
<1>3. WithRules(n, f, k) \in Netns
  <2> DEFINE s == {initRules[i] : i \in 1 .. k}
             rs == [n.rules EXCEPT ![f] = s]
  <2>1. s \subseteq RuleNames
    BY <1>1
  <2> HIDE DEF s
  <2>2. rs \in [Families -> SUBSET RuleNames]
    BY <2>1 DEF Netns
  <2>3. WithRules(n, f, k) = [n EXCEPT !.rules = rs]
    BY DEF WithRules, Netns, s
  <2> HIDE DEF rs
  <2> QED BY <2>2, <2>3 DEF Netns
<1>4. InitRules(n, fams) \in Netns
  <2> DEFINE s == {initRules[i] : i \in 1 .. Len(initRules)}
             rs == [f1 \in Families |-> IF f1 \in fams THEN s ELSE n.rules[f1]]
             ds == [d \in Dests |-> IF DestFam[d] \in fams THEN NoRoute ELSE n.routes[d]]
  <2>1. s \subseteq RuleNames
    BY <1>1
  <2>2. InitRules(n, fams) = [n EXCEPT !.rules = rs, !.routes = ds]
    BY DEF InitRules
  <2> HIDE DEF s
  <2>3. rs \in [Families -> SUBSET RuleNames] /\ ds \in [Dests -> Addrs \cup {NoRoute}]
    BY <2>1 DEF Netns
  <2> HIDE DEF rs, ds
  <2> QED BY <2>2, <2>3 DEF Netns
<1> QED BY <1>2, <1>3, <1>4

\* So does an ADD that fails while it sets up the namespace.
LEMMA InitCutOffFacts ==
    ASSUME TypeOK, NEW n \in Netns, NEW m \in InitCutOff(n)
    PROVE  m \in Netns
<1>1. podFams \in SUBSET Families
  BY NatClientAssumption DEF TypeOK
<1>2. ASSUME NEW fams \in SUBSET Families
      PROVE  [n EXCEPT !.fou.ports = fams] \in Netns
  <2> DEFINE t == [n.fou EXCEPT !.ports = fams]
  <2>1. t \in Tunnels
    BY DEF Netns, Tunnels
  <2>2. [n EXCEPT !.fou.ports = fams] = [n EXCEPT !.fou = t]
    BY DEF Netns
  <2> HIDE DEF t
  <2> QED BY <2>1, <2>2 DEF Netns
<1>3. CASE m \in {[n EXCEPT !.fou.ports = fams] : fams \in {{}, podFams \cap {"v4"}, podFams}}
  <2>1. PICK fams \in {{}, podFams \cap {"v4"}, podFams} : m = [n EXCEPT !.fou.ports = fams]
    BY <1>3
  <2>2. fams \in SUBSET Families
    BY <1>1
  <2> QED BY <1>2, <2>1, <2>2
<1>4. CASE \E f \in podFams : \E k \in 0 .. Len(initRules) - 1 :
              m = WithRules(clear(InitRules(InitFou(n), podFams \cap ({"v4"} \ {f})), f), f, k)
  <2>1. PICK f \in podFams, k \in 0 .. Len(initRules) - 1 :
           m = WithRules(clear(InitRules(InitFou(n), podFams \cap ({"v4"} \ {f})), f), f, k)
    BY <1>4
  <2>2. InitFou(n) \in Netns
    <3> DEFINE t == MarkInitialized([n.fou EXCEPT !.ports = podFams])
    <3>1. t \in Tunnels
      BY <1>1 DEF MarkInitialized, Tunnels, Netns
    <3>2. InitFou(n) = [n EXCEPT !.fou = t]
      BY DEF InitFou
    <3> HIDE DEF t
    <3> QED BY <3>1, <3>2 DEF Netns
  <2>3. /\ podFams \cap ({"v4"} \ {f}) \in SUBSET Families
        /\ f \in Families
    BY <1>1
  <2> QED BY <2>1, <2>2, <2>3, RulesFacts
<1> QED BY <1>3, <1>4 DEF InitCutOff

-----------------------------------------------------------------------------
(* Jobs *)

\* The jobs for an Egress object have different addresses of its Service.
LEMMA JobsFacts ==
    ASSUME TypeOK, NEW e \in Egresses, cached[e] # NoEgress
    PROVE  /\ jobsOf(e) \subseteq GWNets
           /\ JobsOK(jobsOf(e))
           /\ \A j \in jobsOf(e) : j.gw \in ClusterIPs[e]
<1>1. cached[e] \in Egress
  BY DEF TypeOK
<1>2. ASSUME NEW j \in jobsOf(e)
      PROVE  /\ j \in GWNets
             /\ j.gw \in ClusterIPs[e]
             /\ j = [gw |-> j.gw, sport |-> cached[e].sport,
                     repeated |-> cached[e].repeated,
                     networks |-> {d \in cached[e].dests : DestFam[d] = FamOf[j.gw]}]
  <2>1. PICK g \in ClusterIPs[e] :
           j = [gw |-> g, sport |-> cached[e].sport, repeated |-> cached[e].repeated,
                networks |-> {d \in cached[e].dests : DestFam[d] = FamOf[g]}]
    BY DEF jobsOf
  <2> DEFINE ns == {d \in cached[e].dests : DestFam[d] = FamOf[g]}
  <2>2. /\ ns \in SUBSET Dests /\ cached[e].repeated \in SUBSET Dests
        /\ cached[e].sport \in Sports /\ g \in Addrs
    BY <1>1, NatClientAssumption DEF Egress
  <2>3. /\ j = [gw |-> g, sport |-> cached[e].sport, repeated |-> cached[e].repeated,
                networks |-> ns]
        /\ j.gw = g
    BY <2>1
  <2> HIDE DEF ns
  <2>4. j \in GWNets
    BY <2>2, <2>3 DEF GWNets
  <2> QED BY <2>1, <2>3, <2>4
<1>3. \A j \in jobsOf(e) : \A d \in j.networks : DestFam[d] = FamOf[j.gw]
  <2> SUFFICES ASSUME NEW j \in jobsOf(e), NEW d \in j.networks
               PROVE  DestFam[d] = FamOf[j.gw]
    OBVIOUS
  <2>1. j.networks = {c \in cached[e].dests : DestFam[c] = FamOf[j.gw]}
    BY <1>2
  <2> QED BY <2>1
<1>4. \A j, k \in jobsOf(e) : j.gw = k.gw => j = k
  BY <1>2
<1> QED BY <1>2, <1>3, <1>4 DEF JobsOK

\* No address belongs to two Egress objects.
LEMMA OwnerUnique ==
    ASSUME NEW e \in Egresses, NEW x \in Egresses, NEW g,
           g \in ClusterIPs[e], g \in ClusterIPs[x]
    PROVE  e = x
BY NatClientAssumption

\* The same holds for all the jobs of ADD.
LEMMA AllJobsFacts ==
    ASSUME TypeOK, \A e \in Egresses : cached[e] # NoEgress
    PROVE  /\ UNION {jobsOf(e) : e \in Egresses} \subseteq GWNets
           /\ JobsOK(UNION {jobsOf(e) : e \in Egresses})
<1> DEFINE all == UNION {jobsOf(e) : e \in Egresses}
<1>1. \A j \in all : \E e \in Egresses : j \in jobsOf(e)
  OBVIOUS
<1> HIDE DEF all
<1>2. \A j \in all : j \in GWNets /\ \A d \in j.networks : DestFam[d] = FamOf[j.gw]
  BY <1>1, JobsFacts DEF JobsOK
<1>3. ASSUME NEW j \in all, NEW k \in all, j.gw = k.gw
      PROVE  j = k
  <2>1. PICK e \in Egresses : j \in jobsOf(e)
    BY <1>1
  <2>2. PICK x \in Egresses : k \in jobsOf(x)
    BY <1>1
  <2>3. e = x
    BY <1>3, <2>1, <2>2, JobsFacts, OwnerUnique
  <2> QED BY <1>3, <2>1, <2>2, <2>3, JobsFacts DEF JobsOK
<1> QED BY <1>2, <1>3 DEF JobsOK, all

\* What a thread stopped in its present step leaves of the namespace: it may
\* have been setting it up, have touched a tunnel it has to see to, or have
\* changed marks.
LEMMA CutOffFacts ==
    ASSUME TypeOK, NEW t \in Threads, net \in Netns, NEW m \in CutOff(t)
    PROVE  \/ thr[t].pc = "init" /\ m \in Netns
           \/ m = net
           \/ thr[t].pc = "next" /\ \E j \in thr[t].gws : Touched(net, m, j.gw)
           \/ /\ Marking(t) /\ Remarked(net, m)
              /\ origOnly => \A f \in Families \ thr[t].conf : m.marks[f] = net.marks[f]
<1>1. thr[t] \in Thread
  BY DEF TypeOK
<1>2. CASE thr[t].pc = "init"
  <2>1. CutOff(t) = InitCutOff(net)
    BY <1>2 DEF CutOff, Marking
  <2> QED BY <1>2, <2>1, InitCutOffFacts
<1>3. CASE thr[t].pc = "next" /\ HookReady(t) /\ m # net
  <2>1. CutOff(t) = {net} \cup UNION {{WithTunnels(net, u, job.gw)
                                   : u \in AddPeerCutOff(net.fou, job.gw, job.sport)}
                                : job \in {j \in thr[t].gws : supported(j.gw)}}
    BY <1>3 DEF CutOff, Marking
  <2>2. PICK job \in thr[t].gws :
          \E u \in AddPeerCutOff(net.fou, job.gw, job.sport) : m = WithTunnels(net, u, job.gw)
    BY <1>3, <2>1
  <2>3. job.gw \in Addrs /\ job.sport \in Sports
    BY <1>1 DEF Thread, GWNets
  <2> QED BY <1>3, <2>2, <2>3, PeerFacts
<1>4. CASE Marking(t)
  <2>1. CutOff(t) = IF origOnly THEN configureCutOff(net, thr[t].conf) ELSE removeCutOff(net)
    BY <1>4 DEF CutOff, Marking
  <2>2. thr[t].conf \in SUBSET Families
    BY <1>1 DEF Thread
  <2> QED BY <1>4, <2>1, <2>2, ConfigureFacts, RemoveCutOffFacts
<1>5. CASE thr[t].pc # "init" /\ ~ (thr[t].pc = "next" /\ HookReady(t)) /\ ~ Marking(t)
  BY <1>5 DEF CutOff
<1> QED BY <1>2, <1>3, <1>4, <1>5

-----------------------------------------------------------------------------
(* Frames *)

\* A step that only moves thread t to another point of its program.
LEMMA GotoFacts ==
    ASSUME thr \in [Threads -> Thread], NEW t \in Threads, NEW p \in PCs, Goto(t, p)
    PROVE  /\ thr' \in [Threads -> Thread]
           /\ \A u \in Threads : u # t => thr'[u] = thr[u]
           /\ thr'[t].pc = p
           /\ thr'[t].egs = thr[t].egs /\ thr'[t].gws = thr[t].gws
           /\ thr'[t].job = thr[t].job /\ thr'[t].conf = thr[t].conf
           /\ thr'[t].adds = thr[t].adds /\ thr'[t].dels = thr[t].dels
<1> DEFINE r == [thr[t] EXCEPT !.pc = p]
<1>1. thr[t] \in Thread
  OBVIOUS
<1>2. /\ r \in Thread /\ r.pc = p
      /\ r.egs = thr[t].egs /\ r.gws = thr[t].gws /\ r.job = thr[t].job
      /\ r.conf = thr[t].conf /\ r.adds = thr[t].adds /\ r.dels = thr[t].dels
  BY <1>1 DEF Thread
<1>3. thr' = [thr EXCEPT ![t] = r]
  BY DEF Goto
<1> HIDE DEF r
<1> QED BY <1>2, <1>3

\* An idle thread, and the one of an ADD that is over.
LEMMA IdleFacts ==
    /\ idle \in Thread /\ idle.pc = "idle"
    /\ idle.egs = {} /\ idle.gws = {} /\ idle.job = {} /\ idle.conf = {}
    /\ idle.adds = {} /\ idle.dels = {}
    /\ \A p \in PCs :
          /\ [idle EXCEPT !.pc = p] \in Thread /\ [idle EXCEPT !.pc = p].pc = p
          /\ [idle EXCEPT !.pc = p].egs = {} /\ [idle EXCEPT !.pc = p].gws = {}
          /\ [idle EXCEPT !.pc = p].job = {} /\ [idle EXCEPT !.pc = p].conf = {}
          /\ [idle EXCEPT !.pc = p].adds = {} /\ [idle EXCEPT !.pc = p].dels = {}
BY DEF idle, Thread, PCs

\* What is due stays due if nothing more is asked for.
LEMMA SpecStep ==
    ASSUME SpecOK, Up' => Up, cached' = cached, podFams' = podFams,
           \A e \in Egresses : Excused(e) => Excused(e)',
           \A e \in Egresses : \A j \in jobsOf(e) :
              ~ Excused(e)' /\ Up' /\ supported(j.gw) /\ Due(j) => Due(j)'
    PROVE  SpecOK'
<1>1. \A e \in Egresses : jobsOf(e)' = jobsOf(e)
  BY DEF jobsOf
<1> SUFFICES ASSUME Up', NEW e \in Egresses, ~ Excused(e)', NEW j \in jobsOf(e),
                    supported(j.gw)
             PROVE  Due(j)'
  BY <1>1 DEF SpecOK, supported
<1>2. Due(j)
  BY DEF SpecOK
<1> QED BY <1>2

\* The same for the marks that are left without the flag.
LEMMA CleanStep ==
    ASSUME CleanOK, Up' => Up, cached' = cached, podFams' = podFams,
           ~ origOnly' /\ Up' => ~ origOnly,
           ~ origOnly' /\ Up' => \A f \in podFams \ unmarked' :
              f \notin unmarked /\ (net.marks[f])' = net.marks[f],
           \A e \in Egresses : Excused(e) => Excused(e)',
           \A e \in Egresses : \A j \in jobsOf(e) :
              ~ Excused(e)' /\ Up' /\ supported(j.gw) /\ j \in Pending("watch", j.gw)
              => j \in Pending("watch", j.gw)'
    PROVE  CleanOK'
<1>1. \A e \in Egresses : jobsOf(e)' = jobsOf(e)
  BY DEF jobsOf
<1> SUFFICES ASSUME Up', ~ origOnly', NEW f \in podFams \ unmarked',
                    (net.marks[f])' # {},
                    NEW e \in Egresses, ~ Excused(e)', NEW j \in jobsOf(e),
                    supported(j.gw)
             PROVE  j \in Pending("watch", j.gw)'
  BY <1>1 DEF CleanOK, supported
<1>2. j \in Pending("watch", j.gw)
  BY DEF CleanOK
<1> QED BY <1>2

-----------------------------------------------------------------------------
(* CNI ADD *)

\* A new sandbox.
LEMMA AddStartKeeps ==
    ASSUME IInv, AddStart
    PROVE  IInv'
<1> USE DEF Threads
<1>1. /\ thr' \in [Threads -> Thread]
      /\ thr'["watch"] = thr["watch"]
      /\ thr'["add"].pc = "getHook"
      /\ thr'["add"].gws = thr["add"].gws /\ thr'["add"].job = thr["add"].job
      /\ thr'["add"].conf = thr["add"].conf
  BY GotoFacts DEF IInv, TypeOK, AddStart, PCs
<1>2. thr["add"].pc = "idle" /\ net' = newNet /\ net' # NoNetns
  BY NewNetFacts, NetnsAssumption DEF AddStart
<1>3. thr["watch"].pc # "sync"
  BY <1>2 DEF IInv, NetOK
<1>4. TypeOK'
  BY <1>1, <1>2, NewNetFacts DEF IInv, TypeOK, AddStart
<1>5. \A t \in Threads : ThreadOK(t)'
  BY <1>1, <1>2 DEF IInv, ThreadOK
<1>6. \A t \in Threads : SyncOK(t)'
  BY <1>1, <1>3 DEF SyncOK
<1>7. WatchOK'
  <2>1. \A e \in Egresses : jobsOf(e)' = jobsOf(e)
    BY DEF jobsOf, AddStart
  <2> QED BY <1>1, <2>1 DEF IInv, WatchOK, AddStart
<1>8. NetOK' /\ RulesOK'
  BY <1>1, <1>2, <1>3 DEF NetOK, RulesOK, newNet, Families
<1>9. SpecOK' /\ CleanOK'
  BY <1>1 DEF SpecOK, CleanOK, Up
<1>10. MarksOK'
  <2>1. routedFams' = {}
    BY <1>2, NatClientAssumption DEF routedFams, newNet
  <2>2. \A f \in Families : net'.marks[f] = {}
    BY <1>2 DEF newNet
  <2> QED BY <1>4, <2>1, <2>2, NatClientAssumption DEF MarksOK, TypeOK
<1> QED BY <1>4, <1>5, <1>6, <1>7, <1>8, <1>9, <1>10 DEF IInv

\* ADD has a job for every tunnel; where the watcher has one too, it is the same
\* one unless there is another event.
LEMMA AddGetHookKeeps ==
    ASSUME IInv, AddGetHook
    PROVE  IInv'
<1> USE DEF Threads
<1> DEFINE all == UNION {jobsOf(e) : e \in Egresses}
           r == [thr["add"] EXCEPT !.pc = IF all = {} THEN "done" ELSE "init", !.gws = all]
<1>1. all \subseteq GWNets /\ JobsOK(all)
  BY AllJobsFacts DEF AddGetHook, IInv
<1>2. /\ thr["add"] \in Thread /\ thr["add"].pc = "getHook" /\ thr["add"].job = {}
  BY DEF AddGetHook, IInv, TypeOK, ThreadOK
<1>3. thr' = [thr EXCEPT !["add"] = r]
  BY DEF AddGetHook
<1>4. \A e \in Egresses : jobsOf(e) \subseteq all
  OBVIOUS
<1> HIDE DEF all
<1>5. /\ r \in Thread /\ r.gws = all /\ r.job = {} /\ r.conf = thr["add"].conf
      /\ r.pc \in {"done", "init"} /\ (r.pc = "done" => all = {})
  BY <1>1, <1>2 DEF Thread, PCs
<1> HIDE DEF r
<1>6. /\ thr' \in [Threads -> Thread]
      /\ thr'["watch"] = thr["watch"]
      /\ thr'["add"] = r
  BY <1>3, <1>5 DEF IInv, TypeOK
<1>7. thr["watch"].pc # "sync" /\ net = newNet /\ net' = net /\ net # NoNetns
  BY <1>2, NewNetFacts, NetnsAssumption DEF IInv, NetOK, AddGetHook
<1>8. TypeOK'
  BY <1>5, <1>6 DEF IInv, TypeOK, AddGetHook
<1>9. \A t \in Threads : ThreadOK(t)'
  BY <1>1, <1>5, <1>6 DEF IInv, ThreadOK
<1>10. \A t \in Threads : SyncOK(t)'
  BY <1>5, <1>6, <1>7 DEF SyncOK
<1>11. \A e \in Egresses : jobsOf(e)' = jobsOf(e)
  BY DEF jobsOf, AddGetHook
<1>12. WatchOK'
  BY <1>6, <1>11 DEF IInv, WatchOK, AddGetHook
<1>13. NetOK' /\ RulesOK'
  BY <1>2, <1>5, <1>6, <1>7 DEF IInv, NetOK, RulesOK
<1>14. \A f \in Families : net.marks[f] = {}
  BY <1>7 DEF newNet
<1>15. podFams' = podFams /\ podFams \subseteq Families
  BY NatClientAssumption DEF AddGetHook, IInv, TypeOK
<1>16. CleanOK'
  BY <1>7, <1>14, <1>15 DEF CleanOK
<1>17. MarksOK'
  <2>1. routedFams' = {}
    BY <1>7, NatClientAssumption DEF routedFams, newNet
  <2> QED BY <1>7, <1>14, <1>15, <2>1 DEF MarksOK
<1>18. SpecOK'
  <2> SUFFICES ASSUME NEW e \in Egresses, ~ Excused(e)', NEW j \in jobsOf(e),
                      supported(j.gw)
               PROVE  Due(j)'
    BY <1>11, <1>15 DEF SpecOK, supported
  <2>1. cached[e] # NoEgress /\ e \notin queue
    BY DEF Excused, AddGetHook
  <2>2. j.gw \in ClusterIPs[e]
    BY <2>1, JobsFacts DEF IInv
  <2>3. CASE Pending("watch", j.gw) # {}
    <3>1. PICK k \in thr["watch"].gws \cup thr["watch"].job : k.gw = j.gw
      BY <2>3 DEF Pending
    <3>2. thr["watch"].pc # "idle"
      BY <3>1 DEF IInv, ThreadOK
    <3>3. k \in jobsOf(e)
      BY <2>1, <2>2, <3>1, <3>2, OwnerUnique DEF IInv, WatchOK
    <3>4. k = j
      BY <2>1, <3>1, <3>3, JobsFacts DEF IInv, JobsOK
    <3> QED BY <1>6, <3>1, <3>4 DEF Due, Pending
  <2>4. CASE Pending("watch", j.gw) = {}
    <3>1. j \in Pending("add", j.gw)'
      BY <1>4, <1>5, <1>6 DEF Pending
    <3> QED BY <1>6, <2>4, <3>1 DEF Due, Pending
  <2> QED BY <2>3, <2>4
<1> QED BY <1>8, <1>9, <1>10, <1>12, <1>13, <1>16, <1>17, <1>18 DEF IInv

\* An ADD that fails leaves whatever it had made of the namespace.
LEMMA AddFailsKeeps ==
    ASSUME IInv, Goto("add", "failed"),
           thr["add"].pc \in {"getHook", "init", "next", "sync"},
           net' \in Netns, unmarked' \subseteq Families, faults' \in 0 .. MaxFaults,
           UNCHANGED <<egress, cached, queue, origOnly, podFams, running, missed, changes>>
    PROVE  IInv'
<1> USE DEF Threads
<1>1. /\ thr' \in [Threads -> Thread]
      /\ thr'["watch"] = thr["watch"]
      /\ thr'["add"].pc = "failed"
      /\ thr'["add"].gws = thr["add"].gws /\ thr'["add"].job = thr["add"].job
      /\ thr'["add"].conf = thr["add"].conf
  BY GotoFacts DEF IInv, TypeOK, PCs
<1>2. thr["watch"].pc # "sync" /\ net' # NoNetns
  BY NetnsAssumption DEF IInv, NetOK
<1>3. TypeOK'
  BY <1>1 DEF IInv, TypeOK
<1>4. \A t \in Threads : ThreadOK(t)'
  BY <1>1 DEF IInv, ThreadOK
<1>5. \A t \in Threads : SyncOK(t)'
  BY <1>1, <1>2 DEF SyncOK
<1>6. WatchOK'
  <2>1. \A e \in Egresses : jobsOf(e)' = jobsOf(e)
    BY DEF jobsOf
  <2> QED BY <1>1, <2>1 DEF IInv, WatchOK
<1>7. NetOK' /\ RulesOK' /\ SpecOK' /\ MarksOK' /\ CleanOK'
  BY <1>1, <1>2 DEF NetOK, RulesOK, SpecOK, MarksOK, CleanOK, Up
<1> QED BY <1>3, <1>4, <1>5, <1>6, <1>7 DEF IInv

\* Of a sandbox that is gone there is nothing to say.
LEMMA SandboxGoneKeeps ==
    ASSUME IInv, net' = NoNetns, thr' = [thr EXCEPT !["add"] = idle],
           thr["watch"].pc # "sync", faults' \in 0 .. MaxFaults,
           UNCHANGED <<egress, cached, queue, origOnly, podFams, running, missed,
                       unmarked, changes>>
    PROVE  IInv'
<1> USE DEF Threads
<1>1. /\ thr' \in [Threads -> Thread]
      /\ thr'["watch"] = thr["watch"]
      /\ thr'["add"] = idle
  BY IdleFacts DEF IInv, TypeOK
<1>2. TypeOK'
  BY <1>1, IdleFacts DEF IInv, TypeOK
<1>3. \A t \in Threads : ThreadOK(t)'
  BY <1>1, IdleFacts DEF IInv, ThreadOK, JobsOK
<1>4. \A t \in Threads : SyncOK(t)'
  BY <1>1, IdleFacts DEF SyncOK
<1>5. WatchOK'
  <2>1. \A e \in Egresses : jobsOf(e)' = jobsOf(e)
    BY DEF jobsOf
  <2> QED BY <1>1, <2>1 DEF IInv, WatchOK
<1>6. NetOK' /\ RulesOK' /\ SpecOK' /\ MarksOK' /\ CleanOK'
  BY <1>1, IdleFacts DEF NetOK, RulesOK, SpecOK, MarksOK, CleanOK, Up
<1> QED BY <1>2, <1>3, <1>4, <1>5, <1>6 DEF IInv

\* getHook without an Egress object, DEL after a failed ADD, and a sandbox that
\* is lost.
LEMMA AddEndsKeeps ==
    ASSUME IInv, AddNoEgress \/ AddCleanUp \/ SandboxLost
    PROVE  IInv'
<1>1. CASE AddNoEgress
  <2>1. net \in Netns /\ unmarked \subseteq Families /\ faults \in 0 .. MaxFaults
    BY <1>1 DEF AddNoEgress, IInv, TypeOK, NetOK
  <2> QED BY <1>1, <2>1, AddFailsKeeps DEF AddNoEgress
<1>2. CASE AddCleanUp \/ SandboxLost
  <2>1. thr["watch"].pc # "sync"
    BY <1>2 DEF AddCleanUp, SandboxLost, LockFree, HoldsLock, Threads
  <2>2. faults' \in 0 .. MaxFaults
    BY <1>2, NatClientAssumption DEF AddCleanUp, SandboxLost, Fault, IInv, TypeOK
  <2> QED BY <1>2, <2>1, <2>2, SandboxGoneKeeps DEF AddCleanUp, SandboxLost
<1> QED BY <1>1, <1>2

\* ADD sets up the rules; there are no routes yet, so nothing is in force.
LEMMA AddInitKeeps ==
    ASSUME IInv, AddInit
    PROVE  IInv'
<1> USE DEF Threads
<1>1. /\ thr' \in [Threads -> Thread]
      /\ thr'["watch"] = thr["watch"]
      /\ thr'["add"].pc = "next"
      /\ thr'["add"].gws = thr["add"].gws /\ thr'["add"].job = thr["add"].job
      /\ thr'["add"].conf = thr["add"].conf
  BY GotoFacts DEF IInv, TypeOK, AddInit, PCs
<1>2. thr["add"].pc = "init" /\ net = newNet
  BY DEF AddInit, IInv, NetOK
<1>3. /\ net' \in Netns
      /\ \A f \in Families : net'.rules[f] \in {{}, RuleNames}
      /\ net'.routes = newNet.routes
      /\ net'.marks = newNet.marks
  BY <1>2, InitFacts DEF AddInit, IInv
<1>4. net' # NoNetns /\ thr["watch"].pc # "sync"
  BY <1>2, <1>3, NetnsAssumption DEF IInv, NetOK
<1>5. TypeOK'
  BY <1>1, <1>3 DEF IInv, TypeOK, AddInit
<1>6. \A t \in Threads : ThreadOK(t)'
  BY <1>1, <1>2 DEF IInv, ThreadOK
<1>7. \A t \in Threads : SyncOK(t)'
  BY <1>1, <1>4 DEF SyncOK
<1>8. WatchOK'
  <2>1. \A e \in Egresses : jobsOf(e)' = jobsOf(e)
    BY DEF jobsOf, AddInit
  <2> QED BY <1>1, <2>1 DEF IInv, WatchOK, AddInit
<1>9. NetOK' /\ RulesOK'
  BY <1>1, <1>3, <1>4 DEF NetOK, RulesOK
<1>10. podFams' = podFams /\ podFams \subseteq Families
  BY NatClientAssumption DEF AddInit, IInv, TypeOK
<1>11. \A f \in Families : net'.marks[f] = {}
  BY <1>3 DEF newNet
<1>12. CleanOK'
  BY <1>10, <1>11 DEF CleanOK
<1>13. MarksOK'
  <2>1. routedFams' = {}
    BY <1>3, <1>4, NatClientAssumption DEF routedFams, newNet
  <2> QED BY <1>10, <1>11, <2>1 DEF MarksOK
<1>14. SpecOK'
  <2>1. \A e \in Egresses : Excused(e)' <=> Excused(e)
    BY <1>1 DEF Excused, AddInit
  <2>2. ASSUME NEW j, Due(j) PROVE Due(j)'
    <3>1. ~ InForce(j)
      BY <1>2 DEF InForce
    <3>2. Pending("watch", j.gw)' = Pending("watch", j.gw)
      BY <1>1 DEF Pending
    <3>3. Pending("add", j.gw)' = Pending("add", j.gw)
      BY <1>1 DEF Pending
    <3> QED BY <2>2, <3>1, <3>2, <3>3 DEF Due
  <2> QED BY <1>1, <1>2, <2>1, <2>2, SpecStep DEF IInv, Up, AddInit
<1> QED BY <1>5, <1>6, <1>7, <1>8, <1>9, <1>12, <1>13, <1>14 DEF IInv

\* ADD is done when it has no job left: what it had to do is in force.
LEMMA AddDoneKeeps ==
    ASSUME IInv, AddDone
    PROVE  IInv'
<1> USE DEF Threads
<1>1. thr["add"].pc = "next" /\ thr["add"].gws = {} /\ thr["add"].job = {}
  BY DEF AddDone, IInv, ThreadOK
<1> DEFINE r == [idle EXCEPT !.pc = "done"]
<1>2. /\ r \in Thread /\ r.pc = "done" /\ r.gws = {} /\ r.job = {} /\ r.conf = {}
  BY IdleFacts DEF PCs
<1>3. thr' = [thr EXCEPT !["add"] = r]
  BY DEF AddDone
<1> HIDE DEF r
<1>4. /\ thr' \in [Threads -> Thread]
      /\ thr'["watch"] = thr["watch"]
      /\ thr'["add"] = r
  BY <1>2, <1>3 DEF IInv, TypeOK
<1>5. TypeOK'
  BY <1>2, <1>4 DEF IInv, TypeOK, AddDone
<1>6. \A t \in Threads : ThreadOK(t)'
  BY <1>2, <1>4 DEF IInv, ThreadOK, JobsOK
<1>7. \A t \in Threads : SyncOK(t)'
  <2>1. thr["watch"].pc # "sync"
    BY <1>1 DEF IInv, NetOK
  <2> QED BY <1>2, <1>4, <2>1 DEF SyncOK
<1>8. WatchOK'
  <2>1. \A e \in Egresses : jobsOf(e)' = jobsOf(e)
    BY DEF jobsOf, AddDone
  <2> QED BY <1>4, <2>1 DEF IInv, WatchOK, AddDone
<1>9. NetOK' /\ RulesOK'
  BY <1>1, <1>2, <1>4 DEF IInv, NetOK, RulesOK, AddDone
<1>10. /\ routedFams' = routedFams
       /\ \A e \in Egresses : Excused(e)' <=> Excused(e)
  BY <1>4 DEF routedFams, Excused, AddDone
<1>11. \A g : Pending("watch", g)' = Pending("watch", g)
  BY <1>4 DEF Pending
<1>12. MarksOK'
  BY <1>1, <1>2, <1>4, <1>10 DEF IInv, MarksOK, AddDone
<1>13. SpecOK'
  <2>1. ASSUME NEW j, Due(j) PROVE Due(j)'
    <3>1. Pending("add", j.gw) = {} /\ Pending("add", j.gw)' = {}
      BY <1>1, <1>2, <1>4 DEF Pending
    <3>2. InForce(j) => InForce(j)'
      BY <1>2, <1>4 DEF InForce, AddDone, collectRoutesBySubnet
    <3> QED BY <1>11, <2>1, <3>1, <3>2 DEF Due
  <2> QED BY <1>1, <1>10, <2>1, SpecStep DEF IInv, Up, AddDone
<1>14. CleanOK'
  BY <1>1, <1>10, <1>11, CleanStep DEF IInv, Up, AddDone
<1> QED BY <1>5, <1>6, <1>7, <1>8, <1>9, <1>12, <1>13, <1>14 DEF IInv

-----------------------------------------------------------------------------
(* The environment and the watcher *)

\* The phase of the pod and the objects in the API server are not part of what
\* coild has done.
LEMMA OutsideKeeps ==
    ASSUME IInv, PodRuns \/ \E e \in Egresses : ChangeEgress(e)
    PROVE  IInv'
<1>1. /\ UNCHANGED <<cached, queue, origOnly, podFams, net, thr, missed, unmarked, faults>>
  BY DEF PodRuns, ChangeEgress
<1>2. TypeOK'
  <2>1. CASE PodRuns
    BY <2>1 DEF IInv, TypeOK, PodRuns
  <2>2. ASSUME NEW e \in Egresses, ChangeEgress(e) PROVE TypeOK'
    <3>1. PICK s \in {Versions[e][i] : i \in DOMAIN Versions[e]} \cup {NoEgress} :
             egress' = [egress EXCEPT ![e] = s]
      BY <2>2 DEF ChangeEgress
    <3>2. s \in Egress \cup {NoEgress}
      <4>1. Versions[e] \in Seq(Egress)
        BY NatClientAssumption DEF Egress
      <4>2. \A i \in DOMAIN Versions[e] : Versions[e][i] \in Egress
        BY <4>1
      <4> QED BY <4>2
    <3>3. changes' \in 0 .. MaxChanges
      BY <2>2, NatClientAssumption DEF ChangeEgress, IInv, TypeOK
    <3> QED BY <2>2, <3>1, <3>2, <3>3 DEF ChangeEgress, IInv, TypeOK
  <2> QED BY <2>1, <2>2
<1>3. /\ \A e \in Egresses : jobsOf(e)' = jobsOf(e) /\ (Excused(e)' <=> Excused(e))
      /\ routedFams' = routedFams
  BY <1>1 DEF jobsOf, Excused, routedFams
<1>4. \A t \in Threads : ThreadOK(t)' /\ SyncOK(t)'
  BY <1>1 DEF IInv, ThreadOK, SyncOK, collectRoutesBySubnet, supported
<1>5. WatchOK' /\ NetOK' /\ RulesOK'
  BY <1>1, <1>3 DEF IInv, WatchOK, NetOK, RulesOK
<1>6. MarksOK'
  BY <1>1, <1>3 DEF IInv, MarksOK
<1>7. \A j : (Due(j) => Due(j)') /\ Pending("watch", j.gw)' = Pending("watch", j.gw)
  BY <1>1 DEF Due, Pending, InForce, collectRoutesBySubnet
<1>8. SpecOK'
  BY <1>1, <1>3, <1>7, SpecStep DEF IInv, Up
<1>9. CleanOK'
  BY <1>1, <1>3, <1>7, CleanStep DEF IInv, Up
<1> QED BY <1>2, <1>4, <1>5, <1>6, <1>8, <1>9 DEF IInv

\* An event excuses its Egress object until the watcher has taken it.
LEMMA ObserveKeeps ==
    ASSUME IInv, NEW e \in Egresses, Observe(e)
    PROVE  IInv'
<1>1. /\ UNCHANGED <<egress, origOnly, podFams, running, net, thr, missed, unmarked,
                     changes, faults>>
      /\ cached' = [cached EXCEPT ![e] = egress[e]]
      /\ queue' = queue \cup {e}
  BY DEF Observe
<1>2. TypeOK'
  BY <1>1 DEF IInv, TypeOK
<1>3. \A x \in Egresses : x # e => jobsOf(x)' = jobsOf(x) /\ (Excused(x)' <=> Excused(x))
  BY <1>1 DEF jobsOf, Excused, IInv, TypeOK
<1>4. Excused(e)' /\ routedFams' = routedFams
  BY <1>1 DEF Excused, routedFams
<1>5. \A t \in Threads : ThreadOK(t)' /\ SyncOK(t)'
  BY <1>1 DEF IInv, ThreadOK, SyncOK, collectRoutesBySubnet, supported
<1>6. NetOK' /\ RulesOK'
  BY <1>1 DEF IInv, NetOK, RulesOK
<1>7. WatchOK'
  <2> SUFFICES ASSUME thr["watch"].pc # "idle", NEW x \in Egresses,
                      thr["watch"].egs = {x},
                      \A j \in thr["watch"].gws \cup thr["watch"].job : j.gw \in ClusterIPs[x],
                      \/ x \in queue
                      \/ cached[x] # NoEgress
                         /\ thr["watch"].gws \cup thr["watch"].job \subseteq jobsOf(x)
               PROVE  \/ x \in queue'
                      \/ cached'[x] # NoEgress
                         /\ thr["watch"].gws \cup thr["watch"].job \subseteq jobsOf(x)'
    BY <1>1 DEF IInv, WatchOK
  <2> QED BY <1>1, <1>3 DEF IInv, TypeOK
<1>8. MarksOK'
  BY <1>1, <1>4 DEF IInv, MarksOK
<1>9. \A j : (Due(j) => Due(j)') /\ Pending("watch", j.gw)' = Pending("watch", j.gw)
  BY <1>1 DEF Due, Pending, InForce, collectRoutesBySubnet
<1>10. (Up' <=> Up) /\ \A g : supported(g)' <=> supported(g)
  BY <1>1 DEF Up, supported
<1>11. SpecOK'
  BY <1>3, <1>4, <1>9, <1>10 DEF IInv, SpecOK
<1>12. CleanOK'
  BY <1>1, <1>3, <1>4, <1>9, <1>10 DEF IInv, CleanOK
<1> QED BY <1>2, <1>5, <1>6, <1>7, <1>8, <1>11, <1>12 DEF IInv

\* The watcher takes an event: all the jobs of the Egress object are pending, or
\* the change is recorded as missed.
LEMMA ReconcileKeeps ==
    ASSUME IInv, NEW e \in Egresses, Reconcile(e)
    PROVE  IInv'
<1> USE DEF Threads
<1>1. /\ UNCHANGED <<egress, cached, origOnly, podFams, running, net, unmarked, changes,
                     faults>>
      /\ queue' = queue \ {e}
      /\ thr["watch"].pc = "idle" /\ thr["watch"].egs = {}
      /\ thr["watch"].gws = {} /\ thr["watch"].job = {}
  BY DEF Reconcile, IInv, WatchOK, ThreadOK
<1>2. /\ \A x \in Egresses : jobsOf(x)' = jobsOf(x)
      /\ routedFams' = routedFams
  BY <1>1 DEF jobsOf, routedFams
<1>3. CASE cached[e] # NoEgress /\ running
  <2> DEFINE r == [idle EXCEPT !.pc = "next", !.egs = {e}, !.gws = jobsOf(e)]
  <2>1. thr' = [thr EXCEPT !["watch"] = r] /\ missed' = missed
    BY <1>3 DEF Reconcile
  <2>2. /\ jobsOf(e) \subseteq GWNets /\ JobsOK(jobsOf(e))
        /\ \A j \in jobsOf(e) : j.gw \in ClusterIPs[e]
    BY <1>3, JobsFacts DEF IInv
  <2>3. /\ r \in Thread /\ r.pc = "next" /\ r.egs = {e} /\ r.gws = jobsOf(e)
        /\ r.job = {} /\ r.conf = {}
    BY <2>2 DEF idle, Thread, PCs
  <2> HIDE DEF r
  <2>4. /\ thr' \in [Threads -> Thread]
        /\ thr'["add"] = thr["add"]
        /\ thr'["watch"] = r
    BY <2>1, <2>3 DEF IInv, TypeOK
  <2>5. TypeOK'
    BY <1>1, <2>1, <2>3, <2>4 DEF IInv, TypeOK
  <2>6. \A t \in Threads : ThreadOK(t)'
    <3>1. ThreadOK("add")'
      BY <2>4 DEF IInv, ThreadOK, Threads
    <3>2. r.gws \cup r.job = jobsOf(e) /\ r.gws \cap r.job = {}
      BY <2>3
    <3>3. ThreadOK("watch")'
      BY <2>2, <2>3, <2>4, <3>2 DEF ThreadOK
    <3> QED
      BY <3>1, <3>3 DEF Threads
  <2>7. \A t \in Threads : SyncOK(t)'
    BY <1>1, <2>3, <2>4 DEF IInv, SyncOK, collectRoutesBySubnet, supported
  <2>8. WatchOK'
    <3>1. thr'["watch"].gws \cup thr'["watch"].job = jobsOf(e)
      BY <2>3, <2>4
    <3> QED BY <1>1, <1>2, <1>3, <2>2, <2>3, <2>4, <3>1 DEF WatchOK
  <2>9. NetOK' /\ RulesOK'
    BY <1>1, <2>3, <2>4 DEF IInv, NetOK, RulesOK
  <2>10. MarksOK'
    BY <1>1, <1>2, <2>4 DEF IInv, MarksOK
  <2>11. (Up' <=> Up) /\ \A g : supported(g)' <=> supported(g)
    BY <1>1, <2>4 DEF Up, supported
  <2>12. \A j \in jobsOf(e) : j \in Pending("watch", j.gw)'
    BY <2>3, <2>4 DEF Pending
  <2>13. ASSUME NEW x \in Egresses, x # e, ~ Excused(x)'
         PROVE  ~ Excused(x)
    BY <1>1, <2>1, <2>3, <2>4, <2>13 DEF Excused
  <2>14. ASSUME NEW x \in Egresses, x # e, ~ Excused(x), NEW j \in jobsOf(x)
         PROVE  Pending("watch", j.gw) = {} /\ Pending("watch", j.gw)' = {}
    <3>1. j.gw \in ClusterIPs[x]
      BY <2>14, JobsFacts DEF IInv, Excused
    <3>2. \A k \in jobsOf(e) : k.gw # j.gw
      BY <2>2, <2>14, <3>1, OwnerUnique
    <3> QED BY <1>1, <2>3, <2>4, <3>2 DEF Pending
  <2>15. SpecOK'
    <3> SUFFICES ASSUME Up', NEW x \in Egresses, ~ Excused(x)', NEW j \in jobsOf(x),
                        supported(j.gw)
                 PROVE  Due(j)'
      BY <1>2, <2>11 DEF SpecOK
    <3>1. CASE x = e
      BY <2>12, <3>1 DEF Due
    <3>2. CASE x # e
      <4>1. Due(j) /\ Pending("watch", j.gw) = {} /\ Pending("watch", j.gw)' = {}
        BY <2>11, <2>13, <2>14, <3>2 DEF IInv, SpecOK
      <4>2. /\ Pending("add", j.gw)' = Pending("add", j.gw)
            /\ InForce(j) => InForce(j)'
        BY <1>1, <2>4 DEF Pending, InForce, collectRoutesBySubnet
      <4> QED BY <4>1, <4>2 DEF Due
    <3> QED BY <3>1, <3>2
  <2>16. CleanOK'
    <3> SUFFICES ASSUME Up', ~ origOnly', \E f \in podFams \ unmarked : net.marks[f] # {},
                        NEW x \in Egresses, ~ Excused(x)', NEW j \in jobsOf(x),
                        supported(j.gw)
                 PROVE  j \in Pending("watch", j.gw)'
      BY <1>1, <1>2, <2>11 DEF CleanOK
    <3>1. CASE x # e
      BY <1>1, <2>11, <2>13, <2>14, <3>1 DEF IInv, CleanOK
    <3> QED BY <2>12, <3>1
  <2> QED BY <2>5, <2>6, <2>7, <2>8, <2>9, <2>10, <2>15, <2>16 DEF IInv
<1>4. CASE ~ (cached[e] # NoEgress /\ running)
  <2>1. thr' = thr /\ missed' = missed \cup {e}
    BY <1>4 DEF Reconcile
  <2>2. TypeOK'
    BY <1>1, <2>1 DEF IInv, TypeOK
  <2>3. \A t \in Threads : ThreadOK(t)' /\ SyncOK(t)'
    BY <1>1, <2>1 DEF IInv, ThreadOK, SyncOK, collectRoutesBySubnet, supported
  <2>4. WatchOK' /\ NetOK' /\ RulesOK'
    BY <1>1, <2>1 DEF IInv, WatchOK, NetOK, RulesOK
  <2>5. MarksOK'
    BY <1>1, <1>2, <2>1 DEF IInv, MarksOK
  <2>6. \A x \in Egresses : Excused(x) => Excused(x)'
    BY <1>1, <2>1 DEF Excused
  <2>7. \A j : (Due(j) => Due(j)') /\ Pending("watch", j.gw)' = Pending("watch", j.gw)
    BY <1>1, <2>1 DEF Due, Pending, InForce, collectRoutesBySubnet
  <2>8. SpecOK'
    BY <1>1, <2>1, <2>6, <2>7, SpecStep DEF IInv, Up
  <2>9. CleanOK'
    BY <1>1, <2>1, <2>6, <2>7, CleanStep DEF IInv, Up
  <2> QED BY <2>2, <2>3, <2>4, <2>5, <2>8, <2>9 DEF IInv
<1> QED BY <1>3, <1>4

\* The jobs of the watcher are for tunnels of its own Egress object.
LEMMA WatchJobs ==
    ASSUME IInv, NEW x \in Egresses, x \notin thr["watch"].egs,
           NEW g, g \in ClusterIPs[x]
    PROVE  Pending("watch", g) = {}
<1>1. CASE thr["watch"].pc = "idle"
  BY <1>1 DEF IInv, ThreadOK, Threads, Pending
<1>2. CASE thr["watch"].pc # "idle"
  BY <1>2, OwnerUnique DEF IInv, WatchOK, Pending
<1> QED BY <1>1, <1>2

\* The watcher gives up and puts its Egress object back into the queue.  What it
\* leaves of the namespace is the same for the other Egress objects, and the
\* families whose marks it was about to set are in unmarked.
LEMMA RequeueKeeps ==
    ASSUME IInv, Requeue, thr["watch"].pc # "idle",
           unmarked' \subseteq Families, faults' \in 0 .. MaxFaults,
           UNCHANGED <<egress, cached, origOnly, podFams, running, missed, changes>>,
           \/ net' = net
           \/ /\ net \in Netns /\ net' \in Netns
              /\ thr["add"].pc \in {"done", "failed"} /\ net'.rules = net.rules,
           net # NoNetns => \A x \in Egresses : x \notin thr["watch"].egs =>
              \A g \in ClusterIPs[x] :
                 /\ net'.fou.links[g] = net.fou.links[g]
                 /\ collectRoutesBySubnet(net, g)' = collectRoutesBySubnet(net, g),
           routedFams' \subseteq routedFams,
           \A f \in podFams \ unmarked' :
              f \notin unmarked /\ (net # NoNetns => net'.marks[f] = net.marks[f]),
           origOnly /\ thr["watch"].pc = "sync" => thr["watch"].conf \subseteq unmarked'
    PROVE  IInv'
<1> USE DEF Threads
<1>1. /\ thr' \in [Threads -> Thread]
      /\ thr'["add"] = thr["add"]
      /\ thr'["watch"] = idle
      /\ queue' = queue \cup thr["watch"].egs
  BY IdleFacts DEF IInv, TypeOK, Requeue
<1>2. PICK e \in Egresses : thr["watch"].egs = {e}
  BY DEF IInv, WatchOK
<1>3. TypeOK'
  BY <1>1, <1>2, IdleFacts DEF IInv, TypeOK
<1>4. \A t \in Threads : ThreadOK(t)'
  BY <1>1, IdleFacts DEF IInv, ThreadOK, JobsOK
<1>5. \A t \in Threads : SyncOK(t)'
  BY <1>1, IdleFacts DEF IInv, SyncOK, collectRoutesBySubnet, supported
<1>6. WatchOK'
  BY <1>1, IdleFacts DEF WatchOK
<1>7. NetOK'
  BY <1>1, IdleFacts, NetnsAssumption DEF IInv, NetOK
<1>8. RulesOK'
  BY <1>1, NetnsAssumption DEF IInv, RulesOK
<1>9. MarksOK'
  <2> SUFFICES ASSUME net' # NoNetns, thr["add"].pc # "failed", NEW f \in podFams \ unmarked'
               PROVE  /\ net'.marks[f] = {} \/ "table" \in net'.marks[f]
                      /\ origOnly => \/ f \notin routedFams'
                                     \/ net'.marks[f] = Marks
                                     \/ thr["add"].pc = "sync" /\ f \in thr["add"].conf
    BY <1>1 DEF MarksOK
  <2>1. net # NoNetns /\ f \in podFams \ unmarked /\ net'.marks[f] = net.marks[f]
    BY NetnsAssumption
  <2>2. net.marks[f] = {} \/ "table" \in net.marks[f]
    BY <2>1 DEF IInv, MarksOK
  <2>3. ASSUME origOnly PROVE \/ f \notin routedFams
                              \/ net.marks[f] = Marks
                              \/ \E t \in Threads : thr[t].pc = "sync" /\ f \in thr[t].conf
    BY <2>1, <2>3 DEF IInv, MarksOK
  <2> QED BY <2>1, <2>2, <2>3
<1>10. Excused(e)' /\ \A x \in Egresses : x # e => (Excused(x)' <=> Excused(x))
  BY <1>1, <1>2, IdleFacts DEF Excused
<1>11. Up' <=> Up
  BY <1>1 DEF Up
<1>12. ASSUME NEW x \in Egresses, ~ Excused(x)', NEW j \in jobsOf(x), Up'
       PROVE  /\ Pending("watch", j.gw) = {}
              /\ Due(j) => Due(j)'
  <2>1. x # e /\ cached[x] # NoEgress
    BY <1>10, <1>12 DEF Excused
  <2>2. j.gw \in ClusterIPs[x]
    BY <2>1, JobsFacts DEF IInv
  <2>3. Pending("watch", j.gw) = {} /\ Pending("watch", j.gw)' = {}
    BY <1>1, <1>2, <2>1, <2>2, IdleFacts, WatchJobs DEF Pending
  <2>4. Pending("add", j.gw)' = Pending("add", j.gw)
    BY <1>1 DEF Pending
  <2>5. InForce(j) => InForce(j)'
    <3>1. net # NoNetns
      BY <1>11, <1>12 DEF IInv, NetOK, Up
    <3>2. /\ net'.fou.links[j.gw] = net.fou.links[j.gw]
          /\ collectRoutesBySubnet(net, j.gw)' = collectRoutesBySubnet(net, j.gw)
      BY <1>2, <2>1, <2>2, <3>1
    <3> QED BY <1>1, <3>2 DEF InForce
  <2> QED BY <2>3, <2>4, <2>5 DEF Due
<1>13. \A x \in Egresses : Excused(x) => Excused(x)'
  BY <1>10
<1>14. SpecOK'
  BY <1>11, <1>12, <1>13, SpecStep DEF IInv
<1>15. CleanOK'
  <2>1. Up => net # NoNetns
    BY DEF IInv, NetOK, Up
  <2> QED BY <1>11, <1>12, <1>13, <2>1, CleanStep DEF IInv
<1> QED BY <1>3, <1>4, <1>5, <1>6, <1>7, <1>8, <1>9, <1>14, <1>15 DEF IInv

\* The watcher fails before it has changed anything.
LEMMA WatchFailsKeeps ==
    ASSUME IInv, ReconcileFails \/ UpdateNotReady
    PROVE  IInv'
<1>1. /\ Requeue /\ thr["watch"].pc = "next"
      /\ UNCHANGED <<egress, cached, origOnly, podFams, running, net, missed, unmarked, changes>>
  BY DEF ReconcileFails, UpdateNotReady
<1>2. unmarked \subseteq Families /\ faults' \in 0 .. MaxFaults
  BY NatClientAssumption DEF ReconcileFails, UpdateNotReady, Fault, IInv, TypeOK
<1>3. /\ routedFams' = routedFams
      /\ \A g : collectRoutesBySubnet(net, g)' = collectRoutesBySubnet(net, g)
  BY <1>1 DEF routedFams, collectRoutesBySubnet
<1> QED BY <1>1, <1>2, <1>3, RequeueKeeps

\* The watcher is done with its Egress object: no job is left, so all of them
\* are in force, a change it had missed included.
LEMMA ReconcileDoneKeeps ==
    ASSUME IInv, ReconcileDone
    PROVE  IInv'
<1> USE DEF Threads
<1>1. /\ UNCHANGED <<egress, cached, queue, origOnly, podFams, running, net, unmarked, changes,
                     faults>>
      /\ thr["watch"].pc = "next" /\ thr["watch"].gws = {} /\ thr["watch"].job = {}
      /\ missed' = missed \ thr["watch"].egs
  BY DEF ReconcileDone, IInv, ThreadOK
<1>2. /\ thr' \in [Threads -> Thread]
      /\ thr'["add"] = thr["add"]
      /\ thr'["watch"] = idle
  BY IdleFacts DEF IInv, TypeOK, ReconcileDone
<1>3. TypeOK'
  BY <1>1, <1>2, IdleFacts DEF IInv, TypeOK
<1>4. \A t \in Threads : ThreadOK(t)'
  BY <1>2, IdleFacts DEF IInv, ThreadOK, JobsOK
<1>5. \A t \in Threads : SyncOK(t)'
  BY <1>1, <1>2, IdleFacts DEF IInv, SyncOK, collectRoutesBySubnet, supported
<1>6. WatchOK' /\ NetOK' /\ RulesOK'
  BY <1>1, <1>2, IdleFacts DEF IInv, WatchOK, NetOK, RulesOK
<1>7. routedFams' = routedFams
  BY <1>1 DEF routedFams
<1>8. MarksOK'
  BY <1>1, <1>2, <1>7 DEF IInv, MarksOK
<1>9. \A x \in Egresses : Excused(x) => Excused(x)'
  BY <1>1, <1>2, IdleFacts DEF Excused
<1>10. \A g : Pending("watch", g) = {} /\ Pending("watch", g)' = {}
  BY <1>1, <1>2, IdleFacts DEF Pending
<1>11. \A j : Due(j) => Due(j)'
  BY <1>1, <1>2, <1>10 DEF Due, Pending, InForce, collectRoutesBySubnet
<1>12. SpecOK'
  BY <1>1, <1>2, <1>9, <1>11, SpecStep DEF IInv, Up
<1>13. CleanOK'
  BY <1>1, <1>2, <1>9, <1>10, CleanStep DEF IInv, Up
<1> QED BY <1>3, <1>4, <1>5, <1>6, <1>8, <1>12, <1>13 DEF IInv

-----------------------------------------------------------------------------
(* The hook *)

\* The lock of the container: a thread that starts on a tunnel is alone in the
\* namespace, and the watcher only starts when ADD is over.
LEMMA ReadyFacts ==
    ASSUME IInv, NEW t \in Threads, HookReady(t)
    PROVE  /\ net \in Netns /\ net # NoNetns
           /\ thr[t] \in Thread /\ thr[t].pc = "next" /\ thr[t].job = {}
           /\ \A u \in Threads : thr[u].pc # "sync"
           /\ t = "watch" => thr["add"].pc \in {"done", "failed"}
<1> USE DEF Threads
<1>1. thr[t] \in Thread /\ thr[t].pc = "next" /\ thr[t].job = {}
  BY DEF HookReady, IInv, TypeOK, ThreadOK
<1>2. \A u \in Threads : thr[u].pc # "sync"
  BY <1>1 DEF HookReady, LockFree, HoldsLock
<1>3. net \in Netns /\ net # NoNetns
  <2>1. net # NoNetns
    BY <1>1 DEF HookReady, IInv, NetOK
  <2> QED BY <2>1 DEF IInv, TypeOK
<1>4. ASSUME t = "watch" PROVE thr["add"].pc \in {"done", "failed"}
  <2>1. thr["add"].pc \notin {"init", "next", "sync"}
    BY <1>4 DEF HookReady, LockFree, HoldsLock
  <2>2. thr["add"].pc # "getHook"
    <3>1. newNet.fou.dummy = FALSE
      BY DEF newNet, newNetns
    <3> QED BY <1>4, <3>1 DEF HookReady, IsInitialized, IInv, NetOK
  <2>3. thr["add"].pc # "idle"
    BY <1>3 DEF IInv, NetOK
  <2> QED BY <2>1, <2>2, <2>3 DEF IInv, TypeOK, Thread, PCs
<1> QED BY <1>1, <1>2, <1>3, <1>4

\* A tunnel that a call does not concern is not disturbed by it.
LEMMA TouchedFacts ==
    ASSUME NEW n \in Netns, NEW m, NEW g, Touched(n, m, g)
    PROVE  /\ \A a \in Addrs : a # g =>
                 /\ m.fou.links[a] = n.fou.links[a]
                 /\ collectRoutesBySubnet(m, a) = collectRoutesBySubnet(n, a)
           /\ \A d \in Dests : m.routes[d] # NoRoute => n.routes[d] # NoRoute
<1>1. ASSUME NEW a \in Addrs, a # g
      PROVE  collectRoutesBySubnet(m, a) = collectRoutesBySubnet(n, a)
  <2>1. \A d \in Dests : m.routes[d] = a <=> n.routes[d] = a
    BY <1>1, NatClientAssumption DEF Touched
  <2> QED BY <2>1 DEF collectRoutesBySubnet
<1>2. ASSUME NEW d \in Dests, m.routes[d] # NoRoute
      PROVE  n.routes[d] # NoRoute
  BY <1>2 DEF Touched
<1> QED BY <1>1, <1>2 DEF Touched

\* A tunnel of a family the pod does not have is skipped.
LEMMA HookSkipKeeps ==
    ASSUME IInv, NEW t \in Threads, HookReady(t), NEW job \in thr[t].gws,
           ~ supported(job.gw), thr' = [thr EXCEPT ![t].gws = @ \ {job}],
           UNCHANGED <<egress, cached, queue, origOnly, podFams, running, net, missed, unmarked,
                       changes, faults>>
    PROVE  IInv'
<1> USE DEF Threads
<1> DEFINE r == [thr[t] EXCEPT !.gws = @ \ {job}]
<1>1. /\ net \in Netns /\ thr[t] \in Thread /\ thr[t].pc = "next" /\ thr[t].job = {}
      /\ \A u \in Threads : thr[u].pc # "sync"
  BY ReadyFacts
<1>2. /\ r \in Thread /\ r.pc = "next" /\ r.gws = thr[t].gws \ {job} /\ r.job = {}
      /\ r.egs = thr[t].egs /\ r.conf = thr[t].conf
  BY <1>1 DEF Thread
<1>3. thr' = [thr EXCEPT ![t] = r]
  OBVIOUS
<1> HIDE DEF r
<1>4. /\ thr' \in [Threads -> Thread]
      /\ \A u \in Threads : u # t => thr'[u] = thr[u]
      /\ thr'[t] = r
  BY <1>2, <1>3 DEF IInv, TypeOK
<1>5. \A u \in Threads : thr'[u].pc = thr[u].pc /\ thr'[u].egs = thr[u].egs
  BY <1>1, <1>2, <1>4
<1>6. TypeOK'
  BY <1>2, <1>4 DEF IInv, TypeOK
<1>7. \A u \in Threads : ThreadOK(u)'
  <2>1. ThreadOK(t)'
    BY <1>1, <1>2, <1>4 DEF IInv, ThreadOK, JobsOK
  <2> QED BY <1>4, <2>1 DEF IInv, ThreadOK
<1>8. \A u \in Threads : SyncOK(u)'
  BY <1>1, <1>5 DEF SyncOK
<1>9. \A x \in Egresses : jobsOf(x)' = jobsOf(x) /\ (Excused(x)' <=> Excused(x))
  BY <1>5 DEF jobsOf, Excused
<1>10. \A u \in Threads : thr'[u].gws \cup thr'[u].job \subseteq thr[u].gws \cup thr[u].job
  BY <1>2, <1>4
<1>11. WatchOK'
  BY <1>5, <1>9, <1>10 DEF IInv, WatchOK
<1>12. NetOK' /\ RulesOK'
  BY <1>5 DEF IInv, NetOK, RulesOK
<1>13. MarksOK'
  <2>1. routedFams' = routedFams
    BY DEF routedFams
  <2> QED BY <1>1, <1>5, <2>1 DEF IInv, MarksOK
<1>14. ASSUME NEW j, supported(j.gw)
       PROVE  /\ Pending("watch", j.gw)' = Pending("watch", j.gw)
              /\ Due(j) => Due(j)'
  <2>1. \A u \in Threads : Pending(u, j.gw)' = Pending(u, j.gw)
    BY <1>1, <1>2, <1>4, <1>14 DEF Pending
  <2> QED BY <1>5, <2>1 DEF Due, InForce, collectRoutesBySubnet
<1>15. SpecOK'
  BY <1>5, <1>9, <1>14, SpecStep DEF IInv, Up
<1>16. CleanOK'
  BY <1>5, <1>9, <1>14, CleanStep DEF IInv, Up
<1> QED BY <1>6, <1>7, <1>8, <1>11, <1>12, <1>13, <1>15, <1>16 DEF IInv

\* AddPeer disturbs only the tunnel that its thread is now busy with.
LEMMA HookTunnelKeeps ==
    ASSUME IInv, NEW t \in Threads, HookReady(t), NEW job \in thr[t].gws,
           supported(job.gw), NEW n,
           n = WithTunnels(net, AddPeer(net.fou, job.gw, job.sport), job.gw),
           net' = n, NEW r,
           r = [thr[t] EXCEPT !.pc = "sync", !.gws = @ \ {job}, !.job = {job},
                              !.dels = dels(n, job), !.adds = adds(n, job), !.conf = {}],
           thr' = [thr EXCEPT ![t] = r],
           UNCHANGED <<egress, cached, queue, origOnly, podFams, running, missed, unmarked,
                       changes, faults>>
    PROVE  IInv'
<1> USE DEF Threads
<1>1. /\ net \in Netns /\ thr[t] \in Thread /\ thr[t].pc = "next" /\ thr[t].job = {}
      /\ \A u \in Threads : thr[u].pc # "sync"
      /\ t = "watch" => thr["add"].pc \in {"done", "failed"}
      /\ net # NoNetns
  BY ReadyFacts
<1>2. job \in GWNets /\ job.gw \in Addrs /\ job.sport \in Sports
  BY <1>1 DEF Thread, GWNets
<1>3. Touched(net, n, job.gw) /\ n.fou.links[job.gw] = job.sport
  BY <1>1, <1>2, PeerFacts
<1>4. n \in Netns /\ n # NoNetns /\ n.rules = net.rules /\ n.marks = net.marks
  BY <1>3, NetnsAssumption DEF Touched
<1>5. dels(n, job) \subseteq Dests /\ adds(n, job) \subseteq Dests
  BY <1>2 DEF dels, adds, collectRoutesBySubnet, GWNets
<1> DEFINE ds == dels(n, job)
           as == adds(n, job)
<1> HIDE DEF ds, as
<1>6. /\ r \in Thread /\ r.pc = "sync" /\ r.gws = thr[t].gws \ {job} /\ r.job = {job}
      /\ r.dels = ds /\ r.adds = as /\ r.conf = {} /\ r.egs = thr[t].egs
  BY <1>1, <1>2, <1>5 DEF Thread, PCs, ds, as
<1>7. /\ thr' \in [Threads -> Thread]
      /\ \A u \in Threads : u # t => thr'[u] = thr[u]
      /\ thr'[t] = r
  BY <1>6 DEF IInv, TypeOK
<1>8. /\ \A u \in Threads : /\ thr'[u].egs = thr[u].egs
                            /\ thr'[u].gws \cup thr'[u].job = thr[u].gws \cup thr[u].job
      /\ thr'["watch"].pc # "idle" <=> thr["watch"].pc # "idle"
      /\ thr'["add"].pc = "init" <=> thr["add"].pc = "init"
      /\ Up' <=> Up
  BY <1>1, <1>6, <1>7 DEF Up
<1>9. TypeOK'
  BY <1>4, <1>6, <1>7 DEF IInv, TypeOK
<1>10. \A u \in Threads : ThreadOK(u)'
  <2>1. ThreadOK(t)'
    BY <1>1, <1>6, <1>7, <1>8 DEF IInv, ThreadOK
  <2> QED BY <1>7, <2>1 DEF IInv, ThreadOK
<1>11. \A u \in Threads : SyncOK(u)'
  <2>1. SyncOK(t)'
    <3>1. /\ ds \subseteq collectRoutesBySubnet(n, job.gw) \ job.networks
          /\ as = adds(n, job)
          /\ collectRoutesBySubnet(n, job.gw) \subseteq job.networks \cup ds
      BY DEF ds, as, dels
    <3>2. /\ collectRoutesBySubnet(net, job.gw)' = collectRoutesBySubnet(n, job.gw)
          /\ adds(net, job)' = adds(n, job)
      BY DEF collectRoutesBySubnet, adds
    <3> QED BY <1>3, <1>6, <1>7, <3>1, <3>2 DEF SyncOK, supported
  <2> QED BY <1>1, <1>7, <2>1 DEF SyncOK
<1>12. \A x \in Egresses : jobsOf(x)' = jobsOf(x) /\ (Excused(x)' <=> Excused(x))
  BY <1>8 DEF jobsOf, Excused
<1>13. WatchOK'
  <2>1. thr'["watch"].pc \in {"idle", "next", "sync"}
    BY <1>6, <1>7 DEF IInv, WatchOK
  <2> QED BY <1>8, <1>12, <2>1 DEF IInv, WatchOK
<1>14. NetOK' /\ RulesOK'
  BY <1>1, <1>4, <1>6, <1>7 DEF IInv, NetOK, RulesOK
<1>15. routedFams' \subseteq routedFams
  BY <1>1, <1>3, <1>4, TouchedFacts DEF routedFams
<1>16. MarksOK'
  BY <1>1, <1>4, <1>6, <1>7, <1>15 DEF IInv, MarksOK
<1>17. \A u \in Threads : \A g : Pending(u, g)' = Pending(u, g)
  BY <1>8 DEF Pending
<1>18. ASSUME NEW j, j.gw \in Addrs, Due(j) PROVE Due(j)'
  <2>1. CASE j.gw = job.gw
    <3>1. job \in Pending(t, j.gw)
      BY <2>1 DEF Pending
    <3> QED BY <1>17, <1>18, <3>1 DEF Due
  <2>2. CASE j.gw # job.gw
    <3>1. /\ n.fou.links[j.gw] = net.fou.links[j.gw]
          /\ collectRoutesBySubnet(n, j.gw) = collectRoutesBySubnet(net, j.gw)
      BY <1>1, <1>3, <1>18, <2>2, TouchedFacts
    <3>2. InForce(j) => InForce(j)'
      BY <1>8, <3>1 DEF InForce, collectRoutesBySubnet
    <3> QED BY <1>17, <1>18, <3>2 DEF Due
  <2> QED BY <2>1, <2>2
<1>19. \A x \in Egresses : ~ Excused(x)' => \A j \in jobsOf(x) : j.gw \in Addrs
  BY <1>12, JobsFacts, NatClientAssumption DEF IInv, Excused
<1>20. SpecOK'
  BY <1>8, <1>12, <1>18, <1>19, SpecStep DEF IInv
<1>21. CleanOK'
  BY <1>4, <1>8, <1>12, <1>17, CleanStep DEF IInv
<1> QED BY <1>9, <1>10, <1>11, <1>13, <1>14, <1>16, <1>20, <1>21 DEF IInv

\* The tunnel of a job is skipped or set up.
LEMMA HookPeerKeeps ==
    ASSUME IInv, NEW t \in Threads, HookPeer(t)
    PROVE  IInv'
<1>1. HookReady(t)
  BY DEF HookPeer
<1>2. PICK job \in thr[t].gws :
        IF ~supported(job.gw)
        THEN /\ thr' = [thr EXCEPT ![t].gws = @ \ {job}]
             /\ UNCHANGED net
        ELSE LET n == WithTunnels(net, AddPeer(net.fou, job.gw, job.sport), job.gw)
             IN  /\ net' = n
                 /\ thr' = [thr EXCEPT
                       ![t].pc = "sync", ![t].gws = @ \ {job}, ![t].job = {job},
                       ![t].dels = dels(n, job), ![t].adds = adds(n, job),
                       ![t].conf = {}]
  BY DEF HookPeer
<1>3. UNCHANGED <<egress, cached, queue, origOnly, podFams, running, missed, unmarked,
                  changes, faults>>
  BY DEF HookPeer
<1>4. CASE ~ supported(job.gw)
  BY <1>1, <1>2, <1>3, <1>4, HookSkipKeeps
<1>5. CASE supported(job.gw)
  <2>1. PICK n : n = WithTunnels(net, AddPeer(net.fou, job.gw, job.sport), job.gw)
    OBVIOUS
  <2>2. PICK r :
          r = [thr[t] EXCEPT !.pc = "sync", !.gws = @ \ {job}, !.job = {job},
                             !.dels = dels(n, job), !.adds = adds(n, job), !.conf = {}]
    OBVIOUS
  <2>3. net' = n
    BY <1>2, <1>5, <2>1
  <2>4. thr' = [thr EXCEPT ![t].pc = "sync", ![t].gws = @ \ {job}, ![t].job = {job},
                           ![t].dels = dels(n, job), ![t].adds = adds(n, job),
                           ![t].conf = {}]
    BY <1>2, <1>5, <2>1
  <2>5. thr' = [thr EXCEPT ![t] = r]
    BY <2>2, <2>4
  <2> QED BY <1>1, <1>3, <1>5, <2>1, <2>2, <2>3, <2>5, HookTunnelKeeps
<1> QED BY <1>4, <1>5

\* Who is in SyncNat is alone in the namespace.
LEMMA SyncFacts ==
    ASSUME IInv, NEW t \in Threads, thr[t].pc = "sync"
    PROVE  /\ net \in Netns /\ net # NoNetns
           /\ thr[t] \in Thread
           /\ \A u \in Threads : u # t => thr[u].pc # "sync"
           /\ t = "watch" => thr["add"].pc \in {"done", "failed"}
<1> USE DEF Threads
<1>1. t = "watch" => thr["add"].pc \in {"done", "failed"}
  BY DEF IInv, NetOK
<1>2. \A u \in Threads : u # t => thr[u].pc # "sync"
  BY DEF IInv, NetOK
<1>3. net # NoNetns
  BY <1>1 DEF IInv, NetOK
<1> QED BY <1>1, <1>2, <1>3 DEF IInv, TypeOK

\* The change of one route.
LEMMA RouteFacts ==
    ASSUME NEW n \in Netns, NEW d \in Dests, NEW x \in Addrs \cup {NoRoute},
           NEW m, m = [n EXCEPT !.routes[d] = x]
    PROVE  /\ m \in Netns /\ m.fou = n.fou /\ m.rules = n.rules /\ m.marks = n.marks
           /\ \A c \in Dests : m.routes[c] = IF c = d THEN x ELSE n.routes[c]
<1> DEFINE rs == [n.routes EXCEPT ![d] = x]
<1>1. rs \in [Dests -> Addrs \cup {NoRoute}] /\ \A c \in Dests : rs[c] = IF c = d THEN x
                                                                        ELSE n.routes[c]
  BY DEF Netns
<1>2. m = [n EXCEPT !.routes = rs]
  BY DEF Netns
<1> HIDE DEF rs
<1> QED BY <1>1, <1>2 DEF Netns

\* A step of SyncNat of thread t on a route of the tunnel of its job: the rest of
\* what is known about tunnels does not depend on it.
LEMMA SyncStepKeeps ==
    ASSUME IInv, NEW t \in Threads, thr[t].pc = "sync", NEW job \in thr[t].job,
           NEW d \in Dests, net.routes[d] \in {job.gw, NoRoute}, NEW x \in {job.gw, NoRoute},
           net' = [net EXCEPT !.routes[d] = x],
           NEW r \in Thread, thr' = [thr EXCEPT ![t] = r],
           r.pc = "sync", r.egs = thr[t].egs, r.gws = thr[t].gws, r.job = thr[t].job,
           thr[t].conf \subseteq r.conf, r.conf \subseteq podFams,
           x # NoRoute => DestFam[d] \in r.conf,
           SyncOK(t)',
           UNCHANGED <<egress, cached, queue, origOnly, podFams, running, missed, unmarked,
                       changes, faults>>
    PROVE  IInv'
<1> USE DEF Threads
<1>1. /\ net \in Netns /\ net # NoNetns /\ thr[t] \in Thread
      /\ \A u \in Threads : u # t => thr[u].pc # "sync"
  BY SyncFacts
<1>2. job.gw \in Addrs /\ x \in Addrs \cup {NoRoute}
  BY <1>1 DEF Thread, GWNets
<1>3. /\ net' \in Netns /\ net'.fou = net.fou /\ net'.rules = net.rules /\ net'.marks = net.marks
      /\ \A c \in Dests : net'.routes[c] = IF c = d THEN x ELSE net.routes[c]
  <2> DEFINE m == [net EXCEPT !.routes[d] = x]
  <2>1. net' = m
    OBVIOUS
  <2>2. /\ m \in Netns /\ m.fou = net.fou /\ m.rules = net.rules /\ m.marks = net.marks
        /\ \A c \in Dests : m.routes[c] = IF c = d THEN x ELSE net.routes[c]
    BY <1>1, <1>2, RouteFacts, SMTT(20)
  <2> HIDE DEF m
  <2> QED BY <2>1, <2>2
<1>4. net' # NoNetns
  BY <1>3, NetnsAssumption
<1>5. /\ thr' \in [Threads -> Thread]
      /\ \A u \in Threads : u # t => thr'[u] = thr[u]
      /\ thr'[t] = r
  BY DEF IInv, TypeOK
<1>6. /\ \A u \in Threads : /\ thr'[u].pc = thr[u].pc /\ thr'[u].egs = thr[u].egs
                            /\ thr'[u].gws = thr[u].gws /\ thr'[u].job = thr[u].job
                            /\ thr[u].conf \subseteq thr'[u].conf
      /\ Up' <=> Up
  BY <1>5 DEF Up
<1>7. TypeOK'
  BY <1>3, <1>5 DEF IInv, TypeOK
<1>8. \A u \in Threads : ThreadOK(u)'
  BY <1>6 DEF IInv, ThreadOK
<1>9. \A u \in Threads : SyncOK(u)'
  BY <1>1, <1>6 DEF SyncOK
<1>10. \A e \in Egresses : jobsOf(e)' = jobsOf(e) /\ (Excused(e)' <=> Excused(e))
  BY <1>6 DEF jobsOf, Excused
<1>11. WatchOK'
  BY <1>6, <1>10 DEF IInv, WatchOK
<1>12. NetOK' /\ RulesOK'
  <2>1. thr["add"].pc \notin {"getHook", "init"}
    BY <1>1 DEF IInv, NetOK
  <2> QED BY <1>1, <1>3, <1>4, <1>6, <2>1 DEF IInv, NetOK, RulesOK
<1>13. MarksOK'
  <2>1. \A f \in routedFams' : f \in routedFams \/ f \in thr'[t].conf
    BY <1>1, <1>3, <1>4, <1>5 DEF routedFams
  <2> QED BY <1>1, <1>3, <1>4, <1>6, <2>1 DEF IInv, MarksOK
<1>14. \A u \in Threads : \A g : Pending(u, g)' = Pending(u, g)
  BY <1>6 DEF Pending
<1>15. ASSUME NEW j, j.gw \in Addrs, Due(j) PROVE Due(j)'
  <2>1. CASE j.gw = job.gw
    <3>1. job \in Pending(t, j.gw)
      BY <2>1 DEF Pending
    <3> QED BY <1>14, <1>15, <3>1 DEF Due
  <2>2. CASE j.gw # job.gw
    <3>1. collectRoutesBySubnet(net, j.gw)' = collectRoutesBySubnet(net, j.gw)
      <4>1. \A c \in Dests : net'.routes[c] = j.gw <=> net.routes[c] = j.gw
        BY <1>3, <1>15, <2>2, NatClientAssumption
      <4> QED BY <4>1 DEF collectRoutesBySubnet
    <3>2. InForce(j) => InForce(j)'
      BY <1>3, <1>6, <3>1 DEF InForce
    <3> QED BY <1>14, <1>15, <3>2 DEF Due
  <2> QED BY <2>1, <2>2
<1>16. \A e \in Egresses : ~ Excused(e)' => \A j \in jobsOf(e) : j.gw \in Addrs
  BY <1>10, JobsFacts, NatClientAssumption DEF IInv, Excused
<1>17. SpecOK'
  BY <1>6, <1>10, <1>15, <1>16, SpecStep DEF IInv
<1>18. CleanOK'
  BY <1>3, <1>6, <1>10, <1>14, CleanStep DEF IInv
<1> QED BY <1>7, <1>8, <1>9, <1>11, <1>12, <1>13, <1>17, <1>18 DEF IInv

\* A route that the job does not have is deleted.
LEMMA HookDelRouteKeeps ==
    ASSUME IInv, NEW t \in Threads, HookDelRoute(t)
    PROVE  IInv'
<1>1. PICK d \in thr[t].dels :
         /\ net' = [net EXCEPT !.routes[d] = NoRoute]
         /\ thr' = [thr EXCEPT ![t].dels = @ \ {d}]
  BY DEF HookDelRoute
<1>2. thr[t].pc = "sync" /\ net \in Netns /\ net # NoNetns /\ thr[t] \in Thread
  BY SyncFacts DEF HookDelRoute
<1>3. PICK job \in thr[t].job :
         /\ thr[t].job = {job} /\ supported(job.gw)
         /\ net.fou.links[job.gw] = job.sport
         /\ thr[t].dels \subseteq collectRoutesBySubnet(net, job.gw) \ job.networks
         /\ thr[t].adds = adds(net, job)
         /\ collectRoutesBySubnet(net, job.gw) \subseteq job.networks \cup thr[t].dels
  BY <1>2 DEF IInv, SyncOK
<1>4. d \in Dests /\ d \notin job.networks /\ net.routes[d] = job.gw /\ job.gw \in Addrs
  BY <1>2, <1>3 DEF collectRoutesBySubnet, Thread, GWNets
<1>5. PICK r : r = [thr[t] EXCEPT !.dels = @ \ {d}]
  OBVIOUS
<1>6. /\ r \in Thread /\ r.pc = "sync" /\ r.egs = thr[t].egs /\ r.gws = thr[t].gws
      /\ r.job = thr[t].job /\ r.conf = thr[t].conf /\ r.adds = thr[t].adds
      /\ r.dels = thr[t].dels \ {d}
  BY <1>2, <1>5 DEF Thread
<1>7. thr' = [thr EXCEPT ![t] = r] /\ thr'[t] = r
  BY <1>1, <1>5 DEF IInv, TypeOK
<1>8. SyncOK(t)'
  <2>1. /\ net'.fou = net.fou
        /\ \A c \in Dests : net'.routes[c] = IF c = d THEN NoRoute ELSE net.routes[c]
    BY <1>1, <1>2, <1>4, RouteFacts
  <2>2. collectRoutesBySubnet(net, job.gw)' = collectRoutesBySubnet(net, job.gw) \ {d}
    BY <1>4, <2>1, NatClientAssumption DEF collectRoutesBySubnet
  <2>3. supported(job.gw)'
    BY <1>3 DEF supported, HookDelRoute
  <2>4. adds(net, job)' = adds(net, job)
    BY <1>4, <2>2 DEF adds
  <2> QED BY <1>3, <1>4, <1>6, <1>7, <2>1, <2>2, <2>3, <2>4 DEF SyncOK
<1>9. UNCHANGED <<egress, cached, queue, origOnly, podFams, running, missed, unmarked,
                  changes, faults>>
  BY DEF HookDelRoute
<1>10. thr[t].conf \subseteq podFams
  BY DEF IInv, TypeOK
<1> QED BY <1>1, <1>2, <1>4, <1>6, <1>7, <1>8, <1>9, <1>10, SyncStepKeeps

\* A route of the job is added, and its family noted for the marks.
LEMMA HookAddRouteKeeps ==
    ASSUME IInv, NEW t \in Threads, HookAddRoute(t)
    PROVE  IInv'
<1>1. /\ thr[t].pc = "sync" /\ net \in Netns /\ net # NoNetns /\ thr[t] \in Thread
      /\ thr[t].dels = {}
  BY SyncFacts DEF HookAddRoute, Adding
<1>2. PICK d \in thr[t].adds, job \in thr[t].job :
         /\ net.routes[d] = NoRoute
         /\ net' = [net EXCEPT !.routes[d] = job.gw]
         /\ thr' = [thr EXCEPT ![t].adds = @ \ ({d} \ job.repeated),
                               ![t].conf = @ \cup {DestFam[d]}]
  BY DEF HookAddRoute, RouteAddOK
<1>3. /\ thr[t].job = {job} /\ supported(job.gw)
      /\ net.fou.links[job.gw] = job.sport
      /\ thr[t].adds = adds(net, job)
      /\ collectRoutesBySubnet(net, job.gw) \subseteq job.networks
  BY <1>1 DEF IInv, SyncOK
<1>4. d \in Dests /\ d \in job.networks /\ job.gw \in Addrs
  BY <1>1, <1>3 DEF Thread, GWNets, adds
<1>5. DestFam[d] \in podFams /\ DestFam[d] \in Families
  BY <1>3, <1>4, NatClientAssumption DEF IInv, ThreadOK, JobsOK, supported
<1>6. PICK r : r = [thr[t] EXCEPT !.adds = @ \ ({d} \ job.repeated),
                                  !.conf = @ \cup {DestFam[d]}]
  OBVIOUS
<1>7. /\ r \in Thread /\ r.pc = "sync" /\ r.egs = thr[t].egs /\ r.gws = thr[t].gws
      /\ r.job = thr[t].job /\ r.conf = thr[t].conf \cup {DestFam[d]}
      /\ r.adds = thr[t].adds \ ({d} \ job.repeated) /\ r.dels = {}
  BY <1>1, <1>5, <1>6 DEF Thread
<1>8. thr' = [thr EXCEPT ![t] = r] /\ thr'[t] = r
  BY <1>2, <1>6 DEF IInv, TypeOK
<1>9. SyncOK(t)'
  <2>1. /\ net'.fou = net.fou
        /\ \A c \in Dests : net'.routes[c] = IF c = d THEN job.gw ELSE net.routes[c]
    BY <1>2, <1>1, <1>4, RouteFacts
  <2>2. collectRoutesBySubnet(net, job.gw)' = collectRoutesBySubnet(net, job.gw) \cup {d}
    BY <1>4, <2>1 DEF collectRoutesBySubnet
  <2>3. supported(job.gw)'
    BY <1>3 DEF supported, HookAddRoute
  <2>4. adds(net, job)' = adds(net, job) \ ({d} \ job.repeated)
    BY <1>4, <2>2 DEF adds
  <2> QED BY <1>3, <1>4, <1>7, <1>8, <2>1, <2>2, <2>3, <2>4 DEF SyncOK
<1>10. UNCHANGED <<egress, cached, queue, origOnly, podFams, running, missed, unmarked,
                   changes, faults>>
  BY DEF HookAddRoute
<1>11. r.conf \subseteq podFams /\ thr[t].conf \subseteq r.conf /\ DestFam[d] \in r.conf
  BY <1>5, <1>7 DEF IInv, TypeOK
<1> QED BY <1>2, <1>1, <1>4, <1>7, <1>8, <1>9, <1>10, <1>11, SyncStepKeeps

\* The end of SyncNat: the job of the thread is in force, and the marks are as
\* the flag says for the families it is about.
LEMMA HookOrigKeeps ==
    ASSUME IInv, NEW t \in Threads, HookOrig(t)
    PROVE  IInv'
<1> USE DEF Threads
<1>1. /\ thr[t].pc = "sync" /\ thr[t].dels = {} /\ thr[t].adds = {}
      /\ net \in Netns /\ net # NoNetns /\ thr[t] \in Thread
      /\ \A u \in Threads : u # t => thr[u].pc # "sync"
      /\ t = "watch" => thr["add"].pc \in {"done", "failed"}
  BY SyncFacts DEF HookOrig, Marking
<1>2. UNCHANGED <<egress, cached, queue, origOnly, podFams, running, missed, changes, faults>>
  BY DEF HookOrig
<1>3. PICK job \in thr[t].job :
         /\ thr[t].job = {job}
         /\ net.fou.links[job.gw] = job.sport
         /\ collectRoutesBySubnet(net, job.gw) = job.networks
  <2>1. PICK j \in thr[t].job :
           /\ thr[t].job = {j}
           /\ net.fou.links[j.gw] = j.sport
           /\ thr[t].adds = adds(net, j)
           /\ collectRoutesBySubnet(net, j.gw) \subseteq j.networks \cup thr[t].dels
    BY <1>1 DEF IInv, SyncOK
  <2>2. collectRoutesBySubnet(net, j.gw) = j.networks
    BY <1>1, <2>1 DEF adds
  <2> QED BY <2>1, <2>2
<1>4. PICK r : r = [thr[t] EXCEPT !.pc = "next", !.job = {}, !.conf = {}]
  OBVIOUS
<1>5. /\ r \in Thread /\ r.pc = "next" /\ r.job = {} /\ r.conf = {}
      /\ r.egs = thr[t].egs /\ r.gws = thr[t].gws
  BY <1>1, <1>4 DEF Thread, PCs
<1>6. thr' = [thr EXCEPT ![t] = r]
  BY <1>4 DEF HookOrig
<1>7. /\ thr' \in [Threads -> Thread]
      /\ \A u \in Threads : u # t => thr'[u] = thr[u]
      /\ thr'[t] = r
  BY <1>5, <1>6 DEF IInv, TypeOK
<1>8. thr[t].conf \in SUBSET Families /\ thr[t].conf \subseteq podFams /\ podFams \subseteq Families
  BY NatClientAssumption DEF IInv, TypeOK, Thread
<1>9. Remarked(net, net')
  BY <1>1, <1>8, ConfigureFacts, RemoveFacts DEF HookOrig
<1>10. ASSUME origOnly
       PROVE  /\ unmarked' = unmarked \ thr[t].conf
              /\ \A f \in Families : net'.marks[f] = IF f \in thr[t].conf THEN Marks
                                                     ELSE net.marks[f]
  BY <1>1, <1>8, <1>10, ConfigureFacts DEF HookOrig
<1>11. ASSUME ~ origOnly
       PROVE  /\ unmarked' = unmarked
              /\ \A f \in Families : net'.marks[f] = IF "table" \in net.marks[f] THEN {}
                                                     ELSE net.marks[f]
  BY <1>1, <1>11, RemoveFacts DEF HookOrig
<1>12. net' \in Netns /\ net' # NoNetns /\ net'.rules = net.rules /\ net'.routes = net.routes
       /\ net'.fou = net.fou
  BY <1>9, NetnsAssumption DEF Remarked
<1>13. /\ \A u \in Threads : /\ thr'[u].egs = thr[u].egs /\ thr'[u].gws = thr[u].gws
                             /\ thr'[u].job \subseteq thr[u].job
       /\ thr'["watch"].pc # "idle" <=> thr["watch"].pc # "idle"
       /\ thr'["add"].pc # "init"
       /\ Up' <=> Up
  <2>1. thr["add"].pc # "init"
    BY <1>1
  <2> QED BY <1>1, <1>5, <1>7, <2>1 DEF Up
<1>14. TypeOK'
  <2>1. unmarked' \subseteq Families
    BY DEF HookOrig, IInv, TypeOK
  <2> QED BY <1>2, <1>5, <1>7, <1>12, <2>1 DEF IInv, TypeOK
<1>15. \A u \in Threads : ThreadOK(u)'
  <2>1. ThreadOK(t)'
    BY <1>1, <1>5, <1>7 DEF IInv, ThreadOK, JobsOK
  <2> QED BY <1>7, <2>1 DEF IInv, ThreadOK
<1>16. \A u \in Threads : SyncOK(u)'
  BY <1>1, <1>5, <1>7 DEF SyncOK
<1>17. \A e \in Egresses : jobsOf(e)' = jobsOf(e) /\ (Excused(e)' <=> Excused(e))
  BY <1>2, <1>13 DEF jobsOf, Excused
<1>18. WatchOK'
  <2>1. thr'["watch"].pc \in {"idle", "next", "sync"}
    BY <1>5, <1>7 DEF IInv, WatchOK
  <2>2. thr'["watch"].gws \cup thr'["watch"].job \subseteq thr["watch"].gws \cup thr["watch"].job
    BY <1>13
  <2> QED BY <1>2, <1>13, <1>17, <2>1, <2>2 DEF IInv, WatchOK
<1>19. NetOK' /\ RulesOK'
  BY <1>1, <1>5, <1>7, <1>12, <1>13 DEF IInv, NetOK, RulesOK
<1>20. MarksOK'
  <2>1. routedFams' = routedFams
    BY <1>1, <1>12 DEF routedFams
  <2> SUFFICES ASSUME thr'["add"].pc # "failed", NEW f \in podFams \ unmarked'
               PROVE  /\ net'.marks[f] = {} \/ "table" \in net'.marks[f]
                      /\ origOnly => f \notin routedFams \/ net'.marks[f] = Marks
    BY <1>2, <2>1 DEF MarksOK
  <2>2. thr["add"].pc # "failed"
    BY <1>1, <1>7
  <2>3. f \notin unmarked => net.marks[f] = {} \/ "table" \in net.marks[f]
    BY <1>1, <2>2 DEF IInv, MarksOK
  <2>4. CASE origOnly
    <3>1. "table" \in Marks
      BY DEF Marks
    <3>2. f \notin thr[t].conf => f \notin unmarked /\ (f \notin routedFams \/ net.marks[f] = Marks)
      BY <1>1, <1>10, <2>2, <2>4 DEF IInv, MarksOK
    <3> QED BY <1>8, <1>10, <2>3, <2>4, <3>1, <3>2
  <2>5. CASE ~ origOnly
    BY <1>8, <1>11, <2>3, <2>5
  <2> QED BY <2>4, <2>5
<1>21. CleanOK'
  <2> SUFFICES ASSUME Up', ~ origOnly, NEW f \in podFams \ unmarked'
               PROVE  net'.marks[f] = {}
    BY <1>2 DEF CleanOK
  <2>1. f \notin unmarked /\ (net.marks[f] = {} \/ "table" \in net.marks[f])
    BY <1>1, <1>11, <1>13 DEF IInv, MarksOK, Up
  <2> QED BY <1>8, <1>11, <2>1
<1>22. ASSUME NEW j, Up', Due(j) PROVE Due(j)'
  <2>1. ASSUME NEW u \in Threads, u # t PROVE Pending(u, j.gw)' = Pending(u, j.gw)
    BY <1>7, <2>1 DEF Pending
  <2>2. CASE j.gw # job.gw
    <3>1. Pending(t, j.gw)' = Pending(t, j.gw)
      BY <1>3, <1>5, <1>7, <2>2 DEF Pending
    <3>2. InForce(j) => InForce(j)'
      BY <1>12, <1>13 DEF InForce, collectRoutesBySubnet
    <3> QED BY <1>22, <2>1, <3>1, <3>2 DEF Due
  <2>3. CASE j.gw = job.gw
    <3>1. Pending(t, j.gw) = {job} /\ Pending(t, j.gw)' = {}
      <4>1. \A k \in thr[t].gws : k.gw # job.gw
        BY DEF IInv, ThreadOK, JobsOK
      <4> QED BY <1>3, <1>5, <1>7, <2>3, <4>1 DEF Pending
    <3>2. InForce(job)'
      BY <1>3, <1>12, <1>13 DEF InForce, collectRoutesBySubnet
    <3>3. CASE t = "watch"
      <4>1. thr["add"].pc = "done" /\ thr["add"].gws = {} /\ thr["add"].job = {}
        BY <1>1, <1>13, <1>22, <3>3 DEF Up, IInv, ThreadOK
      <4>2. Pending("add", j.gw) = {}
        BY <4>1 DEF Pending
      <4> QED BY <1>22, <2>1, <3>1, <3>2, <3>3, <4>2 DEF Due
    <3>4. CASE t = "add"
      BY <1>22, <2>1, <3>1, <3>2, <3>4 DEF Due
    <3> QED BY <3>3, <3>4
  <2> QED BY <2>2, <2>3
<1>23. SpecOK'
  BY <1>2, <1>13, <1>17, <1>22, SpecStep DEF IInv
<1> QED BY <1>14, <1>15, <1>16, <1>18, <1>19, <1>20, <1>21, <1>23 DEF IInv

\* The families whose marks a thread that is stopped was about to change.
LEMMA CutOffMarksFacts ==
    ASSUME TypeOK, NEW t \in Threads
    PROVE  /\ CutOffMarks(t) \subseteq Families
           /\ origOnly => CutOffMarks(t) = thr[t].conf
           /\ ~ origOnly /\ Marking(t) => CutOffMarks(t) = Families
BY DEF CutOffMarks, TypeOK, Thread

\* A hook that fails, of either thread, in any of its steps.
LEMMA HookFailsKeeps ==
    ASSUME IInv, NEW t \in Threads, HookRouteExists(t) \/ HookFails(t)
    PROVE  IInv'
<1> USE DEF Threads
<1>1. /\ UNCHANGED <<egress, cached, origOnly, podFams, running, missed, changes>>
      /\ HookError(t)
      /\ unmarked' = unmarked \cup CutOffMarks(t)
  BY DEF HookRouteExists, HookFails
<1>2. unmarked' \subseteq Families /\ faults' \in 0 .. MaxFaults
  <2>1. unmarked' \subseteq Families
    BY <1>1, CutOffMarksFacts DEF IInv, TypeOK
  <2>2. faults' \in 0 .. MaxFaults
    BY NatClientAssumption DEF HookRouteExists, HookFails, Fault, IInv, TypeOK
  <2> QED BY <2>1, <2>2
<1>3. /\ thr[t].pc \in {"getHook", "init", "next", "sync"}
      /\ thr[t].pc = "next" => HookReady(t)
  BY DEF HookRouteExists, HookFails, Adding, HookReady
<1>4. net \in Netns /\ net # NoNetns
  <2>1. CASE thr[t].pc = "next"
    BY <1>3, <2>1, ReadyFacts
  <2>2. CASE thr[t].pc = "sync"
    BY <2>2, SyncFacts
  <2>3. CASE thr[t].pc \in {"getHook", "init"}
    BY <2>3, NewNetFacts, NetnsAssumption DEF IInv, NetOK, WatchOK
  <2> QED BY <1>3, <2>1, <2>2, <2>3
<1>5. \/ thr[t].pc = "init" /\ net' \in Netns
      \/ net' = net
      \/ thr[t].pc = "next" /\ \E j \in thr[t].gws : Touched(net, net', j.gw)
      \/ /\ Marking(t) /\ Remarked(net, net')
         /\ origOnly => \A f \in Families \ thr[t].conf : net'.marks[f] = net.marks[f]
  <2>1. CASE HookRouteExists(t)
    BY <2>1 DEF HookRouteExists
  <2>2. CASE HookFails(t)
    <3>1. PICK m \in CutOff(t) : net' = m
      BY <2>2 DEF HookFails
    <3> QED BY <1>4, <3>1, CutOffFacts DEF IInv
  <2> QED BY <2>1, <2>2
<1>6. net' \in Netns
  BY <1>4, <1>5 DEF Touched, Remarked
<1>7. CASE t = "add"
  <2>1. Goto("add", "failed") /\ queue' = queue
    BY <1>1, <1>7 DEF HookError
  <2> QED BY <1>1, <1>2, <1>3, <1>6, <1>7, <2>1, AddFailsKeeps
<1>8. CASE t = "watch"
  <2>1. Requeue /\ thr["watch"].pc \in {"next", "sync"}
    BY <1>1, <1>3, <1>8 DEF HookError, IInv, WatchOK
  <2>2. thr["add"].pc \in {"done", "failed"}
    BY <1>3, <1>8, <2>1, ReadyFacts, SyncFacts
  <2>3. \/ net' = net
        \/ \E j \in thr[t].gws : Touched(net, net', j.gw)
        \/ /\ Marking(t) /\ Remarked(net, net')
           /\ origOnly => \A f \in Families \ thr[t].conf : net'.marks[f] = net.marks[f]
    BY <1>5, <1>8, <2>1
  <2>4. net'.rules = net.rules
    BY <2>3 DEF Touched, Remarked
  <2>5. \A d \in Dests : net'.routes[d] # NoRoute => net.routes[d] # NoRoute
    BY <1>4, <2>3, TouchedFacts DEF Remarked
  <2>6. routedFams' \subseteq routedFams
    BY <1>4, <1>6, <2>5, NetnsAssumption DEF routedFams
  <2>7. ASSUME NEW x \in Egresses, x \notin thr["watch"].egs, NEW g \in ClusterIPs[x]
        PROVE  /\ net'.fou.links[g] = net.fou.links[g]
               /\ collectRoutesBySubnet(net, g)' = collectRoutesBySubnet(net, g)
    <3>1. g \in Addrs /\ \A j \in thr["watch"].gws : j.gw # g
      BY <2>7, WatchJobs, NatClientAssumption DEF Pending
    <3>2. CASE net' = net
      BY <3>2 DEF collectRoutesBySubnet
    <3>3. ASSUME NEW j \in thr[t].gws, Touched(net, net', j.gw)
          PROVE  /\ net'.fou.links[g] = net.fou.links[g]
                 /\ collectRoutesBySubnet(net, g)' = collectRoutesBySubnet(net, g)
      <4>1. PICK m : m = net'
        OBVIOUS
      <4>2. /\ m.fou.links[g] = net.fou.links[g]
            /\ collectRoutesBySubnet(m, g) = collectRoutesBySubnet(net, g)
        BY <1>4, <1>8, <3>1, <3>3, <4>1, TouchedFacts
      <4> QED BY <4>1, <4>2 DEF collectRoutesBySubnet
    <3>4. CASE Remarked(net, net')
      BY <3>4 DEF Remarked, collectRoutesBySubnet
    <3> QED BY <2>3, <3>2, <3>3, <3>4
  <2>8. ASSUME NEW f \in podFams \ unmarked'
        PROVE  f \notin unmarked /\ net'.marks[f] = net.marks[f]
    <3>1. f \in Families /\ f \notin unmarked /\ f \notin CutOffMarks(t)
      BY <1>1, NatClientAssumption DEF IInv, TypeOK
    <3>2. CASE Marking(t) /\ Remarked(net, net')
               /\ (origOnly => \A h \in Families \ thr[t].conf : net'.marks[h] = net.marks[h])
      BY <3>1, <3>2, CutOffMarksFacts DEF IInv
    <3> QED BY <2>3, <3>1, <3>2 DEF Touched
  <2>9. origOnly => thr["watch"].conf \subseteq unmarked'
    BY <1>1, <1>8, CutOffMarksFacts DEF IInv
  <2> QED BY <1>1, <1>2, <1>4, <1>6, <2>1, <2>2, <2>4, <2>6, <2>7, <2>8, <2>9, RequeueKeeps
<1> QED BY <1>7, <1>8

\* coild is restarted: an ADD under way has failed, every Egress object has an
\* event, and the families with routes are in unmarked if the flag is set.
LEMMA RestartKeeps ==
    ASSUME IInv, Restart
    PROVE  IInv'
<1> USE DEF Threads
<1>1. /\ UNCHANGED <<egress, podFams, running, missed, changes>>
      /\ cached' = egress /\ queue' = {e \in Egresses : egress[e] # NoEgress}
      /\ origOnly' \in BOOLEAN
      /\ faults' \in 0 .. MaxFaults
  BY NatClientAssumption DEF Restart, Fault, IInv, TypeOK
<1>2. PICK r : r = [idle EXCEPT !.pc = "failed"]
  OBVIOUS
<1>3. r \in Thread /\ r.pc = "failed" /\ r.gws = {} /\ r.job = {} /\ r.conf = {}
  BY <1>2, IdleFacts DEF PCs
<1>4. /\ thr'["watch"] = idle
      /\ thr'["add"] = IF thr["add"].pc \in {"idle", "done", "failed"} THEN thr["add"] ELSE r
  BY <1>2 DEF Restart
<1>5. thr' \in [Threads -> Thread]
  <2>1. \A t \in Threads : thr'[t] \in Thread
    BY <1>3, <1>4, IdleFacts DEF IInv, TypeOK
  <2>2. thr' = [t \in Threads |-> thr'[t]]
    BY DEF Restart
  <2> QED BY <2>1, <2>2
<1>6. thr["add"].pc # "idle" => net \in Netns
  BY DEF IInv, NetOK, TypeOK
<1>7. \/ net' = net
      \/ thr["add"].pc \in {"init", "next", "sync"} /\ net' \in Netns
      \/ /\ thr["add"].pc \in {"done", "failed"} /\ Marking("watch")
         /\ Remarked(net, net')
         /\ origOnly => \A f \in Families \ thr["watch"].conf : net'.marks[f] = net.marks[f]
  <2>1. ASSUME NEW t \in Threads, HoldsLock(t), net' \in CutOff(t)
        PROVE  \/ net' = net
               \/ thr["add"].pc \in {"init", "next", "sync"} /\ net' \in Netns
               \/ /\ thr["add"].pc \in {"done", "failed"} /\ Marking("watch")
                  /\ Remarked(net, net')
                  /\ origOnly => \A f \in Families \ thr["watch"].conf :
                                    net'.marks[f] = net.marks[f]
    <3>1. /\ t = "add" => thr["add"].pc \in {"init", "next", "sync"}
          /\ t = "watch" => thr["watch"].pc = "sync" /\ thr["add"].pc \in {"done", "failed"}
      BY <2>1 DEF HoldsLock, IInv, NetOK
    <3>2. net \in Netns
      BY <1>6, <3>1
    <3>3. PICK m \in CutOff(t) : net' = m
      BY <2>1
    <3>4. \/ thr[t].pc = "init" /\ m \in Netns
          \/ m = net
          \/ thr[t].pc = "next" /\ \E j \in thr[t].gws : Touched(net, m, j.gw)
          \/ /\ Marking(t) /\ Remarked(net, m)
             /\ origOnly => \A f \in Families \ thr[t].conf : m.marks[f] = net.marks[f]
      BY <3>2, CutOffFacts DEF IInv
    <3> QED BY <3>1, <3>3, <3>4 DEF Touched, Remarked
  <2> QED BY <2>1 DEF Restart
<1>8. net' # NoNetns <=> thr["add"].pc # "idle"
  BY <1>6, <1>7, NetnsAssumption DEF IInv, NetOK, Remarked
<1>9. unmarked' = unmarked \cup (CutOffMarks("add") \cup CutOffMarks("watch"))
                           \cup (IF origOnly' THEN routedFams ELSE {})
  <2>1. UNION {CutOffMarks(t) : t \in Threads} = CutOffMarks("add") \cup CutOffMarks("watch")
    OBVIOUS
  <2>2. unmarked' = unmarked \cup (UNION {CutOffMarks(t) : t \in Threads})
                             \cup (IF origOnly' THEN routedFams ELSE {})
    BY DEF Restart
  <2> QED BY <2>1, <2>2, Zenon
<1>10. TypeOK'
  <2>1. net' \in Netns \cup {NoNetns}
    BY <1>7 DEF IInv, TypeOK, Remarked
  <2>2. unmarked' \subseteq Families
    <3>1. \A t \in Threads : CutOffMarks(t) \subseteq Families
      BY CutOffMarksFacts DEF IInv
    <3>2. routedFams \subseteq Families
      BY NatClientAssumption DEF routedFams
    <3> QED BY <1>9, <3>1, <3>2 DEF IInv, TypeOK
  <2>3. \A t \in Threads : thr'[t].conf \subseteq podFams
    BY <1>3, <1>4, IdleFacts DEF IInv, TypeOK
  <2> QED BY <1>1, <1>5, <2>1, <2>2, <2>3 DEF IInv, TypeOK
<1>11. \A t \in Threads : ThreadOK(t)'
  BY <1>3, <1>4, IdleFacts DEF IInv, ThreadOK, JobsOK
<1>12. \A t \in Threads : SyncOK(t)'
  BY <1>3, <1>4, IdleFacts DEF SyncOK
<1>13. WatchOK'
  BY <1>4, IdleFacts DEF WatchOK
<1>14. NetOK'
  BY <1>3, <1>4, <1>8, IdleFacts DEF NetOK
<1>15. RulesOK'
  BY <1>3, <1>4, <1>7, <1>8 DEF IInv, RulesOK, NetOK, Remarked
<1>16. SpecOK' /\ CleanOK'
  <2>1. \A e \in Egresses : Excused(e)'
    BY <1>1 DEF Excused
  <2> QED BY <2>1 DEF SpecOK, CleanOK
<1>17. MarksOK'
  <2> SUFFICES ASSUME net' # NoNetns, thr'["add"].pc # "failed", NEW f \in podFams \ unmarked'
               PROVE  /\ net'.marks[f] = {} \/ "table" \in net'.marks[f]
                      /\ origOnly' => f \notin routedFams'
    BY <1>1 DEF MarksOK
  <2>1. thr["add"].pc = "done"
    BY <1>3, <1>4, <1>8
  <2>2. net \in Netns /\ net # NoNetns
    BY <1>6, <2>1, NetnsAssumption
  <2>3. f \in Families /\ f \notin unmarked /\ f \notin CutOffMarks("watch")
        /\ (origOnly' => f \notin routedFams)
    BY <1>1, <1>9, NatClientAssumption DEF IInv, TypeOK
  <2>4. net'.routes = net.routes
    BY <1>7, <2>1 DEF Remarked
  <2>5. routedFams' = routedFams
    BY <2>2, <2>4 DEF routedFams
  <2>6. net'.marks[f] = net.marks[f]
    BY <1>7, <2>1, <2>3, CutOffMarksFacts DEF IInv
  <2>7. net.marks[f] = {} \/ "table" \in net.marks[f]
    BY <2>1, <2>2, <2>3 DEF IInv, MarksOK
  <2> QED BY <2>3, <2>5, <2>6, <2>7
<1> QED BY <1>10, <1>11, <1>12, <1>13, <1>14, <1>15, <1>16, <1>17 DEF IInv

-----------------------------------------------------------------------------
(* The invariant *)

\* A pod without a sandbox.
LEMMA InitIInv ==
    ASSUME Init
    PROVE  IInv
<1> USE DEF Threads
<1>1. \A t \in Threads : thr[t] = idle
  BY DEF Init
<1>2. TypeOK
  <2>1. egress \in [Egresses -> Egress \cup {NoEgress}]
    <3>1. \A e \in Egresses : Versions[e] \in Seq(Egress) /\ Versions[e] # <<>>
      BY NatClientAssumption DEF Egress
    <3>2. \A e \in Egresses : Head(Versions[e]) \in Egress
      BY <3>1
    <3> QED BY <3>2 DEF Init
  <2>2. thr \in [Threads -> Thread]
    BY IdleFacts DEF Init
  <2>3. \A t \in Threads : thr[t].conf \subseteq podFams
    BY <1>1, IdleFacts
  <2>4. changes \in 0 .. MaxChanges /\ faults \in 0 .. MaxFaults
    BY NatClientAssumption DEF Init
  <2> QED BY <2>1, <2>2, <2>3, <2>4 DEF Init, TypeOK
<1>3. \A t \in Threads : ThreadOK(t) /\ SyncOK(t)
  BY <1>1, IdleFacts DEF ThreadOK, SyncOK, JobsOK
<1>4. WatchOK /\ NetOK /\ RulesOK
  BY <1>1, IdleFacts DEF WatchOK, NetOK, RulesOK, Init
<1>5. SpecOK /\ MarksOK /\ CleanOK
  BY <1>1, IdleFacts DEF SpecOK, MarksOK, CleanOK, Up, Init
<1> QED BY <1>2, <1>3, <1>4, <1>5 DEF IInv

\* Every step keeps the invariant.
LEMMA NextIInv ==
    ASSUME IInv, [Next]_vars
    PROVE  IInv'
<1>1. CASE AddNext
  <2>1. AddStart \/ AddGetHook \/ AddInit \/ AddDone => IInv'
    BY AddStartKeeps, AddGetHookKeeps, AddInitKeeps, AddDoneKeeps
  <2>2. AddNoEgress \/ AddCleanUp => IInv'
    BY AddEndsKeeps
  <2>3. HookPeer("add") \/ HookDelRoute("add") \/ HookAddRoute("add") \/ HookOrig("add") => IInv'
    BY HookPeerKeeps, HookDelRouteKeeps, HookAddRouteKeeps, HookOrigKeeps DEF Threads
  <2>4. HookRouteExists("add") => IInv'
    BY HookFailsKeeps DEF Threads
  <2> QED BY <1>1, <2>1, <2>2, <2>3, <2>4 DEF AddNext
<1>2. CASE WatchNext
  <2>1. UpdateNotReady \/ ReconcileDone => IInv'
    BY WatchFailsKeeps, ReconcileDoneKeeps
  <2>2. HookPeer("watch") \/ HookDelRoute("watch") \/ HookAddRoute("watch") \/ HookOrig("watch")
        => IInv'
    BY HookPeerKeeps, HookDelRouteKeeps, HookAddRouteKeeps, HookOrigKeeps DEF Threads
  <2>3. HookRouteExists("watch") => IInv'
    BY HookFailsKeeps DEF Threads
  <2> QED BY <1>2, <2>1, <2>2, <2>3 DEF WatchNext
<1>3. CASE PodRuns
  BY <1>3, OutsideKeeps
<1>4. CASE SandboxLost
  BY <1>4, AddEndsKeeps
<1>5. CASE ReconcileFails
  BY <1>5, WatchFailsKeeps
<1>6. ASSUME NEW e \in Egresses, Reconcile(e) \/ ChangeEgress(e) \/ Observe(e)
      PROVE  IInv'
  BY <1>6, ReconcileKeeps, OutsideKeeps, ObserveKeeps
<1>7. ASSUME NEW t \in Threads, HookFails(t)
      PROVE  IInv'
  BY <1>7, HookFailsKeeps
<1>8. CASE Restart
  BY <1>8, RestartKeeps
<1>9. CASE UNCHANGED vars
  <2>1. UNCHANGED <<egress, cached, queue, origOnly, podFams, running, net, thr, missed,
                    unmarked, changes, faults>>
    BY <1>9 DEF vars
  <2>2. TypeOK' /\ WatchOK' /\ NetOK' /\ RulesOK'
    BY <2>1 DEF IInv, TypeOK, WatchOK, NetOK, RulesOK, jobsOf
  <2>3. \A t \in Threads : ThreadOK(t)' /\ SyncOK(t)'
    BY <2>1 DEF IInv, ThreadOK, SyncOK, collectRoutesBySubnet, supported
  <2>4. \A e \in Egresses : Excused(e)' <=> Excused(e)
    BY <2>1 DEF Excused
  <2>5. \A j : (Due(j) => Due(j)') /\ Pending("watch", j.gw)' = Pending("watch", j.gw)
    BY <2>1 DEF Due, Pending, InForce, collectRoutesBySubnet
  <2>6. SpecOK'
    BY <2>1, <2>4, <2>5, SpecStep DEF IInv, Up
  <2>7. CleanOK'
    BY <2>1, <2>4, <2>5, CleanStep DEF IInv, Up
  <2>8. MarksOK'
    <3>1. routedFams' = routedFams
      BY <2>1 DEF routedFams
    <3> QED BY <2>1, <3>1 DEF IInv, MarksOK
  <2> QED BY <2>2, <2>3, <2>6, <2>7, <2>8 DEF IInv
<1> QED BY <1>1, <1>2, <1>3, <1>4, <1>5, <1>6, <1>7, <1>8, <1>9 DEF Next

\* The invariant holds in every state.
THEOREM Invariance == Spec => []IInv
<1>1. Init => IInv
  BY InitIInv
<1>2. IInv /\ [Next]_vars => IInv'
  BY NextIInv
<1> QED BY <1>1, <1>2, PTL DEF Spec

-----------------------------------------------------------------------------
(* The properties *)

\* Every state is a state of the program: namespaces, threads and jobs keep
\* their types through every failure.
THEOREM TypeCorrect == Spec => []TypeOK
<1>1. IInv => TypeOK
  BY DEF IInv
<1> QED BY <1>1, Invariance, PTL

\* Once all changes are processed, the tunnels of every Egress object whose
\* changes the watcher did not let pass have exactly its destinations and its
\* source port (SyncNat, Hook, reconcileEgressClient).
THEOREM RoutesAreAsSpecified == Spec => []RoutesAsSpecified
<1>1. ASSUME IInv PROVE RoutesAsSpecified
  <2> SUFFICES ASSUME Quiet, NEW p \in Owned, p[1] \notin missed
               PROVE  /\ collectRoutesBySubnet(net, p[2]) = Wanted(p[1], p[2])
                      /\ net.fou.links[p[2]] = egress[p[1]].sport
    BY DEF RoutesAsSpecified
  <2>1. PICK e, g : e = p[1] /\ g = p[2]
    OBVIOUS
  <2>2. /\ e \in Egresses /\ g \in Addrs /\ cached[e] # NoEgress /\ cached = egress
        /\ g \in ClusterIPs[e] /\ FamOf[g] \in podFams /\ Wanted(e, g) # {}
    BY <2>1 DEF Owned, Quiet
  <2>3. PICK j : j = [gw |-> g, networks |-> Wanted(e, g),
                      repeated |-> cached[e].repeated, sport |-> cached[e].sport]
    OBVIOUS
  <2>4. j.gw = g /\ j.networks = Wanted(e, g) /\ j.sport = egress[e].sport
    BY <2>2, <2>3
  <2>5. j \in jobsOf(e)
    <3>1. \E d \in cached[e].dests : DestFam[d] = FamOf[g]
      BY <2>2 DEF Wanted
    <3>2. Wanted(e, g) = {d \in cached[e].dests : DestFam[d] = FamOf[g]}
      BY <2>2 DEF Wanted
    <3> QED BY <2>2, <2>3, <3>1, <3>2 DEF jobsOf
  <2>6. ~ Excused(e) /\ Up
    BY <2>1, <2>2 DEF Excused, Up, Quiet
  <2>7. Due(j)
    BY <1>1, <2>2, <2>4, <2>5, <2>6 DEF IInv, SpecOK, supported
  <2>8. \A t \in Threads : Pending(t, g) = {}
    BY <1>1 DEF IInv, ThreadOK, Quiet, Pending, Threads
  <2>9. InForce(j)
    BY <2>4, <2>7, <2>8 DEF Due, Threads
  <2> QED BY <2>1, <2>4, <2>9 DEF InForce
<1> QED BY <1>1, Invariance, PTL

\* A packet to an address inside the cluster goes through a tunnel only if a
\* destination inside the cluster names it: the rules of a family are complete
\* or absent (initRules, addRoute).
THEOREM ClusterTraffic == Spec => []ClusterTrafficStays
<1>1. ASSUME IInv PROVE ClusterTrafficStays
  <2> SUFFICES ASSUME net # NoNetns, thr["add"].pc # "failed",
                      NEW f \in Families, NEW p \in LocalPackets, Tunnelled(f, p)
               PROVE  \E d \in InCluster : net.routes[d] # NoRoute /\ p \in Covers[d]
    BY DEF ClusterTrafficStays
  <2>1. net.rules[f] \in {{}, RuleNames}
    BY <1>1 DEF IInv, RulesOK
  <2>2. ~ (/\ ~("inCluster" \in net.rules[f] /\ p \in LocalPackets)
           /\ "wide" \in net.rules[f])
    BY <2>1 DEF RuleNames
  <2>3. \E d \in Dests : Narrow(d) = TRUE /\ net.routes[d] # NoRoute /\ p \in Covers[d]
    BY <2>2 DEF Tunnelled
  <2> QED BY <2>3 DEF Narrow
<1> QED BY <1>1, Invariance, PTL

\* Once all changes are processed, the marks of a family are complete or absent
\* as the flag says, except where the code does not look (SyncNat).
THEOREM MarksAreAsFlag == Spec => []MarksFollowFlag
<1>1. ASSUME IInv PROVE MarksFollowFlag
  <2> SUFFICES ASSUME Quiet, NEW p \in Owned, p[1] \notin missed,
                      NEW f \in podFams \ unmarked
               PROVE  IF origOnly THEN f \in routedFams => net.marks[f] = Marks
                      ELSE net.marks[f] = {}
    BY DEF MarksFollowFlag
  <2>1. net # NoNetns /\ thr["add"].pc = "done" /\ Up
    BY <1>1 DEF Quiet, IInv, NetOK, Up
  <2>2. \A t \in Threads : thr[t].pc # "sync" /\ \A g : Pending(t, g) = {}
    BY <1>1 DEF IInv, ThreadOK, Quiet, Pending, Threads
  <2>3. CASE origOnly
    BY <1>1, <2>1, <2>2, <2>3 DEF IInv, MarksOK
  <2>4. CASE ~ origOnly
    <3>1. PICK e, g : e = p[1] /\ g = p[2]
      OBVIOUS
    <3>2. /\ e \in Egresses /\ g \in Addrs /\ cached[e] # NoEgress /\ cached = egress
          /\ g \in ClusterIPs[e] /\ FamOf[g] \in podFams /\ Wanted(e, g) # {}
      BY <3>1 DEF Owned, Quiet
    <3>3. ~ Excused(e)
      BY <3>1, <3>2 DEF Excused, Quiet
    <3>4. \E j \in jobsOf(e) : supported(j.gw)
      <4>1. \E d \in cached[e].dests : DestFam[d] = FamOf[g]
        BY <3>2 DEF Wanted
      <4>2. [gw |-> g, networks |-> {d \in cached[e].dests : DestFam[d] = FamOf[g]},
             repeated |-> cached[e].repeated, sport |-> cached[e].sport] \in jobsOf(e)
        BY <3>2, <4>1 DEF jobsOf
      <4> QED BY <3>2, <4>2 DEF supported
    <3>5. ASSUME net.marks[f] # {} PROVE FALSE
      BY <1>1, <2>1, <2>2, <2>4, <3>2, <3>3, <3>4, <3>5 DEF IInv, CleanOK, Threads
    <3> QED BY <2>4, <3>5
  <2> QED BY <2>3, <2>4
<1> QED BY <1>1, Invariance, PTL

\* What KeepsRoutes says of a step, for one tunnel and one destination.
Kept(g, d) == net'.routes[d] = g \/ net'.fou.links[g] # net.fou.links[g]

\* A call that only concerns one tunnel keeps the routes or replaces the tunnel.
LEMMA TouchedKept ==
    ASSUME NEW h, Touched(net, net', h), NEW g \in Addrs, NEW d \in Dests, net.routes[d] = g
    PROVE  Kept(g, d)
BY DEF Touched, Kept

\* An update takes no route away that every version of the Egress object in
\* sight has, except with the tunnel it goes through (diffRoutes).
THEOREM UpdatesKeepRoutes == Spec => KeepsRoutes
<1>1. ASSUME IInv, [Next]_vars, net # NoNetns, net' # NoNetns,
             NEW g \in Addrs, NEW d \in Dests, net.routes[d] = g,
             \A t \in Threads : \A j \in thr[t].gws \cup thr[t].job :
                j.gw = g => d \in j.networks
      PROVE  Kept(g, d)
  <2> USE DEF Threads
  <2>1. net \in Netns
    BY <1>1 DEF IInv, TypeOK
  <2>2. net # newNet
    BY <1>1, NatClientAssumption DEF newNet
  <2>3. CASE net' = net
    BY <1>1, <2>3 DEF Kept
  <2>4. ASSUME NEW t \in Threads, HookPeer(t)
        PROVE  Kept(g, d)
    <3>1. thr[t] \in Thread
      BY <1>1 DEF IInv, TypeOK
    <3>2. \/ net' = net
          \/ \E job \in thr[t].gws :
                net' = WithTunnels(net, AddPeer(net.fou, job.gw, job.sport), job.gw)
      BY <2>4 DEF HookPeer
    <3>3. ASSUME NEW job \in thr[t].gws,
                 net' = WithTunnels(net, AddPeer(net.fou, job.gw, job.sport), job.gw)
          PROVE  Touched(net, net', job.gw)
      BY <2>1, <3>1, <3>3, PeerFacts DEF Thread, GWNets
    <3> QED BY <1>1, <2>3, <3>2, <3>3, TouchedKept
  <2>5. ASSUME NEW t \in Threads, HookDelRoute(t)
        PROVE  Kept(g, d)
    <3>1. PICK c \in thr[t].dels : net' = [net EXCEPT !.routes[c] = NoRoute]
      BY <2>5 DEF HookDelRoute
    <3>2. PICK job \in thr[t].job :
             thr[t].dels \subseteq collectRoutesBySubnet(net, job.gw) \ job.networks
      BY <1>1, <2>5 DEF HookDelRoute, IInv, SyncOK
    <3>3. c \in Dests /\ c # d
      BY <1>1, <3>2 DEF collectRoutesBySubnet
    <3>4. net'.routes[d] = net.routes[d]
      BY <2>1, <3>1, <3>3, RouteFacts
    <3> QED BY <1>1, <3>4 DEF Kept
  <2>6. ASSUME NEW t \in Threads, HookAddRoute(t)
        PROVE  Kept(g, d)
    <3>1. PICK c \in thr[t].adds, job \in thr[t].job :
             net.routes[c] = NoRoute /\ net' = [net EXCEPT !.routes[c] = job.gw]
      BY <2>6 DEF HookAddRoute, RouteAddOK
    <3>2. c \in Dests /\ c # d /\ job.gw \in Addrs
      BY <1>1, <3>1, NatClientAssumption DEF IInv, TypeOK, Thread, GWNets
    <3>3. net'.routes[d] = net.routes[d]
      BY <2>1, <3>1, <3>2, RouteFacts
    <3> QED BY <1>1, <3>3 DEF Kept
  <2>7. CASE Remarked(net, net')
    BY <1>1, <2>7 DEF Remarked, Kept
  <2>8. ASSUME NEW t \in Threads, HookOrig(t)
        PROVE  Kept(g, d)
    <3>1. thr[t].conf \in SUBSET Families
      BY <1>1 DEF IInv, TypeOK, Thread
    <3> QED BY <2>1, <2>7, <2>8, <3>1, ConfigureFacts, RemoveFacts DEF HookOrig
  <2>9. ASSUME NEW t \in Threads, net' \in CutOff(t)
        PROVE  Kept(g, d)
    <3>1. thr[t].pc # "init"
      BY <1>1, <2>2 DEF IInv, NetOK, WatchOK
    <3>2. PICK m \in CutOff(t) : net' = m
      BY <2>9
    <3>3. \/ m = net
          \/ \E j \in thr[t].gws : Touched(net, m, j.gw)
          \/ Remarked(net, m)
      BY <1>1, <2>1, <3>1, CutOffFacts DEF IInv
    <3> QED BY <1>1, <2>3, <2>7, <3>2, <3>3, TouchedKept
  <2>10. CASE AddNext
    <3>1. ~ AddInit
      BY <1>1, <2>2 DEF AddInit, IInv, NetOK
    <3> QED BY <1>1, <2>3, <2>4, <2>5, <2>6, <2>8, <2>10, <3>1
            DEF AddNext, AddStart, AddGetHook, AddNoEgress, AddDone, AddCleanUp, HookRouteExists
  <2>11. CASE WatchNext
    BY <2>3, <2>4, <2>5, <2>6, <2>8, <2>11
       DEF WatchNext, UpdateNotReady, ReconcileDone, HookRouteExists
  <2>12. CASE \/ PodRuns \/ SandboxLost \/ ReconcileFails
              \/ \E e \in Egresses : Reconcile(e) \/ ChangeEgress(e) \/ Observe(e)
    BY <1>1, <2>3, <2>12
       DEF PodRuns, SandboxLost, ReconcileFails, Reconcile, ChangeEgress, Observe
  <2>13. CASE \E t \in Threads : HookFails(t)
    BY <2>9, <2>13 DEF HookFails
  <2>14. CASE Restart
    BY <2>3, <2>9, <2>14 DEF Restart
  <2>15. CASE UNCHANGED vars
    BY <2>3, <2>15 DEF vars
  <2> QED BY <1>1, <2>10, <2>11, <2>12, <2>13, <2>14, <2>15 DEF Next
<1>2. IInv /\ [Next]_vars =>
        [net # NoNetns /\ net' # NoNetns =>
          \A e \in Egresses, d \in Dests :
            \A g \in ClusterIPs[e] :
                /\ net.routes[d] = g
                /\ egress[e] # NoEgress /\ d \in egress[e].dests
                /\ cached[e] # NoEgress /\ d \in cached[e].dests
                /\ \A t \in Threads : \A j \in thr[t].gws \cup thr[t].job :
                        j.gw = g => d \in j.networks
                => net'.routes[d] = g \/ net'.fou.links[g] # net.fou.links[g]]_vars
  BY <1>1, NatClientAssumption DEF Kept
<1> QED BY <1>2, Invariance, PTL DEF Spec, KeepsRoutes

=============================================================================
