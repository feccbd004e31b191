-------------------------- MODULE NatServerProofs --------------------------
(***************************************************************************)
(* coil-egress for any pods, addresses, changes and faults.  A router pod  *)
(* that is ready can forward because each mark in its namespace was set    *)
(* after what it stands for (PlanOK).  Clients are served because the news *)
(* of a pod is always somewhere between the informer and podAddrs          *)
(* (NewsOK), because what podAddrs says of a pod that nobody works on is   *)
(* in the kernel (ServedOK), and because a tunnel that is shared goes with *)
(* the last pod that peers has for it (KnownOK).                           *)
(***************************************************************************)
EXTENDS NatServer, FiniteSetTheorems, SequenceTheorems, TLAPS

-----------------------------------------------------------------------------
(* The inductive invariant *)

Tasks == [key: Pods, obj: PodObject \ {None}]
Workers ==
    [pc: {"idle", "init", "add", "del"}, key: Pods \cup {None},
     ips: SUBSET Addrs, todo: SUBSET Addrs, drop: SUBSET Addrs,
     init: SUBSET Tasks]

TypePods ==
    /\ pod \in [Pods -> PodObject \cup {None}]
    /\ cpod \in [Pods -> PodObject \cup {None}]
    /\ events \subseteq Pods /\ queue \subseteq Pods

\* In a router pod all tunnels have the port of FoU as their source port.
TypeNet ==
    /\ local \subseteq Families
    /\ fou \in Tunnels
    /\ \A a \in Addrs : fou.links[a] \in {"fixed", NoLink}
    /\ \A a \in Addrs : Linked(fou, a) => FamOf[a] \in local
    /\ masq \in [Families -> 0 .. 2]
    /\ fib \subseteq local
    /\ natDummy \in BOOLEAN
    /\ routes \subseteq {a \in Addrs : Linked(fou, a)}

\* A set of peers is finite, so existsOtherLivePeers counts.
TypeMem ==
    /\ ready \in BOOLEAN /\ lost \in BOOLEAN
    /\ podAddrs \in [Pods -> SUBSET Addrs]
    /\ peers \in [Addrs -> SUBSET Pods]
    /\ \A a \in Addrs : IsFiniteSet(peers[a])

\* What the goroutine is doing at each stage of the process.
WorkOK ==
    /\ w \in Workers
    /\ \A t, u \in w.init : t.key = u.key => t = u
    /\ w.pc = "idle" => w = idle
    /\ w.pc = "init" => w.key = None
    /\ w.pc \in {"add", "del"} =>
          /\ w.key \in Pods
          /\ \A t \in w.init : t.key # w.key
          /\ w.todo \subseteq w.ips
          /\ w.todo \cap podAddrs[w.key] = {}
          /\ w.drop \subseteq podAddrs[w.key] \ w.ips
          /\ w.todo # {} => w.drop = podAddrs[w.key] \ w.ips
    /\ w.pc = "del" => w.ips = {}
    /\ ready => w.pc # "init" /\ w.init = {} /\ todo = <<>>
    /\ todo # <<>> => w = idle /\ podAddrs = [k \in Pods |-> {}]
    /\ ~ ready /\ todo = <<>> => w.pc # "idle"

\* The result of a step of the set-up is in the namespace.
Effect(s) ==
    /\ s.op = "fou" => s.fam \in fou.ports
    /\ s.op = "masq" => masq[s.fam] > 0
    /\ s.op = "fib" => s.fam \in fib

Setting(op) == {[op |-> op, fam |-> f] : f \in local}

\* What a step stands for: marks for a part of the set-up, the list for all.
Needs(s) ==
    (IF s.op \in {"fouDummy", "list"} THEN Setting("fou") ELSE {})
    \cup (IF s.op \in {"natDummy", "list"} THEN Setting("masq") \cup Setting("fib")
          ELSE {})

Ops == {"start", "fou", "fouDummy", "masq", "fib", "natDummy", "list"}

Steps == [op: Ops, fam: Families]

\* Everything a step needs is done or comes before it.
PlanOK ==
    /\ todo \in Seq(Steps)
    /\ todo # <<>> => todo[Len(todo)].op \in {"start", "list"}
    /\ \A i \in 1 .. Len(todo) :
          /\ todo[i].op \in {"fou", "masq", "fib"} => todo[i].fam \in local
          /\ \A s \in Needs(todo[i]) : Effect(s) \/ \E j \in 1 .. i - 1 : todo[j] = s
    /\ fou.dummy => \A s \in Setting("fou") : Effect(s)
    /\ natDummy => \A s \in Setting("masq") \cup Setting("fib") : Effect(s)
    /\ todo = <<>> =>
          \A op \in {"fou", "masq", "fib"} : \A s \in Setting(op) : Effect(s)

\* The cache is right about a pod without an event under way.
CacheOK == \A k \in Pods \ events : cpod[k] = pod[k]

\* The addresses of k that the goroutine has not touched or has finished.
Have(k) ==
    IF w.key # k THEN podAddrs[k]
    ELSE IF w.pc = "add" THEN (w.ips \ w.todo) \cup w.drop
    ELSE w.drop

\* peers has the pod for each of its addresses.
KnownOK ==
    ~ lost => \A k \in Pods :
       /\ w.key # k \/ w.pc # "del" => \A a \in podAddrs[k] : k \in peers[a]
       /\ \A a \in w.drop : w.key = k => k \in peers[a]

\* These addresses are served, unless one was cut off by another pod.
ServedOK ==
    ~ lost => \A k \in Pods : \A a \in Have(k) :
       FamOf[a] \in local /\ a \notin cut => Served(a)

\* The addresses the tunnels of a pod are for.
Wanted(p) == IF p # None /\ live(p) THEN p.ips ELSE {}

\* Reconcile does not ignore the pod.
Minded(p) == p = None \/ shouldHandle(p)

\* A pod without an event or a key under way is still in the initial list, or
\* being worked on, or podAddrs is right about it.
NewsOK ==
    todo = <<>> /\ ~ lost => \A k \in Pods \ (events \cup queue) :
       Minded(pod[k]) =>
          \/ \E t \in w.init : t.key = k /\ t.obj = pod[k]
          \/ w.key = k /\ w.ips = Wanted(pod[k])
          \/ /\ w.key # k /\ \A t \in w.init : t.key # k
             /\ podAddrs[k] = Wanted(pod[k])

\* Nobody but those in left has a tunnel without a pod among its peers.
LeftOK ==
    \A a \in Addrs : Linked(fou, a) =>
       a \in left \/ peers[a] # {} \/ (w.pc = "add" /\ a \in w.ips \ w.todo)

IInv == /\ TypePods /\ TypeNet /\ TypeMem /\ WorkOK /\ PlanOK /\ CacheOK
        /\ KnownOK /\ ServedOK /\ NewsOK /\ LeftOK

-----------------------------------------------------------------------------
(* Tunnels *)

\* DelPeer takes away one link.
LEMMA DelPeerFacts ==
  ASSUME NEW t \in Tunnels, NEW a \in Addrs
  PROVE  /\ DelPeer(t, a) \in Tunnels
         /\ DelPeer(t, a).ports = t.ports /\ DelPeer(t, a).dummy = t.dummy
         /\ DelPeer(t, a).flow = t.flow
         /\ DelPeer(t, a).links = [t.links EXCEPT ![a] = NoLink]
BY DEF DelPeer, Tunnels

\* What an AddPeer that ends or fails may change if all tunnels of t have the
\* fixed port.
Grown(t, u, a) ==
    /\ u \in Tunnels
    /\ u.ports = t.ports /\ u.dummy = t.dummy
    /\ t.flow \subseteq u.flow
    /\ u.links \in {t.links, [t.links EXCEPT ![a] = "fixed"]}

\* addOrRecreatePeer leaves a tunnel with the fixed port.
LEMMA RecreateFacts ==
  ASSUME NEW t \in Tunnels, NEW a \in Addrs
  PROVE  /\ addOrRecreatePeer(t, a, "fixed") \in Tunnels
         /\ addOrRecreatePeer(t, a, "fixed").ports = t.ports
         /\ addOrRecreatePeer(t, a, "fixed").dummy = t.dummy
         /\ addOrRecreatePeer(t, a, "fixed").flow = t.flow
         /\ addOrRecreatePeer(t, a, "fixed").links = [t.links EXCEPT ![a] = "fixed"]
<1>1. CASE t.links[a] = "fixed"
  BY <1>1 DEF addOrRecreatePeer, Tunnels
<1>2. CASE t.links[a] # "fixed"
  <2> DEFINE d == DelPeer(t, a)
  <2>1. d \in Tunnels /\ d.ports = t.ports /\ d.dummy = t.dummy
        /\ d.flow = t.flow /\ d.links = [t.links EXCEPT ![a] = NoLink]
    BY DelPeerFacts
  <2>2. addOrRecreatePeer(t, a, "fixed") = [d EXCEPT !.links[a] = "fixed"]
    BY <1>2 DEF addOrRecreatePeer
  <2> HIDE DEF d
  <2> QED
    BY <2>1, <2>2 DEF Tunnels, Sports
<1> QED
  BY <1>1, <1>2

\* AddPeer makes the tunnel and the device that decapsulates.
LEMMA AddPeerFacts ==
  ASSUME NEW t \in Tunnels, NEW a \in Addrs
  PROVE  /\ Grown(t, AddPeer(t, a, "fixed"), a)
         /\ AddPeer(t, a, "fixed").links = [t.links EXCEPT ![a] = "fixed"]
         /\ FamOf[a] \in AddPeer(t, a, "fixed").flow
<1> DEFINE r == addOrRecreatePeer(t, a, "fixed")
<1>1. r \in Tunnels /\ r.ports = t.ports /\ r.dummy = t.dummy
      /\ r.flow = t.flow /\ r.links = [t.links EXCEPT ![a] = "fixed"]
  BY RecreateFacts
<1>2. AddPeer(t, a, "fixed") = [r EXCEPT !.flow = @ \cup {FamOf[a]}]
  BY DEF AddPeer, withFlowDevice
<1>3. FamOf[a] \in Families
  BY FoUAssumption
<1> HIDE DEF r
<1> QED
  BY <1>1, <1>2, <1>3 DEF Tunnels, Grown

\* An AddPeer that fails makes less; it removes nothing, because it only ever
\* meets tunnels of its own kind.
LEMMA CutOffFacts ==
  ASSUME NEW t \in Tunnels, NEW a \in Addrs, t.links[a] \in {"fixed", NoLink},
         NEW u \in AddPeerCutOff(t, a, "fixed") \cup {AddPeer(t, a, "fixed")}
  PROVE  Grown(t, u, a)
<1>1. \/ u = t
      \/ u = addOrRecreatePeer(t, a, "fixed")
      \/ u = AddPeer(t, a, "fixed")
  BY DEF AddPeerCutOff
<1>2. CASE u = t
  BY <1>2 DEF Grown
<1>3. CASE u = addOrRecreatePeer(t, a, "fixed")
  BY <1>3, RecreateFacts DEF Grown
<1>4. CASE u = AddPeer(t, a, "fixed")
  BY <1>4, AddPeerFacts
<1> QED
  BY <1>1, <1>2, <1>3, <1>4

-----------------------------------------------------------------------------
(* The end of the process *)

\* A new process remembers nothing and begins with the start-up; what the
\* namespace holds is accounted to left.
LEMMA RestartKeeps ==
  ASSUME IInv, Restart, TypeNet', fou'.ports = fou.ports, fou'.dummy = fou.dummy,
         UNCHANGED <<pod, local, masq, fib, natDummy>>
  PROVE  IInv'
<1>1. TypePods' /\ CacheOK'
  BY DEF IInv, Restart, TypePods, CacheOK
<1>2. TypeMem'
  BY FS_EmptySet DEF Restart, TypeMem
<1>3. WorkOK'
  BY DEF Restart, WorkOK, Workers, Tasks, idle
<1>4. PlanOK'
  <2>1. \A s : Effect(s)' = Effect(s)
    BY DEF Effect
  <2>2. \A op : Setting(op)' = Setting(op)
    BY DEF Setting
  <2>3. todo' = <<[op |-> "start", fam |-> "v4"]>>
    BY DEF Restart
  <2>4. Needs(todo[1])' = {}
    BY <2>3 DEF Needs
  <2> QED
    BY <2>1, <2>2, <2>3, <2>4 DEF IInv, PlanOK, Steps, Ops, Families
<1>5. KnownOK' /\ ServedOK' /\ NewsOK'
  BY NatServerAssumption DEF Restart, KnownOK, ServedOK, NewsOK, Have, idle
<1>6. LeftOK'
  BY DEF Restart, LeftOK
<1> QED
  BY <1>1, <1>2, <1>3, <1>4, <1>5, <1>6, TypeNet' DEF IInv

-----------------------------------------------------------------------------
(* The cluster and the informer *)

\* A change of a pod is an event; what the process holds is as before.
LEMMA SetPodKeeps ==
  ASSUME IInv, NEW k \in Pods, NEW p \in PodObject \cup {None}, SetPod(k, p)
  PROVE  IInv'
<1>1. TypePods' /\ CacheOK'
  BY DEF IInv, SetPod, TypePods, CacheOK
<1>2. NewsOK'
  <2>1. \A j \in Pods \ (events' \cup queue') :
           pod'[j] = pod[j] /\ j \in Pods \ (events \cup queue)
    BY DEF IInv, SetPod, TypePods
  <2> QED
    BY <2>1 DEF IInv, SetPod, memory, seen, NewsOK
<1>3. TypeNet' /\ TypeMem' /\ LeftOK'
  BY DEF IInv, SetPod, netns, memory, seen, TypeNet, TypeMem, LeftOK
<1>4. WorkOK'
  BY DEF IInv, SetPod, memory, WorkOK
<1>5. PlanOK'
  BY DEF IInv, SetPod, netns, PlanOK, Effect, Setting, Needs
<1>6. KnownOK' /\ ServedOK'
  BY DEF IInv, SetPod, netns, memory, seen, KnownOK, ServedOK, Have, Served
<1> QED
  BY <1>1, <1>2, <1>3, <1>4, <1>5, <1>6 DEF IInv

\* What users and the cluster do to pods.
LEMMA PodChanges ==
  ASSUME IInv, NEW k \in Pods,
         \/ \E e \in BOOLEAN : CreatePod(k, e)
         \/ \E ips \in AddrSets : AssignAddrs(k, ips)
         \/ TerminatePod(k) \/ DeletePod(k)
  PROVE  IInv'
<1>1. pod[k] \in PodObject \cup {None}
  BY DEF IInv, TypePods
<1>2. \E p \in PodObject \cup {None} : SetPod(k, p)
  <2>1. CASE \E e \in BOOLEAN : CreatePod(k, e)
    BY <2>1 DEF CreatePod, PodObject
  <2>2. CASE \E ips \in AddrSets : AssignAddrs(k, ips)
    <3>1. PICK ips \in AddrSets : AssignAddrs(k, ips)
      BY <2>2
    <3>2. ips \in SUBSET Addrs
      BY NatServerAssumption
    <3>3. [pod[k] EXCEPT !.ips = ips] \in PodObject
      BY <1>1, <3>1, <3>2 DEF AssignAddrs, PodObject
    <3> QED
      BY <3>1, <3>3 DEF AssignAddrs
  <2>3. CASE TerminatePod(k)
    <3>1. [pod[k] EXCEPT !.done = TRUE] \in PodObject
      BY <1>1, <2>3 DEF TerminatePod, PodObject
    <3> QED
      BY <2>3, <3>1 DEF TerminatePod
  <2>4. CASE DeletePod(k)
    BY <2>4 DEF DeletePod
  <2> QED
    BY <2>1, <2>2, <2>3, <2>4
<1> QED
  BY <1>2, SetPodKeeps

\* Events become keys of the queue, and the cache is right again.
LEMMA ObserveKeeps ==
  ASSUME IInv, Observe
  PROVE  IInv'
<1>1. TypePods' /\ CacheOK'
  BY DEF IInv, Observe, TypePods, CacheOK
<1>2. NewsOK'
  BY DEF IInv, Observe, memory, seen, NewsOK
<1>3. TypeNet' /\ TypeMem' /\ LeftOK'
  BY DEF IInv, Observe, netns, memory, seen, TypeNet, TypeMem, LeftOK
<1>4. WorkOK'
  BY DEF IInv, Observe, memory, WorkOK
<1>5. PlanOK'
  BY DEF IInv, Observe, netns, PlanOK, Effect, Setting, Needs
<1>6. KnownOK' /\ ServedOK'
  BY DEF IInv, Observe, netns, memory, seen, KnownOK, ServedOK, Have, Served
<1> QED
  BY <1>1, <1>2, <1>3, <1>4, <1>5, <1>6 DEF IInv

\* A crash ends the process and nothing else.
LEMMA CrashKeeps ==
  ASSUME IInv, Crash
  PROVE  IInv'
<1>1. TypeNet'
  BY DEF IInv, Crash, netns, TypeNet
<1> QED
  BY <1>1, RestartKeeps DEF Crash, netns

-----------------------------------------------------------------------------
(* The start-up *)

\* A step that fails ends the process.
LEMMA BootFailsKeeps ==
  ASSUME IInv, BootFails
  PROVE  IInv'
<1>1. TypeNet'
  BY DEF IInv, BootFails, netns, TypeNet
<1> QED
  BY <1>1, RestartKeeps DEF BootFails, netns

\* The steps of a plan before its mark m set up, for every family of the router
\* pod, what the operations in ops set up, and nothing else.
Segment(s, ops, m) ==
    /\ s \in Seq(Steps) /\ Len(s) > 0
    /\ s[Len(s)].op = m
    /\ \A i \in 1 .. Len(s) - 1 : s[i].op \in ops /\ s[i].fam \in local
    /\ \A op \in ops : \A y \in Setting(op) :
          \E j \in 1 .. Len(s) - 1 : s[j] = y

\* FoUTunnel.Init sets its mark last.
LEMMA InitSegment ==
  ASSUME local \subseteq Families
  PROVE  Segment(InitSteps(local), {"fou"}, "fouDummy")
<1> DEFINE d == [op |-> "fouDummy", fam |-> "v4"]
           x(f) == [op |-> "fou", fam |-> f]
           S == Steps
<1>1. d \in S /\ d.op = "fouDummy" /\ \A f \in Families :
         x(f) \in S /\ x(f).op = "fou" /\ x(f).fam = f
  BY DEF Steps, Ops, Families
<1>2. Setting("fou") = {x(f) : f \in local}
  BY DEF Setting
<1>3. InitSteps(local) = (IF "v4" \in local THEN <<x("v4")>> ELSE <<>>)
                         \o (IF "v6" \in local THEN <<x("v6")>> ELSE <<>>) \o <<d>>
  BY DEF InitSteps, fouStep
<1> DEFINE p == InitSteps(local)
<1> HIDE DEF d, x, S
<1>4. CASE "v4" \in local /\ "v6" \in local
  <2>1. p \in Seq(S) /\ Len(p) = 3
        /\ p[1] = x("v4") /\ p[2] = x("v6") /\ p[3] = d
    BY <1>1, <1>3, <1>4 DEF Families
  <2> QED
    BY <1>1, <1>2, <1>4, <2>1 DEF Segment, Families, S
<1>5. CASE "v4" \in local /\ "v6" \notin local
  <2>1. p \in Seq(S) /\ Len(p) = 2
        /\ p[1] = x("v4") /\ p[2] = d
    BY <1>1, <1>3, <1>5 DEF Families
  <2> QED
    BY <1>1, <1>2, <1>5, <2>1 DEF Segment, Families, S
<1>6. CASE "v4" \notin local /\ "v6" \in local
  <2>1. p \in Seq(S) /\ Len(p) = 2
        /\ p[1] = x("v6") /\ p[2] = d
    BY <1>1, <1>3, <1>6 DEF Families
  <2> QED
    BY <1>1, <1>2, <1>6, <2>1 DEF Segment, Families, S
<1>7. CASE "v4" \notin local /\ "v6" \notin local
  <2>1. p \in Seq(S) /\ Len(p) = 1
        /\ p[1] = d
    BY <1>1, <1>3, <1>7 DEF Families
  <2> QED
    BY <1>1, <1>2, <1>7, <2>1 DEF Segment, Families, S
<1> QED
  BY <1>4, <1>5, <1>6, <1>7

\* So does NatServer.init.
LEMMA NatSegment ==
  ASSUME local \subseteq Families
  PROVE  Segment(natSteps(local), {"masq", "fib"}, "natDummy")
<1> DEFINE d == [op |-> "natDummy", fam |-> "v4"]
           x(f) == [op |-> "masq", fam |-> f]
           y(f) == [op |-> "fib", fam |-> f]
           S == Steps
<1>1. d \in S /\ d.op = "natDummy" /\ \A f \in Families :
         /\ x(f) \in S /\ x(f).op = "masq" /\ x(f).fam = f
         /\ y(f) \in S /\ y(f).op = "fib" /\ y(f).fam = f
  BY DEF Steps, Ops, Families
<1>2. Setting("masq") = {x(f) : f \in local} /\ Setting("fib") = {y(f) : f \in local}
  BY DEF Setting
<1>3. natSteps(local) =
         (IF "v4" \in local THEN <<x("v4"), y("v4")>> ELSE <<>>)
         \o (IF "v6" \in local THEN <<x("v6"), y("v6")>> ELSE <<>>) \o <<d>>
  BY DEF natSteps
<1> DEFINE p == natSteps(local)
<1> HIDE DEF d, x, y, S
<1>4. CASE "v4" \in local /\ "v6" \in local
  <2>1. p \in Seq(S) /\ Len(p) = 5
        /\ p[1] = x("v4") /\ p[2] = y("v4") /\ p[3] = x("v6")
        /\ p[4] = y("v6") /\ p[5] = d
    BY <1>1, <1>3, <1>4 DEF Families
  <2> QED
    BY <1>1, <1>2, <1>4, <2>1 DEF Segment, Families, S
<1>5. CASE "v4" \in local /\ "v6" \notin local
  <2>1. p \in Seq(S) /\ Len(p) = 3
        /\ p[1] = x("v4") /\ p[2] = y("v4") /\ p[3] = d
    BY <1>1, <1>3, <1>5 DEF Families
  <2> QED
    BY <1>1, <1>2, <1>5, <2>1 DEF Segment, Families, S
<1>6. CASE "v4" \notin local /\ "v6" \in local
  <2>1. p \in Seq(S) /\ Len(p) = 3
        /\ p[1] = x("v6") /\ p[2] = y("v6") /\ p[3] = d
    BY <1>1, <1>3, <1>6 DEF Families
  <2> QED
    BY <1>1, <1>2, <1>6, <2>1 DEF Segment, Families, S
<1>7. CASE "v4" \notin local /\ "v6" \notin local
  <2>1. p \in Seq(S) /\ Len(p) = 1
        /\ p[1] = d
    BY <1>1, <1>3, <1>7 DEF Families
  <2> QED
    BY <1>1, <1>2, <1>7, <2>1 DEF Segment, Families, S
<1> QED
  BY <1>4, <1>5, <1>6, <1>7

\* What is skipped because of a mark is there already, and the rest comes in an
\* order in which each mark follows what it stands for.
LEMMA BootPlanOK ==
  ASSUME IInv
  PROVE  /\ bootPlan \in Seq(Steps)
         /\ Len(bootPlan) > 0 /\ bootPlan[Len(bootPlan)].op = "list"
         /\ \A i \in 1 .. Len(bootPlan) :
               /\ bootPlan[i].op \in {"fou", "masq", "fib"} => bootPlan[i].fam \in local
               /\ \A s \in Needs(bootPlan[i]) :
                     Effect(s) \/ \E j \in 1 .. i - 1 : bootPlan[j] = s
<1> DEFINE S == Steps
           A == IF IsInitialized(fou) THEN <<>> ELSE InitSteps(local)
           B == IF natDummy THEN <<>> ELSE natSteps(local)
           L == [op |-> "list", fam |-> "v4"]
           P == bootPlan
           m == Len(A)
           n == Len(A) + Len(B)
<1>1. /\ A \in Seq(S) /\ Len(A) \in Nat
      /\ \A s \in Setting("fou") : Effect(s) \/ \E j \in 1 .. Len(A) - 1 : A[j] = s
      /\ \A i \in 1 .. Len(A) - 1 : A[i].op = "fou" /\ A[i].fam \in local
      /\ Len(A) > 0 => A[Len(A)].op = "fouDummy"
  <2>1. CASE fou.dummy
    BY <2>1 DEF IsInitialized, IInv, PlanOK
  <2>2. CASE ~ fou.dummy
    <3>1. Segment(A, {"fou"}, "fouDummy")
      BY <2>2, InitSegment DEF IsInitialized, IInv, TypeNet
    <3> HIDE DEF A
    <3> QED
      BY <3>1 DEF Segment
  <2> QED
    BY <2>1, <2>2
<1>2. /\ B \in Seq(S) /\ Len(B) \in Nat
      /\ \A s \in Setting("masq") \cup Setting("fib") :
            Effect(s) \/ \E j \in 1 .. Len(B) - 1 : B[j] = s
      /\ \A i \in 1 .. Len(B) - 1 : B[i].op \in {"masq", "fib"} /\ B[i].fam \in local
      /\ Len(B) > 0 => B[Len(B)].op = "natDummy"
  <2>1. CASE natDummy
    BY <2>1 DEF IInv, PlanOK
  <2>2. CASE ~ natDummy
    <3>1. Segment(B, {"masq", "fib"}, "natDummy")
      BY <2>2, NatSegment DEF IInv, TypeNet
    <3> HIDE DEF B
    <3> QED
      BY <3>1 DEF Segment
  <2> QED
    BY <2>1, <2>2
<1>3. L \in S /\ L.op = "list"
  BY DEF Steps, Ops, Families
<1>4. P = (A \o B) \o <<L>>
  BY DEF bootPlan
<1> HIDE DEF S, A, B, L, P
<1>5. /\ P \in Seq(S) /\ Len(P) = n + 1 /\ m \in Nat /\ n \in Nat
      /\ m = Len(A) /\ n = m + Len(B)
      /\ \A i \in 1 .. m : P[i] = A[i]
      /\ \A j \in 1 .. Len(B) : P[m + j] = B[j]
      /\ P[n + 1] = L
  BY <1>1, <1>2, <1>3, <1>4
<1> HIDE DEF m, n
<1>6. \A s \in Setting("fou") : Effect(s) \/ \E j \in 1 .. m - 1 : P[j] = s
  BY <1>1, <1>5
<1>7. ASSUME NEW s \in Setting("masq") \cup Setting("fib"), ~ Effect(s)
      PROVE  \E j \in m + 1 .. n - 1 : P[j] = s
  <2>1. PICK j \in 1 .. Len(B) - 1 : B[j] = s
    BY <1>2, <1>7
  <2>2. m + j \in m + 1 .. n - 1 /\ j \in 1 .. Len(B)
    BY <1>2, <1>5, <2>1
  <2>3. P[m + j] = s
    BY <1>5, <2>1, <2>2
  <2> QED
    BY <2>2, <2>3
<1>8. ASSUME NEW i \in 1 .. Len(P)
      PROVE  /\ P[i].op \in {"fou", "masq", "fib"} => P[i].fam \in local
             /\ \A s \in Needs(P[i]) : Effect(s) \/ \E j \in 1 .. i - 1 : P[j] = s
  <2>1. CASE i \in 1 .. m - 1
    <3>1. P[i].op = "fou" /\ P[i].fam \in local
      <4>1. i \in 1 .. m /\ i \in 1 .. Len(A) - 1
        BY <1>5, <2>1
      <4> QED
        BY <1>1, <1>5, <4>1
    <3> QED
      BY <3>1 DEF Needs
  <2>2. CASE i = m
    <3>1. P[i].op = "fouDummy"
      BY <1>1, <1>5, <2>2
    <3> QED
      BY <1>6, <2>2, <3>1 DEF Needs
  <2>3. CASE i \in m + 1 .. n - 1
    <3>1. PICK j \in 1 .. Len(B) - 1 : i = m + j
      <4>1. i - m \in 1 .. Len(B) - 1 /\ i = m + (i - m)
        BY <1>2, <1>5, <2>3
      <4> QED
        BY <4>1
    <3>2. P[i] = B[j]
      <4>1. j \in 1 .. Len(B)
        BY <1>2, <3>1
      <4> QED
        BY <1>5, <3>1, <4>1
    <3>3. P[i].op \in {"masq", "fib"} /\ P[i].fam \in local
      BY <1>2, <3>2
    <3> QED
      BY <3>3 DEF Needs
  <2>4. CASE i = n /\ n > m
    <3>1. Len(B) > 0 /\ P[i] = B[Len(B)]
      <4>1. Len(B) \in 1 .. Len(B) /\ i = m + Len(B)
        BY <1>2, <1>5, <2>4
      <4> QED
        BY <1>5, <4>1
    <3>2. P[i].op = "natDummy"
      BY <1>2, <3>1
    <3>3. \A j \in m + 1 .. n - 1 : j \in 1 .. i - 1
      BY <1>5, <2>4
    <3>4. Needs(P[i]) = Setting("masq") \cup Setting("fib")
      BY <3>2 DEF Needs
    <3> QED
      BY <1>7, <3>2, <3>3, <3>4
  <2>5. CASE i = n + 1
    <3>1. P[i].op = "list"
      BY <1>3, <1>5, <2>5
    <3>2. /\ \A j \in m + 1 .. n - 1 : j \in 1 .. i - 1
          /\ \A j \in 1 .. m - 1 : j \in 1 .. i - 1
      BY <1>5, <2>5
    <3>3. Needs(P[i]) = Setting("fou") \cup Setting("masq") \cup Setting("fib")
      BY <3>1 DEF Needs
    <3> QED
      BY <1>6, <1>7, <3>1, <3>2, <3>3
  <2> QED
    BY <1>5, <2>1, <2>2, <2>3, <2>4, <2>5
<1>9. Len(P) > 0 /\ P[Len(P)].op = "list"
  BY <1>3, <1>5
<1> QED
  BY <1>5, <1>8, <1>9 DEF P, S

\* The plan is made.
LEMMA BootStartKeeps ==
  ASSUME IInv, BootStart
  PROVE  IInv'
<1>1. todo # <<>> /\ todo' = bootPlan /\ todo' # <<>>
  BY BootPlanOK, EmptySeq DEF BootStart
<1>2. PlanOK'
  <2>1. /\ \A s : Effect(s)' = Effect(s) /\ Needs(s)' = Needs(s)
        /\ \A op : Setting(op)' = Setting(op)
    BY DEF BootStart, netns, Effect, Needs, Setting
  <2>2. local' = local /\ fou' = fou /\ natDummy' = natDummy
    BY DEF BootStart, netns
  <2> QED
    BY <1>1, <2>1, <2>2, BootPlanOK DEF IInv, PlanOK
<1>3. TypePods' /\ CacheOK'
  BY DEF IInv, BootStart, cluster, TypePods, CacheOK
<1>4. TypeNet' /\ TypeMem' /\ LeftOK'
  BY DEF IInv, BootStart, netns, memory, seen, TypeNet, TypeMem, LeftOK
<1>5. WorkOK'
  BY <1>1 DEF IInv, BootStart, memory, WorkOK
<1>6. KnownOK' /\ ServedOK'
  BY DEF IInv, BootStart, netns, memory, seen, KnownOK, ServedOK, Have, Served
<1>7. NewsOK'
  BY <1>1 DEF NewsOK
<1> QED
  BY <1>2, <1>3, <1>4, <1>5, <1>6, <1>7 DEF IInv

\* A step of the set-up leaves tunnels alone and undoes no other.
LEMMA BootDoneFacts ==
  ASSUME IInv, todo # <<>>, NEW h, h = Head(todo), BootDone(h),
         UNCHANGED <<local, backend, routes>>
  PROVE  /\ TypeNet' /\ fou'.links = fou.links /\ fou'.flow = fou.flow
         /\ \A s \in Steps : Effect(s) => Effect(s)'
         /\ Effect(h)' /\ h.op \notin {"start", "list"}
         /\ fou'.dummy => fou.dummy \/ h.op = "fouDummy"
         /\ natDummy' => natDummy \/ h.op = "natDummy"
<1>1. h \in Steps /\ (h.op = "fib" => h.fam \in local)
  <2>1. todo \in Seq(Steps)
    BY DEF IInv, PlanOK
  <2>2. h = todo[1] /\ 1 \in 1 .. Len(todo) /\ h \in Steps
    BY <2>1
  <2> QED
    BY <2>2 DEF IInv, PlanOK
<1>2. local \subseteq Families /\ fou \in Tunnels /\ masq \in [Families -> 0 .. 2]
      /\ natDummy \in BOOLEAN /\ fib \subseteq local
  BY DEF IInv, TypeNet
<1>3. CASE h.op = "fou"
  <2>1. fou' = FouAdd(fou, h.fam) /\ UNCHANGED <<masq, fib, natDummy>>
    BY <1>3 DEF BootDone
  <2>2. fou' \in Tunnels /\ fou'.links = fou.links /\ fou'.flow = fou.flow
        /\ fou'.dummy = fou.dummy /\ fou'.ports = fou.ports \cup {h.fam}
    BY <1>1, <1>2, <2>1 DEF FouAdd, Tunnels, Steps
  <2>3. TypeNet'
    BY <2>1, <2>2 DEF IInv, TypeNet, Linked
  <2>4. \A s \in Steps : Effect(s) => Effect(s)'
    BY <2>1, <2>2 DEF Effect
  <2>5. Effect(h)'
    BY <1>3, <2>2 DEF Effect
  <2> QED
    BY <1>3, <2>1, <2>2, <2>3, <2>4, <2>5
<1>4. CASE h.op = "fouDummy"
  <2>1. fou' = MarkInitialized(fou) /\ UNCHANGED <<masq, fib, natDummy>>
    BY <1>4 DEF BootDone
  <2>2. fou' \in Tunnels /\ fou'.links = fou.links /\ fou'.flow = fou.flow
        /\ fou'.ports = fou.ports
    BY <1>2, <2>1 DEF MarkInitialized, Tunnels
  <2>3. TypeNet'
    BY <2>1, <2>2 DEF IInv, TypeNet, Linked
  <2>4. \A s \in Steps : Effect(s) => Effect(s)'
    BY <2>1, <2>2 DEF Effect
  <2>5. Effect(h)'
    BY <1>4 DEF Effect
  <2> QED
    BY <1>4, <2>1, <2>2, <2>3, <2>4, <2>5
<1>5. CASE h.op = "masq"
  <2>1. UNCHANGED <<fou, fib, natDummy>>
        /\ masq' \in [Families -> 0 .. 2] /\ masq'[h.fam] > 0
        /\ \A f \in Families : masq[f] > 0 => masq'[f] > 0
    BY <1>1, <1>2, <1>5
       DEF BootDone, Steps, setIPTablesMasqRules, setNFTablesMasqRules
  <2>2. TypeNet'
    BY <2>1 DEF IInv, TypeNet, Linked
  <2>3. \A s \in Steps : Effect(s) => Effect(s)'
    BY <2>1 DEF Effect, Steps
  <2>4. Effect(h)'
    BY <1>5, <2>1 DEF Effect
  <2> QED
    BY <1>5, <2>1, <2>2, <2>3, <2>4
<1>6. CASE h.op = "fib"
  <2>1. fib' = fib \cup {h.fam} /\ UNCHANGED <<fou, masq, natDummy>>
    BY <1>6 DEF BootDone
  <2>2. TypeNet'
    BY <1>1, <1>6, <2>1 DEF IInv, TypeNet, Linked
  <2>3. \A s \in Steps : Effect(s) => Effect(s)'
    BY <2>1 DEF Effect
  <2>4. Effect(h)'
    BY <1>6, <2>1 DEF Effect
  <2> QED
    BY <1>6, <2>1, <2>2, <2>3, <2>4
<1>7. CASE h.op = "natDummy"
  <2>1. natDummy' = TRUE /\ UNCHANGED <<fou, masq, fib>>
    BY <1>7 DEF BootDone
  <2>2. TypeNet'
    BY <2>1 DEF IInv, TypeNet, Linked
  <2>3. \A s \in Steps : Effect(s) => Effect(s)'
    BY <2>1 DEF Effect
  <2>4. Effect(h)'
    BY <1>7 DEF Effect
  <2> QED
    BY <1>7, <2>1, <2>2, <2>3, <2>4
<1> QED
  BY <1>3, <1>4, <1>5, <1>6, <1>7 DEF BootDone

\* The plan gets shorter, and what its other steps need is still done or to
\* come.
LEMMA BootStepKeeps ==
  ASSUME IInv, BootStep
  PROVE  IInv'
<1>1. PICK h : h = Head(todo)
  OBVIOUS
<1>2. todo # <<>> /\ todo' = Tail(todo) /\ UNCHANGED <<local, backend, routes>>
      /\ BootDone(h)
  BY <1>1 DEF BootStep
<1>3. /\ TypeNet' /\ fou'.links = fou.links /\ fou'.flow = fou.flow
      /\ \A s \in Steps : Effect(s) => Effect(s)'
      /\ Effect(h)' /\ h.op \notin {"start", "list"}
      /\ fou'.dummy => fou.dummy \/ h.op = "fouDummy"
      /\ natDummy' => natDummy \/ h.op = "natDummy"
  BY <1>1, <1>2, BootDoneFacts
<1>4. todo \in Seq(Steps) /\ todo[Len(todo)].op \in {"start", "list"}
  BY <1>2 DEF IInv, PlanOK
<1>5. Len(todo) \in Nat \ {0} /\ h = todo[1]
  BY <1>1, <1>2, <1>4
<1>6. Len(todo) > 1
  BY <1>3, <1>4, <1>5
<1>7. Len(todo') = Len(todo) - 1 /\ todo' \in Seq(Steps)
      /\ \A i \in 1 .. Len(todo') : todo'[i] = todo[i + 1]
  BY <1>2, <1>4, <1>6
<1>8. todo' # <<>>
  BY <1>7, <1>6
<1>9. PlanOK'
  <2>1. \A s : Needs(s)' = Needs(s) /\ \A op : Setting(op)' = Setting(op)
    BY <1>2 DEF Needs, Setting
  <2>2. \A s \in Needs(todo[1]) : Effect(s)
    <3>1. 1 \in 1 .. Len(todo)
      BY <1>5
    <3> QED
      BY <3>1 DEF IInv, PlanOK
  <2>3. \A x : Needs(x) \subseteq Steps /\ \A op \in Ops : Setting(op) \subseteq Steps
    BY DEF IInv, TypeNet, Needs, Setting, Steps, Ops
  <2>4. ASSUME NEW i \in 1 .. Len(todo'), NEW s \in Needs(todo'[i]), ~ Effect(s)'
        PROVE  \E j \in 1 .. i - 1 : todo'[j] = s
    <3>1. i + 1 \in 1 .. Len(todo) /\ todo'[i] = todo[i + 1]
      BY <1>7, <1>5 DEF IInv, PlanOK
    <3>2. PICK j \in 1 .. (i + 1) - 1 : todo[j] = s
      BY <1>3, <2>4, <2>3, <3>1 DEF IInv, PlanOK
    <3>3. j # 1
      BY <1>3, <1>5, <2>4, <3>2
    <3>4. j - 1 \in 1 .. i - 1 /\ j - 1 \in 1 .. Len(todo') /\ (j - 1) + 1 = j
      BY <1>7, <1>5, <3>2, <3>3
    <3>5. todo'[j - 1] = s
      BY <1>7, <3>2, <3>4
    <3> QED
      BY <3>4, <3>5
  <2>5. \A i \in 1 .. Len(todo') :
           todo'[i].op \in {"fou", "masq", "fib"} => todo'[i].fam \in local
    BY <1>7, <1>5 DEF IInv, PlanOK
  <2>6. todo'[Len(todo')].op \in {"start", "list"}
    BY <1>2, <1>4, <1>5, <1>6, <1>8, <1>7 DEF IInv, PlanOK
  <2>7. fou'.dummy => \A s \in Setting("fou") : Effect(s)'
    <3>1. h.op = "fouDummy" => Setting("fou") \subseteq Needs(todo[1])
      BY <1>5 DEF Needs
    <3> QED
      BY <1>3, <2>2, <2>3, <3>1 DEF IInv, PlanOK, Ops
  <2>8. natDummy' => \A s \in Setting("masq") \cup Setting("fib") : Effect(s)'
    <3>1. h.op = "natDummy" =>
             Setting("masq") \cup Setting("fib") \subseteq Needs(todo[1])
      BY <1>5 DEF Needs
    <3> QED
      BY <1>3, <2>2, <2>3, <3>1 DEF IInv, PlanOK, Ops
  <2> QED
    BY <1>2, <1>4, <1>5, <1>6, <1>8, <1>7, <2>1, <2>4, <2>5, <2>6, <2>7, <2>8 DEF PlanOK
<1>10. TypePods' /\ CacheOK'
  BY DEF IInv, BootStep, cluster, TypePods, CacheOK
<1>11. TypeMem' /\ LeftOK'
  BY <1>3 DEF IInv, BootStep, memory, seen, TypeMem, LeftOK, Linked
<1>12. WorkOK'
  BY <1>2, <1>4, <1>5, <1>6, <1>8, <1>7 DEF IInv, BootStep, memory, WorkOK
<1>13. KnownOK' /\ ServedOK'
  BY <1>3 DEF IInv, BootStep, memory, seen, KnownOK, ServedOK, Have, Served
<1>14. NewsOK'
  BY <1>8 DEF NewsOK
<1> QED
  BY <1>3, <1>9, <1>10, <1>11, <1>12, <1>13, <1>14 DEF IInv

\* The plan does not depend on tunnels.
LEMMA PlanFrame ==
  ASSUME PlanOK, UNCHANGED <<todo, local, masq, fib, natDummy>>,
         fou'.ports = fou.ports, fou'.dummy = fou.dummy
  PROVE  PlanOK'
BY DEF PlanOK, Effect, Setting, Needs

\* The initial list is made when the set-up is complete.
LEMMA InitListKeeps ==
  ASSUME IInv, InitList
  PROVE  IInv'
<1>1. todo # <<>> /\ Head(todo).op = "list" /\ todo' = <<>> /\ w = idle
      /\ podAddrs = [k \in Pods |-> {}] /\ ~ ready
  BY DEF IInv, InitList, WorkOK
<1> DEFINE T == {[key |-> k, obj |-> cpod[k]] :
                   k \in {j \in Pods : cpod[j] # None /\ shouldHandle(cpod[j])}}
<1>2. w'.pc = "init" /\ w'.key = None /\ w'.init = T
      /\ w'.ips = {} /\ w'.todo = {} /\ w'.drop = {}
  BY DEF InitList, idle
<1>3. T \subseteq Tasks /\ \A t, u \in T : t.key = u.key => t = u
  BY DEF IInv, TypePods, Tasks
<1> HIDE DEF T
<1>4. WorkOK'
  <2>1. w' = [pc |-> "init", key |-> None, ips |-> {}, todo |-> {}, drop |-> {},
              init |-> T]
    BY DEF InitList, idle, T
  <2>2. w' \in Workers
    BY <1>3, <2>1 DEF Workers
  <2> QED
    BY <1>1, <1>2, <1>3, <2>2 DEF IInv, InitList, WorkOK
<1>5. PlanOK'
  <2>1. todo \in Seq(Steps)
    BY DEF IInv, PlanOK
  <2>2. 1 \in 1 .. Len(todo) /\ todo[1].op = "list"
    BY <1>1, <2>1
  <2>3. \A s \in Needs(todo[1]) : Effect(s)
    BY <2>2 DEF IInv, PlanOK
  <2>4. \A op \in {"fou", "masq", "fib"} : Setting(op) \subseteq Needs(todo[1])
    BY <2>2 DEF Needs
  <2>5. \A s : Effect(s)' = Effect(s) /\ \A op : Setting(op)' = Setting(op)
    BY DEF InitList, netns, Effect, Setting
  <2>6. fou' = fou /\ natDummy' = natDummy
    BY DEF InitList, netns
  <2> QED
    BY <1>1, <2>3, <2>4, <2>5, <2>6 DEF IInv, PlanOK
<1>6. NewsOK'
  <2>1. SUFFICES ASSUME NEW k \in Pods \ (events \cup queue), Minded(pod[k])
                 PROVE  \/ \E t \in T : t.key = k /\ t.obj = pod[k]
                        \/ /\ None # k /\ \A t \in T : t.key # k
                           /\ podAddrs[k] = Wanted(pod[k])
    BY <1>2 DEF InitList, cluster, memory, NewsOK
  <2>2. cpod[k] = pod[k] /\ None # k
    BY NatServerAssumption DEF IInv, CacheOK
  <2>3. CASE pod[k] = None
    BY <1>1, <2>2, <2>3 DEF T, Wanted
  <2>4. CASE pod[k] # None
    <3>1. [key |-> k, obj |-> cpod[k]] \in T
      BY <2>1, <2>2, <2>4 DEF T, Minded
    <3> QED
      BY <2>2, <3>1
  <2> QED
    BY <2>3, <2>4
<1>7. TypePods' /\ TypeNet' /\ TypeMem' /\ CacheOK'
  BY DEF IInv, InitList, cluster, netns, memory, seen, TypePods, TypeNet,
     TypeMem, CacheOK
<1>8. KnownOK' /\ ServedOK'
  BY <1>1, <1>2, NatServerAssumption
     DEF InitList, netns, memory, seen, KnownOK, ServedOK, Have
<1>9. LeftOK'
  BY <1>1, <1>2 DEF IInv, InitList, netns, memory, seen, LeftOK, idle
<1> QED
  BY <1>4, <1>5, <1>6, <1>7, <1>8, <1>9 DEF IInv

-----------------------------------------------------------------------------
(* The pod watcher begins and ends a call *)

\* The list is worked off, and Reconcile may begin.
LEMMA InitDoneKeeps ==
  ASSUME IInv, InitDone
  PROVE  IInv'
<1>1. w.pc = "init" /\ w.init = {} /\ w.key = None /\ todo = <<>> /\ todo' = <<>>
      /\ w' = idle /\ ready' = TRUE
  BY DEF IInv, InitDone, WorkOK, idle
<1>2. WorkOK'
  BY <1>1 DEF WorkOK, Workers, idle
<1>3. PlanOK'
  BY PlanFrame DEF IInv, InitDone, netns
<1>4. TypePods' /\ TypeNet' /\ TypeMem' /\ CacheOK'
  BY DEF IInv, InitDone, cluster, netns, memory, seen, TypePods, TypeNet,
     TypeMem, CacheOK
<1>5. KnownOK' /\ ServedOK'
  BY <1>1, NatServerAssumption
     DEF IInv, InitDone, netns, memory, seen, KnownOK, ServedOK, Have, Served, idle
<1>6. NewsOK'
  BY <1>1, NatServerAssumption
     DEF IInv, InitDone, cluster, memory, seen, NewsOK, idle
<1>7. LeftOK'
  BY <1>1 DEF IInv, InitDone, netns, memory, seen, LeftOK, idle
<1> QED
  BY <1>2, <1>3, <1>4, <1>5, <1>6, <1>7 DEF IInv

\* addPod and delPeer begin with all addresses of the pod still untouched.
LEMMA StartKeeps ==
  ASSUME IInv, w.pc \in {"idle", "init"}, todo = <<>>, NEW k \in Pods,
         NEW p \in PodObject, NEW rest \in SUBSET w.init,
         \A t \in rest : t.key # k,
         w' \in {startAdd(k, p, rest), startDel(k, rest)},
         UNCHANGED <<netns, todo, ready, memory, seen>>
  PROVE  /\ WorkOK' /\ PlanOK' /\ TypeNet' /\ TypeMem' /\ KnownOK' /\ ServedOK'
         /\ LeftOK'
<1>1. /\ w'.pc \in {"add", "del"} /\ w'.key = k /\ w'.init = rest
      /\ w'.ips \subseteq Addrs /\ w'.todo = w'.ips \ podAddrs[k]
      /\ w'.drop = podAddrs[k] \ w'.ips
      /\ w'.pc = "del" => w'.ips = {}
  BY DEF startAdd, startDel, PodObject
<1>2. w' \in Workers
  <2>1. rest \in SUBSET Tasks /\ podAddrs[k] \subseteq Addrs /\ p.ips \subseteq Addrs
    BY DEF IInv, WorkOK, Workers, TypeMem, PodObject
  <2>2. CASE w' = startAdd(k, p, rest)
    BY <2>1, <2>2 DEF startAdd, Workers
  <2>3. CASE w' = startDel(k, rest)
    BY <2>1, <2>3 DEF startDel, Workers
  <2> QED
    BY <2>2, <2>3
<1>3. WorkOK'
  BY <1>1, <1>2 DEF IInv, WorkOK, memory
<1>4. PlanOK'
  BY PlanFrame DEF IInv, netns
<1>5. TypeNet' /\ TypeMem'
  BY DEF IInv, netns, memory, seen, TypeNet, TypeMem
<1>6. w.key = None /\ None \notin Pods
  BY NatServerAssumption DEF IInv, WorkOK, idle
<1>7. KnownOK'
  BY <1>1, <1>6 DEF IInv, memory, seen, KnownOK
<1>8. \A j \in Pods : Have(j)' = podAddrs[j] /\ Have(j) = podAddrs[j]
  BY <1>1, <1>6 DEF memory, Have
<1>9. ServedOK'
  BY <1>8 DEF IInv, ServedOK, netns, seen, Served
<1>10. LeftOK'
  BY <1>1 DEF IInv, netns, memory, seen, LeftOK
<1> QED
  BY <1>3, <1>4, <1>5, <1>7, <1>9, <1>10

\* A pod of the initial list is taken up as it was when the list was made.
LEMMA InitNextKeeps ==
  ASSUME IInv, NEW t \in w.init, InitNext(t)
  PROVE  IInv'
<1>1. w.pc = "init" /\ todo = <<>> /\ w.key = None /\ t \in Tasks /\ None \notin Pods
  BY NatServerAssumption DEF IInv, InitNext, WorkOK, Workers, idle
<1>2. t.key \in Pods /\ t.obj \in PodObject /\ t.obj # None
      /\ \A u \in w.init \ {t} : u.key # t.key
  BY <1>1 DEF IInv, WorkOK, Tasks
<1>3. w' \in {startAdd(t.key, t.obj, w.init \ {t}), startDel(t.key, w.init \ {t})}
  BY DEF InitNext
<1>4. /\ WorkOK' /\ PlanOK' /\ TypeNet' /\ TypeMem' /\ KnownOK' /\ ServedOK'
      /\ LeftOK'
  BY <1>1, <1>2, <1>3, StartKeeps DEF InitNext
<1>5. TypePods' /\ CacheOK'
  BY DEF IInv, InitNext, cluster, TypePods, CacheOK
<1>6. NewsOK'
  <2>1. w'.key = t.key /\ w'.init = w.init \ {t} /\ w'.ips = Wanted(t.obj)
    BY <1>2 DEF InitNext, startAdd, startDel, Wanted
  <2>2. UNCHANGED <<pod, events, queue, podAddrs, lost, todo>>
    BY DEF InitNext, cluster, memory, seen
  <2>3. SUFFICES ASSUME ~ lost, NEW k \in Pods \ (events \cup queue), Minded(pod[k])
                 PROVE  \/ \E u \in w.init \ {t} : u.key = k /\ u.obj = pod[k]
                        \/ t.key = k /\ Wanted(t.obj) = Wanted(pod[k])
                        \/ /\ t.key # k /\ \A u \in w.init \ {t} : u.key # k
                           /\ podAddrs[k] = Wanted(pod[k])
    BY <2>1, <2>2 DEF NewsOK
  <2>4. \/ \E u \in w.init : u.key = k /\ u.obj = pod[k]
        \/ (\A u \in w.init : u.key # k) /\ podAddrs[k] = Wanted(pod[k])
    BY <1>1, <2>3 DEF IInv, NewsOK
  <2> QED
    BY <1>2, <2>4
<1> QED
  BY <1>4, <1>5, <1>6 DEF IInv

\* Reconcile acts on what the cache has, which is right unless there is another
\* event.
LEMMA ReconcileKeeps ==
  ASSUME IInv, NEW k \in Pods, Reconcile(k)
  PROVE  IInv'
<1>1. ready /\ w = idle /\ todo = <<>> /\ w.pc = "idle" /\ w.key = None
      /\ w.init = {} /\ None \notin Pods
  BY NatServerAssumption DEF IInv, Reconcile, WorkOK, idle
<1>2. TypePods' /\ CacheOK'
  BY DEF IInv, Reconcile, cluster, TypePods, CacheOK
<1>3. UNCHANGED <<netns, todo, ready, memory, seen>>
      /\ UNCHANGED <<pod, events, podAddrs, lost>> /\ queue' = queue \ {k}
  BY DEF Reconcile, cluster, memory, seen
<1>4. cpod[k] \in PodObject \cup {None} /\ (k \notin events => cpod[k] = pod[k])
  BY DEF IInv, TypePods, CacheOK
<1>5. \A j \in Pods \ (events \cup queue) : Minded(pod[j]) =>
         podAddrs[j] = Wanted(pod[j])
      \/ lost
  BY <1>1 DEF IInv, NewsOK
<1>6. CASE UNCHANGED w /\ cpod[k] # None /\ ~ shouldHandle(cpod[k])
  <2>1. WorkOK' /\ KnownOK' /\ ServedOK'
    BY <1>3, <1>6 DEF IInv, WorkOK, KnownOK, ServedOK, Have, Served, netns, memory,
       seen
  <2>2. PlanOK'
    BY <1>3, PlanFrame DEF IInv, netns
  <2>3. TypeNet' /\ TypeMem' /\ LeftOK'
    BY <1>3, <1>6 DEF IInv, TypeNet, TypeMem, LeftOK, netns, memory, seen
  <2>4. NewsOK'
    BY <1>1, <1>3, <1>4, <1>5, <1>6 DEF NewsOK, Minded
  <2> QED
    BY <1>2, <2>1, <2>2, <2>3, <2>4 DEF IInv
<1>7. CASE ~ (UNCHANGED w /\ cpod[k] # None /\ ~ shouldHandle(cpod[k]))
  <2>1. /\ w'.key = k /\ w'.init = {}
        /\ k \notin events => w'.ips = Wanted(pod[k])
    BY <1>4, <1>7 DEF Reconcile, startAdd, startDel, Wanted
  <2>2. NewsOK'
    BY <1>1, <1>3, <1>5, <2>1 DEF NewsOK
  <2>3. \E p \in PodObject : w' \in {startAdd(k, p, {}), startDel(k, {})}
    <3>1. CASE cpod[k] \in PodObject
      BY <1>7, <3>1 DEF Reconcile
    <3>2. CASE cpod[k] = None
      <4>1. w' = startDel(k, {})
        BY <1>7, <3>2 DEF Reconcile
      <4>2. [ips |-> {}, done |-> FALSE, egress |-> FALSE] \in PodObject
        BY DEF PodObject
      <4> QED
        BY <4>1, <4>2
    <3> QED
      BY <1>4, <3>1, <3>2
  <2>4. /\ WorkOK' /\ PlanOK' /\ TypeNet' /\ TypeMem' /\ KnownOK' /\ ServedOK'
        /\ LeftOK'
    BY <1>1, <1>3, <2>3, StartKeeps
  <2> QED
    BY <1>2, <2>2, <2>4 DEF IInv
<1> QED
  BY <1>6, <1>7

\* A dropped event voids what is said of news.
LEMMA ReconcileGetFailsKeeps ==
  ASSUME IInv, NEW k \in Pods, ReconcileGetFails(k)
  PROVE  IInv'
<1>1. lost' = TRUE /\ UNCHANGED <<cluster, netns, todo, w, ready, memory, left>>
  BY DEF ReconcileGetFails
<1>2. TypePods' /\ CacheOK' /\ TypeNet' /\ TypeMem' /\ LeftOK'
  BY <1>1 DEF IInv, ReconcileGetFails, cluster, netns, memory, TypePods, CacheOK,
     TypeNet, TypeMem, LeftOK
<1>3. WorkOK'
  BY <1>1 DEF IInv, WorkOK, memory
<1>4. PlanOK'
  BY <1>1, PlanFrame DEF IInv, netns
<1>5. KnownOK' /\ ServedOK' /\ NewsOK'
  BY <1>1 DEF KnownOK, ServedOK, NewsOK
<1> QED
  BY <1>2, <1>3, <1>4, <1>5 DEF IInv

\* A call that is given up leaves podAddrs and peers as they were.  If it had
\* not begun to take addresses away, all of them are still served.
LEMMA AbortKeeps ==
  ASSUME IInv, w.pc \in {"add", "del"}, NEW loses \in BOOLEAN, Abort(loses),
         ~ loses => w.drop = podAddrs[w.key] \ w.ips,
         TypeNet', fou'.ports = fou.ports, fou'.dummy = fou.dummy,
         fou.flow \subseteq fou'.flow,
         \A a \in Addrs : Linked(fou', a) => Linked(fou, a) \/ a \in w.ips,
         UNCHANGED <<pod, local, masq, fib, natDummy, routes>>
  PROVE  IInv'
<1>1. CASE ~ ready /\ Restart
  BY <1>1, RestartKeeps
<1>2. CASE ~ (~ ready /\ Restart)
  <2>1. /\ ready /\ w' = idle /\ lost' = (lost \/ loses) /\ queue' = queue \cup {w.key}
        /\ left' = left \cup Unremembered(fou')
        /\ UNCHANGED <<cpod, events, todo, ready, podAddrs, peers, cut>>
    BY <1>2 DEF Abort, memory
  <2>2. w.key \in Pods /\ todo = <<>> /\ None \notin Pods /\ w.init = {}
        /\ w.todo \cap podAddrs[w.key] = {} /\ (w.pc = "del" => w.ips = {})
    BY <2>1, NatServerAssumption DEF IInv, WorkOK
  <2>3. TypePods' /\ CacheOK'
    BY <2>1, <2>2 DEF IInv, TypePods, CacheOK
  <2>4. TypeMem'
    BY <2>1 DEF IInv, TypeMem
  <2>5. WorkOK'
    BY <2>1, <2>2 DEF WorkOK, Workers, idle
  <2>6. PlanOK'
    BY <2>1, PlanFrame DEF IInv
  <2>7. KnownOK'
    BY <2>1, <2>2 DEF IInv, KnownOK, idle
  <2>8. ASSUME ~ lost', NEW k \in Pods
        PROVE  Have(k)' \subseteq Have(k)
    BY <2>1, <2>2, <2>8 DEF Have, idle
  <2>9. ServedOK'
    <3>1. \A a : Served(a) => Served(a)'
      BY DEF Served
    <3> QED
      BY <2>1, <2>8, <3>1 DEF IInv, ServedOK
  <2>10. NewsOK'
    <3>1. ~ lost' => ~ lost
      BY <2>1
    <3> QED
      BY <2>1, <2>2, <3>1 DEF IInv, NewsOK, idle
  <2>11. LeftOK'
    <3>1. \A a \in w.ips : Linked(fou', a) => a \in left' \/ peers'[a] # {}
      BY <2>1 DEF Unremembered
    <3> QED
      BY <2>1, <3>1 DEF IInv, LeftOK
  <2> QED
    BY <2>3, <2>4, <2>5, <2>6, <2>7, <2>9, <2>10, <2>11 DEF IInv
<1> QED
  BY <1>1, <1>2

-----------------------------------------------------------------------------
(* addPod *)

\* A new address is served, unless the router pod lacks its family.
LEMMA AddPodPeerKeeps ==
  ASSUME IInv, NEW a \in Addrs, AddPodPeer(a)
  PROVE  IInv'
<1>1. /\ w.pc = "add" /\ a \in w.todo /\ w \in Workers
      /\ UNCHANGED <<cluster, local, masq, fib, natDummy, todo, ready, queue, memory,
                     seen>>
  BY DEF IInv, AddPodPeer, WorkOK
<1>2. w' \in Workers /\ w'.pc = "add" /\ w'.key = w.key /\ w'.ips = w.ips
      /\ w'.todo = w.todo \ {a} /\ w'.drop = w.drop /\ w'.init = w.init
  BY <1>1 DEF AddPodPeer, Workers
<1>3. /\ fou \in Tunnels /\ fou' \in Tunnels
      /\ fou'.ports = fou.ports /\ fou'.dummy = fou.dummy
      /\ fou.flow \subseteq fou'.flow /\ routes \subseteq routes'
      /\ \/ /\ FamOf[a] \in local /\ a \in routes' /\ FamOf[a] \in fou'.flow
            /\ fou'.links = [fou.links EXCEPT ![a] = "fixed"]
            /\ routes' = routes \cup {a}
         \/ /\ FamOf[a] \notin local
            /\ fou'.links = fou.links /\ routes' = routes
  BY AddPeerFacts DEF IInv, TypeNet, AddPodPeer, supported, Grown
<1>4. TypePods' /\ CacheOK' /\ TypeMem'
  BY <1>1 DEF IInv, cluster, memory, seen, TypePods, CacheOK, TypeMem
<1>5. TypeNet'
  BY <1>1, <1>3, FoUAssumption DEF IInv, TypeNet, Tunnels, Linked, Sports
<1>6. WorkOK'
  BY <1>1, <1>2 DEF IInv, memory, WorkOK, idle
<1>7. PlanOK'
  BY <1>1, <1>3, PlanFrame DEF IInv
<1>8. KnownOK'
  BY <1>1, <1>2 DEF IInv, memory, seen, KnownOK
<1>9. ServedOK'
  <2>1. \A b : Served(b) => Served(b)'
    BY <1>3 DEF Served
  <2>2. FamOf[a] \in local => Served(a)'
    BY <1>3 DEF Served
  <2>3. \A k \in Pods : Have(k)' \subseteq Have(k) \cup {a}
    BY <1>1, <1>2 DEF memory, Have
  <2> QED
    BY <1>1, <2>1, <2>2, <2>3 DEF IInv, seen, ServedOK
<1>10. NewsOK'
  BY <1>1, <1>2 DEF IInv, cluster, memory, seen, NewsOK
<1>11. LeftOK'
  <2>1. a \in w'.ips \ w'.todo
    BY <1>1, <1>2 DEF IInv, WorkOK
  <2>2. \A b \in Addrs : Linked(fou', b) => Linked(fou, b) \/ b = a
    BY <1>3 DEF Linked, Tunnels
  <2> QED
    BY <1>1, <1>2, <2>1, <2>2 DEF IInv, memory, seen, LeftOK
<1> QED
  BY <1>4, <1>5, <1>6, <1>7, <1>8, <1>9, <1>10, <1>11 DEF IInv

\* A failing AddPeer takes nothing away; the key is queued again, or the process
\* ends.
LEMMA AddPodPeerFailsKeeps ==
  ASSUME IInv, NEW a \in Addrs, AddPodPeerFails(a)
  PROVE  IInv'
<1>1. /\ w.pc = "add" /\ a \in w.todo /\ a \in w.ips /\ FamOf[a] \in local
      /\ w.drop = podAddrs[w.key] \ w.ips
      /\ UNCHANGED <<pod, local, masq, fib, natDummy, routes>>
  BY DEF IInv, AddPodPeerFails, WorkOK, supported
<1>2. fou \in Tunnels /\ Grown(fou, fou', a)
  BY CutOffFacts DEF IInv, TypeNet, AddPodPeerFails
<1>3. TypeNet' /\ \A b \in Addrs : Linked(fou', b) => Linked(fou, b) \/ b \in w.ips
  BY <1>1, <1>2, FoUAssumption DEF IInv, TypeNet, Tunnels, Linked, Sports, Grown
<1>4. fou'.ports = fou.ports /\ fou'.dummy = fou.dummy /\ fou.flow \subseteq fou'.flow
  BY <1>2 DEF Grown
<1>5. CASE Abort(FALSE)
  BY <1>1, <1>3, <1>4, <1>5, AbortKeeps
<1>6. CASE Restart
  BY <1>1, <1>3, <1>4, <1>6, RestartKeeps
<1> QED
  BY <1>5, <1>6 DEF AddPodPeerFails

\* The tunnel of a former address goes.  Whoever else has the address is among
\* its peers, so the address is remembered as cut off.
LEMMA AddPodDropKeeps ==
  ASSUME IInv, NEW a \in Addrs, AddPodDrop(a)
  PROVE  IInv'
<1>1. /\ w.pc = "add" /\ w.todo = {} /\ a \in w.drop /\ w \in Workers
      /\ UNCHANGED <<cluster, local, masq, fib, natDummy, todo, ready, queue, memory,
                     lost, left>>
      /\ routes' = routes \ {a} /\ cut \subseteq cut'
      /\ peers[a] \ {w.key} # {} => a \in cut'
  BY DEF IInv, AddPodDrop, WorkOK
<1>2. w' \in Workers /\ w'.pc = "add" /\ w'.key = w.key /\ w'.ips = w.ips
      /\ w'.todo = {} /\ w'.drop = w.drop \ {a} /\ w'.init = w.init
  BY <1>1 DEF AddPodDrop, Workers
<1>3. /\ fou \in Tunnels /\ fou' \in Tunnels
      /\ fou'.ports = fou.ports /\ fou'.dummy = fou.dummy /\ fou'.flow = fou.flow
      /\ fou'.links = [fou.links EXCEPT ![a] = NoLink]
  BY DelPeerFacts DEF IInv, TypeNet, AddPodDrop
<1>4. TypePods' /\ CacheOK' /\ TypeMem'
  BY <1>1 DEF IInv, cluster, memory, TypePods, CacheOK, TypeMem
<1>5. TypeNet'
  BY <1>1, <1>3, FoUAssumption DEF IInv, TypeNet, Tunnels, Linked, Sports
<1>6. WorkOK'
  BY <1>1, <1>2 DEF IInv, memory, WorkOK
<1>7. PlanOK'
  BY <1>1, <1>3, PlanFrame DEF IInv
<1>8. KnownOK'
  BY <1>1, <1>2 DEF IInv, memory, KnownOK
<1>9. ServedOK'
  <2>1. \A b : b # a /\ Served(b) => Served(b)'
    BY <1>1, <1>3 DEF Served
  <2>2. ASSUME NEW k \in Pods, ~ lost, a \in Have(k)', a \notin cut'
        PROVE  FALSE
    <3>1. CASE k = w.key
      BY <1>1, <1>2, <2>2, <3>1 DEF IInv, WorkOK, Have
    <3>2. CASE k # w.key
      <4>1. a \in podAddrs[k]
        BY <1>1, <1>2, <2>2, <3>2 DEF memory, Have
      <4>2. k \in peers[a]
        BY <2>2, <3>2, <4>1 DEF IInv, KnownOK
      <4> QED
        BY <1>1, <2>2, <3>2, <4>2
    <3> QED
      BY <3>1, <3>2
  <2>3. \A k \in Pods : Have(k)' \subseteq Have(k)
    BY <1>1, <1>2 DEF memory, Have
  <2> QED
    BY <1>1, <2>1, <2>2, <2>3 DEF IInv, ServedOK
<1>10. NewsOK'
  BY <1>1, <1>2 DEF IInv, cluster, memory, NewsOK
<1>11. LeftOK'
  <2>1. \A b \in Addrs : Linked(fou', b) => Linked(fou, b)
    BY <1>3 DEF Linked, Tunnels
  <2> QED
    BY <1>1, <1>2, <2>1 DEF IInv, memory, LeftOK
<1> QED
  BY <1>4, <1>5, <1>6, <1>7, <1>8, <1>9, <1>10, <1>11 DEF IInv

\* The failure counts as a loss if an address is gone already.
LEMMA AddPodDropFailsKeeps ==
  ASSUME IInv, AddPodDropFails
  PROVE  IInv'
<1>1. w.pc = "add" /\ UNCHANGED <<pod, netns>>
      /\ Abort(w.drop # podAddrs[w.key] \ w.ips)
  BY DEF AddPodDropFails
<1>2. TypeNet' /\ UNCHANGED <<local, masq, fib, natDummy, routes, fou>>
  BY <1>1 DEF IInv, netns, TypeNet
<1>3. PICK loses \in BOOLEAN : loses = (w.drop # podAddrs[w.key] \ w.ips)
  OBVIOUS
<1> QED
  BY <1>1, <1>2, <1>3, AbortKeeps

\* What Finish makes of the goroutine.
LEMMA FinishFacts ==
  ASSUME IInv, w.pc \in {"add", "del"}, Finish
  PROVE  /\ w' \in Workers /\ w'.key = None /\ w'.init = w.init
         /\ w'.pc = IF ready THEN "idle" ELSE "init"
         /\ ready => w' = idle
         /\ w'.drop = {} /\ todo = <<>>
<1>1. w.init \in SUBSET Tasks /\ (ready => w.init = {}) /\ todo = <<>>
  BY DEF IInv, WorkOK, Workers, idle
<1>2. CASE ready
  BY <1>1, <1>2 DEF Finish, idle, Workers
<1>3. CASE ~ ready
  BY <1>1, <1>3 DEF Finish, idle, Workers
<1> QED
  BY <1>2, <1>3

\* podAddrs has the addresses that are served by now, and peers has the pod for
\* each of them.
LEMMA AddPodDoneKeeps ==
  ASSUME IInv, AddPodDone
  PROVE  IInv'
<1>1. /\ w.pc = "add" /\ w.todo = {} /\ w.drop = {} /\ Finish
      /\ UNCHANGED <<cluster, netns, todo, ready, queue, cut, lost>>
  BY DEF AddPodDone
<1>2. /\ w.key \in Pods /\ w.ips \subseteq Addrs
      /\ \A t \in w.init : t.key # w.key
      /\ \A t, u \in w.init : t.key = u.key => t = u
      /\ podAddrs \in [Pods -> SUBSET Addrs] /\ peers \in [Addrs -> SUBSET Pods]
  BY <1>1 DEF IInv, WorkOK, Workers, TypeMem
<1>3. /\ w' \in Workers /\ w'.key = None /\ w'.init = w.init
      /\ w'.pc = IF ready THEN "idle" ELSE "init"
      /\ ready => w' = idle
      /\ w'.drop = {} /\ todo = <<>>
  BY <1>1, FinishFacts
<1>4. /\ podAddrs' \in [Pods -> SUBSET Addrs] /\ podAddrs'[w.key] = w.ips
      /\ \A k \in Pods : k # w.key => podAddrs'[k] = podAddrs[k]
  BY <1>2 DEF AddPodDone
<1>5. /\ peers' \in [Addrs -> SUBSET Pods]
      /\ \A a \in Addrs : peers'[a] = IF a \in w.ips THEN peers[a] \cup {w.key}
                                      ELSE peers[a]
  BY <1>2 DEF AddPodDone
<1>6. None \notin Pods
  BY NatServerAssumption
<1>7. TypePods' /\ CacheOK' /\ TypeNet'
  BY <1>1 DEF IInv, cluster, netns, TypePods, CacheOK, TypeNet
<1>8. TypeMem'
  <2>1. \A a \in Addrs : IsFiniteSet(peers'[a])
    <3>1. \A a \in Addrs : IsFiniteSet(peers[a])
      BY DEF IInv, TypeMem
    <3>2. \A a \in Addrs : IsFiniteSet(peers[a] \cup {w.key})
      BY <3>1, FS_AddElement
    <3> QED
      BY <1>5, <3>1, <3>2
  <2> QED
    BY <1>1, <1>4, <1>5, <2>1 DEF IInv, TypeMem
<1>9. WorkOK'
  BY <1>1, <1>2, <1>3 DEF IInv, WorkOK, idle
<1>10. PlanOK'
  BY <1>1, PlanFrame DEF IInv, netns
<1>11. KnownOK'
  <2>1. ASSUME ~ lost, NEW k \in Pods, NEW a \in podAddrs'[k]
        PROVE  k \in peers'[a]
    <3>1. CASE k = w.key
      BY <1>2, <1>4, <1>5, <3>1
    <3>2. CASE k # w.key
      <4>1. a \in podAddrs[k] /\ a \in Addrs
        BY <1>2, <1>4, <3>2
      <4>2. k \in peers[a]
        BY <2>1, <3>2, <4>1 DEF IInv, KnownOK
      <4> QED
        BY <1>5, <4>1, <4>2
    <3> QED
      BY <3>1, <3>2
  <2> QED
    BY <1>1, <1>3, <2>1 DEF KnownOK
<1>12. ServedOK'
  <2>1. \A k \in Pods : Have(k)' = Have(k)
    BY <1>1, <1>3, <1>4, <1>6 DEF Have
  <2> QED
    BY <1>1, <2>1 DEF IInv, netns, ServedOK, Served
<1>13. NewsOK'
  <2>1. UNCHANGED <<pod, events, queue, lost, todo>>
    BY <1>1 DEF cluster
  <2> QED
    BY <1>2, <1>3, <1>4, <1>6, <2>1 DEF IInv, NewsOK
<1>14. LeftOK'
  <2>1. fou' = fou /\ left' = left \ w.ips
    BY DEF AddPodDone, netns
  <2>2. ASSUME NEW a \in Addrs, Linked(fou, a)
        PROVE  a \in left' \/ peers'[a] # {}
    <3>1. CASE a \in w.ips
      BY <1>5, <3>1
    <3>2. CASE a \notin w.ips
      BY <1>5, <2>1, <2>2, <3>2 DEF IInv, LeftOK
    <3> QED
      BY <3>1, <3>2
  <2> QED
    BY <2>1, <2>2 DEF LeftOK
<1> QED
  BY <1>7, <1>8, <1>9, <1>10, <1>11, <1>12, <1>13, <1>14 DEF IInv

-----------------------------------------------------------------------------
(* delPeer *)

\* Two pods of an address are counted as such.
LEMMA TwoPeers ==
  ASSUME NEW S, IsFiniteSet(S), NEW x \in S
  PROVE  Cardinality(S) > 1 <=> \E y \in S : y # x
<1>1. IsFiniteSet(S \ {x}) /\ Cardinality(S \ {x}) = Cardinality(S) - 1
      /\ Cardinality(S) \in Nat /\ Cardinality(S \ {x}) \in Nat
  BY FS_RemoveElement, FS_CardinalityType
<1>2. Cardinality(S \ {x}) = 0 <=> S \ {x} = {}
  BY <1>1, FS_EmptySet
<1> QED
  BY <1>1, <1>2

\* The tunnel goes with the last pod that peers has for its address.
LEMMA DelPeerStepKeeps ==
  ASSUME IInv, NEW a \in Addrs, DelPeerStep(a)
  PROVE  IInv'
<1>1. /\ w.pc = "del" /\ a \in w.drop /\ w \in Workers /\ w.key \in peers[a]
      /\ UNCHANGED <<cluster, local, masq, fib, natDummy, todo, ready, queue,
                     podAddrs, seen>>
  BY DEF IInv, DelPeerStep, WorkOK
<1>2. w' \in Workers /\ w'.pc = "del" /\ w'.key = w.key /\ w'.ips = w.ips
      /\ w'.todo = w.todo /\ w'.drop = w.drop \ {a} /\ w'.init = w.init
  BY <1>1 DEF DelPeerStep, Workers
<1>3. /\ peers \in [Addrs -> SUBSET Pods] /\ IsFiniteSet(peers[a])
      /\ peers' = [peers EXCEPT ![a] = @ \ {w.key}]
  BY DEF IInv, TypeMem, DelPeerStep, peersWithout
<1>4. existsOtherLivePeers(a) <=> \E k \in peers[a] : k # w.key
  BY <1>1, <1>3, TwoPeers DEF existsOtherLivePeers
<1>5. /\ fou \in Tunnels /\ fou' \in Tunnels
      /\ fou'.ports = fou.ports /\ fou'.dummy = fou.dummy /\ fou'.flow = fou.flow
      /\ \/ /\ \E k \in peers[a] : k # w.key
            /\ fou'.links = fou.links /\ routes' = routes
         \/ /\ \A k \in peers[a] : k = w.key
            /\ fou'.links = [fou.links EXCEPT ![a] = NoLink]
            /\ routes' = routes \ {a}
  BY <1>4, DelPeerFacts DEF IInv, TypeNet, DelPeerStep
<1>6. TypePods' /\ CacheOK'
  BY <1>1 DEF IInv, cluster, TypePods, CacheOK
<1>7. TypeMem'
  BY <1>1, <1>3, FS_RemoveElement DEF IInv, seen, TypeMem
<1>8. TypeNet'
  BY <1>1, <1>5, FoUAssumption DEF IInv, TypeNet, Tunnels, Linked, Sports
<1>9. WorkOK'
  BY <1>1, <1>2 DEF IInv, WorkOK, idle
<1>10. PlanOK'
  BY <1>1, <1>5, PlanFrame DEF IInv
<1>11. KnownOK'
  <2>1. \A k \in Pods, b \in Addrs : (k # w.key \/ b # a) /\ k \in peers[b]
           => k \in peers'[b]
    BY <1>3
  <2>2. \A k \in Pods : podAddrs[k] \subseteq Addrs
    BY DEF IInv, TypeMem
  <2>3. w.drop \subseteq Addrs
    BY <1>1 DEF Workers
  <2> QED
    BY <1>1, <1>2, <2>1, <2>2, <2>3 DEF IInv, seen, KnownOK
<1>12. ServedOK'
  <2>1. \A b : b # a /\ Served(b) => Served(b)'
    BY <1>1, <1>5 DEF Served
  <2>2. ASSUME NEW k \in Pods, ~ lost, a \in Have(k)'
        PROVE  Served(a) => Served(a)'
    <3>1. k # w.key /\ a \in podAddrs[k]
      BY <1>1, <1>2, <2>2 DEF Have
    <3>2. k \in peers[a]
      BY <2>2, <3>1 DEF IInv, KnownOK
    <3> QED
      BY <1>5, <3>1, <3>2 DEF Served
  <2>3. \A k \in Pods : Have(k)' \subseteq Have(k)
    BY <1>1, <1>2 DEF Have
  <2> QED
    BY <1>1, <2>1, <2>2, <2>3 DEF IInv, seen, ServedOK
<1>13. NewsOK'
  BY <1>1, <1>2 DEF IInv, cluster, seen, NewsOK
<1>14. LeftOK'
  <2>1. ASSUME NEW b \in Addrs, Linked(fou', b)
        PROVE  b \in left' \/ peers'[b] # {}
    <3>1. CASE b = a
      <4>1. \E k \in peers[a] : k # w.key
        BY <1>5, <2>1, <3>1 DEF Linked, Tunnels
      <4> QED
        BY <1>3, <3>1, <4>1
    <3>2. CASE b # a
      <4>1. Linked(fou, b) /\ peers'[b] = peers[b]
        BY <1>3, <1>5, <2>1, <3>2 DEF Linked, Tunnels
      <4> QED
        BY <1>1, <4>1 DEF IInv, seen, LeftOK
    <3> QED
      BY <3>1, <3>2
  <2> QED
    BY <2>1 DEF LeftOK
<1> QED
  BY <1>6, <1>7, <1>8, <1>9, <1>10, <1>11, <1>12, <1>13, <1>14 DEF IInv

\* A deletion that fails halfway is a loss, which no retry makes good.
LEMMA DelPeerFailsKeeps ==
  ASSUME IInv, NEW a \in Addrs, DelPeerFails(a)
  PROVE  IInv'
<1>1. w.pc = "del" /\ UNCHANGED <<pod, netns>> /\ w.ips = {}
      /\ Abort(w.drop # podAddrs[w.key])
  BY DEF IInv, DelPeerFails, WorkOK
<1>2. TypeNet' /\ UNCHANGED <<local, masq, fib, natDummy, routes, fou>>
  BY <1>1 DEF IInv, netns, TypeNet
<1>3. PICK loses \in BOOLEAN : loses = (w.drop # podAddrs[w.key])
  OBVIOUS
<1> QED
  BY <1>1, <1>2, <1>3, AbortKeeps

\* podAddrs forgets a pod that has no tunnel of its own any more.
LEMMA DelPeerDoneKeeps ==
  ASSUME IInv, DelPeerDone
  PROVE  IInv'
<1>1. /\ w.pc = "del" /\ w.drop = {} /\ Finish
      /\ UNCHANGED <<cluster, netns, todo, ready, queue, peers, seen>>
  BY DEF DelPeerDone
<1>2. /\ w.key \in Pods /\ w.ips = {}
      /\ \A t \in w.init : t.key # w.key
      /\ \A t, u \in w.init : t.key = u.key => t = u
      /\ podAddrs \in [Pods -> SUBSET Addrs]
  BY <1>1 DEF IInv, WorkOK, TypeMem
<1>3. /\ w' \in Workers /\ w'.key = None /\ w'.init = w.init
      /\ w'.pc = IF ready THEN "idle" ELSE "init"
      /\ ready => w' = idle
      /\ w'.drop = {} /\ todo = <<>>
  BY <1>1, FinishFacts
<1>4. /\ podAddrs' \in [Pods -> SUBSET Addrs] /\ podAddrs'[w.key] = {}
      /\ \A k \in Pods : k # w.key => podAddrs'[k] = podAddrs[k]
  BY <1>2 DEF DelPeerDone
<1>5. None \notin Pods
  BY NatServerAssumption
<1>6. TypePods' /\ CacheOK' /\ TypeNet'
  BY <1>1 DEF IInv, cluster, netns, TypePods, CacheOK, TypeNet
<1>7. TypeMem'
  BY <1>1, <1>4 DEF IInv, seen, TypeMem
<1>8. WorkOK'
  BY <1>1, <1>2, <1>3 DEF IInv, WorkOK, idle
<1>9. PlanOK'
  BY <1>1, PlanFrame DEF IInv, netns
<1>10. KnownOK'
  BY <1>1, <1>2, <1>3, <1>4 DEF IInv, seen, KnownOK
<1>11. ServedOK'
  <2>1. \A k \in Pods : Have(k)' = Have(k)
    BY <1>1, <1>3, <1>4, <1>5 DEF Have
  <2> QED
    BY <1>1, <2>1 DEF IInv, netns, seen, ServedOK, Served
<1>12. NewsOK'
  <2>1. UNCHANGED <<pod, events, queue, lost, todo>>
    BY <1>1 DEF cluster, seen
  <2> QED
    <3>1. SUFFICES ASSUME ~ lost, NEW k \in Pods \ (events \cup queue), Minded(pod[k])
                   PROVE  \/ \E t \in w.init : t.key = k /\ t.obj = pod[k]
                          \/ /\ \A t \in w.init : t.key # k
                             /\ podAddrs'[k] = Wanted(pod[k])
      BY <1>3, <1>5, <2>1 DEF NewsOK
    <3>2. \/ \E t \in w.init : t.key = k /\ t.obj = pod[k]
          \/ w.key = k /\ w.ips = Wanted(pod[k])
          \/ /\ w.key # k /\ \A t \in w.init : t.key # k
             /\ podAddrs[k] = Wanted(pod[k])
      BY <1>3, <3>1 DEF IInv, NewsOK
    <3> QED
      BY <1>2, <1>4, <3>2
<1>13. LeftOK'
  BY <1>1, <1>3 DEF IInv, netns, seen, LeftOK
<1> QED
  BY <1>6, <1>7, <1>8, <1>9, <1>10, <1>11, <1>12, <1>13 DEF IInv
-----------------------------------------------------------------------------
(* The theorems *)

\* The invariant holds when the router pod starts.
LEMMA InitIInv ==
  ASSUME Init
  PROVE  IInv
<1>1. PICK s \in Setups : local = s.fams
  BY DEF Init
<1>2. local \subseteq Families
  BY <1>1, NatServerAssumption
<1>3. TypePods /\ CacheOK
  <2>1. \A k \in Pods : [ips |-> Ips[k], done |-> FALSE, egress |-> TRUE] \in PodObject
    BY NatServerAssumption DEF PodObject
  <2> QED
    BY <2>1 DEF Init, TypePods, CacheOK
<1>4. TypeNet /\ LeftOK
  <2>1. fou \in Tunnels /\ \A a \in Addrs : fou.links[a] = NoLink
    BY DEF Init, newNetns, Tunnels
  <2>2. masq \in [Families -> 0 .. 2] /\ fib = {} /\ routes = {} /\ natDummy = FALSE
    BY DEF Init
  <2>3. TypeNet
    BY <1>2, <2>1, <2>2 DEF TypeNet, Linked
  <2> QED
    BY <2>1, <2>3 DEF LeftOK, Linked
<1>5. TypeMem
  BY FS_EmptySet DEF Init, TypeMem
<1>6. WorkOK
  BY DEF Init, WorkOK, Workers, Tasks, idle
<1>7. PlanOK
  <2>1. todo = <<[op |-> "start", fam |-> "v4"]>> /\ ~ fou.dummy /\ ~ natDummy
    BY DEF Init, newNetns
  <2>2. Needs(todo[1]) = {}
    BY <2>1 DEF Needs
  <2> QED
    BY <2>1, <2>2 DEF PlanOK, Steps, Ops, Families
<1>8. KnownOK /\ ServedOK /\ NewsOK
  BY NatServerAssumption DEF Init, KnownOK, ServedOK, NewsOK, Have, idle
<1> QED
  BY <1>3, <1>4, <1>5, <1>6, <1>7, <1>8 DEF IInv

\* Every step keeps it.
LEMMA NextIInv ==
  ASSUME IInv, [Next]_vars
  PROVE  IInv'
<1>1. CASE Boot
  BY <1>1, BootStartKeeps, BootStepKeeps, BootFailsKeeps, InitListKeeps DEF Boot
<1>2. CASE Work
  <2>1. CASE InitDone \/ AddPodDropFails \/ AddPodDone \/ DelPeerDone
    BY <2>1, InitDoneKeeps, AddPodDropFailsKeeps, AddPodDoneKeeps, DelPeerDoneKeeps
  <2>2. CASE \E t \in w.init : InitNext(t)
    BY <2>2, InitNextKeeps
  <2>3. CASE \E k \in Pods : Reconcile(k) \/ ReconcileGetFails(k)
    BY <2>3, ReconcileKeeps, ReconcileGetFailsKeeps
  <2>4. CASE \E a \in Addrs : AddPodPeer(a) \/ AddPodPeerFails(a) \/ AddPodDrop(a)
    BY <2>4, AddPodPeerKeeps, AddPodPeerFailsKeeps, AddPodDropKeeps
  <2>5. CASE \E a \in Addrs : DelPeerStep(a) \/ DelPeerFails(a)
    BY <2>5, DelPeerStepKeeps, DelPeerFailsKeeps
  <2> QED
    BY <1>2, <2>1, <2>2, <2>3, <2>4, <2>5 DEF Work
<1>3. CASE Observe
  BY <1>3, ObserveKeeps
<1>4. CASE Environment
  BY <1>4, CrashKeeps, PodChanges DEF Environment
<1>5. CASE UNCHANGED vars
  <2>1. UNCHANGED <<pod, cpod, events, local, fou, masq, fib, natDummy, routes, todo,
                    w, ready, queue, podAddrs, peers, cut, lost, left>>
    BY <1>5 DEF vars, cluster, netns, memory, seen
  <2>2. TypePods' /\ TypeNet' /\ TypeMem' /\ WorkOK' /\ CacheOK' /\ LeftOK'
    BY <2>1 DEF IInv, TypePods, TypeNet, TypeMem, WorkOK, CacheOK, LeftOK
  <2>3. PlanOK'
    BY <2>1, PlanFrame DEF IInv
  <2>4. KnownOK' /\ ServedOK' /\ NewsOK'
    BY <2>1 DEF IInv, KnownOK, ServedOK, NewsOK, Have, Served
  <2> QED
    BY <2>2, <2>3, <2>4 DEF IInv
<1> QED
  BY <1>1, <1>2, <1>3, <1>4, <1>5 DEF Next

\* The invariant holds of coil-egress.
THEOREM Invariance == Spec => []IInv
BY InitIInv, NextIInv, PTL DEF Spec

\* The variables of coil-egress keep their types: there is no tunnel of a family
\* that the router pod lacks, and no route to a client without its tunnel.
THEOREM TypeCorrect == Spec => []TypeOK
<1>1. IInv => TypeOK
  BY DEF IInv, TypePods, TypeNet, TypeMem, WorkOK, Workers, TypeOK
<1> QED
  BY <1>1, Invariance, PTL

\* A router pod that passes its readiness check can forward packets of each of
\* its families, whatever earlier processes have left of the set-up.
THEOREM ReadyIsConfigured == Spec => []ReadyConfigured
<1>1. IInv => ReadyConfigured
  <2>1. SUFFICES ASSUME IInv, ready, NEW f \in local
                 PROVE  f \in fou.ports /\ f \in fib /\ masq[f] > 0
    BY DEF ReadyConfigured
  <2>2. \A op \in {"fou", "masq", "fib"} : Effect([op |-> op, fam |-> f])
    BY <2>1 DEF IInv, WorkOK, PlanOK, Setting
  <2> QED
    BY <2>2 DEF Effect
<1> QED
  BY <1>1, Invariance, PTL

\* delPeer finds its key among the peers of every address it is to delete.
THEOREM PodsAreKnown == Spec => []PeersKnowPods
<1>1. IInv => PeersKnowPods
  BY DEF IInv, KnownOK, PeersKnowPods
<1> QED
  BY <1>1, Invariance, PTL

\* When the pod watcher has nothing to do, podAddrs is right about every pod that
\* it does not ignore.
LEMMA QuietAddrs ==
  ASSUME IInv, Quiet, ~ lost, NEW k \in Pods, Minded(pod[k])
  PROVE  podAddrs[k] = Wanted(pod[k]) /\ w.key # k
BY NatServerAssumption DEF IInv, Quiet, WorkOK, NewsOK, idle

\* When the events are worked off, every address of a running client has its
\* tunnel, its route and the device that decapsulates, with the exceptions that
\* the property names.
THEOREM EveryClientServed == Spec => []ClientsServed
<1>1. IInv => ClientsServed
  <2>1. SUFFICES ASSUME IInv, Quiet, ~ lost, NEW k \in Pods, Client(k),
                        NEW a \in pod[k].ips, FamOf[a] \in local, a \notin cut
                 PROVE  Served(a)
    BY DEF ClientsServed
  <2>2. podAddrs[k] = pod[k].ips /\ w.key # k
    BY <2>1, QuietAddrs DEF Client, Minded, Wanted
  <2> QED
    BY <2>1, <2>2 DEF IInv, ServedOK, Have
<1> QED
  BY <1>1, Invariance, PTL

\* Tunnels go with their last pod: what stays when the events are worked off is
\* in use, or was left by a failure, or belongs to a pod that changed its address
\* or is no client any more.
THEOREM TunnelsHaveUsers == Spec => []NoGarbage
<1>1. IInv => NoGarbage
  <2>1. SUFFICES ASSUME IInv, Quiet, ~ lost, NEW a \in Addrs, Linked(fou, a),
                        a \notin left
                 PROVE  \E k \in peers[a] :
                           \/ a \notin podAddrs[k]
                           \/ /\ pod[k] # None
                              /\ \/ ~ shouldHandle(pod[k])
                                 \/ Client(k) /\ a \in pod[k].ips
    BY DEF NoGarbage
  <2>2. PICK k \in peers[a] : TRUE
    BY <2>1 DEF IInv, LeftOK, Quiet
  <2>3. k \in Pods
    BY <2>1 DEF IInv, TypeMem
  <2>4. Minded(pod[k]) => podAddrs[k] = Wanted(pod[k])
    BY <2>1, <2>3, QuietAddrs
  <2> QED
    BY <2>4 DEF Minded, Wanted, Client
<1> QED
  BY <1>1, Invariance, PTL

=============================================================================
