------------------------------ MODULE NatServer ------------------------------
(***************************************************************************)
(* coil-egress in one router pod: cmd/coil-egress/sub/run.go, the NAT set  *)
(* up by pkg/nat/netfilter/server.go and the pod watcher that keeps a      *)
(* tunnel for every client (controllers/pod_watcher.go), on the tunnels of *)
(* FoU.                                                                    *)
(*                                                                         *)
(* The network namespace outlives the process; podAddrs and peers do not.  *)
(* One goroutine does the work at a time (Reconcile waits for the initial  *)
(* list), so a step ends at a netlink call that may fail.  The API server, *)
(* the informer and the address pool of the cluster go on meanwhile.       *)
(***************************************************************************)
EXTENDS FoU, FiniteSets

CONSTANTS
    Pods,       \* names of pods, namespace included
    Setups,     \* router pods: families of the addresses, NAT backend
    AddrSets,   \* what a pod may be assigned: at most one address per family
    Ips,        \* addresses the pods have when the router pod starts
    MaxChanges, \* bound on changes of the pods
    Faults,     \* what may go wrong; each kind happens at most once
    MaxFaults,  \* bound on the kinds that happen in one behaviour
    None

FaultKinds == {"boot", "get", "addPeer", "delPeer", "crash"}
Backends == {"iptables", "nftables"}

ASSUME NatServerAssumption ==
    /\ Setups \subseteq [fams: (SUBSET Families) \ {{}}, backend: Backends]
    /\ AddrSets \subseteq (SUBSET Addrs) \ {{}}
    /\ Ips \in [Pods -> AddrSets \cup {{}}]
    /\ MaxChanges \in Nat /\ MaxFaults \in Nat
    /\ Faults \subseteq FaultKinds
    /\ None \notin Pods

VARIABLES
  (* the cluster *)
    pod,      \* the Pod objects
    cpod,     \* the informer cache
    events,   \* pods whose events the informer has not delivered yet
    changes,  \* bound
  (* the router pod *)
    local,    \* families of its addresses
    backend,  \* iptables or nftables
    fou,      \* tunnels, see FoU
    masq,     \* masquerade rules per family
    fib,      \* families with the rule for the table of the clients
    natDummy, \* the link that marks the end of NatServer.init
    routes,   \* clients with a route in that table
  (* the process *)
    todo,     \* what is left of the start-up
    w,        \* the goroutine at work
    ready,    \* initDone is closed
    queue,    \* keys queued for Reconcile
    podAddrs, peers,
  (* observation *)
    failed,   \* kinds of faults that have happened
    cut,      \* addresses addPod took from a pod that had them by then
    lost,     \* an event was dropped or a deletion left halfway
    left      \* addresses of tunnels nobody remembers

cluster == <<pod, cpod, events, changes>>
netns   == <<local, backend, fou, masq, fib, natDummy, routes>>
memory  == <<podAddrs, peers>>
seen    == <<cut, lost, left>>
vars    == <<cluster, netns, todo, w, ready, queue, memory, failed, seen>>

PodObject == [ips: SUBSET Addrs, done: BOOLEAN, egress: BOOLEAN]

\* A call still has to add tunnels to todo and to delete those to drop; init
\* are the pods of the initial list.
idle == [pc |-> "idle", key |-> None, ips |-> {}, todo |-> {}, drop |-> {},
         init |-> {}]

Init ==
    /\ pod = [k \in Pods |-> [ips |-> Ips[k], done |-> FALSE, egress |-> TRUE]]
    /\ cpod = pod
    /\ events = {}
    /\ changes = 0
    /\ \E s \in Setups : local = s.fams /\ backend = s.backend
    /\ fou = newNetns
    /\ masq = [f \in Families |-> 0]
    /\ fib = {}
    /\ natDummy = FALSE
    /\ routes = {}
    /\ todo = <<[op |-> "start", fam |-> "v4"]>>
    /\ w = idle
    /\ ready = FALSE
    /\ queue = {}
    /\ podAddrs = [k \in Pods |-> {}]
    /\ peers = [a \in Addrs |-> {}]
    /\ failed = {}
    /\ cut = {}
    /\ lost = FALSE
    /\ left = {}

Fails(kind) ==
    /\ kind \in Faults \ failed
    /\ Cardinality(failed) < MaxFaults
    /\ failed' = failed \cup {kind}

\* The process ends and is started again in the same namespace.
Restart ==
    /\ cpod' = pod
    /\ events' = {}
    /\ todo' = <<[op |-> "start", fam |-> "v4"]>>
    /\ w' = idle
    /\ ready' = FALSE
    /\ queue' = {}
    /\ podAddrs' = [k \in Pods |-> {}]
    /\ peers' = [a \in Addrs |-> {}]
    /\ cut' = {}
    /\ lost' = FALSE
    /\ left' = {a \in Addrs : Linked(fou', a)}

-----------------------------------------------------------------------------
(* Start-up: FoUTunnel.Init, NatServer.init *)

\* setIPTablesMasqRules appends the rule unless it is there.
setIPTablesMasqRules(f) == masq' = [masq EXCEPT ![f] = 1]

\* setNFTablesMasqRules adds it again, in one transaction.  Bound: two stand
\* for many, an init that cannot get past its FIB rule adds one every time.
setNFTablesMasqRules(f) == masq' = [masq EXCEPT ![f] = IF @ = 0 THEN 1 ELSE 2]

\* Mutant of natSteps: the mark is set first.
natStepsMarkFirst(fams) ==
    LET per(f) == <<[op |-> "masq", fam |-> f], [op |-> "fib", fam |-> f]>>
    IN  <<[op |-> "natDummy", fam |-> "v4"]>>
        \o (IF "v4" \in fams THEN per("v4") ELSE <<>>)
        \o (IF "v6" \in fams THEN per("v6") ELSE <<>>)

\* What NatServer.init does in a namespace without its link, in this order.
natSteps(fams) ==
    LET per(f) == <<[op |-> "masq", fam |-> f], [op |-> "fib", fam |-> f]>>
    IN  (IF "v4" \in fams THEN per("v4") ELSE <<>>)
        \o (IF "v6" \in fams THEN per("v6") ELSE <<>>)
        \o <<[op |-> "natDummy", fam |-> "v4"]>>

\* Mutant of bootPlan: the marks are not looked at.
bootPlanAlways ==
    InitSteps(local) \o natSteps(local) \o <<[op |-> "list", fam |-> "v4"]>>

\* subMain: each part is skipped if its mark is there already.
bootPlan ==
    (IF IsInitialized(fou) THEN <<>> ELSE InitSteps(local))
    \o (IF natDummy THEN <<>> ELSE natSteps(local))
    \o <<[op |-> "list", fam |-> "v4"]>>

BootStart ==
    /\ todo # <<>>
    /\ Head(todo).op = "start"
    /\ todo' = bootPlan
    /\ UNCHANGED <<cluster, netns, w, ready, queue, memory, failed, seen>>

\* A step of the start-up that is refused because its result is there already.
Refused(s) ==
    \/ s.op = "fou" /\ ~FouAddOK(fou, s.fam)
    \/ s.op = "fib" /\ s.fam \in fib

BootDone(s) ==
    \/ /\ s.op = "fou"
       /\ fou' = FouAdd(fou, s.fam)
       /\ UNCHANGED <<masq, fib, natDummy>>
    \/ /\ s.op = "fouDummy"
       /\ fou' = MarkInitialized(fou)
       /\ UNCHANGED <<masq, fib, natDummy>>
    \/ /\ s.op = "masq"
       /\ \/ backend = "iptables" /\ setIPTablesMasqRules(s.fam)
          \/ backend = "nftables" /\ setNFTablesMasqRules(s.fam)
       /\ UNCHANGED <<fou, fib, natDummy>>
    \/ /\ s.op = "fib"
       /\ fib' = fib \cup {s.fam}
       /\ UNCHANGED <<fou, masq, natDummy>>
    \/ /\ s.op = "natDummy"
       /\ natDummy' = TRUE
       /\ UNCHANGED <<fou, masq, fib>>

BootStep ==
    /\ todo # <<>>
    /\ ~Refused(Head(todo))
    /\ BootDone(Head(todo))
    /\ todo' = Tail(todo)
    /\ UNCHANGED <<cluster, local, backend, routes, w, ready, queue, memory,
                   failed, seen>>

\* An error ends the process, as does a kill between two steps.
BootFails ==
    /\ todo # <<>>
    /\ \/ Refused(Head(todo)) /\ UNCHANGED failed
       \/ Head(todo).op # "start" /\ Fails("boot")
    /\ UNCHANGED <<pod, changes, netns>>
    /\ Restart

-----------------------------------------------------------------------------
(* The pod watcher *)

\* isTerminated and shouldHandle.
live(p) == ~p.done
shouldHandle(p) == p.egress

\* The runnable lists the pods of the cache; Reconcile is blocked meanwhile.
InitList ==
    /\ todo # <<>>
    /\ Head(todo).op = "list"
    /\ todo' = <<>>
    /\ w' = [idle EXCEPT !.pc = "init",
               !.init = {[key |-> k, obj |-> cpod[k]] :
                           k \in {j \in Pods : cpod[j] # None /\ shouldHandle(cpod[j])}}]
    /\ UNCHANGED <<cluster, netns, ready, queue, memory, failed, seen>>

InitDone ==
    /\ w.pc = "init"
    /\ w.init = {}
    /\ ready' = TRUE
    /\ w' = idle
    /\ UNCHANGED <<cluster, netns, todo, queue, memory, failed, seen>>

\* addPod adds the addresses that are new and drops the former ones, delPeer
\* drops all it knows.
startAdd(k, p, rest) ==
    [pc |-> "add", key |-> k, ips |-> p.ips, todo |-> p.ips \ podAddrs[k],
     drop |-> podAddrs[k] \ p.ips, init |-> rest]
startDel(k, rest) ==
    [pc |-> "del", key |-> k, ips |-> {}, todo |-> {}, drop |-> podAddrs[k],
     init |-> rest]

InitNext(t) ==
    /\ w.pc = "init"
    /\ t \in w.init
    /\ w' = IF live(t.obj) THEN startAdd(t.key, t.obj, w.init \ {t})
            ELSE startDel(t.key, w.init \ {t})
    /\ UNCHANGED <<cluster, netns, todo, ready, queue, memory, failed, seen>>

\* Reconcile reads the cache: a client is added, a terminated or missing pod
\* is deleted, others are ignored.
Reconcile(k) ==
    /\ ready /\ w.pc = "idle"
    /\ k \in queue
    /\ queue' = queue \ {k}
    /\ \/ /\ cpod[k] # None /\ ~shouldHandle(cpod[k])
          /\ UNCHANGED w
       \/ /\ cpod[k] # None /\ shouldHandle(cpod[k]) /\ live(cpod[k])
          /\ w' = startAdd(k, cpod[k], {})
       \/ /\ cpod[k] # None => shouldHandle(cpod[k]) /\ ~live(cpod[k])
          /\ w' = startDel(k, {})
    /\ UNCHANGED <<cluster, netns, todo, ready, memory, failed, seen>>

\* An error of Get other than NotFound is logged and not retried.
ReconcileGetFails(k) ==
    /\ ready /\ w.pc = "idle"
    /\ k \in queue
    /\ Fails("get")
    /\ queue' = queue \ {k}
    /\ lost' = TRUE
    /\ UNCHANGED <<cluster, netns, todo, w, ready, memory, cut, left>>

\* The call is over: the next pod of the initial list, or the queue.
Finish == w' = IF ready THEN idle ELSE [idle EXCEPT !.pc = "init", !.init = w.init]

\* What a failed addPod has made is remembered by nobody until its retry.
Unremembered(t) == {a \in w.ips : Linked(t, a) /\ peers[a] = {}}

\* An error ends the process during the initial list and is retried later.
Abort(loses) ==
    \/ ~ready /\ Restart
    \/ /\ ready
       /\ w' = idle
       /\ lost' = (lost \/ loses)
       /\ left' = left \cup Unremembered(fou')
       /\ queue' = queue \cup {w.key}
       /\ UNCHANGED <<cpod, events, todo, ready, memory, cut>>

-----------------------------------------------------------------------------
(* addPod *)

\* Mutant of supported: the family is not looked at.
supportedAny(a) == TRUE

supported(a) == FamOf[a] \in local

\* AddPeer and NatServer.AddClient, which keep what is there already; an
\* address of a family the router pod lacks (ErrIPFamilyMismatch) is skipped.
AddPodPeer(a) ==
    /\ w.pc = "add"
    /\ a \in w.todo
    /\ \/ /\ supported(a)
          /\ fou' = AddPeer(fou, a, "fixed")
          /\ routes' = routes \cup {a}
       \/ /\ ~supported(a)
          /\ UNCHANGED <<fou, routes>>
    /\ w' = [w EXCEPT !.todo = @ \ {a}]
    /\ UNCHANGED <<cluster, local, backend, masq, fib, natDummy, todo, ready,
                   queue, memory, failed, seen>>

\* An error on the way, or the end of the process.
AddPodPeerFails(a) ==
    /\ w.pc = "add"
    /\ a \in w.todo
    /\ supported(a)
    /\ Fails("addPeer")
    /\ fou' \in AddPeerCutOff(fou, a, "fixed") \cup {AddPeer(fou, a, "fixed")}
    /\ Abort(FALSE) \/ Restart
    /\ UNCHANGED <<pod, changes, local, backend, masq, fib, natDummy, routes>>

\* Tunnels of former addresses are deleted, whoever else may be using them.
AddPodDrop(a) ==
    /\ w.pc = "add" /\ w.todo = {}
    /\ a \in w.drop
    /\ fou' = DelPeer(fou, a)
    /\ routes' = routes \ {a}
    /\ w' = [w EXCEPT !.drop = @ \ {a}]
    /\ cut' = IF peers[a] \ {w.key} # {} THEN cut \cup {a} ELSE cut
    /\ UNCHANGED <<cluster, local, backend, masq, fib, natDummy, todo, ready,
                   queue, memory, failed, lost, left>>

AddPodDropFails ==
    /\ w.pc = "add" /\ w.todo = {} /\ w.drop # {}
    /\ Fails("delPeer")
    /\ UNCHANGED <<pod, changes, netns>>
    /\ Abort(w.drop # podAddrs[w.key] \ w.ips)

\* The key stays among the peers of its former addresses.
AddPodDone ==
    /\ w.pc = "add" /\ w.todo = {} /\ w.drop = {}
    /\ podAddrs' = [podAddrs EXCEPT ![w.key] = w.ips]
    /\ peers' = [a \in Addrs |-> IF a \in w.ips THEN peers[a] \cup {w.key} ELSE peers[a]]
    /\ left' = left \ w.ips
    /\ Finish
    /\ UNCHANGED <<cluster, netns, todo, ready, queue, failed, cut, lost>>

-----------------------------------------------------------------------------
(* delPeer, for a pod that is gone or terminated *)

\* Mutants of existsOtherLivePeers: the other pods of the address are not
\* asked; the pod itself counts as another.
existsNoOtherLivePeers(a) == FALSE
existsAnyLivePeers(a) == Cardinality(peers[a]) > 0

existsOtherLivePeers(a) == Cardinality(peers[a]) > 1

\* Mutant of peersWithout: the entry of the address goes with the first pod.
peersWithoutAll(a) == [peers EXCEPT ![a] = {}]

peersWithout(a) == [peers EXCEPT ![a] = @ \ {w.key}]

DelPeerStep(a) ==
    /\ w.pc = "del"
    /\ a \in w.drop
    /\ w.key \in peers[a]
    /\ \/ /\ existsOtherLivePeers(a)
          /\ UNCHANGED <<fou, routes>>
       \/ /\ ~existsOtherLivePeers(a)
          /\ fou' = DelPeer(fou, a)
          /\ routes' = routes \ {a}
    /\ peers' = peersWithout(a)
    /\ w' = [w EXCEPT !.drop = @ \ {a}]
    /\ UNCHANGED <<cluster, local, backend, masq, fib, natDummy, todo, ready,
                   queue, podAddrs, failed, seen>>

\* LinkDel fails, or peers does not have the key, as after such a failure.
DelPeerFails(a) ==
    /\ w.pc = "del"
    /\ a \in w.drop
    /\ \/ w.key \notin peers[a] /\ UNCHANGED failed
       \/ w.key \in peers[a] /\ ~existsOtherLivePeers(a) /\ Fails("delPeer")
    /\ UNCHANGED <<pod, changes, netns>>
    /\ Abort(w.drop # podAddrs[w.key])

DelPeerDone ==
    /\ w.pc = "del" /\ w.drop = {}
    /\ podAddrs' = [podAddrs EXCEPT ![w.key] = {}]
    /\ Finish
    /\ UNCHANGED <<cluster, netns, todo, ready, queue, peers, failed, seen>>

-----------------------------------------------------------------------------
(* The rest of the world *)

Crash ==
    /\ todo = <<>>
    /\ Fails("crash")
    /\ UNCHANGED <<pod, changes, netns>>
    /\ Restart

Observe ==
    /\ events # {}
    /\ cpod' = pod
    /\ queue' = queue \cup events
    /\ events' = {}
    /\ UNCHANGED <<pod, changes, netns, todo, w, ready, memory, failed, seen>>

\* A change during the start-up is the same as one just before the process was
\* started: only InitList looks at the pods.
SetPod(k, p) ==
    /\ todo = <<>>
    /\ changes < MaxChanges
    /\ changes' = changes + 1
    /\ pod' = [pod EXCEPT ![k] = p]
    /\ events' = events \cup {k}
    /\ UNCHANGED <<cpod, netns, todo, w, ready, queue, memory, failed, seen>>

CreatePod(k, egress) ==
    /\ pod[k] = None
    /\ SetPod(k, [ips |-> {}, done |-> FALSE, egress |-> egress])

\* The addresses of pods that run.
InUse(k) == UNION {pod[j].ips : j \in {i \in Pods \ {k} : pod[i] # None /\ ~pod[i].done}}

\* A pod gets its addresses, and others when its sandbox is made again; those
\* of a terminated pod are free although its status still shows them.
AssignAddrs(k, ips) ==
    /\ pod[k] # None /\ ~pod[k].done
    /\ ips # pod[k].ips /\ ips \cap InUse(k) = {}
    /\ SetPod(k, [pod[k] EXCEPT !.ips = ips])

TerminatePod(k) ==
    /\ pod[k] # None /\ ~pod[k].done
    /\ SetPod(k, [pod[k] EXCEPT !.done = TRUE])

DeletePod(k) ==
    /\ pod[k] # None
    /\ SetPod(k, None)

-----------------------------------------------------------------------------

Boot == BootStart \/ BootStep \/ BootFails \/ InitList

Work ==
    \/ InitDone \/ AddPodDropFails \/ AddPodDone \/ DelPeerDone
    \/ \E t \in w.init : InitNext(t)
    \/ \E k \in Pods : Reconcile(k) \/ ReconcileGetFails(k)
    \/ \E a \in Addrs : \/ AddPodPeer(a) \/ AddPodPeerFails(a) \/ AddPodDrop(a)
                        \/ DelPeerStep(a) \/ DelPeerFails(a)

Environment ==
    \/ Crash
    \/ \E k \in Pods :
          \/ \E e \in BOOLEAN : CreatePod(k, e)
          \/ \E ips \in AddrSets : AssignAddrs(k, ips)
          \/ TerminatePod(k) \/ DeletePod(k)

Next == Boot \/ Work \/ Observe \/ Environment

\* The process runs and the informer delivers.
Fairness == WF_vars(Boot) /\ WF_vars(Work) /\ WF_vars(Observe)

Spec == Init /\ [][Next]_vars /\ Fairness

-----------------------------------------------------------------------------
(* Properties *)

\* The values the variables take; there is no tunnel of a family in which the
\* router pod has no address, and no route without its tunnel.
TypeOK ==
    /\ pod \in [Pods -> PodObject \cup {None}]
    /\ cpod \in [Pods -> PodObject \cup {None}]
    /\ events \subseteq Pods /\ queue \subseteq Pods
    /\ local \subseteq Families
    /\ fou \in Tunnels
    /\ \A a \in Addrs : Linked(fou, a) => FamOf[a] \in local
    /\ masq \in [Families -> 0 .. 2]
    /\ fib \subseteq local
    /\ routes \subseteq {a \in Addrs : Linked(fou, a)}
    /\ w.pc \in {"idle", "init", "add", "del"}
    /\ podAddrs \in [Pods -> SUBSET Addrs]
    /\ peers \in [Addrs -> SUBSET Pods]

\* A router pod that passes its readiness check can forward: the ports, the
\* masquerading and the rule of each family are in place, also when the marks
\* of an earlier process have made this one skip the set-up.
ReadyConfigured ==
    ready => /\ local \subseteq fou.ports
             /\ local \subseteq fib
             /\ \A f \in local : masq[f] > 0

Client(k) == pod[k] # None /\ live(pod[k]) /\ shouldHandle(pod[k])

Quiet == ready /\ w.pc = "idle" /\ queue = {} /\ events = {}

\* A client is served if replies are routed to it and its packets decapsulated.
Served(a) == a \in routes /\ FamOf[a] \in fou.flow

\* When the events are worked off every address of a running client has its
\* tunnel, its route and the device that decapsulates, although addresses move
\* from pod to pod while the events of both are under way and an AddPeer may
\* have left a tunnel without the device.  Exceptions: an address that addPod
\* took away from its new user, and what is lost with a dropped event or a
\* deletion that failed halfway; a restart makes all of them good.
ClientsServed ==
    Quiet /\ ~lost =>
       \A k \in Pods : Client(k) =>
          \A a \in pod[k].ips :
             FamOf[a] \in local /\ a \notin cut => Served(a)

\* delPeer finds its key among the peers of every address it is to delete, so
\* that its error returns, which no retry can mend, are reached only after a
\* deletion that failed halfway.
PeersKnowPods ==
    lost \/ w.pc = "del" \/
    \A k \in Pods : \A a \in podAddrs[k] : k \in peers[a]

\* Tunnels go with their last pod.  What stays is what a process that ended or
\* a call that failed has left behind, tunnels of addresses with a former user
\* among the peers, and those of a pod that is no client any more.
NoGarbage ==
    Quiet /\ ~lost =>
       \A a \in Addrs : Linked(fou, a) /\ a \notin left =>
          \E k \in peers[a] :
             \/ a \notin podAddrs[k]
             \/ pod[k] # None /\ (~shouldHandle(pod[k]) \/ (Client(k) /\ a \in pod[k].ips))

\* Retries and restarts do not give up: in the end the process is ready and
\* serves every running client, with the exceptions of ClientsServed, unless
\* one process was stopped between the steps of the start-up.
ServedInTheEnd ==
    <>[](\/ "boot" \in failed
         \/ ready /\ \A k \in Pods : Client(k) =>
               \A a \in pod[k].ips :
                  FamOf[a] \in local => Served(a) \/ a \in cut \/ lost)

=============================================================================
