----------------------------- MODULE NatClient -----------------------------
(***************************************************************************)
(* Egress NAT on the client side: the tunnels, policy-routing rules and    *)
(* routes coild keeps in the network namespace of one pod that uses        *)
(* egresses.  Two threads write them, one at a time under the lock of the  *)
(* container: "add", the CNI ADD of the pod (runners/coild_server.go and   *)
(* nodenet's SetupEgress), and "watch", the reconciler of Egress objects   *)
(* (controllers/egress_watcher.go and nodenet's Update).  Both run the     *)
(* NatClient of pkg/nat/netfilter/client.go.                               *)
(*                                                                         *)
(* A pod whose sandbox is made again keeps its phase, so both threads can  *)
(* meet; the watcher is only started by changes of Egress objects, and     *)
(* only looks at pods that are running.                                    *)
(***************************************************************************)
EXTENDS FoU, FiniteSets

CONSTANTS
    Egresses,     \* the Egress objects named by the annotation of the pod
    ClusterIPs,   \* the addresses of the Service of each of them
    Dests,        \* destination networks
    DestFam,      \* their families
    InCluster,    \* those inside the networks of the cluster
    Packets,      \* kinds of packets the pod sends
    LocalPackets, \* those to addresses inside the networks of the cluster
    Covers,       \* the packets a destination network contains
    NoEgress,     \* no such Egress object
    NoRoute,      \* no route to a destination
    NoNetns,      \* no sandbox
    PodFamilies,  \* the sets of families a pod may have addresses of
    Versions,     \* bound: what users write into each Egress object, the first of them
                  \* at the start
    MaxChanges,   \* bound: changes of Egress objects
    MaxFaults     \* bound: failures, restarts of coild and lost sandboxes

\* The list of destinations is its members and those it has more than once,
\* which the webhook lets pass.  Two CIDRs that only differ in the host part
\* are one destination here.
Egress == [dests: (SUBSET Dests) \ {{}}, repeated: SUBSET Dests, sport: Sports]

ASSUME NatClientAssumption ==
    /\ ClusterIPs \in [Egresses -> SUBSET Addrs]
    /\ \A e, x \in Egresses : e # x => ClusterIPs[e] \cap ClusterIPs[x] = {}
    /\ DestFam \in [Dests -> Families]
    /\ InCluster \subseteq Dests
    /\ LocalPackets \subseteq Packets
    /\ Covers \in [Dests -> SUBSET Packets]
    /\ PodFamilies \subseteq (SUBSET Families) \ {{}}
    /\ NoRoute \notin Addrs
    /\ \A e \in Egresses :
          /\ Versions[e] \in Seq(Egress)
          /\ Versions[e] # <<>>
    /\ MaxChanges \in Nat /\ MaxFaults \in Nat

VARIABLES
    egress,    \* the Egress objects
    cached,    \* the Egress objects in the cache of coild
    queue,     \* Egress objects the watcher has to look at
    origOnly,  \* --enable-originating-only of the running coild
    podFams,   \* the families the pod has addresses of
    running,   \* whether the phase of the pod is Running
    net,       \* the network namespace of the pod
    thr,       \* the two threads
    missed,    \* observation: egresses whose change the watcher let pass
    unmarked,  \* observation: families whose marks may not be as configured
    changes,   \* changes of Egress objects so far
    faults     \* faults so far

vars == <<egress, cached, queue, origOnly, podFams, running, net, thr, missed,
          unmarked, changes, faults>>

\* One tunnel to set up: what the code calls GWNets.
GWNets == [gw: Addrs, networks: SUBSET Dests, repeated: SUBSET Dests, sport: Sports]

RuleNames == {"linkLocal", "narrow", "wide", "inCluster"}
Marks == {"table", "fwmark", "connmark"}

Netns == [fou: Tunnels, rules: [Families -> SUBSET RuleNames],
          routes: [Dests -> Addrs \cup {NoRoute}],
          marks: [Families -> SUBSET Marks]]

ASSUME NetnsAssumption == NoNetns \notin Netns

Threads == {"add", "watch"}

PCs == {"idle", "getHook", "init", "next", "sync", "done", "failed"}

Thread == [pc: PCs, egs: SUBSET Egresses, gws: SUBSET GWNets, job: SUBSET GWNets,
           adds: SUBSET Dests, dels: SUBSET Dests, conf: SUBSET Families]

idle == [pc |-> "idle", egs |-> {}, gws |-> {}, job |-> {}, adds |-> {},
         dels |-> {}, conf |-> {}]

TypeOK ==
    /\ egress \in [Egresses -> Egress \cup {NoEgress}]
    /\ cached \in [Egresses -> Egress \cup {NoEgress}]
    /\ queue \subseteq Egresses
    /\ origOnly \in BOOLEAN
    /\ podFams \in PodFamilies
    /\ running \in BOOLEAN
    /\ net \in Netns \cup {NoNetns}
    /\ thr \in [Threads -> Thread]
    /\ \A t \in Threads : thr[t].conf \subseteq podFams
    /\ missed \subseteq Egresses
    /\ unmarked \subseteq Families
    /\ changes \in 0 .. MaxChanges
    /\ faults \in 0 .. MaxFaults

Init ==
    /\ egress = [e \in Egresses |-> Head(Versions[e])]
    /\ cached = egress
    /\ queue = {}
    /\ origOnly \in BOOLEAN
    /\ podFams \in PodFamilies
    /\ running = FALSE
    /\ net = NoNetns
    /\ thr = [t \in Threads |-> idle]
    /\ missed = {}
    /\ unmarked = {}
    /\ changes = 0
    /\ faults = 0

-----------------------------------------------------------------------------
(* The threads and the lock of the container.  SetupEgress holds it for    *)
(* the whole hook of a pod, Update for the hook of one tunnel.             *)

HoldsLock(t) ==
    \/ thr[t].pc = "sync"
    \/ t = "add" /\ thr[t].pc \in {"init", "next"}

LockFree(t) == \A u \in Threads \ {t} : ~HoldsLock(u)

Goto(t, pc) == thr' = [thr EXCEPT ![t].pc = pc]

Fault == faults < MaxFaults /\ faults' = faults + 1

-----------------------------------------------------------------------------
(* NatClient *)

\* Mutant of Narrow: no destination is kept behind the rules of the cluster.
NarrowAll(d) == TRUE

\* A route belongs to the wide or the narrow table.  The rules are looked up
\* in the order link-local, narrow, in-cluster, wide.
Narrow(d) == d \in InCluster

\* The rules of a family, in the order in which initRules adds them.
initRules == <<"linkLocal", "narrow", "wide", "inCluster">>

clear(n, f) ==
    [n EXCEPT !.rules[f] = {},
              !.routes = [d \in Dests |-> IF DestFam[d] = f THEN NoRoute ELSE @[d]]]

\* A namespace in which the first k rules of family f have been added.
WithRules(n, f, k) == [n EXCEPT !.rules[f] = {initRules[i] : i \in 1 .. k}]

\* The main rules are counted, one of the kernel's among them, so one that is
\* missing is not noticed.
isRuleInitialized(n, f) ==
    /\ {"narrow", "wide"} \subseteq n.rules[f]
    /\ Cardinality({"linkLocal", "inCluster"} \cap n.rules[f]) + 1 >= 2

NatInitialized(n) == \A f \in podFams : isRuleInitialized(n, f)

\* cl.Init: the rules of all the families, the tables emptied before.
InitRules(n, fams) ==
    [n EXCEPT !.rules = [f \in Families |->
                            IF f \in fams THEN {initRules[i] : i \in 1 .. Len(initRules)}
                            ELSE @[f]],
              !.routes = [d \in Dests |-> IF DestFam[d] \in fams THEN NoRoute ELSE @[d]]]

\* ft.Init, after which the dummy link marks the namespace.
InitFou(n) == [n EXCEPT !.fou = MarkInitialized([@ EXCEPT !.ports = podFams])]

\* What is left of a namespace in which the hook of ADD fails in ft.Init or in
\* cl.Init; IPv4 comes first in both.
InitCutOff(n) ==
    {[n EXCEPT !.fou.ports = fams] : fams \in {{}, podFams \cap {"v4"}, podFams}}
    \cup UNION {LET before == InitRules(InitFou(n), podFams \cap ({"v4"} \ {f}))
                IN  {WithRules(clear(before, f), f, k) : k \in 0 .. Len(initRules) - 1}
                : f \in podFams}

\* The routes of a deleted link go with it.
withoutRoutes(n, g) ==
    [n EXCEPT !.routes = [d \in Dests |-> IF @[d] = g THEN NoRoute ELSE @[d]]]

\* Tunnels after a call of AddPeer, in n with the tunnel table t.
WithTunnels(n, t, g) ==
    IF t.links[g] = n.fou.links[g] THEN [n EXCEPT !.fou = t]
    ELSE [withoutRoutes(n, g) EXCEPT !.fou = t]

collectRoutesBySubnet(n, g) == {d \in Dests : n.routes[d] = g}

\* Mutant of dels: every route of the link is made again.
delsAll(n, job) == collectRoutesBySubnet(n, job.gw)

\* Mutant of dels: routes are only added.
delsNone(n, job) == {}

\* diffRoutes takes a route off its list when it meets the destination, so that
\* the next occurrence of that destination is always among the routes to add.
dels(n, job) == collectRoutesBySubnet(n, job.gw) \ job.networks
adds(n, job) == {d \in job.networks : \/ d \notin collectRoutesBySubnet(n, job.gw)
                                      \/ d \in job.repeated}

\* RouteAdd fails if the table has a route to the destination, which is the
\* case as long as another tunnel has it, and for every occurrence of it in the
\* list but the first.
RouteAddOK(n, d) == n.routes[d] = NoRoute

\* The rules that set and restore the mark, in one transaction of nftables, and
\* their removal with the whole mangle table.
withConnmark(ms) == ms \cup {"connmark"}
withoutConnmark(ms) == ms \ {"connmark"}

\* Mutant of configureOriginatingOnly: only done for IPv4.
configureOriginatingOnly4(n, fams) ==
    [n EXCEPT !.marks["v4"] = IF "v4" \in fams \cap podFams THEN Marks ELSE @]

\* The per-link table, the rule on the mark and the rules that set the mark,
\* in this order, on eth0 and hence for the families of the pod.
configureOriginatingOnly(n, fams) ==
    [n EXCEPT !.marks = [f \in Families |->
        IF f \in fams \cap podFams THEN withConnmark(@[f] \cup {"table", "fwmark"}) ELSE @[f]]]
configureCutOff(n, fams) ==
    {[n EXCEPT !.marks = [f \in Families |-> IF f \in fams \cap podFams THEN @[f] \cup ms ELSE @[f]]]
        : ms \in {{}, {"table"}, {"table", "fwmark"}}}

\* A family whose table is empty is skipped.
removeOriginatingOnly(n, fams) ==
    [n EXCEPT !.marks = [f \in Families |->
        IF f \in fams /\ "table" \in @[f]
        THEN withoutConnmark(@[f] \ {"table", "fwmark"}) ELSE @[f]]]
removeCutOff(n) ==
    {removeOriginatingOnly(n, fams) : fams \in {{}, {"v4"}}}
    \cup UNION {LET before == removeOriginatingOnly(n, {"v4"} \ {f})
                IN  {IF "table" \in n.marks[f] THEN [before EXCEPT !.marks[f] = @ \ ms]
                     ELSE before : ms \in {{"table"}, {"table", "fwmark"}}}
                : f \in Families}

-----------------------------------------------------------------------------
(* The jobs of the hooks *)

\* getHook of ADD and getHooks of the watcher: a tunnel to every address of the
\* Service, with the destinations of its family; none if there are none.
jobsOf(e) ==
    {[gw |-> g, networks |-> {d \in cached[e].dests : DestFam[d] = FamOf[g]},
      repeated |-> cached[e].repeated, sport |-> cached[e].sport]
        : g \in {h \in ClusterIPs[e] : \E d \in cached[e].dests : DestFam[d] = FamOf[h]}}

newNet == [fou |-> newNetns, rules |-> [f \in Families |-> {}],
           routes |-> [d \in Dests |-> NoRoute], marks |-> [f \in Families |-> {}]]

-----------------------------------------------------------------------------
(* CNI ADD *)

\* The runtime makes a sandbox and calls ADD; SetupIPAM connects it.
AddStart ==
    /\ net = NoNetns
    /\ thr["add"].pc = "idle"
    /\ net' = newNet
    /\ Goto("add", "getHook")
    /\ unmarked' = {}
    /\ UNCHANGED <<egress, cached, queue, origOnly, podFams, running, missed,
                   changes, faults>>

\* getHook reads the Egress objects from the cache.  Without a tunnel to set up
\* there is no hook, and ADD is done.
AddGetHook ==
    /\ thr["add"].pc = "getHook"
    /\ \A e \in Egresses : cached[e] # NoEgress
    /\ LET jobs == UNION {jobsOf(e) : e \in Egresses}
       IN  /\ jobs # {} => LockFree("add")
           /\ thr' = [thr EXCEPT !["add"].pc = IF jobs = {} THEN "done" ELSE "init",
                                 !["add"].gws = jobs]
    /\ missed' = {}
    /\ UNCHANGED <<egress, cached, queue, origOnly, podFams, running, net,
                   unmarked, changes, faults>>

\* getHook fails for an Egress object that is not there.
AddNoEgress ==
    /\ thr["add"].pc = "getHook"
    /\ \E e \in Egresses : cached[e] = NoEgress
    /\ Goto("add", "failed")
    /\ UNCHANGED <<egress, cached, queue, origOnly, podFams, running, net, missed,
                   unmarked, changes, faults>>

AddInit ==
    /\ thr["add"].pc = "init"
    /\ net' = InitRules(InitFou(net), podFams)
    /\ Goto("add", "next")
    /\ UNCHANGED <<egress, cached, queue, origOnly, podFams, running, missed,
                   unmarked, changes, faults>>

AddDone ==
    /\ thr["add"].pc = "next"
    /\ thr["add"].gws = {}
    /\ thr' = [thr EXCEPT !["add"] = [idle EXCEPT !.pc = "done"]]
    /\ UNCHANGED <<egress, cached, queue, origOnly, podFams, running, net, missed,
                   unmarked, changes, faults>>

\* After a failed ADD the runtime calls DEL and removes the sandbox.
AddCleanUp ==
    /\ thr["add"].pc = "failed"
    /\ LockFree("add")
    /\ net' = NoNetns
    /\ thr' = [thr EXCEPT !["add"] = idle]
    /\ UNCHANGED <<egress, cached, queue, origOnly, podFams, running, missed,
                   unmarked, changes, faults>>

\* The kubelet reports a pod whose sandbox is up as running.
PodRuns ==
    /\ ~running
    /\ thr["add"].pc = "done"
    /\ running' = TRUE
    /\ UNCHANGED <<egress, cached, queue, origOnly, podFams, net, thr, missed,
                   unmarked, changes, faults>>

\* The sandbox of a pod is lost, at a reboot for instance; the kubelet makes
\* another one for the same pod.
SandboxLost ==
    /\ thr["add"].pc = "done"
    /\ LockFree("add")
    /\ Fault
    /\ net' = NoNetns
    /\ thr' = [thr EXCEPT !["add"] = idle]
    /\ UNCHANGED <<egress, cached, queue, origOnly, podFams, running, missed,
                   unmarked, changes>>

-----------------------------------------------------------------------------
(* The watcher *)

\* Reconcile of an Egress object; only running pods are looked at.
Reconcile(e) ==
    /\ thr["watch"].pc = "idle"
    /\ e \in queue
    /\ queue' = queue \ {e}
    /\ IF cached[e] # NoEgress /\ running
       THEN /\ thr' = [thr EXCEPT !["watch"] =
                          [idle EXCEPT !.pc = "next", !.egs = {e}, !.gws = jobsOf(e)]]
            /\ UNCHANGED missed
       ELSE /\ missed' = missed \cup {e}
            /\ UNCHANGED thr
    /\ UNCHANGED <<egress, cached, origOnly, podFams, running, net, unmarked,
                   changes, faults>>

\* An error puts the Egress object back into the queue.
Requeue ==
    /\ queue' = queue \cup thr["watch"].egs
    /\ thr' = [thr EXCEPT !["watch"] = idle]

\* The Service or the list of pods cannot be read.
ReconcileFails ==
    /\ thr["watch"].pc = "next"
    /\ Fault
    /\ Requeue
    /\ UNCHANGED <<egress, cached, origOnly, podFams, running, net, missed,
                   unmarked, changes>>

\* Update finds no sandbox of the pod, or one that ADD has not set up yet.
UpdateNotReady ==
    /\ thr["watch"].pc = "next"
    /\ thr["watch"].gws # {}
    /\ LockFree("watch")
    /\ net = NoNetns \/ (net # NoNetns /\ ~(IsInitialized(net.fou) /\ NatInitialized(net)))
    /\ Requeue
    /\ UNCHANGED <<egress, cached, origOnly, podFams, running, net, missed,
                   unmarked, changes, faults>>

ReconcileDone ==
    /\ thr["watch"].pc = "next"
    /\ thr["watch"].gws = {}
    /\ thr' = [thr EXCEPT !["watch"] = idle]
    /\ missed' = missed \ thr["watch"].egs
    /\ UNCHANGED <<egress, cached, queue, origOnly, podFams, running, net,
                   unmarked, changes, faults>>

-----------------------------------------------------------------------------
(* The part of the hook that both threads run, for one tunnel at a time *)

\* What a thread needs to start on a tunnel.
HookReady(t) ==
    /\ thr[t].pc = "next"
    /\ LockFree(t)
    /\ t = "watch" => /\ net # NoNetns
                      /\ IsInitialized(net.fou) /\ NatInitialized(net)

\* Mutant of supported: no ErrIPFamilyMismatch.
supportedAny(g) == TRUE

supported(g) == FamOf[g] \in podFams

\* AddPeer; the tunnel of a family the pod has no address of is skipped.
HookPeer(t) ==
    /\ HookReady(t)
    /\ \E job \in thr[t].gws :
        IF ~supported(job.gw)
        THEN /\ thr' = [thr EXCEPT ![t].gws = @ \ {job}]
             /\ UNCHANGED net
        ELSE LET n == WithTunnels(net, AddPeer(net.fou, job.gw, job.sport), job.gw)
             IN  /\ net' = n
                 /\ thr' = [thr EXCEPT
                       ![t].pc = "sync", ![t].gws = @ \ {job}, ![t].job = {job},
                       ![t].dels = dels(n, job), ![t].adds = adds(n, job),
                       ![t].conf = {}]
    /\ UNCHANGED <<egress, cached, queue, origOnly, podFams, running, missed,
                   unmarked, changes, faults>>

\* SyncNat deletes routes, then adds routes, then sees to the marks.
HookDelRoute(t) ==
    /\ thr[t].pc = "sync"
    /\ \E d \in thr[t].dels :
        /\ net' = [net EXCEPT !.routes[d] = NoRoute]
        /\ thr' = [thr EXCEPT ![t].dels = @ \ {d}]
    /\ UNCHANGED <<egress, cached, queue, origOnly, podFams, running, missed,
                   unmarked, changes, faults>>

Adding(t) == thr[t].pc = "sync" /\ thr[t].dels = {} /\ thr[t].adds # {}

\* A repeated destination is still to be added when it has been added.
HookAddRoute(t) ==
    /\ Adding(t)
    /\ \E d \in thr[t].adds, job \in thr[t].job :
        /\ RouteAddOK(net, d)
        /\ net' = [net EXCEPT !.routes[d] = job.gw]
        /\ thr' = [thr EXCEPT ![t].adds = @ \ ({d} \ job.repeated),
                              ![t].conf = @ \cup {DestFam[d]}]
    /\ UNCHANGED <<egress, cached, queue, origOnly, podFams, running, missed,
                   unmarked, changes, faults>>

Marking(t) == thr[t].pc = "sync" /\ thr[t].dels = {} /\ thr[t].adds = {}

\* The marks are set up for the families that got a route just now, or removed.
HookOrig(t) ==
    /\ Marking(t)
    /\ net' = IF origOnly THEN configureOriginatingOnly(net, thr[t].conf)
              ELSE removeOriginatingOnly(net, Families)
    /\ unmarked' = IF origOnly THEN unmarked \ thr[t].conf ELSE unmarked
    /\ thr' = [thr EXCEPT ![t].pc = "next", ![t].job = {}, ![t].conf = {}]
    /\ UNCHANGED <<egress, cached, queue, origOnly, podFams, running, missed,
                   changes, faults>>

\* Mutant of HookError: the watcher logs the error and goes on.
HookErrorLogged(t) ==
    /\ thr' = [thr EXCEPT ![t] = IF t = "add" THEN [@ EXCEPT !.pc = "failed"] ELSE idle]
    /\ UNCHANGED queue

\* An error of the hook is the error of ADD, or makes the watcher try again.
HookError(t) ==
    IF t = "add"
    THEN Goto("add", "failed") /\ UNCHANGED queue
    ELSE Requeue

\* What thread t leaves of the namespace if it is stopped in its present step.
CutOff(t) ==
    CASE thr[t].pc = "init" -> InitCutOff(net)
      [] thr[t].pc = "next" /\ HookReady(t) ->
            {net} \cup UNION {{WithTunnels(net, u, job.gw)
                                 : u \in AddPeerCutOff(net.fou, job.gw, job.sport)}
                              : job \in {j \in thr[t].gws : supported(j.gw)}}
      [] Marking(t) ->
            IF origOnly THEN configureCutOff(net, thr[t].conf) ELSE removeCutOff(net)
      [] OTHER -> {net}

\* Families for which the marks are then not as they should be.
CutOffMarks(t) ==
    IF origOnly THEN thr[t].conf ELSE IF Marking(t) THEN Families ELSE {}

\* RouteAdd fails, the destination being routed already.
HookRouteExists(t) ==
    /\ Adding(t)
    /\ \E d \in thr[t].adds : ~RouteAddOK(net, d)
    /\ HookError(t)
    /\ unmarked' = unmarked \cup CutOffMarks(t)
    /\ UNCHANGED <<egress, cached, origOnly, podFams, running, net, missed,
                   changes, faults>>

\* A call to the kernel or, in getHook, to the cache fails.
HookFails(t) ==
    /\ Fault
    /\ \/ thr[t].pc \in {"getHook", "init", "sync"}
       \/ HookReady(t) /\ thr[t].gws # {}
    /\ net' \in CutOff(t)
    /\ unmarked' = unmarked \cup CutOffMarks(t)
    /\ HookError(t)
    /\ UNCHANGED <<egress, cached, origOnly, podFams, running, missed, changes>>

-----------------------------------------------------------------------------
(* The environment *)

\* Users change and delete Egress objects; the cache follows later.
ChangeEgress(e) ==
    /\ egress[e] # NoEgress
    /\ changes < MaxChanges
    /\ \E s \in {Versions[e][i] : i \in DOMAIN Versions[e]} \cup {NoEgress} :
        s # egress[e] /\ egress' = [egress EXCEPT ![e] = s]
    /\ changes' = changes + 1
    /\ UNCHANGED <<cached, queue, origOnly, podFams, running, net, thr, missed,
                   unmarked, faults>>

Observe(e) ==
    /\ cached[e] # egress[e]
    /\ cached' = [cached EXCEPT ![e] = egress[e]]
    /\ queue' = queue \cup {e}
    /\ UNCHANGED <<egress, origOnly, podFams, running, net, thr, missed, unmarked,
                   changes, faults>>

\* Families with a route through a tunnel.
routedFams ==
    IF net = NoNetns THEN {}
    ELSE {DestFam[d] : d \in {c \in Dests : net.routes[c] # NoRoute}}

\* coild is restarted, possibly with another flag: ADD in progress fails, and
\* every Egress object is looked at.
Restart ==
    /\ Fault
    /\ origOnly' \in BOOLEAN
    /\ cached' = egress
    /\ queue' = {e \in Egresses : egress[e] # NoEgress}
    /\ thr' = [t \in Threads |->
                 IF t = "watch" THEN idle
                 ELSE IF thr[t].pc \in {"idle", "done", "failed"} THEN thr[t]
                 ELSE [idle EXCEPT !.pc = "failed"]]
    /\ \/ /\ \E t \in Threads : HoldsLock(t) /\ net' \in CutOff(t)
       \/ /\ \A t \in Threads : ~HoldsLock(t)
          /\ UNCHANGED net
    /\ unmarked' = unmarked \cup (UNION {CutOffMarks(t) : t \in Threads})
                            \cup (IF origOnly' THEN routedFams ELSE {})
    /\ UNCHANGED <<egress, podFams, running, missed, changes>>

-----------------------------------------------------------------------------

AddNext ==
    \/ AddStart \/ AddGetHook \/ AddNoEgress \/ AddInit \/ AddDone \/ AddCleanUp
    \/ HookPeer("add") \/ HookDelRoute("add") \/ HookAddRoute("add") \/ HookRouteExists("add")
    \/ HookOrig("add")

WatchNext ==
    \/ UpdateNotReady \/ ReconcileDone
    \/ HookPeer("watch") \/ HookDelRoute("watch") \/ HookAddRoute("watch")
    \/ HookRouteExists("watch") \/ HookOrig("watch")

Next ==
    \/ AddNext \/ WatchNext
    \/ PodRuns \/ SandboxLost \/ ReconcileFails
    \/ \E e \in Egresses : Reconcile(e) \/ ChangeEgress(e) \/ Observe(e)
    \/ \E t \in Threads : HookFails(t)
    \/ Restart

\* coild runs its threads and retries; the runtime retries ADD and reports the
\* pod; the API server sends every change.
Spec ==
    /\ Init /\ [][Next]_vars
    /\ WF_vars(AddNext) /\ WF_vars(WatchNext) /\ WF_vars(PodRuns)
    /\ \A e \in Egresses : SF_vars(Reconcile(e)) /\ WF_vars(Observe(e))

-----------------------------------------------------------------------------
(* Properties *)

Wanted(e, g) == {d \in egress[e].dests : DestFam[d] = FamOf[g]}

\* Nothing is left to do for anybody.
Quiet ==
    /\ queue = {} /\ cached = egress /\ running
    /\ thr["watch"].pc = "idle" /\ thr["add"].pc = "done"

Owned == {p \in Egresses \X Addrs :
             /\ egress[p[1]] # NoEgress
             /\ p[2] \in ClusterIPs[p[1]] /\ FamOf[p[2]] \in podFams
             /\ Wanted(p[1], p[2]) # {}}

\* Once all changes are processed, the pod sends exactly the destinations of an
\* egress through its tunnels, from the right source port, however ADD, the
\* reconciler, failures, restarts and new sandboxes interleaved (SyncNat, Hook,
\* reconcileEgressClient).  Two exceptions belong to the code: a change the
\* watcher saw before the pod was Running is lost, and a tunnel without a
\* destination of its family is left as it was.
RoutesAsSpecified ==
    Quiet => \A p \in Owned : p[1] \notin missed =>
                /\ collectRoutesBySubnet(net, p[2]) = Wanted(p[1], p[2])
                /\ net.fou.links[p[2]] = egress[p[1]].sport

\* The table in which a packet is looked up last: the rules in the order of
\* their priorities.
Tunnelled(f, p) ==
    LET routed(narrow) == \E d \in Dests : /\ DestFam[d] = f /\ Narrow(d) = narrow
                                           /\ net.routes[d] # NoRoute /\ p \in Covers[d]
    IN  \/ "narrow" \in net.rules[f] /\ routed(TRUE)
        \/ /\ ~("inCluster" \in net.rules[f] /\ p \in LocalPackets)
           /\ "wide" \in net.rules[f] /\ routed(FALSE)

\* A packet to an address inside the cluster goes through a tunnel only if a
\* destination inside the cluster names it, never because of a default
\* destination (initRules, addRoute).
ClusterTrafficStays ==
    net # NoNetns /\ thr["add"].pc # "failed" =>
        \A f \in Families, p \in LocalPackets :
            Tunnelled(f, p) => \E d \in InCluster : net.routes[d] # NoRoute /\ p \in Covers[d]

\* Once all changes are processed, connections from outside are answered past
\* the tunnels if and only if the flag is set.  Not after a failure between the
\* routes and the marks, and not in pods that had routes when the flag was set:
\* only a new route makes the code look (SyncNat).
MarksFollowFlag ==
    Quiet /\ (\E p \in Owned : p[1] \notin missed) =>
        \A f \in podFams \ unmarked :
            IF origOnly THEN f \in routedFams => net.marks[f] = Marks
            ELSE net.marks[f] = {}

\* An update takes no route away that every version of the Egress object in
\* sight has, except with the tunnel it goes through (diffRoutes).
KeepsRoutes ==
    [][net # NoNetns /\ net' # NoNetns =>
        \A e \in Egresses, d \in Dests :
            \A g \in ClusterIPs[e] :
                /\ net.routes[d] = g
                /\ egress[e] # NoEgress /\ d \in egress[e].dests
                /\ cached[e] # NoEgress /\ d \in cached[e].dests
                /\ \A t \in Threads : \A j \in thr[t].gws \cup thr[t].job :
                        j.gw = g => d \in j.networks
                => net'.routes[d] = g \/ net'.fou.links[g] # net.fou.links[g]]_vars

\* What no retry can cure: a destination that an Egress object names twice, a
\* destination of two egresses, a route left behind by an egress that has no
\* other destination of the family, or whose change was lost, a pod that had no
\* tunnel when it was added, an Egress object that is gone when ADD needs it.
Unsatisfiable ==
    \/ \E p \in Owned : Wanted(p[1], p[2]) \cap egress[p[1]].repeated # {}
    \/ \E p, q \in Owned : p # q /\ Wanted(p[1], p[2]) \cap Wanted(q[1], q[2]) # {}
    \/ /\ net # NoNetns
       /\ \E p \in Owned : \E d \in Wanted(p[1], p[2]) :
            /\ net.routes[d] \notin {NoRoute, p[2]}
            /\ \A q \in Owned : q[2] = net.routes[d] => q[1] \in missed
    \/ thr["add"].pc = "done" /\ ~IsInitialized(net.fou)
    \/ thr["add"].pc # "done" /\ \E e \in Egresses : egress[e] = NoEgress

\* When the changes and the failures end, the pod gets to run and the reconciler
\* gets to the end of its work: retries in either order take a destination from
\* one egress to another.
Settles == <>[](Quiet \/ Unsatisfiable)

=============================================================================
