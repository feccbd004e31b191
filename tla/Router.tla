------------------------------- MODULE Router -------------------------------
(***************************************************************************)
(* coil-router on one node: runners/router.go, the syncer of the kernel's  *)
(* main table (pkg/nodenet/route_syncer.go) and the reconciler that wakes  *)
(* it up (controllers/addressblock_controller.go).                         *)
(*                                                                         *)
(* AddressBlocks come from an informer cache, Nodes from the API server at *)
(* every sync.  Only block events are notified; what happens to a Node is  *)
(* noticed by the ticker.  A step ends at every API and netlink call.      *)
(***************************************************************************)
EXTENDS Integers, FiniteSets

CONSTANTS
    Nodes,      \* node names
    Self,       \* the node of this router
    Blocks,     \* names of AddressBlocks
    FamsOf,     \* address families of a block
    Statuses,   \* internal addresses a Node may report: [Families -> Addrs + None]
    MaxChanges, \* bound on changes of blocks and nodes
    MaxFaults,  \* bound on failing calls and crashes
    None

Families == {"v4", "v6"}
Addrs == (UNION {{s[f] : f \in Families} : s \in Statuses}) \ {None}

ASSUME RouterAssumption ==
    /\ Self \in Nodes
    /\ FamsOf \in [Blocks -> SUBSET Families]
    /\ \A s \in Statuses : DOMAIN s = Families
    /\ MaxChanges \in Nat /\ MaxFaults \in Nat
    /\ None \notin Nodes \cup Statuses

VARIABLES
    nodes,   \* Node objects: a status, None if the Node does not exist
    blk,     \* AddressBlocks: the node in the label, None if it does not exist
    cblk,    \* the informer cache of the blocks
    events,  \* blocks whose events the informer has not delivered yet
    queue,   \* keys queued for AddressBlockReconciler
    notify,  \* a token is in the notification channel, which holds one
    pc,      \* where router.Start is
    nodeMap, \* the Nodes as the last sync has listed them, None before the first
    todel,   \* routes the running sync still has to delete
    toadd,   \* and to add
    routes,  \* the kernel's routes with the protocol ID of coil-router
    changes, faults, \* bounds
    moved    \* observation: blocks whose owner changed as a Node after they were made

world == <<nodes, blk, changes, moved>>
vars == <<world, cblk, events, queue, notify, pc, nodeMap, todel, toadd, routes, faults>>

\* Two Nodes do not report the same address.
Unclaimed(n, s) ==
    \A m \in Nodes \ {n} : s # None /\ nodes[m] # None =>
       \A f \in Families : s[f] = None \/ nodes[m][f] # s[f]

Init ==
    /\ nodes = [n \in Nodes |-> None]
    /\ blk = [b \in Blocks |-> None]
    /\ cblk = blk
    /\ events = {}
    /\ queue = {}
    /\ notify = FALSE
    /\ pc = "select"
    /\ nodeMap = None
    /\ todel = {} /\ toadd = {}
    /\ routes = {}
    /\ changes = 0 /\ faults = 0
    /\ moved = {}

-----------------------------------------------------------------------------
(* The informer and AddressBlockReconciler *)

Observe ==
    /\ events # {}
    /\ cblk' = blk
    /\ queue' = queue \cup events
    /\ events' = {}
    /\ UNCHANGED <<world, notify, pc, nodeMap, todel, toadd, routes, faults>>

\* Mutant of sent: a channel without a buffer drops what nobody waits for.
sentUnbuffered == pc = "select"

\* The send does not block: a token that is already there stands for this one.
sent == TRUE

Reconcile(b) ==
    /\ b \in queue
    /\ queue' = queue \ {b}
    /\ notify' = (notify \/ sent)
    /\ UNCHANGED <<world, cblk, events, pc, nodeMap, todel, toadd, routes, faults>>

-----------------------------------------------------------------------------
(* router.Start *)

Notified ==
    /\ pc = "select"
    /\ notify
    /\ notify' = FALSE
    /\ pc' = "nodes"
    /\ UNCHANGED <<world, cblk, events, queue, nodeMap, todel, toadd, routes, faults>>

\* Mutant of Tick: the loop goes on without a sync.
TickIgnored == pc = "select" /\ UNCHANGED vars

Tick ==
    /\ pc = "select"
    /\ pc' = "nodes"
    /\ UNCHANGED <<world, cblk, events, queue, notify, nodeMap, todel, toadd, routes, faults>>

listed == [nodes EXCEPT ![Self] = None]

\* sync lists the Nodes at the API server ...
ListNodes ==
    /\ pc = "nodes"
    /\ nodeMap' = listed
    /\ pc' = "blocks"
    /\ UNCHANGED <<world, cblk, events, queue, notify, todel, toadd, routes, faults>>

\* A block whose node is not listed has no route, a family in which the node
\* has no address is skipped.
routesFor(b) ==
    IF cblk[b] = None \/ nodeMap[cblk[b]] = None THEN {}
    ELSE {[dst |-> <<b, f>>, gw |-> nodeMap[cblk[b]][f]] :
             f \in {g \in FamsOf[b] : nodeMap[cblk[b]][g] # None}}

routeMap == UNION {routesFor(b) : b \in Blocks}

\* Mutant of obsolete: a route is kept if its destination is wanted, through
\* whatever gateway.
obsoleteByDst == {r \in routes : \A w \in routeMap : w.dst # r.dst}

obsolete == routes \ routeMap

\* ... and the blocks in the cache; routeSyncer.Sync lists the routes.
ListBlocks ==
    /\ pc = "blocks"
    /\ todel' = obsolete
    /\ toadd' = routeMap \ routes
    /\ pc' = "sync"
    /\ UNCHANGED <<world, cblk, events, queue, notify, nodeMap, routes, faults>>

\* First the obsolete routes go,
RouteDel ==
    /\ pc = "sync"
    /\ \E r \in todel :
          /\ routes' = routes \ {r}
          /\ todel' = todel \ {r}
    /\ UNCHANGED <<world, cblk, events, queue, notify, pc, nodeMap, toadd, faults>>

Clashes(r) == \E k \in routes : k.dst = r.dst

\* then the missing ones are added.
RouteAdd ==
    /\ pc = "sync"
    /\ todel = {}
    /\ \E r \in toadd :
          /\ ~Clashes(r)
          /\ routes' = routes \cup {r}
          /\ toadd' = toadd \ {r}
    /\ UNCHANGED <<world, cblk, events, queue, notify, pc, nodeMap, todel, faults>>

SyncDone ==
    /\ pc = "sync"
    /\ todel = {} /\ toadd = {}
    /\ pc' = "select"
    /\ UNCHANGED <<world, cblk, events, queue, notify, nodeMap, todel, toadd, routes, faults>>

\* An error of any call ends Start and the process; it starts again with a
\* cache in sync, which queues every block.  The kernel keeps the routes.
Restart ==
    /\ cblk' = blk
    /\ events' = {}
    /\ queue' = {b \in Blocks : blk[b] # None}
    /\ notify' = FALSE
    /\ pc' = "select"
    /\ nodeMap' = None
    /\ todel' = {} /\ toadd' = {}

SyncFails ==
    /\ pc # "select"
    /\ \/ faults < MaxFaults /\ faults' = faults + 1
       \/ /\ pc = "sync" /\ todel = {}
          /\ \E r \in toadd : Clashes(r)
          /\ UNCHANGED faults
    /\ Restart
    /\ UNCHANGED <<world, routes>>

\* The process is killed or told to stop; a reboot loses the routes too.
Crash ==
    /\ faults < MaxFaults
    /\ faults' = faults + 1
    /\ Restart
    /\ routes' \in {routes, {}}
    /\ UNCHANGED world

-----------------------------------------------------------------------------
(* The cluster *)

Process == <<cblk, queue, notify, pc, nodeMap, todel, toadd, routes, faults>>

\* A block is made for an existing node, or deleted; a name that is free again
\* may come back with another owner.
ChangeBlock(b, n) ==
    /\ changes < MaxChanges
    /\ changes' = changes + 1
    /\ blk[b] # n
    /\ n = None \/ (blk[b] = None /\ nodes[n] # None)
    /\ blk' = [blk EXCEPT ![b] = n]
    /\ moved' = moved \ {b}
    /\ events' = events \cup {b}
    /\ UNCHANGED <<nodes, Process>>

\* A Node joins, leaves or reports other addresses.
ChangeNode(n, s) ==
    /\ changes < MaxChanges
    /\ changes' = changes + 1
    /\ nodes[n] # s
    /\ Unclaimed(n, s)
    /\ nodes' = [nodes EXCEPT ![n] = s]
    /\ moved' = moved \cup {b \in Blocks : blk[b] = n}
    /\ UNCHANGED <<blk, events, Process>>

-----------------------------------------------------------------------------

RouterStep == ListNodes \/ ListBlocks \/ RouteDel \/ RouteAdd \/ SyncDone \/ SyncFails

Environment ==
    \/ Crash
    \/ \E b \in Blocks, n \in Nodes \cup {None} : ChangeBlock(b, n)
    \/ \E n \in Nodes, s \in Statuses \cup {None} : ChangeNode(n, s)

Next ==
    \/ Observe \/ Notified \/ Tick \/ RouterStep \/ Environment
    \/ \E b \in Blocks : Reconcile(b)

\* The ticker ticks, the goroutines run, the informer delivers.
Fairness ==
    /\ WF_vars(Tick \/ Notified)
    /\ WF_vars(RouterStep)
    /\ WF_vars(Observe)
    /\ \A b \in Blocks : WF_vars(Reconcile(b))

Spec == Init /\ [][Next]_vars /\ Fairness

-----------------------------------------------------------------------------
(* Properties *)

\* The route that leads to family f of block b, if there should be one.
Right(b, f) ==
    IF blk[b] \in {None, Self} \/ nodes[blk[b]] = None
       \/ nodes[blk[b]][f] = None
    THEN {} ELSE {[dst |-> <<b, f>>, gw |-> nodes[blk[b]][f]]}

RightFor(b) ==
    \A f \in FamsOf[b] : {r \in routes : r.dst = <<b, f>>} = Right(b, f)

\* No change of a block is lost, although a notification is dropped when one is
\* waiting, the cache is read after the nodes and a sync may be under way: once
\* the events are delivered and the queue and the channel are empty, every block
\* is routed to its owner without any help of the ticker.  The ticker is needed
\* only for a Node that changed after the block was made, and for what a process
\* without blocks inherits.
NoChangeLost ==
    (/\ pc = "select" /\ ~notify /\ queue = {} /\ events = {}
     /\ nodeMap # None)
    => \A b \in Blocks \ moved : RightFor(b)

\* RouteAdd never meets a route of coil-router to the same destination through
\* another gateway, which would end the process: also not when a block changes
\* hands, a node takes over an address, or a sync was cut short.
NoClash == pc = "sync" /\ todel = {} => \A r \in toadd : ~Clashes(r)

\* Once the cluster is quiet every block is routed to its owner, and nothing
\* else is, whatever failed before (docs/cmd-coil-router.md: "each address
\* block are routed to their owning node").
RoutesConverge == <>[](\A b \in Blocks : RightFor(b))

=============================================================================
