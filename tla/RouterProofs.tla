---------------------------- MODULE RouterProofs ----------------------------
(***************************************************************************)
(* coil-router for every number of nodes and blocks, of changes and of     *)
(* faults.  Neither NoClash nor NoChangeLost is inductive: the first needs *)
(* what a sync still has to do (SyncOK), the second where the news of a    *)
(* block is at each moment, from the informer to the running sync          *)
(* (CacheOK, KnownOK).                                                     *)
(***************************************************************************)
EXTENDS Router, TLAPS

-----------------------------------------------------------------------------
(* The inductive invariant *)

NodeTable == [Nodes -> Statuses \cup {None}]
Owners == [Blocks -> Nodes \cup {None}]

\* The values the variables take; a sync that is past its first call has a map
\* of the nodes.
TypeOK ==
    /\ nodes \in NodeTable
    /\ blk \in Owners /\ cblk \in Owners
    /\ events \subseteq Blocks /\ queue \subseteq Blocks
    /\ notify \in BOOLEAN
    /\ pc \in {"select", "nodes", "blocks", "sync"}
    /\ nodeMap \in NodeTable \cup {None}
    /\ pc \in {"blocks", "sync"} => nodeMap \in NodeTable
    /\ moved \subseteq Blocks

\* The table as the running sync will leave it.
Target == (routes \ todel) \cup toadd

\* A sync neither adds two routes to one destination nor one to a destination
\* that it leaves alone.
SyncOK ==
    pc = "sync" =>
       /\ \A r, s \in toadd : r.dst = s.dst => r = s
       /\ \A r \in toadd : \A k \in routes \ todel : k.dst # r.dst

\* A change of b has not reached the loop of Start yet.
OnItsWay(b) == b \in events \/ b \in queue \/ notify

\* Blocks of which the loop knows all there is to know without the ticker.
Settled == {b \in Blocks \ moved : ~ OnItsWay(b)}

\* The cache is right about a block without an event on its way.
CacheOK == \A b \in Blocks \ events : cblk[b] = blk[b]

\* What a sync knows is right about the settled blocks at each of its stages:
\* the node it has listed, the routes it is about to leave, the routes it left.
KnownOK ==
    \A b \in Settled :
       /\ pc = "blocks" /\ blk[b] # None => nodeMap[blk[b]] = listed[blk[b]]
       /\ pc = "sync" => \A f \in FamsOf[b] :
             {r \in Target : r.dst = <<b, f>>} = Right(b, f)
       /\ pc = "select" /\ nodeMap # None => RightFor(b)

IInv == TypeOK /\ SyncOK /\ CacheOK /\ KnownOK

-----------------------------------------------------------------------------
(* The routes that a sync wants *)

\* routeMap has one route for a destination.
LEMMA RouteMapFunctional ==
  ASSUME NEW r \in routeMap, NEW s \in routeMap, r.dst = s.dst
  PROVE  r = s
<1>1. PICK b \in Blocks : r \in routesFor(b)
  BY DEF routeMap
<1>2. PICK c \in Blocks : s \in routesFor(c)
  BY DEF routeMap
<1>3. PICK f \in FamsOf[b] : r = [dst |-> <<b, f>>, gw |-> nodeMap[cblk[b]][f]]
  BY <1>1 DEF routesFor
<1>4. PICK g \in FamsOf[c] : s = [dst |-> <<c, g>>, gw |-> nodeMap[cblk[c]][g]]
  BY <1>2 DEF routesFor
<1>5. b = c /\ f = g
  BY <1>3, <1>4
<1> QED
  BY <1>3, <1>4, <1>5

\* For a settled block it is the right one.
LEMMA RouteMapRight ==
  ASSUME IInv, pc = "blocks", NEW b \in Settled, NEW f \in FamsOf[b]
  PROVE  {r \in routeMap : r.dst = <<b, f>>} = Right(b, f)
<1>1. b \in Blocks /\ cblk[b] = blk[b]
  BY DEF IInv, CacheOK, Settled, OnItsWay
<1>2. blk[b] \in Nodes \cup {None} /\ f \in Families
  BY <1>1, RouterAssumption DEF IInv, TypeOK, Owners
<1>3. {r \in routeMap : r.dst = <<b, f>>} = {r \in routesFor(b) : r.dst = <<b, f>>}
  <2>1. ASSUME NEW c \in Blocks, NEW r \in routesFor(c), r.dst = <<b, f>>
        PROVE  c = b
    <3>1. PICK g \in FamsOf[c] : r = [dst |-> <<c, g>>, gw |-> nodeMap[cblk[c]][g]]
      BY DEF routesFor
    <3> QED
      BY <2>1, <3>1
  <2> QED
    BY <1>1, <2>1 DEF routeMap
<1>4. CASE blk[b] = None
  BY <1>1, <1>3, <1>4 DEF routesFor, Right
<1>5. CASE blk[b] # None
  <2>1. nodeMap[blk[b]] = listed[blk[b]] /\ blk[b] \in Nodes
    BY <1>2, <1>5 DEF IInv, KnownOK
  <2>2. listed[blk[b]] = IF blk[b] = Self THEN None ELSE nodes[blk[b]]
    BY <2>1 DEF IInv, TypeOK, NodeTable, listed
  <2>3. CASE listed[blk[b]] = None
    BY <1>1, <1>3, <2>1, <2>2, <2>3 DEF routesFor, Right
  <2>4. CASE listed[blk[b]] # None
    <3> DEFINE n == blk[b]
    <3>1. n # Self /\ nodeMap[n] = nodes[n] /\ nodes[n] # None
      BY <2>1, <2>2, <2>4
    <3>2. routesFor(b) = {[dst |-> <<b, g>>, gw |-> nodes[n][g]] :
                             g \in {h \in FamsOf[b] : nodes[n][h] # None}}
      BY <1>1, <1>5, <3>1 DEF routesFor
    <3>3. Right(b, f) = IF nodes[n][f] = None THEN {}
                        ELSE {[dst |-> <<b, f>>, gw |-> nodes[n][f]]}
      BY <1>5, <3>1 DEF Right
    <3> HIDE DEF n
    <3>4. {r \in routesFor(b) : r.dst = <<b, f>>} =
             IF nodes[n][f] = None THEN {}
             ELSE {[dst |-> <<b, f>>, gw |-> nodes[n][f]]}
      BY <3>2
    <3> QED
      BY <1>3, <3>3, <3>4
  <2> QED
    BY <2>3, <2>4
<1> QED
  BY <1>4, <1>5

-----------------------------------------------------------------------------
(* The steps *)

\* Events become keys of the queue, and the cache is right again.
LEMMA ObserveKeeps ==
  ASSUME IInv, Observe
  PROVE  IInv'
<1>1. Settled' = Settled
  BY DEF Observe, world, Settled, OnItsWay
<1>2. TypeOK' /\ SyncOK' /\ CacheOK'
  BY DEF IInv, Observe, world, TypeOK, SyncOK, CacheOK
<1>3. KnownOK'
  BY <1>1 DEF IInv, Observe, world, KnownOK, Target, Right, RightFor, listed
<1> QED
  BY <1>2, <1>3 DEF IInv

\* A key becomes a token in the channel: nothing is settled until it is taken.
LEMMA ReconcileKeeps ==
  ASSUME IInv, NEW b \in Blocks, Reconcile(b)
  PROVE  IInv'
<1>1. Settled' = {}
  BY DEF Reconcile, sent, Settled, OnItsWay
<1> QED
  BY <1>1 DEF IInv, Reconcile, sent, world, TypeOK, SyncOK, CacheOK, KnownOK

\* The token is taken when a sync starts from its beginning.
LEMMA SyncStartKeeps ==
  ASSUME IInv, Notified \/ Tick
  PROVE  IInv'
BY DEF IInv, Notified, Tick, world, TypeOK, SyncOK, CacheOK, KnownOK

\* The Nodes are as they are listed.
LEMMA ListNodesKeeps ==
  ASSUME IInv, ListNodes
  PROVE  IInv'
<1>1. listed \in NodeTable
  BY RouterAssumption DEF IInv, TypeOK, NodeTable, listed
<1>2. listed' = listed
  BY DEF ListNodes, world, listed
<1> QED
  BY <1>1, <1>2 DEF IInv, ListNodes, world, TypeOK, SyncOK, CacheOK, KnownOK

\* What is left alone and what is added is routeMap.
LEMMA ListBlocksKeeps ==
  ASSUME IInv, ListBlocks
  PROVE  IInv'
<1>1. TypeOK' /\ CacheOK'
  BY DEF IInv, ListBlocks, world, TypeOK, CacheOK
<1>2. routes' \ todel' = routes \cap routeMap /\ toadd' = routeMap \ routes
  BY DEF ListBlocks, obsolete
<1>3. SyncOK'
  BY <1>2, RouteMapFunctional DEF SyncOK
<1>4. Target' = routeMap
  BY <1>2 DEF Target
<1>5. Settled' = Settled /\ pc' = "sync" /\ pc = "blocks"
  BY DEF ListBlocks, world, Settled, OnItsWay
<1>6. KnownOK'
  <2>1. ASSUME NEW b \in Settled, NEW f \in FamsOf[b]
        PROVE  {r \in Target' : r.dst = <<b, f>>} = Right(b, f)
    BY <1>4, <1>5, RouteMapRight
  <2>2. \A b, f : Right(b, f)' = Right(b, f)
    BY DEF ListBlocks, world, Right
  <2> QED
    BY <1>5, <2>1, <2>2 DEF KnownOK
<1> QED
  BY <1>1, <1>3, <1>6 DEF IInv

\* An obsolete route goes, the target stays.
LEMMA RouteDelKeeps ==
  ASSUME IInv, RouteDel
  PROVE  IInv'
<1>1. TypeOK' /\ CacheOK'
  BY DEF IInv, RouteDel, world, TypeOK, CacheOK
<1>2. PICK r \in todel : routes' = routes \ {r} /\ todel' = todel \ {r}
  BY DEF RouteDel
<1>3. routes' \ todel' = routes \ todel /\ toadd' = toadd
  BY <1>2 DEF RouteDel
<1>4. SyncOK'
  BY <1>3 DEF IInv, RouteDel, SyncOK
<1>5. Target' = Target /\ Settled' = Settled /\ pc = "sync" /\ pc' = "sync"
  BY <1>3 DEF RouteDel, world, Target, Settled, OnItsWay
<1>6. \A b, f : Right(b, f)' = Right(b, f)
  BY DEF RouteDel, world, Right
<1>7. KnownOK'
  BY <1>5, <1>6 DEF IInv, KnownOK
<1> QED
  BY <1>1, <1>4, <1>7 DEF IInv

\* A missing route is added, the target stays.
LEMMA RouteAddKeeps ==
  ASSUME IInv, RouteAdd
  PROVE  IInv'
<1>1. TypeOK' /\ CacheOK'
  BY DEF IInv, RouteAdd, world, TypeOK, CacheOK
<1>2. PICK r \in toadd : routes' = routes \cup {r} /\ toadd' = toadd \ {r}
  BY DEF RouteAdd
<1>3. todel = {} /\ todel' = {} /\ pc = "sync" /\ pc' = "sync"
  BY DEF RouteAdd
<1>4. SyncOK'
  BY <1>2, <1>3 DEF IInv, SyncOK
<1>5. Target' = Target /\ Settled' = Settled
  BY <1>2, <1>3 DEF RouteAdd, world, Target, Settled, OnItsWay
<1>6. \A b, f : Right(b, f)' = Right(b, f)
  BY DEF RouteAdd, world, Right
<1>7. KnownOK'
  BY <1>3, <1>5, <1>6 DEF IInv, KnownOK
<1> QED
  BY <1>1, <1>4, <1>7 DEF IInv

\* The target is reached.
LEMMA SyncDoneKeeps ==
  ASSUME IInv, SyncDone
  PROVE  IInv'
<1>1. TypeOK' /\ SyncOK' /\ CacheOK'
  BY DEF IInv, SyncDone, world, TypeOK, SyncOK, CacheOK
<1>2. Settled' = Settled /\ pc = "sync" /\ pc' = "select" /\ Target = routes'
  BY DEF SyncDone, world, Settled, OnItsWay, Target
<1>3. \A b, f : Right(b, f)' = Right(b, f)
  BY DEF SyncDone, world, Right
<1>4. KnownOK'
  BY <1>2, <1>3 DEF IInv, KnownOK, RightFor
<1> QED
  BY <1>1, <1>4 DEF IInv

\* A process that starts again has listed nothing.
LEMMA RestartKeeps ==
  ASSUME IInv, Restart, UNCHANGED world
  PROVE  IInv'
<1>1. TypeOK'
  BY DEF IInv, Restart, world, TypeOK
<1> QED
  BY <1>1 DEF IInv, Restart, world, SyncOK, CacheOK, KnownOK

\* A block that changes is on its way; the others stay as they are.
LEMMA ChangeBlockKeeps ==
  ASSUME IInv, NEW b \in Blocks, NEW n \in Nodes \cup {None}, ChangeBlock(b, n)
  PROVE  IInv'
<1>1. TypeOK' /\ SyncOK' /\ CacheOK'
  BY DEF IInv, ChangeBlock, Process, TypeOK, Owners, SyncOK, CacheOK
<1>2. \A c \in Settled' : c \in Settled /\ c # b /\ blk'[c] = blk[c]
  BY DEF IInv, TypeOK, Owners, ChangeBlock, Process, Settled, OnItsWay
<1>3. \A c \in Settled' : \A f : Right(c, f)' = Right(c, f)
  BY <1>2 DEF ChangeBlock, Right
<1>4. KnownOK'
  <2> SUFFICES ASSUME NEW c \in Settled'
               PROVE  /\ pc' = "blocks" /\ blk'[c] # None =>
                            nodeMap'[blk'[c]] = listed'[blk'[c]]
                      /\ pc' = "sync" => \A f \in FamsOf[c] :
                            {r \in Target' : r.dst = <<c, f>>} = Right(c, f)'
                      /\ pc' = "select" /\ nodeMap' # None => RightFor(c)'
    BY DEF KnownOK
  <2>1. c \in Settled /\ blk'[c] = blk[c]
    BY <1>2
  <2>2. UNCHANGED <<pc, nodeMap, listed, Target, routes>>
    BY DEF ChangeBlock, Process, listed, Target
  <2> QED
    BY <1>3, <2>1, <2>2 DEF IInv, KnownOK, RightFor
<1> QED
  BY <1>1, <1>4 DEF IInv

\* The blocks of a Node that changes have moved; the others stay as they are.
LEMMA ChangeNodeKeeps ==
  ASSUME IInv, NEW n \in Nodes, NEW s \in Statuses \cup {None}, ChangeNode(n, s)
  PROVE  IInv'
<1>1. TypeOK' /\ SyncOK' /\ CacheOK'
  BY DEF IInv, ChangeNode, Process, TypeOK, NodeTable, SyncOK, CacheOK
<1>2. \A c \in Settled' : c \in Settled /\ blk[c] \in (Nodes \ {n}) \cup {None}
  BY DEF IInv, TypeOK, Owners, ChangeNode, Process, Settled, OnItsWay
<1>3. \A m \in Nodes \ {n} : nodes'[m] = nodes[m] /\ listed'[m] = listed[m]
  BY DEF IInv, TypeOK, NodeTable, ChangeNode, listed
<1>4. ASSUME NEW c \in Settled', NEW f
      PROVE  Right(c, f)' = Right(c, f)
  <2>1. blk' = blk
    BY DEF ChangeNode
  <2>2. blk[c] = None \/ nodes'[blk[c]] = nodes[blk[c]]
    BY <1>2, <1>3
  <2> QED
    BY <2>1, <2>2 DEF Right
<1>5. KnownOK'
  <2> SUFFICES ASSUME NEW c \in Settled'
               PROVE  /\ pc' = "blocks" /\ blk'[c] # None =>
                            nodeMap'[blk'[c]] = listed'[blk'[c]]
                      /\ pc' = "sync" => \A f \in FamsOf[c] :
                            {r \in Target' : r.dst = <<c, f>>} = Right(c, f)'
                      /\ pc' = "select" /\ nodeMap' # None => RightFor(c)'
    BY DEF KnownOK
  <2>1. UNCHANGED <<blk, pc, nodeMap, Target, routes>>
    BY DEF ChangeNode, Process, Target
  <2> QED
    BY <1>2, <1>3, <1>4, <2>1 DEF IInv, KnownOK, RightFor
<1> QED
  BY <1>1, <1>5 DEF IInv

-----------------------------------------------------------------------------
(* The theorems *)

\* A router that starts on an empty cluster.
LEMMA InitIInv == Init => IInv
BY DEF Init, IInv, TypeOK, NodeTable, Owners, SyncOK, CacheOK, KnownOK

\* Every step of the informer, the reconciler, the loop and the cluster keeps the
\* invariant.
LEMMA NextIInv == IInv /\ [Next]_vars => IInv'
<1> SUFFICES ASSUME IInv, [Next]_vars PROVE IInv'
  OBVIOUS
<1>1. CASE Observe \/ Notified \/ Tick \/ \E b \in Blocks : Reconcile(b)
  BY <1>1, ObserveKeeps, SyncStartKeeps, ReconcileKeeps
<1>2. CASE RouterStep
  BY <1>2, ListNodesKeeps, ListBlocksKeeps, RouteDelKeeps, RouteAddKeeps,
     SyncDoneKeeps, RestartKeeps DEF RouterStep, SyncFails
<1>3. CASE Environment
  BY <1>3, RestartKeeps, ChangeBlockKeeps, ChangeNodeKeeps DEF Environment, Crash
<1>4. CASE UNCHANGED vars
  <2>1. TypeOK' /\ SyncOK' /\ CacheOK'
    BY <1>4 DEF IInv, vars, world, TypeOK, SyncOK, CacheOK
  <2>2. KnownOK'
    BY <1>4 DEF IInv, vars, world, KnownOK, Settled, OnItsWay, Target, Right,
       RightFor, listed
  <2> QED
    BY <2>1, <2>2 DEF IInv
<1> QED
  BY <1>1, <1>2, <1>3, <1>4 DEF Next

\* The invariant holds of coil-router.
THEOREM Invariance == Spec => []IInv
BY InitIInv, NextIInv, PTL DEF Spec

\* netlink.RouteAdd never meets another route of coil-router to the same
\* destination, which would end the process.
THEOREM RoutesNeverClash == Spec => []NoClash
<1>1. IInv => NoClash
  BY DEF IInv, SyncOK, NoClash, Clashes
<1> QED
  BY <1>1, Invariance, PTL

\* Without the help of the ticker every change of a block reaches the kernel,
\* although Notify drops tokens and the cache is read in the middle of a sync.
THEOREM ChangesArrive == Spec => []NoChangeLost
<1>1. IInv => NoChangeLost
  BY DEF IInv, KnownOK, Settled, OnItsWay, NoChangeLost
<1> QED
  BY <1>1, Invariance, PTL

=============================================================================
