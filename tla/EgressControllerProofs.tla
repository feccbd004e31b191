----------------------- MODULE EgressControllerProofs -----------------------
(***************************************************************************)
(* coil-egress-controller for every set of Egress objects, every number of *)
(* changes and faults, and any lag of the caches.                          *)
(*                                                                         *)
(* EgressAsSpecified speaks of quiet states only and is far from           *)
(* inductive.  What the code relies on is that each object that is not as  *)
(* the reconciler last saw it has an event on its way or a place in a      *)
(* queue, or the worker has yet to come to it (SettledOK).                 *)
(***************************************************************************)
EXTENDS EgressController, WellFoundedInduction, FiniteSetTheorems, TLAPS

-----------------------------------------------------------------------------
(* Sorting *)

\* A non-empty set of naturals has a least element.
LEMMA LeastNat ==
  ASSUME NEW S \in SUBSET Nat, S # {}
  PROVE  \E x \in S : \A y \in S : x <= y
<1> DEFINE LT == {ss \in Nat \X Nat : ss[1] < ss[2]}
<1>1. IsWellFoundedOn(LT, Nat)
  BY NatLessThanWellFounded, Zenon DEF OpToRel
<1> HIDE DEF LT
<1>2. PICK x \in S : \A y \in S : ~ (<<y, x>> \in LT)
  BY <1>1, WFMin, Zenon
<1>3. ASSUME NEW y \in S
      PROVE  x <= y
  <2>1. <<y, x>> \in Nat \X Nat
    OBVIOUS
  <2>2. y < x => <<y, x>> \in LT
    BY <2>1 DEF LT
  <2> QED
    BY <1>2, <2>2
<1> QED
  BY <1>3

\* A finite set of naturals is bounded.
LEMMA FiniteIsBounded ==
  ASSUME NEW S \in SUBSET Nat, IsFiniteSet(S)
  PROVE  \E m \in Nat : \A x \in S : x < m
<1> DEFINE Bounded(A) == \E m \in Nat : \A x \in A : x < m
           T == {n \in Nat : \E A \in SUBSET Nat :
                    IsFiniteSet(A) /\ Cardinality(A) = n /\ ~Bounded(A)}
<1>1. SUFFICES ASSUME ~Bounded(S) PROVE FALSE
  OBVIOUS
<1>2. Cardinality(S) \in T
  BY <1>1, FS_CardinalityType
<1>3. PICK n \in T : \A y \in T : n <= y
  <2>1. T \in SUBSET Nat /\ T # {}
    BY <1>2
  <2> HIDE DEF T
  <2> QED
    BY <2>1, LeastNat
<1>4. PICK A \in SUBSET Nat : IsFiniteSet(A) /\ Cardinality(A) = n /\ ~Bounded(A)
  OBVIOUS
<1>5. PICK x \in A : x >= 0
  BY <1>4
<1> DEFINE B == A \ {x}
<1>6. IsFiniteSet(B) /\ Cardinality(B) = n - 1 /\ B \in SUBSET Nat
  BY <1>4, <1>5, FS_RemoveElement
<1>7. n \in Nat /\ n - 1 \in Nat
  BY <1>6, FS_CardinalityType
<1>8. Bounded(B)
  BY <1>3, <1>6, <1>7
<1>9. PICK m \in Nat : \A y \in B : y < m
  BY <1>8
<1>10. \A y \in A : y < m + x + 1
  BY <1>5, <1>9
<1>11. x \in Nat /\ m + x + 1 \in Nat
  BY <1>5, <1>9
<1> QED
  BY <1>4, <1>10, <1>11

\* s lists the members of S in increasing order.
Lists(s, S) ==
    /\ s \in [1 .. Cardinality(S) -> S]
    /\ \A x \in S : \E i \in 1 .. Cardinality(S) : s[i] = x
    /\ \A i, j \in 1 .. Cardinality(S) : i < j => s[i] < s[j]

\* Every finite set of naturals can be listed: by a least bound of a set that
\* cannot, whose greatest possible member comes last.
LEMMA ListExists ==
  ASSUME NEW S \in SUBSET Nat, IsFiniteSet(S)
  PROVE  \E s : Lists(s, S)
<1> DEFINE Bad(A, m) == (\A x \in A : x < m) /\ ~ \E s : Lists(s, A)
           T == {m \in Nat : \E A \in SUBSET Nat : IsFiniteSet(A) /\ Bad(A, m)}
<1>1. SUFFICES ASSUME ~ \E s : Lists(s, S) PROVE FALSE
  OBVIOUS
<1>2. PICK m0 \in Nat : \A x \in S : x < m0
  BY FiniteIsBounded
<1>3. m0 \in T
  BY <1>1, <1>2
<1>4. PICK m \in T : \A y \in T : m <= y
  <2>1. T \in SUBSET Nat /\ T # {}
    BY <1>3
  <2> HIDE DEF T
  <2> QED
    BY <2>1, LeastNat
<1>5. PICK A \in SUBSET Nat : IsFiniteSet(A) /\ Bad(A, m)
  OBVIOUS
<1>6. A # {}
  <2>1. SUFFICES ASSUME A = {} PROVE FALSE
    OBVIOUS
  <2>2. Cardinality(A) = 0
    BY <2>1, FS_EmptySet
  <2>3. Lists([i \in 1 .. 0 |-> 0], A)
    BY <2>1, <2>2 DEF Lists
  <2> QED
    BY <2>3, <1>5
<1>7. m \in Nat /\ m # 0
  <2>1. PICK x \in A : x < m
    BY <1>5, <1>6
  <2> QED
    BY <2>1
<1> DEFINE B == A \ {m - 1}
<1>8. IsFiniteSet(B) /\ B \in SUBSET Nat
      /\ Cardinality(B) = IF m - 1 \in A THEN Cardinality(A) - 1 ELSE Cardinality(A)
  BY <1>5, FS_RemoveElement
<1>9. \A x \in B : x < m - 1
  BY <1>5, <1>7
<1>10. m - 1 \in Nat /\ m - 1 \notin T
  <2>1. m - 1 \in Nat /\ ~ m <= m - 1
    BY <1>7
  <2> HIDE DEF T
  <2> QED
    BY <1>4, <2>1
<1> HIDE DEF B
<1>11. PICK s : Lists(s, B)
  BY <1>8, <1>9, <1>10
<1>12. m - 1 \in A
  BY <1>5, <1>11 DEF B
<1> DEFINE n == Cardinality(B)
           t == [i \in 1 .. n + 1 |-> IF i = n + 1 THEN m - 1 ELSE s[i]]
<1>13. n \in Nat /\ Cardinality(A) = n + 1
  BY <1>8, <1>12, <1>5, FS_CardinalityType
<1> HIDE DEF n
<1>14. s \in [1 .. n -> B] /\ (\A x \in B : \E i \in 1 .. n : s[i] = x)
       /\ \A i, j \in 1 .. n : i < j => s[i] < s[j]
  BY <1>11 DEF Lists, n
<1>15. t \in [1 .. n + 1 -> A]
  BY <1>12, <1>13, <1>14 DEF B
<1>16. \A x \in A : \E i \in 1 .. n + 1 : t[i] = x
  <2>1. SUFFICES ASSUME NEW x \in A PROVE \E i \in 1 .. n + 1 : t[i] = x
    OBVIOUS
  <2>2. CASE x = m - 1
    BY <2>2, <1>13
  <2>3. CASE x \in B
    <3>1. PICK i \in 1 .. n : s[i] = x
      BY <2>3, <1>14
    <3> QED
      BY <3>1, <1>13
  <2> QED
    BY <2>2, <2>3 DEF B
<1>17. \A i, j \in 1 .. n + 1 : i < j => t[i] < t[j]
  BY <1>9, <1>13, <1>14
<1>18. Lists(t, A)
  BY <1>13, <1>15, <1>16, <1>17 DEF Lists
<1> QED
  BY <1>5, <1>18

\* What sort.Strings returns.
LEMMA SortedLists ==
  ASSUME NEW S \in SUBSET Nat, IsFiniteSet(S)
  PROVE  Lists(Sorted(S), S)
BY ListExists DEF Sorted, Lists

\* The namespaces of some Egress objects, sorted, are a list of subjects in
\* order that leaves out none.
LEMMA NamespacesSorted ==
  ASSUME NEW S \in SUBSET Egresses
  PROVE  LET s == Sorted({NsOf[e] : e \in S})
         IN  /\ s \in Seq(Namespaces)
             /\ \A i, j \in 1 .. Len(s) : i < j => s[i] < s[j]
             /\ \A e \in S : \E i \in DOMAIN s : s[i] = NsOf[e]
<1> DEFINE T == {NsOf[e] : e \in S}
           f == [e \in S |-> NsOf[e]]
           s == Sorted(T)
           n == Cardinality(T)
<1>1. T \in SUBSET Nat /\ T \in SUBSET Namespaces
  BY EgressControllerAssumption DEF Namespaces
<1>2. IsFiniteSet(S)
  BY EgressControllerAssumption, FS_Subset
<1>3. f \in Surjection(S, T)
  BY DEF Surjection
<1>4. IsFiniteSet(T)
  BY <1>2, <1>3, FS_Surjection
<1>5. \A e \in S : NsOf[e] \in T
  OBVIOUS
<1> HIDE DEF T, f
<1>6. Lists(s, T) /\ n \in Nat
  BY <1>1, <1>4, SortedLists, FS_CardinalityType
<1> HIDE DEF s, n
<1>7. s \in [1 .. n -> T] /\ (\A x \in T : \E i \in 1 .. n : s[i] = x)
      /\ \A i, j \in 1 .. n : i < j => s[i] < s[j]
  BY <1>6 DEF Lists, n
<1>8. s \in Seq(Namespaces) /\ Len(s) = n /\ DOMAIN s = 1 .. n
  <2>1. s \in [1 .. n -> Namespaces]
    BY <1>1, <1>7
  <2> QED
    BY <1>6, <2>1
<1>9. \A e \in S : \E i \in DOMAIN s : s[i] = NsOf[e]
  BY <1>5, <1>7, <1>8
<1>10. s = Sorted({NsOf[e] : e \in S})
  BY DEF s, T
<1> QED
  BY <1>7, <1>8, <1>9, <1>10

-----------------------------------------------------------------------------
(* The objects that the reconciler makes *)

\* What users write into an Egress object.
LEMMA VersionsTyped ==
  ASSUME NEW e \in Egresses
  PROVE  /\ \A i \in DOMAIN Versions[e] : Versions[e][i] \in Specs
         /\ Head(Versions[e]) \in Specs
<1> DEFINE V == {s \in Specs : Valid(s)}
<1>1. Versions \in [Egresses -> Seq(V)] /\ Versions[e] # <<>>
  BY EgressControllerAssumption
<1>2. V \subseteq Specs
  OBVIOUS
<1> HIDE DEF V
<1>3. Versions[e] \in Seq(V)
  BY <1>1
<1> QED
  BY <1>1, <1>2, <1>3

\* The function given to CreateOrUpdate makes an object that has what the Egress
\* object asks for; the owner is set in a new object only.
LEMMA DesiredMade ==
  ASSUME NEW k \in Kinds, NEW cur \in Child \cup {None}, NEW eg \in Egress
  PROVE  LET o == desired(k, cur, eg)
         IN  /\ o \in Child
             /\ o.owner = IF cur # None THEN cur.owner ELSE eg.uid
             /\ eg.spec.opts \cap OptsOf[k] \subseteq o.opts
             /\ k = "deployment" =>
                   /\ o.replicas = eg.spec.replicas
                   /\ "template" \in o.opts => "template" \in eg.spec.opts
<1> DEFINE old == IF cur # None THEN cur
                  ELSE [owner |-> eg.uid, replicas |-> 0, available |-> 0, opts |-> {}]
<1>1. /\ eg.spec \in Specs /\ eg.uid \in Nat
      /\ eg.spec.replicas \in Nat /\ eg.spec.opts \in SUBSET Options
  BY DEF Egress, Specs
<1>2. old \in Child /\ old.owner = IF cur # None THEN cur.owner ELSE eg.uid
  BY <1>1 DEF Child
<1>3. desired(k, cur, eg) =
         CASE k = "deployment" -> desiredDeployment(old, eg)
           [] k = "service" -> desiredService(old, eg)
           [] k = "pdb" -> desiredPDB(old, eg)
  BY DEF desired
<1>4. Options = {"strategy", "annotations", "template", "affinityConfig",
                 "minAvailable", "maxUnavailable"}
  BY DEF Options, OptsOf, Kinds
<1> HIDE DEF old
<1>5. CASE k = "deployment"
  <2> DEFINE os == ((old.opts \cup eg.spec.opts) \cap {"strategy"}) \cup podTemplate(old.opts, eg)
  <2>1. desired(k, cur, eg) = [old EXCEPT !.replicas = eg.spec.replicas, !.opts = os]
    BY <1>2, <1>3, <1>5 DEF desiredDeployment
  <2>2. os \in SUBSET Options /\ eg.spec.opts \cap OptsOf[k] \subseteq os
        /\ ("template" \in os => "template" \in eg.spec.opts)
    BY <1>1, <1>2, <1>4, <1>5 DEF podTemplate, OptsOf, Child
  <2> HIDE DEF os
  <2> QED
    BY <1>1, <1>2, <1>5, <2>1, <2>2 DEF Child
<1>6. CASE k = "service"
  <2> DEFINE os == old.opts \cup (eg.spec.opts \cap OptsOf["service"])
  <2>1. desired(k, cur, eg) = [old EXCEPT !.opts = os]
    BY <1>2, <1>3, <1>6 DEF desiredService
  <2>2. os \in SUBSET Options /\ eg.spec.opts \cap OptsOf[k] \subseteq os
    BY <1>1, <1>2, <1>6 DEF Child
  <2> HIDE DEF os
  <2> QED
    BY <1>1, <1>2, <1>6, <2>1, <2>2 DEF Child
<1>7. CASE k = "pdb"
  <2> DEFINE os == old.opts \cup (eg.spec.opts \cap OptsOf["pdb"])
  <2>1. desired(k, cur, eg) = [old EXCEPT !.opts = os]
    BY <1>2, <1>3, <1>7 DEF desiredPDB
  <2>2. os \in SUBSET Options /\ eg.spec.opts \cap OptsOf[k] \subseteq os
    BY <1>1, <1>2, <1>7 DEF Child
  <2> HIDE DEF os
  <2> QED
    BY <1>1, <1>2, <1>7, <2>1, <2>2 DEF Child
<1> QED
  BY <1>5, <1>6, <1>7 DEF Kinds

-----------------------------------------------------------------------------
(* The invariant *)

\* The worker is at the Egress object e, at one of the steps P.
At(e, P) == work.pc \in P /\ work.name = e

\* The steps up to the one that writes a binding, and those after it.
UpTo(b) == IF b = "coil-egress" THEN {"sa", "crb"} ELSE {"sa", "crb", "psp"}
Past(b) == {"crb", "psp", "children", "status"} \ UpTo(b)

\* A cached object is the current one unless an event is on its way.
CacheOK ==
    /\ \A e \in Egresses : <<"egress", e>> \in lag \/ cache.egress[e] = api.egress[e]
    /\ \A k \in Kinds, e \in Detailed : <<k, e>> \in lag \/ cache.child[k][e] = api.child[k][e]
    /\ \A b \in Bindings : <<"crb", b>> \in lag \/ cache.crb[b] = api.crb[b]
    /\ cache.sa \subseteq api.sa

\* The steps of the worker: the Egress objects whose own objects are not looked
\* at have only the bindings; the service account is made first; and the worker
\* has the current Egress object unless it will see a later one.
WorkOK ==
    /\ work.pc \in {"sa", "children", "status"} => work.name \in Detailed
    /\ work.pc \in {"crb", "psp", "children", "status"} /\ work.name \in Detailed
          => NsOf[work.name] \in api.sa
    /\ work.pc # "idle" => \/ <<"egress", work.name>> \in lag
                           \/ work.name \in queue
                           \/ work.eg = api.egress[work.name]

\* The worker is at e and its Egress object is the one that the API server has,
\* not a successor of the same name.
SameEgress(e) ==
    /\ At(e, PCs \ {"idle"})
    /\ Present(api, e)
    /\ api.egress[e].uid = work.eg.uid

\* Incarnations are numbered by the changes so far, so an Egress object that is
\* made again is never the one of the worker.
UidOK ==
    \A e \in Detailed :
        /\ Present(api, e) => api.egress[e].uid <= changes
        /\ Present(cache, e) => cache.egress[e].uid <= changes
        /\ At(e, PCs \ {"idle"}) => work.eg.uid <= changes
        /\ SameEgress(e) => Present(cache, e)

\* The namespace of e is a subject of b, or crbReconciler will look at b.
Covered(e, b) ==
    \/ <<"crb", b>> \in lag
    \/ b \in bqueue
    \/ \E i \in DOMAIN api.crb[b] : api.crb[b][i] = NsOf[e]

\* The worker has seen to the bindings behind it.
BoundOK ==
    \A e \in Detailed, b \in Bindings : SameEgress(e) /\ At(e, Past(b)) => Covered(e, b)

\* No event of the Egress object e is on its way or queued.
Seen(e) == Present(api, e) /\ <<"egress", e>> \notin lag /\ e \notin queue

\* An object of e has what e asks for.
AsWanted(k, e) ==
    Wanted(k, api.egress[e]) =>
        /\ api.child[k][e] # None
        /\ api.egress[e].spec.opts \cap OptsOf[k] \subseteq api.child[k][e].opts
        /\ k = "deployment" =>
              /\ api.child[k][e].replicas = api.egress[e].spec.replicas
              /\ "template" \in api.child[k][e].opts => "template" \in api.egress[e].spec.opts

\* The bindings, the service account, the objects and the status of e are as
\* they should be, or the worker has yet to come to them, or an event of the
\* object in question is on its way.
BindingsDone(e) == \A b \in Bindings : At(e, UpTo(b)) \/ Covered(e, b)
AccountDone(e) == At(e, {"sa"}) \/ NsOf[e] \in api.sa
ChildDone(k, e) ==
    \/ At(e, {"sa", "crb", "psp", "children"})
    \/ <<k, e>> \in lag
    \/ AsWanted(k, e)
StatusDone(e) ==
    \/ At(e, PCs \ {"idle"})
    \/ <<"deployment", e>> \in lag
    \/ StatusTrue(e)

SettledOK ==
    /\ \A e \in Egresses : Seen(e) => BindingsDone(e)
    /\ \A e \in Detailed : Seen(e) =>
          AccountDone(e) /\ StatusDone(e) /\ \A k \in Kinds : ChildDone(k, e)

IInv == TypeOK /\ CacheOK /\ WorkOK /\ UidOK /\ BoundOK /\ SettledOK

-----------------------------------------------------------------------------
(* Steps that write *)

InOrder(s) == \A i, j \in 1 .. Len(s) : i < j => s[i] < s[j]

\* What a step does that leaves the caches alone: it writes objects whose events
\* are then on their way, and an Egress object that was not there has a new uid.
ApiStep ==
    /\ api' \in Objects /\ cache' = cache
    /\ \A b \in Bindings : InOrder(api'.crb[b])
    /\ lag \subseteq lag' /\ lag' \subseteq Ids
    /\ \A e \in Egresses : <<"egress", e>> \in lag' \/ api'.egress[e] = api.egress[e]
    /\ \A k \in Kinds, e \in Detailed : <<k, e>> \in lag' \/ api'.child[k][e] = api.child[k][e]
    /\ \A b \in Bindings : <<"crb", b>> \in lag' \/ api'.crb[b] = api.crb[b]
    /\ api.sa \subseteq api'.sa
    /\ changes' \in Nat /\ changes <= changes'
    /\ \A e \in Detailed : Present(api', e) =>
          \/ Present(api, e) /\ api'.egress[e].uid = api.egress[e].uid
          \/ changes < api'.egress[e].uid /\ api'.egress[e].uid <= changes'

\* A step that writes nothing.
LEMMA NothingWritten ==
  ASSUME TypeOK, NoWrite, cache' = cache, changes' \in Nat, changes <= changes'
  PROVE  ApiStep
BY DEF TypeOK, NoWrite, ApiStep, InOrder, Present

\* A write of an Egress object.
LEMMA EgressWritten ==
  ASSUME TypeOK, cache' = cache, changes' \in Nat, changes <= changes',
         NEW e \in Egresses, NEW o \in Egress \cup {None},
         Write([api EXCEPT !.egress[e] = o], <<"egress", e>>),
         e \in Detailed /\ o # None =>
             \/ Present(api, e) /\ o.uid = api.egress[e].uid
             \/ changes < o.uid /\ o.uid <= changes'
  PROVE  ApiStep
<1>1. api \in Objects /\ api' = [api EXCEPT !.egress[e] = o] /\ lag' = lag \cup {<<"egress", e>>}
  BY DEF Write, TypeOK
<1>2. api.egress \in [Egresses -> Egress \cup {None}]
  BY <1>1 DEF Objects
<1>3. api' \in Objects
      /\ api'.child = api.child /\ api'.sa = api.sa /\ api'.crb = api.crb
      /\ api'.egress = [api.egress EXCEPT ![e] = o]
  BY <1>1, <1>2 DEF Objects
<1>4. lag \subseteq lag' /\ lag' \subseteq Ids
  BY <1>1 DEF TypeOK, Ids
<1>5. \A f \in Egresses : api'.egress[f] = IF f = e THEN o ELSE api.egress[f]
  BY <1>2, <1>3
<1>6. \A b \in Bindings : InOrder(api'.crb[b])
  BY <1>3 DEF TypeOK, InOrder
<1>7. \A f \in Detailed : Present(api', f) =>
          \/ Present(api, f) /\ api'.egress[f].uid = api.egress[f].uid
          \/ changes < api'.egress[f].uid /\ api'.egress[f].uid <= changes'
  BY <1>5, EgressControllerAssumption DEF Present
<1> QED
  BY <1>1, <1>3, <1>4, <1>5, <1>6, <1>7 DEF ApiStep

\* A write of a Deployment, a Service or a PodDisruptionBudget.
LEMMA ChildWritten ==
  ASSUME TypeOK, cache' = cache, changes' \in Nat, changes <= changes',
         NEW k \in Kinds, NEW e \in Detailed, NEW o \in Child \cup {None},
         Write([api EXCEPT !.child[k][e] = o], <<k, e>>)
  PROVE  ApiStep
<1>1. api \in Objects /\ api' = [api EXCEPT !.child[k][e] = o] /\ lag' = lag \cup {<<k, e>>}
  BY DEF Write, TypeOK
<1>2. api.child \in [Kinds -> [Detailed -> Child \cup {None}]]
  BY <1>1 DEF Objects
<1>3. api' \in Objects
      /\ api'.egress = api.egress /\ api'.sa = api.sa /\ api'.crb = api.crb
      /\ api'.child = [api.child EXCEPT ![k] = [api.child[k] EXCEPT ![e] = o]]
  BY <1>1, <1>2 DEF Objects
<1>4. lag \subseteq lag' /\ lag' \subseteq Ids
  BY <1>1 DEF TypeOK, Ids
<1>5. \A j \in Kinds, f \in Detailed : <<j, f>> \in lag' \/ api'.child[j][f] = api.child[j][f]
  <2>1. SUFFICES ASSUME NEW j \in Kinds, NEW f \in Detailed, j # k \/ f # e
                 PROVE  api'.child[j][f] = api.child[j][f]
    BY <1>1
  <2> QED
    BY <1>2, <1>3, <2>1
<1>6. \A b \in Bindings : InOrder(api'.crb[b])
  BY <1>3 DEF TypeOK, InOrder
<1> QED
  BY <1>1, <1>3, <1>4, <1>5, <1>6 DEF ApiStep, Present

\* A ServiceAccount is created.
LEMMA AccountWritten ==
  ASSUME TypeOK, cache' = cache, changes' = changes, NEW ns \in Namespaces,
         Write([api EXCEPT !.sa = @ \cup {ns}], <<"sa", ns>>)
  PROVE  ApiStep
<1>1. api \in Objects /\ api' = [api EXCEPT !.sa = @ \cup {ns}] /\ lag' = lag \cup {<<"sa", ns>>}
  BY DEF Write, TypeOK
<1>2. api' \in Objects /\ api'.sa = api.sa \cup {ns}
      /\ api'.egress = api.egress /\ api'.child = api.child /\ api'.crb = api.crb
  BY <1>1 DEF Objects
<1>3. lag \subseteq lag' /\ lag' \subseteq Ids
  BY <1>1 DEF TypeOK, Ids
<1>4. \A b \in Bindings : InOrder(api'.crb[b])
  BY <1>2 DEF TypeOK, InOrder
<1>5. changes' \in Nat /\ changes <= changes'
  BY DEF TypeOK
<1> QED
  BY <1>1, <1>2, <1>3, <1>4, <1>5 DEF ApiStep, Present

\* The subjects that reconcileCRB computes are in order, and none is missing.
LEMMA SubjectsListed ==
  ASSUME TypeOK
  PROVE  /\ subjects \in Seq(Namespaces)
         /\ InOrder(subjects)
         /\ \A e \in Egresses :
               Present(cache, e) => \E i \in DOMAIN subjects : subjects[i] = NsOf[e]
<1> DEFINE S == {f \in Egresses : Present(cache, f)}
<1>1. S \in SUBSET Egresses /\ subjects = Sorted({NsOf[e] : e \in S})
  BY DEF subjects
<1>2. \A e \in Egresses : Present(cache, e) => e \in S
  OBVIOUS
<1> HIDE DEF S
<1> QED
  BY <1>1, <1>2, NamespacesSorted DEF InOrder

\* reconcileCRB, of either reconciler.
LEMMA BindingWritten ==
  ASSUME TypeOK, cache' = cache, changes' = changes, NEW b, reconcileCRB(b)
  PROVE  ApiStep
<1>0. changes' \in Nat /\ changes <= changes'
  BY DEF TypeOK
<1>1. CASE CRBKept(b) \/ CRBError(b)
  BY <1>0, <1>1, NothingWritten DEF reconcileCRB
<1>2. CASE ~(CRBKept(b) \/ CRBError(b))
  <2>1. api \in Objects /\ api' = [api EXCEPT !.crb[b] = subjects] /\ lag' = lag \cup {<<"crb", b>>}
    BY <1>2 DEF Write, TypeOK, reconcileCRB
  <2>2. b \in Bindings
    BY <1>2 DEF CRBError
  <2>3. api.crb \in [Bindings -> Seq(Namespaces)]
    BY <2>1 DEF Objects
  <2>4. subjects \in Seq(Namespaces) /\ InOrder(subjects)
    BY SubjectsListed
  <2>5. api' \in Objects /\ api'.crb = [api.crb EXCEPT ![b] = subjects]
        /\ api'.egress = api.egress /\ api'.child = api.child /\ api'.sa = api.sa
    BY <2>1, <2>2, <2>3, <2>4 DEF Objects
  <2>6. lag \subseteq lag' /\ lag' \subseteq Ids
    BY <2>1, <2>2 DEF TypeOK, Ids
  <2>7. \A c \in Bindings : api'.crb[c] = IF c = b THEN subjects ELSE api.crb[c]
    BY <2>3, <2>5
  <2>8. \A c \in Bindings : InOrder(api'.crb[c])
    BY <2>4, <2>7 DEF TypeOK, InOrder
  <2> QED
    BY <1>0, <2>1, <2>5, <2>6, <2>7, <2>8 DEF ApiStep, Present
<1> QED
  BY <1>1, <1>2

\* CreateOrUpdate of some of the objects of the worker's Egress object, in order.
LEMMA ChildrenWritten ==
  ASSUME TypeOK, WorkOK, work.pc = "children",
         cache' = cache, changes' \in Nat, changes <= changes',
         NEW K \in SUBSET Kinds,
         api' = CreateOrUpdate(K), lag' = lag \cup (Written(K) \X {work.name})
  PROVE  ApiStep
<1> DEFINE w == work.name
<1>1. w \in Detailed /\ work.eg \in Egress /\ api \in Objects /\ cache \in Objects
  BY DEF TypeOK, WorkOK
<1>2. api.child \in [Kinds -> [Detailed -> Child \cup {None}]]
      /\ cache.child \in [Kinds -> [Detailed -> Child \cup {None}]]
  BY <1>1 DEF Objects
<1>3. \A k \in Kinds : NewChild(k) \in Child
  <2>1. \A k \in Kinds : cache.child[k][w] \in Child \cup {None}
    BY <1>1, <1>2
  <2> QED
    BY <1>1, <2>1, DesiredMade DEF NewChild
<1> DEFINE c == [k \in Kinds |->
                    IF k \in Written(K) THEN [api.child[k] EXCEPT ![w] = NewChild(k)]
                    ELSE api.child[k]]
<1>4. c \in [Kinds -> [Detailed -> Child \cup {None}]]
  BY <1>2, <1>3
<1>5. \A k \in Kinds, e \in Detailed : c[k][e] # api.child[k][e] => k \in Written(K) /\ e = w
  BY <1>2
<1>6. api' = [api EXCEPT !.child = c]
  BY DEF CreateOrUpdate
<1> HIDE DEF c
<1>7. api' \in Objects /\ api'.child = c
      /\ api'.egress = api.egress /\ api'.sa = api.sa /\ api'.crb = api.crb
  BY <1>1, <1>4, <1>6 DEF Objects
<1>8. lag \subseteq lag' /\ lag' \subseteq Ids
  BY <1>1 DEF TypeOK, Ids, Written
<1>9. \A k \in Kinds, e \in Detailed : <<k, e>> \in lag' \/ api'.child[k][e] = api.child[k][e]
  BY <1>5, <1>7
<1>10. \A b \in Bindings : InOrder(api'.crb[b])
  BY <1>7 DEF TypeOK, InOrder
<1> QED
  BY <1>7, <1>8, <1>9, <1>10 DEF ApiStep, Present

-----------------------------------------------------------------------------
(* What such a step keeps *)

\* The worker as TypeOK has it.
WorkTyped ==
    /\ work.pc \in PCs
    /\ IF work.pc = "idle" THEN work = idle
       ELSE work \in [pc: PCs, name: Egresses, eg: Egress]

LEMMA TypeKept ==
  ASSUME TypeOK, ApiStep, queue' \subseteq Egresses, bqueue' \subseteq Bindings, WorkTyped',
         faults' \in Nat, changes' + faults' <= MaxEvents
  PROVE  TypeOK'
BY DEF TypeOK, ApiStep, InOrder, WorkTyped

LEMMA CacheKept ==
  ASSUME CacheOK, ApiStep
  PROVE  CacheOK'
BY DEF CacheOK, ApiStep

LEMMA CoveredKept ==
  ASSUME ApiStep, NEW e \in Egresses, NEW b \in Bindings, Covered(e, b),
         b \in bqueue => b \in bqueue'
  PROVE  Covered(e, b)'
BY DEF Covered, ApiStep

\* The event of a change of the Egress object would still be on its way.
LEMMA SeenBefore ==
  ASSUME ApiStep, NEW e \in Egresses, Seen(e)', e \in queue => e \in queue'
  PROVE  Seen(e) /\ api'.egress[e] = api.egress[e]
BY DEF Seen, ApiStep, Present

\* The worker goes on with its Egress object, or has none.
WorkKept == work' = idle \/ (work.pc # "idle" /\ work'.name = work.name /\ work'.eg = work.eg)

\* An Egress object that is made again is not the one of the worker.
LEMMA SameBefore ==
  ASSUME TypeOK, UidOK, ApiStep, WorkKept, NEW e \in Detailed, SameEgress(e)'
  PROVE  SameEgress(e) /\ Present(cache, e)
<1>1. At(e, PCs \ {"idle"}) /\ work'.eg = work.eg /\ work' # idle
  BY DEF SameEgress, At, WorkKept, TypeOK, idle
<1>2. work.eg \in Egress /\ e \in Egresses /\ api' \in Objects
  BY <1>1 DEF TypeOK, At, ApiStep
<1>3. work.eg.uid \in Nat /\ work.eg.uid <= changes
  BY <1>1, <1>2 DEF UidOK, Egress
<1>4. Present(api', e) /\ api'.egress[e].uid = work.eg.uid
  BY <1>1 DEF SameEgress, Present
<1>5. changes \in Nat
  BY DEF TypeOK
<1>6. Present(api, e) /\ api'.egress[e].uid = api.egress[e].uid
  BY <1>3, <1>4, <1>5 DEF ApiStep
<1> QED
  BY <1>1, <1>4, <1>6 DEF SameEgress, UidOK

LEMMA UidKept ==
  ASSUME TypeOK, UidOK, ApiStep, WorkKept
  PROVE  UidOK'
<1>1. SUFFICES ASSUME NEW e \in Detailed
      PROVE  /\ Present(api', e) => api'.egress[e].uid <= changes'
             /\ Present(cache', e) => cache'.egress[e].uid <= changes'
             /\ At(e, PCs \ {"idle"})' => work'.eg.uid <= changes'
             /\ SameEgress(e)' => Present(cache', e)
  BY DEF UidOK, Present
<1>2. e \in Egresses /\ changes \in Nat /\ changes' \in Nat /\ changes <= changes'
  BY EgressControllerAssumption DEF TypeOK, ApiStep
<1>3. /\ Present(api, e) => api.egress[e].uid \in Nat
      /\ Present(cache, e) => cache.egress[e].uid \in Nat
  BY <1>2 DEF TypeOK, Objects, Egress, Present
<1>4. Present(api', e) => api'.egress[e].uid <= changes'
  BY <1>2, <1>3 DEF UidOK, ApiStep
<1>5. Present(cache', e) => cache'.egress[e].uid <= changes'
  BY <1>2, <1>3 DEF UidOK, ApiStep, Present
<1>6. ASSUME At(e, PCs \ {"idle"})' PROVE work'.eg.uid <= changes'
  <2>1. At(e, PCs \ {"idle"}) /\ work'.eg = work.eg
    BY <1>6 DEF At, WorkKept, TypeOK, idle
  <2>2. work.eg.uid \in Nat
    BY <2>1 DEF TypeOK, At, Egress
  <2> QED
    BY <1>2, <2>1, <2>2 DEF UidOK
<1>7. SameEgress(e)' => Present(cache', e)
  BY SameBefore DEF ApiStep
<1> QED
  BY <1>4, <1>5, <1>6, <1>7

\* The objects of an Egress object that has been seen stay as they are, or have
\* an event on its way.
LEMMA DoneKept ==
  ASSUME ApiStep, NEW e \in Detailed, api'.egress[e] = api.egress[e]
  PROVE  /\ NsOf[e] \in api.sa => NsOf[e] \in api'.sa
         /\ \A k \in Kinds :
               <<k, e>> \in lag \/ AsWanted(k, e) => <<k, e>> \in lag' \/ AsWanted(k, e)'
         /\ <<"deployment", e>> \in lag \/ StatusTrue(e)
               => <<"deployment", e>> \in lag' \/ StatusTrue(e)'
<1>1. NsOf[e] \in api.sa => NsOf[e] \in api'.sa
  BY DEF ApiStep
<1>2. ASSUME NEW k \in Kinds, <<k, e>> \in lag \/ AsWanted(k, e), <<k, e>> \notin lag'
      PROVE  AsWanted(k, e)'
  <2>1. AsWanted(k, e) /\ api'.child[k][e] = api.child[k][e]
    BY <1>2 DEF ApiStep
  <2> QED
    BY <2>1 DEF AsWanted
<1>3. ASSUME <<"deployment", e>> \in lag \/ StatusTrue(e), <<"deployment", e>> \notin lag'
      PROVE  StatusTrue(e)'
  <2>1. StatusTrue(e) /\ api'.child["deployment"][e] = api.child["deployment"][e]
    BY <1>3 DEF ApiStep, Kinds
  <2> QED
    BY <2>1 DEF StatusTrue
<1> QED
  BY <1>1, <1>2, <1>3

\* What SettledOK says of one Egress object.
Settled(e) ==
    /\ BindingsDone(e)
    /\ e \in Detailed => AccountDone(e) /\ StatusDone(e) /\ \A k \in Kinds : ChildDone(k, e)

\* An Egress object that the worker is not at stays settled.
LEMMA OthersSettled ==
  ASSUME ApiStep, queue \subseteq queue', bqueue \subseteq bqueue',
         NEW e \in Egresses, Seen(e)', Seen(e) => Settled(e),
         \A P \in SUBSET PCs : At(e, P) => At(e, P)'
  PROVE  Settled(e)'
<1>1. Seen(e) /\ api'.egress[e] = api.egress[e]
  BY SeenBefore
<1>2. Settled(e)
  BY <1>1
<1>3. BindingsDone(e)'
  <2>1. SUFFICES ASSUME NEW b \in Bindings PROVE At(e, UpTo(b))' \/ Covered(e, b)'
    BY DEF BindingsDone, UpTo
  <2>2. UpTo(b) \in SUBSET PCs
    BY DEF UpTo, PCs
  <2> QED
    BY <1>2, <2>2, CoveredKept DEF Settled, BindingsDone
<1>4. ASSUME e \in Detailed
      PROVE  AccountDone(e)' /\ StatusDone(e)' /\ \A k \in Kinds : ChildDone(k, e)'
  <2>1. AccountDone(e) /\ StatusDone(e) /\ \A k \in Kinds : ChildDone(k, e)
    BY <1>2, <1>4 DEF Settled
  <2>2. {"sa"} \in SUBSET PCs /\ {"sa", "crb", "psp", "children"} \in SUBSET PCs
        /\ PCs \ {"idle"} \in SUBSET PCs
    BY DEF PCs
  <2>3. AccountDone(e)'
    BY <1>1, <1>4, <2>1, <2>2, DoneKept DEF AccountDone
  <2>4. StatusDone(e)'
    BY <1>1, <1>4, <2>1, <2>2, DoneKept DEF StatusDone
  <2>5. ASSUME NEW k \in Kinds PROVE ChildDone(k, e)'
    BY <1>1, <1>4, <2>1, <2>2, DoneKept DEF ChildDone
  <2> QED
    BY <2>3, <2>4, <2>5
<1> QED
  BY <1>3, <1>4 DEF Settled

LEMMA SettledSplit == SettledOK <=> \A e \in Egresses : Seen(e) => Settled(e)
BY EgressControllerAssumption DEF SettledOK, Settled

LEMMA SettledSplitPrime == SettledOK' <=> \A e \in Egresses : Seen(e)' => Settled(e)'
BY EgressControllerAssumption DEF SettledOK, Settled

-----------------------------------------------------------------------------
(* Kinds of steps *)

\* Writes of users and of the other controllers of the cluster.
LEMMA ClusterStep ==
  ASSUME IInv, ApiStep, UNCHANGED <<queue, bqueue, work>>, faults' = faults,
         changes' + faults <= MaxEvents
  PROVE  IInv'
<1>1. TypeOK /\ CacheOK /\ WorkOK /\ UidOK /\ BoundOK /\ SettledOK
  BY DEF IInv
<1>2. TypeOK'
  <2>1. WorkTyped' /\ queue' \subseteq Egresses /\ bqueue' \subseteq Bindings
        /\ faults' \in Nat /\ changes' + faults' <= MaxEvents
    BY <1>1 DEF TypeOK, WorkTyped
  <2> QED
    BY <1>1, <2>1, TypeKept
<1>3. CacheOK'
  BY <1>1, CacheKept
<1>4. WorkOK'
  <2>1. work.pc # "idle" => work.name \in Egresses
    BY <1>1 DEF TypeOK
  <2> QED
    BY <1>1, <2>1 DEF WorkOK, ApiStep
<1>5. WorkKept
  BY <1>1 DEF TypeOK, WorkKept
<1>6. UidOK'
  BY <1>1, <1>5, UidKept
<1>7. BoundOK'
  <2>1. SUFFICES ASSUME NEW e \in Detailed, NEW b \in Bindings, SameEgress(e)', At(e, Past(b))'
                 PROVE  Covered(e, b)'
    BY DEF BoundOK, Past, UpTo
  <2>2. SameEgress(e) /\ At(e, Past(b)) /\ e \in Egresses
    BY <1>1, <1>5, <2>1, SameBefore, EgressControllerAssumption DEF At
  <2> QED
    BY <1>1, <2>2, CoveredKept DEF BoundOK
<1>8. SettledOK'
  <2>1. SUFFICES ASSUME NEW e \in Egresses, Seen(e)' PROVE Settled(e)'
    BY SettledSplitPrime
  <2>2. \A P \in SUBSET PCs : At(e, P) => At(e, P)'
    BY DEF At
  <2> QED
    BY <1>1, <2>1, <2>2, SettledSplit, OthersSettled
<1> QED
  BY <1>2, <1>3, <1>4, <1>6, <1>7, <1>8 DEF IInv

\* The end of a reconciliation with an error.
LEMMA RetryStep ==
  ASSUME IInv, ApiStep, work.pc # "idle", Retry, bqueue' = bqueue, changes' = changes,
         faults' \in Nat, changes + faults' <= MaxEvents
  PROVE  IInv'
<1>1. TypeOK /\ CacheOK /\ UidOK /\ SettledOK
  BY DEF IInv
<1>2. work' = idle /\ queue' = queue \cup {work.name} /\ work.name \in Egresses
  BY <1>1 DEF Retry, TypeOK
<1>3. TypeOK'
  <2>1. WorkTyped' /\ queue' \subseteq Egresses /\ bqueue' \subseteq Bindings
    BY <1>1, <1>2 DEF TypeOK, WorkTyped, PCs, idle
  <2> QED
    BY <1>1, <2>1, TypeKept
<1>4. CacheOK'
  BY <1>1, CacheKept
<1>5. WorkOK'
  BY <1>2 DEF WorkOK, idle
<1>6. UidOK'
  BY <1>1, <1>2, UidKept DEF WorkKept
<1>7. BoundOK'
  BY <1>2 DEF BoundOK, SameEgress, At, idle
<1>8. SettledOK'
  <2>1. SUFFICES ASSUME NEW e \in Egresses, Seen(e)' PROVE Settled(e)'
    BY SettledSplitPrime
  <2>2. e # work.name
    BY <1>2, <2>1 DEF Seen
  <2>3. \A P \in SUBSET PCs : At(e, P) => At(e, P)'
    BY <2>2 DEF At
  <2>4. queue \subseteq queue' /\ bqueue \subseteq bqueue'
    BY <1>2
  <2> QED
    BY <1>1, <2>1, <2>3, <2>4, SettledSplit, OthersSettled
<1> QED
  BY <1>3, <1>4, <1>5, <1>6, <1>7, <1>8 DEF IInv

\* What the worker's step has seen to; e is its Egress object.
StepDone(e) ==
    /\ work.pc = "sa" => NsOf[e] \in api'.sa
    /\ \A b \in Bindings :
          Present(cache, e) /\ work.pc = (IF b = "coil-egress" THEN "crb" ELSE "psp")
              => Covered(e, b)'
    /\ work.pc = "children" /\ Seen(e)'
          => \A k \in Kinds : <<k, e>> \in lag' \/ AsWanted(k, e)'
    /\ work.pc = "status" /\ Seen(e)' => <<"deployment", e>> \in lag' \/ StatusTrue(e)'

\* The steps of Reconcile, in order.
LEMMA AdvanceTo ==
  ASSUME TypeOK, WorkOK, work.pc # "idle", Advance
  PROVE  /\ WorkTyped'
         /\ WorkKept
         /\ work.pc = "sa" => work'.pc = "crb"
         /\ work.pc = "crb" => work'.pc = "psp"
         /\ work.pc = "psp" /\ work.name \in Detailed => work'.pc = "children"
         /\ work.pc = "psp" /\ work.name \notin Detailed => work'.pc = "idle"
         /\ work.pc = "children" => work'.pc = "status"
         /\ work.pc = "status" => work'.pc = "idle"
         /\ work' = idle \/ work' = [work EXCEPT !.pc = nextStep(work.pc)]
<1>1. work.pc \in {"sa", "crb", "psp", "children", "status"}
      /\ work \in [pc: PCs, name: Egresses, eg: Egress]
      /\ (work.pc \in {"sa", "children", "status"} => work.name \in Detailed)
  BY DEF TypeOK, WorkOK, PCs
<1>2. work' = idle \/ work' = [work EXCEPT !.pc = nextStep(work.pc)]
  BY DEF Advance
<1>3. CASE work.pc = "sa"
  <2>1. work' = [work EXCEPT !.pc = "crb"]
    BY <1>1, <1>3 DEF Advance, nextStep
  <2> QED
    BY <1>1, <1>2, <1>3, <2>1 DEF WorkTyped, WorkKept, PCs
<1>4. CASE work.pc = "crb"
  <2>1. work' = [work EXCEPT !.pc = "psp"]
    BY <1>4 DEF Advance, nextStep
  <2> QED
    BY <1>1, <1>2, <1>4, <2>1 DEF WorkTyped, WorkKept, PCs
<1>5. CASE work.pc = "psp"
  <2>1. work' = IF work.name \in Detailed THEN [work EXCEPT !.pc = "children"] ELSE idle
    BY <1>5 DEF Advance, nextStep
  <2> QED
    BY <1>1, <1>2, <1>5, <2>1 DEF WorkTyped, WorkKept, PCs, idle
<1>6. CASE work.pc = "children"
  <2>1. work' = [work EXCEPT !.pc = "status"]
    BY <1>1, <1>6 DEF Advance, nextStep
  <2> QED
    BY <1>1, <1>2, <1>6, <2>1 DEF WorkTyped, WorkKept, PCs
<1>7. CASE work.pc = "status"
  <2>1. work' = idle
    BY <1>7 DEF Advance, nextStep
  <2> QED
    BY <1>1, <1>2, <1>7, <2>1 DEF WorkTyped, WorkKept, PCs, idle
<1> QED
  BY <1>1, <1>3, <1>4, <1>5, <1>6, <1>7

\* A step of the worker that succeeds.
LEMMA AdvanceStep ==
  ASSUME IInv, ApiStep, work.pc # "idle", Advance,
         NEW w \in Egresses, work.name = w, StepDone(w),
         UNCHANGED <<queue, bqueue, changes, faults>>
  PROVE  IInv'
<1>1. TypeOK /\ CacheOK /\ WorkOK /\ UidOK /\ BoundOK /\ SettledOK
  BY DEF IInv
<1>2. /\ WorkTyped' /\ WorkKept
      /\ work.pc = "sa" => work'.pc = "crb"
      /\ work.pc = "crb" => work'.pc = "psp"
      /\ work.pc = "psp" /\ w \in Detailed => work'.pc = "children"
      /\ work.pc = "psp" /\ w \notin Detailed => work'.pc = "idle"
      /\ work.pc = "children" => work'.pc = "status"
      /\ work.pc = "status" => work'.pc = "idle"
  BY <1>1, AdvanceTo
<1>3. work.pc \in {"sa", "crb", "psp", "children", "status"} /\ w \in Egresses
  BY <1>1 DEF TypeOK, PCs
<1>4. work'.pc # "idle" => work'.name = w /\ work'.eg = work.eg
  BY <1>2 DEF WorkKept, idle
<1>5. /\ work.pc \in {"sa", "children", "status"} => w \in Detailed
      /\ work.pc \in {"crb", "psp", "children", "status"} /\ w \in Detailed => NsOf[w] \in api.sa
      /\ <<"egress", w>> \in lag \/ w \in queue \/ work.eg = api.egress[w]
  BY <1>1 DEF WorkOK
<1>6. TypeOK'
  BY <1>1, <1>2, TypeKept DEF TypeOK
<1>7. CacheOK'
  BY <1>1, CacheKept
<1>8. NsOf[w] \in api'.sa \/ w \notin Detailed
  BY <1>3, <1>5 DEF StepDone, ApiStep
<1>9. WorkOK'
  <2>1. work'.pc \in {"sa", "children", "status"} => work'.name \in Detailed
    BY <1>2, <1>3, <1>4, <1>5
  <2>2. work'.pc \in {"crb", "psp", "children", "status"} /\ work'.name \in Detailed
            => NsOf[work'.name] \in api'.sa
    BY <1>4, <1>8
  <2>3. <<"egress", w>> \in lag' \/ w \in queue' \/ work.eg = api'.egress[w]
    BY <1>3, <1>5 DEF ApiStep
  <2>4. work'.pc # "idle" => <<"egress", work'.name>> \in lag' \/ work'.name \in queue'
                             \/ work'.eg = api'.egress[work'.name]
    BY <1>4, <2>3
  <2> QED
    BY <2>1, <2>2, <2>4 DEF WorkOK
<1>10. UidOK'
  BY <1>1, <1>2, UidKept
<1>11. BoundOK'
  <2>1. SUFFICES ASSUME NEW e \in Detailed, NEW b \in Bindings, SameEgress(e)', At(e, Past(b))'
                 PROVE  Covered(e, b)'
    BY DEF BoundOK, Past, UpTo
  <2>2. SameEgress(e) /\ Present(cache, e) /\ e \in Egresses
    BY <1>1, <1>2, <2>1, SameBefore, EgressControllerAssumption
  <2>3. e = w
    BY <2>2 DEF SameEgress, At
  <2>4. CASE work.pc = IF b = "coil-egress" THEN "crb" ELSE "psp"
    BY <2>2, <2>3, <2>4 DEF StepDone
  <2>5. CASE work.pc \in Past(b)
    <3>1. Covered(e, b)
      BY <1>1, <2>2, <2>3, <2>5 DEF BoundOK, At
    <3> QED
      BY <2>2, <3>1, CoveredKept
  <2>6. work.pc \in Past(b) \/ work.pc = IF b = "coil-egress" THEN "crb" ELSE "psp"
    BY <1>2, <1>3, <2>1, <2>3 DEF Past, UpTo, At
  <2> QED
    BY <2>4, <2>5, <2>6
<1>12. SettledOK'
  <2>1. SUFFICES ASSUME NEW e \in Egresses, Seen(e)' PROVE Settled(e)'
    BY SettledSplitPrime
  <2>2. Seen(e) /\ api'.egress[e] = api.egress[e]
    BY <2>1, SeenBefore
  <2>3. CASE e # w
    <3>1. \A P \in SUBSET PCs : At(e, P) => At(e, P)'
      BY <2>3 DEF At
    <3> QED
      BY <1>1, <2>1, <3>1, SettledSplit, OthersSettled
  <2>4. CASE e = w
    <3>1. Present(cache, w) /\ Settled(w)
      BY <1>1, <2>2, <2>4, SettledSplit DEF Seen, CacheOK, Present
    <3>2. BindingsDone(w)'
      <4>1. SUFFICES ASSUME NEW b \in Bindings, ~At(w, UpTo(b))' PROVE Covered(w, b)'
        BY DEF BindingsDone, UpTo
      <4>2. CASE work.pc = IF b = "coil-egress" THEN "crb" ELSE "psp"
        BY <3>1, <4>2 DEF StepDone
      <4>3. CASE ~At(w, UpTo(b))
        <5>1. Covered(w, b)
          BY <3>1, <4>3 DEF Settled, BindingsDone
        <5> QED
          BY <1>3, <5>1, CoveredKept
      <4>4. work.pc \in UpTo(b) => work.pc = IF b = "coil-egress" THEN "crb" ELSE "psp"
        <5>1. work.pc = "sa" => At(w, UpTo(b))'
          BY <1>2, <1>4 DEF At, UpTo
        <5>2. work.pc = "crb" /\ b # "coil-egress" => At(w, UpTo(b))'
          BY <1>2, <1>4 DEF At, UpTo
        <5> QED
          BY <4>1, <5>1, <5>2 DEF UpTo
      <4> QED
        BY <4>2, <4>3, <4>4 DEF At
    <3>3. ASSUME w \in Detailed
          PROVE  AccountDone(w)' /\ StatusDone(w)' /\ \A k \in Kinds : ChildDone(k, w)'
      <4>1. AccountDone(w)'
        BY <1>8, <3>3 DEF AccountDone
      <4>2. StatusDone(w)'
        <5>1. CASE work.pc = "status"
          BY <2>1, <2>4, <5>1 DEF StepDone, StatusDone
        <5>2. CASE work.pc # "status"
          BY <1>2, <1>3, <1>4, <3>3, <5>2 DEF StatusDone, At, PCs
        <5> QED
          BY <5>1, <5>2
      <4>3. ASSUME NEW k \in Kinds PROVE ChildDone(k, w)'
        <5>1. CASE work.pc = "children"
          BY <2>1, <2>4, <5>1 DEF StepDone, ChildDone
        <5>2. CASE work.pc \in {"sa", "crb", "psp"}
          BY <1>2, <1>4, <3>3, <5>2 DEF ChildDone, At
        <5>3. CASE work.pc = "status"
          <6>1. <<k, w>> \in lag \/ AsWanted(k, w)
            BY <3>1, <3>3, <5>3 DEF Settled, ChildDone, At
          <6> QED
            BY <2>2, <2>4, <3>3, <6>1, DoneKept DEF ChildDone
        <5> QED
          BY <1>3, <5>1, <5>2, <5>3
      <4> QED
        BY <4>1, <4>2, <4>3
    <3> QED
      BY <2>4, <3>2, <3>3 DEF Settled
  <2> QED
    BY <2>3, <2>4
<1> QED
  BY <1>6, <1>7, <1>9, <1>10, <1>11, <1>12 DEF IInv

-----------------------------------------------------------------------------
(* The steps of EgressReconciler *)

\* reconcileCRB leaves a binding that has the namespaces of all cached Egress
\* objects, or its event on its way.
LEMMA BindingCovers ==
  ASSUME TypeOK, CacheOK, NEW b \in Bindings, reconcileCRB(b), ~CRBError(b),
         NEW e \in Egresses, Present(cache, e)
  PROVE  <<"crb", b>> \in lag' \/ \E i \in DOMAIN api'.crb[b] : api'.crb[b][i] = NsOf[e]
<1>1. CASE CRBKept(b)
  <2>1. IsPrefix(subjects, cache.crb[b]) /\ api' = api /\ lag' = lag
    BY <1>1 DEF CRBKept, upToDate, reconcileCRB, NoWrite
  <2>2. CASE <<"crb", b>> \notin lag
    <3>1. cache.crb[b] = api.crb[b] /\ api.crb[b] \in Seq(Namespaces)
      BY <2>2 DEF CacheOK, TypeOK, Objects
    <3>2. PICK i \in DOMAIN subjects : subjects[i] = NsOf[e]
      BY SubjectsListed
    <3>3. subjects \in Seq(Namespaces)
      BY SubjectsListed
    <3>4. i \in DOMAIN api.crb[b] /\ api.crb[b][i] = subjects[i]
      BY <2>1, <3>1, <3>3 DEF IsPrefix
    <3> QED
      BY <2>1, <3>2, <3>4
  <2> QED
    BY <2>1, <2>2
<1>2. CASE ~CRBKept(b)
  BY <1>2 DEF reconcileCRB, Write
<1> QED
  BY <1>1, <1>2

LEMMA AccountStep ==
  ASSUME IInv, reconcileServiceAccount
  PROVE  IInv'
<1>1. TypeOK /\ CacheOK /\ WorkOK /\ work.pc = "sa" /\ UNCHANGED <<cache, bqueue, changes, faults>>
  BY DEF IInv, reconcileServiceAccount
<1>2. PICK w \in Egresses : work.name = w
  BY <1>1 DEF TypeOK
<1>3. changes' \in Nat /\ changes <= changes' /\ faults' \in Nat /\ changes + faults' <= MaxEvents
  BY <1>1 DEF TypeOK
<1>4. NsOf[w] \in Namespaces
  BY <1>2 DEF Namespaces
<1>5. CASE NsOf[w] \in cache.sa
  <2>1. Advance /\ NoWrite /\ queue' = queue
    BY <1>2, <1>5 DEF reconcileServiceAccount
  <2>2. StepDone(w)
    BY <1>1, <1>5, <2>1 DEF CacheOK, NoWrite, StepDone
  <2> QED
    BY <1>1, <1>2, <1>3, <2>1, <2>2, NothingWritten, AdvanceStep
<1>6. CASE NsOf[w] \notin cache.sa /\ NsOf[w] \notin api.sa
  <2>1. Advance /\ queue' = queue /\ Write([api EXCEPT !.sa = @ \cup {NsOf[w]}], <<"sa", NsOf[w]>>)
    BY <1>2, <1>6 DEF reconcileServiceAccount
  <2>2. NsOf[w] \in api'.sa
    BY <1>1, <2>1 DEF Write, TypeOK, Objects
  <2>3. StepDone(w)
    BY <1>1, <2>2 DEF StepDone
  <2> QED
    BY <1>1, <1>2, <1>4, <2>1, <2>3, AccountWritten, AdvanceStep
<1>7. CASE NsOf[w] \notin cache.sa /\ NsOf[w] \in api.sa
  <2>1. Retry /\ NoWrite
    BY <1>2, <1>7 DEF reconcileServiceAccount
  <2> QED
    BY <1>1, <1>3, <2>1, NothingWritten, RetryStep
<1> QED
  BY <1>5, <1>6, <1>7

LEMMA BindingStep ==
  ASSUME IInv, NEW pc, NEW b, ReconcileBinding(pc, b),
         <<pc, b>> \in {<<"crb", "coil-egress">>, <<"psp", "psp-coil-egress">>}
  PROVE  IInv'
<1>1. TypeOK /\ CacheOK /\ work.pc = pc /\ reconcileCRB(b)
      /\ UNCHANGED <<cache, bqueue, changes, faults>>
  BY DEF IInv, ReconcileBinding
<1>2. pc \in {"crb", "psp"}
  OBVIOUS
<1>3. PICK w \in Egresses : work.name = w
  BY <1>1, <1>2 DEF TypeOK
<1>4. faults' \in Nat /\ changes + faults' <= MaxEvents
  BY <1>1 DEF TypeOK
<1>5. ApiStep
  BY <1>1, BindingWritten
<1>6. CASE CRBError(b)
  <2>1. Retry
    BY <1>6 DEF ReconcileBinding
  <2> QED
    BY <1>1, <1>2, <1>4, <1>5, <2>1, RetryStep
<1>7. CASE ~CRBError(b)
  <2>1. Advance /\ queue' = queue
    BY <1>7 DEF ReconcileBinding
  <2>2. ASSUME NEW c \in Bindings, Present(cache, w),
               work.pc = (IF c = "coil-egress" THEN "crb" ELSE "psp")
        PROVE  Covered(w, c)'
    <3>1. c = b
      BY <1>1, <2>2, EgressControllerAssumption
    <3> QED
      BY <1>1, <1>7, <2>2, <3>1, BindingCovers DEF Covered
  <2>3. StepDone(w)
    BY <1>1, <1>2, <2>2 DEF StepDone
  <2> QED
    BY <1>1, <1>2, <1>3, <1>5, <2>1, <2>3, AdvanceStep
<1> QED
  BY <1>6, <1>7

LEMMA ChildrenStep ==
  ASSUME IInv, ReconcileChildren
  PROVE  IInv'
<1>1. TypeOK /\ CacheOK /\ WorkOK /\ work.pc = "children"
      /\ UNCHANGED <<cache, bqueue, changes, faults>>
      /\ api' = CreateOrUpdate(Kinds) /\ lag' = lag \cup (Written(Kinds) \X {work.name})
  BY DEF IInv, ReconcileChildren
<1>2. PICK w \in Egresses : work.name = w
  BY <1>1 DEF TypeOK
<1>3. changes' \in Nat /\ changes <= changes' /\ faults' \in Nat /\ changes + faults' <= MaxEvents
  BY <1>1 DEF TypeOK
<1>4. ApiStep
  BY <1>1, <1>3, ChildrenWritten
<1>5. CASE \E k \in Kinds : Refused(k)
  <2>1. Retry
    BY <1>5 DEF ReconcileChildren
  <2> QED
    BY <1>1, <1>3, <1>4, <2>1, RetryStep
<1>6. CASE \A k \in Kinds : ~Refused(k)
  <2>1. Advance /\ queue' = queue
    BY <1>6 DEF ReconcileChildren
  <2>2. ASSUME Seen(w)', NEW k \in Kinds, <<k, w>> \notin lag' PROVE AsWanted(k, w)'
    <3>1. Seen(w) /\ api'.egress[w] = api.egress[w]
      BY <1>4, <2>1, <2>2, SeenBefore
    <3>2. w \in Detailed /\ work.eg = api'.egress[w] /\ work.eg \in Egress
      BY <1>1, <1>2, <3>1 DEF WorkOK, TypeOK, Seen
    <3>3. k \notin Written(Kinds) /\ <<k, w>> \notin lag
      BY <1>1, <1>2, <2>2
    <3>4. ~Differs(k)
      <4>1. \A j \in Earlier[k] \cup {k} : j \in Kinds
        BY DEF Earlier, Kinds
      <4> QED
        BY <1>6, <3>3, <4>1 DEF Written
    <3>5. api'.child[k][w] = cache.child[k][w] /\ cache.child[k][w] \in Child \cup {None}
      BY <1>1, <1>4, <2>2, <3>2, <3>3 DEF ApiStep, CacheOK, TypeOK, Objects
    <3>6. SUFFICES ASSUME Wanted(k, work.eg)
                   PROVE  /\ api'.child[k][w] # None
                          /\ work.eg.spec.opts \cap OptsOf[k] \subseteq api'.child[k][w].opts
                          /\ k = "deployment" =>
                                /\ api'.child[k][w].replicas = work.eg.spec.replicas
                                /\ "template" \in api'.child[k][w].opts
                                      => "template" \in work.eg.spec.opts
      BY <3>2 DEF AsWanted, Wanted
    <3>7. api'.child[k][w] = desired(k, cache.child[k][w], work.eg)
      BY <1>2, <3>4, <3>5, <3>6 DEF Differs, NewChild
    <3>8. api'.child[k][w] \in Child
      BY <3>2, <3>5, <3>7, DesiredMade
    <3> QED
      BY <3>2, <3>5, <3>7, <3>8, DesiredMade, EgressControllerAssumption
  <2>3. StepDone(w)
    BY <1>1, <2>2 DEF StepDone
  <2> QED
    BY <1>1, <1>2, <1>4, <2>1, <2>3, AdvanceStep
<1> QED
  BY <1>5, <1>6

LEMMA StatusStep ==
  ASSUME IInv, updateStatus
  PROVE  IInv'
<1>1. TypeOK /\ CacheOK /\ WorkOK /\ work.pc = "status"
      /\ UNCHANGED <<cache, bqueue, changes, faults>>
  BY DEF IInv, updateStatus
<1>2. PICK w \in Egresses : work.name = w
  BY <1>1 DEF TypeOK
<1>3. w \in Detailed /\ work.eg \in Egress
  BY <1>1, <1>2 DEF WorkOK, TypeOK
<1>4. changes' \in Nat /\ changes <= changes' /\ faults' \in Nat /\ changes + faults' <= MaxEvents
  BY <1>1 DEF TypeOK
<1> DEFINE depl == cache.child["deployment"][w]
<1>5. CASE Retry /\ NoWrite
  BY <1>1, <1>4, <1>5, NothingWritten, RetryStep
<1>6. CASE depl # None /\ ~changed(work.eg, depl)
  <2>1. Advance /\ NoWrite /\ queue' = queue
    BY <1>2, <1>6 DEF updateStatus
  <2>2. ApiStep
    BY <1>1, <1>4, <2>1, NothingWritten
  <2>3. ASSUME Seen(w)', <<"deployment", w>> \notin lag' PROVE StatusTrue(w)'
    <3>1. Seen(w) /\ api'.egress[w] = api.egress[w]
      BY <2>1, <2>2, <2>3, SeenBefore
    <3>2. work.eg = api'.egress[w]
      BY <1>1, <1>2, <3>1 DEF WorkOK, Seen
    <3>3. depl = api'.child["deployment"][w]
      BY <1>1, <1>3, <2>1, <2>3 DEF CacheOK, NoWrite, Kinds
    <3> QED
      BY <1>6, <3>2, <3>3 DEF StatusTrue, changed, newStatus
  <2>4. StepDone(w)
    BY <1>1, <2>3 DEF StepDone
  <2> QED
    BY <1>1, <1>2, <2>1, <2>2, <2>4, AdvanceStep
<1>7. CASE depl # None /\ changed(work.eg, depl) /\ api.egress[w] = work.eg
  <2> DEFINE o == [work.eg EXCEPT !.status = depl.available]
  <2>1. Advance /\ queue' = queue
        /\ Write([api EXCEPT !.egress[w].status = newStatus(work.eg, depl)], <<"egress", w>>)
    BY <1>2, <1>7 DEF updateStatus
  <2>2. depl \in Child /\ depl.available \in Nat
    BY <1>1, <1>3, <1>7 DEF TypeOK, Objects, Kinds, Child
  <2>3. o \in Egress /\ o.uid = api.egress[w].uid /\ Present(api, w)
    BY <1>3, <1>7, <2>2, EgressControllerAssumption DEF Egress, Present
  <2>4. [api EXCEPT !.egress[w].status = newStatus(work.eg, depl)] = [api EXCEPT !.egress[w] = o]
    BY <1>7 DEF newStatus
  <2> HIDE DEF o, depl
  <2>5. ApiStep
    BY <1>1, <1>4, <2>1, <2>3, <2>4, EgressWritten
  <2>6. ~Seen(w)'
    BY <2>1 DEF Write, Seen
  <2>7. StepDone(w)
    BY <1>1, <2>6 DEF StepDone
  <2> QED
    BY <1>1, <1>2, <2>1, <2>5, <2>7, AdvanceStep
<1> QED
  BY <1>2, <1>5, <1>6, <1>7 DEF updateStatus

\* A request fails; what was written before it stays.
LEMMA FailStep ==
  ASSUME IInv, RequestFails
  PROVE  IInv'
<1>1. TypeOK /\ WorkOK /\ work.pc # "idle" /\ UNCHANGED <<cache, bqueue, changes>>
      /\ changes + faults < MaxEvents /\ faults' = faults + 1 /\ Stopped /\ Retry
  BY DEF IInv, RequestFails
<1>2. changes' \in Nat /\ changes <= changes' /\ faults' \in Nat /\ changes + faults' <= MaxEvents
  BY <1>1, EgressControllerAssumption DEF TypeOK
<1>3. ApiStep
  <2>1. CASE work.pc # "children"
    BY <1>1, <1>2, <2>1, NothingWritten DEF Stopped
  <2>2. CASE work.pc = "children"
    <3>1. PICK k \in Kinds : /\ api' = CreateOrUpdate(Earlier[k])
                             /\ lag' = lag \cup (Written(Earlier[k]) \X {work.name})
      BY <1>1, <2>2 DEF Stopped
    <3>2. Earlier[k] \in SUBSET Kinds
      BY DEF Earlier, Kinds
    <3> QED
      BY <1>1, <1>2, <2>2, <3>1, <3>2, ChildrenWritten
  <2> QED
    BY <2>1, <2>2
<1> QED
  BY <1>1, <1>2, <1>3, RetryStep

\* The worker takes an Egress object out of the queue.
LEMMA ReconcileStep ==
  ASSUME IInv, NEW e \in Egresses, Reconcile(e)
  PROVE  IInv'
<1>1. TypeOK /\ CacheOK /\ UidOK /\ SettledOK /\ work = idle /\ queue' = queue \ {e}
      /\ UNCHANGED <<api, cache, lag, bqueue, changes, faults>>
  BY DEF IInv, Reconcile, TypeOK
<1>2. ApiStep
  BY <1>1, NothingWritten DEF NoWrite, TypeOK
<1>3. \A f, P : ~At(f, P \ {"idle"})
  BY <1>1 DEF At, idle
<1>4. CASE ~Present(cache, e)
  <2>1. work' = idle
    BY <1>4 DEF Reconcile
  <2>2. TypeOK'
    <3>1. WorkTyped'
      BY <2>1 DEF WorkTyped, PCs, idle
    <3> QED
      BY <1>1, <1>2, <3>1, TypeKept DEF TypeOK
  <2>3. CacheOK' /\ UidOK'
    BY <1>1, <1>2, <2>1, CacheKept, UidKept DEF WorkKept
  <2>4. WorkOK' /\ BoundOK'
    BY <2>1 DEF WorkOK, BoundOK, SameEgress, At, idle
  <2>5. SettledOK'
    <3>1. SUFFICES ASSUME NEW f \in Egresses, Seen(f)' PROVE Settled(f)'
      BY SettledSplitPrime
    <3>2. f # e
      BY <1>1, <1>4, <3>1 DEF Seen, CacheOK, Present
    <3>3. Seen(f)
      BY <1>1, <3>1, <3>2 DEF Seen, Present
    <3>4. Settled(f)
      BY <1>1, <3>3, SettledSplit
    <3> QED
      BY <1>1, <2>1, <3>4 DEF Settled, BindingsDone, AccountDone, StatusDone, ChildDone, At,
           Covered, AsWanted, StatusTrue
  <2> QED
    BY <2>2, <2>3, <2>4, <2>5 DEF IInv
<1>5. CASE Present(cache, e)
  <2>1. work' = [pc |-> IF e \in Detailed THEN "sa" ELSE "crb", name |-> e, eg |-> cache.egress[e]]
        /\ cache.egress[e] \in Egress
    BY <1>1, <1>5 DEF Reconcile, TypeOK, Objects, Present
  <2>2. TypeOK'
    <3>1. WorkTyped'
      BY <2>1 DEF WorkTyped, PCs, idle
    <3> QED
      BY <1>1, <1>2, <3>1, TypeKept DEF TypeOK
  <2>3. CacheOK'
    BY <1>1, <1>2, CacheKept
  <2>4. WorkOK'
    BY <1>1, <2>1 DEF WorkOK, CacheOK
  <2>5. UidOK'
    BY <1>1, <1>5, <2>1 DEF UidOK, SameEgress, At, Present
  <2>6. BoundOK'
    BY <2>1 DEF BoundOK, At, Past, UpTo
  <2>7. SettledOK'
    <3>1. SUFFICES ASSUME NEW f \in Egresses, Seen(f)' PROVE Settled(f)'
      BY SettledSplitPrime
    <3>2. CASE f = e
      BY <2>1, <3>2 DEF Settled, BindingsDone, AccountDone, StatusDone, ChildDone, At, UpTo, PCs
    <3>3. CASE f # e
      <4>1. Seen(f)
        BY <1>1, <3>1, <3>3 DEF Seen, Present
      <4>2. Settled(f)
        BY <1>1, <4>1, SettledSplit
      <4>3. BindingsDone(f)'
        BY <1>1, <4>2 DEF Settled, BindingsDone, Covered, At, UpTo, idle
      <4>4. f \in Detailed => AccountDone(f)' /\ StatusDone(f)'
        BY <1>1, <4>2 DEF Settled, AccountDone, StatusDone, StatusTrue, At, idle
      <4>5. ASSUME f \in Detailed, NEW k \in Kinds PROVE ChildDone(k, f)'
        BY <1>1, <4>2, <4>5 DEF Settled, ChildDone, AsWanted, At, idle
      <4> QED
        BY <4>3, <4>4, <4>5 DEF Settled
    <3> QED
      BY <3>2, <3>3
  <2> QED
    BY <2>2, <2>3, <2>4, <2>5, <2>6, <2>7 DEF IInv
<1> QED
  BY <1>4, <1>5

\* The step of crbReconciler: the worker of EgressReconciler may be anywhere.
LEMMA CRBStep ==
  ASSUME IInv, NEW b \in Bindings, CRBReconcile(b)
  PROVE  IInv'
<1>1. TypeOK /\ CacheOK /\ WorkOK /\ UidOK /\ BoundOK /\ SettledOK /\ reconcileCRB(b)
      /\ UNCHANGED <<cache, queue, work, changes, faults>>
      /\ bqueue' = IF CRBError(b) THEN bqueue ELSE bqueue \ {b}
  BY DEF IInv, CRBReconcile
<1>2. ApiStep
  BY <1>1, BindingWritten
<1>3. WorkKept
  BY <1>1 DEF TypeOK, WorkKept
<1>4. TypeOK'
  <2>1. WorkTyped' /\ queue' \subseteq Egresses /\ bqueue' \subseteq Bindings
        /\ faults' \in Nat /\ changes' + faults' <= MaxEvents
    BY <1>1 DEF TypeOK, WorkTyped
  <2> QED
    BY <1>1, <1>2, <2>1, TypeKept
<1>5. CacheOK' /\ UidOK'
  BY <1>1, <1>2, <1>3, CacheKept, UidKept
<1>6. WorkOK'
  <2>1. work.pc # "idle" => work.name \in Egresses
    BY <1>1 DEF TypeOK
  <2> QED
    BY <1>1, <1>2, <2>1 DEF WorkOK, ApiStep
<1>7. ASSUME NEW e \in Egresses, NEW c \in Bindings, Present(cache, e), Covered(e, c)
      PROVE  Covered(e, c)'
  <2>1. CASE c = b /\ ~CRBError(b)
    BY <1>1, <1>7, <2>1, BindingCovers DEF Covered
  <2>2. CASE ~(c = b /\ ~CRBError(b))
    BY <1>1, <1>2, <1>7, <2>2, CoveredKept
  <2> QED
    BY <2>1, <2>2
<1>8. BoundOK'
  <2>1. SUFFICES ASSUME NEW e \in Detailed, NEW c \in Bindings, SameEgress(e)', At(e, Past(c))'
                 PROVE  Covered(e, c)'
    BY DEF BoundOK, Past, UpTo
  <2>2. SameEgress(e) /\ At(e, Past(c)) /\ e \in Egresses /\ Present(cache, e)
    BY <1>1, <1>2, <1>3, <2>1, SameBefore, EgressControllerAssumption DEF At
  <2> QED
    BY <1>1, <1>7, <2>2 DEF BoundOK
<1>9. SettledOK'
  <2>1. SUFFICES ASSUME NEW e \in Egresses, Seen(e)' PROVE Settled(e)'
    BY SettledSplitPrime
  <2>2. Seen(e) /\ api'.egress[e] = api.egress[e]
    BY <1>1, <1>2, <2>1, SeenBefore
  <2>3. Settled(e) /\ Present(cache, e)
    BY <1>1, <2>2, SettledSplit DEF Seen, CacheOK, Present
  <2>4. BindingsDone(e)'
    BY <1>1, <1>7, <2>3 DEF Settled, BindingsDone, At, UpTo
  <2>5. e \in Detailed => AccountDone(e)' /\ StatusDone(e)'
    BY <1>1, <1>2, <2>2, <2>3, DoneKept DEF Settled, AccountDone, StatusDone, At, PCs
  <2>6. ASSUME e \in Detailed, NEW k \in Kinds PROVE ChildDone(k, e)'
    BY <1>1, <1>2, <2>2, <2>3, <2>6, DoneKept DEF Settled, ChildDone, At
  <2> QED
    BY <2>4, <2>5, <2>6 DEF Settled
<1> QED
  BY <1>4, <1>5, <1>6, <1>8, <1>9 DEF IInv

-----------------------------------------------------------------------------
(* Events and restarts *)

\* What a step does that updates the caches: who has to know is queued.
EventStep ==
    /\ cache' \in Objects /\ CacheOK'
    /\ UNCHANGED <<api, work, changes, faults>>
    /\ lag' \subseteq lag
    /\ queue \subseteq queue' /\ queue' \subseteq Egresses
    /\ bqueue \subseteq bqueue' /\ bqueue' \subseteq Bindings
    /\ \A e \in Egresses : <<"egress", e>> \in lag => <<"egress", e>> \in lag' \/ e \in queue'
    /\ \A k \in Kinds, e \in Detailed : <<k, e>> \in lag => <<k, e>> \in lag' \/ e \in queue'
    /\ \A b \in Bindings : <<"crb", b>> \in lag => <<"crb", b>> \in lag' \/ b \in bqueue'
    /\ \A e \in Egresses : cache'.egress[e] \in {cache.egress[e], api.egress[e]}

LEMMA EventsApplied ==
  ASSUME IInv, EventStep
  PROVE  IInv'
<1>1. TypeOK /\ WorkOK /\ UidOK /\ BoundOK /\ SettledOK
  BY DEF IInv
<1>2. TypeOK'
  BY <1>1 DEF TypeOK, EventStep
<1>3. WorkOK'
  <2>1. work.pc # "idle" => work.name \in Egresses
    BY <1>1 DEF TypeOK
  <2> QED
    BY <1>1, <2>1 DEF WorkOK, EventStep
<1>4. UidOK'
  <2>1. SUFFICES ASSUME NEW e \in Detailed
        PROVE  /\ Present(api, e)' => api'.egress[e].uid <= changes'
               /\ Present(cache, e)' => cache'.egress[e].uid <= changes'
               /\ At(e, PCs \ {"idle"})' => work'.eg.uid <= changes'
               /\ SameEgress(e)' => Present(cache, e)'
    BY DEF UidOK
  <2>2. e \in Egresses
    BY EgressControllerAssumption
  <2>3. cache'.egress[e] \in {cache.egress[e], api.egress[e]} /\ api' = api /\ work' = work
        /\ changes' = changes
    BY <2>2 DEF EventStep
  <2>4. SameEgress(e)' => SameEgress(e) /\ Present(api, e)
    BY <2>3 DEF SameEgress, At, Present
  <2> QED
    BY <1>1, <2>3, <2>4 DEF UidOK, Present, At
<1>5. \A e \in Egresses, b \in Bindings : Covered(e, b) => Covered(e, b)'
  BY DEF Covered, EventStep
<1>6. BoundOK'
  <2>1. SUFFICES ASSUME NEW e \in Detailed, NEW b \in Bindings, SameEgress(e)', At(e, Past(b))'
                 PROVE  Covered(e, b)'
    BY DEF BoundOK, Past, UpTo
  <2>2. SameEgress(e) /\ At(e, Past(b)) /\ e \in Egresses
    BY <2>1, EgressControllerAssumption DEF SameEgress, At, Present, EventStep
  <2> QED
    BY <1>1, <1>5, <2>2 DEF BoundOK
<1>7. SettledOK'
  <2>1. SUFFICES ASSUME NEW e \in Egresses, Seen(e)' PROVE Settled(e)'
    BY SettledSplitPrime
  <2>2. Seen(e) /\ e \notin queue' /\ api' = api /\ work' = work
    BY <2>1 DEF Seen, Present, EventStep
  <2>3. Settled(e)
    BY <1>1, <2>2, SettledSplit
  <2>4. BindingsDone(e)'
    BY <1>5, <2>2, <2>3 DEF Settled, BindingsDone, At, UpTo
  <2>5. ASSUME e \in Detailed, NEW k \in Kinds PROVE <<k, e>> \in lag => <<k, e>> \in lag'
    BY <2>2, <2>5 DEF EventStep
  <2>6. e \in Detailed => AccountDone(e)'
    BY <2>2, <2>3 DEF Settled, AccountDone, At
  <2>7. ASSUME e \in Detailed PROVE StatusDone(e)'
    <3>1. "deployment" \in Kinds
      BY DEF Kinds
    <3> QED
      BY <2>2, <2>3, <2>5, <2>7, <3>1 DEF Settled, StatusDone, StatusTrue, At, PCs
  <2>8. ASSUME e \in Detailed, NEW k \in Kinds PROVE ChildDone(k, e)'
    BY <2>2, <2>3, <2>5, <2>8 DEF Settled, ChildDone, AsWanted, At
  <2> QED
    BY <2>4, <2>6, <2>7, <2>8 DEF Settled
<1> QED
  BY <1>2, <1>3, <1>4, <1>6, <1>7 DEF IInv, EventStep

\* The events of one kind of objects leave those of the others.
LEMMA OtherEvents ==
  ASSUME NEW kind, NEW j, j # kind, NEW n
  PROVE  <<j, n>> \in lag => <<j, n>> \in lag \ LagOf(kind)
BY DEF LagOf

LEMMA TheseEvents ==
  ASSUME NEW kind, NEW n, <<kind, n>> \in lag
  PROVE  <<kind, n>> \in LagOf(kind) /\ n \in {id[2] : id \in LagOf(kind)}
<1>1. <<kind, n>> \in LagOf(kind)
  BY DEF LagOf
<1>2. <<kind, n>>[2] = n
  OBVIOUS
<1> QED
  BY <1>1, <1>2

LEMMA EgressEvents ==
  ASSUME IInv, ObserveEgresses
  PROVE  IInv'
<1>1. TypeOK /\ CacheOK
  BY DEF IInv
<1>2. cache' = [cache EXCEPT !.egress = api.egress] /\ lag' = lag \ LagOf("egress")
      /\ queue' = queue \cup {id[2] : id \in LagOf("egress")}
      /\ UNCHANGED <<api, bqueue, work, changes, faults>>
  BY DEF ObserveEgresses
<1>3. cache' \in Objects /\ cache'.egress = api.egress
      /\ cache'.child = cache.child /\ cache'.sa = cache.sa /\ cache'.crb = cache.crb
  BY <1>1, <1>2 DEF TypeOK, Objects
<1>4. {id[2] : id \in LagOf("egress")} \subseteq Egresses
  BY <1>1 DEF TypeOK, Ids, LagOf, Kinds
<1>5. \A k \in Kinds : k # "egress"
  BY DEF Kinds
<1>6. CacheOK'
  BY <1>1, <1>2, <1>3, <1>5, OtherEvents DEF CacheOK
<1>7. EventStep
  BY <1>1, <1>2, <1>3, <1>4, <1>5, <1>6, OtherEvents, TheseEvents DEF EventStep, TypeOK
<1> QED
  BY <1>7, EventsApplied

LEMMA ChildEvents ==
  ASSUME IInv, NEW k \in Kinds, ObserveChildren(k)
  PROVE  IInv'
<1>1. TypeOK /\ CacheOK
  BY DEF IInv
<1>2. cache' = [cache EXCEPT !.child[k] = api.child[k]] /\ lag' = lag \ LagOf(k)
      /\ queue' = queue \cup {id[2] : id \in LagOf(k)}
      /\ UNCHANGED <<api, bqueue, work, changes, faults>>
  BY DEF ObserveChildren
<1>3. cache' \in Objects /\ cache'.child = [cache.child EXCEPT ![k] = api.child[k]]
      /\ cache'.egress = cache.egress /\ cache'.sa = cache.sa /\ cache'.crb = cache.crb
  BY <1>1, <1>2 DEF TypeOK, Objects
<1>4. \A j \in Kinds : cache'.child[j] = IF j = k THEN api.child[k] ELSE cache.child[j]
  BY <1>1, <1>3 DEF TypeOK, Objects
<1>5. k # "egress" /\ k # "crb" /\ k # "sa"
  BY DEF Kinds
<1>6. {id[2] : id \in LagOf(k)} \subseteq Egresses
  BY <1>1, <1>5, EgressControllerAssumption DEF TypeOK, Ids, LagOf
<1>7. CacheOK'
  BY <1>1, <1>2, <1>3, <1>4, <1>5, OtherEvents DEF CacheOK
<1>8. EventStep
  BY <1>1, <1>2, <1>3, <1>5, <1>6, <1>7, OtherEvents, TheseEvents DEF EventStep, TypeOK
<1> QED
  BY <1>8, EventsApplied

LEMMA AccountEvents ==
  ASSUME IInv, ObserveServiceAccounts
  PROVE  IInv'
<1>1. TypeOK /\ CacheOK
  BY DEF IInv
<1>2. cache' = [cache EXCEPT !.sa = api.sa] /\ lag' = lag \ LagOf("sa")
      /\ UNCHANGED <<api, queue, bqueue, work, changes, faults>>
  BY DEF ObserveServiceAccounts
<1>3. cache' \in Objects /\ cache'.sa = api.sa
      /\ cache'.egress = cache.egress /\ cache'.child = cache.child /\ cache'.crb = cache.crb
  BY <1>1, <1>2 DEF TypeOK, Objects
<1>4. \A k \in Kinds : k # "sa"
  BY DEF Kinds
<1>5. CacheOK'
  BY <1>1, <1>2, <1>3, <1>4, OtherEvents DEF CacheOK
<1>6. EventStep
  BY <1>1, <1>2, <1>3, <1>4, <1>5, OtherEvents DEF EventStep, TypeOK
<1> QED
  BY <1>6, EventsApplied

LEMMA BindingEvents ==
  ASSUME IInv, ObserveBindings
  PROVE  IInv'
<1>1. TypeOK /\ CacheOK
  BY DEF IInv
<1>2. cache' = [cache EXCEPT !.crb = api.crb] /\ lag' = lag \ LagOf("crb")
      /\ bqueue' = bqueue \cup {id[2] : id \in LagOf("crb")}
      /\ UNCHANGED <<api, queue, work, changes, faults>>
  BY DEF ObserveBindings
<1>3. cache' \in Objects /\ cache'.crb = api.crb
      /\ cache'.egress = cache.egress /\ cache'.child = cache.child /\ cache'.sa = cache.sa
  BY <1>1, <1>2 DEF TypeOK, Objects
<1>4. {id[2] : id \in LagOf("crb")} \subseteq Bindings
  BY <1>1 DEF TypeOK, Ids, LagOf, Kinds
<1>5. \A k \in Kinds : k # "crb"
  BY DEF Kinds
<1>6. CacheOK'
  <2>1. \A e \in Egresses : <<"egress", e>> \in lag' \/ cache'.egress[e] = api'.egress[e]
    BY <1>1, <1>2, <1>3, OtherEvents DEF CacheOK
  <2>2. ASSUME NEW k \in Kinds, NEW e \in Detailed
        PROVE  <<k, e>> \in lag' \/ cache'.child[k][e] = api'.child[k][e]
    <3>1. <<k, e>> \in lag => <<k, e>> \in lag'
      BY <1>2, <1>5, OtherEvents
    <3> QED
      BY <1>1, <1>2, <1>3, <3>1 DEF CacheOK
  <2> QED
    BY <1>1, <1>2, <1>3, <2>1, <2>2 DEF CacheOK
<1>7. EventStep
  BY <1>1, <1>2, <1>3, <1>4, <1>5, <1>6, OtherEvents, TheseEvents DEF EventStep, TypeOK
<1> QED
  BY <1>7, EventsApplied

\* After a restart everything is queued.
LEMMA RestartStep ==
  ASSUME IInv, Restart
  PROVE  IInv'
<1>1. TypeOK /\ WorkOK /\ UidOK
  BY DEF IInv
<1>2. cache' = api' /\ lag' = {} /\ bqueue' = Bindings /\ work' = idle /\ changes' = changes
      /\ faults' = faults + 1 /\ changes + faults < MaxEvents
      /\ queue' = {e \in Egresses : Present(api', e)}
                  \cup {e \in Detailed : \E k \in Kinds : api'.child[k][e] # None}
  BY DEF Restart
<1>3. api' \in Objects /\ api'.egress = api.egress /\ api'.crb = api.crb
  <2>1. PICK K \in {Earlier[k] : k \in Kinds} \cup {Kinds} :
            api' = IF work.pc = "children" THEN CreateOrUpdate(K) ELSE api
    BY DEF Restart
  <2>2. K \in SUBSET Kinds
    BY DEF Earlier, Kinds
  <2>3. CASE work.pc # "children"
    BY <1>1, <2>1, <2>3 DEF TypeOK
  <2>4. CASE work.pc = "children"
    <3> DEFINE c == [k \in Kinds |-> IF k \in Written(K)
                        THEN [api.child[k] EXCEPT ![work.name] = NewChild(k)] ELSE api.child[k]]
    <3>1. work.name \in Detailed /\ work.eg \in Egress
      BY <1>1, <2>4 DEF WorkOK, TypeOK
    <3>2. \A k \in Kinds : NewChild(k) \in Child
      <4>1. \A k \in Kinds : cache.child[k][work.name] \in Child \cup {None}
        BY <1>1, <3>1 DEF TypeOK, Objects
      <4> QED
        BY <3>1, <4>1, DesiredMade DEF NewChild
    <3>3. c \in [Kinds -> [Detailed -> Child \cup {None}]]
      BY <1>1, <3>2 DEF TypeOK, Objects
    <3>4. api' = [api EXCEPT !.child = c]
      BY <2>1, <2>4 DEF CreateOrUpdate
    <3> HIDE DEF c
    <3> QED
      BY <1>1, <3>3, <3>4 DEF TypeOK, Objects
  <2> QED
    BY <2>3, <2>4
<1>4. TypeOK'
  BY <1>1, <1>2, <1>3, EgressControllerAssumption DEF TypeOK, PCs, idle
<1>5. CacheOK'
  BY <1>2 DEF CacheOK
<1>6. WorkOK' /\ BoundOK'
  BY <1>2 DEF WorkOK, BoundOK, SameEgress, At, idle
<1>7. UidOK'
  <2>1. \A e, P : ~At(e, P \ {"idle"})'
    BY <1>2 DEF At, idle
  <2> QED
    BY <1>1, <1>2, <1>3, <2>1 DEF UidOK, SameEgress, Present
<1>8. SettledOK'
  <2>1. \A e \in Egresses : ~Seen(e)'
    BY <1>2 DEF Seen, Present
  <2> QED
    BY <2>1, SettledSplitPrime
<1> QED
  BY <1>4, <1>5, <1>6, <1>7, <1>8 DEF IInv

-----------------------------------------------------------------------------
(* Users and the other controllers of the cluster *)

\* A change by a user stays within the bound.
LEMMA ChangeCounted ==
  ASSUME TypeOK, Change
  PROVE  changes' = changes + 1 /\ changes' \in Nat /\ changes <= changes'
         /\ (faults' = faults => changes' + faults <= MaxEvents)
BY EgressControllerAssumption DEF TypeOK, Change

LEMMA UserStep ==
  ASSUME IInv, NEW e \in Egresses, CreateEgress(e) \/ UpdateEgress(e) \/ DeleteEgress(e)
  PROVE  IInv'
<1>1. TypeOK /\ Change /\ UNCHANGED <<cache, queue, bqueue, work, faults>>
  BY DEF IInv, CreateEgress, UpdateEgress, DeleteEgress
<1>2. changes' = changes + 1 /\ changes' \in Nat /\ changes <= changes'
      /\ changes' + faults <= MaxEvents /\ changes < changes' /\ changes' <= changes'
  BY <1>1, ChangeCounted DEF TypeOK
<1>3. \A i \in DOMAIN Versions[e] : Versions[e][i] \in Specs
  BY VersionsTyped
<1>4. ApiStep
  <2>1. CASE CreateEgress(e)
    <3>1. PICK i \in DOMAIN Versions[e] :
            Write([api EXCEPT !.egress[e] =
                      [uid |-> IF e \in Detailed THEN changes' ELSE 0,
                       spec |-> Versions[e][i], status |-> 0]],
                  <<"egress", e>>)
      BY <2>1 DEF CreateEgress
    <3> DEFINE o == [uid |-> IF e \in Detailed THEN changes' ELSE 0,
                     spec |-> Versions[e][i], status |-> 0]
    <3>2. o \in Egress /\ (e \in Detailed => o.uid = changes')
      BY <1>2, <1>3 DEF Egress
    <3>3. Write([api EXCEPT !.egress[e] = o], <<"egress", e>>)
      BY <3>1
    <3> HIDE DEF o
    <3> QED
      BY <1>1, <1>2, <3>2, <3>3, EgressWritten
  <2>2. CASE UpdateEgress(e)
    <3>1. PICK i \in DOMAIN Versions[e] :
            Write([api EXCEPT !.egress[e].spec = Versions[e][i]], <<"egress", e>>)
      BY <2>2 DEF UpdateEgress
    <3> DEFINE o == [api.egress[e] EXCEPT !.spec = Versions[e][i]]
    <3>2. Present(api, e) /\ api.egress[e] \in Egress
      BY <1>1, <2>2 DEF UpdateEgress, TypeOK, Objects, Present
    <3>3. o \in Egress /\ o.uid = api.egress[e].uid
      BY <1>3, <3>2 DEF Egress
    <3>4. Write([api EXCEPT !.egress[e] = o], <<"egress", e>>)
      BY <3>1
    <3> HIDE DEF o
    <3> QED
      BY <1>1, <1>2, <3>2, <3>3, <3>4, EgressWritten
  <2>3. CASE DeleteEgress(e)
    <3>1. Write([api EXCEPT !.egress[e] = None], <<"egress", e>>)
      BY <2>3 DEF DeleteEgress
    <3> QED
      BY <1>1, <1>2, <3>1, EgressWritten
  <2> QED
    BY <2>1, <2>2, <2>3
<1> QED
  BY <1>1, <1>2, <1>4, ClusterStep

LEMMA ChildChangeStep ==
  ASSUME IInv, NEW e \in Detailed, NEW k \in Kinds,
         DeleteChild(k, e) \/ CollectGarbage(k, e) \/ RollOut(e)
  PROVE  IInv'
<1>1. TypeOK /\ UNCHANGED <<cache, queue, bqueue, work, faults>>
  BY DEF IInv, DeleteChild, CollectGarbage, RollOut
<1>2. changes' \in Nat /\ changes <= changes' /\ changes' + faults <= MaxEvents
  <2>1. CASE DeleteChild(k, e)
    BY <1>1, <2>1, ChangeCounted DEF DeleteChild
  <2>2. CASE CollectGarbage(k, e) \/ RollOut(e)
    BY <1>1, <2>2 DEF CollectGarbage, RollOut, TypeOK
  <2> QED
    BY <2>1, <2>2
<1>3. CASE DeleteChild(k, e) \/ CollectGarbage(k, e)
  <2>1. Write([api EXCEPT !.child[k][e] = None], <<k, e>>)
    BY <1>3 DEF DeleteChild, CollectGarbage
  <2> QED
    BY <1>1, <1>2, <2>1, ChildWritten, ClusterStep
<1>4. CASE RollOut(e)
  <2> DEFINE o == RolledOut(api.child["deployment"][e])
  <2>1. Write([api EXCEPT !.child["deployment"][e] = o], <<"deployment", e>>)
    BY <1>4 DEF RollOut
  <2>2. "deployment" \in Kinds
    BY DEF Kinds
  <2>3. api.child["deployment"][e] \in Child
    BY <1>1, <1>4, <2>2 DEF RollOut, Ready, TypeOK, Objects
  <2>4. o \in Child
    BY <2>3 DEF RolledOut, Child
  <2> HIDE DEF o
  <2> QED
    BY <1>1, <1>2, <2>1, <2>2, <2>4, ChildWritten, ClusterStep
<1> QED
  BY <1>3, <1>4

-----------------------------------------------------------------------------
(* The theorems *)

\* A new cluster, and one whose Egress objects have been reconciled.
LEMMA InitIInv == Init => IInv
<1>1. SUFFICES ASSUME Init PROVE IInv
  OBVIOUS
<1> DEFINE eg(e) == [uid |-> 0, spec |-> Head(Versions[e]), status |-> Head(Versions[e]).replicas]
<1>2. PICK S \in {{}, Egresses} :
        api = [egress |-> [e \in Egresses |-> IF e \in S THEN eg(e) ELSE None],
               child |-> [k \in Kinds |->
                   [e \in Detailed |->
                       IF e \notin S \/ ~Wanted(k, eg(e)) THEN None
                       ELSE RolledOut(desired(k, None, eg(e)))]],
               sa |-> {NsOf[e] : e \in S \cap Detailed},
               crb |-> [b \in Bindings |-> Sorted({NsOf[e] : e \in S})]]
  BY <1>1 DEF Init
<1>3. cache = api /\ lag = {} /\ queue = {} /\ bqueue = {} /\ work = idle
      /\ changes = 0 /\ faults = 0
  BY <1>1 DEF Init
<1>4. S \in SUBSET Egresses /\ Detailed \in SUBSET Egresses
  BY EgressControllerAssumption
<1>5. \A e \in Egresses : eg(e) \in Egress /\ eg(e).uid = 0 /\ eg(e) # None
                          /\ eg(e).status = eg(e).spec.replicas
  <2>1. SUFFICES ASSUME NEW e \in Egresses PROVE Head(Versions[e]) \in Specs
    BY EgressControllerAssumption DEF Egress, Specs
  <2> QED
    BY VersionsTyped
<1> HIDE DEF eg
<1> DEFINE made(k, e) == RolledOut(desired(k, None, eg(e)))
<1>6. ASSUME NEW k \in Kinds, NEW e \in Detailed
      PROVE  /\ made(k, e) \in Child /\ made(k, e) # None
             /\ eg(e).spec.opts \cap OptsOf[k] \subseteq made(k, e).opts
             /\ made(k, e).available = made(k, e).replicas
             /\ k = "deployment" =>
                   /\ made(k, e).replicas = eg(e).spec.replicas
                   /\ "template" \in made(k, e).opts => "template" \in eg(e).spec.opts
  <2> DEFINE d == desired(k, None, eg(e))
  <2>1. /\ d \in Child
        /\ eg(e).spec.opts \cap OptsOf[k] \subseteq d.opts
        /\ k = "deployment" =>
              /\ d.replicas = eg(e).spec.replicas
              /\ "template" \in d.opts => "template" \in eg(e).spec.opts
    BY <1>4, <1>5, DesiredMade
  <2> HIDE DEF d
  <2>2. made(k, e) = [d EXCEPT !.available = d.replicas]
    BY DEF RolledOut, d
  <2>3. made(k, e) \in Child
    BY <2>1, <2>2 DEF Child
  <2> HIDE DEF made
  <2> QED
    BY <2>1, <2>2, <2>3, EgressControllerAssumption DEF Child
<1>7. \A e \in Egresses : api.egress[e] = IF e \in S THEN eg(e) ELSE None
  BY <1>2
<1>8. \A k \in Kinds, e \in Detailed :
        api.child[k][e] = IF e \notin S \/ ~Wanted(k, eg(e)) THEN None ELSE made(k, e)
  BY <1>2
<1>9. \A b \in Bindings : api.crb[b] \in Seq(Namespaces) /\ InOrder(api.crb[b])
        /\ \A e \in S : \E i \in DOMAIN api.crb[b] : api.crb[b][i] = NsOf[e]
  <2>1. SUFFICES ASSUME NEW b \in Bindings
                 PROVE  /\ api.crb[b] \in Seq(Namespaces) /\ InOrder(api.crb[b])
                        /\ \A e \in S : \E i \in DOMAIN api.crb[b] : api.crb[b][i] = NsOf[e]
    OBVIOUS
  <2>2. api.crb[b] = Sorted({NsOf[e] : e \in S})
    BY <1>2
  <2> DEFINE s == Sorted({NsOf[e] : e \in S})
  <2>3. s \in Seq(Namespaces) /\ (\A i, j \in 1 .. Len(s) : i < j => s[i] < s[j])
        /\ \A e \in S : \E i \in DOMAIN s : s[i] = NsOf[e]
    BY <1>4, NamespacesSorted
  <2> HIDE DEF s
  <2>4. api.crb[b] = s
    BY <2>2 DEF s
  <2> QED
    BY <2>3, <2>4 DEF InOrder
<1> HIDE DEF made
<1>10. api \in Objects
  <2>1. [e \in Egresses |-> IF e \in S THEN eg(e) ELSE None] \in [Egresses -> Egress \cup {None}]
    BY <1>5
  <2>2. [k \in Kinds |->
            [e \in Detailed |->
                IF e \notin S \/ ~Wanted(k, eg(e)) THEN None
                ELSE RolledOut(desired(k, None, eg(e)))]]
        \in [Kinds -> [Detailed -> Child \cup {None}]]
    BY <1>6 DEF made
  <2>3. {NsOf[e] : e \in S \cap Detailed} \in SUBSET Namespaces
    BY <1>4 DEF Namespaces
  <2>4. [b \in Bindings |-> Sorted({NsOf[e] : e \in S})] \in [Bindings -> Seq(Namespaces)]
    BY <1>4, NamespacesSorted
  <2> QED
    BY <1>2, <2>1, <2>2, <2>3, <2>4 DEF Objects
<1>11. TypeOK
  BY <1>3, <1>9, <1>10, EgressControllerAssumption DEF TypeOK, InOrder, PCs, idle
<1>12. CacheOK
  BY <1>3 DEF CacheOK
<1>13. WorkOK /\ BoundOK
  BY <1>3 DEF WorkOK, BoundOK, SameEgress, At, idle
<1>14. UidOK
  BY <1>3, <1>4, <1>5, <1>7 DEF UidOK, SameEgress, At, Present, idle
<1>15. SettledOK
  <2>1. SUFFICES ASSUME NEW e \in Egresses, Seen(e) PROVE Settled(e)
    BY SettledSplit
  <2>2. e \in S /\ api.egress[e] = eg(e)
    BY <1>7, <2>1 DEF Seen, Present
  <2>3. BindingsDone(e)
    BY <1>9, <2>2 DEF BindingsDone, Covered
  <2>4. ASSUME e \in Detailed PROVE AccountDone(e)
    BY <1>2, <2>2, <2>4 DEF AccountDone
  <2>5. ASSUME e \in Detailed, NEW k \in Kinds PROVE ChildDone(k, e)
    BY <1>6, <1>8, <2>2, <2>5 DEF ChildDone, AsWanted
  <2>6. ASSUME e \in Detailed PROVE StatusDone(e)
    <3>1. "deployment" \in Kinds /\ Wanted("deployment", eg(e))
      BY DEF Kinds, Wanted
    <3>2. api.child["deployment"][e] = made("deployment", e)
      BY <1>8, <2>2, <2>6, <3>1
    <3> QED
      BY <1>5, <1>6, <2>2, <2>6, <3>1, <3>2 DEF StatusDone, StatusTrue
  <2> QED
    BY <2>3, <2>4, <2>5, <2>6 DEF Settled
<1> QED
  BY <1>11, <1>12, <1>13, <1>14, <1>15 DEF IInv

LEMMA NextIInv == IInv /\ [Next]_vars => IInv'
<1>1. SUFFICES ASSUME IInv, [Next]_vars PROVE IInv'
  OBVIOUS
<1>2. CASE WorkNext
  <2>1. ASSUME ReconcileBinding("crb", "coil-egress") PROVE IInv'
    BY <1>1, <2>1, BindingStep
  <2>2. ASSUME ReconcileBinding("psp", "psp-coil-egress") PROVE IInv'
    BY <1>1, <2>2, BindingStep
  <2> QED
    BY <1>1, <1>2, <2>1, <2>2, AccountStep, ChildrenStep, StatusStep DEF WorkNext
<1>3. CASE ObserveNext
  BY <1>1, <1>3, EgressEvents, AccountEvents, BindingEvents, ChildEvents DEF ObserveNext
<1>4. CASE ClusterNext
  <2>1. PICK e \in Detailed : RollOut(e) \/ \E k \in Kinds : CollectGarbage(k, e)
    BY <1>4 DEF ClusterNext
  <2>2. "deployment" \in Kinds
    BY DEF Kinds
  <2> QED
    BY <1>1, <2>1, <2>2, ChildChangeStep
<1>5. CASE \E b \in Bindings : CRBReconcile(b)
  BY <1>1, <1>5, CRBStep
<1>6. CASE RequestFails \/ Restart
  BY <1>1, <1>6, FailStep, RestartStep
<1>7. CASE \E e \in Egresses : Reconcile(e) \/ CreateEgress(e) \/ UpdateEgress(e) \/ DeleteEgress(e)
  BY <1>1, <1>7, ReconcileStep, UserStep
<1>8. CASE \E e \in Detailed, k \in Kinds : DeleteChild(k, e)
  BY <1>1, <1>8, ChildChangeStep
<1>9. CASE UNCHANGED vars
  BY <1>1, <1>9 DEF vars, IInv, TypeOK, CacheOK, WorkOK, UidOK, BoundOK, SettledOK, SameEgress,
       At, Present, Covered, Seen, BindingsDone, AccountDone, ChildDone, StatusDone,
       AsWanted, StatusTrue
<1> QED
  BY <1>1, <1>2, <1>3, <1>4, <1>5, <1>6, <1>7, <1>8, <1>9 DEF Next

\* The invariant, for every set of Egress objects and any changes and faults.
THEOREM Invariance == Spec => []IInv
BY InitIInv, NextIInv, PTL DEF Spec

\* Objects, caches, queues and the worker have their types, and the subjects of
\* the bindings are in the order of their names: sort.Strings in reconcileCRB.
THEOREM TypeCorrect == Spec => []TypeOK
<1>1. IInv => TypeOK
  BY DEF IInv
<1> QED
  BY <1>1, Invariance, PTL

\* When all events are processed, every Egress object has its roles, its own
\* objects and a true status, whatever order the two reconcilers, the users and
\* the faults came in.
THEOREM AsSpecified == Spec => []EgressAsSpecified
<1>1. IInv => EgressAsSpecified
  <2>1. SUFFICES ASSUME IInv, Quiet, NEW e \in Egresses, Present(api, e)
                 PROVE  /\ SubjectsCover(e)
                        /\ e \in Detailed => ChildrenAsSpecified(e) /\ StatusTrue(e)
    BY DEF EgressAsSpecified
  <2>2. lag = {} /\ queue = {} /\ bqueue = {} /\ work = idle
    BY <2>1 DEF Quiet
  <2>3. Settled(e)
    BY <2>1, <2>2, SettledSplit DEF IInv, Seen
  <2>4. \A P : ~At(e, P \ {"idle"})
    BY <2>2 DEF At, idle
  <2>5. SubjectsCover(e)
    <3>1. SUFFICES ASSUME NEW b \in Bindings
                   PROVE  \E i \in DOMAIN api.crb[b] : api.crb[b][i] = NsOf[e]
      BY DEF SubjectsCover
    <3>2. ~At(e, UpTo(b))
      BY <2>2 DEF At, idle, UpTo
    <3> QED
      BY <2>2, <2>3, <3>2 DEF Settled, BindingsDone, Covered
  <2>6. ASSUME e \in Detailed PROVE ChildrenAsSpecified(e)
    <3>1. NsOf[e] \in api.sa
      BY <2>2, <2>3, <2>6 DEF Settled, AccountDone, At, idle
    <3>2. ASSUME NEW k \in Kinds, Wanted(k, api.egress[e])
          PROVE  /\ api.child[k][e] # None
                 /\ api.child[k][e].owner = api.egress[e].uid
                 /\ api.egress[e].spec.opts \cap OptsOf[k] \subseteq api.child[k][e].opts
                 /\ k = "deployment" =>
                       /\ api.child[k][e].replicas = api.egress[e].spec.replicas
                       /\ "template" \in api.child[k][e].opts
                             => "template" \in api.egress[e].spec.opts
      <4>1. AsWanted(k, e)
        BY <2>2, <2>3, <2>6 DEF Settled, ChildDone, At, idle
      <4>2. ~Garbage(k, e)
        BY <2>1, <2>6 DEF Quiet
      <4> QED
        BY <2>1, <3>2, <4>1, <4>2 DEF AsWanted, Garbage
    <3> QED
      BY <3>1, <3>2 DEF ChildrenAsSpecified
  <2>7. e \in Detailed => StatusTrue(e)
    BY <2>2, <2>3, <2>4 DEF Settled, StatusDone
  <2> QED
    BY <2>5, <2>6, <2>7
<1> QED
  BY <1>1, Invariance, PTL

-----------------------------------------------------------------------------
(* The order of Reconcile *)

\* Only CreateOrUpdate makes a Deployment: in the step itself, before a request
\* that fails, or before the controller dies.
LEMMA DeploymentMade ==
  ASSUME IInv, [Next]_vars, NEW e \in Detailed,
         api.child["deployment"][e] = None, api'.child["deployment"][e] # None
  PROVE  /\ work.pc = "children" /\ work.name = e
         /\ api'.child["deployment"][e].owner = work.eg.uid
<1>1. TypeOK /\ CacheOK /\ WorkOK /\ api \in Objects /\ cache \in Objects
  BY DEF IInv, TypeOK
<1>2. "deployment" \in Kinds /\ e \in Egresses
  BY EgressControllerAssumption DEF Kinds
<1>3. ASSUME work.pc = "children", NEW K \in SUBSET Kinds, api' = CreateOrUpdate(K)
      PROVE  work.name = e /\ api'.child["deployment"][e].owner = work.eg.uid
  <2>1. work.name \in Detailed /\ work.eg \in Egress
    BY <1>1, <1>3 DEF WorkOK, TypeOK
  <2> DEFINE c == [k \in Kinds |-> IF k \in Written(K)
                      THEN [api.child[k] EXCEPT ![work.name] = NewChild(k)] ELSE api.child[k]]
  <2>2. api' = [api EXCEPT !.child = c]
    BY <1>3 DEF CreateOrUpdate
  <2>3. api'.child["deployment"] = IF "deployment" \in Written(K)
            THEN [api.child["deployment"] EXCEPT ![work.name] = NewChild("deployment")]
            ELSE api.child["deployment"]
    <3>1. c["deployment"] = IF "deployment" \in Written(K)
            THEN [api.child["deployment"] EXCEPT ![work.name] = NewChild("deployment")]
            ELSE api.child["deployment"]
      BY <1>2
    <3> HIDE DEF c
    <3> QED
      BY <1>1, <2>2, <3>1 DEF Objects
  <2>4. api.child["deployment"] \in [Detailed -> Child \cup {None}]
        /\ cache.child["deployment"] \in [Detailed -> Child \cup {None}]
    BY <1>1, <1>2 DEF Objects
  <2>5. "deployment" \in Written(K) /\ work.name = e
        /\ api'.child["deployment"][e] = NewChild("deployment")
    BY <2>1, <2>3, <2>4
  <2>6. Differs("deployment") /\ ~Refused("deployment")
    BY <2>5 DEF Written
  <2>7. cache.child["deployment"][e] = None
    BY <1>1, <1>2, <2>5, <2>6 DEF Refused, CacheOK
  <2>8. NewChild("deployment") = desired("deployment", None, work.eg)
    BY <2>5, <2>7 DEF NewChild
  <2> QED
    BY <1>2, <2>1, <2>5, <2>8, DesiredMade
<1>4. CASE ReconcileChildren
  BY <1>3, <1>4 DEF ReconcileChildren
<1>5. CASE RequestFails
  <2>1. work.pc = "children"
    BY <1>5 DEF RequestFails, Stopped, NoWrite
  <2>2. PICK k \in Kinds : api' = CreateOrUpdate(Earlier[k])
    BY <1>5, <2>1 DEF RequestFails, Stopped
  <2>3. Earlier[k] \in SUBSET Kinds
    BY DEF Earlier, Kinds
  <2> QED
    BY <1>3, <2>1, <2>2, <2>3
<1>6. CASE Restart
  <2>1. PICK K \in {Earlier[k] : k \in Kinds} \cup {Kinds} :
            api' = IF work.pc = "children" THEN CreateOrUpdate(K) ELSE api
    BY <1>6 DEF Restart
  <2>2. K \in SUBSET Kinds
    BY DEF Earlier, Kinds
  <2> QED
    BY <1>3, <2>1, <2>2
<1>7. SUFFICES ASSUME ~ReconcileChildren, ~RequestFails, ~Restart
               PROVE  api'.child["deployment"][e] = None
  BY <1>4, <1>5, <1>6
<1>8. CASE UNCHANGED api
  BY <1>8
<1>9. CASE reconcileServiceAccount
  BY <1>1, <1>9 DEF reconcileServiceAccount, Write, NoWrite, Objects
<1>10. ASSUME NEW b, reconcileCRB(b) PROVE api'.child = api.child
  BY <1>1, <1>10 DEF reconcileCRB, Write, NoWrite, Objects
<1>11. CASE updateStatus
  BY <1>1, <1>11 DEF updateStatus, Write, NoWrite, Objects
<1>12. CASE \E f \in Egresses : CreateEgress(f) \/ UpdateEgress(f) \/ DeleteEgress(f)
  BY <1>1, <1>12 DEF CreateEgress, UpdateEgress, DeleteEgress, Write, Objects
<1>13. CASE \E f \in Detailed, k \in Kinds : DeleteChild(k, f) \/ CollectGarbage(k, f)
  <2>1. PICK f \in Detailed, k \in Kinds : api' = [api EXCEPT !.child[k][f] = None]
    BY <1>13 DEF DeleteChild, CollectGarbage, Write
  <2>2. api.child \in [Kinds -> [Detailed -> Child \cup {None}]]
    BY <1>1 DEF Objects
  <2>3. api'.child = [api.child EXCEPT ![k] = [api.child[k] EXCEPT ![f] = None]]
    BY <1>1, <2>1 DEF Objects
  <2>4. CASE k = "deployment"
    BY <1>2, <2>2, <2>3, <2>4
  <2>5. CASE k # "deployment"
    BY <1>2, <2>2, <2>3, <2>5
  <2> QED
    BY <2>4, <2>5
<1>14. CASE \E f \in Detailed : RollOut(f)
  BY <1>1, <1>2, <1>14 DEF RollOut, Ready, Write, Objects
<1>15. CASE ObserveNext \/ \E f \in Egresses : Reconcile(f)
  BY <1>8, <1>15 DEF ObserveNext, ObserveEgresses, ObserveServiceAccounts, ObserveBindings,
       ObserveChildren, Reconcile
<1>16. CASE \/ ReconcileBinding("crb", "coil-egress")
            \/ ReconcileBinding("psp", "psp-coil-egress")
            \/ \E b \in Bindings : CRBReconcile(b)
  BY <1>10, <1>16 DEF ReconcileBinding, CRBReconcile
<1> QED
  BY <1>7, <1>8, <1>9, <1>11, <1>12, <1>13, <1>14, <1>15, <1>16
  DEF Next, WorkNext, ClusterNext, vars

\* Routers are only deployed where their service account exists and is bound to
\* its roles, or crbReconciler will look at the binding.
THEOREM RolesFirst == Spec => RolesBeforeRouters
<1> DEFINE Ordered ==
        \A e \in Detailed :
            /\ api.child["deployment"][e] = None /\ api'.child["deployment"][e] # None
            /\ Present(api, e) /\ api.egress[e].uid = api'.child["deployment"][e].owner
            =>
                /\ NsOf[e] \in api.sa
                /\ \A b \in Bindings : \/ <<"crb", b>> \in lag \/ b \in bqueue
                                       \/ \E i \in DOMAIN api.crb[b] : api.crb[b][i] = NsOf[e]
<1>1. IInv /\ [Next]_vars => [Ordered]_vars
  <2>1. SUFFICES ASSUME IInv, [Next]_vars, NEW e \in Detailed,
                        api.child["deployment"][e] = None, api'.child["deployment"][e] # None,
                        Present(api, e), api.egress[e].uid = api'.child["deployment"][e].owner
                 PROVE  NsOf[e] \in api.sa /\ \A b \in Bindings : Covered(e, b)
    BY DEF Covered
  <2>2. work.pc = "children" /\ work.name = e /\ api.egress[e].uid = work.eg.uid
    BY <2>1, DeploymentMade
  <2>3. NsOf[e] \in api.sa
    BY <2>1, <2>2 DEF IInv, WorkOK
  <2>4. SameEgress(e)
    BY <2>1, <2>2 DEF SameEgress, At, PCs
  <2>5. \A b \in Bindings : At(e, Past(b))
    BY <2>2 DEF At, Past, UpTo
  <2> QED
    BY <2>1, <2>3, <2>4, <2>5 DEF IInv, BoundOK
<1> QED
  BY <1>1, Invariance, PTL DEF Spec, RolesBeforeRouters

=============================================================================
