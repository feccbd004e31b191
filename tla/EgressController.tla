-------------------------- MODULE EgressController --------------------------
(***************************************************************************)
(* coil-egress-controller: the reconciler that turns an Egress object into *)
(* a ServiceAccount, the subjects of ClusterRoleBindings, a Deployment, a  *)
(* Service and a PodDisruptionBudget (controllers/egress_controller.go),   *)
(* and the reconciler of the ClusterRoleBindings, which runs beside it     *)
(* (controllers/clusterrolebinding_controller.go).                         *)
(*                                                                         *)
(* Reads come from caches that lag behind the API server; the server       *)
(* refuses a write that is based on an old object, and a reconciler tries  *)
(* again after any error.  An Egress object can be deleted and made again  *)
(* with the same name while objects of its predecessor are still there.    *)
(***************************************************************************)
EXTENDS Naturals, Sequences, FiniteSets, SequencesExt

CONSTANTS
    Egresses,     \* names of Egress objects
    Detailed,     \* those whose own objects are looked at; the others only have a
                  \* part in the ClusterRoleBindings
    NsOf,         \* their namespaces, numbers in the order of their names
    Bindings,     \* the ClusterRoleBindings that exist
    Versions,     \* bound: what users write into each Egress object
    None,         \* no such object
    MaxEvents     \* bound: changes by users, failing requests and restarts

\* The optional fields of an Egress, by the object they are copied to.
Kinds == {"deployment", "service", "pdb"}
OptsOf == [deployment |-> {"strategy", "annotations", "template"}, service |-> {"affinityConfig"},
           pdb |-> {"minAvailable", "maxUnavailable"}]
Options == UNION {OptsOf[k] : k \in Kinds}

Specs == [replicas: Nat, opts: SUBSET Options]

\* An Egress object, and an object that is made for one.
Egress == [uid: Nat, spec: Specs, status: Nat]
Child == [owner: Nat, replicas: Nat, available: Nat, opts: SUBSET Options]

\* A budget is of one kind; the webhook of Egress objects checks it, and the API
\* server does for PodDisruptionBudgets.
Valid(o) == ~(OptsOf["pdb"] \subseteq o.opts)

ASSUME EgressControllerAssumption ==
    /\ IsFiniteSet(Egresses)
    /\ Detailed \subseteq Egresses
    /\ NsOf \in [Egresses -> Nat]
    /\ Versions \in [Egresses -> Seq({s \in Specs : Valid(s)})]
    /\ \A e \in Egresses : Versions[e] # <<>>
    /\ Bindings \subseteq {"coil-egress", "psp-coil-egress"}
    /\ "coil-egress" \in Bindings
    /\ None \notin Egress /\ None \notin Child
    /\ MaxEvents \in Nat

VARIABLES
    api,      \* the objects of the API server
    cache,    \* the objects in the caches of the controller
    lag,      \* objects with events that have not reached the caches
    queue,    \* Egress objects to reconcile
    bqueue,   \* ClusterRoleBindings to reconcile
    work,     \* the worker of EgressReconciler
    changes,  \* changes by users so far; numbers the incarnations of objects
    faults    \* faults so far

vars == <<api, cache, lag, queue, bqueue, work, changes, faults>>

Namespaces == {NsOf[e] : e \in Egresses}

Objects ==
    [egress: [Egresses -> Egress \cup {None}],
     child: [Kinds -> [Detailed -> Child \cup {None}]],
     sa: SUBSET Namespaces,
     crb: [Bindings -> Seq(Namespaces)]]

\* An object: its kind and its name.
Ids == ({"egress"} \X Egresses) \cup (Kinds \X Detailed)
       \cup ({"sa"} \X Namespaces) \cup ({"crb"} \X Bindings)

PCs == {"idle", "sa", "crb", "psp", "children", "status"}

idle == [pc |-> "idle", name |-> None, eg |-> None]

TypeOK ==
    /\ api \in Objects /\ cache \in Objects
    /\ lag \subseteq Ids
    /\ queue \subseteq Egresses /\ bqueue \subseteq Bindings
    /\ work.pc \in PCs
    /\ IF work.pc = "idle" THEN work = idle
       ELSE work \in [pc: PCs, name: Egresses, eg: Egress]
    /\ changes \in Nat /\ faults \in Nat /\ changes + faults <= MaxEvents
    /\ \A b \in Bindings : \A i, j \in 1 .. Len(api.crb[b]) :
          i < j => api.crb[b][i] < api.crb[b][j]

\* reconcilePodTemplate: annotations are added to those the template has;
\* labels, containers and the rest of the pod are made anew.
podTemplate(opts, eg) ==
    (opts \cap {"annotations"}) \cup (eg.spec.opts \cap {"annotations", "template"})

\* The functions given to CreateOrUpdate: an optional field is copied if it is
\* set, and never cleared.
desiredDeployment(old, eg) ==
    [old EXCEPT !.replicas = eg.spec.replicas,
                !.opts = ((@ \cup eg.spec.opts) \cap {"strategy"}) \cup podTemplate(@, eg)]
desiredService(old, eg) ==
    [old EXCEPT !.opts = @ \cup (eg.spec.opts \cap OptsOf["service"])]
desiredPDB(old, eg) ==
    [old EXCEPT !.opts = @ \cup (eg.spec.opts \cap OptsOf["pdb"])]

\* The owner is set in a new object only.
desired(k, cur, eg) ==
    LET old == IF cur # None THEN cur
               ELSE [owner |-> eg.uid, replicas |-> 0, available |-> 0, opts |-> {}]
    IN  CASE k = "deployment" -> desiredDeployment(old, eg)
          [] k = "service" -> desiredService(old, eg)
          [] k = "pdb" -> desiredPDB(old, eg)

\* The budget is optional.
Wanted(k, eg) == k = "pdb" => eg.spec.opts \cap OptsOf[k] # {}

\* sort.Strings: the members of a set, in the order of their names.
Sorted(S) ==
    CHOOSE s \in [1 .. Cardinality(S) -> S] :
        /\ \A x \in S : \E i \in 1 .. Cardinality(S) : s[i] = x
        /\ \A i, j \in 1 .. Cardinality(S) : i < j => s[i] < s[j]

\* A Deployment that has all its pods.
RolledOut(o) == [o EXCEPT !.available = o.replicas]

\* A new cluster, or one whose Egress objects have been reconciled long ago.
Init ==
    /\ \E S \in {{}, Egresses} :
        LET eg(e) == [uid |-> 0, spec |-> Head(Versions[e]),
                      status |-> Head(Versions[e]).replicas]
        IN  api = [egress |-> [e \in Egresses |-> IF e \in S THEN eg(e) ELSE None],
                   child |-> [k \in Kinds |->
                       [e \in Detailed |->
                           IF e \notin S \/ ~Wanted(k, eg(e)) THEN None
                           ELSE RolledOut(desired(k, None, eg(e)))]],
                   sa |-> {NsOf[e] : e \in S \cap Detailed},
                   crb |-> [b \in Bindings |-> Sorted({NsOf[e] : e \in S})]]
    /\ cache = api
    /\ lag = {}
    /\ queue = {}
    /\ bqueue = {}
    /\ work = idle
    /\ changes = 0
    /\ faults = 0

-----------------------------------------------------------------------------
(* The worker of EgressReconciler *)

\* A write to the API server; its event follows.
Write(new, id) ==
    /\ api' = new
    /\ lag' = lag \cup {id}

NoWrite == UNCHANGED <<api, lag>>

Present(o, e) == o.egress[e] # None

\* An Egress object that is not there is not reconciled, not even the
\* ClusterRoleBindings.
Reconcile(e) ==
    /\ work.pc = "idle"
    /\ e \in queue
    /\ queue' = queue \ {e}
    /\ work' = IF Present(cache, e)
               THEN [pc |-> IF e \in Detailed THEN "sa" ELSE "crb",
                     name |-> e, eg |-> cache.egress[e]]
               ELSE idle
    /\ UNCHANGED <<api, cache, lag, bqueue, changes, faults>>

\* Mutant of nextStep: the routers come before the roles.
nextStepRoutersFirst(pc) ==
    CASE pc = "sa" -> "children" [] pc = "children" -> "crb" [] pc = "crb" -> "psp"
      [] pc = "psp" -> "status" [] pc = "status" -> "idle"

\* The order of Reconcile.
nextStep(pc) ==
    CASE pc = "sa" -> "crb" [] pc = "crb" -> "psp" [] pc = "psp" -> "children"
      [] pc = "children" -> "status" [] pc = "status" -> "idle"

Advance ==
    LET pc == nextStep(work.pc)
    IN  work' = IF pc = "idle" \/ (work.name \notin Detailed /\ pc # "psp") THEN idle
                ELSE [work EXCEPT !.pc = pc]

\* An error ends the reconciliation and queues the Egress object again.
Retry ==
    /\ queue' = queue \cup {work.name}
    /\ work' = idle

\* Create fails if the object exists, and the cache does not know.
reconcileServiceAccount ==
    /\ work.pc = "sa"
    /\ LET ns == NsOf[work.name]
       IN  \/ /\ ns \in cache.sa
              /\ Advance
              /\ NoWrite /\ UNCHANGED queue
           \/ /\ ns \notin cache.sa /\ ns \notin api.sa
              /\ Write([api EXCEPT !.sa = @ \cup {ns}], <<"sa", ns>>)
              /\ Advance
              /\ UNCHANGED queue
           \/ /\ ns \notin cache.sa /\ ns \in api.sa
              /\ Retry
              /\ NoWrite
    /\ UNCHANGED <<cache, bqueue, changes, faults>>

\* Mutant of subjects: from the last to the first.
subjectsReversed == Reverse(Sorted({NsOf[e] : e \in {f \in Egresses : Present(cache, f)}}))

\* The namespaces with an Egress object, in the order of their names.
subjects == Sorted({NsOf[e] : e \in {f \in Egresses : Present(cache, f)}})

\* Mutant of upToDate: the arguments of DeepDerivative exchanged.
upToDateSwapped(new, current) == IsPrefix(current, new)

\* DeepDerivative: a shorter list may be the beginning of the present one.
upToDate(new, current) == IsPrefix(new, current)

\* The outcomes of reconcileCRB: nothing to do, an error, or a write.
CRBKept(b) ==
    IF b \in Bindings THEN upToDate(subjects, cache.crb[b]) ELSE b = "psp-coil-egress"
CRBError(b) == ~CRBKept(b) /\ (b \in Bindings => <<"crb", b>> \in lag)
reconcileCRB(b) ==
    IF CRBKept(b) \/ CRBError(b) THEN NoWrite
    ELSE Write([api EXCEPT !.crb[b] = subjects], <<"crb", b>>)

ReconcileBinding(pc, b) ==
    /\ work.pc = pc
    /\ reconcileCRB(b)
    /\ IF CRBError(b) THEN Retry
       ELSE Advance /\ UNCHANGED queue
    /\ UNCHANGED <<cache, bqueue, changes, faults>>

\* The objects are looked at in this order: those before each of them.
Earlier == [deployment |-> {}, service |-> {"deployment"}, pdb |-> {"deployment", "service"}]

\* CreateOrUpdate of one object: what it makes of the cached one, whether that
\* is a change, and whether the API server refuses it, because the cache is
\* behind or the object is invalid.  The budget is left alone if it is not wanted.
NewChild(k) == desired(k, cache.child[k][work.name], work.eg)
Differs(k) == Wanted(k, work.eg) /\ NewChild(k) # cache.child[k][work.name]
Refused(k) == Differs(k) /\ (<<k, work.name>> \in lag \/ ~Valid(NewChild(k)))

\* The calls of CreateOrUpdate for the objects in K; the first error is the last
\* call.  Each kind has a cache of its own and nobody else writes two of them, so
\* the calls are one step.
Written(K) == {k \in K : Differs(k) /\ \A j \in Earlier[k] \cup {k} : ~Refused(j)}
CreateOrUpdate(K) ==
    [api EXCEPT !.child = [k \in Kinds |->
        IF k \in Written(K) THEN [api.child[k] EXCEPT ![work.name] = NewChild(k)]
        ELSE api.child[k]]]

ReconcileChildren ==
    /\ work.pc = "children"
    /\ api' = CreateOrUpdate(Kinds)
    /\ lag' = lag \cup (Written(Kinds) \X {work.name})
    /\ IF \E k \in Kinds : Refused(k) THEN Retry ELSE Advance /\ UNCHANGED queue
    /\ UNCHANGED <<cache, bqueue, changes, faults>>

newStatus(eg, depl) == depl.available

\* Mutant of changed: the status is written every time.
changedAlways(eg, depl) == TRUE

changed(eg, depl) == newStatus(eg, depl) # eg.status

\* The status comes from the cached Deployment and is written into the Egress
\* object read at the start.
updateStatus ==
    /\ work.pc = "status"
    /\ LET e == work.name
           depl == cache.child["deployment"][e]
       IN  IF depl = None THEN Retry /\ NoWrite
           ELSE IF ~changed(work.eg, depl)
           THEN Advance /\ NoWrite /\ UNCHANGED queue
           ELSE IF api.egress[e] = work.eg
           THEN /\ Write([api EXCEPT !.egress[e].status = newStatus(work.eg, depl)],
                         <<"egress", e>>)
                /\ Advance
                /\ UNCHANGED queue
           ELSE Retry /\ NoWrite
    /\ UNCHANGED <<cache, bqueue, changes, faults>>

\* The objects that have been seen to when a request to the API server fails.
Stopped ==
    IF work.pc # "children" THEN NoWrite
    ELSE \E k \in Kinds :
            /\ api' = CreateOrUpdate(Earlier[k])
            /\ lag' = lag \cup (Written(Earlier[k]) \X {work.name})

RequestFails ==
    /\ work.pc # "idle"
    /\ changes + faults < MaxEvents
    /\ faults' = faults + 1
    /\ Stopped
    /\ Retry
    /\ UNCHANGED <<cache, bqueue, changes>>

-----------------------------------------------------------------------------
(* The worker of crbReconciler *)

CRBReconcile(b) ==
    /\ b \in bqueue
    /\ reconcileCRB(b)
    /\ bqueue' = IF CRBError(b) THEN bqueue ELSE bqueue \ {b}
    /\ UNCHANGED <<cache, queue, work, changes, faults>>

-----------------------------------------------------------------------------
(* Events *)

\* The cache of one kind of objects catches up with the API server.  An event
\* queues the Egress object itself or, by name, the owner of a child.
LagOf(kind) == {id \in lag : id[1] = kind}

ObserveEgresses ==
    /\ LagOf("egress") # {}
    /\ cache' = [cache EXCEPT !.egress = api.egress]
    /\ lag' = lag \ LagOf("egress")
    /\ queue' = queue \cup {id[2] : id \in LagOf("egress")}
    /\ UNCHANGED <<api, bqueue, work, changes, faults>>

ObserveChildren(k) ==
    /\ LagOf(k) # {}
    /\ cache' = [cache EXCEPT !.child[k] = api.child[k]]
    /\ lag' = lag \ LagOf(k)
    /\ queue' = queue \cup {id[2] : id \in LagOf(k)}
    /\ UNCHANGED <<api, bqueue, work, changes, faults>>

ObserveServiceAccounts ==
    /\ LagOf("sa") # {}
    /\ cache' = [cache EXCEPT !.sa = api.sa]
    /\ lag' = lag \ LagOf("sa")
    /\ UNCHANGED <<api, queue, bqueue, work, changes, faults>>

ObserveBindings ==
    /\ LagOf("crb") # {}
    /\ cache' = [cache EXCEPT !.crb = api.crb]
    /\ lag' = lag \ LagOf("crb")
    /\ bqueue' = bqueue \cup {id[2] : id \in LagOf("crb")}
    /\ UNCHANGED <<api, queue, work, changes, faults>>

\* The controller starts again with fresh caches.
Restart ==
    /\ changes + faults < MaxEvents
    /\ faults' = faults + 1
    /\ \E K \in {Earlier[k] : k \in Kinds} \cup {Kinds} :
        api' = IF work.pc = "children" THEN CreateOrUpdate(K) ELSE api
    /\ cache' = api'
    /\ lag' = {}
    /\ queue' = {e \in Egresses : Present(api', e)}
                \cup {e \in Detailed : \E k \in Kinds : api'.child[k][e] # None}
    /\ bqueue' = Bindings
    /\ work' = idle
    /\ UNCHANGED changes

-----------------------------------------------------------------------------
(* Users and the other controllers of the cluster *)

Change == changes + faults < MaxEvents /\ changes' = changes + 1

CreateEgress(e) ==
    /\ Change
    /\ ~Present(api, e)
    /\ \E i \in DOMAIN Versions[e] :
        Write([api EXCEPT !.egress[e] =
                  [uid |-> IF e \in Detailed THEN changes' ELSE 0,
                   spec |-> Versions[e][i], status |-> 0]],
              <<"egress", e>>)
    /\ UNCHANGED <<cache, queue, bqueue, work, faults>>

UpdateEgress(e) ==
    /\ Change
    /\ Present(api, e)
    /\ \E i \in DOMAIN Versions[e] :
        /\ Versions[e][i] # api.egress[e].spec
        /\ Write([api EXCEPT !.egress[e].spec = Versions[e][i]], <<"egress", e>>)
    /\ UNCHANGED <<cache, queue, bqueue, work, faults>>

DeleteEgress(e) ==
    /\ Change
    /\ Present(api, e)
    /\ Write([api EXCEPT !.egress[e] = None], <<"egress", e>>)
    /\ UNCHANGED <<cache, queue, bqueue, work, faults>>

DeleteChild(k, e) ==
    /\ Change
    /\ api.child[k][e] # None
    /\ Write([api EXCEPT !.child[k][e] = None], <<k, e>>)
    /\ UNCHANGED <<cache, queue, bqueue, work, faults>>

\* Objects whose owner is gone are removed by the garbage collector.
Garbage(k, e) ==
    /\ api.child[k][e] # None
    /\ Present(api, e) => api.egress[e].uid # api.child[k][e].owner

CollectGarbage(k, e) ==
    /\ Garbage(k, e)
    /\ Write([api EXCEPT !.child[k][e] = None], <<k, e>>)
    /\ UNCHANGED <<cache, queue, bqueue, work, changes, faults>>

Ready(o) == o # None => o = RolledOut(o)

RollOut(e) ==
    /\ ~Ready(api.child["deployment"][e])
    /\ Write([api EXCEPT !.child["deployment"][e] = RolledOut(@)], <<"deployment", e>>)
    /\ UNCHANGED <<cache, queue, bqueue, work, changes, faults>>

-----------------------------------------------------------------------------

WorkNext ==
    \/ reconcileServiceAccount
    \/ ReconcileBinding("crb", "coil-egress")
    \/ ReconcileBinding("psp", "psp-coil-egress")
    \/ ReconcileChildren
    \/ updateStatus

ObserveNext ==
    \/ ObserveEgresses \/ ObserveServiceAccounts \/ ObserveBindings
    \/ \E k \in Kinds : ObserveChildren(k)

ClusterNext ==
    \E e \in Detailed : RollOut(e) \/ \E k \in Kinds : CollectGarbage(k, e)

Next ==
    \/ WorkNext \/ ObserveNext \/ ClusterNext
    \/ \E b \in Bindings : CRBReconcile(b)
    \/ RequestFails \/ Restart
    \/ \E e \in Egresses :
        Reconcile(e) \/ CreateEgress(e) \/ UpdateEgress(e) \/ DeleteEgress(e)
    \/ \E e \in Detailed, k \in Kinds : DeleteChild(k, e)

Spec ==
    /\ Init /\ [][Next]_vars
    /\ WF_vars(WorkNext) /\ WF_vars(ObserveNext) /\ WF_vars(ClusterNext)
    /\ WF_vars(ObserveEgresses)
    /\ \A e \in Egresses : SF_vars(Reconcile(e))
    /\ \A b \in Bindings : WF_vars(CRBReconcile(b))

-----------------------------------------------------------------------------
(* Properties *)

\* Nothing is left to do for the controller and the rest of the cluster.
Quiet ==
    /\ lag = {} /\ queue = {} /\ bqueue = {} /\ work = idle
    /\ \A e \in Detailed : Ready(api.child["deployment"][e]) /\ \A k \in Kinds : ~Garbage(k, e)

\* The routers of an Egress object may watch pods: its namespace is a subject
\* of the ClusterRoleBindings, whichever of the two reconcilers wrote them.
SubjectsCover(e) ==
    \A b \in Bindings : \E i \in DOMAIN api.crb[b] : api.crb[b][i] = NsOf[e]

\* The objects of an Egress object are there, belong to it and not to an
\* earlier one of the same name, and have what it asks for.  They may have
\* more, fields it asked for earlier, but not in the pods.
ChildrenAsSpecified(e) ==
    LET eg == api.egress[e]
    IN  /\ NsOf[e] \in api.sa
        /\ \A k \in Kinds : Wanted(k, eg) =>
            /\ api.child[k][e] # None
            /\ api.child[k][e].owner = eg.uid
            /\ eg.spec.opts \cap OptsOf[k] \subseteq api.child[k][e].opts
            /\ k = "deployment" =>
                  /\ api.child[k][e].replicas = eg.spec.replicas
                  /\ "template" \in api.child[k][e].opts => "template" \in eg.spec.opts

\* The status has the number of available routers.
StatusTrue(e) == api.egress[e].status = api.child["deployment"][e].available

\* Once all events are processed, every Egress object has its roles, its
\* objects and a true status, whatever the caches showed when they were
\* written (reconcileCRB, reconcileDeployment, reconcileService, reconcilePDB,
\* updateStatus).
EgressAsSpecified ==
    Quiet => \A e \in Egresses : Present(api, e) =>
                /\ SubjectsCover(e)
                /\ e \in Detailed => ChildrenAsSpecified(e) /\ StatusTrue(e)

\* Routers are only deployed in a namespace that has the service account and
\* is bound to its role, as long as the Egress object is there; or a change of
\* the binding is on its way to crbReconciler or queued there, which repairs it
\* (the order in Reconcile).
RolesBeforeRouters ==
    [][\A e \in Detailed :
        /\ api.child["deployment"][e] = None /\ api'.child["deployment"][e] # None
        /\ Present(api, e) /\ api.egress[e].uid = api'.child["deployment"][e].owner
        =>
            /\ NsOf[e] \in api.sa
            /\ \A b \in Bindings : \/ <<"crb", b>> \in lag \/ b \in bqueue
                                   \/ \E i \in DOMAIN api.crb[b] : api.crb[b][i] = NsOf[e]]_vars

\* A budget whose kind was changed: minAvailable is never cleared, and the API
\* server takes no budget with both.
BudgetStuck ==
    \E e \in Detailed :
        /\ Present(api, e) /\ api.child["pdb"][e] # None
        /\ OptsOf["pdb"] \subseteq api.child["pdb"][e].opts \cup api.egress[e].spec.opts

\* When users and failures pause, the controller gets to the end of its work;
\* also if an Egress object was made again before its old objects were gone.
Settles == <>[](Quiet \/ BudgetStuck)

=============================================================================
