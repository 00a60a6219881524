--------------------------- MODULE NFSProvisioner ---------------------------
(***************************************************************************)
(* The finished NFS provisioner operator of the Go operator tutorial: the  *)
(* reconciler 5.full_finished_controller.go with the names it gives its    *)
(* objects (6.defaults-values.go) and the custom resource it serves        *)
(* (7.nfsprovisioner_type.go).                                             *)
(*                                                                         *)
(* One worker takes the keys of NFSProvisioner custom resources (CRs) from *)
(* the work queue and runs Reconcile, one API call per step: it reads the  *)
(* CR into a snapshot, rejects an invalid one, creates the ten children    *)
(* that are missing, and then handles the finalizer.  Around it move the   *)
(* users, who create, edit and delete CRs, lose children and prepare       *)
(* claims; the informers, whose view of the API server may lag; the        *)
(* garbage collector; the namespace controller; and crashes.               *)
(***************************************************************************)
EXTENDS Naturals, FiniteSets

CONSTANTS
  Keys,        \* the namespace/name keys of NFSProvisioner CRs
  Namespaces,  \* the namespaces the operator watches
  NsOf,        \* the namespace of each key
  Specs,       \* the values of .spec that users write
  LagCRs,      \* the keys whose CR the informer may show late (bound)
  LagChildren, \* the children the informers may show late (bound)
  Limits,      \* how often each uncontrolled event happens at most (bound)
  Together,    \* how many kinds of these events happen at most (bound)
  None         \* no CR, no child, no key

Cluster == ""  \* the namespace of a cluster-scoped object

ClusterScoped == {"SCC", "ClusterRole", "ClusterRoleBinding", "StorageClass"}
Namespaced == {"PVC", "ServiceAccount", "Role", "RoleBinding",
               "Deployment", "Service"}
Kinds == ClusterScoped \cup Namespaced

\* Every child has a fixed name, so kind and namespace identify it.
Id(k, ns) == IF k \in ClusterScoped THEN <<k, Cluster>> ELSE <<k, ns>>
Ids == (ClusterScoped \X {Cluster}) \cup (Namespaced \X Namespaces)

\* The claim names a user may write in spec.pvc: none, the one the operator
\* itself would create (defaults.Pvc), and one of the user's own.
Claims == {"", "nfs-server", "data"}
SpecType == [pvc : Claims, scForNFSPvc : {"", "sc"},
             hostPathDir : {"", "dir"}, scForNFS : {"", "sc"}]

Budgets == {"create", "edit", "delete", "drift", "read", "write", "crash", "namespace"}

ASSUME KeysAssumption == NsOf \in [Keys -> Namespaces]
ASSUME ScopeAssumption == Cluster \notin Namespaces
ASSUME SpecsAssumption == Specs \subseteq SpecType
ASSUME LagAssumption == LagCRs \subseteq Keys /\ LagChildren \subseteq Ids
ASSUME LimitsAssumption == Limits \in [Budgets -> Nat] /\ Together \in Nat

\* uid tells the incarnations of one key apart, rv is the resourceVersion.
CRType == [uid : Nat, rv : Nat, spec : Specs,
           deleting : BOOLEAN, fin : BOOLEAN, err : BOOLEAN]

\* key and uid are those of the CR the child was built from: the subject or
\* user it grants to is in the key's namespace, its selector is the key's name.
ChildType == [key : Keys, uid : Nat, owned : BOOLEAN,
              volume : Claims \cup {"HOSTPATH"}]

ASSUME NoneAssumption ==
  None \notin Keys /\ None \notin CRType /\ None \notin ChildType

VARIABLES
  cr,           \* API server: the CR of each key, or None
  obj,          \* API server: the children, or None
  claims,       \* namespaces where the user's own claim "data" exists
  terminating,  \* namespaces under deletion
  seenCR,       \* informer: the CRs the operator's client reads
  seen,         \* informer: of the children that may lag, those the client finds
  queue,        \* work queue: keys waiting to be reconciled
  pc, cur, snap,\* worker: next call, key and copy of the CR it works on
  budget        \* what is left of Limits

server == <<cr, obj, claims, terminating>>
informer == <<seenCR, seen>>
worker == <<pc, cur, snap>>
vars == <<server, informer, queue, worker, budget>>

-----------------------------------------------------------------------------
(* The custom resource and what is derived from its spec.                   *)

validate(s) ==
  /\ ~(s.pvc # "" /\ (s.scForNFSPvc # "" \/ s.hostPathDir # ""))
  /\ ~(s.hostPathDir # "" /\ (s.scForNFSPvc # "" \/ s.pvc # ""))
  /\ ~(s.scForNFSPvc # "" /\ (s.pvc # "" \/ s.hostPathDir # ""))

storageType(s) == IF s.hostPathDir # "" THEN "HOSTPATH" ELSE "PVC"

pvcName(s) == IF s.pvc # "" THEN s.pvc ELSE "nfs-server"

getVolumeSpec(s, t) == IF t = "HOSTPATH" THEN "HOSTPATH" ELSE pvcName(s)

\* The children reconciliation does not look after: the claim when the server
\* exports a host directory, the StorageClass when the user names one.
Skips(s, k) ==
  \/ k = "PVC" /\ storageType(s) = "HOSTPATH"
  \/ k = "StorageClass" /\ s.scForNFS # ""

-----------------------------------------------------------------------------
(* The children, built from CR m of key c.  SetControllerReference refuses *)
(* a namespaced owner for a child built without a namespace, and the       *)
(* refusal is ignored.                                                     *)

Child(c, m, inNamespace, volume) ==
  [key |-> c, uid |-> m.uid, owned |-> inNamespace, volume |-> volume]

sccForNFSProvisioner(c, m) == Child(c, m, TRUE, "")
pvcForNFSProvisioner(c, m) == Child(c, m, TRUE, "")
\* Mutant: the controller reference is forgotten.
UnownedServiceAccount(c, m) == Child(c, m, FALSE, "")

serviceAccountForNFSProvisioner(c, m) == Child(c, m, TRUE, "")
clusterRoleForNFSProvisioner(c, m) == Child(c, m, FALSE, "")
clusterRoleBindingForNFSProvisioner(c, m) == Child(c, m, FALSE, "")
roleForNFSProvisioner(c, m) == Child(c, m, TRUE, "")
roleBindingForNFSProvisioner(c, m) == Child(c, m, TRUE, "")
deploymentForNFSProvisioner(c, m) ==
  Child(c, m, TRUE, getVolumeSpec(m.spec, storageType(m.spec)))
serviceForNFSProvisioner(c, m) == Child(c, m, TRUE, "")
storageclassForNFSProvisioner(c, m) == Child(c, m, FALSE, "")

Build(k, c, m) ==
  CASE k = "SCC" -> sccForNFSProvisioner(c, m)
    [] k = "PVC" -> pvcForNFSProvisioner(c, m)
    [] k = "ServiceAccount" -> serviceAccountForNFSProvisioner(c, m)
    [] k = "ClusterRole" -> clusterRoleForNFSProvisioner(c, m)
    [] k = "ClusterRoleBinding" -> clusterRoleBindingForNFSProvisioner(c, m)
    [] k = "Role" -> roleForNFSProvisioner(c, m)
    [] k = "RoleBinding" -> roleBindingForNFSProvisioner(c, m)
    [] k = "Deployment" -> deploymentForNFSProvisioner(c, m)
    [] k = "Service" -> serviceForNFSProvisioner(c, m)
    [] k = "StorageClass" -> storageclassForNFSProvisioner(c, m)

-----------------------------------------------------------------------------
(* The API server, the informers and the budgets.                           *)

Present(o) == obj[o] # None

\* What the operator's client finds: it reads from its informers, and the
\* informer of a child that does not lag shows what the API server has.
Sees(o) == IF o \in LagChildren THEN o \in seen ELSE Present(o)

\* A step waits for the events of the CRs that do not lag (bound).
UpToDate == \A c \in Keys \ LagCRs : seenCR[c] = cr[c]

Spend(F) ==
  /\ \A b \in F : budget[b] > 0
  /\ budget' = [b \in Budgets |-> IF b \in F THEN budget[b] - 1 ELSE budget[b]]
  /\ Cardinality({b \in Budgets : budget'[b] # Limits[b]}) <= Together

\* An update carries the resourceVersion that was read: it applies to the CR
\* only if nobody has written to it since.
Unchanged(c) == cr[c] # None /\ cr[c].uid = snap.uid /\ cr[c].rv = snap.rv

\* A deleted CR stays, marked, for as long as it has a finalizer.
MarkDeleted(c) ==
  LET marked == [cr[c] EXCEPT !.deleting = TRUE, !.rv = @ + 1]
  IN cr' = [cr EXCEPT ![c] = IF cr[c].fin THEN marked ELSE None]

Init ==
  /\ cr = [c \in Keys |-> None]
  /\ obj = [o \in Ids |-> None]
  /\ claims = {} /\ terminating = {}
  /\ seenCR = cr /\ seen = {}
  /\ queue = {}
  /\ pc = "idle" /\ cur = None /\ snap = None
  /\ budget = Limits

-----------------------------------------------------------------------------
(* The worker.  Reconcile returns in one of two ways: Return leaves the    *)
(* queue alone, Requeue (an error, or Requeue: true) puts the key back.    *)

\* Mutant: the copy of the CR outlives the reconciliation.
KeepSnap == pc' = "idle" /\ cur' = None /\ UNCHANGED <<snap, queue>>

Return == pc' = "idle" /\ cur' = None /\ snap' = None /\ UNCHANGED queue

Requeue == pc' = "idle" /\ cur' = None /\ snap' = None /\ queue' = queue \cup {cur}

Goto(l) == pc' = l /\ UNCHANGED <<cur, snap, queue>>

\* The order in which Reconcile looks after the children, then the delete logic.
After == [SCC |-> "PVC", PVC |-> "ServiceAccount",
          ServiceAccount |-> "ClusterRole",
          ClusterRole |-> "ClusterRoleBinding",
          ClusterRoleBinding |-> "Role", Role |-> "RoleBinding",
          RoleBinding |-> "Deployment", Deployment |-> "Service",
          Service |-> "StorageClass", StorageClass |-> "finalizer"]

\* Children that are created on any error of Get, not only on NotFound.
CreatesOnAnyError == {"ClusterRole", "ClusterRoleBinding", "Role", "RoleBinding"}

Dequeue(c) ==
  /\ pc = "idle" /\ c \in queue
  /\ pc' = "get" /\ cur' = c /\ queue' = queue \ {c}
  /\ UNCHANGED <<server, informer, snap, budget>>

GetCR ==
  /\ pc = "get"
  /\ \/ /\ seenCR[cur] = None
        /\ Return /\ Spend({})
     \/ /\ seenCR[cur] # None
        /\ pc' = IF validate(seenCR[cur].spec) THEN "SCC" ELSE "status"
        /\ snap' = seenCR[cur]
        /\ Spend({}) /\ UNCHANGED <<cur, queue>>
     \/ Requeue /\ Spend({"read"})
  /\ UNCHANGED <<server, informer>>

\* Mutant: the resourceVersion is not checked.
BlindUpdate(new, done) ==
  IF cr[cur] # None
  THEN cr' = [cr EXCEPT ![cur] = new] /\ done /\ Spend({})
  ELSE UNCHANGED cr /\ Requeue /\ Spend({})

\* Update the CR in hand.  A conflict is an error; so is a call that fails for
\* any other reason, before or after the API server has applied it.
Update(new, done) ==
  LET applied == Unchanged(cur) /\ cr' = [cr EXCEPT ![cur] = new]
  IN \/ applied /\ done /\ Spend({})
     \/ ~Unchanged(cur) /\ UNCHANGED cr /\ Requeue /\ Spend({})
     \/ (UNCHANGED cr \/ applied) /\ Requeue /\ Spend({"write"})

\* Mutant: an error of the status update is logged and not returned.
StatusErrorIgnored ==
  /\ pc = "status" /\ Return
  /\ \/ /\ Unchanged(cur) /\ Spend({})
        /\ cr' = [cr EXCEPT ![cur] = [snap EXCEPT !.err = TRUE, !.rv = @ + 1]]
     \/ ~Unchanged(cur) /\ Spend({}) /\ UNCHANGED cr
     \/ Spend({"write"}) /\ UNCHANGED cr
  /\ UNCHANGED <<obj, claims, terminating, informer>>

\* Status().Update of an invalid CR.  Writing what is there already changes
\* nothing, not even the resourceVersion.
RejectInvalid ==
  /\ pc = "status"
  /\ Update(IF snap.err THEN snap ELSE [snap EXCEPT !.err = TRUE, !.rv = @ + 1],
            Return)
  /\ UNCHANGED <<obj, claims, terminating, informer>>

\* What Get answers for child k of the CR in hand.
Found(k) ==
  IF k = "PVC" /\ snap.spec.pvc = "data"
  THEN NsOf[cur] \in claims
  ELSE Sees(Id(k, NsOf[cur]))

\* The child is there, is none of the operator's business, or could not be
\* read and the error is ignored.
PassChild(k) ==
  /\ pc = k
  /\ \/ (Skips(snap.spec, k) \/ Found(k)) /\ Spend({})
     \/ k \notin CreatesOnAnyError /\ Spend({"read"})
  /\ Goto(After[k])
  /\ UNCHANGED <<server, informer>>

\* Mutant: an error of Create is only logged, as in the earlier stages of the
\* tutorial.
CreateErrorIgnored(k) ==
  LET o == Id(k, NsOf[cur])
      possible == ~Present(o) /\ (k \in Namespaced => NsOf[cur] \notin terminating)
  IN /\ pc = k /\ ~Skips(snap.spec, k) /\ ~Found(k) /\ Goto(After[k])
     /\ \/ Spend({}) /\ obj' = IF possible THEN [obj EXCEPT ![o] = Build(k, cur, snap)] ELSE obj
        \/ Spend({"write"}) /\ UNCHANGED obj
     /\ UNCHANGED <<cr, claims, terminating, informer>>

\* The child is missing, or cannot be read, and Create is called.  Create fails
\* when the child is there after all or its namespace is terminating; it may
\* fail for any other reason, before or after the child was stored.
CreateChild(k) ==
  LET o == Id(k, NsOf[cur])
      possible == ~Present(o)
                    /\ (k \in Namespaced => NsOf[cur] \notin terminating)
      created == [obj EXCEPT ![o] = Build(k, cur, snap)]
      unread == IF Found(k) THEN {"read"} ELSE {}
  IN /\ pc = k
     /\ ~Skips(snap.spec, k)
     /\ Found(k) => k \in CreatesOnAnyError
     /\ \/ possible /\ Spend(unread) /\ obj' = created /\ Goto(After[k])
        \/ ~possible /\ Spend(unread) /\ UNCHANGED obj /\ Requeue
        \/ /\ Spend(unread \cup {"write"}) /\ Requeue
           /\ obj' = obj \/ (possible /\ obj' = created)
     /\ UNCHANGED <<cr, claims, terminating, informer>>

\* Mutant: a reconciliation that is through does not ask for the next one.
StopsWhenDone ==
  /\ pc = "finalizer" /\ ~snap.deleting
  /\ \/ snap.fin /\ Return /\ Spend({}) /\ UNCHANGED cr
     \/ ~snap.fin /\ Update([snap EXCEPT !.fin = TRUE, !.rv = @ + 1], Return)
  /\ UNCHANGED <<obj, claims, terminating, informer>>

\* A CR that is not being deleted gets the finalizer if it lacks it.
AddFinalizer ==
  /\ pc = "finalizer" /\ ~snap.deleting
  /\ \/ snap.fin /\ Requeue /\ Spend({}) /\ UNCHANGED cr
     \/ ~snap.fin /\ Update([snap EXCEPT !.fin = TRUE, !.rv = @ + 1], Requeue)
  /\ UNCHANGED <<obj, claims, terminating, informer>>

\* Mutant: the finalizer is released before the clean-up.
ReleaseFirst ==
  /\ pc = "finalizer" /\ snap.deleting
  /\ IF snap.fin THEN Update(None, Goto("deleteClusterRole"))
     ELSE Return /\ Spend({}) /\ UNCHANGED cr
  /\ UNCHANGED <<obj, claims, terminating, informer>>

\* Mutant: the test of the deletion timestamp is inverted, as in 4.pvc.
DeletionTestInverted ==
  /\ pc = "finalizer" /\ ~snap.deleting /\ Spend({})
  /\ IF snap.fin THEN Goto("deleteClusterRole") ELSE Return
  /\ UNCHANGED <<server, informer>>

\* A CR under deletion is cleaned up after if it has the finalizer.
StartCleanup ==
  /\ pc = "finalizer" /\ snap.deleting /\ Spend({})
  /\ IF snap.fin THEN Goto("deleteClusterRole") ELSE Return
  /\ UNCHANGED <<server, informer>>

\* Mutant: an error of Delete is only logged.
DeleteErrorIgnored(k, label, next) ==
  LET o == <<k, Cluster>>
  IN /\ pc = label /\ Goto(next)
     /\ \/ Spend({}) /\ obj' = IF Sees(o) THEN [obj EXCEPT ![o] = None] ELSE obj
        \/ Sees(o) /\ Spend({"write"}) /\ UNCHANGED obj
     /\ UNCHANGED <<cr, claims, terminating, informer>>

\* One half of deleteExternalResources: child k is deleted if Get finds it.
\* Any error of Get skips the deletion, an error of Delete is returned.
DeleteExternal(k, label, next) ==
  LET o == <<k, Cluster>>
      deleted == obj' = [obj EXCEPT ![o] = None]
  IN /\ pc = label
     /\ \/ ~Sees(o) /\ Spend({}) /\ Goto(next) /\ UNCHANGED obj
        \/ Spend({"read"}) /\ Goto(next) /\ UNCHANGED obj
        \/ Sees(o) /\ Present(o) /\ Spend({}) /\ deleted /\ Goto(next)
        \/ Sees(o) /\ ~Present(o) /\ Spend({}) /\ UNCHANGED obj /\ Requeue
        \/ Sees(o) /\ Spend({"write"}) /\ (UNCHANGED obj \/ deleted) /\ Requeue
     /\ UNCHANGED <<cr, claims, terminating, informer>>

\* Mutant: the binding is left out of the clean-up.
OnlyTheRole == DeleteExternal("ClusterRole", "deleteClusterRole", "release")

DeleteClusterRole ==
  DeleteExternal("ClusterRole", "deleteClusterRole", "deleteClusterRoleBinding")
DeleteClusterRoleBinding ==
  DeleteExternal("ClusterRoleBinding", "deleteClusterRoleBinding", "release")

\* Mutant: an error of the last update is logged and not returned.
ReleaseErrorIgnored ==
  /\ pc = "release" /\ Return
  /\ \/ Unchanged(cur) /\ Spend({}) /\ cr' = [cr EXCEPT ![cur] = None]
     \/ ~Unchanged(cur) /\ Spend({}) /\ UNCHANGED cr
     \/ Spend({"write"}) /\ UNCHANGED cr
  /\ UNCHANGED <<obj, claims, terminating, informer>>

\* Without its finalizer the CR under deletion leaves the API server.
RemoveFinalizer ==
  /\ pc = "release"
  /\ Update(None, Return)
  /\ UNCHANGED <<obj, claims, terminating, informer>>

EnsureChild == \E k \in Kinds : PassChild(k) \/ CreateChild(k)

Reconcile ==
  \/ GetCR \/ RejectInvalid \/ EnsureChild
  \/ AddFinalizer \/ StartCleanup
  \/ DeleteClusterRole \/ DeleteClusterRoleBinding \/ RemoveFinalizer

-----------------------------------------------------------------------------
(* Everything around the worker.                                            *)

CreateCR(c, s) ==
  /\ cr[c] = None /\ NsOf[c] \notin terminating
  /\ Spend({"create"})
  /\ cr' = [cr EXCEPT ![c] = [uid |-> budget["create"], rv |-> 0, spec |-> s,
                deleting |-> FALSE, fin |-> FALSE, err |-> FALSE]]
  /\ UNCHANGED <<obj, claims, terminating, informer, queue, worker>>

EditSpec(c, s) ==
  /\ cr[c] # None /\ cr[c].spec # s
  /\ Spend({"edit"})
  /\ LET edited == [cr[c] EXCEPT !.spec = s, !.rv = @ + 1]
     IN cr' = [cr EXCEPT ![c] = edited]
  /\ UNCHANGED <<obj, claims, terminating, informer, queue, worker>>

DeleteCR(c) ==
  /\ cr[c] # None /\ ~cr[c].deleting
  /\ Spend({"delete"})
  /\ MarkDeleted(c)
  /\ UNCHANGED <<obj, claims, terminating, informer, queue, worker>>

\* A child is deleted by a user, or, for the SCC, whose owner has a namespace
\* while it has none, by a garbage collector that cannot resolve the owner.
LoseChild(o) ==
  /\ Present(o) /\ Spend({"drift"})
  /\ obj' = [obj EXCEPT ![o] = None]
  /\ UNCHANGED <<cr, claims, terminating, informer, queue, worker>>

\* The user's own claim "data" appears or disappears.
PrepareClaim(ns) ==
  /\ ns \notin terminating /\ Spend({"drift"})
  /\ claims' = (claims \ {ns}) \cup ({ns} \ claims)
  /\ UNCHANGED <<cr, obj, terminating, informer, queue, worker>>

DeleteNamespace(ns) ==
  /\ ns \notin terminating /\ Spend({"namespace"})
  /\ terminating' = terminating \cup {ns}
  /\ UNCHANGED <<cr, obj, claims, informer, queue, worker>>

PurgeChild(o) ==
  /\ o[2] \in terminating /\ Present(o)
  /\ obj' = [obj EXCEPT ![o] = None]
  /\ UNCHANGED <<cr, claims, terminating, informer, queue, worker, budget>>

PurgeClaim(ns) ==
  /\ ns \in terminating \cap claims
  /\ claims' = claims \ {ns}
  /\ UNCHANGED <<cr, obj, terminating, informer, queue, worker, budget>>

PurgeCR(c) ==
  /\ NsOf[c] \in terminating /\ cr[c] # None /\ ~cr[c].deleting
  /\ MarkDeleted(c)
  /\ UNCHANGED <<obj, claims, terminating, informer, queue, worker, budget>>

\* The owner is gone, or the key has been taken by a new incarnation.
Orphaned(o) ==
  /\ Present(o) /\ o[1] \in Namespaced /\ obj[o].owned
  /\ LET owner == cr[obj[o].key] IN ~(owner # None /\ owner.uid = obj[o].uid)

CollectGarbage(o) ==
  /\ Orphaned(o)
  /\ obj' = [obj EXCEPT ![o] = None]
  /\ UNCHANGED <<cr, claims, terminating, informer, queue, worker, budget>>

\* The operator restarts: its informers list everything, every CR is queued.
Crash ==
  /\ Spend({"crash"})
  /\ pc' = "idle" /\ cur' = None /\ snap' = None
  /\ seenCR' = cr /\ seen' = {o \in LagChildren : Present(o)}
  /\ queue' = {c \in Keys : cr[c] # None}
  /\ UNCHANGED server

\* A watch event arrives.  Only CRs are watched by the controller (For, no
\* Owns), so only their events queue a key.
ObserveCR(c) ==
  /\ seenCR[c] # cr[c]
  /\ seenCR' = [seenCR EXCEPT ![c] = cr[c]]
  /\ queue' = queue \cup {c}
  /\ UNCHANGED <<server, seen, worker, budget>>

ObserveChild(o) ==
  /\ o \in LagChildren /\ Sees(o) # Present(o)
  /\ seen' = IF Present(o) THEN seen \cup {o} ELSE seen \ {o}
  /\ UNCHANGED <<server, seenCR, queue, worker, budget>>

-----------------------------------------------------------------------------

Users ==
  \/ \E c \in Keys : \/ \E s \in Specs : CreateCR(c, s) \/ EditSpec(c, s)
                     \/ DeleteCR(c)
  \/ \E o \in Ids : LoseChild(o)
  \/ \E ns \in Namespaces : PrepareClaim(ns) \/ DeleteNamespace(ns)

ControlPlane ==
  \/ \E o \in Ids : CollectGarbage(o) \/ PurgeChild(o)
  \/ \E c \in Keys : PurgeCR(c)
  \/ \E ns \in Namespaces : PurgeClaim(ns)

Observe == (\E c \in Keys : ObserveCR(c)) \/ (\E o \in Ids : ObserveChild(o))

Operator == Reconcile \/ Crash \/ \E c \in Keys : Dequeue(c)

Next ==
  \/ Observe
  \/ UpToDate /\ (Operator \/ Users \/ ControlPlane)

\* The worker runs whenever it can; the queue is first-in first-out, so a key
\* that waits is taken sooner or later whatever else is queued; the informers
\* and the controllers of the cluster do what they have to do.
Fairness ==
  /\ WF_vars(UpToDate /\ Reconcile)
  /\ WF_vars(UpToDate /\ ControlPlane)
  /\ \A c \in Keys : /\ SF_vars(UpToDate /\ Dequeue(c))
                     /\ WF_vars(ObserveCR(c))
  /\ \A o \in LagChildren : WF_vars(ObserveChild(o))

Spec == Init /\ [][Next]_vars

FairSpec == Spec /\ Fairness

-----------------------------------------------------------------------------
(* Properties.                                                              *)

Labels == {"idle", "get", "status", "finalizer", "deleteClusterRole",
           "deleteClusterRoleBinding", "release"} \cup Kinds

\* Every variable has its type, and an idle worker holds no CR.
TypeOK ==
  /\ cr \in [Keys -> CRType \cup {None}]
  /\ obj \in [Ids -> ChildType \cup {None}]
  /\ claims \subseteq Namespaces /\ terminating \subseteq Namespaces
  /\ seenCR \in [Keys -> CRType \cup {None}]
  /\ seen \subseteq LagChildren
  /\ queue \subseteq Keys
  /\ pc \in Labels
  /\ cur \in IF pc = "idle" THEN {None} ELSE Keys
  /\ snap \in IF pc \in {"idle", "get"} THEN {None} ELSE CRType
  /\ budget \in [Budgets -> Nat]

\* A CR that had the finalizer when the worker read it is still there, with
\* the finalizer and under the same uid, until the worker is through with it:
\* what such a reconciliation creates has an owner that exists (comment at
\* lines 305-307 of the controller: the finalizer registers the operator).
ProtectedInFlight ==
  pc \notin {"idle", "get"} /\ snap.fin =>
    cr[cur] # None /\ cr[cur].uid = snap.uid /\ cr[cur].fin

\* deleteExternalResources deletes the ClusterRole and its binding, which no
\* garbage collector would, only while the CR it works for is under deletion.
CleanupOnlyForDeleted ==
  [][\A k \in {"ClusterRole", "ClusterRoleBinding"} :
       LET o == <<k, Cluster>>
       IN Present(o) /\ obj'[o] = None /\ budget'["drift"] = budget["drift"]
            => cr[cur] # None /\ cr[cur].deleting]_vars

\* However old the copy that it goes by (line 97 reads an informer), the clean-up
\* is for an incarnation that users have deleted: the copy says so, and so does
\* the API server if that incarnation is still there.
CleanupOfDeletedIncarnation ==
  [][\A k \in {"ClusterRole", "ClusterRoleBinding"} :
       LET o == <<k, Cluster>>
       IN Present(o) /\ obj'[o] = None /\ budget'["drift"] = budget["drift"]
            => /\ snap.deleting
               /\ cr[cur] # None /\ cr[cur].uid = snap.uid => cr[cur].deleting]_vars

\* The finalizer is released, and the CR disappears, only when the ClusterRole
\* and the ClusterRoleBinding are gone (lines 322-335).
CleanBeforeRelease ==
  [][\A c \in Keys :
       cr[c] # None /\ cr[c].deleting /\ cr'[c] = None =>
         /\ ~Present(<<"ClusterRole", Cluster>>)
         /\ ~Present(<<"ClusterRoleBinding", Cluster>>)]_vars

\* What the worker writes to a CR fits the CR as it is at that moment: the
\* error is set on an invalid spec only, the finalizer on a valid CR that is not
\* being deleted, and the finalizer is taken only from a CR that is.
WritesFit ==
  [][\A c \in Keys : cr[c] # None =>
       /\ cr'[c] # None /\ cr'[c].err /\ ~cr[c].err => ~validate(cr[c].spec)
       /\ cr'[c] # None /\ cr'[c].fin /\ ~cr[c].fin =>
            validate(cr[c].spec) /\ ~cr[c].deleting
       /\ cr[c].fin /\ cr'[c] = None => cr[c].deleting]_vars

\* A Deployment is created for a CR that still exists only when everything its
\* pods run with is there: account, roles, bindings and security constraints,
\* unless somebody takes a child away.  Only the first CR counts: a later one of
\* the same name may find a child of the first that is about to be collected.
DeployedWithPermissions ==
  [][\A ns \in Namespaces :
       (/\ budget["drift"] = Limits["drift"]
        /\ ~Present(<<"Deployment", ns>>) /\ obj'[<<"Deployment", ns>>] # None
        /\ cr[cur] # None /\ cr[cur].uid = snap.uid /\ snap.uid = Limits["create"]) =>
         \A k \in {"SCC", "ServiceAccount", "ClusterRole",
                   "ClusterRoleBinding", "Role", "RoleBinding"} :
           Present(Id(k, ns))]_vars

\* CR c can be served: it is there to stay, valid, and its claim exists.
Servable(c) ==
  /\ cr[c] # None /\ ~cr[c].deleting /\ validate(cr[c].spec)
  /\ NsOf[c] \notin terminating
  /\ cr[c].spec.pvc = "data" => NsOf[c] \in claims

\* CR c has all its children and the finalizer.
Provisioned(c) ==
  /\ cr[c] # None /\ cr[c].fin
  /\ \A k \in Kinds :
       Skips(cr[c].spec, k) \/ (k = "PVC" /\ cr[c].spec.pvc = "data")
         \/ Present(Id(k, NsOf[c]))

\* Once nobody disturbs a servable CR any more, all its children are there for
\* good, whatever failed, crashed, was lost or was cleaned up for another CR.
Converges == \A c \in Keys : <>[]Servable(c) => <>[]Provisioned(c)

\* A CR under deletion goes away, unless its spec is invalid, its claim is
\* missing or its namespace is terminating.
DeletionCompletes ==
  \A c \in Keys :
    cr[c] # None /\ cr[c].deleting ~>
      \/ cr[c] = None
      \/ ~validate(cr[c].spec)
      \/ cr[c].spec.pvc = "data" /\ NsOf[c] \notin claims
      \/ NsOf[c] \in terminating

\* An invalid CR ends up with its error in the status.
InvalidReported ==
  \A c \in Keys :
    <>[](cr[c] # None /\ ~validate(cr[c].spec)) =>
      <>[](cr[c] # None /\ cr[c].err)

\* When a CR is gone for good, so are the children it owned.
ChildrenCollected ==
  \A c \in Keys : <>[](cr[c] = None) =>
    <>[](\A o \in Ids : o[1] \in Namespaced /\ Present(o) => obj[o].key # c)

\* A servable CR that was deleted and created anew ends up with children of its
\* own: what the previous one of its name left in the namespace is never
\* compared with the CR (line 249), but collected and built again.
ChildrenRenewed ==
  \A c \in Keys : <>[]Servable(c) =>
    <>[](\A o \in Ids : o[1] \in Namespaced /\ Present(o) /\ obj[o].key = c =>
            cr[c] # None /\ obj[o].uid = cr[c].uid)

-----------------------------------------------------------------------------
(* The finalizer in the abstract.                                           *)

\* The children that have no owner and that the operator deletes itself.
External == {<<"ClusterRole", Cluster>>, <<"ClusterRoleBinding", Cluster>>}

Phase(m) ==
  IF m = None THEN "absent"
  ELSE IF m.deleting THEN "leaving"
  ELSE IF m.fin THEN "held" ELSE "free"

Contract == INSTANCE FinalizerContract WITH
  Resources <- External,
  phase <- [c \in Keys |-> Phase(cr[c])],
  external <- {o \in External : Present(o)}

\* Reconcile keeps the promise of a finalizer (lines 303-338): a CR that has it
\* leaves in two steps, the second one when ClusterRole and binding are gone, and
\* no write of a stale copy takes a CR back to an earlier phase.
ImplementsContract == Contract!Spec

-----------------------------------------------------------------------------
(* What comments and tutorials say, and the code does not do.               *)

\* With the last CR gone and nothing left to do, the children that no garbage
\* collector deletes are gone (Tutorial 4: "Check if CR deleted. If yes, delete
\* some resources that are not deleted by garbage collector").
NothingLeftBehind ==
  (\A c \in Keys : cr[c] = None /\ seenCR[c] = None) /\ queue = {} /\ pc = "idle"
    => \A o \in External : ~Present(o)

\* A CR under deletion goes away, whatever its spec says and whatever became of
\* its namespace (Tutorial 4, as above).
DeletionAlwaysCompletes ==
  \A c \in Keys : cr[c] # None /\ cr[c].deleting ~> cr[c] = None

=============================================================================
