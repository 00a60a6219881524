--------------------------- MODULE TutorialStages ---------------------------
(***************************************************************************)
(* The reconcilers that the Go operator tutorial goes through on its way   *)
(* to NFSProvisioner: 1.serviceaccount, 2.deployment, 2.rbac, 3.hostpath   *)
(* and 4.pvc.  They share one shape, a list of children that are created   *)
(* one after the other where they are missing, with a failed creation only *)
(* logged, and differ in the children and in what follows them.            *)
(*                                                                         *)
(* One CR, one namespace, one worker; the informers are up to date.  The   *)
(* API server refuses a child of a namespaced kind that comes without a    *)
(* namespace, and a new finalizer on a CR under deletion.                  *)
(***************************************************************************)
EXTENDS Naturals, Sequences, FiniteSets

CONSTANTS
  Stages,    \* the reconcilers: "1.serviceaccount" ... "4.pvc"
  CRName,    \* metadata.name of the CR
  SpecPvc,   \* its .spec.pvc, for stage 4
  Finalized, \* whether a CR of stage 4 may come with its finalizer, as from a backup
  Limits,    \* how often each uncontrolled event happens at most (bound)
  Together,  \* how many kinds of these events happen at most (bound)
  None

Budgets == {"create", "delete", "drift", "read", "write", "crash"}

ASSUME StagesAssumption ==
  Stages \subseteq {"1.serviceaccount", "2.deployment", "2.rbac", "3.hostpath", "4.pvc"}
ASSUME FinalizedAssumption == Finalized \subseteq BOOLEAN
ASSUME LimitsAssumption == Limits \in [Budgets -> Nat] /\ Together \in Nat

VARIABLES
  Stage,   \* the reconciler at work
  cr,      \* API server: the CR, or None
  obj,     \* API server: the child of each kind, or None
  claims,  \* names of claims that the user has made
  queued,  \* whether the work queue holds the CR's key
  pc, snap,\* worker: next call, copy of the CR
  budget

vars == <<Stage, cr, obj, claims, queued, pc, snap, budget>>

-----------------------------------------------------------------------------
(* The children of each stage, in the order of its Reconcile: the name that *)
(* is looked up, the name that is given, whether the builder sets the       *)
(* namespace, and whether any error of Get leads to Create.                 *)

ClusterScoped == {"SCC", "ClusterRole", "ClusterRoleBinding", "StorageClass"}
CreatesOnAnyError == {"ClusterRole", "ClusterRoleBinding", "Role", "RoleBinding"}

\* Mutant: the controller reference is forgotten.
UnownedChild(kind, get, name) ==
  [kind |-> kind, get |-> get, name |-> name, placed |-> TRUE,
   owned |-> FALSE, anyError |-> kind \in CreatesOnAnyError]

\* What the builders do: they give a name and a namespace and set the owner, which
\* fails unnoticed for a child that is in no namespace.
Child(kind, get, name) ==
  [kind |-> kind, get |-> get, name |-> name, placed |-> TRUE,
   owned |-> kind \notin ClusterScoped, anyError |-> kind \in CreatesOnAnyError]

ServiceAccount == Child("ServiceAccount", "nfs-provisioner", "nfs-provisioner")
Role == Child("Role", "leader-locking-nfs-provisioner", "leader-locking-nfs-provisioner")
RoleBinding == [Role EXCEPT !.kind = "RoleBinding"]
ClusterRole == Child("ClusterRole", "nfs-provisioner-runner", "nfs-provisioner-runner")
ClusterRoleBinding ==
  Child("ClusterRoleBinding", "run-provisioner-runner", "run-provisioner-runner")
Deployment == Child("Deployment", CRName, CRName)
Service == Child("Service", "nfs-provisioner", "nfs-provisioner")

\* 2.rbac builds Role and RoleBinding without a namespace.
rbacRole == [Role EXCEPT !.placed = FALSE]
rbacRoleBinding == [RoleBinding EXCEPT !.placed = FALSE]

\* 3.hostpath looks the claim up by the name of the CR.
hostpathPVC == Child("PVC", CRName, "nfs-provisioner")
hostpathStorageClass == Child("StorageClass", "example-nfs", "example-nfs")

\* 4.pvc looks up other names than it gives, and only sets the claim up if the
\* spec names one.
pvcName == IF SpecPvc # "" THEN SpecPvc ELSE "nfs-server"
pvcPVC == Child("PVC", pvcName, "nfs")
pvcClusterRoleBinding ==
  Child("ClusterRoleBinding", "nfs-provisioner-runner", "run-provisioner-runner")
pvcDeployment == Child("Deployment", "nfs-provisioner", CRName)
pvcStorageClass == Child("StorageClass", "nfs", "nfs")

\* Its SCC is built with a namespace, so that the owner is set, although the API
\* server then puts it in none.
pvcSCC ==
  [Child("SCC", "nfs-provisioner", "nfs-provisioner") EXCEPT !.owned = TRUE]

Stage1 == <<ServiceAccount>>

Stage2Deployment == <<ServiceAccount, Deployment>>

Stage2Rbac ==
  <<ServiceAccount, ClusterRole, ClusterRoleBinding, rbacRole, rbacRoleBinding, Deployment>>

Stage3 ==
  <<hostpathPVC, ServiceAccount, ClusterRole, ClusterRoleBinding, Role, RoleBinding,
    Deployment, Service, hostpathStorageClass>>

Stage4 ==
  <<pvcSCC, pvcPVC, ServiceAccount, ClusterRole, pvcClusterRoleBinding, Role,
    RoleBinding, pvcDeployment, Service, pvcStorageClass>>

Children ==
  CASE Stage = "1.serviceaccount" -> Stage1
    [] Stage = "2.deployment" -> Stage2Deployment
    [] Stage = "2.rbac" -> Stage2Rbac
    [] Stage = "3.hostpath" -> Stage3
    [] Stage = "4.pvc" -> Stage4

\* The kinds of the stage, of all stages.
Kinds == {Children[i].kind : i \in DOMAIN Children}
AllKinds == ClusterScoped \cup {"PVC", "ServiceAccount", "Role", "RoleBinding",
                                "Deployment", "Service"}
Row(k) == Children[CHOOSE i \in DOMAIN Children : Children[i].kind = k]
After(k) ==
  LET i == CHOOSE j \in DOMAIN Children : Children[j].kind = k
  IN IF i = Len(Children) THEN "finish" ELSE Children[i + 1].kind

\* Without .spec.pvc stage 4 relies on a claim that is there already.
Skips(k) == Stage = "4.pvc" /\ k = "PVC" /\ SpecPvc = ""

-----------------------------------------------------------------------------

Init ==
  /\ Stage \in Stages
  /\ cr = None /\ obj = [k \in AllKinds |-> None] /\ claims = {}
  /\ queued = FALSE /\ pc = "idle" /\ snap = None
  /\ budget = Limits

Spend(F) ==
  /\ \A b \in F : budget[b] > 0
  /\ budget' = [b \in Budgets |-> IF b \in F THEN budget[b] - 1 ELSE budget[b]]
  /\ Cardinality({b \in Budgets : budget'[b] # Limits[b]}) <= Together

Present(k) == obj[k] # None

Found(k) ==
  \/ Present(k) /\ obj[k].name = Row(k).get
  \/ k = "PVC" /\ Row(k).get \in claims

Goto(l) == pc' = l /\ UNCHANGED <<snap, queued>>
Return == pc' = "idle" /\ snap' = None /\ UNCHANGED queued
\* Mutant: the copy of the CR outlives the reconciliation.
SnapKept == pc' = "idle" /\ queued' = TRUE /\ UNCHANGED snap

Requeue == pc' = "idle" /\ snap' = None /\ queued' = TRUE

-----------------------------------------------------------------------------
(* The worker.                                                              *)

Dequeue ==
  /\ pc = "idle" /\ queued
  /\ queued' = FALSE /\ pc' = "get"
  /\ UNCHANGED <<Stage, cr, obj, claims, snap, budget>>

GetCR ==
  /\ pc = "get"
  /\ \/ cr = None /\ Return /\ Spend({})
     \/ cr # None /\ pc' = Children[1].kind /\ snap' = cr /\ Spend({}) /\ UNCHANGED queued
     \/ Requeue /\ Spend({"read"})
  /\ UNCHANGED <<Stage, cr, obj, claims>>

\* The child is there, is not looked after, or could not be read.
PassChild(k) ==
  /\ pc = k
  /\ \/ (Skips(k) \/ Found(k)) /\ Spend({})
     \/ ~Row(k).anyError /\ Spend({"read"})
  /\ Goto(After(k))
  /\ UNCHANGED <<Stage, cr, obj, claims>>

\* Create is called.  Whether it works or not, Reconcile goes on to the next
\* child: the error is logged.
CreateChild(k) ==
  LET possible == ~Present(k) /\ Row(k).placed
      owner == IF Row(k).owned THEN snap.uid ELSE None
      created == [obj EXCEPT ![k] = [name |-> Row(k).name, uid |-> owner]]
      unread == IF Found(k) THEN {"read"} ELSE {}
  IN /\ pc = k /\ ~Skips(k)
     /\ Found(k) => Row(k).anyError
     /\ \/ Spend(unread) /\ obj' = IF possible THEN created ELSE obj
        \/ Spend(unread \cup {"write"}) /\ UNCHANGED obj
     /\ Goto(After(k))
     /\ UNCHANGED <<Stage, cr, claims>>

\* Mutant: a reconciliation that is through does not ask for the next one.
StopsWhenDone ==
  /\ pc = "finish"
  /\ Stage # "4.pvc" \/ snap.deleting
  /\ Return
  /\ UNCHANGED <<Stage, cr, obj, claims, budget>>

\* Stages 1 to 3 start over; so does stage 4 for a CR under deletion: if it
\* lacks the finalizer, the update that adds it fails.
StartOver ==
  /\ pc = "finish"
  /\ Stage # "4.pvc" \/ snap.deleting
  /\ Requeue
  /\ UNCHANGED <<Stage, cr, obj, claims, budget>>

\* Stage 4, for a CR that is not under deletion: nothing more to do if it has
\* no finalizer, and the clean-up if it has one.
FinishLive ==
  /\ pc = "finish" /\ Stage = "4.pvc" /\ ~snap.deleting
  /\ IF snap.fin THEN Goto("deleteClusterRole") ELSE Return
  /\ UNCHANGED <<Stage, cr, obj, claims, budget>>

\* Mutant: an error of Delete is only logged.
DeleteErrorIgnored(k, name, label, next) ==
  LET there == Present(k) /\ obj[k].name = name
  IN /\ pc = label /\ Goto(next)
     /\ \/ Spend({}) /\ obj' = IF there THEN [obj EXCEPT ![k] = None] ELSE obj
        \/ there /\ Spend({"write"}) /\ UNCHANGED obj
     /\ UNCHANGED <<Stage, cr, claims>>

\* One half of deleteExternalResources, for the child of the given name.
DeleteExternal(k, name, label, next) ==
  LET there == Present(k) /\ obj[k].name = name
      deleted == obj' = [obj EXCEPT ![k] = None]
  IN /\ pc = label
     /\ \/ ~there /\ Spend({}) /\ Goto(next) /\ UNCHANGED obj
        \/ Spend({"read"}) /\ Goto(next) /\ UNCHANGED obj
        \/ there /\ Spend({}) /\ deleted /\ Goto(next)
        \/ there /\ Spend({"write"}) /\ (UNCHANGED obj \/ deleted) /\ Requeue
     /\ UNCHANGED <<Stage, cr, claims>>

DeleteClusterRole ==
  DeleteExternal("ClusterRole", "nfs-provisioner-runner",
                 "deleteClusterRole", "deleteClusterRoleBinding")
DeleteClusterRoleBinding ==
  DeleteExternal("ClusterRoleBinding", "nfs-provisioner-runner",
                 "deleteClusterRoleBinding", "release")

\* The update fails if the CR has changed since it was read, and may fail for
\* another reason, before or after it is applied.  An error puts the key back
\* in the queue, and so does the event of an update that is applied.
RemoveFinalizer ==
  /\ pc = "release" /\ Requeue
  /\ \/ cr = snap /\ cr' = [snap EXCEPT !.fin = FALSE] /\ Spend({})
     \/ cr = snap /\ cr' = [snap EXCEPT !.fin = FALSE] /\ Spend({"write"})
     \/ cr # snap /\ UNCHANGED cr /\ Spend({})
     \/ UNCHANGED cr /\ Spend({"write"})
  /\ UNCHANGED <<Stage, obj, claims>>

Reconcile ==
  \/ GetCR \/ StartOver \/ FinishLive
  \/ \E k \in Kinds : PassChild(k) \/ CreateChild(k)
  \/ Stage = "4.pvc" /\ (DeleteClusterRole \/ DeleteClusterRoleBinding \/ RemoveFinalizer)

-----------------------------------------------------------------------------
(* Users, the garbage collector, crashes.  Every event of the CR queues it. *)

CreateCR ==
  /\ cr = None /\ Spend({"create"})
  /\ \E f \in Finalized :
       /\ f => Stage = "4.pvc"
       /\ cr' = [uid |-> budget["create"], deleting |-> FALSE, fin |-> f, foreground |-> FALSE]
  /\ queued' = TRUE
  /\ UNCHANGED <<Stage, obj, claims, pc, snap>>

\* A foreground deletion waits for the children that the CR owns.
DeleteCR ==
  /\ cr # None /\ ~cr.deleting /\ Spend({"delete"})
  /\ \E foreground \in BOOLEAN :
       cr' = IF cr.fin \/ foreground
             THEN [cr EXCEPT !.deleting = TRUE, !.foreground = foreground] ELSE None
  /\ queued' = TRUE
  /\ UNCHANGED <<Stage, obj, claims, pc, snap>>

\* A child is deleted by a user, or, for the SCC, by a garbage collector that
\* cannot resolve its owner.
LoseChild(k) ==
  /\ Present(k) /\ Spend({"drift"})
  /\ obj' = [obj EXCEPT ![k] = None]
  /\ UNCHANGED <<Stage, cr, claims, queued, pc, snap>>

PrepareClaim ==
  /\ Stage = "4.pvc" /\ pvcName \notin claims /\ Spend({"drift"})
  /\ claims' = claims \cup {pvcName}
  /\ UNCHANGED <<Stage, cr, obj, queued, pc, snap>>

\* The owner, which has a namespace, is gone or waits for what it owns.
CollectGarbage(k) ==
  /\ k \notin ClusterScoped /\ Present(k) /\ obj[k].uid # None
  /\ (cr # None /\ cr.uid = obj[k].uid) => (cr.deleting /\ cr.foreground)
  /\ obj' = [obj EXCEPT ![k] = None]
  /\ UNCHANGED <<Stage, cr, claims, queued, pc, snap, budget>>

EndForeground ==
  /\ cr # None /\ cr.deleting /\ cr.foreground
  /\ \A k \in AllKinds \ ClusterScoped : Present(k) => obj[k].uid # cr.uid
  /\ cr' = IF cr.fin THEN [cr EXCEPT !.foreground = FALSE] ELSE None
  /\ queued' = TRUE
  /\ UNCHANGED <<Stage, obj, claims, pc, snap, budget>>

Crash ==
  /\ Spend({"crash"})
  /\ pc' = "idle" /\ snap' = None /\ queued' = (cr # None)
  /\ UNCHANGED <<Stage, cr, obj, claims>>

-----------------------------------------------------------------------------

Users == CreateCR \/ DeleteCR \/ PrepareClaim \/ \E k \in AllKinds : LoseChild(k)

Collector == EndForeground \/ \E k \in AllKinds : CollectGarbage(k)

Next == Dequeue \/ Reconcile \/ Users \/ Collector \/ Crash

Spec == Init /\ [][Next]_vars

\* The worker and the garbage collector go on.
FairSpec ==
  Spec /\ WF_vars(Dequeue) /\ WF_vars(Reconcile)
       /\ WF_vars(\E k \in AllKinds : CollectGarbage(k))

-----------------------------------------------------------------------------
(* Properties.                                                              *)

CRType == [uid : Nat, deleting : BOOLEAN, fin : BOOLEAN, foreground : BOOLEAN]

\* Every variable has its type.
TypeOK ==
  /\ cr \in CRType \cup {None}
  /\ Stage \in Stages
  /\ \A k \in AllKinds :
       Present(k) => k \in Kinds /\ obj[k].name = Row(k).name /\ obj[k].uid \in Nat \cup {None}
  /\ claims \subseteq {pvcName} /\ queued \in BOOLEAN
  /\ pc \in Kinds \cup {"idle", "get", "finish", "deleteClusterRole",
                        "deleteClusterRoleBinding", "release"}
  /\ snap \in IF pc \in {"idle", "get"} THEN {None} ELSE CRType
  /\ budget \in [Budgets -> Nat]

\* Before stage 4 a CR that stays has all its children in the end, although
\* their creation may fail unnoticed and they may be lost at any time; except,
\* in stage 2.rbac, the children that are built without a namespace.
ChildrenReturn ==
  Stage # "4.pvc" /\ <>[](cr # None /\ ~cr.deleting) =>
    <>[](\A k \in Kinds : Row(k).placed => Present(k) \/ Found(k))

\* A CR that is gone for good leaves no namespaced child, not even one that was
\* created after the CR went ("Owned objects are automatically garbage
\* collected").
ChildrenCollected ==
  <>[](cr = None) => <>[](\A k \in AllKinds \ ClusterScoped : ~Present(k))

\* The finalizer is taken from a CR only once the ClusterRole is gone, unless
\* a read fails: then the deletion is passed over.
ReleasedWithoutRole ==
  [][/\ cr # None /\ cr' # None /\ cr.fin /\ ~cr'.fin
     /\ budget["read"] = Limits["read"]
     => ~Present("ClusterRole")]_vars

=============================================================================
