------------------------ MODULE NFSProvisionerProofs ------------------------
(***************************************************************************)
(* Proofs about NFSProvisioner, for every set of keys, namespaces and      *)
(* specs, every bound and, except where a theorem says so, every lag.      *)
(***************************************************************************)
EXTENDS NFSProvisioner, TLAPS

-----------------------------------------------------------------------------
(* Lemmas about the operators the model is built from.                      *)

\* Every kind is followed by another label of a reconciliation under way.
LEMMA AfterLabel ==
  ASSUME NEW k \in Kinds
  PROVE  After[k] \in Labels \ {"idle", "get"}
BY DEF Kinds, ClusterScoped, Namespaced, After, Labels

\* Only the kinds themselves and the delete logic come after a kind.
LEMMA AfterKind ==
  ASSUME NEW k \in Kinds
  PROVE  After[k] \in Kinds \cup {"finalizer"}
BY DEF Kinds, ClusterScoped, Namespaced, After

\* The identity of a child of a key.
LEMMA IdOfKey ==
  ASSUME NEW k \in Kinds, NEW c \in Keys
  PROVE  Id(k, NsOf[c]) \in Ids
BY KeysAssumption DEF Id, Ids, Kinds, ClusterScoped, Namespaced

\* The two children that deleteExternalResources deletes.
LEMMA ExternalIds == External \subseteq Ids
BY DEF External, Ids, ClusterScoped

\* A claim name is a volume.
LEMMA VolumeType ==
  ASSUME NEW s \in Specs
  PROVE  getVolumeSpec(s, storageType(s)) \in Claims \cup {"HOSTPATH"}
BY SpecsAssumption DEF getVolumeSpec, storageType, pvcName, Claims, SpecType

\* What is built from a CR is a child.
LEMMA BuildType ==
  ASSUME NEW k \in Kinds, NEW c \in Keys, NEW m \in CRType
  PROVE  Build(k, c, m) \in ChildType
<1>1. m.spec \in Specs /\ m.uid \in Nat
  BY DEF CRType
<1>2. \A b \in BOOLEAN, v \in Claims \cup {"HOSTPATH"} : Child(c, m, b, v) \in ChildType
  BY <1>1 DEF Child, ChildType
<1>3. "" \in Claims
  BY DEF Claims
<1>4. k \in {"SCC", "ClusterRole", "ClusterRoleBinding", "StorageClass", "PVC",
             "ServiceAccount", "Role", "RoleBinding", "Deployment", "Service"}
  BY DEF Kinds, ClusterScoped, Namespaced
<1>5. getVolumeSpec(m.spec, storageType(m.spec)) \in Claims \cup {"HOSTPATH"}
  BY <1>1, VolumeType
<1>. QED
  BY <1>2, <1>3, <1>4, <1>5
     DEF Build, sccForNFSProvisioner, pvcForNFSProvisioner,
         serviceAccountForNFSProvisioner, clusterRoleForNFSProvisioner,
         clusterRoleBindingForNFSProvisioner, roleForNFSProvisioner,
         roleBindingForNFSProvisioner, deploymentForNFSProvisioner,
         serviceForNFSProvisioner, storageclassForNFSProvisioner

\* What the worker and the API server write to a CR is a CR.
LEMMA WrittenType ==
  ASSUME NEW m \in CRType
  PROVE  /\ [m EXCEPT !.err = TRUE, !.rv = @ + 1] \in CRType
         /\ [m EXCEPT !.fin = TRUE, !.rv = @ + 1] \in CRType
         /\ [m EXCEPT !.deleting = TRUE, !.rv = @ + 1] \in CRType
         /\ \A s \in Specs : [m EXCEPT !.spec = s, !.rv = @ + 1] \in CRType
<1> USE DEF CRType
<1>1. m.rv + 1 \in Nat
  OBVIOUS
<1>2. [m EXCEPT !.err = TRUE, !.rv = @ + 1] \in CRType
  BY <1>1
<1>3. [m EXCEPT !.fin = TRUE, !.rv = @ + 1] \in CRType
  BY <1>1
<1>4. [m EXCEPT !.deleting = TRUE, !.rv = @ + 1] \in CRType
  BY <1>1
<1>5. ASSUME NEW s \in Specs
      PROVE  [m EXCEPT !.spec = s, !.rv = @ + 1] \in CRType
  BY <1>1
<1>. QED
  BY <1>2, <1>3, <1>4, <1>5

\* Spending leaves a budget a budget.
LEMMA SpendType ==
  ASSUME budget \in [Budgets -> Nat], NEW F, F \subseteq Budgets, Spend(F)
  PROVE  budget' \in [Budgets -> Nat]
BY DEF Spend

-----------------------------------------------------------------------------
(* Type correctness.                                                        *)

\* The part of the type invariant about the worker.
WorkerOK ==
  /\ queue \subseteq Keys
  /\ pc \in Labels
  /\ cur \in IF pc = "idle" THEN {None} ELSE Keys
  /\ snap \in IF pc \in {"idle", "get"} THEN {None} ELSE CRType

\* An idle worker and a queue of keys have their types.
LEMMA BackToIdle ==
  ASSUME TypeOK, pc # "idle", Return \/ Requeue
  PROVE  WorkerOK'
BY DEF TypeOK, WorkerOK, Return, Requeue, Labels

\* A worker under way that goes on with the same CR keeps its types.
LEMMA GoingOn ==
  ASSUME TypeOK, pc \notin {"idle", "get"},
         NEW l \in Labels \ {"idle", "get"}, Goto(l)
  PROVE  WorkerOK'
BY DEF TypeOK, WorkerOK, Goto

\* Update keeps the types of the CRs and of the budget.
LEMMA UpdateType ==
  ASSUME TypeOK, pc \notin {"idle", "get"},
         NEW new \in CRType \cup {None}, NEW done \in BOOLEAN,
         Update(new, done)
  PROVE  cr' \in [Keys -> CRType \cup {None}] /\ budget' \in [Budgets -> Nat]
BY SpendType DEF TypeOK, Update, Budgets

\* Init and every step keep TypeOK.
LEMMA TypeInit == Init => TypeOK
BY LimitsAssumption DEF Init, TypeOK, Labels

\* The worker's steps keep the types.
LEMMA TypeReconcile == TypeOK /\ Reconcile => TypeOK'
<1> SUFFICES ASSUME TypeOK, Reconcile PROVE TypeOK'
  OBVIOUS
<1> USE DEF TypeOK, server, informer
<1>1. CASE GetCR
  <2>1. CASE seenCR[cur] # None /\ snap' = seenCR[cur]
             /\ pc' = (IF validate(seenCR[cur].spec) THEN "SCC" ELSE "status")
             /\ Spend({}) /\ UNCHANGED <<cur, queue>>
             /\ UNCHANGED <<server, informer>>
    <3>1. pc' \in Labels \ {"idle", "get"}
      BY <2>1 DEF Labels, Kinds, ClusterScoped
    <3>2. cur \in Keys /\ seenCR[cur] \in CRType
      BY <1>1, <2>1 DEF GetCR
    <3>. QED
      BY <2>1, <3>1, <3>2, SpendType
  <2>2. CASE (Return \/ Requeue) /\ (Spend({}) \/ Spend({"read"}))
             /\ UNCHANGED <<server, informer>>
    <3>1. WorkerOK'
      BY <1>1, <2>2, BackToIdle DEF GetCR
    <3>2. budget' \in [Budgets -> Nat]
      BY <2>2, SpendType DEF Budgets
    <3>. QED
      BY <2>2, <3>1, <3>2 DEF WorkerOK
  <2>. QED
    BY <1>1, <2>1, <2>2 DEF GetCR
<1>2. CASE RejectInvalid
  <2> DEFINE new == IF snap.err THEN snap
                    ELSE [snap EXCEPT !.err = TRUE, !.rv = @ + 1]
  <2>0. snap \in CRType
    BY <1>2 DEF RejectInvalid
  <2>1. new \in CRType \cup {None}
    BY <2>0, WrittenType, Zenon
  <2>2. Update(new, Return)
    BY <1>2 DEF RejectInvalid
  <2>3. cr' \in [Keys -> CRType \cup {None}] /\ budget' \in [Budgets -> Nat]
    <3> HIDE DEF new
    <3>. QED
      BY <1>2, <2>1, <2>2, UpdateType DEF RejectInvalid, Return
  <2>4. WorkerOK'
    BY <1>2, <2>2, BackToIdle DEF RejectInvalid, Update
  <2>. QED
    BY <1>2, <2>3, <2>4 DEF RejectInvalid, WorkerOK
<1>3. CASE EnsureChild
  <2>1. PICK k \in Kinds : PassChild(k) \/ CreateChild(k)
    BY <1>3 DEF EnsureChild
  <2>2. pc = k /\ pc \notin {"idle", "get"} /\ cur \in Keys /\ snap \in CRType
    BY <2>1 DEF PassChild, CreateChild, Kinds, ClusterScoped, Namespaced
  <2>3. CASE PassChild(k)
    <3>1. WorkerOK'
      BY <2>2, <2>3, AfterLabel, GoingOn DEF PassChild
    <3>2. budget' \in [Budgets -> Nat]
      BY <2>3, SpendType DEF PassChild, Budgets
    <3>. QED
      BY <2>3, <3>1, <3>2 DEF PassChild, WorkerOK
  <2>4. CASE CreateChild(k)
    <3>1. WorkerOK'
      BY <2>2, <2>4, AfterLabel, GoingOn, BackToIdle DEF CreateChild
    <3>2. budget' \in [Budgets -> Nat]
      BY <2>4, SpendType DEF CreateChild, Budgets
    <3>3. Id(k, NsOf[cur]) \in Ids /\ Build(k, cur, snap) \in ChildType
      BY <2>2, IdOfKey, BuildType
    <3>4. obj' \in [Ids -> ChildType \cup {None}]
      BY <2>4, <3>3 DEF CreateChild
    <3>. QED
      BY <2>4, <3>1, <3>2, <3>4 DEF CreateChild, WorkerOK
  <2>. QED
    BY <2>1, <2>3, <2>4
<1>4. CASE AddFinalizer
  <2> DEFINE new == [snap EXCEPT !.fin = TRUE, !.rv = @ + 1]
  <2>0. pc \notin {"idle", "get"} /\ snap \in CRType
    BY <1>4 DEF AddFinalizer
  <2>1. pc \notin {"idle", "get"} /\ new \in CRType \cup {None}
    BY <2>0, WrittenType, Zenon
  <2>2. \/ Update(new, Requeue)
        \/ Requeue /\ Spend({}) /\ UNCHANGED cr
    BY <1>4 DEF AddFinalizer
  <2>3. cr' \in [Keys -> CRType \cup {None}] /\ budget' \in [Budgets -> Nat]
    <3> HIDE DEF new
    <3>. QED
      BY <2>1, <2>2, UpdateType, SpendType DEF Requeue
  <2>4. WorkerOK'
    BY <2>1, <2>2, BackToIdle DEF Update
  <2>. QED
    BY <1>4, <2>3, <2>4 DEF AddFinalizer, WorkerOK
<1>5. CASE StartCleanup
  <2>1. WorkerOK'
    BY <1>5, GoingOn, BackToIdle DEF StartCleanup, Labels
  <2>2. budget' \in [Budgets -> Nat]
    BY <1>5, SpendType DEF StartCleanup
  <2>. QED
    BY <1>5, <2>1, <2>2 DEF StartCleanup, WorkerOK
<1>6. CASE DeleteClusterRole \/ DeleteClusterRoleBinding
  <2>1. PICK k \in {"ClusterRole", "ClusterRoleBinding"},
             label \in Labels \ {"idle", "get"}, next \in Labels \ {"idle", "get"} :
          DeleteExternal(k, label, next)
    BY <1>6 DEF DeleteClusterRole, DeleteClusterRoleBinding, Labels
  <2>2. WorkerOK'
    BY <2>1, GoingOn, BackToIdle DEF DeleteExternal
  <2>3. budget' \in [Budgets -> Nat]
    BY <2>1, SpendType DEF DeleteExternal, Budgets
  <2>4. obj' \in [Ids -> ChildType \cup {None}]
    BY <2>1 DEF DeleteExternal
  <2>. QED
    BY <2>1, <2>2, <2>3, <2>4 DEF DeleteExternal, WorkerOK
<1>7. CASE RemoveFinalizer
  <2>1. pc \notin {"idle", "get"} /\ Update(None, Return)
    BY <1>7 DEF RemoveFinalizer
  <2>2. cr' \in [Keys -> CRType \cup {None}] /\ budget' \in [Budgets -> Nat]
    BY <2>1, UpdateType DEF Return
  <2>3. WorkerOK'
    BY <2>1, BackToIdle DEF Update
  <2>. QED
    BY <1>7, <2>2, <2>3 DEF RemoveFinalizer, WorkerOK
<1>. QED
  BY <1>1, <1>2, <1>3, <1>4, <1>5, <1>6, <1>7 DEF Reconcile

\* Everything around the worker keeps the types.
LEMMA TypeAround ==
  TypeOK /\ (Observe \/ Users \/ ControlPlane \/ Crash \/ \E c \in Keys : Dequeue(c))
    => TypeOK'
<1> SUFFICES ASSUME TypeOK,
                    Observe \/ Users \/ ControlPlane \/ Crash
                      \/ \E c \in Keys : Dequeue(c)
             PROVE  TypeOK'
  OBVIOUS
<1> USE DEF TypeOK, server, informer, worker
<1>1. CASE Observe
  BY <1>1 DEF Observe, ObserveCR, ObserveChild
<1>2. CASE Crash
  <2>1. budget' \in [Budgets -> Nat]
    BY <1>2, SpendType DEF Crash, Budgets
  <2>2. seen' \subseteq LagChildren /\ queue' \subseteq Keys
    BY <1>2 DEF Crash
  <2>. QED
    BY <1>2, <2>1, <2>2 DEF Crash, Labels
<1>3. CASE \E c \in Keys : Dequeue(c)
  BY <1>3 DEF Dequeue, Labels
<1>4. ASSUME NEW c \in Keys, MarkDeleted(c), cr[c] # None
      PROVE  cr' \in [Keys -> CRType \cup {None}]
  <2>1. cr[c] \in CRType
    BY <1>4
  <2>2. [cr[c] EXCEPT !.deleting = TRUE, !.rv = @ + 1] \in CRType
    BY <2>1, WrittenType, Zenon
  <2>. QED
    BY <1>4, <2>2 DEF MarkDeleted
<1>5. CASE \E c \in Keys : DeleteCR(c) \/ PurgeCR(c)
  <2>1. PICK c \in Keys : DeleteCR(c) \/ PurgeCR(c)
    BY <1>5
  <2>2. cr' \in [Keys -> CRType \cup {None}]
    BY <1>4, <2>1 DEF DeleteCR, PurgeCR
  <2>3. budget' \in [Budgets -> Nat]
    BY <2>1, SpendType DEF DeleteCR, PurgeCR, Budgets
  <2>. QED
    BY <2>1, <2>2, <2>3 DEF DeleteCR, PurgeCR
<1>6. CASE \E c \in Keys, s \in Specs : CreateCR(c, s) \/ EditSpec(c, s)
  <2>1. PICK c \in Keys, s \in Specs : CreateCR(c, s) \/ EditSpec(c, s)
    BY <1>6
  <2>2. budget' \in [Budgets -> Nat]
    BY <2>1, SpendType DEF CreateCR, EditSpec, Budgets
  <2>3. cr' \in [Keys -> CRType \cup {None}]
    <3>1. CASE CreateCR(c, s)
      <4>1. budget["create"] \in Nat
        BY DEF Budgets
      <4>2. [uid |-> budget["create"], rv |-> 0, spec |-> s, deleting |-> FALSE,
             fin |-> FALSE, err |-> FALSE] \in CRType
        BY <4>1 DEF CRType
      <4>. QED
        BY <3>1, <4>2 DEF CreateCR
    <3>2. CASE EditSpec(c, s)
      <4>1. [cr[c] EXCEPT !.spec = s, !.rv = @ + 1] \in CRType
        BY <3>2, WrittenType, Zenon DEF EditSpec
      <4>. QED
        BY <3>2, <4>1 DEF EditSpec
    <3>. QED
      BY <2>1, <3>1, <3>2
  <2>. QED
    BY <2>1, <2>2, <2>3 DEF CreateCR, EditSpec
<1>7. CASE \E o \in Ids : LoseChild(o) \/ CollectGarbage(o) \/ PurgeChild(o)
  <2>1. PICK o \in Ids : LoseChild(o) \/ CollectGarbage(o) \/ PurgeChild(o)
    BY <1>7
  <2>2. budget' \in [Budgets -> Nat]
    BY <2>1, SpendType DEF LoseChild, CollectGarbage, PurgeChild, Budgets
  <2>3. obj' \in [Ids -> ChildType \cup {None}]
    BY <2>1 DEF LoseChild, CollectGarbage, PurgeChild
  <2>. QED
    BY <2>1, <2>2, <2>3 DEF LoseChild, CollectGarbage, PurgeChild
<1>8. CASE \E ns \in Namespaces : PrepareClaim(ns) \/ DeleteNamespace(ns) \/ PurgeClaim(ns)
  <2>1. PICK ns \in Namespaces : PrepareClaim(ns) \/ DeleteNamespace(ns) \/ PurgeClaim(ns)
    BY <1>8
  <2>2. budget' \in [Budgets -> Nat]
    BY <2>1, SpendType DEF PrepareClaim, DeleteNamespace, PurgeClaim, Budgets
  <2>. QED
    BY <2>1, <2>2 DEF PrepareClaim, DeleteNamespace, PurgeClaim
<1>. QED
  BY <1>1, <1>2, <1>3, <1>5, <1>6, <1>7, <1>8 DEF Users, ControlPlane

\* Every step keeps the types.
LEMMA TypeStep == TypeOK /\ [Next]_vars => TypeOK'
<1>1. ASSUME TypeOK, UNCHANGED vars PROVE TypeOK'
  BY <1>1 DEF TypeOK, vars, server, informer, worker
<1>. QED
  BY <1>1, TypeReconcile, TypeAround DEF Next, Operator

\* Every variable has its type in every state: the worker never holds a CR while
\* it is idle, and never calls the API without one.
THEOREM TypeCorrect == Spec => []TypeOK
BY TypeInit, TypeStep, PTL DEF Spec

-----------------------------------------------------------------------------
(* A CR with the finalizer is still there while the worker has it in hand.  *)
(* The informers of the CRs must not lag: a copy read late may be of a CR   *)
(* that is gone.                                                            *)

CleanupLabels == {"deleteClusterRole", "deleteClusterRoleBinding", "release"}

\* The CR read with the finalizer is still there, and still under deletion if
\* it was; clean-up is for such a CR only.
InFlight ==
  /\ pc \notin {"idle", "get"} /\ snap.fin =>
       /\ cr[cur] # None /\ cr[cur].uid = snap.uid /\ cr[cur].fin
       /\ snap.deleting => cr[cur].deleting
  /\ pc \in CleanupLabels => snap.fin /\ snap.deleting

\* The worker's own steps keep InFlight.
LEMMA InFlightReconcile ==
  ASSUME LagCRs = {}, TypeOK, InFlight, UpToDate, Reconcile
  PROVE  InFlight'
<1> USE DEF InFlight, CleanupLabels, server, informer
<1>1. CASE (Return \/ Requeue) \/ pc' = "idle"
  BY <1>1 DEF Return, Requeue
<1>2. CASE GetCR
  <2>1. seenCR[cur] = cr[cur]
    BY <1>2 DEF GetCR, UpToDate, TypeOK
  <2>2. CASE Return \/ Requeue
    BY <1>1, <2>2
  <2>3. CASE ~(Return \/ Requeue)
    <3>1. seenCR[cur] # None /\ snap' = seenCR[cur] /\ cur' = cur /\ cr' = cr
      BY <1>2, <2>3 DEF GetCR
    <3>2. pc' \in {"SCC", "status"}
      BY <1>2, <2>3 DEF GetCR
    <3>. QED
      BY <2>1, <3>1, <3>2
  <2>. QED
    BY <2>2, <2>3
<1>3. CASE RejectInvalid
  BY <1>1, <1>3 DEF RejectInvalid, Update
<1>4. CASE EnsureChild
  <2>1. PICK k \in Kinds : PassChild(k) \/ CreateChild(k)
    BY <1>4 DEF EnsureChild
  <2>2. pc = k /\ cr' = cr /\ (Goto(After[k]) \/ Requeue)
    BY <2>1 DEF PassChild, CreateChild
  <2>3. After[k] \notin CleanupLabels /\ k \notin {"idle", "get"}
    BY AfterKind DEF Kinds, ClusterScoped, Namespaced
  <2>. QED
    BY <1>1, <2>2, <2>3 DEF Goto
<1>5. CASE AddFinalizer
  BY <1>1, <1>5 DEF AddFinalizer, Update
<1>6. CASE StartCleanup
  BY <1>1, <1>6 DEF StartCleanup, Goto
<1>7. CASE DeleteClusterRole
  BY <1>1, <1>7 DEF DeleteClusterRole, DeleteExternal, Goto
<1>8. CASE DeleteClusterRoleBinding
  BY <1>1, <1>8 DEF DeleteClusterRoleBinding, DeleteExternal, Goto
<1>9. CASE RemoveFinalizer
  BY <1>1, <1>9 DEF RemoveFinalizer, Update
<1>. QED
  BY <1>2, <1>3, <1>4, <1>5, <1>6, <1>7, <1>8, <1>9 DEF Reconcile

\* So do the steps of everything around it.
LEMMA InFlightAround ==
  ASSUME TypeOK, InFlight,
         Observe \/ Users \/ ControlPlane \/ Crash \/ \E c \in Keys : Dequeue(c)
  PROVE  InFlight'
<1> USE DEF InFlight, CleanupLabels, server, informer, worker
<1>1. CASE Crash \/ \E c \in Keys : Dequeue(c)
  BY <1>1 DEF Crash, Dequeue
<1>2. CASE cr' = cr /\ UNCHANGED worker
  BY <1>2
<1>3. ASSUME NEW c \in Keys, MarkDeleted(c), UNCHANGED worker, cr[c] # None
      PROVE  InFlight'
  <2>1. cr[c] \in CRType /\ cr \in [Keys -> CRType \cup {None}]
    BY <1>3 DEF TypeOK
  <2> DEFINE marked == [cr[c] EXCEPT !.deleting = TRUE, !.rv = @ + 1]
  <2>2. marked.uid = cr[c].uid /\ marked.fin = cr[c].fin /\ marked.deleting
    BY <2>1 DEF CRType
  <2>3. marked # None
    BY <2>1, WrittenType, NoneAssumption, Zenon
  <2>4. \A d \in Keys : cr'[d] = IF d = c THEN (IF cr[c].fin THEN marked ELSE None)
                                          ELSE cr[d]
    BY <1>3, <2>1 DEF MarkDeleted
  <2>5. pc \notin {"idle", "get"} => cur \in Keys
    BY DEF TypeOK
  <2>. QED
    <3> HIDE DEF marked
    <3>. QED
      BY <1>3, <2>2, <2>3, <2>4, <2>5
<1>4. CASE \E c \in Keys : DeleteCR(c) \/ PurgeCR(c)
  BY <1>3, <1>4 DEF DeleteCR, PurgeCR
<1>5. CASE \E c \in Keys, s \in Specs : CreateCR(c, s)
  <2>1. PICK c \in Keys, s \in Specs : CreateCR(c, s)
    BY <1>5
  <2>2. pc \notin {"idle", "get"} /\ snap.fin => cur # c /\ cur \in Keys
    BY <2>1 DEF CreateCR, TypeOK
  <2>3. \A d \in Keys \ {c} : cr'[d] = cr[d]
    BY <2>1 DEF CreateCR, TypeOK
  <2>. QED
    BY <2>1, <2>2, <2>3 DEF CreateCR
<1>6. CASE \E c \in Keys, s \in Specs : EditSpec(c, s)
  <2>1. PICK c \in Keys, s \in Specs : EditSpec(c, s)
    BY <1>6
  <2>2. cr[c] \in CRType /\ cr \in [Keys -> CRType \cup {None}]
    BY <2>1 DEF EditSpec, TypeOK
  <2> DEFINE edited == [cr[c] EXCEPT !.spec = s, !.rv = @ + 1]
  <2>3. /\ edited.uid = cr[c].uid /\ edited.fin = cr[c].fin
        /\ edited.deleting = cr[c].deleting
    BY <2>2 DEF CRType
  <2>4. edited # None
    <3>1. edited \in CRType
      BY <2>2, WrittenType, Zenon
    <3>. QED
      BY <3>1, NoneAssumption, Zenon
  <2>5. \A d \in Keys : cr'[d] = IF d = c THEN edited ELSE cr[d]
    BY <2>1, <2>2 DEF EditSpec
  <2>6. pc \notin {"idle", "get"} => cur \in Keys
    BY DEF TypeOK
  <2>. QED
    <3> HIDE DEF edited
    <3>. QED
      BY <2>1, <2>3, <2>4, <2>5, <2>6 DEF EditSpec
<1>7. CASE Observe
  BY <1>2, <1>7 DEF Observe, ObserveCR, ObserveChild
<1>8. CASE \E o \in Ids : LoseChild(o) \/ CollectGarbage(o) \/ PurgeChild(o)
  BY <1>2, <1>8 DEF LoseChild, CollectGarbage, PurgeChild
<1>9. CASE \E ns \in Namespaces : PrepareClaim(ns) \/ DeleteNamespace(ns) \/ PurgeClaim(ns)
  BY <1>2, <1>9 DEF PrepareClaim, DeleteNamespace, PurgeClaim
<1>. QED
  BY <1>1, <1>4, <1>5, <1>6, <1>7, <1>8, <1>9 DEF Users, ControlPlane

\* Together, TypeOK and InFlight are inductive.
LEMMA InFlightStep ==
  ASSUME LagCRs = {}
  PROVE  TypeOK /\ InFlight /\ [Next]_vars => InFlight'
<1>1. ASSUME InFlight, UNCHANGED vars PROVE InFlight'
  BY <1>1 DEF InFlight, vars, server, worker
<1>. QED
  BY <1>1, InFlightReconcile, InFlightAround DEF Next, Operator

\* While no CR is shown late, a CR that the worker read with its finalizer is
\* still there, with the finalizer and the same uid, until the worker is through
\* with it: what the worker creates for it has an owner.
THEOREM InFlightProtected == LagCRs = {} => (Spec => []ProtectedInFlight)
<1>. SUFFICES ASSUME LagCRs = {} PROVE Spec => []ProtectedInFlight
  OBVIOUS
<1>1. Init => InFlight
  BY DEF Init, InFlight, CleanupLabels
<1>2. TypeOK /\ InFlight /\ [Next]_vars => InFlight'
  BY InFlightStep
<1>3. InFlight => ProtectedInFlight
  BY DEF InFlight, ProtectedInFlight
<1>. QED
  BY <1>1, <1>2, <1>3, TypeCorrect, PTL DEF Spec

-----------------------------------------------------------------------------
(* Clean-up is done before the finalizer is released, as long as the        *)
(* informers show the ClusterRole and its binding as they are and no read   *)
(* fails: DeleteExternal takes any error of Get for "nothing to delete".    *)

\* What has been deleted when clean-up is at its second and its third step.
Cleaned ==
  /\ budget["read"] = 0
  /\ pc = "deleteClusterRoleBinding" => ~Present(<<"ClusterRole", Cluster>>)
  /\ pc = "release" => \A o \in External : ~Present(o)

\* A child is created by the worker only, and only while it is at that kind.
LEMMA NoNewChild ==
  ASSUME TypeOK, [Next]_vars, NEW o \in Ids, ~Present(o), obj'[o] # None
  PROVE  pc \in Kinds
<1>1. UNCHANGED vars \/ Observe \/ Users \/ ControlPlane \/ Reconcile \/ Crash
        \/ \E c \in Keys : Dequeue(c)
  BY DEF Next, Operator
<1>2. obj' # obj
  BY DEF Present
<1>3. CASE Reconcile
  BY <1>2, <1>3
     DEF Reconcile, GetCR, RejectInvalid, AddFinalizer, StartCleanup,
         RemoveFinalizer, DeleteClusterRole, DeleteClusterRoleBinding,
         DeleteExternal, EnsureChild, PassChild, CreateChild, Present, TypeOK, server
<1>4. CASE Users
  BY <1>2, <1>4 DEF Users, CreateCR, EditSpec, DeleteCR, LoseChild, PrepareClaim,
                    DeleteNamespace, Present, TypeOK
<1>5. CASE ControlPlane
  BY <1>2, <1>5 DEF ControlPlane, CollectGarbage, PurgeChild, PurgeCR, PurgeClaim,
                    Present, TypeOK
<1>. QED
  BY <1>1, <1>2, <1>3, <1>4, <1>5
     DEF vars, server, Observe, ObserveCR, ObserveChild, Crash, Dequeue

\* No step refills the budget of failed reads, or spends what is not there.
LEMMA NoReadFails ==
  ASSUME TypeOK, budget["read"] = 0, [Next]_vars
  PROVE  budget'["read"] = 0 /\ ~Spend({"read"})
<1>1. ~Spend({"read"})
  BY DEF Spend
<1>2. "read" \in Budgets
  BY DEF Budgets
<1>3. ASSUME NEW F, Spend(F) PROVE budget'["read"] = 0
  BY <1>2, <1>3 DEF Spend
<1>4. budget' = budget \/ \E F \in SUBSET Budgets : Spend(F)
  <2>1. UNCHANGED vars \/ Observe \/ Users \/ ControlPlane \/ Reconcile \/ Crash
          \/ \E c \in Keys : Dequeue(c)
    BY DEF Next, Operator
  <2>2. CASE Reconcile
    <3>1. CASE GetCR \/ RejectInvalid \/ AddFinalizer \/ StartCleanup \/ RemoveFinalizer
      BY <3>1 DEF GetCR, RejectInvalid, AddFinalizer, StartCleanup, RemoveFinalizer,
                  Update, Budgets
    <3>2. CASE EnsureChild
      BY <3>2 DEF EnsureChild, PassChild, CreateChild, Budgets
    <3>3. CASE DeleteClusterRole \/ DeleteClusterRoleBinding
      BY <3>3 DEF DeleteClusterRole, DeleteClusterRoleBinding, DeleteExternal, Budgets
    <3>. QED
      BY <2>2, <3>1, <3>2, <3>3 DEF Reconcile
  <2>3. CASE Users
    BY <2>3 DEF Users, CreateCR, EditSpec, DeleteCR, LoseChild, PrepareClaim,
                DeleteNamespace, Budgets
  <2>4. CASE ControlPlane
    BY <2>4 DEF ControlPlane, CollectGarbage, PurgeChild, PurgeCR, PurgeClaim
  <2>5. CASE UNCHANGED vars \/ Observe \/ Crash \/ \E c \in Keys : Dequeue(c)
    BY <2>5 DEF vars, Observe, ObserveCR, ObserveChild, Crash, Dequeue, Budgets
  <2>. QED
    BY <2>1, <2>2, <2>3, <2>4, <2>5
<1>. QED
  BY <1>1, <1>3, <1>4

\* How the worker gets to the second and the third step of clean-up.
LEMMA CleanupSteps ==
  ASSUME TypeOK, [Next]_vars, pc' \in {"deleteClusterRoleBinding", "release"}, pc' # pc
  PROVE  \/ pc' = "deleteClusterRoleBinding" /\ DeleteClusterRole /\ Goto(pc')
         \/ pc' = "release" /\ DeleteClusterRoleBinding /\ Goto(pc')
<1>1. UNCHANGED vars \/ Observe \/ Users \/ ControlPlane \/ Reconcile \/ Crash
        \/ \E c \in Keys : Dequeue(c)
  BY DEF Next, Operator
<1>2. ~(UNCHANGED worker)
  BY DEF worker
<1>3. CASE Reconcile
  <2>1. ~GetCR /\ ~RejectInvalid /\ ~AddFinalizer /\ ~StartCleanup /\ ~RemoveFinalizer
    BY DEF GetCR, RejectInvalid, AddFinalizer, StartCleanup, RemoveFinalizer,
           Update, Return, Requeue, Goto
  <2>2. ~EnsureChild
    <3>1. \A k \in Kinds : After[k] \notin {"deleteClusterRoleBinding", "release"}
      BY AfterKind DEF Kinds, ClusterScoped, Namespaced
    <3>. QED
      BY <3>1 DEF EnsureChild, PassChild, CreateChild, Requeue, Goto
  <2>3. CASE DeleteClusterRole
    BY <2>3 DEF DeleteClusterRole, DeleteExternal, Requeue, Goto
  <2>4. CASE DeleteClusterRoleBinding
    BY <2>4 DEF DeleteClusterRoleBinding, DeleteExternal, Requeue, Goto
  <2>. QED
    BY <1>3, <2>1, <2>2, <2>3, <2>4 DEF Reconcile
<1>4. CASE Users
  BY <1>2, <1>4 DEF Users, CreateCR, EditSpec, DeleteCR, LoseChild, PrepareClaim,
                    DeleteNamespace, worker
<1>5. CASE ControlPlane
  BY <1>2, <1>5 DEF ControlPlane, CollectGarbage, PurgeChild, PurgeCR, PurgeClaim, worker
<1>6. CASE UNCHANGED vars \/ Observe \/ Crash \/ \E c \in Keys : Dequeue(c)
  BY <1>2, <1>6 DEF vars, Observe, ObserveCR, ObserveChild, Crash, Dequeue, worker
<1>. QED
  BY <1>1, <1>3, <1>4, <1>5, <1>6

\* Deleting child k and going on leaves no k behind.
LEMMA DeletedExternal ==
  ASSUME External \cap LagChildren = {}, TypeOK, budget["read"] = 0,
         NEW k \in {"ClusterRole", "ClusterRoleBinding"}, NEW label, NEW next,
         next # "idle", DeleteExternal(k, label, next), Goto(next)
  PROVE  obj'[<<k, Cluster>>] = None
<1>1. <<k, Cluster>> \in External
  BY DEF External
<1>2. <<k, Cluster>> \notin LagChildren /\ <<k, Cluster>> \in Ids
  BY <1>1, ExternalIds
<1>3. ~Spend({"read"})
  BY DEF Spend
<1>4. ~Requeue
  BY DEF Requeue, Goto
<1>. QED
  BY <1>2, <1>3, <1>4 DEF DeleteExternal, Sees, Present, TypeOK

\* Cleaned is inductive.
LEMMA CleanedStep ==
  ASSUME External \cap LagChildren = {}
  PROVE  TypeOK /\ Cleaned /\ [Next]_vars => Cleaned'
<1> SUFFICES ASSUME TypeOK, Cleaned, [Next]_vars PROVE Cleaned'
  OBVIOUS
<1>1. budget["read"] = 0 /\ budget'["read"] = 0
  BY NoReadFails DEF Cleaned
<1>2. ASSUME NEW o \in External, ~Present(o),
             pc \in {"deleteClusterRole", "deleteClusterRoleBinding", "release"}
      PROVE  obj'[o] = None
  <2>1. pc \notin Kinds
    BY <1>2 DEF Kinds, ClusterScoped, Namespaced
  <2>. QED
    BY <1>2, <2>1, ExternalIds, NoNewChild
<1>3. /\ <<"ClusterRole", Cluster>> \in External
      /\ <<"ClusterRoleBinding", Cluster>> \in External
  BY DEF External
<1>4. CASE pc' = pc
  BY <1>1, <1>2, <1>3, <1>4 DEF Cleaned, Present
<1>5. CASE pc' # pc /\ pc' = "deleteClusterRoleBinding"
  <2>1. DeleteClusterRole /\ Goto("deleteClusterRoleBinding")
    BY <1>5, CleanupSteps
  <2>2. obj'[<<"ClusterRole", Cluster>>] = None
    BY <1>1, <2>1, DeletedExternal DEF DeleteClusterRole
  <2>. QED
    BY <1>1, <1>5, <2>2 DEF Cleaned, Present
<1>6. CASE pc' # pc /\ pc' = "release"
  <2>1. DeleteClusterRoleBinding /\ Goto("release")
    BY <1>6, CleanupSteps
  <2>2. obj'[<<"ClusterRoleBinding", Cluster>>] = None
    BY <1>1, <2>1, DeletedExternal DEF DeleteClusterRoleBinding
  <2>3. pc = "deleteClusterRoleBinding"
    BY <2>1 DEF DeleteClusterRoleBinding, DeleteExternal
  <2>4. obj'[<<"ClusterRole", Cluster>>] = None
    BY <1>2, <1>3, <2>3 DEF Cleaned
  <2>. QED
    BY <1>1, <1>6, <2>2, <2>4 DEF Cleaned, Present, External
<1>7. CASE pc' # pc /\ pc' \notin {"deleteClusterRoleBinding", "release"}
  BY <1>1, <1>7 DEF Cleaned
<1>. QED
  BY <1>4, <1>5, <1>6, <1>7

\* A CR under deletion leaves the API server by the worker's release only.
LEMMA ReleasedByWorker ==
  ASSUME TypeOK, [Next]_vars, NEW c \in Keys,
         cr[c] # None, cr[c].deleting, cr'[c] = None
  PROVE  pc = "release"
<1>1. UNCHANGED vars \/ Observe \/ Users \/ ControlPlane \/ Reconcile \/ Crash
        \/ \E d \in Keys : Dequeue(d)
  BY DEF Next, Operator
<1>2. cr' # cr /\ cr \in [Keys -> CRType \cup {None}]
  BY DEF TypeOK
<1>3. CASE Reconcile
  <2>1. ASSUME NEW new \in CRType, NEW done \in BOOLEAN, Update(new, done) PROVE FALSE
    BY <1>2, <2>1, NoneAssumption DEF Update
  <2>2. CASE RejectInvalid
    <3>1. snap \in CRType
      BY <2>2 DEF RejectInvalid, TypeOK
    <3>2. (IF snap.err THEN snap ELSE [snap EXCEPT !.err = TRUE, !.rv = @ + 1]) \in CRType
      BY <3>1, WrittenType, Zenon
    <3>. QED
      BY <2>1, <2>2, <3>2, Zenon DEF RejectInvalid, Return
  <2>3. CASE AddFinalizer
    <3>1. snap \in CRType
      BY <2>3 DEF AddFinalizer, TypeOK
    <3>2. [snap EXCEPT !.fin = TRUE, !.rv = @ + 1] \in CRType
      BY <3>1, WrittenType, Zenon
    <3>. QED
      BY <1>2, <2>1, <2>3, <3>2, Zenon DEF AddFinalizer, Requeue
  <2>4. ~GetCR /\ ~EnsureChild /\ ~StartCleanup /\ ~DeleteClusterRole
          /\ ~DeleteClusterRoleBinding
    BY <1>2 DEF GetCR, EnsureChild, PassChild, CreateChild, StartCleanup,
                DeleteClusterRole, DeleteClusterRoleBinding, DeleteExternal, server
  <2>. QED
    BY <1>3, <2>2, <2>3, <2>4, Zenon DEF Reconcile, RemoveFinalizer
<1>4. CASE Users
  <2>1. ASSUME NEW d \in Keys, NEW s \in Specs, CreateCR(d, s) PROVE FALSE
    BY <1>2, <2>1 DEF CreateCR
  <2>2. ASSUME NEW d \in Keys, NEW s \in Specs, EditSpec(d, s) PROVE FALSE
    <3>1. cr[d] \in CRType
      BY <1>2, <2>2 DEF EditSpec
    <3>2. [cr[d] EXCEPT !.spec = s, !.rv = @ + 1] \in CRType
      BY <3>1, WrittenType, Zenon
    <3>3. [cr[d] EXCEPT !.spec = s, !.rv = @ + 1] # None
      BY <3>2, NoneAssumption, Zenon
    <3>. QED
      BY <1>2, <2>2, <3>3 DEF EditSpec
  <2>3. ASSUME NEW d \in Keys, DeleteCR(d) PROVE FALSE
    BY <1>2, <2>3 DEF DeleteCR, MarkDeleted
  <2>. QED
    BY <1>2, <1>4, <2>1, <2>2, <2>3
       DEF Users, LoseChild, PrepareClaim, DeleteNamespace
<1>5. CASE ControlPlane
  <2>1. ASSUME NEW d \in Keys, PurgeCR(d) PROVE FALSE
    BY <1>2, <2>1 DEF PurgeCR, MarkDeleted
  <2>. QED
    BY <1>2, <1>5, <2>1 DEF ControlPlane, CollectGarbage, PurgeChild, PurgeClaim
<1>. QED
  BY <1>1, <1>2, <1>3, <1>4, <1>5
     DEF vars, server, Observe, ObserveCR, ObserveChild, Crash, Dequeue

\* While no read fails and the informers show the ClusterRole and its binding as
\* they are, a CR under deletion disappears only after both have been deleted,
\* however deletions, edits, lost children, failed writes and crashes interleave.
THEOREM CleanupPrecedesRelease ==
  Limits["read"] = 0 /\ External \cap LagChildren = {} => (Spec => CleanBeforeRelease)
<1>. SUFFICES ASSUME Limits["read"] = 0, External \cap LagChildren = {}
              PROVE  Spec => CleanBeforeRelease
  OBVIOUS
<1>1. Init => Cleaned
  BY DEF Init, Cleaned
<1>2. TypeOK /\ Cleaned /\ [Next]_vars => Cleaned'
  BY CleanedStep
<1>3. TypeOK /\ Cleaned /\ [Next]_vars =>
        [\A c \in Keys :
           cr[c] # None /\ cr[c].deleting /\ cr'[c] = None =>
             /\ ~Present(<<"ClusterRole", Cluster>>)
             /\ ~Present(<<"ClusterRoleBinding", Cluster>>)]_vars
  BY ReleasedByWorker DEF Cleaned, External
<1>. QED
  BY <1>1, <1>2, <1>3, TypeCorrect, PTL DEF Spec, CleanBeforeRelease

\* Only the clean-up, or a user, takes the ClusterRole or its binding away.
LEMMA TakenByCleanup ==
  ASSUME TypeOK, [Next]_vars, NEW k \in {"ClusterRole", "ClusterRoleBinding"},
         Present(<<k, Cluster>>), obj'[<<k, Cluster>>] = None,
         budget'["drift"] = budget["drift"]
  PROVE  pc \in CleanupLabels
<1> DEFINE o == <<k, Cluster>>
<1>1. o \in Ids /\ obj \in [Ids -> ChildType \cup {None}] /\ obj' # obj
  BY ExternalIds DEF External, TypeOK, Present
<1>2. o[1] \notin Namespaced /\ o[2] \notin Namespaces
  BY ScopeAssumption DEF Namespaced
<1>3. budget["drift"] \in Nat /\ "drift" \in Budgets
  BY DEF TypeOK, Budgets
<1>4. UNCHANGED vars \/ Observe \/ Users \/ ControlPlane \/ Reconcile \/ Crash
        \/ \E c \in Keys : Dequeue(c)
  BY DEF Next, Operator
<1>5. CASE Reconcile
  <2>1. CASE DeleteClusterRole \/ DeleteClusterRoleBinding
    BY <2>1 DEF DeleteClusterRole, DeleteClusterRoleBinding, DeleteExternal, CleanupLabels
  <2>2. CASE EnsureChild
    <3>1. PICK j \in Kinds : CreateChild(j)
      BY <1>1, <2>2 DEF EnsureChild, PassChild, server
    <3>2. cur \in Keys /\ snap \in CRType
      BY <3>1 DEF CreateChild, TypeOK, Kinds, ClusterScoped, Namespaced
    <3>3. Build(j, cur, snap) # None
      BY <3>2, BuildType, NoneAssumption
    <3>. QED
      BY <1>1, <3>1, <3>3 DEF CreateChild, Present
  <2>. QED
    BY <1>1, <1>5, <2>1, <2>2
       DEF Reconcile, GetCR, RejectInvalid, AddFinalizer, StartCleanup,
           RemoveFinalizer, server
<1>6. CASE Users
  <2>1. ASSUME NEW q \in Ids, LoseChild(q) PROVE FALSE
    BY <1>3, <2>1 DEF LoseChild, Spend
  <2>. QED
    BY <1>1, <1>6, <2>1
       DEF Users, CreateCR, EditSpec, DeleteCR, PrepareClaim, DeleteNamespace
<1>7. CASE ControlPlane
  <2>1. ASSUME NEW q \in Ids, PurgeChild(q) \/ CollectGarbage(q) PROVE FALSE
    <3>1. q = o
      BY <1>1, <2>1 DEF PurgeChild, CollectGarbage, Present
    <3>. QED
      BY <1>2, <2>1, <3>1 DEF PurgeChild, CollectGarbage, Orphaned, TypeOK
  <2>. QED
    BY <1>1, <1>7, <2>1 DEF ControlPlane, PurgeCR, PurgeClaim
<1>. QED
  BY <1>1, <1>4, <1>5, <1>6, <1>7
     DEF vars, server, Observe, ObserveCR, ObserveChild, Crash, Dequeue

\* While no CR is shown late, the operator deletes the ClusterRole and its
\* binding only while the CR it works for is there and under deletion.
THEOREM CleanupForDeletedOnly == LagCRs = {} => (Spec => CleanupOnlyForDeleted)
<1>. SUFFICES ASSUME LagCRs = {} PROVE Spec => CleanupOnlyForDeleted
  OBVIOUS
<1>1. Init => InFlight
  BY DEF Init, InFlight, CleanupLabels
<1>2. TypeOK /\ InFlight /\ [Next]_vars => InFlight'
  BY InFlightStep
<1> DEFINE Fits(k) ==
      LET o == <<k, Cluster>>
      IN Present(o) /\ obj'[o] = None /\ budget'["drift"] = budget["drift"]
           => cr[cur] # None /\ cr[cur].deleting
<1>3. ASSUME TypeOK, InFlight, [Next]_vars, NEW k \in {"ClusterRole", "ClusterRoleBinding"},
             Present(<<k, Cluster>>), obj'[<<k, Cluster>>] = None,
             budget'["drift"] = budget["drift"]
      PROVE  cr[cur] # None /\ cr[cur].deleting
  <2>1. pc \in CleanupLabels /\ pc \notin {"idle", "get"}
    BY <1>3, TakenByCleanup DEF CleanupLabels
  <2>. QED
    BY <1>3, <2>1 DEF InFlight
<1>4. TypeOK /\ InFlight /\ [Next]_vars =>
        [\A k \in {"ClusterRole", "ClusterRoleBinding"} : Fits(k)]_vars
  BY <1>3
<1>. QED
  BY <1>1, <1>2, <1>4, TypeCorrect, PTL DEF Spec, CleanupOnlyForDeleted

=============================================================================
