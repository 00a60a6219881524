-------------------------- MODULE NFSContractProofs -------------------------
(***************************************************************************)
(* Proofs about what NFSProvisioner writes to custom resources, from the   *)
(* copies it holds of them: they fit the CR as it is, whatever the lag of  *)
(* the informers, and they keep the contract of a finalizer.               *)
(***************************************************************************)
EXTENDS NFSProvisionerProofs

-----------------------------------------------------------------------------
(* The inductive invariant.                                                 *)

\* Copy m of the CR of key c is not younger than what the API server holds: its
\* uid has been used, and if it is of the present incarnation and of the present
\* version, it is the CR.
Fits(c, m) ==
  m # None =>
    /\ m.uid > budget["create"]
    /\ cr[c] # None /\ cr[c].uid = m.uid =>
         cr[c].rv >= m.rv /\ (cr[c].rv = m.rv => cr[c] = m)

\* Every copy in the informers and in the worker's hand fits, and no uid that
\* the API server will give is in use.
Versions ==
  /\ \A c \in Keys : Fits(c, seenCR[c]) /\ Fits(c, cr[c])
  /\ pc \notin {"idle", "get"} => Fits(cur, snap)

\* Where the worker is says what it has found out about its copy.
Checked ==
  /\ pc = "status" => ~validate(snap.spec)
  /\ pc \notin {"idle", "get", "status"} => validate(snap.spec)
  /\ pc \in CleanupLabels => snap.fin /\ snap.deleting

-----------------------------------------------------------------------------
(* What a step does to the budgets, to the worker and to the informers.     *)

\* A step is one of the operator, the users, the cluster or the informers.
LEMMA Steps ==
  ASSUME [Next]_vars
  PROVE  \/ UNCHANGED vars \/ Observe \/ Users \/ ControlPlane \/ Reconcile \/ Crash
         \/ \E c \in Keys : Dequeue(c)
BY DEF Next, Operator

\* No step refills a budget.
LEMMA BudgetsFall ==
  ASSUME TypeOK, [Next]_vars, NEW b \in Budgets
  PROVE  budget'[b] \in Nat /\ budget[b] \in Nat /\ budget'[b] <= budget[b]
<1>1. budget \in [Budgets -> Nat]
  BY DEF TypeOK
<1>2. ASSUME NEW F, Spend(F)
      PROVE  budget'[b] \in Nat /\ budget'[b] <= budget[b]
  BY <1>1, <1>2 DEF Spend
<1>3. budget' = budget \/ \E F \in SUBSET Budgets : Spend(F)
  <2>1. CASE Reconcile
    <3>1. CASE GetCR \/ RejectInvalid \/ AddFinalizer \/ StartCleanup \/ RemoveFinalizer
      BY <3>1 DEF GetCR, RejectInvalid, AddFinalizer, StartCleanup, RemoveFinalizer,
                  Update, Budgets
    <3>2. CASE EnsureChild
      BY <3>2 DEF EnsureChild, PassChild, CreateChild, Budgets
    <3>3. CASE DeleteClusterRole \/ DeleteClusterRoleBinding
      BY <3>3 DEF DeleteClusterRole, DeleteClusterRoleBinding, DeleteExternal, Budgets
    <3>. QED
      BY <2>1, <3>1, <3>2, <3>3 DEF Reconcile
  <2>2. CASE Users
    BY <2>2 DEF Users, CreateCR, EditSpec, DeleteCR, LoseChild, PrepareClaim,
                DeleteNamespace, Budgets
  <2>3. CASE ControlPlane
    BY <2>3 DEF ControlPlane, CollectGarbage, PurgeChild, PurgeCR, PurgeClaim
  <2>4. CASE UNCHANGED vars \/ Observe \/ Crash \/ \E c \in Keys : Dequeue(c)
    BY <2>4 DEF vars, Observe, ObserveCR, ObserveChild, Crash, Dequeue, Budgets
  <2>. QED
    BY <2>1, <2>2, <2>3, <2>4, Steps
<1>. QED
  BY <1>1, <1>2, <1>3

\* A step that leaves the worker with a CR in hand either takes it over from
\* the informer, or goes on with the one it has, from one label to the next.
LEMMA WorkerStep ==
  ASSUME TypeOK, [Next]_vars, pc' \notin {"idle", "get"}
  PROVE  \/ /\ pc = "get" /\ seenCR[cur] # None /\ snap' = seenCR[cur]
            /\ UNCHANGED <<cur, cr, budget>>
            /\ pc' = IF validate(seenCR[cur].spec) THEN "SCC" ELSE "status"
         \/ /\ pc \notin {"idle", "get"} /\ UNCHANGED <<cur, snap>>
            /\ \/ pc' = pc
               \/ pc \in Kinds /\ pc' \in Kinds \cup {"finalizer"}
               \/ pc = "finalizer" /\ snap.fin /\ snap.deleting /\ pc' \in CleanupLabels
               \/ pc \in CleanupLabels /\ pc' \in CleanupLabels
<1> USE DEF server, informer, worker, CleanupLabels
<1>1. CASE Reconcile
  <2>1. ~Return /\ ~Requeue
    BY DEF Return, Requeue
  <2>2. CASE GetCR
    <3>1. budget' = budget
      BY <2>1, <2>2 DEF GetCR, Spend, TypeOK
    <3>. QED
      BY <2>1, <2>2, <3>1 DEF GetCR
  <2>3. CASE EnsureChild
    BY <2>1, <2>3, AfterKind DEF EnsureChild, PassChild, CreateChild, Goto,
                                 Kinds, ClusterScoped, Namespaced
  <2>4. CASE StartCleanup
    BY <2>1, <2>4 DEF StartCleanup, Goto
  <2>5. CASE DeleteClusterRole \/ DeleteClusterRoleBinding
    BY <2>1, <2>5 DEF DeleteClusterRole, DeleteClusterRoleBinding, DeleteExternal, Goto
  <2>. QED
    BY <1>1, <2>1, <2>2, <2>3, <2>4, <2>5
       DEF Reconcile, RejectInvalid, AddFinalizer, RemoveFinalizer, Update
<1>2. CASE Users
  BY <1>2 DEF Users, CreateCR, EditSpec, DeleteCR, LoseChild, PrepareClaim,
              DeleteNamespace
<1>3. CASE ControlPlane
  BY <1>3 DEF ControlPlane, CollectGarbage, PurgeChild, PurgeCR, PurgeClaim
<1>. QED
  BY <1>1, <1>2, <1>3, Steps DEF vars, Observe, ObserveCR, ObserveChild, Crash, Dequeue

\* What an informer shows is what it has shown, or the CR as it is now.
LEMMA InformerStep ==
  ASSUME TypeOK, [Next]_vars, NEW c \in Keys
  PROVE  seenCR'[c] = seenCR[c] \/ seenCR'[c] = cr'[c]
<1> USE DEF server, informer
<1>1. CASE Reconcile
  BY <1>1 DEF Reconcile, GetCR, RejectInvalid, AddFinalizer, StartCleanup,
              RemoveFinalizer, DeleteClusterRole, DeleteClusterRoleBinding,
              DeleteExternal, EnsureChild, PassChild, CreateChild
<1>2. CASE Users
  BY <1>2 DEF Users, CreateCR, EditSpec, DeleteCR, LoseChild, PrepareClaim,
              DeleteNamespace
<1>3. CASE ControlPlane
  BY <1>3 DEF ControlPlane, CollectGarbage, PurgeChild, PurgeCR, PurgeClaim
<1>4. CASE Observe
  BY <1>4 DEF Observe, ObserveCR, ObserveChild, TypeOK
<1>. QED
  BY <1>1, <1>2, <1>3, <1>4, Steps DEF vars, Crash, Dequeue

-----------------------------------------------------------------------------
(* What a step does to the CRs.                                             *)

\* A CR is created under a new uid.
Appears(c) ==
  /\ cr[c] = None /\ cr'[c] # None
  /\ cr'[c].uid = budget["create"] /\ budget["create"] > budget'["create"]
  /\ ~cr'[c].deleting /\ ~cr'[c].fin

\* A CR goes: one without a finalizer at once, the others by the worker's release.
Leaves(c) ==
  /\ cr[c] # None /\ cr'[c] = None
  /\ \/ ~cr[c].deleting /\ ~cr[c].fin
     \/ cr[c].deleting /\ cr[c].fin /\ pc = "release"

\* A CR gets a new version: its spec is edited, it is marked as deleted, it is
\* rejected, or it gets the finalizer.
Edited(old, new) == new.deleting = old.deleting /\ new.fin = old.fin /\ new.err = old.err
Marked(old, new) ==
  old.fin /\ ~old.deleting /\ new.fin /\ new.deleting /\ new.err = old.err
Rejected(old, new) ==
  new.deleting = old.deleting /\ new.fin = old.fin /\ ~validate(old.spec)
Registered(old, new) ==
  /\ ~old.fin /\ ~old.deleting /\ new.fin /\ ~new.deleting /\ new.err = old.err
  /\ validate(old.spec)

Changes(c) ==
  /\ cr[c] # None /\ cr'[c] # None
  /\ cr'[c].uid = cr[c].uid /\ cr'[c].rv = cr[c].rv + 1
  /\ \/ Edited(cr[c], cr'[c]) \/ Marked(cr[c], cr'[c])
     \/ Rejected(cr[c], cr'[c]) \/ Registered(cr[c], cr'[c])

\* One CR at a time changes, and then no child does.
OneChange ==
  \/ cr' = cr
  \/ \E c \in Keys : /\ cr' = [cr EXCEPT ![c] = cr'[c]] /\ obj' = obj
                     /\ Appears(c) \/ Leaves(c) \/ Changes(c)

\* An update that the API server applies is made from the CR as it is.
LEMMA AppliedToCopy ==
  ASSUME TypeOK, Versions, pc \notin {"idle", "get"}, Unchanged(cur)
  PROVE  cur \in Keys /\ cr[cur] = snap /\ snap \in CRType
BY NoneAssumption DEF TypeOK, Versions, Fits, Unchanged

\* Update replaces the CR in hand, and only if it is still the copy.
LEMMA UpdateOfCopy ==
  ASSUME TypeOK, Versions, pc \notin {"idle", "get"},
         NEW new \in CRType \cup {None}, NEW done \in BOOLEAN, Update(new, done)
  PROVE  \/ cr' = cr
         \/ /\ cur \in Keys /\ cr[cur] = snap /\ snap \in CRType
            /\ cr' = [cr EXCEPT ![cur] = new] /\ cr'[cur] = new
<1>1. \/ cr' = cr
      \/ Unchanged(cur) /\ cr' = [cr EXCEPT ![cur] = new]
  BY DEF Update
<1>2. cr \in [Keys -> CRType \cup {None}]
  BY DEF TypeOK
<1>. QED
  BY <1>1, <1>2, AppliedToCopy

\* The worker's steps change at most the CR in hand, in one of these ways.
LEMMA ChangeByWorker ==
  ASSUME TypeOK, Versions, Checked, Reconcile
  PROVE  OneChange
<1>1. CASE RejectInvalid
  <2> DEFINE new == IF snap.err THEN snap ELSE [snap EXCEPT !.err = TRUE, !.rv = @ + 1]
  <2>1. pc = "status" /\ Update(new, Return) /\ obj' = obj /\ snap \in CRType
    BY <1>1 DEF RejectInvalid, TypeOK
  <2>2. new \in CRType
    BY <2>1, WrittenType, Zenon
  <2>3. \/ new = snap
        \/ /\ new.uid = snap.uid /\ new.rv = snap.rv + 1
           /\ new.deleting = snap.deleting /\ new.fin = snap.fin
    BY <2>1 DEF CRType
  <2>4. \/ cr' = cr
        \/ /\ cur \in Keys /\ cr[cur] = snap
           /\ cr' = [cr EXCEPT ![cur] = new] /\ cr'[cur] = new
    <3> HIDE DEF new
    <3>. QED
      BY <2>1, <2>2, UpdateOfCopy DEF Return
  <2>5. snap # None /\ new # None /\ ~validate(snap.spec)
    BY <2>1, <2>2, NoneAssumption DEF Checked
  <2>6. cr \in [Keys -> CRType \cup {None}]
    BY DEF TypeOK
  <2>. QED
    <3> HIDE DEF new
    <3>1. CASE new = snap
      BY <2>4, <2>6, <3>1 DEF OneChange
    <3>2. CASE new # snap
      BY <2>1, <2>3, <2>4, <2>5, <3>2 DEF OneChange, Changes, Rejected
    <3>. QED
      BY <3>1, <3>2
<1>2. CASE AddFinalizer
  <2> DEFINE new == [snap EXCEPT !.fin = TRUE, !.rv = @ + 1]
  <2>1. /\ pc = "finalizer" /\ obj' = obj /\ snap \in CRType /\ ~snap.deleting
        /\ \/ cr' = cr
           \/ ~snap.fin /\ Update(new, Requeue)
    BY <1>2 DEF AddFinalizer, TypeOK
  <2>2. new \in CRType
    BY <2>1, WrittenType, Zenon
  <2>3. /\ new.uid = snap.uid /\ new.rv = snap.rv + 1 /\ new.fin
        /\ new.deleting = snap.deleting /\ new.err = snap.err
    BY <2>1 DEF CRType
  <2>4. \/ cr' = cr
        \/ /\ cur \in Keys /\ cr[cur] = snap /\ ~snap.fin
           /\ cr' = [cr EXCEPT ![cur] = new] /\ cr'[cur] = new
    <3> HIDE DEF new
    <3>. QED
      BY <2>1, <2>2, UpdateOfCopy DEF Requeue
  <2>5. snap # None /\ new # None /\ validate(snap.spec)
    BY <2>1, <2>2, NoneAssumption DEF Checked
  <2>. QED
    <3> HIDE DEF new
    <3>. QED
      BY <2>1, <2>3, <2>4, <2>5 DEF OneChange, Changes, Registered
<1>3. CASE RemoveFinalizer
  <2>1. pc = "release" /\ Update(None, Return) /\ obj' = obj /\ snap.fin /\ snap.deleting
    BY <1>3 DEF RemoveFinalizer, Checked, CleanupLabels
  <2>2. \/ cr' = cr
        \/ /\ cur \in Keys /\ cr[cur] = snap /\ snap \in CRType
           /\ cr' = [cr EXCEPT ![cur] = None] /\ cr'[cur] = None
    BY <2>1, UpdateOfCopy DEF Return
  <2>. QED
    BY <2>1, <2>2, NoneAssumption DEF OneChange, Leaves
<1>4. CASE GetCR \/ EnsureChild \/ StartCleanup \/ DeleteClusterRole \/ DeleteClusterRoleBinding
  BY <1>4 DEF OneChange, GetCR, EnsureChild, PassChild, CreateChild, StartCleanup,
              DeleteClusterRole, DeleteClusterRoleBinding, DeleteExternal, server
<1>. QED
  BY <1>1, <1>2, <1>3, <1>4 DEF Reconcile

\* So do the steps of the users and of the cluster.
LEMMA ChangeAround ==
  ASSUME TypeOK, [Next]_vars, Users \/ ControlPlane
  PROVE  OneChange
<1>0. cr \in [Keys -> CRType \cup {None}]
  BY DEF TypeOK
<1>1. ASSUME NEW c \in Keys, NEW s \in Specs, CreateCR(c, s) PROVE OneChange
  <2>1. budget["create"] > budget'["create"] /\ budget["create"] \in Nat
    <3>1. budget \in [Budgets -> Nat] /\ "create" \in Budgets
      BY DEF TypeOK, Budgets
    <3>. QED
      BY <1>1, <3>1 DEF CreateCR, Spend
  <2> DEFINE new == [uid |-> budget["create"], rv |-> 0, spec |-> s, deleting |-> FALSE,
                     fin |-> FALSE, err |-> FALSE]
  <2>2. new \in CRType
    BY <2>1 DEF CRType
  <2>3. /\ cr' = [cr EXCEPT ![c] = new] /\ cr'[c] = new /\ obj' = obj /\ cr[c] = None
        /\ new.uid = budget["create"] /\ ~new.deleting /\ ~new.fin
    BY <1>0, <1>1 DEF CreateCR
  <2>4. new # None
    BY <2>2, NoneAssumption
  <2>. QED
    <3> HIDE DEF new
    <3>. QED
      BY <2>1, <2>3, <2>4 DEF OneChange, Appears
<1>2. ASSUME NEW c \in Keys, NEW s \in Specs, EditSpec(c, s) PROVE OneChange
  <2> DEFINE new == [cr[c] EXCEPT !.spec = s, !.rv = @ + 1]
  <2>1. cr[c] \in CRType
    BY <1>0, <1>2 DEF EditSpec
  <2>2. new \in CRType
    BY <2>1, WrittenType, Zenon
  <2>3. /\ new.uid = cr[c].uid /\ new.rv = cr[c].rv + 1 /\ Edited(cr[c], new)
    BY <2>1 DEF CRType, Edited
  <2>4. cr' = [cr EXCEPT ![c] = new] /\ cr'[c] = new /\ obj' = obj /\ cr[c] # None
    BY <1>0, <1>2 DEF EditSpec
  <2>5. new # None
    BY <2>2, NoneAssumption
  <2>. QED
    <3> HIDE DEF new
    <3>. QED
      BY <2>3, <2>4, <2>5 DEF OneChange, Changes
<1>3. ASSUME NEW c \in Keys, DeleteCR(c) \/ PurgeCR(c) PROVE OneChange
  <2> DEFINE new == [cr[c] EXCEPT !.deleting = TRUE, !.rv = @ + 1]
  <2>1. cr[c] \in CRType /\ cr[c] # None /\ ~cr[c].deleting /\ obj' = obj
    BY <1>0, <1>3 DEF DeleteCR, PurgeCR
  <2>2. new \in CRType
    BY <2>1, WrittenType, Zenon
  <2>3. /\ new.uid = cr[c].uid /\ new.rv = cr[c].rv + 1 /\ new.deleting
        /\ new.fin = cr[c].fin /\ new.err = cr[c].err
    BY <2>1 DEF CRType
  <2>4. /\ cr' = [cr EXCEPT ![c] = IF cr[c].fin THEN new ELSE None]
        /\ cr'[c] = IF cr[c].fin THEN new ELSE None
    BY <1>0, <1>3 DEF DeleteCR, PurgeCR, MarkDeleted
  <2>5. new # None
    BY <2>2, NoneAssumption
  <2>. QED
    <3> HIDE DEF new
    <3>1. CASE cr[c].fin
      BY <2>1, <2>3, <2>4, <2>5, <3>1 DEF OneChange, Changes, Marked
    <3>2. CASE ~cr[c].fin
      BY <2>1, <2>4, <3>2 DEF OneChange, Leaves
    <3>. QED
      BY <3>1, <3>2
<1>4. CASE Users
  BY <1>1, <1>2, <1>3, <1>4 DEF Users, LoseChild, PrepareClaim, DeleteNamespace, OneChange
<1>5. CASE ControlPlane
  BY <1>3, <1>5 DEF ControlPlane, CollectGarbage, PurgeChild, PurgeClaim, OneChange
<1>. QED
  BY <1>4, <1>5

\* Every step changes at most one CR, in one of these ways.
LEMMA StepOfCR ==
  ASSUME TypeOK, Versions, Checked, [Next]_vars
  PROVE  OneChange
<1>1. CASE UNCHANGED vars \/ Observe \/ Crash \/ \E c \in Keys : Dequeue(c)
  BY <1>1 DEF OneChange, vars, server, Observe, ObserveCR, ObserveChild, Crash, Dequeue
<1>. QED
  BY <1>1, ChangeByWorker, ChangeAround, Steps

-----------------------------------------------------------------------------
(* The invariant is inductive, and the writes fit.                          *)

\* A copy that fits a CR still fits it after a step.
LEMMA FitsStep ==
  ASSUME TypeOK, OneChange, [Next]_vars, NEW c \in Keys, NEW m \in CRType \cup {None},
         Fits(c, m), Fits(c, cr[c])
  PROVE  m # None =>
           /\ m.uid > budget'["create"]
           /\ cr'[c] # None /\ cr'[c].uid = m.uid =>
                cr'[c].rv >= m.rv /\ (cr'[c].rv = m.rv => cr'[c] = m)
<1> SUFFICES ASSUME m # None
             PROVE  /\ m.uid > budget'["create"]
                    /\ cr'[c] # None /\ cr'[c].uid = m.uid =>
                         cr'[c].rv >= m.rv /\ (cr'[c].rv = m.rv => cr'[c] = m)
  OBVIOUS
<1>1. /\ budget'["create"] \in Nat /\ budget["create"] \in Nat
      /\ budget'["create"] <= budget["create"]
  BY BudgetsFall DEF Budgets
<1>2. m.uid \in Nat /\ m.rv \in Nat /\ m.uid > budget["create"]
  BY DEF CRType, Fits
<1>3. m.uid > budget'["create"]
  BY <1>1, <1>2
<1>4. cr[c] # None => cr[c].rv \in Nat
  BY DEF TypeOK, CRType
<1>5. cr'[c] = cr[c] \/ Appears(c) \/ Leaves(c) \/ Changes(c)
  BY DEF OneChange, TypeOK
<1>6. CASE cr'[c] = cr[c]
  BY <1>3, <1>6 DEF Fits
<1>7. CASE Appears(c)
  BY <1>1, <1>2, <1>3, <1>7 DEF Appears
<1>8. CASE Leaves(c)
  BY <1>3, <1>8 DEF Leaves
<1>9. CASE Changes(c)
  BY <1>2, <1>3, <1>4, <1>9 DEF Changes, Fits
<1>. QED
  BY <1>5, <1>6, <1>7, <1>8, <1>9

\* What a CR becomes fits itself.
LEMMA FitsItself ==
  ASSUME TypeOK, OneChange, [Next]_vars, NEW c \in Keys, Fits(c, cr[c])
  PROVE  cr'[c] # None =>
           cr'[c].uid > budget'["create"] /\ cr'[c].rv >= cr'[c].rv
<1>0. TypeOK'
  BY TypeStep
<1>1. /\ budget'["create"] \in Nat /\ budget["create"] \in Nat
      /\ budget'["create"] <= budget["create"]
  BY BudgetsFall DEF Budgets
<1>2. cr[c] # None => cr[c].uid \in Nat /\ cr[c].uid > budget["create"]
  BY DEF TypeOK, CRType, Fits
<1>3. cr'[c] # None => cr'[c].rv \in Nat
  BY <1>0 DEF TypeOK, CRType
<1>4. cr'[c] = cr[c] \/ Appears(c) \/ Leaves(c) \/ Changes(c)
  BY DEF OneChange, TypeOK
<1>. QED
  BY <1>1, <1>2, <1>3, <1>4 DEF Appears, Leaves, Changes

\* Versions is inductive.
LEMMA VersionsStep ==
  ASSUME TypeOK, Versions, Checked, [Next]_vars
  PROVE  Versions'
<1>0. OneChange /\ TypeOK'
  BY StepOfCR, TypeStep
<1>1. ASSUME NEW c \in Keys PROVE Fits(c, cr[c])'
  BY <1>0, FitsItself DEF Versions, Fits
<1>2. ASSUME NEW c \in Keys PROVE Fits(c, seenCR[c])'
  <2>1. seenCR[c] \in CRType \cup {None} /\ Fits(c, seenCR[c]) /\ Fits(c, cr[c])
    BY DEF TypeOK, Versions
  <2>2. seenCR'[c] = seenCR[c] \/ seenCR'[c] = cr'[c]
    BY InformerStep
  <2>3. CASE seenCR'[c] = seenCR[c]
    BY <1>0, <2>1, <2>3, FitsStep DEF Fits
  <2>4. CASE seenCR'[c] = cr'[c]
    BY <1>1, <2>4 DEF Fits
  <2>. QED
    BY <2>2, <2>3, <2>4
<1>3. ASSUME pc' \notin {"idle", "get"} PROVE Fits(cur, snap)'
  <2>1. CASE pc = "get" /\ snap' = seenCR[cur] /\ UNCHANGED <<cur, cr, budget>>
    BY <2>1 DEF Versions, Fits, TypeOK
  <2>2. CASE pc \notin {"idle", "get"} /\ UNCHANGED <<cur, snap>>
    <3>1. cur \in Keys /\ snap \in CRType \cup {None}
      BY <2>2 DEF TypeOK
    <3>2. Fits(cur, snap) /\ Fits(cur, cr[cur])
      BY <2>2, <3>1 DEF Versions
    <3>. QED
      BY <1>0, <2>2, <3>1, <3>2, FitsStep DEF Fits
  <2>. QED
    BY <1>3, <2>1, <2>2, WorkerStep
<1>. QED
  BY <1>1, <1>2, <1>3 DEF Versions

\* Checked is inductive.
LEMMA CheckedStep ==
  ASSUME TypeOK, Checked, [Next]_vars
  PROVE  Checked'
<1>1. CASE pc' \in {"idle", "get"}
  BY <1>1 DEF Checked, CleanupLabels
<1>2. CASE pc' \notin {"idle", "get"}
  <2>1. CASE /\ snap' = seenCR[cur]
             /\ pc' = IF validate(seenCR[cur].spec) THEN "SCC" ELSE "status"
    BY <2>1 DEF Checked, CleanupLabels, validate
  <2>2. CASE /\ pc \notin {"idle", "get"} /\ UNCHANGED snap
             /\ \/ pc' = pc
                \/ pc \in Kinds /\ pc' \in Kinds \cup {"finalizer"}
                \/ pc = "finalizer" /\ snap.fin /\ snap.deleting /\ pc' \in CleanupLabels
                \/ pc \in CleanupLabels /\ pc' \in CleanupLabels
    BY <2>2 DEF Checked, CleanupLabels, validate, Kinds, ClusterScoped, Namespaced
  <2>. QED
    BY <1>2, <2>1, <2>2, WorkerStep
<1>. QED
  BY <1>1, <1>2

\* The strengthening holds at first.
LEMMA CopiesInit == Init => Versions /\ Checked
BY DEF Init, Versions, Checked, Fits, CleanupLabels

\* However late the informers are, and whatever fails or crashes, the worker sets
\* the error on an invalid CR only, the finalizer on a valid one that nobody has
\* deleted, and releases only a CR under deletion: an update made from an old
\* copy is refused, because versions are never used twice.
THEOREM WritesAlwaysFit == Spec => WritesFit
<1> DEFINE Right(c) ==
      cr[c] # None =>
       /\ cr'[c] # None /\ cr'[c].err /\ ~cr[c].err => ~validate(cr[c].spec)
       /\ cr'[c] # None /\ cr'[c].fin /\ ~cr[c].fin =>
            validate(cr[c].spec) /\ ~cr[c].deleting
       /\ cr[c].fin /\ cr'[c] = None => cr[c].deleting
<1>1. TypeOK /\ Versions /\ Checked /\ [Next]_vars => (Versions /\ Checked)'
  BY VersionsStep, CheckedStep
<1>2. ASSUME TypeOK, Versions, Checked, [Next]_vars, NEW c \in Keys PROVE Right(c)
  <2>1. cr'[c] = cr[c] \/ Appears(c) \/ Leaves(c) \/ Changes(c)
    BY <1>2, StepOfCR DEF OneChange, TypeOK
  <2>. QED
    BY <2>1 DEF Appears, Leaves, Changes, Edited, Marked, Rejected, Registered
<1>3. TypeOK /\ Versions /\ Checked /\ [Next]_vars => [\A c \in Keys : Right(c)]_vars
  BY <1>2
<1>. QED
  BY <1>1, <1>3, CopiesInit, TypeCorrect, PTL DEF Spec, WritesFit

-----------------------------------------------------------------------------
(* The clean-up goes by an old copy.                                        *)

\* If copy m of the CR of key c is marked as deleted, so is the CR, unless it is of
\* another incarnation.
Marks(c, m) ==
  m # None /\ m.deleting /\ cr[c] # None /\ cr[c].uid = m.uid => cr[c].deleting

\* So it is with every copy.
DeletionLasts ==
  /\ \A c \in Keys : Marks(c, seenCR[c])
  /\ pc \notin {"idle", "get"} => Marks(cur, snap)

\* Nobody takes the mark of deletion from a CR, and no uid is given twice.
LEMMA MarksStep ==
  ASSUME TypeOK, OneChange, NEW c \in Keys, NEW m \in CRType \cup {None},
         Fits(c, m), Marks(c, m), m # None, m.deleting,
         cr'[c] # None, cr'[c].uid = m.uid
  PROVE  cr'[c].deleting
<1>1. cr'[c] = cr[c] \/ Appears(c) \/ Leaves(c) \/ Changes(c)
  BY DEF OneChange, TypeOK
<1>2. ~Appears(c)
  <2>1. m.uid \in Nat /\ m.uid > budget["create"] /\ budget["create"] \in Nat
    BY DEF Fits, CRType, TypeOK, Budgets
  <2>. QED
    BY <2>1 DEF Appears
<1>3. ~Leaves(c)
  BY DEF Leaves
<1>. QED
  BY <1>1, <1>2, <1>3 DEF Marks, Changes, Edited, Marked, Rejected, Registered

\* DeletionLasts is inductive.
LEMMA MarkedStep ==
  ASSUME TypeOK, Versions, Checked, DeletionLasts, [Next]_vars
  PROVE  DeletionLasts'
<1>0. OneChange
  BY StepOfCR
<1>1. ASSUME NEW c \in Keys PROVE Marks(c, seenCR[c])'
  <2>1. seenCR[c] \in CRType \cup {None} /\ Fits(c, seenCR[c]) /\ Marks(c, seenCR[c])
    BY DEF TypeOK, Versions, DeletionLasts
  <2>2. CASE seenCR'[c] = seenCR[c]
    BY <1>0, <2>1, <2>2, MarksStep DEF Marks
  <2>3. CASE seenCR'[c] = cr'[c]
    BY <2>3 DEF Marks
  <2>. QED
    BY <2>2, <2>3, InformerStep
<1>2. ASSUME pc' \notin {"idle", "get"} PROVE Marks(cur, snap)'
  <2>1. CASE pc = "get" /\ snap' = seenCR[cur] /\ UNCHANGED <<cur, cr>>
    <3>1. cur \in Keys
      BY <2>1 DEF TypeOK
    <3>. QED
      BY <2>1, <3>1 DEF DeletionLasts, Marks
  <2>2. CASE pc \notin {"idle", "get"} /\ UNCHANGED <<cur, snap>>
    <3>1. cur \in Keys /\ snap \in CRType \cup {None}
      BY <2>2 DEF TypeOK
    <3>2. Fits(cur, snap) /\ Marks(cur, snap)
      BY <2>2 DEF Versions, DeletionLasts
    <3>. QED
      BY <1>0, <2>2, <3>1, <3>2, MarksStep DEF Marks
  <2>. QED
    BY <1>2, <2>1, <2>2, WorkerStep
<1>. QED
  BY <1>1, <1>2 DEF DeletionLasts

\* However late the informers are, the operator deletes the ClusterRole and its
\* binding only for an incarnation of a CR that was deleted, never for one that
\* the API server holds and nobody has deleted.  That there may be a new one of
\* the same name by then is what CleanupForDeletedOnly excludes by its hypothesis.
THEOREM LateCleanupForDeleted == Spec => CleanupOfDeletedIncarnation
<1> DEFINE Right(k) ==
      LET o == <<k, Cluster>>
      IN Present(o) /\ obj'[o] = None /\ budget'["drift"] = budget["drift"]
           => /\ snap.deleting
              /\ cr[cur] # None /\ cr[cur].uid = snap.uid => cr[cur].deleting
<1>1. TypeOK /\ Versions /\ Checked /\ [Next]_vars => (Versions /\ Checked)'
  BY VersionsStep, CheckedStep
<1>2. Init => DeletionLasts
  BY DEF Init, DeletionLasts, Marks
<1>3. TypeOK /\ Versions /\ Checked /\ DeletionLasts /\ [Next]_vars => DeletionLasts'
  BY MarkedStep
<1>4. ASSUME TypeOK, Checked, DeletionLasts, [Next]_vars,
             NEW k \in {"ClusterRole", "ClusterRoleBinding"},
             Present(<<k, Cluster>>), obj'[<<k, Cluster>>] = None,
             budget'["drift"] = budget["drift"]
      PROVE  /\ snap.deleting
             /\ cr[cur] # None /\ cr[cur].uid = snap.uid => cr[cur].deleting
  <2>1. pc \in CleanupLabels /\ pc \notin {"idle", "get"}
    BY <1>4, TakenByCleanup DEF CleanupLabels
  <2>2. snap \in CRType /\ snap # None
    BY <1>4, <2>1, NoneAssumption DEF TypeOK, CleanupLabels
  <2>. QED
    BY <1>4, <2>1, <2>2 DEF Checked, DeletionLasts, Marks
<1>5. TypeOK /\ Checked /\ DeletionLasts /\ [Next]_vars =>
        [\A k \in {"ClusterRole", "ClusterRoleBinding"} : Right(k)]_vars
  BY <1>4
<1>. QED
  BY <1>1, <1>2, <1>3, <1>5, CopiesInit, TypeCorrect, PTL DEF Spec, CleanupOfDeletedIncarnation

-----------------------------------------------------------------------------
(* The contract of the finalizer.                                           *)

\* Nothing is lost: no user deletes a child.
Undrifted == budget["drift"] = 0

\* A step that changes a CR is a step of the contract, or none.
LEMMA ContractOfCR ==
  ASSUME TypeOK, Cleaned, NEW c \in Keys,
         cr' = [cr EXCEPT ![c] = cr'[c]], obj' = obj,
         Appears(c) \/ Leaves(c) \/ Changes(c)
  PROVE  [Contract!Next]_(Contract!vars)
<1> DEFINE phase == [d \in Keys |-> Phase(cr[d])]
           external == {o \in External : Present(o)}
<1>1. external' = external
  BY DEF Present
<1>2. phase' = [phase EXCEPT ![c] = Phase(cr'[c])]
  BY DEF TypeOK
<1>3. phase[c] = Phase(cr[c])
  OBVIOUS
<1>4. \/ Phase(cr'[c]) = Phase(cr[c])
      \/ Phase(cr[c]) = "absent" /\ Phase(cr'[c]) = "free"
      \/ Phase(cr[c]) = "free" /\ Phase(cr'[c]) \in {"held", "absent"}
      \/ Phase(cr[c]) = "held" /\ Phase(cr'[c]) = "leaving"
      \/ Phase(cr[c]) = "leaving" /\ Phase(cr'[c]) = "absent" /\ external = {}
  <2>1. CASE Appears(c)
    BY <2>1 DEF Appears, Phase
  <2>2. CASE Leaves(c)
    BY <2>2 DEF Leaves, Phase, Cleaned
  <2>3. CASE Changes(c)
    BY <2>3 DEF Changes, Edited, Marked, Rejected, Registered, Phase
  <2>. QED
    BY <2>1, <2>2, <2>3
<1>5. CASE Phase(cr'[c]) = Phase(cr[c])
  <2>1. phase' = phase
    BY <1>2, <1>3, <1>5
  <2>. QED
    BY <1>1, <2>1 DEF Contract!vars
<1>6. CASE Phase(cr'[c]) # Phase(cr[c])
  <2>1. \/ Contract!Appear(c) \/ Contract!Register(c) \/ Contract!Delete(c)
        \/ Contract!Release(c)
    BY <1>1, <1>2, <1>3, <1>4, <1>6
       DEF Contract!Appear, Contract!Register, Contract!Delete, Contract!Release,
           Contract!Becomes
  <2>. QED
    BY <2>1 DEF Contract!Next
<1>. QED
  BY <1>5, <1>6

\* One child at a time changes: it is created, it has a namespace, or it is
\* deleted by the clean-up.
LEMMA StepOfChild ==
  ASSUME TypeOK, Undrifted, [Next]_vars
  PROVE  \/ obj' = obj
         \/ \E o \in Ids : /\ obj' = [obj EXCEPT ![o] = obj'[o]] /\ cr' = cr
                           /\ \/ obj'[o] # None
                              \/ o[1] \in Namespaced
                              \/ obj'[o] = None /\ pc \in CleanupLabels
<1> DEFINE Change(o) == /\ obj' = [obj EXCEPT ![o] = obj'[o]] /\ cr' = cr
                        /\ \/ obj'[o] # None
                           \/ o[1] \in Namespaced
                           \/ obj'[o] = None /\ pc \in CleanupLabels
<1>0. obj \in [Ids -> ChildType \cup {None}]
  BY DEF TypeOK
<1>1. ASSUME NEW k \in Kinds, CreateChild(k), obj' # obj PROVE \E o \in Ids : Change(o)
  <2>1. cur \in Keys /\ snap \in CRType
    BY <1>1 DEF CreateChild, TypeOK, Kinds, ClusterScoped, Namespaced
  <2>2. Id(k, NsOf[cur]) \in Ids /\ Build(k, cur, snap) # None
    BY <2>1, IdOfKey, BuildType, NoneAssumption
  <2>. QED
    BY <1>0, <1>1, <2>2 DEF CreateChild
<1>2. ASSUME DeleteClusterRole \/ DeleteClusterRoleBinding, obj' # obj
      PROVE  \E o \in Ids : Change(o)
  <2>1. PICK o \in External, k \in {"ClusterRole", "ClusterRoleBinding"},
             label \in CleanupLabels, next \in CleanupLabels :
          o = <<k, Cluster>> /\ DeleteExternal(k, label, next)
    BY <1>2 DEF DeleteClusterRole, DeleteClusterRoleBinding, CleanupLabels, External
  <2>2. obj' = [obj EXCEPT ![o] = None] /\ pc \in CleanupLabels /\ cr' = cr
    BY <1>2, <2>1 DEF DeleteExternal
  <2>3. o \in Ids
    BY <2>1, ExternalIds
  <2>. QED
    BY <1>0, <2>2, <2>3
<1>3. CASE Reconcile
  BY <1>1, <1>2, <1>3 DEF Reconcile, GetCR, RejectInvalid, EnsureChild, PassChild,
                          AddFinalizer, StartCleanup, RemoveFinalizer, server
<1>4. ASSUME NEW o \in Ids, LoseChild(o) PROVE FALSE
  BY <1>4 DEF LoseChild, Spend, Undrifted
<1>5. CASE Users
  BY <1>4, <1>5 DEF Users, CreateCR, EditSpec, DeleteCR, PrepareClaim, DeleteNamespace
<1>6. ASSUME NEW o \in Ids, CollectGarbage(o) \/ PurgeChild(o) PROVE Change(o)
  <2>1. o[1] \in Namespaced
    BY <1>6, ScopeAssumption DEF CollectGarbage, Orphaned, PurgeChild, Ids, TypeOK
  <2>. QED
    BY <1>0, <1>6, <2>1 DEF CollectGarbage, PurgeChild
<1>7. CASE ControlPlane
  BY <1>6, <1>7 DEF ControlPlane, PurgeCR, PurgeClaim
<1>. QED
  BY <1>3, <1>5, <1>7, Steps
     DEF vars, server, Observe, ObserveCR, ObserveChild, Crash, Dequeue

\* A step that changes a child is a step of the contract, or none.
LEMMA ContractOfChild ==
  ASSUME TypeOK, InFlight, NEW o \in Ids, obj' = [obj EXCEPT ![o] = obj'[o]], cr' = cr,
         \/ obj'[o] # None
         \/ o[1] \in Namespaced
         \/ obj'[o] = None /\ pc \in CleanupLabels
  PROVE  [Contract!Next]_(Contract!vars)
<1> DEFINE phase == [d \in Keys |-> Phase(cr[d])]
           external == {p \in External : Present(p)}
<1>1. phase' = phase
  OBVIOUS
<1>2. obj \in [Ids -> ChildType \cup {None}]
  BY DEF TypeOK
<1>3. \A p \in External : p # o => (obj'[p] # None <=> Present(p))
  BY <1>2, ExternalIds DEF Present
<1>4. external' = {p \in External : obj'[p] # None}
  BY DEF Present
<1>5. CASE o \notin External
  <2>1. external' = external
    BY <1>3, <1>4, <1>5
  <2>. QED
    BY <1>1, <2>1 DEF Contract!vars
<1>6. CASE o \in External /\ obj'[o] # None
  <2>1. external' = external \cup {o}
    BY <1>3, <1>4, <1>6
  <2>2. Contract!Provision(o)
    BY <1>1, <2>1 DEF Contract!Provision
  <2>. QED
    BY <1>6, <2>2 DEF Contract!Next
<1>7. CASE o \in External /\ obj'[o] = None
  <2>1. external' = external \ {o}
    BY <1>3, <1>4, <1>7
  <2>2. o[1] \notin Namespaced
    BY <1>7 DEF External, Namespaced
  <2>3. pc \in CleanupLabels /\ pc \notin {"idle", "get"}
    BY <1>7, <2>2 DEF CleanupLabels
  <2>4. cur \in Keys /\ cr[cur] # None /\ cr[cur].deleting
    BY <2>3 DEF InFlight, TypeOK
  <2>5. phase[cur] = "leaving"
    BY <2>4 DEF Phase
  <2>6. Contract!CleanUp(o)
    BY <1>1, <2>1, <2>4, <2>5 DEF Contract!CleanUp
  <2>. QED
    BY <1>7, <2>6 DEF Contract!Next
<1>. QED
  BY <1>5, <1>6, <1>7

\* The operator keeps the contract of a finalizer, for any CRs, namespaces and
\* specs, through edits, deletions, failed writes and crashes: as long as the
\* informers show CRs, ClusterRole and binding as they are, no read fails and no
\* user deletes what the operator is to delete.
THEOREM ImplementsFinalizerContract ==
  LagCRs = {} /\ External \cap LagChildren = {} /\ Limits["read"] = 0 /\ Limits["drift"] = 0
    => (Spec => ImplementsContract)
<1>. SUFFICES ASSUME LagCRs = {}, External \cap LagChildren = {},
                     Limits["read"] = 0, Limits["drift"] = 0
              PROVE  Spec => ImplementsContract
  OBVIOUS
<1> DEFINE Inv == Versions /\ Checked /\ InFlight /\ Cleaned /\ Undrifted
<1>1. Init => Inv
  BY CopiesInit DEF Init, InFlight, CleanupLabels, Cleaned, Undrifted
<1>2. TypeOK /\ Inv /\ [Next]_vars => Inv'
  <2>1. ASSUME TypeOK, Undrifted, [Next]_vars PROVE Undrifted'
    <3>1. budget'["drift"] \in Nat /\ budget'["drift"] <= 0
      BY <2>1, BudgetsFall DEF Budgets, Undrifted
    <3>. QED
      BY <3>1 DEF Undrifted
  <2>. QED
    BY <2>1, VersionsStep, CheckedStep, InFlightStep, CleanedStep
<1>3. Init => Contract!Init
  <2>1. ASSUME Init PROVE \A c \in Keys : Phase(cr[c]) = "absent"
    BY <2>1 DEF Init, Phase
  <2>2. ASSUME Init PROVE \A o \in External : ~Present(o)
    BY <2>2, ExternalIds DEF Init, Present
  <2>. QED
    BY <2>1, <2>2 DEF Contract!Init
<1>4. TypeOK /\ Inv /\ [Next]_vars => [Contract!Next]_(Contract!vars)
  <2> SUFFICES ASSUME TypeOK, Inv, [Next]_vars PROVE [Contract!Next]_(Contract!vars)
    OBVIOUS
  <2>1. CASE cr' = cr /\ obj' = obj
    BY <2>1 DEF Contract!vars, Present
  <2>2. CASE \E c \in Keys : /\ cr' = [cr EXCEPT ![c] = cr'[c]] /\ obj' = obj
                             /\ Appears(c) \/ Leaves(c) \/ Changes(c)
    BY <2>2, ContractOfCR
  <2>3. CASE obj' # obj
    BY <2>3, StepOfChild, ContractOfChild
  <2>. QED
    BY <2>1, <2>2, <2>3, StepOfCR DEF OneChange
<1>. QED
  BY <1>1, <1>2, <1>3, <1>4, TypeCorrect, PTL DEF Spec, ImplementsContract, Contract!Spec

=============================================================================
