------------------------- MODULE NFSDeploymentProofs ------------------------
(***************************************************************************)
(* Proof that NFSProvisioner creates the Deployment of a CR only when what *)
(* its pods run with is there.  Reconcile looks for the children one after *)
(* the other and does not look back, so the proof is that a child it has   *)
(* passed stays: only its owner's end, its namespace's, a user or the      *)
(* clean-up for a CR in the worker's hand could take it away.              *)
(***************************************************************************)
EXTENDS NFSContractProofs

-----------------------------------------------------------------------------
(* The inductive invariant.                                                 *)

\* What the pods of a Deployment run with.
Granting == {"SCC", "ServiceAccount", "ClusterRole", "ClusterRoleBinding", "Role",
             "RoleBinding"}

\* What of it Reconcile has passed when it is at a kind.
Before ==
  [SCC |-> {}, PVC |-> {"SCC"}, ServiceAccount |-> {"SCC"},
   ClusterRole |-> {"SCC", "ServiceAccount"},
   ClusterRoleBinding |-> {"SCC", "ServiceAccount", "ClusterRole"},
   Role |-> {"SCC", "ServiceAccount", "ClusterRole", "ClusterRoleBinding"},
   RoleBinding |-> {"SCC", "ServiceAccount", "ClusterRole", "ClusterRoleBinding", "Role"},
   Deployment |-> {"SCC", "ServiceAccount", "ClusterRole", "ClusterRoleBinding", "Role",
                   "RoleBinding"}]

\* The uid of the CR that is created first.
First == Limits["create"]

\* No budget exceeds its limit.
Within == \A b \in Budgets : budget[b] <= Limits[b]

\* Until a CR is created nothing is there, and nothing happens.
Untouched ==
  budget["create"] = First =>
    /\ pc \in {"idle", "get"} /\ seen = {}
    /\ \A c \in Keys : cr[c] = None /\ seenCR[c] = None
    /\ \A o \in Ids : obj[o] = None

\* While the first CR is there, all copies of it and all children built from
\* one of its name are its own.
OnlyFirst ==
  \A c \in Keys : cr[c] # None /\ cr[c].uid = First =>
    /\ seenCR[c] # None => seenCR[c].uid = First
    /\ cur = c /\ pc \notin {"idle", "get"} => snap.uid = First
    /\ \A o \in Ids : obj[o] # None /\ obj[o].key = c => obj[o].uid = First

\* A child with a namespace is in the namespace of the CR it was built from.
AtHome ==
  \A o \in Ids : o[1] \in Namespaced /\ obj[o] # None => NsOf[obj[o].key] = o[2]

\* While the first CR is there, an informer shows only children that are there,
\* unless somebody takes a child away; ClusterRole and binding, which the clean-up
\* for another CR may delete, aside.
Shown ==
  \A c \in Keys :
    (/\ cr[c] # None /\ cr[c].uid = First /\ NsOf[c] \notin terminating
     /\ budget["drift"] = Limits["drift"])
      => \A k \in Granting :
           Id(k, NsOf[c]) \in seen \ External => Present(Id(k, NsOf[c]))

\* What Reconcile has passed is there.
Passed ==
  (/\ pc \in DOMAIN Before /\ budget["drift"] = Limits["drift"]
   /\ cr[cur] # None /\ cr[cur].uid = First /\ NsOf[cur] \notin terminating)
    => \A k \in Before[pc] : Present(Id(k, NsOf[cur]))

-----------------------------------------------------------------------------
(* What a step does to a child, and to the worker that looks after it.      *)

\* The worker builds the child it is looking for, where there is none.
Created(o) ==
  /\ pc \in Kinds /\ o = Id(pc, NsOf[cur]) /\ obj[o] = None
  /\ obj'[o] = Build(pc, cur, snap)
  /\ pc \in Namespaced => NsOf[cur] \notin terminating

\* A child is taken away by the clean-up, a user, the end of its namespace or
\* the end of its owner.
Removed(o) ==
  /\ obj'[o] = None
  /\ \/ pc \in CleanupLabels /\ o \in External
     \/ budget'["drift"] < budget["drift"]
     \/ o[2] \in terminating
     \/ Orphaned(o)

\* What is built from a CR names the CR.
LEMMA BuiltFrom ==
  ASSUME NEW k \in Kinds, NEW c, NEW m
  PROVE  Build(k, c, m).key = c /\ Build(k, c, m).uid = m.uid
<1>1. \A b, v : Child(c, m, b, v).key = c /\ Child(c, m, b, v).uid = m.uid
  BY DEF Child
<1>2. k \in {"SCC", "ClusterRole", "ClusterRoleBinding", "StorageClass", "PVC",
             "ServiceAccount", "Role", "RoleBinding", "Deployment", "Service"}
  BY DEF Kinds, ClusterScoped, Namespaced
<1>. QED
  BY <1>1, <1>2
     DEF Build, sccForNFSProvisioner, pvcForNFSProvisioner,
         serviceAccountForNFSProvisioner, clusterRoleForNFSProvisioner,
         clusterRoleBindingForNFSProvisioner, roleForNFSProvisioner,
         roleBindingForNFSProvisioner, deploymentForNFSProvisioner,
         serviceForNFSProvisioner, storageclassForNFSProvisioner

\* One child at a time changes, and then no CR does.
LEMMA ChildStep ==
  ASSUME TypeOK, [Next]_vars
  PROVE  \/ obj' = obj
         \/ \E o \in Ids : /\ obj' = [obj EXCEPT ![o] = obj'[o]]
                           /\ UNCHANGED <<cr, seenCR, terminating>>
                           /\ Created(o) \/ Removed(o)
<1> DEFINE Change(o) == /\ obj' = [obj EXCEPT ![o] = obj'[o]]
                        /\ UNCHANGED <<cr, seenCR, terminating>>
                        /\ Created(o) \/ Removed(o)
<1>0. obj \in [Ids -> ChildType \cup {None}]
  BY DEF TypeOK
<1>1. ASSUME NEW k \in Kinds, CreateChild(k), obj' # obj PROVE \E o \in Ids : Change(o)
  <2>1. cur \in Keys /\ pc = k /\ UNCHANGED <<cr, seenCR, terminating>>
    BY <1>1 DEF CreateChild, TypeOK, Kinds, ClusterScoped, Namespaced, informer
  <2>2. Id(k, NsOf[cur]) \in Ids
    BY <2>1, IdOfKey
  <2>3. /\ obj' = [obj EXCEPT ![Id(k, NsOf[cur])] = Build(k, cur, snap)]
        /\ ~Present(Id(k, NsOf[cur])) /\ (k \in Namespaced => NsOf[cur] \notin terminating)
    BY <1>1 DEF CreateChild
  <2> DEFINE o == Id(k, NsOf[cur])
             new == Build(k, cur, snap)
  <2>4. obj' = [obj EXCEPT ![o] = new] /\ o \in Ids /\ obj[o] = None
    BY <2>2, <2>3 DEF Present
  <2>5. new = Build(pc, cur, snap) /\ o = Id(pc, NsOf[cur])
    BY <2>1
  <2>. QED
    <3> HIDE DEF o, new
    <3>1. obj'[o] = new
      BY <1>0, <2>4
    <3>. QED
      BY <2>1, <2>3, <2>4, <2>5, <3>1 DEF Created
<1>2. ASSUME DeleteClusterRole \/ DeleteClusterRoleBinding, obj' # obj
      PROVE  \E o \in Ids : Change(o)
  <2>1. PICK o \in External, k \in {"ClusterRole", "ClusterRoleBinding"},
             label \in CleanupLabels, next \in CleanupLabels :
          o = <<k, Cluster>> /\ DeleteExternal(k, label, next)
    BY <1>2 DEF DeleteClusterRole, DeleteClusterRoleBinding, CleanupLabels, External
  <2>2. /\ obj' = [obj EXCEPT ![o] = None] /\ pc \in CleanupLabels
        /\ UNCHANGED <<cr, seenCR, terminating>>
    BY <1>2, <2>1 DEF DeleteExternal, informer
  <2>3. o \in Ids
    BY <2>1, ExternalIds
  <2>. QED
    BY <1>0, <2>2, <2>3 DEF Removed
<1>3. CASE Reconcile
  BY <1>1, <1>2, <1>3 DEF Reconcile, GetCR, RejectInvalid, EnsureChild, PassChild,
                          AddFinalizer, StartCleanup, RemoveFinalizer, server
<1>4. ASSUME NEW o \in Ids, LoseChild(o) PROVE Change(o)
  <2>1. /\ obj' = [obj EXCEPT ![o] = None] /\ Spend({"drift"})
        /\ UNCHANGED <<cr, seenCR, terminating>>
    BY <1>4 DEF LoseChild, informer
  <2>2. budget'["drift"] < budget["drift"]
    BY <2>1 DEF Spend, Budgets, TypeOK
  <2>. QED
    BY <1>0, <2>1, <2>2 DEF Removed
<1>5. CASE Users
  BY <1>4, <1>5 DEF Users, CreateCR, EditSpec, DeleteCR, PrepareClaim, DeleteNamespace
<1>6. ASSUME NEW o \in Ids, CollectGarbage(o) \/ PurgeChild(o) PROVE Change(o)
  BY <1>0, <1>6 DEF CollectGarbage, PurgeChild, Removed, informer
<1>7. CASE ControlPlane
  BY <1>6, <1>7 DEF ControlPlane, PurgeCR, PurgeClaim
<1>. QED
  BY <1>3, <1>5, <1>7, Steps
     DEF vars, server, Observe, ObserveCR, ObserveChild, Crash, Dequeue

\* A namespace under deletion stays so.
LEMMA TerminatingGrows ==
  ASSUME [Next]_vars
  PROVE  terminating \subseteq terminating'
<1>1. CASE Reconcile
  BY <1>1 DEF Reconcile, GetCR, RejectInvalid, AddFinalizer, StartCleanup,
              RemoveFinalizer, DeleteClusterRole, DeleteClusterRoleBinding,
              DeleteExternal, EnsureChild, PassChild, CreateChild, server
<1>2. CASE Users
  BY <1>2 DEF Users, CreateCR, EditSpec, DeleteCR, LoseChild, PrepareClaim,
              DeleteNamespace
<1>3. CASE ControlPlane
  BY <1>3 DEF ControlPlane, CollectGarbage, PurgeChild, PurgeCR, PurgeClaim
<1>. QED
  BY <1>1, <1>2, <1>3, Steps
     DEF vars, server, Observe, ObserveCR, ObserveChild, Crash, Dequeue

\* An informer starts to show what is there, and then no child changes.
LEMMA SeenStep ==
  ASSUME TypeOK, [Next]_vars, NEW o \in seen'
  PROVE  o \in seen \/ (o \in Ids /\ obj[o] # None /\ obj' = obj)
<1> USE DEF server, informer, Present
<1>1. CASE Reconcile
  BY <1>1 DEF Reconcile, GetCR, RejectInvalid, AddFinalizer, StartCleanup,
              RemoveFinalizer, DeleteClusterRole, DeleteClusterRoleBinding,
              DeleteExternal, EnsureChild, PassChild, CreateChild
<1>2. CASE Users
  BY <1>2 DEF Users, CreateCR, EditSpec, DeleteCR, LoseChild, PrepareClaim,
              DeleteNamespace
<1>3. CASE ControlPlane
  BY <1>3 DEF ControlPlane, CollectGarbage, PurgeChild, PurgeCR, PurgeClaim
<1>4. CASE Observe
  BY <1>4, LagAssumption DEF Observe, ObserveCR, ObserveChild
<1>5. CASE Crash
  BY <1>5, LagAssumption DEF Crash
<1>. QED
  BY <1>1, <1>2, <1>3, <1>4, <1>5, Steps DEF vars, Dequeue

\* When no read fails, and an informer does not show the child if it is not
\* there, the worker passes one that the Deployment needs only if it is there
\* afterwards.
LEMMA PassStep ==
  ASSUME TypeOK, budget["read"] = 0, [Next]_vars, pc \in Kinds, pc' # pc,
         pc' \notin {"idle", "get"},
         pc \in Granting /\ Sees(Id(pc, NsOf[cur])) => Present(Id(pc, NsOf[cur]))
  PROVE  /\ pc' = After[pc]
         /\ pc \in Granting => obj'[Id(pc, NsOf[cur])] # None
<1>1. CASE EnsureChild
  <2>1. PICK k \in Kinds : PassChild(k) \/ CreateChild(k)
    BY <1>1 DEF EnsureChild
  <2>2. pc = k /\ pc' = After[k] /\ ~Requeue
    BY <2>1 DEF PassChild, CreateChild, Goto, Requeue
  <2>3. cur \in Keys /\ snap \in CRType
    BY <2>2 DEF TypeOK, Kinds, ClusterScoped, Namespaced
  <2>4. ASSUME k \in Granting PROVE obj'[Id(k, NsOf[cur])] # None
    <3>1. CASE PassChild(k)
      <4>1. ~Spend({"read"})
        BY NoReadFails
      <4>2. ~Skips(snap.spec, k) /\ k # "PVC"
        BY <2>4 DEF Skips, Granting
      <4>3. Sees(Id(k, NsOf[cur])) /\ obj' = obj
        BY <3>1, <4>1, <4>2 DEF PassChild, Found, server
      <4>. QED
        BY <2>2, <2>4, <4>3 DEF Present
    <3>2. CASE CreateChild(k)
      <4> DEFINE o == Id(k, NsOf[cur])
                 new == Build(k, cur, snap)
      <4>1. obj' = [obj EXCEPT ![o] = new]
        BY <2>2, <3>2 DEF CreateChild
      <4>2. o \in Ids /\ new # None
        BY <2>3, IdOfKey, BuildType, NoneAssumption
      <4>. QED
        <5> HIDE DEF o, new
        <5>1. obj'[o] # None
          BY <4>1, <4>2 DEF TypeOK
        <5>. QED
          BY <5>1 DEF o
    <3>. QED
      BY <2>1, <3>1, <3>2
  <2>. QED
    BY <2>2, <2>4
<1>2. CASE Reconcile /\ ~EnsureChild
  <2>1. pc = "get" \/ pc = "status" \/ pc = "finalizer" \/ pc \in CleanupLabels
    BY <1>2 DEF Reconcile, GetCR, RejectInvalid, AddFinalizer, StartCleanup,
                DeleteClusterRole, DeleteClusterRoleBinding, DeleteExternal,
                RemoveFinalizer, CleanupLabels
  <2>. QED
    BY <2>1 DEF CleanupLabels, Kinds, ClusterScoped, Namespaced
<1>3. CASE Users
  BY <1>3 DEF Users, CreateCR, EditSpec, DeleteCR, LoseChild, PrepareClaim,
              DeleteNamespace, worker
<1>4. CASE ControlPlane
  BY <1>4 DEF ControlPlane, CollectGarbage, PurgeChild, PurgeCR, PurgeClaim, worker
<1>. QED
  BY <1>1, <1>2, <1>3, <1>4, Steps
     DEF vars, worker, Observe, ObserveCR, ObserveChild, Crash, Dequeue

-----------------------------------------------------------------------------
(* The invariant is inductive.                                              *)

\* Nothing happens before the first CR is created.
LEMMA UntouchedStep ==
  ASSUME TypeOK, Within, Versions, Checked, Untouched, [Next]_vars
  PROVE  Untouched'
<1> SUFFICES ASSUME budget'["create"] = First
             PROVE  /\ pc' \in {"idle", "get"} /\ seen' = {}
                    /\ \A c \in Keys : cr'[c] = None /\ seenCR'[c] = None
                    /\ \A o \in Ids : obj'[o] = None
  BY DEF Untouched, First
<1>1. /\ budget["create"] = First /\ budget'["create"] = budget["create"]
      /\ budget["create"] \in Nat
  BY BudgetsFall, LimitsAssumption DEF Budgets, Within, First
<1>2. /\ pc \in {"idle", "get"} /\ seen = {}
      /\ \A c \in Keys : cr[c] = None /\ seenCR[c] = None
      /\ \A o \in Ids : obj[o] = None
  BY <1>1 DEF Untouched
<1>3. ASSUME NEW c \in Keys PROVE cr'[c] = None /\ seenCR'[c] = None
  <2>1. cr'[c] = cr[c] \/ Appears(c) \/ Leaves(c) \/ Changes(c)
    BY StepOfCR DEF OneChange, TypeOK
  <2>2. cr'[c] = None
    BY <1>1, <1>2, <2>1 DEF Appears, Leaves, Changes
  <2>. QED
    BY <1>2, <2>2, InformerStep
<1>4. pc' \in {"idle", "get"}
  <2>1. pc = "get" => cur \in Keys
    BY DEF TypeOK
  <2>. QED
    BY <1>2, <2>1, WorkerStep
<1>5. ASSUME NEW o \in Ids PROVE obj'[o] = None
  <2>1. pc \notin Kinds
    BY <1>2 DEF Kinds, ClusterScoped, Namespaced
  <2>. QED
    BY <1>2, <2>1, NoNewChild DEF Present
<1>6. seen' = {}
  BY <1>2, SeenStep
<1>. QED
  BY <1>3, <1>4, <1>5, <1>6

\* If the first CR is there it was there before, or there was none at all.
LEMMA FirstWasThere ==
  ASSUME TypeOK, Versions, Checked, Untouched, [Next]_vars, NEW c \in Keys,
         cr'[c] # None, cr'[c].uid = First
  PROVE  \/ cr[c] # None /\ cr[c].uid = First
         \/ Appears(c) /\ budget["create"] = First
<1>1. cr'[c] = cr[c] \/ Appears(c) \/ Leaves(c) \/ Changes(c)
  BY StepOfCR DEF OneChange, TypeOK
<1>. QED
  BY <1>1 DEF Appears, Leaves, Changes

\* The first CR keeps to its own.
LEMMA OnlyFirstStep ==
  ASSUME TypeOK, Versions, Checked, Untouched, OnlyFirst, [Next]_vars
  PROVE  OnlyFirst'
<1> SUFFICES ASSUME NEW c \in Keys, cr'[c] # None, cr'[c].uid = First
             PROVE  /\ seenCR'[c] # None => seenCR'[c].uid = First
                    /\ cur' = c /\ pc' \notin {"idle", "get"} => snap'.uid = First
                    /\ \A o \in Ids : obj'[o] # None /\ obj'[o].key = c
                                        => obj'[o].uid = First
  BY DEF OnlyFirst, First
<1>1. \A o \in Ids : obj'[o] = obj[o] \/ Created(o) \/ obj'[o] = None
  BY ChildStep DEF TypeOK, Removed
<1>2. CASE cr[c] # None /\ cr[c].uid = First
  <2>1. /\ seenCR[c] # None => seenCR[c].uid = First
        /\ cur = c /\ pc \notin {"idle", "get"} => snap.uid = First
        /\ \A o \in Ids : obj[o] # None /\ obj[o].key = c => obj[o].uid = First
    BY <1>2 DEF OnlyFirst
  <2>2. seenCR'[c] # None => seenCR'[c].uid = First
    BY <2>1, InformerStep
  <2>3. cur' = c /\ pc' \notin {"idle", "get"} => snap'.uid = First
    BY <2>1, WorkerStep
  <2>4. ASSUME NEW o \in Ids, Created(o), obj'[o].key = c PROVE obj'[o].uid = First
    <3>1. obj'[o].key = cur /\ obj'[o].uid = snap.uid
      BY <2>4, BuiltFrom DEF Created
    <3>2. pc \notin {"idle", "get"}
      BY <2>4 DEF Created, Kinds, ClusterScoped, Namespaced
    <3>. QED
      BY <2>1, <2>4, <3>1, <3>2
  <2>. QED
    BY <1>1, <2>1, <2>2, <2>3, <2>4
<1>3. CASE Appears(c) /\ budget["create"] = First
  <2>1. /\ pc \in {"idle", "get"} /\ \A d \in Keys : seenCR[d] = None
        /\ \A o \in Ids : obj[o] = None
    BY <1>3 DEF Untouched
  <2>2. pc = "get" => cur \in Keys
    BY DEF TypeOK
  <2>3. pc' \in {"idle", "get"}
    BY <2>1, <2>2, WorkerStep
  <2>4. \A o \in Ids : obj'[o] = None
    BY <1>1, <2>1 DEF Created, Kinds, ClusterScoped, Namespaced
  <2>. QED
    BY <2>1, <2>3, <2>4, InformerStep
<1>. QED
  BY <1>2, <1>3, FirstWasThere

\* Children stay in the namespace of their CR.
LEMMA AtHomeStep ==
  ASSUME TypeOK, AtHome, [Next]_vars
  PROVE  AtHome'
<1> SUFFICES ASSUME NEW o \in Ids, o[1] \in Namespaced, obj'[o] # None
             PROVE  NsOf[obj'[o].key] = o[2]
  BY DEF AtHome
<1>1. obj'[o] = obj[o] \/ Created(o)
  BY ChildStep DEF TypeOK, Removed
<1>2. CASE Created(o)
  <2>1. obj'[o].key = cur
    BY <1>2, BuiltFrom DEF Created
  <2>2. o = <<pc, NsOf[cur]>>
    BY <1>2 DEF Created, Id, Namespaced, ClusterScoped
  <2>. QED
    BY <2>1, <2>2
<1>. QED
  BY <1>1, <1>2 DEF AtHome

\* As long as the first CR and its namespace are to stay, and nobody takes a child
\* away, what its Deployment needs stays; ClusterRole and binding outside the
\* clean-up.
LEMMA ChildStays ==
  ASSUME TypeOK, AtHome, OnlyFirst, [Next]_vars, budget'["drift"] = budget["drift"],
         \A c, d \in Keys : NsOf[c] = NsOf[d] => c = d,
         NEW c \in Keys, cr[c] # None, cr[c].uid = First, NsOf[c] \notin terminating,
         NEW k \in Granting, Present(Id(k, NsOf[c])),
         pc \notin CleanupLabels \/ Id(k, NsOf[c]) \notin External
  PROVE  obj'[Id(k, NsOf[c])] # None
<1> DEFINE o == Id(k, NsOf[c])
<1>1. k \in Kinds
  BY DEF Kinds, ClusterScoped, Namespaced, Granting
<1>2. o \in Ids /\ obj[o] # None
  BY <1>1, IdOfKey DEF Present
<1>3. o[2] \notin terminating
  BY ScopeAssumption DEF Id, TypeOK
<1>4. budget["drift"] \in Nat
  BY DEF TypeOK, Budgets
<1>5. ~Orphaned(o)
  <2> SUFFICES ASSUME o[1] \in Namespaced PROVE obj[o].key = c /\ obj[o].uid = First
    BY DEF Orphaned
  <2>1. o[2] = NsOf[c]
    BY DEF Id, ClusterScoped, Namespaced
  <2>2. obj[o].key \in Keys
    BY <1>2 DEF TypeOK, ChildType
  <2>3. obj[o].key = c
    <3> HIDE DEF o
    <3>. QED
      BY <1>2, <2>1, <2>2 DEF AtHome
  <2>. QED
    <3> HIDE DEF o
    <3>. QED
      BY <1>2, <2>3 DEF OnlyFirst
<1>. QED
  <2>0. pc \notin CleanupLabels \/ o \notin External
    OBVIOUS
  <2> HIDE DEF o
  <2>1. ~Removed(o)
    BY <1>3, <1>4, <1>5, <2>0 DEF Removed
  <2>2. obj'[o] = obj[o]
    BY <1>2, <2>1, ChildStep DEF Created, TypeOK
  <2>. QED
    BY <1>2, <2>2 DEF o

\* Shown is inductive.
LEMMA ShownStep ==
  ASSUME TypeOK, Within, Versions, Checked, Untouched, OnlyFirst, AtHome, Shown,
         [Next]_vars, \A c, d \in Keys : NsOf[c] = NsOf[d] => c = d
  PROVE  Shown'
<1> SUFFICES ASSUME NEW c \in Keys, cr'[c] # None, cr'[c].uid = First,
                    NsOf[c] \notin terminating', budget'["drift"] = Limits["drift"],
                    NEW k \in Granting, Id(k, NsOf[c]) \in seen' \ External
             PROVE  obj'[Id(k, NsOf[c])] # None
  BY DEF Shown, Present, First, Id
<1>1. budget["drift"] = Limits["drift"] /\ budget'["drift"] = budget["drift"]
  BY BudgetsFall, LimitsAssumption DEF Budgets, Within
<1>2. NsOf[c] \notin terminating
  BY TerminatingGrows
<1>3. CASE obj[Id(k, NsOf[c])] # None /\ obj' = obj
  BY <1>3
<1>4. CASE Id(k, NsOf[c]) \in seen
  <2>1. cr[c] # None /\ cr[c].uid = First
    BY <1>4, FirstWasThere DEF Untouched
  <2>2. Present(Id(k, NsOf[c]))
    BY <1>1, <1>2, <1>4, <2>1 DEF Shown
  <2>. QED
    BY <1>1, <1>2, <2>1, <2>2, ChildStays
<1>. QED
  BY <1>3, <1>4, SeenStep

\* From one child to the next, one more has been passed.
LEMMA OneMorePassed ==
  ASSUME NEW k \in Kinds, After[k] \in DOMAIN Before
  PROVE  k \in DOMAIN Before /\ Before[After[k]] \subseteq Before[k] \cup ({k} \cap Granting)
<1>1. CASE k = "SCC"
  BY <1>1 DEF After, Before, Granting
<1>2. CASE k = "PVC"
  BY <1>2 DEF After, Before, Granting
<1>3. CASE k = "ServiceAccount"
  BY <1>3 DEF After, Before, Granting
<1>4. CASE k = "ClusterRole"
  BY <1>4 DEF After, Before, Granting
<1>5. CASE k = "ClusterRoleBinding"
  BY <1>5 DEF After, Before, Granting
<1>6. CASE k = "Role"
  BY <1>6 DEF After, Before, Granting
<1>7. CASE k = "RoleBinding"
  BY <1>7 DEF After, Before, Granting
<1>8. CASE k \in {"Deployment", "Service", "StorageClass"}
  BY <1>8 DEF After, Before
<1>. QED
  BY <1>1, <1>2, <1>3, <1>4, <1>5, <1>6, <1>7, <1>8 DEF Kinds, ClusterScoped, Namespaced

\* Passed is inductive.
LEMMA PassedStep ==
  ASSUME TypeOK, Within, Versions, Checked, Untouched, OnlyFirst, AtHome, Shown, Passed,
         [Next]_vars, budget["read"] = 0, External \cap LagChildren = {},
         \A c, d \in Keys : NsOf[c] = NsOf[d] => c = d
  PROVE  Passed'
<1> SUFFICES ASSUME pc' \in DOMAIN Before, budget'["drift"] = Limits["drift"],
                    cr'[cur'] # None, cr'[cur'].uid = First, NsOf[cur'] \notin terminating',
                    NEW k \in Before[pc']
             PROVE  obj'[Id(k, NsOf[cur'])] # None
  BY DEF Passed, Present, First, Before, Id
<1>1. /\ pc' \notin {"idle", "get", "status", "finalizer"} /\ pc' \notin CleanupLabels
      /\ k \in Granting
  BY DEF Before, CleanupLabels, Granting
<1>2. pc' # "SCC"
  BY DEF Before
<1>3. /\ pc \notin {"idle", "get"} /\ UNCHANGED <<cur, snap>>
      /\ pc' = pc \/ pc \in Kinds
  BY <1>1, <1>2, WorkerStep
<1>4. cur \in Keys
  BY <1>3 DEF TypeOK
<1>5. /\ budget["drift"] = Limits["drift"] /\ budget'["drift"] = budget["drift"]
  BY BudgetsFall, LimitsAssumption DEF Budgets, Within
<1>6. cr[cur] # None /\ cr[cur].uid = First
  BY <1>3, <1>4, FirstWasThere DEF Untouched
<1>7. NsOf[cur] \notin terminating
  BY <1>3, TerminatingGrows
<1>8. pc \in Kinds /\ pc \notin CleanupLabels
  BY <1>3 DEF Before, Kinds, ClusterScoped, Namespaced, CleanupLabels
<1>9. ASSUME Present(Id(k, NsOf[cur])) PROVE obj'[Id(k, NsOf[cur'])] # None
  BY <1>1, <1>3, <1>4, <1>5, <1>6, <1>7, <1>8, <1>9, ChildStays
<1>10. CASE pc' = pc
  BY <1>5, <1>6, <1>7, <1>9, <1>10 DEF Passed
<1>11. CASE pc' # pc
  <2>0. pc \in Granting /\ Sees(Id(pc, NsOf[cur])) => Present(Id(pc, NsOf[cur]))
    BY <1>4, <1>5, <1>6, <1>7 DEF Sees, Shown
  <2>1. pc' = After[pc] /\ (pc \in Granting => obj'[Id(pc, NsOf[cur])] # None)
    BY <1>1, <1>8, <1>11, <2>0, PassStep
  <2>2. pc \in DOMAIN Before /\ k \in Before[pc] \cup ({pc} \cap Granting)
    BY <1>8, <2>1, OneMorePassed
  <2>3. CASE k \in Before[pc]
    BY <1>5, <1>6, <1>7, <1>9, <2>2, <2>3 DEF Passed
  <2>4. CASE k = pc /\ pc \in Granting
    BY <1>3, <2>1, <2>4
  <2>. QED
    BY <2>2, <2>3, <2>4
<1>. QED
  BY <1>10, <1>11

-----------------------------------------------------------------------------

\* However late the informers are, and whatever is edited, deleted, refused or
\* crashes, the Deployment of the first CR is created only when what its pods run
\* with is there: if no read fails, since some children are passed when they cannot
\* be read; if the informers show ClusterRole and binding as they are, since the
\* clean-up for another CR deletes them; and if no two CRs share a namespace, since
\* the children of the one that goes are collected after the other has passed them.
THEOREM PermissionsComeFirst ==
  (/\ Limits["read"] = 0
   /\ External \cap LagChildren = {}
   /\ \A c, d \in Keys : NsOf[c] = NsOf[d] => c = d)
    => (Spec => DeployedWithPermissions)
<1>. SUFFICES ASSUME Limits["read"] = 0,
                     External \cap LagChildren = {},
                     \A c, d \in Keys : NsOf[c] = NsOf[d] => c = d
              PROVE  Spec => DeployedWithPermissions
  OBVIOUS
<1> DEFINE Inv == /\ Within /\ Versions /\ Checked /\ Untouched /\ OnlyFirst
                  /\ AtHome /\ Shown /\ Passed
           Granted(ns) ==
             (/\ budget["drift"] = Limits["drift"]
              /\ ~Present(<<"Deployment", ns>>) /\ obj'[<<"Deployment", ns>>] # None
              /\ cr[cur] # None /\ cr[cur].uid = snap.uid /\ snap.uid = Limits["create"]) =>
                \A k \in {"SCC", "ServiceAccount", "ClusterRole",
                          "ClusterRoleBinding", "Role", "RoleBinding"} :
                  Present(Id(k, ns))
<1>1. Init => Inv
  <2>1. Init => Within
    BY LimitsAssumption DEF Init, Within
  <2>2. Init => Untouched /\ OnlyFirst /\ AtHome /\ Shown /\ Passed
    BY DEF Init, Untouched, OnlyFirst, AtHome, Shown, Passed, Before
  <2>. QED
    BY <2>1, <2>2, CopiesInit
<1>2. ASSUME TypeOK, Within PROVE budget["read"] = 0
  BY <1>2 DEF TypeOK, Within, Budgets
<1>3. TypeOK /\ Inv /\ [Next]_vars => Inv'
  <2> SUFFICES ASSUME TypeOK, Inv, [Next]_vars PROVE Inv'
    OBVIOUS
  <2>1. Within'
    <3>1. ASSUME NEW b \in Budgets PROVE budget'[b] <= Limits[b]
      BY BudgetsFall, LimitsAssumption DEF Within
    <3>. QED
      BY <3>1 DEF Within
  <2>. QED
    BY <1>2, <2>1, VersionsStep, CheckedStep, UntouchedStep, OnlyFirstStep, AtHomeStep,
       ShownStep, PassedStep
<1>4. ASSUME TypeOK, Inv, [Next]_vars, NEW ns \in Namespaces PROVE Granted(ns)
  <2> SUFFICES ASSUME budget["drift"] = Limits["drift"], ~Present(<<"Deployment", ns>>),
                      obj'[<<"Deployment", ns>>] # None,
                      cr[cur] # None, cr[cur].uid = snap.uid, snap.uid = First
               PROVE  \A k \in Granting : Present(Id(k, ns))
    BY DEF First, Granting
  <2> DEFINE o == <<"Deployment", ns>>
  <2>1. o \in Ids
    BY DEF Ids, Namespaced
  <2>2. Created(o)
    <3> HIDE DEF o
    <3>1. obj'[o] # None /\ obj[o] = None
      BY DEF o, Present
    <3>. QED
      BY <1>4, <2>1, <3>1, ChildStep DEF TypeOK, Removed
  <2>3. pc = "Deployment" /\ ns = NsOf[cur]
    BY <2>2 DEF Created, Id, Kinds, ClusterScoped, Namespaced
  <2>4. NsOf[cur] \notin terminating
    BY <2>2, <2>3 DEF Created, Namespaced
  <2>5. pc \in DOMAIN Before /\ Before[pc] = Granting
    BY <2>3 DEF Before, Granting
  <2>. QED
    BY <1>4, <2>3, <2>4, <2>5 DEF Passed
<1>5. TypeOK /\ Inv /\ [Next]_vars => [\A ns \in Namespaces : Granted(ns)]_vars
  BY <1>4
<1>. QED
  BY <1>1, <1>3, <1>5, TypeCorrect, PTL DEF Spec, DeployedWithPermissions

=============================================================================
