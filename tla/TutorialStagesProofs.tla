------------------------ MODULE TutorialStagesProofs -------------------------
(***************************************************************************)
(* Proofs about TutorialStages, for every choice of stages, names, limits  *)
(* and bounds.                                                             *)
(***************************************************************************)
EXTENDS TutorialStages, TLAPS

-----------------------------------------------------------------------------
(* The lists of children.                                                   *)

\* A child of one of the kinds, whose name is fixed if it is a ClusterRole.
Known(child) ==
  /\ child.kind \in AllKinds
  /\ child.kind = "ClusterRole" => child.name = "nfs-provisioner-runner"

\* Every child of the tutorial is such a child.
LEMMA AllKnown ==
  /\ Known(ServiceAccount) /\ Known(Role) /\ Known(RoleBinding)
  /\ Known(ClusterRole) /\ Known(ClusterRoleBinding) /\ Known(Deployment) /\ Known(Service)
  /\ Known(rbacRole) /\ Known(rbacRoleBinding) /\ Known(hostpathPVC)
  /\ Known(hostpathStorageClass) /\ Known(pvcPVC) /\ Known(pvcSCC)
  /\ Known(pvcClusterRoleBinding) /\ Known(pvcDeployment) /\ Known(pvcStorageClass)
<1>. USE DEF Known, AllKinds, ClusterScoped, Child
<1>1. /\ Known(ServiceAccount) /\ Known(Role) /\ Known(ClusterRole)
      /\ Known(ClusterRoleBinding) /\ Known(Deployment) /\ Known(Service)
  BY DEF ServiceAccount, Role, ClusterRole, ClusterRoleBinding, Deployment, Service
<1>2. Known(RoleBinding)
  BY DEF Role, RoleBinding
<1>3. Known(rbacRole)
  BY DEF Role, rbacRole
<1>4. Known(rbacRoleBinding)
  BY DEF Role, RoleBinding, rbacRoleBinding
<1>5. Known(hostpathPVC) /\ Known(hostpathStorageClass)
  BY DEF hostpathPVC, hostpathStorageClass
<1>6. /\ Known(pvcPVC) /\ Known(pvcSCC) /\ Known(pvcClusterRoleBinding)
      /\ Known(pvcDeployment) /\ Known(pvcStorageClass)
  BY DEF pvcPVC, pvcSCC, pvcClusterRoleBinding, pvcDeployment, pvcStorageClass
<1>. QED
  BY <1>1, <1>2, <1>3, <1>4, <1>5, <1>6

\* So every stage goes through a list of such children, of a length of its own.
LEMMA ChildrenKnown ==
  ASSUME Stage \in Stages
  PROVE  /\ \E len \in Nat \ {0} : DOMAIN Children = 1..len /\ Len(Children) = len
         /\ \A i \in DOMAIN Children : Known(Children[i])
<1>1. CASE Stage = "1.serviceaccount"
  BY <1>1, AllKnown DEF Children, Stage1
<1>2. CASE Stage = "2.deployment"
  BY <1>2, AllKnown DEF Children, Stage2Deployment
<1>3. CASE Stage = "2.rbac"
  BY <1>3, AllKnown DEF Children, Stage2Rbac
<1>4. CASE Stage = "3.hostpath"
  BY <1>4, AllKnown DEF Children, Stage3
<1>5. CASE Stage = "4.pvc"
  BY <1>5, AllKnown DEF Children, Stage4
<1>. QED
  BY <1>1, <1>2, <1>3, <1>4, <1>5, StagesAssumption

\* Where the loop starts and where it goes from a child.
LEMMA LoopKinds ==
  ASSUME Stage \in Stages
  PROVE  /\ Kinds \subseteq AllKinds /\ Children[1].kind \in Kinds
         /\ \A k \in Kinds : After(k) \in Kinds \cup {"finish"}
         /\ "ClusterRole" \in Kinds => Row("ClusterRole").name = "nfs-provisioner-runner"
<1>1. PICK len \in Nat \ {0} : DOMAIN Children = 1..len /\ Len(Children) = len
  BY ChildrenKnown
<1>2. Kinds \subseteq AllKinds /\ Children[1].kind \in Kinds
  BY <1>1, ChildrenKnown DEF Kinds, Known
<1>3. ASSUME NEW k \in Kinds
      PROVE  /\ After(k) \in Kinds \cup {"finish"}
             /\ k = "ClusterRole" => Row(k).name = "nfs-provisioner-runner"
  <2> DEFINE i == CHOOSE j \in DOMAIN Children : Children[j].kind = k
  <2>1. i \in DOMAIN Children /\ Children[i].kind = k
    BY DEF Kinds
  <2>2. Row(k) = Children[i]
    BY DEF Row
  <2>3. After(k) = IF i = Len(Children) THEN "finish" ELSE Children[i + 1].kind
    BY DEF After
  <2> HIDE DEF i
  <2>4. i # Len(Children) => i + 1 \in DOMAIN Children
    BY <1>1, <2>1
  <2>. QED
    BY <2>1, <2>2, <2>3, <2>4, ChildrenKnown DEF Kinds, Known
<1>. QED
  BY <1>2, <1>3

\* The stage is chosen once.
LEMMA SameStage ==
  ASSUME Stage' = Stage
  PROVE  /\ Kinds' = Kinds
         /\ \A k \in AllKinds : Row(k)' = Row(k)
<1>1. Children' = Children
  BY DEF Children
<1>. QED
  BY <1>1 DEF Kinds, Row

-----------------------------------------------------------------------------
(* Types.                                                                   *)

\* Where the worker may be, except at a child.
Labels == {"idle", "get", "finish", "deleteClusterRole", "deleteClusterRoleBinding", "release"}

\* A child as TypeOK has it.
ChildOK(k, c) == c # None => k \in Kinds /\ c.name = Row(k).name /\ c.uid \in Nat \cup {None}

\* The invariant.
TypeInv ==
  /\ TypeOK
  /\ obj = [k \in AllKinds |-> obj[k]]
  /\ budget["read"] <= Limits["read"]

\* It holds at first.
LEMMA TypeInit == Init => TypeInv
<1>. SUFFICES ASSUME Init PROVE TypeInv
  OBVIOUS
<1>1. budget = Limits /\ Limits \in [Budgets -> Nat] /\ Limits["read"] \in Nat
  BY LimitsAssumption DEF Init, Budgets
<1>2. budget["read"] <= Limits["read"]
  BY <1>1
<1>3. obj = [k \in AllKinds |-> None] /\ \A k \in AllKinds : ~Present(k)
  BY DEF Init, Present
<1>4. /\ cr \in CRType \cup {None} /\ claims \subseteq {pvcName} /\ queued \in BOOLEAN
      /\ Stage \in Stages /\ pc = "idle" /\ snap = None
  BY DEF Init
<1>5. TypeOK
  BY <1>1, <1>3, <1>4 DEF TypeOK
<1>6. obj = [k \in AllKinds |-> obj[k]]
  BY <1>3
<1>. QED
  BY <1>2, <1>5, <1>6 DEF TypeInv

\* What Spend leaves of the limits.
LEMMA SpendStep ==
  ASSUME TypeInv, NEW F \in SUBSET Budgets, Spend(F)
  PROVE  /\ budget' \in [Budgets -> Nat]
         /\ budget'["read"] <= budget["read"]
         /\ "read" \in F => budget'["read"] < budget["read"]
<1>1. budget \in [Budgets -> Nat] /\ \A b \in F : budget[b] \in Nat /\ budget[b] > 0
  BY DEF TypeInv, TypeOK, Spend
<1>2. \A b \in F : budget[b] - 1 \in Nat
  BY <1>1
<1>3. budget' = [b \in Budgets |-> IF b \in F THEN budget[b] - 1 ELSE budget[b]]
  BY DEF Spend
<1>4. budget' \in [Budgets -> Nat]
  BY <1>1, <1>2, <1>3
<1>5. "read" \in Budgets /\ budget["read"] \in Nat
  BY <1>1 DEF Budgets
<1>6. budget'["read"] = IF "read" \in F THEN budget["read"] - 1 ELSE budget["read"]
  BY <1>3, <1>5
<1>. QED
  BY <1>4, <1>5, <1>6

\* A step that moves the worker, and changes at most one child, keeps the types.
LEMMA MoveTypes ==
  ASSUME TypeInv, Stage' = Stage, UNCHANGED claims,
         cr' \in CRType \cup {None},
         obj' = obj \/ \E k \in AllKinds : \E c : obj' = [obj EXCEPT ![k] = c] /\ ChildOK(k, c),
         queued' \in BOOLEAN,
         pc' \in Kinds \cup Labels,
         snap' \in IF pc' \in {"idle", "get"} THEN {None} ELSE CRType,
         budget' \in [Budgets -> Nat], budget'["read"] <= Limits["read"]
  PROVE  TypeInv'
<1>1. Kinds' = Kinds /\ \A k \in AllKinds : Row(k)' = Row(k)
  BY SameStage
<1>2. /\ obj' = [k \in AllKinds |-> obj'[k]]
      /\ \A k \in AllKinds : ChildOK(k, obj'[k])
  BY DEF TypeInv, TypeOK, ChildOK, Present
<1>3. \A k \in AllKinds :
        Present(k)' => /\ k \in Kinds' /\ obj'[k].name = Row(k)'.name
                       /\ obj'[k].uid \in Nat \cup {None}
  BY <1>1, <1>2 DEF ChildOK, Present
<1>. QED
  BY <1>1, <1>2, <1>3 DEF TypeInv, TypeOK, Labels

\* The worker keeps the types.
LEMMA WorkerTypes == TypeInv /\ (Dequeue \/ Reconcile) => TypeInv'
<1>. SUFFICES ASSUME TypeInv, Dequeue \/ Reconcile PROVE TypeInv'
  OBVIOUS
<1>. USE DEF Goto, Return, Requeue
<1>0. /\ cr \in CRType \cup {None} /\ queued \in BOOLEAN /\ Stage \in Stages
      /\ budget \in [Budgets -> Nat] /\ budget["read"] \in Nat /\ Limits["read"] \in Nat
      /\ budget["read"] <= Limits["read"]
      /\ pc \notin {"idle", "get"} => snap \in CRType
      /\ pc \in {"idle", "get"} => snap = None
      /\ Kinds \subseteq AllKinds
  BY LimitsAssumption, LoopKinds DEF TypeInv, TypeOK, Budgets
<1>1. ASSUME NEW F \in SUBSET {"read", "write"}, Spend(F)
      PROVE  budget' \in [Budgets -> Nat] /\ budget'["read"] <= Limits["read"]
  <2>1. budget' \in [Budgets -> Nat] /\ budget'["read"] <= budget["read"]
    BY <1>1, SpendStep DEF Budgets
  <2>2. budget'["read"] \in Nat
    BY <2>1 DEF Budgets
  <2>. QED
    BY <1>0, <2>1, <2>2
<1>2. \A k \in Kinds : k \notin Labels
  BY <1>0 DEF AllKinds, ClusterScoped, Labels
<1>3. CASE Dequeue
  BY <1>0, <1>3, MoveTypes DEF Dequeue, Labels
<1>4. CASE GetCR
  <2>1. Children[1].kind \in Kinds /\ Children[1].kind \notin Labels
    BY <1>0, <1>2, LoopKinds
  <2>2. budget' \in [Budgets -> Nat] /\ budget'["read"] <= Limits["read"]
    BY <1>1, <1>4 DEF GetCR
  <2>. QED
    BY <1>0, <1>4, <2>1, <2>2, MoveTypes DEF GetCR, Labels
<1>5. ASSUME NEW k \in Kinds, PassChild(k) \/ CreateChild(k) PROVE TypeInv'
  <2>1. /\ After(k) \in Kinds \cup {"finish"} /\ After(k) \notin {"idle", "get"}
        /\ pc = k /\ pc \notin {"idle", "get"} /\ k \in AllKinds
    BY <1>0, <1>2, <1>5, LoopKinds DEF PassChild, CreateChild, Labels
  <2>2. budget' \in [Budgets -> Nat] /\ budget'["read"] <= Limits["read"]
    BY <1>1, <1>5 DEF PassChild, CreateChild
  <2>3. /\ pc' = After(k) /\ UNCHANGED <<Stage, cr, claims, snap, queued>>
    BY <1>5 DEF PassChild, CreateChild
  <2>4. obj' = obj \/ \E c : obj' = [obj EXCEPT ![k] = c] /\ ChildOK(k, c)
    <3>1. CASE PassChild(k)
      BY <3>1 DEF PassChild
    <3>2. CASE CreateChild(k)
      <4> DEFINE c == [name |-> Row(k).name, uid |-> IF Row(k).owned THEN snap.uid ELSE None]
      <4>1. snap.uid \in Nat
        BY <1>0, <2>1 DEF CRType
      <4>2. ChildOK(k, c)
        BY <4>1 DEF ChildOK
      <4>3. obj' = obj \/ obj' = [obj EXCEPT ![k] = c]
        BY <3>2 DEF CreateChild
      <4>. QED
        BY <4>2, <4>3
    <3>. QED
      BY <1>5, <3>1, <3>2
  <2>. QED
    BY <1>0, <2>1, <2>2, <2>3, <2>4, MoveTypes DEF Labels
<1>6. CASE StartOver \/ FinishLive
  BY <1>0, <1>6, MoveTypes DEF StartOver, FinishLive, Labels
<1>7. ASSUME NEW k \in AllKinds, NEW name, NEW label \in Labels \ {"idle", "get"},
             NEW next \in Labels \ {"idle", "get"}, DeleteExternal(k, name, label, next)
      PROVE  TypeInv'
  <2>1. budget' \in [Budgets -> Nat] /\ budget'["read"] <= Limits["read"]
    BY <1>1, <1>7 DEF DeleteExternal
  <2>2. ChildOK(k, None)
    BY DEF ChildOK
  <2>3. obj' = obj \/ obj' = [obj EXCEPT ![k] = None]
    BY <1>7 DEF DeleteExternal
  <2>4. /\ UNCHANGED <<Stage, cr, claims>> /\ pc = label
        /\ \/ pc' = next /\ UNCHANGED <<snap, queued>>
           \/ pc' = "idle" /\ snap' = None /\ queued' = TRUE
    BY <1>7 DEF DeleteExternal
  <2>. QED
    BY <1>0, <2>1, <2>2, <2>3, <2>4, MoveTypes DEF Labels
<1>8. CASE DeleteClusterRole \/ DeleteClusterRoleBinding
  BY <1>7, <1>8 DEF DeleteClusterRole, DeleteClusterRoleBinding, AllKinds, ClusterScoped, Labels
<1>9. CASE RemoveFinalizer
  <2>1. budget' \in [Budgets -> Nat] /\ budget'["read"] <= Limits["read"]
    BY <1>1, <1>9 DEF RemoveFinalizer
  <2>2. cr' \in CRType \cup {None}
    BY <1>0, <1>9 DEF RemoveFinalizer, CRType
  <2>. QED
    BY <1>0, <1>9, <2>1, <2>2, MoveTypes DEF RemoveFinalizer, Labels
<1>. QED
  BY <1>3, <1>4, <1>5, <1>6, <1>8, <1>9 DEF Reconcile

\* So do users, the garbage collector and crashes.
LEMMA AroundTypes == TypeInv /\ (Users \/ Collector \/ Crash) => TypeInv'
<1>. SUFFICES ASSUME TypeInv, Users \/ Collector \/ Crash PROVE TypeInv'
  OBVIOUS
<1>0. /\ cr \in CRType \cup {None} /\ queued \in BOOLEAN /\ Stage \in Stages
      /\ budget \in [Budgets -> Nat] /\ budget["read"] \in Nat /\ Limits["read"] \in Nat
      /\ budget["read"] <= Limits["read"] /\ budget["create"] \in Nat
      /\ pc \in Kinds \cup Labels
      /\ snap \in IF pc \in {"idle", "get"} THEN {None} ELSE CRType
  BY LimitsAssumption DEF TypeInv, TypeOK, Budgets, Labels
<1>1. ASSUME NEW b \in Budgets, Spend({b})
      PROVE  budget' \in [Budgets -> Nat] /\ budget'["read"] <= Limits["read"]
  <2>1. budget' \in [Budgets -> Nat] /\ budget'["read"] <= budget["read"]
    BY <1>1, SpendStep
  <2>2. budget'["read"] \in Nat
    BY <2>1 DEF Budgets
  <2>. QED
    BY <1>0, <2>1, <2>2
<1>2. CASE CreateCR
  <2>1. budget' \in [Budgets -> Nat] /\ budget'["read"] <= Limits["read"]
    BY <1>1, <1>2 DEF CreateCR, Budgets
  <2>2. cr' \in CRType
    BY <1>0, <1>2, FinalizedAssumption DEF CreateCR, CRType
  <2>. QED
    BY <1>0, <1>2, <2>1, <2>2, MoveTypes DEF CreateCR
<1>3. CASE DeleteCR
  <2>1. budget' \in [Budgets -> Nat] /\ budget'["read"] <= Limits["read"]
    BY <1>1, <1>3 DEF DeleteCR, Budgets
  <2>2. cr' \in CRType \cup {None}
    BY <1>0, <1>3 DEF DeleteCR, CRType
  <2>. QED
    BY <1>0, <1>3, <2>1, <2>2, MoveTypes DEF DeleteCR
<1>4. CASE PrepareClaim
  <2>1. budget' \in [Budgets -> Nat] /\ budget'["read"] <= Limits["read"]
    BY <1>1, <1>4 DEF PrepareClaim, Budgets
  <2>. QED
    BY <1>0, <1>4, <2>1, SameStage
    DEF PrepareClaim, TypeInv, TypeOK, Labels, Present
<1>5. ASSUME NEW k \in AllKinds, LoseChild(k) \/ CollectGarbage(k) PROVE TypeInv'
  <2>1. budget' \in [Budgets -> Nat] /\ budget'["read"] <= Limits["read"]
    BY <1>0, <1>1, <1>5 DEF LoseChild, CollectGarbage, Budgets
  <2>2. ChildOK(k, None) /\ obj' = [obj EXCEPT ![k] = None]
    BY <1>5 DEF ChildOK, LoseChild, CollectGarbage
  <2>. QED
    BY <1>0, <1>5, <2>1, <2>2, MoveTypes DEF LoseChild, CollectGarbage
<1>6. CASE EndForeground
  <2>1. cr' \in CRType \cup {None}
    BY <1>0, <1>6 DEF EndForeground, CRType
  <2>. QED
    BY <1>0, <1>6, <2>1, MoveTypes DEF EndForeground
<1>7. CASE Crash
  <2>1. budget' \in [Budgets -> Nat] /\ budget'["read"] <= Limits["read"]
    BY <1>1, <1>7 DEF Crash, Budgets
  <2>. QED
    BY <1>0, <1>7, <2>1, MoveTypes DEF Crash, Labels
<1>. QED
  BY <1>2, <1>3, <1>4, <1>5, <1>6, <1>7 DEF Users, Collector

\* TypeInv is inductive.
LEMMA TypeStep == TypeInv /\ [Next]_vars => TypeInv'
<1>1. TypeInv /\ UNCHANGED vars => TypeInv'
  BY SameStage DEF vars, TypeInv, TypeOK, Present
<1>. QED
  BY <1>1, WorkerTypes, AroundTypes DEF Next

\* Every variable keeps its type, and a stored child is one of its stage's, under
\* the name its builder gives.
THEOREM TypeCorrect == Spec => []TypeOK
<1>1. TypeInv => TypeOK
  BY DEF TypeInv
<1>. QED
  BY <1>1, TypeInit, TypeStep, PTL DEF Spec

-----------------------------------------------------------------------------
(* The finalizer.                                                           *)

\* Past its clean-up the ClusterRole is gone, if no read has failed.
RoleGone ==
  budget["read"] = Limits["read"] /\ pc \in {"deleteClusterRoleBinding", "release"} =>
    ~Present("ClusterRole")

\* RoleGone holds from step to step: only DeleteClusterRole leads to the calls after
\* it, and meanwhile nothing is created.
LEMMA RoleGoneStep == TypeInv /\ RoleGone /\ [Next]_vars => RoleGone'
<1>. SUFFICES ASSUME TypeInv, RoleGone, [Next]_vars PROVE RoleGone'
  OBVIOUS
<1>0. /\ Kinds \subseteq AllKinds /\ Stage \in Stages
      /\ obj = [k \in AllKinds |-> obj[k]]
      /\ budget["read"] \in Nat /\ Limits["read"] \in Nat
      /\ budget["read"] <= Limits["read"] /\ "ClusterRole" \in AllKinds
  BY LoopKinds, LimitsAssumption DEF TypeInv, TypeOK, Budgets, AllKinds, ClusterScoped
<1>1. \A k \in Kinds : k \notin Labels
  BY <1>0 DEF AllKinds, ClusterScoped, Labels
<1>2. ASSUME NEW F \in SUBSET Budgets, Spend(F), budget'["read"] = Limits["read"]
      PROVE  budget["read"] = Limits["read"] /\ "read" \notin F
  <2>1. /\ budget'["read"] <= budget["read"]
        /\ "read" \in F => budget'["read"] < budget["read"]
    BY <1>2, SpendStep
  <2>. QED
    BY <1>0, <1>2, <2>1
<1>3. CASE Dequeue \/ GetCR \/ StartOver \/ FinishLive \/ RemoveFinalizer \/ Crash
  <2>1. pc' \in Kinds \cup {"idle", "get", "deleteClusterRole"}
    BY <1>0, <1>3, LoopKinds DEF Dequeue, GetCR, StartOver, FinishLive, RemoveFinalizer, Crash,
       Goto, Return, Requeue
  <2>. QED
    BY <1>1, <2>1 DEF RoleGone, Labels
<1>4. ASSUME NEW k \in Kinds, PassChild(k) \/ CreateChild(k) PROVE RoleGone'
  <2>1. pc' \in Kinds \cup {"finish"}
    BY <1>0, <1>4, LoopKinds DEF PassChild, CreateChild, Goto
  <2>. QED
    BY <1>1, <2>1 DEF RoleGone, Labels
<1>5. CASE DeleteClusterRole
  <2>1. Present("ClusterRole") => obj["ClusterRole"].name = "nfs-provisioner-runner"
    BY <1>0, LoopKinds DEF TypeInv, TypeOK
  <2>2. CASE ~Present("ClusterRole") /\ UNCHANGED obj
    BY <2>2 DEF RoleGone, Present
  <2>3. CASE Spend({"read"})
    BY <1>2, <2>3 DEF RoleGone, Budgets
  <2>4. CASE obj' = [obj EXCEPT !["ClusterRole"] = None]
    BY <1>0, <2>4 DEF RoleGone, Present
  <2>5. CASE pc' = "idle"
    BY <2>5 DEF RoleGone
  <2>. QED
    BY <1>5, <2>1, <2>2, <2>3, <2>4, <2>5 DEF DeleteClusterRole, DeleteExternal, Requeue
<1>6. CASE DeleteClusterRoleBinding
  <2>1. \/ pc' = "idle"
        \/ pc = "deleteClusterRoleBinding" /\ \E F \in SUBSET Budgets : Spend(F)
    BY <1>6 DEF DeleteClusterRoleBinding, DeleteExternal, Requeue, Budgets
  <2>2. obj'["ClusterRole"] = obj["ClusterRole"]
    BY <1>0, <1>6 DEF DeleteClusterRoleBinding, DeleteExternal
  <2>. QED
    BY <1>2, <2>1, <2>2 DEF RoleGone, Present
<1>7. CASE Users
  <2>1. pc' = pc /\ \E F \in SUBSET Budgets : Spend(F)
    BY <1>7 DEF Users, CreateCR, DeleteCR, PrepareClaim, LoseChild, Budgets
  <2>2. ~Present("ClusterRole") => ~Present("ClusterRole")'
    BY <1>0, <1>7 DEF Users, CreateCR, DeleteCR, PrepareClaim, LoseChild, Present
  <2>. QED
    BY <1>2, <2>1, <2>2 DEF RoleGone
<1>8. CASE Collector \/ UNCHANGED vars
  <2>1. UNCHANGED <<pc, budget>>
    BY <1>8 DEF Collector, CollectGarbage, EndForeground, vars
  <2>2. ~Present("ClusterRole") => ~Present("ClusterRole")'
    BY <1>0, <1>8 DEF Collector, CollectGarbage, EndForeground, Present, vars
  <2>. QED
    BY <2>1, <2>2 DEF RoleGone
<1>. QED
  BY <1>3, <1>4, <1>5, <1>6, <1>7, <1>8 DEF Next, Reconcile

\* The finalizer is taken from a CR only once the ClusterRole is gone, if no read
\* fails: nobody else takes it, and the worker does so after DeleteClusterRole.
THEOREM ReleaseAfterRole == Spec => ReleasedWithoutRole
<1> DEFINE Release == /\ cr # None /\ cr' # None /\ cr.fin /\ ~cr'.fin
                      /\ budget["read"] = Limits["read"]
                      => ~Present("ClusterRole")
<1>1. ASSUME TypeInv, RoleGone, [Next]_vars PROVE Release
  <2>0. cr \in CRType \cup {None}
    BY <1>1 DEF TypeInv, TypeOK
  <2>1. CASE RemoveFinalizer
    BY <1>1, <2>1 DEF RemoveFinalizer, RoleGone
  <2>2. CASE CreateCR
    BY <2>2 DEF CreateCR
  <2>3. CASE DeleteCR \/ EndForeground
    BY <2>0, <2>3 DEF DeleteCR, EndForeground, CRType
  <2>4. CASE cr' = cr
    BY <2>4
  <2>. QED
    BY <1>1, <2>1, <2>2, <2>3, <2>4 DEF Next, vars, Dequeue, Reconcile, GetCR, PassChild,
       CreateChild, StartOver, FinishLive, DeleteClusterRole, DeleteClusterRoleBinding,
       DeleteExternal, Users, PrepareClaim, LoseChild, Collector, CollectGarbage, Crash
<1>2. TypeInv /\ RoleGone /\ [Next]_vars => [Release]_vars
  BY <1>1
<1>3. Init => RoleGone
  BY DEF Init, RoleGone
<1>. QED
  BY <1>2, <1>3, TypeInit, TypeStep, RoleGoneStep, PTL DEF Spec, ReleasedWithoutRole
=============================================================================
