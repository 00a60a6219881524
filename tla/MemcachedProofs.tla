--------------------------- MODULE MemcachedProofs ---------------------------
(***************************************************************************)
(* Proofs about Memcached, for any number of CRs, pods and sizes: a        *)
(* Deployment is scaled only by who has read its size, with informers as   *)
(* late as they like; the variables keep their types; and the status is    *)
(* current when the operator rests.                                        *)
(***************************************************************************)
EXTENDS Memcached, FiniteSetTheorems, TLAPS

-----------------------------------------------------------------------------
(* Versions.                                                                *)

\* Four numbers are enough to find one that three copies do not carry.
LEMMA VersionLeft ==
  ASSUME NEW x, NEW y, NEW z
  PROVE  \E v \in Versions : v # x /\ v # y /\ v # z
<1>1. 0 \in Versions /\ 1 \in Versions /\ 2 \in Versions /\ 3 \in Versions
  BY DEF Versions
<1>. QED
  BY <1>1

\* A new version is new.
LEMMA VersionIsNew ==
  ASSUME NEW a, NEW b, NEW c
  PROVE  \A m \in {a, b, c} : m = None \/ m.rv # NewVersion({a, b, c})
<1>1. \E v \in Versions : \A m \in {a, b, c} : m = None \/ m.rv # v
  <2> DEFINE x == a.rv
             y == b.rv
             z == c.rv
  <2>0. \E v \in Versions : v # x /\ v # y /\ v # z
    <3> HIDE DEF x, y, z
    <3>. QED
      BY VersionLeft
  <2>1. PICK v \in Versions : v # a.rv /\ v # b.rv /\ v # c.rv
    BY <2>0
  <2>. QED
    BY <2>1
<1>. QED
  BY <1>1 DEF NewVersion

-----------------------------------------------------------------------------
(* The invariant of scaling.                                                *)

\* A Deployment, whatever it says.
IsDeployment(d) ==
  d = [uid |-> d.uid, owned |-> d.owned, replicas |-> d.replicas, rv |-> d.rv]

\* Copies of one version say the same of the replicas.
Agree(a, b) ==
  a # None /\ b # None /\ a.uid = b.uid /\ a.rv = b.rv => a.replicas = b.replicas

\* Copies of Deployments, as far as the proof needs their types.
Shapes ==
  /\ dep = [n \in Names |-> dep[n]] /\ seenDep = [n \in Names |-> seenDep[n]]
  /\ \A n \in Names : /\ dep[n] = None \/ IsDeployment(dep[n])
                      /\ seenDep[n] = None \/ IsDeployment(seenDep[n])
  /\ due \subseteq {n \in Names : IsDeployment(dep[n])} /\ queue \subseteq Names
  /\ pc # "idle" => cur \in Names
  /\ pc = "scale" => IsDeployment(found)
  /\ budget \in [Budgets -> Nat]

\* The informer's copy and the one in the worker's hand agree with the stored one.
CopiesAgree ==
  /\ \A n \in Names : Agree(dep[n], seenDep[n])
  /\ pc = "scale" => found # None /\ Agree(dep[cur], found)

ScaleInv == Shapes /\ CopiesAgree

\* ScaleInv holds at first.
LEMMA ScaleInit == Init => ScaleInv
BY LimitsAssumption DEF Init, ScaleInv, Shapes, CopiesAgree, Agree

\* Something uncontrolled happens once more: the budgets change.
LEMMA SpendStep ==
  ASSUME Shapes, NEW b \in Budgets, Spend(b)
  PROVE  budget' \in [Budgets -> Nat] /\ budget' # budget
<1>1. budget \in [Budgets -> Nat] /\ budget[b] \in Nat /\ budget[b] > 0
  BY DEF Shapes, Spend
<1>2. budget[b] - 1 \in Nat /\ budget[b] - 1 # budget[b]
  BY <1>1
<1>. QED
  BY <1>1, <1>2 DEF Spend

\* A step that leaves Deployments, their copies and budgets alone, and reads no
\* Deployment.
LEMMA OtherStep ==
  ASSUME ScaleInv, UNCHANGED <<dep, seenDep>>,
         due' \subseteq due \cup {n \in Names : IsDeployment(dep[n])},
         queue' \subseteq Names,
         budget' \in [Budgets -> Nat],
         pc' # "idle" => cur' \in Names,
         pc' = "scale" => pc = "scale" /\ UNCHANGED <<cur, found>>
  PROVE  ScaleInv'
BY DEF ScaleInv, Shapes, CopiesAgree, Agree, IsDeployment

\* A step that gives Deployment n a version that no copy carries.
LEMMA NewVersionStep ==
  ASSUME ScaleInv, NEW n \in Names, NEW d, IsDeployment(d),
         d.rv = NewVersion({dep[n], seenDep[n], found}),
         dep' = [dep EXCEPT ![n] = d], UNCHANGED seenDep,
         due' \subseteq due \cup {n}, queue' \subseteq Names,
         budget' \in [Budgets -> Nat],
         pc' # "idle" => cur' \in Names,
         pc' = "scale" => pc = "scale" /\ UNCHANGED <<cur, found>>
  PROVE  ScaleInv'
<1>1. /\ dep' = [m \in Names |-> dep'[m]] /\ dep'[n] = d
      /\ \A m \in Names \ {n} : dep'[m] = dep[m]
  BY DEF ScaleInv, Shapes
<1>2. /\ seenDep[n] = None \/ seenDep[n].rv # d.rv
      /\ found = None \/ found.rv # d.rv
  <2>1. \A m \in {dep[n], seenDep[n], found} :
          m = None \/ m.rv # NewVersion({dep[n], seenDep[n], found})
    BY VersionIsNew, Zenon
  <2>. QED
    BY <2>1
<1>3. Shapes'
  <2>1. \A m \in Names : dep'[m] = None \/ IsDeployment(dep'[m])
    BY <1>1 DEF ScaleInv, Shapes
  <2>2. due' \subseteq {m \in Names : IsDeployment(dep'[m])}
    <3>1. \A m \in due : m \in Names /\ IsDeployment(dep[m])
      BY DEF ScaleInv, Shapes
    <3>2. \A m \in due \cup {n} : m \in Names /\ IsDeployment(dep'[m])
      BY <1>1, <3>1
    <3>. QED
      BY <3>2
  <2>3. pc' = "scale" => IsDeployment(found')
    BY DEF ScaleInv, Shapes
  <2>. QED
    BY <1>1, <2>1, <2>2, <2>3 DEF ScaleInv, Shapes
<1>4. CopiesAgree'
  BY <1>1, <1>2 DEF ScaleInv, CopiesAgree, Agree, Shapes
<1>. QED
  BY <1>3, <1>4 DEF ScaleInv

\* A Deployment goes.
LEMMA GoneStep ==
  ASSUME ScaleInv, NEW n \in Names, Removed(n),
         UNCHANGED <<informers, queue, worker>>, budget' \in [Budgets -> Nat]
  PROVE  ScaleInv'
<1>1. /\ dep' = [m \in Names |-> dep'[m]] /\ dep'[n] = None
      /\ \A m \in Names \ {n} : dep'[m] = dep[m]
  BY DEF ScaleInv, Shapes, Removed
<1>2. Shapes'
  BY <1>1 DEF ScaleInv, Shapes, IsDeployment, Removed, informers, worker
<1>3. CopiesAgree'
  BY <1>1 DEF ScaleInv, CopiesAgree, Agree, Shapes, informers, worker
<1>. QED
  BY <1>2, <1>3 DEF ScaleInv

-----------------------------------------------------------------------------
(* The steps.                                                               *)

\* A new version of a Deployment is a Deployment, and
LEMMA ReportedShape ==
  ASSUME NEW d, IsDeployment(d), NEW v
  PROVE  /\ IsDeployment([d EXCEPT !.rv = v])
         /\ [d EXCEPT !.rv = v].rv = v
         /\ [d EXCEPT !.rv = v].replicas = d.replicas
<1>1. [d EXCEPT !.rv = v] =
        [uid |-> d.uid, owned |-> d.owned, replicas |-> d.replicas, rv |-> v]
  BY DEF IsDeployment
<1>. QED
  BY <1>1 DEF IsDeployment

\* so is a new version with another size.
Scaled(a, s, v) == [a EXCEPT !.replicas = s, !.rv = v]

\* Such a version is shaped like a Deployment, and has its new version.
LEMMA ScaledShape ==
  ASSUME NEW d, IsDeployment(d), NEW r, NEW v
  PROVE  IsDeployment(Scaled(d, r, v)) /\ Scaled(d, r, v).rv = v
<1> DEFINE e == [d EXCEPT !.replicas = r]
<1>1. e = [uid |-> d.uid, owned |-> d.owned, replicas |-> r, rv |-> d.rv]
  BY DEF IsDeployment
<1>2. Scaled(d, r, v) = [e EXCEPT !.rv = v]
  BY DEF IsDeployment, Scaled
<1>3. IsDeployment(e)
  BY <1>1 DEF IsDeployment
<1> HIDE DEF e
<1>4. IsDeployment([e EXCEPT !.rv = v]) /\ [e EXCEPT !.rv = v].rv = v
  BY <1>3, ReportedShape
<1>. QED
  BY <1>2, <1>4

\* The worker keeps ScaleInv: what it scales it has read, and the version it read
\* tells whether the size is still the same.
LEMMA WorkerStep ==
  ASSUME ScaleInv, Reconcile \/ Fail \/ \E n \in Names : Dequeue(n)
  PROVE  ScaleInv'
<1>. USE DEF server, informers, worker, Done, Return, Requeue
<1>0. budget \in [Budgets -> Nat] /\ queue \subseteq Names /\ (pc # "idle" => cur \in Names)
  BY DEF ScaleInv, Shapes
<1>1. CASE GetCR \/ ListPods \/ UpdateStatus
  BY <1>0, <1>1, OtherStep DEF GetCR, ListPods, UpdateStatus
<1>2. CASE Fail
  <2>1. budget' \in [Budgets -> Nat]
    BY <1>2, SpendStep DEF Fail, Budgets, ScaleInv
  <2>. QED
    BY <1>0, <1>2, <2>1, OtherStep DEF Fail
<1>3. ASSUME NEW n \in Names, Dequeue(n) PROVE ScaleInv'
  BY <1>0, <1>3, OtherStep DEF Dequeue
<1>4. CASE GetDeployment
  <2>1. IsDeployment(seenDep[cur]) /\ Agree(dep[cur], seenDep[cur])
    BY <1>4 DEF GetDeployment, ScaleInv, Shapes, CopiesAgree
  <2>. QED
    BY <1>0, <1>4, <2>1 DEF GetDeployment, ScaleInv, Shapes, CopiesAgree
<1>5. CASE CreateDeployment
  <2>1. CASE dep[cur] = None
    <3> DEFINE d == deploymentForMemcached(snap)
    <3>1. IsDeployment(d) /\ d.rv = NewVersion({dep[cur], seenDep[cur]})
      BY DEF deploymentForMemcached, IsDeployment
    <3>2. /\ dep' = [dep EXCEPT ![cur] = d] /\ seenDep[cur] = None /\ pc' = "idle"
          /\ UNCHANGED <<seenDep, budget>> /\ due' = due \cup {cur}
          /\ cur \in Names /\ queue' \subseteq Names
      BY <1>0, <1>5, <2>1 DEF CreateDeployment
    <3>3. /\ dep' = [m \in Names |-> dep'[m]] /\ dep'[cur] = d
          /\ \A m \in Names \ {cur} : dep'[m] = dep[m]
      BY <3>2 DEF ScaleInv, Shapes
    <3>4. Shapes'
      BY <1>0, <3>1, <3>2, <3>3 DEF ScaleInv, Shapes
    <3>5. CopiesAgree'
      BY <3>2, <3>3 DEF ScaleInv, CopiesAgree, Agree
    <3>. QED
      BY <3>4, <3>5 DEF ScaleInv
  <2>2. CASE dep[cur] # None
    BY <1>0, <1>5, <2>2, OtherStep DEF CreateDeployment
  <2>. QED
    BY <2>1, <2>2
<1>6. CASE ScaleDeployment
  <2>1. pc = "scale" /\ pc' = "idle" /\ UNCHANGED <<seenDep, budget, due>>
        /\ cur \in Names /\ queue' \subseteq Names
    BY <1>0, <1>6 DEF ScaleDeployment
  <2>2. CASE UNCHANGED dep
    BY <1>0, <2>1, <2>2, OtherStep
  <2>3. CASE dep' # dep
    <3> DEFINE v == NewVersion({dep[cur], seenDep[cur], found})
               r == snap.size
               d == [found EXCEPT !.replicas = r, !.rv = v]
    <3>1. dep' = [dep EXCEPT ![cur] = d]
      BY <1>6, <2>3 DEF ScaleDeployment
    <3>2. IsDeployment(found)
      BY <2>1 DEF ScaleInv, Shapes
    <3>3. IsDeployment(d) /\ d.rv = v
      <4>1. d = Scaled(found, r, v)
        BY DEF Scaled
      <4> HIDE DEF v, r, d
      <4>. QED
        BY <3>2, <4>1, ScaledShape
    <3> HIDE DEF d
    <3>. QED
      BY <1>0, <2>1, <3>1, <3>3, NewVersionStep
  <2>. QED
    BY <2>2, <2>3
<1>. QED
  BY <1>1, <1>2, <1>3, <1>4, <1>5, <1>6 DEF Reconcile

\* So does everything around the worker.
LEMMA AroundStep ==
  ASSUME ScaleInv, Observe \/ Controllers \/ Users
  PROVE  ScaleInv'
<1>. USE DEF server, informers, worker
<1>0. budget \in [Budgets -> Nat] /\ queue \subseteq Names /\ (pc # "idle" => cur \in Names)
  BY DEF ScaleInv, Shapes
<1>1. ASSUME NEW b \in Budgets, Spend(b) PROVE budget' \in [Budgets -> Nat]
  BY <1>1, SpendStep DEF ScaleInv
<1>2. ASSUME NEW n \in Names, ObserveCR(n) \/ ObservePods(n) \/ RunPods(n) PROVE ScaleInv'
  <2>1. dep[n] # None => IsDeployment(dep[n])
    BY DEF ScaleInv, Shapes
  <2>. QED
    BY <1>0, <1>2, <2>1, OtherStep DEF ObserveCR, ObservePods, RunPods
<1>3. ASSUME NEW n \in Names, ObserveDeployment(n) PROVE ScaleInv'
  <2>1. /\ seenDep' = [m \in Names |-> seenDep'[m]] /\ seenDep'[n] = dep[n]
        /\ \A m \in Names \ {n} : seenDep'[m] = seenDep[m]
    BY <1>3 DEF ObserveDeployment, ScaleInv, Shapes
  <2>2. Shapes'
    BY <1>0, <1>3, <2>1 DEF ObserveDeployment, ScaleInv, Shapes
  <2>3. CopiesAgree'
    BY <1>3, <2>1 DEF ObserveDeployment, ScaleInv, CopiesAgree, Agree
  <2>. QED
    BY <2>2, <2>3 DEF ScaleInv
<1>4. ASSUME NEW n \in Names, ReportStatus(n) PROVE ScaleInv'
  <2> DEFINE d == [dep[n] EXCEPT !.rv = NewVersion({dep[n], seenDep[n], found})]
  <2>1. IsDeployment(dep[n])
    BY <1>4 DEF ReportStatus, ScaleInv, Shapes
  <2>2. IsDeployment(d) /\ d.rv = NewVersion({dep[n], seenDep[n], found})
    BY <2>1, ReportedShape
  <2>3. dep' = [dep EXCEPT ![n] = d] /\ due' \subseteq due
        /\ UNCHANGED <<informers, queue, worker, budget>>
    BY <1>4 DEF ReportStatus
  <2> HIDE DEF d
  <2>. QED
    BY <1>0, <2>2, <2>3, NewVersionStep
<1>5. ASSUME NEW n \in Names, CollectGarbage(n) \/ DeleteDeployment(n) PROVE ScaleInv'
  BY <1>0, <1>1, <1>5, GoneStep DEF CollectGarbage, DeleteDeployment, Budgets
<1>6. ASSUME NEW n \in Names,
             DeleteCR(n) \/ \E size \in Sizes : CreateCR(n, size) \/ EditSize(n, size)
      PROVE ScaleInv'
  BY <1>0, <1>1, <1>6, OtherStep DEF CreateCR, EditSize, DeleteCR, Budgets
<1>7. ASSUME NEW n \in Names, NEW size \in HandSizes, ScaleByHand(n, size) PROVE ScaleInv'
  <2> DEFINE v == NewVersion({dep[n], seenDep[n], found})
             d == [dep[n] EXCEPT !.replicas = size, !.rv = v]
  <2>1. IsDeployment(dep[n])
    BY <1>7 DEF ScaleByHand, ScaleInv, Shapes
  <2>2. IsDeployment(d) /\ d.rv = v
    <3>1. d = Scaled(dep[n], size, v)
      BY DEF Scaled
    <3> HIDE DEF v, d
    <3>. QED
      BY <2>1, <3>1, ScaledShape
  <2>3. dep' = [dep EXCEPT ![n] = d] /\ UNCHANGED <<due, informers, queue, worker>>
    BY <1>7 DEF ScaleByHand
  <2>4. budget' \in [Budgets -> Nat]
    BY <1>1, <1>7 DEF ScaleByHand, Budgets
  <2> HIDE DEF d
  <2>. QED
    BY <1>0, <2>2, <2>3, <2>4, NewVersionStep
<1>8. ASSUME NEW n \in Names, LosePod(n) PROVE ScaleInv'
  <2>1. dep[n] # None => IsDeployment(dep[n])
    BY DEF ScaleInv, Shapes
  <2>. QED
    BY <1>0, <1>1, <1>8, <2>1, OtherStep DEF LosePod, Budgets
<1>. QED
  BY <1>2, <1>3, <1>4, <1>5, <1>6, <1>7, <1>8 DEF Observe, Controllers, Users

\* ScaleInv is inductive.
LEMMA ScaleStep == ScaleInv /\ [Next]_vars => ScaleInv'
<1>1. ASSUME ScaleInv, UNCHANGED vars PROVE ScaleInv'
  <2>1. UNCHANGED <<dep, due, seenDep, queue, pc, cur, found, budget>>
    BY <1>1 DEF vars, server, informers, worker
  <2>2. /\ due \subseteq {n \in Names : IsDeployment(dep[n])} /\ queue \subseteq Names
        /\ pc # "idle" => cur \in Names
        /\ budget \in [Budgets -> Nat]
    BY <1>1, Zenon DEF ScaleInv, Shapes
  <2>. QED
    BY <1>1, <2>1, <2>2, OtherStep
<1>. QED
  BY <1>1, WorkerStep, AroundStep DEF Next

-----------------------------------------------------------------------------
(* What is scaled has been read.                                            *)

\* The operator overwrites only a number of replicas it has read, however late
\* its informers are: an update that applies was made from the stored version,
\* and copies of one version agree.
THEOREM ScalesWhatItRead == Spec => NoBlindScaling
<1> DEFINE Seen == \A n \in Names :
                     dep[n] # None /\ dep'[n] # None /\ budget' = budget =>
                       (dep'[n].replicas # dep[n].replicas => dep[n].replicas = found.replicas)
<1>1. ASSUME ScaleInv, [Next]_vars PROVE Seen
  <2>. USE DEF server, informers, worker
  <2>1. CASE dep' = dep
    BY <2>1
  <2>2. CASE CreateDeployment
    BY <1>1, <2>2 DEF CreateDeployment, ScaleInv, Shapes
  <2>3. CASE ScaleDeployment
    <3>1. \A n \in Names \ {cur} : dep'[n] = dep[n]
      BY <1>1, <2>3 DEF ScaleDeployment, ScaleInv, Shapes
    <3>2. dep' # dep => dep[cur].replicas = found.replicas
      <4>1. SUFFICES ASSUME dep' # dep PROVE dep[cur].replicas = found.replicas
        OBVIOUS
      <4>2. /\ dep[cur] # None /\ dep[cur].uid = found.uid /\ dep[cur].rv = found.rv
            /\ pc = "scale"
        BY <2>3, <4>1 DEF ScaleDeployment
      <4>. QED
        BY <1>1, <4>2 DEF ScaleInv, CopiesAgree, Agree
    <3>. QED
      BY <3>1, <3>2
  <2>4. ASSUME NEW n \in Names, ReportStatus(n) PROVE Seen
    <3>1. IsDeployment(dep[n])
      BY <1>1, <2>4 DEF ReportStatus, ScaleInv, Shapes
    <3>2. [dep[n] EXCEPT !.rv = NewVersion({dep[n], seenDep[n], found})].replicas
            = dep[n].replicas
      BY <3>1, ReportedShape
    <3>3. dep'[n].replicas = dep[n].replicas /\ \A m \in Names \ {n} : dep'[m] = dep[m]
      BY <1>1, <2>4, <3>2 DEF ReportStatus, ScaleInv, Shapes
    <3>. QED
      BY <3>3
  <2>5. ASSUME NEW n \in Names, CollectGarbage(n) PROVE Seen
    BY <1>1, <2>5 DEF CollectGarbage, Removed, ScaleInv, Shapes
  <2>6. ASSUME NEW b \in Budgets, Spend(b) PROVE Seen
    BY <1>1, <2>6, SpendStep DEF ScaleInv
  <2>. QED
    BY <1>1, <2>1, <2>2, <2>3, <2>4, <2>5, <2>6 DEF Next, vars, Observe, Reconcile, Controllers,
       Users, GetCR, GetDeployment, ListPods, UpdateStatus, Fail, Dequeue, ObserveCR,
       ObserveDeployment, ObservePods, RunPods, CreateCR, EditSize, DeleteCR, DeleteDeployment,
       ScaleByHand, LosePod, Budgets
<1>2. ScaleInv /\ [Next]_vars => [Seen]_vars
  BY <1>1
<1>. QED
  BY <1>2, ScaleInit, ScaleStep, PTL DEF Spec, NoBlindScaling

-----------------------------------------------------------------------------
(* Copies of objects, and listings.                                         *)

\* NewVersion finds a version, for three copies and for two.
LEMMA NewVersionType ==
  ASSUME NEW a, NEW b, NEW c
  PROVE  NewVersion({a, b, c}) \in Versions /\ NewVersion({a, b}) \in Versions
<1>1. ASSUME NEW x, NEW y, NEW z
      PROVE  NewVersion({x, y, z}) \in Versions
  <2>1. \E v \in Versions : \A m \in {x, y, z} : m = None \/ m.rv # v
    <3> DEFINE i == x.rv
               j == y.rv
               k == z.rv
    <3>0. \E v \in Versions : v # i /\ v # j /\ v # k
      <4> HIDE DEF i, j, k
      <4>. QED
        BY VersionLeft
    <3>1. PICK v \in Versions : v # x.rv /\ v # y.rv /\ v # z.rv
      BY <3>0
    <3>. QED
      BY <3>1
  <2>. QED
    BY <2>1 DEF NewVersion
<1>2. {a, b} = {a, b, b}
  OBVIOUS
<1>. QED
  BY <1>1, <1>2

\* A new copy of a CR with another size, and one with other names of pods.
Resized(a, s, v) == [a EXCEPT !.size = s, !.rv = v]
Relisted(a, l, v) == [a EXCEPT !.nodes = l, !.rv = v]

\* A new copy of a CR has the type of CRs, and its new version.
LEMMA ResizedCR ==
  ASSUME NEW a \in CRType, NEW v \in Versions, NEW s \in Sizes
  PROVE  Resized(a, s, v) \in CRType /\ Resized(a, s, v).rv = v
<1> DEFINE e == [a EXCEPT !.size = s]
<1>1. e \in CRType
  BY DEF CRType
<1>2. Resized(a, s, v) = [e EXCEPT !.rv = v]
  BY DEF CRType, Resized
<1> HIDE DEF e
<1>. QED
  BY <1>1, <1>2 DEF CRType

\* The same of a copy with other names of pods.
LEMMA RelistedCR ==
  ASSUME NEW a \in CRType, NEW v \in Versions, NEW l \in Seq(Pods)
  PROVE  Relisted(a, l, v) \in CRType /\ Relisted(a, l, v).rv = v
<1> DEFINE e == [a EXCEPT !.nodes = l]
<1>1. e \in CRType
  BY DEF CRType
<1>2. Relisted(a, l, v) = [e EXCEPT !.rv = v]
  BY DEF CRType, Relisted
<1> HIDE DEF e
<1>. QED
  BY <1>1, <1>2 DEF CRType

\* A new copy of a Deployment has the type of Deployments, and its new version.
LEMMA NewDeploymentType ==
  ASSUME NEW d \in DeploymentType, NEW v \in Versions
  PROVE  [d EXCEPT !.rv = v] \in DeploymentType /\ [d EXCEPT !.rv = v].rv = v
BY DEF DeploymentType

\* So has one with another size.
LEMMA ScaledDeployment ==
  ASSUME NEW a \in DeploymentType, NEW v \in Versions, NEW s \in Sizes \cup HandSizes
  PROVE  Scaled(a, s, v) \in DeploymentType /\ Scaled(a, s, v).rv = v
<1> DEFINE e == [a EXCEPT !.replicas = s]
<1>1. e \in DeploymentType
  BY DEF DeploymentType
<1>2. Scaled(a, s, v) = [e EXCEPT !.rv = v]
  BY DEF DeploymentType, Scaled
<1> HIDE DEF e
<1>. QED
  BY <1>1, <1>2 DEF DeploymentType

\* A listing of a finite set of pods is a sequence that names all of them.
LEMMA NamesAreThePods ==
  ASSUME NEW S \in SUBSET Pods, IsFiniteSet(S), NEW names \in getPodNames(S)
  PROVE  names \in Seq(Pods) /\ Range(names) = S
<1> DEFINE k == Cardinality(S)
<1>1. k \in Nat
  BY FS_CardinalityType
<1>2. names \in [1 .. k -> S] /\ \A i, j \in 1 .. k : i # j => names[i] # names[j]
  BY DEF getPodNames, SetToSeqs
<1>3. names \in Injection(1 .. k, S)
  BY <1>2 DEF Injection, IsInjective
<1>4. Cardinality(1 .. k) = k
  <2>1. 1 \in Int /\ k \in Int /\ (1 > k => k = 0) /\ k - 1 + 1 = k
    BY <1>1
  <2> HIDE DEF k
  <2>. QED
    BY <2>1, FS_Interval
<1>5. names \in Surjection(1 .. k, S)
  BY <1>3, <1>4, FS_Injection
<1>6. Range(names) = S
  BY <1>2, <1>5 DEF Surjection, Range
<1>7. names \in Seq(S)
  <2> HIDE DEF k
  <2>. QED
    BY <1>1, <1>2
<1>. QED
  BY <1>6, <1>7

-----------------------------------------------------------------------------
(* The types.                                                               *)

\* The types, and the sets of pods are finite.
TypeInv == TypeOK /\ \A n \in Names : IsFiniteSet(pods[n]) /\ IsFiniteSet(seenPods[n])

\* TypeInv holds at first.
LEMMA TypeInit == Init => TypeInv
<1> SUFFICES ASSUME Init PROVE TypeInv
  OBVIOUS
<1>1. IsFiniteSet({})
  BY FS_EmptySet
<1>2. \A n \in Names : cr[n] = None /\ dep[n] = None /\ pods[n] = {} /\ seenPods[n] = {}
  BY DEF Init
<1>3. listed \in Seq(Pods)
  BY DEF Init
<1>4. budget \in [Budgets -> Nat]
  BY LimitsAssumption DEF Init
<1>5. due = {} /\ queue = {} /\ pc = "idle" /\ cur = None /\ snap = None /\ found = None
  BY DEF Init
<1>6. /\ cr \in [Names -> CRType \cup {None}] /\ seenCR \in [Names -> CRType \cup {None}]
      /\ dep \in [Names -> DeploymentType \cup {None}]
      /\ seenDep \in [Names -> DeploymentType \cup {None}]
      /\ pods \in [Names -> SUBSET Pods] /\ seenPods \in [Names -> SUBSET Pods]
  BY DEF Init
<1>. QED
  BY <1>1, <1>2, <1>3, <1>4, <1>5, <1>6 DEF TypeInv, TypeOK

\* The types give the shapes.
LEMMA TypeShapes == TypeOK => Shapes
BY DEF TypeOK, Shapes, IsDeployment, DeploymentType

\* A step changes the type of nothing when each variable it changes keeps its own.
LEMMA ServerTypes ==
  ASSUME TypeInv, UNCHANGED <<pods, seenPods, worker>>, queue' \subseteq Names,
         cr' \in [Names -> CRType \cup {None}], seenCR' \in [Names -> CRType \cup {None}],
         dep' \in [Names -> DeploymentType \cup {None}],
         seenDep' \in [Names -> DeploymentType \cup {None}],
         due' \subseteq {n \in Names : dep'[n] # None},
         budget' \in [Budgets -> Nat]
  PROVE  TypeInv'
BY DEF TypeInv, TypeOK, worker

\* The worker returns.
LEMMA ReturnTypes ==
  ASSUME TypeInv, NEW q, q \subseteq Names, Done(q), UNCHANGED <<informers, pods>>,
         cr' \in [Names -> CRType \cup {None}],
         dep' \in [Names -> DeploymentType \cup {None}],
         due' \subseteq {n \in Names : dep'[n] # None},
         budget' \in [Budgets -> Nat]
  PROVE  TypeInv'
<1>1. <<>> \in Seq(Pods)
  OBVIOUS
<1>2. /\ queue' \subseteq Names /\ pc' = "idle" /\ cur' = None /\ snap' = None
      /\ found' = None /\ listed' \in Seq(Pods)
      /\ UNCHANGED <<seenCR, seenDep, seenPods, pods>>
  BY <1>1 DEF Done, informers
<1>. QED
  BY <1>2 DEF TypeInv, TypeOK

\* The worker keeps the types.
LEMMA WorkerTypes ==
  ASSUME TypeInv, Reconcile \/ Fail \/ \E n \in Names : Dequeue(n)
  PROVE  TypeInv'
<1>. USE DEF server, informers, worker
<1>0. /\ budget \in [Budgets -> Nat] /\ queue \subseteq Names
      /\ cr \in [Names -> CRType \cup {None}] /\ seenCR \in [Names -> CRType \cup {None}]
      /\ dep \in [Names -> DeploymentType \cup {None}]
      /\ seenDep \in [Names -> DeploymentType \cup {None}]
      /\ due \subseteq {n \in Names : dep[n] # None}
  BY DEF TypeInv, TypeOK
<1>1. ASSUME pc # "idle" PROVE cur \in Names /\ queue \cup {cur} \subseteq Names
  BY <1>1 DEF TypeInv, TypeOK
<1>2. CASE GetCR
  <2>1. CASE Return /\ UNCHANGED <<server, informers, budget>>
    BY <1>0, <2>1, ReturnTypes DEF Return
  <2>2. CASE ~(Return /\ UNCHANGED <<server, informers, budget>>)
    <3>1. pc' = "dep" /\ snap' = seenCR[cur] /\ snap' # None /\ pc = "get"
          /\ UNCHANGED <<server, informers, budget, cur, found, listed, queue>>
      BY <1>2, <2>2 DEF GetCR
    <3>2. cur \in Names /\ snap' \in CRType
      BY <1>0, <1>1, <3>1
    <3>3. found = None
      BY <3>1 DEF TypeInv, TypeOK
    <3>. QED
      BY <3>1, <3>2, <3>3 DEF TypeInv, TypeOK
  <2>. QED
    BY <2>1, <2>2
<1>3. CASE CreateDeployment
  <2>0. pc = "dep" /\ Done(queue \cup {cur}) /\ UNCHANGED <<cr, pods, informers, budget>>
    BY <1>3 DEF CreateDeployment, Requeue
  <2>1. CASE dep[cur] = None
    <3>1. deploymentForMemcached(snap) \in DeploymentType
      <4>1. snap \in CRType
        BY <2>0 DEF TypeInv, TypeOK
      <4>2. snap.uid \in Nat /\ snap.size \in Sizes
        BY <4>1 DEF CRType
      <4> DEFINE v == NewVersion({dep[cur], seenDep[cur]})
      <4>3. v \in Versions
        BY NewVersionType, Zenon
      <4>4. deploymentForMemcached(snap)
              = [uid |-> snap.uid, owned |-> TRUE, replicas |-> snap.size, rv |-> v]
        BY DEF deploymentForMemcached
      <4> HIDE DEF v
      <4>. QED
        BY <4>2, <4>3, <4>4 DEF DeploymentType
    <3> DEFINE d == deploymentForMemcached(snap)
    <3>2. dep' = [dep EXCEPT ![cur] = d] /\ due' = due \cup {cur}
      BY <1>3, <2>1 DEF CreateDeployment
    <3>3. d \in DeploymentType /\ d # None /\ cur \in Names
      BY <1>1, <2>0, <3>1, NoneAssumption
    <3> HIDE DEF d
    <3>4. /\ dep' \in [Names -> DeploymentType \cup {None}]
          /\ due' \subseteq {n \in Names : dep'[n] # None}
      BY <1>0, <3>2, <3>3
    <3>. QED
      BY <1>0, <1>1, <2>0, <3>4, ReturnTypes
  <2>2. CASE dep[cur] # None
    <3>1. UNCHANGED <<dep, due>>
      BY <1>3, <2>2 DEF CreateDeployment
    <3>. QED
      BY <1>0, <1>1, <2>0, <3>1, ReturnTypes
  <2>. QED
    BY <2>1, <2>2
<1>4. CASE GetDeployment
  <2>1. /\ pc = "dep" /\ pc' \in {"scale", "list"} /\ found' = seenDep[cur] /\ found' # None
        /\ UNCHANGED <<server, informers, cur, snap, listed, queue, budget>>
    BY <1>4 DEF GetDeployment
  <2>2. cur \in Names /\ found' \in DeploymentType /\ snap \in CRType
    BY <1>0, <1>1, <2>1 DEF TypeInv, TypeOK
  <2>. QED
    BY <2>1, <2>2 DEF TypeInv, TypeOK
<1>5. CASE ScaleDeployment
  <2>0. /\ pc = "scale" /\ Done(queue \cup {cur})
        /\ UNCHANGED <<cr, pods, due, informers, budget>>
    BY <1>5 DEF ScaleDeployment, Requeue
  <2>1. CASE dep' = dep
    BY <1>0, <1>1, <2>0, <2>1, ReturnTypes
  <2>2. CASE dep' # dep
    <3> DEFINE v == NewVersion({dep[cur], seenDep[cur], found})
               r == snap.size
               d == [found EXCEPT !.replicas = r, !.rv = v]
    <3>1. dep' = [dep EXCEPT ![cur] = d]
      BY <1>5, <2>2 DEF ScaleDeployment
    <3>2. found \in DeploymentType /\ snap \in CRType
      BY <2>0 DEF TypeInv, TypeOK
    <3>3. d \in DeploymentType
      <4>1. r \in Sizes \cup HandSizes
        BY <3>2 DEF CRType
      <4>2. v \in Versions
        BY NewVersionType, Zenon
      <4>3. d = Scaled(found, r, v)
        BY DEF Scaled
      <4> HIDE DEF v, r, d
      <4>. QED
        BY <3>2, <4>1, <4>2, <4>3, ScaledDeployment
    <3> HIDE DEF d
    <3>4. d # None /\ cur \in Names
      BY <1>1, <2>0, <3>3, NoneAssumption
    <3>5. /\ dep' \in [Names -> DeploymentType \cup {None}]
          /\ due' \subseteq {n \in Names : dep'[n] # None}
      BY <1>0, <2>0, <3>1, <3>3, <3>4
    <3>. QED
      BY <1>0, <1>1, <2>0, <3>5, ReturnTypes
  <2>. QED
    BY <2>1, <2>2
<1>6. CASE ListPods
  <2>1. PICK names \in getPodNames(seenPods[cur]) :
          IF names = snap.nodes
          THEN Return
          ELSE pc' = "status" /\ listed' = names /\ UNCHANGED <<cur, snap, found, queue>>
    BY <1>6 DEF ListPods
  <2>2. pc = "list" /\ UNCHANGED <<server, informers, budget>>
    BY <1>6 DEF ListPods
  <2>3. CASE names = snap.nodes
    BY <1>0, <2>1, <2>2, <2>3, ReturnTypes DEF Return
  <2>4. CASE names # snap.nodes
    <3>1. pc' = "status" /\ listed' = names /\ UNCHANGED <<cur, snap, found, queue>>
      BY <2>1, <2>4
    <3>2. /\ cur \in Names /\ snap \in CRType /\ found \in DeploymentType
      BY <2>2 DEF TypeInv, TypeOK
    <3>3. names \in Seq(Pods)
      <4>1. seenPods[cur] \in SUBSET Pods /\ IsFiniteSet(seenPods[cur])
        BY <3>2 DEF TypeInv, TypeOK
      <4> DEFINE S == seenPods[cur]
      <4>2. names \in getPodNames(S) /\ S \in SUBSET Pods /\ IsFiniteSet(S)
        BY <4>1
      <4> HIDE DEF S
      <4>. QED
        BY <4>2, NamesAreThePods
    <3>. QED
      BY <2>2, <3>1, <3>2, <3>3 DEF TypeInv, TypeOK
  <2>. QED
    BY <2>3, <2>4
<1>7. CASE UpdateStatus
  <2>0. /\ pc = "status" /\ UNCHANGED <<dep, pods, due, informers, budget>>
        /\ Done(queue) \/ Done(queue \cup {cur})
    BY <1>7 DEF UpdateStatus, Return, Requeue
  <2>1. CASE cr' = cr
    BY <1>0, <1>1, <2>0, <2>1, ReturnTypes
  <2>2. CASE cr' # cr
    <3> DEFINE v == NewVersion({cr[cur], seenCR[cur], snap})
               c == [snap EXCEPT !.nodes = listed, !.rv = v]
    <3>1. cr' = [cr EXCEPT ![cur] = c]
      BY <1>7, <2>2 DEF UpdateStatus
    <3>2. snap \in CRType /\ listed \in Seq(Pods)
      BY <2>0 DEF TypeInv, TypeOK
    <3>3. v \in Versions
      BY NewVersionType, Zenon
    <3>4. c \in CRType
      <4>1. c = Relisted(snap, listed, v)
        BY DEF Relisted
      <4> HIDE DEF v, c
      <4>. QED
        BY <3>2, <3>3, <4>1, RelistedCR
    <3> HIDE DEF c
    <3>5. cr' \in [Names -> CRType \cup {None}]
      BY <1>0, <3>1, <3>4
    <3>. QED
      BY <1>0, <1>1, <2>0, <3>5, ReturnTypes
  <2>. QED
    BY <2>1, <2>2
<1>8. CASE Fail
  <2>1. budget' \in [Budgets -> Nat]
    BY <1>8, SpendStep, TypeShapes DEF Fail, Budgets, TypeInv
  <2>. QED
    BY <1>0, <1>1, <1>8, <2>1, ReturnTypes DEF Fail, Requeue
<1>9. ASSUME NEW n \in Names, Dequeue(n) PROVE TypeInv'
  <2>1. /\ pc = "idle" /\ pc' = "get" /\ cur' = n /\ queue' = queue \ {n}
        /\ UNCHANGED <<server, informers, snap, found, listed, budget>>
    BY <1>9 DEF Dequeue
  <2>. QED
    BY <2>1 DEF TypeInv, TypeOK
<1>. QED
  BY <1>2, <1>3, <1>4, <1>5, <1>6, <1>7, <1>8, <1>9 DEF Reconcile

\* So does everything around it.
LEMMA AroundTypes ==
  ASSUME TypeInv, Observe \/ Controllers \/ Users
  PROVE  TypeInv'
<1>. USE DEF server, informers
<1>0. /\ budget \in [Budgets -> Nat] /\ queue \subseteq Names
      /\ cr \in [Names -> CRType \cup {None}] /\ seenCR \in [Names -> CRType \cup {None}]
      /\ dep \in [Names -> DeploymentType \cup {None}]
      /\ seenDep \in [Names -> DeploymentType \cup {None}]
      /\ due \subseteq {n \in Names : dep[n] # None}
  BY DEF TypeInv, TypeOK
<1>1. ASSUME NEW b \in Budgets, Spend(b) PROVE budget' \in [Budgets -> Nat]
  BY <1>1, SpendStep, TypeShapes DEF TypeInv
<1>2. ASSUME NEW n \in Names, NEW c \in CRType \cup {None}, cr' = [cr EXCEPT ![n] = c],
             UNCHANGED <<dep, pods, due, informers, queue, worker>>,
             budget' \in [Budgets -> Nat]
      PROVE  TypeInv'
  <2>1. cr' \in [Names -> CRType \cup {None}]
    BY <1>0, <1>2
  <2>. QED
    BY <1>0, <1>2, <2>1, ServerTypes
<1>3. ASSUME NEW n \in Names, NEW d \in DeploymentType, dep' = [dep EXCEPT ![n] = d],
             due' \subseteq due,
             UNCHANGED <<cr, pods, informers, queue, worker>>,
             budget' \in [Budgets -> Nat]
      PROVE  TypeInv'
  <2>1. /\ dep' \in [Names -> DeploymentType \cup {None}]
        /\ due' \subseteq {m \in Names : dep'[m] # None}
    BY <1>0, <1>3, NoneAssumption
  <2>. QED
    BY <1>0, <1>3, <2>1, ServerTypes
<1>4. ASSUME NEW n \in Names, Removed(n), UNCHANGED <<cr, pods, informers, queue, worker>>,
             budget' \in [Budgets -> Nat]
      PROVE  TypeInv'
  <2>1. /\ dep' \in [Names -> DeploymentType \cup {None}]
        /\ due' \subseteq {m \in Names : dep'[m] # None}
    BY <1>0, <1>4 DEF Removed
  <2>. QED
    BY <1>0, <1>4, <2>1, ServerTypes
<1>5. ASSUME NEW n \in Names, NEW P \in SUBSET Pods, IsFiniteSet(P),
             pods' = [pods EXCEPT ![n] = P],
             due' = (IF dep[n] # None THEN due \cup {n} ELSE due),
             UNCHANGED <<cr, dep, informers, queue, worker>>,
             budget' \in [Budgets -> Nat]
      PROVE  TypeInv'
  <2>1. /\ pods' \in [Names -> SUBSET Pods] /\ \A m \in Names : IsFiniteSet(pods'[m])
        /\ due' \subseteq {m \in Names : dep[m] # None}
    BY <1>0, <1>5 DEF TypeInv, TypeOK
  <2>. QED
    BY <1>5, <2>1 DEF TypeInv, TypeOK, worker
<1>6. ASSUME NEW n \in Names, ObserveCR(n) PROVE TypeInv'
  <2>1. seenCR' \in [Names -> CRType \cup {None}] /\ queue' \subseteq Names
    BY <1>0, <1>6 DEF ObserveCR
  <2>. QED
    BY <1>0, <1>6, <2>1, ServerTypes DEF ObserveCR
<1>7. ASSUME NEW n \in Names, ObserveDeployment(n) PROVE TypeInv'
  <2>1. seenDep' \in [Names -> DeploymentType \cup {None}] /\ queue' \subseteq Names
    BY <1>0, <1>7 DEF ObserveDeployment
  <2>. QED
    BY <1>0, <1>7, <2>1, ServerTypes DEF ObserveDeployment
<1>8. ASSUME NEW n \in Names, ObservePods(n) PROVE TypeInv'
  <2>1. /\ seenPods' \in [Names -> SUBSET Pods]
        /\ \A m \in Names : IsFiniteSet(seenPods'[m])
    BY <1>8 DEF ObservePods, TypeInv, TypeOK
  <2>. QED
    BY <1>8, <2>1 DEF ObservePods, TypeInv, TypeOK, worker
<1>9. ASSUME NEW n \in Names, RunPods(n) PROVE TypeInv'
  <2>1. PICK p \in Pods : pods' = [pods EXCEPT ![n] = @ \cup {p}]
                          \/ pods' = [pods EXCEPT ![n] = @ \ {p}]
    BY <1>9 DEF RunPods, TypeInv, TypeOK
  <2> DEFINE P == pods[n]
             Q == P \cup {p}
             R == P \ {p}
  <2>2. P \in SUBSET Pods /\ IsFiniteSet(P)
    BY DEF TypeInv, TypeOK
  <2>3. pods' = [pods EXCEPT ![n] = Q] \/ pods' = [pods EXCEPT ![n] = R]
    BY <2>1
  <2>4. IsFiniteSet(Q) /\ IsFiniteSet(R)
    <3> HIDE DEF P
    <3>. QED
      BY <2>2, FS_AddElement, FS_RemoveElement
  <2>5. Q \in SUBSET Pods /\ R \in SUBSET Pods
    BY <2>2
  <2>6. /\ due' = (IF dep[n] # None THEN due \cup {n} ELSE due)
        /\ UNCHANGED <<cr, dep, informers, queue, worker, budget>>
    BY <1>9 DEF RunPods
  <2> HIDE DEF P, Q, R
  <2>. QED
    BY <1>0, <1>5, <2>3, <2>4, <2>5, <2>6
<1>10. ASSUME NEW n \in Names, LosePod(n) PROVE TypeInv'
  <2>1. PICK p \in pods[n] : pods' = [pods EXCEPT ![n] = @ \ {p}]
    BY <1>10 DEF LosePod
  <2> DEFINE P == pods[n]
             R == P \ {p}
  <2>2. P \in SUBSET Pods /\ IsFiniteSet(P)
    BY DEF TypeInv, TypeOK
  <2>3. pods' = [pods EXCEPT ![n] = R]
    BY <2>1
  <2>4. IsFiniteSet(R)
    <3> HIDE DEF P
    <3>. QED
      BY <2>2, FS_RemoveElement
  <2>5. R \in SUBSET Pods
    BY <2>2
  <2>6. /\ due' = (IF dep[n] # None THEN due \cup {n} ELSE due)
        /\ UNCHANGED <<cr, dep, informers, queue, worker>>
    BY <1>10 DEF LosePod
  <2>7. budget' \in [Budgets -> Nat]
    BY <1>1, <1>10 DEF LosePod, Budgets
  <2> HIDE DEF P, R
  <2>. QED
    BY <1>5, <2>3, <2>4, <2>5, <2>6, <2>7
<1>11. ASSUME NEW n \in Names, ReportStatus(n) PROVE TypeInv'
  <2> DEFINE v == NewVersion({dep[n], seenDep[n], found})
             d == [dep[n] EXCEPT !.rv = v]
  <2>1. dep[n] \in DeploymentType
    BY <1>0, <1>11 DEF ReportStatus
  <2>2. v \in Versions
    BY NewVersionType, Zenon
  <2>3. d \in DeploymentType
    <3> HIDE DEF v
    <3>. QED
      BY <2>1, <2>2, NewDeploymentType
  <2>4. dep' = [dep EXCEPT ![n] = d] /\ due' \subseteq due
        /\ UNCHANGED <<cr, pods, informers, queue, worker, budget>>
    BY <1>11 DEF ReportStatus
  <2> HIDE DEF d
  <2>. QED
    BY <1>0, <1>3, <2>3, <2>4
<1>12. ASSUME NEW n \in Names, CollectGarbage(n) \/ DeleteDeployment(n) PROVE TypeInv'
  BY <1>0, <1>1, <1>4, <1>12 DEF CollectGarbage, DeleteDeployment, Budgets
<1>13. ASSUME NEW n \in Names, DeleteCR(n) PROVE TypeInv'
  BY <1>1, <1>2, <1>13 DEF DeleteCR, Budgets
<1>14. ASSUME NEW n \in Names, NEW size \in Sizes, CreateCR(n, size) PROVE TypeInv'
  <2> DEFINE v == NewVersion({seenCR[n], snap})
             u == budget["create"]
             c == [uid |-> u, size |-> size, nodes |-> <<>>, rv |-> v]
  <2>1. cr' = [cr EXCEPT ![n] = c] /\ UNCHANGED <<dep, pods, due, informers, queue, worker>>
    BY <1>14 DEF CreateCR
  <2>2. budget' \in [Budgets -> Nat] /\ u \in Nat
    BY <1>0, <1>1, <1>14 DEF CreateCR, Budgets
  <2>3. v \in Versions
    BY NewVersionType, Zenon
  <2>4. c \in CRType
    <3> HIDE DEF v, u
    <3>1. <<>> \in Seq(Pods)
      OBVIOUS
    <3>. QED
      BY <2>2, <2>3, <3>1 DEF CRType
  <2> HIDE DEF c
  <2>. QED
    BY <1>2, <2>1, <2>2, <2>4
<1>15. ASSUME NEW n \in Names, NEW size \in Sizes, EditSize(n, size) PROVE TypeInv'
  <2> DEFINE v == NewVersion({cr[n], seenCR[n], snap})
             a == cr[n]
             c == [a EXCEPT !.size = size, !.rv = v]
  <2>1. cr' = [cr EXCEPT ![n] = c] /\ UNCHANGED <<dep, pods, due, informers, queue, worker>>
    BY <1>15 DEF EditSize
  <2>2. budget' \in [Budgets -> Nat] /\ a \in CRType
    BY <1>0, <1>1, <1>15 DEF EditSize, Budgets
  <2>3. v \in Versions
    BY NewVersionType, Zenon
  <2>4. c \in CRType
    <3>1. c = Resized(a, size, v)
      BY DEF Resized
    <3> HIDE DEF v, a, c
    <3>. QED
      BY <2>2, <2>3, <3>1, ResizedCR
  <2> HIDE DEF c
  <2>. QED
    BY <1>2, <2>1, <2>2, <2>4
<1>16. ASSUME NEW n \in Names, NEW size \in HandSizes, ScaleByHand(n, size) PROVE TypeInv'
  <2> DEFINE v == NewVersion({dep[n], seenDep[n], found})
             a == dep[n]
             d == [a EXCEPT !.replicas = size, !.rv = v]
  <2>1. dep' = [dep EXCEPT ![n] = d] /\ UNCHANGED <<cr, pods, due, informers, queue, worker>>
    BY <1>16 DEF ScaleByHand
  <2>2. budget' \in [Budgets -> Nat] /\ a \in DeploymentType
    BY <1>0, <1>1, <1>16 DEF ScaleByHand, Budgets
  <2>3. v \in Versions
    BY NewVersionType, Zenon
  <2>4. d \in DeploymentType
    <3>1. d = Scaled(a, size, v)
      BY DEF Scaled
    <3> HIDE DEF v, a, d
    <3>. QED
      BY <2>2, <2>3, <3>1, ScaledDeployment
  <2> HIDE DEF d
  <2>. QED
    BY <1>3, <2>1, <2>2, <2>4
<1>. QED
  BY <1>6, <1>7, <1>8, <1>9, <1>10, <1>11, <1>12, <1>13, <1>14, <1>15, <1>16
     DEF Observe, Controllers, Users

\* TypeInv is inductive.
LEMMA TypeStep == TypeInv /\ [Next]_vars => TypeInv'
<1>1. ASSUME TypeInv, UNCHANGED vars PROVE TypeInv'
  BY <1>1, ServerTypes DEF vars, server, informers, TypeInv, TypeOK
<1>. QED
  BY <1>1, WorkerTypes, AroundTypes DEF Next

\* The variables keep their types.
THEOREM TypeCorrect == Spec => []TypeOK
<1>1. TypeInv => TypeOK
  BY DEF TypeInv
<1>. QED
  BY <1>1, TypeInit, TypeStep, PTL DEF Spec

-----------------------------------------------------------------------------
(* The status at rest.                                                      *)

\* Something is left that wakes the operator for n.
Pending(n) == n \in queue \/ n \in due \/ seenCR[n] # cr[n] \/ seenDep[n] # dep[n]

\* The worker is about to look at n, or has n in hand with the CR as it is stored
\* and, if it has listed them, the pods as they are.
InHand(n) ==
  /\ pc # "idle" /\ cur = n
  /\ pc = "get" \/ snap = cr[n]
  /\ pc = "status" => Range(listed) = pods[n]

\* Whenever the status of n is out of date, the operator has not yet seen or not yet
\* done something.
Rest(n) ==
  cr[n] # None /\ dep[n] # None => Pending(n) \/ InHand(n) \/ Range(cr[n].nodes) = pods[n]

RestInv == \A n \in Names : Rest(n)

\* What has a new version differs from the copies it was told apart from.
LEMMA NewVersionDiffers ==
  ASSUME NEW a, NEW b, NEW c, NEW x, x.rv = NewVersion({a, b, c}), x # None
  PROVE  a # x /\ b # x
<1>1. \A m \in {a, b, c} : m = None \/ m.rv # NewVersion({a, b, c})
  BY VersionIsNew, Zenon
<1> DEFINE v == NewVersion({a, b, c})
<1>2. (a = None \/ a.rv # v) /\ (b = None \/ b.rv # v) /\ x.rv = v
  BY <1>1
<1> HIDE DEF v
<1>. QED
  BY <1>2

\* A name that a step leaves alone stays as it is.
LEMMA RestAlone ==
  ASSUME NEW n \in Names, Rest(n),
         cr'[n] = cr[n], dep'[n] = dep[n], pods'[n] = pods[n],
         seenCR'[n] = seenCR[n], seenDep'[n] = seenDep[n],
         n \in queue => n \in queue', n \in due => n \in due',
         cur # n \/ pc = "idle" \/ UNCHANGED worker
  PROVE  Rest(n)'
BY DEF Rest, Pending, InHand, worker

\* A step after which the operator has yet to be woken.
LEMMA RestPending ==
  ASSUME NEW n \in Names,
         \/ n \in queue' \/ n \in due' \/ seenCR'[n] # cr'[n] \/ seenDep'[n] # dep'[n]
         \/ cr'[n] = None \/ dep'[n] = None
  PROVE  Rest(n)'
BY DEF Rest, Pending

\* The worker keeps RestInv when the pods it lists are those there are.
LEMMA WorkerRests ==
  ASSUME TypeInv, RestInv, seenPods = pods,
         Reconcile \/ Fail \/ \E n \in Names : Dequeue(n)
  PROVE  RestInv'
<1>. USE DEF server, informers
<1>0. /\ cr \in [Names -> CRType \cup {None}] /\ dep \in [Names -> DeploymentType \cup {None}]
      /\ pc # "idle" => cur \in Names
      /\ \A n \in Names : Rest(n)
  BY DEF TypeInv, TypeOK, RestInv
<1>1. ASSUME NEW k \in Names, k = cur, queue \subseteq queue', due \subseteq due',
             UNCHANGED <<pods, informers>>,
             \A n \in Names \ {k} : cr'[n] = cr[n] /\ dep'[n] = dep[n],
             Rest(k)'
      PROVE  RestInv'
  <2>1. \A n \in Names \ {k} : Rest(n)'
    BY <1>0, <1>1, RestAlone
  <2>. QED
    BY <1>1, <2>1 DEF RestInv
<1>2. CASE GetCR
  <2>0. PICK k \in Names : k = cur /\ pc # "idle"
    BY <1>0, <1>2 DEF GetCR
  <2>1. /\ pc = "get" /\ cur \in Names /\ queue' = queue
        /\ UNCHANGED <<server, informers, budget>>
    BY <1>0, <1>2 DEF GetCR, Return, Done
  <2>2. CASE seenCR[cur] # cr[cur] \/ cr[cur] = None
    <3>1. Rest(k)'
      BY <2>0, <2>1, <2>2, RestPending
    <3>. QED
      BY <1>1, <2>0, <2>1, <3>1
  <2>3. CASE seenCR[cur] = cr[cur] /\ cr[cur] # None
    <3>1. pc' = "dep" /\ cur' = cur /\ snap' = cr[cur]
      BY <1>2, <2>3 DEF GetCR
    <3>2. Rest(k)'
      BY <2>0, <2>1, <3>1 DEF Rest, InHand
    <3>. QED
      BY <1>1, <2>0, <2>1, <3>2
  <2>. QED
    BY <2>2, <2>3
<1>3. CASE CreateDeployment \/ ScaleDeployment \/ Fail
  <2>0. PICK k \in Names : k = cur /\ pc # "idle"
    BY <1>0, <1>3 DEF CreateDeployment, ScaleDeployment, Fail
  <2>1. /\ cur \in Names /\ queue' = queue \cup {cur} /\ due \subseteq due'
        /\ UNCHANGED <<pods, informers>>
    BY <1>0, <1>3 DEF CreateDeployment, ScaleDeployment, Fail, Requeue, Done
  <2>2. \A n \in Names \ {cur} : cr'[n] = cr[n] /\ dep'[n] = dep[n]
    BY <1>0, <1>3 DEF CreateDeployment, ScaleDeployment, Fail
  <2>3. Rest(k)'
    BY <2>0, <2>1, RestPending
  <2>. QED
    BY <1>1, <2>0, <2>1, <2>2, <2>3
<1>4. CASE GetDeployment
  <2>0. PICK k \in Names : k = cur /\ pc # "idle"
    BY <1>0, <1>4 DEF GetDeployment
  <2>1. /\ pc = "dep" /\ pc' \in {"scale", "list"} /\ cur \in Names
        /\ UNCHANGED <<server, informers, cur, snap, queue>>
    BY <1>0, <1>4 DEF GetDeployment
  <2>2. Rest(k)'
    BY <2>0, <1>0, <2>1 DEF Rest, Pending, InHand
  <2>. QED
    BY <1>1, <2>0, <2>1, <2>2
<1>5. CASE ListPods
  <2>0. PICK k \in Names : k = cur /\ pc # "idle"
    BY <1>0, <1>5 DEF ListPods
  <2>1. PICK names \in getPodNames(seenPods[cur]) :
          IF names = snap.nodes
          THEN Return
          ELSE pc' = "status" /\ listed' = names /\ UNCHANGED <<cur, snap, found, queue>>
    BY <1>5 DEF ListPods
  <2>2. /\ pc = "list" /\ cur \in Names /\ UNCHANGED <<server, informers, budget>>
    BY <1>0, <1>5 DEF ListPods
  <2>3. Range(names) = pods[cur]
    <3> DEFINE S == pods[cur]
    <3>1. S \in SUBSET Pods /\ IsFiniteSet(S) /\ names \in getPodNames(S)
      BY <2>1, <2>2 DEF TypeInv, TypeOK
    <3> HIDE DEF S
    <3>2. Range(names) = S
      BY <3>1, NamesAreThePods
    <3>. QED
      BY <3>2 DEF S
  <2>4. queue' = queue
    BY <2>1 DEF Return, Done
  <2>5. CASE ~InHand(cur)
    <3>1. Rest(k)'
      BY <2>0, <1>0, <2>2, <2>4, <2>5 DEF Rest, Pending
    <3>. QED
      BY <1>1, <2>0, <2>2, <2>4, <3>1
  <2>6. CASE InHand(cur)
    <3>1. snap = cr[cur]
      BY <2>2, <2>6 DEF InHand
    <3>2. CASE names = snap.nodes
      <4>1. Rest(k)'
        BY <2>0, <2>2, <2>3, <3>1, <3>2 DEF Rest
      <4>. QED
        BY <1>1, <2>0, <2>2, <2>4, <4>1
    <3>3. CASE names # snap.nodes
      <4>1. Rest(k)'
        BY <2>0, <2>1, <2>2, <2>3, <3>1, <3>3 DEF Rest, InHand
      <4>. QED
        BY <1>1, <2>0, <2>2, <2>4, <4>1
    <3>. QED
      BY <3>2, <3>3
  <2>. QED
    BY <2>5, <2>6
<1>6. CASE UpdateStatus
  <2>0. PICK k \in Names : k = cur /\ pc # "idle"
    BY <1>0, <1>6 DEF UpdateStatus
  <2>1. /\ pc = "status" /\ cur \in Names /\ queue \subseteq queue'
        /\ UNCHANGED <<dep, pods, due, informers>>
    BY <1>0, <1>6 DEF UpdateStatus, Return, Requeue, Done
  <2>2. CASE Requeue /\ UNCHANGED cr
    <3>1. Rest(k)'
      BY <2>0, <2>1, <2>2, RestPending DEF Requeue, Done
    <3>. QED
      BY <1>1, <2>0, <2>1, <2>2, <3>1
  <2>3. CASE ~(Requeue /\ UNCHANGED cr)
    <3> DEFINE v == NewVersion({cr[cur], seenCR[cur], snap})
               c == [snap EXCEPT !.nodes = listed, !.rv = v]
    <3>1. cr' = [cr EXCEPT ![cur] = c]
      BY <1>6, <2>3 DEF UpdateStatus
    <3>2. snap \in CRType /\ listed \in Seq(Pods)
      BY <2>1 DEF TypeInv, TypeOK
    <3>3. v \in Versions
      BY NewVersionType, Zenon
    <3>4. c \in CRType /\ c.rv = v
      <4>1. c = Relisted(snap, listed, v)
        BY DEF Relisted
      <4> HIDE DEF v, c
      <4>. QED
        BY <3>2, <3>3, <4>1, RelistedCR
    <3>5. seenCR[cur] # c
      <4>1. c # None /\ c.rv = NewVersion({cr[cur], seenCR[cur], snap})
        BY <3>4, NoneAssumption
      <4> DEFINE a == cr[cur]
                 b == seenCR[cur]
      <4>2. c # None /\ c.rv = NewVersion({a, b, snap})
        BY <4>1
      <4>3. b # c
        <5> HIDE DEF a, b, c
        <5>. QED
          BY <4>2, NewVersionDiffers
      <4>. QED
        BY <4>3
    <3> HIDE DEF c
    <3>6. cr'[cur] = c /\ \A n \in Names \ {cur} : cr'[n] = cr[n]
      BY <1>0, <2>1, <3>1
    <3>7. Rest(k)'
      BY <2>0, <2>1, <3>5, <3>6, RestPending
    <3>. QED
      BY <1>1, <2>0, <2>1, <3>6, <3>7
  <2>. QED
    BY <2>2, <2>3
<1>7. ASSUME NEW n \in Names, Dequeue(n) PROVE RestInv'
  <2>1. /\ pc = "idle" /\ pc' = "get" /\ cur' = n /\ queue' = queue \ {n}
        /\ UNCHANGED <<server, informers>>
    BY <1>7 DEF Dequeue
  <2>2. Rest(n)'
    BY <2>1 DEF Rest, InHand
  <2>3. \A m \in Names \ {n} : Rest(m)'
    BY <1>0, <2>1, RestAlone
  <2>. QED
    BY <2>2, <2>3 DEF RestInv
<1>. QED
  BY <1>2, <1>3, <1>4, <1>5, <1>6, <1>7 DEF Reconcile

\* So does everything around it: whatever makes the status out of date is followed
\* by an event.
LEMMA AroundRests ==
  ASSUME TypeInv, RestInv, Observe \/ Controllers \/ Users
  PROVE  RestInv'
<1>. USE DEF server, informers
<1>0. /\ cr \in [Names -> CRType \cup {None}] /\ seenCR \in [Names -> CRType \cup {None}]
      /\ dep \in [Names -> DeploymentType \cup {None}]
      /\ seenDep \in [Names -> DeploymentType \cup {None}]
      /\ pods \in [Names -> SUBSET Pods]
      /\ \A n \in Names : Rest(n)
  BY DEF TypeInv, TypeOK, RestInv
<1>1. ASSUME NEW n \in Names, UNCHANGED worker, queue \subseteq queue',
             due \subseteq due' \cup {n},
             \A m \in Names \ {n} : /\ cr'[m] = cr[m] /\ dep'[m] = dep[m]
                                    /\ pods'[m] = pods[m]
                                    /\ seenCR'[m] = seenCR[m] /\ seenDep'[m] = seenDep[m],
             Rest(n)'
      PROVE  RestInv'
  <2>1. \A m \in Names \ {n} : Rest(m)'
    BY <1>0, <1>1, RestAlone
  <2>. QED
    BY <1>1, <2>1 DEF RestInv
<1>2. ASSUME NEW n \in Names, ObserveCR(n) \/ ObserveDeployment(n) PROVE RestInv'
  <2>1. /\ UNCHANGED <<cr, dep, pods, due, worker>> /\ queue' = queue \cup {n}
        /\ \A m \in Names \ {n} : seenCR'[m] = seenCR[m] /\ seenDep'[m] = seenDep[m]
    BY <1>0, <1>2 DEF ObserveCR, ObserveDeployment
  <2>2. Rest(n)'
    BY <2>1, RestPending
  <2>. QED
    BY <1>1, <2>1, <2>2
<1>3. ASSUME NEW n \in Names, ObservePods(n) PROVE RestInv'
  BY <1>0, <1>1, <1>3, RestAlone DEF ObservePods
<1>4. ASSUME NEW n \in Names, RunPods(n) \/ LosePod(n) PROVE RestInv'
  <2>1. /\ due' = (IF dep[n] # None THEN due \cup {n} ELSE due)
        /\ UNCHANGED <<cr, dep, informers, queue, worker>>
        /\ \A m \in Names \ {n} : pods'[m] = pods[m]
    BY <1>0, <1>4 DEF RunPods, LosePod
  <2>2. Rest(n)'
    BY <2>1, RestPending
  <2>. QED
    BY <1>1, <2>1, <2>2
<1>5. ASSUME NEW n \in Names, CollectGarbage(n) \/ DeleteDeployment(n) PROVE RestInv'
  <2>1. /\ dep'[n] = None /\ due' = due \ {n} /\ UNCHANGED <<cr, pods, informers, queue, worker>>
        /\ \A m \in Names \ {n} : dep'[m] = dep[m]
    BY <1>0, <1>5 DEF CollectGarbage, DeleteDeployment, Removed
  <2>2. Rest(n)'
    BY <2>1, RestPending
  <2>. QED
    BY <1>1, <2>1, <2>2
<1>6. ASSUME NEW n \in Names, DeleteCR(n) PROVE RestInv'
  <2>1. /\ cr'[n] = None /\ UNCHANGED <<dep, pods, due, informers, queue, worker>>
        /\ \A m \in Names \ {n} : cr'[m] = cr[m]
    BY <1>0, <1>6 DEF DeleteCR
  <2>2. Rest(n)'
    BY <2>1, RestPending
  <2>. QED
    BY <1>1, <2>1, <2>2
<1>7. ASSUME NEW n \in Names, NEW c \in CRType, cr' = [cr EXCEPT ![n] = c], seenCR[n] # c,
             UNCHANGED <<dep, pods, due, informers, queue, worker>>
      PROVE  RestInv'
  <2>1. cr'[n] = c /\ \A m \in Names \ {n} : cr'[m] = cr[m]
    BY <1>0, <1>7
  <2>2. Rest(n)'
    BY <1>7, <2>1, RestPending
  <2>. QED
    BY <1>1, <1>7, <2>1, <2>2
<1>8. ASSUME NEW n \in Names, NEW d \in DeploymentType, dep' = [dep EXCEPT ![n] = d],
             seenDep[n] # d, due \subseteq due' \cup {n},
             UNCHANGED <<cr, pods, informers, queue, worker>>
      PROVE  RestInv'
  <2>1. dep'[n] = d /\ \A m \in Names \ {n} : dep'[m] = dep[m]
    BY <1>0, <1>8
  <2>2. Rest(n)'
    BY <1>8, <2>1, RestPending
  <2>. QED
    BY <1>1, <1>8, <2>1, <2>2
<1>9. ASSUME NEW n \in Names, NEW size \in Sizes, CreateCR(n, size) PROVE RestInv'
  <2> DEFINE v == NewVersion({seenCR[n], snap})
             u == budget["create"]
             c == [uid |-> u, size |-> size, nodes |-> <<>>, rv |-> v]
             b == seenCR[n]
  <2>1. cr' = [cr EXCEPT ![n] = c] /\ UNCHANGED <<dep, pods, due, informers, queue, worker>>
    BY <1>9 DEF CreateCR
  <2>2. u \in Nat
    BY DEF TypeInv, TypeOK, Budgets
  <2>3. v \in Versions /\ v = NewVersion({b, b, snap})
    <3>1. {b, snap} = {b, b, snap}
      OBVIOUS
    <3>. QED
      BY <3>1, NewVersionType, Zenon
  <2>4. c \in CRType /\ c.rv = v
    <3> HIDE DEF v, u
    <3>1. <<>> \in Seq(Pods)
      OBVIOUS
    <3>. QED
      BY <2>2, <2>3, <3>1 DEF CRType
  <2>5. b # c
    <3>1. c # None /\ c.rv = NewVersion({b, b, snap})
      BY <2>3, <2>4, NoneAssumption
    <3> HIDE DEF b, c
    <3>. QED
      BY <3>1, NewVersionDiffers
  <2> HIDE DEF c
  <2>. QED
    BY <1>7, <2>1, <2>4, <2>5
<1>10. ASSUME NEW n \in Names, NEW size \in Sizes, EditSize(n, size) PROVE RestInv'
  <2> DEFINE a == cr[n]
             b == seenCR[n]
             v == NewVersion({a, b, snap})
             c == [a EXCEPT !.size = size, !.rv = v]
  <2>1. cr' = [cr EXCEPT ![n] = c] /\ UNCHANGED <<dep, pods, due, informers, queue, worker>>
    BY <1>10 DEF EditSize
  <2>2. a \in CRType
    BY <1>0, <1>10 DEF EditSize
  <2>3. v \in Versions
    BY NewVersionType, Zenon
  <2>4. c \in CRType /\ c.rv = v
    <3>1. c = Resized(a, size, v)
      BY DEF Resized
    <3> HIDE DEF v, a, c
    <3>. QED
      BY <2>2, <2>3, <3>1, ResizedCR
  <2>5. b # c
    <3>1. c # None /\ c.rv = NewVersion({a, b, snap})
      BY <2>4, NoneAssumption
    <3> HIDE DEF a, b, c
    <3>. QED
      BY <3>1, NewVersionDiffers
  <2> HIDE DEF c
  <2>. QED
    BY <1>7, <2>1, <2>4, <2>5
<1>11. ASSUME NEW n \in Names, NEW size \in HandSizes, ScaleByHand(n, size) PROVE RestInv'
  <2> DEFINE a == dep[n]
             b == seenDep[n]
             v == NewVersion({a, b, found})
             d == [a EXCEPT !.replicas = size, !.rv = v]
  <2>1. dep' = [dep EXCEPT ![n] = d] /\ UNCHANGED <<cr, pods, due, informers, queue, worker>>
    BY <1>11 DEF ScaleByHand
  <2>2. a \in DeploymentType
    BY <1>0, <1>11 DEF ScaleByHand
  <2>3. v \in Versions
    BY NewVersionType, Zenon
  <2>4. d \in DeploymentType /\ d.rv = v
    <3>1. d = Scaled(a, size, v)
      BY DEF Scaled
    <3> HIDE DEF v, a, d
    <3>. QED
      BY <2>2, <2>3, <3>1, ScaledDeployment
  <2>5. b # d
    <3>1. d # None /\ d.rv = NewVersion({a, b, found})
      BY <2>4, NoneAssumption
    <3> HIDE DEF a, b, d
    <3>. QED
      BY <3>1, NewVersionDiffers
  <2> HIDE DEF d
  <2>. QED
    BY <1>8, <2>1, <2>4, <2>5
<1>12. ASSUME NEW n \in Names, ReportStatus(n) PROVE RestInv'
  <2> DEFINE a == dep[n]
             b == seenDep[n]
             v == NewVersion({a, b, found})
             d == [a EXCEPT !.rv = v]
  <2>1. dep' = [dep EXCEPT ![n] = d] /\ due' = due \ {n}
        /\ UNCHANGED <<cr, pods, informers, queue, worker>>
    BY <1>12 DEF ReportStatus
  <2>2. a \in DeploymentType
    BY <1>0, <1>12 DEF ReportStatus, TypeInv, TypeOK
  <2>3. v \in Versions
    BY NewVersionType, Zenon
  <2>4. d \in DeploymentType /\ d.rv = v
    <3> HIDE DEF v, a
    <3>. QED
      BY <2>2, <2>3, NewDeploymentType
  <2>5. b # d
    <3>1. d # None /\ d.rv = NewVersion({a, b, found})
      BY <2>4, NoneAssumption
    <3> HIDE DEF a, b, d
    <3>. QED
      BY <3>1, NewVersionDiffers
  <2> HIDE DEF d
  <2>. QED
    BY <1>8, <2>1, <2>4, <2>5
<1>. QED
  BY <1>2, <1>3, <1>4, <1>5, <1>6, <1>9, <1>10, <1>11, <1>12
     DEF Observe, Controllers, Users

\* Nothing wakes the operator for a pod, and yet, when nothing is left that would
\* wake it, every status names the pods there are: a change of the pods comes with a
\* change of the Deployment's status. The listing has to be up to date at
\* the time: with an informer of pods that is behind it, this fails.
THEOREM RestIsCurrent ==
  ASSUME "pods" \notin Late
  PROVE  Spec => []RestingStatusCurrent
<1>1. Init => RestInv
  BY DEF Init, RestInv, Rest
<1>2. TypeInv /\ RestInv /\ [Next]_vars => RestInv'
  <2>1. ASSUME TypeInv, RestInv, UNCHANGED vars PROVE RestInv'
    BY <2>1, RestAlone DEF RestInv, vars, server, informers
  <2>2. ASSUME TypeInv, RestInv, Next PROVE RestInv'
    <3>1. UpToDate => seenPods = pods
      BY DEF UpToDate
    <3>. QED
      BY <2>2, <3>1, WorkerRests, AroundRests DEF Next
  <2>. QED
    BY <2>1, <2>2
<1>3. TypeInv /\ RestInv => RestingStatusCurrent
  BY DEF RestInv, Rest, Pending, InHand, RestingStatusCurrent
<1>. QED
  BY <1>1, <1>2, <1>3, TypeInit, TypeStep, PTL DEF Spec
=============================================================================
