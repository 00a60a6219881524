----------------------------- MODULE Memcached ------------------------------
(***************************************************************************)
(* The Memcached operator the tutorial starts from                         *)
(* (0.memcached_controller.go): a Deployment per Memcached CR, scaled to   *)
(* .spec.size, and the names of its pods in .status.nodes.                 *)
(*                                                                         *)
(* The controller watches CRs and the Deployments they own, not pods: it   *)
(* learns of a pod only because the Deployment's status changes with it.   *)
(* Its client reads from informers, each of which may be behind.           *)
(***************************************************************************)
EXTENDS Naturals, FiniteSets, SequencesExt

CONSTANTS
  Names,    \* names of Memcached CRs
  Pods,     \* names of pods
  Sizes,    \* values of .spec.size that users write
  HandSizes,\* sizes that somebody scales a Deployment to by hand
  Late,     \* the informers that may be behind: any of "cr", "dep", "pods"
  Sorted,   \* an order in which every listing of pods comes, or None
  Limits,   \* how often each uncontrolled event happens at most (bound)
  Together, \* how many kinds of these events happen at most (bound)
  None

Budgets == {"create", "edit", "delete", "drift", "fault"}

ASSUME SizesAssumption == Sizes \subseteq Nat \ {0} /\ HandSizes \subseteq Nat
ASSUME LateAssumption == Late \subseteq {"cr", "dep", "pods"}
ASSUME SortedAssumption == Sorted # None => Sorted \in SetToSeqs(Pods)
ASSUME LimitsAssumption == Limits \in [Budgets -> Nat] /\ Together \in Nat

\* A resourceVersion is only ever compared with another: a number that no copy
\* of the object carries stands for a new one.
Versions == 0 .. 3
NewVersion(copies) == CHOOSE v \in Versions : \A m \in copies : m = None \/ m.rv # v

CRType == [uid : Nat, size : Sizes, nodes : Seq(Pods), rv : Versions]
DeploymentType == [uid : Nat, owned : BOOLEAN, replicas : Sizes \cup HandSizes, rv : Versions]

ASSUME NoneAssumption == None \notin CRType /\ None \notin DeploymentType

VARIABLES
  cr, dep, pods,            \* API server: CRs, Deployments, sets of pods
  due,                      \* names whose Deployment status is yet to follow its pods
  seenCR, seenDep, seenPods,\* informers
  queue,                    \* work queue
  pc, cur, snap,            \* worker: next call, key, copy of the CR
  found,                    \* worker: copy of the Deployment
  listed,                   \* worker: pod names listed
  budget

server == <<cr, dep, pods, due>>
informers == <<seenCR, seenDep, seenPods>>
worker == <<pc, cur, snap, found, listed>>
vars == <<server, informers, queue, worker, budget>>

Init ==
  /\ cr = [n \in Names |-> None] /\ dep = [n \in Names |-> None]
  /\ pods = [n \in Names |-> {}] /\ due = {}
  /\ seenCR = cr /\ seenDep = dep /\ seenPods = pods
  /\ queue = {}
  /\ pc = "idle" /\ cur = None /\ snap = None /\ found = None /\ listed = <<>>
  /\ budget = Limits

Spend(b) ==
  /\ budget[b] > 0 /\ budget' = [budget EXCEPT ![b] = @ - 1]
  /\ Cardinality({e \in Budgets : budget'[e] # Limits[e]}) <= Together

-----------------------------------------------------------------------------
(* The worker.                                                              *)

\* Mutant: the copy of the Deployment outlives the reconciliation.
FoundKept(q) ==
  /\ pc' = "idle" /\ cur' = None /\ snap' = None /\ listed' = <<>>
  /\ queue' = q /\ UNCHANGED found

Done(q) ==
  /\ pc' = "idle" /\ cur' = None /\ snap' = None /\ found' = None /\ listed' = <<>>
  /\ queue' = q
Return == Done(queue)
Requeue == Done(queue \cup {cur})

Dequeue(n) ==
  /\ pc = "idle" /\ n \in queue
  /\ pc' = "get" /\ cur' = n /\ queue' = queue \ {n}
  /\ UNCHANGED <<server, informers, snap, found, listed, budget>>

GetCR ==
  /\ pc = "get"
  /\ IF seenCR[cur] = None
     THEN Return
     ELSE /\ pc' = "dep" /\ snap' = seenCR[cur]
          /\ UNCHANGED <<cur, found, listed, queue>>
  /\ UNCHANGED <<server, informers, budget>>

\* Mutant: the controller reference is forgotten.
UnownedDeployment(m) ==
  [uid |-> m.uid, owned |-> FALSE, replicas |-> m.size,
   rv |-> NewVersion({dep[cur], seenDep[cur]})]

deploymentForMemcached(m) ==
  [uid |-> m.uid, owned |-> TRUE, replicas |-> m.size,
   rv |-> NewVersion({dep[cur], seenDep[cur]})]

\* A missing Deployment is created; whether that works or not, the key goes
\* back to the queue.
CreateDeployment ==
  /\ pc = "dep" /\ seenDep[cur] = None
  /\ Requeue
  /\ IF dep[cur] = None
     THEN dep' = [dep EXCEPT ![cur] = deploymentForMemcached(snap)] /\ due' = due \cup {cur}
     ELSE UNCHANGED <<dep, due>>
  /\ UNCHANGED <<cr, pods, informers, budget>>

\* Mutant: the Deployment is only scaled up.
OnlyScalesUp ==
  /\ pc = "dep" /\ seenDep[cur] # None
  /\ found' = seenDep[cur]
  /\ pc' = IF seenDep[cur].replicas < snap.size THEN "scale" ELSE "list"
  /\ UNCHANGED <<server, informers, cur, snap, listed, queue, budget>>

\* Mutant: the Deployment is updated whatever its size.
AlwaysScales ==
  /\ pc = "dep" /\ seenDep[cur] # None
  /\ found' = seenDep[cur] /\ pc' = "scale"
  /\ UNCHANGED <<server, informers, cur, snap, listed, queue, budget>>

GetDeployment ==
  /\ pc = "dep" /\ seenDep[cur] # None
  /\ found' = seenDep[cur]
  /\ pc' = IF seenDep[cur].replicas # snap.size THEN "scale" ELSE "list"
  /\ UNCHANGED <<server, informers, cur, snap, listed, queue, budget>>

\* Mutant: the resourceVersion is not checked.
BlindScale ==
  LET scaled == [found EXCEPT !.replicas = snap.size,
                   !.rv = NewVersion({dep[cur], seenDep[cur], found})]
  IN /\ pc = "scale"
     /\ dep' = IF dep[cur] # None THEN [dep EXCEPT ![cur] = scaled] ELSE dep
     /\ Requeue
     /\ UNCHANGED <<cr, pods, due, informers, budget>>

\* The Deployment that was read gets the size of the spec that was read, unless
\* it has changed since; the key goes back to the queue in either case.
ScaleDeployment ==
  LET applies == dep[cur] # None /\ dep[cur].uid = found.uid /\ dep[cur].rv = found.rv
      scaled == [found EXCEPT !.replicas = snap.size,
                   !.rv = NewVersion({dep[cur], seenDep[cur], found})]
  IN /\ pc = "scale"
     /\ dep' = IF applies THEN [dep EXCEPT ![cur] = scaled] ELSE dep
     /\ Requeue
     /\ UNCHANGED <<cr, pods, due, informers, budget>>

\* The names come in whatever order the informer lists them.
getPodNames(S) ==
  {names \in SetToSeqs(S) : Sorted # None => names = SelectSeq(Sorted, LAMBDA p : p \in S)}

\* Mutant: the names are counted, not compared.
NamesCounted ==
  /\ pc = "list"
  /\ \E names \in getPodNames(seenPods[cur]) :
       IF Len(names) = Len(snap.nodes)
       THEN Return
       ELSE pc' = "status" /\ listed' = names /\ UNCHANGED <<cur, snap, found, queue>>
  /\ UNCHANGED <<server, informers, budget>>

ListPods ==
  /\ pc = "list"
  /\ \E names \in getPodNames(seenPods[cur]) :
       IF names = snap.nodes
       THEN Return
       ELSE pc' = "status" /\ listed' = names /\ UNCHANGED <<cur, snap, found, queue>>
  /\ UNCHANGED <<server, informers, budget>>

UpdateStatus ==
  LET applies == cr[cur] # None /\ cr[cur].uid = snap.uid /\ cr[cur].rv = snap.rv
      updated == [snap EXCEPT !.nodes = listed,
                    !.rv = NewVersion({cr[cur], seenCR[cur], snap})]
  IN /\ pc = "status"
     /\ IF applies
        THEN cr' = [cr EXCEPT ![cur] = updated] /\ Return
        ELSE UNCHANGED cr /\ Requeue
     /\ UNCHANGED <<dep, pods, due, informers, budget>>

\* A call fails before it has any effect; Reconcile returns the error.
Fail ==
  /\ pc # "idle" /\ Spend("fault") /\ Requeue
  /\ UNCHANGED <<server, informers>>

Reconcile ==
  \/ GetCR \/ CreateDeployment \/ GetDeployment \/ ScaleDeployment
  \/ ListPods \/ UpdateStatus

-----------------------------------------------------------------------------
(* Users, the cluster's controllers and the informers.                      *)

CreateCR(n, size) ==
  /\ cr[n] = None /\ Spend("create")
  /\ cr' = [cr EXCEPT ![n] = [uid |-> budget["create"], size |-> size, nodes |-> <<>>,
                              rv |-> NewVersion({seenCR[n], snap})]]
  /\ UNCHANGED <<dep, pods, due, informers, queue, worker>>

EditSize(n, size) ==
  /\ cr[n] # None /\ cr[n].size # size /\ Spend("edit")
  /\ LET edited == [cr[n] EXCEPT !.size = size,
                      !.rv = NewVersion({cr[n], seenCR[n], snap})]
     IN cr' = [cr EXCEPT ![n] = edited]
  /\ UNCHANGED <<dep, pods, due, informers, queue, worker>>

DeleteCR(n) ==
  /\ cr[n] # None /\ Spend("delete")
  /\ cr' = [cr EXCEPT ![n] = None]
  /\ UNCHANGED <<dep, pods, due, informers, queue, worker>>

Removed(n) == dep' = [dep EXCEPT ![n] = None] /\ due' = due \ {n}

\* Somebody deletes a Deployment or scales it by hand.
DeleteDeployment(n) ==
  /\ dep[n] # None /\ Spend("drift") /\ Removed(n)
  /\ UNCHANGED <<cr, pods, informers, queue, worker>>

ScaleByHand(n, size) ==
  /\ dep[n] # None /\ dep[n].replicas # size /\ Spend("drift")
  /\ LET scaled == [dep[n] EXCEPT !.replicas = size,
                      !.rv = NewVersion({dep[n], seenDep[n], found})]
     IN dep' = [dep EXCEPT ![n] = scaled]
  /\ UNCHANGED <<cr, pods, due, informers, queue, worker>>

\* A pod of the Deployment goes, and its name with it.
LosePod(n) ==
  /\ Spend("drift")
  /\ \E p \in pods[n] : pods' = [pods EXCEPT ![n] = @ \ {p}]
  /\ due' = IF dep[n] # None THEN due \cup {n} ELSE due
  /\ UNCHANGED <<cr, dep, informers, queue, worker>>

\* The Deployment controller brings the pods to the number of replicas ...
RunPods(n) ==
  LET wanted == IF dep[n] = None THEN 0 ELSE dep[n].replicas
  IN /\ \/ /\ Cardinality(pods[n]) < wanted
           /\ \E p \in Pods \ UNION {pods[m] : m \in Names} :
                pods' = [pods EXCEPT ![n] = @ \cup {p}]
        \/ /\ Cardinality(pods[n]) > wanted
           /\ \E p \in pods[n] : pods' = [pods EXCEPT ![n] = @ \ {p}]
     /\ due' = IF dep[n] # None THEN due \cup {n} ELSE due
     /\ UNCHANGED <<cr, dep, informers, queue, worker, budget>>

\* ... and later reports it in the Deployment's status.
ReportStatus(n) ==
  /\ n \in due
  /\ due' = due \ {n}
  /\ LET reported == [dep[n] EXCEPT !.rv = NewVersion({dep[n], seenDep[n], found})]
     IN dep' = [dep EXCEPT ![n] = reported]
  /\ UNCHANGED <<cr, pods, informers, queue, worker, budget>>

CollectGarbage(n) ==
  /\ dep[n] # None /\ dep[n].owned /\ ~(cr[n] # None /\ cr[n].uid = dep[n].uid)
  /\ Removed(n)
  /\ UNCHANGED <<cr, pods, informers, queue, worker, budget>>

\* An event of a CR (For) or of a Deployment (Owns) queues the key.
ObserveCR(n) ==
  /\ seenCR[n] # cr[n]
  /\ seenCR' = [seenCR EXCEPT ![n] = cr[n]] /\ queue' = queue \cup {n}
  /\ UNCHANGED <<server, seenDep, seenPods, worker, budget>>

ObserveDeployment(n) ==
  /\ seenDep[n] # dep[n]
  /\ seenDep' = [seenDep EXCEPT ![n] = dep[n]] /\ queue' = queue \cup {n}
  /\ UNCHANGED <<server, seenCR, seenPods, worker, budget>>

\* An event of a pod only brings the informer up to date.
ObservePods(n) ==
  /\ seenPods[n] # pods[n]
  /\ seenPods' = [seenPods EXCEPT ![n] = pods[n]]
  /\ UNCHANGED <<server, seenCR, seenDep, queue, worker, budget>>

-----------------------------------------------------------------------------

\* Everything waits for an informer that is never behind.
UpToDate ==
  /\ "cr" \in Late \/ seenCR = cr
  /\ "dep" \in Late \/ seenDep = dep
  /\ "pods" \in Late \/ seenPods = pods

Observe == \E n \in Names : ObserveCR(n) \/ ObserveDeployment(n) \/ ObservePods(n)

Controllers == \E n \in Names : RunPods(n) \/ ReportStatus(n) \/ CollectGarbage(n)

Users == \E n \in Names :
  \/ \E size \in Sizes : CreateCR(n, size) \/ EditSize(n, size)
  \/ \E size \in HandSizes : ScaleByHand(n, size)
  \/ DeleteCR(n) \/ DeleteDeployment(n) \/ LosePod(n)

Next ==
  \/ Observe
  \/ /\ UpToDate
     /\ Reconcile \/ Fail \/ Controllers \/ Users \/ \E n \in Names : Dequeue(n)

\* The worker and the controllers go on, the queue is first-in first-out, and
\* every informer catches up.
Fairness ==
  /\ WF_vars(UpToDate /\ Reconcile)
  /\ WF_vars(UpToDate /\ Controllers)
  /\ \A n \in Names : /\ SF_vars(UpToDate /\ Dequeue(n))
                      /\ WF_vars(ObserveCR(n))
                      /\ WF_vars(ObserveDeployment(n))
                      /\ WF_vars(ObservePods(n))

Spec == Init /\ [][Next]_vars

FairSpec == Spec /\ Fairness

-----------------------------------------------------------------------------
(* Properties.                                                              *)

\* Every variable has its type.
TypeOK ==
  /\ cr \in [Names -> CRType \cup {None}] /\ seenCR \in [Names -> CRType \cup {None}]
  /\ dep \in [Names -> DeploymentType \cup {None}]
  /\ seenDep \in [Names -> DeploymentType \cup {None}]
  /\ pods \in [Names -> SUBSET Pods] /\ seenPods \in [Names -> SUBSET Pods]
  /\ due \subseteq {n \in Names : dep[n] # None} /\ queue \subseteq Names
  /\ pc \in {"idle", "get", "dep", "scale", "list", "status"}
  /\ cur \in IF pc = "idle" THEN {None} ELSE Names
  /\ snap \in IF pc \in {"idle", "get"} THEN {None} ELSE CRType
  /\ found \in IF pc \in {"scale", "list", "status"} THEN DeploymentType ELSE {None}
  /\ listed \in Seq(Pods)
  /\ budget \in [Budgets -> Nat]

\* The Deployment of a CR that stays ends up, for good, as large as its spec
\* says, whoever scales or deletes it meanwhile ("Ensure the deployment size is
\* the same as the spec").
SizeFollowsSpec ==
  \A n \in Names :
    <>[](cr[n] # None) => <>[](cr[n] # None /\ dep[n] # None /\ dep[n].replicas = cr[n].size)

\* When there is nothing left that would wake the operator, the status of a CR names
\* exactly the pods there are ("Update the Memcached status with the pod names"),
\* although no event of a pod wakes it; on the condition that the pods' informer,
\* from which they are listed (line 105), is always up to date ("pods" \notin Late).
RestingStatusCurrent ==
  pc = "idle" /\ queue = {} /\ due = {} /\ seenCR = cr /\ seenDep = dep =>
    \A n \in Names :
      cr[n] # None /\ dep[n] # None => Range(cr[n].nodes) = pods[n]

\* With listings in one order the operator comes to rest.
ComesToRest == <>[](pc = "idle" /\ queue = {})

\* A CR that is gone for good leaves neither Deployment nor pods.
NothingLeft == \A n \in Names : <>[](cr[n] = None) => <>[](dep[n] = None /\ pods[n] = {})

\* The operator never overwrites a number of replicas that it has not read: a
\* scaling by hand, or a new Deployment, between read and update is not undone
\* blindly, even when the informers are behind.
NoBlindScaling ==
  [][\A n \in Names :
       dep[n] # None /\ dep'[n] # None /\ budget' = budget =>
         (dep'[n].replicas # dep[n].replicas => dep[n].replicas = found.replicas)]_vars

=============================================================================
