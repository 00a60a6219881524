# A TLA+ development for OpenShift First Touch

The repository is a collection of notes, demos, manifests and tools for OpenShift. What it
holds of program logic is a Go operator tutorial (eight Go files, 3159 lines of them under
`test_cases/operator/go-operator/nfs-provisioner-tutorial-files`), a shell tool that computes
upgrade paths (`debug/shell/ocp4upc.sh`), a Jenkins pipeline in a template, and a few
deployment scripts. This directory models the operators, the upgrade tool, the pipeline and the
deployment of the SSH bastion, checks them with TLC on small instances, and proves their safety
properties with TLAPS for all instances; for the finished operator, up to the abstract contract of
a finalizer that it implements.

Below, *file N* is the tutorial file whose name starts with `N.`.

## Inventory

| Component | State | Operations | What is hard |
|---|---|---|---|
| Finished NFS provisioner operator (files 5, 6, 7) | none of its own; the CR, ten children, two informers, the work queue | `Reconcile`, `deleteExternalResources` | interleaving with users, garbage collector and other CRs; failed calls; crashes; stale reads; the finalizer |
| Earlier stages of it (files 1, 2.deployment, 2.rbac, 3, 4) | the same | `Reconcile`, in file 4 also `deleteExternalResources` | errors that are only logged, a finalizer test that is inverted, names that differ |
| Memcached operator (file 0) | CR, Deployment, pods, three informers | `Reconcile` | optimistic concurrency, stale reads, events that do not come, rest |
| Upgrade path checker (`ocp4upc.sh`) | graph files, arrays of channels, array of indirect nodes | `check_prereq`, `check_release`, `get_paths`, `capture_lts`, `json2gv`, `colorize`, `draw` | state carried from one channel to the next, colours written several times, one bad answer among many |
| Blue/green pipeline (`bluegreen-pipeline.yaml`) | route, image tags, builds, two DeploymentConfigs | five stages of one run, two webhooks | builds and rollouts in their own time, approval that takes minutes, timeout, switches by hand |
| SSH bastion (`deploy.sh`, `login_node.sh`) | eight objects and a secret, key files of each run | apply, making of host keys, two waits, login | several people at once, runs that end half way, waits that give up |
| libvirt installer (`jkit.py`) | VMs, generated files | seven commands | chains of commands that go on after a failure |
| Other scripts, Ansible role, Helm chart, runbooks | – | – | pure I/O, third-party code or nothing that runs |

How the operators interact with their surroundings: `SetupWithManager` registers the kinds that
are watched. An informer keeps a copy of those objects (and of every kind that is read); its
events put keys in a work queue, which holds each key at most once and gives it to one worker
at a time. The worker calls `Reconcile`, whose `Get` and `List` read the informers and whose
`Create`, `Update` and `Delete` go to the API server. The result decides whether the key goes
back to the queue. The garbage collector deletes what has an owner that is gone; the namespace
controller deletes what is in a terminating namespace; users do as they like.

The pipeline and the bastion talk to the same API server with `oc`: a stage or a command is a call
whose effect others see at once, and the cluster acts on it in its own time (a build queue, an image
change trigger, a rollout; a load balancer, a name service).

What makes each component correct:

* *finished operator*: a valid CR ends up with all its children; a deleted CR goes away and
  leaves nothing; the finalizer is there while it is needed and goes only after the clean-up;
  nothing is cleaned up for a CR that lives; writes hit the object they were computed for.
* *stages*: the same, as far as each stage has got.
* *Memcached*: the Deployment follows the spec, the status names the pods, the operator rests.
* *upgrade paths*: the drawing has the paths of one or two hops and nothing else, in the colours
  of the legend; duplicated channels are dropped; the exit status tells what was drawn.
* *pipeline*: what users get changes only when the route is switched, to what was approved, and
  never back; every run ends.
* *bastion*: its host keys stay what they are; it is deployed only with all it needs; running the
  script again completes it.

## Plan

1. `NFSProvisioner`, its runs and its proofs (done).
2. `Memcached`, `TutorialStages`, `UpgradePaths` (done).
3. `FinalizerContract`: the promise of a finalizer in the abstract, with `NFSProvisioner` shown to
   implement it (done).
4. `BlueGreen` and `Bastion` (done).
5. Proofs: `WritesFit` and the refinement of step 3 (done, `NFSContractProofs`).
6. Proofs of the safety properties of `Bastion`, `BlueGreen`, `Memcached` and `TutorialStages` (done).
7. Proofs of the types and the resting status of `Memcached`, and of all invariants of `UpgradePaths`
   (done).
8. Proof of `DeployedWithPermissions` (done, `NFSDeploymentProofs`). With it every safety property that a
   run checks is a theorem.

## The modules

`MC*.tla` extend each module with the values its constants take in the runs.

### NFSProvisioner

State: the API server (`cr`, `obj`, `claims`, `terminating`), the informers (`seenCR`, `seen`),
the work queue (`queue`) and the worker (`pc`, `cur`, `snap`). `pc` is the next call of
`Reconcile`; every call is a step, so anything may happen between two calls. `snap` is the local
copy of the CR.

* `GetCR`, `RejectInvalid`: lines 95-124. `validate` is lines 51-68.
* `PassChild(k)`, `CreateChild(k)`: lines 126-294, one pair of steps for each of the ten
  children, in the order of `After`. What differs from child to child is kept: four kinds are
  created on any error of `Get` (`CreatesOnAnyError`), the others only on NotFound; the claim is
  skipped with a host path and the StorageClass if the user names one (`Skips`); the claim is
  looked up by the name in the spec and created under the default name (`Found`, `pvcName`).
* `AddFinalizer`, `StartCleanup`, `DeleteClusterRole`, `DeleteClusterRoleBinding`,
  `RemoveFinalizer`: lines 296-343 and 349-385.

A child records the CR it was built from (`key`, `uid`), because its name does not depend on it
while its subject, selector and owner do. `SetControllerReference` fails for a cluster-scoped
child whose owner has a namespace, and the code ignores that: `owned` is FALSE. The SCC is
built with a namespace, gets an owner no garbage collector can resolve, and may disappear at any
time: that is part of `LoseChild`.

A failed call is an alternative of the step that makes it: a read that fails has no effect, a
write fails before or after it is applied. Updates carry the resourceVersion that was read.
`Crash` forgets worker and queue and lists everything anew.

Left out: what the pods do, the contents of rules and ports, NodeSelector and StorageSize, which
no property tells apart; Status.Nodes, which is only ever emptied; the StorageClass that is never
deleted (like the leak that `NothingLeftBehind` is about); the informers' periodic resync (every
ten hours by default), without which liveness is harder, and which does not help any
counterexample below, each of which returns to the same state when the key is queued again.
`removeString` is not called.

### FinalizerContract

What a finalizer promises, in four phases of a CR (absent, free, held, leaving) and a set of external
resources. A held CR leaves in two steps; the second one needs the resources gone; nothing is cleaned
up unless a CR is leaving. `NFSProvisioner` implements it (`ImplementsContract`): `Phase` maps a CR to
its phase by deletion timestamp and finalizer, and the external resources are the ClusterRole and its
binding (`External`). Creating, editing, failing, crashing and everything else about the CR is
stuttering. It holds where reads do not fail, the informers show the CRs and the two objects as they are,
and no user deletes these; without these, see `NFSLeak` and *Where code and words part*.

### NFSProvisionerProofs, NFSContractProofs, NFSDeploymentProofs

Theorems about `NFSProvisioner`; see *Proofs*. `MemcachedProofs`, `TutorialStagesProofs`,
`UpgradePathsProofs`, `BlueGreenProofs` and `BastionProofs` hold those about the modules below.

### Memcached

The same construction for file 0, with a step for each API call: `GetCR` (50-64),
`CreateDeployment` and `GetDeployment` (66-87), `ScaleDeployment` (85-96), `ListPods` (98-112),
`UpdateStatus` (111-121). `RunPods` and `ReportStatus` are the Deployment controller: pods come and
go first, the Deployment's status follows. The operator watches CRs and Deployments, not pods, so
`ObservePods` queues nothing. A resourceVersion is only compared, so a new version is any number
that no copy carries (`NewVersion`): the state space is finite without a bound on updates.
`getPodNames` lists the pods in any order: a sequence of the set of their names.
`Fail` is a call that fails without effect; for a call that fails after it took effect the next
reconciliation sees the same as after a success.

### TutorialStages

The five earlier reconcilers. They are lists of children (name looked up, name given, placed in a
namespace or not, owned or not) that one loop goes through, and differ in that list and in what
follows it; the variable `Stage`, chosen at the start, picks the list. Builders that differ from those
of the other stages are named for their stage (`rbacRole`, `hostpathPVC`, `pvcDeployment` ...). A failed creation
is logged and the loop goes on (`CreateChild`). The SCC of stage 4 is built with a namespace and so has
an owner, which no garbage collector can resolve: it goes by `LoseChild` only, as in the finished
operator. The other cluster-scoped children have none, because `SetControllerReference` fails for them.
Stage 4 has the finalizer logic, whose test is inverted: `FinishLive` is what
happens to a CR that is not under deletion, `StartOver` to one that is (the update that would add
the finalizer is refused by the API server). The informers are up to date.

### UpgradePaths

`ocp4upc.sh` in its three modes, from the arguments to the exit status. `check_prereq` and
`check_release` pass or end the script. `get_paths` is `FetchChannel` for every channel and then
`ChannelsFetched`, `Retarget` or `NoChannels`; an answer that is no graph (`NoGraph`: an error page, or
an error in JSON) is stored like one, and `WriteFails` is what it leads to. In the modes 4.x.z and
4.x.z. `colorize` is, for every channel, `SkipChannel`, or `StartChannel`, a `ColorTarget` for each
target release (phase "targets", `lts` being those to come) and `FinishChannel`; then `Colorized`.
`draw` exports one channel at a time. A version is a number, a node is its position in the graph, a
colour is the name of the script's variable. `LatestFirst` is the order of `sort -urV`. `Colors` is the
loop over `IND` for one target: `sed` colours an edge only while it has no colour, and a node as often
as it likes. What keeps the default colour is removed. The reference is `Paths`, the edges of the paths
of one or two hops, defined without any loop.
An empty body with status 0, and a second run of the script in the same folder, are left out.

### BlueGreen

`bluegreen-pipeline.yaml`. One action per call of the Jenkins file (`Initialize`, `StartBuild`,
`AwaitBuild`, `Tag`, `VerifyDeployment`, `Approve`, `GoLive`); `Abort` is the catch block, which any
failed call, a refusal or the 20 minutes lead to. The Serial run policy of the two BuildConfigs (the
default) gives one pipeline run at a time (`pending`, `StartRun`) and numbered builds that end in
order (`EndBuild`). `ImageChange` is the trigger of lines 212-221, which may come at any time after
the tag has moved, and `EndRollout` the rolling strategy, which leaves the old pods when it fails. A
build and its image share a number, so that a greater number is a later version. `SwitchByHand` is
somebody who sets the route.

Three variables only observe: `approved` is what the test route showed at the approval, `early` the
colours that passed line 54 on the rollout before the one that was due, `byHand` the colours put live
by hand while a run worked on them or a rollout was due. `early` and `byHand` are the exceptions of
the properties.

The model takes the colour that `.spec.to.name` of the route names for the one that gets the traffic:
line 38 reads this field, and line 62 sets backends and their weights. Somebody who switches by hand
and changes weights only separates the two; the model leaves that out.

### Bastion

`deploy.sh` and `login_node.sh`, run by several people at once. `Apply(p, o)` and
`Create(p, o)` are one `oc apply`, in the order of `After`: it looks for the object, and creates what is
`absent` in a second call, which fails if another run has come first. `GetKeys`, `MakeKeys`,
`CreateSecret` are lines 69 and 22-52; `Wait` and `Lookup` are turns of the two loops, which give up
after `Retries`. `Exit` is the trap, which knows the key files of its own run only, while those of a run
that was killed stay (`temp`). `set -e` is `Fails`: a call that fails, applied or not, ends the run.
`Kill` is the end of a run without its trap. `DeleteNamespace` takes everything that is in it.

All people are taken to use the same namespace, the default of line 7. With `SSH_BASTION_NAMESPACE` set
to different names, line 65 writes the one ClusterRoleBinding anew for each of them, and the binding is
good for the last one only.

## The runs

| Run | Instance | Shows |
|---|---|---|
| NFSFaults | one CR, created up to twice, valid or invalid spec; an edit, a deletion, two failed writes, a crash | safety of the finished operator, and that it implements `FinalizerContract` |
| NFSShared | two CRs in two namespaces, one deleted | the survivor gets back what it shared |
| NFSEnds | one CR that names its claim or is invalid; any three of edit, deletion, lost child or late claim, failed read, failed write, crash, deleted namespace | deletion ends, errors are reported, nothing owned stays |
| NFSLag | one CR, twice created; informers of CR and ClusterRole late | stale reads do no harm to CRs, clean-up is for deleted incarnations only, convergence, and children that belong to the new CR |
| Memcached | one CR, sizes 1 and 2 in the spec and 3 by hand, room for two pods; informers of CR and Deployment late; any two of edit, deletion, drift, fault | all properties |
| StagesAll | the five stages; any three of deletion (in fore- or background), lost child or late claim, failed read, failed write, crash | logged errors are made up for, garbage is collected, the finalizer goes last |
| UpgradePathsTwo | two channels, each with any graph over four releases (and smaller ones), or an answer that is none; three modes | drawings are right, and the exit status is |
| BlueGreen | three pipeline runs, one more build, one failed build or rollout, two switches by hand | what is live is what was approved, changes by switches only, and goes forward |
| Bastion | two people; one failed call, one killed run, one deleted namespace; two turns of each wait | host keys last, the Deployment is complete, reruns complete the rest, runs end |

The bounds are `Limits`, how often each uncontrolled event may happen, and `Together`, how many
kinds of these events happen in one behaviour; the controllers' own steps come on top and are not
bounded. The worker is sequential and restarts from the stored objects, so a second event of a
kind meets a state that the first one, or the initial state, could also have led to; pairs of
different events matter, and every run allows those that its properties are about.
`resourceVersion` counts updates and stays small because users' edits are bounded and the operator
writes only what changes. Two CRs are enough for shared children: one that uses them and one that
removes them. Two incarnations of one CR are enough for stale copies, which belong to one or the
other. In the upgrade graphs edges lead to later releases, two releases of each minor give paths
through a node that is itself a target, and different orders of nodes give positions that mean
different releases. Three pipeline runs let one colour be live, the other be worked on, and the first
one again; the second switch by hand undoes the first. Two turns of a wait are enough to tell the
first, an inner and the last turn apart, which are all that 121 turns have; two people are enough for
any two calls to meet.

`CHECK_DEADLOCK FALSE`: the systems may rest, when the users have done what they may and nothing is
queued, and the script ends.

Runs that end in a violation, each of a sentence of the repository that `PROJECT.json` quotes:

| Run | What the code does |
|---|---|
| NFSLeak | ClusterRole and binding outlive a CR that was deleted before its finalizer was added |
| NFSStuckNamespace | a deleted CR in a terminating namespace is never released (found under fairness) |
| UpgradePathsDangling | edges to removed nodes from the second channel on |

The properties of the passing runs carve these cases out and no more: `CleanBeforeRelease` holds
where reads do not fail and the informer shows the two objects, `DeletionCompletes` names the
three conditions under which a deleted CR may stay, `RestingStatusCurrent` holds where the pods'
informer keeps up, `PathsDrawn` allows surplus edges from the source only.

## Where code and words part

Cases met while modelling that have no run of their own, because they follow from a line or two of
the code. File names as above; Tutorial 4 is
`nfs-provisioner-tutorial-docs/Tutorial-4-NFS-Provisioner-Go-Operator-Deep-Dive.md`.

* File 5 line 359: any error of `Get`, not only NotFound, is taken for the absence of the ClusterRole,
  and nil is returned: the finalizer is released with the ClusterRole still there (lines 324-325: "if
  fail to delete the external dependency here, return with error so that it can be retried"). The
  clean-up also skips a ClusterRole that the informer does not show yet, with the same outcome.
* File 0 line 105: the names are listed from the pods' informer, which the controller does not watch.
  When it is behind at the Deployment's last event, nothing starts another reconciliation and the
  status stays on the pods of before (line 98: "Update the Memcached status with the pod names").
* File 5 lines 112 and 168: besides a terminating namespace, a spec that became invalid and a claim
  that nobody made keep a deleted CR for ever (the two other exceptions of `DeletionCompletes`).
* File 5 line 685: the ClusterRoleBinding has one name and one subject, in the namespace of the CR
  that was reconciled first; a CR of another namespace is content with it (file 6 line 21:
  "ClusterRoleBinding match ClusterRole and ServiceAccount in the NFS provisioner project").
* File 5 line 752: with two CRs in a namespace, Service and Deployment may come from different CRs
  and then select by different names.
* File 5 line 249: a Deployment that exists is never compared with the spec. Line 115: the error
  in the status is never cleared (file 7 lines 23 and 53: "desired state", "observed state").
* File 0 line 112: the names of the pods are compared as lists, so that another order of the same
  pods is written anew. `ComesToRest` is checked with listings in one order (`Sorted`).
* File 2.rbac line 341: Role and RoleBinding are built without a namespace, which the API refuses,
  and the error is only logged. `ChildrenReturn` leaves the two out (`placed`).
* File 2.rbac line 367: the subject of the binding is named after the CR, not after the ServiceAccount
  that the stage creates; file 3 builds a Deployment without a `ServiceAccountName`. Subjects and
  accounts are data that no property of the stages reads.
* File 4 line 254: the test of the deletion timestamp is inverted, so no CR gets the finalizer and
  the clean-up is for a CR that lives and came with it (comment at lines 255-257: "The object is not
  being deleted, so if it does not have our finalizer, then lets add the finalizer").
* File 4 lines 454 and 518: the claim is looked up as spec.pvc or "nfs-server", created as "nfs" and
  mounted as "nfs-server". `ChildrenReturn` is about the stages before.
* `ocp4upc.sh` line 171: the index counts accepted channels and is used on the list of all, so that
  after a discarded channel the next is compared with the wrong one; it takes three channels
  (`NoDuplicates` holds for two). Line 246: a channel with a target release and no path to it is
  exported. Line 232: one answer that is no graph ends the script for all channels.
* `bluegreen-pipeline.yaml` line 54: `openshiftVerifyDeployment` looks at the latest rollout. Before the
  image change trigger has started the one that is due, it finds the one before complete: the test
  route shows the old version, which goes live when approved, and changes under traffic when the
  rollout comes (`early`). Line 38: a colour made live by hand during a run that works on it changes
  under traffic too (`byHand`).
* `deploy.sh` line 63: of two first runs the one that looks for an object before the other has created
  it, and creates it afterwards, is refused (AlreadyExists) and ends, although nothing is wrong; the same
  at line 51 with the host keys. `RerunsComplete` says that it is enough to run it again.
* `login_node.sh` line 5: a project that exists is taken for a bastion, so a deployment that was
  cut off after the namespace is never completed by it, only by `deploy.sh`. Lines 16 and 18 read the
  hostname only, so a load balancer with an ip is never reached. `deploy.sh` line 109: after both
  waits have given up an empty address is printed, with status 0.

## Fairness

* The worker: weak fairness of `Reconcile`. Its goroutine runs while the process does.
* The queue: strong fairness of `Dequeue` per key. The queue is first-in first-out and a key that is
  being processed is disabled only until the worker is idle again; rate limiting delays a key and
  does not drop it.
* The informers: weak fairness per object. A watch that breaks is set up again and lists
  everything.
* Garbage collector, namespace and Deployment controllers: weak fairness; they retry for ever.
  One weak fairness covers all their steps: each of them removes something
  that only finitely many other steps bring back.
* The pipeline: weak fairness of `StartRun` (Jenkins takes the next run of a Serial BuildConfig) and of
  `Abort`, which is the timeout of line 27: it is always possible while a run is under way. None for the
  stages, which may hang, and none for builds and rollouts.
* The bastion: weak fairness of the steps of every run, which end by themselves or fail; none for the
  cloud, which need not give an address, and none for people, who need not start a run.
* Users, failures and crashes: none.

## Proofs

The theorems hold for every value of the constants that meets the assumptions of the module, thus for
any number of CRs, namespaces, people and events. Eight are about `NFSProvisioner`, four of them in
`NFSProvisionerProofs`:

* `TypeCorrect`: `Spec => []TypeOK`. `TypeOK` is inductive: `TypeInit`, `TypeReconcile` (a step
  per call), `TypeAround` (a step per action of users and controllers), `TypeStep`.
* `InFlightProtected`: if no CR is shown late, `Spec => []ProtectedInFlight`. The property alone is
  not inductive: it says nothing of the calls of the clean-up. `InFlight` adds that these are
  reached only with a copy that is deleting and has the finalizer, and that the stored CR is then
  deleting too.
* `CleanupForDeletedOnly`: the action property, from `InFlight`, under the same hypothesis: only the two
  deleting calls, and users, remove the objects (`TakenByCleanup`). The hypothesis is necessary for both: a
  late informer shows a CR that was released, and the worker serves it, or cleans up after it a second
  time, when there may be a new one of its name. TLC finds both in the instance of NFSLag. What holds then
  is `LateCleanupForDeleted`.
* `CleanupPrecedesRelease`: if no read fails and the informers show the two objects as they are,
  the finalizer goes only after both are gone. The invariant is `Cleaned`: past each deleting
  call its object is absent. It is kept because only the worker creates objects (`NoNewChild`) and
  the worker is in the clean-up. The hypotheses are necessary: see file 5 line 359 above.

three in `NFSContractProofs`:

* `WritesAlwaysFit`: `Spec => WritesFit`, with informers as late as they like. The invariant has two
  parts. `Versions`: every copy of a CR, in an informer or in the worker's hand, has a uid that was
  given out, and if its uid is that of the stored CR its version is not newer, and equal only if
  the whole copy is (`Fits`). It is inductive because every step that changes a CR either brings a uid
  that no copy has or raises the version (`OneChange`: `Appears`, `Leaves`, `Changes`; `StepOfCR`).
  So an update that the API server applies was made from the CR as it is. `Checked`: past the
  validation the copy in hand is valid, and in the clean-up it has the finalizer and is deleting.
* `LateCleanupForDeleted`: `Spec => CleanupOfDeletedIncarnation`, without a hypothesis. `DeletionLasts`: if a
  copy is marked as deleted and the stored CR has its uid, so is the stored CR. It is kept because no
  change of a CR takes the mark away, and a CR made anew has a uid that no copy has (`MarksStep`).
* `ImplementsFinalizerContract`: under the hypotheses of `InFlightProtected` and `CleanupPrecedesRelease`,
  and if no user deletes a child, `Spec => ImplementsContract`. A step changes one CR (`ContractOfCR`) or one child
  (`StepOfChild`, `ContractOfChild`), and each is a step of the contract or a stutter; `Cleaned` gives the
  guard of `Release`, `InFlight` that of `CleanUp`.

and one in `NFSDeploymentProofs`:

* `PermissionsComeFirst`: under the hypotheses of `CleanupPrecedesRelease`, and if no two CRs share a
  namespace, `Spec => DeployedWithPermissions`. `Passed`: what Reconcile has passed on its way to the
  Deployment is there. A child it passes is there (`PassStep`), and stays (`ChildStays`): of all that takes
  a child away (`ChildStep`) the clean-up is the worker's own, a lost child is excluded by the property, a
  terminating namespace refuses the Deployment, and the garbage collector takes only what has another
  owner. That there is none needs `OnlyFirst`, `AtHome` and `Untouched`: as long as the first CR of a name
  is there, all copies and all children of that name are its own, and in its namespace. `Shown` adds that
  for the same reason an informer that is late shows no child that is gone.
  The hypotheses are necessary: SCC and ServiceAccount are passed when they cannot be read (file 5 lines
  132 and 180); a late informer shows the ClusterRole that was cleaned up for another CR; and the account
  that a CR has found may be that of another CR of its namespace, which is collected with it.

`BastionProofs`:

* `TypeCorrect`: `TypeOK` needs three more facts to be inductive: a run has key files of its own only
  between their making and its end (`OwnFiles`), the budget of kills never grows (`FilesExplained`), and a
  run that looks the name up has turns left (`TurnsLeft`).
* `HostKeysLast`: the action property. A step of a script only adds to the cluster, and host keys only
  where there are none (`ServerStep`).
* `DeploymentComplete`: `Spec => []DeployedWhenReady`. `ReadyInv` adds what must be there before each
  call, for every run (`Before`): `set -e` lets a script go on only after a call that worked
  (`ScriptInOrder`), and nothing but the deletion of the namespace takes away what another run relied on.

`BlueGreenProofs`:

* `TypeCorrect`, with `TypeOK` inductive as it stands.
* `LiveVersionLasts` and `ApprovedIsLive`, from `LiveInv`: a run works on the colour that is not live, or
  on one that was put live by hand (`OnOther`); no rollout of the live colour is due, or the colour is an
  exception (`LiveSettled`); from the approval on the colour is settled on the image it was tagged
  with, or was verified too early (`Verifying`).
* `SwitchesBringNewer` needs `VersionInv` as well: from its start, the build of a run is younger than
  whatever either colour is tagged with, rolls out or runs, and once it is tagged the other colour stays
  behind (`RunIsNewer`). `BuildsCount` says why latest is not older than that build when it is tagged:
  builds end in order.

`MemcachedProofs`:

* `ScalesWhatItRead`: `Spec => NoBlindScaling`. `CopiesAgree`: the informer's copy and the one the worker
  is about to write say the same of the replicas as the stored Deployment if they have its uid and
  version. It is kept because a new version is one that none of the three carries (`VersionIsNew`).
  `Shapes` is all it needs of the types.
* `TypeCorrect`: `TypeInv` adds to `TypeOK` that the sets of pods are finite, so that they can be listed.
* `RestIsCurrent`: if the pods' informer keeps up, `Spec => []RestingStatusCurrent`. `RestInv` follows a
  change of the pods on its way to the status: the Deployment's status will change (the Deployment
  controller has yet to report), or the informer has yet to see it, or the key is queued, or the worker
  has yet to list the pods, or holds a list that is right.

`TutorialStagesProofs`:

* `TypeCorrect`, where `LoopKinds` shows of each stage's list that the loop goes from child to child and
  then to the end.
* `ReleaseAfterRole`: `Spec => ReleasedWithoutRole`. `RoleGone`: past its deletion the ClusterRole is
  absent if no read has failed. It rests on the type invariant, which says that a stored ClusterRole has
  the very name that is deleted; for the ClusterRoleBinding of stage 4 this is not so.

`UpgradePathsProofs`:

* `TypeCorrect`: `TypeInv` adds to `TypeOK` that nothing is in the gv files before they are written, and
  that a channel that is coloured has an answer that is a graph or empty.
* `ExitStatusTells`: `Spec => []StatusTells`. `FlowInv` has one part for each stretch of the script: each
  channel is either yet to come or may have been kept (`FetchInv`, `WriteInv`, `ColoringInv`), and each
  result is exported or yet to be (`DrawingInv`).
* `KeptChannelsDiffer`: for any number of channels, a channel that is kept is not followed by an equal one as
  long as none before it has been dropped. `FetchedInOrder`: the channels yet to fetch are the last ones of
  the list, and an accepted channel differs from the one that stands, in the list of all, at the place that
  the number of channels accepted before it gives (`Compared`). That is all that line 171 guarantees; it is
  the channel kept last only while the accepted ones are the first ones of the list (`Leading`). It is
  inductive because that place has been fetched by then and is not fetched again (`OrderFetch`).
* `ChannelsDiffer`, from the same invariant: `NoDuplicates` holds for at most two channels, and whenever no
  channel has been dropped. When one has been, it fails, from three channels on: see line 171 above.
* `DrawingsShowPaths` and `FirstIsExact`: if no edge leads from a release to itself (`LoopFree`),
  `Spec => []PathsDrawn` and `Spec => []FirstDrawingExact`. The property speaks of drawings that are
  done; `Painted` says what a gv file looks like in the middle of the loop, when the targets in `Visited`
  are done with: which edges have which colour (`EdgeColors`), which nodes have one (`NodesShown`), and
  what `EXT` holds. One turn of the loop adds one target to the three (`EdgesColored`, `NodesColored`),
  because the edges into a target have no colour before its turn. `PathFacts` and `FinishedShown` compare
  the end of the loop with the reference. `UntouchedInv` says that a channel's gv file waits for its turn
  untouched, and that `EXT` is empty until the first result, which is why the first drawing is exact.
* `ColorsTellPaths`: if edges lead to later releases (`Ascending`), `Spec => []ColorsTell`. A node is
  coloured as often as paths pass it, so the order counts: `Told` adds that the targets visited are later
  than those to come, hence none of them is between the source and a target to come (`NodesTold`).

`LoopFree` and `Ascending` are hypotheses of theorems and not assumptions of the module, because they are
about what the API answers; an update graph that did not meet them would be wrong about the releases. The
graphs of the runs meet them (`UpgradesAscend`).

Only checked with TLC: all liveness (`Converges`, `DeletionCompletes`, `ComesToRest`, `RunsEnd` and the
others of the table above). The prover has neither ENABLED nor induction over an operator.

## Not modelled

* `jkit.py`: every command is one chain of terraform, ansible and virsh calls on files and VMs; the tools
  and most of what they read are not in the repository. Its only logic is that a chain joined by `;`
  reports the status of its last call.
* `htpasswdConfig.sh`, `sso.sh`, the gathering, cipher, channel and PV scripts: linear lists of calls and
  loops that print, without state of their own.
* The Ansible role: declarative tasks, run by a base image that is not in the repository.
* `setup-envtest.sh`, `kubebuilder-install.sh`: third-party downloads. Runbooks and manifests: nothing that
  runs.

To run: `tlc -config NFSFaults.cfg MCNFSProvisioner.tla`, `tlapm NFSProvisionerProofs.tla`,
`tlapm NFSDeploymentProofs.tla`, and so on for the other modules of proofs.
