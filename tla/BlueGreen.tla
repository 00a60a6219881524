------------------------------ MODULE BlueGreen ------------------------------
(***************************************************************************)
(* The blue/green deployment of bluegreen-pipeline.yaml: a Jenkins         *)
(* pipeline that builds the application, deploys it beside the one that    *)
(* is live, waits for an approval and switches the route.                  *)
(*                                                                         *)
(* The pipeline moves one stage at a time.  Around it move the webhooks,   *)
(* which start pipeline runs and builds of the application independently   *)
(* of each other; the cluster, which builds one after the other, notices   *)
(* new images in its own time and rolls them out; the timeout; and people, *)
(* who approve or refuse, and may switch the route by hand.                *)
(***************************************************************************)
EXTENDS Naturals

CONSTANTS
  Limits,  \* how often each uncontrolled event happens at most (bound)
  None     \* no colour

Colours == {"b", "g"}
Other(c) == IF c = "b" THEN "g" ELSE "b"

Budgets == {"run", "build", "fault", "hand"}

ASSUME LimitsAssumption == Limits \in [Budgets -> Nat]
ASSUME NoneAssumption == None \notin Colours

VARIABLES
  route,    \* the colour whose service gets all the traffic
  tags,     \* image stream: the image of "latest", "b" and "g"; 0 if there is none
  started,  \* builds of the application started; they are numbered from 1, and
  ended,    \*   run one at a time in this order (runPolicy Serial); ended builds
  failed,   \*   and those of them that failed; build n makes image n
  rc,       \* DeploymentConfig of a colour: the image of its latest rollout
  phase,    \*   and how that rollout stands
  serving,  \* the image the pods of a colour run; 0 if there are none
  pending,  \* runs of the pipeline that wait their turn (runPolicy Serial)
  stage, tag, mine,  \* the pipeline: stage, colour it works on, build it started
  approved, \* observation: what the test route showed when it was approved
  early,    \* observation: colours verified by the rollout before the one that was due
  byHand,   \* observation: colours put live by hand while they were about to change
  budget    \* what is left of Limits

builds == <<started, ended, failed>>
rollouts == <<rc, phase, serving>>
run == <<stage, tag, mine, approved>>
observed == <<early, byHand>>
vars == <<route, tags, builds, rollouts, pending, run, observed, budget>>

Spend(b) == budget[b] > 0 /\ budget' = [budget EXCEPT ![b] = @ - 1]

\* The template: the route leads to b, and nothing has been built.
Init ==
  /\ route = "b"
  /\ tags = [t \in Colours \cup {"latest"} |-> 0]
  /\ started = 0 /\ ended = 0 /\ failed = {}
  /\ rc = [c \in Colours |-> 0]
  /\ phase = [c \in Colours |-> "none"]
  /\ serving = [c \in Colours |-> 0]
  /\ pending = 0
  /\ stage = "idle" /\ tag = None /\ mine = 0 /\ approved = 0
  /\ early = {} /\ byHand = {}
  /\ budget = Limits

-----------------------------------------------------------------------------
(* The pipeline.  Every stage may also end the run: see Abort.              *)

Goto(s) == stage' = s

\* Mutant: what the run knew is still there for the next one.
EndKeepingTag == stage' = "idle" /\ mine' = 0 /\ approved' = 0 /\ UNCHANGED tag

End == stage' = "idle" /\ tag' = None /\ mine' = 0 /\ approved' = 0

StartRun ==
  /\ stage = "idle" /\ pending > 0
  /\ pending' = pending - 1 /\ Goto("Initialize")
  /\ UNCHANGED <<route, tags, builds, rollouts, tag, mine, approved, observed, budget>>

\* Mutant: the defaults of tag and altTag are swapped.
InitializeActive ==
  /\ stage = "Initialize"
  /\ tag' = route /\ Goto("Build")
  /\ UNCHANGED <<route, tags, builds, rollouts, pending, mine, approved, observed, budget>>

\* The colour to work on is the one the route does not lead to.
Initialize ==
  /\ stage = "Initialize"
  /\ tag' = Other(route) /\ Goto("Build")
  /\ UNCHANGED <<route, tags, builds, rollouts, pending, mine, approved, observed, budget>>

\* openshiftBuild starts a build,
StartBuild ==
  /\ stage = "Build"
  /\ started' = started + 1 /\ mine' = started + 1 /\ Goto("building")
  /\ UNCHANGED <<route, tags, ended, failed, rollouts, pending, tag, approved, observed, budget>>

\* Mutant: the end of the build is not awaited.
BuildNotAwaited ==
  /\ stage = "building" /\ tags["latest"] # 0
  /\ Goto("tag")
  /\ UNCHANGED <<route, tags, builds, rollouts, pending, tag, mine, approved, observed, budget>>

\* and waits until it has succeeded.
AwaitBuild ==
  /\ stage = "building" /\ mine <= ended /\ mine \notin failed
  /\ Goto("tag")
  /\ UNCHANGED <<route, tags, builds, rollouts, pending, tag, mine, approved, observed, budget>>

\* The tag of the colour is moved to whatever latest is by now.
Tag ==
  /\ stage = "tag"
  /\ tags' = [tags EXCEPT ![tag] = tags["latest"]]
  /\ Goto("verify")
  /\ UNCHANGED <<route, builds, rollouts, pending, tag, mine, approved, observed, budget>>

Verified ==
  /\ Goto("approval")
  /\ early' = IF rc[tag] = tags[tag] THEN early \ {tag} ELSE early \cup {tag}
  /\ UNCHANGED <<route, tags, builds, rollouts, pending, tag, mine, approved, byHand, budget>>

\* Mutant: a rollout that is under way is good enough.
VerifyStarted == stage = "verify" /\ phase[tag] \in {"running", "complete"} /\ Verified

\* openshiftVerifyDeployment waits until the latest rollout of the colour is
\* complete.  If the image change has not been noticed yet, that is the rollout
\* of the image before.
VerifyDeployment == stage = "verify" /\ phase[tag] = "complete" /\ Verified

\* The input step: somebody looks at the test route and approves.
Approve ==
  /\ stage = "approval"
  /\ approved' = serving[tag] /\ Goto("golive")
  /\ UNCHANGED <<route, tags, builds, rollouts, pending, tag, mine, observed, budget>>

\* oc set route-backends: all the traffic goes to the colour of this run.  When
\* the call fails after it was applied, the run ends too, as a failure.
GoLive ==
  /\ stage = "golive"
  /\ route' = tag /\ End
  /\ UNCHANGED <<tags, builds, rollouts, pending, observed, budget>>

\* Mutant: the input step is outside the timeout.
AbortUnlessWaiting ==
  /\ stage \notin {"idle", "approval"}
  /\ End
  /\ UNCHANGED <<route, tags, builds, rollouts, pending, observed, budget>>

\* A step fails, the approval is refused, or the 20 minutes are over: an
\* exception ends the run in the catch block.  Builds and rollouts go on.
Abort ==
  /\ stage # "idle"
  /\ End
  /\ UNCHANGED <<route, tags, builds, rollouts, pending, observed, budget>>

Pipeline ==
  \/ StartRun \/ Initialize \/ StartBuild \/ AwaitBuild \/ Tag
  \/ VerifyDeployment \/ Approve \/ GoLive \/ Abort

-----------------------------------------------------------------------------
(* Everything around the pipeline.                                          *)

\* The two BuildConfigs have webhooks of their own.
PipelineHook ==
  /\ Spend("run") /\ pending' = pending + 1
  /\ UNCHANGED <<route, tags, builds, rollouts, run, observed>>

BuildHook ==
  /\ Spend("build") /\ started' = started + 1
  /\ UNCHANGED <<route, tags, ended, failed, rollouts, pending, run, observed>>

\* The build whose turn it is pushes its image to latest, or fails (npm test).
EndBuild ==
  /\ ended < started /\ ended' = ended + 1
  /\ \/ tags' = [tags EXCEPT !["latest"] = ended + 1] /\ UNCHANGED <<failed, budget>>
     \/ failed' = failed \cup {ended + 1} /\ Spend("fault") /\ UNCHANGED tags
  /\ UNCHANGED <<route, started, rollouts, pending, run, observed>>

\* The image change trigger of colour c starts a rollout, in place of one that
\* is under way.
ImageChange(c) ==
  /\ tags[c] # rc[c]
  /\ rc' = [rc EXCEPT ![c] = tags[c]]
  /\ phase' = [phase EXCEPT ![c] = "running"]
  /\ UNCHANGED <<route, tags, builds, serving, pending, run, observed, budget>>

\* A rolling rollout replaces the pods, or fails and leaves the old ones.
EndRollout(c) ==
  /\ phase[c] = "running"
  /\ \/ /\ phase' = [phase EXCEPT ![c] = "complete"]
        /\ serving' = [serving EXCEPT ![c] = rc[c]]
        /\ UNCHANGED budget
     \/ /\ phase' = [phase EXCEPT ![c] = "failed"]
        /\ Spend("fault") /\ UNCHANGED serving
  /\ UNCHANGED <<route, tags, builds, rc, pending, run, observed>>

\* The rollout of the image the colour is tagged with is over.
Settled(c) == rc[c] = tags[c] /\ phase[c] # "running"

\* Somebody switches the route by hand, as for a rollback.
SwitchByHand ==
  LET c == Other(route)
  IN /\ Spend("hand") /\ route' = c
     /\ byHand' = IF c = tag \/ ~Settled(c) THEN byHand \cup {c} ELSE byHand \ {c}
     /\ UNCHANGED <<tags, builds, rollouts, pending, run, early>>

Cluster == EndBuild \/ \E c \in Colours : ImageChange(c) \/ EndRollout(c)

Next == Pipeline \/ PipelineHook \/ BuildHook \/ Cluster \/ SwitchByHand

\* A pending run starts when its turn comes, and no run outlives its 20 minutes.
Fairness == WF_vars(StartRun) /\ WF_vars(Abort)

Spec == Init /\ [][Next]_vars

FairSpec == Spec /\ Fairness

-----------------------------------------------------------------------------
(* Properties.                                                              *)

Stages == {"idle", "Initialize", "Build", "building", "tag", "verify", "approval", "golive"}

\* Every variable has its type, and a colour is chosen from the stage Build on.
TypeOK ==
  /\ route \in Colours
  /\ tags \in [Colours \cup {"latest"} -> Nat]
  /\ started \in Nat /\ ended \in Nat /\ failed \subseteq Nat
  /\ rc \in [Colours -> Nat]
  /\ phase \in [Colours -> {"none", "running", "complete", "failed"}]
  /\ serving \in [Colours -> Nat]
  /\ pending \in Nat
  /\ stage \in Stages
  /\ tag \in IF stage \in {"idle", "Initialize"} THEN {None} ELSE Colours
  /\ mine \in Nat /\ approved \in Nat
  /\ early \subseteq Colours /\ byHand \subseteq Colours
  /\ budget \in [Budgets -> Nat]

\* What users get changes when the route is switched and at no other moment: no
\* run that is late, aborted or repeated, and no build that comes in between,
\* rolls anything out under live traffic.  The exceptions are a colour that was
\* verified too early (line 54) and one that was put live by hand while a run
\* worked on it or its rollout was due (line 38).
LiveVersionStable ==
  [][serving'[route] # serving[route] /\ route' = route =>
       route \in early \cup byHand]_vars

SwitchesRoute == stage = "golive" /\ stage' = "idle" /\ route' # route

\* What goes live is what the test route showed when it was approved (line 58).
ApprovedGoesLive ==
  [][SwitchesRoute => serving[tag] = approved \/ tag \in early]_vars

\* A switch by the pipeline brings users a later version than they had, even if
\* the route was switched by hand before or during the run, and whichever builds
\* moved latest between the build and the tagging (lines 49-53).
SwitchesForward ==
  [][SwitchesRoute => serving[route] < serving[route'] \/ tag \in early]_vars

\* Nobody has to answer the approval: every run ends and makes room for the next.
RunsEnd == []<>(stage = "idle" /\ pending = 0)
=============================================================================
