--------------------------- MODULE BlueGreenProofs ---------------------------
(***************************************************************************)
(* Proofs about BlueGreen, for any number of pipeline runs, builds,        *)
(* failures and switches by hand.                                          *)
(***************************************************************************)
EXTENDS BlueGreen, TLAPS

-----------------------------------------------------------------------------
(* Types.                                                                   *)

\* What Spend leaves of the limits.
LEMMA SpendType ==
  ASSUME TypeOK, NEW b \in Budgets, Spend(b)
  PROVE  budget' \in [Budgets -> Nat]
<1>1. budget \in [Budgets -> Nat] /\ budget[b] \in Nat /\ budget[b] > 0
  BY DEF TypeOK, Spend
<1>2. budget[b] - 1 \in Nat
  BY <1>1
<1>. QED
  BY <1>1, <1>2 DEF Spend

\* TypeOK is inductive.
LEMMA TypeStep == TypeOK /\ [Next]_vars => TypeOK'
<1>. SUFFICES ASSUME TypeOK, [Next]_vars PROVE TypeOK'
  OBVIOUS
<1>. USE DEF vars, builds, rollouts, run, observed, Colours
<1>1. CASE StartRun
  BY <1>1 DEF StartRun, TypeOK, Goto, Stages
<1>2. CASE Initialize
  BY <1>2 DEF Initialize, TypeOK, Goto, Stages, Other
<1>3. CASE StartBuild
  BY <1>3 DEF StartBuild, TypeOK, Goto, Stages
<1>4. CASE AwaitBuild
  BY <1>4 DEF AwaitBuild, TypeOK, Goto, Stages
<1>5. CASE Tag
  BY <1>5 DEF Tag, TypeOK, Goto, Stages
<1>6. CASE VerifyDeployment
  BY <1>6 DEF VerifyDeployment, Verified, TypeOK, Goto, Stages
<1>7. CASE Approve
  BY <1>7 DEF Approve, TypeOK, Goto, Stages
<1>8. CASE GoLive
  BY <1>8 DEF GoLive, End, TypeOK, Stages
<1>9. CASE Abort
  BY <1>9 DEF Abort, End, TypeOK, Stages
<1>10. CASE PipelineHook
  BY <1>10, SpendType DEF PipelineHook, TypeOK, Stages, Budgets
<1>11. CASE BuildHook
  BY <1>11, SpendType DEF BuildHook, TypeOK, Stages, Budgets
<1>12. CASE EndBuild
  <2>1. budget' \in [Budgets -> Nat]
    BY <1>12, SpendType DEF EndBuild, TypeOK, Budgets
  <2>2. ended + 1 \in Nat
    BY DEF TypeOK
  <2>3. failed' \subseteq Nat
    BY <1>12, <2>2 DEF EndBuild, TypeOK
  <2>4. tags' \in [Colours \cup {"latest"} -> Nat]
    <3>1. CASE tags' = [tags EXCEPT !["latest"] = ended + 1]
      BY <3>1, <2>2 DEF TypeOK
    <3>. QED
      BY <1>12, <3>1 DEF EndBuild, TypeOK
  <2>. QED
    BY <1>12, <2>1, <2>2, <2>3, <2>4 DEF EndBuild, TypeOK
<1>13. ASSUME NEW c \in Colours, ImageChange(c) PROVE TypeOK'
  BY <1>13 DEF ImageChange, TypeOK
<1>14. ASSUME NEW c \in Colours, EndRollout(c) PROVE TypeOK'
  <2>1. budget' \in [Budgets -> Nat]
    BY <1>14, SpendType DEF EndRollout, TypeOK, Budgets
  <2>. QED
    BY <1>14, <2>1 DEF EndRollout, TypeOK
<1>15. CASE SwitchByHand
  <2>1. budget' \in [Budgets -> Nat]
    BY <1>15, SpendType DEF SwitchByHand, Budgets
  <2>. QED
    BY <1>15, <2>1 DEF SwitchByHand, TypeOK, Other
<1>16. CASE UNCHANGED vars
  BY <1>16 DEF TypeOK
<1>. QED
  BY <1>1, <1>2, <1>3, <1>4, <1>5, <1>6, <1>7, <1>8, <1>9, <1>10, <1>11, <1>12,
     <1>13, <1>14, <1>15, <1>16 DEF Next, Pipeline, Cluster

\* TypeOK holds at first.
LEMMA TypeInit == Init => TypeOK
BY LimitsAssumption DEF Init, TypeOK, Stages, Colours

\* Every variable keeps its type, and a run has a colour from the stage Build on.
THEOREM TypeCorrect == Spec => []TypeOK
BY TypeInit, TypeStep, PTL DEF Spec

-----------------------------------------------------------------------------
(* The run and the rollouts.                                                *)

\* A run works on the colour that is not live, unless somebody put it live.
OnOther == tag \in Colours => tag # route \/ tag \in byHand

\* The colour that is live has no rollout to come, up to the exceptions.
LiveSettled == Settled(route) \/ route \in early \cup byHand

\* A complete rollout is what the pods run.
RolledOut == \A c \in Colours : phase[c] = "complete" => serving[c] = rc[c]

\* What has been verified in time is what the colour was tagged with, and what was
\* approved is what will go live.
Verifying ==
  /\ stage \in {"approval", "golive"} =>
       (rc[tag] = tags[tag] /\ phase[tag] = "complete") \/ tag \in early
  /\ stage = "golive" => serving[tag] = approved \/ tag \in early

LiveInv == OnOther /\ LiveSettled /\ RolledOut /\ Verifying

\* LiveInv holds at first.
LEMMA LiveInit == Init => LiveInv
BY NoneAssumption DEF Init, LiveInv, OnOther, LiveSettled, Settled, RolledOut, Verifying, Colours

\* LiveInv is inductive.
LEMMA LiveStep == TypeOK /\ LiveInv /\ [Next]_vars => LiveInv'
<1>. SUFFICES ASSUME TypeOK, LiveInv, [Next]_vars PROVE LiveInv'
  OBVIOUS
<1>. USE NoneAssumption DEF LiveInv, OnOther, LiveSettled, Settled, RolledOut, Verifying, vars,
         builds, rollouts, run, observed, Colours
<1>1. CASE StartRun
  BY <1>1 DEF StartRun, Goto, TypeOK
<1>2. CASE Initialize
  BY <1>2 DEF Initialize, Goto, Other, TypeOK
<1>3. CASE StartBuild \/ AwaitBuild
  BY <1>3 DEF StartBuild, AwaitBuild, Goto
<1>4. CASE Tag
  BY <1>4 DEF Tag, Goto, TypeOK
<1>5. CASE VerifyDeployment
  BY <1>5 DEF VerifyDeployment, Verified, Goto, TypeOK
<1>6. CASE Approve
  BY <1>6 DEF Approve, Goto
<1>7. CASE GoLive
  BY <1>7 DEF GoLive, End, TypeOK
<1>8. CASE Abort
  BY <1>8 DEF Abort, End
<1>9. CASE PipelineHook \/ BuildHook
  BY <1>9 DEF PipelineHook, BuildHook
<1>10. CASE EndBuild
  <2>1. \A c \in Colours : tags'[c] = tags[c]
    BY <1>10 DEF EndBuild, TypeOK
  <2>. QED
    BY <1>10, <2>1 DEF EndBuild, TypeOK
<1>11. ASSUME NEW c \in Colours, ImageChange(c) PROVE LiveInv'
  BY <1>11 DEF ImageChange, TypeOK
<1>12. ASSUME NEW c \in Colours, EndRollout(c) PROVE LiveInv'
  BY <1>12 DEF EndRollout, TypeOK
<1>13. CASE SwitchByHand
  BY <1>13 DEF SwitchByHand, Other, TypeOK
<1>14. CASE UNCHANGED vars
  BY <1>14
<1>. QED
  BY <1>1, <1>2, <1>3, <1>4, <1>5, <1>6, <1>7, <1>8, <1>9, <1>10, <1>11, <1>12,
     <1>13, <1>14 DEF Next, Pipeline, Cluster

\* What users get changes by a switch of the route only, up to the two exceptions:
\* a rollout that changes pods was due, and the live colour has none due.
THEOREM LiveVersionLasts == Spec => LiveVersionStable
<1> DEFINE Stable == serving'[route] # serving[route] /\ route' = route =>
                       route \in early \cup byHand
<1>1. ASSUME TypeOK, LiveInv, [Next]_vars PROVE Stable
  <2>1. ASSUME NEW c \in Colours, EndRollout(c) PROVE Stable
    BY <1>1, <2>1 DEF EndRollout, LiveInv, LiveSettled, Settled, TypeOK
  <2>2. CASE serving' = serving
    BY <2>2
  <2>. QED
    BY <1>1, <2>1, <2>2 DEF Next, Pipeline, Cluster, vars, builds, rollouts, StartRun,
       Initialize, StartBuild, AwaitBuild, Tag, VerifyDeployment, Verified, Approve, GoLive,
       Abort, PipelineHook, BuildHook, EndBuild, ImageChange, SwitchByHand
<1>2. TypeOK /\ LiveInv /\ [Next]_vars => [Stable]_vars
  BY <1>1
<1>. QED
  BY <1>2, TypeInit, TypeStep, LiveInit, LiveStep, PTL DEF Spec, LiveVersionStable

\* What goes live is what the test route showed when it was approved: no rollout
\* is due on the colour while the run waits.
THEOREM ApprovedIsLive == Spec => ApprovedGoesLive
<1>1. LiveInv /\ [Next]_vars =>
        [SwitchesRoute => serving[tag] = approved \/ tag \in early]_vars
  BY DEF LiveInv, Verifying, SwitchesRoute
<1>. QED
  BY <1>1, TypeInit, TypeStep, LiveInit, LiveStep, PTL DEF Spec, ApprovedGoesLive

-----------------------------------------------------------------------------
(* Versions.                                                                *)

\* Images come from builds that ended; latest is not older than any that succeeded.
BuildsCount ==
  /\ ended <= started
  /\ \A t \in Colours \cup {"latest"} : tags[t] <= ended
  /\ \A c \in Colours : rc[c] <= ended /\ serving[c] <= ended
  /\ \A n \in 1..ended : n \in failed \/ n <= tags["latest"]

\* Whatever colour c is, was or is about to become is older than image n.
Older(c, n) == tags[c] < n /\ rc[c] < n /\ serving[c] < n

\* A run's image is younger than everything that has been deployed: both colours
\* until it is tagged, and the other colour from then on.
RunIsNewer ==
  /\ stage = "building" => mine \in 1..started
  /\ stage = "tag" => mine <= tags["latest"]
  /\ stage \in {"building", "tag"} => \A c \in Colours : Older(c, mine)
  /\ stage \in {"verify", "approval", "golive"} => Older(Other(tag), tags[tag])

VersionInv == BuildsCount /\ RunIsNewer

\* VersionInv holds at first.
LEMMA VersionInit == Init => VersionInv
BY DEF Init, VersionInv, BuildsCount, RunIsNewer, Colours

\* Calls that leave tags, rollouts and builds alone, on the way to a stage that asks
\* no more of them.
LEMMA SameVersions ==
  ASSUME TypeOK, VersionInv, UNCHANGED <<tags, builds, rollouts>>,
         \/ stage' = stage /\ UNCHANGED <<tag, mine>>
         \/ stage' \in {"idle", "Initialize", "Build"}
         \/ /\ stage \in {"verify", "approval", "golive"} /\ UNCHANGED tag
            /\ stage' \in {"verify", "approval", "golive"}
  PROVE  VersionInv'
BY DEF VersionInv, BuildsCount, RunIsNewer, Older, builds, rollouts, Other, Colours, TypeOK

\* VersionInv is inductive.
LEMMA VersionStep == TypeOK /\ VersionInv /\ [Next]_vars => VersionInv'
<1>. SUFFICES ASSUME TypeOK, VersionInv, [Next]_vars PROVE VersionInv'
  OBVIOUS
<1>. USE DEF vars, builds, rollouts, run, observed, Colours, Other
<1>1. CASE StartRun \/ Initialize \/ VerifyDeployment \/ Approve \/ GoLive \/ Abort
           \/ PipelineHook \/ SwitchByHand \/ UNCHANGED vars
  BY <1>1, SameVersions DEF StartRun, Initialize, VerifyDeployment, Verified, Approve, GoLive,
     Abort, End, PipelineHook, SwitchByHand, Goto
<1>2. CASE StartBuild
  BY <1>2 DEF StartBuild, Goto, VersionInv, BuildsCount, RunIsNewer, Older, TypeOK
<1>3. CASE AwaitBuild
  BY <1>3 DEF AwaitBuild, Goto, VersionInv, BuildsCount, RunIsNewer, Older, TypeOK
<1>4. CASE Tag
  BY <1>4 DEF Tag, Goto, VersionInv, BuildsCount, RunIsNewer, Older, TypeOK
<1>5. CASE BuildHook
  BY <1>5 DEF BuildHook, VersionInv, BuildsCount, RunIsNewer, Older, TypeOK
<1>6. CASE EndBuild
  <2>1. ended' = ended + 1 /\ ended < started /\ failed \subseteq failed'
    BY <1>6 DEF EndBuild
  <2>2. /\ \A c \in Colours : tags'[c] = tags[c]
        /\ tags'["latest"] <= ended' /\ tags["latest"] <= tags'["latest"]
        /\ ended + 1 \in failed' \/ tags'["latest"] = ended + 1
    BY <1>6 DEF EndBuild, TypeOK, VersionInv, BuildsCount
  <2>3. UNCHANGED <<started, rc, serving, stage, tag, mine>>
    BY <1>6 DEF EndBuild
  <2>4. BuildsCount'
    BY <2>1, <2>2, <2>3, TypeStep DEF VersionInv, BuildsCount, TypeOK
  <2>5. RunIsNewer'
    BY <2>2, <2>3, TypeStep DEF VersionInv, RunIsNewer, Older, TypeOK
  <2>. QED
    BY <2>4, <2>5 DEF VersionInv
<1>7. ASSUME NEW c \in Colours, ImageChange(c) PROVE VersionInv'
  BY <1>7 DEF ImageChange, VersionInv, BuildsCount, RunIsNewer, Older, TypeOK
<1>8. ASSUME NEW c \in Colours, EndRollout(c) PROVE VersionInv'
  BY <1>8 DEF EndRollout, VersionInv, BuildsCount, RunIsNewer, Older, TypeOK
<1>. QED
  BY <1>1, <1>2, <1>3, <1>4, <1>5, <1>6, <1>7, <1>8 DEF Next, Pipeline, Cluster

\* A switch by the pipeline brings users a later version than they had: the build
\* of a run is younger than all that was deployed when it started, and nothing
\* younger reaches the other colour while the run lasts.
THEOREM SwitchesBringNewer == Spec => SwitchesForward
<1>1. ASSUME TypeOK, LiveInv, VersionInv, SwitchesRoute, [Next]_vars
      PROVE  serving[route] < serving[route'] \/ tag \in early
  <2>1. route' = tag /\ tag \in Colours /\ route = Other(tag)
    BY <1>1 DEF SwitchesRoute, Next, Pipeline, Cluster, vars, builds, rollouts, run, observed,
       StartRun, Initialize, StartBuild, AwaitBuild, Tag, VerifyDeployment, Verified, Approve,
       GoLive, Abort, PipelineHook, BuildHook, EndBuild, ImageChange, EndRollout, SwitchByHand,
       TypeOK, Colours, Other, Goto
  <2>2. serving[route] < tags[tag]
    BY <1>1, <2>1 DEF SwitchesRoute, VersionInv, RunIsNewer, Older
  <2>3. serving[tag] = tags[tag] \/ tag \in early
    BY <1>1, <2>1 DEF SwitchesRoute, LiveInv, Verifying, RolledOut
  <2>. QED
    BY <2>1, <2>2, <2>3
<1>2. TypeOK /\ LiveInv /\ VersionInv /\ [Next]_vars =>
        [SwitchesRoute => serving[route] < serving[route'] \/ tag \in early]_vars
  BY <1>1
<1>. QED
  BY <1>2, TypeInit, TypeStep, LiveInit, LiveStep, VersionInit, VersionStep, PTL
  DEF Spec, SwitchesForward
=============================================================================
