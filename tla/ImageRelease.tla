---------------------------- MODULE ImageRelease ----------------------------
(***************************************************************************)
(* What the release model of the ECS canary spike promises ("pattern 2" of *)
(* docs/plans/ecs-canary-deployment-alarm-spike.md, section 6.8): the      *)
(* image in production changes only because somebody asked for that image  *)
(* in a release.  Infrastructure deploys, failed deploys and their         *)
(* rollbacks do not appear here at all: to this specification they must    *)
(* look like nothing happened, or like a release of the image that runs.   *)
(***************************************************************************)
CONSTANTS Digests, NoDigest

VARIABLES
  stable,     \* the image of the last deployment that completed
  candidate,  \* the image that takes part of the traffic, or NoDigest
  halted,     \* the split was frozen by an alarm
  asked       \* images named by releases that are under way

imageVars == <<stable, candidate, halted, asked>>

Init == stable = NoDigest /\ candidate = NoDigest /\ halted = FALSE /\ asked = {}

\* The first deploy: the service starts on the image of the recipe.
Launch(d) ==
  /\ stable = NoDigest
  /\ stable' = d
  /\ UNCHANGED <<candidate, halted, asked>>

\* A release names an image; it may be refused or fail before it deploys.
Ask(d) ==
  /\ asked' = asked \cup {d}
  /\ UNCHANGED <<stable, candidate, halted>>

Withdraw ==
  /\ asked' \in SUBSET asked
  /\ UNCHANGED <<stable, candidate, halted>>

\* A canary of an asked image starts, from one stable image or from a halted
\* split (rolling forward), never on top of a canary that still moves.
Begin(d) ==
  /\ d \in asked
  /\ stable # NoDigest
  /\ candidate = NoDigest \/ halted
  /\ candidate' = d
  /\ halted' = FALSE
  /\ asked' \in SUBSET asked
  /\ UNCHANGED stable

Promote ==
  /\ candidate # NoDigest /\ ~ halted
  /\ stable' = candidate
  /\ candidate' = NoDigest
  /\ UNCHANGED <<halted, asked>>

Revert ==
  /\ candidate # NoDigest /\ ~ halted
  /\ candidate' = NoDigest
  /\ UNCHANGED <<stable, halted, asked>>

Halt ==
  /\ candidate # NoDigest
  /\ halted' = TRUE
  /\ UNCHANGED <<stable, candidate, asked>>

Next ==
  \/ \E d \in Digests : Launch(d) \/ Ask(d) \/ Begin(d)
  \/ Withdraw \/ Promote \/ Revert \/ Halt

Spec == Init /\ [][Next]_imageVars
=============================================================================
