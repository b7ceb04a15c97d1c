-------------------------- MODULE EcsCanaryService --------------------------
(***************************************************************************)
(* The Amazon ECS service that apps/ecs-canary-alarm-spike creates, as the *)
(* operator scripts see it through the ECS and CloudWatch APIs: registered *)
(* task definition revisions, one service with a canary deployment, and    *)
(* the deployment alarms ECS watches.                                      *)
(*                                                                         *)
(* ECS and CloudWatch are external.  What is assumed of them is what       *)
(* createCanaryService configures and what the recorded runs of the spike  *)
(* observed (H7, H8, H12 to H14 of its evidence document):                 *)
(*   - update-service to another revision starts a canary deployment, to   *)
(*     the revision the service already targets it starts none (H14);      *)
(*   - a deployment that starts while an alarm is in ALARM is not watched  *)
(*     at all (H7), one that starts without data is watched (H8);          *)
(*   - a watched deployment that sees ALARM returns to the revision before *)
(*     it when alarm rollback is on, and otherwise stops where it is (H12).*)
(***************************************************************************)
EXTENDS Naturals, Sequences

CONSTANTS
  Digests,       \* image digests a release may name
  BadDigests,    \* those whose tasks answer with errors (bad-5xx)
  MaxRevisions,  \* bound: task definition revisions ever registered
  MaxSettings    \* bound: distinct recipe contents (CPU, memory, environment)

ASSUME DigestsAssumption == Digests # {} /\ BadDigests \subseteq Digests
ASSUME BoundsAssumption  == MaxRevisions \in Nat \ {0} /\ MaxSettings \in Nat \ {0}

VARIABLES
  taskDefs,  \* taskDefs[r]: content of revision r; the task definition family
  svc,       \* the service: revisions, deployment phase, alarm configuration
  alarm      \* worst state among the alarms the service watches

ecsVars == <<taskDefs, svc, alarm>>

Settings  == 1..MaxSettings
Revisions == 1..MaxRevisions
TaskDefinition == [settings : Settings, digest : Digests]

\* NO_DATA stands for INSUFFICIENT_DATA and for an alarm that does not exist:
\* neither is OK for the release gate and neither is ALARM for ECS.
AlarmStates == {"OK", "ALARM", "NO_DATA"}

\* "none": not created.  "steady": one COMPLETED deployment.  "canary": target
\* takes part of the traffic, baseline the rest.  "stopped": a STOPPED deployment
\* whose split stays.  "reverting": ROLLBACK_IN_PROGRESS back to baseline.
Phases   == {"none", "steady", "canary", "stopped", "reverting"}
InFlight == {"canary", "reverting"}

Service == [target   : 0..MaxRevisions,
            baseline : 0..MaxRevisions,
            phase    : Phases,
            rollback : BOOLEAN,    \* deploymentConfiguration.alarms.rollback
            watched  : BOOLEAN]    \* ECS monitors the alarms of this deployment

EcsTypeOK ==
  /\ taskDefs \in Seq(TaskDefinition) /\ Len(taskDefs) <= MaxRevisions
  /\ svc \in Service
  /\ alarm \in AlarmStates

EcsInit ==
  /\ taskDefs = <<>>
  /\ svc = [target |-> 0, baseline |-> 0, phase |-> "none",
            rollback |-> FALSE, watched |-> FALSE]
  /\ alarm = "OK"

----------------------------------------------------------------------------
(* ECS API calls made by the scripts and by CloudFormation. *)

RegisteredNext == Len(taskDefs) + 1

\* Mutant: the parts of a task definition are swapped.
RegisterSwapped(settings, digest) ==
  /\ Len(taskDefs) < MaxRevisions
  /\ taskDefs' = Append(taskDefs, [settings |-> digest, digest |-> settings])

RegisterTaskDefinition(settings, digest) ==
  /\ Len(taskDefs) < MaxRevisions
  /\ taskDefs' = Append(taskDefs, [settings |-> settings, digest |-> digest])

CreateService(revision, rollback) ==
  svc' = [target |-> revision, baseline |-> revision, phase |-> "steady",
          rollback |-> rollback, watched |-> FALSE]

UpdateService(revision, rollback) ==
  IF revision = svc.target
  THEN svc' = [svc EXCEPT !.rollback = rollback]
  ELSE svc' = [target   |-> revision,
               baseline |-> svc.baseline,
               phase    |-> "canary",
               rollback |-> rollback,
               watched  |-> alarm # "ALARM"]

\* `steady` of release.sh's running_summary.
Steady == svc.phase = "steady"

----------------------------------------------------------------------------
(* What ECS and the alarms do on their own. *)

CanaryCompletes ==
  /\ svc.phase = "canary"
  /\ ~ (svc.watched /\ alarm = "ALARM")
  /\ svc' = [svc EXCEPT !.phase = "steady", !.baseline = svc.target, !.watched = FALSE]
  /\ UNCHANGED <<taskDefs, alarm>>

AlarmStopsCanary ==
  /\ svc.phase = "canary"
  /\ svc.watched /\ alarm = "ALARM"
  /\ svc' = [svc EXCEPT !.phase = IF svc.rollback THEN "reverting" ELSE "stopped"]
  /\ UNCHANGED <<taskDefs, alarm>>

RevertCompletes ==
  /\ svc.phase = "reverting"
  /\ svc' = [svc EXCEPT !.phase = "steady", !.target = svc.baseline, !.watched = FALSE]
  /\ UNCHANGED <<taskDefs, alarm>>

\* Revisions that take production traffic now.
Serving == IF svc.phase = "none" THEN {} ELSE {svc.target, svc.baseline}

ServesErrors == \E r \in Serving \cap DOMAIN taskDefs : taskDefs[r].digest \in BadDigests

\* Errors of a bad image, a watch verdict or a missing metric: any time.
AlarmDegrades ==
  /\ alarm' \in {"ALARM", "NO_DATA"} \ {alarm}
  /\ UNCHANGED <<taskDefs, svc>>

\* The error rate stays above its threshold while a bad image takes traffic.
AlarmRecovers ==
  /\ alarm # "OK"
  /\ ~ ServesErrors
  /\ alarm' = "OK"
  /\ UNCHANGED <<taskDefs, svc>>

EcsNext == CanaryCompletes \/ AlarmStopsCanary \/ RevertCompletes
             \/ AlarmDegrades \/ AlarmRecovers
=============================================================================
