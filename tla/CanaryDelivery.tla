--------------------------- MODULE CanaryDelivery ---------------------------
(***************************************************************************)
(* The two mutating paths of the ECS canary spike and the CloudFormation   *)
(* stack they share:                                                       *)
(*   - release.sh release: gates, register a revision, update-service;     *)
(*   - infra-deploy.sh deploy: read the running revision, sync the         *)
(*     deployed template to it, cdk deploy, release a changed recipe;      *)
(*   - infra-deploy.sh bootstrap: the first deploy.                        *)
(*                                                                         *)
(* One action is one AWS request of a script together with the checks the  *)
(* script makes on its answer, so that anything may happen between two     *)
(* requests.  Read-only commands (diff, running, --dry-run) are the        *)
(* behaviours in which a script stops before it changes anything.          *)
(***************************************************************************)
EXTENDS EcsCanaryService

CONSTANTS
  Operators,       \* terminals from which the scripts are run
  Exclusive,       \* TRUE: one operator, one terminal, one script at a time
  SyncAlways,      \* TRUE: nobody passes --no-sync
  GateAlways,      \* TRUE: nobody passes --skip-alarm-gate
  WrapperMayDie,   \* TRUE: a script may end while CloudFormation still works
  NoDigest         \* no image, in the release model of ImageRelease

ASSUME PracticesAssumption ==
  {Exclusive, SyncAlways, GateAlways, WrapperMayDie} \subseteq BOOLEAN
ASSUME NoDigestAssumption == NoDigest \notin Digests

VARIABLES
  stack,    \* the CloudFormation stack of the service
  pending,  \* the update the stack is working on
  pc,       \* pc[o]: next AWS request of the script that runs in terminal o
  ctx       \* ctx[o]: the script's arguments and what it has read so far

vars == <<taskDefs, svc, alarm, stack, pending, pc, ctx>>

\* The service's TaskDefinition property of a template: a literal revision, or
\* RecipeRef for {"Ref": "TaskDefinition..."} (activeTaskDefinitionArn=bootstrap-recipe).
RecipeRef == 0
Template  == [service : 0..MaxRevisions, settings : Settings]
NoTemplate == [service |-> RecipeRef, settings |-> 1]

Resolve(template, recipe) == IF template.service = RecipeRef THEN recipe ELSE template.service

\* "stuck": UPDATE_ROLLBACK_FAILED.
StackStatus == {"absent", "creating", "createFailed", "complete", "rolledBack",
                "updating", "settling", "rollingBack", "stuck"}
Stable      == {"complete", "rolledBack"}

\* recipe: the RecipeTaskDefinitionArn output; image: the ImageDigest parameter.
StackRecord   == [status : StackStatus, template : Template,
                  recipe : 0..MaxRevisions, image : Digests]
\* cdk: a cdk deploy, as opposed to the update-stack of the sync phase.
PendingRecord == [template : Template, recipe : 0..MaxRevisions, cdk : BOOLEAN]
NoPending     == [template |-> NoTemplate, recipe |-> 0, cdk |-> FALSE]
AnyDigest     == CHOOSE d \in Digests : TRUE

ReleasePC == {"inFlightGate", "alarmGate", "register", "updateService"}
DeployPC  == {"running", "runningCount", "sync", "syncWait", "recipeBefore",
              "cdkDeploy", "deployWait"}
PC        == {"idle", "createWait", "followUp"} \cup ReleasePC \cup DeployPC
\* The script only waits for CloudFormation here.
WaitPC    == {"createWait", "syncWait", "deployWait"}

Context == [digest   : Digests,           \* --digest, or the running digest
            rollback : BOOLEAN,           \* --mode / --recipe-release-mode revert
            skip     : BOOLEAN,           \* --skip-alarm-gate
            sync     : BOOLEAN,           \* not --no-sync
            running  : 0..MaxRevisions,   \* running_arn; 0 outside a deploy
            recipe   : 0..MaxRevisions,   \* the recipe output, as last read
            revision : 0..MaxRevisions]   \* the revision the release registered
NoContext == [digest |-> AnyDigest, rollback |-> FALSE, skip |-> FALSE,
              sync |-> FALSE, running |-> 0, recipe |-> 0, revision |-> 0]

TypeOK ==
  /\ EcsTypeOK
  /\ stack \in StackRecord
  /\ pending \in PendingRecord
  /\ pc \in [Operators -> PC]
  /\ ctx \in [Operators -> Context]

Init ==
  /\ EcsInit
  /\ stack = [status |-> "absent", template |-> NoTemplate,
              recipe |-> 0, image |-> AnyDigest]
  /\ pending = NoPending
  /\ pc = [o \in Operators |-> "idle"]
  /\ ctx = [o \in Operators |-> NoContext]

----------------------------------------------------------------------------
(* Script control. *)

\* Exclusive: one script at a time, and none before a stuck stack has been seen
\* to ("inspect the stack before anything else").
MayStart(o) ==
  /\ pc[o] = "idle"
  /\ Exclusive => stack.status # "stuck" /\ \A p \in Operators : pc[p] = "idle"

Goto(o, label) == pc' = [pc EXCEPT ![o] = label]

\* The script exits, with success or not, and its terminal is free.
Exit(o) ==
  /\ pc'  = [pc EXCEPT ![o] = "idle"]
  /\ ctx' = [ctx EXCEPT ![o] = NoContext]

HasOutputs == stack.status \notin {"absent", "creating", "createFailed"}

----------------------------------------------------------------------------
(* release.sh release *)

\* Reads the three stack outputs; a stack without them ends the script.
StartRelease(o, digest, rollback, skip) ==
  /\ MayStart(o)
  /\ HasOutputs
  /\ GateAlways => ~ skip
  /\ ctx' = [ctx EXCEPT ![o] = [NoContext EXCEPT !.digest = digest, !.rollback = rollback,
                                                 !.skip = skip, !.recipe = stack.recipe]]
  /\ Goto(o, "inFlightGate")
  /\ UNCHANGED <<ecsVars, stack, pending>>

\* Mutant: no in-flight gate at all.
NoInFlightGate(o) ==
  /\ pc[o] = "inFlightGate"
  /\ Goto(o, "alarmGate")
  /\ UNCHANGED <<ecsVars, stack, pending, ctx>>

\* Mutant: a STOPPED deployment counts as moving.
StoppedIsInFlightGate(o) ==
  /\ pc[o] = "inFlightGate"
  /\ \/ Steady /\ Goto(o, "alarmGate") /\ UNCHANGED ctx
     \/ ~ Steady /\ Exit(o)
  /\ UNCHANGED <<ecsVars, stack, pending>>

\* Gate 1: no release on top of a moving deployment; STOPPED is fine.
InFlightGate(o) ==
  /\ pc[o] = "inFlightGate"
  /\ \/ svc.phase \notin InFlight /\ Goto(o, "alarmGate") /\ UNCHANGED ctx
     \/ svc.phase \in InFlight /\ Exit(o)
  /\ UNCHANGED <<ecsVars, stack, pending>>

\* Gate 2: every watched alarm must be OK, unless the gate is skipped.
AlarmGate(o) ==
  /\ pc[o] = "alarmGate"
  /\ \/ (alarm = "OK" \/ ctx[o].skip) /\ Goto(o, "register") /\ UNCHANGED ctx
     \/ ~ (alarm = "OK" \/ ctx[o].skip) /\ Exit(o)
  /\ UNCHANGED <<ecsVars, stack, pending>>

\* Mutant: the copy is made of the running revision instead of the recipe.
RegisterCopyOfRunning(o) ==
  /\ pc[o] = "register"
  /\ RegisterTaskDefinition(taskDefs[svc.target].settings, ctx[o].digest)
  /\ ctx' = [ctx EXCEPT ![o].revision = RegisteredNext]
  /\ Goto(o, "updateService")
  /\ UNCHANGED <<svc, alarm, stack, pending>>

\* Render and register: the recipe's content with only the digest swapped.
Register(o) ==
  /\ pc[o] = "register"
  /\ RegisterTaskDefinition(taskDefs[ctx[o].recipe].settings, ctx[o].digest)
  /\ ctx' = [ctx EXCEPT ![o].revision = RegisteredNext]
  /\ Goto(o, "updateService")
  /\ UNCHANGED <<svc, alarm, stack, pending>>

ReleaseUpdatesService(o) ==
  /\ pc[o] = "updateService"
  /\ UpdateService(ctx[o].revision, ctx[o].rollback)
  /\ Exit(o)
  /\ UNCHANGED <<taskDefs, alarm, stack, pending>>

----------------------------------------------------------------------------
(* infra-deploy.sh bootstrap *)

StartBootstrap(o, digest) ==
  /\ MayStart(o)
  /\ stack.status = "absent"
  /\ stack' = [stack EXCEPT !.status = "creating", !.image = digest]
  /\ Goto(o, "createWait")
  /\ UNCHANGED <<ecsVars, pending, ctx>>

\* cdk deploy ends when the stack has been created or has failed to be.
BootstrapEnds(o) ==
  /\ pc[o] = "createWait"
  /\ stack.status # "creating"
  /\ Exit(o)
  /\ UNCHANGED <<ecsVars, stack, pending>>

----------------------------------------------------------------------------
(* infra-deploy.sh deploy *)

StartDeploy(o, sync, rollback) ==
  /\ MayStart(o)
  /\ stack.status # "absent"
  /\ SyncAlways => sync
  /\ ctx' = [ctx EXCEPT ![o] = [NoContext EXCEPT !.sync = sync, !.rollback = rollback]]
  /\ Goto(o, "running")
  /\ UNCHANGED <<ecsVars, stack, pending>>

\* steady_running_revision runs `release.sh running`: refuse unless the service has
\* one completed deployment, else remember its revision and image...
ReadRunning(o) ==
  /\ pc[o] = "running"
  /\ \/ /\ HasOutputs /\ Steady
        /\ ctx' = [ctx EXCEPT ![o].running = svc.target,
                              ![o].digest = taskDefs[svc.target].digest]
        /\ Goto(o, "runningCount")
     \/ ~ (HasOutputs /\ Steady) /\ Exit(o)
  /\ UNCHANGED <<ecsVars, stack, pending>>

\* ... and unless, in a later request, no deployment is in flight either.
CountInFlight(o) ==
  /\ pc[o] = "runningCount"
  /\ \/ /\ svc.phase \notin InFlight
        /\ Goto(o, IF ctx[o].sync THEN "sync" ELSE "recipeBefore")
        /\ UNCHANGED ctx
     \/ svc.phase \in InFlight /\ Exit(o)
  /\ UNCHANGED <<ecsVars, stack, pending>>

\* CloudFormation accepts an update only of a stack that has none in progress.
SubmitUpdate(template, cdk) ==
  /\ stack.status \in Stable
  /\ stack' = [stack EXCEPT !.status = "updating"]
  /\ pending' = [template |-> template, recipe |-> stack.recipe, cdk |-> cdk]

\* Mutant: the sync phase does nothing.
SyncForgotten(o) ==
  /\ pc[o] = "sync"
  /\ Goto(o, "recipeBefore")
  /\ UNCHANGED <<ecsVars, stack, pending, ctx>>

\* Mutant: a template that names another revision is refused, not synced.
SyncRefuses(o) ==
  /\ pc[o] = "sync"
  /\ \/ Resolve(stack.template, stack.recipe) = ctx[o].running
        /\ Goto(o, "recipeBefore") /\ UNCHANGED ctx
     \/ Resolve(stack.template, stack.recipe) # ctx[o].running /\ Exit(o)
  /\ UNCHANGED <<ecsVars, stack, pending>>

\* sync_deployed_revision: in sync when the deployed template names the running
\* revision, or when its Ref resolves to it ("No updates are to be performed").
SyncDeployedRevision(o) ==
  /\ pc[o] = "sync"
  /\ \/ /\ Resolve(stack.template, stack.recipe) = ctx[o].running
        /\ Goto(o, "recipeBefore")
        /\ UNCHANGED <<ctx, stack, pending>>
     \/ /\ Resolve(stack.template, stack.recipe) # ctx[o].running
        /\ SubmitUpdate([stack.template EXCEPT !.service = ctx[o].running], FALSE)
        /\ Goto(o, "syncWait")
        /\ UNCHANGED ctx
  /\ UNCHANGED ecsVars

\* aws cloudformation wait stack-update-complete
SyncEnds(o) ==
  /\ pc[o] = "syncWait"
  /\ \/ stack.status = "complete" /\ Goto(o, "recipeBefore") /\ UNCHANGED ctx
     \/ stack.status \in {"rolledBack", "stuck"} /\ Exit(o)
  /\ UNCHANGED <<ecsVars, stack, pending>>

ReadRecipe(o) ==
  /\ pc[o] = "recipeBefore"
  /\ ctx' = [ctx EXCEPT ![o].recipe = stack.recipe]
  /\ Goto(o, "cdkDeploy")
  /\ UNCHANGED <<ecsVars, stack, pending>>

\* cdk deploy -c activeTaskDefinitionArn=<running>, of an app whose recipe has
\* these settings.
CdkDeploy(o, settings) ==
  /\ pc[o] = "cdkDeploy"
  /\ SubmitUpdate([service |-> ctx[o].running, settings |-> settings], TRUE)
  /\ Goto(o, "deployWait")
  /\ UNCHANGED <<ecsVars, ctx>>

\* Mutant: the wrapper waits for UPDATE_COMPLETE only.
DeployEndsOnSuccessOnly(o) ==
  /\ pc[o] = "deployWait"
  /\ stack.status = "complete"
  /\ \/ stack.recipe = ctx[o].recipe /\ Exit(o)
     \/ stack.recipe # ctx[o].recipe /\ Goto(o, "followUp") /\ UNCHANGED ctx
  /\ UNCHANGED <<ecsVars, stack, pending>>

\* A failed deploy is reported; a changed recipe is released with the running
\* digest; an unchanged one ends the script.
DeployEnds(o) ==
  /\ pc[o] = "deployWait"
  /\ \/ stack.status \in {"rolledBack", "stuck"} /\ Exit(o)
     \/ stack.status = "complete" /\ stack.recipe = ctx[o].recipe /\ Exit(o)
     \/ /\ stack.status = "complete" /\ stack.recipe # ctx[o].recipe
        /\ Goto(o, "followUp") /\ UNCHANGED ctx
  /\ UNCHANGED <<ecsVars, stack, pending>>

\* Mutant: the follow-up releases the image of the ImageDigest parameter.
FollowUpReleasesParameter(o) ==
  /\ pc[o] = "followUp"
  /\ ctx' = [ctx EXCEPT ![o].recipe = stack.recipe, ![o].digest = stack.image]
  /\ Goto(o, "inFlightGate")
  /\ UNCHANGED <<ecsVars, stack, pending>>

\* release.sh release --digest <running_digest>, a new run of the script.
FollowUpRelease(o) ==
  /\ pc[o] = "followUp"
  /\ ctx' = [ctx EXCEPT ![o].recipe = stack.recipe]
  /\ Goto(o, "inFlightGate")
  /\ UNCHANGED <<ecsVars, stack, pending>>

----------------------------------------------------------------------------
(* An AWS request fails, the session expires or the operator interrupts: the
   script exits where it is (set -e).  While it waits for CloudFormation this
   happens only if WrapperMayDie, and the update goes on without the script. *)
Abort(o) ==
  /\ pc[o] # "idle"
  /\ pc[o] \in WaitPC => WrapperMayDie
  /\ Exit(o)
  /\ UNCHANGED <<ecsVars, stack, pending>>

----------------------------------------------------------------------------
(* CloudFormation (external).  The alarm rollback of the service is what the
   template's spikeProfile says: off for halt, the default, on for revert. *)

ProfileUpdatesService(revision) == \E rollback \in BOOLEAN : UpdateService(revision, rollback)

\* Create: the recipe is registered with the ImageDigest parameter and the
\* service starts on it.
CreateStack ==
  /\ stack.status = "creating"
  /\ RegisterTaskDefinition(1, stack.image)
  /\ \E rollback \in BOOLEAN : CreateService(RegisteredNext, rollback)
  /\ stack' = [stack EXCEPT !.status = "complete", !.recipe = RegisteredNext]
  /\ UNCHANGED <<alarm, pending, pc, ctx>>

\* ROLLBACK_COMPLETE: the stack exists without outputs until it is deleted.
CreateFails ==
  /\ stack.status = "creating"
  /\ stack' = [stack EXCEPT !.status = "createFailed"]
  /\ UNCHANGED <<ecsVars, pending, pc, ctx>>

DeleteFailedStack ==
  /\ stack.status = "createFailed"
  /\ stack' = [stack EXCEPT !.status = "absent"]
  /\ UNCHANGED <<ecsVars, pending, pc, ctx>>

\* A changed recipe is a replacement: CloudFormation registers a new revision.
\* Its digest is the ImageDigest parameter, which cdk reuses.
RegisterRecipe ==
  IF pending.template.settings # stack.template.settings
  THEN /\ RegisterTaskDefinition(pending.template.settings, stack.image)
       /\ pending' = [pending EXCEPT !.recipe = RegisteredNext]
  ELSE UNCHANGED <<taskDefs, pending>>

\* The resources are updated.  The service is called when its TaskDefinition
\* changed; another of its properties may have changed as well, so it is called
\* in every update, with the revision the new template names.
ApplyUpdate ==
  /\ stack.status = "updating"
  /\ RegisterRecipe
  /\ ProfileUpdatesService(Resolve(pending.template, pending'.recipe))
  /\ stack' = [stack EXCEPT !.status = "settling"]
  /\ UNCHANGED <<alarm, pc, ctx>>

\* A resource fails before the service is reached: nothing to undo on it.
FailEarly ==
  /\ stack.status = "updating"
  /\ stack' = [stack EXCEPT !.status = "rolledBack"]
  /\ pending' = NoPending
  /\ UNCHANGED <<ecsVars, pc, ctx>>

\* The service is stable on the new template's revision: UPDATE_COMPLETE.
CompleteUpdate ==
  /\ stack.status = "settling"
  /\ Steady /\ svc.target = Resolve(pending.template, pending.recipe)
  /\ stack' = [stack EXCEPT !.status = "complete", !.template = pending.template,
                            !.recipe = pending.recipe]
  /\ pending' = NoPending
  /\ UNCHANGED <<ecsVars, pc, ctx>>

\* Mutant: the service goes back to the recipe (no pinServiceTaskDefinition).
RollbackToRecipe ==
  /\ stack.status = "settling"
  /\ pending.cdk
  /\ ProfileUpdatesService(stack.recipe)
  /\ stack' = [stack EXCEPT !.status = "rollingBack"]
  /\ UNCHANGED <<taskDefs, alarm, pending, pc, ctx>>

\* A later resource fails (the wait condition of failAfterServiceUpdate), or the
\* service does not get stable: the old template is applied again.  The update of
\* the sync phase has no other resource that could fail.
StartRollback ==
  /\ stack.status = "settling"
  /\ pending.cdk
  /\ ProfileUpdatesService(Resolve(stack.template, stack.recipe))
  /\ stack' = [stack EXCEPT !.status = "rollingBack"]
  /\ UNCHANGED <<taskDefs, alarm, pending, pc, ctx>>

CompleteRollback ==
  /\ stack.status = "rollingBack"
  /\ Steady
  /\ stack' = [stack EXCEPT !.status = "rolledBack"]
  /\ pending' = NoPending
  /\ UNCHANGED <<ecsVars, pc, ctx>>

\* A resource cannot be brought back: UPDATE_ROLLBACK_FAILED.
RollbackFails ==
  /\ stack.status = "rollingBack"
  /\ stack' = [stack EXCEPT !.status = "stuck"]
  /\ pending' = NoPending
  /\ UNCHANGED <<ecsVars, pc, ctx>>

\* Somebody who has read the failure continues the rollback until it is done; the
\* service may be among what had not been rolled back.
RepairStack ==
  /\ stack.status = "stuck"
  /\ \A o \in Operators : pc[o] \notin WaitPC
  /\ UNCHANGED svc \/ ProfileUpdatesService(Resolve(stack.template, stack.recipe))
  /\ stack' = [stack EXCEPT !.status = "rolledBack"]
  /\ UNCHANGED <<taskDefs, alarm, pending, pc, ctx>>

CloudFormation ==
  \/ CreateStack \/ CreateFails \/ ApplyUpdate \/ FailEarly
  \/ CompleteUpdate \/ StartRollback \/ CompleteRollback \/ RollbackFails

----------------------------------------------------------------------------
OperatorStarts(o) ==
  \/ \E d \in Digests, rollback, skip \in BOOLEAN : StartRelease(o, d, rollback, skip)
  \/ \E d \in Digests : StartBootstrap(o, d)
  \/ \E sync, rollback \in BOOLEAN : StartDeploy(o, sync, rollback)

ReleaseStep(o) ==
  InFlightGate(o) \/ AlarmGate(o) \/ Register(o) \/ ReleaseUpdatesService(o)

DeployStep(o) ==
  \/ BootstrapEnds(o) \/ ReadRunning(o) \/ CountInFlight(o)
  \/ SyncDeployedRevision(o) \/ SyncEnds(o) \/ ReadRecipe(o) \/ (\E s \in Settings : CdkDeploy(o, s))
  \/ DeployEnds(o) \/ FollowUpRelease(o)

ScriptStep(o) == ReleaseStep(o) \/ DeployStep(o) \/ Abort(o)

Next ==
  \/ \E o \in Operators : OperatorStarts(o) \/ ScriptStep(o)
  \/ CloudFormation \/ DeleteFailedStack \/ RepairStack
  \/ EcsNext /\ UNCHANGED <<stack, pending, pc, ctx>>

Spec == Init /\ [][Next]_vars

----------------------------------------------------------------------------
(***************************************************************************)
(* Fairness.  A script that was started makes its next request or exits;   *)
(* CloudFormation and ECS go on with work they have accepted.  Nothing     *)
(* makes an operator start a script, an alarm change or a failed stack be  *)
(* deleted or repaired.                                                    *)
(***************************************************************************)
EcsSettles ==
  /\ CanaryCompletes \/ AlarmStopsCanary \/ RevertCompletes
  /\ UNCHANGED <<stack, pending, pc, ctx>>

Fairness ==
  /\ \A o \in Operators : WF_vars(ScriptStep(o))
  /\ WF_vars(CloudFormation)
  /\ WF_vars(EcsSettles)

FairSpec == Spec /\ Fairness

----------------------------------------------------------------------------
(* Properties. *)

StartsDeployment ==
  svc'.phase = "canary" /\ (svc.phase # "canary" \/ svc'.target # svc.target)

\* While a cdk deploy is at work, the template CloudFormation would roll back to
\* names the revision that runs: what infra-deploy.sh's sync phase is for.
RollbackCheckpoint ==
  stack.status \in {"updating", "settling"} /\ pending.cdk =>
    Steady /\ Resolve(stack.template, stack.recipe) = svc.target

\* No step of CloudFormation on an existing stack, failures, rollbacks and their
\* continuation included, moves the service to another revision (infra-deploy.sh:4-6).
DeployKeepsRunningRevision ==
  [][stack.status \in {"updating", "settling", "rollingBack", "stuck"}
       /\ stack'.status # stack.status => svc'.target = svc.target]_vars

\* No deployment starts while another one moves (Gate 1 of release.sh), whoever
\* calls update-service.
NoStackedDeployment == [][StartsDeployment => svc.phase \notin InFlight]_vars

\* The images that take traffic do not change during an infra deploy, its
\* follow-up release of a changed recipe included.
ServedDigests == {taskDefs[r].digest : r \in Serving}

InfraDeployKeepsImage ==
  [][(\E o \in Operators : ctx[o].running # 0)
       => {taskDefs'[r].digest : r \in Serving'} = ServedDigests]_vars

\* Whatever starts to run follows the stack's recipe of that moment, although
\* release.sh read the recipe's ARN before both gates.
ReleasesFollowRecipe ==
  [][StartsDeployment
       => taskDefs[svc'.target].settings = taskDefs[stack.recipe].settings]_vars

\* Every script run comes to an end.
ScriptsEnd == \A o \in Operators : pc[o] # "idle" ~> pc[o] = "idle"

----------------------------------------------------------------------------
(* The release model this implements. *)

DigestOf(revision) == IF revision \in DOMAIN taskDefs THEN taskDefs[revision].digest ELSE NoDigest

Releasing == {o \in Operators : pc[o] \in ReleasePC}

Image == INSTANCE ImageRelease WITH
  stable    <- DigestOf(svc.baseline),
  candidate <- IF svc.phase \in {"none", "steady"} THEN NoDigest ELSE DigestOf(svc.target),
  halted    <- svc.phase = "stopped",
  asked     <- {ctx[o].digest : o \in Releasing}

\* Production images change only as asked for by releases.
ImplementsImageRelease == Image!Spec

----------------------------------------------------------------------------
(* Statements of the repository; the first is refuted by a run of its own.
   The others are about an operator who recovers. *)

\* "if the recipe changed ..., releases the running image with the new recipe"
\* (infra-deploy.sh:13-14): when the wrapper reports that a deploy is done and
\* leaves no release to do, the service runs the stack's recipe.
DoneMeansRecipeRuns ==
  [][\A o \in Operators :
       pc[o] = "deployWait" /\ pc'[o] = "idle" /\ stack.status = "complete"
         => taskDefs[svc.target].settings = taskDefs[stack.recipe].settings]_vars

\* The operator starts a release of a good image, without the alarm gate if allowed.
StartGoodRelease(o) ==
  \E d \in Digests \ BadDigests : StartRelease(o, d, TRUE, ~ GateAlways)

\* From some point on nothing fails, nothing new goes wrong and the operator does
\* nothing but release good images, again and again.
Recovering ==
  \/ \E o \in Operators : StartGoodRelease(o) \/ ReleaseStep(o) \/ DeployStep(o)
  \/ CloudFormation \/ RepairStack
  \/ EcsSettles
  \/ AlarmRecovers /\ UNCHANGED <<stack, pending, pc, ctx>>

\* The operator who recovers: release runs of good images are started whenever
\* possible again and again, and alarms recover once nothing keeps them.
Recovery ==
  /\ \A o \in Operators : SF_vars(StartGoodRelease(o))
  /\ WF_vars(AlarmRecovers /\ UNCHANGED <<stack, pending, pc, ctx>>)
  /\ <>[][Recovering]_vars

\* "A STOPPED (halted) deployment is fine: rolling forward is how a halt is
\* fixed" (release.sh:190-191): with an operator who keeps releasing a good image
\* and revisions left to register, a halted split does not stay forever.
HaltIsRolledForward ==
  Recovery =>
    (svc.phase = "stopped" ~> svc.phase # "stopped" \/ Len(taskDefs) = MaxRevisions)

\* The operator deploys again once the service is steady, and rolls a halted split
\* forward first, as the wrapper's refusal says (infra-deploy.sh:103).
DeployAgain(o) == Steady /\ StartDeploy(o, TRUE, TRUE)
RollForward(o) == svc.phase = "stopped" /\ StartGoodRelease(o)

\* From some point on no update fails and the operator only retries.
Retrying ==
  \/ \E o \in Operators : DeployAgain(o) \/ RollForward(o) \/ ReleaseStep(o) \/ DeployStep(o)
  \/ CreateStack \/ ApplyUpdate \/ CompleteUpdate \/ CompleteRollback \/ RepairStack
  \/ EcsSettles
  \/ AlarmRecovers /\ UNCHANGED <<stack, pending, pc, ctx>>

Retry ==
  /\ \A o \in Operators : SF_vars(DeployAgain(o)) /\ SF_vars(RollForward(o))
  /\ WF_vars(RepairStack)
  /\ <>[][Retrying]_vars

\* A failed deploy leaves nothing behind that refuses the next one, whatever was
\* released in between (infra-deploy.sh:8-11, 213): with an operator who retries
\* and revisions left to register, a deploy completes on a stack that was rolled
\* back or got stuck.
RetriedDeployCompletes ==
  Retry =>
    (stack.status \in {"rolledBack", "stuck"} ~>
       \/ \E o \in Operators : pc[o] = "deployWait" /\ stack.status = "complete"
       \/ Len(taskDefs) = MaxRevisions)
=============================================================================
