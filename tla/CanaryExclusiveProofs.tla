------------------------ MODULE CanaryExclusiveProofs ------------------------
(***************************************************************************)
(* What the two scripts guarantee when they are used as the runbook says:  *)
(* one operator runs one script at a time, nobody passes --no-sync, and    *)
(* the wrapper survives until CloudFormation is done.  Three parts: where  *)
(* the service is, what is released, and the refinement of ImageRelease.   *)
(***************************************************************************)
EXTENDS CanaryDeliveryProofs

Practices == Exclusive /\ SyncAlways /\ ~ WrapperMayDie

(***************************************************************************)
(* The inductive invariant.  RollbackCheckpoint speaks of the moment an    *)
(* update is at work; why it holds then is decided earlier, step by step,  *)
(* in the script: the running revision is read while the service is        *)
(* steady, nobody else moves the service afterwards, and the deployed      *)
(* template is brought to that revision before cdk deploy is called.       *)
(***************************************************************************)
Working == stack.status \in {"updating", "settling", "rollingBack", "stuck"}

Deploying(o) == pc[o] \in {"runningCount", "sync", "syncWait", "recipeBefore", "cdkDeploy", "deployWait"}

Checkpoint == Resolve(stack.template, stack.recipe) = svc.target

Solo == \A o, p \in Operators : pc[o] # "idle" /\ pc[p] # "idle" => o = p

DeployInv(o) ==
  /\ pc[o] \in {"running", "runningCount"} => ctx[o].sync
  /\ Deploying(o) => HasOutputs /\ Steady /\ ctx[o].running = svc.target
  /\ pc[o] \in {"recipeBefore", "cdkDeploy", "deployWait"} => Checkpoint
  /\ pc[o] = "syncWait" /\ stack.status = "complete" => Checkpoint

GateInv(o) ==
  pc[o] \in {"alarmGate", "register", "updateService"} => svc.phase \notin InFlight

\* CloudFormation works only for a wrapper that waits for it, and a stack that got
\* stuck is repaired before anything else.
WorkInv ==
  /\ Working /\ stack.status # "stuck" => \E o \in Operators :
       /\ pc[o] \in {"syncWait", "deployWait"}
       /\ pending.cdk <=> pc[o] = "deployWait"
       /\ pending.template.service = svc.target
  /\ stack.status = "stuck" =>
       /\ Steady /\ Checkpoint
       /\ \A o \in Operators : pc[o] \in {"idle", "deployWait"}
  /\ stack.status = "rollingBack" => pending.cdk

IInv == Typed /\ Solo /\ WorkInv /\ \A o \in Operators : DeployInv(o) /\ GateInv(o)

LEMMA InitIInv == Init => IInv
<1> SUFFICES ASSUME Init PROVE IInv
  OBVIOUS
<1>1. \A o \in Operators : pc[o] = "idle"
  BY DEF Init
<1>2. stack.status = "absent"
  BY DEF Init
<1>3. Solo /\ WorkInv
  BY <1>1, <1>2 DEF Solo, WorkInv, Working
<1>4. \A o \in Operators : DeployInv(o) /\ GateInv(o)
  BY <1>1 DEF DeployInv, GateInv, Deploying
<1>5. QED
  BY <1>3, <1>4, InitTyped DEF IInv

----------------------------------------------------------------------------
(* Control: who is active, and what that says about CloudFormation. *)

\* The script in terminal o is the only one that runs, or may be started.
Active(o) == \A p \in Operators : p # o => pc[p] = "idle"

LEMMA SoloActive ==
  ASSUME IInv, NEW o \in Operators, pc[o] # "idle"
  PROVE  Active(o)
  BY DEF IInv, Solo, Active

LEMMA MayStartActive ==
  ASSUME Practices, IInv, NEW o \in Operators, MayStart(o)
  PROVE  Active(o) /\ ~ Working
  BY DEF Practices, MayStart, Active, IInv, WorkInv

LEMMA NotWorking ==
  ASSUME IInv, NEW o \in Operators, pc[o] \notin {"idle", "syncWait", "deployWait"}
  PROVE  ~ Working
  BY DEF IInv, Solo, WorkInv

\* After a step of o, only the parts of the invariant about o need a proof.
LEMMA OthersIdle ==
  ASSUME Typed', Typed, NEW o \in Operators, Active(o), NEW label \in PC,
         pc' = [pc EXCEPT ![o] = label],
         DeployInv(o)', GateInv(o)', WorkInv'
  PROVE  IInv'
<1>1. pc \in [Operators -> PC]
  BY DEF Typed, TypeOK
<1>2. \A p \in Operators : p # o => pc'[p] = "idle"
  BY <1>1 DEF Active
<1>3. Solo'
  BY <1>2 DEF Solo
<1>4. \A p \in Operators : p # o => DeployInv(p)' /\ GateInv(p)'
  BY <1>2 DEF DeployInv, GateInv, Deploying
<1>5. QED
  BY <1>3, <1>4 DEF IInv

LEMMA QuietIInv ==
  ASSUME Typed', IInv, NEW o \in Operators, Active(o), NEW label \in PC,
         pc' = [pc EXCEPT ![o] = label],
         UNCHANGED <<ecsVars, stack, pending>>, ~ Working,
         DeployInv(o)', GateInv(o)'
  PROVE  IInv'
<1>1. WorkInv'
  BY DEF WorkInv, Working
<1>2. QED
  BY <1>1, OthersIdle DEF IInv

LEMMA ExitIInv ==
  ASSUME Typed', IInv, NEW o \in Operators, Active(o), Exit(o),
         UNCHANGED stack, ~ Working
  PROVE  IInv'
<1>1. pc \in [Operators -> PC] /\ pc' = [pc EXCEPT ![o] = "idle"] /\ "idle" \in PC
  BY DEF IInv, Typed, TypeOK, Exit, PC
<1>2. pc'[o] = "idle"
  BY <1>1
<1>3. DeployInv(o)' /\ GateInv(o)'
  BY <1>2 DEF DeployInv, GateInv, Deploying
<1>4. WorkInv'
  BY DEF WorkInv, Working
<1>5. QED
  BY <1>1, <1>3, <1>4, OthersIdle DEF IInv

\* The wrapper reports a stack that got stuck and leaves it as it is.
LEMMA StuckExitIInv ==
  ASSUME Typed', IInv, NEW o \in Operators, Active(o), Exit(o),
         UNCHANGED <<ecsVars, stack>>, stack.status = "stuck"
  PROVE  IInv'
<1>1. pc \in [Operators -> PC] /\ pc' = [pc EXCEPT ![o] = "idle"] /\ "idle" \in PC
  BY DEF IInv, Typed, TypeOK, Exit, PC
<1>2. pc'[o] = "idle" /\ \A p \in Operators : pc'[p] = "idle"
  BY <1>1 DEF Active
<1>3. DeployInv(o)' /\ GateInv(o)'
  BY <1>2 DEF DeployInv, GateInv, Deploying
<1>4. WorkInv'
  BY <1>2 DEF IInv, WorkInv, Working, Steady, Checkpoint, ecsVars
<1>5. QED
  BY <1>1, <1>3, <1>4, OthersIdle DEF IInv

----------------------------------------------------------------------------
(* The script actions. *)

LEMMA StartsIInv ==
  ASSUME Practices, Typed', IInv, NEW o \in Operators, OperatorStarts(o)
  PROVE  IInv'
<1>1. /\ pc \in [Operators -> PC] /\ ctx \in [Operators -> Context]
      /\ Active(o) /\ ~ Working
  BY MayStartActive DEF IInv, Typed, TypeOK, OperatorStarts, StartRelease, StartBootstrap, StartDeploy
<1>2. ASSUME NEW d \in Digests, NEW rollback \in BOOLEAN, NEW skip \in BOOLEAN,
             StartRelease(o, d, rollback, skip)
      PROVE  IInv'
  <2>1. /\ pc' = [pc EXCEPT ![o] = "inFlightGate"] /\ UNCHANGED <<ecsVars, stack, pending>>
        /\ "inFlightGate" \in PC
    BY <1>2 DEF StartRelease, Goto, PC, ReleasePC
  <2>2. pc'[o] = "inFlightGate"
    BY <1>1, <2>1
  <2>3. DeployInv(o)' /\ GateInv(o)'
    BY <2>2 DEF DeployInv, GateInv, Deploying
  <2>4. QED
    BY <1>1, <2>1, <2>3, QuietIInv
<1>3. ASSUME NEW d \in Digests, StartBootstrap(o, d) PROVE IInv'
  <2>1. /\ pc' = [pc EXCEPT ![o] = "createWait"] /\ "createWait" \in PC
        /\ stack' = [stack EXCEPT !.status = "creating", !.image = d] /\ stack \in StackRecord
    BY <1>3 DEF StartBootstrap, Goto, PC, IInv, Typed, TypeOK
  <2>2. pc'[o] = "createWait" /\ stack'.status = "creating"
    BY <1>1, <2>1 DEF StackRecord
  <2>3. DeployInv(o)' /\ GateInv(o)' /\ WorkInv'
    BY <2>2 DEF DeployInv, GateInv, Deploying, WorkInv, Working
  <2>4. QED
    BY <1>1, <2>1, <2>3, OthersIdle DEF IInv
<1>4. ASSUME NEW sync \in BOOLEAN, NEW rollback \in BOOLEAN, StartDeploy(o, sync, rollback)
      PROVE  IInv'
  <2>1. /\ pc' = [pc EXCEPT ![o] = "running"] /\ UNCHANGED <<ecsVars, stack, pending>>
        /\ "running" \in PC /\ sync
        /\ ctx' = [ctx EXCEPT ![o] = [NoContext EXCEPT !.sync = sync, !.rollback = rollback]]
    BY <1>4 DEF StartDeploy, Goto, PC, DeployPC, Practices
  <2>2. pc'[o] = "running" /\ ctx'[o].sync
    BY <1>1, <2>1, NoContextType DEF NoContext
  <2>3. DeployInv(o)' /\ GateInv(o)'
    BY <2>2 DEF DeployInv, GateInv, Deploying
  <2>4. QED
    BY <1>1, <2>1, <2>3, QuietIInv
<1>5. QED
  BY <1>2, <1>3, <1>4 DEF OperatorStarts

LEMMA ReleaseIInv ==
  ASSUME Typed', IInv, NEW o \in Operators, ReleaseStep(o)
  PROVE  IInv'
<1>1. /\ pc \in [Operators -> PC] /\ GateInv(o)
      /\ pc[o] \in {"inFlightGate", "alarmGate", "register", "updateService"}
  BY DEF IInv, Typed, TypeOK, ReleaseStep, InFlightGate, AlarmGate, Register, ReleaseUpdatesService
<1>2. Active(o) /\ ~ Working
  BY <1>1, SoloActive, NotWorking
<1>3. UNCHANGED <<stack, pending>>
  BY DEF ReleaseStep, InFlightGate, AlarmGate, Register, ReleaseUpdatesService
<1>4. CASE Exit(o)
  BY <1>2, <1>3, <1>4, ExitIInv
<1>5. CASE \E label \in {"alarmGate", "register", "updateService"} :
             Goto(o, label) /\ svc.phase \notin InFlight /\ svc' = svc
  <2>1. PICK label \in {"alarmGate", "register", "updateService"} :
          Goto(o, label) /\ svc.phase \notin InFlight /\ svc' = svc
    BY <1>5
  <2>2. pc' = [pc EXCEPT ![o] = label] /\ label \in PC /\ pc'[o] = label
    BY <1>1, <2>1 DEF Goto, PC, ReleasePC
  <2>3. DeployInv(o)' /\ GateInv(o)'
    BY <2>1, <2>2 DEF DeployInv, GateInv, Deploying
  <2>4. WorkInv'
    BY <1>2, <1>3 DEF WorkInv, Working
  <2>5. QED
    BY <1>2, <2>2, <2>3, <2>4, OthersIdle DEF IInv
<1>6. QED
  BY <1>1, <1>4, <1>5 DEF ReleaseStep, InFlightGate, AlarmGate, Register, ReleaseUpdatesService,
     GateInv, ecsVars

\* A step of the wrapper to a label from which it still watches over the service.
LEMMA WatchIInv ==
  ASSUME Typed', IInv, NEW o \in Operators, Active(o), ~ Working,
         NEW label \in {"runningCount", "sync", "recipeBefore", "cdkDeploy"},
         Goto(o, label), UNCHANGED <<ecsVars, stack, pending>>,
         HasOutputs, Steady, ctx'[o].running = svc.target,
         label = "runningCount" => ctx'[o].sync,
         label \in {"recipeBefore", "cdkDeploy"} => Checkpoint
  PROVE  IInv'
<1>1. pc \in [Operators -> PC] /\ pc' = [pc EXCEPT ![o] = label] /\ label \in PC
  BY DEF IInv, Typed, TypeOK, Goto, PC, DeployPC
<1>2. pc'[o] = label /\ UNCHANGED <<svc, stack>>
  BY <1>1 DEF ecsVars
<1>3. DeployInv(o)'
  BY <1>2 DEF DeployInv, Deploying, HasOutputs, Steady, Checkpoint
<1>4. GateInv(o)'
  BY <1>2 DEF GateInv
<1>5. QED
  BY <1>1, <1>3, <1>4, QuietIInv

\* A step of the wrapper that hands an update to CloudFormation.
LEMMA SubmitIInv ==
  ASSUME Typed', IInv, NEW o \in Operators, Deploying(o),
         NEW t, t.service = ctx[o].running, NEW label \in {"syncWait", "deployWait"},
         SubmitUpdate(t, label = "deployWait"), Goto(o, label), UNCHANGED <<ecsVars, ctx>>,
         label = "deployWait" => Checkpoint
  PROVE  IInv'
<1>1. /\ pc \in [Operators -> PC] /\ pc' = [pc EXCEPT ![o] = label] /\ label \in PC
      /\ stack \in StackRecord /\ DeployInv(o)
  BY DEF IInv, Typed, TypeOK, Goto, PC, DeployPC
<1>2. pc'[o] = label /\ UNCHANGED <<svc, ctx>>
  BY <1>1 DEF ecsVars
<1>3. /\ stack'.status = "updating" /\ stack'.recipe = stack.recipe
      /\ stack'.template = stack.template
      /\ pending'.template = t /\ pending'.cdk = (label = "deployWait")
  BY <1>1 DEF SubmitUpdate, StackRecord
<1>4. Steady /\ ctx[o].running = svc.target
  BY <1>1 DEF DeployInv
<1>5. DeployInv(o)'
  BY <1>2, <1>3, <1>4 DEF DeployInv, Deploying, HasOutputs, Steady, Checkpoint
<1>6. GateInv(o)'
  BY <1>2 DEF GateInv
<1>7. WorkInv'
  BY <1>2, <1>3, <1>4 DEF WorkInv
<1>8. Active(o)
  BY SoloActive DEF Deploying
<1>9. QED
  BY <1>1, <1>5, <1>6, <1>7, <1>8, OthersIdle DEF IInv

LEMMA DeployIInv ==
  ASSUME Practices, Typed', IInv, NEW o \in Operators, DeployStep(o) \/ Abort(o)
  PROVE  IInv'
<1>1. DeployInv(o) /\ ctx \in [Operators -> Context] /\ stack \in StackRecord
  BY DEF IInv, Typed, TypeOK
<1>2. Active(o)
  BY SoloActive DEF DeployStep, BootstrapEnds, ReadRunning, CountInFlight, SyncDeployedRevision, SyncEnds,
     ReadRecipe, CdkDeploy, DeployEnds, FollowUpRelease, Abort
<1>3. CASE BootstrapEnds(o) \/ Abort(o)
  <2>1. ~ Working /\ Exit(o) /\ UNCHANGED stack
    BY <1>3, NotWorking DEF BootstrapEnds, Abort, Practices, WaitPC
  <2>2. QED
    BY <1>2, <2>1, ExitIInv
<1>4. CASE ReadRunning(o)
  <2>1. ~ Working /\ UNCHANGED <<ecsVars, stack, pending>> /\ ctx[o].sync
    BY <1>1, <1>4, NotWorking DEF ReadRunning, DeployInv
  <2>2. CASE Exit(o)
    BY <1>2, <2>1, <2>2, ExitIInv
  <2>3. CASE /\ HasOutputs /\ Steady
             /\ ctx' = [ctx EXCEPT ![o].running = svc.target,
                                   ![o].digest = taskDefs[svc.target].digest]
             /\ Goto(o, "runningCount")
    <3>1. ctx'[o].running = svc.target /\ ctx'[o].sync
      BY <1>1, <2>1, <2>3 DEF Context
    <3>2. QED
      BY <1>2, <2>1, <2>3, <3>1, WatchIInv
  <2>4. QED
    BY <1>4, <2>1, <2>2, <2>3 DEF ReadRunning
<1>12. CASE CountInFlight(o)
  <2>1. /\ ~ Working /\ UNCHANGED <<ecsVars, stack, pending>> /\ ctx[o].sync
        /\ HasOutputs /\ Steady /\ ctx[o].running = svc.target
    BY <1>1, <1>12, NotWorking DEF CountInFlight, DeployInv, Deploying
  <2>2. CASE Exit(o)
    BY <1>2, <2>1, <2>2, ExitIInv
  <2>3. CASE Goto(o, "sync") /\ UNCHANGED ctx
    BY <1>2, <2>1, <2>3, WatchIInv
  <2>4. QED
    BY <1>12, <2>1, <2>2, <2>3 DEF CountInFlight
<1>5. CASE SyncDeployedRevision(o)
  <2>1. /\ pc[o] = "sync" /\ Deploying(o) /\ ~ Working /\ UNCHANGED ecsVars
        /\ HasOutputs /\ Steady /\ ctx[o].running = svc.target
    BY <1>1, <1>5, NotWorking DEF SyncDeployedRevision, Deploying, DeployInv
  <2>2. CASE /\ Resolve(stack.template, stack.recipe) = ctx[o].running
             /\ Goto(o, "recipeBefore") /\ UNCHANGED <<ctx, stack, pending>>
    <3>1. Checkpoint /\ ctx'[o].running = svc.target
      BY <2>1, <2>2 DEF Checkpoint
    <3>2. QED
      BY <1>2, <2>1, <2>2, <3>1, WatchIInv
  <2>3. CASE /\ SubmitUpdate([stack.template EXCEPT !.service = ctx[o].running], FALSE)
             /\ Goto(o, "syncWait") /\ UNCHANGED ctx
    <3> DEFINE t == [stack.template EXCEPT !.service = ctx[o].running]
    <3>1. t.service = ctx[o].running
      BY <1>1 DEF StackRecord, Template
    <3>2. SubmitUpdate(t, "syncWait" = "deployWait")
      BY <2>3
    <3> HIDE DEF t
    <3>3. QED
      BY <2>1, <2>3, <3>1, <3>2, SubmitIInv
  <2>4. QED
    BY <1>5, <2>2, <2>3 DEF SyncDeployedRevision
<1>6. CASE SyncEnds(o)
  <2>1. /\ pc[o] = "syncWait" /\ stack.status \in {"complete", "rolledBack"} /\ ~ Working
        /\ UNCHANGED <<ecsVars, stack, pending>>
        /\ HasOutputs /\ Steady /\ ctx[o].running = svc.target
    BY <1>1, <1>6 DEF SyncEnds, Working, WorkInv, IInv, DeployInv, Deploying
  <2>2. CASE Exit(o)
    BY <1>2, <2>1, <2>2, ExitIInv
  <2>3. CASE stack.status = "complete" /\ Goto(o, "recipeBefore") /\ UNCHANGED ctx
    <3>1. Checkpoint
      BY <1>1, <2>1, <2>3 DEF DeployInv
    <3>2. QED
      BY <1>2, <2>1, <2>3, <3>1, WatchIInv
  <2>4. QED
    BY <1>6, <2>2, <2>3 DEF SyncEnds
<1>7. CASE ReadRecipe(o)
  <2>1. /\ pc[o] = "recipeBefore" /\ ~ Working /\ UNCHANGED <<ecsVars, stack, pending>>
        /\ HasOutputs /\ Steady /\ ctx[o].running = svc.target /\ Checkpoint
        /\ ctx' = [ctx EXCEPT ![o].recipe = stack.recipe] /\ Goto(o, "cdkDeploy")
    BY <1>1, <1>7, NotWorking DEF ReadRecipe, DeployInv, Deploying
  <2>2. ctx'[o].running = svc.target
    BY <1>1, <2>1 DEF Context
  <2>3. QED
    BY <1>2, <2>1, <2>2, WatchIInv
<1>8. ASSUME NEW s \in Settings, CdkDeploy(o, s) PROVE IInv'
  <2> DEFINE t == [service |-> ctx[o].running, settings |-> s]
  <2>1. Deploying(o) /\ Checkpoint
    BY <1>1, <1>8 DEF CdkDeploy, Deploying, DeployInv
  <2>2. /\ t.service = ctx[o].running /\ SubmitUpdate(t, "deployWait" = "deployWait")
        /\ Goto(o, "deployWait") /\ UNCHANGED <<ecsVars, ctx>>
    BY <1>8 DEF CdkDeploy
  <2> HIDE DEF t
  <2>3. QED
    BY <2>1, <2>2, SubmitIInv
<1>9. CASE DeployEnds(o)
  <2>1. (Working <=> stack.status = "stuck") /\ UNCHANGED <<ecsVars, stack, pending>>
    BY <1>9 DEF DeployEnds, Working
  <2>2. CASE Exit(o) /\ ~ Working
    BY <1>2, <2>1, <2>2, ExitIInv
  <2>5. CASE Exit(o) /\ Working
    BY <1>2, <2>1, <2>5, StuckExitIInv
  <2>3. CASE Goto(o, "followUp") /\ ~ Working
    <3>1. pc \in [Operators -> PC] /\ pc' = [pc EXCEPT ![o] = "followUp"] /\ "followUp" \in PC
      BY <2>3 DEF IInv, Typed, TypeOK, Goto, PC
    <3>2. pc'[o] = "followUp"
      BY <3>1
    <3>3. DeployInv(o)' /\ GateInv(o)'
      BY <3>2 DEF DeployInv, GateInv, Deploying
    <3>4. QED
      BY <1>2, <2>1, <2>3, <3>1, <3>3, QuietIInv
  <2>4. QED
    BY <1>9, <2>2, <2>3, <2>5 DEF DeployEnds, Working
<1>10. CASE FollowUpRelease(o)
  <2>1. /\ ~ Working /\ UNCHANGED <<ecsVars, stack, pending>>
        /\ pc \in [Operators -> PC] /\ pc' = [pc EXCEPT ![o] = "inFlightGate"]
        /\ "inFlightGate" \in PC
    BY <1>10, NotWorking DEF FollowUpRelease, IInv, Typed, TypeOK, Goto, PC, ReleasePC
  <2>2. pc'[o] = "inFlightGate"
    BY <2>1
  <2>3. DeployInv(o)' /\ GateInv(o)'
    BY <2>2 DEF DeployInv, GateInv, Deploying
  <2>4. QED
    BY <1>2, <2>1, <2>3, QuietIInv
<1>11. QED
  BY <1>3, <1>4, <1>5, <1>6, <1>7, <1>8, <1>9, <1>10, <1>12 DEF DeployStep

----------------------------------------------------------------------------
(* CloudFormation and ECS. *)

\* The heart of the argument: neither the new template nor the old one names
\* another revision than the one that runs, so the service is left alone.
LEMMA UpdateKeepsService ==
  ASSUME IInv, ApplyUpdate \/ StartRollback \/ RepairStack
  PROVE  svc'.target = svc.target /\ svc'.baseline = svc.baseline /\ svc'.phase = svc.phase
<1>1. Working /\ StackRefs /\ ServiceRefs /\ svc \in Service
  BY DEF ApplyUpdate, StartRollback, RepairStack, Working, IInv, Typed, TypeOK, EcsTypeOK, RefsOK
<1>2. svc.target # 0
  BY <1>1 DEF StackRefs, ServiceRefs, Working, HasOutputs
<1>3. ASSUME ProfileUpdatesService(svc.target)
      PROVE  svc'.target = svc.target /\ svc'.baseline = svc.baseline /\ svc'.phase = svc.phase
  <2>1. PICK rollback \in BOOLEAN : svc' = [svc EXCEPT !.rollback = rollback]
    BY <1>3 DEF ProfileUpdatesService, UpdateService
  <2>2. QED
    BY <1>1, <2>1 DEF Service
<1>4. CASE ApplyUpdate \/ StartRollback
  <2>1. stack.status # "stuck"
    BY <1>4 DEF ApplyUpdate, StartRollback
  <2>2. PICK o \in Operators : /\ pc[o] \in {"syncWait", "deployWait"}
                               /\ pending.cdk <=> pc[o] = "deployWait"
                               /\ pending.template.service = svc.target
    BY <1>1, <2>1 DEF IInv, WorkInv
  <2>3. CASE ApplyUpdate
    <3>1. ProfileUpdatesService(Resolve(pending.template, pending'.recipe))
      BY <2>3 DEF ApplyUpdate
    <3>2. Resolve(pending.template, pending'.recipe) = svc.target
      BY <1>2, <2>2 DEF Resolve, RecipeRef
    <3>3. QED
      BY <1>3, <3>1, <3>2
  <2>4. CASE StartRollback
    <3>1. ProfileUpdatesService(Resolve(stack.template, stack.recipe)) /\ pending.cdk
      BY <2>4 DEF StartRollback
    <3>2. DeployInv(o)
      BY DEF IInv
    <3>3. Resolve(stack.template, stack.recipe) = svc.target
      BY <2>2, <3>1, <3>2 DEF DeployInv, Checkpoint
    <3>4. QED
      BY <1>3, <3>1, <3>3
  <2>5. QED
    BY <1>4, <2>3, <2>4
<1>5. CASE RepairStack
  <2>1. Resolve(stack.template, stack.recipe) = svc.target
    BY <1>5 DEF RepairStack, IInv, WorkInv, Checkpoint
  <2>2. QED
    BY <1>3, <1>5, <2>1 DEF RepairStack
<1>6. QED
  BY <1>4, <1>5

\* The same of CompleteUpdate: the new template is a checkpoint as well.
LEMMA CompletedIsCheckpoint ==
  ASSUME IInv, CompleteUpdate
  PROVE  Checkpoint'
<1>1. /\ stack.status = "settling" /\ stack \in StackRecord /\ pending \in PendingRecord
      /\ stack' = [stack EXCEPT !.status = "complete", !.template = pending.template,
                                !.recipe = pending.recipe]
      /\ svc' = svc /\ svc.target = Resolve(pending.template, pending.recipe)
  BY DEF CompleteUpdate, IInv, Typed, TypeOK, ecsVars
<1>2. stack'.template = pending.template /\ stack'.recipe = pending.recipe
  BY <1>1 DEF StackRecord
<1>3. QED
  BY <1>1, <1>2 DEF Checkpoint

LEMMA StackIInv ==
  ASSUME Typed', IInv, CloudFormation \/ DeleteFailedStack \/ RepairStack
  PROVE  IInv'
<1>1. /\ stack \in StackRecord /\ svc \in Service /\ pending \in PendingRecord
      /\ \A o \in Operators : DeployInv(o) /\ GateInv(o)
  BY DEF IInv, Typed, TypeOK, EcsTypeOK
<1>2. UNCHANGED <<pc, ctx>>
  BY DEF CloudFormation, CreateStack, CreateFails, ApplyUpdate, FailEarly, CompleteUpdate,
         StartRollback, CompleteRollback, RollbackFails, DeleteFailedStack, RepairStack
<1>3. Solo'
  BY <1>2 DEF IInv, Solo
<1>4. CASE CreateStack \/ CreateFails \/ DeleteFailedStack
  <2>1. /\ stack.status \in {"creating", "createFailed"} /\ ~ Working'
        /\ svc' = svc \/ svc'.phase = "steady"
    <3>1. CASE CreateStack
      BY <1>1, <3>1 DEF CreateStack, StackRecord, Working, CreateService
    <3>2. CASE CreateFails \/ DeleteFailedStack
      BY <1>1, <3>2 DEF CreateFails, DeleteFailedStack, StackRecord, Working, ecsVars
    <3>3. QED
      BY <1>4, <3>1, <3>2
  <2>2. \A o \in Operators : ~ Deploying(o)
    BY <1>1, <2>1 DEF DeployInv, HasOutputs
  <2>3. ASSUME NEW o \in Operators PROVE DeployInv(o)' /\ GateInv(o)'
    BY <1>1, <1>2, <2>1, <2>2 DEF DeployInv, GateInv, Deploying, InFlight
  <2>4. QED
    BY <1>3, <2>1, <2>3 DEF IInv, WorkInv, Working
<1>5. CASE ApplyUpdate \/ StartRollback
  <2>2. svc'.target = svc.target /\ svc'.phase = svc.phase
    BY <1>5, UpdateKeepsService
  <2>3. /\ stack'.status \in {"settling", "rollingBack"} /\ stack.status # "stuck"
        /\ stack'.status = "rollingBack" => pending.cdk
        /\ stack'.template = stack.template /\ stack'.recipe = stack.recipe
        /\ pending'.template = pending.template /\ pending'.cdk = pending.cdk
        /\ Working
    BY <1>1, <1>5 DEF ApplyUpdate, StartRollback, RegisterRecipe, StackRecord, PendingRecord, Working
  <2>4. ASSUME NEW o \in Operators PROVE DeployInv(o)' /\ GateInv(o)'
    BY <1>1, <1>2, <2>2, <2>3 DEF DeployInv, GateInv, Deploying, HasOutputs, Steady, Checkpoint
  <2>5. WorkInv'
    BY <1>2, <2>2, <2>3 DEF IInv, WorkInv
  <2>6. QED
    BY <1>3, <2>4, <2>5 DEF IInv
<1>9. CASE RepairStack
  <2>1. /\ svc'.target = svc.target /\ svc'.phase = svc.phase /\ stack'.status = "rolledBack"
        /\ stack'.template = stack.template /\ stack'.recipe = stack.recipe
    BY <1>1, <1>9, UpdateKeepsService DEF RepairStack, StackRecord
  <2>2. ASSUME NEW o \in Operators PROVE DeployInv(o)' /\ GateInv(o)'
    BY <1>1, <1>2, <2>1 DEF DeployInv, GateInv, Deploying, HasOutputs, Steady, Checkpoint
  <2>3. WorkInv'
    BY <2>1 DEF WorkInv, Working
  <2>4. QED
    BY <1>3, <2>2, <2>3 DEF IInv
<1>10. CASE RollbackFails
  <2>1. /\ svc' = svc /\ stack.status = "rollingBack" /\ stack'.status = "stuck"
        /\ stack'.template = stack.template /\ stack'.recipe = stack.recipe
    BY <1>1, <1>10 DEF RollbackFails, StackRecord, ecsVars
  <2>2. ASSUME NEW o \in Operators PROVE DeployInv(o)' /\ GateInv(o)'
    BY <1>1, <1>2, <2>1 DEF DeployInv, GateInv, Deploying, HasOutputs, Steady, Checkpoint
  <2>3. PICK w \in Operators : pc[w] = "deployWait"
    BY <2>1 DEF IInv, WorkInv, Working
  <2>4. \A o \in Operators : pc[o] \in {"idle", "deployWait"}
    BY <2>3 DEF IInv, Solo
  <2>5. Steady /\ Checkpoint
    BY <1>1, <2>3 DEF DeployInv, Deploying
  <2>6. WorkInv'
    BY <1>2, <2>1, <2>4, <2>5 DEF WorkInv, Working, Steady, Checkpoint
  <2>7. QED
    BY <1>3, <2>2, <2>6 DEF IInv
<1>6. CASE FailEarly \/ CompleteRollback
  <2>1. /\ svc' = svc /\ stack'.status = "rolledBack"
        /\ stack'.template = stack.template /\ stack'.recipe = stack.recipe
    BY <1>1, <1>6 DEF FailEarly, CompleteRollback, StackRecord, ecsVars
  <2>2. ASSUME NEW o \in Operators PROVE DeployInv(o)' /\ GateInv(o)'
    BY <1>1, <1>2, <2>1 DEF DeployInv, GateInv, Deploying, HasOutputs, Steady, Checkpoint
  <2>3. WorkInv'
    BY <2>1 DEF WorkInv, Working
  <2>4. QED
    BY <1>3, <2>2, <2>3 DEF IInv
<1>7. CASE CompleteUpdate
  <2>1. Checkpoint'
    BY <1>7, CompletedIsCheckpoint
  <2>2. svc' = svc /\ stack'.status = "complete"
    BY <1>1, <1>7 DEF CompleteUpdate, StackRecord, ecsVars
  <2>3. ASSUME NEW o \in Operators PROVE DeployInv(o)' /\ GateInv(o)'
    BY <1>1, <1>2, <2>1, <2>2 DEF DeployInv, GateInv, Deploying, HasOutputs, Steady
  <2>4. WorkInv'
    BY <2>2 DEF WorkInv, Working
  <2>5. QED
    BY <1>3, <2>3, <2>4 DEF IInv
<1>8. QED
  BY <1>4, <1>5, <1>6, <1>7, <1>9, <1>10 DEF CloudFormation

\* ECS moves the service only while a deployment moves.
LEMMA EcsKeepsSettled ==
  ASSUME EcsNext, svc.phase \notin InFlight
  PROVE  svc' = svc
  BY DEF EcsNext, CanaryCompletes, AlarmStopsCanary, RevertCompletes, AlarmDegrades,
         AlarmRecovers, InFlight

LEMMA EcsIInv ==
  ASSUME Typed', IInv, EcsNext, UNCHANGED <<stack, pending, pc, ctx>>
  PROVE  IInv'
<1>1. Solo'
  BY DEF IInv, Solo
<1>2. ASSUME NEW o \in Operators PROVE DeployInv(o)' /\ GateInv(o)'
  <2>1. DeployInv(o) /\ GateInv(o)
    BY DEF IInv
  <2>2. CASE Deploying(o) \/ pc[o] \in {"alarmGate", "register", "updateService"}
    <3>1. svc.phase \notin InFlight
      BY <2>1, <2>2 DEF DeployInv, GateInv, Steady, InFlight
    <3>2. svc' = svc
      BY <3>1, EcsKeepsSettled
    <3>3. QED
      BY <2>1, <3>2 DEF DeployInv, GateInv, Deploying, HasOutputs, Steady, Checkpoint
  <2>3. CASE ~ (Deploying(o) \/ pc[o] \in {"alarmGate", "register", "updateService"})
    BY <2>1, <2>3 DEF DeployInv, GateInv, Deploying
  <2>4. QED
    BY <2>2, <2>3
<1>3. WorkInv'
  <2>7. (stack.status = "stuck" => Steady /\ Checkpoint)'
    <3>1. SUFFICES ASSUME stack.status = "stuck" PROVE Steady' /\ Checkpoint'
      OBVIOUS
    <3>2. Steady /\ Checkpoint
      BY <3>1 DEF IInv, WorkInv
    <3>3. QED
      BY <3>2, EcsKeepsSettled DEF Steady, InFlight, Checkpoint
  <2>1. SUFFICES ASSUME Working', stack'.status # "stuck"
                 PROVE  \E o \in Operators : /\ pc'[o] \in {"syncWait", "deployWait"}
                                             /\ pending'.cdk <=> pc'[o] = "deployWait"
                                             /\ pending'.template.service = svc'.target
    BY <2>7 DEF IInv, WorkInv
  <2>2. Working /\ stack.status # "stuck"
    BY <2>1 DEF Working
  <2>3. PICK o \in Operators : /\ pc[o] \in {"syncWait", "deployWait"}
                               /\ pending.cdk <=> pc[o] = "deployWait"
                               /\ pending.template.service = svc.target
    BY <2>2 DEF IInv, WorkInv
  <2>4. svc.phase \notin InFlight
    BY <2>3 DEF IInv, DeployInv, Deploying, Steady, InFlight
  <2>5. svc' = svc
    BY <2>4, EcsKeepsSettled
  <2>6. QED
    BY <2>3, <2>5
<1>4. QED
  BY <1>1, <1>2, <1>3 DEF IInv

LEMMA StutterIInv ==
  ASSUME Typed', IInv, UNCHANGED vars
  PROVE  IInv'
  BY DEF vars, IInv, Solo, WorkInv, Working, DeployInv, GateInv, Deploying, HasOutputs,
         Steady, Checkpoint

LEMMA NextIInv ==
  ASSUME Practices, IInv, [Next]_vars
  PROVE  IInv'
<1>1. Typed'
  BY NextTyped DEF IInv
<1>2. ASSUME NEW o \in Operators, OperatorStarts(o) PROVE IInv'
  BY <1>1, <1>2, StartsIInv
<1>3. ASSUME NEW o \in Operators, ScriptStep(o) PROVE IInv'
  BY <1>1, <1>3, ReleaseIInv, DeployIInv DEF ScriptStep
<1>4. CASE CloudFormation \/ DeleteFailedStack \/ RepairStack
  BY <1>1, <1>4, StackIInv
<1>5. CASE EcsNext /\ UNCHANGED <<stack, pending, pc, ctx>>
  BY <1>1, <1>5, EcsIInv
<1>6. CASE UNCHANGED vars
  BY <1>1, <1>6, StutterIInv
<1>7. QED
  BY <1>2, <1>3, <1>4, <1>5, <1>6 DEF Next

LEMMA SpecIInv ==
  ASSUME Practices
  PROVE  Spec => []IInv
<1>1. IInv /\ [Next]_vars => IInv'
  BY NextIInv
<1>2. QED
  BY <1>1, InitIInv, PTL DEF Spec

----------------------------------------------------------------------------
\* While a cdk deploy is at work, a rollback would come back to the revision that
\* runs (infra-deploy.sh:4-6, sync_deployed_revision).
THEOREM RollbackCheckpointHolds ==
  ASSUME Practices
  PROVE  Spec => []RollbackCheckpoint
<1>1. ASSUME IInv PROVE RollbackCheckpoint
  <2>1. SUFFICES ASSUME stack.status \in {"updating", "settling"}, pending.cdk
                 PROVE  Steady /\ Resolve(stack.template, stack.recipe) = svc.target
    BY DEF RollbackCheckpoint
  <2>2. PICK o \in Operators : pc[o] = "deployWait"
    BY <1>1, <2>1 DEF IInv, WorkInv, Working
  <2>3. DeployInv(o)
    BY <1>1 DEF IInv
  <2>4. QED
    BY <2>2, <2>3 DEF DeployInv, Deploying, Checkpoint
<1>2. QED
  BY <1>1, SpecIInv, PTL

\* No step of CloudFormation on an existing stack moves the service to another
\* revision: not the update, not its failure, not its rollback, not the rollback's
\* continuation after it got stuck.
THEOREM DeployKeepsRunning ==
  ASSUME Practices
  PROVE  Spec => DeployKeepsRunningRevision
<1> DEFINE Kept == stack.status \in {"updating", "settling", "rollingBack", "stuck"}
                     /\ stack'.status # stack.status => svc'.target = svc.target
<1>1. ASSUME IInv, [Next]_vars PROVE [Kept]_vars
  <2>1. SUFFICES ASSUME Working, stack' # stack PROVE svc'.target = svc.target
    BY DEF Working
  <2>3. CASE ApplyUpdate \/ StartRollback \/ RepairStack
    BY <1>1, <2>3, UpdateKeepsService
  <2>4. CASE FailEarly \/ CompleteUpdate \/ CompleteRollback \/ RollbackFails
    BY <2>4 DEF FailEarly, CompleteUpdate, CompleteRollback, RollbackFails, ecsVars
  <2>5. ASSUME NEW o \in Operators, OperatorStarts(o) \/ ScriptStep(o)
        PROVE  FALSE
    BY <2>1, <2>5 DEF Working, Stable, OperatorStarts, StartRelease, StartBootstrap, StartDeploy,
       ScriptStep, ReleaseStep, InFlightGate, AlarmGate, Register, ReleaseUpdatesService,
       DeployStep, BootstrapEnds, ReadRunning, CountInFlight, SyncDeployedRevision, SyncEnds, ReadRecipe,
       CdkDeploy, DeployEnds, FollowUpRelease, Abort, SubmitUpdate
  <2>6. CASE CreateStack \/ CreateFails \/ DeleteFailedStack
    BY <2>1, <2>6 DEF CreateStack, CreateFails, DeleteFailedStack, Working
  <2>7. QED
    BY <1>1, <2>1, <2>3, <2>4, <2>5, <2>6 DEF Next, CloudFormation, vars
<1>2. QED
  BY <1>1, SpecIInv, PTL DEF Spec, DeployKeepsRunningRevision

\* Nothing but release.sh's update-service starts a deployment.
LEMMA OnlyReleasesDeploy ==
  ASSUME IInv, [Next]_vars, StartsDeployment
  PROVE  \E o \in Operators : ReleaseUpdatesService(o)
<1>1. svc' # svc /\ svc \in Service
  BY DEF StartsDeployment, IInv, Typed, TypeOK, EcsTypeOK
<1>2. ASSUME NEW o \in Operators, OperatorStarts(o) \/ ScriptStep(o)
      PROVE  ReleaseUpdatesService(o)
  BY <1>1, <1>2 DEF OperatorStarts, StartRelease, StartBootstrap, StartDeploy,
     ScriptStep, ReleaseStep, InFlightGate, AlarmGate, Register, ecsVars,
     DeployStep, BootstrapEnds, ReadRunning, CountInFlight, SyncDeployedRevision, SyncEnds, ReadRecipe,
     CdkDeploy, DeployEnds, FollowUpRelease, Abort
<1>3. CASE ApplyUpdate \/ StartRollback \/ RepairStack
  BY <1>3, UpdateKeepsService DEF StartsDeployment
<1>4. CASE CreateStack
  BY <1>4 DEF CreateStack, CreateService, StartsDeployment
<1>5. CASE CreateFails \/ FailEarly \/ CompleteUpdate \/ CompleteRollback \/ RollbackFails \/ DeleteFailedStack
  BY <1>1, <1>5 DEF CreateFails, FailEarly, CompleteUpdate, CompleteRollback, RollbackFails,
     DeleteFailedStack, ecsVars
<1>6. CASE EcsNext
  <2>1. svc'.phase # "canary"
    BY <1>1, <1>6 DEF EcsNext, CanaryCompletes, AlarmStopsCanary, RevertCompletes,
       AlarmDegrades, AlarmRecovers, Service
  <2>2. QED
    BY <2>1 DEF StartsDeployment
<1>7. QED
  BY <1>1, <1>2, <1>3, <1>4, <1>5, <1>6 DEF Next, CloudFormation, vars

\* No deployment starts while another one moves: Gate 1 of release.sh is passed
\* on a service that does not start to move before update-service is called.
THEOREM NoDeploymentStacked ==
  ASSUME Practices
  PROVE  Spec => NoStackedDeployment
<1>1. ASSUME IInv, [Next]_vars
      PROVE  [StartsDeployment => svc.phase \notin InFlight]_vars
  <2>1. SUFFICES ASSUME StartsDeployment PROVE svc.phase \notin InFlight
    OBVIOUS
  <2>2. PICK o \in Operators : ReleaseUpdatesService(o)
    BY <1>1, <2>1, OnlyReleasesDeploy
  <2>3. QED
    BY <1>1, <2>2 DEF ReleaseUpdatesService, IInv, GateInv
<1>2. QED
  BY <1>1, SpecIInv, PTL DEF Spec, NoStackedDeployment

----------------------------------------------------------------------------
(***************************************************************************)
(* What is released.  The invariant above says where the service is; the   *)
(* promises about images and recipes also need what a script remembers: a  *)
(* release holds the recipe's number and, once it has registered, a        *)
(* revision with the asked image and the recipe's content; a deploy holds  *)
(* the image that runs until its follow-up release is done.                *)
(***************************************************************************)
ServiceInv ==
  /\ svc.phase = "none" <=> ~ HasOutputs
  /\ svc.phase \in {"none", "steady"} => svc.baseline = svc.target
  /\ svc.phase = "none" => svc.target = 0

ReleaseInv(o) ==
  /\ pc[o] \in ReleasePC => HasOutputs /\ ctx[o].recipe = stack.recipe
  /\ pc[o] = "updateService" =>
       /\ taskDefs[ctx[o].revision].digest = ctx[o].digest
       /\ taskDefs[ctx[o].revision].settings = taskDefs[stack.recipe].settings

KeepInv(o) ==
  ctx[o].running # 0 =>
    /\ Deploying(o) \/ pc[o] = "followUp" \/ pc[o] \in ReleasePC
    /\ HasOutputs /\ Steady
    /\ ctx[o].digest = taskDefs[svc.target].digest

RInv == IInv /\ ServiceInv /\ \A o \in Operators : ReleaseInv(o) /\ KeepInv(o)

\* No revision is ever changed or forgotten.
DefsKept == \A r \in DOMAIN taskDefs : r \in DOMAIN taskDefs' /\ taskDefs'[r] = taskDefs[r]

LEMMA RegisterKeepsDefs ==
  ASSUME Typed, NEW s, NEW d, RegisterTaskDefinition(s, d)
  PROVE  /\ DefsKept
         /\ RegisteredNext \in DOMAIN taskDefs' /\ RegisteredNext \notin DOMAIN taskDefs
         /\ taskDefs'[RegisteredNext] = [settings |-> s, digest |-> d]
<1>1. taskDefs \in Seq(TaskDefinition)
  BY DEF Typed, TypeOK, EcsTypeOK
<1>2. taskDefs' = Append(taskDefs, [settings |-> s, digest |-> d])
  BY DEF RegisterTaskDefinition
<1>3. DOMAIN taskDefs = 1..Len(taskDefs) /\ DOMAIN taskDefs' = 1..(Len(taskDefs) + 1)
  BY <1>1, <1>2
<1>4. Len(taskDefs) \in Nat
  BY <1>1
<1>5. QED
  BY <1>1, <1>2, <1>3, <1>4 DEF DefsKept, RegisteredNext

LEMMA NextKeepsDefs ==
  ASSUME Typed, [Next]_vars
  PROVE  DefsKept
<1>1. CASE UNCHANGED taskDefs
  BY <1>1 DEF DefsKept
<1>2. CASE \E s, d : RegisterTaskDefinition(s, d)
  BY <1>2, RegisterKeepsDefs
<1>3. ASSUME NEW o \in Operators, OperatorStarts(o) PROVE UNCHANGED taskDefs
  BY <1>3 DEF OperatorStarts, StartRelease, StartBootstrap, StartDeploy, ecsVars
<1>4. ASSUME NEW o \in Operators, ScriptStep(o), ~ Register(o) PROVE UNCHANGED taskDefs
  BY <1>4 DEF ScriptStep, ReleaseStep, InFlightGate, AlarmGate, ReleaseUpdatesService, ecsVars,
     DeployStep, BootstrapEnds, ReadRunning, CountInFlight, SyncDeployedRevision, SyncEnds, ReadRecipe,
     CdkDeploy, DeployEnds, FollowUpRelease, Abort
<1>5. ASSUME NEW o \in Operators, Register(o) PROVE \E s, d : RegisterTaskDefinition(s, d)
  BY <1>5 DEF Register
<1>6. ASSUME CreateStack \/ ApplyUpdate
      PROVE  UNCHANGED taskDefs \/ \E s, d : RegisterTaskDefinition(s, d)
  BY <1>6 DEF CreateStack, ApplyUpdate, RegisterRecipe
<1>7. ASSUME \/ CreateFails \/ FailEarly \/ CompleteUpdate \/ StartRollback \/ CompleteRollback
             \/ RollbackFails \/ RepairStack \/ DeleteFailedStack \/ EcsNext
      PROVE  UNCHANGED taskDefs
  BY <1>7 DEF CreateFails, FailEarly, CompleteUpdate, StartRollback, CompleteRollback,
     RollbackFails, RepairStack, DeleteFailedStack, ecsVars, EcsNext, CanaryCompletes, AlarmStopsCanary, RevertCompletes,
     AlarmDegrades, AlarmRecovers
<1>8. QED
  BY <1>1, <1>2, <1>3, <1>4, <1>5, <1>6, <1>7 DEF Next, CloudFormation, vars

\* The revisions that the invariants speak of are registered.
LEMMA Registered ==
  ASSUME Typed
  PROVE  /\ DOMAIN taskDefs = Known \ {0}
         /\ HasOutputs => stack.recipe \in DOMAIN taskDefs /\ svc.target \in DOMAIN taskDefs
                            /\ svc.baseline \in DOMAIN taskDefs
         /\ \A o \in Operators :
              pc[o] = "updateService" => ctx[o].revision \in DOMAIN taskDefs
<1>1. taskDefs \in Seq(TaskDefinition) /\ ServiceRefs /\ StackRefs
      /\ \A o \in Operators : ScriptRefs(o)
  BY DEF Typed, TypeOK, EcsTypeOK, RefsOK
<1>2. DOMAIN taskDefs = Known \ {0}
  <2>1. DOMAIN taskDefs = 1..Len(taskDefs) /\ Len(taskDefs) \in Nat
    BY <1>1
  <2>2. \A n : n \in 1..Len(taskDefs) <=> n \in 0..Len(taskDefs) /\ n # 0
    BY <2>1
  <2>3. QED
    BY <2>1, <2>2 DEF Known
<1>3. QED
  BY <1>1, <1>2 DEF ServiceRefs, StackRefs, ScriptRefs

LEMMA InitRInv == Init => RInv
<1> SUFFICES ASSUME Init PROVE RInv
  OBVIOUS
<1>1. /\ svc.phase = "none" /\ svc.target = 0 /\ svc.baseline = 0 /\ stack.status = "absent"
      /\ \A o \in Operators : pc[o] = "idle" /\ ctx[o].running = 0
  BY DEF Init, EcsInit, NoContext
<1>2. ServiceInv
  BY <1>1 DEF ServiceInv, HasOutputs
<1>3. \A o \in Operators : ReleaseInv(o) /\ KeepInv(o)
  BY <1>1 DEF ReleaseInv, KeepInv, ReleasePC
<1>4. QED
  BY <1>2, <1>3, InitIInv DEF RInv

----------------------------------------------------------------------------
(* The scripts keep it. *)

LEMMA IdleHoldsNothing ==
  ASSUME RInv, NEW o \in Operators, pc[o] = "idle"
  PROVE  ctx[o].running = 0
  BY DEF RInv, KeepInv, Deploying, ReleasePC

\* After a step of o, only the parts of the invariant about o need a proof.
LEMMA OthersHoldNothing ==
  ASSUME RInv, IInv', NEW o \in Operators, Active(o),
         NEW label \in PC, pc' = [pc EXCEPT ![o] = label],
         NEW c \in Context, ctx' = [ctx EXCEPT ![o] = c],
         ServiceInv', ReleaseInv(o)', KeepInv(o)'
  PROVE  RInv'
<1>1. pc \in [Operators -> PC] /\ ctx \in [Operators -> Context]
  BY DEF RInv, IInv, Typed, TypeOK
<1>2. ASSUME NEW p \in Operators, p # o PROVE ReleaseInv(p)' /\ KeepInv(p)'
  <2>1. pc'[p] = "idle" /\ ctx'[p] = ctx[p]
    BY <1>1, <1>2 DEF Active
  <2>2. ctx[p].running = 0
    BY <1>2, IdleHoldsNothing DEF Active
  <2>3. QED
    BY <2>1, <2>2 DEF ReleaseInv, KeepInv, ReleasePC
<1>3. QED
  BY <1>2 DEF RInv

\* A step of o that leaves the service, its revisions and the recipe alone.
LEMMA HeldRInv ==
  ASSUME RInv, IInv', NEW o \in Operators, Active(o),
         NEW label \in PC, pc' = [pc EXCEPT ![o] = label],
         NEW c \in Context, ctx' = [ctx EXCEPT ![o] = c],
         UNCHANGED <<taskDefs, svc>>, HasOutputs' <=> HasOutputs, stack'.recipe = stack.recipe,
         label # "updateService",
         label \in ReleasePC => HasOutputs /\ c.recipe = stack.recipe,
         c.running # 0 =>
           /\ \/ label \in {"runningCount", "sync", "syncWait", "recipeBefore", "cdkDeploy",
                            "deployWait", "followUp"}
              \/ label \in ReleasePC
           /\ HasOutputs /\ Steady
           /\ c.digest = taskDefs[svc.target].digest
  PROVE  RInv'
<1>1. pc \in [Operators -> PC] /\ ctx \in [Operators -> Context]
  BY DEF RInv, IInv, Typed, TypeOK
<1>2. pc'[o] = label /\ ctx'[o] = c
  BY <1>1
<1>3. ServiceInv'
  BY DEF RInv, ServiceInv
<1>4. ReleaseInv(o)'
  BY <1>2 DEF ReleaseInv
<1>5. KeepInv(o)'
  BY <1>2 DEF KeepInv, Deploying, Steady
<1>6. QED
  BY <1>3, <1>4, <1>5, OthersHoldNothing

LEMMA ExitRInv ==
  ASSUME RInv, IInv', NEW o \in Operators, Active(o), Exit(o), UNCHANGED <<ecsVars, stack>>
  PROVE  RInv'
<1>1. /\ "idle" \in PC /\ "idle" \notin ReleasePC /\ NoContext \in Context
      /\ NoContext.running = 0
  BY NoContextType DEF PC, ReleasePC, NoContext
<1>2. /\ pc' = [pc EXCEPT ![o] = "idle"] /\ ctx' = [ctx EXCEPT ![o] = NoContext]
      /\ UNCHANGED <<taskDefs, svc>> /\ (HasOutputs' <=> HasOutputs)
      /\ stack'.recipe = stack.recipe
  BY DEF Exit, ecsVars, HasOutputs
<1>3. QED
  BY <1>1, <1>2, HeldRInv

\* A step of o to another label that changes nothing else, or only submits an update.
LEMMA JumpRInv ==
  ASSUME RInv, IInv', NEW o \in Operators, Active(o), NEW label \in PC, Goto(o, label),
         UNCHANGED <<ecsVars, ctx>>,
         HasOutputs' <=> HasOutputs, stack'.recipe = stack.recipe,
         label # "updateService",
         label \in ReleasePC => pc[o] \in ReleasePC,
         \/ label \in {"sync", "syncWait", "recipeBefore", "cdkDeploy", "deployWait", "followUp"}
         \/ label \in ReleasePC
  PROVE  RInv'
<1>1. ctx \in [Operators -> Context] /\ ReleaseInv(o) /\ KeepInv(o)
  BY DEF RInv, IInv, Typed, TypeOK
<1>2. /\ ctx' = [ctx EXCEPT ![o] = ctx[o]] /\ ctx[o] \in Context
      /\ pc' = [pc EXCEPT ![o] = label] /\ UNCHANGED <<taskDefs, svc>>
  BY <1>1 DEF Goto, ecsVars
<1>3. label \in ReleasePC => HasOutputs /\ ctx[o].recipe = stack.recipe
  BY <1>1 DEF ReleaseInv
<1>4. ctx[o].running # 0 => /\ HasOutputs /\ Steady
                            /\ ctx[o].digest = taskDefs[svc.target].digest
  BY <1>1 DEF KeepInv
<1>5. QED
  BY <1>2, <1>3, <1>4, HeldRInv

LEMMA StartsRInv ==
  ASSUME Practices, RInv, IInv', NEW o \in Operators, OperatorStarts(o)
  PROVE  RInv'
<1>1. /\ stack \in StackRecord /\ ctx \in [Operators -> Context]
      /\ pc[o] = "idle" /\ Active(o) /\ ServiceInv
  BY MayStartActive DEF RInv, IInv, Typed, TypeOK, OperatorStarts, StartRelease, StartBootstrap,
     StartDeploy, MayStart
<1>2. ASSUME NEW d \in Digests, NEW rollback \in BOOLEAN, NEW skip \in BOOLEAN,
             StartRelease(o, d, rollback, skip)
      PROVE  RInv'
  <2> DEFINE c == [NoContext EXCEPT !.digest = d, !.rollback = rollback,
                                    !.skip = skip, !.recipe = stack.recipe]
  <2>1. stack.recipe \in 0..MaxRevisions
    BY <1>1 DEF StackRecord
  <2>2. c \in Context
    BY <2>1, NoContextType DEF Context
  <2>3. c.running = 0 /\ c.recipe = stack.recipe
    BY DEF NoContext
  <2>4. /\ pc' = [pc EXCEPT ![o] = "inFlightGate"] /\ ctx' = [ctx EXCEPT ![o] = c]
        /\ UNCHANGED <<taskDefs, svc, stack>> /\ HasOutputs
    BY <1>2 DEF StartRelease, Goto, ecsVars
  <2>5. "inFlightGate" \in PC /\ (HasOutputs' <=> HasOutputs)
    BY <2>4 DEF PC, ReleasePC, HasOutputs
  <2> HIDE DEF c
  <2>6. QED
    BY <1>1, <2>2, <2>3, <2>4, <2>5, HeldRInv
<1>3. ASSUME NEW d \in Digests, StartBootstrap(o, d) PROVE RInv'
  <2>1. /\ pc' = [pc EXCEPT ![o] = "createWait"] /\ UNCHANGED <<taskDefs, svc, ctx>>
        /\ stack.status = "absent" /\ stack' = [stack EXCEPT !.status = "creating", !.image = d]
    BY <1>3 DEF StartBootstrap, Goto, ecsVars
  <2>2. /\ stack'.recipe = stack.recipe /\ (HasOutputs' <=> HasOutputs)
        /\ "createWait" \in PC /\ "createWait" \notin ReleasePC
    BY <1>1, <2>1 DEF StackRecord, HasOutputs, PC, ReleasePC
  <2>3. ctx' = [ctx EXCEPT ![o] = ctx[o]] /\ ctx[o] \in Context /\ ctx[o].running = 0
    BY <1>1, <2>1, IdleHoldsNothing
  <2>4. QED
    BY <1>1, <2>1, <2>2, <2>3, HeldRInv
<1>4. ASSUME NEW sync \in BOOLEAN, NEW rollback \in BOOLEAN, StartDeploy(o, sync, rollback)
      PROVE  RInv'
  <2> DEFINE c == [NoContext EXCEPT !.sync = sync, !.rollback = rollback]
  <2>1. c \in Context /\ c.running = 0
    BY NoContextType DEF Context, NoContext
  <2>2. /\ pc' = [pc EXCEPT ![o] = "running"] /\ ctx' = [ctx EXCEPT ![o] = c]
        /\ UNCHANGED <<taskDefs, svc, stack>>
    BY <1>4 DEF StartDeploy, Goto, ecsVars
  <2>3. "running" \in PC /\ "running" \notin ReleasePC /\ (HasOutputs' <=> HasOutputs)
    BY <2>2 DEF PC, ReleasePC, DeployPC, HasOutputs
  <2> HIDE DEF c
  <2>4. QED
    BY <1>1, <2>1, <2>2, <2>3, HeldRInv
<1>5. QED
  BY <1>2, <1>3, <1>4 DEF OperatorStarts

\* The copy that Register makes is the one ReleaseInv asks for.
LEMMA RegisterRInv ==
  ASSUME RInv, IInv', NEW o \in Operators, Register(o)
  PROVE  RInv'
<1> DEFINE s == taskDefs[ctx[o].recipe].settings
           c == [ctx[o] EXCEPT !.revision = RegisteredNext]
<1>1. /\ Typed /\ ServiceInv /\ ReleaseInv(o) /\ KeepInv(o)
      /\ pc \in [Operators -> PC] /\ ctx \in [Operators -> Context] /\ ctx'[o] \in Context
  BY DEF RInv, IInv, Typed, TypeOK
<1>2. /\ pc[o] = "register" /\ RegisterTaskDefinition(s, ctx[o].digest)
      /\ ctx' = [ctx EXCEPT ![o] = c]
      /\ pc' = [pc EXCEPT ![o] = "updateService"] /\ UNCHANGED <<svc, stack>>
  BY DEF Register, Goto
<1>3. Active(o) /\ pc[o] \in ReleasePC
  BY <1>2, SoloActive DEF RInv, ReleasePC
<1>4. pc'[o] = "updateService" /\ ctx'[o] = c /\ c \in Context /\ "updateService" \in PC
  BY <1>1, <1>2 DEF PC, ReleasePC
<1>5. /\ c.running = ctx[o].running /\ c.digest = ctx[o].digest /\ c.recipe = ctx[o].recipe
      /\ c.revision = RegisteredNext
  BY <1>1 DEF Context
<1>6. /\ DefsKept /\ taskDefs'[RegisteredNext] = [settings |-> s, digest |-> ctx[o].digest]
  BY <1>1, <1>2, RegisterKeepsDefs
<1>7. HasOutputs /\ ctx[o].recipe = stack.recipe /\ HasOutputs'
  BY <1>1, <1>2, <1>3 DEF ReleaseInv, HasOutputs
<1>8. taskDefs'[stack.recipe] = taskDefs[stack.recipe] /\ taskDefs'[svc.target] = taskDefs[svc.target]
  BY <1>1, <1>6, <1>7, Registered DEF DefsKept
<1>9. ReleaseInv(o)'
  <2>1. /\ ctx'[o].revision = RegisteredNext /\ ctx'[o].digest = ctx[o].digest
        /\ ctx'[o].recipe = stack.recipe /\ stack' = stack
    BY <1>2, <1>4, <1>5, <1>7
  <2>2. /\ taskDefs'[ctx'[o].revision].digest = ctx'[o].digest
        /\ taskDefs'[ctx'[o].revision].settings = taskDefs'[stack'.recipe].settings
    BY <1>6, <1>7, <1>8, <2>1
  <2>3. QED
    BY <1>7, <2>1, <2>2 DEF ReleaseInv
<1>10. KeepInv(o)'
  BY <1>1, <1>2, <1>4, <1>5, <1>7, <1>8 DEF KeepInv, Deploying, ReleasePC, Steady
<1>11. ServiceInv'
  BY <1>1, <1>2, <1>7 DEF ServiceInv
<1> HIDE DEF c, s
<1>12. QED
  BY <1>2, <1>3, <1>4, <1>9, <1>10, <1>11, OthersHoldNothing

LEMMA UpdatesServiceRInv ==
  ASSUME RInv, IInv', NEW o \in Operators, ReleaseUpdatesService(o)
  PROVE  RInv'
<1>1. /\ Typed /\ ServiceInv /\ ReleaseInv(o) /\ svc \in Service
      /\ pc \in [Operators -> PC] /\ ctx \in [Operators -> Context]
  BY DEF RInv, IInv, Typed, TypeOK, EcsTypeOK
<1>2. /\ pc[o] = "updateService" /\ UpdateService(ctx[o].revision, ctx[o].rollback)
      /\ pc' = [pc EXCEPT ![o] = "idle"] /\ ctx' = [ctx EXCEPT ![o] = NoContext]
      /\ UNCHANGED stack
  BY DEF ReleaseUpdatesService, Exit
<1>3. Active(o) /\ "idle" \in PC /\ pc'[o] = "idle" /\ ctx'[o].running = 0
  BY <1>1, <1>2, SoloActive DEF RInv, PC, NoContext
<1>4. HasOutputs /\ HasOutputs'
  BY <1>1, <1>2 DEF ReleaseInv, ReleasePC, HasOutputs
<1>5. ServiceInv'
  BY <1>1, <1>2, <1>4 DEF ServiceInv, UpdateService, Service
<1>6. ReleaseInv(o)' /\ KeepInv(o)'
  BY <1>3 DEF ReleaseInv, KeepInv, ReleasePC
<1>7. QED
  BY <1>2, <1>3, <1>5, <1>6, NoContextType, OthersHoldNothing

LEMMA ReleaseRInv ==
  ASSUME RInv, IInv', NEW o \in Operators, ReleaseStep(o)
  PROVE  RInv'
<1>1. CASE InFlightGate(o) \/ AlarmGate(o)
  <2>1. /\ pc[o] \in ReleasePC /\ pc[o] # "idle" /\ UNCHANGED <<ecsVars, stack>>
        /\ (HasOutputs' <=> HasOutputs) /\ stack'.recipe = stack.recipe
    BY <1>1 DEF InFlightGate, AlarmGate, ReleasePC, HasOutputs
  <2>2. Active(o)
    BY <2>1, SoloActive DEF RInv
  <2>3. CASE Exit(o)
    BY <2>1, <2>2, <2>3, ExitRInv
  <2>4. ASSUME NEW label \in {"alarmGate", "register"}, Goto(o, label), UNCHANGED ctx
        PROVE  RInv'
    <3>1. label \in PC /\ label \in ReleasePC /\ label # "updateService"
      BY DEF PC, ReleasePC
    <3>2. QED
      BY <2>1, <2>2, <2>4, <3>1, JumpRInv
  <2>5. QED
    BY <1>1, <2>3, <2>4 DEF InFlightGate, AlarmGate
<1>2. QED
  BY <1>1, RegisterRInv, UpdatesServiceRInv DEF ReleaseStep

LEMMA DeployRInv ==
  ASSUME Practices, RInv, IInv', NEW o \in Operators, DeployStep(o) \/ Abort(o)
  PROVE  RInv'
<1>1. /\ Typed /\ ServiceInv /\ DeployInv(o) /\ ReleaseInv(o) /\ KeepInv(o) /\ ScriptRefs(o)
      /\ stack \in StackRecord /\ svc \in Service /\ ctx \in [Operators -> Context]
  BY DEF RInv, IInv, Typed, TypeOK, EcsTypeOK, RefsOK
<1>2. Active(o)
  BY SoloActive DEF RInv, DeployStep, BootstrapEnds, ReadRunning, CountInFlight, SyncDeployedRevision, SyncEnds,
     ReadRecipe, CdkDeploy, DeployEnds, FollowUpRelease, Abort
<1>3. UNCHANGED ecsVars
  BY DEF DeployStep, BootstrapEnds, ReadRunning, CountInFlight, SyncDeployedRevision, SyncEnds,
     ReadRecipe, CdkDeploy, DeployEnds, FollowUpRelease, Abort
<1>4. UNCHANGED <<taskDefs, svc>>
  BY <1>3 DEF ecsVars
<1>5. ASSUME Exit(o), UNCHANGED stack PROVE RInv'
  BY <1>2, <1>3, <1>5, ExitRInv
<1>6. ASSUME NEW label \in {"sync", "recipeBefore", "syncWait", "deployWait", "followUp"},
             Goto(o, label), UNCHANGED ctx,
             UNCHANGED stack \/ \E t, cdk : SubmitUpdate(t, cdk)
      PROVE  RInv'
  <2>1. /\ label \in PC /\ label \notin ReleasePC /\ label # "updateService"
    BY DEF PC, ReleasePC, DeployPC
  <2>2. (HasOutputs' <=> HasOutputs) /\ stack'.recipe = stack.recipe
    BY <1>1, <1>6 DEF SubmitUpdate, StackRecord, Stable, HasOutputs
  <2>3. QED
    BY <1>2, <1>3, <1>6, <2>1, <2>2, JumpRInv
<1>7. CASE ReadRunning(o)
  <2> DEFINE c == [ctx[o] EXCEPT !.running = svc.target, !.digest = taskDefs[svc.target].digest]
  <2>1. CASE Exit(o)
    BY <1>5, <1>7, <2>1 DEF ReadRunning
  <2>2. CASE ~ Exit(o)
    <3>1. /\ HasOutputs /\ Steady /\ UNCHANGED stack
          /\ ctx' = [ctx EXCEPT ![o] = c] /\ pc' = [pc EXCEPT ![o] = "runningCount"]
      BY <1>7, <2>2 DEF ReadRunning, Goto
    <3>2. svc.target \in DOMAIN taskDefs /\ taskDefs \in Seq(TaskDefinition)
      BY <1>1, <3>1, Registered DEF Typed, TypeOK, EcsTypeOK
    <3>3. taskDefs[svc.target].digest \in Digests /\ svc.target \in 0..MaxRevisions
      <4>1. taskDefs[svc.target] \in TaskDefinition
        BY <3>2
      <4>2. QED
        BY <1>1, <4>1 DEF TaskDefinition, Service
    <3>4. c \in Context /\ c.digest = taskDefs[svc.target].digest
      BY <1>1, <3>3 DEF Context
    <3>5. "runningCount" \in PC /\ "runningCount" \notin ReleasePC
      BY DEF PC, ReleasePC, DeployPC
    <3>6. (HasOutputs' <=> HasOutputs) /\ stack'.recipe = stack.recipe
      BY <3>1 DEF HasOutputs
    <3> HIDE DEF c
    <3>7. QED
      BY <1>2, <1>4, <3>1, <3>4, <3>5, <3>6, HeldRInv
  <2>3. QED
    BY <2>1, <2>2
<1>8. CASE ReadRecipe(o) \/ FollowUpRelease(o)
  <2> DEFINE c == [ctx[o] EXCEPT !.recipe = stack.recipe]
  <2>1. PICK label \in {"cdkDeploy", "inFlightGate"} :
          /\ pc' = [pc EXCEPT ![o] = label] /\ (label = "inFlightGate" => pc[o] = "followUp")
          /\ ctx' = [ctx EXCEPT ![o] = c] /\ UNCHANGED stack
    BY <1>8 DEF ReadRecipe, FollowUpRelease, Goto
  <2>2. /\ c \in Context /\ c.running = ctx[o].running /\ c.digest = ctx[o].digest
        /\ c.recipe = stack.recipe
    BY <1>1 DEF Context, StackRecord
  <2>3. /\ label \in PC /\ label # "updateService"
        /\ label = "cdkDeploy" \/ label \in ReleasePC
        /\ label \in ReleasePC => label = "inFlightGate"
    BY DEF PC, ReleasePC, DeployPC
  <2>4. label \in ReleasePC => HasOutputs
    BY <1>1, <2>1, <2>3 DEF ScriptRefs
  <2>5. c.running # 0 => HasOutputs /\ Steady /\ c.digest = taskDefs[svc.target].digest
    BY <1>1, <2>2 DEF KeepInv
  <2>6. (HasOutputs' <=> HasOutputs) /\ stack'.recipe = stack.recipe
    BY <2>1 DEF HasOutputs
  <2> HIDE DEF c
  <2>7. QED
    BY <1>2, <1>4, <2>1, <2>2, <2>3, <2>4, <2>5, <2>6, HeldRInv
<1>9. CASE BootstrapEnds(o) \/ Abort(o) \/ SyncEnds(o) \/ DeployEnds(o)
  BY <1>5, <1>6, <1>9 DEF BootstrapEnds, Abort, SyncEnds, DeployEnds
<1>12. CASE CountInFlight(o)
  <2>1. \/ Exit(o) /\ UNCHANGED stack
        \/ \E label \in {"sync", "recipeBefore"} : Goto(o, label) /\ UNCHANGED <<ctx, stack>>
    BY <1>12 DEF CountInFlight
  <2>2. QED
    BY <1>5, <1>6, <2>1
<1>10. CASE SyncDeployedRevision(o) \/ \E settings \in Settings : CdkDeploy(o, settings)
  BY <1>6, <1>10 DEF SyncDeployedRevision, CdkDeploy
<1>11. QED
  BY <1>7, <1>8, <1>9, <1>10, <1>12 DEF DeployStep

----------------------------------------------------------------------------
(* CloudFormation and ECS keep it. *)

LEMMA StackServiceInv ==
  ASSUME RInv, CloudFormation \/ DeleteFailedStack \/ RepairStack
  PROVE  ServiceInv'
<1>1. stack \in StackRecord /\ svc \in Service /\ ServiceInv
  BY DEF RInv, IInv, Typed, TypeOK, EcsTypeOK
<1>2. CASE CreateStack
  BY <1>1, <1>2 DEF CreateStack, CreateService, StackRecord, ServiceInv, HasOutputs
<1>3. CASE CreateFails \/ DeleteFailedStack
  BY <1>1, <1>3 DEF CreateFails, DeleteFailedStack, StackRecord, ServiceInv, HasOutputs, ecsVars
<1>4. CASE ApplyUpdate \/ StartRollback \/ RepairStack
  <2>1. svc'.target = svc.target /\ svc'.baseline = svc.baseline /\ svc'.phase = svc.phase
    BY <1>4, UpdateKeepsService DEF RInv
  <2>2. HasOutputs /\ HasOutputs'
    BY <1>1, <1>4 DEF ApplyUpdate, StartRollback, RepairStack, StackRecord, HasOutputs
  <2>3. QED
    BY <1>1, <2>1, <2>2 DEF ServiceInv, Service
<1>5. CASE FailEarly \/ CompleteUpdate \/ CompleteRollback \/ RollbackFails
  <2>1. HasOutputs /\ HasOutputs' /\ svc' = svc
    BY <1>1, <1>5 DEF FailEarly, CompleteUpdate, CompleteRollback, RollbackFails, StackRecord, HasOutputs, ecsVars
  <2>2. QED
    BY <1>1, <2>1 DEF ServiceInv
<1>6. QED
  BY <1>2, <1>3, <1>4, <1>5 DEF CloudFormation

\* CloudFormation on an existing stack leaves the running revision where it is.
LEMMA StackKeepsService ==
  ASSUME RInv, CloudFormation \/ DeleteFailedStack \/ RepairStack, HasOutputs
  PROVE  /\ Working /\ HasOutputs'
         /\ svc'.target = svc.target /\ svc'.baseline = svc.baseline /\ svc'.phase = svc.phase
<1>1. stack \in StackRecord /\ svc \in Service
  BY DEF RInv, IInv, Typed, TypeOK, EcsTypeOK
<1>2. CASE ApplyUpdate \/ StartRollback \/ RepairStack
  <2>1. svc'.target = svc.target /\ svc'.baseline = svc.baseline /\ svc'.phase = svc.phase
    BY <1>2, UpdateKeepsService DEF RInv
  <2>2. Working /\ HasOutputs'
    BY <1>1, <1>2 DEF ApplyUpdate, StartRollback, RepairStack, StackRecord, HasOutputs, Working
  <2>3. QED
    BY <1>1, <2>1, <2>2 DEF Service
<1>3. CASE FailEarly \/ CompleteUpdate \/ CompleteRollback \/ RollbackFails
  BY <1>1, <1>3 DEF FailEarly, CompleteUpdate, CompleteRollback, RollbackFails, StackRecord, HasOutputs, ecsVars,
     Working
<1>4. QED
  BY <1>2, <1>3 DEF CloudFormation, CreateStack, CreateFails, DeleteFailedStack, HasOutputs

LEMMA StackRInv ==
  ASSUME RInv, IInv', DefsKept, CloudFormation \/ DeleteFailedStack \/ RepairStack
  PROVE  RInv'
<1>1. UNCHANGED <<pc, ctx>>
  BY DEF CloudFormation, CreateStack, CreateFails, ApplyUpdate, FailEarly, CompleteUpdate,
         StartRollback, CompleteRollback, RollbackFails, DeleteFailedStack, RepairStack
<1>2. ASSUME NEW o \in Operators PROVE ReleaseInv(o)' /\ KeepInv(o)'
  <2>1. Typed /\ ReleaseInv(o) /\ KeepInv(o)
    BY DEF RInv, IInv
  <2>2. pc[o] \notin ReleasePC
    <3>1. SUFFICES ASSUME pc[o] \in ReleasePC PROVE FALSE
      OBVIOUS
    <3>2. ~ Working /\ HasOutputs
      BY <2>1, <3>1, NotWorking DEF ReleaseInv, ReleasePC, RInv
    <3>3. QED
      BY <3>2, StackKeepsService
  <2>3. pc'[o] \notin ReleasePC /\ pc'[o] # "updateService"
    BY <1>1, <2>2 DEF ReleasePC
  <2>4. ReleaseInv(o)'
    BY <2>3 DEF ReleaseInv
  <2>5. KeepInv(o)'
    <3>1. SUFFICES ASSUME ctx[o].running # 0 PROVE KeepInv(o)'
      BY <1>1 DEF KeepInv
    <3>2. /\ HasOutputs' /\ svc'.target = svc.target /\ svc'.phase = svc.phase
          /\ svc.target \in DOMAIN taskDefs
      BY <2>1, <3>1, StackKeepsService, Registered DEF KeepInv
    <3>3. taskDefs'[svc'.target] = taskDefs[svc.target]
      BY <3>2 DEF DefsKept
    <3>4. QED
      BY <1>1, <2>1, <3>1, <3>2, <3>3 DEF KeepInv, Deploying, Steady
  <2>6. QED
    BY <2>4, <2>5
<1>3. QED
  BY <1>2, StackServiceInv DEF RInv

LEMMA EcsRInv ==
  ASSUME RInv, IInv', EcsNext, UNCHANGED <<stack, pending, pc, ctx>>
  PROVE  RInv'
<1>1. svc \in Service /\ ServiceInv /\ \A o \in Operators : ReleaseInv(o) /\ KeepInv(o)
  BY DEF RInv, IInv, Typed, TypeOK, EcsTypeOK
<1>2. UNCHANGED taskDefs /\ (HasOutputs' <=> HasOutputs)
  BY DEF EcsNext, CanaryCompletes, AlarmStopsCanary, RevertCompletes, AlarmDegrades, AlarmRecovers,
     HasOutputs
<1>3. ServiceInv'
  BY <1>1, <1>2 DEF EcsNext, CanaryCompletes, AlarmStopsCanary, RevertCompletes, AlarmDegrades,
     AlarmRecovers, ServiceInv, Service
<1>4. ASSUME NEW o \in Operators PROVE ReleaseInv(o)'
  BY <1>1, <1>2 DEF ReleaseInv
<1>5. ASSUME NEW o \in Operators PROVE KeepInv(o)'
  <2>1. CASE ctx[o].running = 0
    BY <2>1 DEF KeepInv
  <2>2. CASE ctx[o].running # 0
    <3>1. svc' = svc
      BY <1>1, <2>2, EcsKeepsSettled DEF KeepInv, Steady, InFlight
    <3>2. QED
      BY <1>1, <1>2, <3>1 DEF KeepInv, Deploying, Steady
  <2>3. QED
    BY <2>1, <2>2
<1>6. QED
  BY <1>3, <1>4, <1>5 DEF RInv

LEMMA NextRInv ==
  ASSUME Practices, RInv, [Next]_vars
  PROVE  RInv'
<1>1. IInv' /\ DefsKept
  BY NextIInv, NextKeepsDefs DEF RInv, IInv
<1>2. ASSUME NEW o \in Operators, OperatorStarts(o) PROVE RInv'
  BY <1>1, <1>2, StartsRInv
<1>3. ASSUME NEW o \in Operators, ScriptStep(o) PROVE RInv'
  BY <1>1, <1>3, ReleaseRInv, DeployRInv DEF ScriptStep
<1>4. CASE CloudFormation \/ DeleteFailedStack \/ RepairStack
  BY <1>1, <1>4, StackRInv
<1>5. CASE EcsNext /\ UNCHANGED <<stack, pending, pc, ctx>>
  BY <1>1, <1>5, EcsRInv
<1>6. CASE UNCHANGED vars
  BY <1>1, <1>6 DEF vars, RInv, ServiceInv, ReleaseInv, KeepInv, HasOutputs, Deploying, Steady
<1>7. QED
  BY <1>2, <1>3, <1>4, <1>5, <1>6 DEF Next

LEMMA SpecRInv ==
  ASSUME Practices
  PROVE  Spec => []RInv
<1>1. RInv /\ [Next]_vars => RInv'
  BY NextRInv
<1>2. QED
  BY <1>1, InitRInv, PTL DEF Spec

\* What update-service does to the service when it does start a deployment.
LEMMA ReleaseDeploys ==
  ASSUME IInv, StartsDeployment, NEW o \in Operators, ReleaseUpdatesService(o)
  PROVE  svc'.target = ctx[o].revision
<1>1. svc \in Service /\ UpdateService(ctx[o].revision, ctx[o].rollback)
  BY DEF IInv, Typed, TypeOK, EcsTypeOK, ReleaseUpdatesService
<1>2. QED
  BY <1>1 DEF UpdateService, StartsDeployment, Service

----------------------------------------------------------------------------
\* Whatever starts to run follows the stack's recipe of that moment: the recipe
\* that release.sh read before both gates (release.sh:185) is still the recipe.
THEOREM ReleasesFollowTheRecipe ==
  ASSUME Practices
  PROVE  Spec => ReleasesFollowRecipe
<1> DEFINE Follows == taskDefs[svc'.target].settings = taskDefs[stack.recipe].settings
<1>1. ASSUME RInv, [Next]_vars PROVE [StartsDeployment => Follows]_vars
  <2>1. SUFFICES ASSUME StartsDeployment PROVE Follows
    OBVIOUS
  <2>2. PICK o \in Operators : ReleaseUpdatesService(o)
    BY <1>1, <2>1, OnlyReleasesDeploy DEF RInv
  <2>3. svc'.target = ctx[o].revision
    BY <1>1, <2>1, <2>2, ReleaseDeploys DEF RInv
  <2>4. ReleaseInv(o) /\ pc[o] = "updateService"
    BY <1>1, <2>2 DEF RInv, ReleaseUpdatesService
  <2>5. QED
    BY <2>3, <2>4 DEF ReleaseInv
<1>2. QED
  BY <1>1, SpecRInv, PTL DEF Spec, ReleasesFollowRecipe

\* The images that take traffic do not change during an infra deploy, its
\* follow-up release of a changed recipe included (infra-deploy.sh:13-14, 225).
THEOREM InfraDeployKeepsTheImage ==
  ASSUME Practices
  PROVE  Spec => InfraDeployKeepsImage
<1> DEFINE Deploys == \E o \in Operators : ctx[o].running # 0
           Kept    == {taskDefs'[r].digest : r \in Serving'} = ServedDigests
<1>1. ASSUME RInv, [Next]_vars PROVE [Deploys => Kept]_vars
  <2>1. SUFFICES ASSUME NEW o \in Operators, ctx[o].running # 0 PROVE Kept
    OBVIOUS
  <2>2. /\ Typed /\ IInv /\ ServiceInv /\ KeepInv(o) /\ ReleaseInv(o) /\ svc \in Service
        /\ pc[o] # "idle"
    BY <1>1, <2>1, IdleHoldsNothing DEF RInv, IInv, Typed, TypeOK, EcsTypeOK
  <2>3. /\ HasOutputs /\ Steady /\ svc.baseline = svc.target
        /\ ctx[o].digest = taskDefs[svc.target].digest
    BY <2>1, <2>2 DEF KeepInv, ServiceInv, Steady
  <2>4. svc.target \in DOMAIN taskDefs /\ DefsKept
    BY <1>1, <2>2, <2>3, Registered, NextKeepsDefs
  <2>5. taskDefs'[svc.target] = taskDefs[svc.target]
    BY <2>4 DEF DefsKept
  <2>6. ServedDigests = {ctx[o].digest}
    BY <2>3 DEF ServedDigests, Serving, Steady
  <2>7. CASE svc'.target = svc.target /\ svc'.baseline = svc.baseline /\ svc'.phase = svc.phase
    <3>1. Serving' = {svc.target}
      BY <2>3, <2>7 DEF Serving, Steady
    <3>2. QED
      BY <2>3, <2>5, <2>6, <3>1
  <2>8. CASE ReleaseUpdatesService(o)
    <3>1. /\ pc[o] = "updateService" /\ UpdateService(ctx[o].revision, ctx[o].rollback)
          /\ taskDefs' = taskDefs
      BY <2>8 DEF ReleaseUpdatesService
    <3>2. taskDefs[ctx[o].revision].digest = ctx[o].digest
      BY <2>2, <3>1 DEF ReleaseInv
    <3>3. CASE ctx[o].revision = svc.target
      BY <2>2, <2>7, <3>1, <3>3 DEF UpdateService, Service
    <3>4. CASE ctx[o].revision # svc.target
      <4>1. Serving' = {ctx[o].revision, svc.target}
        BY <2>3, <3>1, <3>4 DEF UpdateService, Serving
      <4>2. QED
        BY <2>3, <2>6, <3>1, <3>2, <4>1
    <3>5. QED
      BY <3>3, <3>4
  <2>9. CASE EcsNext
    BY <2>3, <2>7, <2>9, EcsKeepsSettled DEF Steady, InFlight
  <2>10. CASE CloudFormation \/ DeleteFailedStack \/ RepairStack
    BY <1>1, <2>3, <2>7, <2>10, StackKeepsService
  <2>11. ASSUME NEW p \in Operators, OperatorStarts(p) \/ ScriptStep(p), ~ ReleaseUpdatesService(p)
         PROVE  svc' = svc
    BY <2>11 DEF OperatorStarts, StartRelease, StartBootstrap, StartDeploy,
       ScriptStep, ReleaseStep, InFlightGate, AlarmGate, Register, ecsVars,
       DeployStep, BootstrapEnds, ReadRunning, CountInFlight, SyncDeployedRevision, SyncEnds, ReadRecipe,
       CdkDeploy, DeployEnds, FollowUpRelease, Abort
  <2>12. ASSUME NEW p \in Operators, ReleaseUpdatesService(p) PROVE p = o
    BY <2>2, <2>12 DEF IInv, Solo, ReleaseUpdatesService
  <2>13. QED
    BY <1>1, <2>7, <2>8, <2>9, <2>10, <2>11, <2>12 DEF Next, ScriptStep, ReleaseStep, vars
<1>2. QED
  BY <1>1, SpecRInv, PTL DEF Spec, InfraDeployKeepsImage

----------------------------------------------------------------------------
(***************************************************************************)
(* CanaryDelivery implements ImageRelease.  Every step is shown to be a    *)
(* step of the release model: a release asks, withdraws or begins; ECS     *)
(* promotes, reverts or halts; the creation of the stack launches; and all *)
(* that CloudFormation does to an existing stack looks like nothing.       *)
(***************************************************************************)
StableImage    == DigestOf(svc.baseline)
CandidateImage == IF svc.phase \in {"none", "steady"} THEN NoDigest ELSE DigestOf(svc.target)
Halted         == svc.phase = "stopped"
AskedImages    == {ctx[o].digest : o \in Releasing}

LEMMA DigestsKept ==
  ASSUME Typed, Typed', DefsKept
  PROVE  \A r \in Known : DigestOf(r)' = DigestOf(r)
<1>1. TAKE r \in Known
<1>2. CASE r = 0
  <2>1. r \notin DOMAIN taskDefs
    BY <1>2, Registered
  <2>2. r \notin DOMAIN taskDefs'
    <3>1. taskDefs' \in Seq(TaskDefinition)
      BY DEF Typed, TypeOK, EcsTypeOK
    <3>2. DOMAIN taskDefs' = 1..Len(taskDefs')
      BY <3>1
    <3>3. QED
      BY <1>2, <3>2
  <2>3. QED
    BY <2>1, <2>2 DEF DigestOf
<1>3. CASE r # 0
  <2>1. r \in DOMAIN taskDefs
    BY <1>3, Registered
  <2>2. r \in DOMAIN taskDefs' /\ taskDefs'[r] = taskDefs[r]
    BY <2>1 DEF DefsKept
  <2>3. QED
    BY <2>1, <2>2 DEF DigestOf
<1>4. QED
  BY <1>2, <1>3

\* The images of an existing service are images.
LEMMA ServedAreImages ==
  ASSUME RInv, HasOutputs
  PROVE  DigestOf(svc.target) \in Digests /\ DigestOf(svc.baseline) \in Digests
<1>1. /\ taskDefs \in Seq(TaskDefinition)
      /\ svc.target \in DOMAIN taskDefs /\ svc.baseline \in DOMAIN taskDefs
  BY Registered DEF RInv, IInv, Typed, TypeOK, EcsTypeOK
<1>2. taskDefs[svc.target] \in TaskDefinition /\ taskDefs[svc.baseline] \in TaskDefinition
  BY <1>1
<1>3. QED
  BY <1>1, <1>2 DEF DigestOf, TaskDefinition

\* To the release model, a service on the same revisions has not changed.
LEMMA SameImages ==
  ASSUME RInv, Typed', DefsKept,
         svc'.target = svc.target, svc'.baseline = svc.baseline, svc'.phase = svc.phase
  PROVE  /\ StableImage' = StableImage /\ CandidateImage' = CandidateImage /\ Halted' = Halted
<1>1. Typed /\ svc.target \in Known /\ svc.baseline \in Known
  BY DEF RInv, IInv, Typed, RefsOK, ServiceRefs
<1>2. /\ DigestOf(svc.target)' = DigestOf(svc.target)
      /\ DigestOf(svc.baseline)' = DigestOf(svc.baseline)
  <2>1. ASSUME NEW r \in Known PROVE DigestOf(r)' = DigestOf(r)
    BY <1>1, <2>1, DigestsKept
  <2>2. QED
    BY <1>1, <2>1 DEF DigestOf
<1>3. QED
  BY <1>2 DEF StableImage, CandidateImage, Halted

\* A step that changes no image and asks for nothing new.
LEMMA WithdrawStep ==
  ASSUME StableImage' = StableImage, CandidateImage' = CandidateImage, Halted' = Halted,
         AskedImages' \subseteq AskedImages
  PROVE  Image!Next
<1>1. Image!Withdraw
  BY DEF Image!Withdraw, StableImage, CandidateImage, Halted, AskedImages
<1>2. QED
  BY <1>1 DEF Image!Next

LEMMA AskStep ==
  ASSUME StableImage' = StableImage, CandidateImage' = CandidateImage, Halted' = Halted,
         NEW d \in Digests, AskedImages' = AskedImages \cup {d}
  PROVE  Image!Next
<1>1. Image!Ask(d)
  BY DEF Image!Ask, StableImage, CandidateImage, Halted, AskedImages
<1>2. QED
  BY <1>1 DEF Image!Next

\* While one script runs, its image is the only one that is asked for.
LEMMA AskedByOne ==
  ASSUME NEW o \in Operators, Active(o)
  PROVE  AskedImages = IF pc[o] \in ReleasePC THEN {ctx[o].digest} ELSE {}
<1>1. \A p \in Operators : p \in Releasing => p = o
  BY DEF Active, Releasing, ReleasePC
<1>2. QED
  BY <1>1 DEF AskedImages, Releasing

LEMMA AskedByOneLater ==
  ASSUME IInv, NEW o \in Operators, Active(o), NEW label, pc' = [pc EXCEPT ![o] = label]
  PROVE  AskedImages' = IF label \in ReleasePC THEN {ctx'[o].digest} ELSE {}
<1>1. pc \in [Operators -> PC]
  BY DEF IInv, Typed, TypeOK
<1>2. pc'[o] = label /\ \A p \in Operators : p \in Releasing' => p = o
  BY <1>1 DEF Active, Releasing, ReleasePC
<1>3. QED
  BY <1>2 DEF AskedImages, Releasing

\* A step of a script that leaves the service alone asks, withdraws or is not seen.
LEMMA ScriptImages ==
  ASSUME RInv, IInv', DefsKept, NEW o \in Operators, Active(o), svc' = svc,
         NEW label, pc' = [pc EXCEPT ![o] = label],
         pc[o] \in ReleasePC /\ label \in ReleasePC => ctx'[o].digest = ctx[o].digest
  PROVE  Image!Next
<1>1. StableImage' = StableImage /\ CandidateImage' = CandidateImage /\ Halted' = Halted
  BY SameImages DEF IInv
<1>2. AskedImages = IF pc[o] \in ReleasePC THEN {ctx[o].digest} ELSE {}
  BY AskedByOne
<1>3. AskedImages' = IF label \in ReleasePC THEN {ctx'[o].digest} ELSE {}
  BY AskedByOneLater DEF RInv
<1>4. ctx'[o].digest \in Digests
  BY DEF IInv, Typed, TypeOK, Context
<1>5. CASE label \in ReleasePC /\ pc[o] \notin ReleasePC
  <2>1. AskedImages' = AskedImages \cup {ctx'[o].digest}
    BY <1>2, <1>3, <1>5
  <2>2. QED
    BY <1>1, <1>4, <2>1, AskStep
<1>6. CASE ~ (label \in ReleasePC /\ pc[o] \notin ReleasePC)
  <2>1. AskedImages' \subseteq AskedImages
    BY <1>2, <1>3, <1>6
  <2>2. QED
    BY <1>1, <2>1, WithdrawStep
<1>7. QED
  BY <1>5, <1>6

LEMMA BeginImages ==
  ASSUME RInv, IInv', DefsKept, NEW o \in Operators, ReleaseUpdatesService(o)
  PROVE  Image!Next
<1>1. /\ Typed /\ svc \in Service /\ ctx \in [Operators -> Context]
      /\ ReleaseInv(o) /\ GateInv(o) /\ ServiceInv
  BY DEF RInv, IInv, Typed, TypeOK, EcsTypeOK
<1>2. /\ pc[o] = "updateService" /\ UpdateService(ctx[o].revision, ctx[o].rollback)
      /\ pc' = [pc EXCEPT ![o] = "idle"] /\ UNCHANGED <<taskDefs, stack>>
  BY DEF ReleaseUpdatesService, Exit
<1>3. Active(o) /\ pc[o] \in ReleasePC /\ "idle" \notin ReleasePC
  BY <1>2, SoloActive DEF RInv, ReleasePC
<1>4. AskedImages = {ctx[o].digest} /\ AskedImages' = {}
  BY <1>2, <1>3, AskedByOne, AskedByOneLater DEF RInv
<1>5. CASE ctx[o].revision = svc.target
  <2>1. svc'.target = svc.target /\ svc'.baseline = svc.baseline /\ svc'.phase = svc.phase
    BY <1>1, <1>2, <1>5 DEF UpdateService, Service
  <2>2. QED
    BY <1>4, <2>1, SameImages, WithdrawStep DEF IInv
<1>6. CASE ctx[o].revision # svc.target
  <2>1. svc'.target = ctx[o].revision /\ svc'.baseline = svc.baseline /\ svc'.phase = "canary"
    BY <1>2, <1>6 DEF UpdateService
  <2>2. HasOutputs
    BY <1>1, <1>3 DEF ReleaseInv
  <2>3. ctx[o].revision \in DOMAIN taskDefs /\ taskDefs[ctx[o].revision].digest = ctx[o].digest
    BY <1>1, <1>2, Registered DEF ReleaseInv
  <2>4. CandidateImage' = ctx[o].digest /\ StableImage' = StableImage /\ Halted' = FALSE
    BY <1>2, <2>1, <2>3 DEF CandidateImage, StableImage, Halted, DigestOf
  <2>5. StableImage # NoDigest
    BY <2>2, ServedAreImages, NoDigestAssumption DEF StableImage
  <2>6. svc.phase \notin InFlight /\ svc.phase \in Phases
    BY <1>1, <1>2 DEF GateInv, Service
  <2>7. CandidateImage = NoDigest \/ Halted
    BY <2>6 DEF InFlight, Phases, CandidateImage, Halted
  <2>8. PICK d \in Digests : d = ctx[o].digest
    BY <1>1 DEF Context
  <2>9. Image!Begin(d)
    BY <1>4, <2>4, <2>5, <2>7, <2>8
       DEF Image!Begin, StableImage, CandidateImage, Halted, AskedImages
  <2>10. QED
    BY <2>9 DEF Image!Next
<1>7. QED
  BY <1>5, <1>6

LEMMA ScriptStepImages ==
  ASSUME Practices, RInv, IInv', DefsKept, NEW o \in Operators, OperatorStarts(o) \/ ScriptStep(o)
  PROVE  Image!Next
<1>1. /\ pc \in [Operators -> PC] /\ ctx \in [Operators -> Context] /\ stack \in StackRecord
  BY DEF RInv, IInv, Typed, TypeOK
<1>2. Active(o)
  <2>1. CASE OperatorStarts(o)
    BY <2>1, MayStartActive DEF RInv, OperatorStarts, StartRelease, StartBootstrap, StartDeploy
  <2>2. CASE ScriptStep(o)
    BY <2>2, SoloActive DEF RInv, ScriptStep, ReleaseStep, InFlightGate, AlarmGate, Register,
       ReleaseUpdatesService, DeployStep, BootstrapEnds, ReadRunning, CountInFlight, SyncDeployedRevision,
       SyncEnds, ReadRecipe, CdkDeploy, DeployEnds, FollowUpRelease, Abort
  <2>3. QED
    BY <2>1, <2>2
<1>3. CASE ReleaseUpdatesService(o)
  BY <1>3, BeginImages
<1>4. CASE ~ ReleaseUpdatesService(o)
  <2>1. svc' = svc /\ \E label : pc' = [pc EXCEPT ![o] = label]
    BY <1>4 DEF OperatorStarts, StartRelease, StartBootstrap, StartDeploy, ScriptStep, ReleaseStep,
       InFlightGate, AlarmGate, Register, DeployStep, BootstrapEnds, ReadRunning, CountInFlight,
       SyncDeployedRevision, SyncEnds, ReadRecipe, CdkDeploy, DeployEnds, FollowUpRelease, Abort,
       Goto, Exit, ecsVars
  <2>2. PICK label : pc' = [pc EXCEPT ![o] = label]
    BY <2>1
  <2>3. ASSUME pc[o] \in ReleasePC, label \in ReleasePC PROVE ctx'[o].digest = ctx[o].digest
    <3>1. pc'[o] \in ReleasePC /\ "idle" \notin ReleasePC /\ ReleasePC \cap DeployPC = {}
          /\ ReleasePC \cap {"createWait", "followUp"} = {}
      BY <1>1, <2>2, <2>3 DEF ReleasePC, DeployPC
    <3>2. InFlightGate(o) \/ AlarmGate(o) \/ Register(o)
      <4>1. ~ OperatorStarts(o)
        BY <2>3, <3>1 DEF OperatorStarts, StartRelease, StartBootstrap, StartDeploy, MayStart
      <4>2. ~ DeployStep(o)
        BY <2>3, <3>1 DEF DeployStep, BootstrapEnds, ReadRunning, CountInFlight, SyncDeployedRevision, SyncEnds,
           ReadRecipe, CdkDeploy, DeployEnds, FollowUpRelease, ReleasePC
      <4>3. ~ Abort(o)
        BY <1>1, <3>1 DEF Abort, Exit
      <4>4. QED
        BY <1>4, <4>1, <4>2, <4>3 DEF ScriptStep, ReleaseStep
    <3>3. ~ Exit(o)
      BY <1>1, <3>1 DEF Exit
    <3>4. UNCHANGED ctx \/ ctx' = [ctx EXCEPT ![o].revision = RegisteredNext]
      BY <3>2, <3>3 DEF InFlightGate, AlarmGate, Register
    <3>5. QED
      BY <1>1, <3>4 DEF Context
  <2>4. QED
    BY <1>2, <2>1, <2>2, <2>3, ScriptImages
<1>5. QED
  BY <1>3, <1>4

LEMMA StackImages ==
  ASSUME RInv, IInv', DefsKept, CloudFormation \/ DeleteFailedStack \/ RepairStack
  PROVE  Image!Next
<1>1. AskedImages' = AskedImages
  BY DEF CloudFormation, CreateStack, CreateFails, ApplyUpdate, FailEarly, CompleteUpdate,
     StartRollback, CompleteRollback, RollbackFails, DeleteFailedStack, RepairStack, AskedImages, Releasing
<1>2. CASE HasOutputs
  <2>1. svc'.target = svc.target /\ svc'.baseline = svc.baseline /\ svc'.phase = svc.phase
    BY <1>2, StackKeepsService
  <2>2. QED
    BY <1>1, <2>1, SameImages, WithdrawStep DEF IInv
<1>3. CASE CreateFails \/ DeleteFailedStack
  <2>1. svc' = svc
    BY <1>3 DEF CreateFails, DeleteFailedStack, ecsVars
  <2>2. QED
    BY <1>1, <2>1, SameImages, WithdrawStep DEF IInv
<1>4. CASE CreateStack
  <2>1. Typed /\ ServiceInv /\ stack \in StackRecord
    BY DEF RInv, IInv, Typed, TypeOK
  <2>2. svc.phase = "none" /\ svc.target = 0 /\ svc.baseline = 0
    BY <1>4, <2>1 DEF CreateStack, ServiceInv, HasOutputs
  <2>3. 0 \notin DOMAIN taskDefs
    BY <2>1, Registered
  <2>4. StableImage = NoDigest /\ CandidateImage = NoDigest /\ Halted = FALSE
    BY <2>2, <2>3 DEF StableImage, CandidateImage, Halted, DigestOf
  <2>5. PICK rollback \in BOOLEAN :
          RegisterTaskDefinition(1, stack.image) /\ CreateService(RegisteredNext, rollback)
    BY <1>4 DEF CreateStack
  <2>6. /\ RegisteredNext \in DOMAIN taskDefs' /\ taskDefs'[RegisteredNext].digest = stack.image
        /\ svc'.baseline = RegisteredNext /\ svc'.phase = "steady"
    <3>1. /\ RegisteredNext \in DOMAIN taskDefs'
          /\ taskDefs'[RegisteredNext] = [settings |-> 1, digest |-> stack.image]
      BY <2>1, <2>5, RegisterKeepsDefs
    <3>2. QED
      BY <2>5, <3>1 DEF CreateService
  <2>7. StableImage' = stack.image /\ CandidateImage' = NoDigest /\ Halted' = FALSE
    BY <2>6 DEF StableImage, CandidateImage, Halted, DigestOf
  <2>8. PICK d \in Digests : d = stack.image
    BY <2>1 DEF StackRecord
  <2>9. Image!Launch(d)
    BY <1>1, <2>4, <2>7, <2>8
       DEF Image!Launch, StableImage, CandidateImage, Halted, AskedImages
  <2>10. QED
    BY <2>9 DEF Image!Next
<1>5. QED
  BY <1>2, <1>3, <1>4, StackKeepsService DEF CloudFormation, ApplyUpdate, FailEarly,
     CompleteUpdate, StartRollback, CompleteRollback, RollbackFails, RepairStack, HasOutputs

LEMMA EcsImages ==
  ASSUME RInv, IInv', DefsKept, EcsNext, UNCHANGED <<stack, pending, pc, ctx>>
  PROVE  Image!Next
<1>1. AskedImages' = AskedImages /\ svc \in Service /\ ServiceInv
  BY DEF AskedImages, Releasing, RInv, IInv, Typed, TypeOK, EcsTypeOK
<1>2. ASSUME svc.phase # "none" PROVE DigestOf(svc.target) # NoDigest
  BY <1>1, <1>2, ServedAreImages, NoDigestAssumption DEF ServiceInv
<1>3. CASE CanaryCompletes
  <2>1. /\ svc.phase = "canary" /\ taskDefs' = taskDefs
        /\ svc'.phase = "steady" /\ svc'.baseline = svc.target
    BY <1>1, <1>3 DEF CanaryCompletes, Service
  <2>2. /\ CandidateImage = DigestOf(svc.target) /\ Halted = FALSE /\ Halted' = FALSE
        /\ StableImage' = DigestOf(svc.target) /\ CandidateImage' = NoDigest
    BY <2>1 DEF CandidateImage, StableImage, Halted, DigestOf
  <2>3. Image!Promote
    BY <1>1, <1>2, <2>1, <2>2
       DEF Image!Promote, StableImage, CandidateImage, Halted, AskedImages
  <2>4. QED
    BY <2>3 DEF Image!Next
<1>4. CASE AlarmStopsCanary
  <2>1. /\ svc.phase = "canary" /\ taskDefs' = taskDefs /\ svc'.phase \in {"reverting", "stopped"}
        /\ svc'.target = svc.target /\ svc'.baseline = svc.baseline
    BY <1>1, <1>4 DEF AlarmStopsCanary, Service
  <2>2. /\ CandidateImage = DigestOf(svc.target) /\ Halted = FALSE
        /\ StableImage' = StableImage /\ CandidateImage' = CandidateImage
    BY <2>1 DEF CandidateImage, StableImage, Halted, DigestOf
  <2>3. CASE svc'.phase = "reverting"
    <3>1. Halted' = Halted
      BY <2>2, <2>3 DEF Halted
    <3>2. QED
      BY <1>1, <2>2, <3>1, WithdrawStep
  <2>4. CASE svc'.phase = "stopped"
    <3>1. Halted' = TRUE
      BY <2>4 DEF Halted
    <3>2. Image!Halt
      BY <1>1, <1>2, <2>1, <2>2, <3>1
         DEF Image!Halt, StableImage, CandidateImage, Halted, AskedImages
    <3>3. QED
      BY <3>2 DEF Image!Next
  <2>5. QED
    BY <2>1, <2>3, <2>4
<1>5. CASE RevertCompletes
  <2>1. /\ svc.phase = "reverting" /\ taskDefs' = taskDefs
        /\ svc'.phase = "steady" /\ svc'.baseline = svc.baseline
    BY <1>1, <1>5 DEF RevertCompletes, Service
  <2>2. /\ CandidateImage = DigestOf(svc.target) /\ Halted = FALSE /\ Halted' = FALSE
        /\ StableImage' = StableImage /\ CandidateImage' = NoDigest
    BY <2>1 DEF CandidateImage, StableImage, Halted, DigestOf
  <2>3. Image!Revert
    BY <1>1, <1>2, <2>1, <2>2
       DEF Image!Revert, StableImage, CandidateImage, Halted, AskedImages
  <2>4. QED
    BY <2>3 DEF Image!Next
<1>6. CASE AlarmDegrades \/ AlarmRecovers
  <2>1. svc' = svc
    BY <1>6 DEF AlarmDegrades, AlarmRecovers
  <2>2. QED
    BY <1>1, <2>1, SameImages, WithdrawStep DEF IInv
<1>7. QED
  BY <1>3, <1>4, <1>5, <1>6 DEF EcsNext

\* The images in production change only because a release asked for them, and no
\* canary starts on top of one that still moves: ImageRelease, "pattern 2" of the
\* plan of the canary spike, is what the two scripts implement.
THEOREM ScriptsImplementImageRelease ==
  ASSUME Practices
  PROVE  Spec => ImplementsImageRelease
<1>1. Init => Image!Init
  <2> SUFFICES ASSUME Init PROVE Image!Init
    OBVIOUS
  <2>1. /\ taskDefs = <<>> /\ svc.phase = "none" /\ svc.baseline = 0
        /\ \A o \in Operators : pc[o] = "idle"
    BY DEF Init, EcsInit
  <2>2. StableImage = NoDigest /\ CandidateImage = NoDigest /\ Halted = FALSE
    BY <2>1 DEF StableImage, CandidateImage, Halted, DigestOf
  <2>3. AskedImages = {}
    BY <2>1 DEF AskedImages, Releasing, ReleasePC
  <2>4. QED
    BY <2>2, <2>3 DEF Image!Init, StableImage, CandidateImage, Halted, AskedImages
<1>2. ASSUME RInv, [Next]_vars PROVE [Image!Next]_Image!imageVars
  <2>1. IInv' /\ DefsKept
    BY <1>2, NextIInv, NextKeepsDefs DEF RInv, IInv
  <2>2. CASE \E o \in Operators : OperatorStarts(o) \/ ScriptStep(o)
    BY <1>2, <2>1, <2>2, ScriptStepImages
  <2>3. CASE CloudFormation \/ DeleteFailedStack \/ RepairStack
    BY <1>2, <2>1, <2>3, StackImages
  <2>4. CASE EcsNext /\ UNCHANGED <<stack, pending, pc, ctx>>
    BY <1>2, <2>1, <2>4, EcsImages
  <2>5. CASE UNCHANGED vars
    BY <2>5 DEF vars, Image!imageVars, DigestOf, Releasing
  <2>6. QED
    BY <1>2, <2>2, <2>3, <2>4, <2>5 DEF Next
<1>3. QED
  BY <1>1, <1>2, SpecRInv, PTL DEF Spec, ImplementsImageRelease, Image!Spec
=============================================================================
