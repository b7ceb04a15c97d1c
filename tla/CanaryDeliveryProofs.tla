------------------------ MODULE CanaryDeliveryProofs ------------------------
(* Theorems of CanaryDelivery, for every value of its constants. *)
EXTENDS CanaryDelivery, TLAPS

USE DigestsAssumption, BoundsAssumption, PracticesAssumption

(***************************************************************************)
(* Type correctness is not inductive by itself: a release copies the       *)
(* recipe's content, so the revision it has read must be registered.       *)
(* RefsOK says so of every revision number that is held anywhere.          *)
(***************************************************************************)
Known == 0..Len(taskDefs)

ServiceRefs ==
  /\ svc.target \in Known /\ svc.baseline \in Known
  /\ svc.phase # "none" => svc.target # 0 /\ svc.baseline # 0

StackRefs ==
  /\ stack.recipe \in Known /\ stack.template.service \in Known
  /\ pending.recipe \in Known /\ pending.template.service \in Known
  /\ HasOutputs => stack.recipe # 0 /\ svc.phase # "none"
  /\ stack.status \in {"updating", "settling", "rollingBack"} => pending.recipe # 0

ScriptRefs(o) ==
  /\ ctx[o].running \in Known /\ ctx[o].recipe \in Known /\ ctx[o].revision \in Known
  /\ pc[o] \in ReleasePC => ctx[o].recipe # 0 /\ svc.phase # "none"
  /\ pc[o] = "followUp" => HasOutputs
  /\ pc[o] = "updateService" => ctx[o].revision # 0

RefsOK == ServiceRefs /\ StackRefs /\ \A o \in Operators : ScriptRefs(o)

Typed == TypeOK /\ RefsOK

LEMMA AnyDigestType == AnyDigest \in Digests
  BY DEF AnyDigest

LEMMA NoContextType == NoContext \in Context
  BY AnyDigestType DEF NoContext, Context

LEMMA InitTyped == Init => Typed
<1> SUFFICES ASSUME Init PROVE Typed
  OBVIOUS
<1> USE DEF Init, EcsInit
<1>1. EcsTypeOK
  BY DEF EcsTypeOK, Service, Phases, AlarmStates
<1>2. stack \in StackRecord /\ pending \in PendingRecord
  BY AnyDigestType DEF StackRecord, PendingRecord, NoPending, NoTemplate, Template, StackStatus,
     RecipeRef, Settings
<1>3. pc \in [Operators -> PC] /\ ctx \in [Operators -> Context]
  BY NoContextType DEF PC, ReleasePC, DeployPC
<1>4. RefsOK
  BY DEF RefsOK, ServiceRefs, StackRefs, ScriptRefs, Known, HasOutputs, NoPending, NoTemplate,
         NoContext, RecipeRef, ReleasePC
<1>5. QED
  BY <1>1, <1>2, <1>3, <1>4 DEF Typed, TypeOK

----------------------------------------------------------------------------
(* What a step does to one script, and to the scripts that it does not touch. *)

LEMMA ScriptsTyped ==
  ASSUME Typed, NEW o \in Operators, NEW label \in PC, NEW c \in Context,
         pc' = [pc EXCEPT ![o] = label], ctx' = [ctx EXCEPT ![o] = c],
         Len(taskDefs) <= Len(taskDefs'), Len(taskDefs') \in Nat,
         HasOutputs => HasOutputs',
         svc.phase # "none" => svc'.phase # "none",
         c.running \in Known', c.recipe \in Known', c.revision \in Known',
         label \in ReleasePC => c.recipe # 0 /\ svc'.phase # "none",
         label = "followUp" => HasOutputs',
         label = "updateService" => c.revision # 0
  PROVE  /\ pc' \in [Operators -> PC] /\ ctx' \in [Operators -> Context]
         /\ \A p \in Operators : ScriptRefs(p)'
<1>1. pc \in [Operators -> PC] /\ ctx \in [Operators -> Context] /\ taskDefs \in Seq(TaskDefinition)
  BY DEF Typed, TypeOK, EcsTypeOK
<1>2. pc' \in [Operators -> PC] /\ ctx' \in [Operators -> Context]
  BY <1>1
<1>3. ASSUME NEW p \in Operators PROVE ScriptRefs(p)'
  <2>1. CASE p = o
    <3>1. pc'[p] = label /\ ctx'[p] = c
      BY <1>1, <2>1
    <3>2. QED
      BY <3>1 DEF ScriptRefs
  <2>2. CASE p # o
    <3>1. pc'[p] = pc[p] /\ ctx'[p] = ctx[p]
      BY <1>1, <2>2
    <3>2. ScriptRefs(p) /\ Len(taskDefs) \in Nat
      BY <1>1 DEF Typed, RefsOK
    <3>3. \A n \in Known : n \in Known'
      BY <3>2 DEF Known
    <3>4. QED
      BY <3>1, <3>2, <3>3 DEF ScriptRefs
  <2>3. QED
    BY <2>1, <2>2
<1>4. QED
  BY <1>2, <1>3

LEMMA IdleScriptsTyped ==
  ASSUME Typed, UNCHANGED <<pc, ctx>>,
         Len(taskDefs) <= Len(taskDefs'), Len(taskDefs') \in Nat,
         HasOutputs => HasOutputs',
         svc.phase # "none" => svc'.phase # "none"
  PROVE  /\ pc' \in [Operators -> PC] /\ ctx' \in [Operators -> Context]
         /\ \A p \in Operators : ScriptRefs(p)'
<1>1. pc \in [Operators -> PC] /\ ctx \in [Operators -> Context] /\ taskDefs \in Seq(TaskDefinition)
  BY DEF Typed, TypeOK, EcsTypeOK
<1>2. ASSUME NEW p \in Operators PROVE ScriptRefs(p)'
  <2>1. ScriptRefs(p) /\ Len(taskDefs) \in Nat
    BY <1>1 DEF Typed, RefsOK
  <2>2. \A n \in Known : n \in Known'
    BY <2>1 DEF Known
  <2>3. QED
    BY <2>1, <2>2 DEF ScriptRefs
<1>3. QED
  BY <1>1, <1>2

LEMMA ExitTyped ==
  ASSUME Typed, NEW o \in Operators, Exit(o), UNCHANGED <<taskDefs, stack>>,
         svc.phase # "none" => svc'.phase # "none"
  PROVE  /\ pc' \in [Operators -> PC] /\ ctx' \in [Operators -> Context]
         /\ \A p \in Operators : ScriptRefs(p)'
<1>1. taskDefs \in Seq(TaskDefinition)
  BY DEF Typed, TypeOK, EcsTypeOK
<1>2. Len(taskDefs) \in Nat /\ Len(taskDefs') = Len(taskDefs)
  BY <1>1
<1>3. NoContext.running \in Known' /\ NoContext.recipe \in Known' /\ NoContext.revision \in Known'
  BY <1>2 DEF NoContext, Known
<1>4. /\ "idle" \in PC
      /\ "idle" \in ReleasePC => NoContext.recipe # 0 /\ svc'.phase # "none"
      /\ "idle" = "followUp" => HasOutputs'
      /\ "idle" = "updateService" => NoContext.revision # 0
  BY DEF PC, ReleasePC
<1>5. HasOutputs => HasOutputs'
  BY DEF HasOutputs
<1>6. pc' = [pc EXCEPT ![o] = "idle"] /\ ctx' = [ctx EXCEPT ![o] = NoContext]
  BY DEF Exit
<1>7. Len(taskDefs) <= Len(taskDefs') /\ Len(taskDefs') \in Nat
  BY <1>2
<1>8. QED
  BY <1>3, <1>4, <1>5, <1>6, <1>7, NoContextType, ScriptsTyped

----------------------------------------------------------------------------
(* What the two ECS requests do. *)

LEMMA RegisterTyped ==
  ASSUME Typed, NEW s \in Settings, NEW d \in Digests, RegisterTaskDefinition(s, d)
  PROVE  /\ taskDefs' \in Seq(TaskDefinition)
         /\ Len(taskDefs') = Len(taskDefs) + 1 /\ Len(taskDefs') <= MaxRevisions
         /\ RegisteredNext = Len(taskDefs')
<1>1. taskDefs \in Seq(TaskDefinition)
  BY DEF Typed, TypeOK, EcsTypeOK
<1>2. [settings |-> s, digest |-> d] \in TaskDefinition
  BY DEF TaskDefinition
<1>3. QED
  BY <1>1, <1>2 DEF RegisterTaskDefinition, RegisteredNext

LEMMA UpdateServiceTyped ==
  ASSUME Typed, NEW r \in Nat, NEW rollback \in BOOLEAN,
         r # 0, r <= MaxRevisions, r <= Len(taskDefs'), Len(taskDefs) <= Len(taskDefs'),
         Len(taskDefs') \in Nat,
         svc.phase # "none", UpdateService(r, rollback)
  PROVE  svc' \in Service /\ ServiceRefs' /\ svc'.phase # "none"
<1>1. svc \in Service /\ ServiceRefs /\ taskDefs \in Seq(TaskDefinition)
  BY DEF Typed, TypeOK, EcsTypeOK, RefsOK
<1>2. Len(taskDefs) \in Nat /\ MaxRevisions \in Nat
  BY <1>1
<1>3. r \in 0..MaxRevisions /\ r \in 0..Len(taskDefs')
  BY <1>2
<1>4. \A n \in 0..Len(taskDefs) : n \in 0..Len(taskDefs')
  BY <1>2
<1>5. CASE r = svc.target
  <2>1. svc' = [svc EXCEPT !.rollback = rollback]
    BY <1>5 DEF UpdateService
  <2>2. QED
    BY <1>1, <1>4, <2>1 DEF Service, ServiceRefs, Known
<1>6. CASE r # svc.target
  <2>1. svc' = [target |-> r, baseline |-> svc.baseline, phase |-> "canary",
                rollback |-> rollback, watched |-> alarm # "ALARM"]
    BY <1>6 DEF UpdateService
  <2>2. (alarm # "ALARM") \in BOOLEAN /\ "canary" \in Phases
    BY DEF Phases
  <2>3. QED
    BY <1>1, <1>3, <1>4, <2>1, <2>2 DEF Service, ServiceRefs, Known
<1>7. QED
  BY <1>5, <1>6

----------------------------------------------------------------------------
(* Steps of a script that change nothing outside it. *)

LEMMA QuietTyped ==
  ASSUME Typed, UNCHANGED <<ecsVars, stack, pending>>,
         pc' \in [Operators -> PC], ctx' \in [Operators -> Context],
         \A p \in Operators : ScriptRefs(p)'
  PROVE  Typed'
<1>1. UNCHANGED <<taskDefs, svc, alarm>>
  BY DEF ecsVars
<1>2. TypeOK'
  BY <1>1 DEF Typed, TypeOK, EcsTypeOK
<1>3. ServiceRefs' /\ StackRefs'
  BY <1>1 DEF Typed, RefsOK, ServiceRefs, StackRefs, Known, HasOutputs
<1>4. QED
  BY <1>2, <1>3 DEF Typed, RefsOK

LEMMA QuietGoto ==
  ASSUME Typed, UNCHANGED <<ecsVars, stack, pending>>,
         NEW o \in Operators, NEW label \in PC, NEW c \in Context,
         pc' = [pc EXCEPT ![o] = label], ctx' = [ctx EXCEPT ![o] = c],
         c.running \in Known, c.recipe \in Known, c.revision \in Known,
         label \in ReleasePC => c.recipe # 0 /\ svc.phase # "none",
         label = "followUp" => HasOutputs,
         label = "updateService" => c.revision # 0
  PROVE  Typed'
<1>1. UNCHANGED <<taskDefs, svc, stack>>
  BY DEF ecsVars
<1>2. taskDefs \in Seq(TaskDefinition)
  BY DEF Typed, TypeOK, EcsTypeOK
<1>3. Len(taskDefs) <= Len(taskDefs') /\ Len(taskDefs') \in Nat
  BY <1>1, <1>2
<1>4. HasOutputs = HasOutputs' /\ Known' = Known /\ svc'.phase = svc.phase
  BY <1>1 DEF HasOutputs, Known
<1>5. /\ c.running \in Known' /\ c.recipe \in Known' /\ c.revision \in Known'
      /\ label \in ReleasePC => c.recipe # 0 /\ svc'.phase # "none"
      /\ label = "followUp" => HasOutputs'
  BY <1>4
<1>6. /\ pc' \in [Operators -> PC] /\ ctx' \in [Operators -> Context]
      /\ \A p \in Operators : ScriptRefs(p)'
  BY <1>3, <1>4, <1>5, ScriptsTyped
<1>7. QED
  BY <1>6, QuietTyped

LEMMA QuietExit ==
  ASSUME Typed, UNCHANGED <<ecsVars, stack, pending>>, NEW o \in Operators, Exit(o)
  PROVE  Typed'
<1>1. UNCHANGED <<taskDefs, svc, stack>>
  BY DEF ecsVars
<1>2. QED
  BY <1>1, ExitTyped, QuietTyped

\* Goto without a change of the context.
LEMMA QuietJump ==
  ASSUME Typed, UNCHANGED <<ecsVars, stack, pending, ctx>>,
         NEW o \in Operators, NEW label \in PC, Goto(o, label),
         label \in ReleasePC => ctx[o].recipe # 0 /\ svc.phase # "none",
         label = "followUp" => HasOutputs,
         label = "updateService" => ctx[o].revision # 0
  PROVE  Typed'
<1>1. ctx \in [Operators -> Context] /\ ScriptRefs(o)
  BY DEF Typed, TypeOK, RefsOK
<1>2. ctx' = [ctx EXCEPT ![o] = ctx[o]] /\ ctx[o] \in Context
  BY <1>1
<1>3. ctx[o].running \in Known /\ ctx[o].recipe \in Known /\ ctx[o].revision \in Known
  BY <1>1 DEF ScriptRefs
<1>4. pc' = [pc EXCEPT ![o] = label]
  BY DEF Goto
<1>5. QED
  BY <1>2, <1>3, <1>4, QuietGoto

----------------------------------------------------------------------------
(* The script actions. *)

LEMMA StartReleaseTyped ==
  ASSUME Typed, NEW o \in Operators, NEW d \in Digests, NEW rollback \in BOOLEAN,
         NEW skip \in BOOLEAN, StartRelease(o, d, rollback, skip)
  PROVE  Typed'
<1> DEFINE c == [NoContext EXCEPT !.digest = d, !.rollback = rollback,
                                  !.skip = skip, !.recipe = stack.recipe]
<1>1. stack \in StackRecord /\ StackRefs /\ taskDefs \in Seq(TaskDefinition)
  BY DEF Typed, TypeOK, EcsTypeOK, RefsOK
<1>2. stack.recipe \in 0..MaxRevisions
  BY <1>1 DEF StackRecord
<1>3. c \in Context
  BY <1>2, NoContextType DEF Context
<1>4. Len(taskDefs) \in Nat
  BY <1>1
<1>5. c.running \in Known /\ c.recipe = stack.recipe /\ c.recipe \in Known /\ c.revision \in Known
  BY <1>1, <1>4 DEF NoContext, StackRefs, Known
<1>6. HasOutputs /\ stack.recipe # 0 /\ svc.phase # "none"
  BY <1>1 DEF StartRelease, StackRefs
<1>7. /\ pc' = [pc EXCEPT ![o] = "inFlightGate"] /\ ctx' = [ctx EXCEPT ![o] = c]
      /\ UNCHANGED <<ecsVars, stack, pending>>
  BY DEF StartRelease, Goto
<1>8. "inFlightGate" \in PC
  BY DEF PC, ReleasePC
<1> HIDE DEF c
<1>9. QED
  BY <1>3, <1>5, <1>6, <1>7, <1>8, QuietGoto

LEMMA GatesTyped ==
  ASSUME Typed, NEW o \in Operators, InFlightGate(o) \/ AlarmGate(o)
  PROVE  Typed'
<1>1. ScriptRefs(o)
  BY DEF Typed, RefsOK
<1>2. "alarmGate" \in PC /\ "register" \in PC /\ "alarmGate" # "updateService"
  BY DEF PC, ReleasePC
<1>3. UNCHANGED <<ecsVars, stack, pending>>
  BY DEF InFlightGate, AlarmGate
<1>4. pc[o] \in ReleasePC
  BY DEF InFlightGate, AlarmGate, ReleasePC
<1>5. ctx[o].recipe # 0 /\ svc.phase # "none"
  BY <1>1, <1>4 DEF ScriptRefs
<1>6. CASE Exit(o)
  BY <1>3, <1>6, QuietExit
<1>7. CASE Goto(o, "alarmGate") /\ UNCHANGED ctx
  <2>1. UNCHANGED <<ecsVars, stack, pending, ctx>>
    BY <1>3, <1>7
  <2>2. QED
    BY <1>2, <1>5, <1>7, <2>1, QuietJump
<1>8. CASE Goto(o, "register") /\ UNCHANGED ctx
  <2>1. UNCHANGED <<ecsVars, stack, pending, ctx>>
    BY <1>3, <1>8
  <2>2. QED
    BY <1>2, <1>5, <1>8, <2>1, QuietJump
<1>9. QED
  BY <1>6, <1>7, <1>8 DEF InFlightGate, AlarmGate

\* The action that makes RefsOK necessary: taskDefs[ctx[o].recipe] is read.
LEMMA RegisterScriptTyped ==
  ASSUME Typed, NEW o \in Operators, Register(o)
  PROVE  Typed'
<1> DEFINE s == taskDefs[ctx[o].recipe].settings
           c == [ctx[o] EXCEPT !.revision = RegisteredNext]
<1>1. /\ ctx \in [Operators -> Context] /\ taskDefs \in Seq(TaskDefinition)
      /\ ScriptRefs(o) /\ ServiceRefs /\ StackRefs
  BY DEF Typed, TypeOK, EcsTypeOK, RefsOK
<1>2. /\ pc[o] = "register" /\ RegisterTaskDefinition(s, ctx[o].digest)
      /\ ctx' = [ctx EXCEPT ![o].revision = RegisteredNext]
      /\ pc' = [pc EXCEPT ![o] = "updateService"] /\ UNCHANGED <<svc, alarm, stack, pending>>
  BY DEF Register, Goto
<1>3. ctx[o] \in Context /\ ctx[o].digest \in Digests
  BY <1>1 DEF Context
<1>4. ctx[o].recipe \in 1..Len(taskDefs) /\ svc.phase # "none" /\ ctx[o].recipe # 0
  BY <1>1, <1>2 DEF ScriptRefs, ReleasePC, Known
<1>5. s \in Settings
  <2>1. taskDefs[ctx[o].recipe] \in TaskDefinition
    BY <1>1, <1>4
  <2>2. QED
    BY <2>1 DEF TaskDefinition
<1>6. /\ taskDefs' \in Seq(TaskDefinition) /\ Len(taskDefs') = Len(taskDefs) + 1
      /\ Len(taskDefs') <= MaxRevisions /\ RegisteredNext = Len(taskDefs')
  BY <1>2, <1>3, <1>5, RegisterTyped
<1>7. /\ Len(taskDefs) \in Nat /\ Len(taskDefs') \in Nat /\ MaxRevisions \in Nat
      /\ Len(taskDefs) <= Len(taskDefs')
  BY <1>1, <1>6
<1>8. RegisteredNext \in 0..MaxRevisions /\ RegisteredNext # 0 /\ RegisteredNext \in Known'
  BY <1>6, <1>7 DEF Known
<1>9. \A n \in Known : n \in Known'
  BY <1>7 DEF Known
<1>10. c \in Context /\ c.running = ctx[o].running /\ c.recipe = ctx[o].recipe /\ c.revision # 0
  BY <1>3, <1>8 DEF Context
<1>11. c.running \in Known' /\ c.recipe \in Known' /\ c.revision \in Known'
  BY <1>1, <1>3, <1>8, <1>9, <1>10 DEF ScriptRefs, Context
<1>12. ctx' = [ctx EXCEPT ![o] = c]
  BY <1>2
<1>13. "updateService" \in PC
  BY DEF PC, ReleasePC
<1>14. (HasOutputs => HasOutputs') /\ svc'.phase = svc.phase
  BY <1>2 DEF HasOutputs
<1> HIDE DEF c, s
<1>15. /\ pc' \in [Operators -> PC] /\ ctx' \in [Operators -> Context]
       /\ \A p \in Operators : ScriptRefs(p)'
  BY <1>2, <1>4, <1>7, <1>10, <1>11, <1>12, <1>13, <1>14, ScriptsTyped
<1>16. TypeOK'
  BY <1>2, <1>6, <1>15 DEF Typed, TypeOK, EcsTypeOK
<1>17. ServiceRefs' /\ StackRefs'
  BY <1>1, <1>2, <1>9 DEF ServiceRefs, StackRefs, HasOutputs
<1>18. QED
  BY <1>15, <1>16, <1>17 DEF Typed, RefsOK

LEMMA ReleaseUpdatesServiceTyped ==
  ASSUME Typed, NEW o \in Operators, ReleaseUpdatesService(o)
  PROVE  Typed'
<1>1. /\ ctx \in [Operators -> Context] /\ taskDefs \in Seq(TaskDefinition)
      /\ ScriptRefs(o) /\ StackRefs
  BY DEF Typed, TypeOK, EcsTypeOK, RefsOK
<1>2. /\ pc[o] = "updateService" /\ UpdateService(ctx[o].revision, ctx[o].rollback)
      /\ Exit(o) /\ UNCHANGED <<taskDefs, alarm, stack, pending>>
  BY DEF ReleaseUpdatesService
<1>3. ctx[o].rollback \in BOOLEAN /\ ctx[o].revision \in 0..MaxRevisions
  BY <1>1 DEF Context
<1>4. Len(taskDefs) \in Nat /\ Len(taskDefs') = Len(taskDefs) /\ MaxRevisions \in Nat
  BY <1>1, <1>2
<1>5. /\ ctx[o].revision # 0 /\ svc.phase # "none"
      /\ ctx[o].revision \in Nat /\ ctx[o].revision <= MaxRevisions
      /\ ctx[o].revision <= Len(taskDefs')
  BY <1>1, <1>2, <1>3, <1>4 DEF ScriptRefs, ReleasePC, Known
<1>6. svc' \in Service /\ ServiceRefs' /\ svc'.phase # "none"
  BY <1>2, <1>3, <1>4, <1>5, UpdateServiceTyped
<1>7. /\ pc' \in [Operators -> PC] /\ ctx' \in [Operators -> Context]
      /\ \A p \in Operators : ScriptRefs(p)'
  BY <1>2, <1>6, ExitTyped
<1>8. TypeOK'
  BY <1>2, <1>6, <1>7 DEF Typed, TypeOK, EcsTypeOK
<1>9. StackRefs'
  BY <1>1, <1>2, <1>6 DEF StackRefs, HasOutputs, Known
<1>10. QED
  BY <1>6, <1>7, <1>8, <1>9 DEF Typed, RefsOK

LEMMA BootstrapTyped ==
  ASSUME Typed, NEW o \in Operators, NEW d \in Digests, StartBootstrap(o, d)
  PROVE  Typed'
<1>1. /\ stack \in StackRecord /\ ctx \in [Operators -> Context]
      /\ ScriptRefs(o) /\ StackRefs /\ taskDefs \in Seq(TaskDefinition)
  BY DEF Typed, TypeOK, EcsTypeOK, RefsOK
<1>2. /\ stack.status = "absent"
      /\ stack' = [stack EXCEPT !.status = "creating", !.image = d]
      /\ pc' = [pc EXCEPT ![o] = "createWait"]
      /\ UNCHANGED <<taskDefs, svc, alarm, pending, ctx>>
  BY DEF StartBootstrap, Goto, ecsVars
<1>3. /\ stack' \in StackRecord /\ stack'.status = "creating"
      /\ stack'.recipe = stack.recipe /\ stack'.template = stack.template
  BY <1>1, <1>2 DEF StackRecord, StackStatus
<1>4. ~ HasOutputs /\ ~ HasOutputs'
  BY <1>2, <1>3 DEF HasOutputs
<1>5. ctx' = [ctx EXCEPT ![o] = ctx[o]] /\ ctx[o] \in Context
  BY <1>1, <1>2
<1>6. Len(taskDefs') \in Nat /\ Len(taskDefs) <= Len(taskDefs') /\ Known' = Known
  BY <1>1, <1>2 DEF Known
<1>7. ctx[o].running \in Known' /\ ctx[o].recipe \in Known' /\ ctx[o].revision \in Known'
  BY <1>1, <1>6 DEF ScriptRefs
<1>8. "createWait" \in PC /\ "createWait" \notin ReleasePC
  BY DEF PC, ReleasePC
<1>9. /\ pc' \in [Operators -> PC] /\ ctx' \in [Operators -> Context]
      /\ \A p \in Operators : ScriptRefs(p)'
  BY <1>2, <1>4, <1>5, <1>6, <1>7, <1>8, ScriptsTyped
<1>10. TypeOK'
  BY <1>2, <1>3, <1>9 DEF Typed, TypeOK, EcsTypeOK
<1>11. ServiceRefs'
  BY <1>2 DEF Typed, RefsOK, ServiceRefs, Known
<1>12. StackRefs'
  BY <1>1, <1>2, <1>3, <1>4, <1>6 DEF StackRefs
<1>13. QED
  BY <1>9, <1>10, <1>11, <1>12 DEF Typed, RefsOK

LEMMA StartDeployTyped ==
  ASSUME Typed, NEW o \in Operators, NEW sync \in BOOLEAN, NEW rollback \in BOOLEAN,
         StartDeploy(o, sync, rollback)
  PROVE  Typed'
<1> DEFINE c == [NoContext EXCEPT !.sync = sync, !.rollback = rollback]
<1>1. taskDefs \in Seq(TaskDefinition)
  BY DEF Typed, TypeOK, EcsTypeOK
<1>2. c \in Context
  BY NoContextType DEF Context
<1>3. c.running \in Known /\ c.recipe \in Known /\ c.revision \in Known
  BY <1>1 DEF NoContext, Known
<1>4. /\ pc' = [pc EXCEPT ![o] = "running"] /\ ctx' = [ctx EXCEPT ![o] = c]
      /\ UNCHANGED <<ecsVars, stack, pending>>
  BY DEF StartDeploy, Goto
<1>5. "running" \in PC /\ "running" \notin ReleasePC
  BY DEF PC, ReleasePC, DeployPC
<1> HIDE DEF c
<1>6. QED
  BY <1>2, <1>3, <1>4, <1>5, QuietGoto

LEMMA ReadRunningTyped ==
  ASSUME Typed, NEW o \in Operators, ReadRunning(o)
  PROVE  Typed'
<1> DEFINE c == [ctx[o] EXCEPT !.running = svc.target, !.digest = taskDefs[svc.target].digest]
           label == "runningCount"
<1>1. UNCHANGED <<ecsVars, stack, pending>>
  BY DEF ReadRunning
<1>2. CASE Exit(o)
  BY <1>1, <1>2, QuietExit
<1>3. CASE /\ HasOutputs /\ Steady
           /\ ctx' = [ctx EXCEPT ![o].running = svc.target,
                                 ![o].digest = taskDefs[svc.target].digest]
           /\ Goto(o, label)
  <2>1. /\ ctx \in [Operators -> Context] /\ taskDefs \in Seq(TaskDefinition) /\ svc \in Service
        /\ ScriptRefs(o) /\ ServiceRefs
    BY DEF Typed, TypeOK, EcsTypeOK, RefsOK
  <2>2. ctx[o] \in Context /\ svc.target \in 0..MaxRevisions
    BY <2>1 DEF Service
  <2>3. svc.target \in 1..Len(taskDefs)
    BY <1>3, <2>1 DEF Steady, ServiceRefs, Known
  <2>4. taskDefs[svc.target] \in TaskDefinition
    BY <2>1, <2>3
  <2>5. taskDefs[svc.target].digest \in Digests
    BY <2>4 DEF TaskDefinition
  <2>6. /\ c \in Context /\ c.running = svc.target
        /\ c.recipe = ctx[o].recipe /\ c.revision = ctx[o].revision
    BY <2>2, <2>5 DEF Context
  <2>7. c.running \in Known /\ c.recipe \in Known /\ c.revision \in Known
    BY <2>1, <2>6 DEF ScriptRefs, ServiceRefs
  <2>8. ctx' = [ctx EXCEPT ![o] = c] /\ pc' = [pc EXCEPT ![o] = label]
    BY <1>3 DEF Goto
  <2>9. /\ label \in PC /\ label \notin ReleasePC
        /\ label # "followUp" /\ label # "updateService"
    BY DEF PC, ReleasePC, DeployPC
  <2> HIDE DEF c, label
  <2>10. QED
    BY <1>1, <2>6, <2>7, <2>8, <2>9, QuietGoto
<1>4. QED
  BY <1>2, <1>3 DEF ReadRunning

LEMMA CountInFlightTyped ==
  ASSUME Typed, NEW o \in Operators, CountInFlight(o)
  PROVE  Typed'
<1>1. UNCHANGED <<ecsVars, stack, pending>>
  BY DEF CountInFlight
<1>2. CASE Exit(o)
  BY <1>1, <1>2, QuietExit
<1>3. ASSUME NEW label \in {"sync", "recipeBefore"}, Goto(o, label), UNCHANGED ctx
      PROVE  Typed'
  <2>1. label \in PC /\ label \notin ReleasePC /\ label # "followUp"
    BY DEF PC, ReleasePC, DeployPC
  <2>2. QED
    BY <1>1, <1>3, <2>1, QuietJump
<1>4. QED
  BY <1>2, <1>3 DEF CountInFlight

LEMMA SubmitUpdateTyped ==
  ASSUME Typed, NEW t \in Template, t.service \in Known, NEW cdk \in BOOLEAN,
         SubmitUpdate(t, cdk), UNCHANGED ecsVars
  PROVE  /\ stack' \in StackRecord /\ pending' \in PendingRecord
         /\ StackRefs' /\ HasOutputs /\ HasOutputs'
<1>1. /\ stack \in StackRecord /\ taskDefs \in Seq(TaskDefinition) /\ StackRefs
  BY DEF Typed, TypeOK, EcsTypeOK, RefsOK
<1>2. /\ stack.status \in Stable /\ stack' = [stack EXCEPT !.status = "updating"]
      /\ pending' = [template |-> t, recipe |-> stack.recipe, cdk |-> cdk]
      /\ UNCHANGED <<taskDefs, svc>>
  BY DEF SubmitUpdate, ecsVars
<1>3. /\ stack' \in StackRecord /\ stack'.status = "updating"
      /\ stack'.recipe = stack.recipe /\ stack'.template = stack.template
  BY <1>1, <1>2 DEF StackRecord, StackStatus
<1>4. HasOutputs /\ HasOutputs'
  BY <1>2, <1>3 DEF HasOutputs, Stable
<1>5. stack.recipe \in 0..MaxRevisions
  BY <1>1 DEF StackRecord
<1>6. pending' \in PendingRecord
  BY <1>2, <1>5 DEF PendingRecord
<1>7. StackRefs'
  BY <1>1, <1>2, <1>3, <1>4 DEF StackRefs, Known
<1>8. QED
  BY <1>3, <1>4, <1>6, <1>7

LEMMA SubmitAndWaitTyped ==
  ASSUME Typed, NEW o \in Operators, NEW t \in Template, t.service \in Known,
         NEW cdk \in BOOLEAN, SubmitUpdate(t, cdk),
         NEW label \in {"syncWait", "deployWait"}, Goto(o, label), UNCHANGED <<ecsVars, ctx>>
  PROVE  Typed'
<1>1. /\ stack' \in StackRecord /\ pending' \in PendingRecord
      /\ StackRefs' /\ HasOutputs /\ HasOutputs'
  BY SubmitUpdateTyped
<1>2. UNCHANGED <<taskDefs, svc, alarm>>
  BY DEF ecsVars
<1>3. /\ taskDefs \in Seq(TaskDefinition) /\ ctx \in [Operators -> Context] /\ ScriptRefs(o)
  BY DEF Typed, TypeOK, EcsTypeOK, RefsOK
<1>4. ctx' = [ctx EXCEPT ![o] = ctx[o]] /\ ctx[o] \in Context /\ pc' = [pc EXCEPT ![o] = label]
  BY <1>3 DEF Goto
<1>5. Len(taskDefs') \in Nat /\ Len(taskDefs) <= Len(taskDefs') /\ Known' = Known
  BY <1>2, <1>3 DEF Known
<1>6. ctx[o].running \in Known' /\ ctx[o].recipe \in Known' /\ ctx[o].revision \in Known'
  BY <1>3, <1>5 DEF ScriptRefs
<1>7. label \in PC /\ label \notin ReleasePC /\ label # "followUp" /\ label # "updateService"
  BY DEF PC, ReleasePC, DeployPC
<1>8. svc.phase # "none" => svc'.phase # "none"
  BY <1>2
<1>9. /\ pc' \in [Operators -> PC] /\ ctx' \in [Operators -> Context]
      /\ \A p \in Operators : ScriptRefs(p)'
  BY <1>1, <1>4, <1>5, <1>6, <1>7, <1>8, ScriptsTyped
<1>10. TypeOK'
  BY <1>1, <1>2, <1>9 DEF Typed, TypeOK, EcsTypeOK
<1>11. ServiceRefs'
  BY <1>2 DEF Typed, RefsOK, ServiceRefs, Known
<1>12. QED
  BY <1>1, <1>9, <1>10, <1>11 DEF Typed, RefsOK

LEMMA SyncTyped ==
  ASSUME Typed, NEW o \in Operators, SyncDeployedRevision(o) \/ SyncEnds(o)
  PROVE  Typed'
<1>1. /\ stack \in StackRecord /\ ctx \in [Operators -> Context] /\ ScriptRefs(o)
  BY DEF Typed, TypeOK, RefsOK
<1>2. "recipeBefore" \in PC /\ "recipeBefore" \notin ReleasePC
  BY DEF PC, ReleasePC, DeployPC
<1>3. CASE /\ Goto(o, "recipeBefore") /\ UNCHANGED <<ecsVars, stack, pending, ctx>>
  BY <1>2, <1>3, QuietJump
<1>4. CASE Exit(o) /\ UNCHANGED <<ecsVars, stack, pending>>
  BY <1>4, QuietExit
<1>5. CASE /\ SubmitUpdate([stack.template EXCEPT !.service = ctx[o].running], FALSE)
           /\ Goto(o, "syncWait") /\ UNCHANGED <<ecsVars, ctx>>
  <2> DEFINE t == [stack.template EXCEPT !.service = ctx[o].running]
  <2>1. ctx[o].running \in 0..MaxRevisions /\ stack.template \in Template
    BY <1>1 DEF Context, StackRecord
  <2>2. t \in Template /\ t.service \in Known
    BY <1>1, <2>1 DEF Template, ScriptRefs
  <2> HIDE DEF t
  <2>3. QED
    BY <1>5, <2>2, SubmitAndWaitTyped DEF t
<1>6. QED
  BY <1>3, <1>4, <1>5 DEF SyncDeployedRevision, SyncEnds

LEMMA CdkDeployTyped ==
  ASSUME Typed, NEW o \in Operators, NEW s \in Settings, CdkDeploy(o, s)
  PROVE  Typed'
<1> DEFINE t == [service |-> ctx[o].running, settings |-> s]
<1>1. ctx \in [Operators -> Context] /\ ScriptRefs(o)
  BY DEF Typed, TypeOK, RefsOK
<1>2. t \in Template /\ t.service \in Known
  BY <1>1 DEF Template, Context, ScriptRefs
<1>3. SubmitUpdate(t, TRUE) /\ Goto(o, "deployWait") /\ UNCHANGED <<ecsVars, ctx>>
  BY DEF CdkDeploy
<1> HIDE DEF t
<1>4. QED
  BY <1>2, <1>3, SubmitAndWaitTyped

\* ReadRecipe and FollowUpRelease read the stack's recipe into the context.
LEMMA RecipeReadTyped ==
  ASSUME Typed, NEW o \in Operators, ReadRecipe(o) \/ FollowUpRelease(o)
  PROVE  Typed'
<1> DEFINE c == [ctx[o] EXCEPT !.recipe = stack.recipe]
<1>1. /\ stack \in StackRecord /\ ctx \in [Operators -> Context] /\ ScriptRefs(o) /\ StackRefs
  BY DEF Typed, TypeOK, RefsOK
<1>2. ctx[o] \in Context /\ stack.recipe \in 0..MaxRevisions
  BY <1>1 DEF StackRecord
<1>3. /\ c \in Context /\ c.running = ctx[o].running
      /\ c.recipe = stack.recipe /\ c.revision = ctx[o].revision
  BY <1>2 DEF Context
<1>4. c.running \in Known /\ c.recipe \in Known /\ c.revision \in Known
  BY <1>1, <1>3 DEF ScriptRefs, StackRefs
<1>5. UNCHANGED <<ecsVars, stack, pending>> /\ ctx' = [ctx EXCEPT ![o] = c]
  BY DEF ReadRecipe, FollowUpRelease
<1> HIDE DEF c
<1>6. CASE Goto(o, "cdkDeploy")
  <2>1. /\ "cdkDeploy" \in PC /\ "cdkDeploy" \notin ReleasePC
        /\ pc' = [pc EXCEPT ![o] = "cdkDeploy"]
    BY <1>6 DEF PC, ReleasePC, DeployPC, Goto
  <2>2. QED
    BY <1>3, <1>4, <1>5, <2>1, QuietGoto
<1>7. CASE pc[o] = "followUp" /\ Goto(o, "inFlightGate")
  <2>1. "inFlightGate" \in PC /\ pc' = [pc EXCEPT ![o] = "inFlightGate"]
    BY <1>7 DEF PC, ReleasePC, Goto
  <2>2. stack.recipe # 0 /\ svc.phase # "none"
    BY <1>1, <1>7 DEF ScriptRefs, StackRefs
  <2>3. QED
    BY <1>3, <1>4, <1>5, <2>1, <2>2, QuietGoto
<1>8. QED
  BY <1>6, <1>7 DEF ReadRecipe, FollowUpRelease

LEMMA EndsTyped ==
  ASSUME Typed, NEW o \in Operators, BootstrapEnds(o) \/ DeployEnds(o) \/ Abort(o)
  PROVE  Typed'
<1>1. UNCHANGED <<ecsVars, stack, pending>>
  BY DEF BootstrapEnds, DeployEnds, Abort
<1>2. CASE Exit(o)
  BY <1>1, <1>2, QuietExit
<1>3. CASE stack.status = "complete" /\ Goto(o, "followUp") /\ UNCHANGED ctx
  <2>1. /\ "followUp" \in PC /\ "followUp" \notin ReleasePC /\ HasOutputs
        /\ UNCHANGED <<ecsVars, stack, pending, ctx>>
    BY <1>1, <1>3 DEF PC, ReleasePC, HasOutputs
  <2>2. QED
    BY <1>3, <2>1, QuietJump
<1>4. QED
  BY <1>2, <1>3 DEF BootstrapEnds, DeployEnds, Abort

----------------------------------------------------------------------------
(* CloudFormation and ECS. *)

LEMMA CreateStackTyped ==
  ASSUME Typed, CreateStack
  PROVE  Typed'
<1>1. /\ stack \in StackRecord /\ taskDefs \in Seq(TaskDefinition) /\ svc \in Service
      /\ pending \in PendingRecord /\ StackRefs
  BY DEF Typed, TypeOK, EcsTypeOK, RefsOK
<1>0. PICK rollback \in BOOLEAN : CreateService(RegisteredNext, rollback)
  BY DEF CreateStack
<1>2. /\ stack.status = "creating"
      /\ RegisterTaskDefinition(1, stack.image) /\ CreateService(RegisteredNext, rollback)
      /\ stack' = [stack EXCEPT !.status = "complete", !.recipe = RegisteredNext]
      /\ UNCHANGED <<alarm, pending, pc, ctx>>
  BY <1>0 DEF CreateStack
<1>3. 1 \in Settings /\ stack.image \in Digests
  BY <1>1 DEF Settings, StackRecord
<1>4. /\ taskDefs' \in Seq(TaskDefinition) /\ Len(taskDefs') = Len(taskDefs) + 1
      /\ Len(taskDefs') <= MaxRevisions /\ RegisteredNext = Len(taskDefs')
  BY <1>2, <1>3, RegisterTyped
<1>5. Len(taskDefs') \in Nat /\ Len(taskDefs) \in Nat /\ Len(taskDefs) <= Len(taskDefs')
  BY <1>1, <1>4
<1>6. /\ RegisteredNext \in 0..MaxRevisions /\ RegisteredNext # 0 /\ RegisteredNext \in Known'
      /\ \A n \in Known : n \in Known'
  BY <1>4, <1>5 DEF Known
<1>7. svc' = [target |-> RegisteredNext, baseline |-> RegisteredNext, phase |-> "steady",
              rollback |-> rollback, watched |-> FALSE]
  BY <1>2 DEF CreateService
<1>8. svc' \in Service /\ ServiceRefs' /\ svc'.phase # "none"
  BY <1>6, <1>7 DEF Service, ServiceRefs, Phases
<1>9. /\ stack' \in StackRecord /\ stack'.status = "complete" /\ stack'.recipe = RegisteredNext
      /\ stack'.template = stack.template
  BY <1>1, <1>2, <1>6 DEF StackRecord, StackStatus
<1>10. ~ HasOutputs /\ HasOutputs'
  BY <1>2, <1>9 DEF HasOutputs
<1>11. StackRefs'
  BY <1>1, <1>2, <1>6, <1>8, <1>9 DEF StackRefs
<1>12. /\ pc' \in [Operators -> PC] /\ ctx' \in [Operators -> Context]
       /\ \A p \in Operators : ScriptRefs(p)'
  BY <1>2, <1>5, <1>8, <1>10, IdleScriptsTyped
<1>13. TypeOK'
  BY <1>1, <1>2, <1>4, <1>8, <1>9, <1>12 DEF Typed, TypeOK, EcsTypeOK
<1>14. QED
  BY <1>8, <1>11, <1>12, <1>13 DEF Typed, RefsOK

LEMMA ApplyUpdateTyped ==
  ASSUME Typed, ApplyUpdate
  PROVE  Typed'
<1> DEFINE r == Resolve(pending.template, pending'.recipe)
<1>1. /\ stack \in StackRecord /\ taskDefs \in Seq(TaskDefinition) /\ svc \in Service
      /\ pending \in PendingRecord /\ StackRefs
  BY DEF Typed, TypeOK, EcsTypeOK, RefsOK
<1>0. PICK rollback \in BOOLEAN : UpdateService(r, rollback)
  BY DEF ApplyUpdate, ProfileUpdatesService
<1>2. /\ stack.status = "updating" /\ RegisterRecipe
      /\ stack' = [stack EXCEPT !.status = "settling"] /\ UNCHANGED <<alarm, pc, ctx>>
  BY DEF ApplyUpdate
<1>3. HasOutputs /\ svc.phase # "none" /\ stack.recipe # 0 /\ pending.recipe # 0
  BY <1>1, <1>2 DEF HasOutputs, StackRefs
<1>4. /\ pending.template \in Template /\ pending.recipe \in 0..MaxRevisions
      /\ pending.template.settings \in Settings /\ pending.template.service \in 0..MaxRevisions
      /\ stack.image \in Digests
  BY <1>1 DEF PendingRecord, StackRecord, Template
<1>5. /\ taskDefs' \in Seq(TaskDefinition) /\ Len(taskDefs') <= MaxRevisions
      /\ Len(taskDefs) <= Len(taskDefs')
      /\ pending' \in PendingRecord /\ pending'.template = pending.template
      /\ pending'.recipe # 0 /\ pending'.recipe \in 0..MaxRevisions /\ pending'.recipe \in Known'
  <2>1. CASE UNCHANGED <<taskDefs, pending>>
    BY <1>1, <1>3, <1>4, <2>1 DEF Typed, TypeOK, EcsTypeOK, StackRefs, Known
  <2>2. CASE /\ RegisterTaskDefinition(pending.template.settings, stack.image)
             /\ pending' = [pending EXCEPT !.recipe = RegisteredNext]
    <3>1. /\ taskDefs' \in Seq(TaskDefinition) /\ Len(taskDefs') = Len(taskDefs) + 1
          /\ Len(taskDefs') <= MaxRevisions /\ RegisteredNext = Len(taskDefs')
      BY <1>4, <2>2, RegisterTyped
    <3>2. Len(taskDefs) \in Nat /\ Len(taskDefs') \in Nat
      BY <1>1, <3>1
    <3>3. RegisteredNext \in 0..MaxRevisions /\ RegisteredNext # 0 /\ RegisteredNext \in Known'
      BY <3>1, <3>2 DEF Known
    <3>4. /\ pending' \in PendingRecord /\ pending'.template = pending.template
          /\ pending'.recipe = RegisteredNext
      BY <1>1, <2>2, <3>3 DEF PendingRecord
    <3>5. QED
      BY <3>1, <3>2, <3>3, <3>4
  <2>3. QED
    BY <1>2, <2>1, <2>2 DEF RegisterRecipe
<1>6. Len(taskDefs) \in Nat /\ Len(taskDefs') \in Nat /\ MaxRevisions \in Nat
  BY <1>1, <1>5
<1>7. \A n \in Known : n \in Known'
  BY <1>5, <1>6 DEF Known
<1>8. pending.template.service \in Known
  BY <1>1 DEF StackRefs
<1>9. r # 0 /\ r \in 0..MaxRevisions /\ r \in Known'
  BY <1>4, <1>5, <1>7, <1>8 DEF Resolve, RecipeRef
<1>10. r \in Nat /\ r <= MaxRevisions /\ r <= Len(taskDefs')
  BY <1>6, <1>9 DEF Known
<1> HIDE DEF r
<1>11. svc' \in Service /\ ServiceRefs' /\ svc'.phase # "none"
  BY <1>0, <1>3, <1>5, <1>6, <1>9, <1>10, UpdateServiceTyped
<1>12. /\ stack' \in StackRecord /\ stack'.status = "settling" /\ stack'.recipe = stack.recipe
       /\ stack'.template = stack.template
  BY <1>1, <1>2 DEF StackRecord, StackStatus
<1>13. HasOutputs'
  BY <1>12 DEF HasOutputs
<1>14. StackRefs'
  BY <1>1, <1>3, <1>5, <1>7, <1>8, <1>11, <1>12 DEF StackRefs
<1>15. /\ pc' \in [Operators -> PC] /\ ctx' \in [Operators -> Context]
       /\ \A p \in Operators : ScriptRefs(p)'
  BY <1>2, <1>5, <1>6, <1>11, <1>13, IdleScriptsTyped
<1>16. TypeOK'
  BY <1>2, <1>5, <1>11, <1>12, <1>15 DEF Typed, TypeOK, EcsTypeOK
<1>17. QED
  BY <1>11, <1>14, <1>15, <1>16 DEF Typed, RefsOK

\* The service is called with the deployed template again.
LEMMA ReapplyTyped ==
  ASSUME Typed, stack.status \in {"settling", "stuck"},
         ProfileUpdatesService(Resolve(stack.template, stack.recipe)),
         NEW status \in {"rollingBack", "rolledBack"},
         status = "rollingBack" => stack.status = "settling",
         stack' = [stack EXCEPT !.status = status],
         UNCHANGED <<taskDefs, alarm, pending, pc, ctx>>
  PROVE  Typed'
<1> DEFINE r == Resolve(stack.template, stack.recipe)
<1>1. /\ stack \in StackRecord /\ taskDefs \in Seq(TaskDefinition) /\ svc \in Service
      /\ pending \in PendingRecord /\ StackRefs
  BY DEF Typed, TypeOK, EcsTypeOK, RefsOK
<1>2. PICK rollback \in BOOLEAN : UpdateService(r, rollback)
  BY DEF ProfileUpdatesService
<1>3. HasOutputs /\ svc.phase # "none" /\ stack.recipe # 0
  BY <1>1 DEF HasOutputs, StackRefs
<1>4. r # 0 /\ r \in 0..MaxRevisions /\ r \in Known
  BY <1>1, <1>3 DEF Resolve, RecipeRef, StackRefs, StackRecord, Template
<1>5. /\ Len(taskDefs) \in Nat /\ Len(taskDefs') \in Nat /\ MaxRevisions \in Nat
      /\ Len(taskDefs) <= Len(taskDefs') /\ Known' = Known
  BY <1>1 DEF Known
<1>6. r \in Nat /\ r <= MaxRevisions /\ r <= Len(taskDefs')
  BY <1>4, <1>5 DEF Known
<1> HIDE DEF r
<1>7. svc' \in Service /\ ServiceRefs' /\ svc'.phase # "none"
  BY <1>2, <1>3, <1>4, <1>5, <1>6, UpdateServiceTyped
<1>8. /\ stack' \in StackRecord /\ stack'.status = status /\ stack'.recipe = stack.recipe
      /\ stack'.template = stack.template
  BY <1>1 DEF StackRecord, StackStatus
<1>9. HasOutputs'
  BY <1>8 DEF HasOutputs
<1>10. StackRefs'
  BY <1>1, <1>3, <1>5, <1>7, <1>8, <1>9 DEF StackRefs
<1>11. /\ pc' \in [Operators -> PC] /\ ctx' \in [Operators -> Context]
       /\ \A p \in Operators : ScriptRefs(p)'
  BY <1>5, <1>7, <1>9, IdleScriptsTyped
<1>12. TypeOK'
  BY <1>1, <1>7, <1>8, <1>11 DEF Typed, TypeOK, EcsTypeOK
<1>13. QED
  BY <1>7, <1>10, <1>11, <1>12 DEF Typed, RefsOK

LEMMA StartRollbackTyped ==
  ASSUME Typed, StartRollback
  PROVE  Typed'
  BY ReapplyTyped DEF StartRollback

\* Steps that only change the stack's status and forget or take over the update.
LEMMA StatusTyped ==
  ASSUME Typed, CreateFails \/ DeleteFailedStack \/ FailEarly
                  \/ CompleteUpdate \/ CompleteRollback \/ RollbackFails
                  \/ (RepairStack /\ UNCHANGED svc)
  PROVE  Typed'
<1>1. /\ stack \in StackRecord /\ taskDefs \in Seq(TaskDefinition)
      /\ pending \in PendingRecord /\ StackRefs /\ ServiceRefs
  BY DEF Typed, TypeOK, EcsTypeOK, RefsOK
<1>2. UNCHANGED <<taskDefs, svc, alarm, pc, ctx>>
  BY DEF CreateFails, DeleteFailedStack, FailEarly, CompleteUpdate, CompleteRollback,
         RollbackFails, RepairStack, ecsVars
<1>3. /\ NoPending.template \in Template /\ NoPending.template.service = 0
      /\ NoPending.recipe = 0 /\ NoPending \in PendingRecord
  BY DEF NoPending, NoTemplate, Template, PendingRecord, RecipeRef, Settings
<1>4. Len(taskDefs') \in Nat /\ Len(taskDefs) <= Len(taskDefs') /\ Known' = Known /\ 0 \in Known
  BY <1>1, <1>2 DEF Known
<1>5. /\ stack' \in StackRecord /\ pending' \in PendingRecord /\ StackRefs'
      /\ HasOutputs => HasOutputs'
  <2>1. CASE CreateFails \/ DeleteFailedStack
    <3>1. /\ stack.status \in {"creating", "createFailed"}
          /\ \E status \in {"createFailed", "absent"} : stack' = [stack EXCEPT !.status = status]
          /\ pending' = pending
      BY <2>1 DEF CreateFails, DeleteFailedStack
    <3>2. /\ stack' \in StackRecord /\ stack'.status \in {"createFailed", "absent"}
          /\ stack'.recipe = stack.recipe /\ stack'.template = stack.template
      BY <1>1, <3>1 DEF StackRecord, StackStatus
    <3>3. ~ HasOutputs /\ ~ HasOutputs'
      BY <3>1, <3>2 DEF HasOutputs
    <3>4. QED
      BY <1>1, <1>4, <3>1, <3>2, <3>3 DEF StackRefs
  <2>2. CASE FailEarly \/ CompleteRollback \/ RollbackFails \/ (RepairStack /\ UNCHANGED svc)
    <3>1. /\ stack.status \in {"updating", "rollingBack", "stuck"}
          /\ pending' \in {NoPending, pending}
          /\ \E status \in {"rolledBack", "stuck"} : stack' = [stack EXCEPT !.status = status]
      BY <2>2 DEF FailEarly, CompleteRollback, RollbackFails, RepairStack
    <3>2. /\ stack' \in StackRecord /\ stack'.status \in {"rolledBack", "stuck"}
          /\ stack'.recipe = stack.recipe /\ stack'.template = stack.template
      BY <1>1, <3>1 DEF StackRecord, StackStatus
    <3>3. HasOutputs /\ HasOutputs'
      BY <3>1, <3>2 DEF HasOutputs
    <3>4. QED
      BY <1>1, <1>2, <1>3, <1>4, <3>1, <3>2, <3>3 DEF StackRefs
  <2>3. CASE CompleteUpdate
    <3>1. /\ stack.status = "settling" /\ pending' = NoPending
          /\ stack' = [stack EXCEPT !.status = "complete", !.template = pending.template,
                                    !.recipe = pending.recipe]
      BY <2>3 DEF CompleteUpdate
    <3>2. pending.template \in Template /\ pending.recipe \in 0..MaxRevisions
      BY <1>1 DEF PendingRecord
    <3>3. /\ stack' \in StackRecord /\ stack'.status = "complete"
          /\ stack'.recipe = pending.recipe /\ stack'.template = pending.template
      BY <1>1, <3>1, <3>2 DEF StackRecord, StackStatus
    <3>4. HasOutputs /\ HasOutputs'
      BY <3>1, <3>3 DEF HasOutputs
    <3>5. QED
      BY <1>1, <1>2, <1>3, <1>4, <3>1, <3>3, <3>4 DEF StackRefs
  <2>4. QED
    BY <2>1, <2>2, <2>3
<1>6. svc.phase # "none" => svc'.phase # "none"
  BY <1>2
<1>7. /\ pc' \in [Operators -> PC] /\ ctx' \in [Operators -> Context]
      /\ \A p \in Operators : ScriptRefs(p)'
  BY <1>2, <1>4, <1>5, <1>6, IdleScriptsTyped
<1>8. TypeOK'
  BY <1>2, <1>5, <1>7 DEF Typed, TypeOK, EcsTypeOK
<1>9. ServiceRefs'
  BY <1>1, <1>2, <1>4 DEF ServiceRefs
<1>10. QED
  BY <1>5, <1>7, <1>8, <1>9 DEF Typed, RefsOK

LEMMA RepairTyped ==
  ASSUME Typed, RepairStack
  PROVE  Typed'
<1>1. CASE UNCHANGED svc
  BY <1>1, StatusTyped
<1>2. CASE ProfileUpdatesService(Resolve(stack.template, stack.recipe))
  BY <1>2, ReapplyTyped DEF RepairStack
<1>3. QED
  BY <1>1, <1>2 DEF RepairStack

LEMMA EcsTyped ==
  ASSUME Typed, EcsNext, UNCHANGED <<stack, pending, pc, ctx>>
  PROVE  Typed'
<1>1. /\ svc \in Service /\ alarm \in AlarmStates /\ taskDefs \in Seq(TaskDefinition)
      /\ ServiceRefs /\ StackRefs
  BY DEF Typed, TypeOK, EcsTypeOK, RefsOK
<1>2. taskDefs' = taskDefs
  BY DEF EcsNext, CanaryCompletes, AlarmStopsCanary, RevertCompletes, AlarmDegrades, AlarmRecovers
<1>3. /\ svc' \in Service /\ alarm' \in AlarmStates
      /\ svc'.target \in {svc.target, svc.baseline} /\ svc'.baseline \in {svc.target, svc.baseline}
      /\ (svc'.phase = "none") <=> (svc.phase = "none")
  <2>1. CASE CanaryCompletes
    BY <1>1, <2>1 DEF CanaryCompletes, Service, Phases
  <2>2. CASE AlarmStopsCanary
    BY <1>1, <2>2 DEF AlarmStopsCanary, Service, Phases
  <2>3. CASE RevertCompletes
    BY <1>1, <2>3 DEF RevertCompletes, Service, Phases
  <2>4. CASE AlarmDegrades
    BY <1>1, <2>4 DEF AlarmDegrades, AlarmStates
  <2>5. CASE AlarmRecovers
    BY <1>1, <2>5 DEF AlarmRecovers, AlarmStates
  <2>6. QED
    BY <2>1, <2>2, <2>3, <2>4, <2>5 DEF EcsNext
<1>4. Len(taskDefs') \in Nat /\ Len(taskDefs) <= Len(taskDefs') /\ Known' = Known
  BY <1>1, <1>2 DEF Known
<1>5. ServiceRefs'
  BY <1>1, <1>3, <1>4 DEF ServiceRefs
<1>6. HasOutputs' = HasOutputs /\ StackRefs'
  BY <1>1, <1>3, <1>4 DEF StackRefs, HasOutputs
<1>7. svc.phase # "none" => svc'.phase # "none"
  BY <1>3
<1>8. /\ pc' \in [Operators -> PC] /\ ctx' \in [Operators -> Context]
      /\ \A p \in Operators : ScriptRefs(p)'
  BY <1>4, <1>6, <1>7, IdleScriptsTyped
<1>9. TypeOK'
  BY <1>2, <1>3, <1>8 DEF Typed, TypeOK, EcsTypeOK
<1>10. QED
  BY <1>5, <1>6, <1>8, <1>9 DEF Typed, RefsOK

----------------------------------------------------------------------------
LEMMA StutterTyped ==
  ASSUME Typed, UNCHANGED vars
  PROVE  Typed'
<1>1. UNCHANGED <<ecsVars, stack, pending>> /\ UNCHANGED <<taskDefs, svc, stack, pc, ctx>>
  BY DEF vars, ecsVars
<1>2. taskDefs \in Seq(TaskDefinition)
  BY DEF Typed, TypeOK, EcsTypeOK
<1>3. Len(taskDefs') \in Nat /\ Len(taskDefs) <= Len(taskDefs')
  BY <1>1, <1>2
<1>4. HasOutputs' = HasOutputs
  BY <1>1 DEF HasOutputs
<1>5. QED
  BY <1>1, <1>3, <1>4, IdleScriptsTyped, QuietTyped

LEMMA NextTyped ==
  ASSUME Typed, [Next]_vars
  PROVE  Typed'
<1>1. ASSUME NEW o \in Operators, OperatorStarts(o) PROVE Typed'
  BY <1>1, StartReleaseTyped, BootstrapTyped, StartDeployTyped DEF OperatorStarts
<1>2. ASSUME NEW o \in Operators, ReleaseStep(o) PROVE Typed'
  BY <1>2, GatesTyped, RegisterScriptTyped, ReleaseUpdatesServiceTyped DEF ReleaseStep
<1>3. ASSUME NEW o \in Operators, DeployStep(o) PROVE Typed'
  BY <1>3, EndsTyped, ReadRunningTyped, CountInFlightTyped, SyncTyped, RecipeReadTyped,
     CdkDeployTyped DEF DeployStep
<1>4. ASSUME NEW o \in Operators, Abort(o) PROVE Typed'
  BY <1>4, EndsTyped
<1>5. CASE CloudFormation \/ DeleteFailedStack \/ RepairStack
  BY <1>5, CreateStackTyped, ApplyUpdateTyped, StartRollbackTyped, StatusTyped, RepairTyped
     DEF CloudFormation
<1>6. CASE EcsNext /\ UNCHANGED <<stack, pending, pc, ctx>>
  BY <1>6, EcsTyped
<1>7. CASE UNCHANGED vars
  BY <1>7, StutterTyped
<1>8. QED
  BY <1>1, <1>2, <1>3, <1>4, <1>5, <1>6, <1>7 DEF Next, ScriptStep

\* Every variable keeps its type, and every revision number that a script, the
\* service or the stack holds is the number of a registered revision.
THEOREM TypeCorrect == Spec => []TypeOK
<1>1. Typed => TypeOK
  BY DEF Typed
<1>2. Spec => []Typed
  BY InitTyped, NextTyped, PTL DEF Spec
<1>3. QED
  BY <1>1, <1>2, PTL

=============================================================================
