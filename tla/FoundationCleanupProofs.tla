----------------------- MODULE FoundationCleanupProofs -----------------------
(***************************************************************************)
(* Proofs about FoundationCleanup, for every catalog and any number of     *)
(* terminals, deployments and failures: type correctness, that a finished  *)
(* stack has its repositories, that only inspected incarnations and only   *)
(* without a workload are deleted, and that CLEANED is current.            *)
(*                                                                         *)
(* What a run has read is history by the time it acts on it.  The          *)
(* inductive invariant says what of it still holds: nothing is deployed    *)
(* while a run is under way, unless races are allowed (Steady,             *)
(* NoWorkload); a repository that the run has read can only have gone      *)
(* since (Incarnations); and no incarnation ever comes back (History).     *)
(***************************************************************************)
EXTENDS FoundationCleanup, TLAPS

Executing == {"disable", "delete", "wait", "repositories"}

\* Deployments are numbered upwards, and each creates a repository once.
Numbered(rs) == \A r \in Repositories : rs[r] <= stack.deploy /\ (rs[r] = stack.deploy => r \in stack.made)
History ==
  /\ stack.deploy > 0
  /\ Numbered(repos)
  /\ \A o \in Operators : witnessed[o].stack <= stack.deploy /\ Numbered(witnessed[o].repos)

\* What the final inspection has found gone was gone, or is another one now.
FoundGone(o) ==
  pc[o] = "verify" =>
    /\ seen[o].stack = "absent" => witnessed[o].stack = 0 \/ witnessed[o].stack # StackDeploy
    /\ \A r \in Repositories :
         seen[o].repos[r] = 0 => witnessed[o].repos[r] = 0 \/ witnessed[o].repos[r] # repos[r]

\* Without races a run that has seen a settled stack will not see it created,
\* and repositories are deleted when the stack is gone for as long as it runs.
Settled == {"complete", "deleteFailed", "deleting", "absent"}
SteadyFor(o) ==
  /\ pc[o] = "inspect" /\ seen[o].stack \in Settled => stack.status \in Settled
  /\ pc[o] = "inspect" /\ seen[o].stack = "absent" => stack.status = "absent"
  /\ pc[o] \in {"disable", "delete", "wait"} => stack.status \in Settled
  /\ pc[o] = "repositories" => stack.status = "absent"
Whole ==
  /\ stack.status \in WithOutputs => stack.made = Repositories
  /\ stack.status \notin {"absent", "rolledBack"} => \A r \in stack.made : repos[r] # 0
Steady == Whole /\ \A o \in Operators : SteadyFor(o)

\* Repository r is still the incarnation d, or it has gone for as long as any run.
Kept(r, d) == repos[r] = d \/ (~FoundationRaces /\ repos[r] = 0 /\ stack.status = "absent")
IncarnationsOf(o) ==
  /\ pc[o] = "inspect" =>
       \A r \in Repositories : seen[o].repos[r] \notin {0, Unread} => Kept(r, seen[o].repos[r])
  /\ pc[o] \in Executing =>
       \A r \in plan[o].queue : plan[o].inspected[r] \notin {0, Unread} /\ Kept(r, plan[o].inspected[r])
Alone == \A o, p \in Operators : o = p
Incarnations == \A o \in Operators : IncarnationsOf(o)

NoWorkloadFor(o) ==
  (pc[o] = "inspect" /\ seen[o].workload = "absent") \/ pc[o] \in Executing => ~workload
NoWorkload == \A o \in Operators : NoWorkloadFor(o)

\* Nothing of an ended run is kept.
Fresh == \A o \in Operators : pc[o] = "idle" => seen[o] = NothingRead

IInv ==
  /\ TypeOK /\ History /\ Fresh
  /\ \A o \in Operators : FoundGone(o)
  /\ ~FoundationRaces => Steady
  /\ Alone \/ ~FoundationRaces => Incarnations
  /\ ~WorkloadRaces => NoWorkload

-----------------------------------------------------------------------------
(* Lemmas *)

LEMMA Counts == /\ RepositoryCount \in Nat /\ MaxDeploys \in Nat /\ MaxDeploys > 0 /\ MaxFaults \in Nat
                /\ Deploys \subseteq Nat /\ 0 \in Deploys /\ 1 \in Deploys /\ Unread \notin Nat
                /\ Repositories # {} /\ Repositories \subseteq Nat
<1>1. 1 \in Repositories
  BY CatalogAssumption DEF Repositories
<1>2. QED
  BY <1>1, CatalogAssumption DEF Deploys, Repositories, Unread

LEMMA NothingReadType == NothingRead \in Inspection
  BY DEF NothingRead, Inspection

LEMMA NoPlanType == NoPlan \in Plan
  BY DEF NoPlan, Plan, NothingRead

LEMMA NoWitnessType == NoWitness \in Witness
  BY Counts DEF NoWitness, Witness

LEMMA InitType == Init => TypeOK
<1> SUFFICES ASSUME Init PROVE TypeOK
  OBVIOUS
<1>1. stack \in Stack
  BY Counts DEF Init, Stack, StackStatus
<1>2. seen \in [Operators -> Inspection] /\ plan \in [Operators -> Plan] /\ witnessed \in [Operators -> Witness]
  BY NothingReadType, NoPlanType, NoWitnessType DEF Init
<1>3. pc \in [Operators -> PC] /\ outcome \in [Operators -> Outcomes]
  BY DEF Init, PC, Outcomes
<1>4. repos \in [Repositories -> Deploys] /\ faults \in 0..MaxFaults
  BY Counts DEF Init
<1>5. workload \in BOOLEAN
  BY DEF Init
<1>6. QED
  BY <1>1, <1>2, <1>3, <1>4, <1>5 DEF TypeOK

LEMMA DeploysAreNumbers ==
  ASSUME TypeOK
  PROVE  /\ stack.deploy \in Nat /\ \A r \in Repositories : repos[r] \in Nat
         /\ \A o \in Operators : /\ witnessed[o].stack \in Nat
                                /\ \A r \in Repositories : witnessed[o].repos[r] \in Nat
<1>1. stack.deploy \in Nat /\ \A r \in Repositories : repos[r] \in Nat
  BY Counts DEF TypeOK, Stack
<1>2. ASSUME NEW o \in Operators
      PROVE  witnessed[o].stack \in Nat /\ \A r \in Repositories : witnessed[o].repos[r] \in Nat
  <2>1. witnessed[o] \in Witness
    BY DEF TypeOK
  <2>2. QED
    BY <2>1, Counts DEF Witness
<1>3. QED
  BY <1>1, <1>2

\* What the steps of a run keep of the types.
RunsTyped ==
  /\ pc \in [Operators -> PC] /\ seen \in [Operators -> Inspection] /\ plan \in [Operators -> Plan]
  /\ outcome \in [Operators -> Outcomes] /\ witnessed \in [Operators -> Witness]
EnvTyped == workload \in BOOLEAN /\ stack \in Stack /\ repos \in [Repositories -> Deploys]

LEMMA TypeParts == TypeOK <=> RunsTyped /\ EnvTyped /\ faults \in 0..MaxFaults
  BY DEF TypeOK, RunsTyped, EnvTyped

LEMMA EndType ==
  ASSUME RunsTyped, NEW o \in Operators, NEW result \in Outcomes, End(o, result)
  PROVE  RunsTyped'
  BY NothingReadType, NoPlanType, NoWitnessType DEF RunsTyped, End, PC

LEMMA GotoType ==
  ASSUME RunsTyped, NEW o \in Operators, NEW label \in PC, Goto(o, label)
  PROVE  pc' \in [Operators -> PC]
  BY DEF RunsTyped, Goto

LEMMA ReadType ==
  ASSUME RunsTyped, EnvTyped, NEW o \in Operators,
         ReadWorkload(o) \/ ReadStack(o) \/ (\E r \in Repositories : ReadRepository(o, r))
  PROVE  RunsTyped'
<1>1. seen[o] \in Inspection
  BY DEF RunsTyped
<1>2. UNCHANGED <<pc, plan, outcome, witnessed>>
  BY DEF ReadWorkload, ReadStack, ReadRepository
<1>3. CASE ReadWorkload(o)
  <2> DEFINE i == [seen[o] EXCEPT !.workload = IF workload THEN "present" ELSE "absent"]
  <2>1. i \in Inspection
    BY <1>1 DEF Inspection
  <2>2. seen' = [seen EXCEPT ![o] = i]
    BY <1>3 DEF ReadWorkload
  <2> HIDE DEF i
  <2>3. QED
    BY <1>2, <2>1, <2>2 DEF RunsTyped
<1>4. CASE ReadStack(o)
  <2> DEFINE i == [seen[o] EXCEPT !.stack = stack.status, !.protected = stack.protected]
  <2>1. i \in Inspection
    BY <1>1 DEF Inspection, EnvTyped, Stack
  <2>2. seen' = [seen EXCEPT ![o] = i]
    BY <1>4 DEF ReadStack
  <2> HIDE DEF i
  <2>3. QED
    BY <1>2, <2>1, <2>2 DEF RunsTyped
<1>5. ASSUME NEW r \in Repositories, ReadRepository(o, r) PROVE RunsTyped'
  <2> DEFINE i == [seen[o] EXCEPT !.repos[r] = repos[r]]
  <2>1. i \in Inspection
    BY <1>1 DEF Inspection, EnvTyped
  <2>2. seen' = [seen EXCEPT ![o] = i]
    BY <1>5 DEF ReadRepository
  <2> HIDE DEF i
  <2>3. QED
    BY <1>2, <2>1, <2>2 DEF RunsTyped
<1>6. QED
  BY <1>3, <1>4, <1>5

LEMMA RunType ==
  ASSUME TypeOK, NEW o \in Operators, Run(o) \/ Fail(o)
  PROVE  TypeOK'
<1>1. RunsTyped /\ EnvTyped /\ faults \in 0..MaxFaults
  BY TypeParts
<1>2. SUFFICES RunsTyped' /\ EnvTyped' /\ faults' \in 0..MaxFaults
  BY DEF TypeOK, RunsTyped, EnvTyped
<1>3. CASE Start(o)
  BY <1>1, <1>3, GotoType DEF Start, RunsTyped, EnvTyped, env, PC, Outcomes
<1>4. CASE ReadWorkload(o) \/ ReadStack(o) \/ (\E r \in Repositories : ReadRepository(o, r))
  <2>1. UNCHANGED <<env, faults>>
    BY <1>4 DEF ReadWorkload, ReadStack, ReadRepository
  <2>2. QED
    BY <1>1, <1>4, <2>1, ReadType DEF EnvTyped, env
<1>5. CASE Refuse(o) \/ DetailsMissing(o)
  <2>1. PICK result \in Outcomes : End(o, result)
    BY <1>5 DEF Refuse, DetailsMissing, Outcomes
  <2>2. QED
    BY <1>1, <1>5, <2>1, EndType DEF Refuse, DetailsMissing, EnvTyped, env
<1>6. CASE MakePlan(o)
  <2>1. seen[o] \in Inspection
    BY <1>1 DEF RunsTyped
  <2>2. PlanOf(seen[o]) \in Plan
    BY <2>1 DEF PlanOf, Plan, Inspection, Remaining
  <2>3. plan' \in [Operators -> Plan]
    BY <1>1, <1>6, <2>2 DEF MakePlan, RunsTyped
  <2>4. PICK label \in PC : Goto(o, label)
    BY <1>6 DEF MakePlan, PC
  <2>5. QED
    BY <1>1, <1>6, <2>3, <2>4, GotoType DEF MakePlan, RunsTyped, EnvTyped, env
<1>7. CASE DisableProtection(o)
  <2>1. CASE stack.status = "absent"
    BY <1>1, <1>7, <2>1, EndType DEF DisableProtection, Outcomes, EnvTyped, env
  <2>2. CASE stack.status # "absent"
    <3>1. stack' \in Stack
      BY <1>1, <1>7, <2>2 DEF DisableProtection, EnvTyped, Stack
    <3>2. pc' \in [Operators -> PC]
      BY <1>1, <1>7, <2>2, GotoType DEF DisableProtection, PC
    <3>3. QED
      BY <1>1, <1>7, <2>2, <3>1, <3>2 DEF DisableProtection, RunsTyped, EnvTyped
  <2>3. QED
    BY <2>1, <2>2
<1>8. CASE DeleteStack(o)
  <2>1. CASE stack.protected \/ stack.status = "updating"
    BY <1>1, <1>8, <2>1, EndType DEF DeleteStack, Outcomes, EnvTyped, env
  <2>2. CASE ~ (stack.protected \/ stack.status = "updating")
    BY <1>1, <1>8, <2>2, GotoType DEF DeleteStack, PC, RunsTyped, EnvTyped, Stack, StackStatus
  <2>3. QED
    BY <2>1, <2>2
<1>9. CASE WaitForDeletion(o)
  <2>1. CASE stack.status = "absent"
    BY <1>1, <1>9, <2>1, GotoType DEF WaitForDeletion, PC, RunsTyped, EnvTyped, env
  <2>2. CASE stack.status # "absent"
    BY <1>1, <1>9, <2>2, EndType DEF WaitForDeletion, Outcomes, EnvTyped, env
  <2>3. QED
    BY <2>1, <2>2
<1>10. CASE DeleteRepository(o)
  <2>1. PICK r \in plan[o].queue :
          repos' = [repos EXCEPT ![r] = 0] /\ plan' = [plan EXCEPT ![o].queue = @ \ {r}]
    BY <1>10 DEF DeleteRepository
  <2>2. plan[o] \in Plan
    BY <1>1 DEF RunsTyped
  <2>3. [plan[o] EXCEPT !.queue = @ \ {r}] \in Plan
    BY <2>2 DEF Plan
  <2>4. plan' \in [Operators -> Plan]
    BY <1>1, <2>1, <2>3 DEF RunsTyped
  <2>5. repos' \in [Repositories -> Deploys]
    BY <1>1, <2>1, Counts DEF EnvTyped
  <2>6. QED
    BY <1>1, <1>10, <2>4, <2>5 DEF DeleteRepository, RunsTyped, EnvTyped
<1>11. CASE StartVerify(o)
  <2>1. [stack |-> StackDeploy, repos |-> repos] \in Witness
    BY <1>1, Counts DEF Witness, StackDeploy, EnvTyped, Stack
  <2>2. seen' \in [Operators -> Inspection] /\ witnessed' \in [Operators -> Witness]
    BY <1>1, <1>11, <2>1, NothingReadType DEF StartVerify, RunsTyped
  <2>3. QED
    BY <1>1, <1>11, <2>2, GotoType DEF StartVerify, PC, RunsTyped, EnvTyped, env
<1>12. CASE Conclude(o)
  <2>1. PICK result \in Outcomes : End(o, result)
    BY <1>12 DEF Conclude, Outcomes
  <2>2. QED
    BY <1>1, <1>12, <2>1, EndType DEF Conclude, EnvTyped, env
<1>13. CASE Fail(o)
  BY <1>1, <1>13, EndType, Counts DEF Fail, Outcomes, EnvTyped, env
<1>14. QED
  BY <1>3, <1>4, <1>5, <1>6, <1>7, <1>8, <1>9, <1>10, <1>11, <1>12, <1>13 DEF Run

LEMMA EnvironmentType == ASSUME TypeOK, Environment PROVE TypeOK'
<1>1. stack \in Stack /\ repos \in [Repositories -> Deploys] /\ RunsTyped
  BY TypeParts DEF EnvTyped
<1>2. SUFFICES stack' \in Stack /\ repos' \in [Repositories -> Deploys] /\ workload' \in BOOLEAN
               /\ faults' \in 0..MaxFaults /\ UNCHANGED runs
  BY <1>1 DEF TypeOK, RunsTyped, runs
<1>3. CASE DeployWorkload \/ DestroyWorkload
  BY <1>1, <1>3 DEF DeployWorkload, DestroyWorkload, TypeOK
<1>4. CASE DeployFoundation
  BY <1>1, <1>4, Counts DEF DeployFoundation, Stack, StackStatus, Deploys, TypeOK
<1>5. ASSUME NEW r \in Repositories, CreateRepository(r)
      PROVE  /\ stack' \in Stack /\ repos' \in [Repositories -> Deploys]
             /\ UNCHANGED <<workload, faults, runs>>
  BY <1>1, <1>5 DEF CreateRepository, Stack
<1>6. CASE \/ UpdateFoundation \/ UpdateCompletes \/ CreateCompletes \/ CreateFails
           \/ DeletionCompletes \/ DeletionFails \/ DeleteRolledBack
  <2>1. stack' \in Stack
    BY <1>1, <1>6 DEF UpdateFoundation, UpdateCompletes, CreateCompletes, CreateFails, DeletionCompletes,
       DeletionFails, DeleteRolledBack, Stack, StackStatus
  <2>2. faults' \in 0..MaxFaults
    BY <1>6, Counts DEF UpdateFoundation, UpdateCompletes, CreateCompletes, CreateFails, DeletionCompletes,
       DeletionFails, DeleteRolledBack, TypeOK
  <2>3. UNCHANGED <<workload, repos, runs>>
    BY <1>6 DEF UpdateFoundation, UpdateCompletes, CreateCompletes, CreateFails, DeletionCompletes,
       DeletionFails, DeleteRolledBack
  <2>4. QED
    BY <1>1, <2>1, <2>2, <2>3 DEF TypeOK
<1>7. QED
  BY <1>3, <1>4, <1>5, <1>6 DEF Environment, CloudFormation, TypeOK

-----------------------------------------------------------------------------
(* What a step of a run and a step of its environment can change *)

OfRun(o) == <<pc[o], seen[o], plan[o], witnessed[o]>>

LEMMA OthersKept ==
  ASSUME TypeOK, NEW o \in Operators, Run(o) \/ Fail(o), NEW p \in Operators, p # o
  PROVE  OfRun(p)' = OfRun(p)
<1> USE DEF OfRun, TypeOK
<1>1. ASSUME NEW result, End(o, result) PROVE OfRun(p)' = OfRun(p)
  BY <1>1 DEF End
<1>2. CASE Start(o) \/ ReadWorkload(o) \/ ReadStack(o) \/ (\E r \in Repositories : ReadRepository(o, r))
  BY <1>2 DEF Start, ReadWorkload, ReadStack, ReadRepository, Goto
<1>3. CASE Refuse(o) \/ DetailsMissing(o) \/ Conclude(o) \/ Fail(o)
  BY <1>1, <1>3 DEF Refuse, DetailsMissing, Conclude, Fail
<1>4. CASE MakePlan(o)
  <2>1. PICK label : Goto(o, label)
    BY <1>4 DEF MakePlan
  <2>2. QED
    BY <1>4, <2>1 DEF MakePlan, Goto
<1>5. CASE DisableProtection(o) \/ DeleteStack(o) \/ WaitForDeletion(o)
  BY <1>1, <1>5 DEF DisableProtection, DeleteStack, WaitForDeletion, Goto
<1>6. CASE DeleteRepository(o) \/ StartVerify(o)
  BY <1>6 DEF DeleteRepository, StartVerify, Goto
<1>7. QED
  BY <1>2, <1>3, <1>4, <1>5, <1>6 DEF Run

\* A run changes no more of AWS than this.
LEMMA RunChanges ==
  ASSUME TypeOK, NEW o \in Operators, Run(o) \/ Fail(o)
  PROVE  /\ workload' = workload /\ stack'.deploy = stack.deploy /\ stack'.made = stack.made
         /\ \/ stack'.status = stack.status
            \/ pc[o] = "delete" /\ stack.status # "absent" /\ stack'.status = "deleting"
         /\ \A r \in Repositories :
              \/ repos'[r] = repos[r]
              \/ pc[o] = "repositories" /\ r \in plan[o].queue /\ repos'[r] = 0
<1>1. CASE UNCHANGED env
  BY <1>1 DEF env
<1>2. CASE DisableProtection(o) /\ stack.status # "absent"
  BY <1>2 DEF DisableProtection, TypeOK, Stack
<1>3. CASE DeleteStack(o) /\ ~ (stack.protected \/ stack.status = "updating")
  BY <1>3 DEF DeleteStack, TypeOK, Stack
<1>4. CASE DeleteRepository(o)
  BY <1>4 DEF DeleteRepository, TypeOK
<1>5. QED
  BY <1>1, <1>2, <1>3, <1>4 DEF Run, Fail, Start, ReadWorkload, ReadStack, ReadRepository, DetailsMissing,
     Refuse, MakePlan, DisableProtection, DeleteStack, WaitForDeletion, StartVerify, Conclude

\* The status of the stack moves on by itself.
StackMoves == {<<"creating", "rolledBack">>, <<"deleting", "absent">>, <<"deleting", "deleteFailed">>,
               <<"rolledBack", "absent">>, <<"updating", "complete">>}

LEMMA EnvironmentChanges ==
  ASSUME TypeOK, Environment
  PROVE  /\ UNCHANGED runs
         /\ \/ /\ UNCHANGED repos /\ stack'.deploy = stack.deploy /\ stack'.made = stack.made
               /\ \/ stack'.status = stack.status \/ <<stack.status, stack'.status>> \in StackMoves
                  \/ stack.status = "creating" /\ stack'.status = "complete" /\ stack.made = Repositories
                  \/ UpdateFoundation
            \/ DeployFoundation
            \/ \E r \in Repositories : CreateRepository(r)
<1> USE DEF TypeOK, Stack, StackMoves
<1>1. CASE DeployWorkload \/ DestroyWorkload
  BY <1>1 DEF DeployWorkload, DestroyWorkload
<1>2. CASE DeployFoundation \/ (\E r \in Repositories : CreateRepository(r))
  BY <1>2 DEF DeployFoundation, CreateRepository
<1>3. CASE CreateCompletes
  BY <1>3 DEF CreateCompletes
<1>4. CASE CreateFails
  BY <1>4 DEF CreateFails
<1>5. CASE DeletionCompletes \/ DeletionFails \/ DeleteRolledBack \/ UpdateCompletes
  BY <1>5 DEF DeletionCompletes, DeletionFails, DeleteRolledBack, UpdateCompletes
<1>7. CASE UpdateFoundation
  BY <1>7 DEF UpdateFoundation
<1>6. QED
  BY <1>1, <1>2, <1>3, <1>4, <1>5, <1>7 DEF Environment, CloudFormation

-----------------------------------------------------------------------------
(* The history of deployments, and what the final inspection finds gone *)

LEMMA InitHistory == Init => History /\ \A o \in Operators : FoundGone(o)
<1> SUFFICES ASSUME Init PROVE History /\ \A o \in Operators : FoundGone(o)
  OBVIOUS
<1>1. \A o \in Operators : FoundGone(o)
  BY DEF Init, FoundGone
<1>2. History
  BY DEF Init, History, Numbered, NoWitness
<1>3. QED
  BY <1>1, <1>2

\* Where a run's witness comes from, and how it gets to its final inspection.
LEMMA WitnessOfRun ==
  ASSUME TypeOK, NEW o \in Operators, Run(o) \/ Fail(o)
  PROVE  /\ \/ witnessed'[o] = witnessed[o] \/ witnessed'[o] = NoWitness
            \/ witnessed'[o] = [stack |-> StackDeploy, repos |-> repos]
         /\ pc'[o] = "verify" =>
              \/ seen'[o] = NothingRead
              \/ /\ pc[o] = "verify" /\ UNCHANGED env /\ witnessed'[o] = witnessed[o]
                 /\ seen'[o].stack = "absent" => seen[o].stack = "absent" \/ stack.status = "absent"
                 /\ \A r \in Repositories : seen'[o].repos[r] = 0 => seen[o].repos[r] = 0 \/ repos[r] = 0
<1> USE DEF TypeOK
<1>1. ASSUME NEW result, End(o, result)
      PROVE  witnessed'[o] = NoWitness /\ pc'[o] = "idle"
  BY <1>1 DEF End
<1>2. CASE Start(o)
  BY <1>2 DEF Start, Goto
<1>3. CASE ReadWorkload(o) \/ ReadStack(o)
  BY <1>3 DEF ReadWorkload, ReadStack, Inspection
<1>4. ASSUME NEW r \in Repositories, ReadRepository(o, r)
      PROVE  /\ witnessed'[o] = witnessed[o] /\ pc'[o] = pc[o] /\ UNCHANGED env
             /\ seen'[o].stack = seen[o].stack
             /\ \A q \in Repositories : seen'[o].repos[q] = 0 => seen[o].repos[q] = 0 \/ repos[q] = 0
  BY <1>4 DEF ReadRepository, Inspection
<1>5. CASE Refuse(o) \/ DetailsMissing(o) \/ Conclude(o) \/ Fail(o)
  BY <1>1, <1>5 DEF Refuse, DetailsMissing, Conclude, Fail
<1>6. CASE MakePlan(o)
  BY <1>6 DEF MakePlan, Goto
<1>7. CASE DisableProtection(o) \/ DeleteStack(o) \/ WaitForDeletion(o)
  BY <1>1, <1>7 DEF DisableProtection, DeleteStack, WaitForDeletion, Goto
<1>8. CASE DeleteRepository(o)
  BY <1>8 DEF DeleteRepository
<1>9. CASE StartVerify(o)
  BY <1>9 DEF StartVerify, Goto
<1>10. QED
  BY <1>2, <1>3, <1>4, <1>5, <1>6, <1>7, <1>8, <1>9 DEF Run

LEMMA RunHistory ==
  ASSUME TypeOK, History, NEW o \in Operators, Run(o) \/ Fail(o)
  PROVE  History'
<1>1. stack.deploy \in Nat /\ \A r \in Repositories : repos[r] \in Nat
  BY DeploysAreNumbers
<1>2. stack'.deploy = stack.deploy /\ stack'.made = stack.made
  BY RunChanges
<1>3. Numbered(repos)'
  BY <1>1, <1>2, RunChanges DEF History, Numbered
<1>4. ASSUME NEW p \in Operators
      PROVE  witnessed'[p].stack <= stack.deploy /\ Numbered(witnessed[p].repos)'
  <2>1. CASE p # o
    BY <1>2, <2>1, OthersKept DEF OfRun, History, Numbered
  <2>2. CASE p = o
    <3>1. StackDeploy <= stack.deploy
      BY <1>1 DEF StackDeploy
    <3>2. CASE witnessed'[o] = witnessed[o]
      BY <1>2, <2>2, <3>2 DEF History, Numbered
    <3>3. CASE witnessed'[o] = NoWitness
      BY <1>1, <1>2, <2>2, <3>3 DEF History, Numbered, NoWitness
    <3>4. CASE witnessed'[o] = [stack |-> StackDeploy, repos |-> repos]
      BY <1>2, <2>2, <3>1, <3>4 DEF History, Numbered
    <3>5. QED
      BY <3>2, <3>3, <3>4, WitnessOfRun
  <2>3. QED
    BY <2>1, <2>2
<1>5. QED
  BY <1>2, <1>3, <1>4 DEF History

LEMMA EnvironmentHistory == ASSUME TypeOK, History, Environment PROVE History'
<1>1. /\ stack.deploy \in Nat /\ \A r \in Repositories : repos[r] \in Nat
      /\ \A o \in Operators : witnessed[o].stack \in Nat /\ \A r \in Repositories : witnessed[o].repos[r] \in Nat
  BY DeploysAreNumbers
<1>2. UNCHANGED witnessed
  BY EnvironmentChanges DEF runs
<1>3. CASE UNCHANGED repos /\ stack'.deploy = stack.deploy /\ stack'.made = stack.made
  BY <1>2, <1>3 DEF History, Numbered
<1>4. CASE DeployFoundation
  BY <1>1, <1>2, <1>4 DEF DeployFoundation, History, Numbered
<1>5. ASSUME NEW r \in Repositories, CreateRepository(r) PROVE History'
  BY <1>1, <1>2, <1>5 DEF CreateRepository, History, Numbered, TypeOK, Stack
<1>6. QED
  BY <1>3, <1>4, <1>5, EnvironmentChanges

LEMMA RunFoundGone ==
  ASSUME TypeOK, NEW o \in Operators, Run(o) \/ Fail(o), NEW p \in Operators, FoundGone(p)
  PROVE  FoundGone(p)'
<1>1. StackDeploy' = StackDeploy
  BY RunChanges DEF StackDeploy
<1>2. CASE p # o
  BY <1>1, <1>2, RunChanges, OthersKept DEF OfRun, FoundGone
<1>3. CASE p = o /\ pc'[o] = "verify"
  <2>1. CASE seen'[o] = NothingRead
    BY <1>3, <2>1 DEF FoundGone, NothingRead, Unread
  <2>2. CASE seen'[o] # NothingRead
    BY <1>1, <1>3, <2>2, WitnessOfRun DEF FoundGone, StackDeploy, env
  <2>3. QED
    BY <2>1, <2>2
<1>4. QED
  BY <1>2, <1>3 DEF FoundGone

LEMMA EnvironmentFoundGone ==
  ASSUME TypeOK, History, Environment, NEW o \in Operators, FoundGone(o)
  PROVE  FoundGone(o)'
<1>1. /\ stack.deploy \in Nat
      /\ witnessed[o].stack \in Nat /\ \A r \in Repositories : witnessed[o].repos[r] \in Nat
  BY DeploysAreNumbers
<1>2. UNCHANGED <<pc, seen, witnessed>>
  BY EnvironmentChanges DEF runs
<1>3. witnessed[o].stack <= stack.deploy /\ Numbered(witnessed[o].repos)
  BY DEF History
<1>4. CASE UNCHANGED repos /\ stack'.deploy = stack.deploy /\ stack'.made = stack.made
  <2>1. StackDeploy' = StackDeploy \/ StackDeploy' = 0
    <3>1. CASE stack.status = "absent"
      <4>1. stack'.status = "absent"
        BY <1>1, <1>4, <3>1, EnvironmentChanges
           DEF StackMoves, UpdateFoundation, DeployFoundation, CreateRepository
      <4>2. QED
        BY <3>1, <4>1 DEF StackDeploy
    <3>2. QED
      BY <1>4, <3>1 DEF StackDeploy
  <2>2. QED
    BY <1>2, <1>4, <2>1 DEF FoundGone
<1>5. CASE DeployFoundation
  <2>1. StackDeploy' = stack.deploy + 1
    BY <1>5 DEF DeployFoundation, StackDeploy
  <2>2. witnessed[o].stack # stack.deploy + 1
    BY <1>1, <1>3
  <2>3. QED
    BY <1>2, <1>5, <2>1, <2>2 DEF FoundGone, DeployFoundation
<1>6. ASSUME NEW r \in Repositories, CreateRepository(r) PROVE FoundGone(o)'
  <2>1. StackDeploy' = StackDeploy
    BY <1>6 DEF CreateRepository, StackDeploy, TypeOK, Stack
  <2>2. witnessed[o].repos[r] # stack.deploy
    BY <1>3, <1>6 DEF Numbered, CreateRepository
  <2>3. \A q \in Repositories : repos'[q] = IF q = r THEN stack.deploy ELSE repos[q]
    BY <1>6 DEF CreateRepository, TypeOK
  <2>4. QED
    BY <1>2, <2>1, <2>2, <2>3 DEF FoundGone
<1>7. QED
  BY <1>4, <1>5, <1>6, EnvironmentChanges

-----------------------------------------------------------------------------
(* How a run goes on *)

Ends(o)     == pc'[o] = "idle" /\ seen'[o] = NothingRead
Starts(o)   == pc[o] = "idle" /\ pc'[o] = "inspect" /\ seen'[o] = seen[o]
Reads(o)    ==
  /\ Reading(o) /\ pc'[o] = pc[o] /\ plan'[o] = plan[o] /\ UNCHANGED env
  /\ seen'[o].workload = seen[o].workload \/ (~workload <=> seen'[o].workload = "absent")
  /\ seen'[o].stack \in {seen[o].stack, stack.status}
  /\ \A r \in Repositories : seen'[o].repos[r] \in {seen[o].repos[r], repos[r]}
Plans(o)    ==
  /\ pc[o] = "inspect" /\ AllRead(o) /\ Ready(seen[o]) /\ plan'[o] = PlanOf(seen[o]) /\ UNCHANGED env
  /\ IF seen[o].stack = "absent" THEN pc'[o] = "repositories" ELSE pc'[o] \in {"disable", "delete"}
Deletes(o)  == pc[o] \in {"disable", "delete"} /\ pc'[o] \in {"delete", "wait"} /\ plan'[o] = plan[o]
Waited(o)   == pc[o] = "wait" /\ stack.status = "absent" /\ pc'[o] = "repositories" /\ plan'[o] = plan[o] /\ UNCHANGED env
Removes(o)  ==
  /\ pc[o] = "repositories" /\ pc'[o] = "repositories" /\ UNCHANGED <<workload, stack>>
  /\ plan'[o].inspected = plan[o].inspected
  /\ \E r \in plan[o].queue : plan'[o].queue = plan[o].queue \ {r} /\ repos' = [repos EXCEPT ![r] = 0]
Verifies(o) == pc'[o] = "verify" /\ UNCHANGED env

LEMMA RunMoves ==
  ASSUME TypeOK, NEW o \in Operators, Run(o) \/ Fail(o)
  PROVE  Ends(o) \/ Starts(o) \/ Reads(o) \/ Plans(o) \/ Deletes(o) \/ Waited(o) \/ Removes(o) \/ Verifies(o)
<1>1. ASSUME NEW result, End(o, result) PROVE Ends(o)
  BY <1>1 DEF End, Ends, TypeOK
<1>2. CASE Start(o)
  BY <1>2 DEF Start, Goto, Starts, TypeOK
<1>3. CASE ReadWorkload(o) \/ ReadStack(o) \/ (\E r \in Repositories : ReadRepository(o, r))
  <2>1. seen[o] \in Inspection
    BY DEF TypeOK
  <2>2. Reading(o) /\ pc'[o] = pc[o] /\ plan'[o] = plan[o] /\ UNCHANGED env
    BY <1>3 DEF ReadWorkload, ReadStack, ReadRepository
  <2>3. CASE ReadWorkload(o)
    BY <2>1, <2>2, <2>3 DEF ReadWorkload, Reads, Inspection, TypeOK
  <2>4. CASE ReadStack(o)
    BY <2>1, <2>2, <2>4 DEF ReadStack, Reads, Inspection, TypeOK
  <2>5. ASSUME NEW r \in Repositories, ReadRepository(o, r) PROVE Reads(o)
    BY <2>1, <2>2, <2>5 DEF ReadRepository, Reads, Inspection, TypeOK
  <2>6. QED
    BY <1>3, <2>3, <2>4, <2>5
<1>4. CASE Refuse(o) \/ DetailsMissing(o) \/ Conclude(o) \/ Fail(o)
  BY <1>1, <1>4 DEF Refuse, DetailsMissing, Conclude, Fail
<1>5. CASE MakePlan(o)
  <2>1. plan'[o] = PlanOf(seen[o]) /\ UNCHANGED env /\ pc[o] = "inspect" /\ AllRead(o) /\ Ready(seen[o])
    BY <1>5 DEF MakePlan, TypeOK
  <2>2. pc'[o] = CASE plan'[o].disable -> "disable"
                   [] plan'[o].stack /\ ~plan'[o].disable -> "delete"
                   [] OTHER -> "repositories"
    BY <1>5 DEF MakePlan, Goto, TypeOK
  <2>3. /\ plan'[o].stack <=> seen[o].stack # "absent"
        /\ plan'[o].disable => seen[o].stack # "absent"
    <3>1. /\ PlanOf(seen[o]).stack = (seen[o].stack # "absent")
          /\ PlanOf(seen[o]).disable = (seen[o].stack # "absent" /\ seen[o].protected)
      BY DEF PlanOf
    <3>2. QED
      BY <2>1, <3>1, Zenon
  <2>4. IF seen[o].stack = "absent" THEN pc'[o] = "repositories" ELSE pc'[o] \in {"disable", "delete"}
    BY <2>2, <2>3
  <2>5. QED
    BY <2>1, <2>4 DEF Plans
<1>6. CASE DisableProtection(o) \/ DeleteStack(o)
  BY <1>1, <1>6 DEF DisableProtection, DeleteStack, Goto, Deletes, TypeOK
<1>7. CASE WaitForDeletion(o)
  BY <1>1, <1>7 DEF WaitForDeletion, Goto, Waited, TypeOK
<1>8. CASE DeleteRepository(o)
  BY <1>8 DEF DeleteRepository, Removes, TypeOK, Plan
<1>9. CASE StartVerify(o)
  BY <1>9 DEF StartVerify, Goto, Verifies, TypeOK
<1>10. QED
  BY <1>2, <1>3, <1>4, <1>5, <1>6, <1>7, <1>8, <1>9 DEF Run

LEMMA FreshKept ==
  ASSUME TypeOK, Fresh, (\E o \in Operators : Run(o) \/ Fail(o)) \/ Environment
  PROVE  Fresh'
<1>1. ASSUME NEW o \in Operators, Run(o) \/ Fail(o), NEW p \in Operators, pc'[p] = "idle"
      PROVE  seen'[p] = NothingRead
  <2>1. CASE p # o
    BY <1>1, <2>1, OthersKept DEF OfRun, Fresh
  <2>2. CASE p = o
    BY <1>1, <2>2, RunMoves DEF Ends, Starts, Reads, Reading, Plans, Deletes, Waited, Removes, Verifies
  <2>3. QED
    BY <2>1, <2>2
<1>2. CASE Environment
  BY <1>2, EnvironmentChanges DEF runs, Fresh
<1>3. QED
  BY <1>1, <1>2 DEF Fresh

\* What a plan that deletes the stack, or none, was made from.
LEMMA ReadyMeans ==
  ASSUME NEW i \in Inspection, Ready(i)
  PROVE  i.stack \in {"unread", "complete", "deleteFailed", "absent"} /\ i.workload # "present"
<1>1. i.stack = "rolledBack" => FALSE
  BY Counts DEF Ready, Blocked, RepositoryAbsent, OutputMismatch, WithOutputs
<1>2. QED
  BY <1>1 DEF Ready, Blocked, WorkloadPresent, StackInProgress, InProgress, Inspection, StackStatus

-----------------------------------------------------------------------------
(* Without races: nothing is deployed while a run is under way *)

LEMMA RunSteady ==
  ASSUME TypeOK, Fresh, Steady, NEW o \in Operators, Run(o) \/ Fail(o)
  PROVE  Steady'
<1>1. SteadyFor(o) /\ Whole
  BY DEF Steady
<1>2. Whole'
  <2>1. CASE stack'.status = stack.status /\ \A r \in Repositories : repos'[r] = repos[r]
    BY <1>1, <2>1, RunChanges DEF Whole, TypeOK, Stack
  <2>2. CASE pc[o] = "delete" /\ stack.status # "absent" /\ stack'.status = "deleting"
    <3>1. stack.status \in WithOutputs
      BY <1>1, <2>2 DEF SteadyFor, Settled, WithOutputs
    <3>2. \A r \in Repositories : repos'[r] = repos[r]
      BY <2>2, RunChanges
    <3>3. QED
      BY <1>1, <2>2, <3>1, <3>2, RunChanges DEF Whole, WithOutputs, TypeOK, Stack
  <2>3. CASE pc[o] = "repositories"
    <3>1. stack.status = "absent" /\ stack'.status = "absent"
      BY <1>1, <2>3, RunChanges DEF SteadyFor
    <3>2. QED
      BY <3>1 DEF Whole, WithOutputs
  <2>4. QED
    BY <2>1, <2>2, <2>3, RunChanges
<1>3. /\ stack.status \in Settled => stack'.status \in Settled
      /\ stack.status = "absent" => stack'.status = "absent"
  BY RunChanges DEF Settled
<1>4. ASSUME NEW p \in Operators PROVE SteadyFor(p)'
  <2>1. CASE p # o
    <3>1. SteadyFor(p) /\ pc'[p] = pc[p] /\ seen'[p] = seen[p]
      BY <2>1, OthersKept DEF OfRun, Steady
    <3>2. QED
      BY <1>3, <3>1 DEF SteadyFor
  <2>2. CASE p = o
    <3>1. CASE Ends(o) \/ Starts(o) \/ Verifies(o)
      BY <2>2, <3>1 DEF Ends, Starts, Verifies, SteadyFor, Fresh, NothingRead, Settled
    <3>2. CASE Reads(o)
      BY <1>1, <2>2, <3>2 DEF Reads, Reading, SteadyFor, env
    <3>3. CASE Plans(o)
      <4>1. seen[o].stack \in {"complete", "deleteFailed", "absent"}
        BY <3>3, ReadyMeans DEF Plans, AllRead, TypeOK
      <4>2. QED
        BY <1>1, <2>2, <3>3, <4>1 DEF Plans, SteadyFor, Settled, env
    <3>4. CASE Deletes(o) \/ Waited(o) \/ Removes(o)
      BY <1>1, <1>3, <2>2, <3>4 DEF Deletes, Waited, Removes, SteadyFor, env
    <3>5. QED
      BY <3>1, <3>2, <3>3, <3>4, RunMoves
  <2>3. QED
    BY <2>1, <2>2
<1>5. QED
  BY <1>2, <1>4 DEF Steady

LEMMA EnvironmentSteady ==
  ASSUME TypeOK, History, Steady, ~FoundationRaces, Environment
  PROVE  Steady'
<1>1. UNCHANGED <<pc, seen>> /\ Whole
  BY EnvironmentChanges DEF runs, Steady
<1>2. CASE /\ UNCHANGED repos /\ stack'.deploy = stack.deploy /\ stack'.made = stack.made
           /\ \/ stack'.status = stack.status \/ <<stack.status, stack'.status>> \in StackMoves
              \/ stack.status = "creating" /\ stack'.status = "complete" /\ stack.made = Repositories
  <2>1. Whole'
    BY <1>1, <1>2 DEF Whole, StackMoves, WithOutputs
  <2>2. /\ stack.status \in Settled => stack'.status \in Settled
        /\ stack.status = "absent" => stack'.status = "absent"
    BY <1>2 DEF StackMoves, Settled
  <2>3. QED
    BY <1>1, <2>1, <2>2 DEF Steady, SteadyFor
<1>3. CASE DeployFoundation
  <2>1. \A o \in Operators : pc[o] = "idle"
    BY <1>3 DEF DeployFoundation, AllIdle
  <2>2. Whole'
    BY <1>3 DEF DeployFoundation, Whole, WithOutputs
  <2>3. QED
    BY <1>1, <2>1, <2>2 DEF Steady, SteadyFor
<1>4. ASSUME NEW r \in Repositories, CreateRepository(r) PROVE Steady'
  <2>1. stack.deploy # 0 /\ stack'.status = "creating" /\ stack.status = "creating"
    BY <1>4, DeploysAreNumbers DEF CreateRepository, TypeOK, Stack, History
  <2>2. stack'.made = stack.made \cup {r} /\ \A q \in Repositories : repos'[q] = IF q = r THEN stack.deploy ELSE repos[q]
    BY <1>4 DEF CreateRepository, TypeOK, Stack
  <2>3. Whole'
    BY <1>1, <2>1, <2>2 DEF Whole, WithOutputs, TypeOK, Stack
  <2>4. QED
    BY <1>1, <2>1, <2>3 DEF Steady, SteadyFor
<1>6. CASE UpdateFoundation
  <2>1. \A o \in Operators : pc[o] = "idle"
    BY <1>6 DEF UpdateFoundation, AllIdle
  <2>2. Whole'
    BY <1>1, <1>6 DEF UpdateFoundation, Whole, WithOutputs, TypeOK, Stack
  <2>3. QED
    BY <1>1, <2>1, <2>2 DEF Steady, SteadyFor
<1>5. QED
  BY <1>2, <1>3, <1>4, <1>6, EnvironmentChanges

-----------------------------------------------------------------------------
(* A repository that a run has read can only have gone since *)

\* Kept in the next state.
KeptNext(r, d) == repos'[r] = d \/ (~FoundationRaces /\ repos'[r] = 0 /\ stack'.status = "absent")

LEMMA RunIncarnations ==
  ASSUME TypeOK, Fresh, ~FoundationRaces => Steady, Alone \/ ~FoundationRaces, Incarnations,
         NEW o \in Operators, Run(o) \/ Fail(o)
  PROVE  Incarnations'
<1>1. stack.status = "absent" => stack'.status = "absent"
  BY RunChanges
\* What the run does not delete stays.
<1>2. ASSUME NEW r \in Repositories, NEW d, Kept(r, d), repos'[r] = repos[r]
      PROVE  KeptNext(r, d)
  BY <1>1, <1>2 DEF Kept, KeptNext
<1>3. ASSUME NEW p \in Operators, p # o PROVE IncarnationsOf(p)'
  <2>1. ~FoundationRaces /\ SteadyFor(o)
    BY <1>3 DEF Alone, Steady
  <2>2. ASSUME NEW r \in Repositories, NEW d, Kept(r, d) PROVE KeptNext(r, d)
    <3>1. CASE repos'[r] = repos[r]
      BY <1>2, <2>2, <3>1
    <3>2. CASE repos'[r] = 0 /\ pc[o] = "repositories"
      BY <1>1, <2>1, <3>2 DEF SteadyFor, Kept, KeptNext
    <3>3. QED
      BY <3>1, <3>2, RunChanges
  <2>3. OfRun(p)' = OfRun(p) /\ IncarnationsOf(p)
    BY <1>3, OthersKept DEF Incarnations
  <2>4. plan[p].queue \subseteq Repositories
    BY DEF TypeOK, Plan
  <2>5. QED
    BY <2>2, <2>3, <2>4 DEF OfRun, IncarnationsOf, Kept, KeptNext
<1>4. IncarnationsOf(o)'
  <2>1. IncarnationsOf(o) /\ plan[o].queue \subseteq Repositories /\ seen[o] \in Inspection
    BY DEF Incarnations, TypeOK, Plan
  <2>2. CASE Ends(o) \/ Starts(o) \/ Verifies(o)
    BY <2>2 DEF Ends, Starts, Verifies, IncarnationsOf, Fresh, NothingRead, Executing
  <2>3. CASE Reads(o)
    <3>1. \A r \in Repositories : repos'[r] = repos[r]
      BY <2>3 DEF Reads, env
    <3>2. ASSUME NEW r \in Repositories, pc[o] = "inspect", seen'[o].repos[r] \notin {0, Unread}
          PROVE  KeptNext(r, seen'[o].repos[r])
      <4>1. CASE seen'[o].repos[r] = seen[o].repos[r]
        BY <1>2, <2>1, <3>1, <3>2, <4>1 DEF IncarnationsOf
      <4>2. CASE seen'[o].repos[r] = repos[r]
        BY <3>1, <4>2 DEF KeptNext
      <4>3. QED
        BY <2>3, <4>1, <4>2 DEF Reads
    <3>3. QED
      BY <2>3, <3>2 DEF Reads, Reading, IncarnationsOf, Executing, Kept, KeptNext
  <2>4. CASE Plans(o)
    <3>1. \A r \in Repositories : repos'[r] = repos[r]
      BY <2>4 DEF Plans, env
    <3>2. plan'[o].queue = Remaining(seen[o]) /\ plan'[o].inspected = seen[o].repos
      BY <2>4 DEF Plans, PlanOf
    <3>3. ASSUME NEW r \in plan'[o].queue
          PROVE  plan'[o].inspected[r] \notin {0, Unread} /\ KeptNext(r, plan'[o].inspected[r])
      <4>1. r \in Repositories /\ seen[o].repos[r] \notin {0, Unread}
        BY <2>4, <3>2 DEF Plans, AllRead, Remaining
      <4>2. Kept(r, seen[o].repos[r])
        BY <2>1, <2>4, <4>1 DEF Plans, IncarnationsOf
      <4>3. QED
        BY <1>2, <3>1, <3>2, <4>1, <4>2
    <3>4. pc'[o] # "inspect"
      BY <2>4 DEF Plans
    <3>5. QED
      BY <3>3, <3>4 DEF IncarnationsOf, Kept, KeptNext
  <2>5. CASE Deletes(o) \/ Waited(o)
    <3>1. \A r \in Repositories : repos'[r] = repos[r]
      BY <2>5, RunChanges DEF Deletes, Waited
    <3>2. pc[o] \in Executing /\ pc'[o] # "inspect" /\ plan'[o] = plan[o]
      BY <2>5 DEF Deletes, Waited, Executing
    <3>3. QED
      BY <1>2, <2>1, <3>1, <3>2 DEF IncarnationsOf, Kept, KeptNext
  <2>6. CASE Removes(o)
    <3>1. PICK r \in plan[o].queue : plan'[o].queue = plan[o].queue \ {r} /\ repos' = [repos EXCEPT ![r] = 0]
      BY <2>6 DEF Removes
    <3>2. \A q \in Repositories : q # r => repos'[q] = repos[q]
      BY <3>1 DEF TypeOK
    <3>3. ASSUME NEW q \in plan'[o].queue
          PROVE  plan'[o].inspected[q] \notin {0, Unread} /\ KeptNext(q, plan'[o].inspected[q])
      <4>1. q \in plan[o].queue /\ q # r
        BY <3>1
      <4>2. plan[o].inspected[q] \notin {0, Unread} /\ Kept(q, plan[o].inspected[q])
        BY <2>1, <2>6, <4>1 DEF IncarnationsOf, Removes, Executing
      <4>3. QED
        BY <1>2, <2>1, <2>6, <3>2, <4>1, <4>2 DEF Removes
    <3>4. QED
      BY <2>6, <3>3 DEF Removes, IncarnationsOf, Kept, KeptNext
  <2>7. QED
    BY <2>2, <2>3, <2>4, <2>5, <2>6, RunMoves
<1>5. QED
  BY <1>3, <1>4 DEF Incarnations

LEMMA EnvironmentIncarnations ==
  ASSUME TypeOK, Incarnations, Environment
  PROVE  Incarnations'
<1>1. UNCHANGED <<pc, seen, plan>>
  BY EnvironmentChanges DEF runs
<1>2. \A o \in Operators : plan[o].queue \subseteq Repositories
  BY DEF TypeOK, Plan
<1>3. ASSUME NEW r \in Repositories, NEW d, d # 0, Kept(r, d), FoundationRaces \/ ~ DeployFoundation
      PROVE  Kept(r, d)'
  <2>1. CASE /\ UNCHANGED repos
             /\ \/ stack'.status = stack.status \/ <<stack.status, stack'.status>> \in StackMoves
                \/ stack.status = "creating" /\ stack'.status = "complete"
                \/ UpdateFoundation
    BY <1>3, <2>1 DEF Kept, StackMoves, UpdateFoundation
  <2>2. CASE FoundationRaces /\ DeployFoundation
    BY <1>3, <2>2 DEF Kept, DeployFoundation
  <2>3. ASSUME NEW q \in Repositories, CreateRepository(q) PROVE Kept(r, d)'
    BY <1>3, <2>3 DEF Kept, CreateRepository, TypeOK
  <2>4. QED
    BY <1>3, <2>1, <2>2, <2>3, EnvironmentChanges
<1>4. CASE FoundationRaces \/ ~ DeployFoundation
  BY <1>1, <1>2, <1>3, <1>4 DEF Incarnations, IncarnationsOf
<1>5. CASE ~FoundationRaces /\ DeployFoundation
  <2>1. \A o \in Operators : pc[o] = "idle"
    BY <1>5 DEF DeployFoundation, AllIdle
  <2>2. QED
    BY <1>1, <2>1 DEF Incarnations, IncarnationsOf, Executing
<1>6. QED
  BY <1>4, <1>5

-----------------------------------------------------------------------------
(* Without races: the workload stays away while a run is executing *)

LEMMA RunNoWorkload ==
  ASSUME TypeOK, Fresh, NoWorkload, NEW o \in Operators, Run(o) \/ Fail(o)
  PROVE  NoWorkload'
<1>1. workload' = workload
  BY RunChanges
<1>2. ASSUME NEW p \in Operators PROVE NoWorkloadFor(p)'
  <2>1. NoWorkloadFor(p)
    BY DEF NoWorkload
  <2>2. CASE p # o
    BY <1>1, <2>1, <2>2, OthersKept DEF OfRun, NoWorkloadFor
  <2>3. CASE p = o
    <3>1. CASE Ends(o) \/ Starts(o) \/ Verifies(o)
      BY <2>3, <3>1 DEF Ends, Starts, Verifies, NoWorkloadFor, Fresh, NothingRead, Executing
    <3>2. CASE Reads(o)
      BY <1>1, <2>1, <2>3, <3>2 DEF Reads, Reading, NoWorkloadFor, Executing
    <3>3. CASE Plans(o)
      <4>1. seen[o].workload = "absent"
        BY <3>3, ReadyMeans DEF Plans, AllRead, TypeOK, Inspection
      <4>2. QED
        BY <1>1, <2>1, <2>3, <3>3, <4>1 DEF Plans, NoWorkloadFor
    <3>4. CASE Deletes(o) \/ Waited(o) \/ Removes(o)
      BY <1>1, <2>1, <2>3, <3>4 DEF Deletes, Waited, Removes, NoWorkloadFor, Executing
    <3>5. QED
      BY <3>1, <3>2, <3>3, <3>4, RunMoves
  <2>4. QED
    BY <2>2, <2>3
<1>3. QED
  BY <1>2 DEF NoWorkload

LEMMA EnvironmentNoWorkload ==
  ASSUME TypeOK, NoWorkload, ~WorkloadRaces, Environment
  PROVE  NoWorkload'
<1>1. UNCHANGED <<pc, seen>>
  BY EnvironmentChanges DEF runs
<1>2. CASE DeployWorkload
  <2>1. \A o \in Operators : pc[o] = "idle"
    BY <1>2 DEF DeployWorkload, AllIdle
  <2>2. QED
    BY <1>1, <2>1 DEF NoWorkload, NoWorkloadFor, Executing
<1>3. CASE ~ DeployWorkload
  <2>1. workload' => workload
    BY <1>3 DEF Environment, CloudFormation, DestroyWorkload, DeployFoundation, UpdateFoundation,
       CreateRepository, CreateCompletes, CreateFails, UpdateCompletes, DeletionCompletes, DeletionFails, DeleteRolledBack
  <2>2. QED
    BY <1>1, <2>1 DEF NoWorkload, NoWorkloadFor
<1>4. QED
  BY <1>2, <1>3

-----------------------------------------------------------------------------
(* The inductive invariant, and the theorems *)

LEMMA InitIInv == Init => IInv
<1> SUFFICES ASSUME Init PROVE IInv
  OBVIOUS
<1>1. Fresh
  BY DEF Init, Fresh
<1>2. Steady
  <2>1. \A r \in Repositories : repos[r] # 0
    BY DEF Init
  <2>2. stack.status = "complete" /\ stack.made = Repositories /\ \A o \in Operators : pc[o] = "idle"
    BY DEF Init
  <2>3. QED
    BY <2>1, <2>2 DEF Steady, SteadyFor, Whole
<1>3. Incarnations /\ NoWorkload
  BY DEF Init, Incarnations, IncarnationsOf, NoWorkload, NoWorkloadFor, Executing
<1>4. QED
  BY <1>1, <1>2, <1>3, InitType, InitHistory DEF IInv

LEMMA StepKeepsIInv == IInv /\ [Next]_vars => IInv'
<1> SUFFICES ASSUME IInv, [Next]_vars PROVE IInv'
  OBVIOUS
<1>1. TypeOK /\ History /\ Fresh /\ \A o \in Operators : FoundGone(o)
  BY DEF IInv
<1>2. ASSUME NEW o \in Operators, Run(o) \/ Fail(o) PROVE IInv'
  <2>1. TypeOK' /\ History' /\ Fresh' /\ \A p \in Operators : FoundGone(p)'
    BY <1>1, <1>2, RunType, RunHistory, FreshKept, RunFoundGone
  <2>2. ~FoundationRaces => Steady'
    BY <1>1, <1>2, RunSteady DEF IInv
  <2>3. Alone \/ ~FoundationRaces => Incarnations'
    BY <1>1, <1>2, RunIncarnations DEF IInv
  <2>4. ~WorkloadRaces => NoWorkload'
    BY <1>1, <1>2, RunNoWorkload DEF IInv
  <2>5. QED
    BY <2>1, <2>2, <2>3, <2>4 DEF IInv, Alone
<1>3. CASE Environment
  <2>1. TypeOK' /\ History' /\ Fresh' /\ \A p \in Operators : FoundGone(p)'
    BY <1>1, <1>3, EnvironmentType, EnvironmentHistory, FreshKept, EnvironmentFoundGone
  <2>2. ~FoundationRaces => Steady'
    BY <1>1, <1>3, EnvironmentSteady DEF IInv
  <2>3. Alone \/ ~FoundationRaces => Incarnations'
    BY <1>1, <1>3, EnvironmentIncarnations DEF IInv
  <2>4. ~WorkloadRaces => NoWorkload'
    BY <1>1, <1>3, EnvironmentNoWorkload DEF IInv
  <2>5. QED
    BY <2>1, <2>2, <2>3, <2>4 DEF IInv, Alone
<1>4. CASE UNCHANGED vars
  <2> USE <1>4 DEF vars, env, runs
  <2>1. TypeOK' /\ History' /\ Fresh' /\ \A o \in Operators : FoundGone(o)'
    BY <1>1 DEF TypeOK, History, Numbered, Fresh, FoundGone, StackDeploy
  <2>2. Steady' = Steady
    BY DEF Steady, SteadyFor, Whole
  <2>3. Incarnations' = Incarnations
    BY DEF Incarnations, IncarnationsOf, Kept
  <2>4. NoWorkload' = NoWorkload
    BY DEF NoWorkload, NoWorkloadFor
  <2>5. QED
    BY <2>1, <2>2, <2>3, <2>4 DEF IInv, Alone
<1>5. QED
  BY <1>2, <1>3, <1>4 DEF Next

LEMMA InductiveInvariant == Spec => []IInv
  BY InitIInv, StepKeepsIInv, PTL DEF Spec

\* The state of the cleanup, of its runs and of the stacks is well typed.
THEOREM TypeCorrect == Spec => []TypeOK
<1>1. IInv => TypeOK
  BY DEF IInv
<1>2. QED
  BY <1>1, InductiveInvariant, PTL

\* A stack that CloudFormation has finished with has its repositories, however
\* many runs overlap, fail or are killed, as long as nobody deploys the
\* foundation under a run (cleanup.ts:112-122).
THEOREM FinishedStackIsWhole ==
  ASSUME ~FoundationRaces
  PROVE  Spec => []StackImpliesRepositories
<1>1. IInv => StackImpliesRepositories
  BY DEF IInv, Steady, Whole, StackImpliesRepositories, WithOutputs
<1>2. QED
  BY <1>1, InductiveInvariant, PTL

\* Every repository that is deleted is the incarnation that was inspected and
\* approved: always if there is one terminal, and for any number of them if
\* nobody deploys the foundation under a run (cleanup.ts:58-76, 120-122).
THEOREM OnlyInspectedAreDeleted ==
  ASSUME Alone \/ ~FoundationRaces
  PROVE  Spec => DeletesOnlyInspected
<1>1. ASSUME IInv, [Next]_vars, NEW r \in Repositories, repos[r] # 0, repos'[r] = 0
      PROVE  \E o \in Operators : pc[o] = "repositories" /\ plan[o].inspected[r] = repos[r]
  <2>1. TypeOK /\ Incarnations
    BY <1>1 DEF IInv
  <2>2. ASSUME NEW o \in Operators, Run(o) \/ Fail(o)
        PROVE  pc[o] = "repositories" /\ plan[o].inspected[r] = repos[r]
    <3>1. pc[o] = "repositories" /\ r \in plan[o].queue
      BY <1>1, <2>1, <2>2, RunChanges
    <3>2. QED
      BY <1>1, <2>1, <3>1 DEF Incarnations, IncarnationsOf, Kept, Executing
  <2>3. CASE Environment
    BY <1>1, <2>1, <2>3, EnvironmentChanges DEF DeployFoundation, CreateRepository, TypeOK
  <2>4. CASE UNCHANGED vars
    BY <1>1, <2>4 DEF vars, env
  <2>5. QED
    BY <1>1, <2>2, <2>3, <2>4 DEF Next
<1>2. IInv /\ [Next]_vars =>
        [\A r \in Repositories : repos[r] # 0 /\ repos'[r] = 0 =>
            \E o \in Operators : pc[o] = "repositories" /\ plan[o].inspected[r] = repos[r]]_vars
  BY <1>1
<1>3. QED
  BY <1>2, InductiveInvariant, PTL DEF Spec, DeletesOnlyInspected

\* While the workload exists neither the stack nor a repository is deleted, for
\* any number of terminals, if nobody deploys the workload under a run
\* (cli.ts:151, cleanup-readiness-policy.ts:51-58).
THEOREM WorkloadIsSafe ==
  ASSUME ~WorkloadRaces
  PROVE  Spec => NoCleanupUnderWorkload
<1>1. ASSUME IInv, [Next]_vars, workload
      PROVE  /\ (stack'.status = "deleting" => stack.status = "deleting")
             /\ \A r \in Repositories : repos[r] # 0 => repos'[r] # 0
  <2>1. TypeOK /\ \A o \in Operators : pc[o] \notin Executing
    BY <1>1 DEF IInv, NoWorkload, NoWorkloadFor
  <2>2. ASSUME NEW o \in Operators, Run(o) \/ Fail(o)
        PROVE  stack'.status = stack.status /\ \A r \in Repositories : repos'[r] = repos[r]
    BY <2>1, <2>2, RunChanges DEF Executing
  <2>3. CASE Environment
    <3>1. CASE UpdateFoundation
      BY <2>1, <3>1 DEF UpdateFoundation, TypeOK, Stack
    <3>2. CASE ~ UpdateFoundation
      BY <2>1, <2>3, <3>2, EnvironmentChanges, DeploysAreNumbers
         DEF StackMoves, DeployFoundation, CreateRepository, TypeOK, Stack
    <3>3. QED
      BY <3>1, <3>2
  <2>4. CASE UNCHANGED vars
    BY <2>4 DEF vars, env
  <2>5. QED
    BY <1>1, <2>2, <2>3, <2>4 DEF Next
<1>2. IInv /\ [Next]_vars =>
        [workload => /\ (stack'.status = "deleting" => stack.status = "deleting")
                     /\ \A r \in Repositories : repos[r] # 0 => repos'[r] # 0]_vars
  BY <1>1
<1>3. QED
  BY <1>2, InductiveInvariant, PTL DEF Spec, NoCleanupUnderWorkload

\* CLEANED is reported only when everything that existed at the start of the
\* final inspection is gone, whatever is deployed meanwhile (cleanup.ts:124-141).
THEOREM CleanedMeansGone == Spec => CleanedIsCurrent
<1>1. ASSUME IInv, [Next]_vars, NEW o \in Operators, outcome[o] # "cleaned", outcome'[o] = "cleaned"
      PROVE  /\ witnessed[o].stack = 0 \/ witnessed[o].stack # StackDeploy
             /\ \A r \in Repositories : witnessed[o].repos[r] = 0 \/ witnessed[o].repos[r] # repos[r]
  <2>1. TypeOK /\ FoundGone(o)
    BY <1>1 DEF IInv
  <2>2. outcome \in [Operators -> Outcomes]
    BY <2>1 DEF TypeOK
  <2>3. CASE Conclude(o)
    <3>1. pc[o] = "verify" /\ seen[o].stack = "absent" /\ Remaining(seen[o]) = {}
      BY <1>1, <2>2, <2>3 DEF Conclude, End
    <3>2. QED
      BY <2>1, <3>1 DEF FoundGone, Remaining
  <2>4. ASSUME NEW p \in Operators, Run(p) \/ Fail(p), ~ (p = o /\ Conclude(o)) PROVE FALSE
    <3>1. ASSUME NEW result, result # "cleaned" \/ p # o PROVE ~ End(p, result)
      BY <1>1, <2>2, <3>1 DEF End
    <3>2. ~ UNCHANGED outcome /\ ~ Start(p)
      BY <1>1, <2>2 DEF Start
    <3>3. ~ Refuse(p) /\ ~ DetailsMissing(p) /\ ~ Fail(p) /\ ~ (p # o /\ Conclude(p))
      BY <3>1 DEF Refuse, DetailsMissing, Fail, Conclude
    <3>4. ~ DisableProtection(p) /\ ~ DeleteStack(p) /\ ~ WaitForDeletion(p)
      BY <3>1, <3>2 DEF DisableProtection, DeleteStack, WaitForDeletion
    <3>5. QED
      BY <2>4, <3>2, <3>3, <3>4 DEF Run, ReadWorkload, ReadStack, ReadRepository, MakePlan, DeleteRepository, StartVerify
  <2>5. CASE Environment \/ UNCHANGED vars
    BY <1>1, <2>1, <2>5, EnvironmentChanges DEF runs, vars
  <2>6. QED
    BY <1>1, <2>3, <2>4, <2>5 DEF Next
<1>2. IInv /\ [Next]_vars =>
        [\A o \in Operators : outcome[o] # "cleaned" /\ outcome'[o] = "cleaned" =>
           /\ witnessed[o].stack = 0 \/ witnessed[o].stack # StackDeploy
           /\ \A r \in Repositories : witnessed[o].repos[r] = 0 \/ witnessed[o].repos[r] # repos[r]]_vars
  BY <1>1
<1>3. QED
  BY <1>2, InductiveInvariant, PTL DEF Spec, CleanedIsCurrent
=============================================================================
