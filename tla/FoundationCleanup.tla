-------------------------- MODULE FoundationCleanup --------------------------
(***************************************************************************)
(* cleanup:artifact-foundation --execute: inspect the workload stack, the  *)
(* foundation stack and the catalogued ECR repositories, plan, delete the  *)
(* stack, wait, force-delete the retained repositories, inspect again.     *)
(*                                                                         *)
(* One action is one AWS call of a run.  Between two calls CloudFormation  *)
(* goes on, other operators run the same command, and the foundation or    *)
(* the workload may be deployed.  A run without --execute is the prefix of *)
(* a run that stops before it changes anything (Fail).                     *)
(***************************************************************************)
EXTENDS Integers

CONSTANTS
  RepositoryCount,  \* repositories in the catalog
  Operators,        \* terminals from which the command is run
  MaxDeploys,       \* bound: deployments of the foundation stack
  MaxFaults,        \* bound: failed calls, killed runs and failed stack deletions
  FoundationRaces,  \* TRUE: the foundation may be deployed while a run is under way
  WorkloadRaces     \* TRUE: the workload may be deployed while a run is under way

ASSUME CatalogAssumption == RepositoryCount \in Nat \ {0} /\ MaxDeploys \in Nat \ {0} /\ MaxFaults \in Nat
ASSUME RacesAssumption   == {FoundationRaces, WorkloadRaces} \subseteq BOOLEAN

VARIABLES
  workload,   \* MovieReservationWorkloadStack exists
  stack,      \* ArtifactFoundationStack
  repos,      \* repos[r]: the deployment that created repository r, 0 if absent
  pc,         \* pc[o]: what the run in terminal o does next
  seen,       \* seen[o]: the current inspection of o
  plan,       \* plan[o]: the CleanupExecutionPlan of o
  outcome,    \* outcome[o]: how the last run of o ended
  witnessed,  \* history: what existed when the final inspection of o began
  faults      \* failures so far

env  == <<workload, stack, repos>>
runs == <<pc, seen, plan, outcome, witnessed>>
vars == <<env, runs, faults>>

Repositories == 1..RepositoryCount   \* in catalog order
Deploys      == 0..MaxDeploys
Unread       == -1

\* "complete": settled with outputs, that is CREATE_COMPLETE or the end of an
\* update, rolled back or not.
StackStatus == {"absent", "creating", "complete", "updating", "rolledBack", "deleting",
                "deleteFailed"}
InProgress  == {"creating", "updating", "deleting"}
\* The stack's outputs name the catalog's repositories.
WithOutputs == {"complete", "updating", "deleting", "deleteFailed"}

Stack == [status    : StackStatus,
          protected : BOOLEAN,                \* termination protection
          deploy    : Deploys,                \* the deployment that created it, or the last one
          made      : SUBSET Repositories]    \* repositories it has created so far

PC == {"idle", "inspect", "disable", "delete", "wait", "repositories", "verify"}

Inspection == [workload  : {"unread", "absent", "present"},
               stack     : {"unread"} \cup StackStatus,
               protected : BOOLEAN,
               repos     : [Repositories -> {Unread} \cup Deploys]]

NothingRead == [workload |-> "unread", stack |-> "unread", protected |-> FALSE,
                repos |-> [r \in Repositories |-> Unread]]

\* queue: the repositories to delete, in catalog order.
\* inspected: the incarnation of each repository the plan was made from.
Plan == [stack     : BOOLEAN,
         disable   : BOOLEAN,
         queue     : SUBSET Repositories,
         inspected : [Repositories -> {Unread} \cup Deploys]]

NoPlan == [stack |-> FALSE, disable |-> FALSE, queue |-> {},
           inspected |-> NothingRead.repos]

Outcomes == {"none", "failed", "blocked", "nothingToClean", "cleaned"}

Witness == [stack : Deploys, repos : [Repositories -> Deploys]]

TypeOK ==
  /\ workload \in BOOLEAN
  /\ stack \in Stack
  /\ repos \in [Repositories -> Deploys]
  /\ pc \in [Operators -> PC]
  /\ seen \in [Operators -> Inspection]
  /\ plan \in [Operators -> Plan]
  /\ outcome \in [Operators -> Outcomes]
  /\ witnessed \in [Operators -> Witness]
  /\ faults \in 0..MaxFaults

StackDeploy == IF stack.status = "absent" THEN 0 ELSE stack.deploy

NoWitness == [stack |-> 0, repos |-> [r \in Repositories |-> 0]]

Init ==
  /\ workload = FALSE
  /\ stack = [status |-> "complete", protected |-> TRUE, deploy |-> 1, made |-> Repositories]
  /\ repos = [r \in Repositories |-> 1]
  /\ pc = [o \in Operators |-> "idle"]
  /\ seen = [o \in Operators |-> NothingRead]
  /\ plan = [o \in Operators |-> NoPlan]
  /\ outcome = [o \in Operators |-> "none"]
  /\ witnessed = [o \in Operators |-> NoWitness]
  /\ faults = 0

----------------------------------------------------------------------------
(* evaluateCleanupReadiness *)

Remaining(i) == {r \in Repositories : i.repos[r] # 0}

WorkloadPresent(i)  == i.workload = "present"
StackInProgress(i)  == i.stack \in InProgress
RepositoryAbsent(i) == i.stack # "absent" /\ Remaining(i) # Repositories
OutputMismatch(i)   == i.stack \notin {"absent"} \cup WithOutputs /\ Remaining(i) # {}

\* Mutant: the workload stack does not block.
BlockedWithoutWorkload(i) == StackInProgress(i) \/ RepositoryAbsent(i) \/ OutputMismatch(i)

\* Mutant: a repository without its stack blocks, where the code only warns.
BlockedByRetained(i) ==
  WorkloadPresent(i) \/ StackInProgress(i) \/ RepositoryAbsent(i) \/ OutputMismatch(i)
    \/ (i.stack = "absent" /\ Remaining(i) # {})

Blocked(i) ==
  WorkloadPresent(i) \/ StackInProgress(i) \/ RepositoryAbsent(i) \/ OutputMismatch(i)

NothingToClean(i) == ~Blocked(i) /\ i.stack = "absent" /\ Remaining(i) = {}
Ready(i)          == ~Blocked(i) /\ ~NothingToClean(i)

----------------------------------------------------------------------------
(* Control of a run. *)

Goto(o, label) == pc' = [pc EXCEPT ![o] = label]

\* The command exits; nothing of the run is kept.
End(o, result) ==
  /\ pc'        = [pc EXCEPT ![o] = "idle"]
  /\ seen'      = [seen EXCEPT ![o] = NothingRead]
  /\ plan'      = [plan EXCEPT ![o] = NoPlan]
  /\ witnessed' = [witnessed EXCEPT ![o] = NoWitness]
  /\ outcome'   = [outcome EXCEPT ![o] = result]

Start(o) ==
  /\ pc[o] = "idle"
  /\ Goto(o, "inspect")
  /\ outcome' = [outcome EXCEPT ![o] = "none"]
  /\ UNCHANGED <<env, seen, plan, witnessed, faults>>

\* Promise.all of inspectArtifactFoundation: the reads happen in any order.
Reading(o) == pc[o] \in {"inspect", "verify"}

ReadWorkload(o) ==
  /\ Reading(o) /\ seen[o].workload = "unread"
  /\ seen' = [seen EXCEPT ![o].workload = IF workload THEN "present" ELSE "absent"]
  /\ UNCHANGED <<env, pc, plan, outcome, witnessed, faults>>

\* Mutant: a stack at work is read without its status.
ReadStackUnknown(o) ==
  /\ Reading(o) /\ seen[o].stack = "unread"
  /\ seen' = [seen EXCEPT ![o].stack = IF stack.status \in InProgress THEN "UNKNOWN" ELSE stack.status,
                          ![o].protected = stack.protected]
  /\ UNCHANGED <<env, pc, plan, outcome, witnessed, faults>>

ReadStack(o) ==
  /\ Reading(o) /\ seen[o].stack = "unread"
  /\ seen' = [seen EXCEPT ![o].stack = stack.status, ![o].protected = stack.protected]
  /\ UNCHANGED <<env, pc, plan, outcome, witnessed, faults>>

\* describe-repositories: whether repository r is there.
ReadRepository(o, r) ==
  /\ Reading(o) /\ seen[o].repos[r] = Unread
  /\ seen' = [seen EXCEPT ![o].repos[r] = repos[r]]
  /\ UNCHANGED <<env, pc, plan, outcome, witnessed, faults>>

\* Its tags, its lifecycle policy and its images are read after that, and a
\* repository that has gone meanwhile ends the run.
DetailsMissing(o) ==
  /\ Reading(o)
  /\ \E r \in Repositories : seen[o].repos[r] \notin {0, Unread} /\ repos[r] = 0
  /\ End(o, "failed")
  /\ UNCHANGED <<env, faults>>

AllRead(o) ==
  /\ seen[o].workload # "unread" /\ seen[o].stack # "unread"
  /\ \A r \in Repositories : seen[o].repos[r] # Unread

----------------------------------------------------------------------------
(* planArtifactFoundationCleanup: what is there is what will be deleted. *)

\* Mutant: the plan names every repository of the catalog.
PlanOfCatalog(i) == [stack     |-> i.stack # "absent",
                     disable   |-> i.stack # "absent" /\ i.protected,
                     queue     |-> Repositories,
                     inspected |-> i.repos]

PlanOf(i) == [stack     |-> i.stack # "absent",
              disable   |-> i.stack # "absent" /\ i.protected,
              queue     |-> Remaining(i),
              inspected |-> i.repos]

Refuse(o) ==
  /\ pc[o] = "inspect" /\ AllRead(o) /\ ~Ready(seen[o])
  /\ End(o, IF Blocked(seen[o]) THEN "blocked" ELSE "nothingToClean")
  /\ UNCHANGED <<env, faults>>

MakePlan(o) ==
  /\ pc[o] = "inspect" /\ AllRead(o) /\ Ready(seen[o])
  /\ plan' = [plan EXCEPT ![o] = PlanOf(seen[o])]
  /\ Goto(o, CASE plan'[o].disable -> "disable"
               [] plan'[o].stack /\ ~plan'[o].disable -> "delete"
               [] OTHER -> "repositories")
  /\ UNCHANGED <<env, seen, outcome, witnessed, faults>>

----------------------------------------------------------------------------
(* executeArtifactFoundationCleanup.  A call that fails after it took effect *)
(* is the call followed by Fail.                                             *)

DisableProtection(o) ==
  /\ pc[o] = "disable"
  /\ IF stack.status = "absent"
     THEN End(o, "failed") /\ UNCHANGED env
     ELSE /\ stack' = [stack EXCEPT !.protected = FALSE]
          /\ Goto(o, "delete")
          /\ UNCHANGED <<workload, repos, seen, plan, outcome, witnessed>>
  /\ UNCHANGED faults

\* CloudFormation refuses a protected stack and one that is updated.
DeleteStack(o) ==
  /\ pc[o] = "delete"
  /\ IF stack.protected \/ stack.status = "updating"
     THEN End(o, "failed") /\ UNCHANGED env
     ELSE /\ stack' = IF stack.status = "absent" THEN stack
                      ELSE [stack EXCEPT !.status = "deleting"]
          /\ Goto(o, "wait")
          /\ UNCHANGED <<workload, repos, seen, plan, outcome, witnessed>>
  /\ UNCHANGED faults

\* Mutant: a waiter that gives up does not stop the run.
WaitGivesUp(o) ==
  /\ pc[o] = "wait"
  /\ Goto(o, "repositories")
  /\ UNCHANGED <<env, seen, plan, outcome, witnessed, faults>>

\* The waiter's time limit of an hour is Fail.
WaitForDeletion(o) ==
  /\ pc[o] = "wait" /\ stack.status \in {"absent", "deleteFailed"}
  /\ IF stack.status = "absent"
     THEN Goto(o, "repositories") /\ UNCHANGED <<seen, plan, outcome, witnessed>>
     ELSE End(o, "failed")
  /\ UNCHANGED <<env, faults>>

\* RepositoryNotFoundException is success.
DeleteRepository(o) ==
  /\ pc[o] = "repositories"
  /\ \E r \in plan[o].queue :
       /\ \A q \in plan[o].queue : r <= q
       /\ repos' = [repos EXCEPT ![r] = 0]
       /\ plan' = [plan EXCEPT ![o].queue = @ \ {r}]
  /\ UNCHANGED <<workload, stack, pc, seen, outcome, witnessed, faults>>

\* The final inspection starts from nothing read.
StartVerify(o) ==
  /\ pc[o] = "repositories" /\ plan[o].queue = {}
  /\ Goto(o, "verify")
  /\ seen' = [seen EXCEPT ![o] = NothingRead]
  /\ witnessed' = [witnessed EXCEPT ![o] = [stack |-> StackDeploy, repos |-> repos]]
  /\ UNCHANGED <<env, plan, outcome, faults>>

\* Mutant: the final verification looks at the repositories only.
ConcludeOnRepositories(o) ==
  /\ pc[o] = "verify" /\ AllRead(o)
  /\ End(o, IF Remaining(seen[o]) = {} THEN "cleaned" ELSE "failed")
  /\ UNCHANGED <<env, faults>>

Conclude(o) ==
  /\ pc[o] = "verify" /\ AllRead(o)
  /\ End(o, IF seen[o].stack = "absent" /\ Remaining(seen[o]) = {} THEN "cleaned" ELSE "failed")
  /\ UNCHANGED <<env, faults>>

\* A call fails, the session expires, or the terminal is closed.
Fail(o) ==
  /\ pc[o] # "idle" /\ faults < MaxFaults
  /\ faults' = faults + 1
  /\ End(o, "failed")
  /\ UNCHANGED env

Run(o) ==
  \/ Start(o) \/ ReadWorkload(o) \/ ReadStack(o)
  \/ (\E r \in Repositories : ReadRepository(o, r)) \/ DetailsMissing(o)
  \/ Refuse(o) \/ MakePlan(o)
  \/ DisableProtection(o) \/ DeleteStack(o) \/ WaitForDeletion(o)
  \/ DeleteRepository(o) \/ StartVerify(o) \/ Conclude(o)

----------------------------------------------------------------------------
(* CloudFormation, and the operators who deploy and destroy with cdk. *)

AllIdle == \A o \in Operators : pc[o] = "idle"

\* The workload imports its images from the repositories.
DeployWorkload ==
  /\ ~workload
  /\ WorkloadRaces \/ AllIdle
  /\ \A r \in Repositories : repos[r] # 0
  /\ workload' = TRUE
  /\ UNCHANGED <<stack, repos, runs, faults>>

DestroyWorkload ==
  /\ workload
  /\ workload' = FALSE
  /\ UNCHANGED <<stack, repos, runs, faults>>

\* cdk deploy ArtifactFoundationStack; it first deletes a stack that was rolled back.
DeployFoundation ==
  /\ stack.status \in {"absent", "rolledBack"} /\ stack.deploy < MaxDeploys
  /\ FoundationRaces \/ AllIdle
  /\ stack' = [status |-> "creating", protected |-> TRUE, deploy |-> stack.deploy + 1, made |-> {}]
  /\ UNCHANGED <<workload, repos, runs, faults>>

\* cdk deploy of a changed stack, which restores its termination protection.
UpdateFoundation ==
  /\ stack.status = "complete"
  /\ FoundationRaces \/ AllIdle
  /\ stack' = [stack EXCEPT !.status = "updating", !.protected = TRUE]
  /\ UNCHANGED <<workload, repos, runs, faults>>

UpdateCompletes ==
  /\ stack.status = "updating"
  /\ stack' = [stack EXCEPT !.status = "complete"]
  /\ UNCHANGED <<workload, repos, runs, faults>>

\* A deployment creates each of its repositories once.
CreateRepository(r) ==
  /\ stack.status = "creating" /\ r \notin stack.made /\ repos[r] = 0
  /\ repos' = [repos EXCEPT ![r] = stack.deploy]
  /\ stack' = [stack EXCEPT !.made = @ \cup {r}]
  /\ UNCHANGED <<workload, runs, faults>>

CreateCompletes ==
  /\ stack.status = "creating" /\ stack.made = Repositories
  /\ stack' = [stack EXCEPT !.status = "complete"]
  /\ UNCHANGED <<workload, repos, runs, faults>>

\* A repository of that name exists already; removalPolicy RETAIN keeps the new ones.
CreateFails ==
  /\ stack.status = "creating"
  /\ \E r \in Repositories : repos[r] \notin {0, stack.deploy}
  /\ stack' = [stack EXCEPT !.status = "rolledBack"]
  /\ UNCHANGED <<workload, repos, runs, faults>>

\* removalPolicy RETAIN: the repositories stay.
DeletionCompletes ==
  /\ stack.status = "deleting"
  /\ stack' = [stack EXCEPT !.status = "absent"]
  /\ UNCHANGED <<workload, repos, runs, faults>>

DeletionFails ==
  /\ stack.status = "deleting" /\ faults < MaxFaults
  /\ stack' = [stack EXCEPT !.status = "deleteFailed"]
  /\ faults' = faults + 1
  /\ UNCHANGED <<workload, repos, runs>>

\* "Use a corrective PR or reviewed recovery plan": a person deletes the stack.
DeleteRolledBack ==
  /\ stack.status = "rolledBack"
  /\ stack' = [stack EXCEPT !.status = "absent", !.protected = FALSE]
  /\ UNCHANGED <<workload, repos, runs, faults>>

CloudFormation ==
  \/ \E r \in Repositories : CreateRepository(r)
  \/ CreateCompletes \/ CreateFails \/ UpdateCompletes \/ DeletionCompletes

Environment ==
  \/ DeployWorkload \/ DestroyWorkload \/ DeployFoundation \/ UpdateFoundation
  \/ CloudFormation \/ DeletionFails \/ DeleteRolledBack

Next == (\E o \in Operators : Run(o) \/ Fail(o)) \/ Environment

\* The command is run again until it has nothing to do, AWS goes on with
\* accepted work, and a person removes a stack that was rolled back.
Fairness ==
  /\ \A o \in Operators : WF_vars(Run(o))
  /\ WF_vars(CloudFormation)
  /\ WF_vars(DeleteRolledBack)

Spec     == Init /\ [][Next]_vars
FairSpec == Spec /\ Fairness

----------------------------------------------------------------------------
(* Properties *)

\* A stack that CloudFormation has finished with has all its repositories: no
\* order of runs, failures, expired waits and failed deletions reaches the
\* state the runbook calls inconsistent and blocked, because no repository is
\* deleted before the absence of its stack is confirmed (cleanup.ts:112-122).
StackImpliesRepositories ==
  stack.status \in {"complete", "deleteFailed"} => \A r \in Repositories : repos[r] # 0

\* A repository is deleted only in the incarnation the approved plan was made
\* from, never one a later deployment created (cleanup.ts:58-76, 120-122).
DeletesOnlyInspected ==
  [][\A r \in Repositories : repos[r] # 0 /\ repos'[r] = 0 =>
       \E o \in Operators : pc[o] = "repositories" /\ plan[o].inspected[r] = repos[r]]_vars

\* Neither the foundation stack nor a repository is deleted while the workload
\* exists (cli.ts:151, cleanup-readiness-policy.ts:51-58).
NoCleanupUnderWorkload ==
  [][workload => /\ (stack'.status = "deleting" => stack.status = "deleting")
                 /\ \A r \in Repositories : repos[r] # 0 => repos'[r] # 0]_vars

\* CLEANED is never reported over a stack or a repository that existed during
\* the whole final inspection (cleanup.ts:124-141).
CleanedIsCurrent ==
  [][\A o \in Operators : outcome[o] # "cleaned" /\ outcome'[o] = "cleaned" =>
       /\ witnessed[o].stack = 0 \/ witnessed[o].stack # StackDeploy
       /\ \A r \in Repositories : witnessed[o].repos[r] = 0 \/ witnessed[o].repos[r] # repos[r]]_vars

\* Whatever partial state failures leave behind, running the command again
\* gets rid of the stack and of every repository once the workload is gone and
\* nobody updates the foundation any more
\* (docs/operations/aws-artifact-foundation.md:303-320).
Absent == stack.status = "absent" /\ \A r \in Repositories : repos[r] = 0
Converges == <>[](~workload /\ stack.status # "updating") => <>[]Absent

=============================================================================
