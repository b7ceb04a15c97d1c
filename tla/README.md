# Verification of the movie platform infrastructure's automation

TLA+ models of the programs in this repository that change AWS resources, or
that conclude something from what AWS tells them, with TLC runs on small
instances and TLAPS proofs for all instances.

The repository is mostly CDK declarations. What has behaviour, and therefore
something to go wrong between two steps, is the operator automation: shell and
TypeScript commands that read cloud state, decide, and act while CloudFormation,
ECS, registries, audit pipelines and other operators go on. The models are about
that automation; AWS itself is external and modelled from what the code relies
on.

## 1. The system

| Component | State it keeps | Operations | Interacts with |
| --- | --- | --- | --- |
| ECS canary scripts (`scripts/ecs-canary-spike/release.sh`, `infra-deploy.sh`) | none of their own between runs; all state is in ECS and CloudFormation | release, bootstrap, deploy (sync, `cdk deploy`, follow-up release), diff, running | ECS service, its alarms, the CloudFormation stack, each other |
| ECS canary service (`apps/ecs-canary-alarm-spike`) | task definition revisions, deployment, alarms, stack template | canary, halt, revert, rollback on a failed stack update | the scripts |
| Artifact foundation cleanup (`automation/artifact-foundation-cleanup`) | the foundation stack, retained ECR repositories | inspect, plan, delete the stack, wait, delete repositories, verify | CloudFormation, ECR, deployments of foundation and workload |
| Audit transport comparison (`automation/audit-transport-comparison`) | attempts, per-store polls, evidence | send logins, poll Security Lake and legacy store, start the crawler, read delivery health, verdict | Athena, Glue, SQS, CloudWatch, both audit paths |
| Artifact copy (`automation/artifact-copy`) | images in the destination repository | copy and verify, verify existing | source and destination registries, lifecycle rule |
| AWS account preflight, audit account operator, comparison inputs (`packages/aws-account-preflight`, `automation/audit-account-operator`, `automation/audit-transport-comparison/src/cli`) | private files, target files, the shared AWS configuration; the CDKToolkit stack; the evidence file | identity gate before each operation; preflight, status, bootstrap, comparison | STS, cdk, CloudFormation, the operator who edits files |
| Audit ingestion and its alarms (`packages/audit-ingestion`, `lib/audit-gap-alarms.ts`, `apps/audit-account`) | events on the bus, retries, dead-letter queue, archive, quarantine | route, retry, convert, store, alarm | workload accounts, Security Lake |
| Audit router (`audit-router`) | none; Fluent Bit buffers on disk | classify a record, route it by tag | the application containers |
| Audit contract vendoring (`local-tools/audit-contract-vendor`) | bundle files and their provenance | vendor a bundle | the git working tree |
| Smoke scripts (`scripts/managed-metrics-smoke.sh`, `xray-smoke.sh`, `integrated-demo-smoke.sh`) | a report file each | drive the demo, wait for telemetry, write a report | the reservation service and its other clients, CloudWatch, AMP, X-Ray |
| Platform, observability and identity stacks (`lib`, `bin`), validations (`scripts`), dashboards, collectors | declarations, or nothing | synthesize, deploy, check | CDK, CI |

`PROJECT.json` lists every component with its sources and what became of it.

### Hard behaviour, and what must hold

* **Canary scripts.** A release and an infra deploy both end in `update-service`
  on one service. Between a script's read and its write, ECS finishes or halts a
  deployment, an alarm fires, CloudFormation fails and applies the old template
  again, a wrapper dies. What must hold: no infra deploy, failed or not, moves
  production to another revision or image; images change only through releases;
  no deployment is started on top of a moving one; a release starts the recipe
  that is deployed; scripts end; a deploy that failed can be retried and then completes;
  a halted split can be left by rolling forward.
* **Foundation cleanup.** The inspection is a set of concurrent reads, the
  deletion of the stack takes up to an hour, any call may fail after it took
  effect, and several people may run the command. What must hold: only what was
  inspected is deleted, never under a workload, never so that a stack remains
  without its repositories; "cleaned" is never reported over something that
  stayed; running the command again always finishes the work.
* **Transport comparison.** Events arrive late, in any order, or not at all; a
  crawler must first register a partition; queries run long or fail; the UTC day
  changes; everything races one deadline. What must hold: a pass is evidence;
  nothing that was queryable is reported missing; the run ends, and at the
  deadline.
* **Artifact copy.** skopeo is killed when its time is up and its request may
  still be applied; other runs and a lifecycle rule work on the same repository.
  What must hold: what a successful copy reported stays; nothing enters the
  repository that was not inspected.
* **Operator commands.** Topology, target files, profiles and private files are
  read one after the other, by several processes, while the operator may edit
  them; cdk is killed after a minute while CloudFormation goes on. What must
  hold: a bootstrap reaches only the configured audit account and "completed" is
  true; logins are sent only when the SDK has reached two validated accounts;
  exit codes agree with the evidence file; every command ends.
* **Audit ingestion.** Retries end, a queue forgets, a stream discards what it
  cannot store, a deployment deletes resources, metrics stop arriving. What must
  hold: every login ends in the lake or an alarm was raised about it; nothing
  lands in another account's partition.
* **Smoke scripts.** The service answers late or never, other clients take
  seats, a query hangs, somebody presses Ctrl-C. What must hold: a run costs the
  demo at most one seat, it ends, and a report of success is evidence.

## 2. Plan

Modules, most important behaviour first:

| | Module | Models | State |
| --- | --- | --- | --- |
| 1 | `EcsCanaryService` | ECS service, deployments, alarms | done |
| 2 | `ImageRelease` | abstract specification: what a release model promises | done |
| 3 | `CanaryDelivery` | both scripts and CloudFormation over `EcsCanaryService`, refining `ImageRelease` | done |
| 4 | `CanaryDeliveryProofs`, `CanaryExclusiveProofs` | type correctness; the safety properties and the refinement of `ImageRelease` under the documented practices | done |
| 5 | `FoundationCleanup` | the cleanup command, CloudFormation, deployments | done |
| 6 | `TransportComparison` | the comparison runner, Athena, both audit paths | done |
| 7 | `ArtifactCopy`, `ArtifactCopyProofs` | the copy command, two registries | done |
| 8 | `OperatorGate` | account preflight, operator command, comparison inputs: files that change between check and use | done |
| 9 | `AuditTrail`, `AuditDelivery` | abstract specification of an event's custody; the ingestion path with retries, dead letters, conversion, quarantine, alarms and redeployments, refining it | done |
| 10 | `SmokeRun` | the three smoke scripts: stages, deadlines, exit trap, reports | done |
| 11 | `OperatorGateProofs`, `AuditDeliveryProofs`, `FoundationCleanupProofs`, `TransportComparisonProofs`, `SmokeRunProofs` | type correctness, every safety property, the refinement of `AuditTrail` | done |

`AuditRouter`, `ContractVendoring`, `PlatformConfig` and `WorkspaceBoundaries`
were in an earlier plan and are not: they keep no state between two steps, or
only state that git restores (section 7).

Every invariant and every action property that a run checks, and both
refinements, are proved (section 5). Worth proving next: the safety half of
termination, a variant that every step of a script, a command or a run decreases
(`ScriptsEnd`, `EveryCommandEnds`, both `EveryRunEnds`), since liveness itself is
out of the prover's reach; and what remains true of the canary's scripts when two
operators overlap or a wrapper dies.

## 3. The models

In every module one action is one request to AWS, or one registry or process
call, together with the checks the code makes on its answer. Two requests of a
script are two actions, so that anything may happen between them. A script that
fails, is interrupted or loses its session is an action too (`Abort`, `Fail`,
`Cancelled`); commands that only read (`--dry-run`, `diff`, a cleanup without
`--execute`) are the behaviours that stop before they write. Definitions marked
"Mutant" or "Mutation" are deliberate bugs; each stands before the definition it
replaces, and `PROJECT.json` says which property notices it.

### 3.1 Canary releases: `EcsCanaryService`, `CanaryDelivery`, `ImageRelease`

`taskDefs` is the task definition family, `svc` the service (target, baseline,
phase, alarm rollback, whether ECS watches the alarms), `alarm` the worst of the
watched alarms, `stack` and `pending` the CloudFormation stack and its update,
`pc[o]` and `ctx[o]` the script in terminal `o`: its next request and its local
variables. A revision is its number, a task definition its settings (CPU, memory,
environment as one value) and its image digest.

| Code | Actions |
| --- | --- |
| `release.sh` run_release | `StartRelease`, `InFlightGate`, `AlarmGate`, `Register`, `ReleaseUpdatesService` |
| `infra-deploy.sh` bootstrap | `StartBootstrap`, `BootstrapEnds` |
| `infra-deploy.sh` deploy | `StartDeploy`, `ReadRunning`, `CountInFlight`, `SyncDeployedRevision`, `SyncEnds`, `ReadRecipe`, `CdkDeploy`, `DeployEnds`, `FollowUpRelease` (which continues as a release) |
| service-stack.ts: pinned task definition, deliberately failing resource | `Template`, `Resolve`, `ApplyUpdate`, `StartRollback`, `ProfileUpdatesService` |
| CloudFormation (external) | `CreateStack`, `CreateFails`, `FailEarly`, `CompleteUpdate`, `CompleteRollback`, `RollbackFails`, `RepairStack`, `DeleteFailedStack` |
| ECS and CloudWatch (external) | `CanaryCompletes`, `AlarmStopsCanary`, `RevertCompletes`, `AlarmDegrades`, `AlarmRecovers` |

Assumptions on ECS and CloudFormation, from the recorded evidence of the spike
(`docs/plans/evidence/ecs-canary-deployment-alarm-spike-2026-10.md`) and the
CDK code: updating the service to the revision it already targets starts no
deployment (H14); a deployment that starts under an alarm in ALARM is not
watched (H7), one that starts without data is (H8); a halted deployment keeps
its split (H12); CloudFormation's own updates of the service use the alarm
rollback profile of the template, which is on or off (`canary-service.ts`'s
`revert` or `halt`), so either value is possible at each of them; the sync
phase's update has only the service to change, so it fails before the service or
not at all; an error alarm does not recover while a bad image takes traffic. A
rollback may itself fail and leave the stack `stuck` (UPDATE_ROLLBACK_FAILED):
the scripts end there, and somebody continues the rollback (`RepairStack`), which
touches the service with the old template's revision or not at all.

The constants `Exclusive`, `SyncAlways`, `GateAlways` and `WrapperMayDie` are the
runbook's practices: one script at a time and none on a stuck stack ("inspect the
stack before anything else", `infra-deploy.sh:213`), no `--no-sync`, no
`--skip-alarm-gate`, and nobody starts another script while CloudFormation still
works for a wrapper that died.

`ImageRelease` states the promise without ECS or CloudFormation: the stable image
changes only by promoting a candidate that was asked for. `CanaryDelivery`
implements it (`ImplementsImageRelease`): stable is the baseline's image,
candidate the target's while a deployment exists, asked the images of releases
under way. An infra deploy, its failure and its rollback must be stuttering
steps, and its follow-up release a release of the image that runs.

### 3.2 Foundation cleanup: `FoundationCleanup`

`stack` is the foundation stack; a repository is the number of the deployment
that created it, so that a repository deleted and created again is not taken for
the one inspected. `seen[o]` is the inspection of a run (each read is an action,
because `Promise.all` runs them concurrently; a repository's details are read
after its description, and one that has gone in between ends the run,
`DetailsMissing`), `plan[o]` the plan, `witnessed[o]` a history variable for `CleanedIsCurrent`.

`Blocked`, `NothingToClean` and `Ready` are the readiness policy reduced to the
issues that block; drift warnings change no decision. A plan's `queue` is the set
of repositories still to be deleted, in the order of their numbers, which is the
catalog's. A deployment creates each repository once. A call that takes effect
and then fails is the call followed by `Fail`; so is the waiter's time limit. A foundation
stack is `complete` when it is settled and has its outputs, after its creation or
after an update however that ended; an update (`UpdateFoundation`,
`UpdateCompletes`) restores the termination protection, keeps the repositories,
blocks a plan and refuses a deletion. A stack whose deletion failed keeps its outputs; the repositories' removal policy
keeps them when a stack is deleted or its creation is rolled back.

### 3.3 Transport comparison: `TransportComparison`

Time is discrete. The runner acts while `now = until` and sleeps while
`now < until`; only a login's answer, the poll sleep and the Athena reader's
sleep take time, other calls take none. `place` and `visibleAt` say where each
event is on each path and since when a query can return it; an event lost in any
other way than the dead-letter queue stays pending. A login takes one of `LoginTimes`,
the longest of which is the request timeout. `registered` is the set of
days whose Security Lake partition the catalog knows; a crawl may end at any
time. `QuerySucceeds` returns the rows that were there at submission and any
subset of those that came since. SQL, redaction and the layout of the evidence
are left out. The runner's inputs and the evidence file are in `OperatorGate`.

### 3.4 Artifact copy: `ArtifactCopy`

`run[r]` is one run of the command, a retry being another run. A manifest is its
digest; a source read returns the expected manifest or the run is rejected
(absent, unreadable, other bytes, or an index). A request without an operation,
or with one the command does not know, never starts (`RejectArguments`). An exception of no known stage ends a run with
exit code 1 (`FailsInternally`); while skopeo copies it counts as a failed copy. `put` is the manifest put that
skopeo sends: it may be accepted or refused at any later time, also after skopeo
was killed and the run has ended. Tags are immutable; `Expire` is the lifecycle
rule. Blobs are left out: a registry refuses a manifest whose blobs are missing.
The two manifests are compared field by field in the code; both have the
expected digest by then, so in the model the comparison cannot fail.

### 3.5 Operator commands: `OperatorGate`

`run[r]` is one process with its next step and what it has read so far; the
operator's files are `topology`, `target`, `profile` and `files`, and an edit
may put anything valid or invalid in one of them at any time. A private file is
one inode: `ReplaceFile` moves another one to the path, `file` is the open
descriptor.

| Code | Actions |
| --- | --- |
| operator-cli.ts, cli.ts: arguments, dispatch | `Start`, `ShowUsage`, `RejectArguments`, `RejectEndpointOverrides`, `AfterGate` |
| audit-account-config.ts, audit-account-target.ts | `LoadTopology`, `TopologyRefused`, `Mismatch` |
| private-files.ts, run-config.ts | `OpenFile`, `CheckFile`, `ReadFile`, `FileRefused` |
| target-file.ts, target-schema.ts, preflight.ts | `LstatTarget`, `TargetUnresolved`, `ReadTarget`, `TargetFieldRefused`, `ConfigFilesUnresolved`, `CompetingCredentials` |
| aws-cli.ts | `CliVersionRefused`, `ReadAccount`, `ReadRole`, `ReadProviders`, `RegionRefused`, `CallSts`, `ProcessFails` |
| operator-cli.ts: runStatus, runBootstrap | `RunStatus`, `StartBootstrap`, `BootstrapReturns`, `BootstrapKilled` |
| production-dependencies.ts, cli.ts of the comparison | `VerifySdk`, `Compare`, `CreateEvidence`, `WriteEvidence` |
| external: CloudFormation, the other terminal, a kill | `ToolkitEnds`, `EditTopology`, `EditTarget`, `EditProfile`, `ReplaceFile`, `Interrupted` |

A command of the operator reads one target, as does the preflight that stands
alone (`accountPreflight`); the comparison reads two after its private files. An
unreadable input or a failed process is the refusal named after it; all take the
same steps `LstatTarget` to `CallSts`. The account and the role of a profile are
two `aws configure get` processes and two actions. The nine processes that look
for other credential providers are one: the code takes a failed read for an
absent provider, so the gate may already pass a profile whatever its provider,
and reading at nine moments instead of one adds no outcome. `QueueElsewhere`, the
check that the dead-letter queue is the audit account's, comes after both
identity gates. A profile is the principal it gives, if its provider is Identity Center, and any principal at
all otherwise. `Compare` stands for the whole of `TransportComparison`. Assumed
of cdk: with `aws://account/region` it refuses credentials of another account.

### 3.6 Audit delivery: `AuditDelivery`, `AuditTrail`

Per workload account `i` there is a rule with its pending deliveries, a
dead-letter queue and a stream; each buffer maps an event to the minutes it is
still kept. `Tick` is a minute: buffers age, what has aged out is gone, and the
alarms evaluate the counts of the minute. `told` is a history of the events some
alarm was raised about. `metrics` and `logs` are whether the metric and the log
pipeline worked in that minute, so an alarm's treatment of missing data matters.
That is for the counters and logs which the workload publishes itself. The
metrics of EventBridge, SQS and Firehose, on which `DeliveryAlarms` rest, are
published by AWS, and the model assumes that they arrive: for them the code
treats missing data as not breaching (`audit-delivery-alarms.ts:47`), so nobody
would be told if they did not. The log alarm adds nothing to the counter alarm
while that treats missing data as breaching; it is modelled because the code has
it, and alone it would miss failed logins (`PublishAlarmOnData`).

| Code | Definitions |
| --- | --- |
| audit-ingestion.ts: bus, archive, validateProps | `PublishLogin`, `Archives`, `Replay`, `ValidProducers` |
| authentication-routing.ts, createProducerResources | `Matches`, `Route`, `ResourceKey`, `Resources`, `BoundTo` |
| reliable-firehose-target.ts | `Attempt`, `Exhausted`, `GiveUp`, `Redrive` |
| createDeliveryStream, firehose-partitioning.ts | `Store`, `Converts`, `Dated`, `ToLake`, `ToQuarantine` |
| audit-delivery-alarms.ts | `DeliveryAlarms`, `StaleFor`, `Old` |
| audit-gap-alarms.ts | `PublishFailureAlarm`, `UnauditedLoginAlarm`, `PublishAlarm` |
| a deployment with another list of accounts | `Redeploy`, `Keep` |

`AuditTrail` says what is promised without any of these resources: an event is
held, quarantined or stored, and it is lost only in a step after which an alarm
about it has been raised. `AuditDelivery` implements it (`ImplementsAuditTrail`)
with custody computed from where the event is. The one event the promise does not
cover is that of an account which the operator takes out of the configuration
while something still holds it (`abandoned`); an event whose envelope version no
rule knows counts as refused.

### 3.7 Smoke scripts: `SmokeRun`

`run` is the script that runs and its stage; `reports` its report, beside which
the model keeps what the run had observed (`seen`). `left` is the time to the
deadline of the loop the script is in; every poll takes at least one unit, since
it sleeps. Parsers of responses are the outcomes of their stage; `Stages` are the
names a report may give as its failure stage, and `StagesSoFar` those which the
variable of the script may hold at a place. `CommandFails` is `set -e`: an
untested command (a node helper, `mktemp`) fails anywhere.

| Code | Actions |
| --- | --- |
| managed-metrics-smoke.sh | `Prerequisites`, `StackOutputs`, `Catalog`, `RequestReservation`, `ReservationStatus`, `CloudWatchMetric`, `AmpMetric`, `AmpQueryKilled`, `ContainerInsights` |
| xray-smoke.sh | `Prerequisites`, `StackOutputs`, `HttpRequest`, `GraphqlResponse`, `XrayQuery` |
| integrated-demo-smoke.sh | `Prerequisites`, `Health`, `Scenario`, `WriteReport` |
| the exit trap | `End` with `OnExit`, `CommandFails`, `Interrupt` |
| external: the reservation service, its other clients, SIGKILL | `Answer`, `OtherClient`, `Kill` |

## 4. What the runs show

| Run | Instance | Shows |
| --- | --- | --- |
| `canary_practices` | a good and a bad image, 4 revisions, 2 recipes, one terminal, alarm gate skipped at will | under the documented practices: the seven safety properties of the release model, through failed updates and failed rollbacks; scripts end, a deploy retried after a failed one completes, a halted split is left by rolling forward |
| `canary_lost_wrapper`, `canary_lost_recipe` | 3 or 4 revisions | violations, see section 6 |
| `cleanup_races` | 2 repositories, 3 deployments, 2 faults, foundation deployed under the run | only inspected repositories are deleted; "cleaned" is true |
| `cleanup_operators` | 2 operators, 2 deployments, 2 faults | no stack without repositories, nothing deleted under a workload, running the command again converges |
| `comparison_run` | 2 logins of one tick each, timeout 4, midnight between the polls, queries longer than a tick | a pass is evidence, nothing queryable is overlooked, a store is given up only at the deadline; the run ends, and less than one query poll after the deadline |
| `comparison_table` | 1 login | violation |
| `artifact_runs` | 2 runs, one image and one index | successful copies are kept, only inspected images enter, a run ends although registries never answer |
| `gate_commands` | 2 commands of any kind, 2 accounts, 1 edit of any file | bootstrap and logins reach only validated accounts, exit codes are true, every command ends |
| `delivery_path` | 1 event of any kind, 2 accounts, 2 redeployments, 1 replay or redrive | the path implements `AuditTrail`, an event lands in its own partition, every login is stored or alarmed |
| `smoke_runs` | 2 runs of any script, 2 seats, 3 attempts | a run takes at most one seat, every run ends |
| `smoke_report` | the same | violation |

Bounds. Four revisions are enough for bootstrap, a release, and then a deploy
with a changed recipe and its follow-up release or two more releases, that is for
every pair of operations in either order; one bad image is enough to fire an
alarm at any time, since `AlarmDegrades` may also happen without one. One
terminal runs scripts one after the other, which is the documented practice;
overlap with CloudFormation is what `WrapperMayDie` adds. In the cleanup, two
repositories are the least that allow a partial deletion, three deployments the
least that allow a repository to be replaced twice, and two faults a failure
during the recovery from a failure. In the comparison, the poll
interval is longer than what is left after the logins, so the last sleep is cut
at the deadline and each store is looked at before and after it; a query poll is
two ticks, so a query can straddle the deadline, and midnight, which falls
between the two looks. In the copy, two runs are one that is killed, with its put
still on the way, and its retry or an independent verification. In the gate, one
edit is enough to change any one thing between any two reads; two commands are
enough for a bootstrap under another one's bootstrap and for two comparisons with
one output path. In the delivery path events do not influence one another except
through the alarms, which hold more often the more events there are, so one event
of every kind is followed; two accounts are the least that can be confused or
reordered, and two redeployments take an account out and put it back. The
durations are scaled down; what matters is their order, which
`DurationsAssumption` states: the freshness alarm has to fire while the stream
still holds what it is about (15 + 3 minutes against 24 hours in the code). In
the smoke scripts, three attempts on two seats include one seat asked for twice.
Deadlock is checked except in the comparison, the copy, the operator commands and
the smoke scripts, where every run ends and nothing is left to do.

Fairness. Scripts and commands are running processes: once started they take
their next step or fail (`WF` on their steps). In the comparison that is `Runner`, the
steps the program takes whatever it is answered, without `Answers`. CloudFormation and ECS go on with
work they accepted. Registries, Athena, the audit paths and alarms are given no
fairness, and operators only where the property is about somebody who does run
the command again: `Converges` assumes that the cleanup is run again and that a
rolled-back stack is removed by hand, as its runbook says, and that in the end
neither a workload nor an update of the foundation is in the way; the premise
`Recovery` of `HaltIsRolledForward` is an operator who keeps releasing good
images while nothing else goes wrong; the premise `Retry` of
`RetriedDeployCompletes` is one who deploys again whenever the service is steady,
rolls a halted split forward first and has a stuck stack repaired, while from
some point on no update fails. What that property then asks of the scripts is
that nothing a failed deploy leaves behind refuses the next one. In the copy's and the smoke scripts'
`EveryRunEnds`, in `RunEnds` and in `EveryCommandEnds` termination rests on the
code's own timeouts: skopeo, aws and cdk processes are killed when their time is
up, awscurl at the deadline of its loop. The SDK calls of `VerifySdk` and the
curl and aws calls of the smoke scripts are assumed to answer or fail by
themselves. In the delivery path time passes and EventBridge gives up what its
retry policy has exhausted; no delivery is assumed to succeed, no stream to
store anything, and nobody to replay.

## 5. What is proved

Every invariant and every action property of the passing runs, and both
refinements, for every value of the constants that satisfies the modules' named
assumptions. Those say that bounds and durations are natural numbers and how they
are ordered (`BoundsAssumption`, `CatalogAssumption`, `DurationsAssumption`,
`SettingsAssumption`, `SmokeAssumption`, `EditsAssumption`), that the two
configured accounts differ (`AccountsAssumption`, which the configuration is
refused without), that bad images and indexes are images, and that the values
which stand for "none" are none of the others (`NoDigestAssumption`,
`NothingAssumption`). `SettingsAssumption` includes that some login time is the
longest: the request timeout.

In each proof module the invariants are strengthened to an inductive `IInv`
(`Typed` and `RInv` in the canary modules), which TLC checked on the instances of
the runs before it was proved. `PROJECT.json` lists the theorems.

* `CanaryDeliveryProofs`: `TypeCorrect`. A revision number must be registered
  before it can be looked up in `taskDefs`, so `Typed` adds that every revision
  held by the service, the stack, a pending update or a script has been.
* `CanaryExclusiveProofs`, all under `Practices` (`Exclusive`, `SyncAlways`, not
  `WrapperMayDie`, what the runbook asks for; without them
  `DeployKeepsRunningRevision` is false, see section 6).
  * Where the service is: `RollbackCheckpointHolds`, `DeployKeepsRunning`,
    `NoDeploymentStacked`. The invariant follows the wrapper's argument: one
    script at a time (`Solo`); CloudFormation works only for a script that waits
    for it, or is stuck with none under way, on a template that names the running
    revision (`WorkInv`); from
    `ReadRunning` on the service is steady on the revision read, and from the end
    of the sync phase the deployed template resolves to it (`DeployInv`); after
    the first gate nothing starts to move before `update-service` (`GateInv`).
  * What is released: `ReleasesFollowTheRecipe`, `InfraDeployKeepsTheImage`. The
    recipe that a release has read stays the recipe, and the revision that it has
    registered carries its image and the recipe's content (`ReleaseInv`); a
    deploy holds the image that runs, through its follow-up release (`KeepInv`);
    revisions are never changed (`DefsKept`).
  * `ScriptsImplementImageRelease`: every step is a step of `ImageRelease` or
    none. A script asks, withdraws or begins (`ScriptStepImages`), all that
    CloudFormation does to an existing stack is invisible (`StackImages`), ECS
    promotes, halts or reverts (`EcsImages`).
* `FoundationCleanupProofs`: `TypeCorrect`, and `CleanedMeansGone` without any
  condition: no incarnation of a repository comes back (`History`), so what the
  final inspection has found gone stays gone or is another one (`FoundGone`).
  `FinishedStackIsWhole` if nobody deploys the foundation under a run
  (`~FoundationRaces`), and `WorkloadIsSafe` if nobody deploys the workload under
  a run (`~WorkloadRaces`): both are false otherwise (section 6).
  `OnlyInspectedAreDeleted` for one terminal, or for any number without
  foundation races: what a run has read is history when it acts on it, and
  `Incarnations` says what of it still holds.
* `TransportComparisonProofs`: `TypeCorrect`, `PassMeansBothStores`,
  `GivenUpAtTheDeadline`, `OverrunIsBounded`, and `LookupsAreComplete` of the
  action property `FindsWhatWasThere`. The invariant follows an event: what is
  visible was stored after its login (`OnTheWay`), a running query returns only
  what was visible and all that was when its iteration began (`Querying`), what
  polling has seen is stored (`Found`); no sleep reaches beyond the logins or the
  last query poll (`InTime`).
* `ArtifactCopyProofs`: `TypeCorrect`, `SuccessfulCopyIsKept`
  (`CopiedIsRetained`) and `EntrantsAreInspected` (`OnlyInspectedImagesEnter`).
  What protects a copied image is its tag (`Tagged`), which a copying run has
  because it reaches the destination check only through an accepted put
  (`Reached`); what is known of a put still on its way is in `Inspected`.
* `OperatorGateProofs`: `TypeCorrect`, `OnlyPrivateFilesAreUsed`,
  `LoginsAreSeparated`, `ReportsHaveEvidence`, `BootstrapStaysInAuditAccount`,
  `ReportedBootstrapIsComplete`. What a run has read and validated at each of its
  steps is a predicate on its own record (`Progress`), which no edit and no other
  run disturbs; the one thing that runs share, the evidence file, is tied to the
  run that writes it (`Writing`).
* `AuditDeliveryProofs`: `TypeCorrect`, `StoredInOwnPartition`, and
  `PathImplementsAuditTrail`. An event may leave the archive long after the path
  dropped it, so what became of it must be known without the archive
  (`Accounted`); a delivery is where an alarm would see it dropped, in the
  deployed resources of its own account (`Placed`); Firehose gives a record up
  only after the freshness alarm has counted its periods (`Counted`).
* `SmokeRunProofs`: `TypeCorrect` and `OneSeatEach` (`OneSeatPerRun`). The
  service may answer after the run has ended, so every seat a run holds is tied
  to its last request (`Held`), and the run asks for that seat again or for none
  (`Asking`).

Only model-checked: the liveness properties `ScriptsEnd`, `RetriedDeployCompletes`,
`HaltIsRolledForward`, `Converges`, `RunEnds`, `EveryRunEnds` (of the copy and of
the smoke scripts), `EveryCommandEnds` and `EveryLoginIsAccountedFor`. The prover
handles neither `ENABLED` nor the fairness they rest on. The statements of section
6 are refuted by TLC, and nothing is proved of them.

## 6. Disagreements between code and documentation

Four are runs that TLC finds violated; `PROJECT.json` quotes the statements.

* `canary_lost_wrapper`: after the wrapper of a deploy dies, `release.sh` accepts
  a release while CloudFormation still works, and the deploy's end or rollback
  takes the service back to the older revision.
* `canary_lost_recipe`: a follow-up release that was refused is not caught up by
  the next deploy, which reports that the recipe is unchanged.
* `comparison_table`: a failed look-up of the table ends the store's polling, so
  the retry the comment speaks of never happens.
* `smoke_report`: SIGINT, SIGTERM and SIGHUP run the exit trap with the status of
  the last completed command (bash 5.2); if that was 0, the interrupted run
  writes a report of success in which some evidence is missing.

Others have no run of their own:

* the alarm gate of `release.sh` ("refuses to start unless every alarm the
  service watches is OK", lines 18-19) is three requests before `update-service`;
  an alarm that fires in between starts a deployment ECS does not watch (H7). The
  model has the interleaving, and no property claims otherwise;
* "never start a release on top of a moving deployment" (`release.sh:190`) is one
  look, several requests before `update-service`. The death of a wrapper that
  `canary_lost_wrapper` is about lets CloudFormation start a deployment in between,
  and the release is stacked on it: `NoStackedDeployment` fails with
  `WrapperMayDie = TRUE`;
* the alarm that halted a split stays in ALARM while the split serves errors, so
  without `--skip-alarm-gate` no release can fix the halt: `HaltIsRolledForward`
  fails with `GateAlways = TRUE`;
* the cleanup reads the workload's absence once, before the plan (`cli.ts:151-152`
  promises more): `NoCleanupUnderWorkload` fails with `WorkloadRaces = TRUE`;
* the inspection's reads are concurrent. While the foundation is deployed, the
  stack may be read as absent and the repositories that the deployment then
  creates as leftovers; the cleanup deletes them and leaves a stack without
  repositories, although it waits for "confirmed stack absence"
  (`aws-cleanup-client.ts:111`) where it deletes the stack itself:
  `StackImpliesRepositories` fails with `FoundationRaces = TRUE`;
* detection time (`run-comparison.ts:26`) is bounded by the poll interval plus the
  time of both stores' queries, not by the interval;
* `aws-cli.ts:61-66` says SDK clients enforce the same account, principal type
  and role; `verifySdkIdentity` compares the account, which is all that
  `LoginsReachTwoAccounts` states;
* the alarms are for events "the central bus accepted but did not land"
  (`audit-delivery-alarms.ts:22`); an accepted event of another envelope version
  matches no rule and no archive, and a record whose day cannot be read goes to
  the errors prefix without a failed conversion, so no alarm is about either.
  `Watched` leaves them out of `EveryLoginIsAccountedFor`.

Known limits of the models:

* Canary: under the practices nothing but the script itself can change the
  service or the recipe between its reads and its `update-service`, so
  `NoStackedDeployment` and `ReleasesFollowRecipe` are about the order of a
  script's own steps and of what CloudFormation and ECS do under it; what
  overlap does is said above.
* Cleanup: with two operators and a new deployment, a plan may be older than the
  repositories it deletes.
* Copy: a manifest is its digest, so content that changes under skopeo's second
  read of the source (`artifact-copy.ts:107`) is not expressible; what
  guards that read is skopeo's own check (`--preserve-digests`, and the digest
  verified at the destination). `verify-existing` succeeds for an untagged image that the lifecycle rule
  removes later; the caller owns the choice.
* Comparison: the Athena reader's two-second sleep is not cut at the deadline, so
  "never sleeps past the deadline" (`run-comparison.ts:51`) is true of the polling
  loop only, and `BoundedOverrun` states what holds of the whole run.
* Operator commands: after the gate nothing is checked again by `status`, which
  only reads; SDK clients read the configuration once more after `VerifySdk`. A
  target file is checked by path and read by path; what is read is still compared
  with the profile and with a live caller, so no property is about the file.
* Delivery: one event; copies of an event in one stream count as the oldest; no
  second delivery starts while one is pending; a redeployment is one step, and
  deleting the stacks altogether is left out; the throttling warning is left out,
  as it is about no event. A counter that a dying task never exported is outside
  the model: there the missing data is the signal. With the largest buffering
  interval Firehose allows (900 s) the freshness alarm would fire in normal
  operation.
* Smoke scripts: others' traffic can make the datapoints appear that a run waits
  for, since its window starts a minute earlier and nothing names the run;
  `emit_report` failures are ignored, and `integrated-demo-smoke.sh` leaves an
  older report of success when it fails, so the existence of a report is claimed
  by no property.

## 7. Not modelled

* Resources that are only declared: networks, roles, log groups, the platform,
  observability and identity stacks, the legacy audit stack (its store is an
  actor of `TransportComparison`), the canary's image repository.
* Parsers and validations without state: `platform-config.ts`, the Security Lake
  response parser, the `validate-*` scripts, the workspace boundary check.
* `audit-router`: one stateless classification per record; what may be lost is in
  Fluent Bit's buffers, which the repository only configures.
* Contract vendoring: an interrupted run leaves a half-written bundle in a git
  working tree, and `transport-contract.test.ts` recomputes the hashes of the
  ingestion bundle.
* The finished Security Lake spike, read-only sampling (`probe.sh`,
  `observe.sh`), the traffic generator `demo-workload.ts`, dashboards, collector
  and Tempo configuration, CI and editor set-up.

`PROJECT.json` names each with its reason.

## 8. Running the checks

    tlc -workers 2 -config CanaryDelivery_practices.cfg CanaryDelivery
    tlapm CanaryExclusiveProofs.tla

A run's module and configuration are in `PROJECT.json`. The proof modules take
from half a minute to a few minutes each.
