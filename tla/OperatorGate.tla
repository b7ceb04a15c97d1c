---------------------------- MODULE OperatorGate ----------------------------
(***************************************************************************)
(* What an operator command does before it touches an AWS account, and the *)
(* operation behind that gate: the audit account operator (preflight,      *)
(* status, bootstrap) and the transport comparison with its private files  *)
(* and its evidence file.                                                  *)
(*                                                                         *)
(* Every file read, every aws process whose answer can matter and every    *)
(* SDK call is an action.  Between two of them the operator may edit the   *)
(* target files, the shared AWS configuration, the topology or the private *)
(* files in another terminal, and another command may run.                 *)
(***************************************************************************)
EXTENDS Naturals

CONSTANTS
  Runs,      \* processes: one run of a command each
  Accounts,  \* AWS accounts
  Roles,     \* generated Identity Center roles, as in expectedRoleName
  AuditAccount, WorkloadAccount,  \* what the operator's files name at first
  MaxEdits,  \* bound: edits of the operator's files
  Nothing    \* not read yet

ASSUME AccountsAssumption == {AuditAccount, WorkloadAccount} \subseteq Accounts /\ AuditAccount # WorkloadAccount
ASSUME EditsAssumption    == MaxEdits \in Nat

VARIABLES
  topology,  \* the audit account configuration file
  target,    \* target[t]: a target file, aws-target.json
  profile,   \* profile[t]: the section of the shared AWS config that target t names
  files,     \* files[f]: the private file at the path of f
  toolkit,   \* toolkit[a]: the CDKToolkit stack of account a
  evidence,  \* the file at the output path, which all runs share
  edits,     \* edits so far
  run        \* run[r]: command, next step, what was read so far, exit code

config == <<topology, target, profile, files, edits>>
world  == <<toolkit, evidence>>
vars   == <<config, world, run>>

Targets      == {"workload", "audit"}
PrivateFiles == {"runFile", "credentials"}
Inputs       == Targets \cup PrivateFiles
Principals   == [account : Accounts, role : Roles]

Topology   == [audit : Accounts, others : SUBSET Accounts]
\* loose: a symbolic link, or readable by others; malformed: no valid target.
TargetFile == [quality : {"good", "loose", "malformed"}, pin : Principals]
\* other: static keys, a role or a process may give the credentials.
Profile    == [provider : {"sso", "other"}, principal : Principals]
\* One file that has been at the path; a rename puts another one there.
File       == [version : 0..MaxEdits, private : BOOLEAN]

\* accountPreflight is the gate's own command, for one target; preflight stands
\* for bootstrap without --execute, too.
Commands == {"accountPreflight", "preflight", "status", "bootstrap", "comparison"}

PC == {"idle", "topology", "open", "check", "readFile", "lstat", "readTarget", "settings", "role",
       "providers", "sts", "command", "wait", "verify", "logins", "create", "write", "done"}

\* The SSO settings of a profile as far as they were read.
Settings == [account : Accounts \cup {Nothing}, role : Roles \cup {Nothing}]

Run == [command  : Commands \cup {Nothing},
        keys     : BOOLEAN,                                 \* credential variables are set
        pc       : PC,
        at       : Inputs,                                  \* the input being read
        audit    : Accounts \cup {Nothing},                 \* auditAccountId as loaded
        file     : File \cup {Nothing},                     \* the open descriptor
        used     : SUBSET File,                             \* private files whose contents are used
        pin      : [Targets -> Principals \cup {Nothing}],  \* targets as loaded
        settings : Settings,                                \* as read from the profile
        sdk      : [Targets -> Principals \cup {Nothing}],  \* whom the SDK was verified to be
        exit     : {0, 1, 2, 3, Nothing}]

Unread  == [t \in Targets |-> Nothing]
NoSettings == [account |-> Nothing, role |-> Nothing]
IdleRun == [command |-> Nothing, keys |-> FALSE, pc |-> "idle", at |-> "audit", audit |-> Nothing,
            file |-> Nothing, used |-> {}, pin |-> Unread, settings |-> NoSettings, sdk |-> Unread,
            exit |-> Nothing]

Evidence == [owner : Runs, complete : BOOLEAN]

ASSUME NothingAssumption ==
  /\ Nothing \notin Accounts /\ Nothing \notin Commands
  /\ Nothing \notin Evidence /\ Nothing \notin 0..3

TypeOK ==
  /\ topology \in Topology
  /\ target \in [Targets -> TargetFile]
  /\ profile \in [Targets -> Profile]
  /\ files \in [PrivateFiles -> File]
  /\ toolkit \in [Accounts -> {"absent", "inProgress", "complete", "failed"}]
  /\ evidence \in Evidence \cup {Nothing}
  /\ edits \in 0..MaxEdits
  /\ run \in [Runs -> Run]

\* The operator's files name two accounts, one principal each, consistently.
Init ==
  /\ topology = [audit |-> AuditAccount, others |-> {WorkloadAccount}]
  /\ \E role \in Roles :
       target = [t \in Targets |-> [quality |-> "good",
                   pin |-> [account |-> IF t = "audit" THEN AuditAccount ELSE WorkloadAccount, role |-> role]]]
  /\ profile = [t \in Targets |-> [provider |-> "sso", principal |-> target[t].pin]]
  /\ files = [f \in PrivateFiles |-> [version |-> 0, private |-> TRUE]]
  /\ toolkit = [a \in Accounts |-> "absent"]
  /\ evidence = Nothing /\ edits = 0
  /\ run = [r \in Runs |-> IdleRun]

----------------------------------------------------------------------------
(* Steps of a run *)

At(r, pc)   == run[r].pc = pc
Goto(r, pc) == run' = [run EXCEPT ![r].pc = pc]
\* The process ends; only its exit code remains.
Exit(r, code) ==
  run' = [run EXCEPT ![r] = [IdleRun EXCEPT !.command = run[r].command, !.pc = "done", !.exit = code]]
\* Mutant: the exit code of a usage error by convention.
RefuseAsUsage(r) == Exit(r, 64)

\* A refused or unreadable input: 2 for the comparison, 1 for the other commands.
Refuse(r) == Exit(r, IF run[r].command = "comparison" THEN 2 ELSE 1)

\* Who a call with the profile of t is.  Other providers give any principal.
Callers(t) == IF profile[t].provider = "sso" THEN {profile[t].principal} ELSE Principals

\* What refuses or fails at one of the steps pcs.
RefuseAt(r, pcs) == run[r].pc \in pcs /\ Refuse(r) /\ UNCHANGED <<config, world>>

\* The first input of a command: the account preflight begins with its target.
FirstInput(command) ==
  CASE command = "comparison"       -> {[pc |-> "open", at |-> "runFile"]}
    [] command = "accountPreflight" -> [pc : {"lstat"}, at : Targets]
    [] OTHER                        -> {[pc |-> "topology", at |-> "audit"]}

Start(r) ==
  /\ At(r, "idle")
  /\ \E command \in Commands, keys \in BOOLEAN : \E first \in FirstInput(command) :
       run' = [run EXCEPT ![r] = [IdleRun EXCEPT !.command = command, !.keys = keys,
                                    !.pc = first.pc, !.at = first.at]]
  /\ UNCHANGED <<config, world>>

\* --help and --self-test: exit code 0, and no command has run.
ShowUsage(r) ==
  /\ At(r, "idle")
  /\ Exit(r, 0)
  /\ UNCHANGED <<config, world>>

\* Arguments that the command does not take.
RejectArguments(r) ==
  /\ At(r, "idle")
  /\ Exit(r, 1) \/ Exit(r, 2)
  /\ UNCHANGED <<config, world>>

\* AWS_ENDPOINT_URL variables are refused before the run file is read.
RejectEndpointOverrides(r) ==
  /\ At(r, "open") /\ run[r].at = "runFile"
  /\ Refuse(r)
  /\ UNCHANGED <<config, world>>

\* loadAuditAccountConfig: the account roles must be distinct.
LoadTopology(r) ==
  /\ At(r, "topology")
  /\ IF topology.audit \in topology.others THEN Refuse(r)
     ELSE run' = [run EXCEPT ![r].audit = topology.audit, ![r].pc = "lstat"]
  /\ UNCHANGED <<config, world>>

\* No such file, not a private one, or another field of it is refused.
TopologyRefused(r) == RefuseAt(r, {"topology"})

(* readPrivateFile: open, check the descriptor, read the descriptor. *)
OpenFile(r) ==
  /\ At(r, "open")
  /\ run' = [run EXCEPT ![r].file = files[run[r].at], ![r].pc = "check"]
  /\ UNCHANGED <<config, world>>

CheckFile(r) ==
  /\ At(r, "check")
  /\ IF run[r].file.private THEN Goto(r, "readFile") ELSE Refuse(r)
  /\ UNCHANGED <<config, world>>

\* Mutant: the path is read again after the check.
ReadPath(r) ==
  /\ At(r, "readFile")
  /\ run' = [run EXCEPT ![r].used = @ \cup {files[run[r].at]}, ![r].file = Nothing,
               ![r].at = IF @ = "runFile" THEN "credentials" ELSE "workload",
               ![r].pc = IF run[r].at = "runFile" THEN "open" ELSE "lstat"]
  /\ UNCHANGED <<config, world>>

\* The run file names the credentials file and the target files.
ReadFile(r) ==
  /\ At(r, "readFile")
  /\ run' = [run EXCEPT ![r].used = @ \cup {run[r].file}, ![r].file = Nothing,
               ![r].at = IF @ = "runFile" THEN "credentials" ELSE "workload",
               ![r].pc = IF run[r].at = "runFile" THEN "open" ELSE "lstat"]
  /\ UNCHANGED <<config, world>>

\* The file cannot be opened or read, a field of it is refused, or the output
\* path that the run file names lies inside the repository.
FileRefused(r) == RefuseAt(r, {"open", "readFile"})

----------------------------------------------------------------------------
(* validateAwsAccess for the target run[r].at *)

\* No absolute path to the target file, or nothing is there.
TargetUnresolved(r) == RefuseAt(r, {"lstat"})

LstatTarget(r) ==
  /\ At(r, "lstat")
  /\ IF target[run[r].at].quality = "loose" THEN Refuse(r) ELSE Goto(r, "readTarget")
  /\ UNCHANGED <<config, world>>

\* rejectCredentialEnvironment
CompetingCredentials(r) == run[r].keys

\* The target file cannot be read, or a field of it is not a string.
TargetFieldRefused(r) == RefuseAt(r, {"readTarget"})

\* resolveAwsConfigFiles: no absolute path to the shared AWS configuration.
ConfigFilesUnresolved(r) == RefuseAt(r, {"readTarget"})

\* loadAwsTarget, then the first checks of validateAwsCliIdentity
ReadTarget(r) ==
  /\ At(r, "readTarget")
  /\ IF target[run[r].at].quality = "malformed" \/ CompetingCredentials(r) THEN Refuse(r)
     ELSE run' = [run EXCEPT ![r].pin[run[r].at] = target[run[r].at].pin, ![r].pc = "settings"]
  /\ UNCHANGED <<config, world>>

\* aws --version
CliVersionRefused(r) == RefuseAt(r, {"settings"})

\* aws configure get sso_account_id
ReadAccount(r) ==
  /\ At(r, "settings")
  /\ run' = [run EXCEPT ![r].settings.account = profile[run[r].at].principal.account, ![r].pc = "role"]
  /\ UNCHANGED <<config, world>>

\* aws configure get sso_role_name, a process of its own
ReadRole(r) ==
  /\ At(r, "role")
  /\ run' = [run EXCEPT ![r].settings.role = profile[run[r].at].principal.role, ![r].pc = "providers"]
  /\ UNCHANGED <<config, world>>

\* aws configure get for another credential provider: a process that fails or is
\* killed counts as a provider that is not set.
ProviderUnset(t, failed) == profile[t].provider = "sso" \/ failed

\* The other providers; then the comparisons.  The nine reads are one action: a
\* failed one hides a provider, so the gate may pass whatever is edited between
\* them, and a provider that one of them finds is in the profile at that moment.
ReadProviders(r) ==
  /\ At(r, "providers")
  /\ \E failed \in BOOLEAN :
       IF ProviderUnset(run[r].at, failed) /\ run[r].settings = run[r].pin[run[r].at]
       THEN run' = [run EXCEPT ![r].settings = NoSettings, ![r].pc = "sts"]
       ELSE Refuse(r)
  /\ UNCHANGED <<config, world>>

\* The Region of the profile or of its SSO session is not the target's.
RegionRefused(r) == RefuseAt(r, {"providers"})

\* An aws process fails, or is killed after its 30 seconds: an SSO setting counts
\* as absent and is refused, and so is a caller that is not known.
ProcessFails(r) == RefuseAt(r, {"settings", "role", "sts"})

\* What follows the gate: the comparison reads its second target, then requires
\* two accounts; the operator command requires the configured audit account.
Mismatch(r) ==
  CASE run[r].command = "comparison" ->
         run[r].at = "audit" /\ run[r].pin["audit"].account = run[r].pin["workload"].account
    [] run[r].command = "accountPreflight" -> FALSE
    [] OTHER -> run[r].pin["audit"].account # run[r].audit

AfterGate(r) ==
  IF Mismatch(r) THEN Refuse(r)
  ELSE CASE run[r].command \in {"accountPreflight", "preflight"} -> Exit(r, 0)
         [] run[r].command \in {"status", "bootstrap"} -> Goto(r, "command")
         [] run[r].command = "comparison" /\ run[r].at = "workload" ->
              run' = [run EXCEPT ![r].at = "audit", ![r].pc = "lstat"]
         [] run[r].command = "comparison" /\ run[r].at = "audit" ->
              run' = [run EXCEPT ![r].at = "workload", ![r].pc = "verify"]

\* validateAwsCallerIdentity: the pinned account, and the pinned role in it
ValidCaller(r, caller) == caller = run[r].pin[run[r].at]

\* sts get-caller-identity with the profile
CallSts(r) ==
  /\ At(r, "sts")
  /\ \E caller \in Callers(run[r].at) : IF ValidCaller(r, caller) THEN AfterGate(r) ELSE Refuse(r)
  /\ UNCHANGED <<config, world>>

\* Behind both gates: the run file's dead-letter queue is in another account or
\* Region than the audit target.
QueueElsewhere(r) ==
  /\ At(r, "verify") /\ run[r].at = "workload"
  /\ Refuse(r)
  /\ UNCHANGED <<config, world>>

CliIdentity(r) ==
  \/ CliVersionRefused(r) \/ ReadAccount(r) \/ ReadRole(r) \/ ReadProviders(r)
  \/ RegionRefused(r) \/ CallSts(r) \/ ProcessFails(r)

Access(r) ==
  \/ TargetUnresolved(r) \/ LstatTarget(r) \/ TargetFieldRefused(r)
  \/ ConfigFilesUnresolved(r) \/ ReadTarget(r) \/ CliIdentity(r)

----------------------------------------------------------------------------
(* runStatus and runBootstrap *)

RunStatus(r) ==
  /\ At(r, "command") /\ run[r].command = "status"
  /\ Exit(r, 0) \/ Exit(r, 1)
  /\ UNCHANGED <<config, world>>

\* cdk bootstrap without an environment: the caller's account.
BootstrapsCaller(r, caller) == TRUE

\* cdk bootstrap aws://account/region: cdk refuses another account's credentials.
Bootstraps(r, caller) == caller.account = run[r].audit

\* validatedProcessEnvironment: the process finds the profile where the gate did.
ProcessCallers == Callers("audit")

StartBootstrap(r) ==
  /\ At(r, "command") /\ run[r].command = "bootstrap"
  /\ \E caller \in ProcessCallers :
       IF Bootstraps(r, caller)
       THEN /\ Goto(r, "wait")
            /\ toolkit' = [toolkit EXCEPT ![caller.account] = IF @ = "complete" THEN @ ELSE "inProgress"]
       ELSE Exit(r, 1) /\ UNCHANGED toolkit
  /\ UNCHANGED <<config, evidence>>

BootstrapReturns(r) ==
  /\ At(r, "wait")
  /\ \/ toolkit[run[r].audit] = "complete" /\ Exit(r, 0)
     \/ toolkit[run[r].audit] = "failed" /\ Exit(r, 1)
  /\ UNCHANGED <<config, world>>

\* Mutant: a killed process has no status, and that is not taken for a failure.
KilledIsDone(r) ==
  /\ At(r, "wait")
  /\ Exit(r, 0)
  /\ UNCHANGED <<config, world>>

\* Mutant: the process is given all the time it wants.
NeverKilled(r) ==
  /\ At(r, "wait") /\ toolkit[run[r].audit] = "failed"
  /\ Exit(r, 1)
  /\ UNCHANGED <<config, world>>

\* spawnSync kills cdk after 60 seconds; CloudFormation goes on.
BootstrapKilled(r) ==
  /\ At(r, "wait")
  /\ Exit(r, 1)
  /\ UNCHANGED <<config, world>>

\* CloudFormation ends the bootstrap of account a.
ToolkitEnds(a) ==
  /\ toolkit[a] = "inProgress"
  /\ \E status \in {"complete", "failed"} : toolkit' = [toolkit EXCEPT ![a] = status]
  /\ UNCHANGED <<config, evidence, run>>

----------------------------------------------------------------------------
(* The comparison behind the gate *)

\* Mutant: the identity behind the SDK's credentials is read and not compared.
VerifyAnyAccount(r) ==
  /\ At(r, "verify")
  /\ \E caller \in Callers(run[r].at) :
       run' = [run EXCEPT ![r].sdk[run[r].at] = caller,
                 ![r].at = "audit",
                 ![r].pc = IF run[r].at = "workload" THEN "verify" ELSE "logins"]
  /\ UNCHANGED <<config, world>>

\* verifySdkIdentity compares the account; a failed call is an unexpected error.
VerifySdk(r) ==
  /\ At(r, "verify")
  /\ \/ \E caller \in Callers(run[r].at) :
          IF caller.account = run[r].pin[run[r].at].account
          THEN run' = [run EXCEPT ![r].sdk[run[r].at] = caller,
                         ![r].at = "audit",
                         ![r].pc = IF run[r].at = "workload" THEN "verify" ELSE "logins"]
          ELSE Refuse(r)
     \/ Exit(r, 3)
  /\ UNCHANGED <<config, world>>

\* runComparison: logins, polling and verdict (module TransportComparison).
Compare(r) ==
  /\ At(r, "logins")
  /\ Goto(r, "create") \/ Exit(r, 3)
  /\ UNCHANGED <<config, world>>

\* Mutant: an existing file is overwritten.
OverwriteEvidence(r) ==
  /\ At(r, "create")
  /\ evidence' = [owner |-> r, complete |-> FALSE] /\ Goto(r, "write")
  /\ UNCHANGED <<config, toolkit>>

\* writeNewPrivateFile: O_CREAT | O_EXCL, so the file must not exist yet; its
\* directory or the file may not be created for other reasons, too.
CreateEvidence(r) ==
  /\ At(r, "create")
  /\ \/ evidence = Nothing /\ evidence' = [owner |-> r, complete |-> FALSE] /\ Goto(r, "write")
     \/ Exit(r, 3) /\ UNCHANGED evidence
  /\ UNCHANGED <<config, toolkit>>

WriteEvidence(r) ==
  /\ At(r, "write")
  /\ \/ /\ evidence' = [owner |-> r, complete |-> TRUE]
        /\ Exit(r, 0) \/ Exit(r, 1)
     \/ Exit(r, 3) /\ UNCHANGED evidence
  /\ UNCHANGED <<config, toolkit>>

\* The run is killed or its terminal is closed.
Interrupted(r) ==
  /\ run[r].pc \notin {"idle", "done"}
  /\ Exit(r, Nothing)
  /\ UNCHANGED <<config, world>>

----------------------------------------------------------------------------
(* The operator's other terminal *)

Edit == edits < MaxEdits /\ edits' = edits + 1 /\ UNCHANGED <<world, run>>

EditTopology == Edit /\ topology' \in Topology /\ UNCHANGED <<target, profile, files>>

EditTarget(t) ==
  /\ Edit
  /\ \E new \in TargetFile : target' = [target EXCEPT ![t] = new]
  /\ UNCHANGED <<topology, profile, files>>

EditProfile(t) ==
  /\ Edit
  /\ \E new \in Profile : profile' = [profile EXCEPT ![t] = new]
  /\ UNCHANGED <<topology, target, files>>

ReplaceFile(f) ==
  /\ Edit
  /\ \E private \in BOOLEAN : files' = [files EXCEPT ![f] = [version |-> edits', private |-> private]]
  /\ UNCHANGED <<topology, target, profile>>

----------------------------------------------------------------------------

ReadInputs(r) ==
  \/ RejectEndpointOverrides(r) \/ LoadTopology(r) \/ TopologyRefused(r)
  \/ OpenFile(r) \/ CheckFile(r) \/ ReadFile(r) \/ FileRefused(r) \/ QueueElsewhere(r)

Step(r) ==
  \/ ReadInputs(r) \/ Access(r)
  \/ RunStatus(r) \/ StartBootstrap(r) \/ BootstrapReturns(r) \/ BootstrapKilled(r)
  \/ VerifySdk(r) \/ Compare(r) \/ CreateEvidence(r) \/ WriteEvidence(r)

Edits ==
  \/ EditTopology
  \/ \E t \in Targets : EditTarget(t) \/ EditProfile(t)
  \/ \E f \in PrivateFiles : ReplaceFile(f)

Next ==
  \/ \E r \in Runs : Start(r) \/ ShowUsage(r) \/ RejectArguments(r) \/ Step(r) \/ Interrupted(r)
  \/ \E a \in Accounts : ToolkitEnds(a)
  \/ Edits

Spec == Init /\ [][Next]_vars
\* A started process takes its next step: aws and cdk processes are killed when
\* their time is up, and the SDK answers or fails.
FairSpec == Spec /\ \A r \in Runs : WF_vars(Step(r))

----------------------------------------------------------------------------
(* Properties *)

\* CDKToolkit is created only in the account that the topology file names and
\* that the pinned target and a live caller agreed on, whatever was edited since
\* (operator-cli.ts:73-95, audit-account-target.ts).
BootstrapsOnlyAuditAccount ==
  [][\A a \in Accounts : toolkit[a] # "inProgress" /\ toolkit'[a] = "inProgress" =>
       \E r \in Runs : /\ At(r, "command") /\ run[r].audit = a
                       /\ run[r].pin["audit"].account = a]_vars

\* "bootstrap completed" is said only of a bootstrap that is complete, although
\* the process may be killed while CloudFormation still works (operator-cli.ts:165-184).
CompletedBootstrapIsComplete ==
  [][\A r \in Runs : At(r, "wait") /\ run'[r].exit = 0 => toolkit[run[r].audit] = "complete"]_vars

\* The contents of a run file or credentials file are used only when the very
\* file they were read from was private (private-files.ts:18-46).
UsedFilesWerePrivate == \A r \in Runs : \A f \in run[r].used : f.private

\* Logins are sent only when the SDK, too, has reached the two accounts that the
\* targets pin, and they are two, "in case the config changed in between"
\* (cli.ts:123-141, production-dependencies.ts:58-68).
LoginsReachTwoAccounts ==
  \A r \in Runs : run[r].pc \in {"logins", "create", "write"} =>
    /\ \A t \in Targets : run[r].sdk[t].account = run[r].pin[t].account
    /\ run[r].sdk["workload"].account # run[r].sdk["audit"].account

\* Exit codes 0 and 1 of a comparison mean that its own evidence is at the
\* output path, also when several runs were given the same path (cli.ts:78-89).
ReportedMeansEvidence ==
  \A r \in Runs : run[r].command = "comparison" /\ run[r].exit \in {0, 1} =>
    evidence = [owner |-> r, complete |-> TRUE]

\* Every started command ends, although an aws process or CloudFormation may
\* never answer.
EveryCommandEnds == \A r \in Runs : run[r].pc # "idle" ~> run[r].pc = "done"
=============================================================================
