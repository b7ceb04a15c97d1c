------------------------- MODULE OperatorGateProofs -------------------------
(***************************************************************************)
(* Proofs about OperatorGate, for any number of runs, accounts, roles and  *)
(* edits: type correctness, that only private files are used, that logins  *)
(* reach two accounts, that a reported comparison has its evidence, and    *)
(* what bootstrap creates and reports.                                     *)
(*                                                                         *)
(* None of these is inductive.  What a run has read and validated so far   *)
(* at each of its steps is Progress, a predicate on the run's record       *)
(* alone, which no edit and no other run can disturb; the evidence file,   *)
(* which runs share, is tied to the run that is writing it by Writing.     *)
(***************************************************************************)
EXTENDS OperatorGate, TLAPS

FileSteps    == {"open", "check", "readFile"}
AccessSteps  == {"lstat", "readTarget", "settings", "role", "providers", "sts"}
CompareSteps == {"verify", "logins", "create", "write"}

\* Each step's input is of the right kind, and its file is the one that was checked.
RightInput(x) ==
  /\ x.pc \in FileSteps => x.at \in PrivateFiles
  /\ x.pc \in AccessSteps \cup {"topology", "verify"} => x.at \in Targets
  /\ x.pc \in {"check", "readFile"} => x.file \in File
  /\ x.pc = "readFile" => x.file.private
  /\ \A f \in x.used : f.private

\* Which commands get to which steps, and that only ended runs have an exit code.
RightCommand(x) ==
  /\ x.pc # "done" => x.exit = Nothing
  /\ x.pc = "idle" => x.command = Nothing
  /\ x.pc \notin {"idle", "done"} => x.command \in Commands
  /\ x.pc \in FileSteps \cup CompareSteps => x.command = "comparison"
  /\ x.pc = "command" => x.command \in {"status", "bootstrap"}
  /\ x.pc = "wait" => x.command = "bootstrap"

\* What the gate has established for the steps behind it.
Validated(x) ==
  /\ x.pc = "command" => x.pin["audit"].account = x.audit
  /\ x.pc \in CompareSteps => x.pin["workload"].account # x.pin["audit"].account
  /\ x.pc = "verify" /\ x.at = "audit" => x.sdk["workload"].account = x.pin["workload"].account
  /\ x.pc \in {"logins", "create", "write"} =>
       \A t \in Targets : x.sdk[t].account = x.pin[t].account

Progress(x) == RightInput(x) /\ RightCommand(x) /\ Validated(x)

\* The file at the output path is the one that a writing run has created.
Writing(r) == run[r].pc = "write" => evidence = [owner |-> r, complete |-> FALSE]

IInv ==
  /\ TypeOK
  /\ \A r \in Runs : Progress(run[r]) /\ Writing(r)
  /\ ReportedMeansEvidence

-----------------------------------------------------------------------------
(* Lemmas *)

\* A step that writes the record of r, and neither the operator's files nor the
\* evidence.
RunStep(r, new) ==
  /\ run' = [run EXCEPT ![r] = new]
  /\ UNCHANGED <<topology, target, profile, files, edits, evidence>>
  /\ toolkit' \in [Accounts -> {"absent", "inProgress", "complete", "failed"}]

\* A record that no comparison reports: it may come from any step but WriteEvidence.
Unreported(x) ==
  /\ x.pc # "write"
  /\ ~ (x.command = "comparison" /\ x.exit \in {0, 1})

LEMMA RunStepKeeps ==
  ASSUME IInv, NEW r \in Runs, NEW new \in Run, RunStep(r, new), Progress(new), Unreported(new)
  PROVE  IInv'
<1>1. run \in [Runs -> Run]
  BY DEF IInv, TypeOK
<1>2. TypeOK'
  <2>1. run' \in [Runs -> Run]
    BY <1>1 DEF RunStep
  <2>2. QED
    BY <2>1 DEF IInv, TypeOK, RunStep
<1>3. ASSUME NEW s \in Runs PROVE (Progress(run[s]) /\ Writing(s))'
  <2>1. CASE s = r
    <3>1. run'[s] = new
      BY <1>1, <2>1 DEF RunStep
    <3>2. QED
      BY <3>1 DEF Writing, Unreported
  <2>2. CASE s # r
    <3>1. run'[s] = run[s] /\ evidence' = evidence
      BY <1>1, <2>2 DEF RunStep
    <3>2. QED
      BY <3>1 DEF IInv, Writing
  <2>3. QED
    BY <2>1, <2>2
<1>4. ReportedMeansEvidence'
  <2> SUFFICES ASSUME NEW s \in Runs, run'[s].command = "comparison", run'[s].exit \in {0, 1}
               PROVE  evidence' = [owner |-> s, complete |-> TRUE]
    BY DEF ReportedMeansEvidence
  <2>1. run'[r] = new
    BY <1>1 DEF RunStep
  <2>2. s # r
    BY <2>1 DEF Unreported
  <2>3. run'[s] = run[s] /\ evidence' = evidence
    BY <1>1, <2>2 DEF RunStep
  <2>4. QED
    BY <2>3 DEF IInv, ReportedMeansEvidence
<1>5. QED
  BY <1>2, <1>3, <1>4 DEF IInv

\* What is left of a run that has ended.
Ended(r, code) == [IdleRun EXCEPT !.command = run[r].command, !.pc = "done", !.exit = code]

LEMMA EndedIsRun ==
  ASSUME NEW r \in Runs, run[r] \in Run, NEW code \in {0, 1, 2, 3, Nothing}
  PROVE  /\ Ended(r, code) \in Run
         /\ Progress(Ended(r, code))
         /\ Ended(r, code).pc = "done" /\ Ended(r, code).exit = code
         /\ Ended(r, code).command = run[r].command
<1>1. /\ Ended(r, code).pc = "done" /\ Ended(r, code).exit = code
      /\ Ended(r, code).command = run[r].command /\ Ended(r, code).used = {}
  BY DEF Ended, IdleRun
<1>2. Ended(r, code) \in Run
  BY DEF Ended, IdleRun, NoSettings, Settings, Run, Unread, PC, Inputs, Targets
<1>3. Progress(Ended(r, code))
  BY <1>1 DEF Progress, RightInput, RightCommand, Validated, FileSteps, AccessSteps, CompareSteps
<1>4. QED
  BY <1>1, <1>2, <1>3

\* A run may end at any step, a comparison before WriteEvidence not with 0 or 1.
LEMMA ExitKeeps ==
  ASSUME IInv, NEW r \in Runs, NEW code \in {0, 1, 2, 3, Nothing}, Exit(r, code),
         UNCHANGED <<topology, target, profile, files, edits, evidence>>,
         toolkit' \in [Accounts -> {"absent", "inProgress", "complete", "failed"}],
         run[r].command = "comparison" => code \notin {0, 1}
  PROVE  IInv'
<1>1. run[r] \in Run
  BY DEF IInv, TypeOK
<1>2. RunStep(r, Ended(r, code))
  BY DEF RunStep, Exit, Ended
<1>3. QED
  BY <1>1, <1>2, EndedIsRun, RunStepKeeps DEF Unreported

LEMMA RefuseKeeps ==
  ASSUME IInv, NEW r \in Runs, Refuse(r), UNCHANGED <<config, world>>
  PROVE  IInv'
<1> DEFINE code == IF run[r].command = "comparison" THEN 2 ELSE 1
<1>1. UNCHANGED <<topology, target, profile, files, edits, evidence>> /\ toolkit' = toolkit
  BY DEF config, world
<1>2. toolkit \in [Accounts -> {"absent", "inProgress", "complete", "failed"}]
  BY DEF IInv, TypeOK
<1>3. code \in {0, 1, 2, 3, Nothing} /\ Exit(r, code)
  BY DEF Refuse
<1>4. QED
  BY <1>1, <1>2, <1>3, ExitKeeps

\* The common case: a step that changes nothing but the record of r.
LEMMA RecordKeeps ==
  ASSUME IInv, NEW r \in Runs, NEW new \in Run, run' = [run EXCEPT ![r] = new],
         UNCHANGED <<config, world>>, Progress(new), Unreported(new)
  PROVE  IInv'
<1>1. UNCHANGED <<topology, target, profile, files, edits, evidence>> /\ toolkit' = toolkit
  BY DEF config, world
<1>2. toolkit \in [Accounts -> {"absent", "inProgress", "complete", "failed"}]
  BY DEF IInv, TypeOK
<1>3. RunStep(r, new)
  BY <1>1, <1>2 DEF RunStep
<1>4. QED
  BY <1>3, RunStepKeeps

\* A live caller is a principal.
LEMMA CallersArePrincipals ==
  ASSUME TypeOK, NEW t \in Targets PROVE Callers(t) \subseteq Principals
BY DEF TypeOK, Callers, Profile

LEMMA InitIInv == Init => IInv
<1> SUFFICES ASSUME Init PROVE IInv
  OBVIOUS
<1>1. IdleRun \in Run
  BY DEF IdleRun, NoSettings, Settings, Run, Unread, PC, Inputs, Targets
<1>2. target \in [Targets -> TargetFile]
  <2>1. PICK role \in Roles :
          target = [t \in Targets |-> [quality |-> "good",
                   pin |-> [account |-> IF t = "audit" THEN AuditAccount ELSE WorkloadAccount, role |-> role]]]
    BY DEF Init
  <2>2. \A t \in Targets : [account |-> IF t = "audit" THEN AuditAccount ELSE WorkloadAccount, role |-> role]
                             \in Principals
    BY AccountsAssumption DEF Principals
  <2>3. QED
    BY <2>1, <2>2 DEF TargetFile
<1>3. profile \in [Targets -> Profile]
  BY <1>2 DEF Init, Profile, TargetFile
<1>4. topology \in Topology /\ files \in [PrivateFiles -> File]
  BY AccountsAssumption, EditsAssumption DEF Init, Topology, File
<1>5. TypeOK
  BY <1>1, <1>2, <1>3, <1>4, EditsAssumption DEF Init, TypeOK
<1>6. ASSUME NEW r \in Runs PROVE Progress(run[r]) /\ Writing(r) /\ run[r].exit = Nothing
  <2>1. run[r] = IdleRun
    BY DEF Init
  <2>2. run[r].pc = "idle" /\ run[r].command = Nothing /\ run[r].exit = Nothing /\ run[r].used = {}
    BY <2>1 DEF IdleRun
  <2>3. QED
    BY <2>2 DEF Progress, RightInput, RightCommand, Validated, Writing, FileSteps, AccessSteps, CompareSteps
<1>7. ReportedMeansEvidence
  BY <1>6, NothingAssumption DEF ReportedMeansEvidence
<1>8. QED
  BY <1>5, <1>6, <1>7 DEF IInv

-----------------------------------------------------------------------------
(* The inputs *)

LEMMA StartKeeps == ASSUME IInv, NEW r \in Runs, Start(r) PROVE IInv'
<1>1. PICK command \in Commands, keys \in BOOLEAN : \E first \in FirstInput(command) :
        run' = [run EXCEPT ![r] = [IdleRun EXCEPT !.command = command, !.keys = keys,
                                     !.pc = first.pc, !.at = first.at]]
  BY DEF Start
<1>2. PICK first \in FirstInput(command) :
        run' = [run EXCEPT ![r] = [IdleRun EXCEPT !.command = command, !.keys = keys,
                                     !.pc = first.pc, !.at = first.at]]
  BY <1>1
<1> DEFINE new == [IdleRun EXCEPT !.command = command, !.keys = keys, !.pc = first.pc, !.at = first.at]
<1>3. /\ first.at \in Inputs
      /\ \/ first.pc = "open" /\ first.at \in PrivateFiles /\ command = "comparison"
         \/ first.pc = "lstat" /\ first.at \in Targets
         \/ first.pc = "topology" /\ first.at \in Targets
  <2>1. CASE command = "comparison"
    BY <2>1, <1>2 DEF FirstInput, Inputs, Targets, PrivateFiles
  <2>2. CASE command = "accountPreflight"
    BY <2>2, <1>2 DEF FirstInput, Inputs, Targets
  <2>3. CASE command \notin {"comparison", "accountPreflight"}
    BY <2>3, <1>2 DEF FirstInput, Inputs, Targets
  <2>4. QED
    BY <2>1, <2>2, <2>3
<1>4. new \in Run
  BY <1>3 DEF IdleRun, NoSettings, Settings, Run, Unread, PC
<1>5. /\ new.pc = first.pc /\ new.at = first.at /\ new.command = command
      /\ new.exit = Nothing /\ new.used = {}
  BY DEF IdleRun
<1>6. Progress(new)
  BY <1>3, <1>5 DEF Progress, RightInput, RightCommand, Validated, FileSteps, AccessSteps, CompareSteps
<1>7. Unreported(new)
  BY <1>3, <1>5, NothingAssumption DEF Unreported
<1>8. QED
  BY <1>2, <1>4, <1>6, <1>7, RecordKeeps DEF Start

\* Usage and bad arguments: no command has been chosen.
LEMMA NoCommandKeeps ==
  ASSUME IInv, NEW r \in Runs, ShowUsage(r) \/ RejectArguments(r) PROVE IInv'
<1>1. run[r].command = Nothing
  BY DEF IInv, Progress, RightCommand, ShowUsage, RejectArguments, At
<1>2. Nothing # "comparison"
  BY NothingAssumption DEF Commands
<1>3. UNCHANGED <<topology, target, profile, files, edits, evidence>> /\ toolkit' = toolkit
  BY DEF ShowUsage, RejectArguments, config, world
<1>4. toolkit \in [Accounts -> {"absent", "inProgress", "complete", "failed"}]
  BY DEF IInv, TypeOK
<1>5. Exit(r, 0) \/ Exit(r, 1) \/ Exit(r, 2)
  BY DEF ShowUsage, RejectArguments
<1>6. QED
  BY <1>1, <1>2, <1>3, <1>4, <1>5, ExitKeeps

\* Every step that only refuses.
LEMMA RefusalKeeps ==
  ASSUME IInv, NEW r \in Runs,
         \/ RejectEndpointOverrides(r) \/ TopologyRefused(r) \/ FileRefused(r) \/ QueueElsewhere(r)
         \/ TargetUnresolved(r) \/ TargetFieldRefused(r) \/ ConfigFilesUnresolved(r)
         \/ CliVersionRefused(r) \/ RegionRefused(r) \/ ProcessFails(r)
  PROVE  IInv'
<1>1. Refuse(r) /\ UNCHANGED <<config, world>>
  BY DEF RejectEndpointOverrides, TopologyRefused, FileRefused, QueueElsewhere, TargetUnresolved,
         TargetFieldRefused, ConfigFilesUnresolved, CliVersionRefused, RegionRefused, ProcessFails, RefuseAt
<1>2. QED
  BY <1>1, RefuseKeeps

\* The facts about its own record that each step of a run starts from.
LEMMA OwnRecord ==
  ASSUME IInv, NEW r \in Runs
  PROVE  /\ run \in [Runs -> Run] /\ run[r] \in Run /\ Progress(run[r])
         /\ 0 # Nothing /\ 1 # Nothing
BY NothingAssumption DEF IInv, TypeOK

LEMMA LoadTopologyKeeps == ASSUME IInv, NEW r \in Runs, LoadTopology(r) PROVE IInv'
<1>1. CASE topology.audit \in topology.others
  BY <1>1, RefuseKeeps DEF LoadTopology
<1>2. CASE topology.audit \notin topology.others
  <2> DEFINE new == [run[r] EXCEPT !.audit = topology.audit, !.pc = "lstat"]
  <2>1. run' = [run EXCEPT ![r] = new] /\ UNCHANGED <<config, world>>
    BY <1>2, OwnRecord DEF LoadTopology
  <2>2. new \in Run
    <3>1. topology.audit \in Accounts
      BY DEF IInv, TypeOK, Topology
    <3>2. QED
      BY <3>1, OwnRecord DEF Run, PC
  <2>3. /\ new.pc = "lstat" /\ new.at = run[r].at /\ new.used = run[r].used
        /\ new.exit = run[r].exit /\ new.command = run[r].command
    BY OwnRecord DEF Run
  <2>4. run[r].pc = "topology" /\ Progress(run[r]) /\ 0 # Nothing /\ 1 # Nothing
    BY OwnRecord DEF LoadTopology, At
  <2>5. Progress(new) /\ Unreported(new)
    BY <2>3, <2>4 DEF Progress, RightInput, RightCommand, Validated, Unreported,
                      FileSteps, AccessSteps, CompareSteps
  <2>6. QED
    BY <2>1, <2>2, <2>5, RecordKeeps
<1>3. QED
  BY <1>1, <1>2

LEMMA OpenFileKeeps == ASSUME IInv, NEW r \in Runs, OpenFile(r) PROVE IInv'
<1> DEFINE new == [run[r] EXCEPT !.file = files[run[r].at], !.pc = "check"]
<1>1. run[r].pc = "open" /\ Progress(run[r]) /\ 0 # Nothing /\ 1 # Nothing
  BY OwnRecord DEF OpenFile, At
<1>2. files[run[r].at] \in File
  BY <1>1 DEF IInv, TypeOK, Progress, RightInput, FileSteps
<1>3. run' = [run EXCEPT ![r] = new] /\ UNCHANGED <<config, world>>
  BY OwnRecord DEF OpenFile
<1>4. new \in Run
  BY <1>2, OwnRecord DEF Run, PC
<1>5. /\ new.pc = "check" /\ new.at = run[r].at /\ new.used = run[r].used
      /\ new.file = files[run[r].at] /\ new.exit = run[r].exit /\ new.command = run[r].command
  BY OwnRecord DEF Run
<1>6. Progress(new) /\ Unreported(new)
  BY <1>1, <1>2, <1>5 DEF Progress, RightInput, RightCommand, Validated, Unreported,
                          FileSteps, AccessSteps, CompareSteps
<1>7. QED
  BY <1>3, <1>4, <1>6, RecordKeeps

LEMMA CheckFileKeeps == ASSUME IInv, NEW r \in Runs, CheckFile(r) PROVE IInv'
<1>1. CASE ~ run[r].file.private
  BY <1>1, RefuseKeeps DEF CheckFile
<1>2. CASE run[r].file.private
  <2> DEFINE new == [run[r] EXCEPT !.pc = "readFile"]
  <2>1. run' = [run EXCEPT ![r] = new] /\ UNCHANGED <<config, world>>
    BY <1>2, OwnRecord DEF CheckFile, Goto
  <2>2. new \in Run
    BY OwnRecord DEF Run, PC
  <2>3. /\ new.pc = "readFile" /\ new.at = run[r].at /\ new.used = run[r].used
        /\ new.file = run[r].file /\ new.exit = run[r].exit /\ new.command = run[r].command
    BY OwnRecord DEF Run
  <2>4. run[r].pc = "check" /\ Progress(run[r]) /\ 0 # Nothing /\ 1 # Nothing
    BY OwnRecord DEF CheckFile, At
  <2>5. Progress(new) /\ Unreported(new)
    BY <1>2, <2>3, <2>4 DEF Progress, RightInput, RightCommand, Validated, Unreported,
                            FileSteps, AccessSteps, CompareSteps
  <2>6. QED
    BY <2>1, <2>2, <2>5, RecordKeeps
<1>3. QED
  BY <1>1, <1>2

\* The descriptor that was checked is the one whose contents are used.
LEMMA ReadFileKeeps == ASSUME IInv, NEW r \in Runs, ReadFile(r) PROVE IInv'
<1> DEFINE first == run[r].at = "runFile"
           new   == [run[r] EXCEPT !.used = @ \cup {run[r].file}, !.file = Nothing,
                                   !.at = IF first THEN "credentials" ELSE "workload",
                                   !.pc = IF first THEN "open" ELSE "lstat"]
<1>1. run[r].pc = "readFile" /\ Progress(run[r]) /\ 0 # Nothing /\ 1 # Nothing
  BY OwnRecord DEF ReadFile, At
<1>2. run[r].file \in File /\ run[r].file.private
  BY <1>1 DEF Progress, RightInput
<1>3. run' = [run EXCEPT ![r] = new] /\ UNCHANGED <<config, world>>
  BY OwnRecord DEF ReadFile
<1>4. new \in Run
  <2>1. run[r].used \cup {run[r].file} \in SUBSET File
    BY <1>2, OwnRecord DEF Run
  <2>2. (IF first THEN "credentials" ELSE "workload") \in Inputs /\ (IF first THEN "open" ELSE "lstat") \in PC
    BY DEF Inputs, Targets, PrivateFiles, PC
  <2>3. QED
    BY <2>1, <2>2, OwnRecord DEF Run
<1>5. /\ new.used = run[r].used \cup {run[r].file} /\ new.exit = run[r].exit
      /\ new.command = run[r].command
      /\ \/ new.pc = "open" /\ new.at = "credentials"
         \/ new.pc = "lstat" /\ new.at = "workload"
  BY OwnRecord DEF Run
<1>6. Progress(new) /\ Unreported(new)
  BY <1>1, <1>2, <1>5 DEF Progress, RightInput, RightCommand, Validated, Unreported,
                          FileSteps, AccessSteps, CompareSteps, PrivateFiles, Targets
<1>7. QED
  BY <1>3, <1>4, <1>6, RecordKeeps

-----------------------------------------------------------------------------
(* The gate *)

LEMMA LstatTargetKeeps == ASSUME IInv, NEW r \in Runs, LstatTarget(r) PROVE IInv'
<1>1. CASE Refuse(r)
  BY <1>1, RefuseKeeps DEF LstatTarget
<1>2. CASE Goto(r, "readTarget")
  <2> DEFINE new == [run[r] EXCEPT !.pc = "readTarget"]
  <2>1. run' = [run EXCEPT ![r] = new] /\ UNCHANGED <<config, world>>
    BY <1>2, OwnRecord DEF LstatTarget, Goto
  <2>2. new \in Run
    BY OwnRecord DEF Run, PC
  <2>3. /\ new.pc = "readTarget" /\ new.at = run[r].at /\ new.used = run[r].used
        /\ new.exit = run[r].exit /\ new.command = run[r].command
    BY OwnRecord DEF Run
  <2>4. run[r].pc = "lstat" /\ Progress(run[r]) /\ 0 # Nothing /\ 1 # Nothing
    BY OwnRecord DEF LstatTarget, At
  <2>5. Progress(new) /\ Unreported(new)
    BY <2>3, <2>4 DEF Progress, RightInput, RightCommand, Validated, Unreported,
                      FileSteps, AccessSteps, CompareSteps
  <2>6. QED
    BY <2>1, <2>2, <2>5, RecordKeeps
<1>3. QED
  BY <1>1, <1>2 DEF LstatTarget

LEMMA ReadTargetKeeps == ASSUME IInv, NEW r \in Runs, ReadTarget(r) PROVE IInv'
<1> DEFINE refused == target[run[r].at].quality = "malformed" \/ CompetingCredentials(r)
<1>1. CASE refused
  BY <1>1, RefuseKeeps DEF ReadTarget
<1>2. CASE ~ refused
  <2> DEFINE pin == [run[r].pin EXCEPT ![run[r].at] = target[run[r].at].pin]
             new == [run[r] EXCEPT !.pin = pin, !.pc = "settings"]
  <2>1. run[r].pc = "readTarget" /\ Progress(run[r]) /\ 0 # Nothing /\ 1 # Nothing
    BY OwnRecord DEF ReadTarget, At
  <2>2. run' = [run EXCEPT ![r] = new] /\ UNCHANGED <<config, world>>
    BY <1>2, OwnRecord DEF ReadTarget
  <2>3. new \in Run
    <3>1. target[run[r].at].pin \in Principals
      BY <2>1 DEF IInv, TypeOK, TargetFile, Progress, RightInput, AccessSteps
    <3>2. pin \in [Targets -> Principals \cup {Nothing}]
      BY <3>1, OwnRecord DEF Run
    <3>3. ASSUME NEW p \in [Targets -> Principals \cup {Nothing}]
          PROVE  [run[r] EXCEPT !.pin = p, !.pc = "settings"] \in Run
      BY OwnRecord DEF Run, PC
    <3>4. QED
      BY <3>2, <3>3
  <2>4. /\ new.pc = "settings" /\ new.at = run[r].at /\ new.used = run[r].used
        /\ new.exit = run[r].exit /\ new.command = run[r].command
    BY OwnRecord DEF Run
  <2>5. Progress(new) /\ Unreported(new)
    BY <2>1, <2>4 DEF Progress, RightInput, RightCommand, Validated, Unreported,
                      FileSteps, AccessSteps, CompareSteps
  <2>6. QED
    BY <2>2, <2>3, <2>5, RecordKeeps
<1>3. QED
  BY <1>1, <1>2

\* One more setting of the profile is read.
LEMMA ReadSettingKeeps ==
  ASSUME IInv, NEW r \in Runs, NEW settings \in Settings, NEW next \in {"role", "providers"},
         run[r].pc \in {"settings", "role"}, UNCHANGED <<config, world>>,
         run' = [run EXCEPT ![r].settings = settings, ![r].pc = next]
  PROVE  IInv'
<1> DEFINE new == [run[r] EXCEPT !.settings = settings, !.pc = next]
<1>1. Progress(run[r]) /\ 0 # Nothing /\ 1 # Nothing
  BY OwnRecord
<1>2. run' = [run EXCEPT ![r] = new]
  BY OwnRecord
<1>3. new \in Run
  BY OwnRecord DEF Run, PC
<1>4. /\ new.pc = next /\ new.at = run[r].at /\ new.used = run[r].used
      /\ new.exit = run[r].exit /\ new.command = run[r].command
  BY OwnRecord DEF Run
<1>5. Progress(new) /\ Unreported(new)
  BY <1>1, <1>4 DEF Progress, RightInput, RightCommand, Validated, Unreported,
                    FileSteps, AccessSteps, CompareSteps
<1>6. QED
  BY <1>2, <1>3, <1>5, RecordKeeps

LEMMA ReadSettingsKeep == ASSUME IInv, NEW r \in Runs, ReadAccount(r) \/ ReadRole(r) PROVE IInv'
<1> DEFINE p   == profile[run[r].at].principal
           old == run[r].settings
<1>1. run[r].pc \in {"settings", "role"} /\ UNCHANGED <<config, world>>
  BY DEF ReadAccount, ReadRole, At
<1>2. p \in Principals
  BY <1>1, OwnRecord DEF IInv, TypeOK, Profile, Progress, RightInput, AccessSteps
<1>3. old \in Settings
  BY OwnRecord DEF Run
<1>4. CASE ReadAccount(r)
  <2>1. run' = [run EXCEPT ![r].settings = [old EXCEPT !.account = p.account], ![r].pc = "role"]
    BY <1>4, OwnRecord DEF ReadAccount
  <2>2. [old EXCEPT !.account = p.account] \in Settings
    BY <1>2, <1>3 DEF Settings, Principals
  <2>3. QED
    BY <1>1, <2>1, <2>2, ReadSettingKeeps
<1>5. CASE ReadRole(r)
  <2>1. run' = [run EXCEPT ![r].settings = [old EXCEPT !.role = p.role], ![r].pc = "providers"]
    BY <1>5, OwnRecord DEF ReadRole
  <2>2. [old EXCEPT !.role = p.role] \in Settings
    BY <1>2, <1>3 DEF Settings, Principals
  <2>3. QED
    BY <1>1, <2>1, <2>2, ReadSettingKeeps
<1>6. QED
  BY <1>4, <1>5

LEMMA ReadProvidersKeeps == ASSUME IInv, NEW r \in Runs, ReadProviders(r) PROVE IInv'
<1> DEFINE new == [run[r] EXCEPT !.settings = NoSettings, !.pc = "sts"]
<1>1. Refuse(r) \/ run' = [run EXCEPT ![r].settings = NoSettings, ![r].pc = "sts"]
  BY DEF ReadProviders
<1>2. CASE Refuse(r)
  BY <1>2, RefuseKeeps DEF ReadProviders
<1>3. CASE run' = [run EXCEPT ![r].settings = NoSettings, ![r].pc = "sts"]
  <2>1. run' = [run EXCEPT ![r] = new] /\ UNCHANGED <<config, world>>
    BY <1>3, OwnRecord DEF ReadProviders
  <2>2. new \in Run
    <3>1. NoSettings \in Settings
      BY DEF NoSettings, Settings
    <3>2. QED
      BY <3>1, OwnRecord DEF Run, PC
  <2>3. /\ new.pc = "sts" /\ new.at = run[r].at /\ new.used = run[r].used
        /\ new.exit = run[r].exit /\ new.command = run[r].command
    BY OwnRecord DEF Run
  <2>4. run[r].pc = "providers" /\ Progress(run[r]) /\ 0 # Nothing /\ 1 # Nothing
    BY OwnRecord DEF ReadProviders, At
  <2>5. Progress(new) /\ Unreported(new)
    BY <2>3, <2>4 DEF Progress, RightInput, RightCommand, Validated, Unreported,
                      FileSteps, AccessSteps, CompareSteps
  <2>6. QED
    BY <2>1, <2>2, <2>5, RecordKeeps
<1>4. QED
  BY <1>1, <1>2, <1>3

\* Behind the gate: the account preflight and the preflight end, status and
\* bootstrap have the configured account, and the comparison has two accounts.
LEMMA AfterGateKeeps ==
  ASSUME IInv, NEW r \in Runs, run[r].pc = "sts", AfterGate(r), UNCHANGED <<config, world>>
  PROVE  IInv'
<1> DEFINE x == run[r]
<1>1. /\ x \in Run /\ Progress(x) /\ x.command \in Commands /\ x.at \in Targets /\ x.exit = Nothing
      /\ 0 # Nothing /\ 1 # Nothing /\ run \in [Runs -> Run]
  BY OwnRecord DEF Progress, RightInput, RightCommand, AccessSteps
<1>2. CASE Mismatch(r)
  BY <1>2, RefuseKeeps DEF AfterGate
<1>3. CASE ~ Mismatch(r) /\ x.command \in {"accountPreflight", "preflight"}
  <2>1. Exit(r, 0) /\ x.command # "comparison"
    BY <1>3 DEF AfterGate
  <2>2. UNCHANGED <<topology, target, profile, files, edits, evidence>> /\ toolkit' = toolkit
    BY DEF config, world
  <2>3. toolkit \in [Accounts -> {"absent", "inProgress", "complete", "failed"}]
    BY DEF IInv, TypeOK
  <2>4. QED
    BY <2>1, <2>2, <2>3, ExitKeeps
<1>4. CASE ~ Mismatch(r) /\ x.command \in {"status", "bootstrap"}
  <2> DEFINE new == [x EXCEPT !.pc = "command"]
  <2>1. run' = [run EXCEPT ![r] = new]
    BY <1>1, <1>4 DEF AfterGate, Goto
  <2>2. new \in Run
    BY <1>1 DEF Run, PC
  <2>3. /\ new.pc = "command" /\ new.used = x.used /\ new.exit = x.exit /\ new.command = x.command
        /\ new.pin = x.pin /\ new.audit = x.audit
    BY <1>1 DEF Run
  <2>4. x.pin["audit"].account = x.audit
    BY <1>4 DEF Mismatch
  <2>5. Progress(new) /\ Unreported(new)
    BY <1>1, <1>4, <2>3, <2>4 DEF Progress, RightInput, RightCommand, Validated, Unreported,
                                  FileSteps, AccessSteps, CompareSteps
  <2>6. QED
    BY <2>1, <2>2, <2>5, RecordKeeps
<1>5. CASE ~ Mismatch(r) /\ x.command = "comparison" /\ x.at = "workload"
  <2> DEFINE new == [x EXCEPT !.at = "audit", !.pc = "lstat"]
  <2>1. run' = [run EXCEPT ![r] = new]
    BY <1>1, <1>5 DEF AfterGate
  <2>2. new \in Run
    BY <1>1 DEF Run, PC, Inputs, Targets
  <2>3. /\ new.pc = "lstat" /\ new.at = "audit" /\ new.used = x.used /\ new.exit = x.exit
        /\ new.command = x.command
    BY <1>1 DEF Run
  <2>4. Progress(new) /\ Unreported(new)
    BY <1>1, <2>3 DEF Progress, RightInput, RightCommand, Validated, Unreported,
                      FileSteps, AccessSteps, CompareSteps, Targets
  <2>5. QED
    BY <2>1, <2>2, <2>4, RecordKeeps
<1>6. CASE ~ Mismatch(r) /\ x.command = "comparison" /\ x.at = "audit"
  <2> DEFINE new == [x EXCEPT !.at = "workload", !.pc = "verify"]
  <2>1. run' = [run EXCEPT ![r] = new]
    BY <1>1, <1>6 DEF AfterGate
  <2>2. new \in Run
    BY <1>1 DEF Run, PC, Inputs, Targets
  <2>3. /\ new.pc = "verify" /\ new.at = "workload" /\ new.used = x.used /\ new.exit = x.exit
        /\ new.command = x.command /\ new.pin = x.pin
    BY <1>1 DEF Run
  <2>4. x.pin["workload"].account # x.pin["audit"].account
    BY <1>6 DEF Mismatch
  <2>5. Progress(new) /\ Unreported(new)
    BY <1>1, <1>6, <2>3, <2>4 DEF Progress, RightInput, RightCommand, Validated, Unreported,
                                  FileSteps, AccessSteps, CompareSteps, Targets
  <2>6. QED
    BY <2>1, <2>2, <2>5, RecordKeeps
<1>7. QED
  BY <1>1, <1>2, <1>3, <1>4, <1>5, <1>6 DEF Commands, Targets

LEMMA CallStsKeeps == ASSUME IInv, NEW r \in Runs, CallSts(r) PROVE IInv'
<1>1. run[r].pc = "sts" /\ (AfterGate(r) \/ Refuse(r)) /\ UNCHANGED <<config, world>>
  BY DEF CallSts, At
<1>2. QED
  BY <1>1, AfterGateKeeps, RefuseKeeps

LEMMA AccessKeeps == ASSUME IInv, NEW r \in Runs, Access(r) PROVE IInv'
BY LstatTargetKeeps, ReadTargetKeeps, ReadSettingsKeep, ReadProvidersKeeps, CallStsKeeps,
   RefusalKeeps DEF Access, CliIdentity

LEMMA ReadInputsKeeps == ASSUME IInv, NEW r \in Runs, ReadInputs(r) PROVE IInv'
BY LoadTopologyKeeps, OpenFileKeeps, CheckFileKeeps, ReadFileKeeps, RefusalKeeps DEF ReadInputs

-----------------------------------------------------------------------------
(* Behind the gate *)

LEMMA RunStatusKeeps == ASSUME IInv, NEW r \in Runs, RunStatus(r) PROVE IInv'
<1>1. UNCHANGED <<topology, target, profile, files, edits, evidence>> /\ toolkit' = toolkit
  BY DEF RunStatus, config, world
<1>2. toolkit \in [Accounts -> {"absent", "inProgress", "complete", "failed"}]
  BY DEF IInv, TypeOK
<1>3. run[r].command # "comparison" /\ (Exit(r, 0) \/ Exit(r, 1))
  BY DEF RunStatus
<1>4. QED
  BY <1>1, <1>2, <1>3, ExitKeeps

LEMMA StartBootstrapKeeps == ASSUME IInv, NEW r \in Runs, StartBootstrap(r) PROVE IInv'
<1> DEFINE x   == run[r]
           new == [x EXCEPT !.pc = "wait"]
<1>1. /\ x.pc = "command" /\ x.command = "bootstrap"
      /\ UNCHANGED <<topology, target, profile, files, edits, evidence>>
  BY DEF StartBootstrap, At, config
<1>2. PICK caller \in ProcessCallers :
        IF Bootstraps(r, caller)
        THEN /\ Goto(r, "wait")
             /\ toolkit' = [toolkit EXCEPT ![caller.account] = IF @ = "complete" THEN @ ELSE "inProgress"]
        ELSE Exit(r, 1) /\ UNCHANGED toolkit
  BY DEF StartBootstrap
<1>3. toolkit \in [Accounts -> {"absent", "inProgress", "complete", "failed"}]
  BY DEF IInv, TypeOK
<1>4. CASE ~ Bootstraps(r, caller)
  BY <1>1, <1>2, <1>3, <1>4, ExitKeeps
<1>5. CASE Bootstraps(r, caller)
  <2>1. toolkit' \in [Accounts -> {"absent", "inProgress", "complete", "failed"}]
    BY <1>2, <1>3, <1>5
  <2>2. RunStep(r, new)
    BY <1>1, <1>2, <1>5, <2>1, OwnRecord DEF RunStep, Goto
  <2>3. new \in Run
    BY OwnRecord DEF Run, PC
  <2>4. new.pc = "wait" /\ new.used = x.used /\ new.exit = x.exit /\ new.command = x.command
    BY OwnRecord DEF Run
  <2>5. Progress(x) /\ 0 # Nothing /\ 1 # Nothing
    BY OwnRecord
  <2>6. Progress(new) /\ Unreported(new)
    BY <1>1, <2>4, <2>5 DEF Progress, RightInput, RightCommand, Validated, Unreported,
                            FileSteps, AccessSteps, CompareSteps
  <2>7. QED
    BY <2>2, <2>3, <2>6, RunStepKeeps
<1>6. QED
  BY <1>4, <1>5

LEMMA BootstrapEndsKeeps ==
  ASSUME IInv, NEW r \in Runs, BootstrapReturns(r) \/ BootstrapKilled(r) PROVE IInv'
<1>1. UNCHANGED <<topology, target, profile, files, edits, evidence>> /\ toolkit' = toolkit
  BY DEF BootstrapReturns, BootstrapKilled, config, world
<1>2. toolkit \in [Accounts -> {"absent", "inProgress", "complete", "failed"}]
  BY DEF IInv, TypeOK
<1>3. run[r].pc = "wait" /\ (Exit(r, 0) \/ Exit(r, 1))
  BY DEF BootstrapReturns, BootstrapKilled, At
<1>4. run[r].command # "comparison"
  BY <1>3, OwnRecord DEF Progress, RightCommand
<1>5. QED
  BY <1>1, <1>2, <1>3, <1>4, ExitKeeps

\* The record after the SDK's identity has been compared.
Verified(x, sdk, next) == [x EXCEPT !.sdk = sdk, !.at = "audit", !.pc = next]

LEMMA VerifiedIsRun ==
  ASSUME NEW x \in Run, NEW sdk \in [Targets -> Principals \cup {Nothing}], NEW next \in PC
  PROVE  LET new == Verified(x, sdk, next)
         IN  /\ new \in Run
             /\ new.sdk = sdk /\ new.at = "audit" /\ new.pc = next /\ new.pin = x.pin
             /\ new.used = x.used /\ new.exit = x.exit /\ new.command = x.command
BY DEF Verified, Run, Inputs, Targets

\* The SDK's account is compared with the pin of the same target.
LEMMA VerifySdkKeeps == ASSUME IInv, NEW r \in Runs, VerifySdk(r) PROVE IInv'
<1> DEFINE x == run[r]
<1>1. /\ x.pc = "verify" /\ Progress(x) /\ 0 # Nothing /\ 1 # Nothing /\ x.at \in Targets
      /\ UNCHANGED <<config, world>>
  BY OwnRecord DEF VerifySdk, At, Progress, RightInput
<1>2. CASE Refuse(r)
  BY <1>1, <1>2, RefuseKeeps
<1>3. CASE Exit(r, 3)
  <2>1. UNCHANGED <<topology, target, profile, files, edits, evidence>> /\ toolkit' = toolkit
    BY <1>1 DEF config, world
  <2>2. toolkit \in [Accounts -> {"absent", "inProgress", "complete", "failed"}]
    BY DEF IInv, TypeOK
  <2>3. QED
    BY <1>3, <2>1, <2>2, ExitKeeps
<1>4. ASSUME NEW caller \in Callers(x.at), caller.account = x.pin[x.at].account,
             run' = [run EXCEPT ![r].sdk[x.at] = caller, ![r].at = "audit",
                                ![r].pc = IF x.at = "workload" THEN "verify" ELSE "logins"]
      PROVE  IInv'
  <2> DEFINE sdk  == [x.sdk EXCEPT ![x.at] = caller]
             next == IF x.at = "workload" THEN "verify" ELSE "logins"
             new  == Verified(x, sdk, next)
  <2>1. run' = [run EXCEPT ![r] = new]
    BY <1>4, OwnRecord DEF Verified
  <2>2. sdk \in [Targets -> Principals \cup {Nothing}] /\ sdk[x.at] = caller
        /\ \A t \in Targets : t # x.at => sdk[t] = x.sdk[t]
    <3>1. caller \in Principals
      BY <1>1, <1>4, CallersArePrincipals DEF IInv
    <3>2. x.sdk \in [Targets -> Principals \cup {Nothing}]
      BY OwnRecord DEF Run
    <3>3. QED
      BY <1>1, <3>1, <3>2
  <2>3. next \in PC
    BY DEF PC
  <2>4. /\ new \in Run
        /\ new.sdk = sdk /\ new.at = "audit" /\ new.pc = next /\ new.pin = x.pin
        /\ new.used = x.used /\ new.exit = x.exit /\ new.command = x.command
    BY <2>2, <2>3, OwnRecord, VerifiedIsRun
  <2> HIDE DEF new, sdk
  <2>5. CASE x.at = "workload"
    <3>1. new.pc = "verify" /\ sdk["workload"] = caller
      BY <2>2, <2>4, <2>5
    <3>2. Progress(new) /\ Unreported(new)
      BY <1>1, <1>4, <2>4, <2>5, <3>1 DEF Progress, RightInput, RightCommand, Validated, Unreported,
                                          FileSteps, AccessSteps, CompareSteps, Targets
    <3>3. QED
      BY <1>1, <2>1, <2>4, <3>2, RecordKeeps
  <2>6. CASE x.at = "audit"
    <3>1. new.pc = "logins" /\ sdk["audit"] = caller /\ sdk["workload"] = x.sdk["workload"]
      BY <2>2, <2>4, <2>6 DEF Targets
    <3>2. \A t \in Targets : sdk[t].account = x.pin[t].account
      BY <1>1, <1>4, <2>6, <3>1 DEF Progress, Validated, Targets
    <3>3. Progress(new) /\ Unreported(new)
      BY <1>1, <2>4, <3>1, <3>2 DEF Progress, RightInput, RightCommand, Validated, Unreported,
                                    FileSteps, AccessSteps, CompareSteps
    <3>4. QED
      BY <1>1, <2>1, <2>4, <3>3, RecordKeeps
  <2>7. QED
    BY <1>1, <2>5, <2>6 DEF Targets
<1>5. QED
  BY <1>2, <1>3, <1>4 DEF VerifySdk

LEMMA CompareKeeps == ASSUME IInv, NEW r \in Runs, Compare(r) PROVE IInv'
<1> DEFINE x   == run[r]
           new == [x EXCEPT !.pc = "create"]
<1>1. x.pc = "logins" /\ Progress(x) /\ 0 # Nothing /\ 1 # Nothing /\ UNCHANGED <<config, world>>
  BY OwnRecord DEF Compare, At
<1>2. CASE Exit(r, 3)
  <2>1. UNCHANGED <<topology, target, profile, files, edits, evidence>> /\ toolkit' = toolkit
    BY <1>1 DEF config, world
  <2>2. toolkit \in [Accounts -> {"absent", "inProgress", "complete", "failed"}]
    BY DEF IInv, TypeOK
  <2>3. QED
    BY <1>2, <2>1, <2>2, ExitKeeps
<1>3. CASE Goto(r, "create")
  <2>1. run' = [run EXCEPT ![r] = new]
    BY <1>3, OwnRecord DEF Goto
  <2>2. new \in Run
    BY OwnRecord DEF Run, PC
  <2>3. /\ new.pc = "create" /\ new.sdk = x.sdk /\ new.pin = x.pin /\ new.used = x.used
        /\ new.exit = x.exit /\ new.command = x.command
    BY OwnRecord DEF Run
  <2>4. Progress(new) /\ Unreported(new)
    BY <1>1, <2>3 DEF Progress, RightInput, RightCommand, Validated, Unreported,
                      FileSteps, AccessSteps, CompareSteps
  <2>5. QED
    BY <1>1, <2>1, <2>2, <2>4, RecordKeeps
<1>4. QED
  BY <1>2, <1>3 DEF Compare

\* Only the run that finds no file creates it, and only that run writes it.
LEMMA CreateEvidenceKeeps == ASSUME IInv, NEW r \in Runs, CreateEvidence(r) PROVE IInv'
<1> DEFINE x   == run[r]
           new == [x EXCEPT !.pc = "write"]
<1>1. /\ x.pc = "create" /\ Progress(x) /\ 0 # Nothing /\ 1 # Nothing /\ x.exit = Nothing
      /\ UNCHANGED <<topology, target, profile, files, edits>> /\ toolkit' = toolkit
  BY OwnRecord DEF CreateEvidence, At, config, Progress, RightCommand
<1>2. CASE Exit(r, 3) /\ evidence' = evidence
  <2>1. toolkit \in [Accounts -> {"absent", "inProgress", "complete", "failed"}]
    BY DEF IInv, TypeOK
  <2>2. QED
    BY <1>1, <1>2, <2>1, ExitKeeps
<1>3. CASE /\ evidence = Nothing /\ evidence' = [owner |-> r, complete |-> FALSE]
           /\ Goto(r, "write")
  <2>1. evidence' = [owner |-> r, complete |-> FALSE] /\ run' = [run EXCEPT ![r] = new]
    BY <1>3, OwnRecord DEF Goto
  <2>2. new \in Run
    BY OwnRecord DEF Run, PC
  <2>3. /\ new.pc = "write" /\ new.sdk = x.sdk /\ new.pin = x.pin /\ new.used = x.used
        /\ new.exit = x.exit /\ new.command = x.command
    BY OwnRecord DEF Run
  <2>4. Progress(new)
    BY <1>1, <2>3 DEF Progress, RightInput, RightCommand, Validated, FileSteps, AccessSteps, CompareSteps
  <2>5. \A s \in Runs : run[s].pc # "write" /\ ~ (run[s].command = "comparison" /\ run[s].exit \in {0, 1})
    <3>1. \A s \in Runs, complete \in BOOLEAN : evidence # [owner |-> s, complete |-> complete]
      BY <1>3, NothingAssumption DEF Evidence
    <3>2. QED
      BY <3>1 DEF IInv, Writing, ReportedMeansEvidence
  <2>6. \A s \in Runs : s # r => run'[s] = run[s]
    BY <2>1, OwnRecord
  <2>7. run'[r] = new
    BY <2>1, OwnRecord
  <2>8. TypeOK'
    <3>1. run' \in [Runs -> Run]
      BY <2>1, <2>2, OwnRecord
    <3>2. QED
      BY <1>1, <2>1, <3>1 DEF IInv, TypeOK, Evidence
  <2> HIDE DEF new
  <2>9. \A s \in Runs : (Progress(run[s]) /\ Writing(s))'
    BY <2>1, <2>4, <2>5, <2>6, <2>7 DEF IInv, Writing
  <2>10. ReportedMeansEvidence'
    BY <1>1, <2>3, <2>5, <2>6, <2>7 DEF ReportedMeansEvidence
  <2>11. QED
    BY <2>8, <2>9, <2>10 DEF IInv
<1>4. QED
  BY <1>2, <1>3 DEF CreateEvidence

LEMMA WriteEvidenceKeeps == ASSUME IInv, NEW r \in Runs, WriteEvidence(r) PROVE IInv'
<1>1. /\ run[r].pc = "write" /\ evidence = [owner |-> r, complete |-> FALSE]
      /\ UNCHANGED <<topology, target, profile, files, edits>> /\ toolkit' = toolkit
      /\ toolkit \in [Accounts -> {"absent", "inProgress", "complete", "failed"}]
  BY DEF WriteEvidence, At, config, IInv, Writing, TypeOK
<1>2. CASE Exit(r, 3) /\ evidence' = evidence
  BY <1>1, <1>2, ExitKeeps
<1>3. ASSUME evidence' = [owner |-> r, complete |-> TRUE], NEW code \in {0, 1}, Exit(r, code)
      PROVE  IInv'
  <2>1. run' = [run EXCEPT ![r] = Ended(r, code)]
    BY <1>3 DEF Exit, Ended
  <2>2. /\ Ended(r, code) \in Run /\ Progress(Ended(r, code)) /\ Ended(r, code).pc = "done"
    BY OwnRecord, EndedIsRun
  <2>3. \A s \in Runs : s # r => run[s].pc # "write"
                              /\ ~ (run[s].command = "comparison" /\ run[s].exit \in {0, 1})
    BY <1>1 DEF IInv, Writing, ReportedMeansEvidence
  <2>4. \A s \in Runs : s # r => run'[s] = run[s]
    BY <2>1, OwnRecord
  <2>5. run'[r] = Ended(r, code)
    BY <2>1, OwnRecord
  <2>6. TypeOK'
    <3>1. run' \in [Runs -> Run]
      BY <2>1, <2>2, OwnRecord
    <3>2. QED
      BY <1>1, <1>3, <3>1 DEF IInv, TypeOK, Evidence
  <2>7. \A s \in Runs : (Progress(run[s]) /\ Writing(s))'
    BY <2>2, <2>3, <2>4, <2>5 DEF IInv, Writing
  <2>8. ReportedMeansEvidence'
    BY <1>3, <2>3, <2>4 DEF ReportedMeansEvidence
  <2>9. QED
    BY <2>6, <2>7, <2>8 DEF IInv
<1>4. QED
  BY <1>2, <1>3 DEF WriteEvidence

LEMMA StepKeeps == ASSUME IInv, NEW r \in Runs, Step(r) PROVE IInv'
BY ReadInputsKeeps, AccessKeeps, RunStatusKeeps, StartBootstrapKeeps, BootstrapEndsKeeps,
   VerifySdkKeeps, CompareKeeps, CreateEvidenceKeeps, WriteEvidenceKeeps DEF Step

LEMMA InterruptedKeeps == ASSUME IInv, NEW r \in Runs, Interrupted(r) PROVE IInv'
<1>1. UNCHANGED <<topology, target, profile, files, edits, evidence>> /\ toolkit' = toolkit
  BY DEF Interrupted, config, world
<1>2. toolkit \in [Accounts -> {"absent", "inProgress", "complete", "failed"}]
  BY DEF IInv, TypeOK
<1>3. Exit(r, Nothing) /\ Nothing \notin {0, 1}
  BY NothingAssumption DEF Interrupted
<1>4. QED
  BY <1>1, <1>2, <1>3, ExitKeeps

-----------------------------------------------------------------------------
(* CloudFormation and the operator's other terminal leave every run alone. *)

LEMMA OthersKeep ==
  ASSUME IInv, run' = run, evidence' = evidence, TypeOK' PROVE IInv'
BY DEF IInv, Writing, ReportedMeansEvidence

LEMMA ToolkitEndsKeeps == ASSUME IInv, NEW a \in Accounts, ToolkitEnds(a) PROVE IInv'
<1>1. toolkit' \in [Accounts -> {"absent", "inProgress", "complete", "failed"}]
  BY DEF ToolkitEnds, IInv, TypeOK
<1>2. TypeOK'
  BY <1>1 DEF ToolkitEnds, config, IInv, TypeOK
<1>3. QED
  BY <1>2, OthersKeep DEF ToolkitEnds

LEMMA EditsKeep == ASSUME IInv, Edits PROVE IInv'
<1>1. /\ run' = run /\ evidence' = evidence /\ toolkit' = toolkit /\ edits' \in 0..MaxEdits
  <2>1. Edit
    BY DEF Edits, EditTopology, EditTarget, EditProfile, ReplaceFile
  <2>2. QED
    BY <2>1, EditsAssumption DEF Edit, world, IInv, TypeOK
<1>2. topology' \in Topology
  BY DEF Edits, EditTopology, EditTarget, EditProfile, ReplaceFile, IInv, TypeOK
<1>3. target' \in [Targets -> TargetFile]
  BY DEF Edits, EditTopology, EditTarget, EditProfile, ReplaceFile, IInv, TypeOK
<1>4. profile' \in [Targets -> Profile]
  BY DEF Edits, EditTopology, EditTarget, EditProfile, ReplaceFile, IInv, TypeOK
<1>5. files' \in [PrivateFiles -> File]
  <2>1. CASE files' = files
    BY <2>1 DEF IInv, TypeOK
  <2>2. CASE \E f \in PrivateFiles : ReplaceFile(f)
    BY <1>1, <2>2 DEF ReplaceFile, File, IInv, TypeOK
  <2>3. QED
    BY <2>1, <2>2 DEF Edits, EditTopology, EditTarget, EditProfile
<1>6. TypeOK'
  BY <1>1, <1>2, <1>3, <1>4, <1>5 DEF IInv, TypeOK
<1>7. QED
  BY <1>1, <1>6, OthersKeep

LEMMA NextKeeps == IInv /\ [Next]_vars => IInv'
<1> SUFFICES ASSUME IInv, [Next]_vars PROVE IInv'
  OBVIOUS
<1>1. CASE \E r \in Runs : Start(r) \/ ShowUsage(r) \/ RejectArguments(r) \/ Step(r) \/ Interrupted(r)
  BY <1>1, StartKeeps, NoCommandKeeps, StepKeeps, InterruptedKeeps
<1>2. CASE \E a \in Accounts : ToolkitEnds(a)
  BY <1>2, ToolkitEndsKeeps
<1>3. CASE Edits
  BY <1>3, EditsKeep
<1>4. CASE UNCHANGED vars
  <2>1. TypeOK' /\ run' = run /\ evidence' = evidence
    BY <1>4 DEF vars, config, world, IInv, TypeOK
  <2>2. QED
    BY <2>1, OthersKeep
<1>5. QED
  BY <1>1, <1>2, <1>3, <1>4 DEF Next

LEMMA Invariance == Spec => []IInv
BY InitIInv, NextKeeps, PTL DEF Spec

-----------------------------------------------------------------------------
(* Theorems *)

\* The operator's files, the toolkits, the evidence and the runs always have
\* their types.
THEOREM TypeCorrect == Spec => []TypeOK
<1>1. IInv => TypeOK
  BY DEF IInv
<1>2. QED
  BY <1>1, Invariance, PTL

\* readPrivateFile checks and reads one descriptor: however often the file at
\* the path is replaced, only contents of private files are used.
THEOREM OnlyPrivateFilesAreUsed == Spec => []UsedFilesWerePrivate
<1>1. IInv => UsedFilesWerePrivate
  BY DEF IInv, Progress, RightInput, UsedFilesWerePrivate
<1>2. QED
  BY <1>1, Invariance, PTL

\* When logins are sent, the SDK has reached the accounts that the targets pin,
\* and they are two, whatever was edited between the gate and the SDK's calls.
THEOREM LoginsAreSeparated == Spec => []LoginsReachTwoAccounts
<1>1. IInv => LoginsReachTwoAccounts
  <2> SUFFICES ASSUME IInv, NEW r \in Runs, run[r].pc \in {"logins", "create", "write"}
               PROVE  /\ \A t \in Targets : run[r].sdk[t].account = run[r].pin[t].account
                      /\ run[r].sdk["workload"].account # run[r].sdk["audit"].account
    BY DEF LoginsReachTwoAccounts
  <2>1. Validated(run[r])
    BY DEF IInv, Progress
  <2>2. QED
    BY <2>1 DEF Validated, CompareSteps, Targets
<1>2. QED
  BY <1>1, Invariance, PTL

\* O_EXCL makes the output file one run's: a comparison that reports a verdict
\* has its own evidence there, also when others were given the same path.
THEOREM ReportsHaveEvidence == Spec => []ReportedMeansEvidence
<1>1. IInv => ReportedMeansEvidence
  BY DEF IInv
<1>2. QED
  BY <1>1, Invariance, PTL

-----------------------------------------------------------------------------
(* Bootstrap *)

LEMMA OnlyBootstrapTouchesToolkit ==
  ASSUME NEW r \in Runs,
         Start(r) \/ ShowUsage(r) \/ RejectArguments(r) \/ Step(r) \/ Interrupted(r),
         ~ StartBootstrap(r)
  PROVE  toolkit' = toolkit
<1>1. CASE Start(r) \/ ShowUsage(r) \/ RejectArguments(r) \/ Interrupted(r)
  BY <1>1 DEF Start, ShowUsage, RejectArguments, Interrupted, world
<1>2. CASE ReadInputs(r)
  BY <1>2 DEF ReadInputs, RejectEndpointOverrides, LoadTopology, TopologyRefused, OpenFile, CheckFile,
              ReadFile, FileRefused, QueueElsewhere, RefuseAt, world
<1>3. CASE Access(r)
  BY <1>3 DEF Access, CliIdentity, TargetUnresolved, LstatTarget, TargetFieldRefused, ConfigFilesUnresolved,
              ReadTarget, CliVersionRefused, ReadAccount, ReadRole, ReadProviders, RegionRefused, CallSts,
              ProcessFails, RefuseAt, world
<1>4. CASE \/ RunStatus(r) \/ BootstrapReturns(r) \/ BootstrapKilled(r)
           \/ VerifySdk(r) \/ Compare(r) \/ CreateEvidence(r) \/ WriteEvidence(r)
  BY <1>4 DEF RunStatus, BootstrapReturns, BootstrapKilled, VerifySdk, Compare, CreateEvidence,
              WriteEvidence, world
<1>5. QED
  BY <1>1, <1>2, <1>3, <1>4 DEF Step

\* A run writes no record but its own.
LEMMA RunsAreSeparate ==
  ASSUME IInv, NEW s \in Runs, NEW r \in Runs, s # r,
         Start(s) \/ ShowUsage(s) \/ RejectArguments(s) \/ Step(s) \/ Interrupted(s)
  PROVE  run'[r] = run[r]
<1>1. run \in [Runs -> Run]
  BY OwnRecord
<1>2. ASSUME NEW code, Exit(s, code) PROVE run'[r] = run[r]
  BY <1>1, <1>2 DEF Exit
<1>3. ASSUME Refuse(s) PROVE run'[r] = run[r]
  BY <1>2, <1>3 DEF Refuse
<1>4. ASSUME NEW pc, Goto(s, pc) PROVE run'[r] = run[r]
  BY <1>1, <1>4 DEF Goto
<1>5. CASE Start(s) \/ ShowUsage(s) \/ RejectArguments(s) \/ Interrupted(s)
  BY <1>1, <1>2, <1>5 DEF Start, ShowUsage, RejectArguments, Interrupted
<1>6. CASE ReadInputs(s)
  BY <1>1, <1>3, <1>4, <1>6 DEF ReadInputs, RejectEndpointOverrides, LoadTopology, TopologyRefused, OpenFile,
              CheckFile, ReadFile, FileRefused, QueueElsewhere, RefuseAt
<1>7. CASE Access(s)
  <2>1. ASSUME AfterGate(s), At(s, "sts") PROVE run'[r] = run[r]
    <3>1. run[s].command \in Commands /\ run[s].at \in Targets
      BY <2>1, OwnRecord DEF At, Progress, RightInput, RightCommand, AccessSteps
    <3>2. \/ Refuse(s) \/ Exit(s, 0) \/ Goto(s, "command")
          \/ run' = [run EXCEPT ![s].at = "audit", ![s].pc = "lstat"]
          \/ run' = [run EXCEPT ![s].at = "workload", ![s].pc = "verify"]
      BY <2>1, <3>1 DEF AfterGate, Commands, Targets
    <3>3. QED
      BY <1>1, <1>2, <1>3, <1>4, <3>2
  <2>2. QED
    BY <1>1, <1>3, <1>4, <1>7, <2>1 DEF Access, CliIdentity, TargetUnresolved, LstatTarget,
              TargetFieldRefused, ConfigFilesUnresolved, ReadTarget, CliVersionRefused, ReadAccount, ReadRole,
              ReadProviders, RegionRefused, CallSts, ProcessFails, RefuseAt
<1>8. CASE \/ RunStatus(s) \/ StartBootstrap(s) \/ BootstrapReturns(s) \/ BootstrapKilled(s)
           \/ VerifySdk(s) \/ Compare(s) \/ CreateEvidence(s) \/ WriteEvidence(s)
  BY <1>1, <1>2, <1>3, <1>4, <1>8 DEF RunStatus, StartBootstrap, BootstrapReturns, BootstrapKilled,
              VerifySdk, Compare, CreateEvidence, WriteEvidence
<1>9. QED
  BY <1>5, <1>6, <1>7, <1>8 DEF Step

LEMMA WaitEnds ==
  ASSUME IInv, NEW r \in Runs, At(r, "wait"),
         Start(r) \/ ShowUsage(r) \/ RejectArguments(r) \/ Step(r) \/ Interrupted(r)
  PROVE  BootstrapReturns(r) \/ BootstrapKilled(r) \/ Interrupted(r)
<1>1. ~ (Start(r) \/ ShowUsage(r) \/ RejectArguments(r))
  BY DEF Start, ShowUsage, RejectArguments, At
<1>2. ~ ReadInputs(r)
  BY DEF ReadInputs, RejectEndpointOverrides, LoadTopology, TopologyRefused, OpenFile, CheckFile,
         ReadFile, FileRefused, QueueElsewhere, RefuseAt, At
<1>3. ~ Access(r)
  BY DEF Access, CliIdentity, TargetUnresolved, LstatTarget, TargetFieldRefused, ConfigFilesUnresolved,
         ReadTarget, CliVersionRefused, ReadAccount, ReadRole, ReadProviders, RegionRefused, CallSts,
         ProcessFails, RefuseAt, At
<1>4. ~ (RunStatus(r) \/ StartBootstrap(r) \/ VerifySdk(r) \/ Compare(r) \/ CreateEvidence(r) \/ WriteEvidence(r))
  BY DEF RunStatus, StartBootstrap, VerifySdk, Compare, CreateEvidence, WriteEvidence, At
<1>5. QED
  BY <1>1, <1>2, <1>3, <1>4 DEF Step

\* cdk bootstrap names the configured account, and the run that starts it has
\* found its validated target to be that account: CDKToolkit is created nowhere
\* else, whatever is edited meanwhile.
THEOREM BootstrapStaysInAuditAccount == Spec => BootstrapsOnlyAuditAccount
<1>1. ASSUME IInv, [Next]_vars, NEW a \in Accounts, toolkit[a] # "inProgress", toolkit'[a] = "inProgress"
      PROVE  \E r \in Runs : /\ At(r, "command") /\ run[r].audit = a
                             /\ run[r].pin["audit"].account = a
  <2>1. toolkit \in [Accounts -> {"absent", "inProgress", "complete", "failed"}]
    BY <1>1 DEF IInv, TypeOK
  <2>2. ~ UNCHANGED vars /\ ~ Edits
    BY <1>1 DEF vars, world, Edits, EditTopology, EditTarget, EditProfile, ReplaceFile, Edit
  <2>3. ASSUME NEW b \in Accounts, ToolkitEnds(b) PROVE FALSE
    BY <1>1, <2>1, <2>3 DEF ToolkitEnds
  <2>4. PICK r \in Runs : StartBootstrap(r)
    BY <1>1, <2>2, <2>3, OnlyBootstrapTouchesToolkit DEF Next
  <2>5. PICK caller \in ProcessCallers :
          IF Bootstraps(r, caller)
          THEN /\ Goto(r, "wait")
               /\ toolkit' = [toolkit EXCEPT ![caller.account] = IF @ = "complete" THEN @ ELSE "inProgress"]
          ELSE Exit(r, 1) /\ UNCHANGED toolkit
    BY <2>4 DEF StartBootstrap
  <2>6. caller.account = run[r].audit /\ caller.account = a
    BY <1>1, <2>1, <2>5 DEF Bootstraps
  <2>7. At(r, "command") /\ run[r].pin["audit"].account = run[r].audit
    BY <1>1, <2>4 DEF StartBootstrap, At, IInv, Progress, Validated
  <2>8. QED
    BY <2>6, <2>7
<1>2. IInv /\ [Next]_vars =>
        [\A a \in Accounts : toolkit[a] # "inProgress" /\ toolkit'[a] = "inProgress" =>
           \E r \in Runs : /\ At(r, "command") /\ run[r].audit = a
                           /\ run[r].pin["audit"].account = a]_vars
  BY <1>1
<1>3. QED
  BY <1>2, Invariance, PTL DEF Spec, BootstrapsOnlyAuditAccount

\* A killed cdk process is never taken for one that succeeded: a run that waits
\* ends with exit code 0 only when the bootstrap is complete.
THEOREM ReportedBootstrapIsComplete == Spec => CompletedBootstrapIsComplete
<1>1. ASSUME IInv, [Next]_vars, NEW r \in Runs, At(r, "wait"), run'[r].exit = 0
      PROVE  toolkit[run[r].audit] = "complete"
  <2>1. run \in [Runs -> Run] /\ run[r].exit = Nothing /\ Nothing # 0
    BY <1>1, OwnRecord DEF At, Progress, RightCommand
  <2>2. run'[r] # run[r]
    BY <1>1, <2>1
  <2>3. ~ UNCHANGED vars /\ ~ Edits /\ ~ \E a \in Accounts : ToolkitEnds(a)
    BY <2>2 DEF vars, Edits, EditTopology, EditTarget, EditProfile, ReplaceFile, Edit, ToolkitEnds
  <2>4. PICK s \in Runs : Start(s) \/ ShowUsage(s) \/ RejectArguments(s) \/ Step(s) \/ Interrupted(s)
    BY <1>1, <2>3 DEF Next
  <2>5. s = r
    BY <1>1, <2>2, <2>4, RunsAreSeparate
  <2>6. BootstrapReturns(r) \/ BootstrapKilled(r) \/ Interrupted(r)
    BY <1>1, <2>4, <2>5, WaitEnds
  <2>7. ASSUME NEW code \in {1, Nothing}, Exit(r, code) PROVE FALSE
    <3>1. run'[r] = Ended(r, code)
      BY <2>1, <2>7 DEF Exit, Ended
    <3>2. run'[r].exit = code
      BY <3>1, <1>1, OwnRecord, EndedIsRun
    <3>3. QED
      BY <1>1, <2>1, <3>2
  <2>8. QED
    BY <2>6, <2>7 DEF BootstrapReturns, BootstrapKilled, Interrupted
<1>2. IInv /\ [Next]_vars =>
        [\A r \in Runs : At(r, "wait") /\ run'[r].exit = 0 => toolkit[run[r].audit] = "complete"]_vars
  BY <1>1
<1>3. QED
  BY <1>2, Invariance, PTL DEF Spec, CompletedBootstrapIsComplete
=============================================================================
