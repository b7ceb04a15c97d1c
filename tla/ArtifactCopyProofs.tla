------------------------- MODULE ArtifactCopyProofs -------------------------
(***************************************************************************)
(* Proofs about ArtifactCopy, for every set of digests and runs: type      *)
(* correctness, that a copy which reported success is kept for good, and   *)
(* that only inspected images enter the destination, late puts included.   *)
(*                                                                         *)
(* CopiedIsRetained is not inductive: what protects a copied manifest from *)
(* the lifecycle rule is its retention tag (Tagged), which it has because  *)
(* a copying run gets to the destination check only through an accepted    *)
(* put (Reached).  OnlyInspectedImagesEnter rests on what is known of the  *)
(* run whose put is still on its way (Inspected).                          *)
(***************************************************************************)
EXTENDS ArtifactCopy, TLAPS

(* Every digest a tag names is stored. *)
TagsStored == \A d \in Digests : tag[d] # Nothing => tag[d] \in stored

(* An accepted put has left its digest under its retention tag. *)
Tagged(r) == run[r].put = "accepted" => tag[run[r].digest] = run[r].digest

(* A copying run checks the destination, or succeeds, after an accepted put. *)
Reached(r) ==
    run[r].copies /\ (run[r].pc = "destination" \/ Succeeded(r)) => run[r].put = "accepted"

(* What a run has done so far. *)
Inspected(r) ==
    /\ run[r].pc # "done" => run[r].exit = Nothing
    /\ run[r].pc \in {"idle", "source"} => run[r].put = "none"
    /\ run[r].pc \notin {"idle", "done"} \/ run[r].put # "none" \/ Succeeded(r)
          => run[r].digest \in Digests
    /\ run[r].pc \in {"copy", "copying"} \/ run[r].put # "none"
          => /\ run[r].copies
             /\ run[r].digest \notin Indexes
             /\ run[r].exit \notin {ExitCode["input"], ExitCode["source"]}

IInv ==
    /\ TypeOK
    /\ TagsStored
    /\ \A r \in Runs : Tagged(r) /\ Reached(r) /\ Inspected(r)

(* The exit codes are distinct numbers, and none of them is Nothing. *)
LEMMA ExitCodes ==
    /\ ExitCode["success"] = 0 /\ ExitCode["internal"] = 1 /\ ExitCode["input"] = 2 /\ ExitCode["source"] = 3
    /\ ExitCode["copy"] = 4 /\ ExitCode["destination"] = 5
    /\ Nothing \notin {0, 1, 2, 3, 4, 5}
    /\ Nothing \notin Digests
BY NothingAssumption DEF ExitCode

(* A step by which one run changes its own record and nothing else does. *)
RunStep(r, new) ==
    /\ run' = [run EXCEPT ![r] = new]
    /\ UNCHANGED <<source, stored, tag>>

(* Such a step keeps the invariant when the new record satisfies it. *)
LEMMA RunStepKeeps ==
    ASSUME IInv, NEW r \in Runs, NEW new \in RunStates, RunStep(r, new),
           (Tagged(r) /\ Reached(r) /\ Inspected(r))'
    PROVE  IInv'
<1>1. TypeOK'
  BY DEF IInv, TypeOK, RunStep
<1>2. TagsStored'
  BY DEF IInv, TagsStored, RunStep
<1>3. ASSUME NEW s \in Runs PROVE (Tagged(s) /\ Reached(s) /\ Inspected(s))'
  <2>1. CASE s = r
    BY <2>1
  <2>2. CASE s # r
    <3>1. run'[s] = run[s] /\ tag' = tag
      BY <2>2 DEF RunStep, IInv, TypeOK
    <3>2. QED
      BY <3>1 DEF IInv, Tagged, Reached, Inspected, Succeeded
  <2>3. QED
    BY <2>1, <2>2
<1>4. QED
  BY <1>1, <1>2, <1>3 DEF IInv

LEMMA InitIInv == Init => IInv
<1> SUFFICES ASSUME Init PROVE IInv
  OBVIOUS
<1>1. IdleRun \in RunStates
  BY DEF IdleRun, RunStates
<1>2. TypeOK
  BY <1>1 DEF Init, TypeOK
<1>3. TagsStored
  BY DEF Init, TagsStored
<1>4. ASSUME NEW r \in Runs PROVE Tagged(r) /\ Reached(r) /\ Inspected(r)
  <2>1. run[r] = IdleRun
    BY DEF Init
  <2>2. run[r].pc = "idle" /\ run[r].put = "none" /\ run[r].exit = Nothing /\ ~ run[r].copies
    BY <2>1 DEF IdleRun
  <2>3. Nothing # ExitCode["success"]
    BY ExitCodes DEF ExitCode
  <2>4. QED
    BY <2>2, <2>3 DEF Tagged, Reached, Inspected, Succeeded
<1>5. QED
  BY <1>2, <1>3, <1>4 DEF IInv

-----------------------------------------------------------------------------
(* The steps of a run.  Each of them writes one record of run. *)

LEMMA RunNextKeeps == ASSUME IInv, NEW r \in Runs, RunNext(r) PROVE IInv'
<1> DEFINE old == run[r]
<1> USE ExitCodes
<1>1. /\ old \in RunStates /\ Tagged(r) /\ Reached(r) /\ Inspected(r)
      /\ run \in [Runs -> RunStates]
  BY DEF IInv, TypeOK
<1>2. CASE Accept(r)
  <2>1. PICK request \in Requests :
           IF Validated(request)
           THEN run' = [run EXCEPT ![r].pc = "source",
                                   ![r].copies = ShouldCopy(request),
                                   ![r].digest = request.expected]
           ELSE Fails(r, "input")
    BY <1>2 DEF Accept
  <2>2. CASE Validated(request)
    <3> DEFINE new == [old EXCEPT !.pc = "source", !.copies = ShouldCopy(request),
                                  !.digest = request.expected]
    <3>1. ShouldCopy(request) \in BOOLEAN /\ request.expected \in Digests
      BY DEF ShouldCopy, Requests
    <3>2. new \in RunStates
      BY <3>1, <1>1 DEF RunStates
    <3>3. RunStep(r, new) /\ run'[r] = new
      BY <1>1, <1>2, <2>1, <2>2 DEF RunStep, Accept
    <3>4. new.pc = "source" /\ new.put = "none" /\ new.exit = Nothing /\ new.digest \in Digests
      BY <1>1, <1>2, <3>1 DEF RunStates, Inspected, Accept
    <3>5. (Tagged(r) /\ Reached(r) /\ Inspected(r))'
      BY <3>3, <3>4 DEF Tagged, Reached, Inspected, Succeeded
    <3>6. QED
      BY <3>2, <3>3, <3>5, RunStepKeeps
  <2>3. CASE ~ Validated(request)
    <3> DEFINE new == [old EXCEPT !.pc = "done", !.exit = ExitCode["input"]]
    <3>1. new \in RunStates
      BY <1>1 DEF RunStates, ExitCode
    <3>2. RunStep(r, new) /\ run'[r] = new
      BY <1>1, <1>2, <2>1, <2>3 DEF RunStep, Accept, Fails
    <3>3. new.pc = "done" /\ new.put = "none" /\ new.exit = 2
      BY <1>1, <1>2 DEF RunStates, Inspected, Accept, ExitCode
    <3>4. (Tagged(r) /\ Reached(r) /\ Inspected(r))'
      BY <3>2, <3>3 DEF Tagged, Reached, Inspected, Succeeded
    <3>5. QED
      BY <3>1, <3>2, <3>4, RunStepKeeps
  <2>4. QED
    BY <2>2, <2>3
<1>3. CASE ReadSource(r)
  <2> DEFINE new == [old EXCEPT !.pc = IF old.copies THEN "copy" ELSE "destination"]
  <2>1. new \in RunStates
    BY <1>1 DEF RunStates
  <2>2. RunStep(r, new) /\ run'[r] = new
    BY <1>1, <1>3 DEF RunStep, ReadSource, Goto
  <2>3. /\ new.put = "none" /\ new.exit = Nothing /\ new.digest = old.digest
        /\ new.copies = old.copies /\ new.pc = IF new.copies THEN "copy" ELSE "destination"
        /\ new.digest \in Digests \ Indexes
    BY <1>1, <1>3 DEF RunStates, Inspected, ReadSource, IsImageManifest, IInv, TypeOK
  <2>4. (Tagged(r) /\ Reached(r) /\ Inspected(r))'
    BY <2>2, <2>3 DEF Tagged, Reached, Inspected, Succeeded
  <2>5. QED
    BY <2>1, <2>2, <2>4, RunStepKeeps
<1>4. CASE RejectSource(r)
  <2> DEFINE new == [old EXCEPT !.pc = "done", !.exit = ExitCode["source"]]
  <2>1. new \in RunStates
    BY <1>1 DEF RunStates, ExitCode
  <2>2. RunStep(r, new) /\ run'[r] = new
    BY <1>1, <1>4 DEF RunStep, RejectSource, Fails
  <2>3. new.pc = "done" /\ new.put = "none" /\ new.exit = 3
    BY <1>1, <1>4 DEF RunStates, Inspected, RejectSource, ExitCode
  <2>4. (Tagged(r) /\ Reached(r) /\ Inspected(r))'
    BY <2>2, <2>3 DEF Tagged, Reached, Inspected, Succeeded
  <2>5. QED
    BY <2>1, <2>2, <2>4, RunStepKeeps
<1>5. CASE StartCopy(r)
  <2> DEFINE new == [old EXCEPT !.pc = "copying", !.put = "sent"]
  <2>1. new \in RunStates
    BY <1>1 DEF RunStates
  <2>2. RunStep(r, new) /\ run'[r] = new
    BY <1>1, <1>5 DEF RunStep, StartCopy
  <2>3. /\ new.pc = "copying" /\ new.put = "sent" /\ new.exit = Nothing
        /\ new.copies /\ new.digest \in Digests \ Indexes
    BY <1>1, <1>5 DEF RunStates, Inspected, StartCopy
  <2>4. (Tagged(r) /\ Reached(r) /\ Inspected(r))'
    BY <2>2, <2>3 DEF Tagged, Reached, Inspected, Succeeded
  <2>5. QED
    BY <2>1, <2>2, <2>4, RunStepKeeps
<1>6. CASE CopyReturns(r)
  <2> DEFINE new == [old EXCEPT !.pc = "destination"]
  <2>1. new \in RunStates
    BY <1>1 DEF RunStates
  <2>2. RunStep(r, new) /\ run'[r] = new /\ tag' = tag
    BY <1>1, <1>6 DEF RunStep, CopyReturns, Goto
  <2>3. /\ new.pc = "destination" /\ new.put = "accepted" /\ new.exit = Nothing
        /\ new.copies /\ new.digest \in Digests \ Indexes /\ new.digest = old.digest
    BY <1>1, <1>6 DEF RunStates, Inspected, CopyReturns
  <2>4. (Tagged(r) /\ Reached(r) /\ Inspected(r))'
    BY <1>1, <1>6, <2>2, <2>3 DEF Tagged, Reached, Inspected, Succeeded, CopyReturns
  <2>5. QED
    BY <2>1, <2>2, <2>4, RunStepKeeps
<1>7. CASE CopyFails(r)
  <2> DEFINE new == [old EXCEPT !.pc = "done", !.exit = ExitCode["copy"]]
  <2>1. new \in RunStates
    BY <1>1 DEF RunStates, ExitCode
  <2>2. RunStep(r, new) /\ run'[r] = new /\ tag' = tag
    BY <1>1, <1>7 DEF RunStep, CopyFails, Fails
  <2>3. /\ new.pc = "done" /\ new.put = old.put /\ new.exit = 4
        /\ new.copies /\ new.digest \in Digests \ Indexes /\ new.digest = old.digest
    BY <1>1, <1>7 DEF RunStates, Inspected, CopyFails, ExitCode
  <2>4. (Tagged(r) /\ Reached(r) /\ Inspected(r))'
    BY <1>1, <2>2, <2>3 DEF Tagged, Reached, Inspected, Succeeded
  <2>5. QED
    BY <2>1, <2>2, <2>4, RunStepKeeps
<1>8. CASE VerifyDestination(r)
  <2> DEFINE new == [old EXCEPT !.pc = "done", !.exit = ExitCode["success"]]
  <2>1. new \in RunStates
    BY <1>1 DEF RunStates, ExitCode
  <2>2. RunStep(r, new) /\ run'[r] = new /\ tag' = tag
    BY <1>1, <1>8 DEF RunStep, VerifyDestination
  <2>3. /\ new.pc = "done" /\ new.put = old.put /\ new.exit = 0 /\ new.copies = old.copies
        /\ new.digest \in Digests /\ new.digest = old.digest
    BY <1>1, <1>8 DEF RunStates, Inspected, VerifyDestination, ExitCode
  <2>4. (Tagged(r) /\ Reached(r) /\ Inspected(r))'
    BY <1>1, <1>8, <2>2, <2>3 DEF Tagged, Reached, Inspected, Succeeded, VerifyDestination
  <2>5. QED
    BY <2>1, <2>2, <2>4, RunStepKeeps
<1>9. CASE RejectDestination(r)
  <2> DEFINE new == [old EXCEPT !.pc = "done", !.exit = ExitCode["destination"]]
  <2>1. new \in RunStates
    BY <1>1 DEF RunStates, ExitCode
  <2>2. RunStep(r, new) /\ run'[r] = new /\ tag' = tag
    BY <1>1, <1>9 DEF RunStep, RejectDestination, Fails
  <2>3. /\ new.pc = "done" /\ new.put = old.put /\ new.exit = 5 /\ new.copies = old.copies
        /\ new.digest \in Digests /\ new.digest = old.digest
    BY <1>1, <1>9 DEF RunStates, Inspected, RejectDestination, ExitCode
  <2>4. (Tagged(r) /\ Reached(r) /\ Inspected(r))'
    BY <1>1, <2>2, <2>3 DEF Tagged, Reached, Inspected, Succeeded
  <2>5. QED
    BY <2>1, <2>2, <2>4, RunStepKeeps
<1>10. CASE Cancelled(r)
  <2> DEFINE new == [old EXCEPT !.pc = "done"]
  <2>1. new \in RunStates
    BY <1>1 DEF RunStates
  <2>2. RunStep(r, new) /\ run'[r] = new /\ tag' = tag
    BY <1>1, <1>10 DEF RunStep, Cancelled, Goto
  <2>3. /\ new.pc = "done" /\ new.put = old.put /\ new.exit = old.exit /\ new.copies = old.copies
        /\ new.digest = old.digest
    BY <1>1 DEF RunStates
  <2>4. (Tagged(r) /\ Reached(r) /\ Inspected(r))'
    BY <1>1, <2>2, <2>3 DEF Tagged, Reached, Inspected, Succeeded
  <2>5. QED
    BY <2>1, <2>2, <2>4, RunStepKeeps
<1>11. CASE RejectArguments(r)
  <2> DEFINE new == [old EXCEPT !.pc = "done", !.exit = ExitCode["input"]]
  <2>1. new \in RunStates
    BY <1>1 DEF RunStates, ExitCode
  <2>2. RunStep(r, new) /\ run'[r] = new
    BY <1>1, <1>11 DEF RunStep, RejectArguments, Fails
  <2>3. new.pc = "done" /\ new.put = "none" /\ new.exit = 2
    BY <1>1, <1>11 DEF RunStates, Inspected, RejectArguments, ExitCode
  <2>4. (Tagged(r) /\ Reached(r) /\ Inspected(r))'
    BY <2>2, <2>3 DEF Tagged, Reached, Inspected, Succeeded
  <2>5. QED
    BY <2>1, <2>2, <2>4, RunStepKeeps
<1>12. CASE FailsInternally(r)
  <2> DEFINE new == [old EXCEPT !.pc = "done", !.exit = ExitCode["internal"]]
  <2>1. new \in RunStates
    BY <1>1 DEF RunStates, ExitCode
  <2>2. RunStep(r, new) /\ run'[r] = new /\ tag' = tag
    BY <1>1, <1>12 DEF RunStep, FailsInternally, Fails
  <2>3. /\ new.pc = "done" /\ new.put = old.put /\ new.exit = 1 /\ new.copies = old.copies
        /\ new.digest = old.digest
    BY <1>1, <1>12 DEF RunStates, Inspected, FailsInternally, ExitCode
  <2>4. (Tagged(r) /\ Reached(r) /\ Inspected(r))'
    BY <1>1, <2>2, <2>3 DEF Tagged, Reached, Inspected, Succeeded
  <2>5. QED
    BY <2>1, <2>2, <2>4, RunStepKeeps
<1>13. QED
  BY <1>2, <1>3, <1>4, <1>5, <1>6, <1>7, <1>8, <1>9, <1>10, <1>11, <1>12 DEF RunNext

-----------------------------------------------------------------------------
(* The steps of the registries. *)

LEMMA RegistryNextKeeps == ASSUME IInv, RegistryNext PROVE IInv'
<1> USE ExitCodes
<1>1. /\ run \in [Runs -> RunStates] /\ tag \in [Digests -> Digests \cup {Nothing}]
      /\ source \subseteq Digests /\ stored \subseteq Digests
      /\ \A r \in Runs : Tagged(r) /\ Reached(r) /\ Inspected(r)
  BY DEF IInv, TypeOK
<1>2. ASSUME NEW r \in Runs, AcceptPut(r) PROVE IInv'
  <2> DEFINE d == run[r].digest
  <2>1. run[r].put = "sent" /\ run[r].copies /\ d \in Digests \ Indexes
    BY <1>1, <1>2 DEF AcceptPut, Inspected
  <2>2. tag' = [tag EXCEPT ![d] = d] /\ stored' = stored \cup {d} /\ source' = source
    BY <1>1, <1>2, <2>1 DEF AcceptPut, RetentionTag
  <2>3. run' = [run EXCEPT ![r] = [run[r] EXCEPT !.put = "accepted"]]
    BY <1>1, <1>2 DEF AcceptPut
  <2>4. [run[r] EXCEPT !.put = "accepted"] \in RunStates
    BY <1>1 DEF RunStates
  <2>5. TypeOK'
    BY <1>1, <2>1, <2>2, <2>3, <2>4 DEF TypeOK
  <2>6. TagsStored'
    BY <1>1, <2>1, <2>2 DEF TagsStored, IInv
  <2>7. ASSUME NEW s \in Runs PROVE (Tagged(s) /\ Reached(s) /\ Inspected(s))'
    <3>1. CASE s = r
      <4>1. /\ run'[s].put = "accepted" /\ run'[s].digest = d /\ run'[s].pc = run[r].pc
            /\ run'[s].exit = run[r].exit /\ run'[s].copies = run[r].copies
        BY <1>1, <2>3, <3>1 DEF RunStates
      <4>2. tag'[d] = d
        BY <1>1, <2>1, <2>2
      <4>3. Tagged(s)' /\ Reached(s)'
        BY <4>1, <4>2 DEF Tagged, Reached
      <4>4. Inspected(s)'
        BY <1>1, <2>1, <3>1, <4>1 DEF Inspected, Succeeded
      <4>5. QED
        BY <4>3, <4>4
    <3>2. CASE s # r
      <4>1. run'[s] = run[s]
        BY <1>1, <2>3, <3>2
      <4>2. run[s].put = "accepted" => tag'[run[s].digest] = run[s].digest
        BY <1>1, <2>1, <2>2 DEF Tagged, Inspected
      <4>3. QED
        BY <1>1, <4>1, <4>2 DEF Tagged, Reached, Inspected, Succeeded
    <3>3. QED
      BY <3>1, <3>2
  <2>8. QED
    BY <2>5, <2>6, <2>7 DEF IInv
<1>3. ASSUME NEW r \in Runs, RefusePut(r) PROVE IInv'
  <2> DEFINE new == [run[r] EXCEPT !.put = "refused"]
  <2>1. new \in RunStates
    BY <1>1 DEF RunStates
  <2>2. RunStep(r, new) /\ run'[r] = new
    BY <1>1, <1>3 DEF RunStep, RefusePut
  <2>3. /\ new.put = "refused" /\ new.pc = run[r].pc /\ new.exit = run[r].exit
        /\ new.copies = run[r].copies /\ new.digest = run[r].digest /\ run[r].put = "sent"
    BY <1>1, <1>3 DEF RunStates, RefusePut
  <2>4. (Tagged(r) /\ Reached(r) /\ Inspected(r))'
    BY <1>1, <2>2, <2>3 DEF Tagged, Reached, Inspected, Succeeded
  <2>5. QED
    BY <2>1, <2>2, <2>4, RunStepKeeps
<1>4. ASSUME NEW d \in Digests, Expire(d) \/ SourceDrops(d) PROVE IInv'
  <2>1. tag' = tag /\ run' = run /\ stored' \subseteq stored /\ source' \subseteq source
    BY <1>4 DEF Expire, SourceDrops
  <2>2. TagsStored'
    BY <1>1, <1>4, <2>1 DEF TagsStored, Expire, SourceDrops, IInv
  <2>3. TypeOK'
    BY <1>1, <2>1 DEF TypeOK
  <2>4. \A r \in Runs : (Tagged(r) /\ Reached(r) /\ Inspected(r))'
    BY <1>1, <2>1 DEF Tagged, Reached, Inspected, Succeeded
  <2>5. QED
    BY <2>2, <2>3, <2>4 DEF IInv
<1>5. QED
  BY <1>2, <1>3, <1>4 DEF RegistryNext

LEMMA NextKeeps == IInv /\ [Next]_vars => IInv'
<1> SUFFICES ASSUME IInv, [Next]_vars PROVE IInv'
  OBVIOUS
<1>1. CASE \E r \in Runs : RunNext(r)
  BY <1>1, RunNextKeeps
<1>2. CASE RegistryNext
  BY <1>2, RegistryNextKeeps
<1>3. CASE UNCHANGED vars
  BY <1>3 DEF vars, IInv, TypeOK, TagsStored, Tagged, Reached, Inspected, Succeeded
<1>4. QED
  BY <1>1, <1>2, <1>3 DEF Next

LEMMA Invariance == Spec => []IInv
<1>1. QED
  BY InitIInv, NextKeeps, PTL DEF Spec

-----------------------------------------------------------------------------
(* The run records, tags and registry contents always have their types. *)
THEOREM TypeCorrect == Spec => []TypeOK
<1>1. IInv => TypeOK
  BY DEF IInv
<1>2. QED
  BY <1>1, Invariance, PTL

(* A copy that reported success is kept for good (inspectTransfer puts the
   manifest under its retention tag), for any number of runs and digests. *)
THEOREM SuccessfulCopyIsKept == Spec => []CopiedIsRetained
<1>1. IInv => CopiedIsRetained
  <2> SUFFICES ASSUME IInv, NEW r \in Runs, Succeeded(r), run[r].copies
               PROVE  run[r].digest \in stored
    BY DEF CopiedIsRetained
  <2>1. run[r].put = "accepted"
    BY DEF IInv, Reached
  <2>2. run[r].digest \in Digests /\ tag[run[r].digest] = run[r].digest
    BY <2>1 DEF IInv, Tagged, Inspected
  <2>3. QED
    BY <2>2, ExitCodes DEF IInv, TagsStored
<1>2. QED
  BY <1>1, Invariance, PTL

(* Whatever enters the destination was inspected at the source and found to
   be a single-image manifest, for a copy that has not been rejected. *)
THEOREM EntrantsAreInspected == Spec => OnlyInspectedImagesEnter
<1>1. ASSUME IInv, [Next]_vars, NEW d \in stored' \ stored
      PROVE  /\ d \notin Indexes
             /\ \E r \in Runs :
                   /\ run[r].digest = d
                   /\ run[r].copies
                   /\ run[r].exit \notin {ExitCode["input"], ExitCode["source"]}
  <2>1. \E r \in Runs : AcceptPut(r)
    BY <1>1 DEF Next, RunNext, RegistryNext, vars, Accept, RejectArguments, ReadSource, RejectSource,
                StartCopy, CopyReturns, CopyFails, VerifyDestination, RejectDestination,
                FailsInternally, Cancelled, RefusePut, Expire, SourceDrops
  <2>2. PICK r \in Runs : AcceptPut(r)
    BY <2>1
  <2>3. d = run[r].digest /\ run[r].put = "sent"
    BY <1>1, <2>2 DEF AcceptPut
  <2>4. QED
    BY <1>1, <2>3 DEF IInv, Inspected
<1>2. IInv /\ [Next]_vars =>
         [\A d \in stored' \ stored :
             /\ d \notin Indexes
             /\ \E r \in Runs :
                   /\ run[r].digest = d
                   /\ run[r].copies
                   /\ run[r].exit \notin {ExitCode["input"], ExitCode["source"]}]_vars
  BY <1>1
<1>3. QED
  BY <1>2, Invariance, PTL DEF Spec, OnlyInspectedImagesEnter
=============================================================================
