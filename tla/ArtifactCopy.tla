---------------------------- MODULE ArtifactCopy ----------------------------
(***************************************************************************)
(* automation/artifact-copy: the command that copies, or only verifies,    *)
(* one approved single-image manifest between two registries.              *)
(*                                                                         *)
(* A run reads a request file, reads the source manifest, has skopeo copy  *)
(* it to the destination under the tag sha256-<digest> (unless the request *)
(* only verifies), reads the destination by digest, and reports one of six *)
(* exit codes.  Several runs, retries among them, work on one destination  *)
(* repository: an ECR repository with immutable tags whose lifecycle rule  *)
(* expires untagged images.  skopeo is killed when its time is up, so the  *)
(* manifest put it had sent may reach the registry after the run has       *)
(* reported a failure.                                                     *)
(*                                                                         *)
(* A manifest is its digest; Indexes are the digests of image indexes,     *)
(* which the command must not copy.                                        *)
(***************************************************************************)
EXTENDS Naturals, FiniteSets

CONSTANTS
    Digests,   \* the manifest digests requests may name
    Indexes,   \* those that are not a single-image manifest
    Runs,      \* the runs of the command, retries included
    Nothing    \* a retention tag that is not set, a run without an exit code

ASSUME IndexesAssumption == Indexes \subseteq Digests
ASSUME NothingAssumption == Nothing \notin Digests \cup Nat

VARIABLES
    source,    \* the digests the source registry serves
    stored,    \* the digests the destination repository holds
    tag,       \* the digest that the retention tag of each digest names
    run        \* the runs

vars == <<source, stored, tag, run>>

Operations == {"copy-and-verify", "verify-existing"}

(* A request: v1 has no operation field, v2 requires one. *)
Requests == [version : {1, 2}, operation : Operations \cup {"missing", "unknown"},
             reference : Digests, expected : Digests]

Validated(request) ==
    /\ request.version = 1 => request.operation = "missing"
    /\ request.version = 2 => request.operation \in Operations
    /\ request.reference = request.expected

ShouldCopy(request) ==
    request.version = 1 \/ request.operation = "copy-and-verify"

ExitCode == [success |-> 0, internal |-> 1, input |-> 2, source |-> 3, copy |-> 4,
             destination |-> 5]

(* pc: where the run is.  put: what became of the manifest put skopeo sends
   for the run.  copies, digest: the validated request. *)
RunStates ==
    [pc : {"idle", "source", "copy", "copying", "destination", "done"},
     copies : BOOLEAN, digest : Digests \cup {Nothing},
     put : {"none", "sent", "accepted", "refused"},
     exit : {ExitCode[stage] : stage \in DOMAIN ExitCode} \cup {Nothing}]

IdleRun == [pc |-> "idle", copies |-> FALSE, digest |-> Nothing,
            put |-> "none", exit |-> Nothing]

Init ==
    /\ source \in SUBSET Digests
    /\ tag \in [Digests -> Digests \cup {Nothing}]
    /\ stored \in {kept \in SUBSET Digests :
                      \A d \in Digests : tag[d] \in kept \cup {Nothing}}
    /\ run = [r \in Runs |-> IdleRun]

-----------------------------------------------------------------------------
(* The command. *)

Goto(r, pc) == run' = [run EXCEPT ![r].pc = pc]

(* Mutation: a failed stage ends with an exit code that is not one of the six. *)
FailsUnclassified(r, stage) ==
    run' = [run EXCEPT ![r].pc = "done", ![r].exit = ExitCode[stage] + 10]

Fails(r, stage) ==
    run' = [run EXCEPT ![r].pc = "done", ![r].exit = ExitCode[stage]]

(* The request file is read, parsed and validated. *)
Accept(r) ==
    /\ run[r].pc = "idle"
    /\ \E request \in Requests :
          IF Validated(request)
          THEN run' = [run EXCEPT ![r].pc = "source",
                                  ![r].copies = ShouldCopy(request),
                                  ![r].digest = request.expected]
          ELSE Fails(r, "input")
    /\ UNCHANGED <<source, stored, tag>>

(* The arguments are refused, or the request file is not a readable regular
   file of at most MAX_ARTIFACT_COPY_REQUEST_BYTES. *)
RejectArguments(r) ==
    /\ run[r].pc = "idle"
    /\ Fails(r, "input")
    /\ UNCHANGED <<source, stored, tag>>

(* Mutation: a manifest is accepted whatever its media type. *)
AnyMediaType(d) == TRUE

IsImageManifest(d) == d \notin Indexes

(* The source manifest is read and inspected before anything is written. *)
ReadSource(r) ==
    /\ run[r].pc = "source"
    /\ run[r].digest \in source
    /\ IsImageManifest(run[r].digest)
    /\ Goto(r, IF run[r].copies THEN "copy" ELSE "destination")
    /\ UNCHANGED <<source, stored, tag>>

(* The read fails, runs out of time, or returns bytes that are not the
   expected manifest. *)
RejectSource(r) ==
    /\ run[r].pc = "source"
    /\ Fails(r, "source")
    /\ UNCHANGED <<source, stored, tag>>

(* skopeo reads the source once more and sends the manifest to the tag. *)
StartCopy(r) ==
    /\ run[r].pc = "copy"
    /\ run[r].digest \in source
    /\ run' = [run EXCEPT ![r].pc = "copying", ![r].put = "sent"]
    /\ UNCHANGED <<source, stored, tag>>

CopyReturns(r) ==
    /\ run[r].pc = "copying"
    /\ run[r].put = "accepted"
    /\ Goto(r, "destination")
    /\ UNCHANGED <<source, stored, tag>>

(* Mutation: a copy that has sent its put is waited for without a limit. *)
CopyFailsUnlessSent(r) ==
    /\ run[r].pc = "copy" \/ (run[r].pc = "copying" /\ run[r].put = "refused")
    /\ Fails(r, "copy")
    /\ UNCHANGED <<source, stored, tag>>

(* skopeo exits with an error or is killed after five minutes, whether or not
   its put was, or will be, applied. *)
CopyFails(r) ==
    /\ run[r].pc \in {"copy", "copying"}
    /\ Fails(r, "copy")
    /\ UNCHANGED <<source, stored, tag>>

(* The destination is read by digest, not by tag. *)
VerifyDestination(r) ==
    /\ run[r].pc = "destination"
    /\ run[r].digest \in stored
    /\ run' = [run EXCEPT ![r].pc = "done", ![r].exit = ExitCode["success"]]
    /\ UNCHANGED <<source, stored, tag>>

(* The read fails, or its digest, its config digest or its layers differ from
   those of the source. *)
RejectDestination(r) ==
    /\ run[r].pc = "destination"
    /\ Fails(r, "destination")
    /\ UNCHANGED <<source, stored, tag>>

(* An unexpected exception, writing the result included: its stage is not
   known.  Whatever is thrown while skopeo copies counts as a failed copy. *)
FailsInternally(r) ==
    /\ run[r].pc \in {"idle", "source", "destination"}
    /\ Fails(r, "internal")
    /\ UNCHANGED <<source, stored, tag>>

(* The workflow that started the run is cancelled: no exit code is reported. *)
Cancelled(r) ==
    /\ run[r].pc \notin {"idle", "done"}
    /\ Goto(r, "done")
    /\ UNCHANGED <<source, stored, tag>>

-----------------------------------------------------------------------------
(* The registries. *)

(* Mutation: the manifest is put by digest, without a tag. *)
NoRetentionTag(d) == {}

(* The retention tag a copied manifest is put under. *)
RetentionTag(d) == {d}

(* A put that was sent reaches the repository, at any later time.  A tag that
   is free is set; one that already names this digest may be accepted or
   refused; one that names another digest is immutable. *)
AcceptPut(r) ==
    LET d == run[r].digest IN
    /\ run[r].put = "sent"
    /\ \A t \in RetentionTag(d) : tag[t] \in {Nothing, d}
    /\ stored' = stored \cup {d}
    /\ tag' = [t \in Digests |-> IF t \in RetentionTag(d) THEN d ELSE tag[t]]
    /\ run' = [run EXCEPT ![r].put = "accepted"]
    /\ UNCHANGED source

RefusePut(r) ==
    /\ run[r].put = "sent"
    /\ tag[run[r].digest] # Nothing
    /\ run' = [run EXCEPT ![r].put = "refused"]
    /\ UNCHANGED <<source, stored, tag>>

(* The lifecycle rule expires an image that has no tag. *)
Expire(d) ==
    /\ d \in stored
    /\ \A t \in Digests : tag[t] # d
    /\ stored' = stored \ {d}
    /\ UNCHANGED <<source, tag, run>>

(* The publisher deletes the approved package version. *)
SourceDrops(d) ==
    /\ source' = source \ {d}
    /\ d \in source
    /\ UNCHANGED <<stored, tag, run>>

RunNext(r) ==
    \/ Accept(r) \/ RejectArguments(r) \/ ReadSource(r) \/ RejectSource(r)
    \/ StartCopy(r) \/ CopyReturns(r) \/ CopyFails(r)
    \/ VerifyDestination(r) \/ RejectDestination(r)
    \/ FailsInternally(r) \/ Cancelled(r)

RegistryNext ==
    \/ \E r \in Runs : AcceptPut(r) \/ RefusePut(r)
    \/ \E d \in Digests : Expire(d) \/ SourceDrops(d)

Next == (\E r \in Runs : RunNext(r)) \/ RegistryNext

Spec == Init /\ [][Next]_vars

(* Every call the command makes is bounded by a timeout (30 seconds for a
   read, five minutes for a copy) and fails when it expires.  Nothing is
   assumed of the registries, of who starts a run or of who cancels it. *)
Fairness ==
    \A r \in Runs : WF_vars(\/ ReadSource(r) \/ RejectSource(r)
                            \/ StartCopy(r) \/ CopyReturns(r) \/ CopyFails(r)
                            \/ VerifyDestination(r) \/ RejectDestination(r))

FairSpec == Spec /\ Fairness

-----------------------------------------------------------------------------
(* Properties. *)

(* Every variable has its type. *)
TypeOK ==
    /\ source \subseteq Digests
    /\ stored \subseteq Digests
    /\ tag \in [Digests -> Digests \cup {Nothing}]
    /\ run \in [Runs -> RunStates]

Succeeded(r) == run[r].exit = ExitCode["success"]

(* A copy that reported success is kept for good: whatever other runs, late
   puts and the lifecycle rule do, the destination holds the manifest from
   then on.  inspectTransfer copies to the retention tag and verifies by
   digest, two different references; a run that only verifies promises no
   such thing. *)
CopiedIsRetained ==
    \A r \in Runs : Succeeded(r) /\ run[r].copies => run[r].digest \in stored

(* A manifest enters the destination only on behalf of a copy whose source
   inspection accepted it: never an image index, never for a run that
   rejected its request or its source or only verified, and not even late,
   after the run has ended. *)
OnlyInspectedImagesEnter ==
    [][\A d \in stored' \ stored :
          /\ d \notin Indexes
          /\ \E r \in Runs :
                /\ run[r].digest = d
                /\ run[r].copies
                /\ run[r].exit \notin {ExitCode["input"], ExitCode["source"]}]_vars

(* A run that was started ends, whatever the registries do: a put the
   registry never answers does not hold the run, and the operator behind it,
   for ever. *)
EveryRunEnds ==
    \A r \in Runs : run[r].pc = "source" ~> run[r].pc = "done"
=============================================================================
