---------------------------- MODULE SmokeRunProofs ----------------------------
(***************************************************************************)
(* Proofs about SmokeRun, for any number of seats, runs and attempts: type *)
(* correctness, and that a metrics run takes at most one seat for good.    *)
(*                                                                         *)
(* The service answers late, also after the run ended, so the invariant    *)
(* ties every seat a run holds to its last request (Held), and the target  *)
(* of the run to that seat before it sends another one (Asking).           *)
(***************************************************************************)
EXTENDS SmokeRun, FiniteSetTheorems, TLAPS

\* The attempts of a metrics run are the outcomes it counted, and the one it
\* waits for.
Counted ==
  /\ run.at \in {"prerequisites", "stack_output", "catalog"} => run.attempt = 0 /\ run.confirmed = 0 /\ run.negative = 0
  /\ run.at = "reservation_request" => run.attempt < AttemptLimit /\ run.confirmed + run.negative = run.attempt
  /\ run.at = "reservation_status" => run.attempt <= AttemptLimit /\ run.confirmed + run.negative + 1 = run.attempt

\* Each place belongs to its script, and a run that is under way has a number.
InScript ==
  /\ run.at \in {"catalog", "reservation_request", "reservation_status"} => run.script = "metrics"
  /\ run.at = "health" => run.script = "integrated"
  /\ run.at # "idle" => run.n \in Runs

\* A seat that a run holds is the seat of its last request.
Held == \A n \in Runs, s \in Seats : seats[s] = n => requests[n] # Nothing /\ requests[n].seat = s

\* What a run asks for: nothing before its first request, and the seat it holds
\* once it holds one.
Asking ==
  /\ \A n \in Runs : n > run.n => requests[n] = Nothing
  /\ run.at \in {"prerequisites", "stack_output", "catalog"} => requests[run.n] = Nothing
  /\ run.at = "reservation_request" =>
       /\ requests[run.n] = Nothing \/ requests[run.n].status # "PROCESSING"
       /\ \A s \in Seats : seats[s] = run.n => run.target = s
  /\ run.at = "reservation_status" =>
       /\ requests[run.n] # Nothing /\ requests[run.n].seat = CatalogTarget(run)
       /\ \A s \in Seats : seats[s] = run.n /\ requests[run.n].status # "CONFIRMED" => run.target = s

IInv == TypeOK /\ Counted /\ InScript /\ Held /\ Asking

-----------------------------------------------------------------------------
(* The steps of a run that send nothing *)

\* q is the run after a step that leaves what it counted and its target alone.
Same(q) ==
  /\ q.n = run.n /\ q.script = run.script /\ q.target = run.target
  /\ q.attempt = run.attempt /\ q.confirmed = run.confirmed /\ q.negative = run.negative

\* Neither on the way to a reservation nor in one.
Elsewhere == Places \ {"prerequisites", "stack_output", "catalog", "reservation_request", "reservation_status", "health"}

Passes(q) ==
  /\ q \in Run /\ Same(q) /\ (run.at = "idle" => q.at = "idle")
  /\ \/ q.at \in Elsewhere \/ q.at = run.at
     \/ run.at = "prerequisites" /\ q.at = "stack_output"
     \/ run.at = "prerequisites" /\ q.at = "health" /\ run.script = "integrated"
     \/ run.at = "stack_output" /\ q.at = "catalog" /\ run.script = "metrics"
     \/ run.at = "catalog" /\ q.at = "reservation_request"

ReportsType == reports \in [Scripts -> Report \cup {Nothing}]

\* A step that only moves the run and reports.
Quiet == Passes(run') /\ ReportsType' /\ UNCHANGED <<seats, requests>>

LEMMA Settings ==
  /\ {SeatCount, AttemptLimit, Window, HealthAttempts, MaxRuns} \subseteq Nat \ {0}
  /\ Nothing \notin Seats /\ Nothing \notin Request
  /\ Seats \subseteq Nat /\ Runs \subseteq Nat /\ Free \notin Runs /\ Others \notin Runs
  BY SmokeAssumption, NothingAssumption DEF Seats, Runs, Free, Others

LEMMA Ends ==
  ASSUME TypeOK, NEW status, NEW stage \in Stages, NEW seen \in SUBSET Evidence, End(status, stage, seen)
  PROVE  Passes(run') /\ run'.at = "idle" /\ ReportsType'
<1>1. run \in Run /\ ReportsType
  BY DEF TypeOK, ReportsType
<1>2. run' = [Ended EXCEPT !.seen = seen]
  BY DEF End
<1>3. run' \in Run /\ Same(run') /\ run'.at = "idle"
  BY <1>1, <1>2 DEF Run, Ended, Same, Places
<1>4. OnExit(status, stage, seen) \in Report
  BY DEF OnExit, Report, Stages
<1>5. ReportsType'
  BY <1>1, <1>4 DEF End, ReportsType
<1>6. QED
  BY <1>3, <1>5 DEF Passes, Elsewhere, Places

LEMMA Fails ==
  ASSUME TypeOK, NEW stage \in Stages, Fail(stage)
  PROVE  Quiet
<1>1. run.seen \in SUBSET Evidence
  BY DEF TypeOK, Run
<1>2. QED
  BY <1>1, Ends DEF Fail, Quiet

LEMMA Succeeds ==
  ASSUME TypeOK, NEW stage \in Evidence, Succeed(stage)
  PROVE  Quiet
<1>1. run.seen \cup {stage} \in SUBSET Evidence /\ "" \in Stages
  BY DEF TypeOK, Run, Stages
<1>2. QED
  BY <1>1, Ends DEF Succeed, Quiet

LEMMA Observes ==
  ASSUME TypeOK, NEW stage \in Evidence, NEW next \in Places, Observed(stage, next)
  PROVE  run' \in Run /\ Same(run') /\ run'.at = next /\ ReportsType' /\ UNCHANGED <<seats, requests>>
<1>1. Window \in 0..Window
  BY Settings
<1>2. run \in Run /\ run' = [run EXCEPT !.at = next, !.left = Window, !.seen = @ \cup {stage}]
  BY DEF TypeOK, Observed
<1>3. run' \in Run /\ Same(run') /\ run'.at = next
  BY <1>1, <1>2 DEF Run, Same
<1>4. QED
  BY <1>3 DEF Observed, TypeOK, ReportsType

LEMMA Waits ==
  ASSUME TypeOK, Wait
  PROVE  Quiet
<1>1. PICK l \in 0..(run.left - 1) : run' = [run EXCEPT !.left = l]
  BY DEF Wait
<1>2. run \in Run /\ l \in 0..Window
  BY <1>1, Settings DEF TypeOK, Run
<1>3. run' \in Run /\ Same(run') /\ run'.at = run.at
  BY <1>1, <1>2 DEF Run, Same
<1>4. QED
  BY <1>3 DEF Wait, Quiet, Passes, TypeOK, ReportsType

\* A step elsewhere, and a step that moves to a place elsewhere.
LEMMA Moves ==
  ASSUME TypeOK, NEW next \in Places, run' = [run EXCEPT !.at = next], UNCHANGED <<seats, requests, reports>>
  PROVE  run' \in Run /\ Same(run') /\ run'.at = next /\ ReportsType'
<1>1. run \in Run
  BY DEF TypeOK
<1>2. QED
  BY <1>1 DEF Run, Same, TypeOK, ReportsType
\* The steps of the three scripts that neither reserve nor count.
LEMMA QuietSteps ==
  ASSUME IInv,
         \/ Prerequisites \/ StackOutputs \/ Catalog \/ CloudWatchMetric \/ AmpMetric \/ AmpQueryKilled
         \/ ContainerInsights \/ HttpRequest \/ GraphqlResponse \/ XrayQuery \/ WriteReport
         \/ CommandFails \/ Interrupt \/ Kill
  PROVE  Quiet
<1>1. TypeOK /\ run \in Run
  BY DEF IInv, TypeOK
<1>2. CASE Prerequisites
  <2>1. CASE Fail("prerequisites")
    BY <1>1, <2>1, Fails DEF Stages, Places, MetricsPlaces
  <2>2. ASSUME NEW next \in CASE run.script = "metrics"    -> {"stack_output"}
                               [] run.script = "xray"       -> {"stack_output", "http_request"}
                               [] run.script = "integrated" -> {"health"},
               run' = [run EXCEPT !.at = next], UNCHANGED <<seats, requests, reports>>
        PROVE  Quiet
    <3>1. /\ next \in {"stack_output", "http_request", "health"}
          /\ next = "health" => run.script = "integrated"
      BY <1>1, <2>2 DEF Run, Scripts
    <3>2. next \in Places /\ run.at = "prerequisites"
      BY <1>2, <3>1 DEF Prerequisites, Places, MetricsPlaces, XrayPlaces, IntegratedPlaces
    <3>3. run' \in Run /\ Same(run') /\ run'.at = next /\ ReportsType'
      BY <1>1, <2>2, <3>2, Moves
    <3>4. QED
      BY <2>2, <3>1, <3>2, <3>3 DEF Quiet, Passes, Elsewhere
  <2>3. QED
    BY <1>2, <2>1, <2>2 DEF Prerequisites
<1>3. CASE StackOutputs
  <2>1. ASSUME NEW stage \in {"stack_output", "prerequisites"}, Fail(stage) PROVE Quiet
    BY <1>1, <2>1, Fails DEF Stages, Places, MetricsPlaces
  <2>2. ASSUME NEW next \in {"catalog", "http_request"}, Observed("stack_output", next), next = "catalog" => run.script = "metrics"
        PROVE  Quiet
    <3>1. next \in Places /\ "stack_output" \in Evidence /\ run.at = "stack_output"
      BY <1>3 DEF StackOutputs, Places, MetricsPlaces, XrayPlaces, Evidence
    <3>2. QED
      BY <1>1, <2>2, <3>1, Observes DEF Quiet, Passes, Elsewhere
  <2>3. QED
    BY <1>3, <2>1, <2>2 DEF StackOutputs
<1>4. CASE Catalog
  <2>1. "catalog" \in Stages /\ "catalog" \in Evidence /\ "reservation_request" \in Places
    BY DEF Stages, Places, MetricsPlaces, Evidence
  <2>2. QED
    BY <1>1, <1>4, <2>1, Fails, Observes DEF Catalog, Quiet, Passes
<1>5. ASSUME NEW stage \in Evidence, NEW next \in Elsewhere, Observed(stage, next), run.at # "idle" PROVE Quiet
  BY <1>1, <1>5, Observes DEF Quiet, Passes, Elsewhere
<1>6. CASE CloudWatchMetric
  <2>1. {"cloudwatch_metric", "cloudwatch_query"} \subseteq Stages /\ "cloudwatch_metric" \in Evidence /\ "amp_metric" \in Elsewhere
    BY DEF Stages, Places, MetricsPlaces, Evidence, MetricsEvidence, Elsewhere
  <2>2. QED
    BY <1>1, <1>5, <1>6, <2>1, Fails, Waits DEF CloudWatchMetric, CloudWatch
<1>7. CASE AmpMetric
  <2>1. /\ {"amp_metric", "amp_query", "amp_contract"} \subseteq Stages /\ "amp_metric" \in Evidence
        /\ {"container_insights_metric", "amp_wait"} \subseteq Elsewhere \cap Places
    BY DEF Stages, Places, MetricsPlaces, Evidence, MetricsEvidence, Elsewhere
  <2>2. ASSUME run' = [run EXCEPT !.at = "amp_wait"], UNCHANGED <<seats, requests, reports>> PROVE Quiet
    BY <1>1, <1>7, <2>1, <2>2, Moves DEF AmpMetric, Quiet, Passes
  <2>3. QED
    BY <1>1, <1>5, <1>7, <2>1, <2>2, Fails, Waits DEF AmpMetric
<1>8. CASE AmpQueryKilled
  BY <1>1, <1>8, Fails DEF AmpQueryKilled, Stages
<1>9. CASE ContainerInsights
  <2>1. {"container_insights_metric", "container_insights_query"} \subseteq Stages /\ "container_insights_metric" \in Evidence
    BY DEF Stages, Places, MetricsPlaces, Evidence, MetricsEvidence
  <2>2. QED
    BY <1>1, <1>9, <2>1, Fails, Succeeds, Waits DEF ContainerInsights
<1>10. CASE HttpRequest \/ GraphqlResponse
  <2>1. /\ {"http_request", "graphql_response"} \subseteq Stages \cap Evidence
        /\ {"graphql_response", "xray_query"} \subseteq Elsewhere
    BY DEF Stages, Places, XrayPlaces, Evidence, XrayEvidence, Elsewhere
  <2>2. QED
    BY <1>1, <1>5, <1>10, <2>1, Fails DEF HttpRequest, GraphqlResponse
<1>11. CASE XrayQuery
  <2>1. {"service_segment_timeout", "trace_timeout", "xray_query"} \subseteq Stages /\ "xray_query" \in Evidence
    BY DEF Stages, Places, XrayPlaces, Evidence, XrayEvidence
  <2>2. ASSUME NEW l \in 0..(run.left - 1), run' = [run EXCEPT !.left = l, !.seen = @ \cup {"trace"}],
               UNCHANGED <<seats, requests, reports>>
        PROVE  Quiet
    <3>1. l \in 0..Window /\ "trace" \in Evidence
      BY <1>1, Settings DEF Run, Evidence
    <3>2. run' \in Run /\ Same(run') /\ run'.at = run.at
      BY <1>1, <2>2, <3>1 DEF Run, Same
    <3>3. QED
      BY <1>1, <2>2, <3>2 DEF Quiet, Passes, TypeOK, ReportsType
  <2>3. QED
    BY <1>1, <1>11, <2>1, <2>2, Fails, Succeeds, Waits DEF XrayQuery
<1>12. CASE WriteReport
  <2>1. run' = Ended /\ UNCHANGED <<seats, requests>>
    BY <1>12 DEF WriteReport
  <2>2. run' \in Run /\ Same(run') /\ run'.at \in Elsewhere
    BY <1>1, <2>1 DEF Run, Ended, Same, Places, Elsewhere
  <2>3. [result |-> "success", failure_stage |-> "", seen |-> run.seen] \in Report
    BY <1>1 DEF Run, Report, Stages
  <2>4. ReportsType'
    BY <1>1, <1>12, <2>3 DEF WriteReport, TypeOK, ReportsType
  <2>5. QED
    BY <1>12, <2>1, <2>2, <2>4 DEF WriteReport, Quiet, Passes
<1>13. CASE Interrupt
  <2>1. StagesSoFar \subseteq Stages /\ run.seen \in SUBSET Evidence
    BY <1>1 DEF StagesSoFar, Stages, Places, MetricsPlaces, XrayPlaces, Run
  <2>2. QED
    BY <1>1, <1>13, <2>1, Ends DEF Interrupt, Quiet
<1>14. CASE Kill
  <2>1. run' = Ended /\ UNCHANGED <<seats, requests, reports>>
    BY <1>14 DEF Kill
  <2>2. run' \in Run /\ Same(run') /\ run'.at \in Elsewhere
    BY <1>1, <2>1 DEF Run, Ended, Same, Places, Elsewhere
  <2>3. QED
    BY <1>1, <1>14, <2>1, <2>2 DEF Kill, Quiet, Passes, TypeOK, ReportsType
<1>15. CASE CommandFails
  <2>1. StagesSoFar \subseteq Stages
    BY <1>1 DEF StagesSoFar, Stages, Places, MetricsPlaces, XrayPlaces, Run
  <2>2. QED
    BY <1>1, <1>15, <2>1, Fails DEF CommandFails
<1>16. QED
  BY <1>2, <1>3, <1>4, <1>6, <1>7, <1>8, <1>9, <1>10, <1>11, <1>12, <1>13, <1>14, <1>15
-----------------------------------------------------------------------------
(* Each step keeps the invariant *)

\* A step that sends and counts nothing, while other clients may take seats.
LEMMA PassingKeepsIInv ==
  ASSUME IInv, Passes(run'), ReportsType', requests' = requests,
         seats' \in [Seats -> {Free, Others} \cup Runs],
         \A s \in Seats : seats'[s] \in Runs => seats'[s] = seats[s]
  PROVE  IInv'
<1>1. TypeOK'
  BY DEF IInv, TypeOK, Passes, Same, ReportsType
<1>2. AttemptLimit > 0 /\ AttemptLimit \in Nat
  BY Settings
<1>3. Counted'
  BY <1>2 DEF IInv, Counted, Passes, Same, Elsewhere
<1>4. InScript'
  <2>1. run'.at # "idle" => run'.n \in Runs
    BY DEF IInv, InScript, Passes, Same
  <2>2. QED
    BY <2>1 DEF IInv, InScript, Passes, Same, Elsewhere
<1>5. Held'
  BY DEF IInv, Held
<1>6. Asking'
  <2>1. CatalogTarget(run') = CatalogTarget(run)
    BY DEF CatalogTarget, Passes, Same
  <2>2. run.at = "catalog" => \A s \in Seats : seats[s] # run.n
    BY DEF IInv, InScript, Held, Asking
  <2>3. run.at # "idle" => run.n \in Runs
    BY DEF IInv, InScript
  <2>4. QED
    BY <2>1, <2>2, <2>3 DEF IInv, Asking, Passes, Same, Elsewhere
<1>7. QED
  BY <1>1, <1>3, <1>4, <1>5, <1>6 DEF IInv
\* The seat that the next attempt asks for, and the request it sends.
LEMMA TargetType ==
  ASSUME TypeOK, NEW q \in Run, q.attempt > 0
  PROVE  CatalogTarget(q) \in Seats
<1>1. CASE q.target # Nothing
  BY <1>1 DEF CatalogTarget, Run
<1>2. CASE q.target = Nothing
  <2>1. q.attempt \in Nat /\ SeatCount \in Nat /\ SeatCount > 0
    BY Settings DEF Run
  <2>2. ((q.attempt - 1) % SeatCount) \in 0..(SeatCount - 1)
    BY <2>1
  <2>3. ((q.attempt - 1) % SeatCount) + 1 \in 1..SeatCount
    BY <2>1, <2>2
  <2>4. QED
    BY <1>2, <2>3 DEF CatalogTarget, Seats
<1>3. QED
  BY <1>1, <1>2

LEMMA RequestWritten ==
  ASSUME TypeOK, NEW n \in Runs, NEW v \in Request
  PROVE  /\ [requests EXCEPT ![n] = v] \in [Runs -> Request \cup {Nothing}]
         /\ [requests EXCEPT ![n] = v][n] = v
         /\ \A m \in Runs : m # n => [requests EXCEPT ![n] = v][m] = requests[m]
  BY DEF TypeOK

LEMMA RequestKeepsIInv ==
  ASSUME IInv, RequestReservation
  PROVE  IInv'
<1> DEFINE next == [run EXCEPT !.attempt = @ + 1]
           order == [seat |-> CatalogTarget(next), status |-> "PROCESSING"]
           sent == [requests EXCEPT ![run.n] = order]
<1>1. /\ TypeOK /\ run \in Run /\ run.at = "reservation_request" /\ run.script = "metrics" /\ run.n \in Runs
      /\ run.attempt < AttemptLimit /\ run.confirmed + run.negative = run.attempt
      /\ \A s \in Seats : seats[s] = run.n => run.target = s
  BY DEF IInv, TypeOK, Counted, InScript, Asking, RequestReservation
<1>2. AttemptLimit \in Nat /\ run.attempt \in Nat /\ HealthAttempts \in Nat /\ Window \in Nat
  BY <1>1, Settings DEF Run
<1>3. /\ next \in Run /\ next.attempt = run.attempt + 1 /\ next.target = run.target /\ next.n = run.n
      /\ next.script = "metrics" /\ next.confirmed = run.confirmed /\ next.negative = run.negative
  BY <1>1, <1>2 DEF Run
<1>4. order \in Request
  <2>1. next \in Run /\ next.attempt > 0
    BY <1>2, <1>3
  <2> HIDE DEF next
  <2>2. CatalogTarget(next) \in Seats
    BY <1>1, <2>1, TargetType
  <2>3. QED
    BY <2>2 DEF Request
<1>5. /\ sent \in [Runs -> Request \cup {Nothing}] /\ sent[run.n] = order
      /\ \A m \in Runs : m # run.n => sent[m] = requests[m]
  BY <1>1, <1>4, RequestWritten
<1>6. \A s \in Seats : seats[s] = run.n => order.seat = s
  BY <1>1, Settings DEF CatalogTarget
<1>7. seats' = seats
  BY DEF RequestReservation
<1>8. \/ run' = [next EXCEPT !.at = "reservation_status", !.left = Window] /\ requests' = sent /\ UNCHANGED reports
      \/ End(1, "reservation_request", run.seen) /\ requests' \in {requests, sent}
  BY DEF RequestReservation
<1>9. order # Nothing
  BY <1>4, Settings
<1> HIDE DEF next, order, sent
<1>10. requests' \in [Runs -> Request \cup {Nothing}] /\ Held'
  <2>1. CASE requests' = requests
    BY <1>1, <1>7, <2>1 DEF IInv, Held, TypeOK
  <2>2. CASE requests' = sent
    BY <1>5, <1>6, <1>7, <1>9, <2>2 DEF IInv, Held
  <2>3. QED
    BY <1>8, <2>1, <2>2
<1>11. \A m \in Runs : m > run.n => requests'[m] = Nothing
  BY <1>1, <1>5, <1>8, Settings DEF IInv, Asking
<1>12. CASE run' = [next EXCEPT !.at = "reservation_status", !.left = Window] /\ requests' = sent /\ UNCHANGED reports
  <2>1. /\ run' \in Run /\ run'.at = "reservation_status" /\ run'.attempt = run.attempt + 1 /\ run'.target = run.target
        /\ run'.n = run.n /\ run'.script = "metrics" /\ run'.confirmed = run.confirmed /\ run'.negative = run.negative
    <3>1. "reservation_status" \in Places /\ Window \in 0..Window
      BY <1>2 DEF Places, MetricsPlaces
    <3>2. QED
      BY <1>3, <1>12, <3>1 DEF Run
  <2>2. TypeOK'
    BY <1>1, <1>2, <1>7, <1>10, <1>12, <2>1 DEF TypeOK
  <2>3. Counted' /\ InScript'
    BY <1>1, <1>2, <2>1 DEF Counted, InScript, Run
  <2>4. CatalogTarget(run') = order.seat
    BY <1>3, <2>1 DEF CatalogTarget, order
  <2>5. Asking'
    BY <1>1, <1>5, <1>7, <1>9, <1>11, <1>12, <2>1, <2>4 DEF Asking
  <2>6. QED
    BY <1>10, <2>2, <2>3, <2>5 DEF IInv
<1>13. CASE End(1, "reservation_request", run.seen)
  <2>1. "reservation_request" \in Stages /\ run.seen \in SUBSET Evidence
    BY <1>1 DEF Stages, Places, MetricsPlaces, Run
  <2>2. Passes(run') /\ run'.at = "idle" /\ ReportsType'
    BY <1>1, <1>13, <2>1, Ends
  <2>3. TypeOK'
    BY <1>1, <1>7, <1>10, <2>2 DEF TypeOK, Passes, Same, ReportsType
  <2>4. Counted' /\ InScript' /\ Asking'
    BY <1>11, <2>2 DEF Counted, InScript, Asking, Passes, Same
  <2>5. QED
    BY <1>10, <2>3, <2>4 DEF IInv
<1>14. QED
  BY <1>8, <1>12, <1>13
\* A status is an answer once it is not PROCESSING any more.
LEMMA StatusKeepsIInv ==
  ASSUME IInv, ReservationStatus
  PROVE  IInv'
<1>1. /\ TypeOK /\ run \in Run /\ run.at = "reservation_status" /\ run.script = "metrics" /\ run.n \in Runs
      /\ run.attempt <= AttemptLimit /\ run.confirmed + run.negative + 1 = run.attempt
      /\ requests[run.n] # Nothing /\ requests[run.n].seat = CatalogTarget(run)
      /\ \A s \in Seats : seats[s] = run.n /\ requests[run.n].status # "CONFIRMED" => run.target = s
  BY DEF IInv, TypeOK, Counted, InScript, Asking, ReservationStatus
<1>2. {"reservation_status", "reservation_outcomes"} \subseteq Stages
  BY DEF Stages, Places, MetricsPlaces
<1>3. ASSUME Quiet PROVE IInv'
  BY <1>1, <1>3, PassingKeepsIInv DEF Quiet, TypeOK
<1>4. CASE Fail("reservation_status") \/ Fail("reservation_outcomes") \/ Wait
  BY <1>1, <1>2, <1>3, <1>4, Fails, Waits
<1>5. /\ requests[run.n] \in Request /\ AttemptLimit \in Nat /\ HealthAttempts \in Nat /\ Window \in Nat
      /\ run.attempt \in Nat /\ run.confirmed \in Nat /\ run.negative \in Nat
  BY <1>1, Settings DEF TypeOK, Run
<1>6. ASSUME NEW status, status = requests[run.n].status, status \in Answers, Outcome(status) PROVE IInv'
  <2> DEFINE r == IF status = "CONFIRMED"
                  THEN [run EXCEPT !.confirmed = @ + 1, !.target = CatalogTarget(run)]
                  ELSE [run EXCEPT !.negative = @ + 1]
  <2>1. CatalogTarget(run) \in Seats
    BY <1>1, <1>5, TargetType
  <2>2. /\ r \in Run /\ r.n = run.n /\ r.script = "metrics" /\ r.attempt = run.attempt
        /\ r.confirmed + r.negative = run.attempt /\ r.confirmed \in Nat /\ r.negative \in Nat
    <3>1. CASE status = "CONFIRMED"
      <4>1. run.confirmed + 1 \in 0..AttemptLimit
        BY <1>1, <1>5
      <4>2. r = [run EXCEPT !.confirmed = run.confirmed + 1, !.target = CatalogTarget(run)]
        BY <3>1
      <4>3. r \in Run
        BY <1>1, <2>1, <4>1, <4>2 DEF Run
      <4>4. QED
        BY <1>1, <1>5, <4>2, <4>3 DEF Run
    <3>2. CASE status # "CONFIRMED"
      <4>1. run.negative + 1 \in 0..AttemptLimit
        BY <1>1, <1>5
      <4>2. r = [run EXCEPT !.negative = run.negative + 1]
        BY <3>2
      <4>3. r \in Run
        BY <1>1, <4>1, <4>2 DEF Run
      <4>4. QED
        BY <1>1, <1>5, <4>2, <4>3 DEF Run
    <3>3. QED
      BY <3>1, <3>2
  <2>3. \A s \in Seats : seats[s] = run.n => r.target = s
    <3>1. CASE status = "CONFIRMED"
      <4>1. r.target = requests[run.n].seat
        BY <1>1, <3>1 DEF Run
      <4>2. QED
        BY <1>1, <4>1 DEF IInv, Held
    <3>2. CASE status # "CONFIRMED"
      <4>1. r.target = run.target
        BY <1>1, <3>2 DEF Run
      <4>2. QED
        BY <1>1, <1>6, <3>2, <4>1
    <3>3. QED
      BY <3>1, <3>2
  <2>4. \/ /\ run' = [r EXCEPT !.at = "cloudwatch_metric", !.left = Window, !.seen = @ \cup {"reservation_status"}]
           /\ UNCHANGED <<seats, requests, reports>>
        \/ MoreAttempts(r) /\ run' = [r EXCEPT !.at = "reservation_request"] /\ UNCHANGED <<seats, requests, reports>>
        \/ Fail("reservation_outcomes")
    BY <1>6 DEF Outcome
  <2> HIDE DEF r
  <2>5. ASSUME UNCHANGED <<seats, requests, reports>>,
               run' \in Run, run'.n = r.n, run'.script = r.script, run'.attempt = r.attempt,
               run'.confirmed = r.confirmed, run'.negative = r.negative, run'.target = r.target,
               run'.at = "cloudwatch_metric" \/ (run'.at = "reservation_request" /\ r.attempt < AttemptLimit)
        PROVE  IInv'
    <3>1. TypeOK'
      BY <1>1, <2>2, <2>5 DEF TypeOK
    <3>2. Counted' /\ InScript'
      BY <1>1, <2>2, <2>5 DEF Counted, InScript
    <3>3. Held'
      BY <2>5 DEF IInv, Held
    <3>4. requests[run.n].status # "PROCESSING"
      BY <1>6 DEF Answers
    <3>5. Asking'
      BY <2>2, <2>3, <2>5, <3>4 DEF IInv, Asking
    <3>6. QED
      BY <3>1, <3>2, <3>3, <3>5 DEF IInv
  <2>6. CASE /\ run' = [r EXCEPT !.at = "cloudwatch_metric", !.left = Window, !.seen = @ \cup {"reservation_status"}]
             /\ UNCHANGED <<seats, requests, reports>>
    <3>1. "cloudwatch_metric" \in Places /\ Window \in 0..Window /\ "reservation_status" \in Evidence
      BY <1>5 DEF Places, MetricsPlaces, Evidence, MetricsEvidence
    <3>2. /\ run' \in Run /\ run'.n = r.n /\ run'.script = r.script /\ run'.attempt = r.attempt
          /\ run'.confirmed = r.confirmed /\ run'.negative = r.negative /\ run'.target = r.target
          /\ run'.at = "cloudwatch_metric"
      BY <2>2, <2>6, <3>1 DEF Run
    <3>3. QED
      BY <2>5, <2>6, <3>2
  <2>7. CASE MoreAttempts(r) /\ run' = [r EXCEPT !.at = "reservation_request"] /\ UNCHANGED <<seats, requests, reports>>
    <3>1. "reservation_request" \in Places /\ r.attempt < AttemptLimit
      BY <2>7 DEF Places, MetricsPlaces, MoreAttempts
    <3>2. /\ run' \in Run /\ run'.n = r.n /\ run'.script = r.script /\ run'.attempt = r.attempt
          /\ run'.confirmed = r.confirmed /\ run'.negative = r.negative /\ run'.target = r.target
          /\ run'.at = "reservation_request"
      BY <2>2, <2>7, <3>1 DEF Run
    <3>3. QED
      BY <2>5, <2>7, <3>1, <3>2
  <2>8. QED
    BY <1>4, <2>4, <2>6, <2>7
<1>7. QED
  BY <1>4, <1>6 DEF ReservationStatus

LEMMA HealthKeepsIInv ==
  ASSUME IInv, Health
  PROVE  IInv'
<1>1. TypeOK /\ run \in Run /\ run.at = "health" /\ run.script = "integrated"
  BY DEF IInv, TypeOK, InScript, Health
<1>2. "health" \in Stages /\ "health" \in Evidence /\ "happy" \in Places /\ "happy" \in Elsewhere
  BY DEF Stages, Places, IntegratedPlaces, Evidence, Scenarios, Elsewhere
<1>3. ASSUME Quiet PROVE IInv'
  BY <1>1, <1>3, PassingKeepsIInv DEF Quiet, TypeOK
<1>4. CASE Observed("health", "happy")
  <2>1. Quiet
    BY <1>1, <1>2, <1>4, Observes DEF Quiet, Passes
  <2>2. QED
    BY <1>3, <2>1
<1>5. CASE Fail("health")
  BY <1>1, <1>2, <1>3, <1>5, Fails
<1>6. CASE run.attempt + 1 < HealthAttempts /\ run' = [run EXCEPT !.attempt = @ + 1] /\ UNCHANGED <<seats, requests, reports>>
  <2>1. run.attempt \in Nat /\ HealthAttempts \in Nat /\ AttemptLimit \in Nat
    BY <1>1, Settings DEF Run
  <2>2. run.attempt + 1 \in 0..(AttemptLimit + HealthAttempts) /\ run.attempt + 1 <= HealthAttempts
    BY <1>6, <2>1
  <2>3. /\ run' \in Run /\ run'.attempt = run.attempt + 1 /\ run'.n = run.n
        /\ run'.script = "integrated" /\ run'.at = "health"
    BY <1>1, <1>6, <2>2 DEF Run
  <2>4. TypeOK'
    BY <1>1, <1>6, <2>2, <2>3 DEF TypeOK
  <2>5. Counted' /\ InScript' /\ Held' /\ Asking'
    BY <1>1, <1>6, <2>3 DEF IInv, Counted, InScript, Held, Asking
  <2>6. QED
    BY <2>4, <2>5 DEF IInv
<1>7. QED
  BY <1>4, <1>5, <1>6 DEF Health

\* The other clients take seats, for a scenario or for themselves.
LEMMA OthersTakeSeats ==
  ASSUME TypeOK, NEW s \in Seats, seats' = [seats EXCEPT ![s] = Others]
  PROVE  /\ seats' \in [Seats -> {Free, Others} \cup Runs]
         /\ \A x \in Seats : seats'[x] \in Runs => seats'[x] = seats[x]
  BY Settings DEF TypeOK

LEMMA ScenarioKeepsIInv ==
  ASSUME IInv, NEW scenario \in Scenarios, Scenario(scenario)
  PROVE  IInv'
<1>1. TypeOK /\ run \in Run /\ run.at = scenario
  BY DEF IInv, TypeOK, Scenario
<1>2. /\ scenario \in Stages /\ scenario \in Evidence /\ NextScenario(scenario) \in Places
      /\ NextScenario(scenario) \in Elsewhere /\ scenario # "idle" /\ run.seen \in SUBSET Evidence
  BY <1>1 DEF Stages, Places, IntegratedPlaces, Evidence, Scenarios, Elsewhere, NextScenario, Run
<1>3. ASSUME Quiet PROVE IInv'
  BY <1>1, <1>3, PassingKeepsIInv DEF Quiet, TypeOK
<1>4. CASE Fail(scenario)
  BY <1>1, <1>2, <1>3, <1>4, Fails
<1>5. CASE Observed(scenario, NextScenario(scenario))
  <2>1. Quiet
    BY <1>1, <1>2, <1>5, Observes DEF Quiet, Passes
  <2>2. QED
    BY <1>3, <2>1
<1>6. ASSUME NEW s \in Seats, seats' = [seats EXCEPT ![s] = Others], requests' = requests,
             \/ /\ run' = [run EXCEPT !.at = NextScenario(scenario), !.seen = @ \cup {scenario}]
                /\ UNCHANGED reports
             \/ End(1, scenario, run.seen)
      PROVE  IInv'
  <2>1. Passes(run') /\ ReportsType'
    <3>1. CASE End(1, scenario, run.seen)
      BY <1>1, <1>2, <3>1, Ends
    <3>2. CASE run' = [run EXCEPT !.at = NextScenario(scenario), !.seen = @ \cup {scenario}] /\ UNCHANGED reports
      <4>1. run' \in Run /\ Same(run') /\ run'.at = NextScenario(scenario)
        BY <1>1, <1>2, <3>2 DEF Run, Same
      <4>2. QED
        BY <1>1, <1>2, <3>2, <4>1 DEF Passes, TypeOK, ReportsType
    <3>3. QED
      BY <1>6, <3>1, <3>2
  <2>2. QED
    BY <1>1, <1>6, <2>1, OthersTakeSeats, PassingKeepsIInv
<1>7. QED
  BY <1>4, <1>5, <1>6 DEF Scenario

LEMMA StartKeepsIInv ==
  ASSUME IInv, NEW script \in Scripts, Start(script)
  PROVE  IInv'
<1>1. /\ TypeOK /\ run \in Run /\ run.n < MaxRuns /\ run' = NewRun(run.n + 1, script)
      /\ UNCHANGED <<seats, requests, reports>>
  BY DEF IInv, TypeOK, Start
<1>2. run.n \in Nat /\ {MaxRuns, AttemptLimit, HealthAttempts, Window} \subseteq Nat
  BY <1>1, Settings DEF Run
<1>3. /\ run.n + 1 \in 0..MaxRuns /\ run.n + 1 \in Runs /\ "prerequisites" \in Places
      /\ 0 \in 0..(AttemptLimit + HealthAttempts) /\ 0 \in 0..AttemptLimit /\ Window \in 0..Window
  BY <1>1, <1>2 DEF Runs, Places, MetricsPlaces
<1>4. /\ run' \in Run /\ run'.n = run.n + 1 /\ run'.script = script /\ run'.at = "prerequisites"
      /\ run'.attempt = 0 /\ run'.confirmed = 0 /\ run'.negative = 0
  BY <1>1, <1>3 DEF NewRun, Run
<1>5. TypeOK'
  BY <1>1, <1>2, <1>4 DEF TypeOK
<1>6. Counted' /\ InScript' /\ Held'
  BY <1>1, <1>3, <1>4 DEF IInv, Counted, InScript, Held
<1>7. Asking'
  <2>1. ASSUME NEW n \in Runs, n >= run.n + 1 PROVE requests[n] = Nothing
    <3>1. n \in Nat /\ n > run.n
      BY <1>2, <2>1, Settings
    <3>2. QED
      BY <3>1 DEF IInv, Asking
  <2>2. \A n \in Runs : n > run.n + 1 => requests[n] = Nothing
    BY <1>2, <2>1, Settings
  <2>3. requests[run.n + 1] = Nothing
    BY <1>2, <1>3, <2>1
  <2>4. QED
    BY <1>1, <1>4, <2>2, <2>3 DEF Asking
<1>8. QED
  BY <1>5, <1>6, <1>7 DEF IInv

LEMMA AnswerKeepsIInv ==
  ASSUME IInv, NEW n \in Runs, Answer(n)
  PROVE  IInv'
<1>1. PICK status \in Answers :
        /\ requests' = [requests EXCEPT ![n].status = status]
        /\ seats' = IF status = "CONFIRMED" THEN [seats EXCEPT ![requests[n].seat] = n] ELSE seats
  BY DEF Answer, Answers
<1>2. TypeOK /\ requests[n] # Nothing /\ requests[n].status = "PROCESSING" /\ UNCHANGED <<run, reports>>
  BY DEF IInv, Answer
<1>3. requests[n] \in Request /\ requests[n].seat \in Seats
  BY <1>2 DEF TypeOK, Request
<1>4. [requests[n] EXCEPT !.status = status] \in Request
  BY <1>3 DEF Request
<1>5. /\ requests' \in [Runs -> Request \cup {Nothing}]
      /\ requests'[n] # Nothing /\ requests'[n].seat = requests[n].seat /\ requests'[n].status = status
      /\ \A m \in Runs : m # n => requests'[m] = requests[m]
  <2>1. requests' = [requests EXCEPT ![n] = [requests[n] EXCEPT !.status = status]]
    BY <1>1
  <2>2. /\ requests' \in [Runs -> Request \cup {Nothing}]
        /\ requests'[n] = [requests[n] EXCEPT !.status = status]
        /\ \A m \in Runs : m # n => requests'[m] = requests[m]
    BY <1>2, <1>4, <2>1, RequestWritten
  <2>3. QED
    BY <1>3, <1>4, <2>2, Settings DEF Request
<1>6. /\ seats' \in [Seats -> {Free, Others} \cup Runs]
      /\ \A s \in Seats : seats'[s] = seats[s] \/ (seats'[s] = n /\ s = requests[n].seat /\ status = "CONFIRMED")
  BY <1>1, <1>2, <1>3 DEF TypeOK
<1>7. TypeOK'
  BY <1>2, <1>5, <1>6 DEF TypeOK
<1>8. Counted' /\ InScript'
  BY <1>2 DEF IInv, Counted, InScript
<1>9. Held'
  <2> SUFFICES ASSUME NEW m \in Runs, NEW s \in Seats, seats'[s] = m
               PROVE  requests'[m] # Nothing /\ requests'[m].seat = s
    BY DEF Held
  <2>1. CASE seats[s] = m
    BY <1>5, <2>1 DEF IInv, Held
  <2>2. CASE seats[s] # m
    BY <1>5, <1>6, <2>2
  <2>3. QED
    BY <2>1, <2>2
<1>10. Asking'
  <2>1. \A m \in Runs : m > run.n => requests'[m] = Nothing
    BY <1>2, <1>5 DEF IInv, Asking
  <2>2. run.at # "idle" => run.n \in Runs
    BY DEF IInv, InScript
  <2>3. CASE n # run.n
    <3>1. \A s \in Seats : seats'[s] = run.n => seats[s] = run.n
      BY <1>6, <2>3
    <3>2. run.at # "idle" => requests'[run.n] = requests[run.n]
      BY <1>5, <2>2, <2>3
    <3>3. QED
      BY <1>2, <2>1, <3>1, <3>2 DEF IInv, Asking
  <2>4. CASE n = run.n
    <3>1. run.at \notin {"prerequisites", "stack_output", "catalog", "reservation_request"}
      BY <1>2, <2>4 DEF IInv, Asking
    <3>2. ASSUME run.at = "reservation_status", NEW s \in Seats, seats'[s] = n, status # "CONFIRMED"
          PROVE  run.target = s
      BY <1>2, <1>6, <2>4, <3>2 DEF IInv, Asking
    <3>3. run.at = "reservation_status" => requests'[n].seat = CatalogTarget(run)
      BY <1>5, <2>4 DEF IInv, Asking
    <3>4. CatalogTarget(run') = CatalogTarget(run)
      BY <1>2
    <3>5. QED
      BY <1>2, <1>5, <2>1, <2>4, <3>1, <3>2, <3>3, <3>4 DEF Asking
  <2>5. QED
    BY <2>3, <2>4
<1>11. QED
  BY <1>7, <1>8, <1>9, <1>10 DEF IInv

-----------------------------------------------------------------------------
(* The invariant *)

LEMMA InitKeepsIInv == Init => IInv
<1> SUFFICES ASSUME Init PROVE IInv
  OBVIOUS
<1>1. run \in Run /\ run.at = "idle" /\ run.n = 0 /\ run.attempt = 0 /\ run.script = "metrics"
  <2>1. /\ 0 \in 0..MaxRuns /\ 0 \in 0..(AttemptLimit + HealthAttempts) /\ 0 \in 0..AttemptLimit /\ Window \in 0..Window
        /\ "metrics" \in Scripts /\ "idle" \in Places
    BY Settings DEF Scripts, Places
  <2>2. run = [NewRun(0, "metrics") EXCEPT !.at = "idle"]
    BY DEF Init
  <2>3. QED
    BY <2>1, <2>2 DEF NewRun, Run
<1>2. TypeOK
  BY <1>1, Settings DEF Init, TypeOK
<1>3. Counted /\ InScript
  BY <1>1 DEF Counted, InScript
<1>4. Held /\ Asking
  BY <1>1, Settings DEF Init, Held, Asking
<1>5. QED
  BY <1>2, <1>3, <1>4 DEF IInv

LEMMA StepKeepsIInv == IInv /\ [Next]_vars => IInv'
<1> SUFFICES ASSUME IInv, [Next]_vars PROVE IInv'
  OBVIOUS
<1>1. TypeOK
  BY DEF IInv
<1>2. ASSUME Quiet PROVE IInv'
  BY <1>1, <1>2, PassingKeepsIInv DEF Quiet, TypeOK
<1>3. CASE UNCHANGED vars
  BY <1>3 DEF vars, IInv, TypeOK, Counted, InScript, Held, Asking, CatalogTarget
<1>4. ASSUME NEW s \in Seats, OtherClient(s) PROVE IInv'
  <2>1. seats' = [seats EXCEPT ![s] = Others] /\ UNCHANGED <<requests, run, reports>>
    BY <1>4 DEF OtherClient
  <2>2. Passes(run') /\ ReportsType'
    BY <1>1, <2>1 DEF Passes, Same, TypeOK, ReportsType
  <2>3. QED
    BY <1>1, <2>1, <2>2, OthersTakeSeats, PassingKeepsIInv
<1>5. CASE \/ Prerequisites \/ StackOutputs \/ Catalog \/ CloudWatchMetric \/ AmpMetric \/ AmpQueryKilled
           \/ ContainerInsights \/ HttpRequest \/ GraphqlResponse \/ XrayQuery \/ WriteReport
           \/ CommandFails \/ Interrupt \/ Kill
  BY <1>2, <1>5, QuietSteps
<1>6. QED
  BY <1>3, <1>4, <1>5, RequestKeepsIInv, StatusKeepsIInv, HealthKeepsIInv, ScenarioKeepsIInv, StartKeepsIInv,
     AnswerKeepsIInv DEF Next, Step

LEMMA Invariant == Spec => []IInv
  BY InitKeepsIInv, StepKeepsIInv, PTL DEF Spec

\* The runs, requests, seats and reports keep their types; no run sends more
\* requests than its limit.
THEOREM TypeCorrect == Spec => []TypeOK
<1>1. IInv => TypeOK
  BY DEF IInv
<1>2. QED
  BY <1>1, Invariant, PTL

\* A metrics run takes at most one seat for good (managed-metrics-smoke.sh:514-522),
\* however late the service answers and whenever the run is interrupted.
THEOREM OneSeatEach == Spec => []OneSeatPerRun
<1>1. IInv => OneSeatPerRun
  <2> SUFFICES ASSUME IInv, NEW n \in Runs PROVE Cardinality(HeldBy(n)) <= 1
    BY DEF OneSeatPerRun
  <2>1. HeldBy(n) \subseteq {requests[n].seat}
    BY DEF IInv, Held, HeldBy
  <2>2. HeldBy(n) = {} \/ HeldBy(n) = {requests[n].seat}
    BY <2>1
  <2>3. Cardinality({}) = 0 /\ Cardinality({requests[n].seat}) = 1
    BY FS_EmptySet, FS_Singleton
  <2>4. Cardinality(HeldBy(n)) \in {0, 1}
    BY <2>2, <2>3
  <2>5. QED
    BY <2>4
<1>2. QED
  BY <1>1, Invariant, PTL
=============================================================================
