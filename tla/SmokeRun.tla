------------------------------- MODULE SmokeRun -------------------------------
(***************************************************************************)
(* The smoke scripts an operator runs against a deployed demo: managed-    *)
(* metrics-smoke.sh ("metrics"), xray-smoke.sh ("xray") and integrated-    *)
(* demo-smoke.sh ("integrated").  Each drives the service and leaves a     *)
(* report that the release checklist takes as evidence.                    *)
(*                                                                         *)
(* The reservation service is external: other clients use it too, a        *)
(* request may be processed late or never, and every call may fail.  A     *)
(* signal may end a script at any step.                                    *)
(***************************************************************************)
EXTENDS Naturals, FiniteSets

CONSTANTS
  SeatCount,       \* seats in the catalog, in the order it lists them
  AttemptLimit,    \* MANAGED_METRICS_SMOKE_ATTEMPT_LIMIT
  Window,          \* units of time before any deadline; a sleep takes at least one
  HealthAttempts,  \* 24
  MaxRuns,         \* bound
  Nothing

ASSUME SmokeAssumption == {SeatCount, AttemptLimit, Window, HealthAttempts, MaxRuns} \subseteq Nat \ {0}

VARIABLES
  seats,     \* seats[s]: the run that holds the seat, Free or Others
  requests,  \* requests[n]: the last reservation request of run n
  run,       \* the script that runs, or the last one that ran
  reports    \* reports[script]: the report file of the script

vars == <<seats, requests, run, reports>>

Seats   == 1..SeatCount
Runs    == 1..MaxRuns
Free    == 0
Others  == MaxRuns + 1  \* the other clients
Scripts == {"metrics", "xray", "integrated"}

Answers  == {"CONFIRMED", "REJECTED", "FAILED"}
Request  == [seat : Seats, status : Answers \cup {"PROCESSING"}]

ASSUME NothingAssumption == Nothing \notin Seats \cup Request

\* Where each script can be; "amp_wait" is an awscurl that does not return.
MetricsPlaces    == {"prerequisites", "stack_output", "catalog", "reservation_request", "reservation_status",
                     "cloudwatch_metric", "amp_metric", "amp_wait", "container_insights_metric"}
XrayPlaces       == {"prerequisites", "stack_output", "http_request", "graphql_response", "xray_query"}
Scenarios        == {"happy", "slow-recommendation", "recommendation-error"}
IntegratedPlaces == {"prerequisites", "health", "report"} \cup Scenarios
Places           == MetricsPlaces \cup XrayPlaces \cup IntegratedPlaces \cup {"idle"}

\* The stages that a report can name as failed.
Stages == Places \cup {"", "reservation_outcomes", "cloudwatch_query", "amp_query", "amp_contract",
                       "container_insights_query", "trace_timeout", "service_segment_timeout"}

\* What a successful report of each script says was observed.
MetricsEvidence == {"reservation_status", "cloudwatch_metric", "amp_metric", "container_insights_metric"}
XrayEvidence    == {"http_request", "graphql_response", "xray_query"}
Evidence         == MetricsEvidence \cup XrayEvidence \cup Scenarios \cup {"health", "stack_output", "catalog", "trace"}
Required(script) ==
  CASE script = "metrics" -> MetricsEvidence
    [] script = "xray" -> XrayEvidence
    [] script = "integrated" -> Scenarios \cup {"health"}

Run == [n : 0..MaxRuns, script : Scripts, at : Places,
        attempt : 0..AttemptLimit + HealthAttempts, confirmed : 0..AttemptLimit, negative : 0..AttemptLimit,
        target : Seats \cup {Nothing},  \* confirmed_target
        left : 0..Window,               \* time until the deadline of the loop
        seen : SUBSET Evidence]
\* seen is what the run observed, kept beside the report as a history.
Report == [result : {"success", "failure"}, failure_stage : Stages, seen : SUBSET Evidence]

NewRun(n, script) == [n |-> n, script |-> script, at |-> "prerequisites", attempt |-> 0, confirmed |-> 0,
                      negative |-> 0, target |-> Nothing, left |-> Window, seen |-> {}]

TypeOK ==
  /\ seats \in [Seats -> {Free, Others} \cup Runs]
  /\ requests \in [Runs -> Request \cup {Nothing}]
  /\ run \in Run
  /\ run.script = "metrics" => run.attempt <= AttemptLimit
  /\ run.script = "integrated" => run.attempt <= HealthAttempts
  /\ reports \in [Scripts -> Report \cup {Nothing}]

Init ==
  /\ seats \in [Seats -> {Free, Others}]
  /\ requests = [n \in Runs |-> Nothing]
  /\ run = [NewRun(0, "metrics") EXCEPT !.at = "idle"]
  /\ reports = [script \in Scripts |-> Nothing]

----------------------------------------------------------------------------
(* How a script ends *)

Ended == [run EXCEPT !.at = "idle"]

\* on_exit of managed-metrics-smoke.sh and xray-smoke.sh.
OnExit(status, stage, seen) ==
  IF status = 0 THEN [result |-> "success", failure_stage |-> "", seen |-> seen]
  ELSE [result |-> "failure", failure_stage |-> stage, seen |-> seen]

\* emit_report may fail (|| true); integrated-demo-smoke.sh has no exit report.
End(status, stage, seen) ==
  /\ run' = [Ended EXCEPT !.seen = seen]
  /\ \/ run.script # "integrated" /\ reports' = [reports EXCEPT ![run.script] = OnExit(status, stage, seen)]
     \/ UNCHANGED reports

Fail(stage) == End(1, stage, run.seen) /\ UNCHANGED <<seats, requests>>
\* exit 0 in the last stage.
Succeed(stage) == End(0, "", run.seen \cup {stage}) /\ UNCHANGED <<seats, requests>>

\* What failure_stage can be at a place: a script sets it at the loop, after it
\* has waited and built the query.
StagesSoFar ==
  CASE run.at = "cloudwatch_metric"         -> {"prerequisites", "cloudwatch_metric"}
    [] run.at = "amp_metric"                -> {"cloudwatch_metric", "amp_metric"}
    [] run.at = "amp_wait"                  -> {"amp_metric"}
    [] run.at = "container_insights_metric" -> {"amp_metric", "container_insights_metric"}
    [] run.at = "xray_query"                -> {"prerequisites", "xray_query"}
    [] OTHER                                -> {"prerequisites"}

\* SIGINT, SIGTERM or SIGHUP: bash runs the EXIT trap, and $? is the status of
\* the command that completed last.
Interrupt ==
  /\ run.at # "idle"
  /\ \E status \in {0, 1}, stage \in StagesSoFar : End(status, stage, run.seen)
  /\ UNCHANGED <<seats, requests>>

\* set -e: a command that the script does not test fails, a node helper or mktemp.
CommandFails == run.at \notin {"idle", "amp_wait"} /\ \E stage \in StagesSoFar : Fail(stage)

\* SIGKILL: no trap runs.
Kill == run.at # "idle" /\ run' = Ended /\ UNCHANGED <<seats, requests, reports>>

Observed(stage, next) ==
  /\ run' = [run EXCEPT !.at = next, !.left = Window, !.seen = @ \cup {stage}]
  /\ UNCHANGED <<seats, requests, reports>>

Start(script) ==
  /\ run.at = "idle" /\ run.n < MaxRuns
  /\ run' = NewRun(run.n + 1, script)
  /\ UNCHANGED <<seats, requests, reports>>

\* Commands, settings and the report path; base_url may be given (--base-url).
Prerequisites ==
  /\ run.at = "prerequisites"
  /\ \/ Fail("prerequisites")
     \/ /\ \E next \in CASE run.script = "metrics"    -> {"stack_output"}
                         [] run.script = "xray"       -> {"stack_output", "http_request"}
                         [] run.script = "integrated" -> {"health"} :
             run' = [run EXCEPT !.at = next]
        /\ UNCHANGED <<seats, requests, reports>>

----------------------------------------------------------------------------
(* managed-metrics-smoke.sh *)

\* The outputs, and then the form of the base URL.
StackOutputs ==
  /\ run.at = "stack_output"
  /\ \/ \E stage \in {"stack_output", "prerequisites"} : Fail(stage)
     \/ run.script = "metrics" /\ Observed("stack_output", "catalog")
     \/ run.script = "xray" /\ Observed("stack_output", "http_request")

Catalog ==
  /\ run.at = "catalog"
  /\ Fail("catalog") \/ Observed("catalog", "reservation_request")

\* Mutant: the next seat also after a confirmation.
RotatingTarget(r) == ((r.attempt - 1) % SeatCount) + 1

\* catalog_target: the seats in turn until one is confirmed, then that seat.
CatalogTarget(r) == IF r.target # Nothing THEN r.target ELSE ((r.attempt - 1) % SeatCount) + 1

\* Each attempt is a new request; the service may have it although the call failed.
RequestReservation ==
  /\ run.at = "reservation_request" /\ run.script = "metrics"
  /\ LET next == [run EXCEPT !.attempt = @ + 1]
         sent == [requests EXCEPT ![run.n] = [seat |-> CatalogTarget(next), status |-> "PROCESSING"]]
     IN \/ /\ run' = [next EXCEPT !.at = "reservation_status", !.left = Window]
           /\ requests' = sent /\ UNCHANGED reports
        \/ /\ End(1, "reservation_request", run.seen)
           /\ requests' \in {requests, sent}
  /\ UNCHANGED seats

\* Mutant: one attempt more than the limit.
AttemptsToTheLimit(r) == r.attempt <= AttemptLimit

MoreAttempts(r) == r.attempt < AttemptLimit

\* A terminal status is counted; the loop ends with both outcomes or the limit.
Outcome(status) ==
  LET r == IF status = "CONFIRMED"
           THEN [run EXCEPT !.confirmed = @ + 1, !.target = CatalogTarget(run)]
           ELSE [run EXCEPT !.negative = @ + 1]
  IN IF r.confirmed > 0 /\ r.negative > 0
     THEN /\ run' = [r EXCEPT !.at = "cloudwatch_metric", !.left = Window, !.seen = @ \cup {"reservation_status"}]
          /\ UNCHANGED <<seats, requests, reports>>
     ELSE IF MoreAttempts(r)
     THEN run' = [r EXCEPT !.at = "reservation_request"] /\ UNCHANGED <<seats, requests, reports>>
     ELSE Fail("reservation_outcomes")

\* Time passes until the next poll: a sleep, and how long the calls take.
Wait == \E l \in 0..(run.left - 1) : run' = [run EXCEPT !.left = l] /\ UNCHANGED <<seats, requests, reports>>

ReservationStatus ==
  /\ run.at = "reservation_status"
  /\ IF run.left = 0
     THEN Fail("reservation_status")
     ELSE \/ Fail("reservation_status")
          \/ LET status == requests[run.n].status IN
             IF status \in Answers THEN Outcome(status) ELSE Wait

\* CloudWatch and Container Insights: the deadline is tested after the query, so
\* one query follows it.  Anyone's traffic makes the datapoints appear.
CloudWatch(stage, query, next) ==
  /\ run.at = stage
  /\ \/ Fail(query)
     \/ Observed(stage, next)
     \/ IF run.left = 0 THEN Fail(stage) ELSE Wait

CloudWatchMetric == CloudWatch("cloudwatch_metric", "cloudwatch_query", "amp_metric")

\* AMP: the deadline is tested before the query, and bounds the process.
AmpMetric ==
  /\ run.at = "amp_metric"
  /\ IF run.left = 0
     THEN Fail("amp_metric")
     ELSE \/ \E stage \in {"amp_query", "amp_contract"} : Fail(stage)
          \/ Observed("amp_metric", "container_insights_metric")
          \/ Wait
          \/ run' = [run EXCEPT !.at = "amp_wait"] /\ UNCHANGED <<seats, requests, reports>>

\* Mutant: awscurl without a time limit.
UnboundedAmpQuery == FALSE

\* run_amp_query_with_timeout: SIGKILL at the deadline.
AmpQueryKilled == run.at = "amp_wait" /\ Fail("amp_query")

\* The last step of the script: exit 0.
ContainerInsights ==
  /\ run.at = "container_insights_metric"
  /\ \/ Fail("container_insights_query")
     \/ Succeed("container_insights_metric")
     \/ IF run.left = 0 THEN Fail("container_insights_metric") ELSE Wait

----------------------------------------------------------------------------
(* xray-smoke.sh *)

HttpRequest == run.at = "http_request" /\ (Fail("http_request") \/ Observed("http_request", "graphql_response"))
GraphqlResponse == run.at = "graphql_response" /\ (Fail("graphql_response") \/ Observed("graphql_response", "xray_query"))

\* The deadline is tested before the query.  A trace may lack the service segment.
XrayQuery ==
  /\ run.at = "xray_query"
  /\ IF run.left = 0
     THEN Fail(IF "trace" \in run.seen THEN "service_segment_timeout" ELSE "trace_timeout")
     ELSE \/ Fail("xray_query")
          \/ Succeed("xray_query")
          \/ Wait
          \/ /\ \E l \in 0..(run.left - 1) : run' = [run EXCEPT !.left = l, !.seen = @ \cup {"trace"}]
             /\ UNCHANGED <<seats, requests, reports>>

----------------------------------------------------------------------------
(* integrated-demo-smoke.sh *)

Health ==
  /\ run.at = "health"
  /\ \/ Observed("health", "happy")
     \/ IF run.attempt + 1 < HealthAttempts
        THEN run' = [run EXCEPT !.attempt = @ + 1] /\ UNCHANGED <<seats, requests, reports>>
        ELSE Fail("health")

NextScenario(scenario) ==
  CASE scenario = "happy"                -> "slow-recommendation"
    [] scenario = "slow-recommendation"  -> "recommendation-error"
    [] scenario = "recommendation-error" -> "report"

\* Two of the scenarios reserve a seat; a bad response may follow a reservation.
Scenario(scenario) ==
  /\ run.at = scenario
  /\ \/ Fail(scenario)
     \/ scenario = "recommendation-error" /\ Observed(scenario, NextScenario(scenario))
     \/ /\ scenario # "recommendation-error"
        /\ \E s \in Seats : seats[s] = Free /\ seats' = [seats EXCEPT ![s] = Others]
        /\ \/ run' = [run EXCEPT !.at = NextScenario(scenario), !.seen = @ \cup {scenario}] /\ UNCHANGED reports
           \/ End(1, scenario, run.seen)
        /\ UNCHANGED requests

WriteReport ==
  /\ run.at = "report" /\ run' = Ended
  /\ reports' = [reports EXCEPT !["integrated"] = [result |-> "success", failure_stage |-> "", seen |-> run.seen]]
  /\ UNCHANGED <<seats, requests>>

----------------------------------------------------------------------------
(* The reservation service and its other clients *)

\* Requests are answered in any order, also after the script that sent them ended.
Answer(n) ==
  /\ requests[n] # Nothing /\ requests[n].status = "PROCESSING"
  /\ LET s == requests[n].seat IN
     \E status \in IF seats[s] = Free THEN {"CONFIRMED", "FAILED"} ELSE {"REJECTED", "FAILED"} :
       /\ requests' = [requests EXCEPT ![n].status = status]
       /\ seats' = IF status = "CONFIRMED" THEN [seats EXCEPT ![s] = n] ELSE seats
  /\ UNCHANGED <<run, reports>>

OtherClient(s) == seats[s] = Free /\ seats' = [seats EXCEPT ![s] = Others] /\ UNCHANGED <<requests, run, reports>>

----------------------------------------------------------------------------

Step ==
  \/ Prerequisites \/ StackOutputs \/ Catalog \/ RequestReservation \/ ReservationStatus
  \/ CloudWatchMetric \/ AmpMetric \/ AmpQueryKilled \/ ContainerInsights
  \/ HttpRequest \/ GraphqlResponse \/ XrayQuery
  \/ Health \/ WriteReport
  \/ \E scenario \in Scenarios : Scenario(scenario)

Next ==
  \/ Step
  \/ \E script \in Scripts : Start(script)
  \/ CommandFails \/ Interrupt \/ Kill
  \/ \E n \in Runs : Answer(n)
  \/ \E s \in Seats : OtherClient(s)

Spec == Init /\ [][Next]_vars
\* The shell goes on, curl and the AWS CLI have time limits of their own, and
\* the time to a deadline passes.  The service need not answer.
FairSpec == Spec /\ WF_vars(Step)

----------------------------------------------------------------------------
(* Properties *)

HeldBy(n) == {s \in Seats : seats[s] = n}

\* The traffic of one metrics run takes at most one seat of the demo for good,
\* whatever other clients take and however late the service answers: the attempt
\* after a confirmation asks for the same seat (managed-metrics-smoke.sh:514-522).
OneSeatPerRun == \A n \in Runs : Cardinality(HeldBy(n)) <= 1

\* Every run ends, also if the service never answers, nothing appears in a
\* backend and the AMP query hangs ("bound the actual process so a stalled
\* request cannot hold the report open", managed-metrics-smoke.sh:668-669).
EveryRunEnds == run.at # "idle" ~> run.at = "idle"

\* A report that says success is evidence that every stage was observed
\* ("writes a sanitized dual-route success report with AMP and Container
\* Insights evidence", test/managed-metrics-smoke.test.ts:72).
SuccessReportIsEvidence ==
  \A script \in Scripts :
    reports[script] # Nothing /\ reports[script].result = "success" => Required(script) \subseteq reports[script].seen
=============================================================================
