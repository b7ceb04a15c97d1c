------------------------- MODULE TransportComparison -------------------------
(***************************************************************************)
(* compare:audit-transports: send controlled logins, then look up their    *)
(* audit events in the Security Lake and the legacy store, one Athena      *)
(* query at a time, until all are found or the deadline passes; read the   *)
(* delivery health once and give the verdict.                              *)
(*                                                                         *)
(* Time is discrete: the runner acts while now = until and sleeps, or      *)
(* waits for a login's answer, while now < until.  The two audit paths     *)
(* deliver on their own at any time.                                       *)
(***************************************************************************)
EXTENDS Integers, Sequences

CONSTANTS
  Attempts,       \* controlled logins
  LoginTimes,     \* times a login may take, up to its request timeout
  Timeout,        \* settings.timeoutSeconds
  PollInterval,   \* settings.pollIntervalSeconds
  QueryPoll,      \* QUERY_STATE_POLL_MS of the Athena reader
  RefreshCatalog, \* settings.refreshCatalog
  RefreshDelay,   \* settings.catalogRefreshDelaySeconds
  Midnight        \* when the UTC day changes

ASSUME SettingsAssumption ==
  /\ {Attempts, Timeout, PollInterval, QueryPoll} \subseteq Nat \ {0}
  /\ LoginTimes \cup {RefreshDelay, Midnight} \subseteq Nat
  /\ \E t \in LoginTimes : \A u \in LoginTimes : u <= t   \* the request timeout
  /\ PollInterval <= Timeout /\ RefreshCatalog \in BOOLEAN

Logins   == 1..Attempts
Stores   == {"securityLake", "legacy"}
Deadline == Timeout                                  \* the run starts at 0
LongestLogin == CHOOSE t \in LoginTimes : \A u \in LoginTimes : u <= t
LastTime == Timeout + QueryPoll + Attempts * LongestLogin
Time     == 0..LastTime
Never    == -1
Day(t)   == IF t < Midnight THEN 0 ELSE 1

VARIABLES
  now, until,
  pc,          \* what the runner does next
  logins,      \* the answered logins, in order
  iterationAt, \* when the current iteration computed its lookup window
  lookup,      \* the Athena query of the store being polled
  polls,       \* polls[s]: the StorePoll of store s
  resolved,    \* the Security Lake table name is cached
  crawler,     \* the runner has started the crawler
  verdict,     \* status of the result
  place,       \* place[s][i]: where the event of login i is on its way to store s
  visibleAt,   \* visibleAt[s][i]: since when a query of s can return it
  registered   \* days whose Security Lake partition is in the catalog

clock   == <<now, until>>
paths   == <<place, visibleAt, registered>>
vars    == <<clock, pc, logins, iterationAt, lookup, polls, resolved, crawler, verdict, paths>>

PC == {"logins", "iterate", "securityLake", "legacy", "decide", "health", "done"}

LoginAttempt == [sentAt : Time, expected : BOOLEAN, receipt : BOOLEAN]

\* state: how the query stands; asked: the IDs it looks for; rows: those it
\* could return when it was submitted.
Lookup == [state : {"none", "running", "succeeded", "stopped", "failed"},
           asked : SUBSET Logins, rows : SUBSET Logins]
NoLookup == [state |-> "none", asked |-> {}, rows |-> {}]

StorePoll == [error : {"none", "table", "query"}, firstSeen : [Logins -> Time \cup {Never}]]

TypeOK ==
  /\ now \in Time /\ until \in Time /\ now <= until
  /\ pc \in PC
  /\ logins \in Seq(LoginAttempt) /\ Len(logins) <= Attempts
  /\ iterationAt \in Time
  /\ lookup \in Lookup
  /\ polls \in [Stores -> StorePoll]
  /\ resolved \in BOOLEAN
  /\ crawler \in BOOLEAN
  /\ verdict \in {"none", "passed", "failed"}
  /\ place \in [Stores -> [Logins -> {"none", "pending", "stored", "deadLettered"}]]
  /\ visibleAt \in [Stores -> [Logins -> Time \cup {Never}]]
  /\ registered \subseteq {0, 1}

Init ==
  /\ now = 0 /\ until = 0
  /\ pc = "logins" /\ logins = <<>> /\ iterationAt = 0
  /\ lookup = NoLookup
  /\ polls = [s \in Stores |-> [error |-> "none", firstSeen |-> [i \in Logins |-> Never]]]
  /\ resolved = FALSE /\ crawler = FALSE /\ verdict = "none"
  /\ place = [s \in Stores |-> [i \in Logins |-> "none"]]
  /\ visibleAt = [s \in Stores |-> [i \in Logins |-> Never]]
  /\ registered \in {{}, {0}}

Awake == now = until
Wait(t) == until' = t /\ UNCHANGED now

----------------------------------------------------------------------------
(* sendLogins: one at a time, never retried. *)

\* expected: the HTTP status is the one that the attempt calls for.  receipt: the
\* body is small enough, JSON, and carries an audit_event_id; a login without one
\* may fail open, and one that got no answer in time has none either.
LoginAnswers == [expected : BOOLEAN, receipt : BOOLEAN]

SendLogin ==
  /\ pc = "logins" /\ Awake /\ Len(logins) < Attempts
  /\ \E answer \in LoginAnswers, duration \in LoginTimes :
       /\ logins' = Append(logins, [sentAt |-> now, expected |-> answer.expected, receipt |-> answer.receipt])
       /\ Wait(now + duration)
       /\ place' = IF answer.receipt THEN [s \in Stores |-> [place[s] EXCEPT ![Len(logins) + 1] = "pending"]]
                   ELSE place
  /\ UNCHANGED <<pc, iterationAt, lookup, polls, resolved, crawler, verdict, visibleAt, registered>>

LoginsDone ==
  /\ pc = "logins" /\ Awake /\ Len(logins) = Attempts
  /\ pc' = "iterate"
  /\ UNCHANGED <<clock, logins, iterationAt, lookup, polls, resolved, crawler, verdict, paths>>

Ids        == {i \in 1..Len(logins) : logins[i].receipt}
Unseen(s)  == {i \in Ids : polls[s].firstSeen[i] = Never}
Awaiting(s) == polls[s].error = "none" /\ Unseen(s) # {}

----------------------------------------------------------------------------
(* The polling loop. *)

Iterate ==
  /\ pc = "iterate" /\ Awake
  /\ iterationAt' = now
  /\ pc' = "securityLake"
  /\ UNCHANGED <<clock, logins, lookup, polls, resolved, crawler, verdict, paths>>

\* Mutant: the window is the day of the first login only.
FirstDayOnly == {Day(logins[1].sentAt)}

\* utcDaysBetween(first login, start of the iteration)
Window == Day(logins[1].sentAt)..Day(iterationAt)

\* Security Lake is partitioned by event day, the legacy table by delivery day.
PartitionDay(s, i) == Day(IF s = "legacy" THEN visibleAt[s][i] ELSE logins[i].sentAt)

Rows(s) == {i \in Ids : visibleAt[s][i] # Never /\ PartitionDay(s, i) \in Window}

AfterStore(s) == IF s = "securityLake" THEN "legacy" ELSE "decide"

\* pollStore returns at once after an error, or when nothing is missing.
SkipStore(s) ==
  /\ pc = s /\ Awake /\ lookup.state # "running" /\ ~Awaiting(s)
  /\ pc' = AfterStore(s)
  /\ lookup' = NoLookup
  /\ UNCHANGED <<clock, logins, iterationAt, polls, resolved, crawler, verdict, paths>>

\* resolveTable: the crawler's first catalog target, kept once it was found.
TableResolved(s) == resolved' = (resolved \/ s = "securityLake")

\* buildQuery and StartQueryExecution
StartQuery(s) ==
  /\ pc = s /\ Awake /\ lookup.state # "running" /\ Awaiting(s)
  /\ lookup' = [state |-> "running", asked |-> Unseen(s), rows |-> Rows(s)]
  /\ TableResolved(s)
  /\ UNCHANGED <<clock, pc, logins, iterationAt, polls, crawler, verdict, paths>>

LookupFails(s, error) ==
  /\ polls' = [polls EXCEPT ![s].error = error]
  /\ lookup' = [NoLookup EXCEPT !.state = "failed"]
  /\ pc' = AfterStore(s)
  /\ UNCHANGED <<clock, logins, iterationAt, resolved, crawler, verdict, paths>>

\* The crawler's catalog target cannot be read; the next call would read it again.
TableUnresolved ==
  /\ pc = "securityLake" /\ Awake /\ lookup.state # "running" /\ Awaiting("securityLake")
  /\ ~resolved
  /\ LookupFails("securityLake", "table")

\* The query is refused, ends FAILED or CANCELLED, or its rows cannot be read.
QueryFails(s) ==
  /\ pc = s /\ Awake /\ Awaiting(s)
  /\ s = "securityLake" => resolved
  /\ LookupFails(s, "query")

\* firstSeen once the IDs in found are seen: only those asked for are set.
SeenNow(s, found) ==
  [i \in Logins |-> IF i \in lookup.asked \cap found THEN now ELSE polls[s].firstSeen[i]]

\* GetQueryExecution says SUCCEEDED, and all pages are read: the rows there at
\* submission, and perhaps some that came while the query ran.
QuerySucceeds(s) ==
  /\ pc = s /\ Awake /\ lookup.state = "running"
  /\ \E later \in SUBSET (Rows(s) \ lookup.rows) :
       polls' = [polls EXCEPT ![s].firstSeen = SeenNow(s, lookup.rows \cup later)]
  /\ lookup' = [NoLookup EXCEPT !.state = "succeeded"]
  /\ pc' = AfterStore(s)
  /\ UNCHANGED <<clock, logins, iterationAt, resolved, crawler, verdict, paths>>

\* Mutant: a query that is still running is waited for without end.
QueryWaitsForever(s) ==
  /\ pc = s /\ Awake /\ lookup.state = "running" /\ now < Deadline
  /\ Wait(now + QueryPoll)
  /\ UNCHANGED <<pc, logins, iterationAt, lookup, polls, resolved, crawler, verdict, paths>>

\* Mutant: running out of time is recorded as an error of the store.
QueryRunsAsError(s) ==
  /\ pc = s /\ Awake /\ lookup.state = "running"
  /\ \/ /\ now < Deadline
        /\ Wait(now + QueryPoll)
        /\ UNCHANGED <<pc, lookup, polls>>
     \/ /\ now >= Deadline
        /\ lookup' = [NoLookup EXCEPT !.state = "stopped"]
        /\ polls' = [polls EXCEPT ![s].error = "deadline"]
        /\ pc' = AfterStore(s)
        /\ UNCHANGED clock
  /\ UNCHANGED <<logins, iterationAt, resolved, crawler, verdict, paths>>

\* Still queued or running: sleep, or stop the query once the deadline passed.
QueryRuns(s) ==
  /\ pc = s /\ Awake /\ lookup.state = "running"
  /\ \/ /\ now < Deadline
        /\ Wait(now + QueryPoll)
        /\ UNCHANGED <<pc, lookup>>
     \/ /\ now >= Deadline
        /\ lookup' = [NoLookup EXCEPT !.state = "stopped"]
        /\ pc' = AfterStore(s)
        /\ UNCHANGED clock
  /\ UNCHANGED <<logins, iterationAt, polls, resolved, crawler, verdict, paths>>

\* The crawler starts at most once, one buffer interval after the last login.
RefreshDue ==
  /\ RefreshCatalog /\ ~crawler /\ Awaiting("securityLake")
  /\ now - logins[Len(logins)].sentAt >= RefreshDelay

\* A crawler that is running already counts as started, and so does one whose
\* start fails: it is not tried again.
StartCrawlerIfDue == crawler' = (crawler \/ RefreshDue)

\* The loop's locals go out of scope.
EndOfIteration == iterationAt' = 0 /\ lookup' = NoLookup

\* Mutant: polling ends when one of the stores is done.
DecideOnEither ==
  /\ pc = "decide" /\ Awake
  /\ IF (\A s \in Stores : Awaiting(s)) /\ now < Deadline
     THEN /\ StartCrawlerIfDue
          /\ Wait(IF now + PollInterval < Deadline THEN now + PollInterval ELSE Deadline)
          /\ pc' = "iterate"
     ELSE /\ pc' = "health"
          /\ UNCHANGED <<clock, crawler>>
  /\ EndOfIteration
  /\ UNCHANGED <<logins, polls, resolved, verdict, paths>>

\* Mutant: the sleep is a whole poll interval.
DecideUncapped ==
  /\ pc = "decide" /\ Awake
  /\ IF (\E s \in Stores : Awaiting(s)) /\ now < Deadline
     THEN /\ StartCrawlerIfDue
          /\ Wait(now + PollInterval)
          /\ pc' = "iterate"
     ELSE /\ pc' = "health"
          /\ UNCHANGED <<clock, crawler>>
  /\ EndOfIteration
  /\ UNCHANGED <<logins, polls, resolved, verdict, paths>>

Decide ==
  /\ pc = "decide" /\ Awake
  /\ IF (\E s \in Stores : Awaiting(s)) /\ now < Deadline
     THEN /\ StartCrawlerIfDue
          /\ Wait(IF now + PollInterval < Deadline THEN now + PollInterval ELSE Deadline)
          /\ pc' = "iterate"
     ELSE /\ pc' = "health"
          /\ UNCHANGED <<clock, crawler>>
  /\ EndOfIteration
  /\ UNCHANGED <<logins, polls, resolved, verdict, paths>>

----------------------------------------------------------------------------
(* The verdict. *)

AllFound == \A s \in Stores : Unseen(s) = {}

\* Mutant: a login without a receipt does not count against the run.
PassedWithoutReceipts(healthy) ==
  /\ \A i \in Logins : logins[i].expected
  /\ AllFound /\ healthy

Passed(healthy) ==
  /\ \A i \in Logins : logins[i].expected /\ logins[i].receipt
  /\ AllFound /\ healthy

\* Whether the queue is empty and no alarm rings.  They may show other events'
\* failures, and may not be readable; an event of this run in the queue shows.
HealthReadings ==
  {healthy \in BOOLEAN : healthy => \A i \in Logins : place["securityLake"][i] # "deadLettered"}

ReadHealth ==
  /\ pc = "health"
  /\ \E healthy \in HealthReadings : verdict' = IF Passed(healthy) THEN "passed" ELSE "failed"
  /\ pc' = "done"
  /\ UNCHANGED <<clock, logins, iterationAt, lookup, polls, resolved, crawler, paths>>

StoreStatus(s) ==
  IF polls[s].error # "none" THEN "error"
  ELSE IF Unseen(s) = {} THEN "complete" ELSE "incomplete"

Tick ==
  /\ now < until
  /\ now' = now + 1
  /\ UNCHANGED <<until, pc, logins, iterationAt, lookup, polls, resolved, crawler, verdict, paths>>

\* What the runner does whatever it is answered.
Runner ==
  \/ SendLogin \/ LoginsDone \/ Iterate
  \/ \E s \in Stores : SkipStore(s) \/ StartQuery(s) \/ QueryRuns(s)
  \/ Decide \/ ReadHealth \/ Tick

\* The other answers of Athena and Glue.
Answers == TableUnresolved \/ \E s \in Stores : QueryFails(s) \/ QuerySucceeds(s)

----------------------------------------------------------------------------
(* The audit paths. *)

\* Visible: stored and, in Security Lake, its partition is registered.
Deliver(s, i) ==
  /\ pc # "done" /\ place[s][i] = "pending"
  /\ place' = [place EXCEPT ![s][i] = "stored"]
  /\ visibleAt' = IF s = "legacy" \/ Day(logins[i].sentAt) \in registered
                  THEN [visibleAt EXCEPT ![s][i] = now] ELSE visibleAt
  /\ UNCHANGED <<clock, pc, logins, iterationAt, lookup, polls, resolved, crawler, verdict, registered>>

\* EventBridge gives up.  An event lost in any other way stays pending.
DeadLetter(i) ==
  /\ pc # "done" /\ place["securityLake"][i] = "pending"
  /\ place' = [place EXCEPT !["securityLake"][i] = "deadLettered"]
  /\ UNCHANGED <<clock, pc, logins, iterationAt, lookup, polls, resolved, crawler, verdict, visibleAt, registered>>

StoredDays == {Day(logins[i].sentAt) : i \in {j \in Logins : place["securityLake"][j] = "stored"}}

\* A crawl ends, the runner's or a scheduled one.
RegisterPartitions ==
  /\ pc # "done" /\ ~(StoredDays \subseteq registered)
  /\ registered' = registered \cup StoredDays
  /\ visibleAt' = [visibleAt EXCEPT !["securityLake"] =
       [i \in Logins |-> IF place["securityLake"][i] = "stored" /\ @[i] = Never THEN now ELSE @[i]]]
  /\ UNCHANGED <<clock, pc, logins, iterationAt, lookup, polls, resolved, crawler, verdict, place>>

AuditPaths ==
  \/ \E s \in Stores, i \in Logins : Deliver(s, i)
  \/ \E i \in Logins : DeadLetter(i)
  \/ RegisterPartitions

Next == Runner \/ Answers \/ AuditPaths
Spec     == Init /\ [][Next]_vars
\* The runner is a running process; nothing is assumed of Athena or the paths.
FairSpec == Spec /\ WF_vars(Runner)

----------------------------------------------------------------------------
(* Properties *)

\* A passed run is evidence: every login was answered as expected and audited,
\* and its event is in both stores (verdict.ts:47-57, README exit code 0).
PassedIsEvidence ==
  verdict = "passed" =>
    \A i \in Logins : /\ logins[i].expected /\ logins[i].receipt
                      /\ \A s \in Stores : place[s][i] = "stored"

\* Polling gives a store up as incomplete only when the deadline has passed,
\* whatever happened to the other store (comparison-result.ts:49-53).
IncompleteMeansDeadline ==
  pc = "done" /\ (\E s \in Stores : StoreStatus(s) = "incomplete") => now >= Deadline

\* A lookup that succeeds returns every event that was queryable before its
\* iteration began, also across midnight (run-comparison.ts:75-82, athena-queries.ts).
FindsWhatWasThere ==
  [][\A s \in Stores : pc = s /\ lookup.state = "running" /\ lookup'.state = "succeeded" =>
       \A i \in Ids : visibleAt[s][i] # Never /\ visibleAt[s][i] < iterationAt
                        => polls'[s].firstSeen[i] # Never]_vars

\* The run outlives its deadline by less than one query poll, unless the logins
\* alone took longer (run-comparison.ts:91, athena-audit-store-reader.ts:51-56).
BoundedOverrun ==
  \/ until < Deadline + QueryPoll
  \/ until <= logins[Len(logins)].sentAt + LongestLogin

\* The run ends, although queries may run for ever and events may be lost.
RunEnds == <>(pc = "done")

\* "forget a failed lookup so the next poll retries" (production-dependencies.ts:80-81):
\* before the deadline no run ends on a table that could not be resolved.
TableLookupIsRetried ==
  pc = "done" /\ polls["securityLake"].error = "table" => now >= Deadline
=============================================================================
