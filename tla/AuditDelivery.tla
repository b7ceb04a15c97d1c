---------------------------- MODULE AuditDelivery ----------------------------
(***************************************************************************)
(* The path of an audit event from a login to Security Lake: the publisher *)
(* of the reservation service, the central event bus with its archive, and *)
(* per workload account a rule, a dead-letter queue, a Firehose stream and *)
(* the alarms that watch them, as the CDK constructs configure them.       *)
(*                                                                         *)
(* AWS is external: every call may fail, and nothing is assumed to work    *)
(* again.  Time passes in minutes (Tick), in which the alarms evaluate.    *)
(***************************************************************************)
EXTENDS Naturals, Sequences, FiniteSets

CONSTANTS
  Accounts,             \* workload accounts, and the ids of per-account resources
  Events,
  RetryAttempts,        \* maximumRetryAttempts (185)
  MaxEventAge,          \* maximumEventAgeInSeconds (24 hours)
  FreshnessThreshold,   \* deliveryFreshnessThreshold (15 minutes)
  EvaluationPeriods,    \* of the freshness alarm (3)
  StoreWindow,          \* how long Firehose retries S3 (24 hours)
  ArchiveRetention,     \* archiveRetention (7 days)
  DeadLetterRetention,  \* deadLetterRetention (14 days)
  MaxRedeploys, MaxReplays,  \* bounds
  Nothing

\* The one relation of the durations the alarms depend on; the scale is free.
ASSUME DurationsAssumption ==
  /\ {RetryAttempts, FreshnessThreshold, MaxRedeploys, MaxReplays} \subseteq Nat
  /\ {MaxEventAge, EvaluationPeriods, StoreWindow, ArchiveRetention, DeadLetterRetention} \subseteq Nat \ {0}
  /\ FreshnessThreshold + EvaluationPeriods < StoreWindow

VARIABLES
  login,       \* login[e]: the login that event e records
  producers,   \* workloadAccountIds as deployed
  archive,     \* archive[e]: minutes the archive still keeps e, 0 if it does not
  pending,     \* pending[i][e]: a delivery of e that rule i still attempts
  dlq,         \* dlq[i][e]: minutes dead-letter queue i still keeps e
  stream,      \* stream[i][e]: minutes stream i still tries to store e
  lake,        \* <<e, a>>: e is stored in the partition accountId = a
  quarantine,  \* events under the errors prefix
  minute,      \* what the metrics of the current minute have counted
  stale,       \* stale[i]: consecutive minutes stream i was over the threshold
  told,        \* history: events an alarm was raised about
  abandoned,   \* history: events still held when their account was taken out
  redeploys, replays

bus     == <<login, archive, replays>>
buffers == <<pending, dlq, stream>>
stores  == <<lake, quarantine>>
deploy  == <<producers, abandoned, redeploys>>
alarms  == <<stale, told>>
vars    == <<bus, buffers, stores, deploy, alarms, minute>>

\* unconvertible: against the Parquet schema; undated: no eventDay can be read.
Shapes == {"valid", "unconvertible", "undated"}
Login  == [account : Accounts, success : BOOLEAN, shape : Shapes,
           supported : BOOLEAN,  \* source, detail type and version of the contract
           accepted : BOOLEAN]   \* by the event bus

Pending   == [left : 0..MaxEventAge, tries : 0..RetryAttempts + 1]

ASSUME NothingAssumption == Nothing \notin Login /\ Nothing \notin Pending

NoCounts  == [unpublished |-> {}, failed |-> [i \in Accounts |-> {}], unconverted |-> [i \in Accounts |-> {}]]
Counts    == [unpublished : SUBSET Events, failed : [Accounts -> SUBSET Events],
              unconverted : [Accounts -> SUBSET Events]]
ByAccount(x) == [i \in Accounts |-> [e \in Events |-> x]]

\* validateProps: at least one account, each once.
ValidProducers == {ps \in UNION {[1..n -> Accounts] : n \in 1..Cardinality(Accounts)} :
                     \A i, j \in DOMAIN ps : ps[i] = ps[j] => i = j}
InUse(ps) == {ps[i] : i \in DOMAIN ps}

TypeOK ==
  /\ login \in [Events -> Login \cup {Nothing}]
  /\ producers \in ValidProducers
  /\ archive \in [Events -> 0..ArchiveRetention]
  /\ pending \in [Accounts -> [Events -> Pending \cup {Nothing}]]
  /\ dlq \in [Accounts -> [Events -> 0..DeadLetterRetention]]
  /\ stream \in [Accounts -> [Events -> 0..StoreWindow]]
  /\ lake \in SUBSET (Events \X Accounts)
  /\ quarantine \in SUBSET Events
  /\ minute \in Counts
  /\ stale \in [Accounts -> 0..EvaluationPeriods]
  /\ told \in SUBSET Events
  /\ abandoned \in SUBSET Events
  /\ redeploys \in 0..MaxRedeploys /\ replays \in 0..MaxReplays

Init ==
  /\ login = [e \in Events |-> Nothing]
  /\ producers \in ValidProducers
  /\ archive = [e \in Events |-> 0]
  /\ pending = ByAccount(Nothing) /\ dlq = ByAccount(0) /\ stream = ByAccount(0)
  /\ lake = {} /\ quarantine = {}
  /\ minute = NoCounts
  /\ stale = [i \in Accounts |-> 0]
  /\ told = {} /\ abandoned = {}
  /\ redeploys = 0 /\ replays = 0

----------------------------------------------------------------------------
(* Resources of an account *)

\* Mutant: resources keyed by position (any fixed enumeration names positions).
PositionKey(ps, n) == (CHOOSE ids \in ValidProducers : InUse(ids) = Accounts)[n]

\* The construct id of the n-th account's resources: Producer<accountId>.
ResourceKey(ps, n) == ps[n]

Resources(ps) == {ResourceKey(ps, n) : n \in DOMAIN ps}
\* The account that rule i matches and stream i writes the partition of.
BoundTo(i) == CHOOSE a \in Accounts : \E n \in DOMAIN producers : ResourceKey(producers, n) = i /\ producers[n] = a

\* Mutant: the event pattern without its account.
MatchesAnyAccount(i, l) == l.supported

\* buildAuthenticationEventPattern
Matches(i, l) == l.supported /\ l.account = BoundTo(i)

\* createAuditArchive: the same pattern, for all accounts.
Archives(l) == l.supported /\ l.account \in InUse(producers)

\* A delivery of e starts at every rule that matches, unless one is under way.
Route(e, l) ==
  [i \in Accounts |-> IF i \in Resources(producers) /\ Matches(i, l) /\ pending[i][e] = Nothing
                      THEN [pending[i] EXCEPT ![e] = [left |-> MaxEventAge, tries |-> RetryAttempts + 1]]
                      ELSE pending[i]]

----------------------------------------------------------------------------
(* The login and the event bus *)

\* PutEvents: the bus refuses accounts that are not configured.  A publication
\* that fails or times out is counted; a timed-out one may have been accepted.
\* The login answers in any case.
PublishLogin(e) ==
  /\ login[e] = Nothing
  /\ \E l \in Login, acknowledged \in BOOLEAN :
       /\ l.accepted => l.account \in InUse(producers)
       /\ acknowledged => l.accepted
       /\ login' = [login EXCEPT ![e] = l]
       /\ minute' = [minute EXCEPT !.unpublished = IF acknowledged THEN @ ELSE @ \cup {e}]
       /\ IF l.accepted
          THEN /\ archive' = [archive EXCEPT ![e] = IF Archives(l) THEN ArchiveRetention ELSE 0]
               /\ pending' = Route(e, l)
          ELSE UNCHANGED <<archive, pending>>
  /\ UNCHANGED <<dlq, stream, replays, stores, deploy, alarms>>

\* An operator replays the archive.
Replay(e) ==
  /\ archive[e] > 0 /\ replays < MaxReplays
  /\ replays' = replays + 1
  /\ pending' = Route(e, login[e])
  /\ UNCHANGED <<login, archive, dlq, stream, stores, deploy, alarms, minute>>

\* An operator sends a dead letter to the rule's target again.
Redrive(i, e) ==
  /\ dlq[i][e] > 0 /\ pending[i][e] = Nothing /\ replays < MaxReplays
  /\ replays' = replays + 1
  /\ dlq' = [dlq EXCEPT ![i][e] = 0]
  /\ pending' = [pending EXCEPT ![i][e] = [left |-> MaxEventAge, tries |-> RetryAttempts + 1]]
  /\ UNCHANGED <<login, archive, stream, stores, deploy, alarms, minute>>

----------------------------------------------------------------------------
(* ReliableFirehoseTarget *)

\* Copies of an event in one stream count as the oldest of them.
Attempt(i, e) ==
  /\ pending[i][e] # Nothing /\ pending[i][e].left > 0 /\ pending[i][e].tries > 0
  /\ \/ /\ stream' = [stream EXCEPT ![i][e] = IF @ = 0 THEN StoreWindow ELSE @]
        /\ pending' = [pending EXCEPT ![i][e] = Nothing]
     \/ /\ pending' = [pending EXCEPT ![i][e].tries = @ - 1]
        /\ UNCHANGED stream
  /\ UNCHANGED <<bus, dlq, stores, deploy, alarms, minute>>

Exhausted(d) == d # Nothing /\ (d.left = 0 \/ d.tries = 0)

\* The delivery goes to the dead-letter queue, or fails for good and is counted.
GiveUp(i, e) ==
  /\ Exhausted(pending[i][e])
  /\ pending' = [pending EXCEPT ![i][e] = Nothing]
  /\ \/ dlq' = [dlq EXCEPT ![i][e] = DeadLetterRetention] /\ UNCHANGED minute
     \/ minute' = [minute EXCEPT !.failed[i] = @ \cup {e}] /\ UNCHANGED dlq
  /\ UNCHANGED <<bus, stream, stores, deploy, alarms>>

----------------------------------------------------------------------------
(* The delivery stream *)

\* The record fits the schema of the Glue table.
Converts(e) == login[e].shape # "unconvertible"
\* eventDay can be read from the record.
Dated(e) == login[e].shape # "undated"

\* The account of the partition is the stream's, its day the record's.
ToLake(i, e) == lake' = lake \cup {<<e, BoundTo(i)>>} /\ UNCHANGED <<quarantine, minute>>

\* The errors prefix.  Only a failed conversion is counted.
ToQuarantine(i, e) ==
  /\ quarantine' = quarantine \cup {e}
  /\ minute' = IF Converts(e) THEN minute ELSE [minute EXCEPT !.unconverted[i] = @ \cup {e}]
  /\ UNCHANGED lake

Store(i, e) ==
  /\ stream[i][e] > 0
  /\ stream' = [stream EXCEPT ![i][e] = 0]
  /\ IF Converts(e) /\ Dated(e) THEN ToLake(i, e) ELSE ToQuarantine(i, e)
  /\ UNCHANGED <<bus, pending, dlq, deploy, alarms>>

----------------------------------------------------------------------------
(* The alarms, once a minute *)

Old(i) == {e \in Events : stream[i][e] > 0 /\ StoreWindow - stream[i][e] > FreshnessThreshold}

\* Mutant: the count of breaching periods has no end.
StaleForEver(i) == IF Old(i) = {} THEN 0 ELSE stale[i] + 1

\* The last periods of the alarm that breached.
StaleFor(i) ==
  IF Old(i) = {} THEN 0 ELSE IF stale[i] = EvaluationPeriods THEN stale[i] ELSE stale[i] + 1

\* Mutant: no alarm on failed invocations.
DeliveryAlarmsOnQueue(i) ==
  {e \in Events : dlq[i][e] > 0} \cup (IF StaleFor(i) = EvaluationPeriods THEN Old(i) ELSE {})

\* The events that the alarms of AuditDeliveryAlarms are in ALARM about.  AWS's
\* services publish these metrics; that they do is assumed, as missing data does
\* not breach.
DeliveryAlarms(i) ==
  minute.failed[i] \cup {e \in Events : dlq[i][e] > 0} \cup minute.unconverted[i]
    \cup (IF StaleFor(i) = EvaluationPeriods THEN Old(i) ELSE {})

\* Mutant: missing data does not breach.
PublishAlarmOnData(metrics, logs) ==
  IF metrics \/ (logs /\ \E e \in minute.unpublished : login[e].success) THEN minute.unpublished ELSE {}

\* The counter alarms of AuditGapAlarms, where missing data breaches, and its log
\* alarm, where it does not and which is about successful logins only.
PublishFailureAlarm(metrics) == ~metrics \/ minute.unpublished # {}
UnauditedLoginAlarm(logs)    == logs /\ \E e \in minute.unpublished : login[e].success

\* The log alarm tells the operator more; alone it would miss failed logins and
\* what happens while no logs arrive (PublishAlarmOnData).
PublishAlarm(metrics, logs) ==
  IF PublishFailureAlarm(metrics) \/ UnauditedLoginAlarm(logs) THEN minute.unpublished ELSE {}

Minus1(n) == IF n = 0 THEN 0 ELSE n - 1
Aged(buffer) == [i \in Accounts |-> [e \in Events |-> Minus1(buffer[i][e])]]

\* A minute passes, in which the metric and log pipelines may be down.
Tick ==
  /\ \A i \in Accounts, e \in Events : ~Exhausted(pending[i][e])
  /\ \E metrics, logs \in BOOLEAN :
       told' = told \cup PublishAlarm(metrics, logs) \cup UNION {DeliveryAlarms(i) : i \in Resources(producers)}
  /\ stale' = [i \in Accounts |-> StaleFor(i)]
  /\ minute' = NoCounts
  /\ archive' = [e \in Events |-> Minus1(archive[e])]
  /\ dlq' = Aged(dlq) /\ stream' = Aged(stream)
  /\ pending' = [i \in Accounts |-> [e \in Events |->
                   IF pending[i][e] = Nothing THEN Nothing ELSE [pending[i][e] EXCEPT !.left = @ - 1]]]
  /\ UNCHANGED <<login, replays, stores, deploy>>

----------------------------------------------------------------------------
(* A deployment with another list of accounts *)

\* Something still holds e, or the current minute has yet to be evaluated.
Held(e) ==
  \/ archive[e] > 0
  \/ \E i \in Accounts : \/ pending[i][e] # Nothing \/ dlq[i][e] > 0 \/ stream[i][e] > 0
                         \/ e \in minute.failed[i] \cup minute.unconverted[i]

\* CloudFormation keeps the resources whose ids stay and deletes the others.
Keep(ps, buffer, empty) == [i \in Accounts |-> IF i \in Resources(ps) THEN buffer[i] ELSE empty]

Redeploy(ps) ==
  /\ ps # producers /\ redeploys < MaxRedeploys
  /\ producers' = ps
  /\ redeploys' = redeploys + 1
  /\ abandoned' = abandoned \cup {e \in Events : Held(e) /\ login[e].account \notin InUse(ps)}
  /\ pending' = Keep(ps, pending, [e \in Events |-> Nothing])
  /\ dlq' = Keep(ps, dlq, [e \in Events |-> 0])
  /\ stream' = Keep(ps, stream, [e \in Events |-> 0])
  /\ stale' = Keep(ps, stale, 0)
  /\ minute' = [minute EXCEPT !.failed = Keep(ps, @, {}), !.unconverted = Keep(ps, @, {})]
  /\ UNCHANGED <<bus, stores, told>>

----------------------------------------------------------------------------

Next ==
  \/ \E e \in Events : PublishLogin(e) \/ Replay(e)
  \/ \E i \in Accounts, e \in Events : Redrive(i, e) \/ Attempt(i, e) \/ GiveUp(i, e) \/ Store(i, e)
  \/ \E ps \in ValidProducers : Redeploy(ps)
  \/ Tick

Spec == Init /\ [][Next]_vars
\* Time passes, and EventBridge gives up what its retry policy has exhausted.
\* No delivery is assumed to succeed, and nobody is assumed to replay.
FairSpec == Spec /\ WF_vars(Tick) /\ \A i \in Accounts, e \in Events : WF_vars(GiveUp(i, e))

----------------------------------------------------------------------------
(* Properties *)

\* An event whose version no rule knows is no part of the promise.
CustodyOf(e) ==
  IF login[e] = Nothing THEN "none"
  ELSE IF ~(login[e].accepted /\ login[e].supported) THEN "refused"
  ELSE IF \E a \in Accounts : <<e, a>> \in lake THEN "stored"
  ELSE IF e \in quarantine THEN "quarantined"
  ELSE IF Held(e) THEN "held"
  ELSE IF e \in abandoned THEN "abandoned" ELSE "lost"

Trail == INSTANCE AuditTrail WITH custody <- [e \in Events |-> CustodyOf(e)]

\* An accepted event is lost only after an alarm about it, also when the list of
\* accounts is deployed anew: "a positional key would replace later accounts'
\* resources" (audit-ingestion.ts:380-382, audit-delivery-alarms.ts:22-24).
ImplementsAuditTrail == Trail!Spec

\* What is stored under an account was published by that account
\* (authentication-routing.ts, firehose-partitioning.ts:28-31).
OwnPartition == \A e \in Events, a \in Accounts : <<e, a>> \in lake => login[e].account = a

\* What no alarm watches: events of another version, records without a day, and
\* the buffers of an account that is taken out.
Watched(e) ==
  /\ login[e] # Nothing
  /\ login[e].accepted => login[e].supported /\ login[e].shape # "undated"
  /\ e \notin abandoned

\* Every login is stored or an alarm is raised about it, even if every AWS call
\* fails and the metric or log pipeline is down ("authentication fails open, so
\* these alarms are the only signal", audit-gap-alarms.ts:28-29).
EveryLoginIsAccountedFor ==
  \A e \in Events :
    Watched(e) ~> e \in told \/ (\E a \in Accounts : <<e, a>> \in lake) \/ ~Watched(e)
=============================================================================
