------------------------ MODULE AuditDeliveryProofs -------------------------
(***************************************************************************)
(* Proofs about AuditDelivery, for every set of accounts and events and    *)
(* for all durations that DurationsAssumption allows: type correctness,    *)
(* that an event is stored only in its own account's partition, and that   *)
(* the delivery path implements AuditTrail, so that an accepted event is   *)
(* lost only after an alarm about it.                                      *)
(*                                                                         *)
(* AuditTrail cannot be shown from the custody alone.  An event may leave  *)
(* the archive long after the path dropped it, so what the path knows of   *)
(* an accepted event must be kept for good (Accounted); a delivery is      *)
(* dropped without an alarm unless it is in the resources of its own       *)
(* account (Placed); and Firehose gives a record up only after the         *)
(* freshness alarm has counted its periods (Counted).                      *)
(***************************************************************************)
EXTENDS AuditDelivery, TLAPS

\* The promise is about these events.
Promised(e) == login[e] # Nothing /\ login[e].accepted /\ login[e].supported

\* Something of resource i holds e: a delivery, a queue, a stream, or a count
\* of this minute.
InResource(i, e) ==
  \/ pending[i][e] # Nothing \/ dlq[i][e] > 0 \/ stream[i][e] > 0
  \/ e \in minute.failed[i] \/ e \in minute.unconverted[i]

\* Only the resources of its own account hold an event, and they are deployed.
Placed ==
  \A i \in Accounts, e \in Events :
    InResource(i, e) => Promised(e) /\ login[e].account = i /\ i \in InUse(producers)

Archived  == \A e \in Events : archive[e] > 0 => Promised(e)
Quarantined == \A e \in quarantine : login[e] # Nothing
InLake    == \A e \in Events, a \in Accounts : <<e, a>> \in lake => login[e] # Nothing /\ login[e].account = a

\* The freshness alarm of a stream has counted every minute that a record in it
\* was over the threshold, up to its evaluation periods.
Counted ==
  \A i \in Accounts, e \in Events :
    stream[i][e] > 0 =>
      stale[i] = EvaluationPeriods \/ stale[i] + stream[i][e] + FreshnessThreshold + 1 >= StoreWindow

\* What has become of an accepted event, the archive aside.
Accounted ==
  \A e \in Events : Promised(e) =>
    \/ \E a \in Accounts : <<e, a>> \in lake
    \/ e \in quarantine \cup told \cup abandoned
    \/ \E i \in Accounts : InResource(i, e)

IInv == TypeOK /\ Placed /\ Archived /\ Quarantined /\ InLake /\ Counted /\ Accounted

-----------------------------------------------------------------------------
(* Lemmas about the model's operators *)

LEMMA ResourcesAreInUse ==
  ASSUME NEW ps \in ValidProducers
  PROVE  InUse(ps) \subseteq Accounts /\ Resources(ps) = InUse(ps)
<1>1. PICK n \in 1..Cardinality(Accounts) : ps \in [1..n -> Accounts]
  BY DEF ValidProducers
<1>2. QED
  BY <1>1 DEF InUse, Resources, ResourceKey

\* Whatever their order, the resources of an account are bound to that account.
LEMMA BoundToItself ==
  ASSUME producers \in ValidProducers, NEW i \in InUse(producers)
  PROVE  BoundTo(i) = i
<1>1. i \in Accounts
  BY ResourcesAreInUse
<1>2. \E n \in DOMAIN producers : ResourceKey(producers, n) = i /\ producers[n] = i
  BY DEF InUse, ResourceKey
<1>3. \E n \in DOMAIN producers : ResourceKey(producers, n) = i /\ producers[n] = BoundTo(i)
  BY <1>1, <1>2 DEF BoundTo
<1>4. QED
  BY <1>3 DEF ResourceKey

\* Route adds a delivery of e at the rule of the event's own account, and takes
\* none away.
LEMMA RouteAdds ==
  ASSUME TypeOK, NEW e \in Events, NEW l \in Login
  PROVE  /\ Route(e, l) \in [Accounts -> [Events -> Pending \cup {Nothing}]]
         /\ \A i \in Accounts, f \in Events :
              /\ pending[i][f] # Nothing => Route(e, l)[i][f] # Nothing
              /\ Route(e, l)[i][f] # Nothing =>
                   \/ pending[i][f] # Nothing
                   \/ f = e /\ l.supported /\ l.account = i /\ i \in InUse(producers)
<1>1. pending \in [Accounts -> [Events -> Pending \cup {Nothing}]]
  BY DEF TypeOK
<1>2. producers \in ValidProducers
  BY DEF TypeOK
<1> DEFINE fresh == [left |-> MaxEventAge, tries |-> RetryAttempts + 1]
<1>3. fresh \in Pending
  BY DurationsAssumption DEF Pending
<1>4. ASSUME NEW i \in Accounts
      PROVE  /\ Route(e, l)[i] \in [Events -> Pending \cup {Nothing}]
             /\ \A f \in Events :
                  /\ pending[i][f] # Nothing => Route(e, l)[i][f] # Nothing
                  /\ Route(e, l)[i][f] # Nothing =>
                       \/ pending[i][f] # Nothing
                       \/ f = e /\ l.supported /\ l.account = i /\ i \in InUse(producers)
  <2> HIDE DEF fresh
  <2>1. pending[i] \in [Events -> Pending \cup {Nothing}]
    BY <1>1
  <2>2. CASE i \in Resources(producers) /\ Matches(i, l) /\ pending[i][e] = Nothing
    <3>1. Route(e, l)[i] = [pending[i] EXCEPT ![e] = fresh]
      BY <2>2 DEF Route, fresh
    <3>2. l.supported /\ l.account = i /\ i \in InUse(producers)
      BY <2>2, <1>2, ResourcesAreInUse, BoundToItself DEF Matches
    <3>3. fresh # Nothing
      BY <1>3, NothingAssumption
    <3>4. QED
      BY <2>1, <3>1, <3>2, <3>3, <1>3
  <2>3. CASE ~ (i \in Resources(producers) /\ Matches(i, l) /\ pending[i][e] = Nothing)
    <3>1. Route(e, l)[i] = pending[i]
      BY <2>3 DEF Route
    <3>2. QED
      BY <2>1, <3>1
  <2>4. QED
    BY <2>2, <2>3
<1>5. Route(e, l) = [i \in Accounts |-> Route(e, l)[i]]
  BY DEF Route
<1>6. Route(e, l) \in [Accounts -> [Events -> Pending \cup {Nothing}]]
  BY <1>4, <1>5
<1>7. QED
  BY <1>4, <1>6

\* The count of breaching periods stays within the alarm's evaluation periods.
LEMMA StaleForType ==
  ASSUME TypeOK, NEW i \in Accounts
  PROVE  StaleFor(i) \in 0..EvaluationPeriods
<1>1. stale[i] \in 0..EvaluationPeriods
  BY DEF TypeOK
<1>2. EvaluationPeriods \in Nat
  BY DurationsAssumption
<1>3. QED
  BY <1>1, <1>2 DEF StaleFor

\* One cell of a per-account buffer is written.
LEMMA CellWritten ==
  ASSUME NEW S, NEW buffer \in [Accounts -> [Events -> S]], NEW i \in Accounts, NEW e \in Events, NEW x \in S
  PROVE  /\ [buffer EXCEPT ![i][e] = x] \in [Accounts -> [Events -> S]]
         /\ \A j \in Accounts, f \in Events :
              [buffer EXCEPT ![i][e] = x][j][f] = IF j = i /\ f = e THEN x ELSE buffer[j][f]
  OBVIOUS

LEMMA AgedType ==
  ASSUME NEW n \in Nat, NEW buffer \in [Accounts -> [Events -> 0..n]]
  PROVE  Aged(buffer) \in [Accounts -> [Events -> 0..n]]
<1>1. \A i \in Accounts, e \in Events : Minus1(buffer[i][e]) \in 0..n
  BY DEF Minus1
<1>2. QED
  BY <1>1 DEF Aged

LEMMA KeepType ==
  ASSUME NEW ps, NEW S, NEW buffer \in [Accounts -> S], NEW empty \in S
  PROVE  Keep(ps, buffer, empty) \in [Accounts -> S]
  BY DEF Keep

-----------------------------------------------------------------------------
(* Type correctness *)

LEMMA InitType == Init => TypeOK
<1> SUFFICES ASSUME Init PROVE TypeOK
  OBVIOUS
<1>1. /\ 0 \in 0..ArchiveRetention /\ 0 \in 0..DeadLetterRetention /\ 0 \in 0..StoreWindow
      /\ 0 \in 0..EvaluationPeriods /\ 0 \in 0..MaxRedeploys /\ 0 \in 0..MaxReplays
  BY DurationsAssumption
<1>2. NoCounts \in Counts
  BY DEF NoCounts, Counts
<1>3. QED
  BY <1>1, <1>2 DEF Init, TypeOK, ByAccount

LEMMA PublishLoginType == ASSUME TypeOK, NEW e \in Events, PublishLogin(e) PROVE TypeOK'
<1>1. PICK l \in Login, acknowledged \in BOOLEAN :
        /\ login' = [login EXCEPT ![e] = l]
        /\ minute' = [minute EXCEPT !.unpublished = IF acknowledged THEN @ ELSE @ \cup {e}]
        /\ IF l.accepted
           THEN /\ archive' = [archive EXCEPT ![e] = IF Archives(l) THEN ArchiveRetention ELSE 0]
                /\ pending' = Route(e, l)
           ELSE UNCHANGED <<archive, pending>>
  BY DEF PublishLogin
<1>2. login' \in [Events -> Login \cup {Nothing}]
  BY <1>1 DEF TypeOK
<1>3. archive' \in [Events -> 0..ArchiveRetention]
  <2>1. 0 \in 0..ArchiveRetention /\ ArchiveRetention \in 0..ArchiveRetention
    BY DurationsAssumption
  <2>2. QED
    BY <1>1, <2>1 DEF TypeOK
<1>4. pending' \in [Accounts -> [Events -> Pending \cup {Nothing}]]
  BY <1>1, RouteAdds DEF TypeOK
<1>5. minute' \in Counts
  BY <1>1 DEF TypeOK, Counts
<1>6. UNCHANGED <<producers, dlq, stream, lake, quarantine, stale, told, abandoned, redeploys, replays>>
  BY DEF PublishLogin, stores, deploy, alarms
<1>7. QED
  BY <1>2, <1>3, <1>4, <1>5, <1>6 DEF TypeOK

LEMMA ReplayType == ASSUME TypeOK, NEW e \in Events, login[e] \in Login, Replay(e) PROVE TypeOK'
<1>1. pending' \in [Accounts -> [Events -> Pending \cup {Nothing}]]
  BY RouteAdds DEF Replay
<1>2. replays' \in 0..MaxReplays
  BY DurationsAssumption DEF Replay, TypeOK
<1>3. UNCHANGED <<login, producers, archive, dlq, stream, lake, quarantine, minute, stale, told, abandoned, redeploys>>
  BY DEF Replay, stores, deploy, alarms
<1>4. QED
  BY <1>1, <1>2, <1>3 DEF TypeOK

LEMMA RedriveType ==
  ASSUME TypeOK, NEW i \in Accounts, NEW e \in Events, Redrive(i, e)
  PROVE  TypeOK'
<1>1. [left |-> MaxEventAge, tries |-> RetryAttempts + 1] \in Pending
  BY DurationsAssumption DEF Pending
<1>2. pending' \in [Accounts -> [Events -> Pending \cup {Nothing}]]
  <2> DEFINE fresh == [left |-> MaxEventAge, tries |-> RetryAttempts + 1]
  <2>1. pending' = [pending EXCEPT ![i][e] = fresh]
    BY DEF Redrive
  <2> HIDE DEF fresh
  <2>2. QED
    BY <1>1, <2>1 DEF TypeOK, fresh
<1>3. dlq' \in [Accounts -> [Events -> 0..DeadLetterRetention]]
  <2>1. 0 \in 0..DeadLetterRetention
    BY DurationsAssumption
  <2>2. QED
    BY <2>1 DEF Redrive, TypeOK
<1>4. replays' \in 0..MaxReplays
  BY DurationsAssumption DEF Redrive, TypeOK
<1>5. UNCHANGED <<login, producers, archive, stream, lake, quarantine, minute, stale, told, abandoned, redeploys>>
  BY DEF Redrive, stores, deploy, alarms
<1>6. QED
  BY <1>2, <1>3, <1>4, <1>5 DEF TypeOK

LEMMA AttemptType ==
  ASSUME TypeOK, NEW i \in Accounts, NEW e \in Events, Attempt(i, e)
  PROVE  TypeOK'
<1>1. pending[i][e] \in Pending
  BY DEF Attempt, TypeOK
<1>2. pending' \in [Accounts -> [Events -> Pending \cup {Nothing}]]
  <2>1. [pending[i][e] EXCEPT !.tries = @ - 1] \in Pending
    BY <1>1, DurationsAssumption DEF Attempt, Pending
  <2>2. CASE pending' = [pending EXCEPT ![i][e] = Nothing]
    BY <2>2 DEF TypeOK
  <2>3. CASE pending' = [pending EXCEPT ![i][e].tries = @ - 1]
    <3> DEFINE tried == [pending[i][e] EXCEPT !.tries = @ - 1]
    <3>1. pending' = [pending EXCEPT ![i] = [pending[i] EXCEPT ![e] = tried]]
      BY <2>3
    <3>2. tried \in Pending
      BY <2>1
    <3> HIDE DEF tried
    <3>3. pending[i] \in [Events -> Pending \cup {Nothing}]
      BY DEF TypeOK
    <3>4. QED
      BY <3>1, <3>2, <3>3 DEF TypeOK
  <2>4. QED
    BY <2>2, <2>3 DEF Attempt
<1>3. stream' \in [Accounts -> [Events -> 0..StoreWindow]]
  <2>1. (IF stream[i][e] = 0 THEN StoreWindow ELSE stream[i][e]) \in 0..StoreWindow
    BY DurationsAssumption DEF TypeOK
  <2>2. CASE stream' = [stream EXCEPT ![i][e] = IF @ = 0 THEN StoreWindow ELSE @]
    <3> DEFINE x == IF stream[i][e] = 0 THEN StoreWindow ELSE stream[i][e]
    <3>1. stream' = [stream EXCEPT ![i][e] = x] /\ x \in 0..StoreWindow
      BY <2>1, <2>2
    <3> HIDE DEF x
    <3>2. QED
      BY <3>1, CellWritten DEF TypeOK
  <2>3. QED
    BY <2>2 DEF Attempt, TypeOK
<1>4. UNCHANGED <<login, producers, archive, dlq, lake, quarantine, minute, stale, told, abandoned, redeploys, replays>>
  BY DEF Attempt, bus, stores, deploy, alarms
<1>5. QED
  BY <1>2, <1>3, <1>4 DEF TypeOK

LEMMA GiveUpType ==
  ASSUME TypeOK, NEW i \in Accounts, NEW e \in Events, GiveUp(i, e)
  PROVE  TypeOK'
<1>1. pending' \in [Accounts -> [Events -> Pending \cup {Nothing}]]
  BY DEF GiveUp, TypeOK
<1>2. dlq' \in [Accounts -> [Events -> 0..DeadLetterRetention]]
  <2>1. DeadLetterRetention \in 0..DeadLetterRetention
    BY DurationsAssumption
  <2>2. CASE dlq' = [dlq EXCEPT ![i][e] = DeadLetterRetention]
    BY <2>1, <2>2, CellWritten DEF TypeOK
  <2>3. QED
    BY <2>2 DEF GiveUp, TypeOK
<1>3. minute' \in Counts
  <2>1. CASE minute' = [minute EXCEPT !.failed[i] = @ \cup {e}]
    BY <2>1 DEF TypeOK, Counts
  <2>2. QED
    BY <2>1 DEF GiveUp, TypeOK
<1>4. UNCHANGED <<login, producers, archive, stream, lake, quarantine, stale, told, abandoned, redeploys, replays>>
  BY DEF GiveUp, bus, stores, deploy, alarms
<1>5. QED
  BY <1>1, <1>2, <1>3, <1>4 DEF TypeOK

LEMMA StoreType ==
  ASSUME TypeOK, NEW i \in Accounts, NEW e \in Events, BoundTo(i) \in Accounts, Store(i, e)
  PROVE  TypeOK'
<1>1. stream' \in [Accounts -> [Events -> 0..StoreWindow]]
  <2>1. 0 \in 0..StoreWindow
    BY DurationsAssumption
  <2>2. QED
    BY <2>1 DEF Store, TypeOK
<1>2. /\ lake' \in SUBSET (Events \X Accounts)
      /\ quarantine' \in SUBSET Events
      /\ minute' \in Counts
  <2>1. CASE ToLake(i, e)
    BY <2>1 DEF ToLake, TypeOK
  <2>2. CASE ToQuarantine(i, e)
    BY <2>2 DEF ToQuarantine, TypeOK, Counts
  <2>3. QED
    BY <2>1, <2>2 DEF Store
<1>3. UNCHANGED <<login, producers, archive, pending, dlq, stale, told, abandoned, redeploys, replays>>
  BY DEF Store, bus, deploy, alarms
<1>4. QED
  BY <1>1, <1>2, <1>3 DEF TypeOK

LEMMA TickType == ASSUME TypeOK, Tick PROVE TypeOK'
<1>1. told' \in SUBSET Events
  <2>1. \A i \in Accounts : DeliveryAlarms(i) \subseteq Events
    BY DEF TypeOK, Counts, DeliveryAlarms, Old
  <2>2. Resources(producers) \subseteq Accounts
    BY ResourcesAreInUse DEF TypeOK
  <2>3. \A metrics, logs : PublishAlarm(metrics, logs) \subseteq Events
    BY DEF TypeOK, Counts, PublishAlarm
  <2>4. QED
    BY <2>1, <2>2, <2>3 DEF Tick, TypeOK
<1>2. stale' \in [Accounts -> 0..EvaluationPeriods]
  BY StaleForType DEF Tick
<1>3. minute' \in Counts
  BY DEF Tick, NoCounts, Counts
<1>4. archive' \in [Events -> 0..ArchiveRetention]
  <2>1. ASSUME NEW e \in Events PROVE Minus1(archive[e]) \in 0..ArchiveRetention
    <3>1. archive[e] \in 0..ArchiveRetention
      BY DEF TypeOK
    <3>2. QED
      BY <3>1, DurationsAssumption DEF Minus1
  <2>2. QED
    BY <2>1 DEF Tick
<1>5. /\ dlq' \in [Accounts -> [Events -> 0..DeadLetterRetention]]
      /\ stream' \in [Accounts -> [Events -> 0..StoreWindow]]
  BY AgedType, DurationsAssumption DEF Tick, TypeOK
<1>6. pending' \in [Accounts -> [Events -> Pending \cup {Nothing}]]
  <2>1. ASSUME NEW i \in Accounts, NEW e \in Events, pending[i][e] # Nothing
        PROVE  [pending[i][e] EXCEPT !.left = @ - 1] \in Pending
    <3>1. pending[i][e] \in Pending
      BY <2>1 DEF TypeOK
    <3>2. pending[i][e].left # 0
      BY <2>1 DEF Tick, Exhausted
    <3>3. QED
      BY <3>1, <3>2, DurationsAssumption DEF Pending
  <2>2. QED
    BY <2>1 DEF Tick
<1>7. UNCHANGED <<login, producers, lake, quarantine, abandoned, redeploys, replays>>
  BY DEF Tick, stores, deploy
<1>8. QED
  BY <1>1, <1>2, <1>3, <1>4, <1>5, <1>6, <1>7 DEF TypeOK

LEMMA RedeployType == ASSUME TypeOK, NEW ps \in ValidProducers, Redeploy(ps) PROVE TypeOK'
<1>1. pending' \in [Accounts -> [Events -> Pending \cup {Nothing}]]
  <2>1. [e \in Events |-> Nothing] \in [Events -> Pending \cup {Nothing}]
    OBVIOUS
  <2>2. QED
    BY <2>1, KeepType DEF Redeploy, TypeOK
<1>2. dlq' \in [Accounts -> [Events -> 0..DeadLetterRetention]]
  <2>1. [e \in Events |-> 0] \in [Events -> 0..DeadLetterRetention]
    BY DurationsAssumption
  <2>2. QED
    BY <2>1, KeepType DEF Redeploy, TypeOK
<1>3. stream' \in [Accounts -> [Events -> 0..StoreWindow]]
  <2>1. [e \in Events |-> 0] \in [Events -> 0..StoreWindow]
    BY DurationsAssumption
  <2>2. QED
    BY <2>1, KeepType DEF Redeploy, TypeOK
<1>4. stale' \in [Accounts -> 0..EvaluationPeriods]
  <2>1. 0 \in 0..EvaluationPeriods
    BY DurationsAssumption
  <2>2. QED
    BY <2>1, KeepType DEF Redeploy, TypeOK
<1>5. minute' \in Counts
  <2>1. /\ Keep(ps, minute.failed, {}) \in [Accounts -> SUBSET Events]
        /\ Keep(ps, minute.unconverted, {}) \in [Accounts -> SUBSET Events]
    BY KeepType DEF TypeOK, Counts
  <2>2. QED
    BY <2>1 DEF Redeploy, TypeOK, Counts
<1>6. abandoned' \in SUBSET Events /\ producers' \in ValidProducers
  BY DEF Redeploy, TypeOK
<1>7. redeploys' \in 0..MaxRedeploys
  BY DurationsAssumption DEF Redeploy, TypeOK
<1>8. UNCHANGED <<login, archive, replays, lake, quarantine, told>>
  BY DEF Redeploy, bus, stores
<1>9. QED
  BY <1>1, <1>2, <1>3, <1>4, <1>5, <1>6, <1>7, <1>8 DEF TypeOK

-----------------------------------------------------------------------------
(* The inductive invariant: every action preserves it *)

Path == Placed /\ Archived /\ Quarantined /\ InLake /\ Accounted

LEMMA InitPath == Init => Path /\ Counted
<1> SUFFICES ASSUME Init PROVE Path /\ Counted
  OBVIOUS
<1>1. \A e \in Events : ~ Promised(e) /\ archive[e] = 0
  BY DEF Init, Promised
<1>2. \A i \in Accounts, e \in Events : ~ InResource(i, e) /\ stream[i][e] = 0
  BY DEF Init, InResource, ByAccount, NoCounts
<1>3. lake = {} /\ quarantine = {}
  BY DEF Init
<1>4. QED
  BY <1>1, <1>2, <1>3 DEF Path, Placed, Archived, Quarantined, InLake, Accounted, Counted

\* A step that moves events between a delivery, the queue, the stream and the
\* counts of the same resource.
LEMMA MovedWithin ==
  ASSUME Path, UNCHANGED <<login, producers, archive, lake, quarantine, told, abandoned>>,
         \A i \in Accounts, e \in Events : InResource(i, e)' = InResource(i, e)
  PROVE  Path'
<1>1. \A e \in Events : Promised(e)' = Promised(e)
  BY DEF Promised
<1>2. Placed'
  BY <1>1 DEF Path, Placed
<1>3. Archived' /\ Quarantined' /\ InLake'
  BY <1>1 DEF Path, Archived, Quarantined, InLake
<1>4. Accounted'
  BY <1>1 DEF Path, Accounted
<1>5. QED
  BY <1>2, <1>3, <1>4 DEF Path

\* A record that is new in a stream has all of its window left.
LEMMA CountedKept ==
  ASSUME TypeOK, Counted, UNCHANGED stale,
         \A i \in Accounts, e \in Events :
           stream'[i][e] > 0 => stream'[i][e] = stream[i][e] \/ stream'[i][e] = StoreWindow
  PROVE  Counted'
<1> SUFFICES ASSUME NEW i \in Accounts, NEW e \in Events, stream'[i][e] > 0
             PROVE  stale[i] = EvaluationPeriods \/ stale[i] + stream'[i][e] + FreshnessThreshold + 1 >= StoreWindow
  BY DEF Counted
<1>1. CASE stream'[i][e] = stream[i][e]
  BY <1>1 DEF Counted
<1>2. CASE stream'[i][e] = StoreWindow
  <2>1. stale[i] \in Nat
    BY DurationsAssumption DEF TypeOK
  <2>2. QED
    BY <1>2, <2>1, DurationsAssumption
<1>3. QED
  BY <1>1, <1>2

LEMMA RedrivePath ==
  ASSUME TypeOK, Path, NEW i \in Accounts, NEW e \in Events, Redrive(i, e)
  PROVE  Path' /\ \A j \in Accounts, f \in Events : InResource(j, f)' = InResource(j, f)
<1> DEFINE fresh == [left |-> MaxEventAge, tries |-> RetryAttempts + 1]
<1>1. fresh \in Pending /\ 0 \in 0..DeadLetterRetention
  BY DurationsAssumption DEF Pending
<1>2. pending' = [pending EXCEPT ![i][e] = fresh] /\ dlq' = [dlq EXCEPT ![i][e] = 0]
  BY DEF Redrive
<1> HIDE DEF fresh
<1>3. fresh # Nothing
  BY <1>1, NothingAssumption
<1>4. \A j \in Accounts, f \in Events :
        /\ pending'[j][f] = IF j = i /\ f = e THEN fresh ELSE pending[j][f]
        /\ dlq'[j][f] = IF j = i /\ f = e THEN 0 ELSE dlq[j][f]
  BY <1>1, <1>2, CellWritten DEF TypeOK
<1>5. dlq[i][e] > 0 /\ UNCHANGED <<stream, minute>>
  BY DEF Redrive
<1>6. \A j \in Accounts, f \in Events : InResource(j, f)' = InResource(j, f)
  BY <1>3, <1>4, <1>5 DEF InResource
<1>7. UNCHANGED <<login, producers, archive, lake, quarantine, told, abandoned>>
  BY DEF Redrive, stores, deploy, alarms
<1>8. QED
  BY <1>6, <1>7, MovedWithin

LEMMA AttemptPath ==
  ASSUME TypeOK, Path, NEW i \in Accounts, NEW e \in Events, Attempt(i, e)
  PROVE  /\ Path'
         /\ \A j \in Accounts, f \in Events :
              /\ InResource(j, f)' = InResource(j, f)
              /\ stream'[j][f] > 0 => stream'[j][f] = stream[j][f] \/ stream'[j][f] = StoreWindow
<1>1. UNCHANGED <<login, producers, archive, lake, quarantine, told, abandoned, dlq, minute>>
  BY DEF Attempt, bus, stores, deploy, alarms
<1>2. pending[i][e] # Nothing /\ pending[i][e] \in Pending
  BY DEF Attempt, TypeOK
<1>3. CASE /\ stream' = [stream EXCEPT ![i][e] = IF @ = 0 THEN StoreWindow ELSE @]
           /\ pending' = [pending EXCEPT ![i][e] = Nothing]
  <2> DEFINE x == IF stream[i][e] = 0 THEN StoreWindow ELSE stream[i][e]
  <2>1. stream' = [stream EXCEPT ![i][e] = x]
    BY <1>3
  <2>2. x \in 0..StoreWindow /\ x > 0 /\ (x = stream[i][e] \/ x = StoreWindow)
    BY DurationsAssumption DEF TypeOK
  <2> HIDE DEF x
  <2>3. \A j \in Accounts, f \in Events :
          /\ stream'[j][f] = IF j = i /\ f = e THEN x ELSE stream[j][f]
          /\ pending'[j][f] = IF j = i /\ f = e THEN Nothing ELSE pending[j][f]
    BY <1>3, <2>1, <2>2, CellWritten DEF TypeOK
  <2>4. \A j \in Accounts, f \in Events : InResource(j, f)' = InResource(j, f)
    BY <1>1, <1>2, <2>2, <2>3 DEF InResource
  <2>5. QED
    BY <1>1, <2>2, <2>3, <2>4, MovedWithin
<1>4. CASE pending' = [pending EXCEPT ![i][e].tries = @ - 1] /\ UNCHANGED stream
  <2> DEFINE tried == [pending[i][e] EXCEPT !.tries = @ - 1]
  <2>1. pending' = [pending EXCEPT ![i][e] = tried]
    BY <1>4
  <2>2. tried \in Pending
    BY <1>2, DurationsAssumption DEF Attempt, Pending
  <2> HIDE DEF tried
  <2>3. tried # Nothing
    BY <2>2, NothingAssumption
  <2>4. \A j \in Accounts, f \in Events :
          pending'[j][f] = IF j = i /\ f = e THEN tried ELSE pending[j][f]
    BY <2>1, <2>2, CellWritten DEF TypeOK
  <2>5. \A j \in Accounts, f \in Events : InResource(j, f)' = InResource(j, f)
    BY <1>1, <1>2, <1>4, <2>3, <2>4 DEF InResource
  <2>6. QED
    BY <1>1, <1>4, <2>5, MovedWithin
<1>5. QED
  BY <1>3, <1>4 DEF Attempt

LEMMA GiveUpPath ==
  ASSUME TypeOK, Path, NEW i \in Accounts, NEW e \in Events, GiveUp(i, e)
  PROVE  Path' /\ \A j \in Accounts, f \in Events : InResource(j, f)' = InResource(j, f)
<1>1. UNCHANGED <<login, producers, archive, lake, quarantine, told, abandoned, stream>>
  BY DEF GiveUp, bus, stores, deploy, alarms
<1>2. pending[i][e] # Nothing
  BY DEF GiveUp, Exhausted
<1>3. \A j \in Accounts, f \in Events :
        pending'[j][f] = IF j = i /\ f = e THEN Nothing ELSE pending[j][f]
  BY CellWritten DEF GiveUp, TypeOK
<1>4. CASE dlq' = [dlq EXCEPT ![i][e] = DeadLetterRetention] /\ UNCHANGED minute
  <2>1. DeadLetterRetention \in 0..DeadLetterRetention /\ DeadLetterRetention > 0
    BY DurationsAssumption
  <2>2. \A j \in Accounts, f \in Events :
          dlq'[j][f] = IF j = i /\ f = e THEN DeadLetterRetention ELSE dlq[j][f]
    BY <1>4, <2>1, CellWritten DEF TypeOK
  <2>3. \A j \in Accounts, f \in Events : InResource(j, f)' = InResource(j, f)
    BY <1>1, <1>2, <1>3, <1>4, <2>1, <2>2 DEF InResource
  <2>4. QED
    BY <1>1, <2>3, MovedWithin
<1>5. CASE minute' = [minute EXCEPT !.failed[i] = @ \cup {e}] /\ UNCHANGED dlq
  <2>1. \A j \in Accounts, f \in Events :
          /\ f \in minute'.failed[j] <=> f \in minute.failed[j] \/ (j = i /\ f = e)
          /\ minute'.unconverted[j] = minute.unconverted[j]
    BY <1>5 DEF TypeOK, Counts
  <2>2. \A j \in Accounts, f \in Events : InResource(j, f)' = InResource(j, f)
    BY <1>1, <1>2, <1>3, <1>5, <2>1 DEF InResource
  <2>3. QED
    BY <1>1, <2>2, MovedWithin
<1>6. QED
  BY <1>4, <1>5 DEF GiveUp

LEMMA PublishLoginPath ==
  ASSUME TypeOK, Path, NEW e \in Events, PublishLogin(e)
  PROVE  Path'
<1>1. PICK l \in Login :
        /\ l.accepted => l.account \in InUse(producers)
        /\ login' = [login EXCEPT ![e] = l]
        /\ IF l.accepted
           THEN /\ archive' = [archive EXCEPT ![e] = IF Archives(l) THEN ArchiveRetention ELSE 0]
                /\ pending' = Route(e, l)
           ELSE UNCHANGED <<archive, pending>>
  BY DEF PublishLogin
<1>2. /\ UNCHANGED <<producers, dlq, stream, lake, quarantine, told, abandoned>>
      /\ minute'.failed = minute.failed /\ minute'.unconverted = minute.unconverted
  BY DEF PublishLogin, stores, deploy, alarms, TypeOK, Counts
<1>3. login[e] = Nothing /\ ~ Promised(e) /\ l # Nothing
  BY NothingAssumption DEF PublishLogin, Promised
<1>4. \A f \in Events : login'[f] = IF f = e THEN l ELSE login[f]
  BY <1>1 DEF TypeOK
<1>5. Promised(e)' <=> l.accepted /\ l.supported
  BY <1>3, <1>4 DEF Promised
<1>6. \A f \in Events : f # e => Promised(f)' = Promised(f)
  BY <1>4 DEF Promised
<1>7. \A i \in Accounts, f \in Events :
        InResource(i, f)' =>
          \/ InResource(i, f) /\ f # e
          \/ f = e /\ l.accepted /\ l.supported /\ l.account = i /\ i \in InUse(producers)
  <2>1. \A i \in Accounts : ~ InResource(i, e)
    BY <1>3 DEF Path, Placed
  <2>2. CASE l.accepted
    BY <1>1, <1>2, <2>1, <2>2, RouteAdds DEF InResource
  <2>3. CASE ~ l.accepted
    BY <1>1, <1>2, <2>1, <2>3 DEF InResource
  <2>4. QED
    BY <2>2, <2>3
<1>8. Placed'
  BY <1>2, <1>4, <1>5, <1>6, <1>7 DEF Path, Placed
<1>9. Archived'
  <2>1. ASSUME NEW f \in Events, archive'[f] > 0 PROVE Promised(f)'
    <3>1. CASE f = e
      <4>1. archive[e] = 0
        BY <1>3 DEF Path, Archived, TypeOK
      <4>2. l.accepted /\ Archives(l)
        BY <1>1, <2>1, <3>1, <4>1 DEF TypeOK
      <4>3. QED
        BY <1>5, <3>1, <4>2 DEF Archives
    <3>2. CASE f # e
      BY <1>1, <1>6, <2>1, <3>2 DEF TypeOK, Path, Archived
    <3>3. QED
      BY <3>1, <3>2
  <2>2. QED
    BY <2>1 DEF Archived
<1>10. Quarantined' /\ InLake'
  BY <1>2, <1>3, <1>4 DEF Path, Quarantined, InLake, TypeOK
<1>11. Accounted'
  <2>1. ASSUME NEW f \in Events, Promised(f)'
        PROVE  \/ \E a \in Accounts : <<f, a>> \in lake'
               \/ f \in quarantine' \cup told' \cup abandoned'
               \/ \E i \in Accounts : InResource(i, f)'
    <3>1. CASE f = e
      <4>1. l.accepted /\ l.supported /\ l.account \in InUse(producers)
        BY <1>1, <1>5, <2>1, <3>1
      <4>2. l.account \in Accounts
        BY DEF Login
      <4>3. Route(e, l)[l.account][e] # Nothing
        <5>1. CASE pending[l.account][e] # Nothing
          BY <4>2, <5>1, RouteAdds
        <5>2. CASE pending[l.account][e] = Nothing
          <6> DEFINE fresh == [left |-> MaxEventAge, tries |-> RetryAttempts + 1]
          <6>1. fresh \in Pending
            BY DurationsAssumption DEF Pending
          <6>2. fresh # Nothing
            BY <6>1, NothingAssumption
          <6>3. l.account \in Resources(producers) /\ Matches(l.account, l)
            BY <4>1, ResourcesAreInUse, BoundToItself DEF Matches, TypeOK
          <6>4. Route(e, l)[l.account] = [pending[l.account] EXCEPT ![e] = fresh]
            BY <4>2, <5>2, <6>3 DEF Route
          <6> HIDE DEF fresh
          <6>5. QED
            BY <4>2, <6>2, <6>4 DEF TypeOK
        <5>3. QED
          BY <5>1, <5>2
      <4>4. InResource(l.account, e)'
        BY <1>1, <4>1, <4>3 DEF InResource
      <4>5. QED
        BY <3>1, <4>2, <4>4
    <3>2. CASE f # e
      <4>1. \A i \in Accounts : InResource(i, f) => InResource(i, f)'
        BY <1>1, <1>2, RouteAdds DEF InResource
      <4>2. QED
        BY <1>2, <1>6, <2>1, <3>2, <4>1 DEF Path, Accounted
    <3>3. QED
      BY <3>1, <3>2
  <2>2. QED
    BY <2>1 DEF Accounted
<1>12. QED
  BY <1>8, <1>9, <1>10, <1>11 DEF Path

LEMMA ReplayPath ==
  ASSUME TypeOK, Path, NEW e \in Events, Replay(e)
  PROVE  login[e] \in Login /\ Path'
<1>1. Promised(e) /\ login[e] \in Login
  BY DEF Replay, Path, Archived, Promised, TypeOK
<1>2. /\ pending' = Route(e, login[e])
      /\ UNCHANGED <<login, producers, archive, lake, quarantine, told, abandoned, dlq, stream, minute>>
  BY DEF Replay, stores, deploy, alarms
<1>3. \A f \in Events : Promised(f)' = Promised(f)
  BY <1>2 DEF Promised
<1>4. \A i \in Accounts, f \in Events :
        /\ InResource(i, f) => InResource(i, f)'
        /\ InResource(i, f)' => InResource(i, f) \/ (f = e /\ login[e].account = i /\ i \in InUse(producers))
  BY <1>1, <1>2, RouteAdds DEF InResource
<1>5. Placed'
  BY <1>1, <1>2, <1>3, <1>4 DEF Path, Placed
<1>6. Archived' /\ Quarantined' /\ InLake'
  BY <1>2, <1>3 DEF Path, Archived, Quarantined, InLake
<1>7. Accounted'
  BY <1>2, <1>3, <1>4 DEF Path, Accounted
<1>8. QED
  BY <1>1, <1>5, <1>6, <1>7 DEF Path

LEMMA StorePath ==
  ASSUME TypeOK, Path, NEW i \in Accounts, NEW e \in Events, Store(i, e)
  PROVE  /\ BoundTo(i) \in Accounts
         /\ \A j \in Accounts, f \in Events : stream'[j][f] > 0 => stream'[j][f] = stream[j][f]
         /\ Path'
<1>1. InResource(i, e)
  BY DEF Store, InResource
<1>2. Promised(e) /\ login[e].account = i /\ i \in InUse(producers)
  BY <1>1 DEF Path, Placed
<1>3. BoundTo(i) = i
  BY <1>2, BoundToItself DEF TypeOK
<1>4. UNCHANGED <<login, producers, archive, pending, dlq, told, abandoned>>
  BY DEF Store, bus, deploy, alarms
<1>5. \A f \in Events : Promised(f)' = Promised(f)
  BY <1>4 DEF Promised
<1>6. \A j \in Accounts, f \in Events : stream'[j][f] = IF j = i /\ f = e THEN 0 ELSE stream[j][f]
  <2>1. 0 \in 0..StoreWindow
    BY DurationsAssumption
  <2>2. QED
    BY <2>1, CellWritten DEF Store, TypeOK
<1>7. /\ lake \subseteq lake' /\ quarantine \subseteq quarantine'
      /\ quarantine' \subseteq quarantine \cup {e} /\ lake' \subseteq lake \cup {<<e, i>>}
      /\ <<e, i>> \in lake' \/ e \in quarantine'
      /\ \A j \in Accounts, f \in Events :
           /\ minute'.failed[j] = minute.failed[j]
           /\ f \in minute.unconverted[j] => f \in minute'.unconverted[j]
           /\ f \in minute'.unconverted[j] => f \in minute.unconverted[j] \/ (j = i /\ f = e)
  <2>1. CASE ToLake(i, e)
    BY <1>3, <2>1 DEF ToLake
  <2>2. CASE ToQuarantine(i, e)
    BY <2>2 DEF ToQuarantine, TypeOK, Counts
  <2>3. QED
    BY <2>1, <2>2 DEF Store
<1>8. \A j \in Accounts, f \in Events :
        /\ InResource(j, f)' => InResource(j, f)
        /\ InResource(j, f) /\ f # e => InResource(j, f)'
  BY <1>1, <1>4, <1>6, <1>7 DEF InResource
<1>9. Placed'
  BY <1>4, <1>5, <1>8 DEF Path, Placed
<1>10. Archived' /\ Quarantined' /\ InLake'
  BY <1>2, <1>4, <1>5, <1>7 DEF Path, Archived, Quarantined, InLake, Promised
<1>11. Accounted'
  BY <1>4, <1>5, <1>7, <1>8 DEF Path, Accounted
<1>12. QED
  BY <1>2, <1>3, <1>6, <1>9, <1>10, <1>11 DEF Path

\* What a minute does to the buffers.
LEMMA TickEffect ==
  ASSUME TypeOK, Tick
  PROVE  /\ UNCHANGED <<login, producers, lake, quarantine, abandoned>>
         /\ told \subseteq told'
         /\ \A i \in InUse(producers) : DeliveryAlarms(i) \subseteq told'
         /\ \A e \in Events : archive'[e] > 0 => archive[e] > 0
         /\ \A i \in Accounts, e \in Events :
              /\ pending'[i][e] = Nothing <=> pending[i][e] = Nothing
              /\ dlq'[i][e] > 0 => dlq[i][e] > 0
              /\ stream[i][e] > 0 => stream'[i][e] = stream[i][e] - 1
              /\ stream[i][e] = 0 => stream'[i][e] = 0
              /\ minute'.failed[i] = {} /\ minute'.unconverted[i] = {}
<1>1. UNCHANGED <<login, producers, lake, quarantine, abandoned>>
  BY DEF Tick, stores, deploy
<1>2. told \subseteq told' /\ \A i \in InUse(producers) : DeliveryAlarms(i) \subseteq told'
  BY ResourcesAreInUse DEF Tick, TypeOK
<1>3. \A e \in Events : archive'[e] > 0 => archive[e] > 0
  BY DurationsAssumption DEF Tick, TypeOK, Minus1
<1>4. ASSUME NEW i \in Accounts, NEW e \in Events
      PROVE  /\ dlq'[i][e] > 0 => dlq[i][e] > 0
             /\ stream[i][e] > 0 => stream'[i][e] = stream[i][e] - 1
             /\ stream[i][e] = 0 => stream'[i][e] = 0
             /\ minute'.failed[i] = {} /\ minute'.unconverted[i] = {}
  <2>1. dlq'[i][e] = Minus1(dlq[i][e]) /\ stream'[i][e] = Minus1(stream[i][e])
    BY DEF Tick, Aged
  <2>2. dlq[i][e] \in Nat /\ stream[i][e] \in Nat
    BY DurationsAssumption DEF TypeOK
  <2>3. minute'.failed[i] = {} /\ minute'.unconverted[i] = {}
    BY DEF Tick, NoCounts
  <2>4. QED
    BY <2>1, <2>2, <2>3 DEF Minus1
<1>5. ASSUME NEW i \in Accounts, NEW e \in Events
      PROVE  pending'[i][e] = Nothing <=> pending[i][e] = Nothing
  <2>1. pending'[i][e] = IF pending[i][e] = Nothing THEN Nothing ELSE [pending[i][e] EXCEPT !.left = @ - 1]
    BY DEF Tick
  <2>2. ASSUME pending[i][e] # Nothing PROVE [pending[i][e] EXCEPT !.left = @ - 1] # Nothing
    <3>1. pending[i][e] \in Pending /\ pending[i][e].left # 0
      BY <2>2 DEF TypeOK, Tick, Exhausted
    <3>2. [pending[i][e] EXCEPT !.left = @ - 1] \in Pending
      BY <3>1, DurationsAssumption DEF Pending
    <3>3. QED
      BY <3>2, NothingAssumption
  <2>3. QED
    BY <2>1, <2>2
<1>6. QED
  BY <1>1, <1>2, <1>3, <1>4, <1>5

\* The freshness alarm of a stream is raised before its window ends.
LEMMA RaisedBeforeTheWindowEnds ==
  ASSUME TypeOK, Counted, NEW i \in Accounts, NEW e \in Events, stream[i][e] = 1
  PROVE  e \in DeliveryAlarms(i)
<1>1. stale[i] \in 0..EvaluationPeriods
  BY DEF TypeOK
<1>2. e \in Old(i)
  BY DurationsAssumption DEF Old
<1>3. stale[i] = EvaluationPeriods \/ stale[i] + 1 + FreshnessThreshold + 1 >= StoreWindow
  BY DEF Counted
<1>4. stale[i] = EvaluationPeriods \/ stale[i] + 1 = EvaluationPeriods
  BY <1>1, <1>3, DurationsAssumption
<1>5. StaleFor(i) = EvaluationPeriods
  BY <1>2, <1>4 DEF StaleFor
<1>6. QED
  BY <1>2, <1>5 DEF DeliveryAlarms

LEMMA TickCounted == ASSUME TypeOK, Counted, Tick PROVE Counted'
<1> SUFFICES ASSUME NEW i \in Accounts, NEW e \in Events, stream'[i][e] > 0
             PROVE  \/ stale'[i] = EvaluationPeriods
                    \/ stale'[i] + stream'[i][e] + FreshnessThreshold + 1 >= StoreWindow
  BY DEF Counted
<1>1. stream[i][e] \in 0..StoreWindow /\ stale[i] \in 0..EvaluationPeriods
  BY DEF TypeOK
<1>2. stream[i][e] > 0 /\ stream'[i][e] = stream[i][e] - 1
  BY <1>1, TickEffect, DurationsAssumption
<1>3. stale'[i] = StaleFor(i)
  BY DEF Tick
<1>4. CASE Old(i) = {}
  <2>1. StoreWindow - stream[i][e] <= FreshnessThreshold
    BY <1>1, <1>2, <1>4, DurationsAssumption DEF Old
  <2>2. QED
    BY <1>1, <1>2, <1>3, <1>4, <2>1, DurationsAssumption DEF StaleFor
<1>5. CASE Old(i) # {}
  <2>1. stale[i] = EvaluationPeriods \/ stale[i] + stream[i][e] + FreshnessThreshold + 1 >= StoreWindow
    BY <1>2 DEF Counted
  <2>2. QED
    BY <1>1, <1>2, <1>3, <1>5, <2>1, DurationsAssumption DEF StaleFor
<1>6. QED
  BY <1>4, <1>5

LEMMA TickPath ==
  ASSUME TypeOK, Path, Counted, Tick
  PROVE  Path'
<1>1. \A e \in Events : Promised(e)' = Promised(e)
  BY TickEffect DEF Promised
<1>2. ASSUME NEW i \in Accounts, NEW e \in Events, InResource(i, e)'
      PROVE  InResource(i, e)
  <2>1. stream[i][e] \in Nat
    BY DurationsAssumption DEF TypeOK
  <2>2. QED
    BY <1>2, <2>1, TickEffect DEF InResource
<1>3. Placed'
  BY <1>1, <1>2, TickEffect DEF Path, Placed
<1>4. Archived' /\ Quarantined' /\ InLake'
  BY <1>1, TickEffect DEF Path, Archived, Quarantined, InLake
<1>5. ASSUME NEW i \in Accounts, NEW e \in Events, InResource(i, e)
      PROVE  InResource(i, e)' \/ e \in told'
  <2>1. i \in InUse(producers)
    BY <1>5 DEF Path, Placed
  <2>2. CASE pending[i][e] # Nothing
    BY <2>2, TickEffect DEF InResource
  <2>3. CASE dlq[i][e] > 0 \/ e \in minute.failed[i] \/ e \in minute.unconverted[i]
    <3>1. e \in DeliveryAlarms(i)
      BY <2>3 DEF DeliveryAlarms
    <3>2. QED
      BY <2>1, <3>1, TickEffect
  <2>4. CASE stream[i][e] > 0
    <3>1. CASE stream[i][e] = 1
      BY <2>1, <3>1, RaisedBeforeTheWindowEnds, TickEffect DEF Path
    <3>2. CASE stream[i][e] # 1
      <4>1. stream[i][e] \in Nat
        BY DurationsAssumption DEF TypeOK
      <4>2. stream'[i][e] > 0
        BY <2>4, <3>2, <4>1, TickEffect
      <4>3. QED
        BY <4>2 DEF InResource
    <3>3. QED
      BY <3>1, <3>2
  <2>5. QED
    BY <1>5, <2>2, <2>3, <2>4 DEF InResource
<1>6. Accounted'
  BY <1>1, <1>5, TickEffect DEF Path, Accounted
<1>7. QED
  BY <1>3, <1>4, <1>6 DEF Path

LEMMA RedeployEffect ==
  ASSUME TypeOK, NEW ps \in ValidProducers, Redeploy(ps)
  PROVE  /\ UNCHANGED <<login, archive, lake, quarantine, told>> /\ producers' = ps
         /\ \A i \in Accounts, e \in Events :
              /\ i \in InUse(ps) => /\ stale'[i] = stale[i] /\ stream'[i][e] = stream[i][e]
                                    /\ InResource(i, e)' = InResource(i, e)
              /\ i \notin InUse(ps) => ~ InResource(i, e)' /\ stream'[i][e] = 0
<1>1. UNCHANGED <<login, archive, lake, quarantine, told>> /\ producers' = ps
  BY DEF Redeploy, bus, stores
<1>2. ASSUME NEW i \in Accounts, NEW e \in Events, i \in InUse(ps)
      PROVE  /\ stale'[i] = stale[i] /\ stream'[i][e] = stream[i][e]
             /\ InResource(i, e)' = InResource(i, e)
  <2>1. i \in Resources(ps)
    BY <1>2, ResourcesAreInUse
  <2>2. /\ stale'[i] = stale[i] /\ stream'[i] = stream[i] /\ pending'[i] = pending[i] /\ dlq'[i] = dlq[i]
    BY <2>1 DEF Redeploy, Keep
  <2>3. QED
    BY <2>1, <2>2 DEF Redeploy, Keep, InResource, TypeOK, Counts
<1>3. ASSUME NEW i \in Accounts, NEW e \in Events, i \notin InUse(ps)
      PROVE  ~ InResource(i, e)' /\ stream'[i][e] = 0
  <2>1. i \notin Resources(ps)
    BY <1>3, ResourcesAreInUse
  <2>2. stream'[i][e] = 0 /\ pending'[i][e] = Nothing /\ dlq'[i][e] = 0
    BY <2>1 DEF Redeploy, Keep
  <2>3. QED
    BY <2>1, <2>2 DEF Redeploy, Keep, InResource, TypeOK, Counts
<1>4. QED
  BY <1>1, <1>2, <1>3

LEMMA RedeployPath ==
  ASSUME TypeOK, Path, Counted, NEW ps \in ValidProducers, Redeploy(ps)
  PROVE  Path' /\ Counted'
<1>1. \A e \in Events : Promised(e)' = Promised(e)
  BY RedeployEffect DEF Promised
<1>2. \A i \in Accounts, e \in Events : InResource(i, e)' => InResource(i, e) /\ i \in InUse(producers')
  BY RedeployEffect
<1>3. Placed'
  <2>1. \A i \in Accounts, e \in Events :
          InResource(i, e)' => Promised(e)' /\ login'[e].account = i /\ i \in InUse(producers')
    BY <1>1, <1>2, RedeployEffect DEF Path, Placed
  <2>2. QED
    BY <2>1 DEF Placed, InUse
<1>4. Archived' /\ Quarantined' /\ InLake'
  BY <1>1, RedeployEffect DEF Path, Archived, Quarantined, InLake
<1>5. ASSUME NEW i \in Accounts, NEW e \in Events, InResource(i, e)
      PROVE  InResource(i, e)' \/ e \in abandoned'
  <2>1. login[e].account = i /\ Held(e)
    BY <1>5 DEF Path, Placed, InResource, Held
  <2>2. QED
    BY <1>5, <2>1, RedeployEffect DEF Redeploy
<1>6. Accounted'
  <2>1. abandoned \subseteq abandoned'
    BY DEF Redeploy
  <2>2. QED
    BY <1>1, <1>5, <2>1, RedeployEffect DEF Path, Accounted
<1>7. Counted'
  <2>1. \A i \in Accounts, e \in Events :
          stream'[i][e] > 0 => stale'[i] = stale[i] /\ stream'[i][e] = stream[i][e]
    BY RedeployEffect
  <2>2. QED
    BY <2>1 DEF Counted
<1>8. QED
  BY <1>3, <1>4, <1>6, <1>7 DEF Path

LEMMA StepKeepsIInv == IInv /\ [Next]_vars => IInv'
<1> SUFFICES ASSUME IInv, [Next]_vars PROVE IInv'
  OBVIOUS
<1>1. TypeOK /\ Path /\ Counted
  BY DEF IInv, Path
<1>2. SUFFICES TypeOK' /\ Path' /\ Counted'
  BY DEF IInv, Path
<1>3. ASSUME NEW e \in Events, PublishLogin(e) PROVE TypeOK' /\ Path' /\ Counted'
  <2>1. UNCHANGED <<stream, stale>>
    BY <1>3 DEF PublishLogin, alarms
  <2>2. QED
    BY <1>1, <1>3, <2>1, PublishLoginType, PublishLoginPath, CountedKept
<1>4. ASSUME NEW e \in Events, Replay(e) PROVE TypeOK' /\ Path' /\ Counted'
  <2>1. UNCHANGED <<stream, stale>>
    BY <1>4 DEF Replay, alarms
  <2>2. QED
    BY <1>1, <1>4, <2>1, ReplayType, ReplayPath, CountedKept
<1>5. ASSUME NEW i \in Accounts, NEW e \in Events, Redrive(i, e) PROVE TypeOK' /\ Path' /\ Counted'
  <2>1. UNCHANGED <<stream, stale>>
    BY <1>5 DEF Redrive, alarms
  <2>2. QED
    BY <1>1, <1>5, <2>1, RedriveType, RedrivePath, CountedKept
<1>6. ASSUME NEW i \in Accounts, NEW e \in Events, Attempt(i, e) PROVE TypeOK' /\ Path' /\ Counted'
  <2>1. UNCHANGED stale
    BY <1>6 DEF Attempt, alarms
  <2>2. QED
    BY <1>1, <1>6, <2>1, AttemptType, AttemptPath, CountedKept
<1>7. ASSUME NEW i \in Accounts, NEW e \in Events, GiveUp(i, e) PROVE TypeOK' /\ Path' /\ Counted'
  <2>1. UNCHANGED <<stream, stale>>
    BY <1>7 DEF GiveUp, alarms
  <2>2. QED
    BY <1>1, <1>7, <2>1, GiveUpType, GiveUpPath, CountedKept
<1>8. ASSUME NEW i \in Accounts, NEW e \in Events, Store(i, e) PROVE TypeOK' /\ Path' /\ Counted'
  <2>1. UNCHANGED stale
    BY <1>8 DEF Store, alarms
  <2>2. QED
    BY <1>1, <1>8, <2>1, StoreType, StorePath, CountedKept
<1>9. ASSUME NEW ps \in ValidProducers, Redeploy(ps) PROVE TypeOK' /\ Path' /\ Counted'
  BY <1>1, <1>9, RedeployType, RedeployPath
<1>10. ASSUME Tick PROVE TypeOK' /\ Path' /\ Counted'
  BY <1>1, <1>10, TickType, TickPath, TickCounted
<1>11. ASSUME UNCHANGED vars PROVE TypeOK' /\ Path' /\ Counted'
  <2>1. UNCHANGED <<login, producers, archive, pending, dlq, stream, lake, quarantine, minute, stale, told,
                    abandoned, redeploys, replays>>
    BY <1>11 DEF vars, bus, buffers, stores, deploy, alarms
  <2>2. TypeOK'
    BY <1>1, <2>1 DEF TypeOK
  <2>3. \A i \in Accounts, e \in Events : InResource(i, e)' = InResource(i, e)
    BY <2>1 DEF InResource
  <2>4. QED
    BY <1>1, <2>1, <2>2, <2>3, MovedWithin, CountedKept
<1>12. QED
  BY <1>3, <1>4, <1>5, <1>6, <1>7, <1>8, <1>9, <1>10, <1>11 DEF Next

LEMMA InductiveInvariant == Spec => []IInv
<1>1. Init => IInv
  BY InitType, InitPath DEF IInv, Path
<1>2. QED
  BY <1>1, StepKeepsIInv, PTL DEF Spec

\* The state of the delivery path is well typed.
THEOREM TypeCorrect == Spec => []TypeOK
<1>1. IInv => TypeOK
  BY DEF IInv
<1>2. QED
  BY <1>1, InductiveInvariant, PTL

\* Whatever the order of the accounts and however often it is changed, an event
\* is stored only in the partition of the account that published it
\* (authentication-routing.ts, firehose-partitioning.ts:28-31).
THEOREM StoredInOwnPartition == Spec => []OwnPartition
<1>1. IInv => OwnPartition
  BY DEF IInv, InLake, OwnPartition
<1>2. QED
  BY <1>1, InductiveInvariant, PTL

-----------------------------------------------------------------------------
(* The delivery path implements AuditTrail *)

\* What a step does to the custody of e: a login is recorded once and its event
\* starts in custody, nothing is taken back from a store, and an event that
\* nothing holds stays where it is.
Forward(e) ==
  /\ login[e] # Nothing => login'[e] = login[e]
  /\ lake \subseteq lake' /\ quarantine \subseteq quarantine'
  /\ abandoned \subseteq abandoned' /\ told \subseteq told'
  /\ login[e] # Nothing /\ ~ Held(e) => ~ Held(e)'
  /\ ~ Held(e) => /\ e \in abandoned' => e \in abandoned
                  /\ e \in quarantine' => e \in quarantine
                  /\ \A a \in Accounts : <<e, a>> \in lake' => <<e, a>> \in lake
  /\ login[e] = Nothing /\ Promised(e)' => Held(e)'

LEMMA ForwardIsMove ==
  ASSUME IInv, IInv', \A e \in Events : Forward(e)
  PROVE  Trail!Move
<1>1. [e \in Events |-> CustodyOf(e)]' \in [Events -> Trail!Custody]
  BY DEF CustodyOf, Trail!Custody
<1>2. ASSUME NEW e \in Events
      PROVE  /\ CustodyOf(e)' = CustodyOf(e) \/ <<CustodyOf(e), CustodyOf(e)'>> \in Trail!Moves
             /\ CustodyOf(e)' = "lost" => e \in told'
  <2>1. CustodyOf(e)' = "lost" => e \in told'
    <3>1. Accounted'
      BY DEF IInv
    <3>2. HAVE CustodyOf(e)' = "lost"
    <3>3. Promised(e)' /\ ~ Held(e)' /\ e \notin quarantine' /\ e \notin abandoned'
      BY <3>2 DEF CustodyOf, Promised
    <3>4. \A a \in Accounts : <<e, a>> \notin lake'
      BY <3>2 DEF CustodyOf
    <3>5. \A i \in Accounts : ~ InResource(i, e)'
      BY <3>3 DEF Held, InResource
    <3>6. QED
      BY <3>1, <3>3, <3>4, <3>5 DEF Accounted
  <2>2. CustodyOf(e)' = CustodyOf(e) \/ <<CustodyOf(e), CustodyOf(e)'>> \in Trail!Moves
    <3>1. Forward(e)
      OBVIOUS
    <3>2. CASE login[e] = Nothing
      <4>1. e \notin quarantine /\ \A a \in Accounts : <<e, a>> \notin lake
        BY <3>2 DEF IInv, Quarantined, InLake
      <4>2. ~ Held(e)
        BY <3>2 DEF IInv, Archived, Placed, Promised, Held, InResource
      <4>3. CustodyOf(e) = "none" /\ CustodyOf(e)' \in {"none", "refused", "held"}
        BY <3>1, <3>2, <4>1, <4>2 DEF Forward, CustodyOf, Promised
      <4>4. QED
        BY <4>3 DEF Trail!Moves
    <3>3. CASE login[e] # Nothing /\ ~ Promised(e)
      BY <3>1, <3>3 DEF Forward, CustodyOf, Promised
    <3>4. CASE Promised(e)
      <4>1. Promised(e)' /\ login'[e] # Nothing
        BY <3>1, <3>4 DEF Forward, Promised
      <4>2. CASE \E a \in Accounts : <<e, a>> \in lake
        BY <3>1, <3>4, <4>1, <4>2 DEF Forward, CustodyOf, Promised
      <4>3. CASE (\A a \in Accounts : <<e, a>> \notin lake) /\ e \in quarantine
        <5>1. CustodyOf(e) = "quarantined" /\ CustodyOf(e)' \in {"quarantined", "stored"}
          BY <3>1, <3>4, <4>1, <4>3 DEF Forward, CustodyOf, Promised
        <5>2. QED
          BY <5>1 DEF Trail!Moves
      <4>4. CASE (\A a \in Accounts : <<e, a>> \notin lake) /\ e \notin quarantine /\ Held(e)
        <5>1. /\ CustodyOf(e) = "held"
              /\ CustodyOf(e)' \in {"stored", "quarantined", "held", "abandoned", "lost"}
          BY <3>1, <3>4, <4>1, <4>4 DEF Forward, CustodyOf, Promised
        <5>2. QED
          BY <5>1 DEF Trail!Moves
      <4>5. CASE (\A a \in Accounts : <<e, a>> \notin lake) /\ e \notin quarantine /\ ~ Held(e)
        BY <3>1, <3>4, <4>1, <4>5 DEF Forward, CustodyOf, Promised
      <4>6. QED
        BY <4>2, <4>3, <4>4, <4>5
    <3>5. QED
      BY <3>2, <3>3, <3>4
  <2>3. QED
    BY <2>1, <2>2
<1>3. told \subseteq told'
  BY DEF Forward, IInv, TypeOK
<1>4. QED
  BY <1>1, <1>2, <1>3 DEF Trail!Move

\* A step that moves an event within its resource.
LEMMA MovedIsForward ==
  ASSUME UNCHANGED <<login, archive, lake, quarantine, told, abandoned>>,
         NEW e \in Events, \A i \in Accounts : InResource(i, e)' = InResource(i, e)
  PROVE  Forward(e)
<1>1. Held(e)' = Held(e)
  BY DEF Held, InResource
<1>2. QED
  BY <1>1 DEF Forward, Promised

LEMMA PublishLoginForward ==
  ASSUME IInv, NEW e \in Events, PublishLogin(e), NEW f \in Events
  PROVE  Forward(f)
<1>1. PICK l \in Login :
        /\ l.accepted => l.account \in InUse(producers)
        /\ login' = [login EXCEPT ![e] = l]
        /\ IF l.accepted
           THEN /\ archive' = [archive EXCEPT ![e] = IF Archives(l) THEN ArchiveRetention ELSE 0]
                /\ pending' = Route(e, l)
           ELSE UNCHANGED <<archive, pending>>
  BY DEF PublishLogin
<1>2. /\ UNCHANGED <<dlq, stream, lake, quarantine, told, abandoned>>
      /\ minute'.failed = minute.failed /\ minute'.unconverted = minute.unconverted
  BY DEF PublishLogin, stores, deploy, alarms, IInv, TypeOK, Counts
<1>3. login[e] = Nothing /\ TypeOK
  BY DEF PublishLogin, IInv
<1>4. CASE f = e
  <2>1. ASSUME Promised(e)' PROVE Held(e)'
    <3>1. l.accepted /\ l.supported
      BY <1>1, <1>3, <2>1 DEF Promised, TypeOK
    <3>2. Archives(l)
      BY <1>1, <3>1 DEF Archives
    <3>3. archive'[e] = ArchiveRetention
      BY <1>1, <1>3, <3>1, <3>2 DEF TypeOK
    <3>4. QED
      BY <3>3, DurationsAssumption DEF Held
  <2>2. QED
    BY <1>2, <1>3, <1>4, <2>1 DEF Forward
<1>5. CASE f # e
  <2>1. login'[f] = login[f] /\ archive'[f] = archive[f]
    BY <1>1, <1>3, <1>5 DEF TypeOK
  <2>2. \A i \in Accounts : pending'[i][f] # Nothing <=> pending[i][f] # Nothing
    BY <1>1, <1>3, <1>5, RouteAdds
  <2>3. Held(f)' = Held(f)
    BY <1>2, <2>1, <2>2 DEF Held
  <2>4. QED
    BY <1>2, <2>1, <2>3 DEF Forward, Promised
<1>6. QED
  BY <1>4, <1>5

LEMMA ReplayForward ==
  ASSUME IInv, NEW e \in Events, Replay(e), NEW f \in Events
  PROVE  Forward(f)
<1>1. TypeOK /\ login[e] \in Login
  BY ReplayPath DEF IInv, Path
<1>2. /\ pending' = Route(e, login[e])
      /\ UNCHANGED <<login, archive, lake, quarantine, told, abandoned, dlq, stream, minute>>
  BY DEF Replay, stores, deploy, alarms
<1>3. archive[e] > 0
  BY DEF Replay
<1>4. \A i \in Accounts : pending'[i][f] # Nothing => pending[i][f] # Nothing \/ f = e
  BY <1>1, <1>2, RouteAdds
<1>5. Held(f)' => Held(f)
  BY <1>2, <1>3, <1>4 DEF Held
<1>6. QED
  BY <1>2, <1>5 DEF Forward, Promised

LEMMA StoreForward ==
  ASSUME IInv, NEW i \in Accounts, NEW e \in Events, Store(i, e), NEW f \in Events
  PROVE  Forward(f)
<1>1. TypeOK
  BY DEF IInv
<1>2. UNCHANGED <<login, archive, pending, dlq, told, abandoned>>
  BY DEF Store, bus, deploy, alarms
<1>3. Held(e) /\ stream[i][e] > 0
  BY DEF Store, Held
<1>4. \A j \in Accounts, g \in Events : stream'[j][g] > 0 => stream[j][g] > 0
  BY <1>1, StorePath DEF IInv, Path
<1>5. /\ lake \subseteq lake' /\ quarantine \subseteq quarantine'
      /\ f # e => /\ f \in quarantine' => f \in quarantine
                 /\ \A a \in Accounts : <<f, a>> \in lake' => <<f, a>> \in lake
      /\ \A j \in Accounts :
           /\ minute'.failed[j] = minute.failed[j]
           /\ f # e => (f \in minute'.unconverted[j] => f \in minute.unconverted[j])
  <2>1. CASE ToLake(i, e)
    BY <2>1 DEF ToLake
  <2>2. CASE ToQuarantine(i, e)
    BY <1>1, <2>2 DEF ToQuarantine, TypeOK, Counts
  <2>3. QED
    BY <2>1, <2>2 DEF Store
<1>6. Held(f)' => Held(f)
  BY <1>2, <1>3, <1>4, <1>5 DEF Held
<1>7. QED
  BY <1>2, <1>3, <1>5, <1>6 DEF Forward, Promised

LEMMA TickForward ==
  ASSUME IInv, Tick, NEW f \in Events
  PROVE  Forward(f)
<1>1. TypeOK
  BY DEF IInv
<1>2. \A i \in Accounts : stream[i][f] \in Nat
  BY <1>1, DurationsAssumption DEF TypeOK
<1>3. Held(f)' => Held(f)
  BY <1>1, <1>2, TickEffect DEF Held
<1>4. login[f] = Nothing => ~ Promised(f)'
  BY <1>1, TickEffect DEF Promised
<1>5. QED
  BY <1>1, <1>3, <1>4, TickEffect DEF Forward

LEMMA RedeployForward ==
  ASSUME IInv, NEW ps \in ValidProducers, Redeploy(ps), NEW f \in Events
  PROVE  Forward(f)
<1>1. TypeOK
  BY DEF IInv
<1>2. UNCHANGED <<login, archive, lake, quarantine, told>>
  BY <1>1, RedeployEffect
<1>3. \A i \in Accounts : InResource(i, f)' => InResource(i, f)
  BY <1>1, RedeployEffect
<1>4. Held(f)' => Held(f)
  BY <1>2, <1>3 DEF Held, InResource
<1>5. abandoned \subseteq abandoned' /\ (~ Held(f) => (f \in abandoned' => f \in abandoned))
  BY DEF Redeploy
<1>6. QED
  BY <1>2, <1>4, <1>5 DEF Forward, Promised

LEMMA StepIsForward ==
  ASSUME IInv, [Next]_vars, NEW f \in Events
  PROVE  Forward(f)
<1>1. TypeOK /\ Path
  BY DEF IInv, Path
<1>2. ASSUME NEW i \in Accounts, NEW e \in Events, Redrive(i, e) \/ Attempt(i, e) \/ GiveUp(i, e)
      PROVE  Forward(f)
  <2>1. UNCHANGED <<login, archive, lake, quarantine, told, abandoned>>
    BY <1>2 DEF Redrive, Attempt, GiveUp, bus, stores, deploy, alarms
  <2>2. \A j \in Accounts : InResource(j, f)' = InResource(j, f)
    BY <1>1, <1>2, RedrivePath, AttemptPath, GiveUpPath
  <2>3. QED
    BY <2>1, <2>2, MovedIsForward
<1>3. ASSUME UNCHANGED vars PROVE Forward(f)
  <2>1. UNCHANGED <<login, archive, pending, dlq, stream, lake, quarantine, minute, told, abandoned>>
    BY <1>3 DEF vars, bus, buffers, stores, deploy, alarms
  <2>2. \A i \in Accounts : InResource(i, f)' = InResource(i, f)
    BY <2>1 DEF InResource
  <2>3. QED
    BY <2>1, <2>2, MovedIsForward
<1>4. QED
  BY <1>2, <1>3, PublishLoginForward, ReplayForward, StoreForward, TickForward, RedeployForward DEF Next

\* An accepted event is lost only after an alarm about it: the delivery path,
\* with its archive, retries, queues, streams and alarms, and with every
\* redeployment of the account list, implements the abstract audit trail
\* (audit-ingestion.ts:380-382, audit-delivery-alarms.ts:22-24).
THEOREM PathImplementsAuditTrail == Spec => ImplementsAuditTrail
<1>1. Init => Trail!Init
  BY DEF Init, Trail!Init, CustodyOf
<1>2. IInv /\ IInv' /\ [Next]_vars => [Trail!Move]_<<[e \in Events |-> CustodyOf(e)], told>>
  BY StepIsForward, ForwardIsMove
<1>3. QED
  BY <1>1, <1>2, InductiveInvariant, PTL DEF Spec, ImplementsAuditTrail, Trail!Spec
=============================================================================
