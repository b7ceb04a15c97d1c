---------------------- MODULE TransportComparisonProofs ----------------------
(***************************************************************************)
(* Proofs about TransportComparison, for any number of logins and all      *)
(* settings: type correctness, that a passed run is evidence, that a store *)
(* is given up only at the deadline, how far the run outlives it, and that *)
(* a lookup finds what was there.                                          *)
(*                                                                         *)
(* The invariant follows an event from its login to the verdict: what is   *)
(* visible was stored after its login (OnTheWay), what a running query     *)
(* returns was visible, and all that was visible when the iteration began  *)
(* is among it (Querying), and what polling has seen is stored (Found).    *)
(***************************************************************************)
EXTENDS TransportComparison, TLAPS

\* The answered logins: none is later than now or earlier than the first.
InOrder ==
  /\ \A i \in 1..Len(logins) : logins[1].sentAt <= logins[i].sentAt /\ logins[i].sentAt <= now
  /\ pc # "logins" => Len(logins) = Attempts
  /\ iterationAt <= now

\* No sleep reaches beyond the logins' timeouts or the last query poll.
InTime ==
  IF pc = "logins" THEN until <= Len(logins) * LongestLogin
  ELSE until <= Attempts * LongestLogin \/ until < Deadline + QueryPoll

OnTheWay ==
  \A s \in Stores, i \in Logins :
    /\ place[s][i] # "none" => i <= Len(logins)
    /\ visibleAt[s][i] # Never => place[s][i] = "stored" /\ logins[i].sentAt <= visibleAt[s][i]

Querying ==
  /\ lookup.state = "running" => pc \in Stores
  /\ \A s \in Stores : pc = s /\ lookup.state = "running" =>
       /\ lookup.asked = Unseen(s)
       /\ \A i \in lookup.rows : visibleAt[s][i] # Never
       /\ \A i \in Ids : visibleAt[s][i] # Never /\ visibleAt[s][i] < iterationAt => i \in lookup.rows

Found == \A s \in Stores, i \in Logins : polls[s].firstSeen[i] # Never => place[s][i] = "stored"

Concluded ==
  /\ pc \in {"health", "done"} /\ (\E s \in Stores : Awaiting(s)) => now >= Deadline
  /\ verdict # "none" => pc = "done"

IInv ==
  /\ TypeOK /\ InOrder /\ InTime /\ OnTheWay /\ Querying /\ Found /\ Concluded
  /\ PassedIsEvidence /\ BoundedOverrun

-----------------------------------------------------------------------------
(* Lemmas about the settings *)

LEMMA Settings ==
  /\ {Attempts, Timeout, PollInterval, QueryPoll} \subseteq Nat \ {0} /\ Midnight \in Nat
  /\ LongestLogin \in Nat /\ \A t \in LoginTimes : t \in Nat /\ t <= LongestLogin
  /\ Deadline = Timeout /\ 1 \in Logins /\ Logins \subseteq Nat
  /\ Never \notin Nat
<1>1. /\ {Attempts, Timeout, PollInterval, QueryPoll} \subseteq Nat \ {0} /\ Midnight \in Nat
      /\ LoginTimes \subseteq Nat /\ \E t \in LoginTimes : \A u \in LoginTimes : u <= t
  BY SettingsAssumption
<1>2. LongestLogin \in LoginTimes /\ \A u \in LoginTimes : u <= LongestLogin
  BY <1>1 DEF LongestLogin
<1>3. QED
  BY <1>1, <1>2 DEF Deadline, Logins, Never

\* What n logins may take.
LEMMA LoginsTake ==
  ASSUME NEW n \in Nat
  PROVE  /\ n * LongestLogin \in Nat
         /\ (n + 1) * LongestLogin = n * LongestLogin + LongestLogin
         /\ n <= Attempts => n * LongestLogin <= Attempts * LongestLogin
<1>1. LongestLogin \in Nat /\ Attempts \in Nat
  BY Settings
<1> DEFINE L == LongestLogin
<1>2. L \in Nat
  BY <1>1
<1> HIDE DEF L
<1>3. n * L \in Nat /\ (n + 1) * L = n * L + L
  BY <1>2
<1>4. ASSUME n <= Attempts PROVE n * L <= Attempts * L
  <2>1. PICK k \in Nat : Attempts = n + k
    <3>1. Attempts - n \in Nat /\ Attempts = n + (Attempts - n)
      BY <1>1, <1>4
    <3>2. QED
      BY <3>1
  <2>2. Attempts * L = n * L + k * L /\ k * L \in Nat
    BY <1>2, <2>1
  <2>3. QED
    BY <1>3, <2>2
<1>5. QED
  BY <1>3, <1>4 DEF L

LEMMA DayGrows ==
  ASSUME NEW a \in Nat, NEW b \in Nat, a <= b
  PROVE  Day(a) \in {0, 1} /\ Day(a) <= Day(b)
  BY Settings DEF Day

LEMMA TimeIsNat == Time \subseteq Nat /\ 0 \in Time /\ LastTime \in Nat
                   /\ LastTime = Timeout + QueryPoll + Attempts * LongestLogin
<1>1. Attempts * LongestLogin \in Nat
  BY Settings, LoginsTake
<1>2. QED
  BY <1>1, Settings DEF Time, LastTime

-----------------------------------------------------------------------------
(* The clock *)

LEMMA ClockType ==
  ASSUME TypeOK
  PROVE  /\ now \in Nat /\ until \in Nat /\ iterationAt \in Nat /\ now <= until
         /\ Len(logins) \in Nat /\ Len(logins) <= Attempts
         /\ \A i \in 1..Len(logins) : logins[i] \in LoginAttempt /\ logins[i].sentAt \in Nat
<1>1. now \in Nat /\ until \in Nat /\ iterationAt \in Nat
  BY TimeIsNat DEF TypeOK
<1>2. \A i \in 1..Len(logins) : logins[i] \in LoginAttempt
  BY DEF TypeOK
<1>3. \A i \in 1..Len(logins) : logins[i].sentAt \in Nat
  BY <1>2, TimeIsNat DEF LoginAttempt
<1>4. now <= until /\ Len(logins) <= Attempts /\ Len(logins) \in Nat
  BY DEF TypeOK
<1>5. QED
  BY <1>1, <1>2, <1>3, <1>4

\* The clock within its bounds.
OnTime == /\ now \in Nat /\ until \in Nat /\ now <= until
          /\ InOrder /\ InTime /\ BoundedOverrun

LEMMA SendLoginOnTime ==
  ASSUME TypeOK, OnTime, SendLogin
  PROVE  OnTime'
<1>1. PICK answer \in LoginAnswers, duration \in LoginTimes :
        /\ logins' = Append(logins, [sentAt |-> now, expected |-> answer.expected, receipt |-> answer.receipt])
        /\ until' = now + duration /\ now' = now
  BY DEF SendLogin, Wait
<1>2. /\ logins \in Seq(LoginAttempt) /\ Len(logins) \in Nat /\ pc = "logins" /\ pc' = "logins" /\ now = until
      /\ UNCHANGED iterationAt
  BY DEF TypeOK, SendLogin, Awake
<1> DEFINE sent == [sentAt |-> now, expected |-> answer.expected, receipt |-> answer.receipt]
<1>3. sent \in LoginAttempt /\ sent.sentAt = now
  BY DEF TypeOK, LoginAttempt, LoginAnswers
<1>4. logins' = Append(logins, sent)
  BY <1>1
<1> HIDE DEF sent
<1>5. /\ Len(logins') = Len(logins) + 1 /\ logins'[Len(logins) + 1] = sent
      /\ \A i \in 1..Len(logins) : logins'[i] = logins[i]
  BY <1>2, <1>3, <1>4
<1>6. InOrder'
  <2>1. \A i \in 1..Len(logins') : logins'[1].sentAt <= logins'[i].sentAt /\ logins'[i].sentAt <= now
    BY <1>2, <1>3, <1>5 DEF OnTime, InOrder
  <2>2. QED
    BY <1>1, <1>2, <2>1 DEF OnTime, InOrder
<1>7. duration \in Nat /\ duration <= LongestLogin /\ LongestLogin \in Nat
  BY Settings
<1>8. InTime'
  BY <1>1, <1>2, <1>5, <1>7, LoginsTake DEF OnTime, InTime
<1>9. BoundedOverrun'
  BY <1>1, <1>2, <1>3, <1>5, <1>7 DEF OnTime, BoundedOverrun
<1>10. QED
  BY <1>1, <1>6, <1>7, <1>8, <1>9 DEF OnTime

\* A step that sleeps past the deadline by less than a query poll, or not at all.
LEMMA SleepOnTime ==
  ASSUME TypeOK, OnTime, UNCHANGED <<now, logins>>, pc # "logins", pc' # "logins",
         iterationAt' \in {iterationAt, now, 0},
         until' = until \/ (until' \in Nat /\ now <= until' /\ until' < Deadline + QueryPoll)
  PROVE  OnTime'
<1>1. InOrder'
  BY ClockType DEF OnTime, InOrder
<1>2. InTime' /\ BoundedOverrun'
  BY DEF OnTime, InTime, BoundedOverrun, Deadline
<1>3. QED
  BY <1>1, <1>2 DEF OnTime

LEMMA StepOnTime ==
  ASSUME IInv, [Next]_vars
  PROVE  OnTime'
<1>1. TypeOK /\ OnTime
  BY ClockType DEF IInv, OnTime
<1>2. Deadline \in Nat /\ QueryPoll \in Nat /\ QueryPoll > 0 /\ PollInterval \in Nat /\ Deadline > 0
  BY Settings
<1>3. CASE SendLogin
  BY <1>1, <1>3, SendLoginOnTime
<1>4. CASE LoginsDone
  <2>1. UNCHANGED <<now, until, logins, iterationAt>> /\ pc' # "logins" /\ Len(logins) = Attempts /\ pc = "logins"
    BY <1>4 DEF LoginsDone, clock
  <2>2. QED
    BY <1>1, <2>1 DEF OnTime, InOrder, InTime, BoundedOverrun
<1>5. CASE Tick
  <2>1. now < until /\ now' = now + 1 /\ UNCHANGED <<until, pc, logins, iterationAt>>
    BY <1>5 DEF Tick
  <2>2. InOrder'
    BY <1>1, <2>1, ClockType DEF OnTime, InOrder
  <2>3. QED
    BY <1>1, <2>1, <2>2 DEF OnTime, InTime, BoundedOverrun
<1>6. CASE Decide
  <2>1. /\ UNCHANGED <<now, logins>> /\ iterationAt' = 0 /\ pc = "decide" /\ pc' # "logins"
        /\ \/ until' = until
           \/ now < Deadline /\ until' = IF now + PollInterval < Deadline THEN now + PollInterval ELSE Deadline
    BY <1>6 DEF Decide, Wait, clock, EndOfIteration
  <2>2. until' = until \/ (until' \in Nat /\ now <= until' /\ until' < Deadline + QueryPoll)
    BY <1>1, <1>2, <2>1 DEF OnTime
  <2>3. QED
    BY <1>1, <2>1, <2>2, SleepOnTime
<1>7. ASSUME NEW s \in Stores, QueryRuns(s) PROVE OnTime'
  <2>1. UNCHANGED <<now, logins, iterationAt>> /\ (until' = until \/ (now < Deadline /\ until' = now + QueryPoll))
    BY <1>7 DEF QueryRuns, Wait, clock
  <2>2. pc # "logins" /\ pc' # "logins"
    BY <1>7 DEF QueryRuns, Stores, AfterStore
  <2>3. until' = until \/ (until' \in Nat /\ now <= until' /\ until' < Deadline + QueryPoll)
    BY <1>1, <1>2, <2>1 DEF OnTime
  <2>4. QED
    BY <1>1, <2>1, <2>2, <2>3, SleepOnTime
<1>8. CASE Iterate \/ ReadHealth
  BY <1>1, <1>8, SleepOnTime DEF Iterate, ReadHealth, clock
<1>9. CASE TableUnresolved \/ \E s \in Stores : SkipStore(s) \/ StartQuery(s) \/ QueryFails(s) \/ QuerySucceeds(s)
  <2>1. UNCHANGED <<now, until, logins, iterationAt>> /\ pc # "logins" /\ pc' # "logins"
    BY <1>9 DEF SkipStore, StartQuery, QueryFails, QuerySucceeds, TableUnresolved, LookupFails, AfterStore, Stores, clock
  <2>2. QED
    BY <1>1, <2>1, SleepOnTime
<1>10. CASE AuditPaths \/ UNCHANGED vars
  <2>1. UNCHANGED <<now, until, pc, logins, iterationAt>>
    BY <1>10 DEF AuditPaths, Deliver, DeadLetter, RegisterPartitions, vars, clock
  <2>2. QED
    BY <1>1, <2>1 DEF OnTime, InOrder, InTime, BoundedOverrun
<1>11. QED
  BY <1>3, <1>4, <1>5, <1>6, <1>7, <1>8, <1>9, <1>10 DEF Next, Runner, Answers
-----------------------------------------------------------------------------
(* Types *)

\* The polls of the stores once one of them is written.
LEMMA PollWritten ==
  ASSUME polls \in [Stores -> StorePoll], NEW s \in Stores,
         NEW e \in {"none", "table", "query"}, NEW f \in [Logins -> Time \cup {Never}]
  PROVE  /\ [polls EXCEPT ![s].error = e] \in [Stores -> StorePoll]
         /\ [polls EXCEPT ![s].firstSeen = f] \in [Stores -> StorePoll]
         /\ [polls EXCEPT ![s].firstSeen = f][s].firstSeen = f
         /\ \A r \in Stores :
              /\ [polls EXCEPT ![s].error = e][r].firstSeen = polls[r].firstSeen
              /\ [polls EXCEPT ![s].firstSeen = f][r].error = polls[r].error
              /\ r # s => [polls EXCEPT ![s].firstSeen = f][r].firstSeen = polls[r].firstSeen
  BY DEF StorePoll

\* A value written for a login and a store.
LEMMA CellWritten ==
  ASSUME NEW S, NEW g \in [Stores -> [Logins -> S]], NEW s \in Stores, NEW i \in Logins, NEW v \in S
  PROVE  /\ [g EXCEPT ![s][i] = v] \in [Stores -> [Logins -> S]]
         /\ [g EXCEPT ![s][i] = v][s][i] = v
         /\ \A r \in Stores, j \in Logins : <<r, j>> # <<s, i>> => [g EXCEPT ![s][i] = v][r][j] = g[r][j]
  OBVIOUS

\* What is not the clock's.
Parts ==
  /\ pc \in PC
  /\ logins \in Seq(LoginAttempt) /\ Len(logins) <= Attempts
  /\ iterationAt \in Time
  /\ lookup \in Lookup
  /\ polls \in [Stores -> StorePoll]
  /\ resolved \in BOOLEAN /\ crawler \in BOOLEAN
  /\ verdict \in {"none", "passed", "failed"}
  /\ place \in [Stores -> [Logins -> {"none", "pending", "stored", "deadLettered"}]]
  /\ visibleAt \in [Stores -> [Logins -> Time \cup {Never}]]
  /\ registered \subseteq {0, 1}

LEMMA Asked ==
  ASSUME TypeOK, NEW s \in Stores
  PROVE  /\ Ids \subseteq Logins /\ Unseen(s) \subseteq Ids /\ Rows(s) \subseteq Ids
         /\ NoLookup \in Lookup /\ AfterStore(s) \in PC
<1>1. Ids \subseteq Logins
  BY ClockType, Settings DEF Ids, Logins
<1>2. QED
  BY <1>1 DEF Unseen, Rows, NoLookup, Lookup, AfterStore, PC

LEMMA AnswerType ==
  ASSUME TypeOK, Answers
  PROVE  Parts'
<1>1. /\ UNCHANGED <<now, until, logins, iterationAt, resolved, crawler, verdict, place, visibleAt, registered>>
      /\ \E s \in Stores :
           /\ pc' = AfterStore(s)
           /\ \E x \in {"failed", "succeeded"} : lookup' = [NoLookup EXCEPT !.state = x]
           /\ \/ \E e \in {"table", "query"} : polls' = [polls EXCEPT ![s].error = e]
              \/ \E later \in SUBSET (Rows(s) \ lookup.rows) :
                   polls' = [polls EXCEPT ![s].firstSeen = SeenNow(s, lookup.rows \cup later)]
  BY DEF Answers, TableUnresolved, QueryFails, QuerySucceeds, LookupFails, Stores, clock, paths
<1>2. PICK s \in Stores :
        /\ pc' = AfterStore(s)
        /\ \E x \in {"failed", "succeeded"} : lookup' = [NoLookup EXCEPT !.state = x]
        /\ \/ \E e \in {"table", "query"} : polls' = [polls EXCEPT ![s].error = e]
           \/ \E later \in SUBSET (Rows(s) \ lookup.rows) :
                polls' = [polls EXCEPT ![s].firstSeen = SeenNow(s, lookup.rows \cup later)]
  BY <1>1
<1>3. polls' \in [Stores -> StorePoll]
  <2>1. polls \in [Stores -> StorePoll] /\ Never \in Time \cup {Never} /\ now \in Time
    BY DEF TypeOK
  <2>2. ASSUME NEW found PROVE SeenNow(s, found) \in [Logins -> Time \cup {Never}]
    BY <2>1 DEF SeenNow, StorePoll
  <2>3. [i \in Logins |-> Never] \in [Logins -> Time \cup {Never}]
    BY <2>1
  <2>4. ASSUME NEW e \in {"table", "query"} PROVE [polls EXCEPT ![s].error = e] \in [Stores -> StorePoll]
    BY <2>1, <2>3, PollWritten
  <2>5. ASSUME NEW found PROVE [polls EXCEPT ![s].firstSeen = SeenNow(s, found)] \in [Stores -> StorePoll]
    BY <2>1, <2>2, PollWritten
  <2>6. QED
    BY <1>2, <2>4, <2>5
<1>4. lookup' \in Lookup /\ pc' \in PC
  BY <1>2, Asked DEF NoLookup, Lookup
<1>5. QED
  BY <1>1, <1>3, <1>4 DEF TypeOK, Parts

LEMMA AuditPathType ==
  ASSUME TypeOK, AuditPaths
  PROVE  Parts'
<1>1. UNCHANGED <<now, until, pc, logins, iterationAt, lookup, polls, resolved, crawler, verdict>>
  BY DEF AuditPaths, Deliver, DeadLetter, RegisterPartitions, clock
<1> DEFINE Places == {"none", "pending", "stored", "deadLettered"}
           Times == Time \cup {Never}
<1>2. /\ place \in [Stores -> [Logins -> Places]] /\ visibleAt \in [Stores -> [Logins -> Times]]
      /\ now \in Times /\ "stored" \in Places /\ "deadLettered" \in Places /\ "securityLake" \in Stores
      /\ registered \subseteq {0, 1}
  BY DEF TypeOK, Stores
<1> HIDE DEF Places, Times
<1>3. ASSUME NEW s \in Stores, NEW i \in Logins, Deliver(s, i)
      PROVE  place' \in [Stores -> [Logins -> Places]] /\ visibleAt' \in [Stores -> [Logins -> Times]] /\ registered' = registered
  <2>1. /\ place' = [place EXCEPT ![s][i] = "stored"] /\ registered' = registered
        /\ visibleAt' = visibleAt \/ visibleAt' = [visibleAt EXCEPT ![s][i] = now]
    BY <1>3 DEF Deliver
  <2>2. [place EXCEPT ![s][i] = "stored"] \in [Stores -> [Logins -> Places]]
    BY <1>2, CellWritten
  <2>3. [visibleAt EXCEPT ![s][i] = now] \in [Stores -> [Logins -> Times]]
    BY <1>2, CellWritten
  <2>4. QED
    BY <1>2, <2>1, <2>2, <2>3
<1>4. ASSUME NEW i \in Logins, DeadLetter(i)
      PROVE  place' \in [Stores -> [Logins -> Places]] /\ visibleAt' = visibleAt /\ registered' = registered
  <2>1. place' = [place EXCEPT !["securityLake"][i] = "deadLettered"] /\ UNCHANGED <<visibleAt, registered>>
    BY <1>4 DEF DeadLetter
  <2>2. QED
    BY <1>2, <2>1, CellWritten
<1>5. CASE RegisterPartitions
  <2>1. StoredDays \subseteq {0, 1}
    BY DEF StoredDays, Day
  <2>2. visibleAt' \in [Stores -> [Logins -> Times]]
    BY <1>2, <1>5 DEF RegisterPartitions
  <2>3. place' = place /\ registered' \subseteq {0, 1}
    BY <1>2, <1>5, <2>1 DEF RegisterPartitions
  <2>4. QED
    BY <1>1, <1>2, <2>2, <2>3 DEF TypeOK, Parts, Places, Times
<1>6. QED
  BY <1>1, <1>2, <1>3, <1>4, <1>5 DEF TypeOK, Parts, Places, Times, AuditPaths

LEMMA SendLoginType ==
  ASSUME TypeOK, SendLogin
  PROVE  Parts'
<1>1. PICK answer \in LoginAnswers :
        /\ logins' = Append(logins, [sentAt |-> now, expected |-> answer.expected, receipt |-> answer.receipt])
        /\ place' = IF answer.receipt THEN [s \in Stores |-> [place[s] EXCEPT ![Len(logins) + 1] = "pending"]]
                    ELSE place
  BY DEF SendLogin
<1>2. UNCHANGED <<pc, iterationAt, lookup, polls, resolved, crawler, verdict, visibleAt, registered>> /\ Len(logins) < Attempts
  BY DEF SendLogin
<1>3. [sentAt |-> now, expected |-> answer.expected, receipt |-> answer.receipt] \in LoginAttempt
  BY DEF TypeOK, LoginAttempt, LoginAnswers
<1>4. logins' \in Seq(LoginAttempt) /\ Len(logins') = Len(logins) + 1
  BY <1>1, <1>3 DEF TypeOK
<1>5. Len(logins') <= Attempts
  BY <1>2, <1>4, ClockType, Settings
<1>6. place' \in [Stores -> [Logins -> {"none", "pending", "stored", "deadLettered"}]]
  BY <1>1 DEF TypeOK
<1>7. QED
  BY <1>2, <1>4, <1>5, <1>6 DEF TypeOK, Parts

LEMMA RunnerType ==
  ASSUME TypeOK, Runner
  PROVE  Parts'
<1>1. CASE SendLogin
  BY <1>1, SendLoginType
<1>2. CASE Runner /\ ~SendLogin
  <2>1. /\ UNCHANGED <<logins, polls, place, visibleAt, registered>>
        /\ iterationAt' \in {iterationAt, now, 0}
        /\ verdict' \in {verdict, "passed", "failed"}
    BY <1>2 DEF Runner, LoginsDone, Iterate, SkipStore, StartQuery, QueryRuns, Decide, EndOfIteration,
                ReadHealth, Tick, paths, clock
  <2>2. pc' \in PC
    BY <1>2 DEF Runner, LoginsDone, Iterate, SkipStore, StartQuery, QueryRuns, Decide, ReadHealth, Tick,
                AfterStore, TypeOK, PC
  <2>3. resolved' \in BOOLEAN /\ crawler' \in BOOLEAN
    BY <1>2 DEF Runner, LoginsDone, Iterate, SkipStore, StartQuery, QueryRuns, Decide, ReadHealth, Tick,
                TableResolved, StartCrawlerIfDue, RefreshDue, TypeOK
  <2>4. lookup' \in Lookup
    <3>1. \/ lookup' = lookup \/ lookup' = NoLookup \/ lookup' = [NoLookup EXCEPT !.state = "stopped"]
          \/ \E s \in Stores : lookup' = [state |-> "running", asked |-> Unseen(s), rows |-> Rows(s)]
      BY <1>2 DEF Runner, LoginsDone, Iterate, SkipStore, StartQuery, QueryRuns, Decide, EndOfIteration,
                  ReadHealth, Tick
    <3>2. \A s \in Stores : Unseen(s) \in SUBSET Logins /\ Rows(s) \in SUBSET Logins
      BY Asked
    <3>3. QED
      BY <3>1, <3>2 DEF TypeOK, Lookup, NoLookup
  <2>5. QED
    BY <2>1, <2>2, <2>3, <2>4, TimeIsNat DEF TypeOK, Parts
<1>3. QED
  BY <1>1, <1>2

LEMMA StepTypeOK ==
  ASSUME IInv, [Next]_vars
  PROVE  TypeOK'
<1>1. Parts'
  <2>1. CASE UNCHANGED vars
    BY <2>1 DEF IInv, TypeOK, Parts, vars, paths, clock
  <2>2. QED
    BY <2>1, RunnerType, AnswerType, AuditPathType DEF IInv, Next
<1>2. OnTime'
  BY StepOnTime
<1>3. Len(logins') \in Nat /\ Len(logins') <= Attempts
  BY <1>1 DEF Parts
<1>4. until' <= LastTime
  <2>1. /\ Len(logins') * LongestLogin \in Nat /\ Attempts * LongestLogin \in Nat
        /\ Len(logins') * LongestLogin <= Attempts * LongestLogin
    BY <1>3, LoginsTake, Settings
  <2>2. QED
    BY <1>2, <2>1, TimeIsNat, Settings DEF OnTime, InTime
<1>5. now' \in Time /\ until' \in Time /\ now' <= until'
  BY <1>2, <1>4, TimeIsNat DEF OnTime, Time
<1>6. QED
  BY <1>1, <1>5 DEF TypeOK, Parts
-----------------------------------------------------------------------------
(* From login to store *)

\* What a step may do to the answered logins.
LoginsGrow ==
  \/ logins' = logins
  \/ /\ pc = "logins" /\ pc' = "logins" /\ Len(logins') = Len(logins) + 1
     /\ \A i \in 1..Len(logins) : logins'[i] = logins[i]

LEMMA StepGrows ==
  ASSUME TypeOK, [Next]_vars
  PROVE  LoginsGrow /\ (pc # "logins" => pc' # "logins")
<1>1. CASE SendLogin
  <2>1. PICK answer \in LoginAnswers :
          logins' = Append(logins, [sentAt |-> now, expected |-> answer.expected, receipt |-> answer.receipt])
    BY <1>1 DEF SendLogin
  <2>2. [sentAt |-> now, expected |-> answer.expected, receipt |-> answer.receipt] \in LoginAttempt
    BY DEF TypeOK, LoginAttempt, LoginAnswers
  <2>3. logins \in Seq(LoginAttempt) /\ pc = "logins" /\ pc' = "logins"
    BY <1>1 DEF TypeOK, SendLogin
  <2>4. QED
    BY <2>1, <2>2, <2>3 DEF LoginsGrow
<1>2. CASE ~SendLogin
  BY <1>2 DEF Next, Runner, Answers, AuditPaths, LoginsDone, Iterate, SkipStore, StartQuery, QueryRuns, Decide,
              ReadHealth, Tick, TableUnresolved, QueryFails, QuerySucceeds, LookupFails, Deliver, DeadLetter,
              RegisterPartitions, AfterStore, vars, LoginsGrow, Stores
<1>3. QED
  BY <1>1, <1>2

\* What a step may do to the event of a login on its way to a store: it may be
\* sent, or stored, or given up; once stored it stays.
EventMoves(s, i) ==
  /\ place[s][i] = "stored" => place'[s][i] = "stored"
  /\ \/ place'[s][i] = place[s][i]
     \/ place[s][i] = "none" /\ i = Len(logins) + 1 /\ Len(logins') = Len(logins) + 1
     \/ place[s][i] = "pending" /\ pc # "done"
  /\ \/ visibleAt'[s][i] = visibleAt[s][i]
     \/ visibleAt'[s][i] = now /\ visibleAt[s][i] = Never /\ place'[s][i] = "stored"
        /\ place[s][i] # "none" /\ i <= Len(logins)

LEMMA StepMoves ==
  ASSUME IInv, [Next]_vars, NEW s \in Stores, NEW i \in Logins
  PROVE  EventMoves(s, i)
<1>1. /\ place[s][i] # "none" => i <= Len(logins)
      /\ visibleAt[s][i] # Never => place[s][i] = "stored"
  BY DEF IInv, OnTheWay
<1> DEFINE Places == {"none", "pending", "stored", "deadLettered"}
           Times == Time \cup {Never}
<1>2. /\ place \in [Stores -> [Logins -> Places]] /\ visibleAt \in [Stores -> [Logins -> Times]]
      /\ now \in Times /\ "stored" \in Places /\ "deadLettered" \in Places /\ "securityLake" \in Stores
  BY DEF IInv, TypeOK, Stores
<1>3. i \in Nat /\ Len(logins) \in Nat
  BY ClockType, Settings DEF IInv
<1> HIDE DEF Places, Times
<1>4. CASE SendLogin
  <2>1. PICK answer \in LoginAnswers :
          /\ logins' = Append(logins, [sentAt |-> now, expected |-> answer.expected, receipt |-> answer.receipt])
          /\ place' = IF answer.receipt THEN [r \in Stores |-> [place[r] EXCEPT ![Len(logins) + 1] = "pending"]]
                      ELSE place
    BY <1>4 DEF SendLogin
  <2>2. visibleAt' = visibleAt /\ pc = "logins"
    BY <1>4 DEF SendLogin
  <2>3. [sentAt |-> now, expected |-> answer.expected, receipt |-> answer.receipt] \in LoginAttempt
    BY DEF IInv, TypeOK, LoginAttempt, LoginAnswers
  <2>4. Len(logins') = Len(logins) + 1
    BY <2>1, <2>3 DEF IInv, TypeOK
  <2>5. place'[s][i] = place[s][i] \/ i = Len(logins) + 1
    BY <1>2, <2>1
  <2>6. i = Len(logins) + 1 => place[s][i] = "none"
    BY <1>1, <1>3
  <2>7. QED
    BY <2>2, <2>4, <2>5, <2>6 DEF EventMoves
<1>5. ASSUME NEW r \in Stores, NEW j \in Logins, Deliver(r, j) PROVE EventMoves(s, i)
  <2>1. /\ place[r][j] = "pending" /\ pc # "done" /\ place' = [place EXCEPT ![r][j] = "stored"]
        /\ visibleAt' = visibleAt \/ visibleAt' = [visibleAt EXCEPT ![r][j] = now]
    BY <1>5 DEF Deliver
  <2>2. CASE <<r, j>> = <<s, i>>
    <3>1. place'[s][i] = "stored" /\ (visibleAt'[s][i] = visibleAt[s][i] \/ visibleAt'[s][i] = now)
      BY <1>2, <2>1, <2>2, CellWritten
    <3>2. place[s][i] = "pending"
      BY <2>1, <2>2
    <3>3. QED
      BY <1>1, <2>1, <3>1, <3>2 DEF EventMoves
  <2>3. CASE <<r, j>> # <<s, i>>
    <3>1. place'[s][i] = place[s][i]
      BY <1>2, <2>1, <2>3, CellWritten
    <3>2. visibleAt'[s][i] = visibleAt[s][i]
      BY <1>2, <2>1, <2>3, CellWritten
    <3>3. QED
      BY <3>1, <3>2 DEF EventMoves
  <2>4. QED
    BY <2>2, <2>3
<1>6. ASSUME NEW j \in Logins, DeadLetter(j) PROVE EventMoves(s, i)
  <2>1. /\ place["securityLake"][j] = "pending" /\ pc # "done" /\ visibleAt' = visibleAt
        /\ place' = [place EXCEPT !["securityLake"][j] = "deadLettered"]
    BY <1>6 DEF DeadLetter
  <2>2. place'[s][i] = place[s][i] \/ (s = "securityLake" /\ i = j)
    BY <1>2, <2>1, CellWritten
  <2>3. QED
    BY <2>1, <2>2 DEF EventMoves
<1>7. CASE RegisterPartitions
  <2>1. /\ place' = place
        /\ \/ visibleAt'[s][i] = visibleAt[s][i]
           \/ visibleAt'[s][i] = now /\ visibleAt[s][i] = Never /\ place[s][i] = "stored"
    BY <1>2, <1>7 DEF RegisterPartitions
  <2>2. QED
    BY <1>1, <2>1 DEF EventMoves
<1>8. CASE UNCHANGED <<place, visibleAt>>
  BY <1>8 DEF EventMoves
<1>9. SendLogin \/ AuditPaths \/ UNCHANGED <<place, visibleAt>>
  BY DEF Next, Runner, Answers, LoginsDone, Iterate, SkipStore, StartQuery, QueryRuns, Decide, ReadHealth, Tick,
         TableUnresolved, QueryFails, QuerySucceeds, LookupFails, vars, paths
<1>10. QED
  BY <1>4, <1>5, <1>6, <1>7, <1>8, <1>9 DEF AuditPaths

LEMMA StepOnTheWay ==
  ASSUME IInv, [Next]_vars
  PROVE  OnTheWay'
<1> SUFFICES ASSUME NEW s \in Stores, NEW i \in Logins
             PROVE  /\ place'[s][i] # "none" => i <= Len(logins')
                    /\ visibleAt'[s][i] # Never => place'[s][i] = "stored" /\ logins'[i].sentAt <= visibleAt'[s][i]
  BY DEF OnTheWay
<1>1. EventMoves(s, i) /\ LoginsGrow
  BY StepMoves, StepGrows DEF IInv
<1>2. /\ place[s][i] # "none" => i <= Len(logins)
      /\ visibleAt[s][i] # Never => place[s][i] = "stored" /\ logins[i].sentAt <= visibleAt[s][i]
  BY DEF IInv, OnTheWay
<1>3. i \in Nat /\ i >= 1 /\ Len(logins) \in Nat
  BY ClockType, Settings DEF IInv, Logins
<1>4. Len(logins) <= Len(logins') /\ \A k \in 1..Len(logins) : logins'[k] = logins[k]
  BY <1>1, <1>3 DEF LoginsGrow
<1>5. place'[s][i] # "none" => i <= Len(logins')
  <2>1. Len(logins') \in Nat
    BY <1>1, <1>3 DEF LoginsGrow
  <2>2. CASE place[s][i] # "none"
    BY <1>2, <1>3, <1>4, <2>1, <2>2
  <2>3. CASE place[s][i] = "none"
    BY <1>1, <1>3, <2>3 DEF EventMoves
  <2>4. QED
    BY <2>2, <2>3
<1>6. ASSUME visibleAt'[s][i] # Never PROVE place'[s][i] = "stored" /\ logins'[i].sentAt <= visibleAt'[s][i]
  <2>1. CASE visibleAt[s][i] # Never
    <3>1. visibleAt'[s][i] = visibleAt[s][i] /\ place'[s][i] = "stored"
      BY <1>1, <1>2, <2>1 DEF EventMoves
    <3>2. i \in 1..Len(logins)
      BY <1>2, <1>3, <2>1
    <3>3. QED
      BY <1>2, <1>4, <2>1, <3>1, <3>2
  <2>2. CASE visibleAt[s][i] = Never
    <3>1. visibleAt'[s][i] = now /\ place'[s][i] = "stored" /\ i \in 1..Len(logins)
      BY <1>1, <1>3, <1>6, <2>2 DEF EventMoves
    <3>2. logins[i].sentAt <= now
      BY <3>1 DEF IInv, InOrder
    <3>3. QED
      BY <1>4, <3>1, <3>2
  <2>3. QED
    BY <2>1, <2>2
<1>7. QED
  BY <1>5, <1>6
-----------------------------------------------------------------------------
(* From store to verdict *)

\* Only a query that succeeds sees an event, and it is visible.
LEMMA StepSees ==
  ASSUME IInv, [Next]_vars, NEW s \in Stores, NEW i \in Logins
  PROVE  polls'[s].firstSeen[i] = polls[s].firstSeen[i] \/ visibleAt[s][i] # Never
<1>1. polls \in [Stores -> StorePoll] /\ TypeOK
  BY DEF IInv, TypeOK
<1>2. CASE UNCHANGED polls
  BY <1>2
<1>3. ASSUME NEW r \in Stores, NEW e \in {"table", "query"}, polls' = [polls EXCEPT ![r].error = e]
      PROVE  polls'[s].firstSeen[i] = polls[s].firstSeen[i]
  BY <1>1, <1>3 DEF StorePoll
<1>4. ASSUME NEW r \in Stores, QuerySucceeds(r)
      PROVE  polls'[s].firstSeen[i] = polls[s].firstSeen[i] \/ visibleAt[s][i] # Never
  <2>1. PICK later \in SUBSET (Rows(r) \ lookup.rows) :
          polls' = [polls EXCEPT ![r].firstSeen = SeenNow(r, lookup.rows \cup later)]
    BY <1>4 DEF QuerySucceeds
  <2>2. CASE r # s
    BY <1>1, <2>1, <2>2 DEF StorePoll
  <2>3. CASE r = s
    <3>1. polls'[s].firstSeen = SeenNow(s, lookup.rows \cup later)
      BY <1>1, <2>1, <2>3 DEF StorePoll
    <3>2. \A j \in lookup.rows \cup later : visibleAt[s][j] # Never
      BY <1>4, <2>1, <2>3 DEF IInv, Querying, QuerySucceeds, Rows
    <3>3. QED
      BY <3>1, <3>2 DEF SeenNow
  <2>4. QED
    BY <2>2, <2>3
<1>5. \/ UNCHANGED polls
      \/ \E r \in Stores : QuerySucceeds(r)
      \/ \E r \in Stores, e \in {"table", "query"} : polls' = [polls EXCEPT ![r].error = e]
  BY DEF Next, Runner, Answers, AuditPaths, SendLogin, LoginsDone, Iterate, SkipStore, StartQuery, QueryRuns, Decide,
         ReadHealth, Tick, TableUnresolved, QueryFails, LookupFails, Deliver, DeadLetter, RegisterPartitions, vars, Stores
<1>6. QED
  BY <1>2, <1>3, <1>4, <1>5

LEMMA StepFound ==
  ASSUME IInv, [Next]_vars
  PROVE  Found'
<1> SUFFICES ASSUME NEW s \in Stores, NEW i \in Logins, polls'[s].firstSeen[i] # Never
             PROVE  place'[s][i] = "stored"
  BY DEF Found
<1>1. polls[s].firstSeen[i] # Never \/ visibleAt[s][i] # Never
  BY StepSees
<1>2. place[s][i] = "stored"
  BY <1>1 DEF IInv, Found, OnTheWay
<1>3. QED
  BY <1>2, StepMoves DEF EventMoves

\* A query is submitted with all that was visible when the iteration began.
LEMMA SubmittedWithAll ==
  ASSUME IInv, NEW s \in Stores, pc = s, NEW i \in Ids, visibleAt[s][i] # Never, visibleAt[s][i] < iterationAt
  PROVE  i \in Rows(s)
<1>1. i \in Logins /\ i \in 1..Len(logins)
  BY Asked DEF IInv, Ids
<1>2. /\ logins[i].sentAt \in Nat /\ iterationAt \in Nat /\ Len(logins) \in Nat
  BY <1>1, ClockType DEF IInv
<1>3. 1 \in 1..Len(logins)
  BY <1>1, <1>2
<1>4. logins[1].sentAt \in Nat
  BY <1>3, ClockType DEF IInv
<1>5. visibleAt[s][i] \in Nat
  <2>1. visibleAt[s][i] \in Time \cup {Never}
    BY <1>1 DEF IInv, TypeOK
  <2>2. QED
    BY <2>1, TimeIsNat
<1>6. logins[1].sentAt <= logins[i].sentAt /\ logins[i].sentAt <= visibleAt[s][i]
  BY <1>1 DEF IInv, InOrder, OnTheWay
<1>7. /\ Day(logins[1].sentAt) <= Day(logins[i].sentAt) /\ Day(logins[i].sentAt) <= Day(iterationAt)
      /\ Day(logins[1].sentAt) <= Day(visibleAt[s][i]) /\ Day(visibleAt[s][i]) <= Day(iterationAt)
      /\ {Day(logins[1].sentAt), Day(logins[i].sentAt), Day(visibleAt[s][i]), Day(iterationAt)} \subseteq {0, 1}
  <2>1. logins[i].sentAt <= iterationAt /\ logins[1].sentAt <= visibleAt[s][i] /\ visibleAt[s][i] <= iterationAt
    BY <1>2, <1>4, <1>5, <1>6
  <2>2. QED
    BY <1>2, <1>4, <1>5, <1>6, <2>1, DayGrows
<1>8. PartitionDay(s, i) \in {Day(visibleAt[s][i]), Day(logins[i].sentAt)}
  BY DEF PartitionDay
<1>9. PartitionDay(s, i) \in Window
  BY <1>7, <1>8 DEF Window
<1>10. QED
  BY <1>9 DEF Rows

\* Which steps leave a running query running.
LEMMA StepKeepsQuery ==
  ASSUME [Next]_vars, TypeOK, lookup.state = "running" => pc \in Stores, lookup'.state = "running"
  PROVE  \/ \E s \in Stores : StartQuery(s)
         \/ UNCHANGED <<pc, logins, iterationAt, lookup, polls>>
<1>1. CASE Answers
  BY <1>1 DEF Answers, TableUnresolved, QueryFails, QuerySucceeds, LookupFails, NoLookup
<1>2. CASE AuditPaths \/ Tick \/ UNCHANGED vars
  BY <1>2 DEF AuditPaths, Deliver, DeadLetter, RegisterPartitions, Tick, vars
<1>3. CASE SendLogin \/ LoginsDone \/ Iterate \/ Decide \/ ReadHealth
  BY <1>3 DEF SendLogin, LoginsDone, Iterate, Decide, ReadHealth, EndOfIteration, NoLookup, Stores
<1>4. ASSUME NEW s \in Stores, SkipStore(s) \/ QueryRuns(s)
      PROVE  UNCHANGED <<pc, logins, iterationAt, lookup, polls>>
  BY <1>4 DEF SkipStore, QueryRuns, NoLookup
<1>5. QED
  BY <1>1, <1>2, <1>3, <1>4 DEF Next, Runner

LEMMA StepQuerying ==
  ASSUME IInv, [Next]_vars
  PROVE  Querying'
<1>1. TypeOK /\ (lookup.state = "running" => pc \in Stores)
  BY DEF IInv, Querying
<1>2. ASSUME lookup'.state = "running" PROVE pc' \in Stores
  <2>1. CASE UNCHANGED <<pc, lookup>>
    BY <1>1, <1>2, <2>1
  <2>2. CASE \E s \in Stores : StartQuery(s)
    BY <2>2 DEF StartQuery
  <2>3. QED
    BY <1>1, <1>2, <2>1, <2>2, StepKeepsQuery
<1>3. ASSUME NEW s \in Stores, pc' = s, lookup'.state = "running"
      PROVE  /\ lookup'.asked = Unseen(s)'
             /\ \A i \in lookup'.rows : visibleAt'[s][i] # Never
             /\ \A i \in Ids' : visibleAt'[s][i] # Never /\ visibleAt'[s][i] < iterationAt' => i \in lookup'.rows
  <2>1. CASE \E r \in Stores : StartQuery(r)
    <3>1. /\ pc = s /\ lookup' = [state |-> "running", asked |-> Unseen(s), rows |-> Rows(s)]
          /\ UNCHANGED <<logins, iterationAt, polls, visibleAt>>
      BY <1>3, <2>1 DEF StartQuery, paths
    <3>2. Ids' = Ids /\ Unseen(s)' = Unseen(s)
      BY <3>1 DEF Ids, Unseen
    <3>3. \A i \in Rows(s) : visibleAt[s][i] # Never
      BY DEF Rows
    <3>4. QED
      BY <3>1, <3>2, <3>3, SubmittedWithAll
  <2>2. CASE UNCHANGED <<pc, logins, iterationAt, lookup, polls>>
    <3>1. Ids' = Ids /\ Unseen(s)' = Unseen(s) /\ Ids \subseteq Logins /\ lookup.rows \subseteq Logins
      BY <1>1, <2>2, Asked DEF Ids, Unseen, TypeOK, Lookup
    <3>2. /\ lookup.asked = Unseen(s)
          /\ \A i \in lookup.rows : visibleAt[s][i] # Never
          /\ \A i \in Ids : visibleAt[s][i] # Never /\ visibleAt[s][i] < iterationAt => i \in lookup.rows
      BY <1>3, <2>2 DEF IInv, Querying
    <3>3. now \in Nat /\ iterationAt \in Nat /\ iterationAt <= now
      BY <1>1, ClockType DEF IInv, InOrder
    <3>4. \A i \in Logins : visibleAt'[s][i] = visibleAt[s][i] \/ (visibleAt'[s][i] = now /\ visibleAt[s][i] = Never)
      BY StepMoves DEF EventMoves
    <3>5. now # Never /\ ~(now < iterationAt)
      BY <3>3, Settings
    <3>6. QED
      BY <2>2, <3>1, <3>2, <3>4, <3>5
  <2>3. QED
    BY <1>1, <1>3, <2>1, <2>2, StepKeepsQuery
<1>4. QED
  BY <1>2, <1>3 DEF Querying

\* Once polling has ended only ReadHealth moves the runner.
LEMMA AfterPolling ==
  ASSUME [Next]_vars, pc \in {"health", "done"}
  PROVE  /\ UNCHANGED <<logins, polls>> /\ pc' \in {"health", "done"}
         /\ pc = "done" => UNCHANGED <<pc, verdict>>
         /\ now' = now \/ now' = now + 1
<1>1. CASE Answers
  BY <1>1 DEF Answers, TableUnresolved, QueryFails, QuerySucceeds, Stores
<1>2. CASE AuditPaths \/ Tick \/ UNCHANGED vars
  BY <1>2 DEF AuditPaths, Deliver, DeadLetter, RegisterPartitions, Tick, vars, clock
<1>3. CASE SendLogin \/ LoginsDone \/ Iterate \/ Decide \/ ReadHealth
  BY <1>3 DEF SendLogin, LoginsDone, Iterate, Decide, ReadHealth, clock
<1>4. CASE \E s \in Stores : SkipStore(s) \/ StartQuery(s) \/ QueryRuns(s)
  BY <1>4 DEF SkipStore, StartQuery, QueryRuns, Stores
<1>5. QED
  BY <1>1, <1>2, <1>3, <1>4 DEF Next, Runner

\* Before that no verdict is given, and only Decide ends polling.
LEMMA UpToPolling ==
  ASSUME [Next]_vars, pc \notin {"health", "done"}
  PROVE  verdict' = verdict /\ (pc' \in {"health", "done"} => Decide)
<1>1. CASE Answers
  BY <1>1 DEF Answers, TableUnresolved, QueryFails, QuerySucceeds, LookupFails, AfterStore
<1>2. CASE AuditPaths \/ Tick \/ UNCHANGED vars
  BY <1>2 DEF AuditPaths, Deliver, DeadLetter, RegisterPartitions, Tick, vars
<1>3. CASE SendLogin \/ LoginsDone \/ Iterate \/ Decide \/ ReadHealth
  BY <1>3 DEF SendLogin, LoginsDone, Iterate, Decide, ReadHealth
<1>4. CASE \E s \in Stores : SkipStore(s) \/ StartQuery(s) \/ QueryRuns(s)
  BY <1>4 DEF SkipStore, StartQuery, QueryRuns, AfterStore
<1>5. QED
  BY <1>1, <1>2, <1>3, <1>4 DEF Next, Runner

LEMMA StepConcluded ==
  ASSUME IInv, [Next]_vars
  PROVE  Concluded'
<1>1. now \in Nat /\ Deadline \in Nat
  BY ClockType, Settings DEF IInv
<1>2. CASE pc \in {"health", "done"}
  <2>1. /\ UNCHANGED <<logins, polls>> /\ pc' \in {"health", "done"} /\ (pc = "done" => UNCHANGED <<pc, verdict>>)
        /\ now' = now \/ now' = now + 1
    BY <1>2, AfterPolling
  <2>2. ASSUME NEW s \in Stores, Awaiting(s)' PROVE now' >= Deadline
    <3>1. Awaiting(s)
      BY <2>1, <2>2 DEF Awaiting, Unseen, Ids
    <3>2. now >= Deadline
      BY <1>2, <3>1 DEF IInv, Concluded
    <3>3. QED
      BY <1>1, <2>1, <3>2
  <2>3. verdict' # "none" => pc' = "done"
    <3>1. CASE pc = "done"
      BY <2>1, <3>1
    <3>2. CASE pc = "health"
      <4>1. verdict = "none"
        BY <3>2 DEF IInv, Concluded
      <4>2. verdict' = verdict \/ ReadHealth
        BY DEF Next, Runner, Answers, AuditPaths, SendLogin, LoginsDone, Iterate, SkipStore, StartQuery, QueryRuns,
               Decide, Tick, TableUnresolved, QueryFails, QuerySucceeds, LookupFails, Deliver, DeadLetter,
               RegisterPartitions, vars
      <4>3. QED
        BY <4>1, <4>2 DEF ReadHealth
    <3>3. QED
      BY <1>2, <3>1, <3>2
  <2>4. QED
    BY <2>2, <2>3 DEF Concluded
<1>3. CASE pc \notin {"health", "done"}
  <2>1. verdict = "none" /\ verdict' = "none"
    BY <1>3, UpToPolling DEF IInv, Concluded
  <2>2. ASSUME pc' \in {"health", "done"}, NEW s \in Stores, Awaiting(s)' PROVE now' >= Deadline
    <3>1. Decide
      BY <1>3, <2>2, UpToPolling
    <3>2. UNCHANGED <<now, logins, polls>> /\ ~((\E r \in Stores : Awaiting(r)) /\ now < Deadline)
      BY <2>2, <3>1 DEF Decide, clock
    <3>3. Awaiting(s)
      BY <2>2, <3>2 DEF Awaiting, Unseen, Ids
    <3>4. QED
      BY <1>1, <3>2, <3>3
  <2>3. QED
    BY <2>1, <2>2 DEF Concluded
<1>4. QED
  BY <1>2, <1>3

LEMMA StepPassed ==
  ASSUME IInv, [Next]_vars
  PROVE  PassedIsEvidence'
<1> SUFFICES ASSUME verdict' = "passed"
             PROVE  \A i \in Logins : /\ logins'[i].expected /\ logins'[i].receipt
                                      /\ \A s \in Stores : place'[s][i] = "stored"
  BY DEF PassedIsEvidence
<1>1. \A i \in Logins : /\ logins[i].expected /\ logins[i].receipt
                        /\ \A s \in Stores : place[s][i] = "stored"
  <2>1. CASE verdict = "passed"
    BY <2>1 DEF IInv, PassedIsEvidence
  <2>2. CASE verdict # "passed"
    <3>1. ReadHealth
      BY <2>2 DEF Next, Runner, Answers, AuditPaths, SendLogin, LoginsDone, Iterate, SkipStore, StartQuery, QueryRuns,
                  Decide, Tick, TableUnresolved, QueryFails, QuerySucceeds, LookupFails, Deliver, DeadLetter,
                  RegisterPartitions, vars
    <3>2. PICK healthy \in HealthReadings : Passed(healthy)
      BY <3>1 DEF ReadHealth
    <3>3. Len(logins) = Attempts
      BY <3>1 DEF ReadHealth, IInv, InOrder
    <3>4. \A i \in Logins : i \in Ids
      BY <3>2, <3>3 DEF Passed, Ids, Logins
    <3>5. \A s \in Stores, i \in Logins : polls[s].firstSeen[i] # Never
      BY <3>2, <3>4 DEF Passed, AllFound, Unseen
    <3>6. QED
      BY <3>2, <3>5 DEF Passed, IInv, Found
  <2>3. QED
    BY <2>1, <2>2
<1>2. logins' = logins
  <2>1. pc \in {"health", "done"}
    <3>1. verdict # "passed" => pc = "health"
      BY DEF Next, Runner, Answers, AuditPaths, SendLogin, LoginsDone, Iterate, SkipStore, StartQuery, QueryRuns,
             Decide, ReadHealth, Tick, TableUnresolved, QueryFails, QuerySucceeds, LookupFails, Deliver, DeadLetter,
             RegisterPartitions, vars
    <3>2. QED
      BY <3>1 DEF IInv, Concluded
  <2>2. QED
    BY <2>1, AfterPolling
<1>3. \A s \in Stores, i \in Logins : place'[s][i] = "stored"
  BY <1>1, StepMoves DEF EventMoves
<1>4. QED
  BY <1>1, <1>2, <1>3

-----------------------------------------------------------------------------
(* The invariant *)

LEMMA InitKeepsIInv == Init => IInv
<1> SUFFICES ASSUME Init PROVE IInv
  OBVIOUS
<1>1. TypeOK
  <2>0. now \in Time /\ until \in Time /\ iterationAt \in Time /\ now <= until
    BY TimeIsNat DEF Init
  <2>1. /\ pc \in PC /\ resolved \in BOOLEAN /\ crawler \in BOOLEAN /\ verdict \in {"none", "passed", "failed"}
        /\ registered \subseteq {0, 1} /\ lookup \in Lookup
    BY DEF Init, PC, Lookup, NoLookup
  <2>2. logins \in Seq(LoginAttempt) /\ Len(logins) <= Attempts
    BY Settings DEF Init
  <2>3. polls \in [Stores -> StorePoll]
    BY DEF Init, StorePoll
  <2>4. /\ place \in [Stores -> [Logins -> {"none", "pending", "stored", "deadLettered"}]]
        /\ visibleAt \in [Stores -> [Logins -> Time \cup {Never}]]
    BY DEF Init
  <2>5. QED
    BY <2>0, <2>1, <2>2, <2>3, <2>4 DEF TypeOK
<1>2. InOrder
  BY DEF Init, InOrder
<1>3. InTime /\ BoundedOverrun
  BY Settings, LoginsTake DEF Init, InTime, BoundedOverrun
<1>4. OnTheWay /\ Found /\ Querying /\ Concluded /\ PassedIsEvidence
  BY DEF Init, OnTheWay, Found, Querying, NoLookup, Concluded, PassedIsEvidence
<1>5. QED
  BY <1>1, <1>2, <1>3, <1>4 DEF IInv

LEMMA StepKeepsIInv == IInv /\ [Next]_vars => IInv'
<1> SUFFICES ASSUME IInv, [Next]_vars PROVE IInv'
  OBVIOUS
<1>1. InOrder' /\ InTime' /\ BoundedOverrun'
  BY StepOnTime DEF OnTime
<1>2. QED
  BY <1>1, StepTypeOK, StepOnTheWay, StepQuerying, StepFound, StepConcluded, StepPassed DEF IInv

LEMMA Invariant == Spec => []IInv
  BY InitKeepsIInv, StepKeepsIInv, PTL DEF Spec

\* The run's clock, logins, lookups, polls and verdict keep their types.
THEOREM TypeCorrect == Spec => []TypeOK
<1>1. IInv => TypeOK
  BY DEF IInv
<1>2. QED
  BY <1>1, Invariant, PTL

\* A passed run is evidence (verdict.ts:47-57): every login was answered as
\* expected and its event is in both stores.
THEOREM PassMeansBothStores == Spec => []PassedIsEvidence
<1>1. IInv => PassedIsEvidence
  BY DEF IInv
<1>2. QED
  BY <1>1, Invariant, PTL

\* A store is reported incomplete only once the deadline has passed
\* (comparison-result.ts:49-53).
THEOREM GivenUpAtTheDeadline == Spec => []IncompleteMeansDeadline
<1>1. IInv => IncompleteMeansDeadline
  BY DEF IInv, Concluded, IncompleteMeansDeadline, StoreStatus, Awaiting
<1>2. QED
  BY <1>1, Invariant, PTL

\* The run outlives its deadline by less than one query poll, unless its logins
\* alone took longer (athena-audit-store-reader.ts:51-56).
THEOREM OverrunIsBounded == Spec => []BoundedOverrun
<1>1. IInv => BoundedOverrun
  BY DEF IInv
<1>2. QED
  BY <1>1, Invariant, PTL

\* A lookup that succeeds returns all that was queryable when its iteration
\* began, also across midnight (athena-queries.ts).
THEOREM LookupsAreComplete == Spec => FindsWhatWasThere
<1>1. IInv /\ [Next]_vars =>
        [\A s \in Stores : pc = s /\ lookup.state = "running" /\ lookup'.state = "succeeded" =>
           \A i \in Ids : visibleAt[s][i] # Never /\ visibleAt[s][i] < iterationAt
                            => polls'[s].firstSeen[i] # Never]_vars
  <2> SUFFICES ASSUME IInv, [Next]_vars, NEW s \in Stores, pc = s,
                      lookup.state = "running", lookup'.state = "succeeded",
                      NEW i \in Ids, visibleAt[s][i] # Never, visibleAt[s][i] < iterationAt
               PROVE  polls'[s].firstSeen[i] # Never
    OBVIOUS
  <2>1. \E r \in Stores : QuerySucceeds(r)
    <3>1. CASE AuditPaths \/ Tick \/ UNCHANGED vars
      BY <3>1 DEF AuditPaths, Deliver, DeadLetter, RegisterPartitions, Tick, vars
    <3>2. CASE SendLogin \/ LoginsDone \/ Iterate \/ Decide \/ ReadHealth
      BY <3>2 DEF SendLogin, LoginsDone, Iterate, Decide, ReadHealth, Stores
    <3>3. CASE TableUnresolved \/ \E r \in Stores : SkipStore(r) \/ StartQuery(r) \/ QueryRuns(r) \/ QueryFails(r)
      BY <3>3 DEF TableUnresolved, SkipStore, StartQuery, QueryRuns, QueryFails, LookupFails, NoLookup
    <3>4. QED
      BY <3>1, <3>2, <3>3 DEF Next, Runner, Answers
  <2>2. PICK later \in SUBSET (Rows(s) \ lookup.rows) :
          polls' = [polls EXCEPT ![s].firstSeen = SeenNow(s, lookup.rows \cup later)]
    BY <2>1 DEF QuerySucceeds
  <2>3. i \in lookup.rows /\ lookup.asked = Unseen(s) /\ i \in Logins /\ polls \in [Stores -> StorePoll]
    BY Asked DEF IInv, Querying, TypeOK
  <2>4. polls'[s].firstSeen[i] = IF i \in lookup.asked THEN now ELSE polls[s].firstSeen[i]
    BY <2>2, <2>3 DEF SeenNow, StorePoll
  <2>5. now # Never
    BY ClockType, Settings DEF IInv
  <2>6. QED
    BY <2>3, <2>4, <2>5 DEF Unseen
<1>2. QED
  BY <1>1, Invariant, PTL DEF Spec, FindsWhatWasThere
=============================================================================
