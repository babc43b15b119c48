--------------------------- MODULE SchedulerProofs ---------------------------
(***************************************************************************)
(* Proofs about Scheduler, for days of every length and every list of      *)
(* weekdays: scheduleMatches says when the windows of the week are, and    *)
(* the recorder follows it.                                                *)
(***************************************************************************)
EXTENDS Scheduler, TLAPS

-----------------------------------------------------------------------------
(* The minutes of the week *)

\* A day and a minute in it are determined by the minute of the week.
LEMMA SameMinute ==
  ASSUME NEW a \in Int, NEW b \in Int, NEW p \in Clock, NEW q \in Clock,
         a * Minutes + p = b * Minutes + q
  PROVE  a = b /\ p = q
<1>1. Minutes \in Nat \ {0} /\ p \in 0 .. Minutes - 1 /\ q \in 0 .. Minutes - 1
  BY MinutesAssumption DEF Clock
<1>2. ASSUME NEW x \in Int, NEW y \in Int, x > y
      PROVE  x * Minutes >= y * Minutes + Minutes
  <2>1. PICK z \in Nat : x = y + 1 + z
    <3>1. x - y - 1 \in Nat /\ x = y + 1 + (x - y - 1)
      BY <1>2
    <3> QED
      BY <3>1
  <2>2. x * Minutes = y * Minutes + Minutes + z * Minutes /\ z * Minutes \in Nat
    BY <1>1, <2>1
  <2>3. y * Minutes \in Int
    BY <1>1
  <2> QED
    BY <1>1, <2>2, <2>3
<1>3. PICK am, bm \in Int : am = a * Minutes /\ bm = b * Minutes
  BY <1>1
<1>4. ~(a > b) /\ ~(b > a)
  BY <1>1, <1>2, <1>3
<1>5. a = b
  BY <1>4
<1> QED
  BY <1>1, <1>3, <1>5

\* The remainder of a number that goes round the week once at most.
LEMMA OnceRound ==
  ASSUME NEW n \in Nat \ {0}, NEW x \in Nat, x < 2 * n
  PROVE  x % n = IF x < n THEN x ELSE x - n
<1>1. PICK q \in Int : q = x \div n
  OBVIOUS
<1>2. PICK r \in Int : r = x % n
  OBVIOUS
<1>3. PICK p \in Int : p = n * q
  OBVIOUS
<1>4. x = p + r /\ 0 <= r /\ r < n
  BY <1>1, <1>2, <1>3
<1>5. CASE q <= -1
  <2>1. n * q <= n * (-1)
    BY <1>5
  <2> QED
    BY <1>3, <1>4, <2>1
<1>6. CASE q = 0
  BY <1>2, <1>3, <1>4, <1>6
<1>7. CASE q = 1
  BY <1>2, <1>3, <1>4, <1>7
<1>8. CASE q >= 2
  <2>1. n * q >= n * 2
    BY <1>8
  <2> QED
    BY <1>3, <1>4, <2>1
<1> QED
  BY <1>5, <1>6, <1>7, <1>8

\* The lists of weekdays: Sunday is 0 or 7.
LEMMA DayListed ==
  ASSUME NEW days \in SUBSET (0 .. 7), NEW d \in Days
  PROVE  d \in {x % 7 : x \in days} <=> containsWeekday(days, isoWeekday(d))
<1>1. \A x \in 0 .. 7 : x % 7 = IF x = 7 THEN 0 ELSE x
  OBVIOUS
<1>2. d \in {x % 7 : x \in days} <=> \E x \in days : d = IF x = 7 THEN 0 ELSE x
  BY <1>1
<1> QED
  BY <1>2 DEF containsWeekday, isoWeekday, Days

\* Where a minute of a window that starts on a day lies in the week.
LEMMA MinuteOfWindow ==
  ASSUME NEW day \in Days, NEW d \in Days, NEW m \in Clock, NEW at \in Nat, at < 2 * Minutes
  PROVE  WeekMinute(d, m) = (day * Minutes + at) % (7 * Minutes)
           <=> \/ at < Minutes /\ d = day /\ m = at
               \/ at >= Minutes /\ day = Yesterday(d) /\ m = at - Minutes
<1>1. Minutes \in Nat \ {0} /\ m \in 0 .. Minutes - 1
  BY MinutesAssumption DEF Clock
<1>2. PICK n \in Nat \ {0} : n = 7 * Minutes
  BY <1>1
<1>3. /\ day * Minutes \in Nat /\ d * Minutes \in Nat /\ day * Minutes <= 6 * Minutes
      /\ (day + 1) * Minutes = day * Minutes + Minutes
  BY <1>1 DEF Days
<1>4. PICK x \in Nat : x = day * Minutes + at
  BY <1>3
<1>5. x < 2 * n
  BY <1>1, <1>2, <1>3, <1>4
<1>6. x % n = IF x < n THEN x ELSE x - n
  BY <1>5, OnceRound
<1>7. CASE at < Minutes
  <2>1. x < n /\ at \in Clock
    BY <1>1, <1>2, <1>3, <1>4, <1>7 DEF Clock
  <2>2. WeekMinute(d, m) = x % n <=> d * Minutes + m = day * Minutes + at
    BY <1>4, <1>6, <2>1 DEF WeekMinute
  <2>3. d * Minutes + m = day * Minutes + at <=> d = day /\ m = at
    BY <2>1, SameMinute DEF Days
  <2> QED
    BY <1>1, <1>2, <1>4, <1>7, <2>2, <2>3
<1>8. CASE at >= Minutes
  <2>1. PICK b \in Clock : at = b + Minutes
    <3>1. at - Minutes \in Clock /\ at = (at - Minutes) + Minutes
      BY <1>1, <1>8 DEF Clock
    <3> QED
      BY <3>1
  <2>2. CASE day = 6
    <3>1. x = n + b /\ b \in Nat
      BY <1>1, <1>2, <1>4, <2>1, <2>2 DEF Clock
    <3>2. x % n = 0 * Minutes + b
      BY <1>1, <1>2, <1>6, <3>1
    <3>3. WeekMinute(d, m) = x % n <=> d = 0 /\ m = b
      BY <3>2, SameMinute DEF Days, WeekMinute
    <3>4. d = 0 <=> Yesterday(d) = 6
      BY DEF Yesterday, Days
    <3> QED
      BY <1>1, <1>2, <1>4, <1>8, <2>1, <2>2, <3>1, <3>3, <3>4
  <2>3. CASE day # 6
    <3>1. x = (day + 1) * Minutes + b /\ b \in Nat /\ day + 1 \in 1 .. 6
      BY <1>1, <1>3, <1>4, <2>1, <2>3 DEF Clock, Days
    <3>2. (day + 1) * Minutes <= 6 * Minutes
      BY <1>1, <3>1
    <3>3. x < n
      BY <1>1, <1>2, <1>3, <2>1, <3>1, <3>2 DEF Clock
    <3>4. WeekMinute(d, m) = x % n <=> d = day + 1 /\ m = b
      BY <1>6, <3>1, <3>3, SameMinute DEF Days, WeekMinute
    <3>5. d = day + 1 <=> Yesterday(d) = day
      BY <2>3 DEF Yesterday, Days
    <3> QED
      BY <1>1, <1>2, <1>4, <1>8, <2>1, <3>1, <3>4, <3>5
  <2> QED
    BY <2>2, <2>3
<1> QED
  BY <1>1, <1>7, <1>8

\* scheduleMatches is right about every item, on every day and at every minute:
\* it holds exactly in the windows of the week.
LEMMA MatchesInWindow ==
  ASSUME NEW i \in Items, NEW d \in Days, NEW m \in Clock
  PROVE  scheduleMatches(i, d, m) <=> InWindow(i, d, m)
<1>1. /\ Minutes \in Nat \ {0} /\ i.start \in 0 .. Minutes - 1 /\ i.end \in 0 .. Minutes - 1
      /\ m \in 0 .. Minutes - 1 /\ i.weekdays \in SUBSET (0 .. 7)
  BY MinutesAssumption, WeekdaysAssumption DEF Items, Clock
<1> DEFINE Listed(day) == containsWeekday(i.weekdays, isoWeekday(day))
<1>2. \A day \in Days : day \in {x % 7 : x \in i.weekdays} <=> Listed(day)
  BY <1>1, DayListed
<1>3. Yesterday(d) \in Days
  BY DEF Yesterday, Days
<1>4. Length(i) \in Nat /\ Length(i) <= Minutes
  BY <1>1 DEF Length
<1>5. ASSUME NEW day \in Days, NEW k \in 0 .. Length(i) - 1, NEW at \in Nat, at = i.start + k
      PROVE  WeekMinute(d, m) = (WeekMinute(day, i.start) + k) % (7 * Minutes)
               <=> \/ at < Minutes /\ d = day /\ m = at
                   \/ at >= Minutes /\ day = Yesterday(d) /\ m = at - Minutes
  <2>1. at < 2 * Minutes
    BY <1>1, <1>4, <1>5
  <2>2. WeekMinute(d, m) = (day * Minutes + at) % (7 * Minutes)
          <=> \/ at < Minutes /\ d = day /\ m = at
              \/ at >= Minutes /\ day = Yesterday(d) /\ m = at - Minutes
    BY <2>1, MinuteOfWindow
  <2>3. day * Minutes \in Int
    BY <1>1 DEF Days
  <2>4. WeekMinute(day, i.start) + k = day * Minutes + at
    BY <1>1, <1>5, <2>3 DEF WeekMinute
  <2> QED
    BY <2>2, <2>4, Zenon
<1> HIDE DEF Listed
<1>6. ASSUME InWindow(i, d, m)
      PROVE  scheduleMatches(i, d, m)
  <2>1. PICK day \in Days, k \in 0 .. Length(i) - 1 :
          /\ Listed(day)
          /\ WeekMinute(d, m) = (WeekMinute(day, i.start) + k) % (7 * Minutes)
    BY <1>2, <1>6 DEF InWindow
  <2>2. PICK at \in Nat : at = i.start + k
    BY <1>1
  <2>3. CASE at < Minutes /\ d = day /\ m = at
    <3>1. m >= i.start /\ Listed(d) /\ (i.start <= i.end => m < i.end)
      BY <1>1, <1>4, <2>1, <2>2, <2>3 DEF Length
    <3> QED
      BY <1>1, <3>1 DEF scheduleMatches, Listed
  <2>4. CASE at >= Minutes /\ day = Yesterday(d) /\ m = at - Minutes
    <3>1. m < i.end /\ Listed(Yesterday(d)) /\ ~(i.start <= i.end)
      BY <1>1, <1>4, <2>1, <2>2, <2>4 DEF Length
    <3> QED
      BY <3>1 DEF scheduleMatches, Listed
  <2> QED
    BY <1>5, <2>1, <2>2, <2>3, <2>4
<1>7. ASSUME scheduleMatches(i, d, m)
      PROVE  InWindow(i, d, m)
  <2>1. CASE m >= i.start /\ Listed(d) /\ (i.start <= i.end => m < i.end)
    <3>1. m - i.start \in 0 .. Length(i) - 1 /\ i.start + (m - i.start) = m /\ m < Minutes
      BY <1>1, <2>1 DEF Length
    <3>2. PICK k \in 0 .. Length(i) - 1 : i.start + k = m
      BY <3>1
    <3>3. WeekMinute(d, m) = (WeekMinute(d, i.start) + k) % (7 * Minutes)
      <4>1. m \in Nat /\ m = i.start + k /\ m < Minutes
        BY <1>1, <3>1, <3>2
      <4> QED
        BY <1>5, <4>1
    <3> QED
      BY <1>2, <2>1, <3>3 DEF InWindow
  <2>2. CASE m < i.end /\ Listed(Yesterday(d)) /\ ~(i.start <= i.end)
    <3>1. /\ m + Minutes - i.start \in 0 .. Length(i) - 1
          /\ i.start + (m + Minutes - i.start) = m + Minutes
      BY <1>1, <2>2 DEF Length
    <3>2. PICK k \in 0 .. Length(i) - 1 : i.start + k = m + Minutes
      BY <3>1
    <3>3. PICK at \in Nat : at = i.start + k /\ at >= Minutes /\ m = at - Minutes
      BY <1>1, <3>2
    <3>4. WeekMinute(d, m) = (WeekMinute(Yesterday(d), i.start) + k) % (7 * Minutes)
      BY <1>3, <1>5, <3>3
    <3> QED
      BY <1>2, <1>3, <2>2, <3>4 DEF InWindow
  <2> QED
    BY <1>7, <2>1, <2>2 DEF scheduleMatches, Listed
<1> QED
  BY <1>6, <1>7

-----------------------------------------------------------------------------
(* The controller *)

Matches == scheduleMatches(item, weekday, minute)

\* While nobody interferes, what is left of Evaluate fits the state it has read:
\* it starts an idle recorder and stops a running one.  Only a Stop under way
\* leaves the recorder "stopping".
CalmInv ==
  /\ recorder = "stopping" => stops > 0 \/ pc = "flush"
  /\ calm => /\ stops = 0
             /\ pc = "running" => (Running <=> Matches)
             /\ pc = "start" => Matches /\ recorder = "idle"
             /\ pc = "stop" => ~Matches /\ Running
             /\ pc = "flush" => ~Matches /\ recorder = "stopping"

\* The controller starts in a calm week.
LEMMA InitCalm == Init => TypeOK /\ CalmInv
<1>1. 0 \in 0 .. MaxStops
  BY MaxStopsAssumption
<1>2. Init => TypeOK
  BY <1>1 DEF Init, TypeOK
<1>3. Init => CalmInv
  BY DEF Init, CalmInv
<1> QED BY <1>2, <1>3

\* The first half of Evaluate decides by what it reads.
LEMMA EvaluateDecides ==
  ASSUME TypeOK, CalmInv, pc \in {"new", "running"}, Evaluate,
         UNCHANGED <<item, clockVars, recorderVars>>
  PROVE  pc' \in {"start", "stop", "running"} /\ calm' \in BOOLEAN /\ CalmInv'
<1>1. Matches' <=> Matches
  BY DEF Matches, clockVars
<1>2. /\ recorder' = recorder /\ stops' = stops /\ (Running' <=> Running)
      /\ recorder \in {"idle", "waiting", "recording", "stopping"} /\ stops \in 0 .. MaxStops
      /\ recorder = "stopping" => stops > 0
  BY DEF recorderVars, Running, TypeOK, CalmInv
<1>3. /\ pc' = CASE Matches /\ recorder = "idle" -> "start"
                 [] ~Matches /\ recorder # "idle" -> "stop"
                 [] OTHER -> "running"
      /\ calm' = (stops = 0)
  BY DEF Evaluate, Matches
<1>c. calm' \in BOOLEAN /\ (calm' => stops = 0) /\ (stops = 0 => recorder # "stopping")
  <2>1. calm' = (stops = 0)
    BY <1>3
  <2>2. stops = 0 => recorder # "stopping"
    BY <1>2, MaxStopsAssumption
  <2> QED BY <2>1, <2>2, Zenon
<1> HIDE DEF Matches
<1>4. CASE Matches /\ recorder = "idle"
  <2>1. pc' = "start"
    BY <1>3, <1>4
  <2> QED BY <1>c, <1>1, <1>2, <1>4, <2>1 DEF CalmInv
<1>5. CASE ~Matches /\ recorder # "idle"
  <2>1. pc' = "stop"
    BY <1>3, <1>5
  <2>2. calm' => Running
    BY <1>c, <1>2, <1>5 DEF Running
  <2> QED BY <1>c, <1>1, <1>2, <1>5, <2>1, <2>2 DEF CalmInv
<1>6. CASE ~(Matches /\ recorder = "idle") /\ ~(~Matches /\ recorder # "idle")
  <2>1. pc' = "running"
    BY <1>3, <1>6
  <2>2. calm' => (Running <=> Matches)
    BY <1>c, <1>2, <1>6 DEF Running
  <2> QED BY <1>c, <1>1, <1>2, <2>1, <2>2 DEF CalmInv
<1> QED BY <1>4, <1>5, <1>6

\* The clock keeps its type.
LEMMA ClockType ==
  ASSUME TypeOK, MinutePasses
  PROVE  minute' \in Clock /\ weekday' \in Days
<1>1. /\ minute' = (minute + 1) % Minutes
      /\ weekday' = IF minute + 1 = Minutes THEN (weekday + 1) % 7 ELSE weekday
  BY DEF MinutePasses
<1>2. minute' \in Clock
  <2>1. Minutes \in Nat \ {0} /\ minute \in 0 .. Minutes - 1
    BY MinutesAssumption DEF TypeOK, Clock
  <2>2. PICK x \in Nat : x = minute + 1
    BY <2>1
  <2>3. x % Minutes \in 0 .. Minutes - 1
    BY <2>1
  <2> QED BY <1>1, <2>2, <2>3 DEF Clock
<1>3. weekday' \in Days
  BY <1>1 DEF TypeOK, Days
<1> QED BY <1>2, <1>3

\* Every step keeps the types and the calm.
LEMMA NextCalm == TypeOK /\ CalmInv /\ [Next]_vars => (TypeOK /\ CalmInv)'
<1> SUFFICES ASSUME TypeOK, CalmInv, [Next]_vars
             PROVE  TypeOK' /\ CalmInv'
  OBVIOUS
<1> USE DEF recorderVars
<1>m. UNCHANGED <<item, clockVars>> => (Matches' <=> Matches)
  BY DEF Matches, clockVars
<1>s. stops \in Nat /\ MaxStops \in Nat
  BY MaxStopsAssumption DEF TypeOK
<1> HIDE DEF Matches
<1>1. CASE StartController \/ TickReceived
  <2>1. /\ pc \in {"new", "running"} /\ Evaluate /\ UNCHANGED <<item, clockVars, recorderVars>>
        /\ ticker' \in {ticker, "quiet"} /\ stopped' = stopped
    BY <1>1 DEF StartController, TickReceived, TickerOn
  <2>2. pc' \in {"start", "stop", "running"} /\ calm' \in BOOLEAN /\ CalmInv'
    BY <2>1, EvaluateDecides
  <2> QED BY <2>1, <2>2 DEF TypeOK, clockVars
<1>2. CASE EvaluateStart
  <2>1. /\ pc = "start" /\ pc' = "running" /\ recorder' = IF Running THEN recorder ELSE "waiting"
        /\ UNCHANGED <<item, clockVars, sample, stops, stopped, calm>>
        /\ ticker' \in {ticker, "quiet"}
    BY <1>2 DEF EvaluateStart, RecorderStart, TickerOn
  <2>2. TypeOK' /\ Running' /\ recorder' # "stopping"
    BY <2>1 DEF TypeOK, Running, clockVars
  <2> QED BY <1>m, <2>1, <2>2 DEF CalmInv
<1>3. CASE EvaluateStop
  <2>1. /\ pc = "stop" /\ UNCHANGED <<item, clockVars, sample, stops, stopped, calm>>
        /\ ticker' \in {ticker, "quiet"}
        /\ \/ recorder = "idle" /\ pc' = "running" /\ recorder' = recorder
           \/ recorder # "idle" /\ pc' = "flush" /\ recorder' = "stopping"
    BY <1>3 DEF EvaluateStop, TickerOn
  <2>2. TypeOK'
    BY <2>1 DEF TypeOK, clockVars
  <2> QED BY <1>m, <2>1, <2>2 DEF CalmInv, Running
<1>4. CASE EvaluateStopEnd
  <2>1. /\ pc = "flush" /\ UNCHANGED <<item, clockVars, sample, stops, stopped, calm>>
        /\ ticker' \in {ticker, "quiet"} /\ pc' = "running" /\ recorder' = "idle"
    BY <1>4 DEF EvaluateStopEnd, TickerOn
  <2>2. TypeOK'
    BY <2>1 DEF TypeOK, clockVars
  <2> QED BY <1>m, <2>1, <2>2 DEF CalmInv, Running
<1>5. CASE SampleStores
  <2>1. /\ recorder' = "recording" /\ sample' = FALSE /\ calm' = (calm /\ Running)
        /\ UNCHANGED <<item, clockVars, stops, pc, ticker, stopped>>
    BY <1>5 DEF SampleStores
  <2>2. TypeOK' /\ Running'
    BY <2>1 DEF TypeOK, clockVars, Running
  <2> QED BY <1>m, <2>1, <2>2 DEF CalmInv, Running
<1>6. CASE ManualStart \/ ManualStopBegin \/ ManualStopEnd
  <2>1. /\ calm' = FALSE /\ UNCHANGED <<item, clockVars, sample, pc, ticker, stopped>>
        /\ stops' \in 0 .. MaxStops
        /\ recorder' \in {"idle", "waiting", "recording", "stopping"}
        /\ recorder' = "stopping" => stops' > 0
    <3>1. CASE ManualStart
      BY <1>s, <3>1 DEF ManualStart, RecorderStart, Running, TypeOK
    <3>2. CASE ManualStopBegin
      BY <1>s, <3>2 DEF ManualStopBegin
    <3>3. CASE ManualStopEnd
      BY <1>s, <3>3 DEF ManualStopEnd, TypeOK
    <3> QED BY <1>6, <3>1, <3>2, <3>3
  <2> QED BY <2>1 DEF TypeOK, CalmInv, clockVars
<1>7. CASE MinutePasses
  <2>1. UNCHANGED <<item, recorder, sample, stops, pc, ticker, stopped>> /\ calm' = FALSE
    BY <1>7 DEF MinutePasses
  <2> QED BY <1>7, <2>1, ClockType DEF TypeOK, CalmInv
<1>8. CASE SampleReads \/ StopController \/ TickerFires \/ Ended \/ UNCHANGED vars
  <2>1. /\ UNCHANGED <<item, clockVars, recorder, stops, pc, calm>> /\ sample' \in {TRUE, sample}
        /\ stopped' \in {TRUE, stopped} /\ ticker' \in {"fired", ticker}
    BY <1>8 DEF SampleReads, StopController, TickerFires, Ended, vars
  <2>2. TypeOK'
    BY <2>1 DEF TypeOK, clockVars
  <2> QED BY <1>m, <2>1, <2>2 DEF CalmInv, Running
<1>9. CASE GoroutineEnds
  <2>1. /\ UNCHANGED <<item, clockVars, recorder, sample, stops, ticker, stopped, calm>>
        /\ pc = "running" /\ pc' = "ended"
    BY <1>9 DEF GoroutineEnds
  <2> QED BY <2>1 DEF TypeOK, CalmInv, clockVars
<1> QED
  BY <1>1, <1>2, <1>3, <1>4, <1>5, <1>6, <1>7, <1>8, <1>9 DEF Next, Evaluating

\* The recorder follows the schedule, for days of any length and every item: an
\* Evaluate nobody interferes with leaves it running exactly in the windows the
\* item describes, over midnight, over the end of the week and with Sunday
\* written 0 or 7, although it reads the state before it starts or stops it.
THEOREM ScheduleFollowed == Spec => []FollowsSchedule
<1>1. TypeOK /\ CalmInv => FollowsSchedule
  <2>1. TypeOK => (Matches <=> InWindow(item, weekday, minute))
    BY MatchesInWindow DEF TypeOK, Matches
  <2> QED BY <2>1 DEF CalmInv, FollowsSchedule, Agrees
<1> QED
  BY <1>1, InitCalm, NextCalm, PTL DEF Spec

=============================================================================
