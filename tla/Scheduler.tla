------------------------------ MODULE Scheduler ------------------------------
(***************************************************************************)
(* The schedule controller (internal/recorder/scheduler.go) of one camera, *)
(* with one schedule item, beside those who change the state of the same   *)
(* recorder: the API, which starts and stops it, and the puller, whose     *)
(* samples end the wait for a key frame (stream_recorder.go).              *)
(*                                                                         *)
(* A day has Minutes minutes; the clock walks through the week and starts  *)
(* again.  Weekdays are numbered as Go does, 0 for Sunday, and the item    *)
(* lists them by the ISO numbers 1 to 7, where 0 also means Sunday.        *)
(***************************************************************************)
EXTENDS Integers, FiniteSets

CONSTANTS
  Minutes,   \* minutes of a day
  Weekdays,  \* the weekday lists an item may have
  MaxStops   \* bound: API calls of Stop under way at once

ASSUME MinutesAssumption == Minutes \in Nat \ {0}
ASSUME WeekdaysAssumption == Weekdays \subseteq SUBSET (0 .. 7)
ASSUME MaxStopsAssumption == MaxStops \in Nat

Clock == 0 .. Minutes - 1
Days == 0 .. 6
Items == [start : Clock, end : Clock, weekdays : Weekdays]

VARIABLES
  item,      \* the schedule item of the camera
  weekday,   \* now.Weekday()
  minute,    \* now.Hour()*60 + now.Minute()
  recorder,  \* StreamRecorder.state
  sample,    \* has ProcessSample read "waiting" and not yet stored "recording"
  stops,     \* API calls of StreamRecorder.Stop between their two stores
  pc,        \* where the controller stands
  ticker,    \* its ticker: "off", "quiet" or "fired"
  stopped,   \* ScheduleController.Stop was called
  calm       \* history: nobody interfered since the last Evaluate began

clockVars == <<weekday, minute>>
recorderVars == <<recorder, sample, stops>>
vars == <<item, clockVars, recorderVars, pc, ticker, stopped, calm>>

Init ==
  /\ item \in Items
  /\ weekday \in Days /\ minute \in Clock
  /\ recorder = "idle" /\ sample = FALSE /\ stops = 0
  /\ pc = "new" /\ ticker = "off"
  /\ stopped = FALSE /\ calm = FALSE

-----------------------------------------------------------------------------
isoWeekday(d) == IF d = 0 THEN 7 ELSE d

containsWeekday(days, target) == target \in days \/ (target = 7 /\ 0 \in days)

Yesterday(d) == (d + 6) % 7

\* Mutant: the morning after is looked for under today's name.
MatchesToday(i, d, m) ==
  IF i.start <= i.end
    THEN containsWeekday(i.weekdays, isoWeekday(d)) /\ m >= i.start /\ m < i.end
    ELSE containsWeekday(i.weekdays, isoWeekday(d)) /\ (m >= i.start \/ m < i.end)

\* scheduleMatches: an item that ends before it starts goes over midnight.
scheduleMatches(i, d, m) ==
  IF i.start <= i.end
    THEN containsWeekday(i.weekdays, isoWeekday(d)) /\ m >= i.start /\ m < i.end
    ELSE \/ containsWeekday(i.weekdays, isoWeekday(d)) /\ m >= i.start
         \/ containsWeekday(i.weekdays, isoWeekday(Yesterday(d))) /\ m < i.end

-----------------------------------------------------------------------------
(* The recorder *)

Running == recorder \in {"waiting", "recording"}

\* StreamRecorder.Start, also in the middle of somebody's Stop.
RecorderStart == recorder' = IF Running THEN recorder ELSE "waiting"

\* ProcessSample reads the state, and after the wait for a key frame stores the
\* next one without looking again, whatever Stop did in between.
SampleReads ==
  /\ pc # "ended" /\ recorder = "waiting" /\ ~sample
  /\ sample' = TRUE
  /\ UNCHANGED <<item, clockVars, recorder, stops, pc, ticker, stopped, calm>>

SampleStores ==
  /\ pc # "ended" /\ sample
  /\ recorder' = "recording" /\ sample' = FALSE
  /\ calm' = (calm /\ Running)
  /\ UNCHANGED <<item, clockVars, stops, pc, ticker, stopped>>

\* The API starts and stops the recorder by hand, at any time.  Stop stores
\* "stopping", flushes the GOP and then stores "idle".
ManualStart ==
  /\ pc # "ended"
  /\ RecorderStart
  /\ calm' = FALSE
  /\ UNCHANGED <<item, clockVars, sample, stops, pc, ticker, stopped>>

ManualStopBegin ==
  /\ pc # "ended" /\ recorder # "idle" /\ stops < MaxStops
  /\ recorder' = "stopping" /\ stops' = stops + 1
  /\ calm' = FALSE
  /\ UNCHANGED <<item, clockVars, sample, pc, ticker, stopped>>

ManualStopEnd ==
  /\ pc # "ended" /\ stops > 0
  /\ recorder' = "idle" /\ stops' = stops - 1
  /\ calm' = FALSE
  /\ UNCHANGED <<item, clockVars, sample, pc, ticker, stopped>>

-----------------------------------------------------------------------------
(* The controller *)

\* The first half of Evaluate: what the clock says and the state that is read
\* decide what is done next.  (The two readings are one step, since nobody else
\* reads or writes both.)
Evaluate ==
  /\ pc' = CASE scheduleMatches(item, weekday, minute) /\ recorder = "idle" -> "start"
             [] ~scheduleMatches(item, weekday, minute) /\ recorder # "idle" -> "stop"
             [] OTHER -> "running"
  /\ calm' = (stops = 0)

\* When the Evaluate of ScheduleController.Start has ended, the goroutine starts
\* the ticker.
TickerOn == ticker' = IF ticker = "off" THEN "quiet" ELSE ticker

\* Start evaluates at once and then starts the goroutine.
StartController ==
  /\ pc = "new"
  /\ Evaluate
  /\ IF pc' = "running" THEN TickerOn ELSE UNCHANGED ticker
  /\ UNCHANGED <<item, clockVars, recorderVars, stopped>>

\* Mutant: the tick is received and nothing is evaluated.
TickIgnored ==
  /\ pc = "running" /\ ticker = "fired"
  /\ ticker' = "quiet"
  /\ UNCHANGED <<item, clockVars, recorderVars, pc, stopped, calm>>

\* A turn of the goroutine; after Stop, select may still take the tick.
TickReceived ==
  /\ pc = "running" /\ ticker = "fired"
  /\ ticker' = "quiet"
  /\ Evaluate
  /\ UNCHANGED <<item, clockVars, recorderVars, stopped>>

\* Evaluate calls Start of the recorder it has seen idle.
EvaluateStart ==
  /\ pc = "start"
  /\ RecorderStart /\ TickerOn
  /\ pc' = "running"
  /\ UNCHANGED <<item, clockVars, sample, stops, stopped, calm>>

\* Evaluate calls Stop of a recorder it has seen busy; if it has become idle,
\* Stop returns at once.
EvaluateStop ==
  /\ pc = "stop"
  /\ IF recorder = "idle"
       THEN pc' = "running" /\ TickerOn /\ UNCHANGED recorder
       ELSE pc' = "flush" /\ recorder' = "stopping" /\ UNCHANGED ticker
  /\ UNCHANGED <<item, clockVars, sample, stops, stopped, calm>>

EvaluateStopEnd ==
  /\ pc = "flush"
  /\ recorder' = "idle" /\ TickerOn
  /\ pc' = "running"
  /\ UNCHANGED <<item, clockVars, sample, stops, stopped, calm>>

\* ScheduleController.Stop closes stopCh, once.
StopController ==
  /\ ticker # "off" /\ ~stopped
  /\ stopped' = TRUE
  /\ UNCHANGED <<item, clockVars, recorderVars, pc, ticker, calm>>

GoroutineEnds ==
  /\ pc = "running" /\ stopped
  /\ pc' = "ended"
  /\ UNCHANGED <<item, clockVars, recorderVars, ticker, stopped, calm>>

-----------------------------------------------------------------------------
(* Time *)

\* The ticker fires twice a minute; a tick that nobody took is not repeated.
TickerFires ==
  /\ pc # "ended" /\ ticker = "quiet"
  /\ ticker' = "fired"
  /\ UNCHANGED <<item, clockVars, recorderVars, pc, stopped, calm>>

MinutePasses ==
  /\ pc # "ended"
  /\ minute' = (minute + 1) % Minutes
  /\ weekday' = IF minute + 1 = Minutes THEN (weekday + 1) % 7 ELSE weekday
  /\ calm' = FALSE
  /\ UNCHANGED <<item, recorderVars, pc, ticker, stopped>>

Ended == pc = "ended" /\ UNCHANGED vars

-----------------------------------------------------------------------------
Evaluating == TickReceived \/ EvaluateStart \/ EvaluateStop \/ EvaluateStopEnd

Next ==
  \/ StartController \/ Evaluating \/ StopController \/ GoroutineEnds
  \/ SampleReads \/ SampleStores
  \/ ManualStart \/ ManualStopBegin \/ ManualStopEnd
  \/ TickerFires \/ MinutePasses \/ Ended

Spec == Init /\ [][Next]_vars

\* The controller's goroutine is scheduled, its ticker fires, and a Stop that was
\* called ends.  Nothing is said of how much of that fits into a minute.
Fairness ==
  /\ WF_vars(StartController) /\ WF_vars(Evaluating)
  /\ WF_vars(TickerFires) /\ WF_vars(ManualStopEnd)

FairSpec == Spec /\ Fairness

-----------------------------------------------------------------------------
(* Properties *)

\* Every variable has its type.
TypeOK ==
  /\ item \in Items /\ weekday \in Days /\ minute \in Clock
  /\ recorder \in {"idle", "waiting", "recording", "stopping"}
  /\ sample \in BOOLEAN /\ stops \in 0 .. MaxStops
  /\ pc \in {"new", "start", "stop", "flush", "running", "ended"}
  /\ ticker \in {"off", "quiet", "fired"} /\ stopped \in BOOLEAN /\ calm \in BOOLEAN

\* Minutes of the week, from Sunday's midnight.
WeekMinute(d, m) == d * Minutes + m

\* How long a window lasts; one with equal ends is empty.
Length(i) == IF i.end < i.start THEN i.end + Minutes - i.start ELSE i.end - i.start

\* The reference: the windows of the week, laid out from where they start.
InWindow(i, d, m) ==
  \E day \in Days :
    /\ day \in {x % 7 : x \in i.weekdays}
    /\ \E k \in 0 .. Length(i) - 1 :
         WeekMinute(d, m) = (WeekMinute(day, i.start) + k) % (7 * Minutes)

\* The recorder is as the schedule wants it.
Agrees == Running <=> InWindow(item, weekday, minute)

\* An Evaluate that ends in the minute it began leaves the recorder running
\* exactly in the windows the item describes, over midnight, over the end of the
\* week and with Sunday written 0 or 7, unless the API interfered, or a sample
\* stored "recording" over a Stop, between its reading of the state and now.
FollowsSchedule == calm /\ pc = "running" => Agrees

\* A recorder stopped by hand inside a window, or started outside one, or left
\* running by a sample that overtook a Stop, comes back under the schedule, with
\* as many interventions as anybody likes, unless the minute ends first or the
\* controller is stopped.
ScheduleWins == []<>(Agrees \/ stopped) \/ []<><<MinutePasses>>_vars

=============================================================================
