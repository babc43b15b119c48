------------------------------- MODULE Puller --------------------------------
(***************************************************************************)
(* RTSPPuller (internal/puller): Start, the reconnect loop, Stop and the   *)
(* callbacks that turn packets into samples.                               *)
(*                                                                         *)
(* A client is a connection of the RTSP library.  Its callbacks run in a   *)
(* goroutine of its own, from the answer to PLAY on; Wait and Close return *)
(* when they have ended.  The camera's clock keeps step with ours, and the *)
(* library's PTS counts from the first packet of the connection.           *)
(***************************************************************************)
EXTENDS Integers, FiniteSets

CONSTANTS
  Clients,       \* client objects; one that is no longer referred to is used again
  None,          \* no client, no time
  FirstBackoff,  \* 1 s
  MaxBackoff,    \* 30 s
  SwapLag,       \* from the answer to PLAY to the lock takes at most this long
  MaxTime        \* bound: the clock stops here, and samples are no longer looked at

ASSUME PullerAssumption ==
  /\ None \notin Clients \cup (0 .. MaxTime)
  /\ FirstBackoff \in Nat \ {0} /\ MaxBackoff \in Nat /\ FirstBackoff <= MaxBackoff
  /\ SwapLag \in 0 .. FirstBackoff /\ MaxTime \in Nat

VARIABLES
  clock,      \* time.Now()
  client,     \* p.client
  baseTime,   \* p.baseTime, None if zero
  stopped,    \* p.stopped; p.stopCh is closed with it
  link,       \* what has become of each client: "idle", "playing", "lost", "closed"
  firstAt,    \* when the first packet of a client arrived, or None
  run,        \* Start, then the goroutine of run
  sleep,      \* how long the goroutine still sleeps
  stop,       \* the call of Stop: its place, and the client it has read
  high        \* the latest time of a sample that was handed to the recorder

vars == <<clock, client, baseTime, stopped, link, firstAt, run, sleep, stop, high>>

Init ==
  /\ clock = 0 /\ client = None /\ baseTime = None /\ stopped = FALSE
  /\ link = [c \in Clients |-> "idle"] /\ firstAt = [c \in Clients |-> None]
  /\ run = [pc |-> "connect", started |-> FALSE, on |-> None, backoff |-> FirstBackoff, lag |-> 0]
  /\ sleep = 0
  /\ stop = [pc |-> "idle", client |-> None, during |-> None]
  /\ high = 0

At(pc) == run.pc = pc
Goto(pc) == run' = [run EXCEPT !.pc = pc]

-----------------------------------------------------------------------------
(* connectAndPlay *)

Free == {c \in Clients : link[c] # "playing" /\ c # client
                         /\ ~(stop.pc = "close" /\ stop.client = c)}

\* Start, Describe, Setup and Play have succeeded: packets may arrive from now on.
ConnectOK(c) ==
  /\ At("connect") /\ c \in Free
  /\ link' = [link EXCEPT ![c] = "playing"] /\ firstAt' = [firstAt EXCEPT ![c] = None]
  /\ run' = [pc |-> "swap", started |-> run.started, on |-> c, backoff |-> run.backoff, lag |-> 0]
  /\ UNCHANGED <<clock, client, baseTime, stopped, sleep, stop, high>>

\* Mutant: one failure ends the loop.
ConnectFailsOnce ==
  /\ At("connect")
  /\ Goto(IF run.started THEN "returned" ELSE "skipped")
  /\ UNCHANGED <<clock, client, baseTime, stopped, link, firstAt, sleep, stop, high>>

\* Start gives the camera up; the loop waits, unless Stop has been called already.
ConnectFails ==
  /\ At("connect")
  /\ Goto(CASE ~run.started -> "skipped"
            [] run.started /\ stopped -> "returned"
            [] OTHER -> "backoff")
  /\ sleep' = IF run.started /\ ~stopped THEN run.backoff ELSE 0
  /\ UNCHANGED <<clock, client, baseTime, stopped, link, firstAt, stop, high>>

\* Mutant: the base time is set by the first connection only.
SwapKeepsBase ==
  /\ At("swap")
  /\ client' = run.on /\ baseTime' = (IF baseTime = None THEN clock ELSE baseTime)
  /\ run' = [run EXCEPT !.pc = "closeOld", !.on = client]
  /\ UNCHANGED <<clock, stopped, link, firstAt, sleep, stop, high>>

\* The new client takes the place of the old one, under the lock.
Swap ==
  /\ At("swap")
  /\ client' = run.on /\ baseTime' = clock
  /\ run' = [run EXCEPT !.pc = "closeOld", !.on = client]
  /\ UNCHANGED <<clock, stopped, link, firstAt, sleep, stop, high>>

\* The old client is closed; Start starts the goroutine, the loop begins again.
CloseOld ==
  /\ At("closeOld")
  /\ link' = IF run.on = None THEN link ELSE [link EXCEPT ![run.on] = "closed"]
  /\ run' = [pc |-> "head", started |-> TRUE, on |-> None, backoff |-> FirstBackoff, lag |-> run.lag]
  /\ UNCHANGED <<clock, client, baseTime, stopped, firstAt, sleep, stop, high>>

-----------------------------------------------------------------------------
(* run *)

RunHead ==
  /\ At("head")
  /\ run' = [run EXCEPT !.pc = IF stopped THEN "returned" ELSE "wait", !.on = client]
  /\ UNCHANGED <<clock, client, baseTime, stopped, link, firstAt, sleep, stop, high>>

\* Mutant: the loop does not wait for the client to end.
RunWaitSkips ==
  /\ At("wait")
  /\ Goto(IF stopped THEN "returned" ELSE "sleep")
  /\ sleep' = IF stopped THEN 0 ELSE run.backoff
  /\ UNCHANGED <<clock, client, baseTime, stopped, link, firstAt, stop, high>>

\* Mutant: the loop does not look at stopCh.
RunWaitBlind ==
  /\ At("wait") /\ link[run.on] # "playing"
  /\ Goto("sleep") /\ sleep' = run.backoff
  /\ UNCHANGED <<clock, client, baseTime, stopped, link, firstAt, stop, high>>

\* client.Wait has returned: end if stopCh is closed, or sleep whatever happens.
RunWait ==
  /\ At("wait") /\ link[run.on] # "playing"
  /\ Goto(IF stopped THEN "returned" ELSE "sleep")
  /\ sleep' = IF stopped THEN 0 ELSE run.backoff
  /\ UNCHANGED <<clock, client, baseTime, stopped, link, firstAt, stop, high>>

SleepOver ==
  /\ At("sleep") /\ sleep = 0
  /\ Goto("connect")
  /\ UNCHANGED <<clock, client, baseTime, stopped, link, firstAt, sleep, stop, high>>

Doubled(b) == IF 2 * b > MaxBackoff THEN MaxBackoff ELSE 2 * b

\* select: the timer, or stopCh; either when both are ready.
BackoffOver ==
  /\ At("backoff") /\ sleep = 0
  /\ run' = [run EXCEPT !.pc = "connect", !.backoff = Doubled(@)]
  /\ UNCHANGED <<clock, client, baseTime, stopped, link, firstAt, sleep, stop, high>>

BackoffStop ==
  /\ At("backoff") /\ stopped
  /\ Goto("returned") /\ sleep' = 0
  /\ UNCHANGED <<clock, client, baseTime, stopped, link, firstAt, stop, high>>

-----------------------------------------------------------------------------
(* Stop, called by main when it shuts down *)

StopBegin ==
  /\ run.started /\ ~stopped
  /\ stopped' = TRUE
  /\ stop' = [pc |-> "close", client |-> client, during |-> run.pc]
  /\ UNCHANGED <<clock, client, baseTime, link, firstAt, run, sleep, high>>

\* Mutant: Stop only closes stopCh.
StopCloseNothing ==
  /\ stop.pc = "close"
  /\ stop' = [stop EXCEPT !.pc = "wait"]
  /\ UNCHANGED <<clock, client, baseTime, stopped, link, firstAt, run, sleep, high>>

\* Stop closes the client it has read.
StopClose ==
  /\ stop.pc = "close"
  /\ link' = [link EXCEPT ![stop.client] = "closed"]
  /\ stop' = [stop EXCEPT !.pc = "wait"]
  /\ UNCHANGED <<clock, client, baseTime, stopped, firstAt, run, sleep, high>>

StopReturn ==
  /\ stop.pc = "wait" /\ At("returned")
  /\ stop' = [stop EXCEPT !.pc = "returned"]
  /\ UNCHANGED <<clock, client, baseTime, stopped, link, firstAt, run, sleep, high>>

-----------------------------------------------------------------------------
(* Packets *)

timestampFromPTS(pts) == (IF baseTime = None THEN clock ELSE baseTime) + pts

PTS(c) == IF firstAt[c] = None THEN 0 ELSE clock - firstAt[c]

\* A packet that completes an access unit, for one of the three codecs.  (Packets
\* of which nothing is decoded, and the parameter sets, are left out.)
Packet(c) ==
  LET ts == timestampFromPTS(PTS(c))
  IN  /\ link[c] = "playing" /\ clock < MaxTime
      /\ firstAt' = [firstAt EXCEPT ![c] = clock - PTS(c)]
      /\ high' = IF c = client /\ ts > high THEN ts ELSE high
      /\ UNCHANGED <<clock, client, baseTime, stopped, link, run, sleep, stop>>

\* The camera or the network ends the connection.
Lose(c) ==
  /\ link[c] = "playing"
  /\ link' = [link EXCEPT ![c] = "lost"]
  /\ UNCHANGED <<clock, client, baseTime, stopped, firstAt, run, sleep, stop, high>>

Tick ==
  /\ At("swap") => run.lag < SwapLag
  /\ clock' = IF clock < MaxTime THEN clock + 1 ELSE clock
  /\ sleep' = IF sleep > 0 THEN sleep - 1 ELSE 0
  /\ run' = IF At("swap") THEN [run EXCEPT !.lag = @ + 1] ELSE run
  /\ UNCHANGED <<client, baseTime, stopped, link, firstAt, stop, high>>

-----------------------------------------------------------------------------
RunStep ==
  \/ \E c \in Clients : ConnectOK(c)
  \/ ConnectFails \/ Swap \/ CloseOld \/ RunHead \/ RunWait
  \/ SleepOver \/ BackoffOver \/ BackoffStop

StopStep == StopClose \/ StopReturn

Next ==
  \/ RunStep \/ StopBegin \/ StopStep \/ Tick
  \/ \E c \in Clients : Packet(c) \/ Lose(c)

Spec == Init /\ [][Next]_vars

\* Goroutines are scheduled, time passes, an attempt to connect ends; a camera
\* that is tried again and again answers in the end.
Fairness ==
  /\ WF_vars(RunStep) /\ WF_vars(StopStep) /\ WF_vars(Tick)
  /\ SF_vars(\E c \in Clients : ConnectOK(c))

FairSpec == Spec /\ Fairness

-----------------------------------------------------------------------------
(* Properties *)

RunPCs == {"connect", "swap", "closeOld", "head", "wait", "sleep", "backoff", "returned", "skipped"}

\* Every variable has its type; the backoff never exceeds its cap.
TypeOK ==
  /\ clock \in 0 .. MaxTime /\ client \in Clients \cup {None}
  /\ baseTime \in 0 .. MaxTime \cup {None} /\ stopped \in BOOLEAN
  /\ link \in [Clients -> {"idle", "playing", "lost", "closed"}]
  /\ firstAt \in [Clients -> 0 .. MaxTime \cup {None}]
  /\ run.pc \in RunPCs /\ run.on \in Clients \cup {None}
  /\ run.backoff \in FirstBackoff .. MaxBackoff /\ sleep \in 0 .. MaxBackoff
  /\ stop.pc \in {"idle", "close", "wait", "returned"} /\ stop.client \in Clients \cup {None}
  /\ high \in Int

\* However connections break and come back, at most one of them hands samples to
\* the recorder: the frames of two connections are never interleaved.
OneFeed == Cardinality({c \in Clients : link[c] = "playing"}) <= 1

\* The times of the samples never go back, over reconnections too, and are ahead
\* of the clock by no more than connecting took.  Not counted are packets that
\* arrive before connectAndPlay has set the new base time.
TimesAdvance ==
  [][\A c \in Clients : c = client /\ Packet(c) =>
        timestampFromPTS(PTS(c)) \in high .. clock + SwapLag]_vars

\* When Stop has returned no connection is left that feeds the recorder, which
\* main closes next, unless the loop was on its way to reconnect when Stop began.
StopSilences ==
  stop.pc = "returned" /\ stop.during \in {"head", "wait", "closeOld"} =>
    \A c \in Clients : link[c] # "playing"

\* Stop returns, whatever the reconnect loop is doing.
StopReturns == stopped ~> stop.pc = "returned"

Playing == \E c \in Clients : link[c] = "playing"

\* A camera that was started and lost plays again, if it can be reached and Stop
\* is not called: no failure, however often it comes, ends the loop.
Reconnects == (run.started /\ ~Playing) ~> (Playing \/ stopped)

=============================================================================
