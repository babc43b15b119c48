---------------------------- MODULE PullerProofs ----------------------------
(***************************************************************************)
(* What holds of the puller for any number of client objects, any backoff  *)
(* and any time between the answer to PLAY and the lock.                   *)
(***************************************************************************)
EXTENDS Puller, FiniteSetTheorems, TLAPS

\* The places of the loop at which the client of the puller may be connected.
Connected == {"closeOld", "head", "wait", "returned"}

Runs == [pc : RunPCs, started : BOOLEAN, on : Clients \cup {None},
         backoff : FirstBackoff .. MaxBackoff, lag : 0 .. SwapLag]

Stops == [pc : {"idle", "close", "wait", "returned"}, client : Clients \cup {None},
          during : RunPCs \cup {None}]

RecordsOK ==
  /\ run \in Runs /\ stop \in Stops
  /\ At("swap") => run.on \in Clients \ {client}
  /\ run.started \/ At("closeOld") => client \in Clients
  /\ At("wait") => run.on = client
  /\ stop.pc = "close" => stop.client \in Clients
  /\ stop.pc = "idle" <=> ~stopped
  /\ stopped => run.started
  /\ At("returned") => stopped

ShapeInv == TypeOK /\ RecordsOK

\* Who may be playing: the new client before it is swapped in, the puller's client
\* afterwards, and nobody while the loop sleeps or connects.
FeedInv ==
  \A c \in Clients : link[c] = "playing" =>
    (At("swap") /\ c = run.on) \/ (run.pc \in Connected /\ c = client)

\* A Stop that began while the loop was not reconnecting has read the last client.
StopInv ==
  stopped /\ stop.during \in {"head", "wait", "closeOld"} =>
    /\ run.pc \in Connected /\ stop.client = client
    /\ stop.pc \in {"wait", "returned"} => link[client] # "playing"

\* While the clock runs: the base time is at most SwapLag later than the first
\* packet of the connection, and high is not ahead of the next sample.
TimeInv ==
  clock < MaxTime =>
    /\ high <= clock + SwapLag
    /\ run.pc \in {"sleep", "backoff"} => high <= clock + sleep
    /\ run.pc \in {"connect", "swap"} => high <= clock
    /\ At("swap") /\ firstAt[run.on] # None => clock - firstAt[run.on] \in 0 .. run.lag
    /\ run.pc \in Connected /\ client \in Clients /\ link[client] = "playing" =>
         /\ baseTime \in 0 .. clock
         /\ firstAt[client] = None => high <= baseTime
         /\ firstAt[client] # None =>
              /\ firstAt[client] <= clock /\ baseTime - firstAt[client] <= SwapLag
              /\ high <= baseTime + clock - firstAt[client]

-----------------------------------------------------------------------------
(* The type invariant *)

\* One step of one client's connection: a packet or its end.
LinkStep == \E c \in Clients : Packet(c) \/ Lose(c)

\* The puller starts well formed.
LEMMA ShapeInit == Init => ShapeInv
<1> SUFFICES ASSUME Init PROVE ShapeInv
  OBVIOUS
<1>1. /\ run \in Runs /\ run.pc = "connect" /\ run.started = FALSE /\ run.on = None
      /\ run.backoff = FirstBackoff
  BY PullerAssumption DEF Init, Runs, RunPCs
<1>2. stop \in Stops /\ stop.pc = "idle" /\ stop.client = None
  BY DEF Init, Stops
<1>3. TypeOK
  <2>1. /\ clock \in 0 .. MaxTime /\ sleep \in 0 .. MaxBackoff /\ high \in Int
        /\ FirstBackoff \in FirstBackoff .. MaxBackoff
    BY PullerAssumption DEF Init
  <2>2. /\ link \in [Clients -> {"idle", "playing", "lost", "closed"}]
        /\ firstAt \in [Clients -> 0 .. MaxTime \cup {None}]
    BY DEF Init
  <2>3. stopped \in BOOLEAN
    BY DEF Init
  <2> QED BY <1>1, <1>2, <2>1, <2>2, <2>3 DEF Init, TypeOK, RunPCs
<1>4. RecordsOK
  BY <1>1, <1>2 DEF Init, RecordsOK, At
<1> QED BY <1>3, <1>4 DEF ShapeInv

\* Connecting: attempts, the swap under the lock and the close of the old client.
LEMMA ShapeConnect ==
  ASSUME ShapeInv, (\E c \in Clients : ConnectOK(c)) \/ ConnectFails \/ Swap \/ CloseOld
  PROVE  ShapeInv'
<1> USE PullerAssumption DEF ShapeInv, At, Goto
<1>1. ASSUME NEW c \in Clients, ConnectOK(c) PROVE ShapeInv'
  <2>1. /\ run' \in Runs /\ run'.pc = "swap" /\ run'.on = c
        /\ run'.started = run.started /\ run'.backoff = run.backoff
    BY <1>1 DEF ConnectOK, RecordsOK, Runs, RunPCs
  <2>2. TypeOK'
    BY <1>1, <2>1 DEF ConnectOK, TypeOK, RunPCs
  <2>3. RecordsOK'
    BY <1>1, <2>1 DEF ConnectOK, Free, RecordsOK
  <2> QED BY <2>2, <2>3
<1>2. CASE ConnectFails
  <2>1. /\ run' \in Runs /\ run'.pc \in {"skipped", "returned", "backoff"}
        /\ run'.pc = "returned" => stopped
        /\ run'.started = run.started /\ run'.backoff = run.backoff /\ run'.on = run.on
    BY <1>2 DEF ConnectFails, RecordsOK, Runs, RunPCs
  <2>2. TypeOK'
    BY <1>2, <2>1 DEF ConnectFails, TypeOK, RunPCs
  <2>3. RecordsOK'
    BY <1>2, <2>1 DEF ConnectFails, RecordsOK
  <2> QED BY <2>2, <2>3
<1>3. CASE Swap
  <2>1. /\ run' \in Runs /\ run'.pc = "closeOld" /\ run'.on = client
        /\ run'.started = run.started /\ run'.backoff = run.backoff
    BY <1>3 DEF Swap, TypeOK, RecordsOK, Runs, RunPCs
  <2>2. TypeOK'
    BY <1>3, <2>1 DEF Swap, TypeOK, RecordsOK, Runs, Stops, RunPCs
  <2>3. RecordsOK'
    BY <1>3, <2>1 DEF Swap, RecordsOK
  <2> QED BY <2>2, <2>3
<1>4. CASE CloseOld
  <2>1. /\ run' \in Runs /\ run'.pc = "head" /\ run'.on = None
        /\ run'.backoff = FirstBackoff
    BY <1>4 DEF CloseOld, RecordsOK, Runs, RunPCs
  <2>2. TypeOK'
    BY <1>4, <2>1 DEF CloseOld, TypeOK, RunPCs
  <2>3. RecordsOK'
    BY <1>4, <2>1 DEF CloseOld, RecordsOK
  <2> QED BY <2>2, <2>3
<1> QED BY <1>1, <1>2, <1>3, <1>4

\* The loop between two connections: waiting, sleeping, backing off.
LEMMA ShapeLoop ==
  ASSUME ShapeInv, RunHead \/ RunWait \/ SleepOver \/ BackoffOver \/ BackoffStop
  PROVE  ShapeInv'
<1> USE PullerAssumption DEF ShapeInv, At, Goto
<1>1. CASE RunHead
  BY <1>1 DEF RunHead, TypeOK, RecordsOK, Runs, Stops, RunPCs
<1>2. CASE RunWait
  BY <1>2 DEF RunWait, TypeOK, RecordsOK, Runs, Stops, RunPCs
<1>3. CASE SleepOver
  BY <1>3 DEF SleepOver, TypeOK, RecordsOK, Runs, Stops, RunPCs
<1>4. CASE BackoffOver
  <2>1. Doubled(run.backoff) \in FirstBackoff .. MaxBackoff
    BY DEF Doubled, TypeOK
  <2>2. /\ run' \in Runs /\ run'.pc = "connect" /\ run'.backoff = Doubled(run.backoff)
        /\ run'.started = run.started /\ run'.on = run.on
    BY <1>4, <2>1 DEF BackoffOver, RecordsOK, Runs, RunPCs
  <2>3. TypeOK'
    BY <1>4, <2>1, <2>2 DEF BackoffOver, TypeOK, RunPCs
  <2>4. RecordsOK'
    BY <1>4, <2>2 DEF BackoffOver, RecordsOK
  <2> QED BY <2>3, <2>4
<1>5. CASE BackoffStop
  BY <1>5 DEF BackoffStop, TypeOK, RecordsOK, Runs, Stops, RunPCs
<1> QED BY <1>1, <1>2, <1>3, <1>4, <1>5

\* Stop, packets, lost connections and the clock.
LEMMA ShapeOther ==
  ASSUME ShapeInv, StopBegin \/ StopStep \/ Tick \/ LinkStep \/ UNCHANGED vars
  PROVE  ShapeInv'
<1> USE PullerAssumption DEF ShapeInv, At, Goto
<1>1. CASE StopBegin
  BY <1>1 DEF StopBegin, TypeOK, RecordsOK, Runs, Stops, RunPCs
<1>2. CASE StopClose
  BY <1>2 DEF StopClose, TypeOK, RecordsOK, Stops
<1>3. CASE StopReturn
  BY <1>3 DEF StopReturn, TypeOK, RecordsOK, Stops
<1>4. ASSUME NEW c \in Clients, Packet(c) PROVE ShapeInv'
  <2>1. clock - PTS(c) \in 0 .. MaxTime /\ PTS(c) \in Int /\ timestampFromPTS(PTS(c)) \in Int
    BY <1>4 DEF PTS, timestampFromPTS, TypeOK
  <2>2. TypeOK'
    BY <1>4, <2>1 DEF Packet, TypeOK
  <2>3. RecordsOK'
    BY <1>4 DEF Packet, RecordsOK
  <2> QED BY <2>2, <2>3
<1>5. ASSUME NEW c \in Clients, Lose(c) PROVE ShapeInv'
  BY <1>5 DEF Lose, TypeOK, RecordsOK
<1>6. CASE Tick
  <2>1. /\ run' \in Runs
        /\ run'.pc = run.pc /\ run'.on = run.on /\ run'.started = run.started
        /\ run'.backoff = run.backoff
    BY <1>6 DEF Tick, RecordsOK, Runs
  <2>2. TypeOK'
    BY <1>6, <2>1 DEF Tick, TypeOK
  <2>3. RecordsOK'
    BY <1>6, <2>1 DEF Tick, RecordsOK
  <2> QED BY <2>2, <2>3
<1>7. CASE UNCHANGED vars
  BY <1>7 DEF vars, TypeOK, RecordsOK
<1> QED BY <1>1, <1>2, <1>3, <1>4, <1>5, <1>6, <1>7 DEF StopStep, LinkStep

\* Every step keeps the puller well formed.
LEMMA ShapeStep == ShapeInv /\ [Next]_vars => ShapeInv'
  BY ShapeConnect, ShapeLoop, ShapeOther DEF Next, RunStep, LinkStep

\* Every variable of the puller keeps its type; the backoff never exceeds its cap.
THEOREM TypeCorrect == Spec => []TypeOK
<1>1. ShapeInv => TypeOK
  BY DEF ShapeInv
<1> QED BY <1>1, ShapeInit, ShapeStep, PTL DEF Spec

-----------------------------------------------------------------------------
(* At most one connection feeds the recorder *)

\* What every step does to the links: only ConnectOK makes a client play.
LEMMA FeedStep == ShapeInv /\ FeedInv /\ [Next]_vars => FeedInv'
<1> SUFFICES ASSUME ShapeInv, FeedInv, [Next]_vars PROVE FeedInv'
  OBVIOUS
<1> USE DEF At, Goto, Connected
<1>0. /\ run \in Runs /\ link \in [Clients -> {"idle", "playing", "lost", "closed"}]
      /\ At("wait") => run.on = client
  BY DEF ShapeInv, TypeOK, RecordsOK
<1>1. ASSUME NEW c \in Clients, ConnectOK(c) PROVE FeedInv'
  BY <1>0, <1>1 DEF ConnectOK, FeedInv
<1>2. CASE ConnectFails
  BY <1>0, <1>2 DEF ConnectFails, FeedInv, Runs
<1>3. CASE Swap
  BY <1>0, <1>3 DEF Swap, FeedInv, Runs
<1>4. CASE CloseOld
  BY <1>0, <1>4 DEF CloseOld, FeedInv, Runs
<1>5. CASE RunHead
  BY <1>0, <1>5 DEF RunHead, FeedInv, Runs
<1>6. CASE RunWait
  BY <1>0, <1>6 DEF RunWait, FeedInv, Runs
<1>7. CASE SleepOver \/ BackoffOver \/ BackoffStop
  BY <1>0, <1>7 DEF SleepOver, BackoffOver, BackoffStop, FeedInv, Runs
<1>8. CASE StopBegin \/ StopStep
  BY <1>0, <1>8 DEF StopBegin, StopStep, StopClose, StopReturn, FeedInv
<1>9. CASE LinkStep
  BY <1>0, <1>9 DEF LinkStep, Packet, Lose, FeedInv
<1>10. CASE Tick
  <2>1. run'.pc = run.pc /\ run'.on = run.on /\ UNCHANGED <<link, client>>
    BY <1>0, <1>10 DEF Tick, Runs
  <2> QED BY <2>1 DEF FeedInv
<1>11. CASE UNCHANGED vars
  BY <1>11 DEF vars, FeedInv
<1> QED
  BY <1>1, <1>2, <1>3, <1>4, <1>5, <1>6, <1>7, <1>8, <1>9, <1>10, <1>11
  DEF Next, RunStep, LinkStep

\* Nobody plays before the first connection.
LEMMA FeedInit == Init => FeedInv
  BY DEF Init, FeedInv

\* At most one connection hands samples to the recorder, however connections
\* break and come back, and whenever Stop is called.
THEOREM SingleFeed == Spec => []OneFeed
<1>1. ShapeInv /\ FeedInv => OneFeed
  <2> SUFFICES ASSUME FeedInv PROVE OneFeed
    OBVIOUS
  <2> DEFINE playing == {c \in Clients : link[c] = "playing"}
  <2>1. CASE playing = {}
    BY <2>1, FS_EmptySet DEF OneFeed
  <2>2. CASE playing # {}
    <3>1. PICK d \in playing : TRUE
      BY <2>2
    <3>2. playing = {d}
      BY <3>1 DEF FeedInv, At, Connected
    <3>3. Cardinality({d}) = 1
      BY FS_Singleton
    <3> QED BY <3>2, <3>3 DEF OneFeed
  <2> QED BY <2>1, <2>2
<1> QED BY <1>1, ShapeInit, ShapeStep, FeedInit, FeedStep, PTL DEF Spec

-----------------------------------------------------------------------------
(* Stop *)

\* A Stop that found the loop outside of a reconnection keeps hold of the last
\* client: the loop reaches its end without connecting again.
LEMMA StopInvStep == ShapeInv /\ StopInv /\ [Next]_vars => StopInv'
<1> SUFFICES ASSUME ShapeInv, StopInv, [Next]_vars PROVE StopInv'
  OBVIOUS
<1> USE DEF At, Goto, Connected
<1>0. /\ run \in Runs /\ stop \in Stops
      /\ link \in [Clients -> {"idle", "playing", "lost", "closed"}]
      /\ stop.pc = "idle" <=> ~stopped
      /\ stop.pc = "close" => stop.client \in Clients
      /\ run.started \/ stopped => client \in Clients
  BY DEF ShapeInv, TypeOK, RecordsOK
<1>1. CASE RunStep
  <2>1. UNCHANGED <<stopped, stop>>
    BY <1>1 DEF RunStep, ConnectOK, ConnectFails, Swap, CloseOld, RunHead, RunWait, SleepOver,
         BackoffOver, BackoffStop
  <2>2. CASE \E c \in Clients : ConnectOK(c)
    BY <2>1, <2>2 DEF ConnectOK, StopInv
  <2>3. CASE ConnectFails \/ Swap \/ SleepOver \/ BackoffOver \/ BackoffStop
    BY <2>1, <2>3 DEF ConnectFails, Swap, SleepOver, BackoffOver, BackoffStop, StopInv
  <2>4. CASE CloseOld
    <3>1. run'.pc = "head" /\ client' = client /\ (link[client] # "playing" => link'[client] # "playing")
      BY <1>0, <2>4 DEF CloseOld
    <3> QED BY <2>1, <3>1 DEF StopInv
  <2>5. CASE RunHead
    <3>1. run'.pc \in Connected /\ UNCHANGED <<client, link>>
      BY <1>0, <2>5 DEF RunHead, Runs
    <3> QED BY <2>1, <3>1 DEF StopInv
  <2>6. CASE RunWait
    <3>1. (stopped => run'.pc = "returned") /\ UNCHANGED <<client, link>>
      BY <1>0, <2>6 DEF RunWait, Runs
    <3> QED BY <2>1, <3>1 DEF StopInv
  <2> QED BY <1>1, <2>2, <2>3, <2>4, <2>5, <2>6 DEF RunStep
<1>2. CASE StopBegin
  BY <1>0, <1>2 DEF StopBegin, StopInv
<1>3. CASE StopClose
  BY <1>0, <1>3 DEF StopClose, StopInv, Stops
<1>4. CASE StopReturn
  BY <1>0, <1>4 DEF StopReturn, StopInv, Stops
<1>5. CASE LinkStep
  BY <1>0, <1>5 DEF LinkStep, Packet, Lose, StopInv
<1>6. CASE Tick
  <2>1. run'.pc = run.pc /\ UNCHANGED <<link, client, stop, stopped>>
    BY <1>0, <1>6 DEF Tick, Runs
  <2> QED BY <2>1 DEF StopInv
<1>7. CASE UNCHANGED vars
  BY <1>7 DEF vars, StopInv
<1> QED BY <1>1, <1>2, <1>3, <1>4, <1>5, <1>6, <1>7 DEF Next, StopStep, LinkStep

\* When Stop has returned nothing feeds the recorder any more, unless the loop was
\* on its way to reconnect when Stop began.
THEOREM StopQuiet == Spec => []StopSilences
<1>1. Init => StopInv
  BY DEF Init, StopInv
<1>2. ShapeInv /\ FeedInv /\ StopInv => StopSilences
  BY DEF ShapeInv, RecordsOK, FeedInv, StopInv, StopSilences, At, Connected
<1> QED
  BY <1>1, <1>2, ShapeInit, ShapeStep, FeedInit, FeedStep, StopInvStep, PTL DEF Spec

-----------------------------------------------------------------------------
(* The times of the samples *)

\* A packet of the puller's client: its time lies between the latest one handed
\* over and the clock plus what connecting took.
LEMMA PacketTime ==
  ASSUME ShapeInv, FeedInv, TimeInv, NEW c \in Clients, c = client, Packet(c)
  PROVE  /\ timestampFromPTS(PTS(c)) \in high .. clock + SwapLag
         /\ run.pc \in Connected /\ baseTime \in 0 .. clock
         /\ timestampFromPTS(PTS(c)) =
              IF firstAt[c] = None THEN baseTime ELSE baseTime + clock - firstAt[c]
<1>1. run.pc \in Connected
  BY DEF Packet, FeedInv, At, ShapeInv, RecordsOK
<1>2. /\ clock \in 0 .. MaxTime /\ firstAt[c] \in 0 .. MaxTime \cup {None} /\ high \in Int
      /\ clock < MaxTime /\ link[c] = "playing"
  BY DEF ShapeInv, TypeOK, Packet
<1>3. /\ baseTime \in 0 .. clock /\ high <= clock + SwapLag
      /\ firstAt[c] = None => high <= baseTime
      /\ firstAt[c] # None => /\ firstAt[c] <= clock /\ baseTime - firstAt[c] <= SwapLag
                              /\ high <= baseTime + clock - firstAt[c]
  BY <1>1, <1>2 DEF TimeInv
<1>4. baseTime # None
  BY <1>2, <1>3, PullerAssumption
<1>5. timestampFromPTS(PTS(c)) =
        IF firstAt[c] = None THEN baseTime ELSE baseTime + clock - firstAt[c]
  BY <1>2, <1>3, <1>4, PullerAssumption DEF timestampFromPTS, PTS
<1> QED BY <1>1, <1>2, <1>3, <1>5, PullerAssumption

\* The clock moves on, and with it the sleep of the loop and the lag of a swap.
LEMMA TimeTick == ASSUME ShapeInv, TimeInv, Tick PROVE TimeInv'
<1> SUFFICES ASSUME clock' < MaxTime PROVE TimeInv'
  BY DEF TimeInv
<1>0. /\ clock \in 0 .. MaxTime /\ run \in Runs /\ sleep \in Nat /\ high \in Int
      /\ firstAt \in [Clients -> 0 .. MaxTime \cup {None}]
      /\ MaxTime \in Nat /\ SwapLag \in Nat /\ run.lag \in Nat
      /\ At("swap") => run.on \in Clients
  BY PullerAssumption DEF ShapeInv, TypeOK, RecordsOK, Runs
<1>1. /\ clock' = clock + 1 /\ clock < MaxTime
      /\ UNCHANGED <<client, baseTime, link, firstAt, high>>
      /\ sleep' = IF sleep > 0 THEN sleep - 1 ELSE 0
  BY <1>0 DEF Tick
<1>2. /\ run'.pc = run.pc /\ run'.on = run.on
      /\ At("swap") => run'.lag = run.lag + 1
  BY <1>0 DEF Tick, At, Runs
<1>3. /\ high' <= clock' + SwapLag
      /\ run'.pc \in {"sleep", "backoff"} => high' <= clock' + sleep'
      /\ run'.pc \in {"connect", "swap"} => high' <= clock'
  BY <1>0, <1>1, <1>2 DEF TimeInv
<1>4. At("swap")' /\ firstAt'[run'.on] # None => clock' - firstAt'[run'.on] \in 0 .. run'.lag
  BY <1>0, <1>1, <1>2 DEF TimeInv, At
<1>5. ASSUME run'.pc \in Connected, client' \in Clients, link'[client'] = "playing"
      PROVE  /\ baseTime' \in 0 .. clock'
             /\ firstAt'[client'] = None => high' <= baseTime'
             /\ firstAt'[client'] # None =>
                  /\ firstAt'[client'] <= clock' /\ baseTime' - firstAt'[client'] <= SwapLag
                  /\ high' <= baseTime' + clock' - firstAt'[client']
  <2>1. baseTime \in 0 .. clock /\ firstAt[client] \in 0 .. MaxTime \cup {None}
    BY <1>0, <1>1, <1>2, <1>5 DEF TimeInv
  <2> QED BY <1>0, <1>1, <1>2, <1>5, <2>1 DEF TimeInv
<1> QED BY <1>3, <1>4, <1>5 DEF TimeInv

\* A packet sets the first time of its connection once, and raises high to its time.
LEMMA TimePacket ==
  ASSUME ShapeInv, FeedInv, TimeInv, NEW c \in Clients, Packet(c) PROVE TimeInv'
<1>0. /\ clock \in 0 .. MaxTime /\ run \in Runs /\ high \in Int /\ clock < MaxTime
      /\ firstAt \in [Clients -> 0 .. MaxTime \cup {None}] /\ firstAt[c] \in 0 .. MaxTime \cup {None}
      /\ MaxTime \in Nat /\ SwapLag \in Nat /\ run.lag \in Nat /\ clock # None
      /\ link[c] = "playing"
      /\ At("swap") => run.on \in Clients \ {client}
  BY PullerAssumption DEF ShapeInv, TypeOK, RecordsOK, Runs, Packet
<1>1. UNCHANGED <<clock, client, baseTime, link, run, sleep>>
  BY DEF Packet
<1>2. firstAt' = [firstAt EXCEPT ![c] = IF firstAt[c] = None THEN clock ELSE firstAt[c]]
  <2>1. clock - PTS(c) = IF firstAt[c] = None THEN clock ELSE firstAt[c]
    BY <1>0 DEF PTS
  <2> QED BY <2>1 DEF Packet
<1>3. CASE c # client
  <2>1. high' = high
    BY <1>3 DEF Packet
  <2>2. At("swap") /\ c = run.on
    BY <1>3 DEF Packet, FeedInv, At
  <2>3. clock - firstAt'[run.on] \in 0 .. run.lag
    BY <1>0, <1>2, <2>2 DEF TimeInv
  <2> QED BY <1>1, <2>1, <2>2, <2>3 DEF TimeInv, At, Connected
<1>4. CASE c = client
  <2> DEFINE ts == timestampFromPTS(PTS(c))
  <2>1. /\ ts \in high .. clock + SwapLag /\ run.pc \in Connected /\ baseTime \in 0 .. clock
        /\ ts = IF firstAt[c] = None THEN baseTime ELSE baseTime + clock - firstAt[c]
    BY <1>4, PacketTime
  <2>2. high' = ts
    BY <1>0, <1>4, <2>1 DEF Packet
  <2>3. /\ firstAt'[c] # None /\ firstAt'[c] <= clock /\ baseTime - firstAt'[c] <= SwapLag
        /\ ts = baseTime + clock - firstAt'[c]
    BY <1>0, <1>2, <1>4, <2>1 DEF TimeInv
  <2> HIDE DEF ts
  <2> QED BY <1>0, <1>1, <1>4, <2>1, <2>2, <2>3 DEF TimeInv, At, Connected
<1> QED BY <1>3, <1>4

\* The loop waits long enough before it connects again for the clock to catch up
\* with the samples, and a swap takes the clock as the new base time.
LEMMA TimeRun == ASSUME ShapeInv, FeedInv, TimeInv, RunStep PROVE TimeInv'
<1> SUFFICES ASSUME clock' < MaxTime PROVE TimeInv'
  BY DEF TimeInv
<1> USE DEF At, Goto, Connected
<1>0. /\ clock \in 0 .. MaxTime /\ run \in Runs /\ sleep \in Nat /\ high \in Int
      /\ firstAt \in [Clients -> 0 .. MaxTime \cup {None}]
      /\ link \in [Clients -> {"idle", "playing", "lost", "closed"}]
      /\ MaxTime \in Nat /\ SwapLag \in Nat /\ run.lag \in 0 .. SwapLag
      /\ run.backoff \in Nat /\ SwapLag <= run.backoff
      /\ At("swap") => run.on \in Clients \ {client}
      /\ At("wait") => run.on = client
      /\ run.started => client \in Clients
  BY PullerAssumption DEF ShapeInv, TypeOK, RecordsOK, Runs
<1>n. run.pc \in {"connect", "backoff"} => \A c \in Clients : link[c] # "playing"
  BY DEF FeedInv
<1>1. UNCHANGED <<clock, high>> /\ clock < MaxTime /\ high' <= clock' + SwapLag
  BY DEF RunStep, ConnectOK, ConnectFails, Swap, CloseOld, RunHead, RunWait, SleepOver,
       BackoffOver, BackoffStop, TimeInv
<1>2. ASSUME NEW c \in Clients, ConnectOK(c) PROVE TimeInv'
  <2>1. run'.pc = "swap" /\ run'.on = c /\ firstAt'[c] = None /\ high <= clock
    BY <1>0, <1>1, <1>2 DEF ConnectOK, TimeInv
  <2> QED BY <1>1, <2>1 DEF TimeInv
<1>3. CASE ConnectFails
  <2>1. /\ run'.pc \in {"skipped", "returned", "backoff"} /\ high <= clock
        /\ run'.pc = "backoff" => sleep' = run.backoff
        /\ UNCHANGED <<client, baseTime, firstAt, link>>
    BY <1>0, <1>1, <1>3 DEF ConnectFails, TimeInv, Runs
  <2> QED BY <1>0, <1>1, <1>n, <1>3, <2>1 DEF TimeInv, ConnectFails
<1>4. CASE Swap
  <2>1. /\ run'.pc = "closeOld" /\ client' = run.on /\ baseTime' = clock /\ high <= clock
        /\ UNCHANGED <<firstAt, link>> /\ run.on \in Clients
        /\ firstAt[run.on] \in 0 .. MaxTime \cup {None}
        /\ firstAt[run.on] # None => clock - firstAt[run.on] \in 0 .. run.lag
    BY <1>0, <1>1, <1>4 DEF Swap, TimeInv, Runs
  <2> QED BY <1>0, <1>1, <2>1 DEF TimeInv
<1>5. CASE CloseOld
  <2>1. /\ run.pc = "closeOld" /\ run'.pc = "head" /\ UNCHANGED <<client, baseTime, firstAt>>
        /\ \A c \in Clients : link'[c] = "playing" => link[c] = "playing"
    BY <1>0, <1>5 DEF CloseOld
  <2> QED BY <1>0, <1>1, <2>1 DEF TimeInv
<1>6. CASE RunHead
  <2>1. /\ run.pc = "head" /\ run'.pc \in {"wait", "returned"}
        /\ UNCHANGED <<client, baseTime, firstAt, link>>
    BY <1>0, <1>6 DEF RunHead, Runs
  <2> QED BY <1>0, <1>1, <2>1 DEF TimeInv
<1>7. CASE RunWait
  <2>1. /\ run.pc = "wait" /\ run'.pc \in {"returned", "sleep"}
        /\ run'.pc = "sleep" => sleep' = run.backoff
        /\ UNCHANGED <<client, baseTime, firstAt, link>>
    BY <1>0, <1>7 DEF RunWait, Runs
  <2> QED BY <1>0, <1>1, <2>1 DEF TimeInv
<1>8. CASE SleepOver \/ BackoffOver
  <2>1. run'.pc = "connect" /\ run.pc \in {"sleep", "backoff"} /\ sleep = 0
    BY <1>0, <1>8 DEF SleepOver, BackoffOver, Runs
  <2>2. high <= clock
    BY <1>0, <1>1, <2>1 DEF TimeInv
  <2> QED BY <1>1, <2>1, <2>2 DEF TimeInv
<1>9. CASE BackoffStop
  <2>1. run'.pc = "returned" /\ run.pc = "backoff" /\ UNCHANGED <<client, baseTime, firstAt, link>>
    BY <1>0, <1>9 DEF BackoffStop, Runs
  <2> QED BY <1>0, <1>1, <1>n, <2>1 DEF TimeInv
<1> QED BY <1>2, <1>3, <1>4, <1>5, <1>6, <1>7, <1>8, <1>9 DEF RunStep

\* Every step keeps high behind the next sample.
LEMMA TimeStep == ShapeInv /\ FeedInv /\ TimeInv /\ [Next]_vars => TimeInv'
<1> SUFFICES ASSUME ShapeInv, FeedInv, TimeInv, [Next]_vars PROVE TimeInv'
  OBVIOUS
<1>1. CASE StopBegin \/ StopReturn \/ UNCHANGED vars
  BY <1>1 DEF StopBegin, StopReturn, vars, TimeInv, At
<1>2. ASSUME UNCHANGED <<clock, client, baseTime, firstAt, run, sleep, high>>,
             \A c \in Clients : link'[c] = "playing" => link[c] = "playing"
      PROVE  TimeInv'
  BY <1>2 DEF TimeInv, At
<1>3. CASE StopClose
  BY <1>2, <1>3 DEF StopClose, ShapeInv, TypeOK
<1>4. ASSUME NEW c \in Clients, Lose(c) PROVE TimeInv'
  BY <1>2, <1>4 DEF Lose, ShapeInv, TypeOK
<1> QED BY <1>1, <1>3, <1>4, TimeTick, TimePacket, TimeRun DEF Next, StopStep

\* The times of the samples never go back, over reconnections too, and are ahead of
\* the clock by no more than connecting took.
THEOREM SampleTimes == Spec => TimesAdvance
<1>1. Init => TimeInv
  BY PullerAssumption DEF Init, TimeInv, At, Connected
<1>2. ShapeInv /\ FeedInv /\ TimeInv /\ [Next]_vars =>
        [\A c \in Clients : c = client /\ Packet(c) =>
           timestampFromPTS(PTS(c)) \in high .. clock + SwapLag]_vars
  BY PacketTime
<1> QED
  BY <1>1, <1>2, ShapeInit, ShapeStep, FeedInit, FeedStep, TimeStep, PTL
  DEF Spec, TimesAdvance

=============================================================================
