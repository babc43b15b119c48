------------------------------ MODULE Playback -------------------------------
(***************************************************************************)
(* RTSP playback (internal/playback): the handlers of one client's         *)
(* connection and session, the goroutine each PLAY starts, and the         *)
(* prefetcher of the session.                                              *)
(*                                                                         *)
(* The handlers of a session run one after the other in its goroutine, and *)
(* SETUP is refused while it plays (gortsplib).  The playback goroutine of *)
(* a PLAY that was cancelled runs on beside that of the next PLAY until it *)
(* looks at its context.                                                   *)
(*                                                                         *)
(* recording is what index and storage hold of one camera while it is      *)
(* played: a sequence of GOPs, each with the timestamps of its samples and *)
(* its codec.  A sample is named <<g, k>>.                                 *)
(***************************************************************************)
EXTENDS FMP4, FiniteSets, FiniteSetsExt

CONSTANTS
  Recordings,    \* recordings a behaviour may start from
  Requests,      \* [start, end] pairs a DESCRIBE may ask for
  PlayRequests,  \* [range, scale] headers a PLAY may carry, None where it has none
  None,          \* no header, no end, nothing pending
  Lookback,      \* how far before the start ListGOPs looks (2 s)
  Horizon,       \* how far it looks when the request has no end (24 h)
  CacheLimit,    \* GOPs the prefetcher keeps (10)
  MaxDescribes,  \* bound: DESCRIBEs of the connection
  MaxPlays,      \* bound: PLAYs
  ReadResults    \* may reading the index or an object fail

Calls == [start : Int, scale : Int, resumes : BOOLEAN, clean : BOOLEAN]

ASSUME RecordingsAssumption ==
  \A rec \in Recordings : rec \in Seq([ts : Seq(Int) \ {<<>>}, codec : STRING])
ASSUME RequestsAssumption ==
  /\ Requests \subseteq [start : Int, end : Int \cup {None}]
  /\ PlayRequests \subseteq [range : Int \cup {None}, scale : Int \cup {None}]
ASSUME NoneAssumption == None \notin Int \cup Calls
ASSUME PlaybackBoundsAssumption ==
  /\ Lookback \in Nat /\ Horizon \in Nat /\ CacheLimit \in Nat
  /\ MaxDescribes \in Nat /\ MaxPlays \in Nat
ASSUME ReadResultsAssumption == TRUE \in ReadResults /\ ReadResults \subseteq BOOLEAN

VARIABLES
  recording,  \* the GOPs of the camera, in the order of the index
  conn,       \* the connection: "open", "closed"
  pending,    \* Server.pending[conn]: a number in states, or None
  session,    \* Server.sessions[session], or None
  phase,      \* the library's view of the session: "none", "ready", "playing"
  call,       \* what OnPlay has resolved and not yet started, or None
  states,     \* the sessionStates OnDescribe has made
  runs,       \* the playback goroutines OnPlay has started
  fetching,   \* prefetches under way
  crashed     \* the process has died of a panic

serverVars == <<conn, pending, session, phase, call>>
vars == <<recording, serverVars, states, runs, fetching, crashed>>

Init ==
  /\ recording \in Recordings
  /\ conn = "open" /\ pending = None /\ session = None /\ phase = "none" /\ call = None
  /\ states = <<>> /\ runs = <<>> /\ fetching = {} /\ crashed = FALSE

-----------------------------------------------------------------------------
(* Reading the recording *)

GOPs == DOMAIN recording
StartTime(g) == recording[g].ts[1]
EndTime(g) == recording[g].ts[Len(recording[g].ts)]
Time(g, k) == ParsedTime(recording[g].ts, k)

\* Mutant: only GOPs that start after the wanted time are listed.
ListGOPsForward(start, end) ==
  {g \in GOPs : StartTime(g) \in start .. (IF end = None THEN start + Horizon ELSE end + Lookback)}

\* FragmentReader.ListGOPs: QueryRange selects by start time.  (Two seconds are
\* looked back before the start and beyond the end.)
ListGOPs(start, end) ==
  LET windowEnd == IF end = None THEN start + Horizon ELSE end + Lookback
  IN  {g \in GOPs : StartTime(g) \in start - Lookback .. windowEnd}

First(gs) == IF gs = {} THEN None ELSE Min(gs)

\* The GOPs of a list that have not ended before start.
Relevant(start, end) == {g \in ListGOPs(start, end) : EndTime(g) >= start}

\* shouldSendSample.  A sample that was read back is of type I or P, so that the
\* test for B frames at scales of 4 and more never holds.
ShouldSend(k, scale) == scale < 8 \/ k = 1

-----------------------------------------------------------------------------
(* The handlers *)

\* OnDescribe: without a GOP at the start, or without its init segment, the
\* answer is 404 and nothing changes.  An earlier pending stream is forgotten.
Describe(req) ==
  LET g == First(Relevant(req.start, req.end))
  IN  /\ conn = "open" /\ Len(states) < MaxDescribes
      /\ g # None
      /\ states' = Append(states,
           [start |-> req.start, end |-> req.end, codec |-> recording[g].codec,
            scale |-> 1, pos |-> 0, progress |-> FALSE, cancel |-> None,
            open |-> TRUE, cache |-> {}, writer |-> None])
      /\ pending' = Len(states) + 1
      /\ UNCHANGED <<recording, conn, session, phase, call, runs, fetching, crashed>>

Setup ==
  /\ conn = "open" /\ pending # None
  /\ phase \in {"none", "ready"} /\ call = None
  /\ session' = pending /\ phase' = "ready"
  /\ UNCHANGED <<recording, conn, pending, call, states, runs, fetching, crashed>>

\* The run that was started by the last PLAY of state s, 0 if there is none.
LastRun(s) == Max({r \in DOMAIN runs : runs[r].st = s} \cup {0})

\* resolvePlayParameters, under the lock of the state.  range and scale are the
\* headers, or None.  (A header that cannot be parsed ends the call.)
PlayResolve(range, scale) ==
  /\ conn = "open" /\ session # None /\ call = None /\ Len(runs) < MaxPlays
  /\ LET st == states[session]
     IN  call' = [start |-> IF range # None THEN range
                            ELSE IF st.progress THEN st.pos ELSE st.start,
                  scale |-> IF scale # None THEN scale ELSE st.scale,
                  resumes |-> range = None /\ st.progress,
                  clean |-> st.writer = LastRun(session)]
  /\ UNCHANGED <<recording, conn, pending, session, phase, states, runs, fetching, crashed>>

\* The goroutine of run r is told to end.
Cancelled(r) == r = None \/ runs[r].cancelled
CancelRun(r) == IF r = None THEN runs ELSE [runs EXCEPT ![r].cancelled = TRUE]

NewRun ==
  [st |-> session, start |-> call.start, scale |-> call.scale, pc |-> "list",
   gop |-> 0, k |-> 0, last |-> None, cancelled |-> FALSE,
   sent |-> <<>>, extra |-> 0,
   prev |-> IF call.resumes /\ call.clean THEN LastRun(session) ELSE 0]

\* The state of the session once run r plays it.
Playing(st, r) ==
  [st EXCEPT !.scale = call.scale, !.pos = call.start, !.progress = TRUE,
             !.cancel = r, !.writer = r]

\* Mutant: OnPlay forgets to cancel the goroutine of the PLAY before.
PlayStartBeside ==
  /\ call # None
  /\ runs' = Append(runs, NewRun)
  /\ states' = [states EXCEPT ![session] = Playing(@, Len(runs) + 1)]
  /\ phase' = "playing" /\ call' = None
  /\ UNCHANGED <<recording, conn, pending, session, fetching, crashed>>

\* The rest of OnPlay: cancel the old goroutine, set the position, start a new one.
PlayStart ==
  /\ call # None
  /\ runs' = Append(CancelRun(states[session].cancel), NewRun)
  /\ states' = [states EXCEPT ![session] = Playing(@, Len(runs) + 1)]
  /\ phase' = "playing" /\ call' = None
  /\ UNCHANGED <<recording, conn, pending, session, fetching, crashed>>

Pause ==
  /\ conn = "open" /\ session # None /\ call = None
  /\ runs' = CancelRun(states[session].cancel)
  /\ states' = [states EXCEPT ![session].cancel = None]
  /\ phase' = "ready"
  /\ UNCHANGED <<recording, conn, pending, session, call, fetching, crashed>>

\* Mutant: the playback goroutine is left to find out by itself.
SessionCloseLazy ==
  /\ session # None /\ call = None
  /\ runs' = runs
  /\ states' = states
  /\ session' = None /\ phase' = "none"
  /\ UNCHANGED <<recording, conn, pending, call, fetching, crashed>>

\* OnSessionClose, after TEARDOWN, a timeout or the end of the connection.
SessionClose ==
  /\ session # None /\ call = None
  /\ runs' = CancelRun(states[session].cancel)
  /\ states' = [states EXCEPT ![session].open = FALSE]
  /\ session' = None /\ phase' = "none"
  /\ UNCHANGED <<recording, conn, pending, call, fetching, crashed>>

ConnClose ==
  /\ conn = "open"
  /\ conn' = "closed" /\ pending' = None
  /\ UNCHANGED <<recording, session, phase, call, states, runs, fetching, crashed>>

-----------------------------------------------------------------------------
(* runPlayback *)

Goto(r, pc) == runs' = [runs EXCEPT ![r].pc = pc]

\* A run before the samples of GOP g, before it sends sample k, and after it has
\* sent that sample; extra is 1 if it had been cancelled before.
AtGOP(run, g) == [run EXCEPT !.pc = "sample", !.gop = g, !.k = 0]
AtSample(run, k) == [run EXCEPT !.pc = "send", !.k = k]
HasSent(run, extra) ==
  [run EXCEPT !.pc = "progress", !.last = Time(run.gop, run.k),
              !.sent = Append(run.sent, <<run.gop, run.k>>), !.extra = run.extra + extra]

StateOf(r) == states[runs[r].st]

\* The list of run r; the index does not change while it is played.
Metas(r) == ListGOPs(runs[r].start, StateOf(r).end)

RunList(r, ok) ==
  /\ runs[r].pc = "list"
  /\ Goto(r, IF ok THEN "fetch" ELSE "ended")
  /\ UNCHANGED <<recording, serverVars, states, fetching, crashed>>

\* The next turn of the loop over the list: Prefetcher.Get, or ReadGOP; then the
\* prefetch of the next GOP is started, with a context of its own.  (If the init
\* segment changed and can be loaded, its parameter sets are sent ahead of the
\* GOP; nothing that follows depends on it.)
RunFetch(r, ok) ==
  LET g == First({x \in Metas(r) : x > runs[r].gop /\ EndTime(x) >= runs[r].start})
      over == g = None \/ (StateOf(r).end # None /\ StartTime(g) > StateOf(r).end)
      next == First({x \in Metas(r) : x > g})
  IN  /\ runs[r].pc = "fetch"
      /\ IF over
           THEN Goto(r, "ended") /\ UNCHANGED <<states, fetching>>
           ELSE /\ states' = [states EXCEPT ![runs[r].st].cache = @ \ {g}]
                /\ IF g \in StateOf(r).cache \/ ok
                     THEN /\ runs' = [runs EXCEPT ![r] = AtGOP(@, g)]
                          /\ fetching' = fetching \cup
                               (IF next = None THEN {} ELSE {[run |-> r, gop |-> next]})
                     ELSE Goto(r, "ended") /\ UNCHANGED fetching
      /\ UNCHANGED <<recording, serverVars, crashed>>

AfterEnd(r, k) == StateOf(r).end # None /\ Time(runs[r].gop, k) > StateOf(r).end

\* The next sample of the GOP that is not skipped.
NextSample(r) ==
  First({k \in DOMAIN recording[runs[r].gop].ts :
           /\ k > runs[r].k /\ Time(runs[r].gop, k) >= runs[r].start
           /\ AfterEnd(r, k) \/ ShouldSend(k, runs[r].scale)})

\* Mutant: the context is looked at only while waiting for the next sample.
RunSampleBlind(r) ==
  LET k == NextSample(r)
  IN  /\ runs[r].pc = "sample"
      /\ CASE k = None -> Goto(r, "fetch")
           [] k # None /\ AfterEnd(r, k) -> Goto(r, "ended")
           [] OTHER -> runs' = [runs EXCEPT ![r] = AtSample(@, k)]
      /\ UNCHANGED <<recording, serverVars, states, fetching, crashed>>

\* The head of the loop over the samples: look at the context, skip, stop after
\* the end.
RunSample(r) ==
  LET k == NextSample(r)
  IN  /\ runs[r].pc = "sample"
      /\ CASE Cancelled(r) -> Goto(r, "ended")
           [] ~Cancelled(r) /\ k = None -> Goto(r, "fetch")
           [] ~Cancelled(r) /\ k # None /\ AfterEnd(r, k) -> Goto(r, "ended")
           [] OTHER -> runs' = [runs EXCEPT ![r] = AtSample(@, k)]
      /\ UNCHANGED <<recording, serverVars, states, fetching, crashed>>

\* The sample is sent without delay if it is the first one or not later than the last.
Due(r) == runs[r].last = None \/ Time(runs[r].gop, runs[r].k) <= runs[r].last

\* While waiting until the next sample is due, the context ends the goroutine.
\* (When the timer has fired too, either happens: this, or the sample is sent.)
RunDelayCancelled(r) ==
  /\ runs[r].pc = "send" /\ ~Due(r) /\ Cancelled(r)
  /\ Goto(r, "ended")
  /\ UNCHANGED <<recording, serverVars, states, fetching, crashed>>

\* The sender has an encoder only for the codec that was described.
HasEncoder(r) == recording[runs[r].gop].codec = StateOf(r).codec

\* SendSample through a nil encoder: the panic of a goroutine ends the process.
SendPanics(r) ==
  /\ runs[r].pc = "send" /\ ~HasEncoder(r)
  /\ crashed' = TRUE
  /\ UNCHANGED <<recording, serverVars, states, runs, fetching>>

\* A closed stream refuses the packet and the run ends.
RunSend(r) ==
  /\ runs[r].pc = "send" /\ HasEncoder(r)
  /\ IF StateOf(r).open
       THEN runs' = [runs EXCEPT ![r] = HasSent(@, IF Cancelled(r) THEN 1 ELSE 0)]
       ELSE Goto(r, "ended")
  /\ UNCHANGED <<recording, serverVars, states, fetching, crashed>>

\* The state once run r has recorded pos.
Progressed(st, pos, r) == [st EXCEPT !.pos = pos, !.progress = TRUE, !.writer = r]

\* Mutant: the end of the GOP is recorded as the position.
RunProgressCoarse(r) ==
  /\ runs[r].pc = "progress" /\ Goto(r, "sample")
  /\ states' = [states EXCEPT ![runs[r].st] = Progressed(@, EndTime(runs[r].gop), r)]
  /\ UNCHANGED <<recording, serverVars, fetching, crashed>>

\* recordProgress, also of a run that was cancelled since it sent the sample.
RunProgress(r) ==
  /\ runs[r].pc = "progress" /\ Goto(r, "sample")
  /\ states' = [states EXCEPT ![runs[r].st] = Progressed(@, runs[r].last, r)]
  /\ UNCHANGED <<recording, serverVars, fetching, crashed>>

-----------------------------------------------------------------------------
(* Prefetch *)

CacheOf(f) == states[runs[f.run].st].cache

\* Of more than CacheLimit GOPs an arbitrary one goes, the new one included.
AfterInsert(cache) ==
  IF Cardinality(cache) > CacheLimit THEN {cache \ {g} : g \in cache} ELSE {cache}

\* Prefetch, as of its insertion: a GOP that is cached already is left alone.
\* (The check before the read decides nothing else, and a read that fails, or a
\* GOP that was cached then, leaves the cache as it is.)
Prefetch(f, ok) ==
  /\ fetching' = fetching \ {f}
  /\ IF ok /\ f.gop \notin CacheOf(f)
       THEN \E cache \in AfterInsert(CacheOf(f) \cup {f.gop}) :
              states' = [states EXCEPT ![runs[f.run].st].cache = cache]
       ELSE UNCHANGED states
  /\ UNCHANGED <<recording, serverVars, runs, crashed>>

-----------------------------------------------------------------------------
RunStep(r) ==
  \/ \E ok \in ReadResults : RunList(r, ok) \/ RunFetch(r, ok)
  \/ RunSample(r) \/ RunDelayCancelled(r)
  \/ RunSend(r) \/ SendPanics(r) \/ RunProgress(r)

HandlerStep ==
  \/ \E req \in Requests : Describe(req)
  \/ Setup \/ Pause \/ ConnClose
  \/ \E req \in PlayRequests : PlayResolve(req.range, req.scale)

Prefetching ==
  \E f \in fetching, ok \in ReadResults : Prefetch(f, ok)

Next ==
  /\ ~crashed
  /\ \/ HandlerStep \/ PlayStart \/ SessionClose
     \/ \E r \in DOMAIN runs : RunStep(r)
     \/ Prefetching

Spec == Init /\ [][Next]_vars

\* The steps of a run that do not wait for a sample to be due.
PromptStep(r) ==
  \/ \E ok \in ReadResults : RunList(r, ok) \/ RunFetch(r, ok)
  \/ RunSample(r) \/ RunDelayCancelled(r) \/ RunProgress(r)
  \/ runs[r].pc = "send" /\ Due(r) /\ (RunSend(r) \/ SendPanics(r))

\* Goroutines are scheduled, reads end, a handler that was entered goes on; the
\* library closes the session of a closed connection.  No client is obliged to
\* send anything, and after a gap in the recording the next sample may be hours away.
Fairness ==
  /\ \A r \in 1 .. MaxPlays : WF_vars(~crashed /\ r \in DOMAIN runs /\ PromptStep(r))
  /\ WF_vars(~crashed /\ PlayStart)
  /\ WF_vars(~crashed /\ conn = "closed" /\ SessionClose)

FairSpec == Spec /\ Fairness

-----------------------------------------------------------------------------
(* Properties *)

RunPCs == {"list", "fetch", "sample", "send", "progress", "ended"}
Refs == DOMAIN states

States ==
  [start : Int, end : Int \cup {None}, codec : STRING, scale : Int, pos : Int, progress : BOOLEAN,
   cancel : Nat \cup {None}, open : BOOLEAN, cache : SUBSET Nat, writer : Nat \cup {None}]
Runs ==
  [st : Nat, start : Int, scale : Int, pc : RunPCs, gop : Nat, k : Nat, last : Int \cup {None},
   cancelled : BOOLEAN, sent : Seq(Nat \X Nat), extra : Nat, prev : Nat]

ServerOK ==
  /\ recording \in Recordings /\ conn \in {"open", "closed"} /\ crashed \in BOOLEAN
  /\ pending \in Refs \cup {None} /\ session \in Refs \cup {None}
  /\ phase \in {"none", "ready", "playing"} /\ (session = None <=> phase = "none")
  /\ call \in Calls \cup {None} /\ (call # None => session # None)

StatesOK ==
  /\ states \in Seq(States)
  /\ \A s \in Refs : /\ states[s].cache \subseteq GOPs
                     /\ states[s].cancel \in DOMAIN runs \cup {None}
                     /\ states[s].writer \in DOMAIN runs \cup {None}

RunsOK ==
  /\ runs \in Seq(Runs)
  /\ \A r \in DOMAIN runs :
       /\ runs[r].st \in Refs /\ runs[r].prev \in 0 .. Len(runs)
       /\ runs[r].pc \in {"sample", "send", "progress"} => runs[r].gop \in GOPs
       /\ runs[r].pc \in {"send", "progress"} => runs[r].k \in DOMAIN recording[runs[r].gop].ts
       /\ runs[r].pc = "progress" => runs[r].last = Time(runs[r].gop, runs[r].k)

FetchOK == \A f \in fetching : f.run \in DOMAIN runs /\ f.gop \in GOPs

\* Every variable has its type, and what refers to a state, to a run, to a GOP
\* or to a sample refers to one that exists.
TypeOK == ServerOK /\ StatesOK /\ RunsOK /\ FetchOK

SampleIds == UNION {{<<g, k>> : k \in DOMAIN recording[g].ts} : g \in GOPs}
At(w) == Time(w[1], w[2])
Precedes(v, w) == v[1] < w[1] \/ (v[1] = w[1] /\ v[2] < w[2])

\* What a client that plays from start at that scale is to see.
Wanted(r) ==
  {w \in SampleIds :
     /\ At(w) >= runs[r].start /\ (StateOf(r).end # None => At(w) <= StateOf(r).end)
     /\ ShouldSend(w[2], runs[r].scale)}

Sent(r) == {runs[r].sent[i] : i \in DOMAIN runs[r].sent}

\* What a PLAY may send: with the wanted samples also those before them in the
\* GOP that holds the wanted time, which a decoder may need.
MaySend(r) ==
  {w \in SampleIds :
     /\ EndTime(w[1]) >= runs[r].start /\ (StateOf(r).end # None => At(w) <= StateOf(r).end)
     /\ ShouldSend(w[2], runs[r].scale)}

\* Playback is gapless: what one PLAY sends comes in the order of the recording,
\* without repetition, and once it has begun, or once the wanted time has come,
\* it leaves nothing out up to the wanted end, over GOP boundaries, from the
\* prefetch cache or from storage, whatever other PLAYs of the session and
\* failing reads did meanwhile.
SentIsUnbroken ==
  \A r \in DOMAIN runs :
    /\ \A i \in 2 .. Len(runs[r].sent) : Precedes(runs[r].sent[i - 1], runs[r].sent[i])
    /\ Sent(r) \subseteq MaySend(r)
    /\ \A w \in MaySend(r), v \in Sent(r) :
         /\ Precedes(w, v)
         /\ At(w) >= runs[r].start \/ \E u \in Sent(r) : Precedes(u, w)
         => w \in Sent(r)

\* A sample is played at the time it was recorded: a fragment loses less than a
\* unit of the track's time scale for each sample before it, and gains nothing
\* (the samples of a camera are never closer than a unit).
TimesKept ==
  \A g \in GOPs : \A k \in DOMAIN recording[g].ts :
    Increasing(recording[g].ts) =>
      recording[g].ts[k] - Time(g, k) \in 0 .. FromScale(k - 1) + 1

\* After PAUSE, a seek, a new scale or the end of the session, the goroutine
\* that was cancelled sends at most the one sample it had decided to send.
CancelledSendsOnce == \A r \in DOMAIN runs : runs[r].extra <= 1

\* PAUSE and PLAY, or a change of scale, lose nothing: a PLAY without a Range
\* starts no later than the first sample the PLAY before had left to send, if no
\* older goroutine has overwritten the position in between.
ResumeLosesNothing ==
  \A r \in DOMAIN runs : runs[r].prev # 0 =>
    \A w \in Wanted(runs[r].prev) : At(w) < runs[r].start => w \in Sent(runs[r].prev)

\* A goroutine that has not been told to end can still be told: it is the one
\* the state remembers, and the session that plays it has that state.
NoOrphanRun ==
  \A r \in DOMAIN runs :
    runs[r].pc # "ended" /\ ~runs[r].cancelled => StateOf(r).cancel = r /\ session = runs[r].st

\* When the connection is gone, every playback goroutine ends, without waiting
\* until its next sample is due.
RunsEnd ==
  conn = "closed" ~> (crashed \/ \A r \in DOMAIN runs : runs[r].pc = "ended")

-----------------------------------------------------------------------------
(* What the documents say and the code does not do *)

\* Playback goes on over a change of codec: no sample meets a sender without an
\* encoder for it.
PlaysAcrossCodecs == ~crashed

=============================================================================
