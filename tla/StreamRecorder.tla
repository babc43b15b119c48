--------------------------- MODULE StreamRecorder ---------------------------
(***************************************************************************)
(* The recorder of one camera (internal/recorder/stream_recorder.go) with  *)
(* its GOP assembler (gop_assembler.go).                                   *)
(*                                                                         *)
(* The RTSP puller's goroutine calls ProcessSample for every access unit;  *)
(* API handlers and the schedule controller call Start and Stop.  Both     *)
(* reach FlushGOP.  One action is one critical section (s.mu, the          *)
(* assembler's mutex) or one access to the atomic state.                   *)
(*                                                                         *)
(* A sample is its arrival number, its key-frame flag and its codec        *)
(* parameters (codec and parameter sets together).  The assembler's        *)
(* hasKeyFrame is TRUE exactly when it holds samples, so asm alone is kept.*)
(***************************************************************************)
EXTENDS Integers, Sequences, FiniteSets

CONSTANTS
  Puller,         \* the goroutine that delivers samples
  Controllers,    \* goroutines that call Start and Stop
  Params,         \* codec parameters a stream may switch between
  BadParams,      \* those BuildInit cannot make an init segment of
  None,           \* nil
  MaxSamples,     \* bound: samples the camera sends
  SubmitResults,  \* what building and submitting a GOP may return
  Pressure        \* may the memory controller ask to shed frames

Threads == Controllers \cup {Puller}

Samples == [id : 1 .. MaxSamples, key : BOOLEAN, par : Params]
InitPaths == [par : Params, id : 1 .. MaxSamples]

\* What FlushGOP copies: the metadata of a job.
Metas == [seq : Nat, builder : Params \cup {None}, codec : Params \cup {None},
          init : InitPaths \cup {None}, carries : BOOLEAN]

ASSUME ThreadsAssumption == Puller \notin Controllers
ASSUME ParamsAssumption == None \notin Params /\ BadParams \subseteq Params
ASSUME NoneAssumption == None \notin Samples \cup InitPaths \cup Metas
ASSUME SamplesAssumption == MaxSamples \in Nat
ASSUME SubmitResultsAssumption == SubmitResults \subseteq {"ok", "error"}
ASSUME PressureAssumption == Pressure \in BOOLEAN

VARIABLES
  state,      \* StreamRecorder.state
  builder,    \* parameters of the FMP4Builder in use
  params,     \* StreamRecorder.params and codec
  initPath,   \* key of the init segment the next GOPs refer to
  initData,   \* is an init segment waiting to be carried by a job
  sequence,   \* StreamRecorder.sequence
  asm,        \* GOPAssembler.samples
  pc,         \* where each thread stands
  cur,        \* the sample ProcessSample works on
  why,        \* which call of FlushGOP in ProcessSample is running
  gop,        \* per thread: the samples Flush returned
  snap,       \* per thread: what FlushGOP copied under the lock
  arrived,    \* number of samples delivered
  jobs        \* the jobs the writer accepted, in order

recorderVars == <<builder, params, initPath, initData>>
flushVars == <<gop, snap>>
vars == <<state, builder, params, initPath, initData, sequence, asm, pc, cur, why,
          gop, snap, arrived, jobs>>

Init ==
  /\ state = "idle"
  /\ builder = None /\ params = None /\ initPath = None /\ initData = FALSE
  /\ sequence = 0
  /\ asm = <<>>
  /\ pc = [t \in Threads |-> "idle"]
  /\ cur = None /\ why = "none"
  /\ gop = [t \in Threads |-> <<>>]
  /\ snap = [t \in Threads |-> None]
  /\ arrived = 0
  /\ jobs = <<>>

Goto(t, label) == pc' = [pc EXCEPT ![t] = label]

\* ProcessSample goes on at label; "idle" is its return.
PullerAt(label) == Goto(Puller, label) /\ cur' = IF label = "idle" THEN None ELSE cur

-----------------------------------------------------------------------------
(* Start and Stop *)

\* Start returns at once when it is waiting or recording.
Start(c) ==
  /\ pc[c] = "idle"
  /\ state \notin {"recording", "waiting"}
  /\ state' = "waiting"
  /\ UNCHANGED <<recorderVars, sequence, asm, pc, cur, why, flushVars, arrived, jobs>>

StopBegin(c) ==
  /\ pc[c] = "idle"
  /\ state # "idle"
  /\ state' = "stopping"
  /\ Goto(c, "flush")
  /\ UNCHANGED <<recorderVars, sequence, asm, cur, why, flushVars, arrived, jobs>>

\* The second critical section of Stop, whatever happened in between.
StopEnd(c) ==
  /\ pc[c] = "stop_end"
  /\ state' = "idle"
  /\ Goto(c, "idle")
  /\ UNCHANGED <<recorderVars, sequence, asm, cur, why, flushVars, arrived, jobs>>

-----------------------------------------------------------------------------
(* ProcessSample *)

Ignored(smp) == state \in {"idle", "stopping"} \/ (state = "waiting" /\ ~smp.key)

\* ShouldDropFrame: key frames are never shed.
Sheddable(smp) == Pressure /\ ~smp.key

NextSample(key, par) == [id |-> arrived + 1, key |-> key, par |-> par]

\* The unlocked read of state at the head of ProcessSample decides.
SampleDropped(key, par) ==
  /\ pc[Puller] = "idle" /\ arrived < MaxSamples
  /\ Ignored(NextSample(key, par)) \/ Sheddable(NextSample(key, par))
  /\ arrived' = arrived + 1
  /\ UNCHANGED <<state, recorderVars, sequence, asm, pc, cur, why, flushVars, jobs>>

SampleTaken(key, par) ==
  /\ pc[Puller] = "idle" /\ arrived < MaxSamples
  /\ ~Ignored(NextSample(key, par))
  /\ arrived' = arrived + 1
  /\ cur' = NextSample(key, par)
  /\ Goto(Puller, IF state = "waiting" THEN "enter" ELSE "check")
  /\ UNCHANGED <<state, recorderVars, sequence, asm, why, flushVars, jobs>>

\* state.Store(Recording), without looking at the state again.
EnterRecording ==
  /\ pc[Puller] = "enter"
  /\ state' = "recording"
  /\ PullerAt("check")
  /\ UNCHANGED <<recorderVars, sequence, asm, why, flushVars, arrived, jobs>>

\* Mutant: a change of parameters goes unnoticed.
NeedsFirstBuild(smp) == builder = None

NeedsRebuild(smp) == builder = None \/ smp.par # params

CheckBuilder ==
  /\ pc[Puller] = "check"
  /\ IF NeedsRebuild(cur)
       THEN PullerAt("flush") /\ why' = "rebuild"
       ELSE PullerAt("add") /\ UNCHANGED why
  /\ UNCHANGED <<state, recorderVars, sequence, asm, flushVars, arrived, jobs>>

\* rebuildBuilder: the builder is replaced even if BuildInit then fails.
RebuildBuilder ==
  /\ pc[Puller] = "rebuild"
  /\ builder' = cur.par
  /\ IF cur.par \in BadParams
       THEN PullerAt("idle") /\ UNCHANGED <<params, initPath, initData>>
       ELSE /\ PullerAt("add")
            /\ params' = cur.par
            /\ initPath' = [par |-> cur.par, id |-> cur.id]
            /\ initData' = TRUE
  /\ UNCHANGED <<state, sequence, asm, why, flushVars, arrived, jobs>>

\* GOPAssembler.AddSample asks for a flush when a key frame ends the GOP.
MustFlush(smp) == smp.key /\ asm # <<>>

\* What AddSample appends: nothing before the first key frame of a GOP.
Appended(smp) == IF smp.key \/ asm # <<>> THEN Append(asm, smp) ELSE asm

AddSample ==
  /\ pc[Puller] = "add"
  /\ IF MustFlush(cur)
       THEN PullerAt("flush") /\ why' = "full" /\ UNCHANGED asm
       ELSE PullerAt("idle") /\ asm' = Appended(cur) /\ UNCHANGED why
  /\ UNCHANGED <<state, recorderVars, sequence, flushVars, arrived, jobs>>

\* The key frame is offered again, and a second request to flush is ignored.
AddAgain ==
  /\ pc[Puller] = "add_again"
  /\ asm' = IF MustFlush(cur) THEN asm ELSE Appended(cur)
  /\ PullerAt("idle")
  /\ UNCHANGED <<state, recorderVars, sequence, why, flushVars, arrived, jobs>>

-----------------------------------------------------------------------------
(* FlushGOP, called by ProcessSample and by Stop *)

\* Mutant: Stop returns at once when its flush fails.
ResumeOnError(t, result) ==
  CASE t # Puller -> IF result = "error" THEN "idle" ELSE "stop_end"
    [] t = Puller /\ why = "rebuild" -> IF result = "error" THEN "idle" ELSE "rebuild"
    [] OTHER -> IF result = "ok" THEN "add_again" ELSE "idle"

\* Where the caller goes on.  A rebuild tolerates errNoGOPAvailable, the flush
\* before a new GOP tolerates no error at all, and Stop tolerates every error.
Resume(t, result) ==
  CASE t # Puller -> "stop_end"
    [] t = Puller /\ why = "rebuild" -> IF result = "error" THEN "idle" ELSE "rebuild"
    [] OTHER -> IF result = "ok" THEN "add_again" ELSE "idle"

Return(t, result) ==
  IF t = Puller THEN PullerAt(Resume(t, result)) ELSE Goto(t, Resume(t, result)) /\ UNCHANGED cur

\* Mutant: Flush copies the samples and keeps them.
FlushTakeCopies(t) ==
  /\ pc[t] = "flush"
  /\ IF asm = <<>>
       THEN Return(t, "none") /\ UNCHANGED gop
       ELSE gop' = [gop EXCEPT ![t] = asm] /\ Goto(t, "snap") /\ UNCHANGED cur
  /\ UNCHANGED <<state, recorderVars, sequence, asm, why, snap, arrived, jobs>>

FlushTake(t) ==
  /\ pc[t] = "flush"
  /\ IF asm = <<>>
       THEN Return(t, "none") /\ UNCHANGED <<asm, gop>>
       ELSE /\ gop' = [gop EXCEPT ![t] = asm]
            /\ asm' = <<>>
            /\ Goto(t, "snap") /\ UNCHANGED cur
  /\ UNCHANGED <<state, recorderVars, sequence, why, snap, arrived, jobs>>

\* Mutant: s.initData = nil is missing.
FlushSnapKeepsInit(t) ==
  /\ pc[t] = "snap"
  /\ snap' = [snap EXCEPT ![t] = [seq |-> sequence, builder |-> builder, codec |-> params,
                                  init |-> initPath, carries |-> initData]]
  /\ sequence' = sequence + 1
  /\ Goto(t, "submit")
  /\ UNCHANGED <<state, recorderVars, asm, cur, why, gop, arrived, jobs>>

\* The init segment is handed to the first GOP that is copied after a rebuild.
FlushSnap(t) ==
  /\ pc[t] = "snap"
  /\ snap' = [snap EXCEPT ![t] = [seq |-> sequence, builder |-> builder, codec |-> params,
                                  init |-> initPath, carries |-> initData]]
  /\ sequence' = sequence + 1
  /\ initData' = FALSE
  /\ Goto(t, "submit")
  /\ UNCHANGED <<state, builder, params, initPath, asm, cur, why, gop, arrived, jobs>>

\* BuildFragment and Submit; a GOP that fails is gone, the init data it carried
\* too.  (The error of a nil builder is one of these errors.)
FlushSubmit(t, result) ==
  /\ pc[t] = "submit"
  /\ jobs' = IF result = "ok" THEN Append(jobs, [meta |-> snap[t], frames |-> gop[t]]) ELSE jobs
  /\ Return(t, result)
  /\ gop' = [gop EXCEPT ![t] = <<>>]
  /\ snap' = [snap EXCEPT ![t] = None]
  /\ UNCHANGED <<state, recorderVars, sequence, asm, why, arrived>>

-----------------------------------------------------------------------------
FlushStep(t) == FlushTake(t) \/ FlushSnap(t) \/ \E r \in SubmitResults : FlushSubmit(t, r)

SampleStep ==
  EnterRecording \/ CheckBuilder \/ RebuildBuilder \/ AddSample \/ AddAgain \/ FlushStep(Puller)

StopStep(c) == FlushStep(c) \/ StopEnd(c)

Next ==
  \/ \E key \in BOOLEAN, par \in Params : SampleDropped(key, par) \/ SampleTaken(key, par)
  \/ SampleStep
  \/ \E c \in Controllers : Start(c) \/ StopBegin(c) \/ StopStep(c)

Spec == Init /\ [][Next]_vars

\* A call that was begun is scheduled until it returns (Submit returns, as
\* SubmitReturns of AsyncWriter says).  Nobody has to call Start or Stop, and
\* the camera may fall silent.
Fairness == WF_vars(SampleStep) /\ \A c \in Controllers : WF_vars(StopStep(c))

FairSpec == Spec /\ Fairness

-----------------------------------------------------------------------------
(* Properties *)

Labels == {"idle", "enter", "check", "rebuild", "add", "add_again", "flush", "snap",
           "submit", "stop_end"}

\* Every variable has its type; a thread holds a GOP exactly inside FlushGOP.
TypeOK ==
  /\ state \in {"idle", "waiting", "recording", "stopping"}
  /\ builder \in Params \cup {None} /\ params \in Params \cup {None}
  /\ initPath \in InitPaths \cup {None}
  /\ initData \in BOOLEAN
  /\ sequence \in Nat /\ arrived \in 0 .. MaxSamples
  /\ asm \in Seq(Samples)
  /\ pc \in [Threads -> Labels]
  /\ cur \in Samples \cup {None} /\ (cur = None <=> pc[Puller] = "idle")
  /\ why \in {"none", "rebuild", "full"}
  /\ gop \in [Threads -> Seq(Samples)]
  /\ \A t \in Threads : gop[t] # <<>> <=> pc[t] \in {"snap", "submit"}
  /\ snap \in [Threads -> Metas \cup {None}]
  /\ \A t \in Threads : snap[t] # None <=> pc[t] = "submit"
  /\ jobs \in Seq([meta : Metas, frames : Seq(Samples)])

WellFormed(frames) ==
  /\ frames[1].key
  /\ \A i \in 2 .. Len(frames) :
       ~frames[i].key /\ frames[i].par = frames[1].par /\ frames[i].id > frames[i - 1].id

\* A GOP handed to the writer starts with a key frame, has no other, keeps the
\* order of arrival and never mixes codec parameters, whoever flushed it and
\* whatever Start, Stop, codec changes and failed submissions came in between.
GOPWellFormed == \A i \in 1 .. Len(jobs) : WellFormed(jobs[i].frames)

Ids(frames) == {frames[i].id : i \in 1 .. Len(frames)}

\* Two flushes, of the puller and of a Stop, never share a frame, and two jobs
\* never get the same sequence number, which makes their object keys distinct.
JobsDistinct ==
  /\ \A i, k \in 1 .. Len(jobs) : i # k =>
       /\ jobs[i].meta.seq # jobs[k].meta.seq
       /\ Ids(jobs[i].frames) \cap Ids(jobs[k].frames) = {}
  /\ \A i \in 1 .. Len(jobs), t \in Threads :
       Ids(jobs[i].frames) \cap (Ids(gop[t]) \cup Ids(asm)) = {}

\* At most one job carries an init segment, and it is the first, in sequence
\* order, of the jobs that refer to it.
InitCarriedOnce ==
  \A i, k \in 1 .. Len(jobs) :
    i # k /\ jobs[i].meta.init = jobs[k].meta.init /\ jobs[i].meta.carries
      => ~jobs[k].meta.carries /\ jobs[i].meta.seq < jobs[k].meta.seq

\* Stop and ProcessSample return, and the recorder never stays in stopping.
CallsReturn ==
  /\ \A t \in Threads : pc[t] # "idle" ~> pc[t] = "idle"
  /\ state = "stopping" ~> state # "stopping"

\* Switching codecs does not corrupt recordings: a GOP the writer accepted was
\* built for the codec parameters of its own frames, and the init segment it
\* refers to is the one of those parameters (FlushGOP, rebuildBuilder).
GOPDecodable ==
  \A i \in 1 .. Len(jobs) :
    LET job == jobs[i]
    IN  /\ job.meta.init # None /\ job.meta.init.par = job.frames[1].par
        /\ job.meta.builder = job.frames[1].par /\ job.meta.codec = job.frames[1].par

=============================================================================
