------------------------ MODULE StreamRecorderProofs ------------------------
(***************************************************************************)
(* Proofs about StreamRecorder, for any number of controllers, samples and *)
(* codec parameters.                                                       *)
(*                                                                         *)
(* Three inductive invariants rest on TypeOK.  FramesInv follows the       *)
(* samples of one GOP: the assembler never holds samples of parameters     *)
(* other than the recorder's, because the puller empties it before it      *)
(* rebuilds.  IdsInv says that a sample is in one place only and that the  *)
(* sample in hand is in none.  MetasInv does the same for the sequence     *)
(* numbers and for the init segment that waits to be carried.              *)
(***************************************************************************)
EXTENDS StreamRecorder, TLAPS

-----------------------------------------------------------------------------
(* The invariants *)

\* The number the next sample to be stored will at least have: that of the
\* sample in hand, or of the next one to arrive.
Fresh == IF pc[Puller] = "idle" THEN arrived + 1 ELSE arrived

\* The puller is inside the FlushGOP that ends a GOP, not that of a rebuild.
EndsGOP == pc[Puller] \in {"flush", "snap", "submit"} /\ why # "rebuild"

FramesInv ==
  /\ asm # <<>> => WellFormed(asm)
  /\ \A t \in Threads : gop[t] # <<>> => WellFormed(gop[t])
  /\ GOPWellFormed
  /\ \A i \in 1 .. Len(asm) : asm[i].par = params /\ asm[i].id < Fresh
  /\ pc[Puller] # "idle" => cur.id = arrived
  /\ pc[Puller] \in {"add", "add_again"} \/ EndsGOP => cur.par = params
  /\ pc[Puller] \in {"rebuild", "snap", "submit", "add_again"} => asm = <<>>

\* No sample of f is in g.
Disjoint(f, g) == \A i \in 1 .. Len(f), k \in 1 .. Len(g) : f[i].id # g[k].id

\* The samples of f are older than the one in hand and than all that will come.
Below(f) == \A i \in 1 .. Len(f) : f[i].id < Fresh

IdsInv ==
  /\ Below(asm)
  /\ \A t \in Threads : Below(gop[t]) /\ Disjoint(gop[t], asm)
  /\ \A i \in 1 .. Len(jobs) : Below(jobs[i].frames) /\ Disjoint(jobs[i].frames, asm)
  /\ \A t, u \in Threads : t # u => Disjoint(gop[t], gop[u])
  /\ \A i \in 1 .. Len(jobs), t \in Threads : Disjoint(jobs[i].frames, gop[t])
  /\ \A i, k \in 1 .. Len(jobs) : i # k => Disjoint(jobs[i].frames, jobs[k].frames)

\* Of two jobs that refer to one init segment, if m carries it, n comes later
\* and does not.
Carries(m, n) == m.init = n.init /\ m.carries => ~n.carries /\ m.seq < n.seq
Apart(m, n) == m.seq # n.seq /\ Carries(m, n) /\ Carries(n, m)

\* m was copied before the next copy: it refers to no init segment that still
\* waits, and to none that is newer than initPath.
Older(m) ==
  /\ m.seq < sequence
  /\ m.init = initPath => ~initData
  /\ m.init # None => initPath # None /\ m.init.id <= initPath.id

\* The puller has yet to rebuild for the sample in hand.
BeforeRebuild ==
  \/ pc[Puller] \in {"enter", "check", "rebuild"}
  \/ pc[Puller] \in {"flush", "snap", "submit"} /\ why = "rebuild"

PathInv ==
  initPath # None => initPath.id <= arrived /\ (BeforeRebuild => initPath.id < arrived)

MetasInv ==
  /\ \A i \in 1 .. Len(jobs) : Older(jobs[i].meta)
  /\ \A t \in Threads : pc[t] = "submit" => Older(snap[t])
  /\ \A i, k \in 1 .. Len(jobs) : i # k => Apart(jobs[i].meta, jobs[k].meta)
  /\ \A i \in 1 .. Len(jobs), t \in Threads : pc[t] = "submit" => Apart(jobs[i].meta, snap[t])
  /\ \A t, u \in Threads : t # u /\ pc[t] = "submit" /\ pc[u] = "submit" => Apart(snap[t], snap[u])

-----------------------------------------------------------------------------
(* Types *)

\* In the initial state every variable has its type.
LEMMA InitType == Init => TypeOK
<1> SUFFICES ASSUME Init PROVE TypeOK
  OBVIOUS
<1> Puller \in Threads
  BY DEF Threads
<1>1. <<>> \in Seq(Samples) /\ <<>> \in Seq([meta : Metas, frames : Seq(Samples)])
  OBVIOUS
<1>2. arrived \in 0 .. MaxSamples /\ sequence \in Nat
  BY SamplesAssumption DEF Init
<1> QED
  BY <1>1, <1>2 DEF Init, TypeOK, Labels

\* Start and Stop keep the types.
LEMMA ControlType ==
  ASSUME TypeOK, NEW c \in Controllers, Start(c) \/ StopBegin(c) \/ StopEnd(c)
  PROVE  TypeOK'
<1> c \in Threads /\ c # Puller /\ Puller \in Threads
  BY ThreadsAssumption DEF Threads
<1>1. CASE Start(c)
  BY <1>1 DEF Start, TypeOK, recorderVars, flushVars
<1>2. CASE StopBegin(c)
  BY <1>2 DEF StopBegin, Goto, TypeOK, Labels, recorderVars, flushVars
<1>3. CASE StopEnd(c)
  BY <1>3 DEF StopEnd, Goto, TypeOK, Labels, recorderVars, flushVars
<1> QED
  BY <1>1, <1>2, <1>3

\* The next sample is a sample, and not nil.
LEMMA NextSampleType ==
  ASSUME TypeOK, arrived < MaxSamples, NEW key \in BOOLEAN, NEW par \in Params
  PROVE  NextSample(key, par) \in Samples /\ NextSample(key, par) # None
<1> arrived + 1 \in 1 .. MaxSamples
  BY SamplesAssumption DEF TypeOK
<1>1. NextSample(key, par) \in Samples
  BY DEF NextSample, Samples
<1> QED
  BY <1>1, NoneAssumption

\* ProcessSample keeps the types, up to where it calls FlushGOP.
LEMMA SampleType ==
  ASSUME TypeOK,
         \/ \E key \in BOOLEAN, par \in Params : SampleDropped(key, par) \/ SampleTaken(key, par)
         \/ EnterRecording \/ CheckBuilder \/ RebuildBuilder \/ AddSample \/ AddAgain
  PROVE  TypeOK'
<1> Puller \in Threads
  BY DEF Threads
<1>1. ASSUME NEW key \in BOOLEAN, NEW par \in Params, SampleDropped(key, par)
      PROVE  TypeOK'
  BY <1>1, SamplesAssumption DEF SampleDropped, TypeOK, recorderVars, flushVars
<1>2. ASSUME NEW key \in BOOLEAN, NEW par \in Params, SampleTaken(key, par)
      PROVE  TypeOK'
  <2>1. cur' \in Samples /\ cur' # None
    BY <1>2, NextSampleType DEF SampleTaken
  <2>2. arrived' \in 0 .. MaxSamples
    BY <1>2, SamplesAssumption DEF SampleTaken, TypeOK
  <2> QED
    BY <1>2, <2>1, <2>2 DEF SampleTaken, Goto, TypeOK, Labels, recorderVars, flushVars
<1>3. CASE EnterRecording
  BY <1>3 DEF EnterRecording, PullerAt, Goto, TypeOK, Labels, recorderVars, flushVars
<1>4. CASE CheckBuilder
  BY <1>4 DEF CheckBuilder, PullerAt, Goto, TypeOK, Labels, recorderVars, flushVars
<1>5. CASE RebuildBuilder
  <2>1. cur \in Samples
    BY <1>5 DEF RebuildBuilder, TypeOK
  <2>2. cur.par \in Params /\ cur.id \in 1 .. MaxSamples
    BY <2>1 DEF Samples
  <2>3. [par |-> cur.par, id |-> cur.id] \in InitPaths
    BY <2>2 DEF InitPaths
  <2> QED
    BY <1>5, <2>2, <2>3 DEF RebuildBuilder, PullerAt, Goto, TypeOK, Labels, flushVars
<1>6. CASE AddSample
  <2>1. cur \in Samples
    BY <1>6 DEF AddSample, TypeOK
  <2>2. Appended(cur) \in Seq(Samples)
    BY <2>1 DEF Appended, TypeOK
  <2> QED
    BY <1>6, <2>2 DEF AddSample, PullerAt, Goto, TypeOK, Labels, recorderVars, flushVars
<1>7. CASE AddAgain
  <2>1. cur \in Samples
    BY <1>7 DEF AddAgain, TypeOK
  <2>2. Appended(cur) \in Seq(Samples)
    BY <2>1 DEF Appended, TypeOK
  <2> QED
    BY <1>7, <2>2 DEF AddAgain, PullerAt, Goto, TypeOK, Labels, recorderVars, flushVars
<1> QED
  BY <1>1, <1>2, <1>3, <1>4, <1>5, <1>6, <1>7

\* Where FlushGOP returns to, and what becomes of the sample in hand.
LEMMA ReturnStep ==
  ASSUME TypeOK, NEW t \in Threads, NEW result, Return(t, result)
  PROVE  /\ pc' = [pc EXCEPT ![t] = Resume(t, result)]
         /\ Resume(t, result) \in Labels \ {"flush", "snap", "submit"}
         /\ t # Puller => cur' = cur /\ Resume(t, result) = "stop_end"
         /\ t = Puller => cur' = IF Resume(t, result) = "idle" THEN None ELSE cur
         /\ t = Puller => Resume(t, result) \in {"idle", "rebuild", "add_again"}
         /\ t = Puller /\ Resume(t, result) = "rebuild" => why = "rebuild"
         /\ t = Puller /\ Resume(t, result) = "add_again" => why # "rebuild" /\ result = "ok"
<1>1. CASE t # Puller
  <2>1. Resume(t, result) = "stop_end"
    BY <1>1 DEF Resume
  <2> QED
    BY <1>1, <2>1 DEF Return, Goto, Labels
<1>2. CASE t = Puller /\ why = "rebuild"
  <2>1. Resume(t, result) = IF result = "error" THEN "idle" ELSE "rebuild"
    BY <1>2 DEF Resume
  <2> QED
    BY <1>2, <2>1 DEF Return, PullerAt, Goto, Labels
<1>3. CASE t = Puller /\ why # "rebuild"
  <2>1. Resume(t, result) = IF result = "ok" THEN "add_again" ELSE "idle"
    BY <1>3 DEF Resume
  <2> QED
    BY <1>3, <2>1 DEF Return, PullerAt, Goto, Labels
<1> QED
  BY <1>1, <1>2, <1>3

\* FlushGOP keeps the types.
LEMMA FlushType ==
  ASSUME TypeOK, NEW t \in Threads, FlushStep(t)
  PROVE  TypeOK'
<1> Puller \in Threads
  BY DEF Threads
<1>1. CASE FlushTake(t)
  <2>1. CASE asm = <<>>
    <3>1. Return(t, "none") /\ UNCHANGED <<asm, gop>> /\ pc[t] = "flush"
      BY <1>1, <2>1 DEF FlushTake
    <3>2. UNCHANGED <<state, builder, params, initPath, initData, sequence, why, snap, arrived, jobs>>
      BY <1>1 DEF FlushTake, recorderVars
    <3>3. /\ pc' = [pc EXCEPT ![t] = Resume(t, "none")]
          /\ Resume(t, "none") \in Labels \ {"flush", "snap", "submit"}
          /\ t # Puller => cur' = cur
          /\ t = Puller => cur' = IF Resume(t, "none") = "idle" THEN None ELSE cur
      BY <3>1, ReturnStep
    <3>4. pc' \in [Threads -> Labels] /\ cur' \in Samples \cup {None}
      BY <3>3 DEF TypeOK
    <3>5. cur' = None <=> pc'[Puller] = "idle"
      BY <3>1, <3>3 DEF TypeOK
    <3>6. ASSUME NEW u \in Threads
          PROVE  /\ gop'[u] # <<>> <=> pc'[u] \in {"snap", "submit"}
                 /\ snap'[u] # None <=> pc'[u] = "submit"
      BY <3>1, <3>2, <3>3 DEF TypeOK
    <3> QED
      BY <3>1, <3>2, <3>4, <3>5, <3>6 DEF TypeOK
  <2>2. CASE asm # <<>>
    <3>1. /\ gop' = [gop EXCEPT ![t] = asm] /\ asm' = <<>>
          /\ pc' = [pc EXCEPT ![t] = "snap"] /\ cur' = cur /\ pc[t] = "flush"
      BY <1>1, <2>2 DEF FlushTake, Goto
    <3>2. UNCHANGED <<state, builder, params, initPath, initData, sequence, why, snap, arrived, jobs>>
      BY <1>1 DEF FlushTake, recorderVars
    <3>3. pc' \in [Threads -> Labels] /\ gop' \in [Threads -> Seq(Samples)] /\ asm' \in Seq(Samples)
      BY <3>1 DEF TypeOK, Labels
    <3>4. cur' = None <=> pc'[Puller] = "idle"
      BY <3>1 DEF TypeOK
    <3>5. ASSUME NEW u \in Threads
          PROVE  /\ gop'[u] # <<>> <=> pc'[u] \in {"snap", "submit"}
                 /\ snap'[u] # None <=> pc'[u] = "submit"
      BY <2>2, <3>1, <3>2 DEF TypeOK
    <3> QED
      BY <3>1, <3>2, <3>3, <3>4, <3>5 DEF TypeOK
  <2> QED
    BY <2>1, <2>2
<1>2. CASE FlushSnap(t)
  <2> DEFINE m == [seq |-> sequence, builder |-> builder, codec |-> params,
                   init |-> initPath, carries |-> initData]
  <2>1. m \in Metas
    BY DEF TypeOK, Metas
  <2>2. m # None
    BY <2>1, NoneAssumption
  <2>3. /\ snap' = [snap EXCEPT ![t] = m] /\ pc' = [pc EXCEPT ![t] = "submit"]
        /\ sequence' = sequence + 1 /\ initData' = FALSE /\ pc[t] = "snap"
        /\ UNCHANGED <<state, builder, params, initPath, asm, cur, why, gop, arrived, jobs>>
    BY <1>2 DEF FlushSnap, Goto
  <2> HIDE DEF m
  <2>4. pc' \in [Threads -> Labels] /\ snap' \in [Threads -> Metas \cup {None}]
    BY <2>1, <2>3 DEF TypeOK, Labels
  <2>5. cur' = None <=> pc'[Puller] = "idle"
    BY <2>3 DEF TypeOK
  <2>6. ASSUME NEW u \in Threads
        PROVE  /\ gop'[u] # <<>> <=> pc'[u] \in {"snap", "submit"}
               /\ snap'[u] # None <=> pc'[u] = "submit"
    BY <2>2, <2>3 DEF TypeOK
  <2>7. sequence' \in Nat
    BY <2>3 DEF TypeOK
  <2>8. /\ UNCHANGED <<state, builder, params, initPath, asm, cur, why, gop, arrived, jobs>>
        /\ initData' \in BOOLEAN
    BY <2>3
  <2> QED
    BY <2>4, <2>5, <2>6, <2>7, <2>8 DEF TypeOK
<1>3. ASSUME NEW r \in SubmitResults, FlushSubmit(t, r)
      PROVE  TypeOK'
  <2>1. /\ Return(t, r) /\ pc[t] = "submit"
        /\ gop' = [gop EXCEPT ![t] = <<>>] /\ snap' = [snap EXCEPT ![t] = None]
        /\ UNCHANGED <<state, builder, params, initPath, initData, sequence, asm, why, arrived>>
    BY <1>3 DEF FlushSubmit, recorderVars
  <2>2. snap[t] \in Metas /\ gop[t] \in Seq(Samples)
    BY <2>1 DEF TypeOK
  <2> DEFINE job == [meta |-> snap[t], frames |-> gop[t]]
             Jobs == [meta : Metas, frames : Seq(Samples)]
  <2>3. job \in Jobs
    BY <2>2
  <2>4. jobs \in Seq(Jobs)
    BY DEF TypeOK
  <2>5. jobs' = IF r = "ok" THEN Append(jobs, job) ELSE jobs
    BY <1>3 DEF FlushSubmit
  <2> HIDE DEF job, Jobs
  <2>6. jobs' \in Seq(Jobs)
    BY <2>3, <2>4, <2>5
  <2>7. /\ pc' = [pc EXCEPT ![t] = Resume(t, r)]
        /\ Resume(t, r) \in Labels \ {"flush", "snap", "submit"}
        /\ t # Puller => cur' = cur
        /\ t = Puller => cur' = IF Resume(t, r) = "idle" THEN None ELSE cur
    BY <2>1, ReturnStep
  <2>8. /\ pc' \in [Threads -> Labels] /\ cur' \in Samples \cup {None}
        /\ gop' \in [Threads -> Seq(Samples)] /\ snap' \in [Threads -> Metas \cup {None}]
    BY <2>1, <2>7 DEF TypeOK
  <2>9. cur' = None <=> pc'[Puller] = "idle"
    BY <2>1, <2>7 DEF TypeOK
  <2>10. ASSUME NEW u \in Threads
         PROVE  /\ gop'[u] # <<>> <=> pc'[u] \in {"snap", "submit"}
                /\ snap'[u] # None <=> pc'[u] = "submit"
    BY <2>1, <2>7 DEF TypeOK
  <2> QED
    BY <2>1, <2>6, <2>8, <2>9, <2>10 DEF TypeOK, Jobs
<1> QED
  BY <1>1, <1>2, <1>3 DEF FlushStep

\* Every step keeps the types.
LEMMA NextType == TypeOK /\ [Next]_vars => TypeOK'
<1> SUFFICES ASSUME TypeOK, [Next]_vars PROVE TypeOK'
  OBVIOUS
<1> USE DEF Threads
<1>1. CASE SampleStep
  BY <1>1, SampleType, FlushType DEF SampleStep
<1>2. ASSUME NEW c \in Controllers, Start(c) \/ StopBegin(c) \/ StopStep(c)
      PROVE  TypeOK'
  BY <1>2, ControlType, FlushType DEF StopStep
<1>3. CASE UNCHANGED vars
  BY <1>3 DEF vars, TypeOK
<1> QED
  BY <1>1, <1>2, <1>3, SampleType DEF Next

\* Every variable keeps its type; in particular a thread holds a GOP and a copy
\* of the metadata exactly between the critical sections of FlushGOP.
THEOREM TypeCorrect == Spec => []TypeOK
  BY InitType, NextType, PTL DEF Spec

-----------------------------------------------------------------------------
(* GOPs are well-formed *)

\* A key frame alone is a GOP.
LEMMA OneFrame ==
  ASSUME NEW smp \in Samples, smp.key
  PROVE  WellFormed(<<smp>>)
  BY DEF WellFormed

\* A later frame of the same parameters that is no key frame extends a GOP.
LEMMA OneMoreFrame ==
  ASSUME NEW frames \in Seq(Samples), frames # <<>>, WellFormed(frames),
         NEW smp \in Samples, ~smp.key, smp.par = frames[1].par,
         \A i \in 1 .. Len(frames) : frames[i].id < smp.id
  PROVE  WellFormed(Append(frames, smp))
<1> DEFINE more == Append(frames, smp)
<1>1. Len(frames) \in Nat \ {0} /\ Len(more) = Len(frames) + 1
  OBVIOUS
<1>2. \A i \in 1 .. Len(frames) : more[i] = frames[i]
  OBVIOUS
<1>3. more[Len(frames) + 1] = smp
  OBVIOUS
<1>4. more[1] = frames[1]
  BY <1>1, <1>2
<1> HIDE DEF more
<1>5. ASSUME NEW i \in 2 .. Len(more)
      PROVE  ~more[i].key /\ more[i].par = more[1].par /\ more[i].id > more[i - 1].id
  <2>1. CASE i \in 2 .. Len(frames)
    BY <1>2, <1>4, <2>1 DEF WellFormed
  <2>2. CASE i = Len(frames) + 1
    <3>1. more[i - 1] = frames[Len(frames)] /\ Len(frames) \in 1 .. Len(frames)
      BY <1>1, <1>2, <2>2
    <3>2. frames[Len(frames)].id < smp.id
      BY <3>1
    <3>3. frames[Len(frames)] \in Samples
      BY <3>1
    <3>4. smp.id > frames[Len(frames)].id
      BY <3>2, <3>3, SamplesAssumption DEF Samples
    <3> QED
      BY <1>3, <1>4, <2>2, <3>1, <3>4
  <2> QED
    BY <1>1, <2>1, <2>2
<1>6. more[1].key
  BY <1>4 DEF WellFormed
<1> QED
  BY <1>5, <1>6 DEF WellFormed, more

\* Nothing is held, so nothing is mixed.
LEMMA InitFrames == Init => FramesInv
  BY DEF Init, FramesInv, GOPWellFormed, EndsGOP, Threads

\* A step of a controller outside FlushGOP moves no sample.
LEMMA ControlFrames ==
  ASSUME TypeOK, FramesInv, NEW c \in Controllers, Start(c) \/ StopBegin(c) \/ StopEnd(c)
  PROVE  FramesInv'
<1>1. c \in Threads /\ c # Puller /\ Puller \in Threads
  BY ThreadsAssumption DEF Threads
<1>2. UNCHANGED <<recorderVars, sequence, asm, cur, why, flushVars, arrived, jobs>>
  BY DEF Start, StopBegin, StopEnd
<1>3. pc'[Puller] = pc[Puller]
  BY <1>1 DEF Start, StopBegin, StopEnd, Goto, TypeOK
<1> QED
  BY <1>2, <1>3 DEF FramesInv, GOPWellFormed, WellFormed, Fresh, EndsGOP, recorderVars, flushVars

\* What AddSample leaves in the assembler is well-formed, when the sample has
\* the parameters of the recorder.
LEMMA AddFrames ==
  ASSUME TypeOK, FramesInv, cur \in Samples, pc[Puller] \in {"add", "add_again"},
         asm' = IF MustFlush(cur) THEN asm ELSE Appended(cur),
         pc' = [pc EXCEPT ![Puller] = "idle"], UNCHANGED <<params, gop, jobs, arrived>>
  PROVE  FramesInv'
<1>1. cur.par = params /\ cur.id = arrived /\ arrived \in Nat
  BY SamplesAssumption DEF FramesInv, TypeOK
<1>2. \A i \in 1 .. Len(asm) : asm[i].par = params /\ asm[i].id < cur.id
  BY <1>1 DEF FramesInv, Fresh
<1>3. pc'[Puller] = "idle" /\ asm \in Seq(Samples)
  BY DEF TypeOK, Threads
<1>4. CASE asm' = asm
  <2>1. ASSUME NEW i \in 1 .. Len(asm') PROVE asm'[i].par = params' /\ asm'[i].id < Fresh'
    <3>1. asm[i] \in Samples /\ i \in 1 .. Len(asm)
      BY <1>3, <1>4
    <3>2. asm[i].id \in Nat
      BY <3>1, SamplesAssumption DEF Samples
    <3> QED
      BY <1>1, <1>2, <1>3, <1>4, <3>1, <3>2 DEF Fresh
  <2> QED
    BY <1>3, <1>4, <2>1 DEF FramesInv, GOPWellFormed, WellFormed, EndsGOP
<1>5. CASE asm' = Append(asm, cur) /\ asm = <<>> /\ cur.key
  <2>1. asm' = <<cur>>
    BY <1>5
  <2>2. WellFormed(asm')
    BY <1>5, <2>1, OneFrame
  <2>3. \A i \in 1 .. Len(asm') : asm'[i].par = params' /\ asm'[i].id < Fresh'
    BY <1>1, <1>3, <2>1 DEF Fresh
  <2> QED
    BY <1>3, <2>2, <2>3 DEF FramesInv, GOPWellFormed, WellFormed, EndsGOP
<1>6. CASE asm' = Append(asm, cur) /\ asm # <<>> /\ ~cur.key
  <2>1. asm[1].par = cur.par
    BY <1>1, <1>2, <1>3, <1>6
  <2>2. WellFormed(asm')
    BY <1>2, <1>3, <1>6, <2>1, OneMoreFrame DEF FramesInv
  <2>3. \A i \in 1 .. Len(asm') : asm'[i].par = params' /\ asm'[i].id < Fresh'
    <3> SUFFICES ASSUME NEW i \in 1 .. Len(asm')
                 PROVE  asm'[i].par = params' /\ asm'[i].id < Fresh'
      OBVIOUS
    <3>1. Len(asm') = Len(asm) + 1 /\ asm'[Len(asm) + 1] = cur
      BY <1>3, <1>6
    <3>2. CASE i \in 1 .. Len(asm)
      <4>1. asm'[i] = asm[i] /\ asm[i] \in Samples
        BY <1>3, <1>6, <3>2
      <4>2. asm[i].id \in Nat
        BY <4>1, SamplesAssumption DEF Samples
      <4> QED
        BY <1>1, <1>2, <1>3, <3>2, <4>1, <4>2 DEF Fresh
    <3>3. CASE i = Len(asm) + 1
      BY <1>1, <1>3, <3>1, <3>3 DEF Fresh
    <3> QED
      BY <1>3, <3>1, <3>2, <3>3
  <2> QED
    BY <1>3, <2>2, <2>3 DEF FramesInv, GOPWellFormed, WellFormed, EndsGOP
<1> QED
  BY <1>4, <1>5, <1>6 DEF MustFlush, Appended

\* ProcessSample keeps the GOPs well-formed, up to where it calls FlushGOP.
LEMMA SampleFrames ==
  ASSUME TypeOK, TypeOK', FramesInv,
         \/ \E key \in BOOLEAN, par \in Params : SampleDropped(key, par) \/ SampleTaken(key, par)
         \/ EnterRecording \/ CheckBuilder \/ RebuildBuilder \/ AddSample \/ AddAgain
  PROVE  FramesInv'
<1> Puller \in Threads
  BY DEF Threads
<1>0. arrived \in Nat /\ \A i \in 1 .. Len(asm) : asm[i].id \in Nat
  <2>1. arrived \in 0 .. MaxSamples /\ \A i \in 1 .. Len(asm) : asm[i] \in Samples
    BY DEF TypeOK
  <2>2. \A s \in Samples : s.id \in Nat
    BY SamplesAssumption DEF Samples
  <2> QED
    BY <2>1, <2>2, SamplesAssumption
<1>1. ASSUME NEW key \in BOOLEAN, NEW par \in Params, SampleDropped(key, par)
      PROVE  FramesInv'
  BY <1>0, <1>1 DEF SampleDropped, FramesInv, GOPWellFormed, WellFormed, Fresh, EndsGOP,
                    recorderVars, flushVars
<1>2. ASSUME NEW key \in BOOLEAN, NEW par \in Params, SampleTaken(key, par)
      PROVE  FramesInv'
  <2>1. /\ pc[Puller] = "idle" /\ arrived' = arrived + 1
        /\ cur' = [id |-> arrived + 1, key |-> key, par |-> par]
        /\ pc'[Puller] \in {"enter", "check"}
        /\ UNCHANGED <<params, asm, why, gop, jobs>>
    BY <1>2 DEF SampleTaken, Goto, TypeOK, NextSample, recorderVars, flushVars
  <2>2. Fresh' = Fresh /\ cur'.id = arrived'
    BY <1>0, <2>1 DEF Fresh
  <2> QED
    BY <2>1, <2>2 DEF FramesInv, GOPWellFormed, WellFormed, EndsGOP
<1>3. CASE EnterRecording
  <2>1. /\ pc[Puller] = "enter" /\ pc'[Puller] = "check" /\ cur' = cur
        /\ UNCHANGED <<params, asm, why, gop, arrived, jobs>>
    BY <1>3 DEF EnterRecording, PullerAt, Goto, TypeOK, recorderVars, flushVars
  <2> QED
    BY <2>1 DEF FramesInv, GOPWellFormed, WellFormed, Fresh, EndsGOP
<1>4. CASE CheckBuilder
  <2>1. /\ pc[Puller] = "check" /\ cur' = cur
        /\ \/ pc'[Puller] = "flush" /\ why' = "rebuild"
           \/ pc'[Puller] = "add" /\ cur.par = params
        /\ UNCHANGED <<params, asm, gop, arrived, jobs>>
    BY <1>4 DEF CheckBuilder, NeedsRebuild, PullerAt, Goto, TypeOK, recorderVars, flushVars
  <2> QED
    BY <2>1 DEF FramesInv, GOPWellFormed, WellFormed, Fresh, EndsGOP
<1>5. CASE RebuildBuilder
  <2>1. /\ pc[Puller] = "rebuild" /\ asm = <<>> /\ asm' = <<>>
        /\ \/ pc'[Puller] = "idle"
           \/ pc'[Puller] = "add" /\ cur' = cur /\ params' = cur.par
        /\ UNCHANGED <<gop, arrived, jobs>>
    BY <1>5 DEF RebuildBuilder, PullerAt, Goto, TypeOK, FramesInv, flushVars
  <2> QED
    BY <2>1 DEF FramesInv, GOPWellFormed, WellFormed, EndsGOP
<1>6. CASE AddSample
  <2>0. pc[Puller] = "add" /\ cur \in Samples
    BY <1>6 DEF AddSample, TypeOK
  <2>1. CASE MustFlush(cur)
    <3>1. /\ pc'[Puller] = "flush" /\ cur' = cur
          /\ UNCHANGED <<params, asm, gop, arrived, jobs>>
      BY <1>6, <2>1 DEF AddSample, PullerAt, Goto, TypeOK, recorderVars, flushVars
    <3> QED
      BY <2>0, <3>1 DEF FramesInv, GOPWellFormed, WellFormed, Fresh, EndsGOP
  <2>2. CASE ~MustFlush(cur)
    <3>1. /\ pc' = [pc EXCEPT ![Puller] = "idle"] /\ asm' = Appended(cur)
          /\ UNCHANGED <<params, gop, arrived, jobs>>
      BY <1>6, <2>2 DEF AddSample, PullerAt, Goto, recorderVars, flushVars
    <3> QED
      BY <2>0, <2>2, <3>1, AddFrames
  <2> QED
    BY <2>1, <2>2
<1>7. CASE AddAgain
  <2>1. /\ pc[Puller] = "add_again" /\ cur \in Samples
        /\ pc' = [pc EXCEPT ![Puller] = "idle"]
        /\ asm' = IF MustFlush(cur) THEN asm ELSE Appended(cur)
        /\ UNCHANGED <<params, gop, arrived, jobs>>
    BY <1>7 DEF AddAgain, PullerAt, Goto, TypeOK, recorderVars, flushVars
  <2> QED
    BY <2>1, AddFrames
<1> QED
  BY <1>1, <1>2, <1>3, <1>4, <1>5, <1>6, <1>7

\* FlushGOP moves a GOP as it is, from the assembler to the thread that flushes
\* and on to the writer.
LEMMA FlushFrames ==
  ASSUME TypeOK, TypeOK', FramesInv, NEW t \in Threads, FlushStep(t)
  PROVE  FramesInv'
<1> Puller \in Threads
  BY DEF Threads
<1>0. arrived \in Nat /\ \A i \in 1 .. Len(asm) : asm[i].id \in Nat
  <2>1. arrived \in 0 .. MaxSamples /\ \A i \in 1 .. Len(asm) : asm[i] \in Samples
    BY DEF TypeOK
  <2>2. \A s \in Samples : s.id \in Nat
    BY SamplesAssumption DEF Samples
  <2> QED
    BY <2>1, <2>2, SamplesAssumption
<1>1. CASE FlushTake(t) /\ asm = <<>>
  <2>1. /\ pc[t] = "flush" /\ asm' = <<>>
        /\ UNCHANGED <<params, why, gop, arrived, jobs>>
    BY <1>1 DEF FlushTake, recorderVars
  <2>2. /\ pc' = [pc EXCEPT ![t] = Resume(t, "none")]
        /\ t # Puller => cur' = cur
        /\ t = Puller => cur' = IF Resume(t, "none") = "idle" THEN None ELSE cur
        /\ t = Puller => Resume(t, "none") \in {"idle", "rebuild"}
    BY <1>1, ReturnStep DEF FlushTake
  <2>3. \/ pc'[Puller] = pc[Puller] /\ cur' = cur
        \/ pc'[Puller] = "idle"
        \/ pc'[Puller] = "rebuild" /\ cur' = cur /\ pc[Puller] = "flush"
    BY <2>1, <2>2 DEF TypeOK
  <2>4. \A i \in 1 .. Len(asm') : FALSE
    BY <2>1
  <2> QED
    BY <1>1, <2>1, <2>3, <2>4 DEF FramesInv, GOPWellFormed, EndsGOP
<1>2. CASE FlushTake(t) /\ asm # <<>>
  <2>1. /\ gop' = [gop EXCEPT ![t] = asm] /\ asm' = <<>> /\ pc[t] = "flush"
        /\ pc' = [pc EXCEPT ![t] = "snap"] /\ UNCHANGED <<cur, params, why, arrived, jobs>>
    BY <1>2 DEF FlushTake, Goto, recorderVars
  <2>2. \/ pc'[Puller] = pc[Puller]
        \/ pc'[Puller] = "snap" /\ pc[Puller] = "flush"
    BY <2>1 DEF TypeOK
  <2>3. ASSUME NEW u \in Threads, gop'[u] # <<>> PROVE WellFormed(gop'[u])
    BY <1>2, <2>1, <2>3 DEF FramesInv, TypeOK
  <2>4. \A i \in 1 .. Len(asm') : FALSE
    BY <2>1
  <2> QED
    BY <2>1, <2>2, <2>3, <2>4 DEF FramesInv, GOPWellFormed, EndsGOP
<1>3. CASE FlushSnap(t)
  <2>1. /\ pc' = [pc EXCEPT ![t] = "submit"] /\ pc[t] = "snap"
        /\ UNCHANGED <<asm, gop, cur, params, why, arrived, jobs>>
    BY <1>3 DEF FlushSnap, Goto
  <2>2. \/ pc'[Puller] = pc[Puller]
        \/ pc'[Puller] = "submit" /\ pc[Puller] = "snap"
    BY <2>1 DEF TypeOK
  <2> QED
    BY <2>1, <2>2 DEF FramesInv, GOPWellFormed, WellFormed, Fresh, EndsGOP
<1>4. ASSUME NEW r \in SubmitResults, FlushSubmit(t, r)
      PROVE  FramesInv'
  <2>1. /\ Return(t, r) /\ pc[t] = "submit"
        /\ gop' = [gop EXCEPT ![t] = <<>>]
        /\ UNCHANGED <<params, asm, why, arrived>>
    BY <1>4 DEF FlushSubmit, recorderVars
  <2>2. /\ pc' = [pc EXCEPT ![t] = Resume(t, r)]
        /\ t # Puller => cur' = cur
        /\ t = Puller => cur' = IF Resume(t, r) = "idle" THEN None ELSE cur
        /\ t = Puller => Resume(t, r) \in {"idle", "rebuild", "add_again"}
        /\ t = Puller /\ Resume(t, r) = "rebuild" => why = "rebuild"
        /\ t = Puller /\ Resume(t, r) = "add_again" => why # "rebuild"
    BY <2>1, ReturnStep
  <2>3. \/ pc'[Puller] = pc[Puller] /\ cur' = cur
        \/ pc'[Puller] = "idle"
        \/ pc'[Puller] = "rebuild" /\ cur' = cur /\ pc[Puller] = "submit"
        \/ pc'[Puller] = "add_again" /\ cur' = cur /\ pc[Puller] = "submit" /\ why # "rebuild"
    BY <2>1, <2>2 DEF TypeOK
  <2>4. GOPWellFormed'
    <3> SUFFICES ASSUME NEW i \in 1 .. Len(jobs') PROVE WellFormed(jobs'[i].frames)
      BY DEF GOPWellFormed, WellFormed
    <3>1. WellFormed(gop[t])
      BY <2>1 DEF TypeOK, FramesInv
    <3>2. jobs \in Seq([meta : Metas, frames : Seq(Samples)])
      BY DEF TypeOK
    <3>3. CASE jobs' = jobs
      BY <3>3 DEF FramesInv, GOPWellFormed
    <3>4. CASE jobs' = Append(jobs, [meta |-> snap[t], frames |-> gop[t]])
      <4>1. CASE i \in 1 .. Len(jobs)
        <5>1. jobs'[i] = jobs[i]
          BY <3>2, <3>4, <4>1
        <5> QED
          BY <4>1, <5>1 DEF FramesInv, GOPWellFormed
      <4>2. CASE i = Len(jobs) + 1
        <5>1. jobs'[i].frames = gop[t]
          BY <3>2, <3>4, <4>2
        <5> QED
          BY <3>1, <5>1
      <4> QED
        BY <3>2, <3>4, <4>1, <4>2
    <3> QED
      BY <1>4, <3>3, <3>4 DEF FlushSubmit
  <2>5. ASSUME NEW u \in Threads, gop'[u] # <<>> PROVE WellFormed(gop'[u])
    BY <2>1, <2>5 DEF FramesInv, TypeOK
  <2>6. asm # <<>> => WellFormed(asm')
    BY <2>1 DEF FramesInv
  <2>7. \A i \in 1 .. Len(asm') : asm'[i].par = params' /\ asm'[i].id < Fresh'
    BY <1>0, <2>1, <2>3 DEF FramesInv, Fresh
  <2> QED
    BY <2>1, <2>3, <2>4, <2>5, <2>6, <2>7 DEF FramesInv, EndsGOP
<1> QED
  BY <1>1, <1>2, <1>3, <1>4 DEF FlushStep

\* Every step keeps FramesInv.
LEMMA NextFrames == TypeOK /\ TypeOK' /\ FramesInv /\ [Next]_vars => FramesInv'
<1> SUFFICES ASSUME TypeOK, TypeOK', FramesInv, [Next]_vars PROVE FramesInv'
  OBVIOUS
<1>1. CASE SampleStep
  BY <1>1, SampleFrames, FlushFrames DEF SampleStep, Threads
<1>2. ASSUME NEW c \in Controllers, Start(c) \/ StopBegin(c) \/ StopStep(c)
      PROVE  FramesInv'
  BY <1>2, ControlFrames, FlushFrames DEF StopStep, Threads
<1>3. CASE UNCHANGED vars
  BY <1>3 DEF vars, FramesInv, GOPWellFormed, WellFormed, Fresh, EndsGOP
<1> QED
  BY <1>1, <1>2, <1>3, SampleFrames DEF Next

\* A GOP handed to the writer starts with a key frame, has no other, keeps the
\* order of arrival and never mixes codec parameters, however many goroutines
\* call Start and Stop while ProcessSample runs, and whatever Submit returns.
THEOREM GOPsAreWellFormed == Spec => []GOPWellFormed
<1>1. Init => TypeOK /\ FramesInv
  BY InitType, InitFrames
<1>2. TypeOK /\ FramesInv /\ [Next]_vars => (TypeOK /\ FramesInv)'
  BY NextType, NextFrames
<1>3. FramesInv => GOPWellFormed
  BY DEF FramesInv
<1> QED
  BY <1>1, <1>2, <1>3, PTL DEF Spec

-----------------------------------------------------------------------------
(* A sample is in one place only *)

\* The samples of a GOP have numbers.
LEMMA FrameIds ==
  ASSUME NEW f \in Seq(Samples)
  PROVE  \A i \in 1 .. Len(f) : f[i].id \in Nat
<1>1. \A i \in 1 .. Len(f) : f[i] \in Samples
  OBVIOUS
<1> QED
  BY <1>1, SamplesAssumption DEF Samples

\* The number of the next sample to be stored never falls, and a step that
\* stores the sample in hand ends ProcessSample.
LEMMA FreshGrows ==
  ASSUME TypeOK, TypeOK', FramesInv, Next
  PROVE  /\ Fresh \in Nat /\ Fresh' \in Nat /\ Fresh <= Fresh'
         /\ \/ asm' = asm \/ asm' = <<>>
            \/ asm' = Append(asm, cur) /\ cur \in Samples /\ cur.id = Fresh /\ Fresh < Fresh'
<1> Puller \in Threads
  BY DEF Threads
<1>0. arrived \in Nat /\ arrived' \in Nat
  BY SamplesAssumption DEF TypeOK
<1>1. Fresh \in Nat /\ Fresh' \in Nat
  <2>1. Fresh = arrived \/ Fresh = arrived + 1
    BY DEF Fresh
  <2>2. Fresh' = arrived' \/ Fresh' = arrived' + 1
    BY DEF Fresh
  <2> QED
    BY <1>0, <2>1, <2>2
<1>2. ASSUME NEW key \in BOOLEAN, NEW par \in Params,
             SampleDropped(key, par) \/ SampleTaken(key, par)
      PROVE  Fresh <= Fresh' /\ asm' = asm
  <2>1. pc[Puller] = "idle" /\ arrived' = arrived + 1 /\ asm' = asm
    BY <1>2 DEF SampleDropped, SampleTaken
  <2>2. Fresh = arrived + 1 /\ (Fresh' = arrived' \/ Fresh' = arrived' + 1)
    BY <2>1 DEF Fresh
  <2> QED
    BY <1>0, <2>1, <2>2
<1>3. CASE AddSample \/ AddAgain
  <2>1. pc[Puller] # "idle" /\ arrived' = arrived /\ cur \in Samples /\ cur.id = arrived
    BY <1>3 DEF AddSample, AddAgain, TypeOK, FramesInv
  <2>2. \/ asm' = asm
        \/ asm' = Append(asm, cur) /\ pc'[Puller] = "idle"
    BY <1>3 DEF AddSample, AddAgain, PullerAt, Goto, Appended, TypeOK
  <2> QED
    BY <1>0, <1>1, <2>1, <2>2 DEF Fresh
<1>4. ASSUME NEW t \in Threads, FlushStep(t)
      PROVE  Fresh <= Fresh' /\ (asm' = asm \/ asm' = <<>>)
  <2>1. pc[t] # "idle" /\ arrived' = arrived /\ (asm' = asm \/ asm' = <<>>)
    BY <1>4 DEF FlushStep, FlushTake, FlushSnap, FlushSubmit
  <2>2. t # Puller => pc'[Puller] = pc[Puller]
    BY <1>4 DEF FlushStep, FlushTake, FlushSnap, FlushSubmit, Return, Goto, TypeOK
  <2> QED
    BY <1>0, <2>1, <2>2 DEF Fresh
<1>5. ASSUME NEW c \in Controllers, Start(c) \/ StopBegin(c) \/ StopEnd(c)
      PROVE  Fresh <= Fresh' /\ asm' = asm
  <2>1. c # Puller /\ asm' = asm /\ arrived' = arrived
    BY <1>5, ThreadsAssumption DEF Start, StopBegin, StopEnd
  <2>2. pc'[Puller] = pc[Puller]
    BY <1>5, <2>1 DEF Start, StopBegin, StopEnd, Goto, TypeOK
  <2> QED
    BY <1>0, <2>1, <2>2 DEF Fresh
<1>6. CASE EnterRecording \/ CheckBuilder \/ RebuildBuilder
  <2>1. pc[Puller] # "idle" /\ asm' = asm /\ arrived' = arrived
    BY <1>6 DEF EnterRecording, CheckBuilder, RebuildBuilder
  <2> QED
    BY <1>0, <2>1 DEF Fresh
<1> QED
  BY <1>1, <1>2, <1>3, <1>4, <1>5, <1>6 DEF Next, SampleStep, StopStep, Threads

\* What becomes of the GOPs in a step: nothing, or they move on by one place.
LEMMA GOPsMove ==
  ASSUME TypeOK, TypeOK', Next
  PROVE  \/ UNCHANGED <<gop, jobs>>
         \/ \E t \in Threads : /\ gop[t] = <<>> /\ asm' = <<>> /\ UNCHANGED jobs
                               /\ gop' = [gop EXCEPT ![t] = asm]
         \/ \E t \in Threads : /\ gop' = [gop EXCEPT ![t] = <<>>] /\ asm' = asm
                               /\ \/ UNCHANGED jobs
                                  \/ jobs' = Append(jobs, [meta |-> snap[t], frames |-> gop[t]])
<1>1. ASSUME NEW t \in Threads, FlushTake(t)
      PROVE  \/ UNCHANGED <<gop, jobs>>
             \/ gop[t] = <<>> /\ asm' = <<>> /\ UNCHANGED jobs /\ gop' = [gop EXCEPT ![t] = asm]
  BY <1>1 DEF FlushTake, TypeOK
<1>2. ASSUME NEW t \in Threads, FlushSnap(t)
      PROVE  UNCHANGED <<gop, jobs>>
  BY <1>2 DEF FlushSnap
<1>3. ASSUME NEW t \in Threads, NEW r \in SubmitResults, FlushSubmit(t, r)
      PROVE  /\ gop' = [gop EXCEPT ![t] = <<>>] /\ asm' = asm
             /\ \/ UNCHANGED jobs
                \/ jobs' = Append(jobs, [meta |-> snap[t], frames |-> gop[t]])
  BY <1>3 DEF FlushSubmit
<1>4. ASSUME NEW c \in Controllers, Start(c) \/ StopBegin(c) \/ StopEnd(c)
      PROVE  UNCHANGED <<gop, jobs>>
  BY <1>4 DEF Start, StopBegin, StopEnd, flushVars
<1>5. ASSUME NEW key \in BOOLEAN, NEW par \in Params,
             SampleDropped(key, par) \/ SampleTaken(key, par)
      PROVE  UNCHANGED <<gop, jobs>>
  BY <1>5 DEF SampleDropped, SampleTaken, flushVars
<1>6. CASE EnterRecording \/ CheckBuilder \/ RebuildBuilder \/ AddSample \/ AddAgain
  BY <1>6 DEF EnterRecording, CheckBuilder, RebuildBuilder, AddSample, AddAgain, flushVars
<1>7. ASSUME NEW t \in Threads, FlushStep(t)
      PROVE  \/ UNCHANGED <<gop, jobs>>
             \/ \E u \in Threads : /\ gop[u] = <<>> /\ asm' = <<>> /\ UNCHANGED jobs
                                   /\ gop' = [gop EXCEPT ![u] = asm]
             \/ \E u \in Threads : /\ gop' = [gop EXCEPT ![u] = <<>>] /\ asm' = asm
                                   /\ \/ UNCHANGED jobs
                                      \/ jobs' = Append(jobs, [meta |-> snap[u], frames |-> gop[u]])
  BY <1>1, <1>2, <1>3, <1>7 DEF FlushStep
<1> QED
  BY <1>4, <1>5, <1>6, <1>7 DEF Next, SampleStep, StopStep, Threads

\* Nothing is stored yet.
LEMMA InitIds == Init => IdsInv
  BY DEF Init, IdsInv, Below, Disjoint

\* Every step keeps IdsInv.
LEMMA NextIds ==
  ASSUME TypeOK, TypeOK', FramesInv, IdsInv, Next
  PROVE  IdsInv'
<1>1. /\ Fresh \in Nat /\ Fresh' \in Nat /\ Fresh <= Fresh'
      /\ \/ asm' = asm \/ asm' = <<>>
         \/ asm' = Append(asm, cur) /\ cur \in Samples /\ cur.id = Fresh /\ Fresh < Fresh'
  BY FreshGrows
<1>2. asm \in Seq(Samples) /\ gop \in [Threads -> Seq(Samples)]
      /\ jobs \in Seq([meta : Metas, frames : Seq(Samples)])
  BY DEF TypeOK
<1>3. ASSUME NEW f \in Seq(Samples), Below(f)
      PROVE  \A i \in 1 .. Len(f) : f[i].id < Fresh'
  <2>1. \A i \in 1 .. Len(f) : f[i].id \in Nat
    BY FrameIds
  <2> QED
    BY <1>1, <1>3, <2>1 DEF Below
<1>4. ASSUME NEW f \in Seq(Samples), Below(f), Disjoint(f, asm)
      PROVE  Disjoint(f, asm')
  <2>1. CASE asm' = asm \/ asm' = <<>>
    BY <1>4, <2>1 DEF Disjoint
  <2>2. CASE asm' = Append(asm, cur) /\ cur.id = Fresh
    <3>1. \A i \in 1 .. Len(f) : f[i].id # Fresh
      <4>1. \A i \in 1 .. Len(f) : f[i].id \in Nat
        BY FrameIds
      <4> QED
        BY <1>1, <1>4, <4>1 DEF Below
    <3>2. ASSUME NEW k \in 1 .. Len(asm')
          PROVE  (k \in 1 .. Len(asm) /\ asm'[k] = asm[k]) \/ asm'[k].id = Fresh
      BY <1>2, <2>2
    <3> QED
      BY <1>4, <3>1, <3>2 DEF Disjoint
  <2> QED
    BY <1>1, <2>1, <2>2
<1>5. Below(asm)'
  <2>1. CASE asm' = asm \/ asm' = <<>>
    BY <1>2, <1>3, <2>1 DEF IdsInv, Below
  <2>2. CASE asm' = Append(asm, cur) /\ cur.id = Fresh /\ Fresh < Fresh'
    <3>1. ASSUME NEW k \in 1 .. Len(asm')
          PROVE  (k \in 1 .. Len(asm) /\ asm'[k] = asm[k]) \/ asm'[k].id = Fresh
      BY <1>2, <2>2
    <3> QED
      BY <1>2, <1>3, <2>2, <3>1 DEF IdsInv, Below
  <2> QED
    BY <1>1, <2>1, <2>2
<1>6. \A i \in 1 .. Len(jobs) : jobs[i].frames \in Seq(Samples)
  <2> DEFINE Jobs == [meta : Metas, frames : Seq(Samples)]
  <2>1. \A job \in Jobs : job.frames \in Seq(Samples)
    OBVIOUS
  <2>2. jobs \in Seq(Jobs)
    BY <1>2
  <2> HIDE DEF Jobs
  <2>3. \A i \in 1 .. Len(jobs) : jobs[i] \in Jobs
    BY <2>2
  <2> QED
    BY <2>1, <2>3
<1>7. CASE UNCHANGED <<gop, jobs>>
  <2>1. \A t \in Threads : Below(gop[t])' /\ Disjoint(gop[t], asm')
    BY <1>2, <1>3, <1>4, <1>7 DEF IdsInv, Below
  <2>2. \A i \in 1 .. Len(jobs) : Below(jobs[i].frames)' /\ Disjoint(jobs[i].frames, asm')
    BY <1>3, <1>4, <1>6, <1>7 DEF IdsInv, Below
  <2> QED
    BY <1>5, <1>7, <2>1, <2>2 DEF IdsInv, Disjoint, Below
<1>8. ASSUME NEW t \in Threads, gop[t] = <<>>, asm' = <<>>, UNCHANGED jobs,
             gop' = [gop EXCEPT ![t] = asm]
      PROVE  IdsInv'
  <2>1. ASSUME NEW u \in Threads
        PROVE  gop'[u] = IF u = t THEN asm ELSE gop[u]
    BY <1>2, <1>8
  <2>2. ASSUME NEW u \in Threads
        PROVE  \A i \in 1 .. Len(gop'[u]) : gop'[u][i].id < Fresh'
    BY <1>2, <1>3, <2>1 DEF IdsInv
  <2>3. ASSUME NEW i \in 1 .. Len(jobs)
        PROVE  \A k \in 1 .. Len(jobs[i].frames) : jobs[i].frames[k].id < Fresh'
    BY <1>3, <1>6 DEF IdsInv
  <2>4. ASSUME NEW u \in Threads, NEW v \in Threads, u # v
        PROVE  Disjoint(gop'[u], gop'[v])
    BY <2>1, <2>4 DEF IdsInv, Disjoint
  <2>5. ASSUME NEW i \in 1 .. Len(jobs), NEW u \in Threads
        PROVE  Disjoint(jobs[i].frames, gop'[u])
    <3>1. Disjoint(jobs[i].frames, gop[u]) /\ Disjoint(jobs[i].frames, asm)
      BY DEF IdsInv
    <3> QED
      BY <2>1, <3>1
  <2>6. \A f : Disjoint(f, asm')
    BY <1>8 DEF Disjoint
  <2>7. \A u \in Threads : Below(gop[u])' /\ Disjoint(gop[u], asm)'
    BY <2>2, <2>6 DEF Below, Disjoint
  <2>8. \A i \in 1 .. Len(jobs') : Below(jobs[i].frames)' /\ Disjoint(jobs[i].frames, asm)'
    BY <1>8, <2>3, <2>6 DEF Below, Disjoint
  <2>9. \A u, v \in Threads : u # v => Disjoint(gop[u], gop[v])'
    BY <2>4 DEF Disjoint
  <2>10. \A i \in 1 .. Len(jobs'), u \in Threads : Disjoint(jobs[i].frames, gop[u])'
    BY <1>8, <2>5 DEF Disjoint
  <2>11. \A i, k \in 1 .. Len(jobs') : i # k => Disjoint(jobs[i].frames, jobs[k].frames)'
    <3>1. \A i, k \in 1 .. Len(jobs) : i # k => Disjoint(jobs[i].frames, jobs[k].frames)
      BY DEF IdsInv
    <3> QED
      BY <1>8, <3>1 DEF Disjoint
  <2> QED
    BY <1>5, <2>7, <2>8, <2>9, <2>10, <2>11 DEF IdsInv
<1>9. ASSUME NEW t \in Threads, gop' = [gop EXCEPT ![t] = <<>>], asm' = asm,
             UNCHANGED jobs \/ jobs' = Append(jobs, [meta |-> snap[t], frames |-> gop[t]])
      PROVE  IdsInv'
  <2>1. ASSUME NEW u \in Threads
        PROVE  gop'[u] = IF u = t THEN <<>> ELSE gop[u]
    BY <1>2, <1>9
  <2>2. ASSUME NEW i \in 1 .. Len(jobs')
        PROVE  \/ i \in 1 .. Len(jobs) /\ jobs'[i].frames = jobs[i].frames
               \/ i = Len(jobs) + 1 /\ jobs'[i].frames = gop[t]
    <3>1. CASE jobs' = jobs
      BY <3>1
    <3>2. CASE jobs' = Append(jobs, [meta |-> snap[t], frames |-> gop[t]])
      BY <1>2, <3>2
    <3> QED
      BY <1>9, <3>1, <3>2
  <2>3. ASSUME NEW u \in Threads
        PROVE  (\A i \in 1 .. Len(gop'[u]) : gop'[u][i].id < Fresh') /\ Disjoint(gop'[u], asm)
    BY <1>2, <1>3, <2>1 DEF IdsInv, Disjoint
  <2>4. ASSUME NEW i \in 1 .. Len(jobs')
        PROVE  /\ \A k \in 1 .. Len(jobs'[i].frames) : jobs'[i].frames[k].id < Fresh'
               /\ Disjoint(jobs'[i].frames, asm)
    BY <1>2, <1>3, <1>6, <2>2 DEF IdsInv
  <2>5. ASSUME NEW u \in Threads, NEW v \in Threads, u # v
        PROVE  Disjoint(gop'[u], gop'[v])
    BY <2>1, <2>5 DEF IdsInv, Disjoint
  <2>6. ASSUME NEW i \in 1 .. Len(jobs'), NEW u \in Threads
        PROVE  Disjoint(jobs'[i].frames, gop'[u])
    <3>1. CASE u = t
      BY <2>1, <3>1 DEF Disjoint
    <3>2. CASE u # t /\ i \in 1 .. Len(jobs) /\ jobs'[i].frames = jobs[i].frames
      BY <2>1, <3>2 DEF IdsInv
    <3>3. CASE u # t /\ jobs'[i].frames = gop[t]
      BY <2>1, <3>3 DEF IdsInv
    <3> QED
      BY <2>2, <3>1, <3>2, <3>3
  <2>7. ASSUME NEW i \in 1 .. Len(jobs'), NEW k \in 1 .. Len(jobs'), i # k
        PROVE  Disjoint(jobs'[i].frames, jobs'[k].frames)
    <3>1. ASSUME NEW f, NEW g, Disjoint(f, g) PROVE Disjoint(g, f)
      BY <3>1 DEF Disjoint
    <3>2. CASE i \in 1 .. Len(jobs) /\ jobs'[i].frames = jobs[i].frames
      BY <2>2, <2>7, <3>2 DEF IdsInv
    <3>3. CASE i = Len(jobs) + 1 /\ jobs'[i].frames = gop[t]
      <4>1. k \in 1 .. Len(jobs) /\ jobs'[k].frames = jobs[k].frames
        BY <2>2, <2>7, <3>3
      <4>2. Disjoint(jobs[k].frames, gop[t])
        BY <4>1 DEF IdsInv
      <4> QED
        BY <3>1, <3>3, <4>1, <4>2
    <3> QED
      BY <2>2, <3>2, <3>3
  <2>8. \A u \in Threads : Below(gop[u])' /\ Disjoint(gop[u], asm)'
    BY <1>9, <2>3 DEF Below, Disjoint
  <2>9. \A i \in 1 .. Len(jobs') : Below(jobs[i].frames)' /\ Disjoint(jobs[i].frames, asm)'
    BY <1>9, <2>4 DEF Below, Disjoint
  <2>10. \A u, v \in Threads : u # v => Disjoint(gop[u], gop[v])'
    BY <2>5 DEF Disjoint
  <2>11. \A i \in 1 .. Len(jobs'), u \in Threads : Disjoint(jobs[i].frames, gop[u])'
    BY <2>6 DEF Disjoint
  <2>12. \A i, k \in 1 .. Len(jobs') : i # k => Disjoint(jobs[i].frames, jobs[k].frames)'
    BY <2>7 DEF Disjoint
  <2> QED
    BY <1>5, <2>8, <2>9, <2>10, <2>11, <2>12 DEF IdsInv
<1> QED
  BY <1>7, <1>8, <1>9, GOPsMove

-----------------------------------------------------------------------------
(* Sequence numbers and init segments *)

\* No init segment is older than the sample it was made for, and while the
\* puller is about to rebuild, the one in use is older than the sample in hand.
LEMMA NextPath ==
  ASSUME TypeOK, TypeOK', FramesInv, PathInv, Next
  PROVE  PathInv'
<1> Puller \in Threads
  BY DEF Threads
<1>0. arrived \in Nat /\ (initPath # None => initPath.id \in Nat)
  BY SamplesAssumption DEF TypeOK, InitPaths
<1>1. ASSUME NEW key \in BOOLEAN, NEW par \in Params,
             SampleDropped(key, par) \/ SampleTaken(key, par)
      PROVE  PathInv'
  <2>1. arrived' = arrived + 1 /\ initPath' = initPath
    BY <1>1 DEF SampleDropped, SampleTaken, recorderVars
  <2> QED
    BY <1>0, <2>1 DEF PathInv
<1>2. CASE RebuildBuilder
  <2>1. cur.id = arrived /\ arrived' = arrived /\ pc[Puller] = "rebuild"
    BY <1>2 DEF RebuildBuilder, FramesInv
  <2>2. /\ pc'[Puller] \in {"idle", "add"}
        /\ initPath' = initPath \/ initPath' = [par |-> cur.par, id |-> cur.id]
    BY <1>2 DEF RebuildBuilder, PullerAt, Goto, TypeOK
  <2>3. ~BeforeRebuild'
    BY <2>2 DEF BeforeRebuild
  <2>4. initPath' # None => initPath'.id <= arrived
    BY <1>0, <2>1, <2>2 DEF PathInv
  <2> QED
    BY <2>1, <2>3, <2>4 DEF PathInv
<1>3. CASE EnterRecording \/ CheckBuilder \/ AddSample \/ AddAgain
  <2>1. arrived' = arrived /\ initPath' = initPath
    BY <1>3 DEF EnterRecording, CheckBuilder, AddSample, AddAgain, recorderVars
  <2>2. BeforeRebuild' => BeforeRebuild
    BY <1>3 DEF EnterRecording, CheckBuilder, AddSample, AddAgain, PullerAt, Goto, BeforeRebuild, TypeOK
  <2> QED
    BY <2>1, <2>2 DEF PathInv
<1>4. ASSUME NEW t \in Threads, FlushStep(t)
      PROVE  PathInv'
  <2>1. arrived' = arrived /\ initPath' = initPath /\ why' = why
    BY <1>4 DEF FlushStep, FlushTake, FlushSnap, FlushSubmit, recorderVars
  <2>2. CASE t # Puller
    <3>1. pc'[Puller] = pc[Puller]
      BY <1>4, <2>2 DEF FlushStep, FlushTake, FlushSnap, FlushSubmit, Return, Goto, TypeOK
    <3> QED
      BY <2>1, <3>1 DEF PathInv, BeforeRebuild
  <2>3. CASE t = Puller
    <3>1. pc[Puller] \in {"flush", "snap", "submit"}
      BY <1>4, <2>3 DEF FlushStep, FlushTake, FlushSnap, FlushSubmit
    <3>2. \/ pc'[Puller] \in {"snap", "submit"}
          \/ \E r : Return(Puller, r)
      BY <1>4, <2>3 DEF FlushStep, FlushTake, FlushSnap, FlushSubmit, Goto, TypeOK
    <3>3. ASSUME NEW r, Return(Puller, r)
          PROVE  pc'[Puller] \in {"idle", "add_again"} \/ why = "rebuild"
      <4>1. /\ pc' = [pc EXCEPT ![Puller] = Resume(Puller, r)]
            /\ Resume(Puller, r) \in {"idle", "rebuild", "add_again"}
            /\ Resume(Puller, r) = "rebuild" => why = "rebuild"
        BY <3>3, ReturnStep
      <4> QED
        BY <4>1 DEF TypeOK
    <3>4. BeforeRebuild' => why = "rebuild"
      BY <2>1, <3>2, <3>3 DEF BeforeRebuild
    <3> QED
      BY <2>1, <3>1, <3>4 DEF PathInv, BeforeRebuild
  <2> QED
    BY <2>2, <2>3
<1>5. ASSUME NEW c \in Controllers, Start(c) \/ StopBegin(c) \/ StopEnd(c)
      PROVE  PathInv'
  <2>1. c # Puller /\ initPath' = initPath /\ arrived' = arrived /\ why' = why
    BY <1>5, ThreadsAssumption DEF Start, StopBegin, StopEnd, recorderVars
  <2>2. pc'[Puller] = pc[Puller]
    BY <1>5, <2>1 DEF Start, StopBegin, StopEnd, Goto, TypeOK
  <2> QED
    BY <2>1, <2>2 DEF PathInv, BeforeRebuild
<1> QED
  BY <1>1, <1>2, <1>3, <1>4, <1>5 DEF Next, SampleStep, StopStep, Threads

\* What FlushGOP copies now is apart from everything that was copied before.
LEMMA NewMetaApart ==
  ASSUME TypeOK, NEW m \in Metas, Older(m),
         NEW n, n = [seq |-> sequence, builder |-> builder, codec |-> params,
                     init |-> initPath, carries |-> initData]
  PROVE  Apart(m, n) /\ Apart(n, m)
<1>1. m.seq \in Nat /\ sequence \in Nat /\ m.seq < sequence
  BY DEF TypeOK, Metas, Older
<1>2. n.seq = sequence /\ n.init = initPath /\ n.carries = initData
  OBVIOUS
<1>3. m.seq # n.seq /\ m.seq < n.seq
  BY <1>1, <1>2
<1>4. m.init = n.init => ~n.carries
  BY <1>2 DEF Older
<1> QED
  BY <1>3, <1>4 DEF Apart, Carries

\* The metadata of every job and of every submission under way is typed.
LEMMA MetaTypes ==
  ASSUME TypeOK
  PROVE  /\ \A i \in 1 .. Len(jobs) : jobs[i].meta \in Metas
         /\ \A t \in Threads : pc[t] = "submit" => snap[t] \in Metas
<1> DEFINE Jobs == [meta : Metas, frames : Seq(Samples)]
<1>1. \A job \in Jobs : job.meta \in Metas
  OBVIOUS
<1>2. jobs \in Seq(Jobs)
  BY DEF TypeOK
<1>3. \A t \in Threads : pc[t] = "submit" => snap[t] \in Metas
  BY DEF TypeOK
<1> HIDE DEF Jobs
<1>4. \A i \in 1 .. Len(jobs) : jobs[i] \in Jobs
  BY <1>2
<1> QED
  BY <1>1, <1>3, <1>4

\* FlushSnap keeps MetasInv.
LEMMA SnapMetas ==
  ASSUME TypeOK, TypeOK', MetasInv, NEW t \in Threads, FlushSnap(t)
  PROVE  MetasInv'
<1>0. PICK m : m = [seq |-> sequence, builder |-> builder, codec |-> params,
                    init |-> initPath, carries |-> initData]
  OBVIOUS
<1>1. /\ snap' = [snap EXCEPT ![t] = m] /\ pc' = [pc EXCEPT ![t] = "submit"] /\ pc[t] = "snap"
      /\ sequence' = sequence + 1 /\ initData' = FALSE /\ UNCHANGED <<initPath, jobs>>
  BY <1>0 DEF FlushSnap, Goto
<1>2. m.seq = sequence /\ m.init = initPath /\ sequence \in Nat
  BY <1>0 DEF TypeOK
<1>3. \A n \in Metas : Older(n) => Apart(n, m) /\ Apart(m, n)
  BY <1>0, NewMetaApart
<1>4. ASSUME NEW u \in Threads
      PROVE  /\ u # t => snap'[u] = snap[u] /\ pc'[u] = pc[u]
             /\ u = t => snap'[u] = m
  BY <1>1 DEF TypeOK
<1>5. ASSUME NEW n \in Metas, Older(n)
      PROVE  Older(n)'
  <2>1. n.seq \in Nat
    BY DEF Metas
  <2> QED
    BY <1>1, <1>2, <1>5, <2>1 DEF Older
<1>6. Older(m)'
  <2>1. initPath # None => initPath.id \in Nat
    BY SamplesAssumption DEF TypeOK, InitPaths
  <2>2. m.seq < sequence'
    BY <1>1, <1>2
  <2> QED
    BY <1>1, <1>2, <2>1, <2>2 DEF Older
<1>7. ASSUME NEW i \in 1 .. Len(jobs')
      PROVE  Older(jobs[i].meta)' /\ jobs'[i] = jobs[i] /\ i \in 1 .. Len(jobs)
  BY <1>1, <1>5, MetaTypes DEF MetasInv
<1>8. ASSUME NEW u \in Threads, pc'[u] = "submit"
      PROVE  Older(snap[u])'
  <2>1. CASE u = t
    BY <1>4, <1>6, <2>1 DEF Older
  <2>2. CASE u # t
    BY <1>4, <1>5, <1>8, <2>2, MetaTypes DEF MetasInv, Older
  <2> QED
    BY <2>1, <2>2
<1>9. ASSUME NEW i \in 1 .. Len(jobs), NEW u \in Threads, pc'[u] = "submit"
      PROVE  Apart(jobs[i].meta, snap'[u])
  BY <1>3, <1>4, <1>9, MetaTypes DEF MetasInv
<1>10. ASSUME NEW u \in Threads, NEW v \in Threads, u # v, pc'[u] = "submit", pc'[v] = "submit"
       PROVE  Apart(snap'[u], snap'[v])
  BY <1>3, <1>4, <1>10, MetaTypes DEF MetasInv
<1> QED
  BY <1>1, <1>7, <1>8, <1>9, <1>10 DEF MetasInv, Older, Apart, Carries

\* FlushSubmit keeps MetasInv: a copy becomes the metadata of a job.
LEMMA SubmitMetas ==
  ASSUME TypeOK, TypeOK', MetasInv, NEW t \in Threads, NEW r \in SubmitResults, FlushSubmit(t, r)
  PROVE  MetasInv'
<1>1. /\ snap' = [snap EXCEPT ![t] = None] /\ pc' = [pc EXCEPT ![t] = Resume(t, r)]
      /\ Resume(t, r) # "submit" /\ pc[t] = "submit"
      /\ UNCHANGED <<sequence, initData, initPath>>
  BY ReturnStep DEF FlushSubmit, recorderVars
<1>2. jobs' = jobs \/ jobs' = Append(jobs, [meta |-> snap[t], frames |-> gop[t]])
  BY DEF FlushSubmit
<1>3. ASSUME NEW u \in Threads, pc'[u] = "submit"
      PROVE  u # t /\ pc[u] = "submit" /\ snap'[u] = snap[u]
  BY <1>1, <1>3 DEF TypeOK
<1>4. ASSUME NEW i \in 1 .. Len(jobs')
      PROVE  \/ i \in 1 .. Len(jobs) /\ jobs'[i].meta = jobs[i].meta
             \/ i = Len(jobs) + 1 /\ jobs'[i].meta = snap[t]
  <2>1. CASE jobs' = jobs
    BY <2>1
  <2>2. CASE jobs' = Append(jobs, [meta |-> snap[t], frames |-> gop[t]])
    <3>1. jobs \in Seq([meta : Metas, frames : Seq(Samples)])
      BY DEF TypeOK
    <3> QED
      BY <2>2, <3>1
  <2> QED
    BY <1>2, <2>1, <2>2
<1>5. ASSUME NEW n, Older(n) PROVE Older(n)'
  BY <1>1, <1>5 DEF Older
<1>6. ASSUME NEW i \in 1 .. Len(jobs') PROVE Older(jobs[i].meta)'
  BY <1>1, <1>4, <1>5 DEF MetasInv, Older
<1>7. ASSUME NEW u \in Threads, pc'[u] = "submit" PROVE Older(snap[u])'
  BY <1>1, <1>3, <1>7 DEF MetasInv, Older
<1>8. ASSUME NEW m, NEW n, Apart(m, n) PROVE Apart(n, m)
  BY <1>8 DEF Apart
<1>9. ASSUME NEW i \in 1 .. Len(jobs'), NEW u \in Threads, pc'[u] = "submit"
      PROVE  Apart(jobs'[i].meta, snap'[u])
  BY <1>1, <1>3, <1>4, <1>9 DEF MetasInv
<1>10. ASSUME NEW u \in Threads, NEW v \in Threads, u # v, pc'[u] = "submit", pc'[v] = "submit"
       PROVE  Apart(snap'[u], snap'[v])
  BY <1>3, <1>10 DEF MetasInv
<1>11. ASSUME NEW i \in 1 .. Len(jobs'), NEW k \in 1 .. Len(jobs'), i # k
       PROVE  Apart(jobs'[i].meta, jobs'[k].meta)
  <2>1. CASE i \in 1 .. Len(jobs) /\ jobs'[i].meta = jobs[i].meta
    BY <1>1, <1>4, <1>11, <2>1 DEF MetasInv
  <2>2. CASE i = Len(jobs) + 1 /\ jobs'[i].meta = snap[t]
    <3>1. k \in 1 .. Len(jobs) /\ jobs'[k].meta = jobs[k].meta
      BY <1>4, <1>11, <2>2
    <3> QED
      BY <1>1, <1>8, <2>2, <3>1 DEF MetasInv
  <2> QED
    BY <1>4, <2>1, <2>2
<1> QED
  BY <1>6, <1>7, <1>9, <1>10, <1>11 DEF MetasInv, Older, Apart, Carries

\* A rebuild announces an init segment that nothing refers to yet.
LEMMA RebuildMetas ==
  ASSUME TypeOK, TypeOK', FramesInv, PathInv, MetasInv, RebuildBuilder
  PROVE  MetasInv'
<1> Puller \in Threads
  BY DEF Threads
<1>1. /\ UNCHANGED <<jobs, snap, sequence>> /\ pc[Puller] = "rebuild" /\ cur.id = arrived
      /\ \A t \in Threads : pc'[t] = "submit" => pc[t] = "submit"
  BY DEF RebuildBuilder, PullerAt, Goto, FramesInv, TypeOK, flushVars
<1>2. ASSUME NEW m \in Metas, Older(m)
      PROVE  Older(m)'
  <2>1. CASE UNCHANGED <<initPath, initData>>
    BY <1>1, <1>2, <2>1 DEF Older
  <2>2. CASE initPath' = [par |-> cur.par, id |-> cur.id]
    <3>1. initPath' # None /\ initPath'.id = arrived /\ arrived \in Nat
      <4>1. cur \in Samples
        BY <1>1 DEF TypeOK
      <4>2. [par |-> cur.par, id |-> cur.id] \in InitPaths
        BY <4>1 DEF Samples, InitPaths
      <4> QED
        BY <1>1, <2>2, <4>2, NoneAssumption, SamplesAssumption DEF TypeOK
    <3>2. ASSUME m.init # None
          PROVE  m.init.id < arrived
      <4>1. initPath # None /\ m.init.id <= initPath.id
        BY <1>2, <3>2 DEF Older
      <4>2. initPath.id < arrived
        BY <1>1, <4>1 DEF PathInv, BeforeRebuild
      <4>3. m.init \in InitPaths /\ initPath \in InitPaths
        BY <3>2, <4>1 DEF Metas, TypeOK
      <4>4. m.init.id \in Nat /\ initPath.id \in Nat
        BY <4>3, SamplesAssumption DEF InitPaths
      <4> QED
        BY <3>1, <4>1, <4>2, <4>4
    <3>3. m.init # initPath'
      BY <3>1, <3>2
    <3>4. m.init # None => m.init.id <= initPath'.id
      <4>1. m.init # None => m.init \in InitPaths
        BY DEF Metas
      <4>2. m.init # None => m.init.id \in Nat
        BY <4>1, SamplesAssumption DEF InitPaths
      <4> QED
        BY <3>1, <3>2, <4>2
    <3> QED
      BY <1>1, <1>2, <3>1, <3>3, <3>4 DEF Older
  <2> QED
    BY <2>1, <2>2 DEF RebuildBuilder
<1> QED
  BY <1>1, <1>2, MetaTypes DEF MetasInv, Older, Apart, Carries

\* A step that touches neither copies nor init segments keeps MetasInv.
LEMMA OtherMetas ==
  ASSUME MetasInv, UNCHANGED <<jobs, snap, sequence, initPath, initData>>,
         \A t \in Threads : pc'[t] = "submit" => pc[t] = "submit"
  PROVE  MetasInv'
  BY DEF MetasInv, Older, Apart, Carries

\* Every step keeps MetasInv.
LEMMA NextMetas ==
  ASSUME TypeOK, TypeOK', FramesInv, PathInv, MetasInv, Next
  PROVE  MetasInv'
<1> Puller \in Threads
  BY DEF Threads
<1>1. ASSUME NEW key \in BOOLEAN, NEW par \in Params,
             SampleDropped(key, par) \/ SampleTaken(key, par)
      PROVE  MetasInv'
  <2>1. UNCHANGED <<jobs, snap, sequence, initPath, initData>>
    BY <1>1 DEF SampleDropped, SampleTaken, recorderVars, flushVars
  <2>2. \A t \in Threads : pc'[t] = "submit" => pc[t] = "submit"
    BY <1>1 DEF SampleDropped, SampleTaken, Goto, TypeOK
  <2> QED
    BY <2>1, <2>2, OtherMetas
<1>2. CASE EnterRecording \/ CheckBuilder \/ AddSample \/ AddAgain
  <2>1. UNCHANGED <<jobs, snap, sequence, initPath, initData>>
    BY <1>2 DEF EnterRecording, CheckBuilder, AddSample, AddAgain, recorderVars, flushVars
  <2>2. \A t \in Threads : pc'[t] = "submit" => pc[t] = "submit"
    BY <1>2 DEF EnterRecording, CheckBuilder, AddSample, AddAgain, PullerAt, Goto, TypeOK
  <2> QED
    BY <2>1, <2>2, OtherMetas
<1>3. ASSUME NEW t \in Threads, FlushStep(t)
      PROVE  MetasInv'
  <2>1. CASE FlushTake(t)
    <3>1. UNCHANGED <<jobs, snap, sequence, initPath, initData>>
      BY <2>1 DEF FlushTake, recorderVars
    <3>2. \E label \in Labels \ {"submit"} : pc' = [pc EXCEPT ![t] = label]
      <4>1. CASE asm = <<>>
        BY <2>1, <4>1, ReturnStep DEF FlushTake
      <4>2. CASE asm # <<>>
        BY <2>1, <4>2 DEF FlushTake, Goto, Labels
      <4> QED
        BY <4>1, <4>2
    <3>3. \A u \in Threads : pc'[u] = "submit" => pc[u] = "submit"
      BY <3>2 DEF TypeOK
    <3> QED
      BY <3>1, <3>3, OtherMetas
  <2> QED
    BY <1>3, <2>1, SnapMetas, SubmitMetas DEF FlushStep
<1>4. ASSUME NEW c \in Controllers, Start(c) \/ StopBegin(c) \/ StopEnd(c)
      PROVE  MetasInv'
  <2>1. UNCHANGED <<jobs, snap, sequence, initPath, initData>>
    BY <1>4 DEF Start, StopBegin, StopEnd, recorderVars, flushVars
  <2>2. \A t \in Threads : pc'[t] = "submit" => pc[t] = "submit"
    BY <1>4 DEF Start, StopBegin, StopEnd, Goto, TypeOK
  <2> QED
    BY <2>1, <2>2, OtherMetas
<1> QED
  BY <1>1, <1>2, <1>3, <1>4, RebuildMetas DEF Next, SampleStep, StopStep, Threads

\* The inductive invariant that both theorems below use.
JobsInv == TypeOK /\ FramesInv /\ IdsInv /\ PathInv /\ MetasInv

\* It holds initially and every step keeps it.
LEMMA JobsInvariant == Spec => []JobsInv
<1>1. Init => JobsInv
  <2> SUFFICES ASSUME Init PROVE PathInv /\ MetasInv
    BY InitType, InitFrames, InitIds DEF JobsInv
  <2>1. /\ Len(jobs) = 0 /\ initPath = None
        /\ \A t \in Threads : pc[t] # "submit"
    BY DEF Init
  <2> QED
    BY <2>1 DEF PathInv, MetasInv
<1>2. JobsInv /\ [Next]_vars => JobsInv'
  <2> SUFFICES ASSUME JobsInv, [Next]_vars PROVE JobsInv'
    OBVIOUS
  <2>1. TypeOK' /\ FramesInv'
    BY NextType, NextFrames DEF JobsInv
  <2>2. CASE Next
    BY <2>1, <2>2, NextIds, NextPath, NextMetas DEF JobsInv
  <2>3. CASE UNCHANGED vars
    <3>1. IdsInv'
      BY <2>3 DEF JobsInv, IdsInv, Below, Disjoint, Fresh, vars
    <3>2. PathInv'
      BY <2>3 DEF JobsInv, PathInv, BeforeRebuild, vars
    <3>3. MetasInv'
      BY <2>3, OtherMetas DEF JobsInv, vars
    <3> QED
      BY <2>1, <3>1, <3>2, <3>3 DEF JobsInv
  <2> QED
    BY <2>2, <2>3
<1> QED
  BY <1>1, <1>2, PTL DEF Spec

\* The flush of ProcessSample and those of any number of Stops never hand over
\* the same frame twice, and no two jobs get the same sequence number, so that
\* their object keys differ.
THEOREM JobsAreDistinct == Spec => []JobsDistinct
<1>1. JobsInv => JobsDistinct
  <2> SUFFICES ASSUME JobsInv PROVE JobsDistinct
    OBVIOUS
  <2>1. ASSUME NEW f, NEW g, Disjoint(f, g)
        PROVE  Ids(f) \cap Ids(g) = {}
    BY <2>1 DEF Disjoint, Ids
  <2>2. ASSUME NEW i \in 1 .. Len(jobs), NEW k \in 1 .. Len(jobs), i # k
        PROVE  /\ jobs[i].meta.seq # jobs[k].meta.seq
               /\ Ids(jobs[i].frames) \cap Ids(jobs[k].frames) = {}
    BY <2>1, <2>2 DEF JobsInv, IdsInv, MetasInv, Apart
  <2>3. ASSUME NEW i \in 1 .. Len(jobs), NEW t \in Threads
        PROVE  Ids(jobs[i].frames) \cap (Ids(gop[t]) \cup Ids(asm)) = {}
    <3>1. /\ Ids(jobs[i].frames) \cap Ids(gop[t]) = {}
          /\ Ids(jobs[i].frames) \cap Ids(asm) = {}
      BY <2>1 DEF JobsInv, IdsInv
    <3> QED
      BY <3>1
  <2> QED
    BY <2>2, <2>3 DEF JobsDistinct
<1> QED
  BY <1>1, JobsInvariant, PTL

\* An init segment travels with one job only, the first in sequence order of
\* those that refer to it, although two goroutines may copy s.initData.
THEOREM InitTravelsOnce == Spec => []InitCarriedOnce
<1>1. JobsInv => InitCarriedOnce
  BY DEF JobsInv, MetasInv, Apart, Carries, InitCarriedOnce
<1> QED
  BY <1>1, JobsInvariant, PTL

=============================================================================
