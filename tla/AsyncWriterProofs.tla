------------------------- MODULE AsyncWriterProofs --------------------------
(***************************************************************************)
(* What holds of the asynchronous writer for any number of submitters,     *)
(* workers and jobs, any queue and batch size, any strategy and any        *)
(* results of the storage backend and the index.                           *)
(***************************************************************************)
EXTENDS AsyncWriterRefinement, FiniteSetTheorems, WellFoundedInduction, TLAPS

Active == {"collect", "put_init", "put_gop", "index"}

\* A worker's batch is empty exactly between two batches, and pos points into
\* it while its jobs are put or released.
BatchShape ==
  \A w \in Workers :
    /\ wpc[w] \in {"recv", "exited"} => batch[w] = <<>> /\ pos[w] = 0
    /\ wpc[w] = "collect" => batch[w] # <<>> /\ pos[w] = 0
    /\ wpc[w] \in {"put_init", "put_gop", "index", "release"} =>
         pos[w] \in 1 .. Len(batch[w])

Persisted(j) == j \in stored /\ (j \in WithInit => InitKey[j] \in stored)

\* The jobs worker w has gone past are persisted, before it writes the index.
PrefixPersisted(w) ==
  /\ wpc[w] \in {"put_init", "put_gop", "index"} =>
       \A i \in 1 .. (pos[w] - 1) : Persisted(batch[w][i])
  /\ wpc[w] = "put_gop" =>
       (batch[w][pos[w]] \in WithInit => InitKey[batch[w][pos[w]]] \in stored)
  /\ wpc[w] = "index" => pos[w] = Len(batch[w]) /\ Persisted(batch[w][pos[w]])

\* The inductive invariant behind IndexedOnlyIfStored.
StoreInv == IndexedOnlyIfStored /\ \A w \in Workers : PrefixPersisted(w)

\* A job the channel accepted is in the channel, or in the batch of a worker
\* that has not decided it yet.
Pending(j) ==
  j \in Range(queue) \/ \E w \in Workers : wpc[w] \in Active /\ j \in Range(batch[w])

\* The inductive invariant behind CloseDrains.
DrainInv ==
  /\ \A j \in Jobs : fate[j] = "queued" => Pending(j)
  /\ \A w \in Workers : wpc[w] = "exited" => closed /\ queue = <<>>
  /\ cpc = "returned" => \A w \in Workers : wpc[w] = "exited"

-----------------------------------------------------------------------------
\* What Append does to the elements of a channel or a batch.
LEMMA RangeAppend ==
  ASSUME NEW S, NEW seq \in Seq(S), NEW e \in S
  PROVE  Range(Append(seq, e)) = Range(seq) \cup {e}
<1> DEFINE app == Append(seq, e)
<1>1. /\ app \in Seq(S) /\ Len(app) = Len(seq) + 1
      /\ \A i \in 1 .. Len(seq) : app[i] = seq[i]
      /\ app[Len(seq) + 1] = e
  OBVIOUS
<1>2. DOMAIN app = 1 .. (Len(seq) + 1) /\ DOMAIN seq = 1 .. Len(seq)
  BY <1>1
<1>3. 1 .. (Len(seq) + 1) = 1 .. Len(seq) \cup {Len(seq) + 1}
  OBVIOUS
<1> HIDE DEF app
<1> QED BY <1>1, <1>2, <1>3 DEF Range, app

\* Receiving takes exactly the head out of the channel's elements.
LEMMA RangeHeadTail ==
  ASSUME NEW S, NEW seq \in Seq(S), seq # <<>>
  PROVE  /\ Head(seq) \in S /\ Tail(seq) \in Seq(S)
         /\ Len(Tail(seq)) = Len(seq) - 1
         /\ Range(seq) = {Head(seq)} \cup Range(Tail(seq))
<1>1. Head(seq) \in S /\ Tail(seq) \in Seq(S) /\ Len(Tail(seq)) = Len(seq) - 1
  OBVIOUS
<1>2. ASSUME NEW x \in Range(seq) PROVE x \in {Head(seq)} \cup Range(Tail(seq))
  <2>1. PICK i \in 1 .. Len(seq) : x = seq[i]
    BY DEF Range
  <2>2. CASE i = 1
    BY <2>1, <2>2
  <2>3. CASE i # 1
    <3>1. i - 1 \in 1 .. Len(Tail(seq)) /\ Tail(seq)[i - 1] = seq[i]
      BY <1>1, <2>1, <2>3
    <3>2. i - 1 \in DOMAIN Tail(seq) /\ x = Tail(seq)[i - 1]
      BY <3>1, <2>1, <1>1
    <3> QED BY <3>2 DEF Range
  <2> QED BY <2>2, <2>3
<1>3. ASSUME NEW x \in {Head(seq)} \cup Range(Tail(seq)) PROVE x \in Range(seq)
  <2>1. CASE x = Head(seq)
    <3>1. 1 \in DOMAIN seq /\ x = seq[1]
      BY <2>1
    <3> QED BY <3>1 DEF Range
  <2>2. CASE x \in Range(Tail(seq))
    <3>1. PICK i \in 1 .. Len(Tail(seq)) : x = Tail(seq)[i]
      BY <2>2, <1>1 DEF Range
    <3>2. i + 1 \in 1 .. Len(seq) /\ Tail(seq)[i] = seq[i + 1]
      BY <1>1, <3>1
    <3> QED BY <3>1, <3>2 DEF Range
  <2> QED BY <1>3, <2>1, <2>2
<1> QED BY <1>1, <1>2, <1>3

-----------------------------------------------------------------------------
(* The type invariant *)

ShapeInv == TypeOK /\ BatchShape

\* Counting keeps the counters natural numbers.
LEMMA CountType ==
  ASSUME stats \in Counters, NEW n \in Nat,
         NEW field \in {"submitted", "failed", "dropped"}, Count(field, n)
  PROVE  stats' \in Counters
<1>1. CASE field = "submitted"
  BY <1>1 DEF Count, Counters
<1>2. CASE field = "failed"
  BY <1>2 DEF Count, Counters
<1>3. CASE field = "dropped"
  BY <1>3 DEF Count, Counters
<1> QED BY <1>1, <1>2, <1>3

\* Leaving Submit keeps the submitters' types.
LEMMA LeaveType ==
  ASSUME SubmittersOK, fate \in [Jobs -> Fates], NEW s \in Submitters,
         NEW pc \in {"idle", "panicked"}, NEW f \in Fates, Leave(s, pc, f)
  PROVE  SubmittersOK' /\ fate' \in [Jobs -> Fates]
  BY NoJobAssumption DEF SubmittersOK, SubmitPCs, Leave

\* The writer starts well formed.
LEMMA ShapeInit == Init => ShapeInv
<1> SUFFICES ASSUME Init PROVE ShapeInv
  OBVIOUS
<1>1. /\ ChannelOK /\ used \in Int /\ heapRead \in HeapReadings \cup {NoReading}
      /\ unseen \subseteq Jobs /\ missed \subseteq Jobs
  <2>1. <<>> \in Seq(Jobs) /\ Len(<<>>) = 0
    OBVIOUS
  <2>2. queue \in Seq(Jobs) /\ Len(queue) <= QueueSize
    BY <2>1, BoundsAssumption DEF Init
  <2>3. closed \in BOOLEAN
    BY DEF Init
  <2> QED BY <2>2, <2>3 DEF Init, ChannelOK
<1>2. SubmittersOK
  BY NoJobAssumption DEF Init, SubmittersOK, SubmitPCs
<1>3. WorkersOK
  <2>1. <<>> \in Seq(Jobs) /\ Len(<<>>) = 0
    OBVIOUS
  <2>2. batch \in [Workers -> Seq(Jobs)] /\ \A w \in Workers : batch[w] = <<>> /\ pos[w] = 0
    BY <2>1 DEF Init
  <2> QED BY <2>1, <2>2, BoundsAssumption DEF Init, WorkersOK, WorkerPCs
<1>4. stats \in Counters /\ fate \in [Jobs -> Fates]
  BY DEF Init, Counters, Fates
<1>5. BatchShape
  BY DEF Init, BatchShape
<1> QED BY <1>1, <1>2, <1>3, <1>4, <1>5 DEF ShapeInv, TypeOK, Init

\* A step of a submitter leaves the workers alone and keeps the types.
LEMMA ShapeSubmit ==
  ASSUME ShapeInv, NEW s \in Submitters,
         SubmitStep(s) \/ Send(s) \/ \E j \in Jobs : SubmitRefused(s, j) \/ SubmitBegin(s, j)
  PROVE  ShapeInv'
<1> USE DEF ShapeInv, TypeOK, channel, backendVars, metricsVars
<1>0. UNCHANGED workerVars => WorkersOK' /\ BatchShape'
  BY DEF BatchShape, WorkersOK, workerVars
<1>a. UNCHANGED channel => ChannelOK'
  BY DEF ChannelOK
<1>b. UNCHANGED submitterVars => SubmittersOK'
  BY DEF SubmittersOK, submitterVars
<1>c. spc[s] \notin {"idle", "panicked"} => sjob[s] \in Jobs /\ Size[sjob[s]] \in Nat
  BY SizeAssumption DEF SubmittersOK
<1>1. ASSUME NEW j \in Jobs, SubmitRefused(s, j) PROVE ShapeInv'
  BY <1>0, <1>a, <1>b, <1>1 DEF SubmitRefused, Fates
<1>2. ASSUME NEW j \in Jobs, SubmitBegin(s, j) PROVE ShapeInv'
  <2>1. SubmittersOK'
    BY <1>2, NoJobAssumption DEF SubmitBegin, SubmittersOK, SubmitPCs
  <2> QED BY <1>0, <1>a, <2>1, <1>2 DEF SubmitBegin, Fates
<1>3. CASE Allocate(s)
  <2>1. stats' \in Counters
    BY <1>3, CountType DEF Allocate
  <2>2. SubmittersOK'
    BY <1>3 DEF Allocate, SubmittersOK, SubmitPCs
  <2>3. used' \in Int
    BY <1>3, <1>c DEF Allocate
  <2> QED BY <1>0, <1>a, <1>3, <2>1, <2>2, <2>3 DEF Allocate
<1>4. CASE AllocateUndo(s)
  <2>1. stats' \in Counters
    BY <1>4, CountType DEF AllocateUndo
  <2>2. SubmittersOK' /\ fate' \in [Jobs -> Fates]
    BY <1>4, LeaveType DEF AllocateUndo, Fates
  <2>3. used' \in Int
    BY <1>4, <1>c DEF AllocateUndo
  <2> QED BY <1>0, <1>a, <1>4, <2>1, <2>2, <2>3 DEF AllocateUndo
<1>5. CASE Send(s)
  <2>1. ChannelOK'
    BY <1>5, <1>c, BoundsAssumption DEF Send, Full, ChannelOK
  <2>2. SubmittersOK' /\ fate' \in [Jobs -> Fates]
    BY <1>5, LeaveType DEF Send, Fates
  <2> QED BY <1>0, <1>5, <2>1, <2>2 DEF Send
<1>6. CASE SendPanics(s)
  <2>1. SubmittersOK' /\ fate' \in [Jobs -> Fates]
    BY <1>6, LeaveType DEF SendPanics, Fates
  <2> QED BY <1>0, <1>a, <1>6, <2>1 DEF SendPanics
<1>7. CASE DropNewest(s)
  <2>1. stats' \in Counters
    BY <1>7, CountType DEF DropNewest
  <2>2. SubmittersOK' /\ fate' \in [Jobs -> Fates]
    BY <1>7, LeaveType DEF DropNewest, Fates
  <2> QED BY <1>0, <1>a, <1>7, <2>1, <2>2 DEF DropNewest
<1>8. CASE FullSeen(s)
  <2>1. SubmittersOK'
    BY <1>8 DEF FullSeen, SubmittersOK, SubmitPCs
  <2> QED BY <1>0, <1>a, <1>8, <2>1 DEF FullSeen
<1>9. CASE DropOldest(s)
  <2>1. stats' \in Counters
    BY <1>9, CountType DEF DropOldest
  <2>2. SubmittersOK'
    BY <1>9 DEF DropOldest, SubmittersOK, SubmitPCs
  <2>3. CASE queue # <<>>
    <3>1. Head(queue) \in Jobs /\ Tail(queue) \in Seq(Jobs) /\ Len(Tail(queue)) = Len(queue) - 1
      BY <2>3, RangeHeadTail DEF ChannelOK
    <3>a. ChannelOK'
      BY <1>9, <2>3, <3>1, BoundsAssumption DEF DropOldest, ChannelOK
    <3>2. ChannelOK' /\ fate' \in [Jobs -> Fates]
      BY <1>9, <2>3, <3>1, <3>a DEF DropOldest, Fates
    <3> QED BY <1>0, <1>9, <2>1, <2>2, <3>2 DEF DropOldest
  <2>4. CASE queue = <<>>
    <3>1. ChannelOK' /\ fate' \in [Jobs -> Fates]
      BY <1>9, <2>4 DEF DropOldest, ChannelOK
    <3> QED BY <1>0, <1>9, <2>1, <2>2, <3>1 DEF DropOldest
  <2> QED BY <2>3, <2>4
<1> QED BY <1>1, <1>2, <1>3, <1>4, <1>5, <1>6, <1>7, <1>8, <1>9 DEF SubmitStep

\* A worker moves inside its batch, which nobody changes.
LEMMA ShapeMove ==
  ASSUME WorkersOK, BatchShape, NEW w \in Workers, batch' = batch,
         NEW pc \in {"put_init", "put_gop", "index", "release"},
         NEW p \in 1 .. Len(batch[w]),
         wpc' = [wpc EXCEPT ![w] = pc],
         pos' = [pos EXCEPT ![w] = p]
  PROVE  WorkersOK' /\ BatchShape'
<1>1. /\ wpc' \in [Workers -> WorkerPCs] /\ pos' \in [Workers -> Nat]
      /\ wpc'[w] = pc /\ pos'[w] = p
      /\ \A v \in Workers \ {w} : wpc'[v] = wpc[v] /\ pos'[v] = pos[v]
  BY DEF WorkersOK, WorkerPCs
<1>2. \A v \in Workers : pos'[v] <= Len(batch[v])
  BY <1>1 DEF WorkersOK
<1>3. WorkersOK'
  BY <1>1, <1>2 DEF WorkersOK
<1>4. BatchShape'
  BY <1>1 DEF BatchShape
<1> QED BY <1>3, <1>4

\* A failed batch is released from its first job on.
LEMMA ShapeFail ==
  ASSUME ShapeInv, NEW w \in Workers, FailBatch(w), Len(batch[w]) >= 1,
         UNCHANGED batch
  PROVE  WorkersOK' /\ BatchShape' /\ stats' \in Counters /\ fate' \in [Jobs -> Fates]
<1> USE DEF ShapeInv, TypeOK
<1>1. Len(batch[w]) \in Nat /\ 1 \in 1 .. Len(batch[w])
  BY DEF WorkersOK
<1>2. stats' \in Counters
  BY <1>1, CountType DEF FailBatch
<1>3. fate' \in [Jobs -> Fates]
  BY DEF FailBatch, Fates
<1>4. WorkersOK' /\ BatchShape'
  BY <1>1, ShapeMove DEF FailBatch
<1> QED BY <1>2, <1>3, <1>4

\* Taking the head of the channel into a batch.
LEMMA ShapeTake ==
  ASSUME ShapeInv, NEW w \in Workers, queue # <<>>, Len(batch[w]) < MaxBatchSize,
         queue' = Tail(queue), closed' = closed, pos' = pos,
         batch' = [batch EXCEPT ![w] = Append(@, Head(queue))]
  PROVE  /\ ChannelOK' /\ Head(queue) \in Jobs
         /\ batch' \in [Workers -> Seq(Jobs)] /\ Len(batch'[w]) = Len(batch[w]) + 1
         /\ \A v \in Workers : pos'[v] <= Len(batch'[v]) /\ Len(batch'[v]) <= MaxBatchSize
<1> USE DEF ShapeInv, TypeOK
<1>1. Head(queue) \in Jobs /\ Tail(queue) \in Seq(Jobs) /\ Len(Tail(queue)) = Len(queue) - 1
  BY RangeHeadTail DEF ChannelOK
<1>2. ChannelOK'
  BY <1>1, BoundsAssumption DEF ChannelOK
<1>3. /\ Append(batch[w], Head(queue)) \in Seq(Jobs)
      /\ Len(Append(batch[w], Head(queue))) = Len(batch[w]) + 1
      /\ Len(batch[w]) \in Nat
  BY <1>1 DEF WorkersOK
<1>4. batch' \in [Workers -> Seq(Jobs)] /\ batch'[w] = Append(batch[w], Head(queue))
  BY <1>3 DEF WorkersOK
<1>5. ASSUME NEW v \in Workers
      PROVE  pos'[v] <= Len(batch'[v]) /\ Len(batch'[v]) <= MaxBatchSize
  <2>1. CASE v = w
    BY <2>1, <1>3, <1>4, BoundsAssumption DEF WorkersOK
  <2>2. CASE v # w
    BY <2>2 DEF WorkersOK
  <2> QED BY <2>1, <2>2
<1> QED BY <1>1, <1>2, <1>3, <1>4, <1>5

\* A step of a worker keeps its batch well formed and the other workers' too.
LEMMA ShapeWorker ==
  ASSUME ShapeInv, NEW w \in Workers, WorkerStep(w)
  PROVE  ShapeInv'
<1> USE DEF ShapeInv, TypeOK, channel, backendVars, metricsVars
<1>a. UNCHANGED channel => ChannelOK'
  BY DEF ChannelOK
<1>b. UNCHANGED submitterVars => SubmittersOK'
  BY DEF SubmittersOK, submitterVars
<1>c. ASSUME pos[w] \in 1 .. Len(batch[w])
      PROVE  /\ batch[w][pos[w]] \in Jobs /\ Size[batch[w][pos[w]]] \in Nat
             /\ InitKey[batch[w][pos[w]]] \in InitKeys /\ Len(batch[w]) >= 1
  BY <1>c, SizeAssumption, InitKeyAssumption DEF WorkersOK
<1>1. CASE Receive(w)
  <2>1. batch[w] = <<>> /\ pos[w] = 0 /\ Len(batch[w]) < MaxBatchSize
    BY <1>1, BoundsAssumption DEF Receive, BatchShape
  <2>2. /\ ChannelOK' /\ batch' \in [Workers -> Seq(Jobs)] /\ Len(batch'[w]) = Len(batch[w]) + 1
        /\ \A v \in Workers : pos'[v] <= Len(batch'[v]) /\ Len(batch'[v]) <= MaxBatchSize
    BY <1>1, <2>1, ShapeTake DEF Receive
  <2>3. WorkersOK'
    BY <1>1, <2>2 DEF Receive, WorkersOK, WorkerPCs
  <2>4. BatchShape'
    BY <1>1, <2>1, <2>2 DEF Receive, BatchShape, WorkersOK
  <2> QED BY <1>b, <1>1, <2>2, <2>3, <2>4 DEF Receive
<1>2. CASE WorkerExit(w)
  <2>1. WorkersOK' /\ BatchShape'
    BY <1>2 DEF WorkerExit, WorkersOK, WorkerPCs, BatchShape
  <2> QED BY <1>a, <1>b, <1>2, <2>1 DEF WorkerExit
<1>3. CASE Collect(w)
  <2>1. /\ ChannelOK' /\ batch' \in [Workers -> Seq(Jobs)] /\ Len(batch'[w]) = Len(batch[w]) + 1
        /\ \A v \in Workers : pos'[v] <= Len(batch'[v]) /\ Len(batch'[v]) <= MaxBatchSize
    BY <1>3, ShapeTake DEF Collect
  <2>2. WorkersOK'
    BY <1>3, <2>1 DEF Collect, WorkersOK
  <2>3. BatchShape'
    BY <1>3, <2>1 DEF Collect, BatchShape, WorkersOK
  <2> QED BY <1>b, <1>3, <2>1, <2>2, <2>3 DEF Collect
<1>4. CASE CollectDone(w)
  <2>1. Len(batch[w]) >= 1
    BY <1>4 DEF CollectDone, BatchShape, WorkersOK
  <2>2. WorkersOK'
    BY <1>4, <2>1 DEF CollectDone, FirstPut, WorkersOK, WorkerPCs
  <2>3. BatchShape'
    BY <1>4, <2>1 DEF CollectDone, FirstPut, BatchShape, WorkersOK
  <2> QED BY <1>a, <1>b, <1>4, <2>2, <2>3 DEF CollectDone
<1>5. ASSUME NEW result \in PutResults, PutInit(w, result) PROVE ShapeInv'
  <2>1. pos[w] \in 1 .. Len(batch[w])
    BY <1>5 DEF PutInit, BatchShape
  <2>2. stored' \subseteq Jobs \cup InitKeys
    BY <1>5, <1>c, <2>1 DEF PutInit, StoreKey
  <2>3. WorkersOK' /\ BatchShape' /\ stats' \in Counters /\ fate' \in [Jobs -> Fates]
    <3>1. CASE PutAccepted(result)
      BY <1>5, <2>1, <3>1 DEF PutInit, WorkersOK, WorkerPCs, BatchShape
    <3>2. CASE ~PutAccepted(result)
      BY <1>5, <1>c, <2>1, <3>2, ShapeFail DEF PutInit
    <3> QED BY <3>1, <3>2
  <2> QED BY <1>a, <1>b, <1>5, <2>2, <2>3 DEF PutInit
<1>6. ASSUME NEW result \in PutResults, PutGOP(w, result) PROVE ShapeInv'
  <2>1. pos[w] \in 1 .. Len(batch[w])
    BY <1>6 DEF PutGOP, BatchShape
  <2>2. stored' \subseteq Jobs \cup InitKeys
    BY <1>6, <1>c, <2>1 DEF PutGOP, StoreKey
  <2>3. WorkersOK' /\ BatchShape' /\ stats' \in Counters /\ fate' \in [Jobs -> Fates]
    <3>1. CASE PutAccepted(result) /\ pos[w] = Len(batch[w])
      BY <1>6, <2>1, <3>1 DEF PutGOP, WorkersOK, WorkerPCs, BatchShape
    <3>2. CASE PutAccepted(result) /\ pos[w] # Len(batch[w])
      <4>1. pos[w] + 1 \in 1 .. Len(batch[w])
        BY <2>1, <3>2 DEF WorkersOK
      <4>2. /\ pos' = [pos EXCEPT ![w] = pos[w] + 1]
            /\ wpc' = [wpc EXCEPT ![w] = FirstPut(batch[w][pos[w] + 1])]
            /\ batch' = batch /\ UNCHANGED <<stats, fate>>
        BY <1>6, <3>2 DEF PutGOP
      <4>3. FirstPut(batch[w][pos[w] + 1]) \in {"put_init", "put_gop", "index", "release"}
        BY DEF FirstPut
      <4>4. WorkersOK' /\ BatchShape'
        BY <4>1, <4>2, <4>3, ShapeMove
      <4> QED BY <4>2, <4>4
    <3>3. CASE ~PutAccepted(result)
      BY <1>6, <1>c, <2>1, <3>3, ShapeFail DEF PutGOP
    <3> QED BY <3>1, <3>2, <3>3
  <2> QED BY <1>a, <1>b, <1>6, <2>2, <2>3 DEF PutGOP
<1>7. ASSUME NEW result \in IndexResults, IndexBatch(w, result) PROVE ShapeInv'
  <2>1. pos[w] \in 1 .. Len(batch[w]) /\ Range(batch[w]) \subseteq Jobs
    BY <1>7 DEF IndexBatch, BatchShape, WorkersOK, Range
  <2>2. indexed' \subseteq Jobs
    BY <1>7, <2>1 DEF IndexBatch
  <2>3. WorkersOK' /\ BatchShape' /\ stats' \in Counters /\ fate' \in [Jobs -> Fates]
    <3>1. CASE result = "ok"
      <4>1. 1 \in 1 .. Len(batch[w])
        BY <2>1 DEF WorkersOK
      <4>2. WorkersOK' /\ BatchShape'
        BY <1>7, <3>1, <4>1, ShapeMove DEF IndexBatch
      <4> QED BY <1>7, <3>1, <4>2 DEF IndexBatch, Fates
    <3>2. CASE result # "ok"
      BY <1>7, <1>c, <2>1, <3>2, ShapeFail DEF IndexBatch
    <3> QED BY <3>1, <3>2
  <2> QED BY <1>a, <1>b, <1>7, <2>2, <2>3 DEF IndexBatch
<1>8. CASE Release(w)
  <2>1. pos[w] \in 1 .. Len(batch[w])
    BY <1>8 DEF Release, BatchShape
  <2>2. used' \in Int
    BY <1>8, <1>c, <2>1 DEF Release
  <2>3. WorkersOK' /\ BatchShape'
    <3>1. CASE pos[w] = Len(batch[w])
      <4>1. <<>> \in Seq(Jobs) /\ Len(<<>>) = 0
        OBVIOUS
      <4>0. /\ batch' = [batch EXCEPT ![w] = <<>>] /\ pos' = [pos EXCEPT ![w] = 0]
            /\ wpc' = [wpc EXCEPT ![w] = "recv"]
        BY <1>8, <3>1 DEF Release
      <4>2. batch' \in [Workers -> Seq(Jobs)] /\ batch'[w] = <<>> /\ pos'[w] = 0 /\ wpc'[w] = "recv"
        BY <4>0, <4>1 DEF WorkersOK
      <4>a. wpc' \in [Workers -> WorkerPCs] /\ pos' \in [Workers -> Nat]
        BY <4>0 DEF WorkersOK, WorkerPCs
      <4>b. \A v \in Workers \ {w} : batch'[v] = batch[v] /\ pos'[v] = pos[v]
        BY <4>0 DEF WorkersOK
      <4>c. ASSUME NEW v \in Workers
            PROVE  pos'[v] <= Len(batch'[v]) /\ Len(batch'[v]) <= MaxBatchSize
        <5>1. CASE v = w
          BY <5>1, <4>1, <4>2, BoundsAssumption
        <5>2. CASE v # w
          BY <5>2, <4>b DEF WorkersOK
        <5> QED BY <5>1, <5>2
      <4>3. WorkersOK'
        BY <4>2, <4>a, <4>c DEF WorkersOK
      <4>4. BatchShape'
        BY <1>8, <3>1, <4>2 DEF Release, BatchShape, WorkersOK
      <4> QED BY <4>3, <4>4
    <3>2. CASE pos[w] # Len(batch[w])
      <4>1. pos[w] + 1 \in 1 .. Len(batch[w])
        BY <2>1, <3>2 DEF WorkersOK
      <4>2. /\ pos' = [pos EXCEPT ![w] = pos[w] + 1] /\ batch' = batch
            /\ wpc' = [wpc EXCEPT ![w] = "release"]
        BY <1>8, <3>2 DEF Release, WorkersOK
      <4> QED BY <4>1, <4>2, ShapeMove
    <3> QED BY <3>1, <3>2
  <2> QED BY <1>a, <1>b, <1>8, <2>2, <2>3 DEF Release
<1> QED BY <1>1, <1>2, <1>3, <1>4, <1>5, <1>6, <1>7, <1>8 DEF WorkerStep

\* Close, UpdateMetrics and stuttering leave the shape alone.
LEMMA ShapeOther ==
  ASSUME ShapeInv,
         CloseBegin \/ CloseReturn \/ UpdateMetricsRead \/ UpdateMetricsStore \/ UNCHANGED vars
  PROVE  ShapeInv'
<1> USE DEF ShapeInv, TypeOK, BatchShape, ChannelOK, SubmittersOK, WorkersOK,
            channel, workerVars, backendVars, submitterVars, metricsVars
<1>1. CASE CloseBegin
  BY <1>1 DEF CloseBegin
<1>2. CASE CloseReturn
  BY <1>2 DEF CloseReturn
<1>3. CASE UpdateMetricsRead
  BY <1>3 DEF UpdateMetricsRead
<1>4. CASE UpdateMetricsStore
  BY <1>4, HeapReadingsAssumption DEF UpdateMetricsStore
<1>5. CASE UNCHANGED vars
  BY <1>5 DEF vars
<1> QED BY <1>1, <1>2, <1>3, <1>4, <1>5

\* Every step keeps the types and the shape of the batches.
LEMMA ShapeStep == ShapeInv /\ [Next]_vars => ShapeInv'
  BY ShapeSubmit, ShapeWorker, ShapeOther DEF Next, Step, Finished

\* Every reachable state of the writer is well typed, and the channel and the
\* batches never exceed their capacity.
THEOREM TypeCorrect == Spec => []TypeOK
<1>1. ShapeInv => TypeOK
  BY DEF ShapeInv
<1> QED BY <1>1, ShapeInit, ShapeStep, PTL DEF Spec

-----------------------------------------------------------------------------
(* The index never points to an object that was not stored *)

\* Objects are never removed by the writer: what was persisted stays so, and a
\* worker that did not move keeps its persisted prefix.
LEMMA PrefixKept ==
  ASSUME stored \subseteq stored', NEW v \in Workers, PrefixPersisted(v),
         wpc'[v] = wpc[v], batch'[v] = batch[v], pos'[v] = pos[v]
  PROVE  PrefixPersisted(v)'
  BY DEF PrefixPersisted, Persisted

\* A worker that leaves the putting states has nothing to show.
LEMMA PrefixIdle ==
  ASSUME NEW v \in Workers, wpc'[v] \in {"recv", "collect", "release", "exited"}
  PROVE  PrefixPersisted(v)'
  BY DEF PrefixPersisted

\* Steps that touch neither the workers nor the backend keep StoreInv.
LEMMA StoreStay ==
  ASSUME StoreInv, UNCHANGED <<workerVars, backendVars>>
  PROVE  StoreInv'
  BY PrefixKept DEF StoreInv, IndexedOnlyIfStored, workerVars, backendVars

\* A Put extends the persisted prefix by the object it stored, or the batch fails.
LEMMA StorePut ==
  ASSUME ShapeInv, StoreInv, NEW w \in Workers, NEW result \in PutResults,
         PutInit(w, result) \/ PutGOP(w, result)
  PROVE  StoreInv'
<1> DEFINE j == batch[w][pos[w]]
<1>0. /\ wpc \in [Workers -> WorkerPCs] /\ pos \in [Workers -> Nat]
      /\ pos[w] \in 1 .. Len(batch[w]) /\ Len(batch[w]) \in Nat
  BY DEF ShapeInv, TypeOK, WorkersOK, BatchShape, PutInit, PutGOP
<1>1. stored \subseteq stored' /\ indexed' = indexed /\ batch' = batch
  BY DEF PutInit, PutGOP, StoreKey
<1>2. IndexedOnlyIfStored'
  BY <1>1 DEF StoreInv, IndexedOnlyIfStored
<1>3. ASSUME NEW v \in Workers, v # w PROVE PrefixPersisted(v)'
  <2>1. wpc'[v] = wpc[v] /\ pos'[v] = pos[v]
    BY <1>0, <1>3 DEF PutInit, PutGOP, FailBatch
  <2> QED BY <1>1, <2>1, PrefixKept DEF StoreInv
<1>4. PrefixPersisted(w)'
  <2>1. CASE ~PutAccepted(result)
    <3>1. wpc'[w] = "release"
      BY <1>0, <2>1 DEF PutInit, PutGOP, FailBatch
    <3> QED BY <3>1, PrefixIdle
  <2>2. CASE PutAccepted(result) /\ PutInit(w, result)
    <3>1. wpc'[w] = "put_gop" /\ pos'[w] = pos[w] /\ InitKey[j] \in stored'
      BY <1>0, <2>2 DEF PutInit, PutAccepted, PutStores, StoreKey
    <3>2. wpc[w] = "put_init"
      BY <2>2 DEF PutInit
    <3>3. \A i \in 1 .. (pos'[w] - 1) : Persisted(batch[w][i])'
      BY <1>1, <3>1, <3>2 DEF StoreInv, PrefixPersisted, Persisted
    <3> QED BY <1>1, <3>1, <3>3 DEF PrefixPersisted
  <2>3. CASE PutAccepted(result) /\ PutGOP(w, result)
    <3>1. wpc[w] = "put_gop" /\ j \in stored'
      BY <2>3 DEF PutGOP, PutAccepted, PutStores, StoreKey
    <3>2. j \in WithInit => InitKey[j] \in stored'
      BY <1>1, <3>1 DEF StoreInv, PrefixPersisted
    <3>3. \A i \in 1 .. (pos[w] - 1) : Persisted(batch[w][i])'
      BY <1>1, <3>1 DEF StoreInv, PrefixPersisted, Persisted
    <3>4. CASE pos[w] = Len(batch[w])
      <4>1. wpc'[w] = "index" /\ pos'[w] = pos[w]
        BY <1>0, <2>3, <3>4 DEF PutGOP
      <4> QED BY <1>1, <3>1, <3>2, <3>3, <3>4, <4>1 DEF PrefixPersisted, Persisted
    <3>5. CASE pos[w] # Len(batch[w])
      <4>1. wpc'[w] = FirstPut(batch[w][pos[w] + 1]) /\ pos'[w] = pos[w] + 1
        BY <1>0, <2>3, <3>5 DEF PutGOP
      <4>2. \A i \in 1 .. pos[w] : Persisted(batch[w][i])'
        <5> SUFFICES ASSUME NEW i \in 1 .. pos[w] PROVE Persisted(batch[w][i])'
          OBVIOUS
        <5>1. CASE i = pos[w]
          BY <1>1, <3>1, <3>2, <5>1 DEF Persisted
        <5>2. CASE i # pos[w]
          BY <1>0, <3>3, <5>2
        <5> QED BY <5>1, <5>2
      <4>3. /\ wpc'[w] \in {"put_init", "put_gop"}
            /\ wpc'[w] = "put_gop" => batch[w][pos[w] + 1] \notin WithInit
        BY <4>1 DEF FirstPut
      <4>4. pos'[w] - 1 = pos[w]
        BY <1>0, <4>1
      <4>5. \A i \in 1 .. (pos'[w] - 1) : Persisted(batch[w][i])'
        BY <4>2, <4>4
      <4> QED BY <1>1, <4>1, <4>3, <4>5 DEF PrefixPersisted
    <3> QED BY <3>4, <3>5
  <2> QED BY <2>1, <2>2, <2>3
<1> QED BY <1>2, <1>3, <1>4 DEF StoreInv

\* The index transaction adds only jobs the whole batch has persisted.
LEMMA StoreIndex ==
  ASSUME ShapeInv, StoreInv, NEW w \in Workers, NEW result \in IndexResults,
         IndexBatch(w, result)
  PROVE  StoreInv'
<1>0. /\ wpc \in [Workers -> WorkerPCs] /\ pos \in [Workers -> Nat]
      /\ batch[w] \in Seq(Jobs) /\ pos[w] \in 1 .. Len(batch[w])
  BY DEF ShapeInv, TypeOK, WorkersOK, BatchShape, IndexBatch
<1>1. stored' = stored /\ batch' = batch /\ wpc'[w] = "release"
  BY <1>0 DEF IndexBatch, FailBatch
<1>2. \A i \in 1 .. Len(batch[w]) : Persisted(batch[w][i])
  <2>1. /\ pos[w] = Len(batch[w]) /\ Persisted(batch[w][pos[w]])
        /\ \A i \in 1 .. (pos[w] - 1) : Persisted(batch[w][i])
    BY DEF IndexBatch, StoreInv, PrefixPersisted
  <2> QED BY <1>0, <2>1
<1>3. \A x \in Range(batch[w]) : Persisted(x)
  BY <1>0, <1>2 DEF Range
<1>4. indexed' \subseteq indexed \cup Range(batch[w])
  BY DEF IndexBatch
<1>5. IndexedOnlyIfStored'
  BY <1>1, <1>3, <1>4 DEF StoreInv, IndexedOnlyIfStored, Persisted
<1>6. ASSUME NEW v \in Workers, v # w PROVE PrefixPersisted(v)'
  <2>1. wpc'[v] = wpc[v] /\ pos'[v] = pos[v]
    BY <1>0, <1>6 DEF IndexBatch, FailBatch
  <2> QED BY <1>1, <2>1, PrefixKept DEF StoreInv
<1>7. PrefixPersisted(w)'
  BY <1>1, PrefixIdle
<1> QED BY <1>5, <1>6, <1>7 DEF StoreInv

\* The steps of a worker outside the putting states.
LEMMA StoreMove ==
  ASSUME ShapeInv, StoreInv, NEW w \in Workers,
         Receive(w) \/ WorkerExit(w) \/ Collect(w) \/ CollectDone(w) \/ Release(w)
  PROVE  StoreInv'
<1>0. /\ wpc \in [Workers -> WorkerPCs] /\ pos \in [Workers -> Nat]
      /\ batch \in [Workers -> Seq(Jobs)]
  BY DEF ShapeInv, TypeOK, WorkersOK
<1>1. UNCHANGED backendVars
  BY DEF Receive, WorkerExit, Collect, CollectDone, Release
<1>2. IndexedOnlyIfStored'
  BY <1>1 DEF StoreInv, IndexedOnlyIfStored, backendVars
<1>3. ASSUME NEW v \in Workers, v # w PROVE PrefixPersisted(v)'
  <2>1. wpc'[v] = wpc[v] /\ pos'[v] = pos[v] /\ batch'[v] = batch[v]
    BY <1>0, <1>3 DEF Receive, WorkerExit, Collect, CollectDone, Release
  <2> QED BY <1>1, <2>1, PrefixKept DEF StoreInv, backendVars
<1>4. PrefixPersisted(w)'
  <2>1. CASE Receive(w) \/ WorkerExit(w) \/ Collect(w) \/ Release(w)
    <3>1. wpc'[w] \in {"recv", "collect", "release", "exited"}
      BY <1>0, <2>1 DEF Receive, WorkerExit, Collect, Release
    <3> QED BY <3>1, PrefixIdle
  <2>2. CASE CollectDone(w)
    <3>1. wpc'[w] = FirstPut(batch[w][1]) /\ pos'[w] = 1 /\ batch' = batch
      BY <1>0, <2>2 DEF CollectDone
    <3>2. /\ wpc'[w] \in {"put_init", "put_gop"}
          /\ wpc'[w] = "put_gop" => batch[w][1] \notin WithInit
      BY <3>1 DEF FirstPut
    <3> QED BY <3>1, <3>2 DEF PrefixPersisted
  <2> QED BY <2>1, <2>2
<1> QED BY <1>2, <1>3, <1>4 DEF StoreInv

\* Every step keeps the persisted prefixes and with them the index.
LEMMA StoreStep == ShapeInv /\ StoreInv /\ [Next]_vars => StoreInv'
<1> SUFFICES ASSUME ShapeInv, StoreInv, [Next]_vars PROVE StoreInv'
  OBVIOUS
<1>1. ASSUME NEW w \in Workers, WorkerStep(w) PROVE StoreInv'
  BY <1>1, StorePut, StoreIndex, StoreMove DEF WorkerStep
<1>2. CASE ~\E w \in Workers : WorkerStep(w)
  <2>1. UNCHANGED <<workerVars, backendVars>>
    BY <1>2 DEF Next, Step, vars, SubmitStep, SubmitRefused, SubmitBegin, Allocate, AllocateUndo,
         Send, SendPanics, DropNewest, FullSeen, DropOldest, CloseBegin, CloseReturn,
         UpdateMetricsRead, UpdateMetricsStore, Finished, workerVars, backendVars
  <2> QED BY <2>1, StoreStay
<1> QED BY <1>1, <1>2

\* An indexed GOP was stored before, with the init segment its job carried.
THEOREM IndexSafe == Spec => []IndexedOnlyIfStored
<1>1. Init => StoreInv
  BY DEF Init, StoreInv, IndexedOnlyIfStored, PrefixPersisted
<1>2. StoreInv => IndexedOnlyIfStored
  BY DEF StoreInv
<1> QED BY <1>1, <1>2, ShapeInit, ShapeStep, StoreStep, PTL DEF Spec

-----------------------------------------------------------------------------
(* Close leaves nothing behind *)

\* A submitter that does not touch the channel marks no job as queued.
LEMMA DrainStay ==
  ASSUME DrainInv, UNCHANGED <<channel, workerVars, cpc>>,
         \A j \in Jobs : fate'[j] = "queued" => fate[j] = "queued"
  PROVE  DrainInv'
  BY DEF DrainInv, Pending, channel, workerVars

\* A submitter puts its job in the channel or leaves the accepted jobs where they are.
LEMMA DrainSubmit ==
  ASSUME ShapeInv, DrainInv, NEW s \in Submitters,
         SubmitStep(s) \/ Send(s) \/ \E j \in Jobs : SubmitRefused(s, j) \/ SubmitBegin(s, j)
  PROVE  DrainInv'
<1>0. /\ queue \in Seq(Jobs) /\ fate \in [Jobs -> Fates]
      /\ spc[s] \notin {"idle", "panicked"} => sjob[s] \in Jobs
  BY DEF ShapeInv, TypeOK, ChannelOK, SubmittersOK
<1>1. CASE \E j \in Jobs : SubmitRefused(s, j) \/ SubmitBegin(s, j)
  BY <1>0, <1>1, DrainStay DEF SubmitRefused, SubmitBegin
<1>2. CASE Allocate(s) \/ FullSeen(s)
  BY <1>0, <1>2, DrainStay DEF Allocate, FullSeen
<1>3. CASE AllocateUndo(s) \/ SendPanics(s) \/ DropNewest(s)
  BY <1>0, <1>3, DrainStay DEF AllocateUndo, SendPanics, DropNewest, Leave
<1>4. CASE Send(s)
  <2>1. UNCHANGED <<closed, workerVars, cpc>> /\ ~closed /\ sjob[s] \in Jobs
    BY <1>0, <1>4 DEF Send
  <2>2. Range(queue') = Range(queue) \cup {sjob[s]}
    BY <1>0, <1>4, <2>1, RangeAppend DEF Send
  <2>3. \A j \in Jobs : fate'[j] = "queued" => fate[j] = "queued" \/ j = sjob[s]
    BY <1>0, <1>4 DEF Send, Leave
  <2>4. \A j \in Jobs : fate'[j] = "queued" => Pending(j)'
    BY <2>1, <2>2, <2>3 DEF DrainInv, Pending, workerVars
  <2> QED BY <2>1, <2>4 DEF DrainInv, workerVars
<1>5. CASE DropOldest(s)
  <2>1. CASE queue = <<>>
    BY <1>5, <2>1, DrainStay DEF DropOldest, channel
  <2>2. CASE queue # <<>>
    <3>1. UNCHANGED <<closed, workerVars, cpc>> /\ queue' = Tail(queue)
      BY <1>5, <2>2 DEF DropOldest
    <3>2. Range(queue) = {Head(queue)} \cup Range(queue')
      BY <1>0, <2>2, <3>1, RangeHeadTail
    <3>3. \A j \in Jobs : fate'[j] = "queued" => fate[j] = "queued" /\ j # Head(queue)
      BY <1>0, <1>5, <2>2 DEF DropOldest
    <3>4. \A j \in Jobs : fate'[j] = "queued" => Pending(j)'
      BY <3>1, <3>2, <3>3 DEF DrainInv, Pending, workerVars
    <3>5. \A w \in Workers : wpc[w] # "exited"
      BY <2>2 DEF DrainInv
    <3> QED BY <3>1, <3>4, <3>5 DEF DrainInv, workerVars
  <2> QED BY <2>1, <2>2
<1> QED BY <1>1, <1>2, <1>3, <1>4, <1>5 DEF SubmitStep

\* A worker takes the head of the channel into its batch.
LEMMA DrainTake ==
  ASSUME ShapeInv, DrainInv, NEW w \in Workers, Receive(w) \/ Collect(w)
  PROVE  DrainInv'
<1>0. /\ wpc \in [Workers -> WorkerPCs] /\ batch \in [Workers -> Seq(Jobs)]
      /\ queue \in Seq(Jobs) /\ queue # <<>> /\ batch[w] \in Seq(Jobs)
  BY DEF ShapeInv, TypeOK, ChannelOK, WorkersOK, Receive, Collect
<1>1. UNCHANGED <<closed, cpc, fate>> /\ queue' = Tail(queue)
  BY DEF Receive, Collect
<1>2. Head(queue) \in Jobs /\ Range(queue) = {Head(queue)} \cup Range(queue')
  BY <1>0, <1>1, RangeHeadTail
<1>3. Range(batch'[w]) = Range(batch[w]) \cup {Head(queue)}
  <2>1. batch'[w] = Append(batch[w], Head(queue))
    BY <1>0 DEF Receive, Collect
  <2> QED BY <1>0, <1>2, <2>1, RangeAppend
<1>4. wpc'[w] = "collect" /\ \A v \in Workers \ {w} : wpc'[v] = wpc[v] /\ batch'[v] = batch[v]
  BY <1>0 DEF Receive, Collect
<1>5. ASSUME NEW j \in Jobs, fate[j] = "queued" PROVE Pending(j)'
  <2>1. CASE j = Head(queue)
    BY <1>3, <1>4, <2>1 DEF Pending, Active
  <2>2. CASE j \in Range(queue')
    BY <2>2 DEF Pending
  <2>3. CASE \E v \in Workers : wpc[v] \in Active /\ j \in Range(batch[v])
    BY <1>3, <1>4, <2>3 DEF Pending, Active
  <2> QED BY <1>2, <1>5, <2>1, <2>2, <2>3 DEF DrainInv, Pending
<1>6. \A v \in Workers : wpc[v] # "exited" /\ wpc'[v] # "exited"
  BY <1>0, <1>4 DEF DrainInv
<1> QED BY <1>1, <1>5, <1>6 DEF DrainInv

\* A worker that keeps its batch and stays active, or decides the whole batch.
LEMMA DrainMove ==
  ASSUME ShapeInv, DrainInv, NEW w \in Workers, UNCHANGED <<channel, batch, cpc>>,
         wpc[w] \in Active,
         NEW pc \in Active \cup {"release"}, wpc' = [wpc EXCEPT ![w] = pc],
         \A j \in Jobs : fate'[j] = "queued" =>
           fate[j] = "queued" /\ (j \in Range(batch[w]) => pc # "release")
  PROVE  DrainInv'
<1>1. wpc'[w] = pc /\ \A v \in Workers \ {w} : wpc'[v] = wpc[v]
  BY DEF ShapeInv, TypeOK, WorkersOK
<1>2. ASSUME NEW j \in Jobs, fate'[j] = "queued" PROVE Pending(j)'
  <2>1. fate[j] = "queued" /\ (j \in Range(batch[w]) => pc # "release")
    BY <1>2
  <2>2. CASE j \in Range(queue)
    BY <2>2 DEF Pending, channel
  <2>3. CASE \E v \in Workers : wpc[v] \in Active /\ j \in Range(batch[v])
    BY <1>1, <2>1, <2>3 DEF Pending
  <2> QED BY <2>1, <2>2, <2>3 DEF DrainInv, Pending
<1>3. \A v \in Workers : wpc'[v] = "exited" => wpc[v] = "exited"
  BY <1>1 DEF Active
<1>4. cpc # "returned"
  BY DEF DrainInv, Active
<1> QED BY <1>2, <1>3, <1>4 DEF DrainInv, channel

\* A worker hands an accepted job on or decides it, and exits only from an empty channel.
LEMMA DrainWorker ==
  ASSUME ShapeInv, DrainInv, NEW w \in Workers, WorkerStep(w)
  PROVE  DrainInv'
<1>0. /\ wpc \in [Workers -> WorkerPCs] /\ batch \in [Workers -> Seq(Jobs)]
      /\ fate \in [Jobs -> Fates]
  BY DEF ShapeInv, TypeOK, WorkersOK
<1>1. CASE Receive(w) \/ Collect(w)
  BY <1>1, DrainTake
<1>2. CASE WorkerExit(w)
  <2>1. /\ UNCHANGED <<channel, batch, cpc, fate>> /\ closed /\ queue = <<>>
        /\ wpc[w] = "recv" /\ wpc' = [wpc EXCEPT ![w] = "exited"]
    BY <1>2 DEF WorkerExit
  <2>2. wpc'[w] = "exited" /\ \A v \in Workers \ {w} : wpc'[v] = wpc[v]
    BY <1>0, <2>1
  <2>3. \A j \in Jobs : fate'[j] = "queued" => Pending(j)'
    BY <2>1, <2>2 DEF DrainInv, Pending, Active, channel
  <2> QED BY <2>1, <2>2, <2>3 DEF DrainInv, channel
<1>3. CASE CollectDone(w)
  <2>1. FirstPut(batch[w][1]) \in Active
    BY DEF FirstPut, Active
  <2> QED BY <1>3, <2>1, DrainMove DEF CollectDone, Active
<1>f. ASSUME FailBatch(w) PROVE \A j \in Jobs : fate'[j] = "queued" =>
                                  fate[j] = "queued" /\ j \notin Range(batch[w])
  BY <1>0, <1>f DEF FailBatch
<1>4. ASSUME NEW result \in PutResults, PutInit(w, result) PROVE DrainInv'
  <2>1. CASE PutAccepted(result)
    BY <1>4, <2>1, DrainMove DEF PutInit, Active
  <2>2. CASE ~PutAccepted(result)
    BY <1>4, <1>f, <2>2, DrainMove DEF PutInit, FailBatch, Active
  <2> QED BY <2>1, <2>2
<1>5. ASSUME NEW result \in PutResults, PutGOP(w, result) PROVE DrainInv'
  <2>1. CASE PutAccepted(result)
    <3>1. FirstPut(batch[w][pos[w] + 1]) \in Active /\ "index" \in Active /\ "put_gop" \in Active
      BY DEF FirstPut, Active
    <3> QED BY <1>5, <2>1, <3>1, DrainMove DEF PutGOP, Active
  <2>2. CASE ~PutAccepted(result)
    BY <1>5, <1>f, <2>2, DrainMove DEF PutGOP, FailBatch, Active
  <2> QED BY <2>1, <2>2
<1>6. ASSUME NEW result \in IndexResults, IndexBatch(w, result) PROVE DrainInv'
  <2>1. CASE result = "ok"
    <3>1. \A j \in Jobs : fate'[j] = "queued" => fate[j] = "queued" /\ j \notin Range(batch[w])
      BY <1>0, <1>6, <2>1 DEF IndexBatch
    <3> QED BY <1>6, <2>1, <3>1, DrainMove DEF IndexBatch, Active
  <2>2. CASE result # "ok"
    BY <1>6, <1>f, <2>2, DrainMove DEF IndexBatch, FailBatch, Active
  <2> QED BY <2>1, <2>2
<1>7. CASE Release(w)
  <2>1. /\ UNCHANGED <<channel, cpc, fate>> /\ wpc[w] = "release"
        /\ wpc'[w] \in {"recv", "release"}
        /\ \A v \in Workers \ {w} : wpc'[v] = wpc[v] /\ batch'[v] = batch[v]
    BY <1>0, <1>7 DEF Release
  <2>2. ASSUME NEW j \in Jobs, fate'[j] = "queued" PROVE Pending(j)'
    <3>1. Pending(j)
      BY <2>1, <2>2 DEF DrainInv
    <3>2. CASE j \in Range(queue)
      BY <2>1, <3>2 DEF Pending, channel
    <3>3. CASE \E v \in Workers : wpc[v] \in Active /\ j \in Range(batch[v])
      <4>1. PICK v \in Workers : wpc[v] \in Active /\ j \in Range(batch[v])
        BY <3>3
      <4>2. v # w
        BY <2>1, <4>1 DEF Active
      <4> QED BY <2>1, <4>1, <4>2 DEF Pending
    <3> QED BY <3>1, <3>2, <3>3 DEF Pending
  <2> QED BY <2>1, <2>2 DEF DrainInv, channel
<1> QED BY <1>1, <1>2, <1>3, <1>4, <1>5, <1>6, <1>7 DEF WorkerStep

\* Close returns only after the last worker has exited.
LEMMA DrainOther ==
  ASSUME DrainInv,
         CloseBegin \/ CloseReturn \/ UpdateMetricsRead \/ UpdateMetricsStore \/ UNCHANGED vars
  PROVE  DrainInv'
<1> USE DEF DrainInv, Pending, channel, workerVars
<1>1. CASE CloseBegin
  BY <1>1 DEF CloseBegin
<1>2. CASE CloseReturn
  BY <1>2 DEF CloseReturn
<1>3. CASE UpdateMetricsRead \/ UpdateMetricsStore
  BY <1>3 DEF UpdateMetricsRead, UpdateMetricsStore
<1>4. CASE UNCHANGED vars
  BY <1>4 DEF vars
<1> QED BY <1>1, <1>2, <1>3, <1>4

\* Every step keeps every undecided job in the channel or with a worker.
LEMMA DrainStep == ShapeInv /\ DrainInv /\ [Next]_vars => DrainInv'
  BY DrainSubmit, DrainWorker, DrainOther DEF Next, Step, Finished

\* When Close returns, no job the channel accepted is left undecided.
THEOREM CloseComplete == Spec => []CloseDrains
<1>1. Init => DrainInv
  BY DEF Init, DrainInv
<1>2. DrainInv => CloseDrains
  <2> SUFFICES ASSUME DrainInv, cpc = "returned", NEW j \in Jobs, fate[j] = "queued"
               PROVE  FALSE
    BY DEF CloseDrains
  <2>1. Pending(j) /\ \A w \in Workers : wpc[w] = "exited"
    BY DEF DrainInv
  <2>2. j \in Range(queue)
    BY <2>1 DEF Pending, Active
  <2>3. queue = <<>>
    BY <2>1, WorkersAssumption DEF DrainInv
  <2> QED BY <2>2, <2>3 DEF Range
<1> QED BY <1>1, <1>2, ShapeInit, ShapeStep, DrainStep, PTL DEF Spec

-----------------------------------------------------------------------------
(* The writer keeps its contract *)

\* A submitter inside Submit holds a job that is nobody else's.
HeldInv ==
  \A s \in Submitters : sjob[s] # NoJob =>
    /\ fate[sjob[s]] = "held"
    /\ \A t \in Submitters : sjob[t] = sjob[s] => t = s

\* An undecided job is in one place only: once in the channel, or in the batch of
\* one worker.
SingleInv ==
  /\ IsInjective(queue) /\ \A j \in Range(queue) : fate[j] = "queued"
  /\ \A w \in Workers : wpc[w] \in Active =>
       \A j \in Range(batch[w]) :
         /\ fate[j] = "queued" /\ j \notin Range(queue)
         /\ \A v \in Workers : wpc[v] \in Active /\ j \in Range(batch[v]) => v = w

\* The inductive invariant behind the refinement, besides StoreInv and DrainInv.
OwnInv == (cpc = "open" <=> ~closed) /\ HeldInv /\ SingleInv

\* Sending a job that is not in the channel keeps its elements distinct.
LEMMA InjectiveAppend ==
  ASSUME NEW S, NEW seq \in Seq(S), NEW e \in S, IsInjective(seq), e \notin Range(seq)
  PROVE  IsInjective(Append(seq, e))
<1> DEFINE app == Append(seq, e)
<1>1. /\ Len(seq) \in Nat /\ DOMAIN app = 1 .. (Len(seq) + 1) /\ DOMAIN seq = 1 .. Len(seq)
      /\ \A i \in 1 .. Len(seq) : app[i] = seq[i]
      /\ app[Len(seq) + 1] = e
  OBVIOUS
<1>2. \A i \in 1 .. Len(seq) : app[i] # e
  BY <1>1 DEF Range
<1> SUFFICES ASSUME NEW i \in DOMAIN app, NEW k \in DOMAIN app, app[i] = app[k]
             PROVE  i = k
  BY DEF IsInjective
<1> HIDE DEF app
<1>3. CASE i \in 1 .. Len(seq) /\ k \in 1 .. Len(seq)
  BY <1>1, <1>3 DEF IsInjective
<1>4. CASE i = Len(seq) + 1 \/ k = Len(seq) + 1
  BY <1>1, <1>2, <1>4
<1> QED BY <1>1, <1>3, <1>4

\* Receiving from a channel of distinct jobs takes the head out for good.
LEMMA InjectiveTail ==
  ASSUME NEW S, NEW seq \in Seq(S), seq # <<>>, IsInjective(seq)
  PROVE  IsInjective(Tail(seq)) /\ Head(seq) \notin Range(Tail(seq))
<1>1. /\ Len(seq) \in Nat /\ Len(seq) >= 1 /\ DOMAIN seq = 1 .. Len(seq)
      /\ DOMAIN Tail(seq) = 1 .. (Len(seq) - 1)
      /\ \A i \in 1 .. (Len(seq) - 1) : Tail(seq)[i] = seq[i + 1]
      /\ Head(seq) = seq[1]
  OBVIOUS
<1>2. ASSUME NEW i \in DOMAIN Tail(seq), NEW k \in DOMAIN Tail(seq), Tail(seq)[i] = Tail(seq)[k]
      PROVE  i = k
  <2>1. i + 1 \in DOMAIN seq /\ k + 1 \in DOMAIN seq /\ seq[i + 1] = seq[k + 1]
    BY <1>1, <1>2
  <2>2. i + 1 = k + 1
    BY <2>1 DEF IsInjective
  <2> QED BY <1>1, <2>2
<1>3. ASSUME Head(seq) \in Range(Tail(seq)) PROVE FALSE
  <2>1. PICK i \in 1 .. (Len(seq) - 1) : Head(seq) = Tail(seq)[i]
    BY <1>1, <1>3 DEF Range
  <2>2. seq[1] = seq[i + 1] /\ 1 \in DOMAIN seq /\ i + 1 \in DOMAIN seq /\ i + 1 # 1
    BY <1>1, <2>1
  <2> QED BY <2>2 DEF IsInjective
<1> QED BY <1>2, <1>3 DEF IsInjective

\* The steps that neither move a job nor change its fate.
LEMMA SingleStay ==
  ASSUME SingleInv, UNCHANGED <<queue, workerVars>>,
         \A j \in Jobs : fate[j] = "queued" => fate'[j] = "queued",
         ShapeInv
  PROVE  SingleInv'
<1>1. Range(queue) \subseteq Jobs /\ \A w \in Workers : Range(batch[w]) \subseteq Jobs
  BY DEF ShapeInv, TypeOK, ChannelOK, WorkersOK, Range
<1> QED BY <1>1 DEF SingleInv, workerVars

\* A submitter begins, charges and sends its own job, or takes the oldest one out.
LEMMA OwnSubmit ==
  ASSUME ShapeInv, OwnInv, NEW s \in Submitters,
         SubmitStep(s) \/ Send(s) \/ \E j \in Jobs : SubmitRefused(s, j) \/ SubmitBegin(s, j)
  PROVE  OwnInv'
<1>0. /\ queue \in Seq(Jobs) /\ fate \in [Jobs -> Fates]
      /\ sjob \in [Submitters -> Jobs \cup {NoJob}] /\ spc \in [Submitters -> SubmitPCs]
      /\ \A t \in Submitters : sjob[t] = NoJob <=> spc[t] \in {"idle", "panicked"}
      /\ \A w \in Workers : batch[w] \in Seq(Jobs)
  BY DEF ShapeInv, TypeOK, ChannelOK, SubmittersOK, WorkersOK
<1>r. Range(queue) \subseteq Jobs /\ \A w \in Workers : Range(batch[w]) \subseteq Jobs
  BY <1>0 DEF Range
<1>1. ASSUME NEW j \in Jobs, SubmitRefused(s, j) PROVE OwnInv'
  <2>1. HeldInv'
    BY <1>0, <1>1 DEF SubmitRefused, OwnInv, HeldInv, submitterVars
  <2>2. SingleInv'
    BY <1>0, <1>1, SingleStay DEF SubmitRefused, OwnInv, channel
  <2> QED BY <1>1, <2>1, <2>2 DEF SubmitRefused, OwnInv, channel
<1>2. ASSUME NEW j \in Jobs, SubmitBegin(s, j) PROVE OwnInv'
  <2>1. \A t \in Submitters : sjob[t] # j
    BY <1>2, NoJobAssumption DEF SubmitBegin, OwnInv, HeldInv
  <2>2. HeldInv'
    BY <1>0, <1>2, <2>1 DEF SubmitBegin, OwnInv, HeldInv
  <2>3. SingleInv'
    BY <1>0, <1>2, SingleStay DEF SubmitBegin, OwnInv, channel
  <2> QED BY <1>2, <2>2, <2>3 DEF SubmitBegin, OwnInv, channel
<1>3. CASE Allocate(s) \/ FullSeen(s)
  <2>1. UNCHANGED <<channel, sjob, workerVars, cpc, fate>>
    BY <1>3 DEF Allocate, FullSeen
  <2>2. SingleInv'
    BY <2>1, SingleStay DEF OwnInv, channel
  <2> QED BY <2>1, <2>2 DEF OwnInv, HeldInv, channel
<1>l. ASSUME NEW pc, NEW f \in Fates, Leave(s, pc, f), sjob[s] # NoJob
      PROVE  /\ HeldInv'
             /\ sjob[s] \in Jobs /\ fate[sjob[s]] = "held" /\ fate'[sjob[s]] = f
             /\ \A j \in Jobs : j # sjob[s] => fate'[j] = fate[j]
  BY <1>0, <1>l, NoJobAssumption DEF Leave, OwnInv, HeldInv
<1>4. CASE AllocateUndo(s) \/ SendPanics(s) \/ DropNewest(s)
  <2>1. /\ UNCHANGED <<channel, workerVars, cpc>> /\ sjob[s] # NoJob
        /\ \E pc \in SubmitPCs, f \in Fates : Leave(s, pc, f)
    BY <1>0, <1>4 DEF AllocateUndo, SendPanics, DropNewest, Fates, SubmitPCs
  <2>2. HeldInv' /\ \A j \in Jobs : fate[j] = "queued" => fate'[j] = "queued"
    BY <1>l, <2>1
  <2>3. SingleInv'
    BY <2>1, <2>2, SingleStay DEF OwnInv, channel
  <2> QED BY <2>1, <2>2, <2>3 DEF OwnInv, channel
<1>5. CASE Send(s)
  <2>1. /\ UNCHANGED <<closed, workerVars, cpc>> /\ sjob[s] # NoJob
        /\ Leave(s, "idle", "queued") /\ queue' = Append(queue, sjob[s])
    BY <1>0, <1>5 DEF Send
  <2>2. /\ HeldInv' /\ sjob[s] \in Jobs /\ fate[sjob[s]] = "held"
        /\ fate'[sjob[s]] = "queued" /\ \A j \in Jobs : j # sjob[s] => fate'[j] = fate[j]
    BY <1>l, <2>1 DEF Fates
  <2>3. /\ sjob[s] \notin Range(queue)
        /\ \A w \in Workers : wpc[w] \in Active => sjob[s] \notin Range(batch[w])
    BY <2>2 DEF OwnInv, SingleInv
  <2>4. IsInjective(queue') /\ Range(queue') = Range(queue) \cup {sjob[s]}
    BY <1>0, <2>1, <2>2, <2>3, InjectiveAppend, RangeAppend DEF OwnInv, SingleInv
  <2>5. SingleInv'
    BY <1>r, <2>1, <2>2, <2>3, <2>4 DEF OwnInv, SingleInv, workerVars
  <2> QED BY <2>1, <2>2, <2>5 DEF OwnInv
<1>6. CASE DropOldest(s)
  <2>1. CASE queue = <<>>
    <3>1. UNCHANGED <<channel, sjob, workerVars, cpc, fate>>
      BY <1>6, <2>1 DEF DropOldest, channel
    <3>2. SingleInv'
      BY <3>1, SingleStay DEF OwnInv, channel
    <3> QED BY <3>1, <3>2 DEF OwnInv, HeldInv, channel
  <2>2. CASE queue # <<>>
    <3>1. /\ UNCHANGED <<closed, sjob, workerVars, cpc>> /\ queue' = Tail(queue)
          /\ fate' = [fate EXCEPT ![Head(queue)] = "evicted"]
      BY <1>6, <2>2 DEF DropOldest
    <3>2. /\ IsInjective(queue') /\ Head(queue) \notin Range(queue') /\ Head(queue) \in Jobs
          /\ Range(queue) = {Head(queue)} \cup Range(queue')
      BY <1>0, <2>2, <3>1, InjectiveTail, RangeHeadTail DEF OwnInv, SingleInv
    <3>3. fate[Head(queue)] = "queued" /\ \A j \in Jobs : j # Head(queue) => fate'[j] = fate[j]
      BY <1>0, <3>1, <3>2 DEF OwnInv, SingleInv
    <3>4. HeldInv'
      BY <1>0, <3>1, <3>3 DEF OwnInv, HeldInv
    <3>5. SingleInv'
      BY <1>r, <3>1, <3>2, <3>3 DEF OwnInv, SingleInv, workerVars
    <3> QED BY <3>1, <3>4, <3>5 DEF OwnInv
  <2> QED BY <2>1, <2>2
<1> QED BY <1>1, <1>2, <1>3, <1>4, <1>5, <1>6 DEF SubmitStep

\* A worker takes the head of the channel: it is then in that batch only.
LEMMA OwnTake ==
  ASSUME ShapeInv, OwnInv, NEW w \in Workers, Receive(w) \/ Collect(w)
  PROVE  OwnInv'
<1>0. /\ wpc \in [Workers -> WorkerPCs] /\ batch \in [Workers -> Seq(Jobs)]
      /\ queue \in Seq(Jobs) /\ queue # <<>> /\ batch[w] \in Seq(Jobs)
  BY DEF ShapeInv, TypeOK, ChannelOK, WorkersOK, Receive, Collect
<1>1. UNCHANGED <<closed, cpc, fate, sjob>> /\ queue' = Tail(queue)
  BY DEF Receive, Collect, submitterVars
<1>2. /\ IsInjective(queue') /\ Head(queue) \notin Range(queue') /\ Head(queue) \in Jobs
      /\ Range(queue) = {Head(queue)} \cup Range(queue')
  BY <1>0, <1>1, InjectiveTail, RangeHeadTail DEF OwnInv, SingleInv
<1>3. Range(batch'[w]) = Range(batch[w]) \cup {Head(queue)}
  <2>1. batch'[w] = Append(batch[w], Head(queue))
    BY <1>0 DEF Receive, Collect
  <2> QED BY <1>0, <1>2, <2>1, RangeAppend
<1>4. /\ wpc'[w] = "collect"
      /\ \A v \in Workers \ {w} : wpc'[v] = wpc[v] /\ batch'[v] = batch[v]
  BY <1>0 DEF Receive, Collect
<1>5. wpc[w] \in Active \/ Range(batch[w]) = {}
  BY DEF Receive, Collect, Active, ShapeInv, BatchShape, Range
<1>6. SingleInv'
  <2>1. ASSUME NEW v \in Workers, wpc'[v] \in Active, NEW j \in Range(batch'[v])
        PROVE  /\ fate[j] = "queued" /\ j \notin Range(queue')
               /\ \A u \in Workers : wpc'[u] \in Active /\ j \in Range(batch'[u]) => u = v
    <3>1. CASE j = Head(queue)
      <4>1. \A u \in Workers : u # w => ~(wpc'[u] \in Active /\ j \in Range(batch'[u]))
        BY <1>2, <1>4, <3>1 DEF OwnInv, SingleInv
      <4> QED BY <1>2, <2>1, <3>1, <4>1 DEF OwnInv, SingleInv
    <3>2. CASE j # Head(queue)
      <4>1. wpc[v] \in Active /\ j \in Range(batch[v])
        BY <1>3, <1>4, <1>5, <2>1, <3>2
      <4>2. \A u \in Workers : wpc'[u] \in Active /\ j \in Range(batch'[u]) =>
                                 wpc[u] \in Active /\ j \in Range(batch[u])
        BY <1>3, <1>4, <1>5, <3>2
      <4> QED BY <1>2, <4>1, <4>2 DEF OwnInv, SingleInv
    <3> QED BY <3>1, <3>2
  <2> QED BY <1>1, <1>2, <2>1 DEF OwnInv, SingleInv
<1> QED BY <1>1, <1>6 DEF OwnInv, HeldInv

\* A worker that keeps its batch stays active with every fate as it was, or
\* settles exactly the jobs of its batch.
LEMMA OwnMove ==
  ASSUME ShapeInv, OwnInv, NEW w \in Workers,
         UNCHANGED <<channel, batch, cpc, sjob>>,
         NEW pc, wpc' = [wpc EXCEPT ![w] = pc],
         pc \in Active => wpc[w] \in Active,
         \/ fate' = fate
         \/ /\ pc \notin Active /\ wpc[w] \in Active
            /\ \A j \in Jobs : j \notin Range(batch[w]) => fate'[j] = fate[j]
  PROVE  OwnInv'
<1>0. /\ wpc'[w] = pc /\ \A v \in Workers \ {w} : wpc'[v] = wpc[v]
      /\ Range(queue) \subseteq Jobs /\ \A v \in Workers : Range(batch[v]) \subseteq Jobs
      /\ sjob \in [Submitters -> Jobs \cup {NoJob}]
  BY DEF ShapeInv, TypeOK, WorkersOK, ChannelOK, SubmittersOK, Range
<1>1. \A v \in Workers : wpc'[v] \in Active => wpc[v] \in Active
  BY <1>0
<1>2. CASE fate' = fate
  <2>1. SingleInv'
    BY <1>1, <1>2 DEF OwnInv, SingleInv, channel
  <2> QED BY <1>2, <2>1 DEF OwnInv, HeldInv, channel
<1>3. CASE /\ pc \notin Active /\ wpc[w] \in Active
           /\ \A j \in Jobs : j \notin Range(batch[w]) => fate'[j] = fate[j]
  <2>1. \A j \in Range(batch[w]) : fate[j] = "queued" /\ j \notin Range(queue)
    BY <1>3 DEF OwnInv, SingleInv
  <2>2. \A v \in Workers : wpc'[v] \in Active =>
          wpc[v] \in Active /\ \A j \in Range(batch[v]) : j \notin Range(batch[w])
    BY <1>0, <1>1, <1>3 DEF OwnInv, SingleInv
  <2>3. SingleInv'
    BY <1>0, <1>3, <2>1, <2>2 DEF OwnInv, SingleInv, channel
  <2>4. HeldInv'
    BY <1>0, <1>3, <2>1 DEF OwnInv, HeldInv
  <2> QED BY <2>3, <2>4 DEF OwnInv, channel
<1> QED BY <1>2, <1>3

\* Every step of a worker leaves each undecided job in one place.
LEMMA OwnWorker ==
  ASSUME ShapeInv, OwnInv, NEW w \in Workers, WorkerStep(w)
  PROVE  OwnInv'
<1>0. /\ wpc \in [Workers -> WorkerPCs] /\ batch \in [Workers -> Seq(Jobs)]
      /\ fate \in [Jobs -> Fates]
  BY DEF ShapeInv, TypeOK, WorkersOK
<1>a. {"collect", "put_init", "put_gop", "index"} = Active
  BY DEF Active
<1>f. ASSUME FailBatch(w)
      PROVE  /\ wpc' = [wpc EXCEPT ![w] = "release"] /\ "release" \notin Active
             /\ \A j \in Jobs : j \notin Range(batch[w]) => fate'[j] = fate[j]
  BY <1>f DEF FailBatch, Active
<1>1. CASE Receive(w) \/ Collect(w)
  BY <1>1, OwnTake
<1>2. CASE WorkerExit(w)
  BY <1>a, <1>2, OwnMove DEF WorkerExit, submitterVars
<1>3. CASE CollectDone(w)
  BY <1>a, <1>3, OwnMove DEF CollectDone, submitterVars
<1>4. ASSUME NEW result \in PutResults, PutInit(w, result) PROVE OwnInv'
  <2>1. CASE PutAccepted(result)
    BY <1>a, <1>4, <2>1, OwnMove DEF PutInit, submitterVars
  <2>2. CASE ~PutAccepted(result)
    BY <1>a, <1>4, <1>f, <2>2, OwnMove DEF PutInit, submitterVars
  <2> QED BY <2>1, <2>2
<1>5. ASSUME NEW result \in PutResults, PutGOP(w, result) PROVE OwnInv'
  <2>1. CASE PutAccepted(result)
    BY <1>a, <1>5, <2>1, OwnMove DEF PutGOP, submitterVars
  <2>2. CASE ~PutAccepted(result)
    BY <1>a, <1>5, <1>f, <2>2, OwnMove DEF PutGOP, submitterVars
  <2> QED BY <2>1, <2>2
<1>6. ASSUME NEW result \in IndexResults, IndexBatch(w, result) PROVE OwnInv'
  <2>1. CASE result = "ok"
    <3>1. \A j \in Jobs : j \notin Range(batch[w]) => fate'[j] = fate[j]
      BY <1>6, <2>1 DEF IndexBatch
    <3> QED BY <1>a, <1>6, <2>1, <3>1, OwnMove DEF IndexBatch, submitterVars
  <2>2. CASE result # "ok"
    BY <1>a, <1>6, <1>f, <2>2, OwnMove DEF IndexBatch, submitterVars
  <2> QED BY <2>1, <2>2
<1>7. CASE Release(w)
  <2>1. /\ UNCHANGED <<channel, cpc, fate, sjob>> /\ wpc[w] = "release"
        /\ wpc'[w] \in {"recv", "release"}
        /\ \A v \in Workers \ {w} : wpc'[v] = wpc[v] /\ batch'[v] = batch[v]
    BY <1>0, <1>7 DEF Release, submitterVars
  <2>2. \A v \in Workers : wpc'[v] \in Active => wpc[v] \in Active /\ batch'[v] = batch[v]
    BY <2>1 DEF Active
  <2>3. SingleInv'
    BY <2>1, <2>2 DEF OwnInv, SingleInv, channel
  <2> QED BY <2>1, <2>3 DEF OwnInv, HeldInv, channel
<1> QED BY <1>1, <1>2, <1>3, <1>4, <1>5, <1>6, <1>7 DEF WorkerStep

\* Every step keeps every job with its only owner.
LEMMA OwnStep == ShapeInv /\ OwnInv /\ [Next]_vars => OwnInv'
<1> SUFFICES ASSUME ShapeInv, OwnInv, [Next]_vars PROVE OwnInv'
  OBVIOUS
<1>1. CASE CloseBegin
  BY <1>1 DEF CloseBegin, OwnInv, HeldInv, SingleInv, submitterVars, workerVars
<1>2. CASE CloseReturn
  BY <1>2 DEF CloseReturn, OwnInv, HeldInv, SingleInv, channel, submitterVars, workerVars
<1>3. CASE UpdateMetricsRead \/ UpdateMetricsStore
  BY <1>3 DEF UpdateMetricsRead, UpdateMetricsStore, OwnInv, HeldInv, SingleInv, channel,
       submitterVars, workerVars
<1>4. CASE UNCHANGED vars
  BY <1>4 DEF vars, OwnInv, HeldInv, SingleInv
<1> QED BY <1>1, <1>2, <1>3, <1>4, OwnSubmit, OwnWorker DEF Next, Step, Finished

\* Nobody owns a job before the first Submit.
LEMMA OwnInit == Init => OwnInv
<1> SUFFICES ASSUME Init PROVE OwnInv
  OBVIOUS
<1>1. Range(queue) = {} /\ IsInjective(queue) /\ \A w \in Workers : Range(batch[w]) = {}
  BY DEF Init, Range, IsInjective
<1> QED BY <1>1 DEF Init, OwnInv, HeldInv, SingleInv

\* The mapped status of every job that keeps its fate stays the same.
LEMMA StatusKept ==
  ASSUME NEW js, NEW st, fate' \in [Jobs -> Fates],
         \A j \in Jobs : IF j \in js THEN StatusOf(fate'[j]) = st ELSE fate'[j] = fate[j]
  PROVE  Contract!Become(js, st)
<1>1. [j \in Jobs |-> StatusOf(fate[j])]' = [j \in Jobs |-> StatusOf(fate'[j])]
  OBVIOUS
<1> QED BY <1>1 DEF Contract!Become

\* The process lives on unless a submitter outside the API handlers panics.
LEMMA LivesOn ==
  ASSUME ShapeInv, ~Crashed,
         \A s \in Submitters \ Handlers : spc'[s] = spc[s] \/ spc'[s] # "panicked"
  PROVE  ~Crashed'
  BY DEF Crashed

\* While the process lives, the phase is that of Close.
LEMMA PhaseIs ==
  /\ ~Crashed => Phase = PhaseOf(cpc)
  /\ ~Crashed' => Phase' = PhaseOf(cpc')
  /\ Crashed' => Phase' = "crashed"
  /\ cpc \in {"open", "waiting", "returned"} => PhaseOf(cpc) # "crashed"
  BY DEF Phase, PhaseOf

\* Submit accepts a job or refuses it, and evicting the oldest job loses that one.
LEMMA RefineSubmit ==
  ASSUME ShapeInv, ShapeInv', OwnInv, ~Crashed, NEW s \in Submitters,
         SubmitStep(s) \/ Send(s) \/ \E j \in Jobs : SubmitRefused(s, j) \/ SubmitBegin(s, j)
  PROVE  Contract!Next \/ UNCHANGED Contract!vars
<1> DEFINE stat == [j \in Jobs |-> StatusOf(fate[j])]
<1>0. /\ fate \in [Jobs -> Fates] /\ fate' \in [Jobs -> Fates] /\ queue \in Seq(Jobs)
      /\ sjob[s] # NoJob => sjob[s] \in Jobs /\ fate[sjob[s]] = "held"
      /\ sjob[s] = NoJob <=> spc[s] \in {"idle", "panicked"}
      /\ UNCHANGED <<stored, cpc>>
  BY DEF ShapeInv, TypeOK, ChannelOK, SubmittersOK, OwnInv, HeldInv, backendVars, SubmitStep,
       SubmitRefused, SubmitBegin, Allocate, AllocateUndo, Send, SendPanics, DropNewest,
       FullSeen, DropOldest
<1>u. /\ UNCHANGED stored /\ Phase = PhaseOf(cpc) /\ Phase # "crashed"
      /\ ~Crashed' => Phase' = Phase
  BY <1>0, PhaseIs DEF ShapeInv, TypeOK
<1>v. ~SendPanics(s) => ~Crashed'
  <2>1. /\ spc \in [Submitters -> SubmitPCs]
        /\ ~SendPanics(s) => \A t \in Submitters : spc'[t] = spc[t] \/ spc'[t] # "panicked"
    BY DEF ShapeInv, TypeOK, SubmittersOK, SubmitStep, SubmitRefused, SubmitBegin, Allocate,
         AllocateUndo, Send, DropNewest, FullSeen, DropOldest, Leave, submitterVars
  <2> QED BY <2>1, LivesOn
<1>s. ASSUME \A j \in Jobs : StatusOf(fate'[j]) = StatusOf(fate[j]), ~Crashed'
      PROVE  UNCHANGED Contract!vars
  BY <1>u, <1>s DEF Contract!vars
<1>r. ASSUME NEW j \in Jobs, fate[j] \in {"new", "held"}, ~Crashed',
             NEW f \in {"refused", "over_limit", "dropped", "lost"},
             fate' = [fate EXCEPT ![j] = f]
      PROVE  Contract!Next
  <2>1. StatusOf(fate[j]) = "new" /\ StatusOf(f) = "refused"
    BY <1>r DEF StatusOf
  <2>2. Contract!Become({j}, "refused")
    BY <1>0, <1>r, <2>1, StatusKept
  <2>3. Contract!Refuse(j)
    BY <1>r, <1>u, <2>1, <2>2 DEF Contract!Refuse, Contract!All
  <2> QED BY <2>3 DEF Contract!Next
<1>1. ASSUME NEW j \in Jobs, SubmitRefused(s, j) PROVE Contract!Next
  <2>1. ~SendPanics(s)
    BY <1>1 DEF SubmitRefused, SendPanics
  <2> QED BY <1>r, <1>v, <1>1, <2>1 DEF SubmitRefused
<1>2. ASSUME NEW j \in Jobs, SubmitBegin(s, j) PROVE UNCHANGED Contract!vars
  <2>1. ~SendPanics(s)
    BY <1>2 DEF SubmitBegin, SendPanics
  <2> QED BY <1>0, <1>s, <1>v, <1>2, <2>1 DEF SubmitBegin, StatusOf
<1>3. CASE Allocate(s) \/ FullSeen(s)
  <2>1. ~SendPanics(s)
    BY <1>3 DEF Allocate, FullSeen, SendPanics
  <2> QED BY <1>s, <1>v, <1>3, <2>1 DEF Allocate, FullSeen
<1>4. CASE AllocateUndo(s) \/ DropNewest(s)
  <2>1. ~SendPanics(s)
    BY <1>4 DEF AllocateUndo, DropNewest, SendPanics
  <2> QED BY <1>0, <1>r, <1>v, <1>4, <2>1 DEF AllocateUndo, DropNewest, Leave
<1>7. CASE SendPanics(s)
  <2>1. /\ sjob[s] \in Jobs /\ fate[sjob[s]] = "held" /\ cpc # "open"
        /\ fate' = [fate EXCEPT ![sjob[s]] = "lost"]
    BY <1>0, <1>7 DEF SendPanics, Leave, OwnInv
  <2>2. CASE ~Crashed'
    BY <1>r, <2>1, <2>2
  <2>3. CASE Crashed'
    <3>1. /\ StatusOf("held") = "new" /\ StatusOf("lost") = "refused"
          /\ Phase \in {"closing", "closed"} /\ Phase' = "crashed"
      BY <1>u, <2>1, <2>3, PhaseIs DEF StatusOf, PhaseOf, ShapeInv, TypeOK
    <3>2. Contract!Become({sjob[s]}, "refused")
      BY <1>0, <2>1, <3>1, StatusKept
    <3>3. Contract!Crash(sjob[s])
      BY <1>u, <2>1, <3>1, <3>2 DEF Contract!Crash, Contract!All
    <3> QED BY <2>1, <3>3 DEF Contract!Next
  <2> QED BY <2>2, <2>3
<1>5. CASE Send(s)
  <2>1. /\ sjob[s] \in Jobs /\ fate[sjob[s]] = "held" /\ cpc = "open"
        /\ fate' = [fate EXCEPT ![sjob[s]] = "queued"]
    BY <1>0, <1>5 DEF Send, Leave, OwnInv
  <2>2. /\ StatusOf("held") = "new" /\ StatusOf("queued") = "accepted"
        /\ Phase = "open" /\ Phase' = Phase
    <3>1. ~SendPanics(s)
      BY <1>5 DEF Send, SendPanics
    <3> QED BY <1>u, <1>v, <2>1, <3>1 DEF StatusOf, PhaseOf
  <2>3. Contract!Become({sjob[s]}, "accepted")
    BY <1>0, <2>1, <2>2, StatusKept
  <2>4. Contract!Accept(sjob[s])
    BY <1>u, <2>1, <2>2, <2>3 DEF Contract!Accept, Contract!All
  <2> QED BY <2>1, <2>4 DEF Contract!Next
<1>6. CASE DropOldest(s)
  <2>0. ~Crashed' /\ Phase' = Phase
    <3>1. ~SendPanics(s)
      BY <1>6 DEF DropOldest, SendPanics
    <3> QED BY <1>u, <1>v, <3>1
  <2>1. CASE queue = <<>>
    BY <1>s, <1>6, <2>0, <2>1 DEF DropOldest
  <2>2. CASE queue # <<>>
    <3>1. Head(queue) \in Jobs /\ Head(queue) \in Range(queue)
      BY <1>0, <2>2, RangeHeadTail
    <3>2. fate[Head(queue)] = "queued" /\ fate' = [fate EXCEPT ![Head(queue)] = "evicted"]
      BY <1>6, <2>2, <3>1 DEF DropOldest, OwnInv, SingleInv
    <3>3. StatusOf("queued") = "accepted" /\ StatusOf("evicted") = "lost"
      BY DEF StatusOf
    <3>4. Contract!Become({Head(queue)}, "lost")
      BY <1>0, <3>1, <3>2, <3>3, StatusKept
    <3>5. Contract!Lose({Head(queue)})
      BY <1>u, <2>0, <3>1, <3>2, <3>3, <3>4 DEF Contract!Lose, Contract!All
    <3> QED BY <3>1, <3>5 DEF Contract!Next, Contract!Batches
  <2> QED BY <2>1, <2>2
<1> QED BY <1>1, <1>2, <1>3, <1>4, <1>5, <1>6, <1>7 DEF SubmitStep

\* A Put makes an object durable or loses its batch; the transaction records the
\* batch or loses it; what else a worker does is invisible.
LEMMA RefineWorker ==
  ASSUME ShapeInv, ShapeInv', StoreInv, OwnInv, ~Crashed, NEW w \in Workers, WorkerStep(w)
  PROVE  Contract!Next \/ UNCHANGED Contract!vars
<1> DEFINE js == Range(batch[w])
<1>0. /\ fate \in [Jobs -> Fates] /\ fate' \in [Jobs -> Fates]
      /\ batch[w] \in Seq(Jobs) /\ js \subseteq Jobs /\ cpc' = cpc /\ spc' = spc
      /\ stored \subseteq Jobs \cup InitKeys
  BY DEF ShapeInv, TypeOK, WorkersOK, WorkerStep, Receive, WorkerExit, Collect, CollectDone,
       PutInit, PutGOP, IndexBatch, Release, Range, submitterVars
<1>u. UNCHANGED Phase /\ Phase # "crashed"
  BY <1>0, LivesOn, PhaseIs DEF ShapeInv, TypeOK
<1>s. ASSUME UNCHANGED <<stored, fate>> PROVE UNCHANGED Contract!vars
  BY <1>u, <1>s DEF Contract!vars
<1>p. ASSUME wpc[w] \in {"put_init", "put_gop", "index"}
      PROVE  /\ batch[w][pos[w]] \in Jobs /\ InitKey[batch[w][pos[w]]] \in InitKeys
             /\ js \in Contract!Batches /\ Contract!All(js, "accepted")
  <2>1. pos[w] \in 1 .. Len(batch[w]) /\ batch[w][pos[w]] \in js
    BY <1>0, <1>p DEF ShapeInv, BatchShape, Range
  <2>2. \A j \in js : fate[j] = "queued"
    BY <1>p DEF OwnInv, SingleInv, Active
  <2> QED BY <1>0, <2>1, <2>2, InitKeyAssumption DEF Contract!Batches, Contract!All, StatusOf
<1>k. ASSUME NEW key \in Jobs \cup InitKeys, NEW result \in PutResults, StoreKey(key, result),
             FailBatch(w) \/ UNCHANGED fate, wpc[w] \in {"put_init", "put_gop"}
      PROVE  Contract!Next \/ UNCHANGED Contract!vars
  <2>1. stored' = stored \/ stored' = stored \cup {key}
    BY <1>k DEF StoreKey
  <2>2. CASE UNCHANGED fate
    <3>1. UNCHANGED Contract!vars \/ Contract!Store(key)
      BY <1>u, <1>s, <2>1, <2>2 DEF Contract!Store
    <3> QED BY <3>1 DEF Contract!Next
  <2>3. CASE FailBatch(w)
    <3>1. Contract!Become(js, "lost")
      BY <1>0, <2>3, StatusKept DEF FailBatch, StatusOf
    <3>2. Contract!Lose(js)
      BY <1>p, <1>u, <1>k, <2>1, <3>1 DEF Contract!Lose
    <3> QED BY <1>p, <1>k, <3>2 DEF Contract!Next
  <2> QED BY <1>k, <2>2, <2>3
<1>1. CASE Receive(w) \/ WorkerExit(w) \/ Collect(w) \/ CollectDone(w) \/ Release(w)
  BY <1>s, <1>1 DEF Receive, WorkerExit, Collect, CollectDone, Release, backendVars
<1>2. ASSUME NEW result \in PutResults, PutInit(w, result)
      PROVE  Contract!Next \/ UNCHANGED Contract!vars
  BY <1>p, <1>k, <1>2 DEF PutInit
<1>3. ASSUME NEW result \in PutResults, PutGOP(w, result)
      PROVE  Contract!Next \/ UNCHANGED Contract!vars
  BY <1>p, <1>k, <1>3 DEF PutGOP
<1>4. ASSUME NEW result \in IndexResults, IndexBatch(w, result) PROVE Contract!Next
  <2>1. wpc[w] = "index" /\ UNCHANGED stored
    BY <1>4 DEF IndexBatch
  <2>2. CASE result = "ok"
    <3>1. Contract!Become(js, "recorded")
      BY <1>0, <1>4, <2>2, StatusKept DEF IndexBatch, StatusOf
    <3>2. \A j \in js : Persisted(j)
      <4>1. /\ pos[w] = Len(batch[w]) /\ Persisted(batch[w][pos[w]]) /\ pos[w] \in Nat
            /\ \A i \in 1 .. (pos[w] - 1) : Persisted(batch[w][i])
        BY <2>1 DEF StoreInv, PrefixPersisted, ShapeInv, TypeOK, WorkersOK
      <4>2. \A i \in 1 .. Len(batch[w]) : Persisted(batch[w][i])
        BY <1>0, <4>1
      <4> QED BY <1>0, <4>2 DEF Range
    <3>3. Contract!Record(js)
      BY <1>0, <1>p, <1>u, <2>1, <3>1, <3>2 DEF Contract!Record, Persisted
    <3> QED BY <1>p, <2>1, <3>3 DEF Contract!Next
  <2>3. CASE result # "ok"
    <3>1. FailBatch(w)
      BY <1>4, <2>3 DEF IndexBatch
    <3>2. Contract!Become(js, "lost")
      BY <1>0, <3>1, StatusKept DEF FailBatch, StatusOf
    <3>3. Contract!Lose(js)
      BY <1>p, <1>u, <2>1, <3>2 DEF Contract!Lose
    <3> QED BY <1>p, <2>1, <3>3 DEF Contract!Next
  <2> QED BY <2>2, <2>3
<1> QED BY <1>1, <1>2, <1>3, <1>4 DEF WorkerStep

\* Every step of the writer is a step of the contract, or does not concern it.
LEMMA RefineStep ==
  ASSUME ShapeInv, ShapeInv', StoreInv, DrainInv, OwnInv, [Next]_vars
  PROVE  [Contract!Next]_Contract!vars
<1>0. ASSUME ~Crashed, UNCHANGED spc
      PROVE  Phase = PhaseOf(cpc) /\ Phase' = PhaseOf(cpc')
  BY <1>0, LivesOn, PhaseIs
<1>1. CASE ~Crashed /\ CloseBegin
  <2>1. Phase = "open" /\ Phase' = "closing" /\ UNCHANGED <<fate, stored>>
    BY <1>0, <1>1 DEF CloseBegin, PhaseOf, backendVars, submitterVars
  <2>2. Contract!CloseBegin
    BY <2>1 DEF Contract!CloseBegin
  <2> QED BY <2>2 DEF Contract!Next
<1>2. CASE ~Crashed /\ CloseReturn
  <2>1. Phase = "closing" /\ Phase' = "closed" /\ UNCHANGED <<fate, stored>>
    BY <1>0, <1>2 DEF CloseReturn, PhaseOf, backendVars, submitterVars
  <2>2. ASSUME NEW j \in Jobs PROVE StatusOf(fate[j]) # "accepted"
    <3>1. Range(queue) = {} /\ \A w \in Workers : wpc[w] = "exited"
      BY <1>2, WorkersAssumption DEF CloseReturn, DrainInv, Range
    <3>2. fate[j] # "queued"
      BY <3>1 DEF DrainInv, Pending, Active
    <3>3. fate[j] \in Fates
      BY DEF ShapeInv, TypeOK
    <3> QED BY <3>2, <3>3 DEF StatusOf, Fates
  <2>3. Contract!CloseReturn
    BY <2>1, <2>2 DEF Contract!CloseReturn
  <2> QED BY <2>3 DEF Contract!Next
<1>3. CASE UpdateMetricsRead \/ UpdateMetricsStore \/ Finished \/ UNCHANGED vars
  <2>1. UNCHANGED <<fate, stored, cpc, spc>>
    BY <1>3 DEF UpdateMetricsRead, UpdateMetricsStore, Finished, vars, backendVars, submitterVars
  <2> QED BY <2>1 DEF Contract!vars, Phase, Crashed
<1> QED BY <1>1, <1>2, <1>3, RefineSubmit, RefineWorker DEF Next, Step

\* The writer implements its contract: in every interleaving, with any number of
\* submitters, workers and jobs, a job is accepted only before Close, settled once,
\* recorded only when its objects are durable, and settled before Close returns,
\* and only a Submit that Close overtook may crash the process.
THEOREM KeepsContract == Spec => ImplementsContract
<1>1. Init => Contract!Init
  <2>1. ASSUME Init PROVE ~Crashed
    BY <2>1 DEF Init, Crashed
  <2> QED BY <2>1 DEF Init, Contract!Init, StatusOf, Phase, PhaseOf
<1>2. Init => StoreInv /\ DrainInv
  BY DEF Init, StoreInv, IndexedOnlyIfStored, PrefixPersisted, DrainInv
<1>3. ShapeInv /\ ShapeInv' /\ StoreInv /\ DrainInv /\ OwnInv /\ [Next]_vars
        => [Contract!Next]_Contract!vars
  BY RefineStep
<1> QED
  BY <1>1, <1>2, <1>3, ShapeInit, ShapeStep, StoreStep, DrainStep, OwnInit, OwnStep, PTL
  DEF Spec, ImplementsContract, Contract!Spec

-----------------------------------------------------------------------------
(* Sums over finite sets of jobs *)

\* Every set of numbers that is not empty has a least member.
LEMMA LeastNumber ==
  ASSUME NEW S, S \subseteq Nat, S # {}
  PROVE  \E x \in S : \A y \in S : x <= y
<1> DEFINE R == {p \in Nat \X Nat : p[1] < p[2]}
<1>1. IsWellFoundedOn(R, Nat)
  BY NatLessThanWellFounded DEF OpToRel
<1>2. PICK x \in S : \A y \in S : ~(<<y, x>> \in R)
  <2> HIDE DEF R
  <2> QED BY <1>1, WFMin
<1>3. \A y \in S : ~(y < x)
  BY <1>2
<1> QED BY <1>3

\* Induction over the subsets of a finite set, for a set of subsets.
LEMMA SubsetInduction ==
  ASSUME NEW U, IsFiniteSet(U), NEW G,
         \A T \in SUBSET U : (\A V \in SUBSET T : V # T => V \in G) => T \in G
  PROVE  \A T \in SUBSET U : T \in G
<1> SUFFICES ASSUME NEW B \in SUBSET U, B \notin G PROVE FALSE
  OBVIOUS
<1> DEFINE Sizes == {n \in Nat : \E T \in SUBSET U : T \notin G /\ Cardinality(T) = n}
<1>1. \A T \in SUBSET U : IsFiniteSet(T) /\ Cardinality(T) \in Nat
  BY FS_Subset, FS_CardinalityType
<1>2. Cardinality(B) \in Sizes
  BY <1>1
<1>3. PICK n \in Sizes : \A m \in Sizes : n <= m
  <2>1. Sizes \subseteq Nat /\ Sizes # {}
    BY <1>2
  <2> HIDE DEF Sizes
  <2> QED BY <2>1, LeastNumber
<1>4. PICK T \in SUBSET U : T \notin G /\ Cardinality(T) = n
  BY <1>3
<1>5. ASSUME NEW V \in SUBSET T, V # T PROVE V \in G
  <2>1. V \in SUBSET U /\ IsFiniteSet(T)
    BY <1>1
  <2>2. Cardinality(V) \in Nat /\ Cardinality(V) <= n /\ Cardinality(V) # n
    BY <1>1, <1>4, <1>5, <2>1, FS_Subset
  <2>3. Cardinality(V) \notin Sizes
    BY <1>3, <2>2
  <2> QED BY <2>1, <2>2, <2>3
<1> QED BY <1>4, <1>5

\* The element the sum takes out of a set next.
Pick(s) == CHOOSE x \in s : TRUE

LEMMA PickIn == ASSUME NEW s, s # {} PROVE Pick(s) \in s
  BY DEF Pick

\* f adds up the sizes of the sets in D.
Sums(f, D) == f = [s \in D |-> IF s = {} THEN 0 ELSE Size[Pick(s)] + f[s \ {Pick(s)}]]

\* Bytes is such a function, if there is one.
LEMMA BytesIs == ASSUME NEW S PROVE Bytes(S) = (CHOOSE f : Sums(f, SUBSET S))[S]
  BY DEF Bytes, MapThenSumSet, MapThenFoldSet, Sums, Pick

\* The recursive definition of Bytes has a solution.
LEMMA SumsExist ==
  ASSUME NEW S, IsFiniteSet(S)
  PROVE  \E f : Sums(f, SUBSET S)
<1> DEFINE Level(n) == {s \in SUBSET S : Cardinality(s) <= n}
           Unsolved == {n \in Nat : ~\E f : Sums(f, Level(n))}
<1>1. \A s \in SUBSET S : IsFiniteSet(s) /\ Cardinality(s) \in Nat
  BY FS_Subset, FS_CardinalityType
<1>2. \E f : Sums(f, Level(0))
  <2>1. \A s \in Level(0) : s = {}
    BY <1>1, FS_EmptySet
  <2>2. Sums([s \in Level(0) |-> 0], Level(0))
    <3> HIDE DEF Level
    <3> QED BY <2>1 DEF Sums
  <2> QED BY <2>2
<1>3. ASSUME NEW n \in Nat, NEW f, Sums(f, Level(n))
      PROVE  \E g : Sums(g, Level(n + 1))
  <2> DEFINE g == [s \in Level(n + 1) |-> IF s = {} THEN 0 ELSE Size[Pick(s)] + f[s \ {Pick(s)}]]
  <2>1. ASSUME NEW s \in Level(n + 1), s # {} PROVE s \ {Pick(s)} \in Level(n)
    <3>1. Pick(s) \in s /\ IsFiniteSet(s) /\ Cardinality(s) \in Nat /\ Cardinality(s) <= n + 1
      BY <1>1, <2>1, PickIn
    <3>2. Cardinality(s \ {Pick(s)}) = Cardinality(s) - 1
      BY <3>1, FS_RemoveElement
    <3> QED BY <3>1, <3>2
  <2>2. Level(n) \subseteq Level(n + 1)
    BY <1>1
  <2> HIDE DEF Level
  <2>3. \A s \in Level(n) : g[s] = f[s]
    BY <1>3, <2>2 DEF Sums
  <2>4. g = [s \in Level(n + 1) |-> IF s = {} THEN 0 ELSE Size[Pick(s)] + g[s \ {Pick(s)}]]
    BY <2>1, <2>3
  <2>5. Sums(g, Level(n + 1))
    BY <2>4 DEF Sums
  <2> QED BY <2>5
<1>4. Unsolved = {}
  <2> SUFFICES ASSUME Unsolved # {} PROVE FALSE
    OBVIOUS
  <2>1. Unsolved \subseteq Nat
    OBVIOUS
  <2>2. PICK n \in Unsolved : \A m \in Unsolved : n <= m
    <3> HIDE DEF Unsolved
    <3> QED BY <2>1, LeastNumber
  <2> HIDE DEF Level
  <2>3. n # 0
    BY <1>2, <2>2
  <2>4. n - 1 \in Nat /\ n - 1 \notin Unsolved
    BY <2>2, <2>3
  <2>5. \E f : Sums(f, Level((n - 1) + 1))
    BY <1>3, <2>4
  <2>6. (n - 1) + 1 = n
    BY <2>2
  <2> QED BY <2>2, <2>5, <2>6
<1>5. SUBSET S = Level(Cardinality(S))
  BY <1>1, FS_Subset
<1>6. \E f : Sums(f, Level(Cardinality(S)))
  <2>1. Cardinality(S) \in Nat
    BY <1>1
  <2> HIDE DEF Level
  <2> QED BY <1>4, <2>1
<1> HIDE DEF Level
<1> QED BY <1>5, <1>6

\* What Bytes computes, an element at a time.
LEMMA BytesPick ==
  ASSUME NEW S, IsFiniteSet(S)
  PROVE  Bytes(S) = IF S = {} THEN 0 ELSE Size[Pick(S)] + Bytes(S \ {Pick(S)})
<1> DEFINE F(T) == CHOOSE f : Sums(f, SUBSET T)
<1>1. ASSUME NEW T \in SUBSET S
      PROVE  Sums(F(T), SUBSET T) /\ Bytes(T) = F(T)[T]
  <2>1. \E f : Sums(f, SUBSET T)
    BY FS_Subset, SumsExist
  <2> QED BY <2>1, BytesIs
<1>2. ASSUME NEW T \in SUBSET S, NEW V \in SUBSET T
      PROVE  F(T)[V] = IF V = {} THEN 0 ELSE Size[Pick(V)] + F(T)[V \ {Pick(V)}]
  <2> HIDE DEF F
  <2> QED BY <1>1 DEF Sums
<1> HIDE DEF F
<1>3. ASSUME NEW T \in SUBSET S
      PROVE  \A V \in SUBSET T : F(S)[V] = F(T)[V]
  <2> DEFINE G == {V \in SUBSET T : F(S)[V] = F(T)[V]}
  <2>1. ASSUME NEW V \in SUBSET T, \A W \in SUBSET V : W # V => W \in G
        PROVE  V \in G
    <3>1. CASE V = {}
      BY <1>2, <3>1
    <3>2. CASE V # {}
      <4>1. V \ {Pick(V)} \in G
        BY <2>1, <3>2, PickIn
      <4> QED BY <1>2, <3>2, <4>1
    <3> QED BY <3>1, <3>2
  <2>2. IsFiniteSet(T)
    BY FS_Subset
  <2> HIDE DEF G
  <2>3. \A V \in SUBSET T : V \in G
    BY <2>1, <2>2, SubsetInduction
  <2> QED BY <2>3 DEF G
<1>4. CASE S = {}
  BY <1>1, <1>2, <1>4
<1>5. CASE S # {}
  <2> DEFINE T == S \ {Pick(S)}
  <2>1. Bytes(T) = F(T)[T] /\ F(S)[T] = F(T)[T]
    BY <1>1, <1>3
  <2>2. Bytes(S) = Size[Pick(S)] + F(S)[T]
    BY <1>1, <1>2, <1>5
  <2> QED BY <1>5, <2>1, <2>2
<1> QED BY <1>4, <1>5

\* Taking any job out of a finite set takes its size out of the sum.
LEMMA BytesRemove ==
  ASSUME NEW S \in SUBSET Jobs, IsFiniteSet(S)
  PROVE  /\ Bytes(S) \in Nat
         /\ \A x \in S : Bytes(S \ {x}) \in Nat /\ Bytes(S) = Size[x] + Bytes(S \ {x})
<1> DEFINE G == {T \in SUBSET S :
                   /\ Bytes(T) \in Nat
                   /\ \A x \in T : Bytes(T) = Size[x] + Bytes(T \ {x})}
<1>1. ASSUME NEW T \in SUBSET S, \A V \in SUBSET T : V # T => V \in G
      PROVE  T \in G
  <2>1. IsFiniteSet(T) /\ \A x \in T : IsFiniteSet(T \ {x})
    BY FS_Subset
  <2>2. CASE T = {}
    <3>1. Bytes(T) = 0
      BY <2>1, <2>2, BytesPick
    <3> QED BY <2>2, <3>1
  <2>3. CASE T # {}
    <3>1. PICK p \in T : p = Pick(T) /\ p \in Jobs
      BY <2>3, PickIn
    <3>2. Bytes(T) = Size[p] + Bytes(T \ {p}) /\ Size[p] \in Nat
      BY <2>1, <2>3, <3>1, BytesPick, SizeAssumption
    <3>3. \A x \in T : T \ {x} \in G
      BY <1>1
    <3>4. Bytes(T) \in Nat
      BY <3>1, <3>2, <3>3
    <3>5. ASSUME NEW x \in T, x # p PROVE Bytes(T) = Size[x] + Bytes(T \ {x})
      <4> DEFINE R == (T \ {x}) \ {p}
      <4>1. R = (T \ {p}) \ {x} /\ R \in G
        <5>1. R = (T \ {p}) \ {x} /\ R \in SUBSET T /\ R # T
          BY <3>5
        <5> QED BY <1>1, <5>1
      <4>2. Bytes(T \ {p}) = Size[x] + Bytes(R)
        BY <3>1, <3>3, <3>5, <4>1
      <4>3. Bytes(T \ {x}) = Size[p] + Bytes(R)
        BY <3>1, <3>3, <3>5, <4>1
      <4>4. Bytes(R) \in Nat /\ Size[x] \in Nat /\ x \in Jobs
        BY <4>1, SizeAssumption
      <4> HIDE DEF R
      <4> QED BY <3>2, <4>2, <4>3, <4>4
    <3> QED BY <3>1, <3>2, <3>4, <3>5
  <2> QED BY <2>2, <2>3
<1> HIDE DEF G
<1>2. \A T \in SUBSET S : T \in G
  BY <1>1, SubsetInduction
<1> QED BY <1>2 DEF G

\* Putting a job in adds its size.
LEMMA BytesAdd ==
  ASSUME NEW S \in SUBSET Jobs, IsFiniteSet(S), NEW x \in Jobs, x \notin S
  PROVE  Bytes(S \cup {x}) = Bytes(S) + Size[x] /\ IsFiniteSet(S \cup {x})
<1>1. S \cup {x} \in SUBSET Jobs /\ IsFiniteSet(S \cup {x}) /\ (S \cup {x}) \ {x} = S
  BY FS_AddElement
<1>2. Bytes(S \cup {x}) = Size[x] + Bytes((S \cup {x}) \ {x})
  BY <1>1, BytesRemove
<1> QED BY <1>1, <1>2, BytesRemove, SizeAssumption

\* The bytes of disjoint sets add up.
LEMMA BytesUnion ==
  ASSUME NEW S \in SUBSET Jobs, IsFiniteSet(S), NEW R \in SUBSET Jobs, IsFiniteSet(R), S \cap R = {}
  PROVE  Bytes(S \cup R) = Bytes(S) + Bytes(R) /\ Bytes(S) \in Nat /\ Bytes(R) \in Nat
<1> DEFINE G == {T \in SUBSET R : Bytes(S \cup T) = Bytes(S) + Bytes(T)}
<1>0. Bytes(S) \in Nat /\ Bytes(R) \in Nat
  BY BytesRemove
<1>1. ASSUME NEW T \in SUBSET R, \A V \in SUBSET T : V # T => V \in G
      PROVE  T \in G
  <2>1. CASE T = {}
    <3>1. S \cup T = S /\ Bytes(T) = 0
      BY <2>1, BytesPick, FS_EmptySet
    <3> QED BY <1>0, <3>1
  <2>2. CASE T # {}
    <3>1. PICK x \in T : x \in Jobs
      BY <2>2
    <3>2. T \ {x} \in G
      BY <1>1, <3>1
    <3> DEFINE V == T \ {x}
    <3>3. /\ V \in SUBSET Jobs /\ IsFiniteSet(V) /\ x \notin V /\ x \notin S \cup V
          /\ S \cup V \in SUBSET Jobs /\ IsFiniteSet(S \cup V)
          /\ V \cup {x} = T /\ (S \cup V) \cup {x} = S \cup T
      BY <3>1, FS_Subset, FS_Union
    <3> HIDE DEF V
    <3>4. Bytes(T) = Bytes(V) + Size[x] /\ Bytes(S \cup T) = Bytes(S \cup V) + Size[x]
      BY <3>1, <3>3, BytesAdd
    <3>5. Bytes(S \cup V) = Bytes(S) + Bytes(V)
      BY <3>2 DEF V
    <3>6. Bytes(V) \in Nat /\ Size[x] \in Nat
      BY <3>1, <3>3, BytesRemove, SizeAssumption
    <3> QED BY <1>0, <3>4, <3>5, <3>6
  <2> QED BY <2>1, <2>2
<1> HIDE DEF G
<1>2. \A T \in SUBSET R : T \in G
  BY <1>1, SubsetInduction
<1> QED BY <1>0, <1>2 DEF G

\* A part has no more bytes than the whole.
LEMMA BytesSubset ==
  ASSUME NEW S \in SUBSET Jobs, IsFiniteSet(S), NEW R \in SUBSET S
  PROVE  Bytes(R) <= Bytes(S) /\ Bytes(R) \in Nat /\ Bytes(S) \in Nat
<1>1. /\ IsFiniteSet(R) /\ IsFiniteSet(S \ R) /\ R \in SUBSET Jobs /\ S \ R \in SUBSET Jobs
      /\ R \cap (S \ R) = {} /\ R \cup (S \ R) = S
  BY FS_Subset
<1>2. Bytes(R \cup (S \ R)) = Bytes(R) + Bytes(S \ R) /\ Bytes(R) \in Nat /\ Bytes(S \ R) \in Nat
  BY <1>1, BytesUnion
<1>3. Bytes(S) = Bytes(R) + Bytes(S \ R)
  BY <1>1, <1>2
<1> QED BY <1>2, <1>3

-----------------------------------------------------------------------------
(* Where the jobs are *)

SendPCs == {"send", "evict", "resend"}
Settled == {"failed", "indexed"}

\* The jobs Submit was called for, of which there are finitely many.
Known == {j \in Jobs : fate[j] # "new"}

\* Batches have distinct jobs, of which those of a batch to be released are settled.
PlaceInv ==
  /\ \A w \in Workers : IsInjective(batch[w])
  /\ \A w \in Workers : wpc[w] = "release" => \A j \in Range(batch[w]) : fate[j] \in Settled
  /\ \A v, w \in Workers : v # w => \A j \in Range(batch[v]) : j \notin Range(batch[w])
  /\ IsFiniteSet(Known)

\* The jobs of worker w whose bytes it has not released.
Unreleased(w) ==
  {batch[w][i] : i \in {n \in DOMAIN batch[w] : wpc[w] = "release" => n >= pos[w]}}

\* The jobs of a batch that is not empty are queued or settled.
LEMMA BatchFates ==
  ASSUME ShapeInv, OwnInv, PlaceInv, NEW w \in Workers, NEW j \in Range(batch[w])
  PROVE  /\ j \in Jobs /\ j \notin Range(queue)
         /\ wpc[w] \in Active => fate[j] = "queued"
         /\ wpc[w] = "release" => fate[j] \in Settled
         /\ wpc[w] \in Active \cup {"release"}
<1>1. batch[w] \in Seq(Jobs) /\ wpc[w] \in WorkerPCs /\ Range(batch[w]) # {}
  BY DEF ShapeInv, TypeOK, WorkersOK
<1>2. j \in Jobs /\ batch[w] # <<>>
  BY <1>1 DEF Range
<1>3. wpc[w] \in Active \cup {"release"}
  BY <1>1, <1>2 DEF ShapeInv, BatchShape, WorkerPCs, Active
<1>4. CASE wpc[w] \in Active
  <2>1. wpc[w] # "release"
    BY <1>4 DEF Active
  <2> QED BY <1>2, <1>4, <2>1 DEF OwnInv, SingleInv
<1>5. CASE wpc[w] = "release"
  <2>1. fate[j] \in Settled /\ wpc[w] \notin Active
    BY <1>5 DEF PlaceInv, Active
  <2> QED BY <1>2, <1>5, <2>1 DEF OwnInv, SingleInv, Settled
<1> QED BY <1>3, <1>4, <1>5

\* A step that leaves the batches alone, and the fate of every settled job.
LEMMA PlaceStay ==
  ASSUME ShapeInv, PlaceInv, UNCHANGED <<batch, wpc>>, IsFiniteSet(Known'),
         \A j \in Jobs : fate[j] \in Settled => fate'[j] = fate[j]
  PROVE  PlaceInv'
<1>1. \A w \in Workers : Range(batch[w]) \subseteq Jobs
  BY DEF ShapeInv, TypeOK, WorkersOK, Range
<1> QED BY <1>1 DEF PlaceInv

\* The steps of a submitter keep the batches as they are.
LEMMA PlaceSubmit ==
  ASSUME ShapeInv, OwnInv, PlaceInv, NEW s \in Submitters,
         SubmitStep(s) \/ Send(s) \/ \E j \in Jobs : SubmitRefused(s, j) \/ SubmitBegin(s, j)
  PROVE  PlaceInv'
<1>0. /\ queue \in Seq(Jobs) /\ fate \in [Jobs -> Fates]
      /\ sjob \in [Submitters -> Jobs \cup {NoJob}]
      /\ \A t \in Submitters : sjob[t] = NoJob <=> spc[t] \in {"idle", "panicked"}
  BY DEF ShapeInv, TypeOK, ChannelOK, SubmittersOK
<1>1. UNCHANGED <<batch, wpc>>
  BY DEF SubmitStep, Send, SubmitRefused, SubmitBegin, Allocate, AllocateUndo, SendPanics,
         DropNewest, FullSeen, DropOldest, workerVars
<1>2. \/ fate' = fate
      \/ \E j \in Jobs, f \in Fates :
           fate' = [fate EXCEPT ![j] = f] /\ fate[j] \in {"new", "held", "queued"}
  <2>1. ASSUME NEW j \in Jobs, SubmitRefused(s, j) \/ SubmitBegin(s, j)
        PROVE  fate[j] = "new" /\ \E f \in Fates : fate' = [fate EXCEPT ![j] = f]
    BY <2>1 DEF SubmitRefused, SubmitBegin, Fates
  <2>2. CASE AllocateUndo(s) \/ SendPanics(s) \/ DropNewest(s) \/ Send(s)
    <3>1. sjob[s] \in Jobs /\ fate[sjob[s]] = "held"
      BY <1>0, <2>2 DEF AllocateUndo, SendPanics, DropNewest, Send, OwnInv, HeldInv
    <3>2. \E f \in Fates : fate' = [fate EXCEPT ![sjob[s]] = f]
      BY <2>2 DEF AllocateUndo, SendPanics, DropNewest, Send, Leave, Fates
    <3> QED BY <3>1, <3>2
  <2>3. CASE DropOldest(s) /\ queue # <<>>
    <3>1. Head(queue) \in Jobs /\ fate[Head(queue)] = "queued"
      BY <1>0, <2>3, RangeHeadTail DEF OwnInv, SingleInv
    <3>2. fate' = [fate EXCEPT ![Head(queue)] = "evicted"]
      BY <2>3 DEF DropOldest
    <3> QED BY <3>1, <3>2 DEF Fates
  <2>4. CASE Allocate(s) \/ FullSeen(s) \/ (DropOldest(s) /\ queue = <<>>)
    BY <2>4 DEF Allocate, FullSeen, DropOldest
  <2> QED BY <2>1, <2>2, <2>3, <2>4 DEF SubmitStep
<1>3. CASE fate' = fate
  BY <1>1, <1>3, PlaceStay DEF PlaceInv, Known
<1>4. ASSUME NEW j \in Jobs, NEW f \in Fates,
             fate' = [fate EXCEPT ![j] = f], fate[j] \in {"new", "held", "queued"}
      PROVE  PlaceInv'
  <2>1. Known' \subseteq Known \cup {j}
    BY <1>0, <1>4 DEF Known
  <2>2. IsFiniteSet(Known')
    <3>1. IsFiniteSet(Known \cup {j})
      BY FS_AddElement DEF PlaceInv
    <3> QED BY <2>1, <3>1, FS_Subset
  <2>3. \A i \in Jobs : fate[i] \in Settled => fate'[i] = fate[i]
    BY <1>0, <1>4 DEF Settled
  <2> QED BY <1>1, <2>2, <2>3, PlaceStay
<1> QED BY <1>2, <1>3, <1>4

\* What a worker takes from the channel is in no batch yet.
LEMMA PlaceTake ==
  ASSUME ShapeInv, OwnInv, PlaceInv, NEW w \in Workers, Receive(w) \/ Collect(w)
  PROVE  /\ PlaceInv'
         /\ Head(queue) \in Jobs /\ Range(queue) = Range(queue') \cup {Head(queue)}
         /\ Range(batch'[w]) = Range(batch[w]) \cup {Head(queue)} /\ wpc[w] # "release"
         /\ wpc'[w] = "collect"
         /\ \A v \in Workers \ {w} : batch'[v] = batch[v] /\ wpc'[v] = wpc[v] /\ pos'[v] = pos[v]
<1>0. /\ wpc \in [Workers -> WorkerPCs] /\ batch \in [Workers -> Seq(Jobs)]
      /\ queue \in Seq(Jobs) /\ queue # <<>> /\ batch[w] \in Seq(Jobs)
  BY DEF ShapeInv, TypeOK, ChannelOK, WorkersOK, Receive, Collect
<1>1. UNCHANGED <<fate, pos>> /\ queue' = Tail(queue) /\ wpc[w] # "release"
  BY DEF Receive, Collect
<1>2. Head(queue) \in Jobs /\ Range(queue) = {Head(queue)} \cup Range(queue')
  BY <1>0, <1>1, RangeHeadTail
<1>3. batch'[w] = Append(batch[w], Head(queue)) /\ wpc'[w] = "collect"
      /\ \A v \in Workers \ {w} : batch'[v] = batch[v] /\ wpc'[v] = wpc[v]
  BY <1>0 DEF Receive, Collect
<1>4. \A v \in Workers : Head(queue) \notin Range(batch[v])
  BY <1>2, BatchFates
<1>5. Range(batch'[w]) = Range(batch[w]) \cup {Head(queue)} /\ IsInjective(batch'[w])
  BY <1>0, <1>2, <1>3, <1>4, RangeAppend, InjectiveAppend DEF PlaceInv
<1>6. \A u, v \in Workers : u # v => \A j \in Range(batch'[u]) : j \notin Range(batch'[v])
  BY <1>3, <1>4, <1>5 DEF PlaceInv
<1>7. \A v \in Workers : IsInjective(batch'[v])
                         /\ (wpc'[v] = "release" => \A j \in Range(batch'[v]) : fate'[j] \in Settled)
  BY <1>1, <1>3, <1>5 DEF PlaceInv
<1>8. IsFiniteSet(Known')
  BY <1>1 DEF PlaceInv, Known
<1> QED BY <1>1, <1>2, <1>3, <1>5, <1>6, <1>7, <1>8 DEF PlaceInv

\* Worker w goes on without taking, settling or releasing a job.
Advances(w) ==
  /\ UNCHANGED <<queue, closed, used, stats, spc, sjob, batch, fate>>
  /\ wpc[w] # "release" /\ wpc'[w] # "release"
  /\ \A v \in Workers \ {w} : wpc'[v] = wpc[v] /\ pos'[v] = pos[v]

\* Worker w settles its batch, as failed or as indexed.
Settles(w, f) ==
  /\ UNCHANGED <<queue, closed, used, spc, sjob, batch>>
  /\ wpc[w] \in Active /\ wpc'[w] = "release" /\ pos'[w] = 1
  /\ \A v \in Workers \ {w} : wpc'[v] = wpc[v] /\ pos'[v] = pos[v]
  /\ fate' = [j \in Jobs |-> IF j \in Range(batch[w]) THEN f ELSE fate[j]]
  /\ IF f = "failed" THEN Count("failed", Len(batch[w])) ELSE stats' = stats

\* The steps of a worker.
LEMMA WorkerCases ==
  ASSUME ShapeInv, NEW w \in Workers, WorkerStep(w)
  PROVE  \/ Receive(w) \/ Collect(w) \/ Release(w) \/ Advances(w)
         \/ \E f \in Settled : Settles(w, f)
<1>0. wpc \in [Workers -> WorkerPCs] /\ pos \in [Workers -> Nat]
  BY DEF ShapeInv, TypeOK, WorkersOK
<1>1. CASE WorkerExit(w) \/ CollectDone(w)
  BY <1>0, <1>1 DEF WorkerExit, CollectDone, Advances, FirstPut, channel, submitterVars
<1>2. ASSUME FailBatch(w), wpc[w] \in Active, UNCHANGED <<channel, used, submitterVars, batch>>
      PROVE  Settles(w, "failed")
  BY <1>0, <1>2 DEF FailBatch, Settles, channel, submitterVars
<1>3. ASSUME NEW result \in PutResults, PutInit(w, result)
      PROVE  Advances(w) \/ Settles(w, "failed")
  <2>1. CASE PutAccepted(result)
    BY <1>0, <1>3, <2>1 DEF PutInit, Advances, channel, submitterVars
  <2>2. CASE ~PutAccepted(result)
    BY <1>2, <1>3, <2>2 DEF PutInit, Active
  <2> QED BY <2>1, <2>2
<1>4. ASSUME NEW result \in PutResults, PutGOP(w, result)
      PROVE  Advances(w) \/ Settles(w, "failed")
  <2>1. CASE PutAccepted(result)
    <3>1. UNCHANGED <<queue, closed, used, stats, spc, sjob, batch, fate>> /\ wpc[w] = "put_gop"
      BY <1>4, <2>1 DEF PutGOP, channel, submitterVars
    <3>2. CASE pos[w] = Len(batch[w])
      BY <1>0, <1>4, <2>1, <3>1, <3>2 DEF PutGOP, Advances
    <3>3. CASE pos[w] # Len(batch[w])
      <4>1. /\ wpc' = [wpc EXCEPT ![w] = FirstPut(batch[w][pos[w] + 1])]
            /\ pos' = [pos EXCEPT ![w] = @ + 1]
        BY <1>4, <2>1, <3>3 DEF PutGOP
      <4> QED BY <1>0, <3>1, <4>1 DEF Advances, FirstPut
    <3> QED BY <3>2, <3>3
  <2>2. CASE ~PutAccepted(result)
    BY <1>2, <1>4, <2>2 DEF PutGOP, Active
  <2> QED BY <2>1, <2>2
<1>5. ASSUME NEW result \in IndexResults, IndexBatch(w, result)
      PROVE  Settles(w, "indexed") \/ Settles(w, "failed")
  <2>1. CASE result = "ok"
    BY <1>0, <1>5, <2>1 DEF IndexBatch, Settles, Active, channel, submitterVars
  <2>2. CASE result # "ok"
    BY <1>2, <1>5, <2>2 DEF IndexBatch, Active
  <2> QED BY <2>1, <2>2
<1> QED BY <1>1, <1>3, <1>4, <1>5 DEF WorkerStep, Settled

\* A worker keeps the batches apart.
LEMMA PlaceWorker ==
  ASSUME ShapeInv, OwnInv, PlaceInv, NEW w \in Workers, WorkerStep(w)
  PROVE  PlaceInv'
<1>0. wpc \in [Workers -> WorkerPCs] /\ batch \in [Workers -> Seq(Jobs)] /\ fate \in [Jobs -> Fates]
  BY DEF ShapeInv, TypeOK, WorkersOK
<1>1. CASE Receive(w) \/ Collect(w)
  BY <1>1, PlaceTake
<1>2. CASE Advances(w)
  BY <1>2 DEF Advances, PlaceInv, Known
<1>3. ASSUME NEW f \in Settled, Settles(w, f) PROVE PlaceInv'
  <2>1. \A j \in Jobs : fate'[j] = IF j \in Range(batch[w]) THEN f ELSE fate[j]
    BY <1>3 DEF Settles
  <2>2. \A v \in Workers : Range(batch[v]) \subseteq Jobs
    BY <1>0 DEF Range
  <2>3. \A j \in Range(batch[w]) : fate[j] = "queued"
    BY <1>3, BatchFates DEF Settles
  <2>4. Known' = Known
    BY <2>1, <2>2, <2>3 DEF Known, Settled
  <2>5. ASSUME NEW v \in Workers, wpc'[v] = "release", NEW j \in Range(batch[v])
        PROVE  fate'[j] \in Settled
    BY <1>3, <2>1, <2>2, <2>5 DEF Settles, PlaceInv
  <2> QED BY <1>3, <2>4, <2>5 DEF PlaceInv, Settles
<1>4. CASE Release(w)
  <2>1. /\ UNCHANGED fate
        /\ \A v \in Workers \ {w} : batch'[v] = batch[v] /\ wpc'[v] = wpc[v]
        /\ \/ batch'[w] = batch[w] /\ wpc'[w] = wpc[w]
           \/ batch'[w] = <<>> /\ wpc'[w] = "recv"
    BY <1>0, <1>4 DEF Release
  <2>2. Range(<<>>) = {} /\ IsInjective(<<>>)
    BY DEF Range, IsInjective
  <2>3. Known' = Known
    BY <2>1 DEF Known
  <2> QED BY <2>1, <2>2, <2>3 DEF PlaceInv
<1> QED BY <1>1, <1>2, <1>3, <1>4, WorkerCases

\* Every step keeps the batches apart.
LEMMA PlaceStep == ShapeInv /\ OwnInv /\ PlaceInv /\ [Next]_vars => PlaceInv'
<1> SUFFICES ASSUME ShapeInv, OwnInv, PlaceInv, [Next]_vars PROVE PlaceInv'
  OBVIOUS
<1>1. CASE CloseBegin \/ CloseReturn \/ UpdateMetricsRead \/ UpdateMetricsStore \/ UNCHANGED vars
  <2>1. UNCHANGED <<batch, wpc, fate>>
    BY <1>1 DEF CloseBegin, CloseReturn, UpdateMetricsRead, UpdateMetricsStore, vars, workerVars
  <2> QED BY <2>1 DEF PlaceInv, Known
<1>2. CASE \E s \in Submitters :
             SubmitStep(s) \/ Send(s) \/ \E j \in Jobs : SubmitRefused(s, j) \/ SubmitBegin(s, j)
  BY <1>2, PlaceSubmit
<1>3. CASE \E w \in Workers : WorkerStep(w)
  BY <1>3, PlaceWorker
<1> QED BY <1>1, <1>2, <1>3 DEF Next, Step, Finished

\* No job is anywhere at first.
LEMMA PlaceInit == Init => PlaceInv
<1> SUFFICES ASSUME Init PROVE PlaceInv
  OBVIOUS
<1>1. Range(<<>>) = {} /\ IsInjective(<<>>)
  BY DEF Range, IsInjective
<1>2. Known = {}
  BY DEF Init, Known
<1> QED BY <1>1, <1>2, FS_EmptySet DEF Init, PlaceInv

-----------------------------------------------------------------------------
(* How the jobs in flight change *)

\* Jobs that were admitted and left without their bytes being released.
Leaked == WithFate({"dropped", "evicted", "lost"})

\* The fates of the jobs in flight.
LEMMA InFlight ==
  ASSUME ShapeInv, OwnInv, PlaceInv
  PROVE  /\ \A j : j \in Sending <=> \E s \in Submitters : spc[s] \in SendPCs /\ sjob[s] = j
         /\ \A j : j \in Undoing <=> \E s \in Submitters : spc[s] = "undo" /\ sjob[s] = j
         /\ \A j \in Sending \cup Undoing : j \in Jobs /\ fate[j] = "held"
         /\ \A j : j \in Sending => j \notin Undoing
         /\ \A j \in Range(queue) : j \in Jobs /\ fate[j] = "queued"
         /\ \A w \in Workers : Unreleased(w) \subseteq Range(batch[w])
         /\ \A w \in Workers : \A j \in Unreleased(w) :
              j \in Jobs /\ fate[j] \in {"queued", "failed", "indexed"}
         /\ \A j : j \in Admitted <=>
              j \in Sending \/ j \in Range(queue) \/ \E w \in Workers : j \in Unreleased(w)
         /\ Admitted \subseteq Known /\ Undoing \subseteq Known /\ Leaked \subseteq Known
         /\ \A j \in Admitted : j \notin Undoing /\ j \notin Leaked
<1>1. /\ \A j : j \in Sending <=> \E s \in Submitters : spc[s] \in SendPCs /\ sjob[s] = j
      /\ \A j : j \in Undoing <=> \E s \in Submitters : spc[s] = "undo" /\ sjob[s] = j
  BY DEF Sending, Undoing, SendPCs
<1>2. /\ sjob \in [Submitters -> Jobs \cup {NoJob}]
      /\ \A t \in Submitters : sjob[t] = NoJob <=> spc[t] \in {"idle", "panicked"}
      /\ \A s, t \in Submitters : sjob[s] # NoJob /\ sjob[t] = sjob[s] => t = s
      /\ \A s \in Submitters : sjob[s] # NoJob => fate[sjob[s]] = "held"
  BY DEF ShapeInv, TypeOK, SubmittersOK, OwnInv, HeldInv
<1>3. \A j \in Sending \cup Undoing : j \in Jobs /\ fate[j] = "held"
  BY <1>1, <1>2 DEF SendPCs
<1>4. \A j : j \in Sending => j \notin Undoing
  <2> SUFFICES ASSUME NEW j, j \in Sending, j \in Undoing PROVE FALSE
    OBVIOUS
  <2>1. PICK s \in Submitters : spc[s] \in SendPCs /\ sjob[s] = j
    BY <1>1
  <2>2. PICK t \in Submitters : spc[t] = "undo" /\ sjob[t] = j
    BY <1>1
  <2> QED BY <1>2, <2>1, <2>2 DEF SendPCs
<1>5. \A j \in Range(queue) : j \in Jobs /\ fate[j] = "queued"
  <2>1. queue \in Seq(Jobs)
    BY DEF ShapeInv, TypeOK, ChannelOK
  <2> QED BY <2>1 DEF OwnInv, SingleInv, Range
<1>6. \A w \in Workers : Unreleased(w) \subseteq Range(batch[w])
  BY DEF Unreleased, Range
<1>7. \A w \in Workers : \A j \in Unreleased(w) :
        j \in Jobs /\ fate[j] \in {"queued", "failed", "indexed"}
  BY <1>6, BatchFates DEF Settled
<1>8. \A j : j \in Admitted <=>
        j \in Sending \/ j \in Range(queue) \/ \E w \in Workers : j \in Unreleased(w)
  BY DEF Admitted, Unreleased
<1>9. \A j \in Admitted : j \in Jobs /\ fate[j] \in {"held", "queued", "failed", "indexed"}
  BY <1>3, <1>5, <1>7, <1>8
<1>10. Admitted \subseteq Known /\ Undoing \subseteq Known /\ Leaked \subseteq Known
  BY <1>3, <1>9 DEF Known, Leaked, WithFate
<1>11. \A j \in Admitted : j \notin Undoing /\ j \notin Leaked
  <2> SUFFICES ASSUME NEW j \in Admitted PROVE j \notin Undoing /\ j \notin Leaked
    OBVIOUS
  <2>1. j \notin Leaked
    BY <1>9 DEF Leaked, WithFate
  <2>2. j \notin Undoing
    BY <1>3, <1>4, <1>5, <1>7, <1>8
  <2> QED BY <2>1, <2>2
<1> QED BY <1>1, <1>3, <1>4, <1>5, <1>6, <1>7, <1>8, <1>10, <1>11

\* A step of submitter s changes what is being sent or taken back by its own job.
LEMMA SubmitterMoves ==
  ASSUME ShapeInv, OwnInv, NEW s \in Submitters,
         \A t \in Submitters \ {s} : spc'[t] = spc[t] /\ sjob'[t] = sjob[t]
  PROVE  /\ Sending' = (Sending \ {sjob[s]}) \cup (IF spc'[s] \in SendPCs THEN {sjob'[s]} ELSE {})
         /\ Undoing' = (Undoing \ {sjob[s]}) \cup (IF spc'[s] = "undo" THEN {sjob'[s]} ELSE {})
<1>1. /\ \A j : j \in Sending <=> \E t \in Submitters : spc[t] \in SendPCs /\ sjob[t] = j
      /\ \A j : j \in Sending' <=> \E t \in Submitters : spc'[t] \in SendPCs /\ sjob'[t] = j
      /\ \A j : j \in Undoing <=> \E t \in Submitters : spc[t] = "undo" /\ sjob[t] = j
      /\ \A j : j \in Undoing' <=> \E t \in Submitters : spc'[t] = "undo" /\ sjob'[t] = j
  BY DEF Sending, Undoing, SendPCs
<1>2. \A t \in Submitters : spc[t] \in SendPCs \cup {"undo"} /\ t # s => sjob[t] # sjob[s]
  BY DEF ShapeInv, TypeOK, SubmittersOK, OwnInv, HeldInv, SendPCs
<1>3. ASSUME NEW j
      PROVE  j \in Sending' <=> \/ j \in Sending /\ j # sjob[s]
                                \/ spc'[s] \in SendPCs /\ j = sjob'[s]
  <2>1. CASE spc'[s] \in SendPCs /\ j = sjob'[s]
    BY <1>1, <2>1
  <2>2. CASE ~(spc'[s] \in SendPCs /\ j = sjob'[s])
    <3>1. j \in Sending' <=> \E t \in Submitters \ {s} : spc'[t] \in SendPCs /\ sjob'[t] = j
      BY <1>1, <2>2
    <3>2. j \in Sending /\ j # sjob[s] <=>
            \E t \in Submitters \ {s} : spc[t] \in SendPCs /\ sjob[t] = j
      BY <1>1, <1>2
    <3> QED BY <2>2, <3>1, <3>2
  <2> QED BY <2>1, <2>2
<1>4. ASSUME NEW j
      PROVE  j \in Undoing' <=> \/ j \in Undoing /\ j # sjob[s]
                                \/ spc'[s] = "undo" /\ j = sjob'[s]
  <2>1. CASE spc'[s] = "undo" /\ j = sjob'[s]
    BY <1>1, <2>1
  <2>2. CASE ~(spc'[s] = "undo" /\ j = sjob'[s])
    <3>1. j \in Undoing' <=> \E t \in Submitters \ {s} : spc'[t] = "undo" /\ sjob'[t] = j
      BY <1>1, <2>2
    <3>2. j \in Undoing /\ j # sjob[s] <=>
            \E t \in Submitters \ {s} : spc[t] = "undo" /\ sjob[t] = j
      BY <1>1, <1>2
    <3> QED BY <2>2, <3>1, <3>2
  <2> QED BY <2>1, <2>2
<1> QED BY <1>3, <1>4

\* A submitter that returns or panics takes its job, and nobody else's, with it.
LEMMA LeaveMoves ==
  ASSUME ShapeInv, OwnInv, NEW s \in Submitters, sjob[s] # NoJob,
         NEW pc \in {"idle", "panicked"}, NEW f \in Fates, Leave(s, pc, f)
  PROVE  /\ sjob[s] \in Jobs /\ fate[sjob[s]] = "held" /\ fate'[sjob[s]] = f
         /\ \A j \in Jobs : j # sjob[s] => fate'[j] = fate[j]
         /\ \A t \in Submitters \ {s} : spc'[t] = spc[t] /\ sjob'[t] = sjob[t]
         /\ Sending' = Sending \ {sjob[s]} /\ Undoing' = Undoing \ {sjob[s]}
<1>0. /\ fate \in [Jobs -> Fates] /\ sjob \in [Submitters -> Jobs \cup {NoJob}]
      /\ spc \in [Submitters -> SubmitPCs] /\ fate[sjob[s]] = "held"
  BY DEF ShapeInv, TypeOK, SubmittersOK, OwnInv, HeldInv
<1>1. /\ \A t \in Submitters \ {s} : spc'[t] = spc[t] /\ sjob'[t] = sjob[t]
      /\ spc'[s] \notin SendPCs /\ spc'[s] # "undo"
      /\ fate' = [fate EXCEPT ![sjob[s]] = f]
  BY <1>0 DEF Leave, SendPCs
<1> QED BY <1>0, <1>1, SubmitterMoves

\* What a step does to the sets the ledger is the size of.
Rests == UNCHANGED <<Admitted, Undoing, Leaked, used>>
Admits(j) ==
  /\ j \in Jobs /\ j \notin Admitted /\ Admitted' = Admitted \cup {j}
  /\ used' = used + Size[j] /\ used' <= MaxBytes /\ UNCHANGED <<Undoing, Leaked>>
Exceeds(j) ==
  /\ j \in Jobs /\ j \notin Undoing /\ Undoing' = Undoing \cup {j}
  /\ used' = used + Size[j] /\ UNCHANGED <<Admitted, Leaked>>
TakesBack(j) ==
  /\ j \in Undoing /\ Undoing' = Undoing \ {j}
  /\ used' = used - Size[j] /\ UNCHANGED <<Admitted, Leaked>>
Leaks(j) ==
  /\ j \in Admitted /\ j \notin Leaked /\ Admitted' = Admitted \ {j} /\ Leaked' = Leaked \cup {j}
  /\ UNCHANGED <<Undoing, used>>
Releases(j) ==
  /\ j \in Admitted /\ Admitted' = Admitted \ {j}
  /\ used' = used - Size[j] /\ UNCHANGED <<Undoing, Leaked>>

Flows == Rests \/ \E j \in Jobs : Admits(j) \/ Exceeds(j) \/ TakesBack(j) \/ Leaks(j) \/ Releases(j)

\* The jobs in flight are being sent, in the channel, or in a batch.
LEMMA AdmittedIs ==
  /\ \A j : j \in Admitted <=>
       j \in Sending \/ j \in Range(queue) \/ \E w \in Workers : j \in Unreleased(w)
  /\ \A j : j \in Admitted' <=>
       j \in Sending' \/ j \in Range(queue') \/ \E w \in Workers : j \in Unreleased(w)'
  BY DEF Admitted, Unreleased

\* A step of a submitter that keeps its job, or leaves with it.
LEMMA FlowSubmit ==
  ASSUME ShapeInv, OwnInv, PlaceInv, NEW s \in Submitters,
         SubmitStep(s) \/ Send(s) \/ \E j \in Jobs : SubmitRefused(s, j) \/ SubmitBegin(s, j)
  PROVE  Flows
<1>0. /\ queue \in Seq(Jobs) /\ fate \in [Jobs -> Fates] /\ used \in Int
      /\ sjob \in [Submitters -> Jobs \cup {NoJob}] /\ spc \in [Submitters -> SubmitPCs]
      /\ \A t \in Submitters : sjob[t] = NoJob <=> spc[t] \in {"idle", "panicked"}
      /\ \A t \in Submitters : sjob[t] # NoJob => fate[sjob[t]] = "held"
      /\ \A t \in Submitters : sjob[t] # NoJob /\ sjob[s] = sjob[t] => s = t
  BY DEF ShapeInv, TypeOK, ChannelOK, SubmittersOK, OwnInv, HeldInv
<1>w. \A w \in Workers : Unreleased(w)' = Unreleased(w)
  BY DEF SubmitStep, Send, SubmitRefused, SubmitBegin, Allocate, AllocateUndo, SendPanics,
         DropNewest, FullSeen, DropOldest, workerVars, Unreleased
<1>1. ASSUME NEW j \in Jobs, SubmitRefused(s, j) PROVE Rests
  <2>1. Leaked' = Leaked
    BY <1>0, <1>1 DEF SubmitRefused, Leaked, WithFate
  <2>2. UNCHANGED <<spc, sjob, queue, used>>
    BY <1>1 DEF SubmitRefused, channel, submitterVars
  <2>3. Sending' = Sending /\ Undoing' = Undoing
    BY <2>2 DEF Sending, Undoing
  <2>4. Admitted' = Admitted
    BY <1>w, <2>2, <2>3, AdmittedIs
  <2> QED BY <2>1, <2>2, <2>3, <2>4 DEF Rests
<1>2. ASSUME NEW j \in Jobs, SubmitBegin(s, j) PROVE Rests
  <2>1. Leaked' = Leaked
    BY <1>0, <1>2 DEF SubmitBegin, Leaked, WithFate
  <2>2. /\ UNCHANGED <<queue, used>> /\ spc'[s] = "alloc" /\ sjob[s] = NoJob
        /\ \A t \in Submitters \ {s} : spc'[t] = spc[t] /\ sjob'[t] = sjob[t]
    BY <1>0, <1>2 DEF SubmitBegin, channel
  <2>3. Sending' = Sending \ {NoJob} /\ Undoing' = Undoing \ {NoJob}
    BY <2>2, SubmitterMoves DEF SendPCs
  <2>4. Sending' = Sending /\ Undoing' = Undoing
    BY <2>3, InFlight, NoJobAssumption
  <2>5. Admitted' = Admitted
    BY <1>w, <2>2, <2>4, AdmittedIs
  <2> QED BY <2>1, <2>2, <2>4, <2>5 DEF Rests
<1>3. CASE Allocate(s)
  <2>1. /\ UNCHANGED <<queue, sjob, fate>> /\ used' = used + Size[sjob[s]]
        /\ spc' = [spc EXCEPT ![s] = IF used' > MaxBytes THEN "undo" ELSE "send"]
        /\ spc[s] = "alloc"
    BY <1>3 DEF Allocate, channel, OverLimit
  <2>2. sjob[s] \in Jobs /\ fate[sjob[s]] = "held" /\ sjob[s] \notin Sending /\ sjob[s] \notin Undoing
    BY <1>0, <2>1, InFlight DEF SendPCs
  <2>3. sjob[s] \notin Admitted
    BY <2>2, InFlight
  <2>4. Leaked' = Leaked
    BY <2>1 DEF Leaked, WithFate
  <2>5. /\ Sending' = (Sending \ {sjob[s]}) \cup (IF spc'[s] \in SendPCs THEN {sjob[s]} ELSE {})
        /\ Undoing' = (Undoing \ {sjob[s]}) \cup (IF spc'[s] = "undo" THEN {sjob[s]} ELSE {})
    BY <1>0, <2>1, SubmitterMoves
  <2>6. CASE used' > MaxBytes
    <3>1. Sending' = Sending /\ Undoing' = Undoing \cup {sjob[s]}
      BY <1>0, <2>1, <2>2, <2>5, <2>6 DEF SendPCs
    <3>2. Admitted' = Admitted
      BY <1>w, <2>1, <3>1, AdmittedIs
    <3> QED BY <2>1, <2>2, <2>4, <3>1, <3>2 DEF Flows, Exceeds
  <2>7. CASE ~(used' > MaxBytes)
    <3>1. Sending' = Sending \cup {sjob[s]} /\ Undoing' = Undoing
      BY <1>0, <2>1, <2>2, <2>5, <2>7 DEF SendPCs
    <3>2. Admitted' = Admitted \cup {sjob[s]}
      BY <1>w, <2>1, <3>1, AdmittedIs
    <3>3. used' <= MaxBytes
      <4>1. used' \in Int
        BY <1>0, <2>1, <2>2, SizeAssumption
      <4> QED BY <2>7, <4>1, BoundsAssumption
    <3> QED BY <2>1, <2>2, <2>3, <2>4, <3>1, <3>2, <3>3 DEF Flows, Admits
  <2> QED BY <2>6, <2>7
<1>4. CASE AllocateUndo(s)
  <2>1. /\ spc[s] = "undo" /\ Leave(s, "idle", "over_limit") /\ sjob[s] # NoJob
        /\ used' = used - Size[sjob[s]] /\ queue' = queue
    BY <1>0, <1>4 DEF AllocateUndo, channel
  <2>2. /\ sjob[s] \in Jobs /\ fate[sjob[s]] = "held" /\ fate'[sjob[s]] = "over_limit"
        /\ \A j \in Jobs : j # sjob[s] => fate'[j] = fate[j]
        /\ Sending' = Sending \ {sjob[s]} /\ Undoing' = Undoing \ {sjob[s]}
    BY <2>1, LeaveMoves DEF Fates
  <2>3. Leaked' = Leaked
    BY <2>2 DEF Leaked, WithFate
  <2>4. sjob[s] \in Undoing /\ sjob[s] \notin Sending
    BY <2>1, InFlight
  <2>5. Admitted' = Admitted
    <3>1. Sending' = Sending
      BY <2>2, <2>4
    <3> QED BY <1>w, <2>1, <3>1, AdmittedIs
  <2> QED BY <2>1, <2>2, <2>3, <2>4, <2>5 DEF Flows, TakesBack
<1>5. CASE Send(s)
  <2>1. /\ spc[s] \in SendPCs /\ Leave(s, "idle", "queued") /\ sjob[s] # NoJob
        /\ used' = used /\ queue' = Append(queue, sjob[s])
    BY <1>0, <1>5 DEF Send, SendPCs
  <2>2. /\ sjob[s] \in Jobs /\ fate[sjob[s]] = "held" /\ fate'[sjob[s]] = "queued"
        /\ \A j \in Jobs : j # sjob[s] => fate'[j] = fate[j]
        /\ Sending' = Sending \ {sjob[s]} /\ Undoing' = Undoing \ {sjob[s]}
    BY <2>1, LeaveMoves DEF Fates
  <2>3. Leaked' = Leaked
    BY <2>2 DEF Leaked, WithFate
  <2>4. sjob[s] \in Sending /\ sjob[s] \notin Undoing
    BY <2>1, InFlight
  <2>5. Range(queue') = Range(queue) \cup {sjob[s]}
    BY <1>0, <2>1, <2>2, RangeAppend
  <2>6. Admitted' = Admitted
    <3>1. \A j : j \in Sending' \/ j \in Range(queue') <=> j \in Sending \/ j \in Range(queue)
      BY <2>2, <2>4, <2>5
    <3> QED BY <1>w, <3>1, AdmittedIs
  <2> QED BY <2>1, <2>2, <2>3, <2>4, <2>6 DEF Flows, Rests
<1>6. CASE SendPanics(s) \/ DropNewest(s)
  <2>1. /\ spc[s] \in SendPCs /\ sjob[s] # NoJob /\ used' = used /\ queue' = queue
        /\ \E pc \in {"idle", "panicked"}, f \in {"lost", "dropped"} : Leave(s, pc, f)
    BY <1>0, <1>6 DEF SendPanics, DropNewest, SendPCs, channel
  <2>2. /\ sjob[s] \in Jobs /\ fate[sjob[s]] = "held" /\ fate'[sjob[s]] \in {"lost", "dropped"}
        /\ \A j \in Jobs : j # sjob[s] => fate'[j] = fate[j]
        /\ Sending' = Sending \ {sjob[s]} /\ Undoing' = Undoing \ {sjob[s]}
    BY <2>1, LeaveMoves DEF Fates
  <2>3. Leaked' = Leaked \cup {sjob[s]} /\ sjob[s] \notin Leaked
    BY <2>2 DEF Leaked, WithFate
  <2>4. sjob[s] \in Sending /\ sjob[s] \notin Undoing /\ sjob[s] \in Admitted
    BY <2>1, InFlight
  <2>5. sjob[s] \notin Range(queue) /\ \A w \in Workers : sjob[s] \notin Unreleased(w)
    BY <2>2, InFlight
  <2>6. Admitted' = Admitted \ {sjob[s]}
    BY <1>w, <2>1, <2>2, <2>4, <2>5, AdmittedIs
  <2> QED BY <2>1, <2>2, <2>3, <2>4, <2>6 DEF Flows, Leaks
<1>7. ASSUME spc[s] \in SendPCs, spc'[s] \in SendPCs, UNCHANGED sjob,
             \A t \in Submitters \ {s} : spc'[t] = spc[t]
      PROVE  Sending' = Sending /\ Undoing' = Undoing
  <2>1. sjob[s] \in Sending /\ sjob[s] \notin Undoing
    BY <1>7, InFlight
  <2> QED BY <1>7, <2>1, SubmitterMoves DEF SendPCs
<1>8. CASE FullSeen(s) \/ (DropOldest(s) /\ queue = <<>>)
  <2>1. /\ UNCHANGED <<queue, used, fate, sjob>> /\ spc[s] \in SendPCs /\ spc'[s] \in SendPCs
        /\ \A t \in Submitters \ {s} : spc'[t] = spc[t]
    BY <1>0, <1>8 DEF FullSeen, DropOldest, SendPCs, channel
  <2>2. Sending' = Sending /\ Undoing' = Undoing /\ Leaked' = Leaked
    BY <1>7, <2>1 DEF Leaked, WithFate
  <2>3. Admitted' = Admitted
    BY <1>w, <2>1, <2>2, AdmittedIs
  <2> QED BY <2>1, <2>2, <2>3 DEF Flows, Rests
<1>9. CASE DropOldest(s) /\ queue # <<>>
  <2>1. /\ UNCHANGED <<used, sjob>> /\ spc[s] \in SendPCs /\ spc'[s] \in SendPCs
        /\ \A t \in Submitters \ {s} : spc'[t] = spc[t]
        /\ queue' = Tail(queue) /\ fate' = [fate EXCEPT ![Head(queue)] = "evicted"]
    BY <1>0, <1>9 DEF DropOldest, SendPCs
  <2>2. Sending' = Sending /\ Undoing' = Undoing
    BY <1>7, <2>1
  <2>3. PICK h \in Jobs : /\ h = Head(queue) /\ h \notin Range(queue')
                          /\ Range(queue) = Range(queue') \cup {h}
    BY <1>0, <1>9, <2>1, InjectiveTail, RangeHeadTail DEF OwnInv, SingleInv
  <2>4. fate[h] = "queued" /\ h \in Admitted /\ h \notin Sending
    BY <2>3, InFlight
  <2>5. \A w \in Workers : h \notin Unreleased(w)
    BY <2>3, InFlight, BatchFates
  <2>6. fate'[h] = "evicted" /\ \A j \in Jobs : j # h => fate'[j] = fate[j]
    BY <1>0, <2>1, <2>3
  <2>7. Leaked' = Leaked \cup {h} /\ h \notin Leaked
    BY <2>4, <2>6 DEF Leaked, WithFate
  <2>8. Admitted' = Admitted \ {h}
    BY <1>w, <2>2, <2>3, <2>4, <2>5, AdmittedIs
  <2> QED BY <2>1, <2>2, <2>4, <2>7, <2>8 DEF Flows, Leaks
<1>10. CASE SubmitStep(s)
  BY <1>3, <1>4, <1>6, <1>8, <1>9, <1>10 DEF SubmitStep
<1> QED BY <1>1, <1>2, <1>5, <1>10 DEF Flows

\* A worker takes, keeps or settles what is in flight, and releases it job by job.
LEMMA FlowWorker ==
  ASSUME ShapeInv, OwnInv, PlaceInv, NEW w \in Workers, WorkerStep(w)
  PROVE  Flows
<1>0. /\ wpc \in [Workers -> WorkerPCs] /\ batch \in [Workers -> Seq(Jobs)]
      /\ pos \in [Workers -> Nat] /\ fate \in [Jobs -> Fates]
  BY DEF ShapeInv, TypeOK, WorkersOK
<1>s. UNCHANGED <<spc, sjob>> => Sending' = Sending /\ Undoing' = Undoing
  BY DEF Sending, Undoing
<1>u. \A v \in Workers : wpc[v] # "release" => Unreleased(v) = Range(batch[v])
  BY DEF Unreleased, Range
<1>p. \A v \in Workers : wpc'[v] # "release" => Unreleased(v)' = Range(batch'[v])
  BY DEF Unreleased, Range
<1>o. \A v \in Workers : wpc'[v] = wpc[v] /\ batch'[v] = batch[v] /\ pos'[v] = pos[v] =>
                           Unreleased(v)' = Unreleased(v)
  BY DEF Unreleased
<1>1. CASE Receive(w) \/ Collect(w)
  <2>1. UNCHANGED <<spc, sjob, fate, used>>
    BY <1>1 DEF Receive, Collect, submitterVars
  <2>2. /\ Range(queue) = Range(queue') \cup {Head(queue)}
        /\ Range(batch'[w]) = Range(batch[w]) \cup {Head(queue)} /\ wpc[w] # "release"
        /\ wpc'[w] = "collect"
        /\ \A v \in Workers \ {w} : batch'[v] = batch[v] /\ wpc'[v] = wpc[v] /\ pos'[v] = pos[v]
    BY <1>1, PlaceTake
  <2>3. /\ Unreleased(w)' = Unreleased(w) \cup {Head(queue)}
        /\ \A v \in Workers \ {w} : Unreleased(v)' = Unreleased(v)
    BY <1>u, <1>p, <1>o, <2>2
  <2>4. \A j : j \in Range(queue) \/ j \in Unreleased(w) <=> j \in Range(queue') \/ j \in Unreleased(w)'
    BY <2>2, <2>3
  <2>5. Admitted' = Admitted
    <3>1. \A j : (\E v \in Workers : j \in Unreleased(v)) <=>
                 j \in Unreleased(w) \/ \E v \in Workers \ {w} : j \in Unreleased(v)
      OBVIOUS
    <3>2. \A j : (\E v \in Workers : j \in Unreleased(v)') <=>
                 j \in Unreleased(w)' \/ \E v \in Workers \ {w} : j \in Unreleased(v)
      BY <2>3
    <3> QED BY <1>s, <2>1, <2>4, <3>1, <3>2, AdmittedIs
  <2>6. Leaked' = Leaked
    BY <2>1 DEF Leaked, WithFate
  <2> QED BY <1>s, <2>1, <2>5, <2>6 DEF Flows, Rests
<1>2. CASE Advances(w) \/ \E f \in Settled : Settles(w, f)
  <2>1. UNCHANGED <<spc, sjob, queue, used>>
    BY <1>2 DEF Advances, Settles
  <2>2. \A v \in Workers : Unreleased(v)' = Unreleased(v)
    <3>1. \A v \in Workers \ {w} : Unreleased(v)' = Unreleased(v)
      BY <1>o, <1>2 DEF Advances, Settles
    <3>2. CASE Advances(w)
      <4>1. Unreleased(w)' = Unreleased(w)
        BY <1>u, <1>p, <3>2 DEF Advances
      <4> QED BY <3>1, <4>1
    <3>3. ASSUME NEW f \in Settled, Settles(w, f) PROVE Unreleased(w)' = Unreleased(w)
      <4>1. wpc'[w] = "release" /\ pos'[w] = 1 /\ batch' = batch /\ wpc[w] # "release"
        BY <3>3 DEF Settles, Active
      <4>2. DOMAIN batch[w] = 1 .. Len(batch[w]) /\ Len(batch[w]) \in Nat
        BY <1>0
      <4>3. Unreleased(w)' = Range(batch[w])
        BY <4>1, <4>2 DEF Unreleased, Range
      <4> QED BY <1>u, <4>1, <4>3
    <3> QED BY <1>2, <3>1, <3>2, <3>3
  <2>3. Leaked' = Leaked
    <3>1. CASE Advances(w)
      BY <3>1 DEF Advances, Leaked, WithFate
    <3>2. ASSUME NEW f \in Settled, Settles(w, f) PROVE Leaked' = Leaked
      <4>1. \A j \in Jobs : fate'[j] = IF j \in Range(batch[w]) THEN f ELSE fate[j]
        BY <3>2 DEF Settles
      <4>2. \A j \in Range(batch[w]) : fate[j] = "queued"
        BY <3>2, BatchFates DEF Settles
      <4> QED BY <4>1, <4>2 DEF Leaked, WithFate, Settled
    <3> QED BY <1>2, <3>1, <3>2
  <2>4. Admitted' = Admitted
    BY <1>s, <2>1, <2>2, AdmittedIs
  <2> QED BY <1>s, <2>1, <2>3, <2>4 DEF Flows, Rests
<1>3. CASE Release(w)
  <2>1. PICK b \in Seq(Jobs), p \in Nat :
          b = batch[w] /\ p = pos[w] /\ p \in 1 .. Len(b) /\ IsInjective(b)
    BY <1>0, <1>3 DEF Release, ShapeInv, BatchShape, PlaceInv
  <2>2. DOMAIN b = 1 .. Len(b) /\ Len(b) \in Nat /\ b[p] \in Jobs
    BY <2>1
  <2>3. /\ UNCHANGED <<spc, sjob, queue, fate>> /\ used' = used - Size[b[p]] /\ wpc[w] = "release"
        /\ \A v \in Workers \ {w} : batch'[v] = batch[v] /\ wpc'[v] = wpc[v] /\ pos'[v] = pos[v]
    BY <1>0, <1>3, <2>1 DEF Release, channel, submitterVars
  <2>4. Unreleased(w) = {b[i] : i \in {n \in 1 .. Len(b) : n >= p}}
    BY <2>1, <2>2, <2>3 DEF Unreleased
  <2>5. b[p] \in Unreleased(w) /\ b[p] \in Range(batch[w])
    BY <2>1, <2>2, <2>4 DEF Range
  <2>6. Unreleased(w)' = Unreleased(w) \ {b[p]}
    <3>1. CASE p = Len(b)
      <4>1. batch'[w] = <<>>
        BY <1>0, <1>3, <2>1, <3>1 DEF Release
      <4>2. Unreleased(w)' = {}
        BY <4>1 DEF Unreleased
      <4>3. \A n \in 1 .. Len(b) : n >= p => n = p
        BY <2>1, <2>2, <3>1
      <4> QED BY <2>4, <4>2, <4>3
    <3>2. CASE p # Len(b)
      <4>1. batch'[w] = b /\ wpc'[w] = "release" /\ pos'[w] = p + 1
        BY <1>0, <1>3, <2>1, <3>2 DEF Release
      <4>2. Unreleased(w)' = {b[i] : i \in {n \in 1 .. Len(b) : n >= p + 1}}
        BY <2>2, <4>1 DEF Unreleased
      <4>3. \A n \in 1 .. Len(b) : n >= p + 1 <=> n >= p /\ n # p
        BY <2>1, <2>2
      <4>4. \A n \in 1 .. Len(b) : b[n] = b[p] <=> n = p
        BY <2>1, <2>2 DEF IsInjective
      <4> QED BY <2>4, <4>2, <4>3, <4>4
    <3> QED BY <3>1, <3>2
  <2>7. /\ fate[b[p]] \in Settled /\ b[p] \in Admitted
        /\ \A v \in Workers \ {w} : b[p] \notin Unreleased(v) /\ Unreleased(v)' = Unreleased(v)
    <3>1. \A v \in Workers \ {w} : b[p] \notin Range(batch[v])
      BY <2>5 DEF PlaceInv
    <3>2. fate[b[p]] \in Settled
      BY <2>3, <2>5, BatchFates
    <3>3. b[p] \in Admitted /\ \A v \in Workers \ {w} : b[p] \notin Unreleased(v)
      BY <2>5, <3>1, InFlight
    <3> QED BY <1>o, <2>3, <3>2, <3>3
  <2>8. b[p] \notin Sending /\ b[p] \notin Range(queue)
    BY <2>7, InFlight DEF Settled
  <2>9. Admitted' = Admitted \ {b[p]}
    <3>1. \A j : (\E v \in Workers : j \in Unreleased(v)') <=>
                 (\E v \in Workers : j \in Unreleased(v)) /\ j # b[p]
      BY <2>6, <2>7
    <3> QED BY <1>s, <2>3, <2>8, <3>1, AdmittedIs
  <2>10. Leaked' = Leaked
    BY <2>3 DEF Leaked, WithFate
  <2> QED BY <1>s, <2>2, <2>3, <2>7, <2>9, <2>10 DEF Flows, Releases
<1> QED BY <1>1, <1>2, <1>3, WorkerCases

\* While nobody stores a heap reading, every step moves at most one job in or out.
LEMMA FlowStep ==
  ASSUME ShapeInv, OwnInv, PlaceInv, [Next]_vars, ~UpdateMetricsStore
  PROVE  Flows
<1>1. CASE CloseBegin \/ CloseReturn \/ UpdateMetricsRead \/ UNCHANGED vars
  <2>1. UNCHANGED <<queue, spc, sjob, wpc, batch, pos, fate, used>>
    BY <1>1 DEF CloseBegin, CloseReturn, UpdateMetricsRead, vars, channel, submitterVars, workerVars
  <2> QED BY <2>1 DEF Flows, Rests, Admitted, Sending, Undoing, Leaked, WithFate
<1>2. CASE \E s \in Submitters :
             SubmitStep(s) \/ Send(s) \/ \E j \in Jobs : SubmitRefused(s, j) \/ SubmitBegin(s, j)
  BY <1>2, FlowSubmit
<1>3. CASE \E w \in Workers : WorkerStep(w)
  BY <1>3, FlowWorker
<1> QED BY <1>1, <1>2, <1>3 DEF Next, Step, Finished

\* The steps of UpdateMetrics leave the jobs where they are.
LEMMA FlowMetrics ==
  ASSUME UpdateMetricsRead \/ UpdateMetricsStore
  PROVE  UNCHANGED <<Admitted, Undoing, Reachable, fate>>
<1>1. UNCHANGED <<queue, spc, sjob, wpc, batch, pos, fate>>
  BY DEF UpdateMetricsRead, UpdateMetricsStore, channel, submitterVars, workerVars
<1> QED BY <1>1 DEF Admitted, Sending, Undoing, Reachable

\* Bytes of a set after a step is what Bytes says of that set.
LEMMA BytesNext ==
  /\ Bytes(Admitted)' = Bytes(Admitted') /\ Bytes(Undoing)' = Bytes(Undoing')
  /\ Bytes(missed)' = Bytes(missed') /\ Bytes(Reachable \ unseen)' = Bytes((Reachable \ unseen)')
<1>1. Bytes(Admitted)' = Bytes(Admitted')
  BY DEF Bytes, MapThenSumSet, MapThenFoldSet
<1>2. Bytes(Undoing)' = Bytes(Undoing')
  BY DEF Bytes, MapThenSumSet, MapThenFoldSet
<1>3. Bytes(missed)' = Bytes(missed')
  BY DEF Bytes, MapThenSumSet, MapThenFoldSet
<1>4. Bytes(Reachable \ unseen)' = Bytes((Reachable \ unseen)')
  BY DEF Bytes, MapThenSumSet, MapThenFoldSet
<1> QED BY <1>1, <1>2, <1>3, <1>4

\* What is reachable, by the variable that reaches it.
LEMMA ReachableIs ==
  /\ \A j : j \in Reachable <=>
       \/ j # NoJob /\ \E s \in Submitters : j = sjob[s]
       \/ j \in Range(queue)
       \/ \E w \in Workers : j \in Range(batch[w])
  /\ \A j : j \in Reachable' <=>
       \/ j # NoJob /\ \E s \in Submitters : j = sjob'[s]
       \/ j \in Range(queue')
       \/ \E w \in Workers : j \in Range(batch'[w])
  BY DEF Reachable

\* Every job in flight is reachable, and every reachable job was submitted.
LEMMA ReachableKnown ==
  ASSUME ShapeInv, OwnInv, PlaceInv
  PROVE  /\ Admitted \cup Undoing \subseteq Reachable /\ Reachable \subseteq Known
         /\ Known \subseteq Jobs /\ IsFiniteSet(Known)
<1>1. Known \subseteq Jobs /\ IsFiniteSet(Known)
  BY DEF Known, PlaceInv
<1>2. ASSUME NEW j \in Admitted \cup Undoing PROVE j \in Reachable
  <2>1. CASE j \in Sending \cup Undoing
    <3>1. j # NoJob /\ \E s \in Submitters : j = sjob[s]
      BY <2>1, InFlight, NoJobAssumption
    <3> QED BY <3>1, ReachableIs
  <2>2. CASE j \in Range(queue)
    BY <2>2, ReachableIs
  <2>3. ASSUME NEW w \in Workers, j \in Unreleased(w) PROVE j \in Reachable
    BY <2>3, InFlight, ReachableIs
  <2> QED BY <1>2, <2>1, <2>2, <2>3, InFlight
<1>3. ASSUME NEW j \in Reachable PROVE j \in Known
  <2>1. CASE j # NoJob /\ \E s \in Submitters : j = sjob[s]
    BY <2>1 DEF ShapeInv, TypeOK, SubmittersOK, OwnInv, HeldInv, Known
  <2>2. CASE j \in Range(queue)
    BY <2>2, InFlight DEF Known
  <2>3. ASSUME NEW w \in Workers, j \in Range(batch[w]) PROVE j \in Known
    BY <2>3, BatchFates DEF Known, Settled
  <2> QED BY <1>3, <2>1, <2>2, <2>3, ReachableIs
<1> QED BY <1>1, <1>2, <1>3

\* Only Submit brings a job the heap did not hold before.
LEMMA NewlyReachable ==
  ASSUME ShapeInv, OwnInv, PlaceInv, [Next]_vars
  PROVE  /\ \A j \in Reachable' : j \in Reachable \/ \E s \in Submitters : SubmitBegin(s, j)
         /\ \A j \in Jobs : fate[j] # "new" => fate'[j] # "new"
<1>0. /\ queue \in Seq(Jobs) /\ fate \in [Jobs -> Fates] /\ batch \in [Workers -> Seq(Jobs)]
      /\ sjob \in [Submitters -> Jobs \cup {NoJob}]
      /\ \A t \in Submitters : sjob[t] = NoJob <=> spc[t] \in {"idle", "panicked"}
  BY DEF ShapeInv, TypeOK, ChannelOK, SubmittersOK, WorkersOK
<1> DEFINE Keeps == /\ \A j \in Reachable' : j \in Reachable
                    /\ \A j \in Jobs : fate[j] # "new" => fate'[j] # "new"
<1>1. ASSUME NEW s \in Submitters, NEW j \in Jobs, SubmitRefused(s, j) PROVE Keeps
  <2>1. UNCHANGED <<queue, sjob, batch>> /\ fate' = [fate EXCEPT ![j] = "refused"]
    BY <1>1 DEF SubmitRefused, channel, submitterVars, workerVars
  <2> QED BY <1>0, <2>1 DEF Reachable
<1>2. ASSUME NEW s \in Submitters, NEW j \in Jobs, SubmitBegin(s, j)
      PROVE  /\ \A i \in Reachable' : i \in Reachable \/ i = j
             /\ \A i \in Jobs : fate[i] # "new" => fate'[i] # "new"
  <2>1. /\ UNCHANGED <<queue, batch>> /\ fate' = [fate EXCEPT ![j] = "held"]
        /\ sjob' = [sjob EXCEPT ![s] = j]
    BY <1>2 DEF SubmitBegin, channel, workerVars
  <2>2. \A t \in Submitters : sjob'[t] = sjob[t] \/ sjob'[t] = j
    BY <1>0, <2>1
  <2>3. ASSUME NEW i \in Reachable', i # j PROVE i \in Reachable
    BY <2>1, <2>2, <2>3, ReachableIs
  <2> QED BY <1>0, <2>1, <2>3
<1>3. ASSUME NEW s \in Submitters, SubmitStep(s) \/ Send(s) PROVE Keeps
  <2>1. /\ \A t \in Submitters : sjob'[t] = sjob[t] \/ sjob'[t] = NoJob
        /\ batch' = batch
    BY <1>0, <1>3 DEF SubmitStep, Send, Allocate, AllocateUndo, SendPanics, DropNewest, FullSeen,
         DropOldest, Leave, workerVars
  <2>2. \A j \in Range(queue') : j \in Range(queue) \/ (j \in Jobs /\ j = sjob[s])
    <3>1. CASE Send(s)
      <4>1. sjob[s] \in Jobs /\ queue' = Append(queue, sjob[s])
        BY <1>0, <3>1 DEF Send
      <4> QED BY <1>0, <4>1, RangeAppend
    <3>2. CASE DropOldest(s) /\ queue # <<>>
      <4>1. queue' = Tail(queue)
        BY <3>2 DEF DropOldest
      <4> QED BY <1>0, <3>2, <4>1, RangeHeadTail
    <3>3. CASE ~Send(s) /\ ~(DropOldest(s) /\ queue # <<>>)
      <4>1. queue' = queue
        BY <1>3, <3>3 DEF SubmitStep, Allocate, AllocateUndo, SendPanics, DropNewest, FullSeen,
             DropOldest, channel
      <4> QED BY <4>1
    <3> QED BY <3>1, <3>2, <3>3
  <2>3. \A j \in Reachable' : j \in Reachable
    BY <2>1, <2>2, ReachableIs, NoJobAssumption
  <2>4. \A j \in Jobs : fate[j] # "new" => fate'[j] # "new"
    BY <1>0, <1>3 DEF SubmitStep, Send, Allocate, AllocateUndo, SendPanics, DropNewest, FullSeen,
         DropOldest, Leave
  <2> QED BY <2>3, <2>4
<1>4. ASSUME NEW w \in Workers, WorkerStep(w) PROVE Keeps
  <2>1. CASE Receive(w) \/ Collect(w)
    <3>1. UNCHANGED <<sjob, fate>>
      BY <2>1 DEF Receive, Collect, submitterVars
    <3>2. /\ Range(queue) = Range(queue') \cup {Head(queue)}
          /\ Range(batch'[w]) = Range(batch[w]) \cup {Head(queue)}
          /\ \A v \in Workers \ {w} : batch'[v] = batch[v]
      BY <2>1, PlaceTake
    <3> QED BY <3>1, <3>2, ReachableIs
  <2>2. CASE Advances(w) \/ \E f \in Settled : Settles(w, f)
    <3>1. UNCHANGED <<sjob, queue, batch>>
      BY <2>2 DEF Advances, Settles
    <3>2. \A j \in Jobs : fate[j] # "new" => fate'[j] # "new"
      BY <2>2 DEF Advances, Settles, Settled
    <3> QED BY <3>1, <3>2 DEF Reachable
  <2>3. CASE Release(w)
    <3>1. UNCHANGED <<sjob, queue, fate>>
      BY <2>3 DEF Release, submitterVars, channel
    <3>2. \A v \in Workers : batch'[v] = batch[v] \/ batch'[v] = <<>>
      BY <1>0, <2>3 DEF Release
    <3>3. \A v \in Workers : Range(batch'[v]) \subseteq Range(batch[v])
      BY <3>2 DEF Range
    <3> QED BY <3>1, <3>3, ReachableIs
  <2> QED BY <1>4, <2>1, <2>2, <2>3, WorkerCases
<1>5. CASE CloseBegin \/ CloseReturn \/ UpdateMetricsRead \/ UpdateMetricsStore \/ UNCHANGED vars
  <2>1. UNCHANGED <<queue, sjob, batch, fate>>
    BY <1>5 DEF CloseBegin, CloseReturn, UpdateMetricsRead, UpdateMetricsStore, vars, channel,
         submitterVars, workerVars
  <2> QED BY <2>1 DEF Reachable
<1> QED BY <1>1, <1>2, <1>3, <1>4, <1>5 DEF Next, Step, Finished

\* The inductive invariant of the ledger.  What a reading says that is not stored
\* yet bounds the jobs it saw; those submitted since are unseen.
LedgerInv ==
  /\ LedgerCovers
  /\ heapRead = NoReading => unseen = {}
  /\ heapRead # NoReading => heapRead >= Bytes(Reachable \ unseen)
  /\ unseen \subseteq Known /\ missed \subseteq Known

\* Whatever no reading has missed before, none but a store makes it miss.
LEMMA MissedKept ==
  ASSUME [Next]_vars, ~UpdateMetricsStore
  PROVE  /\ missed' = missed
         /\ UpdateMetricsRead \/ heapRead' = heapRead
         /\ \/ unseen' = unseen
            \/ /\ heapRead # NoReading
               /\ \E s \in Submitters, j \in Jobs : SubmitBegin(s, j) /\ unseen' = unseen \cup {j}
<1> USE DEF metricsVars
<1>1. ASSUME NEW s \in Submitters, NEW j \in Jobs, SubmitBegin(s, j)
      PROVE  /\ missed' = missed /\ heapRead' = heapRead
             /\ unseen' = unseen \/ (heapRead # NoReading /\ unseen' = unseen \cup {j})
  BY <1>1 DEF SubmitBegin
<1>2. ASSUME NEW s \in Submitters, NEW j \in Jobs, SubmitRefused(s, j) PROVE UNCHANGED metricsVars
  BY <1>2 DEF SubmitRefused
<1>3. ASSUME NEW s \in Submitters, SubmitStep(s) \/ Send(s) PROVE UNCHANGED metricsVars
  BY <1>3 DEF SubmitStep, Send, Allocate, AllocateUndo, SendPanics, DropNewest, FullSeen, DropOldest
<1>4. ASSUME NEW w \in Workers, WorkerStep(w) PROVE UNCHANGED metricsVars
  BY <1>4 DEF WorkerStep, Receive, WorkerExit, Collect, CollectDone, PutInit, PutGOP, IndexBatch,
       Release
<1>5. CASE CloseBegin \/ CloseReturn \/ UNCHANGED vars
  BY <1>5 DEF CloseBegin, CloseReturn, vars
<1>6. CASE UpdateMetricsRead
  BY <1>6 DEF UpdateMetricsRead
<1> QED BY <1>1, <1>2, <1>3, <1>4, <1>5, <1>6 DEF Next, Step, Finished

\* A reading goes on bounding the jobs it saw, however they move, and what is
\* unseen or missed was submitted.
LEMMA SeenStep ==
  ASSUME ShapeInv, ShapeInv', OwnInv, OwnInv', PlaceInv, PlaceInv', LedgerInv, [Next]_vars
  PROVE  /\ heapRead' = NoReading => unseen' = {}
         /\ heapRead' # NoReading => heapRead' >= Bytes((Reachable \ unseen)')
         /\ unseen' \subseteq Known' /\ missed' \subseteq Known'
<1>0. /\ Reachable \subseteq Known /\ Known \subseteq Jobs /\ IsFiniteSet(Known)
      /\ Reachable' \subseteq Known' /\ Known' \subseteq Jobs /\ IsFiniteSet(Known')
      /\ Admitted \cup Undoing \subseteq Known
  <2>1. ShapeInv' /\ OwnInv' /\ PlaceInv' => (Reachable \subseteq Known /\ Known \subseteq Jobs
                                               /\ IsFiniteSet(Known))'
    BY ReachableKnown, PTL
  <2> QED BY <2>1, ReachableKnown
<1>1. Known \subseteq Known'
  BY NewlyReachable DEF Known
<1>2. CASE UpdateMetricsStore
  BY <1>0, <1>1, <1>2 DEF UpdateMetricsStore, LedgerInv
<1>3. CASE UpdateMetricsRead
  <2>1. /\ heapRead = NoReading /\ unseen' = {} /\ missed' = missed
        /\ heapRead' >= Bytes(Reachable)
    BY <1>3 DEF UpdateMetricsRead, LedgerInv
  <2>2. Reachable' = Reachable /\ (Reachable \ unseen)' = Reachable
    BY <1>3, <2>1, FlowMetrics
  <2>3. heapRead' # NoReading
    BY <1>3, HeapReadingsAssumption DEF UpdateMetricsRead, NoReading
  <2> QED BY <1>1, <2>1, <2>2, <2>3 DEF LedgerInv
<1>4. CASE ~UpdateMetricsStore /\ ~UpdateMetricsRead
  <2>1. heapRead' = heapRead /\ missed' = missed
    BY <1>4, MissedKept
  <2>2. unseen' \subseteq Known' /\ (heapRead = NoReading => unseen' = {}) /\ unseen \subseteq unseen'
    <3>1. CASE unseen' = unseen
      BY <1>1, <3>1 DEF LedgerInv
    <3>2. ASSUME NEW s \in Submitters, NEW j \in Jobs, SubmitBegin(s, j), heapRead # NoReading,
                 unseen' = unseen \cup {j}
          PROVE  unseen' \subseteq Known' /\ unseen \subseteq unseen'
      <4>1. fate'[j] = "held"
        BY <3>2 DEF SubmitBegin, ShapeInv, TypeOK
      <4> QED BY <1>1, <3>2, <4>1 DEF Known, LedgerInv
    <3> QED BY <1>4, <3>1, <3>2, MissedKept
  <2>3. ASSUME heapRead # NoReading PROVE (Reachable \ unseen)' \subseteq Reachable \ unseen
    <3> SUFFICES ASSUME NEW j \in Reachable', j \notin unseen' PROVE j \in Reachable \ unseen
      OBVIOUS
    <3>1. \A s \in Submitters : ~SubmitBegin(s, j)
      BY <2>3 DEF SubmitBegin
    <3> QED BY <2>2, <3>1, NewlyReachable
  <2>4. ASSUME heapRead # NoReading PROVE heapRead' >= Bytes((Reachable \ unseen)')
    <3>1. /\ Bytes((Reachable \ unseen)') <= Bytes(Reachable \ unseen)
          /\ Bytes((Reachable \ unseen)') \in Nat /\ Bytes(Reachable \ unseen) \in Nat
      <4>1. (Reachable \ unseen)' \subseteq Reachable \ unseen
        BY <2>3, <2>4
      <4>2. Reachable \ unseen \subseteq Jobs /\ IsFiniteSet(Reachable \ unseen)
        BY <1>0, FS_Subset
      <4> QED BY <4>1, <4>2, BytesSubset
    <3>2. PICK h \in Int : h = heapRead /\ h >= Bytes(Reachable \ unseen)
      BY <2>4, HeapReadingsAssumption DEF LedgerInv, ShapeInv, TypeOK, NoReading
    <3> QED BY <2>1, <3>1, <3>2
  <2> QED BY <1>1, <2>1, <2>2, <2>4 DEF LedgerInv
<1> QED BY <1>2, <1>3, <1>4

\* The ledger follows every step of Submit, Release and Close.
LEMMA CoverStep ==
  ASSUME ShapeInv, OwnInv, PlaceInv, LedgerInv, Flows, missed' = missed
  PROVE  LedgerCovers'
<1>0. /\ Admitted \in SUBSET Jobs /\ Undoing \in SUBSET Jobs /\ missed \in SUBSET Jobs
      /\ IsFiniteSet(Admitted) /\ IsFiniteSet(Undoing) /\ IsFiniteSet(missed)
  <2>1. Admitted \cup Undoing \subseteq Known /\ Known \subseteq Jobs /\ IsFiniteSet(Known)
    BY ReachableKnown
  <2> QED BY <2>1, FS_Subset DEF LedgerInv
<1>1. PICK a \in Nat, u \in Nat, m \in Nat, e \in Int :
        a = Bytes(Admitted) /\ u = Bytes(Undoing) /\ m = Bytes(missed) /\ e = used
  BY <1>0, BytesRemove DEF ShapeInv, TypeOK
<1>2. e >= a + u - m
  BY <1>1 DEF LedgerInv, LedgerCovers
<1>3. LedgerCovers' <=> used' >= Bytes(Admitted') + Bytes(Undoing') - m
  BY <1>1, BytesNext DEF LedgerCovers
<1>4. CASE Rests
  BY <1>1, <1>2, <1>3, <1>4 DEF Rests
<1>5. ASSUME NEW j \in Jobs, Admits(j) \/ Exceeds(j) \/ TakesBack(j) \/ Leaks(j) \/ Releases(j)
      PROVE  LedgerCovers'
  <2>0. PICK z \in Nat : z = Size[j]
    BY SizeAssumption
  <2>1. CASE Admits(j)
    <3>1. Bytes(Admitted') = a + z /\ Bytes(Undoing') = u /\ used' = e + z
      BY <1>0, <1>1, <2>0, <2>1, BytesAdd DEF Admits
    <3> QED BY <1>2, <1>3, <3>1
  <2>2. CASE Exceeds(j)
    <3>1. Bytes(Admitted') = a /\ Bytes(Undoing') = u + z /\ used' = e + z
      BY <1>0, <1>1, <2>0, <2>2, BytesAdd DEF Exceeds
    <3> QED BY <1>2, <1>3, <3>1
  <2>3. CASE TakesBack(j)
    <3>1. PICK r \in Nat : r = Bytes(Undoing') /\ u = z + r
      BY <1>0, <1>1, <2>0, <2>3, BytesRemove DEF TakesBack
    <3>2. Bytes(Admitted') = a /\ used' = e - z
      BY <1>1, <2>0, <2>3 DEF TakesBack
    <3> QED BY <1>2, <1>3, <3>1, <3>2
  <2>4. CASE Leaks(j)
    <3>1. PICK r \in Nat : r = Bytes(Admitted') /\ a = z + r
      BY <1>0, <1>1, <2>0, <2>4, BytesRemove DEF Leaks
    <3>2. Bytes(Undoing') = u /\ used' = e
      BY <1>1, <2>4 DEF Leaks
    <3> QED BY <1>2, <1>3, <3>1, <3>2
  <2>5. CASE Releases(j)
    <3>1. PICK r \in Nat : r = Bytes(Admitted') /\ a = z + r
      BY <1>0, <1>1, <2>0, <2>5, BytesRemove DEF Releases
    <3>2. Bytes(Undoing') = u /\ used' = e - z
      BY <1>1, <2>0, <2>5 DEF Releases
    <3> QED BY <1>2, <1>3, <3>1, <3>2
  <2> QED BY <1>5, <2>1, <2>2, <2>3, <2>4, <2>5
<1> QED BY <1>4, <1>5 DEF Flows

\* Storing a reading loses no job of the ledger but those it missed.
LEMMA CoverStore ==
  ASSUME ShapeInv, OwnInv, PlaceInv, LedgerInv, UpdateMetricsStore
  PROVE  LedgerCovers'
<1> DEFINE F == Admitted \cup Undoing
<1>0. /\ F \subseteq Reachable /\ Reachable \subseteq Jobs /\ IsFiniteSet(Reachable)
      /\ Admitted \cap Undoing = {}
  <2>1. /\ F \subseteq Reachable /\ Reachable \subseteq Known
        /\ Known \subseteq Jobs /\ IsFiniteSet(Known)
    BY ReachableKnown
  <2>2. Admitted \cap Undoing = {}
    BY InFlight
  <2> QED BY <2>1, <2>2, FS_Subset
<1>1. /\ used' = heapRead /\ missed' = unseen \cap F /\ heapRead >= Bytes(Reachable \ unseen)
      /\ Admitted' = Admitted /\ Undoing' = Undoing
  BY FlowMetrics DEF UpdateMetricsStore, LedgerInv
<1>2. /\ IsFiniteSet(F) /\ F \subseteq Jobs /\ IsFiniteSet(Reachable \ unseen)
      /\ IsFiniteSet(Admitted) /\ IsFiniteSet(Undoing) /\ IsFiniteSet(F \ unseen)
      /\ IsFiniteSet(unseen \cap F)
  BY <1>0, FS_Subset
<1>3. PICK a \in Nat, u \in Nat, m \in Nat, d \in Nat, r \in Nat :
        /\ a = Bytes(Admitted) /\ u = Bytes(Undoing) /\ m = Bytes(unseen \cap F)
        /\ d = Bytes(F \ unseen) /\ r = Bytes(Reachable \ unseen)
  <2>1. /\ Bytes(Admitted) \in Nat /\ Bytes(Undoing) \in Nat /\ Bytes(unseen \cap F) \in Nat
        /\ Bytes(F \ unseen) \in Nat /\ Bytes(Reachable \ unseen) \in Nat
    BY <1>0, <1>2, BytesRemove
  <2> QED BY <2>1
<1>4. Bytes(F) = a + u
  BY <1>0, <1>2, <1>3, BytesUnion
<1>5. Bytes(F) = d + m
  <2>1. F = (F \ unseen) \cup (unseen \cap F) /\ (F \ unseen) \cap (unseen \cap F) = {}
    OBVIOUS
  <2>2. F \ unseen \in SUBSET Jobs /\ unseen \cap F \in SUBSET Jobs
    BY <1>2
  <2>3. Bytes((F \ unseen) \cup (unseen \cap F)) = d + m
    BY <1>2, <1>3, <2>1, <2>2, BytesUnion
  <2> QED BY <2>1, <2>3
<1>6. d <= r
  <2>1. F \ unseen \subseteq Reachable \ unseen /\ Reachable \ unseen \in SUBSET Jobs
    BY <1>0
  <2> QED BY <1>2, <1>3, <2>1, BytesSubset
<1>7. PICK h \in Int : h = heapRead
  BY HeapReadingsAssumption DEF ShapeInv, TypeOK, NoReading
<1>8. h >= a + u - m
  BY <1>1, <1>3, <1>4, <1>5, <1>6, <1>7
<1> QED BY <1>1, <1>3, <1>7, <1>8, BytesNext DEF LedgerCovers

\* Every step keeps the ledger's invariant.
LEMMA LedgerStep ==
  ShapeInv /\ ShapeInv' /\ OwnInv /\ OwnInv' /\ PlaceInv /\ PlaceInv' /\ LedgerInv /\ [Next]_vars
    => LedgerInv'
<1> SUFFICES ASSUME ShapeInv, ShapeInv', OwnInv, OwnInv', PlaceInv, PlaceInv', LedgerInv, [Next]_vars
             PROVE  LedgerInv'
  OBVIOUS
<1>1. LedgerCovers'
  BY MissedKept, FlowStep, CoverStep, CoverStore
<1> QED BY <1>1, SeenStep, BytesNext DEF LedgerInv

\* The ledger of an idle writer is empty.
LEMMA LedgerInit == Init => LedgerInv
<1> SUFFICES ASSUME Init PROVE LedgerInv
  OBVIOUS
<1>1. Range(<<>>) = {}
  BY DEF Range
<1>2. Sending = {} /\ Undoing = {}
  BY DEF Init, Sending, Undoing
<1>3. \A w \in Workers : Unreleased(w) = {}
  BY DEF Init, Unreleased
<1>4. Admitted = {} /\ missed = {} /\ unseen = {} /\ heapRead = NoReading /\ used = 0
  BY <1>1, <1>2, <1>3, AdmittedIs DEF Init
<1>5. Bytes({}) = 0
  BY BytesPick, FS_EmptySet
<1>6. LedgerCovers
  BY <1>2, <1>4, <1>5 DEF LedgerCovers
<1> QED BY <1>4, <1>6 DEF LedgerInv

\* usedBytes covers what is in flight for any number of goroutines and whatever
\* heap sizes UpdateMetrics stores over it, but for what a reading missed.
THEOREM LedgerSound == Spec => []LedgerCovers
<1>1. LedgerInv => LedgerCovers
  BY DEF LedgerInv
<1> QED
  BY <1>1, ShapeInit, ShapeStep, OwnInit, OwnStep, PlaceInit, PlaceStep, LedgerInit, LedgerStep, PTL
  DEF Spec

\* Only a sum within the limit lets a submitter pass.
LEMMA PassesLimit ==
  ASSUME ShapeInv, [Next]_vars, NEW s \in Submitters, spc[s] = "alloc", spc'[s] = "send"
  PROVE  used' <= MaxBytes /\ used' \in Int /\ missed' = missed
<1>0. /\ spc \in [Submitters -> SubmitPCs] /\ used \in Int
      /\ sjob[s] \in Jobs /\ Size[sjob[s]] \in Nat
  BY SizeAssumption DEF ShapeInv, TypeOK, SubmittersOK
<1>1. Allocate(s)
  <2>1. ASSUME NEW t \in Submitters, NEW j \in Jobs, SubmitRefused(t, j) \/ SubmitBegin(t, j)
        PROVE  FALSE
    BY <1>0, <2>1 DEF SubmitRefused, SubmitBegin, submitterVars
  <2>2. ASSUME NEW t \in Submitters, SubmitStep(t) \/ Send(t) PROVE Allocate(s)
    BY <1>0, <2>2 DEF SubmitStep, Send, Allocate, AllocateUndo, SendPanics, DropNewest, FullSeen,
         DropOldest, Leave
  <2>3. ASSUME NEW w \in Workers, WorkerStep(w) PROVE FALSE
    BY <2>3 DEF WorkerStep, Receive, WorkerExit, Collect, CollectDone, PutInit, PutGOP, IndexBatch,
         Release, submitterVars
  <2>4. CASE CloseBegin \/ CloseReturn \/ UpdateMetricsRead \/ UpdateMetricsStore \/ UNCHANGED vars
    BY <2>4 DEF CloseBegin, CloseReturn, UpdateMetricsRead, UpdateMetricsStore, submitterVars, vars
  <2> QED BY <2>1, <2>2, <2>3, <2>4 DEF Next, Step, Finished
<1>2. used' = used + Size[sjob[s]] /\ ~(used' > MaxBytes) /\ missed' = missed
  BY <1>0, <1>1 DEF Allocate, OverLimit, metricsVars
<1> QED BY <1>0, <1>2, BoundsAssumption

\* Allocate adds before it compares, and still what it lets pass stays within the
\* limit, however many submitters are between the two, but for what the last
\* heap reading missed.
THEOREM AdmissionBounded == Spec => AdmitsWithinLimit
<1>1. /\ ShapeInv /\ ShapeInv' /\ OwnInv /\ OwnInv' /\ PlaceInv /\ PlaceInv'
      /\ LedgerInv /\ LedgerInv' /\ [Next]_vars
      => [(\E s \in Submitters : spc[s] = "alloc" /\ spc'[s] = "send") =>
            Bytes(Admitted') <= MaxBytes + Bytes(missed)]_vars
  <2> SUFFICES ASSUME ShapeInv, ShapeInv', OwnInv, OwnInv', PlaceInv, PlaceInv', LedgerInv,
                      LedgerInv', [Next]_vars, NEW s \in Submitters,
                      spc[s] = "alloc", spc'[s] = "send"
               PROVE  Bytes(Admitted') <= MaxBytes + Bytes(missed)
    OBVIOUS
  <2>1. used' <= MaxBytes /\ used' \in Int /\ missed' = missed
    BY PassesLimit
  <2>2. used' >= Bytes(Admitted') + Bytes(Undoing') - Bytes(missed)
    BY <2>1, BytesNext DEF LedgerInv, LedgerCovers
  <2>3. Bytes(Admitted') \in Nat /\ Bytes(Undoing') \in Nat /\ Bytes(missed) \in Nat
    <3>1. /\ Admitted' \cup Undoing' \subseteq Known'
          /\ Known' \subseteq Jobs /\ IsFiniteSet(Known') /\ missed' \subseteq Known'
      <4>1. (Admitted \cup Undoing \subseteq Reachable /\ Reachable \subseteq Known
               /\ Known \subseteq Jobs /\ IsFiniteSet(Known))'
        BY ReachableKnown, PTL
      <4> QED BY <4>1 DEF LedgerInv
    <3>2. /\ Admitted' \in SUBSET Jobs /\ Undoing' \in SUBSET Jobs /\ missed' \in SUBSET Jobs
          /\ IsFiniteSet(Admitted') /\ IsFiniteSet(Undoing') /\ IsFiniteSet(missed')
      BY <3>1, FS_Subset
    <3> QED BY <2>1, <3>2, BytesRemove
  <2> QED BY <2>1, <2>2, <2>3, BoundsAssumption
<1> QED
  BY <1>1, ShapeInit, ShapeStep, OwnInit, OwnStep, PlaceInit, PlaceStep, LedgerInit, LedgerStep, PTL
  DEF Spec, AdmitsWithinLimit

-----------------------------------------------------------------------------
(* The counters of Stats() *)

PassedFates == {"queued", "dropped", "evicted", "lost", "failed", "indexed"}
ThrownFates == {"over_limit", "dropped", "evicted"}

\* The jobs that passed Allocate.
Passed == Sending \cup WithFate(PassedFates)

\* The jobs whose submitter may have received nil from the closed channel.
Late ==
  {j \in Jobs : fate[j] = "lost" \/ \E s \in Submitters : spc[s] = "resend" /\ sjob[s] = j}

\* The inductive invariant of the counters: dropped exceeds the jobs thrown away
\* by some of the jobs that met a closed channel.
StatsInv ==
  /\ stats.submitted = Cardinality(Passed)
  /\ stats.failed = Cardinality(WithFate({"failed"}))
  /\ \E N \in SUBSET Late :
       /\ N # {} => closed
       /\ stats.dropped = Cardinality(WithFate(ThrownFates)) + Cardinality(N)

\* The jobs of D are counted, which were not counted before.
Counts(D, before, after) ==
  IsFiniteSet(D) /\ D \cap before = {} /\ after = before \cup D

\* What a step does to the counters: every job that joins a set is counted once.
Tallies ==
  /\ closed => closed' /\ Late \subseteq Late'
  /\ \E D : /\ Counts(D, Passed, Passed')
            /\ stats'.submitted = stats.submitted + Cardinality(D)
  /\ \E D : /\ Counts(D, WithFate({"failed"}), WithFate({"failed"})')
            /\ stats'.failed = stats.failed + Cardinality(D)
  /\ \E D, N : /\ Counts(D, WithFate(ThrownFates), WithFate(ThrownFates)')
               /\ IsFiniteSet(N) /\ N \cap Late = {} /\ N \subseteq Late' /\ (N # {} => closed)
               /\ stats'.dropped = stats.dropped + Cardinality(D) + Cardinality(N)

\* The sets of jobs the counters count, a job at a time.
LEMMA CountedIs ==
  /\ \A j : j \in Passed <=> j \in Sending \/ (j \in Jobs /\ fate[j] \in PassedFates)
  /\ \A j : j \in Passed' <=> j \in Sending' \/ (j \in Jobs /\ fate'[j] \in PassedFates)
  /\ \A j : j \in WithFate({"failed"}) <=> j \in Jobs /\ fate[j] = "failed"
  /\ \A j : j \in WithFate({"failed"})' <=> j \in Jobs /\ fate'[j] = "failed"
  /\ \A j : j \in WithFate(ThrownFates) <=> j \in Jobs /\ fate[j] \in ThrownFates
  /\ \A j : j \in WithFate(ThrownFates)' <=> j \in Jobs /\ fate'[j] \in ThrownFates
  BY DEF Passed, WithFate

\* The counters are numbers, and the sets they count are finite.
LEMMA CountedFinite ==
  ASSUME ShapeInv, OwnInv, PlaceInv
  PROVE  /\ IsFiniteSet(Passed) /\ IsFiniteSet(WithFate({"failed"}))
         /\ IsFiniteSet(WithFate(ThrownFates)) /\ IsFiniteSet(Late)
         /\ IsFiniteSet(Sending \cup WithFate({"lost"})) /\ Late \subseteq Sending \cup WithFate({"lost"})
<1>1. /\ \A j : j \in Sending <=> \E s \in Submitters : spc[s] \in SendPCs /\ sjob[s] = j
      /\ \A j \in Sending : j \in Jobs /\ fate[j] = "held"
  BY InFlight
<1>2. Late \subseteq Sending \cup WithFate({"lost"})
  BY <1>1 DEF Late, WithFate, SendPCs
<1>3. /\ Passed \subseteq Known /\ WithFate({"failed"}) \subseteq Known
      /\ WithFate(ThrownFates) \subseteq Known /\ Sending \cup WithFate({"lost"}) \subseteq Known
  BY <1>1 DEF Passed, WithFate, Known, PassedFates, ThrownFates
<1>4. IsFiniteSet(Known)
  BY DEF PlaceInv
<1> QED BY <1>2, <1>3, <1>4, FS_Subset

\* A set that does not change counts nothing.
LEMMA CountsNothing == \A S : Counts({}, S, S) /\ Cardinality({}) = 0
  BY FS_EmptySet DEF Counts

\* A set that one job joins counts one.
LEMMA CountsOne ==
  ASSUME NEW S, NEW T, NEW e, e \notin S, T = S \cup {e}
  PROVE  Counts({e}, S, T) /\ Cardinality({e}) = 1
  BY FS_Singleton DEF Counts

\* Counting n more leaves the other counters alone.
LEMMA CountEffect ==
  ASSUME stats \in Counters, NEW n \in Nat
  PROVE  /\ Count("submitted", n) =>
              /\ stats'.submitted = stats.submitted + n
              /\ stats'.failed = stats.failed /\ stats'.dropped = stats.dropped
         /\ Count("failed", n) =>
              /\ stats'.failed = stats.failed + n
              /\ stats'.submitted = stats.submitted /\ stats'.dropped = stats.dropped
         /\ Count("dropped", n) =>
              /\ stats'.dropped = stats.dropped + n
              /\ stats'.submitted = stats.submitted /\ stats'.failed = stats.failed
  BY DEF Count, Counters

\* A step that moves no job between the sets and counts none.
LEMMA TallyRests ==
  ASSUME stats \in Counters, stats' = stats, closed => closed' /\ Late \subseteq Late',
         Passed' = Passed, WithFate({"failed"})' = WithFate({"failed"}),
         WithFate(ThrownFates)' = WithFate(ThrownFates)
  PROVE  Tallies
<1>1. \A n \in Nat : n = n + 0 /\ n = n + 0 + 0
  OBVIOUS
<1>2. stats.submitted \in Nat /\ stats.failed \in Nat /\ stats.dropped \in Nat
  BY DEF Counters
<1>3. \A S : Counts({}, S, S)
  BY CountsNothing
<1>4. Cardinality({}) = 0 /\ IsFiniteSet({})
  BY FS_EmptySet
<1> QED BY <1>1, <1>2, <1>3, <1>4 DEF Tallies

\* A submitter that may have met the closed channel stays or is lost.
LEMMA LateKept ==
  ASSUME NEW s \in Submitters, \A j \in Jobs : fate[j] = "lost" => fate'[j] = "lost",
         \A t \in Submitters \ {s} : spc'[t] = spc[t] /\ sjob'[t] = sjob[t],
         \/ spc[s] # "resend"
         \/ fate'[sjob[s]] = "lost"
  PROVE  Late \subseteq Late'
<1> SUFFICES ASSUME NEW j \in Late PROVE j \in Late'
  OBVIOUS
<1>1. j \in Jobs
  BY DEF Late
<1>2. CASE fate[j] = "lost"
  BY <1>1, <1>2 DEF Late
<1>3. ASSUME NEW t \in Submitters, spc[t] = "resend", sjob[t] = j PROVE j \in Late'
  <2>1. CASE t = s
    BY <1>1, <1>3, <2>1 DEF Late
  <2>2. CASE t # s
    BY <1>1, <1>3, <2>2 DEF Late
  <2> QED BY <2>1, <2>2
<1> QED BY <1>2, <1>3 DEF Late

\* A submitter's step counts its job, or the one it evicts.
LEMMA TallySubmit ==
  ASSUME ShapeInv, OwnInv, PlaceInv, NEW s \in Submitters,
         SubmitStep(s) \/ Send(s) \/ \E j \in Jobs : SubmitRefused(s, j) \/ SubmitBegin(s, j)
  PROVE  Tallies
<1>0. /\ queue \in Seq(Jobs) /\ fate \in [Jobs -> Fates] /\ stats \in Counters
      /\ sjob \in [Submitters -> Jobs \cup {NoJob}] /\ spc \in [Submitters -> SubmitPCs]
      /\ \A t \in Submitters : sjob[t] = NoJob <=> spc[t] \in {"idle", "panicked"}
      /\ \A t \in Submitters : sjob[t] # NoJob => fate[sjob[t]] = "held"
      /\ \A t \in Submitters : sjob[t] # NoJob /\ sjob[s] = sjob[t] => s = t
  BY DEF ShapeInv, TypeOK, ChannelOK, SubmittersOK, OwnInv, HeldInv
<1>c. closed' = closed
  BY DEF SubmitStep, Send, SubmitRefused, SubmitBegin, Allocate, AllocateUndo, SendPanics,
         DropNewest, FullSeen, DropOldest, channel
<1>n. /\ stats.submitted \in Nat /\ stats.failed \in Nat /\ stats.dropped \in Nat
      /\ \A n \in Nat : n = n + 0 /\ n + 1 = n + 1 + 0 /\ n + 1 = n + 0 + 1 /\ n = n + 0 + 0
  BY <1>0 DEF Counters
<1>e. (\A S : Counts({}, S, S)) /\ Cardinality({}) = 0 /\ IsFiniteSet({})
  BY CountsNothing, FS_EmptySet
<1>1. ASSUME NEW j \in Jobs, SubmitRefused(s, j) PROVE Tallies
  <2>1. UNCHANGED <<spc, sjob, stats>> /\ fate[j] = "new" /\ fate'[j] = "refused"
        /\ \A i \in Jobs : i # j => fate'[i] = fate[i]
    BY <1>0, <1>1 DEF SubmitRefused, submitterVars
  <2>2. Sending' = Sending /\ Late' = Late
    BY <2>1 DEF Sending, Late
  <2>3. /\ Passed' = Passed /\ WithFate({"failed"})' = WithFate({"failed"})
        /\ WithFate(ThrownFates)' = WithFate(ThrownFates)
    BY <2>1, <2>2, CountedIs DEF PassedFates, ThrownFates
  <2> QED BY <1>0, <1>c, <2>1, <2>2, <2>3, TallyRests
<1>2. ASSUME NEW j \in Jobs, SubmitBegin(s, j) PROVE Tallies
  <2>1. /\ stats' = stats /\ fate[j] = "new" /\ fate'[j] = "held" /\ spc'[s] = "alloc"
        /\ spc[s] = "idle" /\ sjob[s] = NoJob
        /\ \A i \in Jobs : i # j => fate'[i] = fate[i]
        /\ \A t \in Submitters \ {s} : spc'[t] = spc[t] /\ sjob'[t] = sjob[t]
    BY <1>0, <1>2 DEF SubmitBegin
  <2>2. Sending' = Sending
    <3>1. Sending' = Sending \ {NoJob}
      BY <2>1, SubmitterMoves DEF SendPCs
    <3> QED BY <3>1, InFlight, NoJobAssumption
  <2>3. Late \subseteq Late'
    BY <2>1, LateKept
  <2>4. /\ Passed' = Passed /\ WithFate({"failed"})' = WithFate({"failed"})
        /\ WithFate(ThrownFates)' = WithFate(ThrownFates)
    BY <2>1, <2>2, CountedIs DEF PassedFates, ThrownFates
  <2> QED BY <1>0, <1>c, <2>1, <2>3, <2>4, TallyRests
<1>3. CASE Allocate(s)
  <2>1. /\ UNCHANGED <<sjob, fate>> /\ spc[s] = "alloc" /\ sjob[s] # NoJob
        /\ \A t \in Submitters \ {s} : spc'[t] = spc[t] /\ sjob'[t] = sjob[t]
    BY <1>0, <1>3 DEF Allocate
  <2>2. Late \subseteq Late'
    BY <2>1, LateKept
  <2>3. /\ WithFate({"failed"})' = WithFate({"failed"})
        /\ WithFate(ThrownFates)' = WithFate(ThrownFates)
    BY <2>1, CountedIs
  <2>4. sjob[s] \notin Sending /\ sjob[s] \notin Passed
    <3>1. sjob[s] \notin Sending
      <4> SUFFICES ASSUME sjob[s] \in Sending PROVE FALSE
        OBVIOUS
      <4>1. PICK t \in Submitters : spc[t] \in SendPCs /\ sjob[t] = sjob[s]
        BY InFlight
      <4> QED BY <1>0, <2>1, <4>1 DEF SendPCs
    <3> QED BY <1>0, <2>1, <3>1, CountedIs DEF PassedFates
  <2>5. Sending' = Sending \cup (IF spc'[s] \in SendPCs THEN {sjob[s]} ELSE {})
    BY <2>1, <2>4, SubmitterMoves
  <2>6. CASE OverLimit(used + Size[sjob[s]])
    <3>1. stats' = stats /\ spc'[s] = "undo"
      BY <1>0, <1>3, <2>6 DEF Allocate
    <3>2. Passed' = Passed
      BY <2>1, <2>5, <3>1, CountedIs DEF SendPCs
    <3> QED BY <1>0, <1>c, <2>2, <2>3, <3>1, <3>2, TallyRests
  <2>7. CASE ~OverLimit(used + Size[sjob[s]])
    <3>1. Count("submitted", 1) /\ spc'[s] = "send"
      BY <1>0, <1>3, <2>7 DEF Allocate
    <3>2. Passed' = Passed \cup {sjob[s]}
      BY <2>1, <2>5, <3>1, CountedIs DEF SendPCs
    <3>3. /\ stats'.submitted = stats.submitted + 1
          /\ stats'.failed = stats.failed /\ stats'.dropped = stats.dropped
      BY <1>0, <3>1, CountEffect
    <3>4. Counts({sjob[s]}, Passed, Passed') /\ Cardinality({sjob[s]}) = 1
      BY <2>4, <3>2, CountsOne
    <3> QED BY <1>c, <1>n, <1>e, <2>2, <2>3, <3>3, <3>4 DEF Tallies
  <2> QED BY <2>6, <2>7
<1>4. CASE Send(s) \/ SendPanics(s)
  <2>1. /\ stats' = stats /\ spc[s] \in SendPCs /\ sjob[s] # NoJob /\ sjob[s] \in Sending
        /\ \E pc \in {"idle", "panicked"}, f \in {"queued", "lost"} :
             Leave(s, pc, f) /\ (closed => f = "lost")
    <3>1. /\ stats' = stats /\ spc[s] \in SendPCs /\ sjob[s] # NoJob
          /\ \E pc \in {"idle", "panicked"}, f \in {"queued", "lost"} :
               Leave(s, pc, f) /\ (closed => f = "lost")
      BY <1>0, <1>4 DEF Send, SendPanics, SendPCs
    <3> QED BY <3>1, InFlight
  <2>2. /\ sjob[s] \in Jobs /\ fate[sjob[s]] = "held" /\ fate'[sjob[s]] \in {"queued", "lost"}
        /\ closed => fate'[sjob[s]] = "lost"
        /\ \A j \in Jobs : j # sjob[s] => fate'[j] = fate[j]
        /\ \A t \in Submitters \ {s} : spc'[t] = spc[t] /\ sjob'[t] = sjob[t]
        /\ Sending' = Sending \ {sjob[s]}
    BY <2>1, LeaveMoves DEF Fates
  <2>3. closed => Late \subseteq Late'
    BY <2>2, LateKept
  <2>4. Passed' = Passed
    <3>1. sjob[s] \in Passed /\ sjob[s] \in Passed'
      BY <2>1, <2>2, CountedIs DEF PassedFates
    <3>2. \A j : j # sjob[s] => (j \in Passed' <=> j \in Passed)
      BY <2>2, CountedIs
    <3> QED BY <3>1, <3>2
  <2>5. /\ WithFate({"failed"})' = WithFate({"failed"})
        /\ WithFate(ThrownFates)' = WithFate(ThrownFates)
    <3>1. \A j \in Jobs : /\ fate'[j] = "failed" <=> fate[j] = "failed"
                          /\ fate'[j] \in ThrownFates <=> fate[j] \in ThrownFates
      BY <2>2 DEF ThrownFates
    <3> QED BY <3>1, CountedIs
  <2> QED BY <1>0, <1>c, <2>1, <2>3, <2>4, <2>5, TallyRests
<1>5. CASE AllocateUndo(s) \/ DropNewest(s)
  <2>1. /\ Count("dropped", 1) /\ sjob[s] # NoJob /\ spc[s] \in {"undo", "send"}
        /\ \E f \in {"over_limit", "dropped"} :
             Leave(s, "idle", f) /\ (spc[s] = "send" <=> f = "dropped")
    BY <1>0, <1>5 DEF AllocateUndo, DropNewest
  <2>2. /\ sjob[s] \in Jobs /\ fate[sjob[s]] = "held" /\ fate'[sjob[s]] \in {"over_limit", "dropped"}
        /\ spc[s] = "send" <=> fate'[sjob[s]] = "dropped"
        /\ \A j \in Jobs : j # sjob[s] => fate'[j] = fate[j]
        /\ \A t \in Submitters \ {s} : spc'[t] = spc[t] /\ sjob'[t] = sjob[t]
        /\ Sending' = Sending \ {sjob[s]}
    BY <2>1, LeaveMoves DEF Fates
  <2>3. Late \subseteq Late'
    BY <2>1, <2>2, LateKept
  <2>4. sjob[s] \in Sending <=> spc[s] = "send"
    BY <1>0, <2>1, InFlight DEF SendPCs
  <2>5. Passed' = Passed /\ WithFate({"failed"})' = WithFate({"failed"})
    BY <2>2, <2>4, CountedIs DEF PassedFates
  <2>6. sjob[s] \notin WithFate(ThrownFates)
        /\ WithFate(ThrownFates)' = WithFate(ThrownFates) \cup {sjob[s]}
    BY <2>2, CountedIs DEF ThrownFates
  <2>7. /\ stats'.dropped = stats.dropped + 1
        /\ stats'.submitted = stats.submitted /\ stats'.failed = stats.failed
    BY <1>0, <2>1, CountEffect
  <2>8. /\ Counts({sjob[s]}, WithFate(ThrownFates), WithFate(ThrownFates)')
        /\ Cardinality({sjob[s]}) = 1
    BY <2>6, CountsOne
  <2> QED BY <1>c, <1>n, <1>e, <2>3, <2>5, <2>7, <2>8 DEF Tallies
<1>6. ASSUME spc[s] \in {"send", "evict"}, spc'[s] \in {"evict", "resend"}, UNCHANGED sjob,
             \A t \in Submitters \ {s} : spc'[t] = spc[t],
             \A j \in Jobs : fate[j] = "lost" => fate'[j] = "lost"
      PROVE  Sending' = Sending /\ Late \subseteq Late' /\ sjob[s] \in Jobs /\ sjob[s] \notin Late
  <2>1. sjob[s] \in Sending /\ sjob[s] \in Jobs /\ fate[sjob[s]] = "held"
    BY <1>0, <1>6, InFlight DEF SendPCs
  <2>2. Sending' = Sending
    BY <1>6, <2>1, SubmitterMoves DEF SendPCs
  <2>3. Late \subseteq Late'
    BY <1>6, LateKept
  <2>4. sjob[s] \notin Late
    BY <1>0, <1>6, <2>1, NoJobAssumption DEF Late
  <2> QED BY <2>1, <2>2, <2>3, <2>4
<1>7. CASE FullSeen(s) \/ (DropOldest(s) /\ queue = <<>>)
  <2>1. /\ UNCHANGED <<fate, sjob>> /\ spc[s] \in {"send", "evict"} /\ spc'[s] \in {"evict", "resend"}
        /\ \A t \in Submitters \ {s} : spc'[t] = spc[t]
        /\ \/ stats' = stats
           \/ Count("dropped", 1) /\ closed /\ spc'[s] = "resend"
    BY <1>0, <1>7 DEF FullSeen, DropOldest
  <2>2. Sending' = Sending /\ Late \subseteq Late' /\ sjob[s] \in Jobs /\ sjob[s] \notin Late
    BY <1>6, <2>1
  <2>3. /\ Passed' = Passed /\ WithFate({"failed"})' = WithFate({"failed"})
        /\ WithFate(ThrownFates)' = WithFate(ThrownFates)
    BY <2>1, <2>2, CountedIs
  <2>4. CASE stats' = stats
    BY <1>0, <1>c, <2>2, <2>3, <2>4, TallyRests
  <2>5. CASE Count("dropped", 1) /\ closed /\ spc'[s] = "resend"
    <3>1. sjob[s] \in Late'
      BY <2>1, <2>2, <2>5 DEF Late
    <3>2. /\ stats'.dropped = stats.dropped + 1
          /\ stats'.submitted = stats.submitted /\ stats'.failed = stats.failed
      BY <1>0, <2>5, CountEffect
    <3>3. /\ IsFiniteSet({sjob[s]}) /\ Cardinality({sjob[s]}) = 1
          /\ {sjob[s]} \cap Late = {} /\ {sjob[s]} \subseteq Late'
      BY <2>2, <3>1, FS_Singleton
    <3> QED BY <1>c, <1>n, <1>e, <2>2, <2>3, <2>5, <3>2, <3>3 DEF Tallies
  <2> QED BY <2>1, <2>4, <2>5
<1>8. CASE DropOldest(s) /\ queue # <<>>
  <2>1. PICK h \in Jobs : h = Head(queue) /\ fate[h] = "queued"
    BY <1>0, <1>8, RangeHeadTail DEF OwnInv, SingleInv
  <2>2. /\ UNCHANGED sjob /\ spc[s] \in {"send", "evict"} /\ spc'[s] \in {"evict", "resend"}
        /\ \A t \in Submitters \ {s} : spc'[t] = spc[t]
        /\ Count("dropped", 1) /\ fate' = [fate EXCEPT ![h] = "evicted"]
    BY <1>0, <1>8, <2>1 DEF DropOldest
  <2>3. fate'[h] = "evicted" /\ \A j \in Jobs : j # h => fate'[j] = fate[j]
    BY <1>0, <2>2
  <2>4. Sending' = Sending /\ Late \subseteq Late'
    BY <1>6, <2>1, <2>2, <2>3
  <2>5. Passed' = Passed /\ WithFate({"failed"})' = WithFate({"failed"})
    BY <2>1, <2>3, <2>4, CountedIs DEF PassedFates
  <2>6. h \notin WithFate(ThrownFates) /\ WithFate(ThrownFates)' = WithFate(ThrownFates) \cup {h}
    BY <2>1, <2>3, CountedIs DEF ThrownFates
  <2>7. /\ stats'.dropped = stats.dropped + 1
        /\ stats'.submitted = stats.submitted /\ stats'.failed = stats.failed
    BY <1>0, <2>2, CountEffect
  <2>8. Counts({h}, WithFate(ThrownFates), WithFate(ThrownFates)') /\ Cardinality({h}) = 1
    BY <2>6, CountsOne
  <2> QED BY <1>c, <1>n, <1>e, <2>4, <2>5, <2>7, <2>8 DEF Tallies
<1> QED BY <1>1, <1>2, <1>3, <1>4, <1>5, <1>7, <1>8 DEF SubmitStep

\* A batch has as many jobs as it is long.
LEMMA BatchCount ==
  ASSUME NEW b \in Seq(Jobs), IsInjective(b)
  PROVE  IsFiniteSet(Range(b)) /\ Cardinality(Range(b)) = Len(b)
<1>1. /\ Len(b) \in Nat /\ DOMAIN b = 1 .. Len(b) /\ b = [i \in 1 .. Len(b) |-> b[i]]
      /\ Range(b) = {b[i] : i \in 1 .. Len(b)}
  BY DEF Range
<1>2. b \in Bijection(1 .. Len(b), Range(b))
  BY <1>1 DEF Range, IsInjective, Bijection, Injection, Surjection
<1>3. ExistsBijection(1 .. Len(b), Range(b))
  BY <1>2 DEF ExistsBijection
<1>4. IsFiniteSet(1 .. Len(b)) /\ Cardinality(1 .. Len(b)) = Len(b)
  <2>1. PICK n \in Nat : n = Len(b)
    BY <1>1
  <2>2. \A m \in Int : /\ IsFiniteSet(1 .. m)
                       /\ Cardinality(1 .. m) = IF 1 > m THEN 0 ELSE m - 1 + 1
    BY FS_Interval
  <2>3. IsFiniteSet(1 .. n) /\ Cardinality(1 .. n) = n
    BY <2>2
  <2> QED BY <2>1, <2>3
<1> QED BY <1>3, <1>4, FS_Bijection

\* A worker counts the jobs of a batch that failed.
LEMMA TallyWorker ==
  ASSUME ShapeInv, OwnInv, PlaceInv, NEW w \in Workers, WorkerStep(w)
  PROVE  Tallies
<1>0. /\ batch \in [Workers -> Seq(Jobs)] /\ fate \in [Jobs -> Fates] /\ stats \in Counters
  BY DEF ShapeInv, TypeOK, WorkersOK
<1>1. CASE Receive(w) \/ Collect(w) \/ Release(w) \/ Advances(w)
  <2>1. UNCHANGED <<spc, sjob, fate, stats, closed>>
    BY <1>1 DEF Receive, Collect, Release, Advances, submitterVars, channel
  <2>2. Sending' = Sending /\ Late' = Late
    BY <2>1 DEF Sending, Late
  <2>3. /\ Passed' = Passed /\ WithFate({"failed"})' = WithFate({"failed"})
        /\ WithFate(ThrownFates)' = WithFate(ThrownFates)
    BY <2>1, <2>2, CountedIs
  <2> QED BY <1>0, <2>1, <2>2, <2>3, TallyRests
<1>2. ASSUME NEW f \in Settled, Settles(w, f) PROVE Tallies
  <2>1. /\ UNCHANGED <<spc, sjob, closed>>
        /\ \A j \in Jobs : fate'[j] = IF j \in Range(batch[w]) THEN f ELSE fate[j]
    BY <1>2 DEF Settles
  <2>2. \A j \in Range(batch[w]) : j \in Jobs /\ fate[j] = "queued"
    BY <1>2, BatchFates DEF Settles
  <2>3. Sending' = Sending /\ Late \subseteq Late'
    BY <2>1, <2>2 DEF Sending, Late
  <2>4. Passed' = Passed /\ WithFate(ThrownFates)' = WithFate(ThrownFates)
    BY <2>1, <2>2, <2>3, CountedIs DEF PassedFates, ThrownFates, Settled
  <2>5. CASE f = "indexed"
    <3>1. WithFate({"failed"})' = WithFate({"failed"})
      BY <2>1, <2>2, <2>5, CountedIs
    <3>2. stats' = stats
      BY <1>2, <2>5 DEF Settles
    <3> QED BY <1>0, <2>1, <2>3, <2>4, <3>1, <3>2, TallyRests
  <2>6. CASE f = "failed"
    <3>1. /\ Range(batch[w]) \cap WithFate({"failed"}) = {}
          /\ WithFate({"failed"})' = WithFate({"failed"}) \cup Range(batch[w])
      BY <2>1, <2>2, <2>6, CountedIs
    <3>2. batch[w] \in Seq(Jobs) /\ Len(batch[w]) \in Nat /\ Count("failed", Len(batch[w]))
      BY <1>0, <1>2, <2>6 DEF Settles
    <3>3. IsFiniteSet(Range(batch[w])) /\ Cardinality(Range(batch[w])) = Len(batch[w])
      BY <3>2, BatchCount DEF PlaceInv
    <3>4. /\ stats'.failed = stats.failed + Cardinality(Range(batch[w]))
          /\ stats'.submitted = stats.submitted /\ stats'.dropped = stats.dropped
      BY <1>0, <3>2, <3>3, CountEffect
    <3>5. Counts(Range(batch[w]), WithFate({"failed"}), WithFate({"failed"})')
      BY <3>1, <3>3 DEF Counts
    <3>6. (\A S : Counts({}, S, S)) /\ Cardinality({}) = 0 /\ IsFiniteSet({})
      BY CountsNothing, FS_EmptySet
    <3>7. /\ stats.submitted = stats.submitted + 0 /\ stats.dropped = stats.dropped + 0 + 0
      BY <1>0 DEF Counters
    <3> QED BY <2>1, <2>3, <2>4, <3>4, <3>5, <3>6, <3>7 DEF Tallies
  <2> QED BY <1>2, <2>5, <2>6 DEF Settled
<1> QED BY <1>1, <1>2, WorkerCases

\* Every step counts what it throws away, fails or admits, once.
LEMMA TallyStep ==
  ASSUME ShapeInv, OwnInv, PlaceInv, [Next]_vars
  PROVE  Tallies
<1>1. CASE CloseBegin \/ CloseReturn \/ UpdateMetricsRead \/ UpdateMetricsStore \/ UNCHANGED vars
  <2>1. UNCHANGED <<spc, sjob, fate, stats>> /\ (closed => closed')
    BY <1>1 DEF CloseBegin, CloseReturn, UpdateMetricsRead, UpdateMetricsStore, vars, channel,
                submitterVars
  <2>2. Sending' = Sending /\ Late' = Late
    BY <2>1 DEF Sending, Late
  <2>3. /\ Passed' = Passed /\ WithFate({"failed"})' = WithFate({"failed"})
        /\ WithFate(ThrownFates)' = WithFate(ThrownFates)
    BY <2>1, <2>2, CountedIs
  <2>4. stats \in Counters
    BY DEF ShapeInv, TypeOK
  <2> QED BY <2>1, <2>2, <2>3, <2>4, TallyRests
<1>2. CASE \E s \in Submitters :
             SubmitStep(s) \/ Send(s) \/ \E j \in Jobs : SubmitRefused(s, j) \/ SubmitBegin(s, j)
  BY <1>2, TallySubmit
<1>3. CASE \E w \in Workers : WorkerStep(w)
  BY <1>3, TallyWorker
<1> QED BY <1>1, <1>2, <1>3 DEF Next, Step, Finished

\* Counting new jobs keeps a counter equal to the number of jobs counted.
LEMMA CountsKeep ==
  ASSUME NEW D, NEW S, NEW T, IsFiniteSet(S), Counts(D, S, T)
  PROVE  /\ IsFiniteSet(T) /\ Cardinality(T) = Cardinality(S) + Cardinality(D)
         /\ Cardinality(S) \in Nat /\ Cardinality(D) \in Nat /\ Cardinality(T) \in Nat
<1>1. /\ IsFiniteSet(D) /\ D \cap S = {} /\ S \cap D = {} /\ T = S \cup D
  BY DEF Counts
<1>2. Cardinality({}) = 0
  BY FS_EmptySet
<1>3. PICK s \in Nat, d \in Nat : s = Cardinality(S) /\ d = Cardinality(D)
  BY <1>1, FS_CardinalityType
<1>4. IsFiniteSet(T) /\ Cardinality(T) = s + d - Cardinality(S \cap D)
  BY <1>1, <1>3, FS_Union
<1>5. Cardinality(S \cap D) = 0
  BY <1>1, <1>2
<1>6. Cardinality(T) = s + d
  BY <1>4, <1>5
<1> QED BY <1>3, <1>4, <1>6

\* The counters follow every such step.
LEMMA StatsStep ==
  ASSUME ShapeInv, OwnInv, PlaceInv, StatsInv, Tallies
  PROVE  StatsInv'
<1>0. /\ IsFiniteSet(Passed) /\ IsFiniteSet(WithFate({"failed"}))
      /\ IsFiniteSet(WithFate(ThrownFates)) /\ IsFiniteSet(Late)
  BY CountedFinite
<1>1. stats'.submitted = Cardinality(Passed')
  <2>1. PICK D : Counts(D, Passed, Passed') /\ stats'.submitted = stats.submitted + Cardinality(D)
    BY DEF Tallies
  <2> QED BY <1>0, <2>1, CountsKeep DEF StatsInv
<1>2. stats'.failed = Cardinality(WithFate({"failed"})')
  <2>1. PICK D : /\ Counts(D, WithFate({"failed"}), WithFate({"failed"})')
                 /\ stats'.failed = stats.failed + Cardinality(D)
    BY DEF Tallies
  <2> QED BY <1>0, <2>1, CountsKeep DEF StatsInv
<1>3. \E N \in SUBSET Late' :
        /\ N # {} => closed'
        /\ stats'.dropped = Cardinality(WithFate(ThrownFates)') + Cardinality(N)
  <2>1. PICK D, E : /\ Counts(D, WithFate(ThrownFates), WithFate(ThrownFates)')
                    /\ IsFiniteSet(E) /\ E \cap Late = {} /\ E \subseteq Late' /\ (E # {} => closed)
                    /\ stats'.dropped = stats.dropped + Cardinality(D) + Cardinality(E)
    BY DEF Tallies
  <2>2. PICK N \in SUBSET Late :
          /\ N # {} => closed
          /\ stats.dropped = Cardinality(WithFate(ThrownFates)) + Cardinality(N)
    BY DEF StatsInv
  <2>3. IsFiniteSet(N) /\ Counts(E, N, N \cup E)
    BY <1>0, <2>1, <2>2, FS_Subset DEF Counts
  <2>4. /\ Cardinality(N \cup E) = Cardinality(N) + Cardinality(E)
        /\ Cardinality(N) \in Nat /\ Cardinality(E) \in Nat
    BY <2>3, CountsKeep
  <2>5. /\ Cardinality(WithFate(ThrownFates)') = Cardinality(WithFate(ThrownFates)) + Cardinality(D)
        /\ Cardinality(WithFate(ThrownFates)) \in Nat /\ Cardinality(D) \in Nat
    BY <1>0, <2>1, CountsKeep
  <2>6. N \cup E \in SUBSET Late' /\ (N \cup E # {} => closed')
    BY <2>1, <2>2 DEF Tallies
  <2>7. stats'.dropped = Cardinality(WithFate(ThrownFates)') + Cardinality(N \cup E)
    BY <2>1, <2>2, <2>4, <2>5
  <2> QED BY <2>6, <2>7
<1>4. /\ Cardinality(Passed)' = Cardinality(Passed')
      /\ Cardinality(WithFate({"failed"}))' = Cardinality(WithFate({"failed"})')
      /\ Cardinality(WithFate(ThrownFates))' = Cardinality(WithFate(ThrownFates)')
  OBVIOUS
<1> QED BY <1>1, <1>2, <1>3, <1>4 DEF StatsInv

\* Nothing is counted at first.
LEMMA StatsInit == Init => StatsInv
<1> SUFFICES ASSUME Init PROVE StatsInv
  OBVIOUS
<1>1. Passed = {} /\ WithFate({"failed"}) = {} /\ WithFate(ThrownFates) = {}
  BY DEF Init, Passed, Sending, WithFate, PassedFates, ThrownFates
<1>2. Cardinality({}) = 0
  BY FS_EmptySet
<1>3. stats.submitted = 0 /\ stats.failed = 0 /\ stats.dropped = 0 + 0
  BY DEF Init
<1>4. {} \in SUBSET Late
  OBVIOUS
<1> QED BY <1>1, <1>2, <1>3, <1>4 DEF StatsInv

\* Stats() adds up at every moment, whatever the strategy and however the
\* goroutines interleave: Submit and the workers count every job once, and
\* dropped is too high only by submitters that met the closed channel.
THEOREM StatsExact == Spec => []StatsAccounted
<1>1. ShapeInv /\ OwnInv /\ PlaceInv /\ StatsInv /\ [Next]_vars => StatsInv'
  BY TallyStep, StatsStep
<1>2. ShapeInv /\ OwnInv /\ PlaceInv /\ StatsInv => StatsAccounted
  <2> SUFFICES ASSUME ShapeInv, OwnInv, PlaceInv, StatsInv PROVE StatsAccounted
    OBVIOUS
  <2>1. PICK N \in SUBSET Late :
          /\ N # {} => closed
          /\ stats.dropped = Cardinality(WithFate(ThrownFates)) + Cardinality(N)
    BY DEF StatsInv
  <2>2. /\ IsFiniteSet(Sending \cup WithFate({"lost"})) /\ N \subseteq Sending \cup WithFate({"lost"})
        /\ IsFiniteSet(WithFate(ThrownFates))
    BY <2>1, CountedFinite
  <2>3. PICK t \in Nat, n \in Nat, m \in Nat :
          /\ t = Cardinality(WithFate(ThrownFates)) /\ n = Cardinality(N)
          /\ m = Cardinality(Sending \cup WithFate({"lost"})) /\ n <= m
    BY <2>2, FS_Subset, FS_CardinalityType
  <2>4. ~closed => n = 0
    BY <2>1, <2>3, FS_EmptySet
  <2>5. stats.dropped \in t .. (t + (IF closed THEN m ELSE 0))
    BY <2>1, <2>3, <2>4
  <2> QED BY <2>3, <2>5 DEF StatsInv, StatsAccounted, Passed, PassedFates, ThrownFates
<1> QED
  BY <1>1, <1>2, ShapeInit, ShapeStep, OwnInit, OwnStep, PlaceInit, PlaceStep, StatsInit, PTL
  DEF Spec

=============================================================================
