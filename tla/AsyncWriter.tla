----------------------------- MODULE AsyncWriter -----------------------------
(***************************************************************************)
(* The asynchronous writer (internal/recorder/async_writer.go) together    *)
(* with the memory ledger it charges (internal/memory/controller.go).      *)
(*                                                                         *)
(* Goroutines that call Submit hand WriteJobs to a bounded Go channel;     *)
(* worker goroutines take them out in batches, put their objects in the    *)
(* storage backend, write one index transaction per batch and release the  *)
(* bytes the jobs were charged.  Close closes the channel and waits for    *)
(* the workers.  One action is one access to the channel, the ledger or    *)
(* the backend, so that every interleaving of the goroutines is a          *)
(* behaviour; a counter of Stats(), which no goroutine acts on, is counted *)
(* in the step it reports.                                                 *)
(*                                                                         *)
(* Payloads are abstracted to their sizes, the object of a job is named by *)
(* the job itself, and the storage backend and the index are seen through  *)
(* the results their calls return.                                         *)
(***************************************************************************)
EXTENDS Integers, Sequences, FiniteSets, FiniteSetsExt

CONSTANTS
  Submitters,    \* goroutines that call Submit: pullers, the scheduler, handlers
  Handlers,      \* those of the API server, whose panics net/http recovers
  Workers,       \* worker goroutines started by NewAsyncWriter
  Jobs,          \* the WriteJobs of a behaviour; every job is submitted once
  InitKeys,      \* keys of init segments
  NoJob,         \* a Submitter that is not inside Submit holds this
  InitKey,       \* [Jobs -> InitKeys], Meta.InitKey
  WithInit,      \* the jobs whose InitData is not empty
  Size,          \* [Jobs -> Nat], len(GOPData) + len(InitData)
  QueueSize,     \* capacity of the channel
  MaxBatchSize,  \* const maxBatchSize of worker()
  MaxBytes,      \* limit of the memory controller
  Strategies,    \* back-pressure strategies a writer may be configured with
  PutResults,    \* what StorageBackend.Put may return
  IndexResults,  \* what BatchWriteGOP may return
  HeapReadings   \* heap sizes ReadMemStats may report ({}: before the first of them)

ASSUME NoJobAssumption == NoJob \notin Jobs
ASSUME WorkersAssumption == Workers # {}
ASSUME HandlersAssumption == Handlers \subseteq Submitters
ASSUME KeysAssumption == Jobs \cap InitKeys = {}
ASSUME InitKeyAssumption == InitKey \in [Jobs -> InitKeys] /\ WithInit \subseteq Jobs
ASSUME SizeAssumption == Size \in [Jobs -> Nat]
ASSUME BoundsAssumption ==
  QueueSize \in Nat \ {0} /\ MaxBatchSize \in Nat \ {0} /\ MaxBytes \in Nat
ASSUME StrategiesAssumption == Strategies \subseteq {"block", "drop", "drop_oldest", "other"}
ASSUME PutResultsAssumption == PutResults \subseteq {"ok", "pending", "degraded", "error"}
ASSUME IndexResultsAssumption == IndexResults \subseteq {"ok", "error"}
ASSUME HeapReadingsAssumption == HeapReadings \subseteq Nat

VARIABLES
  queue,     \* the channel's buffer
  closed,    \* AsyncWriter.closed; also: the channel is closed
  used,      \* Controller.usedBytes
  stats,     \* the counters submitted, failed and dropped
  spc,       \* where each submitter stands inside Submit
  sjob,      \* the job it is submitting
  wpc,       \* where each worker stands
  batch,     \* its batch
  pos,       \* the job of the batch it is working on
  stored,    \* keys whose object the backend holds
  indexed,   \* jobs whose GOPMeta is in the index
  cpc,       \* the goroutine that calls Close
  strategy,  \* AsyncWriter.strategy, fixed when the writer is made
  heapRead,  \* the heap size UpdateMetrics has read and not stored yet
  unseen,    \* history: jobs submitted since that reading
  missed,    \* history: jobs charged that the stored reading did not see
  fate       \* history: what became of each job (read by properties only)

channel == <<queue, closed>>
submitterVars == <<spc, sjob>>
workerVars == <<wpc, batch, pos>>
backendVars == <<stored, indexed>>
metricsVars == <<heapRead, unseen, missed>>
vars == <<queue, closed, used, stats, spc, sjob, wpc, batch, pos, stored,
          indexed, cpc, strategy, heapRead, unseen, missed, fate>>

NoReading == -1

Bytes(js) == MapThenSumSet(LAMBDA j : Size[j], js)

\* NewAsyncWriterWithStrategy: an empty channel and idle workers.
Init ==
  /\ queue = <<>>
  /\ closed = FALSE
  /\ used = 0
  /\ stats = [submitted |-> 0, failed |-> 0, dropped |-> 0]
  /\ spc = [s \in Submitters |-> "idle"]
  /\ sjob = [s \in Submitters |-> NoJob]
  /\ wpc = [w \in Workers |-> "recv"]
  /\ batch = [w \in Workers |-> <<>>]
  /\ pos = [w \in Workers |-> 0]
  /\ stored = {}
  /\ indexed = {}
  /\ cpc = "open"
  /\ strategy \in Strategies
  /\ heapRead = NoReading /\ unseen = {} /\ missed = {}
  /\ fate = [j \in Jobs |-> "new"]

-----------------------------------------------------------------------------
(* Submit *)

Count(field, n) == stats' = [stats EXCEPT ![field] = @ + n]

\* Submit of s returns (or panics) and its job's fate is f.
Leave(s, pc, f) ==
  /\ spc' = [spc EXCEPT ![s] = pc]
  /\ sjob' = [sjob EXCEPT ![s] = NoJob]
  /\ fate' = [fate EXCEPT ![sjob[s]] = f]

\* The locked read of closed at the head of Submit.
SubmitRefused(s, j) ==
  /\ spc[s] = "idle" /\ fate[j] = "new" /\ closed
  /\ fate' = [fate EXCEPT ![j] = "refused"]
  /\ UNCHANGED <<channel, used, stats, submitterVars, workerVars, backendVars, cpc, metricsVars, strategy>>

SubmitBegin(s, j) ==
  /\ spc[s] = "idle" /\ fate[j] = "new" /\ ~closed
  /\ spc' = [spc EXCEPT ![s] = "alloc"]
  /\ sjob' = [sjob EXCEPT ![s] = j]
  /\ fate' = [fate EXCEPT ![j] = "held"]
  /\ unseen' = IF heapRead = NoReading THEN unseen ELSE unseen \cup {j}
  /\ UNCHANGED <<channel, used, stats, workerVars, backendVars, cpc, heapRead, missed, strategy>>

\* Mutant: the limit is compared with the ledger before this job was added.
OverLimitStale(bytes) == used > MaxBytes

OverLimit(bytes) == bytes > MaxBytes

\* Controller.Allocate adds first and compares the sum it got.
Allocate(s) ==
  /\ spc[s] = "alloc"
  /\ LET newUsed == used + Size[sjob[s]]
     IN  /\ used' = newUsed
         /\ IF OverLimit(newUsed)
              THEN spc' = [spc EXCEPT ![s] = "undo"] /\ UNCHANGED stats
              ELSE spc' = [spc EXCEPT ![s] = "send"] /\ Count("submitted", 1)
  /\ UNCHANGED <<channel, sjob, workerVars, backendVars, cpc, metricsVars, strategy, fate>>

\* Allocate takes the bytes back and Submit drops the job.
AllocateUndo(s) ==
  /\ spc[s] = "undo"
  /\ used' = used - Size[sjob[s]]
  /\ Count("dropped", 1)
  /\ Leave(s, "idle", "over_limit")
  /\ UNCHANGED <<channel, workerVars, backendVars, cpc, metricsVars, strategy>>

\* Mutants: the capacity of the channel is off by one.
FullOneLate == Len(queue) > QueueSize
FullOneEarly == Len(queue) >= QueueSize - 1

Full == Len(queue) >= QueueSize

\* queue <- job, blocking or as the ready case of a select.
Send(s) ==
  /\ spc[s] \in {"send", "resend"} /\ ~closed /\ ~Full
  /\ queue' = Append(queue, sjob[s])
  /\ Leave(s, "idle", "queued")
  /\ UNCHANGED <<closed, used, stats, workerVars, backendVars, cpc, metricsVars, strategy>>

\* A send on a closed channel panics, also one that was blocked before Close.
\* Out of an API handler this ends the process.
SendPanics(s) ==
  /\ spc[s] \in {"send", "resend"} /\ closed
  /\ Leave(s, "panicked", "lost")
  /\ UNCHANGED <<channel, used, stats, workerVars, backendVars, cpc, metricsVars, strategy>>

\* The default case of the select of "drop" and of an unknown strategy.
DropNewest(s) ==
  /\ spc[s] = "send" /\ ~closed /\ Full
  /\ strategy \in {"drop", "other"}
  /\ Count("dropped", 1)
  /\ Leave(s, "idle", "dropped")
  /\ UNCHANGED <<channel, used, workerVars, backendVars, cpc, metricsVars, strategy>>

\* The default case of the select of "drop_oldest".
FullSeen(s) ==
  /\ spc[s] = "send" /\ ~closed /\ Full
  /\ strategy = "drop_oldest"
  /\ spc' = [spc EXCEPT ![s] = "evict"]
  /\ UNCHANGED <<channel, used, stats, sjob, workerVars, backendVars, cpc, metricsVars, strategy, fate>>

\* Mutant: for the oldest job the size of the new one is released.
DropOldestReleases(s) ==
  /\ spc[s] = "evict"
  /\ spc' = [spc EXCEPT ![s] = "resend"]
  /\ IF queue # <<>>
       THEN /\ queue' = Tail(queue) /\ used' = used - Size[sjob[s]]
            /\ fate' = [fate EXCEPT ![Head(queue)] = "evicted"]
       ELSE UNCHANGED <<queue, used, fate>>
  /\ IF queue # <<>> \/ closed THEN Count("dropped", 1) ELSE UNCHANGED stats
  /\ UNCHANGED <<closed, sjob, workerVars, backendVars, cpc, metricsVars, strategy>>

\* Mutant: the oldest job is counted as dropped but stays in the channel.
DropOldestPeeks(s) ==
  /\ spc[s] = "evict"
  /\ spc' = [spc EXCEPT ![s] = "resend"]
  /\ fate' = IF queue # <<>> THEN [fate EXCEPT ![Head(queue)] = "evicted"] ELSE fate
  /\ IF queue # <<>> \/ closed THEN Count("dropped", 1) ELSE UNCHANGED stats
  /\ UNCHANGED <<channel, used, sjob, workerVars, backendVars, cpc, metricsVars, strategy>>

\* The non-blocking receive of "drop_oldest".  From a channel that was drained
\* and closed meanwhile it receives nil, and counts that as a dropped job.
DropOldest(s) ==
  /\ spc[s] = "evict"
  /\ spc' = [spc EXCEPT ![s] = "resend"]
  /\ IF queue # <<>>
       THEN /\ queue' = Tail(queue)
            /\ fate' = [fate EXCEPT ![Head(queue)] = "evicted"]
       ELSE UNCHANGED <<queue, fate>>
  /\ IF queue # <<>> \/ closed THEN Count("dropped", 1) ELSE UNCHANGED stats
  /\ UNCHANGED <<closed, used, sjob, workerVars, backendVars, cpc, metricsVars, strategy>>

-----------------------------------------------------------------------------
(* worker *)

\* for job := range w.queue
Receive(w) ==
  /\ wpc[w] = "recv" /\ queue # <<>>
  /\ queue' = Tail(queue)
  /\ batch' = [batch EXCEPT ![w] = Append(@, Head(queue))]
  /\ wpc' = [wpc EXCEPT ![w] = "collect"]
  /\ UNCHANGED <<closed, used, stats, submitterVars, pos, backendVars, cpc, metricsVars, strategy, fate>>

\* Mutant: a worker leaves as soon as the writer is closed.
WorkerExitEarly(w) ==
  /\ wpc[w] = "recv" /\ closed
  /\ wpc' = [wpc EXCEPT ![w] = "exited"]
  /\ UNCHANGED <<channel, used, stats, submitterVars, batch, pos, backendVars, cpc, metricsVars, strategy, fate>>

WorkerExit(w) ==
  /\ wpc[w] = "recv" /\ queue = <<>> /\ closed
  /\ wpc' = [wpc EXCEPT ![w] = "exited"]
  /\ UNCHANGED <<channel, used, stats, submitterVars, batch, pos, backendVars, cpc, metricsVars, strategy, fate>>

\* The ready case of the collecting select.
Collect(w) ==
  /\ wpc[w] = "collect" /\ queue # <<>> /\ Len(batch[w]) < MaxBatchSize
  /\ queue' = Tail(queue)
  /\ batch' = [batch EXCEPT ![w] = Append(@, Head(queue))]
  /\ UNCHANGED <<closed, used, stats, submitterVars, wpc, pos, backendVars, cpc, metricsVars, strategy, fate>>

\* processBatch puts the init segment only of a job that carries one.
FirstPut(j) == IF j \in WithInit THEN "put_init" ELSE "put_gop"

\* The batch is full, or the channel is empty (closed or not): process it.
CollectDone(w) ==
  /\ wpc[w] = "collect"
  /\ queue = <<>> \/ Len(batch[w]) = MaxBatchSize
  /\ wpc' = [wpc EXCEPT ![w] = FirstPut(batch[w][1])]
  /\ pos' = [pos EXCEPT ![w] = 1]
  /\ UNCHANGED <<channel, used, stats, submitterVars, batch, backendVars, cpc, metricsVars, strategy, fate>>

\* Mutant: the error of a Put is only logged.
PutErrorIgnored(result) == result \in {"ok", "pending", "error"}

\* Only ErrEntryPendingCompensation is forgiven; ErrStorageDegraded is not.
PutAccepted(result) == result \in {"ok", "pending"}

\* The object exists unless Put failed outright; "degraded" is what the hybrid
\* backend returns after it has written the object through the fallback.
PutStores(result) == result # "error"

StoreKey(key, result) == stored' = IF PutStores(result) THEN stored \cup {key} ELSE stored

\* Mutant: a failed batch counts as one failed job.
FailBatchOnce(w) ==
  /\ Count("failed", 1)
  /\ fate' = [j \in Jobs |-> IF j \in Range(batch[w]) THEN "failed" ELSE fate[j]]
  /\ wpc' = [wpc EXCEPT ![w] = "release"]
  /\ pos' = [pos EXCEPT ![w] = 1]

\* worker() counts the whole batch as failed and goes on to release it.
FailBatch(w) ==
  /\ Count("failed", Len(batch[w]))
  /\ fate' = [j \in Jobs |-> IF j \in Range(batch[w]) THEN "failed" ELSE fate[j]]
  /\ wpc' = [wpc EXCEPT ![w] = "release"]
  /\ pos' = [pos EXCEPT ![w] = 1]

PutInit(w, result) ==
  /\ wpc[w] = "put_init"
  /\ StoreKey(InitKey[batch[w][pos[w]]], result)
  /\ IF PutAccepted(result)
       THEN /\ wpc' = [wpc EXCEPT ![w] = "put_gop"]
            /\ UNCHANGED <<stats, pos, fate>>
       ELSE FailBatch(w)
  /\ UNCHANGED <<channel, used, submitterVars, batch, indexed, cpc, metricsVars, strategy>>

PutGOP(w, result) ==
  /\ wpc[w] = "put_gop"
  /\ StoreKey(batch[w][pos[w]], result)
  /\ IF PutAccepted(result)
       THEN /\ IF pos[w] = Len(batch[w])
                 THEN wpc' = [wpc EXCEPT ![w] = "index"] /\ UNCHANGED pos
                 ELSE /\ wpc' = [wpc EXCEPT ![w] = FirstPut(batch[w][pos[w] + 1])]
                      /\ pos' = [pos EXCEPT ![w] = @ + 1]
            /\ UNCHANGED <<stats, fate>>
       ELSE FailBatch(w)
  /\ UNCHANGED <<channel, used, submitterVars, batch, indexed, cpc, metricsVars, strategy>>

\* BatchWriteGOP is one transaction: the whole batch is indexed, or none of it.
IndexBatch(w, result) ==
  /\ wpc[w] = "index"
  /\ IF result = "ok"
       THEN /\ indexed' = indexed \cup Range(batch[w])
            /\ fate' = [j \in Jobs |-> IF j \in Range(batch[w]) THEN "indexed" ELSE fate[j]]
            /\ wpc' = [wpc EXCEPT ![w] = "release"]
            /\ pos' = [pos EXCEPT ![w] = 1]
            /\ UNCHANGED stats
       ELSE FailBatch(w) /\ UNCHANGED indexed
  /\ UNCHANGED <<channel, used, submitterVars, batch, stored, cpc, metricsVars, strategy>>

\* Controller.Release, once per job; after the last one the batch is emptied.
Release(w) ==
  /\ wpc[w] = "release"
  /\ used' = used - Size[batch[w][pos[w]]]
  /\ IF pos[w] = Len(batch[w])
       THEN /\ batch' = [batch EXCEPT ![w] = <<>>]
            /\ pos' = [pos EXCEPT ![w] = 0]
            /\ wpc' = [wpc EXCEPT ![w] = "recv"]
       ELSE pos' = [pos EXCEPT ![w] = @ + 1] /\ UNCHANGED <<batch, wpc>>
  /\ UNCHANGED <<channel, stats, submitterVars, backendVars, cpc, metricsVars, strategy, fate>>

-----------------------------------------------------------------------------
(* Close, and the ticker of cmd/server that calls UpdateMetrics *)

\* Mutant: Close waits for the workers without closing the channel.
CloseBeginOpen ==
  /\ cpc = "open"
  /\ cpc' = "waiting"
  /\ UNCHANGED <<channel, used, stats, submitterVars, workerVars, backendVars, metricsVars, strategy, fate>>

CloseBegin ==
  /\ cpc = "open"
  /\ closed' = TRUE
  /\ cpc' = "waiting"
  /\ UNCHANGED <<queue, used, stats, submitterVars, workerVars, backendVars, metricsVars, strategy, fate>>

\* wg.Wait
CloseReturn ==
  /\ cpc = "waiting" /\ \A w \in Workers : wpc[w] = "exited"
  /\ cpc' = "returned"
  /\ UNCHANGED <<channel, used, stats, submitterVars, workerVars, backendVars, metricsVars, strategy, fate>>

\* UpdateMetrics replaces the ledger by the heap size in two steps.  The heap
\* holds at least the jobs that are reachable when it is read.
Reachable ==
  ({sjob[s] : s \in Submitters} \ {NoJob})
    \cup Range(queue) \cup UNION {Range(batch[w]) : w \in Workers}

\* Jobs a submitter is sending.
Sending == {sjob[s] : s \in {x \in Submitters : spc[x] \in {"send", "evict", "resend"}}}

\* Jobs whose bytes Allocate admitted and no Release has returned yet.
Admitted ==
  Sending \cup Range(queue)
    \cup UNION {{batch[w][i] : i \in {n \in DOMAIN batch[w] :
                                        wpc[w] = "release" => n >= pos[w]}} : w \in Workers}

Undoing == {sjob[s] : s \in {x \in Submitters : spc[x] = "undo"}}

UpdateMetricsRead ==
  /\ heapRead = NoReading
  /\ \E alloc \in HeapReadings : alloc >= Bytes(Reachable) /\ heapRead' = alloc
  /\ UNCHANGED <<channel, used, stats, submitterVars, workerVars, backendVars, cpc, unseen, missed,
                 strategy, fate>>

UpdateMetricsStore ==
  /\ heapRead # NoReading
  /\ used' = heapRead
  /\ heapRead' = NoReading /\ unseen' = {}
  /\ missed' = unseen \cap (Admitted \cup Undoing)
  /\ UNCHANGED <<channel, stats, submitterVars, workerVars, backendVars, cpc, strategy, fate>>

\* A panic nobody recovered has ended the process.
Crashed == \E s \in Submitters \ Handlers : spc[s] = "panicked"

\* Nothing is left to do: the process has crashed, or Close has returned and
\* nobody is inside Submit.
Finished ==
  /\ \/ Crashed
     \/ cpc = "returned" /\ \A s \in Submitters : spc[s] \in {"idle", "panicked"}
  /\ UNCHANGED vars

-----------------------------------------------------------------------------
SubmitStep(s) ==
  \/ Allocate(s) \/ AllocateUndo(s) \/ SendPanics(s)
  \/ DropNewest(s) \/ FullSeen(s) \/ DropOldest(s)

WorkerStep(w) ==
  \/ Receive(w) \/ WorkerExit(w) \/ Collect(w) \/ CollectDone(w)
  \/ \E result \in PutResults : PutInit(w, result) \/ PutGOP(w, result)
  \/ \E result \in IndexResults : IndexBatch(w, result)
  \/ Release(w)

Step ==
  \/ \E s \in Submitters, j \in Jobs : SubmitRefused(s, j) \/ SubmitBegin(s, j)
  \/ \E s \in Submitters : SubmitStep(s) \/ Send(s)
  \/ \E w \in Workers : WorkerStep(w)
  \/ CloseBegin \/ CloseReturn
  \/ UpdateMetricsRead \/ UpdateMetricsStore

Next == (~Crashed /\ Step) \/ Finished

Spec == Init /\ [][Next]_vars

\* Goroutines are scheduled, storage and index calls end (processBatch runs
\* under a 10 s context), and Go serves blocked senders in FIFO order, so a
\* sender is not overtaken for ever, all while the process lives.  Nobody is
\* obliged to call Submit or Close.
Fairness ==
  /\ \A s \in Submitters : WF_vars(~Crashed /\ SubmitStep(s)) /\ SF_vars(~Crashed /\ Send(s))
  /\ \A w \in Workers : WF_vars(~Crashed /\ WorkerStep(w))
  /\ WF_vars(~Crashed /\ CloseReturn)

FairSpec == Spec /\ Fairness

-----------------------------------------------------------------------------
(* Properties *)

Fates == {"new", "refused", "held", "over_limit", "queued", "dropped", "evicted",
          "lost", "failed", "indexed"}
SubmitPCs == {"idle", "alloc", "undo", "send", "evict", "resend", "panicked"}
WorkerPCs == {"recv", "collect", "put_init", "put_gop", "index", "release", "exited"}
Counters == [submitted : Nat, failed : Nat, dropped : Nat]

ChannelOK == queue \in Seq(Jobs) /\ Len(queue) <= QueueSize /\ closed \in BOOLEAN

SubmittersOK ==
  /\ spc \in [Submitters -> SubmitPCs]
  /\ sjob \in [Submitters -> Jobs \cup {NoJob}]
  /\ \A s \in Submitters : sjob[s] = NoJob <=> spc[s] \in {"idle", "panicked"}

WorkersOK ==
  /\ wpc \in [Workers -> WorkerPCs]
  /\ batch \in [Workers -> Seq(Jobs)]
  /\ pos \in [Workers -> Nat]
  /\ \A w \in Workers : pos[w] <= Len(batch[w]) /\ Len(batch[w]) <= MaxBatchSize

\* Every variable has its type; the channel and the batches keep their bounds.
TypeOK ==
  /\ ChannelOK /\ SubmittersOK /\ WorkersOK
  /\ used \in Int /\ heapRead \in HeapReadings \cup {NoReading}
  /\ unseen \subseteq Jobs /\ missed \subseteq Jobs
  /\ stats \in Counters
  /\ stored \subseteq Jobs \cup InitKeys /\ indexed \subseteq Jobs
  /\ cpc \in {"open", "waiting", "returned"} /\ strategy \in Strategies
  /\ fate \in [Jobs -> Fates]

\* What the index points to exists: an indexed GOP was put in storage before,
\* and so was the init segment its job carried, whatever the other workers do
\* and whichever call of the batch failed (processBatch).
IndexedOnlyIfStored ==
  \A j \in indexed : j \in stored /\ (j \in WithInit => InitKey[j] \in stored)

\* When Close returns, every job the channel accepted has been indexed, has
\* been counted as failed, or was evicted: none is left in the channel or in
\* the hands of a worker (range over the closed channel, wg.Wait).
CloseDrains == cpc = "returned" => \A j \in Jobs : fate[j] # "queued"

WithFate(fates) == {j \in Jobs : fate[j] \in fates}

\* The ledger never says less than what is in flight, although UpdateMetrics
\* replaces it every ten seconds by a heap size it read before, but for the jobs
\* that were submitted and charged between that reading and its storing.
LedgerCovers == used >= Bytes(Admitted) + Bytes(Undoing) - Bytes(missed)

\* Whoever Allocate lets pass leaves no more in flight than the limit, although
\* it adds before it compares and several submitters do so at once; only what
\* the last heap reading missed comes on top.
AdmitsWithinLimit ==
  [][(\E s \in Submitters : spc[s] = "alloc" /\ spc'[s] = "send") =>
       Bytes(Admitted') <= MaxBytes + Bytes(missed)]_vars

\* Stats() adds up: submitted counts the jobs that passed Allocate, failed the
\* jobs of failed batches, and dropped the jobs refused or thrown away.  Only
\* after Close may dropped exceed them, by the submitters of "drop_oldest" that
\* received nil from the closed channel and are about to panic.
StatsAccounted ==
  LET thrown == Cardinality(WithFate({"over_limit", "dropped", "evicted"}))
      nils   == IF closed THEN Cardinality(Sending \cup WithFate({"lost"})) ELSE 0
  IN  /\ stats.submitted = Cardinality(Sending \cup
           WithFate({"queued", "dropped", "evicted", "lost", "failed", "indexed"}))
      /\ stats.failed = Cardinality(WithFate({"failed"}))
      /\ stats.dropped \in thrown .. (thrown + nils)

\* A Submit that was admitted comes back, by returning or by panicking, however
\* long the channel stays full, unless another panic ends the process first.
SubmitReturns ==
  \A s \in Submitters : spc[s] # "idle" ~> spc[s] \in {"idle", "panicked"} \/ Crashed

=============================================================================
