# A TLA+ model of record-storage

record-storage pulls H.264/H.265 streams from cameras over RTSP, cuts them into
GOPs, stores the GOPs as fMP4 fragments in SeaweedFS (or in memory), indexes them in
BoltDB and plays them back over RTSP.  This directory models the parts in which
goroutines, remote services and time meet, checks them with TLC and proves with TLAPS, for
every size of the system, every safety property that the passing runs check on a small one.  Paths below are
relative to the repository; line numbers are in `PROJECT.json` ("map" for definitions, "hazards" for where things bite).

## 1. Inventory

| Component | State | Operations | Talks to | What is hard, and what must hold |
|---|---|---|---|---|
| `recorder/async_writer.go` | channel of jobs, `closed`, counters, worker goroutines | `Submit` (block, drop, drop_oldest), `worker`/`processBatch`, `Close`, `WriteEvent`, `Stats` | memory controller, storage, index | many senders against `Close`; batches that fail half-way; quota on every way out. The index names only stored objects; `Close` leaves no accepted job; counters add up, the ledger never says too little |
| `memory/controller.go` | `usedBytes` | `Allocate`, `Release`, `UpdateMetrics`, `ShouldDropFrame` | writer, recorder, ticker of `main` | add-then-compare; a heap reading stored over the ledger |
| `recorder/stream_recorder.go`, `gop_assembler.go` | atomic state, builder, params, init segment, sequence, samples of the open GOP | `Start`, `Stop`, `ProcessSample`, `rebuildBuilder`, `FlushGOP` | writer; called by puller, API, scheduler | `Stop` and the puller flush the same assembler; several short critical sections. GOPs are well formed, distinct and decodable |
| `storage/seaweed_hybrid.go` | entry cache, `compPending`, `compQueue`, breaker | `Put`, `Get`/`GetRange`, `Delete`, `List`, `Close`, compensation loop | master, volume and filer clients, HTTP fallback | a write needs three services; timeouts that are executed late; retries; open breaker. No dangling entry, nothing acknowledged is lost |
| `storage/*_client.go`, `seaweed_filer_http.go` | connections | the remote calls | SeaweedFS | results and effects only; errors inside a reply, which the filer client does not read |
| `index/bolt_index.go`, `cmd/migrate` | every GOP twice: date buckets per camera (`gop_v2`) and a flat bucket (`gop_index`) | `WriteGOP`, `BatchWriteGOP`, `QueryRange`, `DeleteRange`, `GetRecordingRanges`, migration, events | writer, retention, playback, API | local dates against UTC days. No GOP is missed, the copies agree, ranges are exact |
| `recorder/retention.go` | none of its own | hourly `cleanup` | storage, index | partial failure, crash, boundaries, restored databases. Nothing young is deleted; a later cleanup makes up for a failed one |
| `recorder/scheduler.go` | ticker goroutine | `Evaluate`, `Start`, `Stop` | recorder | windows over midnight and week end; the API and the puller change the same state between its reading and its stores. The schedule is followed, and wins in the end |
| `index/snapshot.go` | ticker goroutine | `CreateSnapshot`, `RestoreFromSnapshot` | storage | one key put again and again; a restore that replaces the database before it fails |
| `playback/server.go`, `prefetcher.go`, `fragment_reader.go` | pending streams, sessions, position and scale, prefetch cache | DESCRIBE, SETUP, PLAY (resume, seek, scale), PAUSE, end of session and connection | index, storage | a playback goroutine outlives the seek that replaced it; late prefetches. Playback is gapless, resuming loses nothing, every goroutine can be ended and ends |
| `puller/rtsp_puller.go` | client, base time, reconnect loop | `Start`, `Stop`, `connectAndPlay`, callbacks | recorder | `Stop` while reconnecting; packets before the base time is set. One connection feeds the recorder, time does not go back, a lost camera comes back |
| `recorder/fmp4_builder.go` | sequence number | `BuildFragment`, `ParseFragment` | recorder, playback | timestamps through a truncating time scale |
| `api/server.go`, `cmd/server/main.go` | wiring | handlers, start and shutdown order | all | shutdown order, double `Close` |
| `config`, `metrics`, `rtp_sender.go` (packets), `pb` | – | sequential code, encoding, generated code | – | not modelled, see section 8 |

## 2. Modules

| Module | Models |
|---|---|
| `AsyncWriter` | writer and memory ledger, any number of submitters and workers |
| `WriterContract` | what the writer promises, without channel, batches or workers |
| `AsyncWriterRefinement` | the mapping under which `AsyncWriter` implements `WriterContract` |
| `StreamRecorder` | recorder and assembler of one camera |
| `HybridStorage` | SeaweedFS backend with breaker, cache and compensation |
| `GOPIndex` | operators on the two copies of the index: write, query, delete, migrate, ranges |
| `Index` | the index by itself, under writes, deletions, migration and every question |
| `Retention` | retention cleaner, snapshots, restore and migration over `GOPIndex`, with recording beside |
| `Scheduler` | schedule controller beside the API and the puller |
| `FMP4` | what a fragment keeps of the timestamps of a GOP |
| `Playback` | one client's connection and session, its playback goroutines and prefetches, over `FMP4` |
| `Puller` | the reconnect loop, `Stop` and the callbacks of one camera |
| `AsyncWriterProofs`, `StreamRecorderProofs`, `HybridStorageProofs`, `IndexProofs`, `RetentionProofs`, `SchedulerProofs`, `PlaybackProofs`, `PullerProofs` | the theorems about the module each is named after, with their inductive invariants (section 5); the first also proves the refinement, `PlaybackProofs` what `FMP4` computes |
| `MC*` | the same modules instantiated for TLC |

Each component module has the form: constants with named assumptions, variables, one
action per critical section, channel operation or remote call, `Next`, `Spec`, a
fair specification where liveness is checked, then the properties.  An operator whose
comment begins with "Mutant" is a plausible bug of the definition that follows it.  No
specification uses it: `PROJECT.json` ("mutants") says which property it must
break when it takes the place of that definition.

### How state and actions correspond to the code

**AsyncWriter.**  `queue`/`closed` are the Go channel and the flag set under the same
lock.  `spc` walks a `Submit`: the locked check (`SubmitBegin`, `SubmitRefused`),
`Allocate` (add), `AllocateUndo` (take back), then the send with the outcome its strategy
gives: `Send`, `SendPanics` (closed channel), `DropNewest`, or
`FullSeen`/`DropOldest`/`Send` again.  A panic out of an API handler (`Handlers`) is recovered by net/http; out of a
puller's callback or the scheduler's goroutine nobody recovers it, and the process has `Crashed`: nothing happens any more.
`UpdateMetricsRead` and `UpdateMetricsStore` are the two halves of `UpdateMetrics`; a reading is at least the size of
what is `Reachable`.  `unseen` and `missed` are history variables: the jobs submitted since the last reading, and those of them
that were charged when it replaced the ledger.  A behaviour has one `strategy`, chosen in `Init`.  `wpc` walks a
worker: `Receive`, `Collect`, `CollectDone` (batch full or channel empty), `PutInit`
and `PutGOP` per job, `IndexBatch`, `Release` per job.  `fate` is a history variable: what became
of each job.  A payload is its size; a job names its own object.  A counter of `Stats()`, which no goroutine acts on, is counted in
the step it reports.

**StreamRecorder.**  A sample is its number, key flag and parameters.  `pc` walks
`ProcessSample` for the puller and `Stop` for the controllers; both go through
`FlushTake` (assembler lock), `FlushSnap` (`s.mu`) and `FlushSubmit`.

**HybridStorage.**  A Put is numbered; the number stands for the file id, so `entries`
(the filer's directory), `cache` and `pending` map keys to Put numbers.  `late` holds `CreateEntry` calls
whose client gave up and which the filer may still execute; `refused` is a history variable, the Puts whose entry the filer
refused in its reply.  The client does not read that reply, so a refusal is no error (`NoError`) and
`Put`, the compensation loop and the breaker take it for success; a `Delete` may remove nothing in the same way.  The thirty-second window and the five-second probe
interval are the actions `WindowOver` and `ProbeTime`.  `MayCall` states who uses the backend: the
writer puts every key once (`Once`), the snapshot manager puts one key again and again, retention deletes keys that are days
old.

**GOPIndex, Index, Retention.**  Time is in ticks of UTC, `Day` to a day.  `QueryRange` and
`DeleteRange` select by bucket and key as the code does: the bucket by the date at the server
(`Zone`), the range by UTC midnights named in the time zone of the question (`loc`).  In
`Retention`, `day`, `cutoff` and `todo` are the cleaner's local variables; `StopProcess` loses
them, at any point; `RestoreFromSnapshot` and `MigrateIndex` run while the process is down.  A restore whose download
fails changes nothing; one whose file cannot be written or opened (`RestoreFails`) has already replaced the database, by one that is
empty or that no process can open (`readable`), until a restore succeeds.
`partial`, `failed` and `forgotten` are history variables: a day was cut short, an index
transaction of this cleanup failed, a GOP is missing from a restored database.

**Scheduler.**  The clock walks through a week of short days; `scheduleMatches` is translated line by line and
compared with `InWindow`, a layout of the week's windows made independently.  `pc` walks the controller: `Evaluate` reads
clock and state, and what it decides on is done by steps of its own (`EvaluateStart`, `EvaluateStop`, `EvaluateStopEnd`
after the flush).  Between them the API starts and stops the recorder (`ManualStart`, `ManualStopBegin`, `ManualStopEnd`) and
`ProcessSample` stores `recording` on the strength of the state it has read (`SampleReads`, `SampleStores`).  `calm` is a
history variable: nobody has interfered since the last `Evaluate` began.

**Playback.**  `states` are the `sessionState`s DESCRIBE has made, `runs` the goroutines PLAY has
started.  `PlayResolve` is the locked `resolvePlayParameters`, `PlayStart` the rest of `OnPlay`:
between the two an old goroutine may still record its progress.  A run walks `RunList`
(`ListGOPs`), `RunFetch` (next GOP from the cache or storage, start of the next prefetch),
`RunSample` (look at the context, skip, stop after the end), `RunSend`, `RunProgress`.  The waiting time
before a sample is the freedom of when `RunSend` happens; `RunDelayCancelled` is the other
branch of that `select`.  The handlers of a session run one after the other (gortsplib), which
is why the reads of `state.cancel` without a lock are one action each.  `sent`, `extra`,
`prev` and `writer` are history variables.

**Puller.**  `run` walks `Start` and then the goroutine; `link` is what became of each connection.
A connection delivers packets from the answer to PLAY on, which is before `Swap` sets
the base time.  `SwapLag` bounds the time in between, `Tick` is the clock.

### The writer's contract

`WriterContract` has three variables: the `status` of every job (new, accepted, refused, recorded,
lost), the `durable` objects and the `phase` of Close, which a crash ends.  A job is accepted only before Close
begins; accepted jobs are settled in groups, by one index transaction that needs all their
objects to be durable, or by being given up together; Close returns when no accepted job is
left.  `AsyncWriterRefinement` maps `fate`, `stored` and `cpc` to these and TLC checks that every
step of the writer is a step of the contract or a stutter (`ImplementsContract`), and, under
fair scheduling, that the contract's own fairness holds: an accepted job is settled and
Close returns, unless the process crashes (`HonoursContract`).

## 3. Runs that pass

State counts are of distinct states, times on two cores.

| Run | Checks | Size |
|---|---|---|
| `writer_safety` | `TypeOK`, `IndexedOnlyIfStored`, `CloseDrains`, `LedgerCovers`, `StatsAccounted`, `AdmitsWithinLimit` | 2.6 million (symmetry), 1.5 min |
| `writer_live` | `ImplementsContract`, `HonoursContract`, `SubmitReturns` | 133 thousand, 1.5 min |
| `recorder` | `GOPWellFormed`, `JobsDistinct`, `InitCarriedOnce`, `CallsReturn` | 159 thousand, 40 s |
| `hybrid_writes` | `AckedIsVisible`, `PendingTracked`, `PendingHandled` | 6.7 million (symmetry), 2 min |
| `hybrid_calls` | `NoDanglingEntry`, `CacheCoherent`, `Recovers`, `CloseReturns` | 132 thousand, 30 s |
| `index` | `CopiesAgree`, `RangeComplete`, `RangesExact`, `RangesFound` | 3.5 thousand, 10 s |
| `retention` | `FreshKept`, `IndexNeverDangles`, `CleanupHeals` | 6.5 million, 2 min |
| `scheduler` | `FollowsSchedule`, `ScheduleWins` | 1.1 million, 1 min |
| `playback` | `SentIsUnbroken`, `TimesKept`, `CancelledSendsOnce`, `ResumeLosesNothing`, `NoOrphanRun`, `RunsEnd` | 300 thousand, 1 min |
| `puller` | `OneFeed`, `StopSilences`, `TimesAdvance`, `StopReturns`, `Reconnects` | 464 thousand, 1 min |

The runs spend their time on what the components promise.  `TypeOK` of the modules other than
`AsyncWriter` is where their proofs start, and is proved instead of checked.

What they show, under every interleaving of the instance:

* the writer keeps its contract; the index never names an object that was not stored; the
  counters are explained exactly by what became of the jobs; the memory ledger never says less than what is in flight, and
  `Allocate` lets no more pass than the limit, but for jobs that were charged between a heap reading and its storing;
* GOPs are well formed and disjoint whoever flushes them, and an init segment is carried once;
* the directory of the filer never dangles; but for entries it refused in a reply that is not read, acknowledged
  objects stay visible, the cache follows the directory and pending entries
  stay remembered; somebody is at work on them or has given them up, unless they met the full queue;
* a range of the index misses no GOP, its two copies agree, and the recording ranges the API answers
  are those a definition by gaps gives;
* the data of nothing younger than the retention period is lost, and the index finds it, with deletions
  that fail, a process that is stopped anywhere, a restored snapshot and a migration (excepted are init segments shared with an
  expired GOP, a GOP that began before the cutoff, which leaves the index, what was indexed after the snapshot that was restored, and the whole index while a failed restore has replaced the database); the index names a missing object only after
  a day was cut short, and the next cleanup that succeeds removes it;
* an `Evaluate` that nobody interferes with leaves the recorder running exactly in its windows; after the API, or a
  sample that stored `recording` over a `Stop`, interfered, a later tick brings it back, unless the minute ends first;
* each PLAY sends an unbroken part of the recording, a cancelled one at most one sample more; PAUSE and
  PLAY lose nothing, unless an older goroutine has overwritten the position (`writer` remembers whose
  position it is, and `clean` whether that is the last run); no goroutine gets out of
  reach, and all end with the connection, without waiting for their next sample;
* one connection at a time feeds the recorder, recorded time does not go back once a connection's base time is set, `Stop` returns,
  and silences the camera unless it meets the loop on its way to reconnect, and a lost camera is tried until it answers.

### Bounds, and why they are enough

* `writer_safety`: two submitters and two workers are the least that race on each
  side; three jobs, batches of two and a channel of one make
  batches with mixed fates, a full channel, eviction and refusal by the limit all happen.  One submitter is a handler, whose
  panic is recovered, the other is not.  A heap reading of 2, with a limit of 3 and jobs of 1 and 2, is too high for an
  idle writer and too low for a busy one.  `writer_live` is about the time before the first reading, whose storing
  touches nothing that anybody waits for.
* `recorder`: three samples give a GOP, the key frame that ends it, and a codec change in
  between; two controllers race `Start` and `Stop`; one of three parameter sets has no init segment.
* `hybrid_writes`: three Puts of a write-once key and of the snapshot's, and a queue of one, make the queue overflow
  while the loop holds a meta, and an old version of the snapshot come late; `Threshold = 2` (20 in the code) opens the
  breaker; the count beyond it is not told apart.  Clients are symmetric.  `hybrid_calls` has one key, because cache, directory and deletion
  interact per key, and no symmetry, because it checks liveness.
* `index`: two days of four ticks and GOPs of one to three ticks give every position against
  the midnights of server, UTC and client (`Zone = 1`, `Locations = {0, 1, 2}`), gaps
  below, at and above `Gap`; the database is new or has two old rows.
* `retention`: days of three ticks, six ticks, GOPs of one or two ticks: GOPs over a day's end
  and over the cutoff, on two days to scan; one stop of the process, one old row.  A GOP is
  shorter than the retention period (`MaxTimeAssumption`), as GOPs of seconds are.
* `scheduler`: a day of four minutes has every order of start, end and now; the weekday lists
  touch both ends of the week and both names of Sunday; two Stops of the API at once are the least that overlap.
* `playback`: a second has three units and the track two, so that truncation shows; recordings of
  three short GOPs, one uneven GOP on both sides of what is asked for, and one with two codecs.
  Two PLAYs are the least that race; a third would race with the second as the second does
  with the first.  One DESCRIBE, because each makes a state of its own.  A cache of one
  (10 in the code) is full at once.
* `puller`: two client objects are as many as are referred to at once; backoff 1, 2, 3 reaches the cap.  The clock
  stops at `MaxTime`, after which samples are not looked at, so that the reconnect loop can
  go on for ever.

### Fairness

Goroutines are scheduled and remote calls end, because each has a context with a timeout: weak fairness of the
steps inside a call.  A blocked sender is served in FIFO order by the Go runtime,
so `Send` is strongly fair.  In `Playback` the steps of a goroutine are weakly fair (reads have
contexts), but not the sample that is waited for, which may be hours away after a gap in the recording; a handler that was entered goes on, and the library closes the session of a closed
connection; no client is obliged to send anything.  In `Puller` the goroutine, `Stop` and the clock are
weakly fair; `SF` of `ConnectOK` says that a camera that is tried again and again answers
in the end, which `Reconnects` needs and `StopReturns` does not.  In `Scheduler` the goroutine, its ticker and the end of a `Stop` are
weakly fair and the clock is not: `ScheduleWins` does not count on how much fits into a minute.  All
fairness of the writer ends with the process.  Nobody is
obliged to call `Submit`, `Start`, `Stop` or `Close`.  Only `Recovers` assumes traffic
(`BusySpec`), because the probe is made inside calls.

## 4. Runs that show a disagreement with the documents

| Run | Property | What happens |
|---|---|---|
| `recorder_decodable` | `GOPDecodable` | `Stop` has taken a GOP; the puller rebuilds for new parameters; the old frames are built and described as the new codec |
| `playback_codec` | `PlaysAcrossCodecs` | a client plays over a change of codec; the first sample of the new codec meets a sender without an encoder for it, a nil pointer that ends the process |

The findings in `PROJECT.json` quote the lines concerned.

Further divergences met while modelling.  No run is spent on them.  Unless an item says otherwise the models behave
as described, and the properties are stated so that they neither demand nor deny it:

Writer and recorder

* a `Submit` that has passed the check of `closed` sends on the channel `Close` has closed in between, and panics
  (`SendPanics`), which ends the process unless an API handler was the caller (implementation-design.md:472 "drop frames, don't crash");
* a GOP that was stored through the fallback (`ErrStorageDegraded`), or next to one whose put failed, is
  given up unindexed, although README.md:339 says of `block` that no data is lost;
* drop and drop_oldest never release the quota of the job they drop, where requirements-analysis.md:195 and README.md:525 want it
  released: three jobs and a full channel are enough to have bytes charged with nothing in flight, until `UpdateMetrics`
  overwrites the counter (`LedgerCovers` only says that the ledger is not too low);
  drop_oldest on a drained, closed channel counts a nil as a dropped job (`StatsAccounted`);
* `UpdateMetrics` overwrites the ledger by a heap size it read before, so more than the limit can be admitted afterwards, by as much as was
  charged in between (`AdmitsWithinLimit`);
* `ProcessSample` stores `recording` over a state `Stop` has set since, and may add its
  sample after `Stop` has flushed;
* a GOP whose submission fails takes the init segment it carried with it: later GOPs refer to
  a segment nobody stores; when the flush before a key frame fails, the key frame is lost too;
* `rebuildBuilder` replaces the builder before it knows that an init segment can be made.

Storage, index and retention

* the filer client discards the reply of `CreateEntry`, in which the filer refuses an entry (grpc_filer_client.go:46; the
  master client reads its own): one `Put` is enough to be acknowledged, indexed and cached without a directory entry, and a
  refused retry is taken out of `compPending`, where requirements-analysis.md:892 has a failed `CreateEntry` queued and retried
  (`AckedIsVisible`, `PendingTracked` and `CacheCoherent` except these Puts and no others);
* a meta that finds `compQueue` full stays in `compPending` and is never retried, two Puts and a queue of one are
  enough (README.md:853, requirements-analysis.md:892, :1111; `PendingHandled` excepts these metas and no others);
* the compensation of an old index snapshot can replace the entry of a newer one;
* a failed probe that ends after another caller's successful one opens the breaker again; without
  calls nothing probes at all;
* `main` calls `store.Close()` explicitly and by `defer`: the second close of `compQueue` panics (`CloseAgain`);
* on a server west of Greenwich, or for a question asked with a negative offset, `QueryRange` misses the bucket of the
  day before (`RangeComplete` with a negative `Zone` or location; `CopiesAgree` and `CleanupHeals` with a negative `Zone`:
  `DeleteRange` misses the same bucket, so that the copies part and a cleanup leaves a day behind);
* a question for ranges over several days is answered for its first date only;
* for the first day with GOPs the index is cleaned up to the cutoff: the objects of the later days, and objects whose
  deletion failed, are never found again (retention.go:12 "deletes them from both storage and index");
  on a database that was not migrated the rows of `gop_index` go without their objects;
* an init segment shared by an expired and a young GOP is deleted with the expired one (`FreshKept` says
  that it goes for no other reason);
* `RestoreFromSnapshot` has replaced the database when it finds that the snapshot cannot be opened (`RestoreFails`).

Puller and playback

* a `Stop` that meets the reconnect loop in its sleep or while it connects closes the old client; the loop then
  connects, returns, and leaves the new client feeding the recorder (README.md:199 "Reconnecting --> [*]: Stop()");
* packets that arrive before `Swap` get times of the connection before;
* the recorder is not told of a reconnection: the GOP that is open goes on with frames of the new connection,
  where README.md:721 says that it returns to `WaitingKeyFrame`;
* a camera whose first `Start` fails is skipped for ever (cmd/server/main.go:108; not modelled beyond `Start` returning an
  error); at shutdown nobody stops the recorders, so that the open GOP is lost (the shutdown is not modelled as a whole);
* after a seek into a GOP the samples from the wanted time on are sent, P frames first, where
  requirements-analysis.md:362-364 demands a key frame (`SentIsUnbroken` leaves open where in its GOP a PLAY begins); a GOP that began more than two seconds before the start is not listed at all, so that with
  longer GOPs a PLAY begins with a gap (`SentIsUnbroken` fails in TLC for a GOP longer than `Lookback`; hence a hypothesis of `Gapless`);
* samples that were read back are never B frames, so that scale 4 sends what scale 2 does;
* the prefetch cache evicts an arbitrary GOP (README.md:492 "LRU"), and keeps ten where
  requirements-analysis.md:196 allows one;
* the goroutine of before a seek may record its progress after the seek has set the position: a PLAY without a
  range then resumes at the old place;
* a DESCRIBE without SETUP leaves its stream open; a SETUP after TEARDOWN on the same
  connection gets the closed stream; playback without an end stops after the window of 24 hours.

## 5. Proofs

Every theorem holds for all values of the constants that satisfy the module's named assumptions: any number
of goroutines, jobs, keys, samples or days, any sizes and bounds, any results of the remote calls.  Where an argument needs more, the
theorem has the form `Hypothesis => (Spec => []Inv)`, and the hypothesis is discussed below.  Every inductive
invariant was checked by TLC on an instance before it was proved.  Each proof has one case per action of `Next`
(or per group of actions that disturb the invariant in the same way), and ends in a temporal step by `PTL`.

### The writer (`AsyncWriterProofs`)

* `TypeCorrect`: `TypeOK` is not inductive, because that `pos` points into a batch depends on where the worker
  stands.  `BatchShape` says so, and `ShapeInv == TypeOK /\ BatchShape` is inductive.
* `IndexSafe` (`IndexedOnlyIfStored`): when a worker writes the index its whole batch must be stored;
  `PrefixPersisted` carries that job by job.  `StoreInv` needs that `stored` only grows, which is so because
  the writer never deletes.
* `CloseComplete` (`CloseDrains`): `DrainInv` says that an accepted job that is not decided is in the channel or in the batch
  of a worker that has not decided it, that a worker exits only from a closed and empty channel, and that `Close` returns after
  all have.  `WorkersAssumption` is needed: without a worker `Close` would return over a full channel.
* `KeepsContract` (`ImplementsContract`): initial states map to initial states, and every step is a step of
  `WriterContract` or a stutter.  Besides the invariants above it needs `OwnInv`: a job inside `Submit`
  belongs to one submitter, and an undecided job is in one place only, so that a worker
  settles no job of another's.
* `LedgerSound` (`LedgerCovers`) and `AdmissionBounded` (the action property `AdmitsWithinLimit`), whatever `UpdateMetrics` reads and when it
  stores it.  `LedgerInv` adds to `LedgerCovers` that a reading not stored yet is at least the size of the jobs it saw, that is of those reachable and
  not `unseen`.  `PlaceInv` adds that batches are disjoint and have distinct jobs, and that a
  batch being released is settled.  `FlowStep` shows that every step moves at most one job between the sets the ledger is compared with
  (`Admits`, `Exceeds`, `TakesBack`, `Leaks`, `Releases`, or `Rests`), and `BytesAdd` and `BytesRemove` what that does to the sums.
* `StatsExact` (`StatsAccounted`), without a hypothesis.  The upper bound on `dropped` is not inductive: `StatsInv` names the jobs
  by which it is too high, a subset of those whose submitter met the closed channel (`Late`).  `TallyStep` shows that every step counts each
  job that joins a set once; a failed batch counts its length, which is its number of jobs because they are distinct.

### The recorder (`StreamRecorderProofs`)

* `TypeCorrect`, and `GOPsAreWellFormed` (`GOPWellFormed`) from `FramesInv`: what is in the assembler has the recorder's
  current parameters, because the puller empties it before it rebuilds, and `Stop` only ever takes from it.
* `JobsAreDistinct` (`JobsDistinct`) from `IdsInv` and `MetasInv`: a sample is in one place (assembler, a thread's GOP or a job), and
  the sample in hand is newer than all of them; a sequence number is copied once.
* `InitTravelsOnce` (`InitCarriedOnce`) from `PathInv` and `MetasInv`: of two jobs that refer to one init segment the one that carries
  it has the smaller sequence number, and no copied meta refers to a segment that still waits.

### The backend (`HybridStorageProofs`)

* `TypeCorrect`, and `NoDangling` (`NoDanglingEntry`) from three invariants: whatever mentions a version mentions the key it was
  put under (`NameInv`); a key that was deleted is claimed by nobody (`DeleteInv`); and the data of
  whatever may still become an entry (a late `CreateEntry`, a queued or retried meta, a Put past its upload)
  is on a volume (`StoredInv`).
* `AckedStaysVisible` (`AckedIsVisible`), `PendingNotForgotten` (`PendingTracked`) and `CacheStaysCoherent` (`CacheCoherent`), without a
  hypothesis, from `VisibleInv` for write-once keys: what the cache, the callers and the loop believe is so, or the filer has refused it
  (`Believed`); and from `AgainInv` for keys that are put again: only one Put of such a key is under way, it is the last, and whatever
  arrives after it was deferred (`Postponed`), so that the directory shows this Put, a later one or a deferred one (`Shows`).
* `PendingInHand` (`PendingHandled`) from `HandledInv`, for a queue of any size: a queued or retried meta is the pending one of its
  key, and is so once.

### Index and retention (`IndexProofs`, `RetentionProofs`)

* `CopiesStayEqual` (`CopiesAgree`), under `Zone >= 0`, and `RangesComplete` (`RangeComplete`), under `SameSide` for every location:
  the facts about days are lemmas on `\div` (`DayUnique`, `OffsetDay`, `MidnightDay`) from which `DatesCover` follows: the dates
  `QueryRange` looks at contain the bucket of every instant of the range.  Both hypotheses are needed: with `Zone = -2` TLC
  finds both properties violated.
* `RangesAreExact` (`RangesExact`), in every time zone, and `RangesAreFound` (`RangesFound`), under `SameSide` for every location: what the loop of
  `GetRecordingRanges` computes for any number of rows.  `SeparateInv` says that the rows of both copies are GOPs of one stream, which do
  not overlap.  `ByStartInOrder` shows that the ranks behind `ByStart` number such rows from 1 without a gap, each after the end of the one before.
  `RangesOf` is the invariant of the loop: after `i` rows the ranges so far cover them, begin and end with one
  of them, hold no inner gap of `Gap` or more and are at least `Gap` apart, and the last one ends with row `i`.  `AddKeeps` shows that one turn
  (`AddGOP`) keeps it.  `RangesAreFound` adds that `QueryRange` returns every GOP of the date (`QueryComplete`, `InItsDay`).
* `TypeCorrect`, and `FreshStays` (`FreshKept`) from `CutoffInv` (the cutoff of a cleanup is old enough however long it takes,
  because the clock only advances) and `KeptInv`, which says of the snapshot what it says of the database, so that a restore after a failed one brings back what the
  snapshot had.  In every time zone.
* `IndexIsBacked` (`IndexNeverDangles`) from `NamedInv`: unless a day was cut short, a row without an object is one the
  cleanup is about to remove (`Doomed`).  In every time zone.
* `CleanupEndsClean` (the action property `CleanupHeals`), under `Zone >= 0`, from `HealedInv`: of the days a cleanup has been through
  nothing is left in the index, including the midnights that its closed ranges share.

`RetentionProofs` assumes that old rows are well-formed GOPs that ended before the clock starts, and that at least one day is scanned.

### Scheduler, playback and puller (`SchedulerProofs`, `PlaybackProofs`, `PullerProofs`)

* `ScheduleFollowed` (`FollowsSchedule`) rests on `MatchesInWindow`: `scheduleMatches` and the independent layout `InWindow` agree for
  every item, weekday and minute, for days of any length, so that no window over midnight or over the end of the week is
  missed or doubled.  `CalmInv` carries it through the steps of `Evaluate` while nobody interferes: what is left to do fits the state that was read.
* `TypeCorrect` of `Playback`: no handler, goroutine or prefetch refers to a state, run, GOP or sample that does not exist.
* `NoOrphan` (`NoOrphanRun`) from `LiveInv`: a run that was not cancelled is the one its state remembers, and its session
  plays.  `CancelIsPrompt` (`CancelledSendsOnce`) from `OnceInv`: after its one sample a cancelled run is at a place from which it looks at its context.
* `TimesAreKept` (`TimesKept`), under `RegularRecordings` (samples at least a unit of the track apart): what the recursive decode times
  of `FMP4` add up to for a GOP of any length.
* `Gapless` (`SentIsUnbroken`) and `ResumesWhereItWas` (`ResumeLosesNothing`), under `Playable`: the GOPs are regular, follow one another in time, and
  each but the last is no longer than `ListGOPs` looks back (two seconds, the interval of key frames README.md:741 gives).
  `PrefixInv` says that a run has sent exactly the wanted samples it has passed, from which `PrefixUnbroken` has the property; `PositionInv` that the position of a
  state is covered by the run that wrote it.  The recordings of the run satisfy `Playable`; with a longer GOP TLC
  shows a gap.
* `TypeCorrect`, `SingleFeed` (`OneFeed`) from `FeedInv`: a client that plays is the one being swapped in or the puller's own, and none while the
  loop sleeps or connects.  `StopQuiet` (`StopSilences`) from `StopInv`: a `Stop` that did not meet the loop on its way to
  reconnect has read the last client.
* `SampleTimes` (the action property `TimesAdvance`) from `TimeInv`: the base time is at most `SwapLag` behind the first packet, and the highest
  time so far is not ahead of the next sample.

### Induction over data

The library's induction theorems take an operator, which the installed provers cannot instantiate.  `LeastMember` and
`Induction` in `PlaybackProofs` are stated with a set in its place and proved from the library's `WFMin`; what a recursive function computes is
then proved by forming the set of positions at which it holds.  `SubsetInduction` in `AsyncWriterProofs` does the same for the subsets of a finite
set: `SumsExist` shows that the recursive definition behind `Bytes` has a solution, and `BytesRemove` that the sum does not depend on the order
in which the elements are taken.  `UpTo` in `IndexProofs` is induction up to the length of a list; with it `MergesExist` shows that the recursion in
`Merged` has a solution and `MergedRanges` what it returns.

### What the proofs changed in the models

* The cases of `Resume` in `StreamRecorder` overlapped, which TLC resolves by their order and TLA+ leaves open; they are now disjoint.
* `ResumeLosesNothing` held for nothing after a PAUSE, because PAUSE counted as having disturbed the position; it now
  depends on who wrote the position.
* `WriterContract` settles any non-empty group of jobs (`Batches`), for a proof cannot lean on the batch size of an instance.
* `Merged` of `GOPIndex` is a recursive function over the positions of the list, with one turn of the loop (`AddGOP`) and its condition
  (`Joins`) as operators of their own, so that the loop has an invariant to state.
* Constants got the assumptions the proofs use: `None` is no time, record or segment; the old rows of a database are GOPs that do not overlap; requests and recordings have
  their types.

### Only model-checked

Every safety property of the passing runs is stated by a theorem.  What is left to TLC alone:

* Every liveness property (`SubmitReturns`, `HonoursContract`, `CallsReturn`, `Recovers`, `CloseReturns`, `ScheduleWins`,
  `RunsEnd`, `StopReturns`, `Reconnects`): the prover does not reason about fairness.

## 6. Abstractions to keep in mind

* A storage or index call is one action with a result from a constant set; a batch's index
  transaction is atomic (BoltDB).
* A worker collects its batch without waiting: it ends when the channel is empty or the batch full (`CollectDone`).
* The retries inside one remote call (`retryDo`) are one action with one result.
* Volumes do not move: the cache of volume locations is left out.
* Two workers that index GOPs of one camera do so in any order; GOPs of one stream do not overlap.
* A recording does not change while it is played: the cleaner and the writer are not composed with `Playback`.
* Playback sends a sample in one step; packets, and the parameter sets that go ahead of a GOP, are left out.

## 7. Plan

1. `HybridStorage`: the volume-location cache and its refresh.
2. The puller composed with the recorder; the order of shutdown in `main`.

## 8. Not modelled

* `pb` is generated: 24.9 of the repository's 29.9 thousand lines of Go are messages and stubs without
  control of their own.  The map therefore covers a small share of all lines and most of the
  lines that hold the program's logic.
* `metrics` only counts; `config` reads and checks a file.
* The byte layout of `fmp4_builder.go` and the packets of `rtp_sender.go` are encoding; the number the builder
  gives a fragment is read by nobody.
* Events of the index and the read-only handlers of the API have no behaviour beyond a write and a list.
* In the clients of SeaweedFS the choice of an endpoint and the classification of errors; in the backend the
  cache of volume locations (plan).

## 9. Running the checks

```
tlc -workers 2 -config writer_safety.cfg MCAsyncWriter
tlapm AsyncWriterProofs.tla
```

and likewise for the other runs and the other `*Proofs` modules.

`PROJECT.json` lists every run with its module and its cfg.
