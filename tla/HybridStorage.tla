---------------------------- MODULE HybridStorage ----------------------------
(***************************************************************************)
(* The SeaweedFS backend (internal/storage/seaweed_hybrid.go): writes that *)
(* need three services, the compensation of writes whose last step failed, *)
(* the entry cache, and the breaker that sends calls to the filer's HTTP   *)
(* interface while the gRPC control plane is down.                         *)
(*                                                                         *)
(* A Put is named by its number, which is also the file id the master      *)
(* assigns to it.  The retries of one call are one action with one result. *)
(* Both interfaces of the filer show the same directory, entries.  The     *)
(* cache of volume locations is left out: volumes do not move here.        *)
(***************************************************************************)
EXTENDS Integers, Sequences, FiniteSets, Functions

CONSTANTS
  Clients,        \* goroutines that use the backend
  Keys,           \* object keys
  None,           \* no call, no meta
  Once,           \* keys put at most once: all but that of the index snapshot
  Kinds,          \* the kinds of call the clients make
  MaxPuts,        \* bound: number of Puts
  Threshold,      \* control-plane failures in a window that open the breaker
  QueueSize,      \* capacity of compQueue
  RetryAttempts,  \* attempts of retryCreateEntry
  CreateResults,  \* what CreateEntry may do
  PingResults,    \* outcomes of the pings of the control plane
  Healthy         \* outcomes of the other calls: {TRUE} if nothing ever fails

ASSUME OnceAssumption == Once \subseteq Keys
ASSUME KindsAssumption == Kinds \subseteq {"put", "get", "delete", "list"}
ASSUME BoundsAssumption ==
  MaxPuts \in Nat /\ Threshold \in Nat \ {0} /\ QueueSize \in Nat \ {0} /\ RetryAttempts \in Nat \ {0}
ASSUME ResultsAssumption ==
  /\ CreateResults \subseteq {"ok", "lost", "late", "refused"}
  /\ Healthy \subseteq BOOLEAN /\ PingResults \subseteq BOOLEAN

VARIABLES
  entries,    \* the filer's directory: the Put a key refers to, 0 for none
  objects,    \* Puts whose data is on a volume
  late,       \* CreateEntry calls that timed out and the filer may still run
  refused,    \* history: Puts whose entry the filer refused in its reply
  cache,      \* entryCache, 0 for no entry
  pending,    \* compPending, 0 for no entry
  compQueue,  \* the channel of metas to register again
  loop,       \* the goroutine runCompensationLoop
  failures,   \* failureCount, up to Threshold
  window,     \* is windowStart set and at most 30 s ago
  degraded,   \* the breaker is open
  probeDue,   \* is nextProbe reached
  pc,         \* where each client stands in its call
  op,         \* the call: its kind, its key and the Put it is about
  puts,       \* the keys of the Puts begun so far
  outcome,    \* what each Put returned
  orphans,    \* Puts counted by seaweed_orphan_suspected_total
  deleted,    \* keys some Delete was called for
  store       \* where main is in closing the backend

filerVars == <<entries, objects, late, refused>>
compVars == <<pending, compQueue, loop, orphans>>
breakerVars == <<failures, window, degraded, probeDue>>
callVars == <<puts, deleted>>
vars == <<filerVars, cache, compVars, breakerVars, pc, op, callVars, outcome, store>>

Vers == 1 .. MaxPuts
Metas == [key : Keys, ver : Vers]

Init ==
  /\ entries = [k \in Keys |-> 0] /\ objects = {} /\ late = {} /\ refused = {}
  /\ cache = [k \in Keys |-> 0]
  /\ pending = [k \in Keys |-> 0] /\ compQueue = <<>> /\ orphans = {}
  /\ loop = [pc |-> "idle", attempt |-> 0, meta |-> None]
  /\ failures = 0 /\ window = FALSE /\ degraded = FALSE /\ probeDue = FALSE
  /\ pc = [c \in Clients |-> "idle"] /\ op = [c \in Clients |-> None]
  /\ puts = <<>> /\ deleted = {}
  /\ outcome = [n \in Vers |-> "none"]
  /\ store = "open"

Goto(c, label) == pc' = [pc EXCEPT ![c] = label]
Return(c) == Goto(c, "idle") /\ op' = [op EXCEPT ![c] = None]
PutReturns(c, result) == Return(c) /\ outcome' = [outcome EXCEPT ![op[c].ver] = result]
Meta(c) == [key |-> op[c].key, ver |-> op[c].ver]

-----------------------------------------------------------------------------
(* The breaker *)

Trips(n) == n >= Threshold

\* recordControlFailure; counts beyond Threshold are not told apart.
RecordFailure ==
  LET n == IF window THEN failures + 1 ELSE 1
  IN  /\ failures' = IF n > Threshold THEN Threshold ELSE n
      /\ window' = TRUE
      /\ IF Trips(n)
           THEN degraded' = TRUE /\ probeDue' = FALSE
           ELSE UNCHANGED <<degraded, probeDue>>

ClearFailures == failures' = 0 /\ window' = FALSE /\ degraded' = FALSE /\ probeDue' = FALSE

\* shouldUseFallback up to the probe: one look at degraded and nextProbe.
Route(c) ==
  /\ pc[c] = "route"
  /\ Goto(c, IF ~degraded THEN "primary" ELSE IF probeDue THEN "probe" ELSE "fallback")
  /\ UNCHANGED <<filerVars, cache, compVars, breakerVars, op, callVars, outcome, store>>

\* Mutant: a successful probe does not close the breaker.
ProbeKeepsOpen(c, ok) ==
  /\ pc[c] = "probe"
  /\ degraded' = TRUE /\ probeDue' = FALSE /\ UNCHANGED <<failures, window>>
  /\ Goto(c, IF ok THEN "primary" ELSE "fallback")
  /\ UNCHANGED <<filerVars, cache, compVars, op, callVars, outcome, store>>

\* probeControlPlane and what shouldUseFallback makes of it, whatever other
\* callers did to the breaker while the pings were under way.
Probe(c, ok) ==
  /\ pc[c] = "probe"
  /\ IF ok THEN ClearFailures /\ Goto(c, "primary")
           ELSE /\ degraded' = TRUE /\ probeDue' = FALSE /\ UNCHANGED <<failures, window>>
                /\ Goto(c, "fallback")
  /\ UNCHANGED <<filerVars, cache, compVars, op, callVars, outcome, store>>

\* Five seconds pass: nextProbe is reached.
ProbeTime ==
  /\ degraded /\ ~probeDue /\ probeDue' = TRUE
  /\ UNCHANGED <<filerVars, cache, compVars, failures, window, degraded, pc, op, callVars,
                 outcome, store>>

\* More than thirty seconds have passed since windowStart.
WindowOver ==
  /\ window /\ window' = FALSE
  /\ UNCHANGED <<filerVars, cache, compVars, failures, degraded, probeDue, pc, op, callVars,
                 outcome, store>>

-----------------------------------------------------------------------------
(* The calls *)

\* Some CreateEntry for k is still under way.
Registering(k) ==
  \/ \E m \in late : m.key = k
  \/ \E i \in 1 .. Len(compQueue) : compQueue[i].key = k
  \/ loop.pc # "idle" /\ loop.pc # "done" /\ loop.meta.key = k
  \/ \E c \in Clients : pc[c] # "idle" /\ op[c].kind = "put" /\ op[c].key = k

\* Who calls what: one goroutine at a time puts a key, the next Put of a key
\* comes after every delayed CreateEntry of the last (a minute or more later),
\* and retention deletes only keys that are days old.
MayCall(kind, k) ==
  CASE kind = "put" ->
         /\ Len(puts) < MaxPuts
         /\ k \in Once => k \notin Range(puts)
         /\ ~\E m \in late : m.key = k
         /\ ~\E c \in Clients : pc[c] # "idle" /\ op[c].kind = "put" /\ op[c].key = k
    [] kind = "delete" -> k \in Once /\ k \in Range(puts) /\ ~Registering(k)
    [] OTHER -> TRUE

Call(c, kind, k) ==
  /\ pc[c] = "idle" /\ store = "open"
  /\ MayCall(kind, k)
  /\ Goto(c, "route")
  /\ puts' = IF kind = "put" THEN Append(puts, k) ELSE puts
  /\ deleted' = IF kind = "delete" THEN deleted \cup {k} ELSE deleted
  /\ op' = [op EXCEPT ![c] = [kind |-> kind, key |-> k,
                              ver |-> IF kind = "put" THEN Len(puts) + 1 ELSE 0]]
  /\ UNCHANGED <<filerVars, cache, compVars, breakerVars, outcome, store>>

\* The call of c is of this kind and has come to label.
At(c, kind, label) == pc[c] = label /\ op[c].kind = kind

Assign(c, ok) ==
  /\ At(c, "put", "primary")
  /\ IF ok THEN Goto(c, "upload") /\ UNCHANGED breakerVars
           ELSE Goto(c, "degrade") /\ RecordFailure
  /\ UNCHANGED <<filerVars, cache, compVars, op, callVars, outcome, store>>

\* volume.Put; one that is reported failed may have stored the object.
VolumePut(n, ok) == objects' \in {objects \cup {n}} \cup (IF ok THEN {} ELSE {objects})

\* The upload of Put; its error ends the call without a fallback.
Upload(c, ok) ==
  /\ At(c, "put", "upload")
  /\ VolumePut(op[c].ver, ok)
  /\ IF ok THEN Goto(c, "create") /\ UNCHANGED <<op, outcome>> ELSE PutReturns(c, "error")
  /\ UNCHANGED <<entries, late, refused, cache, compVars, breakerVars, callVars, store>>

\* What CreateEntry(m) does to the filer; with "late" the client has given up
\* before the filer runs it, with "refused" the error is in the reply.
CreateEntry(m, result) ==
  /\ entries' = IF result = "ok" THEN [entries EXCEPT ![m.key] = m.ver] ELSE entries
  /\ late' = IF result = "late" THEN late \cup {m} ELSE late
  /\ refused' = IF result = "refused" THEN refused \cup {m.ver} ELSE refused
  /\ UNCHANGED objects

\* CreateEntry returns nil: the client does not look at the error of a reply.
NoError(result) == result \in {"ok", "refused"}

LateCreate(m) ==
  /\ m \in late
  /\ entries' = [entries EXCEPT ![m.key] = m.ver]
  /\ late' = late \ {m}
  /\ UNCHANGED <<objects, refused, cache, compVars, breakerVars, pc, op, callVars, outcome, store>>

\* Mutant: the error of CreateEntry is not looked at.
CreateUnchecked(c, result) ==
  /\ At(c, "put", "create")
  /\ CreateEntry(Meta(c), result)
  /\ ClearFailures /\ Goto(c, "cache")
  /\ UNCHANGED <<cache, compVars, op, callVars, outcome, store>>

Create(c, result) ==
  /\ At(c, "put", "create")
  /\ CreateEntry(Meta(c), result)
  /\ IF NoError(result) THEN ClearFailures /\ Goto(c, "cache") ELSE RecordFailure /\ Goto(c, "enqueue")
  /\ UNCHANGED <<cache, compVars, op, callVars, outcome, store>>

PutCache(c) ==
  /\ At(c, "put", "cache")
  /\ cache' = [cache EXCEPT ![op[c].key] = op[c].ver]
  /\ PutReturns(c, "ok")
  /\ UNCHANGED <<filerVars, compVars, breakerVars, callVars, store>>

QueueFull == Len(compQueue) >= QueueSize

\* enqueueCompensation: a key that is pending already is left alone, and a
\* meta that finds the queue full stays in compPending only.  Put returns
\* ErrEntryPendingCompensation; "unqueued" remembers the full queue.
Enqueue(c) ==
  /\ At(c, "put", "enqueue")
  /\ IF pending[op[c].key] = 0
       THEN /\ pending' = [pending EXCEPT ![op[c].key] = op[c].ver]
            /\ compQueue' = IF QueueFull THEN compQueue ELSE Append(compQueue, Meta(c))
            /\ PutReturns(c, IF QueueFull THEN "unqueued" ELSE "pending")
       ELSE UNCHANGED <<pending, compQueue>> /\ PutReturns(c, "pending")
  /\ UNCHANGED <<filerVars, cache, loop, orphans, breakerVars, callVars, store>>

\* The HTTP Put, routed (nil) or after Assign failed (ErrStorageDegraded).
FallbackPut(c, ok) ==
  /\ At(c, "put", "fallback") \/ At(c, "put", "degrade")
  /\ \/ /\ entries' = [entries EXCEPT ![op[c].key] = op[c].ver]
        /\ objects' = objects \cup {op[c].ver}
     \/ ~ok /\ UNCHANGED <<entries, objects>>
  /\ PutReturns(c, IF ~ok THEN "error" ELSE IF pc[c] = "degrade" THEN "degraded" ELSE "ok")
  /\ UNCHANGED <<late, refused, cache, compVars, breakerVars, callVars, store>>

\* Mutant: the data is removed and the entry kept.
RemoveDataOnly(k) == objects' = objects \ {entries[k]} /\ UNCHANGED <<entries, late, refused>>

\* The filer removes the entry and the data it refers to.
RemoveEntry(k) ==
  /\ entries' = [entries EXCEPT ![k] = 0]
  /\ objects' = objects \ {entries[k]}
  /\ UNCHANGED <<late, refused>>

\* DeleteEntry; an error (ErrNotFound too) counts as a control-plane failure,
\* but not the one in a reply, with which nothing was removed.
Delete(c, ok) ==
  /\ At(c, "delete", "primary")
  /\ RemoveEntry(op[c].key) \/ UNCHANGED filerVars
  /\ IF ok THEN Goto(c, "uncache") /\ UNCHANGED breakerVars ELSE Goto(c, "fallback") /\ RecordFailure
  /\ UNCHANGED <<cache, compVars, op, callVars, outcome, store>>

Uncache(c) ==
  /\ At(c, "delete", "uncache")
  /\ cache' = [cache EXCEPT ![op[c].key] = 0]
  /\ ClearFailures
  /\ Return(c)
  /\ UNCHANGED <<filerVars, compVars, callVars, outcome, store>>

\* The HTTP Delete leaves the cache alone.
FallbackDelete(c, ok) ==
  /\ At(c, "delete", "fallback")
  /\ RemoveEntry(op[c].key) \/ (~ok /\ UNCHANGED filerVars)
  /\ Return(c)
  /\ UNCHANGED <<cache, compVars, breakerVars, callVars, outcome, store>>

\* What LookupDirectoryEntry finds for k, 0 for ErrNotFound.
LookupEntry(k) == entries[k]

\* getEntry of Get and GetRange: the cache answers, or the filer does.
Lookup(c, ok) ==
  /\ At(c, "get", "primary")
  /\ LET k == op[c].key
     IN  IF cache[k] # 0 \/ LookupEntry(k) = 0 \/ ~ok
           THEN Return(c)
           ELSE Goto(c, "fill") /\ op' = [op EXCEPT ![c].ver = LookupEntry(k)]
  /\ UNCHANGED <<filerVars, cache, compVars, breakerVars, callVars, outcome, store>>

Fill(c) ==
  /\ At(c, "get", "fill")
  /\ cache' = [cache EXCEPT ![op[c].key] = op[c].ver]
  /\ Return(c)
  /\ UNCHANGED <<filerVars, compVars, breakerVars, callVars, outcome, store>>

\* A listing that succeeds does not clear the failures.
List(c, ok) ==
  /\ At(c, "list", "primary")
  /\ IF ok THEN Return(c) /\ UNCHANGED breakerVars
           ELSE Goto(c, "fallback") /\ UNCHANGED op /\ RecordFailure
  /\ UNCHANGED <<filerVars, cache, compVars, callVars, outcome, store>>

FallbackRead(c) ==
  /\ At(c, "get", "fallback") \/ At(c, "list", "fallback")
  /\ Return(c)
  /\ UNCHANGED <<filerVars, cache, compVars, breakerVars, callVars, outcome, store>>

\* A cached entry gets older than entryTTL.
Expire(k) ==
  /\ cache[k] # 0
  /\ cache' = [cache EXCEPT ![k] = 0]
  /\ UNCHANGED <<filerVars, compVars, breakerVars, pc, op, callVars, outcome, store>>

-----------------------------------------------------------------------------
(* runCompensationLoop *)

LoopAt(label) == loop' = [loop EXCEPT !.pc = label]

LoopTake ==
  /\ loop.pc = "idle" /\ compQueue # <<>>
  /\ loop' = [pc |-> "try", attempt |-> 0, meta |-> Head(compQueue)]
  /\ compQueue' = Tail(compQueue)
  /\ UNCHANGED <<filerVars, cache, pending, orphans, breakerVars, pc, op, callVars, outcome, store>>

\* Mutant: the loop ends only when the queue is drained.
LoopExitDrained ==
  /\ loop.pc = "idle" /\ store = "closing" /\ compQueue = <<>> /\ pending = [k \in Keys |-> 0]
  /\ LoopAt("done")
  /\ UNCHANGED <<filerVars, cache, pending, compQueue, orphans, breakerVars, pc, op, callVars,
                 outcome, store>>

\* ctx.Done, or the channel closed and empty: select may leave metas behind.
LoopExit ==
  /\ loop.pc = "idle" /\ store = "closing"
  /\ LoopAt("done")
  /\ UNCHANGED <<filerVars, cache, pending, compQueue, orphans, breakerVars, pc, op, callVars,
                 outcome, store>>

\* Mutant: the meta is settled after its last attempt whether it succeeded or not.
LoopTryForgets(result) ==
  /\ loop.pc = "try"
  /\ CreateEntry(loop.meta, result)
  /\ IF ~NoError(result) /\ loop.attempt + 1 < RetryAttempts
       THEN loop' = [loop EXCEPT !.attempt = @ + 1]
       ELSE LoopAt("settle")
  /\ UNCHANGED <<cache, pending, compQueue, orphans, breakerVars, pc, op, callVars, outcome, store>>

\* Mutant: a meta is given up without being counted as an orphan suspect.
LoopTryUncounted(result) ==
  /\ loop.pc = "try"
  /\ CreateEntry(loop.meta, result)
  /\ IF ~NoError(result) /\ loop.attempt + 1 < RetryAttempts
       THEN loop' = [loop EXCEPT !.attempt = @ + 1]
       ELSE LoopAt(IF NoError(result) THEN "settle" ELSE "idle")
  /\ UNCHANGED <<cache, pending, compQueue, orphans, breakerVars, pc, op, callVars, outcome, store>>

\* One attempt of retryCreateEntry; after the last the meta is an orphan
\* suspect and stays in compPending.
LoopTry(result) ==
  /\ loop.pc = "try"
  /\ CreateEntry(loop.meta, result)
  /\ IF NoError(result)
       THEN LoopAt("settle") /\ UNCHANGED orphans
       ELSE IF loop.attempt + 1 < RetryAttempts
              THEN loop' = [loop EXCEPT !.attempt = @ + 1] /\ UNCHANGED orphans
              ELSE LoopAt("idle") /\ orphans' = orphans \cup {loop.meta.ver}
  /\ UNCHANGED <<cache, pending, compQueue, breakerVars, pc, op, callVars, outcome, store>>

LoopSettle ==
  /\ loop.pc = "settle"
  /\ pending' = [pending EXCEPT ![loop.meta.key] = 0]
  /\ LoopAt("cache")
  /\ UNCHANGED <<filerVars, cache, compQueue, orphans, breakerVars, pc, op, callVars, outcome, store>>

LoopCache ==
  /\ loop.pc = "cache"
  /\ cache' = [cache EXCEPT ![loop.meta.key] = loop.meta.ver]
  /\ LoopAt("idle")
  /\ UNCHANGED <<filerVars, pending, compQueue, orphans, breakerVars, pc, op, callVars, outcome, store>>

-----------------------------------------------------------------------------
(* Close, called by main when every other user of the backend has stopped *)

CloseBegin ==
  /\ store = "open" /\ \A c \in Clients : pc[c] = "idle"
  /\ store' = "closing"
  /\ UNCHANGED <<filerVars, cache, compVars, breakerVars, pc, op, callVars, outcome>>

CloseReturn ==
  /\ store = "closing" /\ loop.pc = "done"
  /\ store' = "closed"
  /\ UNCHANGED <<filerVars, cache, compVars, breakerVars, pc, op, callVars, outcome>>

\* main's deferred Close closes the closed channel.
CloseAgain ==
  /\ store = "closed"
  /\ store' = "panicked"
  /\ UNCHANGED <<filerVars, cache, compVars, breakerVars, pc, op, callVars, outcome>>

Stopped == store = "panicked" /\ UNCHANGED vars

-----------------------------------------------------------------------------
PutStep(c) ==
  \/ \E ok \in Healthy : Assign(c, ok) \/ Upload(c, ok) \/ FallbackPut(c, ok)
  \/ \E r \in CreateResults : Create(c, r)
  \/ PutCache(c) \/ Enqueue(c)

OtherStep(c) ==
  \/ \E ok \in Healthy : Delete(c, ok) \/ FallbackDelete(c, ok) \/ Lookup(c, ok) \/ List(c, ok)
  \/ Uncache(c) \/ Fill(c) \/ FallbackRead(c)

ClientStep(c) == Route(c) \/ (\E ok \in PingResults : Probe(c, ok)) \/ PutStep(c) \/ OtherStep(c)

LoopStep ==
  LoopTake \/ LoopExit \/ (\E r \in CreateResults : LoopTry(r)) \/ LoopSettle \/ LoopCache

Calls == \E c \in Clients, kind \in Kinds, k \in Keys : Call(c, kind, k)

Next ==
  \/ Calls
  \/ \E c \in Clients : ClientStep(c)
  \/ LoopStep
  \/ ProbeTime \/ WindowOver
  \/ \E m \in Metas : LateCreate(m)
  \/ \E k \in Keys : Expire(k)
  \/ CloseBegin \/ CloseReturn \/ CloseAgain \/ Stopped

Spec == Init /\ [][Next]_vars

\* A call that was begun goes on (every remote call has a timeout), so does the
\* compensation loop, time passes, and Close is carried through.
Fairness ==
  /\ \A c \in Clients : WF_vars(ClientStep(c))
  /\ WF_vars(LoopStep) /\ WF_vars(ProbeTime) /\ WF_vars(CloseReturn)

\* Nobody has to call the backend.
FairSpec == Spec /\ Fairness

\* A server with traffic: cameras record, so calls keep coming while it is open.
BusySpec == FairSpec /\ \A c \in Clients : WF_vars(\E kind \in Kinds, k \in Keys : Call(c, kind, k))

-----------------------------------------------------------------------------
(* Properties *)

Labels == {"idle", "route", "probe", "primary", "fallback", "degrade", "upload", "create",
           "cache", "enqueue", "uncache", "fill"}
Ops == [kind : Kinds, key : Keys, ver : 0 .. MaxPuts]

Loops == [pc : {"idle", "try", "settle", "cache", "done"}, attempt : 0 .. RetryAttempts - 1,
          meta : Metas \cup {None}]
Outcomes == {"none", "ok", "pending", "unqueued", "degraded", "error"}

FilerOK ==
  /\ entries \in [Keys -> 0 .. MaxPuts] /\ objects \subseteq Vers /\ late \subseteq Metas
  /\ refused \subseteq Vers
  /\ cache \in [Keys -> 0 .. MaxPuts]

CompOK ==
  /\ pending \in [Keys -> 0 .. MaxPuts] /\ orphans \subseteq Vers
  /\ compQueue \in Seq(Metas) /\ Len(compQueue) <= QueueSize
  /\ loop \in Loops /\ (loop.pc \in {"try", "settle", "cache"} => loop.meta \in Metas)

BreakerOK ==
  /\ failures \in 0 .. Threshold
  /\ window \in BOOLEAN /\ degraded \in BOOLEAN /\ probeDue \in BOOLEAN

CallsOK ==
  /\ pc \in [Clients -> Labels] /\ op \in [Clients -> Ops \cup {None}]
  /\ \A c \in Clients : IF pc[c] = "idle" THEN op[c] = None ELSE op[c] \in Ops
  /\ puts \in Seq(Keys) /\ Len(puts) <= MaxPuts /\ deleted \subseteq Keys
  /\ outcome \in [Vers -> Outcomes]

\* Every variable has its type; a call has a kind exactly while it runs.
TypeOK ==
  /\ FilerOK /\ CompOK /\ BreakerOK /\ CallsOK
  /\ store \in {"open", "closing", "closed", "panicked"}

\* The directory never refers to data that is not there: whatever fails, is
\* late or is retried, an entry is registered only after its upload succeeded.
NoDanglingEntry == \A k \in Keys : entries[k] # 0 => entries[k] \in objects

\* Put returned nil or ErrStorageDegraded, or ErrEntryPendingCompensation.
Acked(n) == outcome[n] \in {"ok", "degraded"}
Deferred(n) == outcome[n] \in {"pending", "unqueued"}

\* What Put acknowledged can be found under its key until it is deleted, whatever
\* compensation and late calls do after; unless the filer refused it in a reply
\* nobody looked at, no other Put can be lost like that.  A key that is put again
\* shows this Put, a later one, or an older one whose compensation came late.
AckedIsVisible ==
  \A n \in 1 .. Len(puts) :
    Acked(n) /\ n \notin refused /\ puts[n] \notin deleted =>
      LET shown == entries[puts[n]]
      IN  \/ shown = n
          \/ puts[n] \notin Once /\ (shown > n \/ (shown # 0 /\ Deferred(shown)))

\* A Put of a write-once key that returned ErrEntryPendingCompensation, which the
\* writer takes for success and indexes, is in the directory or still remembered
\* in compPending, unless the filer refused it in a reply nobody looked at.
PendingTracked ==
  \A n \in 1 .. Len(puts) :
    Deferred(n) /\ n \notin refused /\ puts[n] \in Once \ deleted
      => entries[puts[n]] = n \/ pending[puts[n]] = n

\* The cache answers what the directory holds for write-once keys, but for those
\* that were deleted and for entries the filer refused in its reply.
CacheCoherent ==
  \A k \in Once \ deleted : cache[k] # 0 => cache[k] = entries[k] \/ cache[k] \in refused

\* With a healthy control plane and traffic, degraded mode always ends.
Recovers == degraded ~> ~degraded \/ store # "open"

\* Close returns: the compensation loop leaves whatever is queued.
CloseReturns == store = "closing" ~> store # "closing"

\* Each meta in compPending is queued, being retried or counted as an orphan
\* suspect; only one that met a full queue is waited for by nobody.
PendingHandled ==
  \A k \in Keys : pending[k] # 0 =>
    \/ \E i \in 1 .. Len(compQueue) : compQueue[i].ver = pending[k]
    \/ loop.pc \in {"try", "settle"} /\ loop.meta.ver = pending[k]
    \/ pending[k] \in orphans
    \/ outcome[pending[k]] = "unqueued"

=============================================================================
