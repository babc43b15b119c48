------------------------ MODULE HybridStorageProofs -------------------------
(***************************************************************************)
(* What holds of the SeaweedFS backend for any number of clients, keys and *)
(* Puts, any queue size and any results of the remote calls.               *)
(***************************************************************************)
EXTENDS HybridStorage, TLAPS

Retrying == {"try", "settle", "cache"}

\* Client c is inside a Put.
Putting(c) == pc[c] # "idle" /\ op[c].kind = "put"

\* The types, with the numbers of the Puts under way.
ShapeInv == TypeOK /\ \A c \in Clients : Putting(c) => op[c].ver \in Vers

\* Somebody may still register m: the filer, the compensation loop, or the Put itself.
Claimed(m) ==
  \/ m \in late
  \/ \E i \in 1 .. Len(compQueue) : compQueue[i] = m
  \/ loop.pc \in Retrying /\ loop.meta = m
  \/ \E c \in Clients : Putting(c) /\ Meta(c) = m

\* Version n is that of a Put of key k, in the sequence s of Puts.
Names(s, n, k) == n \in 1 .. Len(s) /\ s[n] = k

\* Whatever mentions a version mentions the key it was put under.
NameInv ==
  /\ \A m \in Metas : Claimed(m) => Names(puts, m.ver, m.key)
  /\ \A k \in Keys : entries[k] # 0 => Names(puts, entries[k], k)
  /\ \A k \in Keys : pending[k] # 0 => Names(puts, pending[k], k)

\* A write-once key has one Put; a key that a Delete was called for is write-once,
\* and nobody registers it any more.
DeleteInv ==
  /\ \A i, j \in 1 .. Len(puts) : puts[i] = puts[j] /\ puts[i] \in Once => i = j
  /\ \A k \in deleted : k \in Once /\ k \in Range(puts)
  /\ \A m \in Metas : Claimed(m) => m.key \notin deleted
  /\ \A c \in Clients : pc[c] # "idle" /\ op[c].kind = "delete" => op[c].key \in deleted

\* The data of an entry, and of whatever may become one, is on a volume.
StoredInv ==
  /\ NoDanglingEntry
  /\ \A m \in late : m.ver \in objects
  /\ \A i \in 1 .. Len(compQueue) : compQueue[i].ver \in objects
  /\ loop.pc \in Retrying => loop.meta.ver \in objects
  /\ \A c \in Clients : Putting(c) /\ pc[c] \in {"create", "cache", "enqueue"} =>
       op[c].ver \in objects

\* Version n is what the directory holds for k, or the filer refused it in its reply.
Believed(k, n) == entries[k] = n \/ n \in refused

\* What the cache, the callers and the loop believe of a write-once key is so, but for
\* the refusals nobody looked at.
VisibleInv ==
  /\ \A n \in 1 .. Len(puts) : puts[n] \in Once \ deleted =>
       /\ Acked(n) => Believed(puts[n], n)
       /\ Deferred(n) => Believed(puts[n], n) \/ pending[puts[n]] = n
  /\ \A k \in Once \ deleted : cache[k] # 0 => Believed(k, cache[k])
  /\ \A c \in Clients : pc[c] \in {"cache", "fill"} /\ op[c].key \in Once \ deleted =>
       op[c].ver # 0 /\ Believed(op[c].key, op[c].ver)
  /\ loop.pc \in {"settle", "cache"} /\ loop.meta.key \in Once =>
       Believed(loop.meta.key, loop.meta.ver)
  /\ \A n \in Vers : n > Len(puts) => outcome[n] = "none"

\* The filer, the queue or the compensation loop has m.
Retried(m) ==
  \/ m \in late
  \/ \E i \in 1 .. Len(compQueue) : compQueue[i] = m
  \/ loop.pc \in Retrying /\ loop.meta = m

\* The directory shows version n of k, a later one, or one whose registration was deferred.
Shows(k, n) == entries[k] # 0 /\ (entries[k] >= n \/ Deferred(entries[k]))

\* What is retried was deferred, or is about to be.
Postponed(m) ==
  Deferred(m.ver) \/ \E c \in Clients : Putting(c) /\ pc[c] = "enqueue" /\ Meta(c) = m

\* The one Put of its key that is under way is the last, and has no outcome yet; only
\* deferred Puts come later than those after them.
AgainInv ==
  /\ \A c, d \in Clients : Putting(c) /\ Putting(d) /\ op[c].key = op[d].key => c = d
  /\ \A c \in Clients : Putting(c) =>
       /\ \A n \in 1 .. Len(puts) : puts[n] = op[c].key => n <= op[c].ver
       /\ outcome[op[c].ver] = "none"
  /\ \A m \in Metas : Retried(m) => Postponed(m)
  /\ \A n \in 1 .. Len(puts) : Acked(n) /\ puts[n] \notin Once =>
       n \in refused \/ Shows(puts[n], n)
  /\ \A c \in Clients : Putting(c) /\ pc[c] = "cache" /\ op[c].key \notin Once =>
       op[c].ver \in refused \/ Shows(op[c].key, op[c].ver)

\* A queued or retried meta is the pending one of its key, and is so once.
HandledInv ==
  /\ PendingHandled
  /\ \A i \in 1 .. Len(compQueue) : pending[compQueue[i].key] = compQueue[i].ver
  /\ \A i, j \in 1 .. Len(compQueue) : compQueue[i].key = compQueue[j].key => i = j
  /\ loop.pc \in {"try", "settle"} =>
       /\ pending[loop.meta.key] = loop.meta.ver
       /\ \A i \in 1 .. Len(compQueue) : compQueue[i].key # loop.meta.key

-----------------------------------------------------------------------------
(* The type invariant *)

\* The breaker counts up to its threshold.
LEMMA BreakerType ==
  ASSUME BreakerOK, RecordFailure \/ ClearFailures \/ UNCHANGED breakerVars
  PROVE  BreakerOK'
<1> USE BoundsAssumption DEF BreakerOK
<1>1. CASE RecordFailure
  <2>1. failures' \in 0 .. Threshold
    BY <1>1 DEF RecordFailure
  <2>2. window' = TRUE /\ (degraded' = TRUE \/ degraded' = degraded)
        /\ (probeDue' = FALSE \/ probeDue' = probeDue)
    BY <1>1, Zenon DEF RecordFailure
  <2> QED BY <2>1, <2>2
<1>2. CASE ClearFailures
  <2>1. failures' \in 0 .. Threshold
    BY <1>2 DEF ClearFailures
  <2>2. window' = FALSE /\ degraded' = FALSE /\ probeDue' = FALSE
    BY <1>2, Zenon DEF ClearFailures
  <2> QED BY <2>1, <2>2
<1>3. CASE UNCHANGED breakerVars
  BY <1>3 DEF breakerVars
<1> QED BY <1>1, <1>2, <1>3

\* A call goes on to another place.
LEMMA GotoType ==
  ASSUME CallsOK, NEW c \in Clients, pc[c] # "idle", NEW label \in Labels \ {"idle"},
         Goto(c, label), UNCHANGED <<op, puts, deleted, outcome>>
  PROVE  CallsOK'
  BY DEF CallsOK, Goto

\* A call returns.
LEMMA ReturnType ==
  ASSUME CallsOK, NEW c \in Clients, Return(c), UNCHANGED <<puts, deleted>>,
         outcome' \in [Vers -> Outcomes]
  PROVE  CallsOK'
<1>1. "idle" \in Labels
  BY DEF Labels
<1>2. pc' \in [Clients -> Labels] /\ op' \in [Clients -> Ops \cup {None}]
  BY <1>1 DEF CallsOK, Return, Goto
<1>3. \A d \in Clients : IF pc'[d] = "idle" THEN op'[d] = None ELSE op'[d] \in Ops
  BY <1>1 DEF CallsOK, Return, Goto
<1> QED BY <1>2, <1>3 DEF CallsOK

\* A Put returns and its result is noted.
LEMMA PutReturnsType ==
  ASSUME CallsOK, NEW c \in Clients, NEW result \in Outcomes, PutReturns(c, result),
         UNCHANGED <<puts, deleted>>
  PROVE  CallsOK'
<1>1. outcome' \in [Vers -> Outcomes]
  BY DEF PutReturns, CallsOK
<1> QED BY <1>1, ReturnType DEF PutReturns

\* A new call.
LEMMA CallType ==
  ASSUME TypeOK, NEW c \in Clients, NEW kind \in Kinds, NEW k \in Keys, Call(c, kind, k)
  PROVE  /\ CallsOK' /\ (kind = "put" => Len(puts) + 1 \in Vers)
         /\ Len(puts') = IF kind = "put" THEN Len(puts) + 1 ELSE Len(puts)
         /\ \A i \in 1 .. Len(puts) : puts'[i] = puts[i]
         /\ kind = "put" => puts'[Len(puts) + 1] = k
<1>0. puts \in Seq(Keys) /\ Len(puts) \in 0 .. MaxPuts /\ MaxPuts \in Nat
  BY BoundsAssumption DEF TypeOK, CallsOK
<1>1. kind = "put" => Len(puts) < MaxPuts
  BY DEF Call, MayCall
<1> DEFINE rec == [kind |-> kind, key |-> k, ver |-> IF kind = "put" THEN Len(puts) + 1 ELSE 0]
<1>2. rec \in Ops
  BY <1>0, <1>1 DEF Ops
<1>3. /\ puts' \in Seq(Keys) /\ Len(puts') <= MaxPuts
      /\ Len(puts') = IF kind = "put" THEN Len(puts) + 1 ELSE Len(puts)
      /\ \A i \in 1 .. Len(puts) : puts'[i] = puts[i]
      /\ kind = "put" => puts'[Len(puts) + 1] = k
  <2>1. CASE kind = "put"
    <3>1. puts' = Append(puts, k)
      BY <2>1 DEF Call
    <3> QED BY <1>0, <1>1, <2>1, <3>1
  <2>2. CASE kind # "put"
    BY <1>0, <2>2 DEF Call
  <2> QED BY <2>1, <2>2
<1>4. pc' \in [Clients -> Labels] /\ pc'[c] = "route" /\ \A d \in Clients \ {c} : pc'[d] = pc[d]
  BY DEF Call, Goto, TypeOK, CallsOK, Labels
<1>5. op' = [op EXCEPT ![c] = rec]
  BY DEF Call
<1> HIDE DEF rec
<1>6. /\ op' \in [Clients -> Ops \cup {None}] /\ op'[c] = rec
      /\ \A d \in Clients \ {c} : op'[d] = op[d]
  BY <1>2, <1>5 DEF TypeOK, CallsOK
<1>7. deleted' \subseteq Keys /\ outcome' = outcome
  BY DEF Call, TypeOK, CallsOK
<1>8. \A d \in Clients : IF pc'[d] = "idle" THEN op'[d] = None ELSE op'[d] \in Ops
  BY <1>2, <1>4, <1>6 DEF TypeOK, CallsOK
<1>9. CallsOK'
  BY <1>3, <1>4, <1>6, <1>7, <1>8 DEF TypeOK, CallsOK
<1>10. kind = "put" => Len(puts) + 1 \in Vers
  BY <1>0, <1>1 DEF Vers
<1> QED BY <1>3, <1>9, <1>10

\* What a CreateEntry of a well-formed meta does to the filer.
LEMMA CreateType ==
  ASSUME FilerOK, NEW m \in Metas, NEW result, CreateEntry(m, result), cache' = cache
  PROVE  FilerOK'
<1>1. m.key \in Keys /\ m.ver \in 0 .. MaxPuts /\ m.ver \in Vers
  BY BoundsAssumption DEF Metas, Vers
<1> QED BY <1>1 DEF FilerOK, CreateEntry

\* The meta of a Put is well formed.
LEMMA MetaType ==
  ASSUME CallsOK, NEW c \in Clients, Putting(c), op[c].ver \in Vers
  PROVE  /\ Meta(c) \in Metas /\ Meta(c).key = op[c].key /\ Meta(c).ver = op[c].ver
         /\ op[c].key \in Keys /\ op[c].ver \in 0 .. MaxPuts /\ op[c] \in Ops
  BY BoundsAssumption DEF Putting, CallsOK, Ops, Metas, Meta, Vers

\* A step of c leaves the calls of the others alone, and its own call is the same
\* until it returns.
LEMMA CallFrame ==
  ASSUME CallsOK, NEW c \in Clients,
         Return(c) \/ (\E label \in Labels : Goto(c, label) /\ pc[c] # "idle" /\ UNCHANGED op)
  PROVE  /\ \A d \in Clients \ {c} : pc'[d] = pc[d] /\ op'[d] = op[d]
         /\ \A d \in Clients : pc'[d] # "idle" => op'[d] = op[d] /\ (pc[d] # "idle" \/ d = c)
         /\ Return(c) => pc'[c] = "idle"
         /\ \A label : Goto(c, label) => pc'[c] = label
  BY DEF CallsOK, Return, Goto

\* The Puts under way keep their numbers.
LEMMA VersKept ==
  ASSUME ShapeInv, CallsOK', \A d \in Clients : pc'[d] # "idle" => op'[d] = op[d] /\ pc[d] # "idle"
  PROVE  \A d \in Clients : Putting(d)' => op'[d].ver \in Vers
  BY DEF ShapeInv, Putting

\* A call of any kind moves on, or returns.
LEMMA ShapeMove ==
  ASSUME ShapeInv, NEW c \in Clients, pc[c] # "idle", UNCHANGED <<puts, deleted>>,
         \/ Return(c) /\ outcome' = outcome
         \/ \E result \in Outcomes : PutReturns(c, result)
         \/ \E label \in Labels \ {"idle"} : Goto(c, label) /\ UNCHANGED <<op, outcome>>
  PROVE  CallsOK' /\ \A d \in Clients : Putting(d)' => op'[d].ver \in Vers
<1>0. CallsOK
  BY DEF ShapeInv, TypeOK
<1>1. CASE Return(c) /\ outcome' = outcome
  BY <1>0, <1>1, ReturnType, CallFrame, VersKept DEF CallsOK
<1>2. ASSUME NEW result \in Outcomes, PutReturns(c, result) PROVE CallsOK' /\ Return(c)
  BY <1>0, <1>2, PutReturnsType DEF PutReturns
<1>3. ASSUME NEW label \in Labels \ {"idle"}, Goto(c, label), UNCHANGED <<op, outcome>>
      PROVE  CallsOK'
  BY <1>0, <1>3, GotoType
<1>4. CASE \E result \in Outcomes : PutReturns(c, result)
  BY <1>0, <1>2, <1>4, CallFrame, VersKept
<1>5. CASE \E label \in Labels \ {"idle"} : Goto(c, label) /\ UNCHANGED <<op, outcome>>
  BY <1>0, <1>3, <1>5, CallFrame, VersKept
<1> QED BY <1>1, <1>4, <1>5

\* The steps of a Put keep the types.
LEMMA ShapePut == ASSUME ShapeInv, NEW c \in Clients, PutStep(c) PROVE ShapeInv'
<1>0. /\ TypeOK /\ FilerOK /\ CompOK /\ BreakerOK /\ CallsOK
      /\ MaxPuts \in Nat /\ QueueSize \in Nat /\ QueueSize >= 1
  BY BoundsAssumption DEF ShapeInv, TypeOK
<1>p. /\ Putting(c) => op[c].ver \in Vers /\ Meta(c) \in Metas /\ op[c].key \in Keys
      /\ Putting(c) => op[c].ver \in 0 .. MaxPuts
  BY <1>0, MetaType DEF ShapeInv
<1>l. {"upload", "degrade", "create", "cache", "enqueue"} \subseteq Labels \ {"idle"}
      /\ Outcomes = {"none", "ok", "pending", "unqueued", "degraded", "error"}
  BY DEF Labels, Outcomes
<1>c. UNCHANGED compVars => CompOK'
  BY <1>0 DEF compVars, CompOK
<1>1. ASSUME NEW ok \in Healthy, Assign(c, ok) PROVE ShapeInv'
  <2>1. CallsOK' /\ \A d \in Clients : Putting(d)' => op'[d].ver \in Vers
    BY <1>0, <1>1, <1>l, ShapeMove DEF Assign, At, callVars
  <2>2. FilerOK' /\ CompOK' /\ BreakerOK'
    BY <1>0, <1>1, <1>c, BreakerType DEF Assign, FilerOK, filerVars
  <2> QED BY <1>1, <2>1, <2>2 DEF Assign, ShapeInv, TypeOK
<1>2. ASSUME NEW ok \in Healthy, Upload(c, ok) PROVE ShapeInv'
  <2>1. CallsOK' /\ \A d \in Clients : Putting(d)' => op'[d].ver \in Vers
    BY <1>0, <1>2, <1>l, ShapeMove DEF Upload, At, callVars
  <2>2. FilerOK'
    BY <1>0, <1>2, <1>p DEF Upload, At, VolumePut, FilerOK, Putting
  <2>3. CompOK' /\ BreakerOK'
    BY <1>0, <1>2, <1>c, BreakerType DEF Upload
  <2> QED BY <1>2, <2>1, <2>2, <2>3 DEF Upload, ShapeInv, TypeOK
<1>3. ASSUME NEW ok \in Healthy, FallbackPut(c, ok) PROVE ShapeInv'
  <2>1. CallsOK' /\ \A d \in Clients : Putting(d)' => op'[d].ver \in Vers
    BY <1>0, <1>3, <1>l, ShapeMove DEF FallbackPut, At, callVars
  <2>2. FilerOK'
    BY <1>0, <1>3, <1>p DEF FallbackPut, At, FilerOK, Putting
  <2>3. CompOK' /\ BreakerOK'
    BY <1>0, <1>3, <1>c, BreakerType DEF FallbackPut
  <2> QED BY <1>3, <2>1, <2>2, <2>3 DEF FallbackPut, ShapeInv, TypeOK
<1>4. ASSUME NEW r \in CreateResults, Create(c, r) PROVE ShapeInv'
  <2>1. CallsOK' /\ \A d \in Clients : Putting(d)' => op'[d].ver \in Vers
    BY <1>0, <1>4, <1>l, ShapeMove DEF Create, At, callVars
  <2>2. FilerOK'
    BY <1>0, <1>4, <1>p, CreateType DEF Create, At, Putting
  <2>3. CompOK' /\ BreakerOK'
    BY <1>0, <1>4, <1>c, BreakerType DEF Create
  <2> QED BY <1>4, <2>1, <2>2, <2>3 DEF Create, ShapeInv, TypeOK
<1>5. CASE PutCache(c)
  <2>1. CallsOK' /\ \A d \in Clients : Putting(d)' => op'[d].ver \in Vers
    BY <1>0, <1>5, <1>l, ShapeMove DEF PutCache, At, callVars
  <2>2. FilerOK'
    BY <1>0, <1>5, <1>p DEF PutCache, At, Putting, FilerOK, filerVars
  <2>3. CompOK' /\ BreakerOK'
    BY <1>0, <1>5, <1>c, BreakerType DEF PutCache
  <2> QED BY <1>5, <2>1, <2>2, <2>3 DEF PutCache, ShapeInv, TypeOK
<1>6. CASE Enqueue(c)
  <2>1. CallsOK' /\ \A d \in Clients : Putting(d)' => op'[d].ver \in Vers
    <3>1. PutReturns(c, "pending") \/ PutReturns(c, "unqueued")
      BY <1>6 DEF Enqueue
    <3>2. \E result \in Outcomes : PutReturns(c, result)
      BY <1>l, <3>1
    <3> QED BY <1>6, <3>2, ShapeMove DEF Enqueue, At, callVars
  <2>2. /\ pending' \in [Keys -> 0 .. MaxPuts]
        /\ compQueue' = compQueue \/ (~QueueFull /\ compQueue' = Append(compQueue, Meta(c)))
    BY <1>0, <1>6, <1>p DEF Enqueue, At, Putting, CompOK
  <2>3. compQueue' \in Seq(Metas) /\ Len(compQueue') <= QueueSize
    <3>1. Meta(c) \in Metas
      BY <1>6, <1>p DEF Enqueue, At, Putting
    <3>2. compQueue \in Seq(Metas) /\ Len(compQueue) <= QueueSize
      BY <1>0 DEF CompOK
    <3> QED BY <1>0, <2>2, <3>1, <3>2 DEF QueueFull
  <2>4. CompOK' /\ FilerOK' /\ BreakerOK'
    BY <1>0, <1>6, <2>2, <2>3, BreakerType DEF Enqueue, CompOK, FilerOK, filerVars
  <2> QED BY <1>6, <2>1, <2>4 DEF Enqueue, ShapeInv, TypeOK
<1> QED BY <1>1, <1>2, <1>3, <1>4, <1>5, <1>6 DEF PutStep

\* The routing, and the steps of the calls that are not Puts.
LEMMA ShapeOther ==
  ASSUME ShapeInv, NEW c \in Clients,
         OtherStep(c) \/ Route(c) \/ \E ok \in PingResults : Probe(c, ok)
  PROVE  ShapeInv'
<1>0. TypeOK /\ FilerOK /\ CompOK /\ BreakerOK /\ CallsOK /\ MaxPuts \in Nat
  BY BoundsAssumption DEF ShapeInv, TypeOK
<1>p. pc[c] # "idle" => op[c] \in Ops /\ op[c].key \in Keys /\ op[c].ver \in 0 .. MaxPuts
  BY <1>0 DEF CallsOK, Ops
<1>l. {"primary", "probe", "fallback", "uncache", "fill"} \subseteq Labels \ {"idle"}
  BY DEF Labels
<1>c. UNCHANGED compVars => CompOK'
  BY <1>0 DEF compVars, CompOK
<1>f. UNCHANGED <<filerVars, cache>> => FilerOK'
  BY <1>0 DEF filerVars, FilerOK
<1>1. CASE Route(c)
  <2>1. CallsOK' /\ \A d \in Clients : Putting(d)' => op'[d].ver \in Vers
    BY <1>0, <1>1, <1>l, ShapeMove DEF Route, callVars
  <2> QED BY <1>0, <1>1, <1>c, <1>f, <2>1, BreakerType DEF Route, ShapeInv, TypeOK
<1>2. ASSUME NEW ok \in PingResults, Probe(c, ok) PROVE ShapeInv'
  <2>1. CallsOK' /\ \A d \in Clients : Putting(d)' => op'[d].ver \in Vers
    BY <1>0, <1>2, <1>l, ShapeMove DEF Probe, callVars
  <2>2. BreakerOK'
    <3>1. CASE ok
      BY <1>0, <1>2, <3>1, BreakerType DEF Probe
    <3>2. CASE ~ok
      BY <1>0, <1>2, <3>2 DEF Probe, BreakerOK
    <3> QED BY <3>1, <3>2
  <2> QED BY <1>0, <1>2, <1>c, <1>f, <2>1, <2>2 DEF Probe, ShapeInv, TypeOK
<1>r. ASSUME NEW k \in Keys, RemoveEntry(k) \/ UNCHANGED filerVars, cache' = cache PROVE FilerOK'
  BY <1>0, <1>r DEF RemoveEntry, FilerOK, filerVars
<1>3. ASSUME NEW ok \in Healthy, Delete(c, ok) PROVE ShapeInv'
  <2>1. CallsOK' /\ \A d \in Clients : Putting(d)' => op'[d].ver \in Vers
    BY <1>0, <1>3, <1>l, ShapeMove DEF Delete, At, callVars
  <2>2. FilerOK' /\ CompOK' /\ BreakerOK'
    BY <1>0, <1>3, <1>p, <1>c, <1>r, BreakerType DEF Delete, At
  <2> QED BY <1>0, <1>3, <2>1, <2>2 DEF Delete, ShapeInv, TypeOK
<1>4. ASSUME NEW ok \in Healthy, FallbackDelete(c, ok) PROVE ShapeInv'
  <2>1. CallsOK' /\ \A d \in Clients : Putting(d)' => op'[d].ver \in Vers
    BY <1>0, <1>4, ShapeMove DEF FallbackDelete, At, callVars
  <2>2. FilerOK' /\ CompOK' /\ BreakerOK'
    BY <1>0, <1>4, <1>p, <1>c, <1>r, BreakerType DEF FallbackDelete, At
  <2> QED BY <1>0, <1>4, <2>1, <2>2 DEF FallbackDelete, ShapeInv, TypeOK
<1>5. ASSUME NEW ok \in Healthy, Lookup(c, ok) PROVE ShapeInv'
  <2>1. CASE Return(c)
    <3>1. CallsOK' /\ \A d \in Clients : Putting(d)' => op'[d].ver \in Vers
      BY <1>0, <1>5, <2>1, ShapeMove DEF Lookup, At, callVars
    <3> QED BY <1>0, <1>5, <1>c, <1>f, <3>1, BreakerType DEF Lookup, ShapeInv, TypeOK
  <2>2. CASE ~Return(c)
    <3> DEFINE n == LookupEntry(op[c].key)
    <3>0. /\ pc[c] = "primary" /\ op[c].kind = "get" /\ Goto(c, "fill")
          /\ op' = [op EXCEPT ![c].ver = n] /\ UNCHANGED <<puts, deleted, outcome>>
      BY <1>5, <2>2 DEF Lookup, At, callVars
    <3>1. n \in 0 .. MaxPuts
      BY <1>0, <1>p, <3>0 DEF LookupEntry, FilerOK
    <3> HIDE DEF n
    <3>2. /\ op'[c] \in Ops /\ op'[c].kind = "get" /\ op' \in [Clients -> Ops \cup {None}]
          /\ \A d \in Clients \ {c} : op'[d] = op[d]
      BY <1>0, <1>p, <3>0, <3>1 DEF CallsOK, Ops
    <3>3. /\ pc' \in [Clients -> Labels] /\ pc'[c] = "fill"
          /\ \A d \in Clients \ {c} : pc'[d] = pc[d]
      BY <1>0, <1>l, <3>0 DEF CallsOK, Goto
    <3>4. CallsOK'
      BY <1>0, <3>0, <3>2, <3>3 DEF CallsOK
    <3>5. \A d \in Clients : Putting(d)' => op'[d].ver \in Vers
      BY <3>2, <3>3 DEF ShapeInv, Putting
    <3> QED BY <1>0, <1>5, <1>c, <1>f, <3>4, <3>5, BreakerType DEF Lookup, ShapeInv, TypeOK
  <2> QED BY <2>1, <2>2
<1>6. ASSUME NEW ok \in Healthy, List(c, ok) PROVE ShapeInv'
  <2>1. CallsOK' /\ \A d \in Clients : Putting(d)' => op'[d].ver \in Vers
    BY <1>0, <1>6, <1>l, ShapeMove DEF List, At, callVars
  <2>2. BreakerOK'
    BY <1>0, <1>6, BreakerType DEF List
  <2> QED BY <1>0, <1>6, <1>c, <1>f, <2>1, <2>2 DEF List, ShapeInv, TypeOK
<1>7. CASE Uncache(c) \/ Fill(c)
  <2>1. CallsOK' /\ \A d \in Clients : Putting(d)' => op'[d].ver \in Vers
    BY <1>0, <1>7, ShapeMove DEF Uncache, Fill, At, callVars
  <2>2. FilerOK' /\ CompOK' /\ BreakerOK'
    BY <1>0, <1>7, <1>p, <1>c, BreakerType DEF Uncache, Fill, At, FilerOK, filerVars
  <2> QED BY <1>0, <1>7, <2>1, <2>2 DEF Uncache, Fill, ShapeInv, TypeOK
<1>8. CASE FallbackRead(c)
  <2>1. CallsOK' /\ \A d \in Clients : Putting(d)' => op'[d].ver \in Vers
    BY <1>0, <1>8, ShapeMove DEF FallbackRead, At, callVars
  <2> QED BY <1>0, <1>8, <1>c, <1>f, <2>1, BreakerType DEF FallbackRead, ShapeInv, TypeOK
<1> QED BY <1>1, <1>2, <1>3, <1>4, <1>5, <1>6, <1>7, <1>8 DEF OtherStep

\* What no client does: time, late calls, the compensation loop, Close.
Background ==
  \/ LoopStep \/ ProbeTime \/ WindowOver
  \/ (\E m \in Metas : LateCreate(m)) \/ (\E k \in Keys : Expire(k))
  \/ CloseBegin \/ CloseReturn \/ CloseAgain \/ UNCHANGED vars

\* The steps of the background keep the types.
LEMMA ShapeBackground ==
  ASSUME ShapeInv, Background
  PROVE  ShapeInv' /\ UNCHANGED <<pc, op, puts, deleted, outcome>>
<1>0. TypeOK /\ FilerOK /\ CompOK /\ BreakerOK /\ CallsOK /\ MaxPuts \in Nat
  BY BoundsAssumption DEF ShapeInv, TypeOK
<1>m. \A m \in Metas : m.key \in Keys /\ m.ver \in Vers /\ m.ver \in 0 .. MaxPuts
  BY <1>0 DEF Metas, Vers
<1>u. UNCHANGED <<pc, op, puts, deleted, outcome>>
  BY DEF Background, LoopStep, LoopTake, LoopExit, LoopTry, LoopSettle, LoopCache, ProbeTime,
       WindowOver, LateCreate, Expire, CloseBegin, CloseReturn, CloseAgain, vars, callVars
<1>c. CallsOK' /\ \A d \in Clients : Putting(d)' => op'[d].ver \in Vers
  BY <1>u, <1>0 DEF CallsOK, ShapeInv, Putting
<1>f. UNCHANGED filerVars /\ cache' = cache => FilerOK'
  BY <1>0 DEF filerVars, FilerOK
<1>k. UNCHANGED compVars => CompOK'
  BY <1>0 DEF compVars, CompOK
<1>b. UNCHANGED breakerVars => BreakerOK'
  BY <1>0, BreakerType
<1>s. FilerOK' /\ CompOK' /\ BreakerOK' /\ store' \in {"open", "closing", "closed", "panicked"}
        => ShapeInv'
  BY <1>c DEF ShapeInv, TypeOK
<1>o. store \in {"open", "closing", "closed", "panicked"}
  BY <1>0 DEF TypeOK
<1>1. CASE LoopTake
  <2>1. Head(compQueue) \in Metas /\ Tail(compQueue) \in Seq(Metas)
        /\ Len(Tail(compQueue)) <= QueueSize
    BY <1>0, <1>1, BoundsAssumption DEF LoopTake, CompOK
  <2>2. CompOK'
    BY <1>0, <1>1, <2>1, BoundsAssumption DEF LoopTake, CompOK, Loops
  <2>3. UNCHANGED filerVars /\ cache' = cache /\ UNCHANGED breakerVars /\ store' = store
    BY <1>1 DEF LoopTake
  <2> QED BY <1>u, <1>f, <1>b, <1>s, <1>o, <2>2, <2>3
<1>2. CASE LoopExit \/ LoopSettle
  <2>1. CompOK'
    <3>1. ASSUME NEW label \in {"cache", "done"}, LoopAt(label),
                 label = "cache" => loop.meta \in Metas
          PROVE  loop' \in Loops /\ (loop'.pc \in {"try", "settle", "cache"} => loop'.meta \in Metas)
      BY <1>0, <3>1 DEF LoopAt, CompOK, Loops
    <3>2. CASE LoopExit
      BY <1>0, <3>1, <3>2 DEF LoopExit, CompOK
    <3>3. CASE LoopSettle
      <4>1. loop.meta \in Metas /\ pending' \in [Keys -> 0 .. MaxPuts]
        BY <1>0, <1>m, <3>3 DEF LoopSettle, CompOK
      <4> QED BY <1>0, <3>1, <3>3, <4>1 DEF LoopSettle, CompOK
    <3> QED BY <1>2, <3>2, <3>3
  <2>2. UNCHANGED filerVars /\ cache' = cache /\ UNCHANGED breakerVars /\ store' = store
    BY <1>2 DEF LoopExit, LoopSettle
  <2> QED BY <1>u, <1>f, <1>b, <1>s, <1>o, <2>1, <2>2
<1>3. ASSUME NEW r \in CreateResults, LoopTry(r) PROVE ShapeInv'
  <2>1. loop.meta \in Metas /\ loop.meta.ver \in Vers
    BY <1>0, <1>3, <1>m DEF LoopTry, CompOK
  <2>2. FilerOK'
    BY <1>0, <1>3, <2>1, CreateType DEF LoopTry
  <2>3. CompOK'
    BY <1>0, <1>3, <2>1, BoundsAssumption DEF LoopTry, LoopAt, CompOK, Loops
  <2> QED BY <1>3, <1>b, <1>s, <1>o, <2>2, <2>3 DEF LoopTry
<1>4. CASE LoopCache
  <2>1. CompOK' /\ FilerOK'
    BY <1>0, <1>4, <1>m DEF LoopCache, LoopAt, CompOK, Loops, FilerOK, filerVars
  <2>2. UNCHANGED breakerVars /\ store' = store
    BY <1>4 DEF LoopCache
  <2> QED BY <1>u, <1>b, <1>s, <1>o, <2>1, <2>2
<1>5. CASE ProbeTime \/ WindowOver
  <2>1. BreakerOK'
    BY <1>0, <1>5 DEF ProbeTime, WindowOver, BreakerOK
  <2>2. UNCHANGED filerVars /\ cache' = cache /\ UNCHANGED compVars /\ store' = store
    BY <1>5 DEF ProbeTime, WindowOver
  <2> QED BY <1>u, <1>f, <1>k, <1>s, <1>o, <2>1, <2>2
<1>6. ASSUME NEW m \in Metas, LateCreate(m) PROVE ShapeInv'
  <2>1. FilerOK'
    BY <1>0, <1>6, <1>m DEF LateCreate, FilerOK
  <2> QED BY <1>6, <1>k, <1>b, <1>s, <1>o, <2>1 DEF LateCreate
<1>7. ASSUME NEW k \in Keys, Expire(k) PROVE ShapeInv'
  <2>1. FilerOK'
    BY <1>0, <1>7 DEF Expire, FilerOK, filerVars
  <2> QED BY <1>7, <1>k, <1>b, <1>s, <1>o, <2>1 DEF Expire
<1>8. CASE CloseBegin \/ CloseReturn \/ CloseAgain \/ UNCHANGED vars
  <2>1. UNCHANGED filerVars /\ cache' = cache /\ UNCHANGED compVars /\ UNCHANGED breakerVars
    BY <1>8 DEF CloseBegin, CloseReturn, CloseAgain, vars
  <2>2. store' \in {"open", "closing", "closed", "panicked"}
    BY <1>8, <1>o DEF CloseBegin, CloseReturn, CloseAgain, vars
  <2> QED BY <1>u, <1>f, <1>k, <1>b, <1>s, <2>1, <2>2
<1> QED BY <1>u, <1>1, <1>2, <1>3, <1>4, <1>5, <1>6, <1>7, <1>8 DEF Background, LoopStep

\* A new call keeps the types.
LEMMA ShapeCall ==
  ASSUME ShapeInv, NEW c \in Clients, NEW kind \in Kinds, NEW k \in Keys, Call(c, kind, k)
  PROVE  ShapeInv'
<1>0. TypeOK /\ FilerOK /\ CompOK /\ BreakerOK /\ CallsOK
  BY DEF ShapeInv, TypeOK
<1>1. CallsOK' /\ (kind = "put" => Len(puts) + 1 \in Vers)
  BY <1>0, CallType
<1>2. /\ op'[c].kind = kind /\ (kind = "put" => op'[c].ver = Len(puts) + 1)
      /\ \A d \in Clients \ {c} : op'[d] = op[d] /\ pc'[d] = pc[d]
  BY <1>0 DEF Call, Goto, CallsOK
<1>3. \A d \in Clients : Putting(d)' => op'[d].ver \in Vers
  BY <1>1, <1>2 DEF ShapeInv, Putting
<1>4. UNCHANGED filerVars /\ cache' = cache /\ UNCHANGED compVars /\ UNCHANGED breakerVars
      /\ store' = store
  BY DEF Call
<1>5. FilerOK' /\ CompOK' /\ BreakerOK'
  BY <1>0, <1>4, BreakerType DEF FilerOK, CompOK, filerVars, compVars
<1> QED BY <1>0, <1>1, <1>3, <1>4, <1>5 DEF ShapeInv, TypeOK

\* The backend starts with the right types.
LEMMA ShapeInit == Init => ShapeInv
<1> SUFFICES ASSUME Init PROVE ShapeInv
  OBVIOUS
<1>0. MaxPuts \in Nat /\ Threshold \in Nat /\ QueueSize \in Nat /\ RetryAttempts \in Nat \ {0}
  BY BoundsAssumption
<1>1. FilerOK
  BY <1>0 DEF Init, FilerOK
<1>2. CompOK
  BY <1>0 DEF Init, CompOK, Loops
<1>3. BreakerOK
  <2>1. failures \in 0 .. Threshold
    BY <1>0 DEF Init
  <2>2. window = FALSE /\ degraded = FALSE /\ probeDue = FALSE
    BY Zenon DEF Init
  <2> QED BY <2>1, <2>2, Zenon DEF BreakerOK
<1>4. CallsOK
  BY <1>0 DEF Init, CallsOK, Labels, Outcomes
<1>5. \A c \in Clients : ~Putting(c)
  BY DEF Init, Putting
<1> QED BY <1>1, <1>2, <1>3, <1>4, <1>5 DEF Init, ShapeInv, TypeOK

\* A step is a new call, or work on what is under way.
LEMMA NextCases ==
  ASSUME [Next]_vars
  PROVE  \/ \E c \in Clients, kind \in Kinds, k \in Keys : Call(c, kind, k)
         \/ \E c \in Clients : ClientStep(c)
         \/ Background
<1>1. CASE UNCHANGED vars
  BY <1>1 DEF Background
<1>2. CASE Next
  BY <1>2 DEF Next, Calls, Background, Stopped
<1> QED BY <1>1, <1>2

\* Every step keeps the types.
LEMMA ShapeStep == ShapeInv /\ [Next]_vars => ShapeInv'
<1> SUFFICES ASSUME ShapeInv, [Next]_vars PROVE ShapeInv'
  OBVIOUS
<1>1. ASSUME NEW c \in Clients, ClientStep(c) PROVE ShapeInv'
  BY <1>1, ShapePut, ShapeOther DEF ClientStep
<1> QED BY <1>1, NextCases, ShapeCall, ShapeBackground

\* The backend's state is well formed whatever the remote services answer: every
\* call that runs has its kind, key and Put, and the queue stays within its bound.
THEOREM TypeCorrect == Spec => []TypeOK
<1>1. ShapeInv => TypeOK
  BY DEF ShapeInv
<1> QED BY <1>1, ShapeInit, ShapeStep, PTL DEF Spec

-----------------------------------------------------------------------------
(* Effects: what a step that is no new call does *)

\* Such a step of a client moves its call on, returns it, or notes what Lookup found.
LEMMA ClientMoves ==
  ASSUME ShapeInv, NEW c \in Clients, ClientStep(c)
  PROVE  /\ pc[c] # "idle" /\ UNCHANGED <<puts, deleted>>
         /\ \/ Return(c)
            \/ \E label \in Labels : Goto(c, label) /\ pc[c] # "idle" /\ UNCHANGED op
            \/ At(c, "get", "primary") /\ Goto(c, "fill")
               /\ op' = [op EXCEPT ![c].ver = LookupEntry(op[c].key)]
<1>l. Labels = {"idle", "route", "probe", "primary", "fallback", "degrade", "upload", "create",
                "cache", "enqueue", "uncache", "fill"}
  BY DEF Labels
<1>1. CASE PutStep(c)
  BY <1>1, <1>l DEF PutStep, Assign, Upload, FallbackPut, Create, PutCache, Enqueue, At,
       PutReturns, callVars
<1>2. CASE OtherStep(c)
  BY <1>2, <1>l DEF OtherStep, Delete, FallbackDelete, Lookup, List, Uncache, Fill, FallbackRead,
       At, callVars
<1>3. CASE Route(c)
  BY <1>3, <1>l DEF Route, callVars
<1>4. ASSUME NEW ok \in PingResults, Probe(c, ok)
      PROVE  /\ pc[c] # "idle" /\ UNCHANGED <<puts, deleted>>
             /\ \E label \in Labels : Goto(c, label) /\ pc[c] # "idle" /\ UNCHANGED op
  BY <1>4, <1>l DEF Probe, callVars
<1> QED BY <1>1, <1>2, <1>3, <1>4 DEF ClientStep

\* No step but a new call begins a call, or changes the kind or key of one.
LEMMA CallsKept ==
  ASSUME ShapeInv, (\E c \in Clients : ClientStep(c)) \/ Background
  PROVE  /\ UNCHANGED <<puts, deleted>>
         /\ \A d \in Clients : pc'[d] # "idle" =>
              pc[d] # "idle" /\ op'[d].kind = op[d].kind /\ op'[d].key = op[d].key
         /\ \A d \in Clients : Putting(d)' => Putting(d) /\ op'[d] = op[d]
<1>0. CallsOK
  BY DEF ShapeInv, TypeOK
<1>1. ASSUME NEW c \in Clients, ClientStep(c)
      PROVE  /\ UNCHANGED <<puts, deleted>>
             /\ \A d \in Clients : pc'[d] # "idle" =>
                  pc[d] # "idle" /\ op'[d].kind = op[d].kind /\ op'[d].key = op[d].key
             /\ \A d \in Clients : Putting(d)' => Putting(d) /\ op'[d] = op[d]
  <2>0. pc[c] # "idle" /\ UNCHANGED <<puts, deleted>>
    BY <1>1, ClientMoves
  <2>1. CASE Return(c) \/ \E label \in Labels : Goto(c, label) /\ pc[c] # "idle" /\ UNCHANGED op
    BY <1>0, <2>0, <2>1, CallFrame DEF Putting
  <2>2. CASE At(c, "get", "primary") /\ Goto(c, "fill")
             /\ op' = [op EXCEPT ![c].ver = LookupEntry(op[c].key)]
    <3>1. op[c] \in Ops
      BY <1>0, <2>0 DEF CallsOK
    <3>2. /\ op'[c].kind = op[c].kind /\ op'[c].key = op[c].key /\ op[c].kind = "get"
          /\ \A d \in Clients \ {c} : op'[d] = op[d] /\ pc'[d] = pc[d]
      BY <1>0, <2>2, <3>1 DEF CallsOK, At, Goto, Ops
    <3> QED BY <2>0, <3>2 DEF Putting
  <2> QED BY <1>1, <2>1, <2>2, ClientMoves
<1>2. CASE Background
  BY <1>2, ShapeBackground DEF Putting
<1> QED BY <1>1, <1>2

\* m may be registered now: somebody is about to, and its data is stored.
Ready(m) == m \in Metas /\ Claimed(m) /\ (StoredInv => m.ver \in objects)

\* Who is about to register something.
LEMMA ReadyMetas ==
  ASSUME ShapeInv
  PROVE  /\ \A m \in late : Ready(m)
         /\ \A i \in 1 .. Len(compQueue) : Ready(compQueue[i])
         /\ loop.pc \in Retrying => Ready(loop.meta)
         /\ \A c \in Clients : Putting(c) =>
              /\ Claimed(Meta(c)) /\ Meta(c) \in Metas
              /\ Meta(c).key = op[c].key /\ Meta(c).ver = op[c].ver
         /\ \A c \in Clients : Putting(c) /\ pc[c] \in {"create", "cache", "enqueue"} =>
              Ready(Meta(c))
<1>0. FilerOK /\ CompOK /\ CallsOK
  BY DEF ShapeInv, TypeOK
<1>1. \A m \in late : Ready(m)
  BY <1>0 DEF FilerOK, Ready, Claimed, StoredInv
<1>2. \A i \in 1 .. Len(compQueue) : Ready(compQueue[i])
  BY <1>0 DEF CompOK, Ready, Claimed, StoredInv
<1>3. loop.pc \in Retrying => Ready(loop.meta)
  BY <1>0 DEF CompOK, Ready, Claimed, StoredInv, Retrying
<1>4. \A c \in Clients : Putting(c) =>
        /\ Claimed(Meta(c)) /\ Meta(c) \in Metas
        /\ Meta(c).key = op[c].key /\ Meta(c).ver = op[c].ver
  BY <1>0, MetaType DEF ShapeInv, Claimed
<1>5. \A c \in Clients : Putting(c) /\ pc[c] \in {"create", "cache", "enqueue"} => Ready(Meta(c))
  BY <1>4 DEF Ready, StoredInv
<1> QED BY <1>1, <1>2, <1>3, <1>4, <1>5

\* The directory's new entry for m, with all that is stored left in place.
Registers(m) ==
  /\ entries' = [entries EXCEPT ![m.key] = m.ver]
  /\ objects \subseteq objects' /\ (StoredInv => m.ver \in objects')

\* A Delete under way, which removes its key's entry and data.
Removes(c) == pc[c] # "idle" /\ op[c].kind = "delete" /\ RemoveEntry(op[c].key)

\* The directory changes when a claimed meta is registered or a key is deleted.
LEMMA FilerEffect ==
  ASSUME ShapeInv, (\E c \in Clients : ClientStep(c)) \/ Background
  PROVE  \/ entries' = entries /\ objects \subseteq objects'
         \/ \E m \in Metas : Claimed(m) /\ Registers(m)
         \/ \E c \in Clients : Removes(c)
<1>1. ASSUME NEW c \in Clients, PutStep(c)
      PROVE  \/ entries' = entries /\ objects \subseteq objects'
             \/ \E m \in Metas : Claimed(m) /\ Registers(m)
  <2>1. CASE \E ok \in Healthy : Assign(c, ok) \/ Upload(c, ok)
    BY <2>1 DEF Assign, Upload, VolumePut, filerVars
  <2>2. ASSUME NEW ok \in Healthy, FallbackPut(c, ok)
        PROVE  \/ entries' = entries /\ objects \subseteq objects'
               \/ Putting(c) /\ Registers(Meta(c))
    BY <2>2, ReadyMetas DEF FallbackPut, At, Putting, Registers, Meta
  <2>3. ASSUME NEW r \in CreateResults, Create(c, r)
        PROVE  \/ entries' = entries /\ objects \subseteq objects'
               \/ Putting(c) /\ Registers(Meta(c))
    <3>1. Putting(c) /\ (StoredInv => Meta(c).ver \in objects)
      BY <2>3, ReadyMetas DEF Create, At, Putting, Ready
    <3> QED BY <2>3, <3>1 DEF Create, CreateEntry, Registers
  <2>4. CASE PutCache(c) \/ Enqueue(c)
    BY <2>4 DEF PutCache, Enqueue, filerVars
  <2> QED BY <1>1, <2>1, <2>2, <2>3, <2>4, ReadyMetas DEF PutStep
<1>2. ASSUME NEW c \in Clients, OtherStep(c)
      PROVE  (entries' = entries /\ objects \subseteq objects') \/ Removes(c)
  BY <1>2 DEF OtherStep, Delete, FallbackDelete, Lookup, List, Uncache, Fill, FallbackRead, At,
       Removes, filerVars
<1>3. ASSUME NEW c \in Clients, Route(c) \/ \E ok \in PingResults : Probe(c, ok)
      PROVE  entries' = entries /\ objects \subseteq objects'
  BY <1>3 DEF Route, Probe, filerVars
<1>4. ASSUME NEW r \in CreateResults, LoopTry(r)
      PROVE  \/ entries' = entries /\ objects \subseteq objects'
             \/ \E m \in Metas : Claimed(m) /\ Registers(m)
  BY <1>4, ReadyMetas DEF LoopTry, CreateEntry, Registers, Ready, Retrying
<1>5. ASSUME NEW m \in Metas, LateCreate(m)
      PROVE  Claimed(m) /\ Registers(m)
  BY <1>5, ReadyMetas DEF LateCreate, Registers, Ready
<1>6. CASE \/ LoopTake \/ LoopExit \/ LoopSettle \/ LoopCache \/ ProbeTime \/ WindowOver
           \/ (\E k \in Keys : Expire(k))
           \/ CloseBegin \/ CloseReturn \/ CloseAgain \/ UNCHANGED vars
  BY <1>6 DEF LoopTake, LoopExit, LoopSettle, LoopCache, ProbeTime, WindowOver, Expire, CloseBegin,
       CloseReturn, CloseAgain, vars, filerVars
<1> QED BY <1>1, <1>2, <1>3, <1>4, <1>5, <1>6 DEF ClientStep, Background, LoopStep

\* Retries move a meta from its Put to the queue, to the loop or to the filer.
MovesMetas ==
  /\ \A m \in late' : Ready(m)
  /\ \A i \in 1 .. Len(compQueue') : Ready(compQueue'[i])
  /\ loop'.pc \in Retrying => Ready(loop'.meta)
  /\ \A k \in Keys : \/ pending'[k] \in {0, pending[k]}
                     \/ \E m \in Metas : Claimed(m) /\ m.key = k /\ pending'[k] = m.ver

\* No step but a new call makes a claim.
LEMMA CompEffect ==
  ASSUME ShapeInv, (\E c \in Clients : ClientStep(c)) \/ Background
  PROVE  MovesMetas
<1>0. FilerOK /\ CompOK /\ CallsOK
  BY DEF ShapeInv, TypeOK
<1>a. UNCHANGED compVars /\ (\A m \in late' : Ready(m)) => MovesMetas
  BY ReadyMetas DEF MovesMetas, compVars
<1>b. UNCHANGED <<pending, compQueue>> /\ (\A m \in late' : Ready(m))
        /\ (loop'.pc \in Retrying => Ready(loop'.meta)) => MovesMetas
  BY ReadyMetas DEF MovesMetas
<1>c. late' = late => \A m \in late' : Ready(m)
  BY ReadyMetas
<1>d. ASSUME NEW m, NEW r, Ready(m), CreateEntry(m, r) PROVE \A x \in late' : Ready(x)
  BY <1>d, ReadyMetas DEF CreateEntry
<1>1. ASSUME NEW c \in Clients, PutStep(c) PROVE MovesMetas
  <2>1. CASE \/ \E ok \in Healthy : Assign(c, ok) \/ Upload(c, ok) \/ FallbackPut(c, ok)
             \/ PutCache(c)
    <3>1. UNCHANGED compVars /\ late' = late
      BY <2>1 DEF Assign, Upload, FallbackPut, PutCache, filerVars
    <3> QED BY <1>a, <1>c, <3>1
  <2>2. ASSUME NEW r \in CreateResults, Create(c, r) PROVE MovesMetas
    <3>1. UNCHANGED compVars /\ Ready(Meta(c)) /\ CreateEntry(Meta(c), r)
      BY <2>2, ReadyMetas DEF Create, At, Putting
    <3> QED BY <1>a, <1>d, <3>1
  <2>3. CASE Enqueue(c)
    <3>1. /\ Ready(Meta(c)) /\ Meta(c) \in Metas /\ Claimed(Meta(c))
          /\ Meta(c).key = op[c].key /\ Meta(c).ver = op[c].ver
      BY <2>3, ReadyMetas DEF Enqueue, At, Putting
    <3>2. /\ late' = late /\ loop' = loop
          /\ pending' = pending \/ pending' = [pending EXCEPT ![Meta(c).key] = Meta(c).ver]
          /\ compQueue' = compQueue \/ compQueue' = Append(compQueue, Meta(c))
      BY <2>3, <3>1 DEF Enqueue, filerVars
    <3>3. \A i \in 1 .. Len(compQueue') : Ready(compQueue'[i])
      <4>1. CASE compQueue' = compQueue
        BY <4>1, ReadyMetas
      <4>2. CASE compQueue' = Append(compQueue, Meta(c))
        <5>1. /\ Len(compQueue') = Len(compQueue) + 1 /\ Len(compQueue) \in Nat
              /\ compQueue'[Len(compQueue) + 1] = Meta(c)
              /\ \A i \in 1 .. Len(compQueue) : compQueue'[i] = compQueue[i]
          BY <1>0, <3>1, <4>2 DEF CompOK
        <5> QED BY <3>1, <5>1, ReadyMetas
      <4> QED BY <3>2, <4>1, <4>2
    <3>4. \A k \in Keys : \/ pending'[k] \in {0, pending[k]}
                          \/ \E m \in Metas : Claimed(m) /\ m.key = k /\ pending'[k] = m.ver
      BY <1>0, <3>1, <3>2 DEF CompOK
    <3> QED BY <1>c, <3>2, <3>3, <3>4, ReadyMetas DEF MovesMetas
  <2> QED BY <1>1, <2>1, <2>2, <2>3 DEF PutStep
<1>2. ASSUME NEW c \in Clients, OtherStep(c) \/ Route(c) \/ \E ok \in PingResults : Probe(c, ok)
      PROVE  MovesMetas
  <2>1. UNCHANGED compVars /\ late' = late
    BY <1>2 DEF OtherStep, Delete, FallbackDelete, Lookup, List, Uncache, Fill, FallbackRead,
         RemoveEntry, Route, Probe, filerVars
  <2> QED BY <1>a, <1>c, <2>1
<1>3. ASSUME NEW r \in CreateResults, LoopTry(r) PROVE MovesMetas
  <2>1. Ready(loop.meta) /\ CreateEntry(loop.meta, r) /\ UNCHANGED <<pending, compQueue>>
    BY <1>3, ReadyMetas DEF LoopTry, Retrying
  <2>2. loop'.meta = loop.meta
    BY <1>0, <1>3 DEF LoopTry, LoopAt, CompOK, Loops
  <2> QED BY <1>b, <1>d, <2>1, <2>2
<1>4. CASE LoopTake
  <2>1. /\ Len(compQueue) >= 1 /\ loop'.meta = compQueue[1]
        /\ Len(compQueue') = Len(compQueue) - 1 /\ Len(compQueue) \in Nat
        /\ \A i \in 1 .. Len(compQueue') : compQueue'[i] = compQueue[i + 1]
    BY <1>0, <1>4 DEF LoopTake, CompOK
  <2>2. /\ \A i \in 1 .. Len(compQueue') : Ready(compQueue'[i])
        /\ Ready(loop'.meta)
    BY <2>1, ReadyMetas
  <2>3. late' = late /\ pending' = pending
    BY <1>4 DEF LoopTake, filerVars
  <2> QED BY <1>c, <2>2, <2>3, ReadyMetas DEF MovesMetas
<1>5. CASE LoopExit \/ LoopSettle \/ LoopCache
  <2>1. /\ loop'.meta = loop.meta /\ (loop'.pc \in Retrying => loop.pc \in Retrying)
        /\ \A k \in Keys : pending'[k] \in {0, pending[k]}
    BY <1>0, <1>5 DEF LoopExit, LoopSettle, LoopCache, LoopAt, CompOK, Loops, Retrying
  <2>2. late' = late /\ compQueue' = compQueue
    BY <1>5 DEF LoopExit, LoopSettle, LoopCache, filerVars
  <2> QED BY <1>c, <2>1, <2>2, ReadyMetas DEF MovesMetas
<1>6. ASSUME NEW m \in Metas, LateCreate(m) PROVE MovesMetas
  <2>1. UNCHANGED compVars /\ late' \subseteq late
    BY <1>6 DEF LateCreate
  <2> QED BY <1>a, <2>1, ReadyMetas
<1>7. CASE \/ ProbeTime \/ WindowOver \/ (\E k \in Keys : Expire(k))
           \/ CloseBegin \/ CloseReturn \/ CloseAgain \/ UNCHANGED vars
  <2>1. UNCHANGED compVars /\ late' = late
    BY <1>7 DEF ProbeTime, WindowOver, Expire, CloseBegin, CloseReturn, CloseAgain, vars, filerVars,
         compVars
  <2> QED BY <1>a, <1>c, <2>1
<1> QED BY <1>1, <1>2, <1>3, <1>4, <1>5, <1>6, <1>7 DEF ClientStep, Background, LoopStep

\* Claims are only passed on.
LEMMA ClaimsKept ==
  ASSUME ShapeInv, (\E c \in Clients : ClientStep(c)) \/ Background
  PROVE  \A m \in Metas : Claimed(m)' => Claimed(m)
<1> SUFFICES ASSUME NEW m \in Metas, Claimed(m)' PROVE Claimed(m)
  OBVIOUS
<1>1. CASE m \in late'
  BY <1>1, CompEffect DEF MovesMetas, Ready
<1>2. CASE \E i \in 1 .. Len(compQueue') : compQueue'[i] = m
  BY <1>2, CompEffect DEF MovesMetas, Ready
<1>3. CASE loop'.pc \in Retrying /\ loop'.meta = m
  BY <1>3, CompEffect DEF MovesMetas, Ready
<1>4. CASE \E c \in Clients : Putting(c)' /\ Meta(c)' = m
  <2>1. PICK c \in Clients : Putting(c)' /\ Meta(c)' = m
    BY <1>4
  <2>2. Putting(c) /\ Meta(c) = m
    BY <2>1, CallsKept DEF Meta
  <2> QED BY <2>2 DEF Claimed
<1> QED BY <1>1, <1>2, <1>3, <1>4 DEF Claimed

\* A new call changes the calls alone, and claims its own meta when it is a Put.
LEMMA CallClaims ==
  ASSUME ShapeInv, NEW c \in Clients, NEW kind \in Kinds, NEW k \in Keys, Call(c, kind, k)
  PROVE  /\ UNCHANGED <<filerVars, cache, compVars, outcome>>
         /\ \A d \in Clients \ {c} : pc'[d] = pc[d] /\ op'[d] = op[d]
         /\ pc'[c] = "route" /\ op'[c].kind = kind /\ op'[c].key = k
         /\ \A m \in Metas : Claimed(m)' =>
              Claimed(m) \/ (kind = "put" /\ m.key = k /\ m.ver = Len(puts) + 1)
<1>0. CallsOK /\ CompOK /\ FilerOK
  BY DEF ShapeInv, TypeOK
<1>1. /\ UNCHANGED filerVars /\ cache' = cache /\ UNCHANGED compVars /\ outcome' = outcome
  BY DEF Call
<1>2. /\ \A d \in Clients \ {c} : pc'[d] = pc[d] /\ op'[d] = op[d]
      /\ pc'[c] = "route" /\ op'[c].kind = kind /\ op'[c].key = k
      /\ kind = "put" => op'[c].ver = Len(puts) + 1
  BY <1>0 DEF Call, Goto, CallsOK
<1>3. ASSUME NEW m \in Metas, Claimed(m)'
      PROVE  Claimed(m) \/ (kind = "put" /\ m.key = k /\ m.ver = Len(puts) + 1)
  <2>1. CASE \E d \in Clients : Putting(d)' /\ Meta(d)' = m
    <3>1. PICK d \in Clients : Putting(d)' /\ Meta(d)' = m
      BY <2>1
    <3>2. CASE d = c
      BY <1>2, <3>1, <3>2 DEF Putting, Meta
    <3>3. CASE d # c
      BY <1>2, <3>1, <3>3 DEF Putting, Meta, Claimed
    <3> QED BY <3>2, <3>3
  <2>2. CASE ~\E d \in Clients : Putting(d)' /\ Meta(d)' = m
    BY <1>1, <1>3, <2>2 DEF Claimed, filerVars, compVars
  <2> QED BY <2>1, <2>2
<1> QED BY <1>1, <1>2, <1>3

-----------------------------------------------------------------------------
(* Names, deletions, and the data behind the entries *)

\* A version keeps its key.
LEMMA NamesKept ==
  ASSUME ShapeInv, [Next]_vars
  PROVE  \A n, k : Names(puts, n, k) => Names(puts', n, k)
<1>1. ASSUME NEW c \in Clients, NEW kind \in Kinds, NEW key \in Keys, Call(c, kind, key)
      PROVE  \A n, k : Names(puts, n, k) => Names(puts', n, k)
  <2>1. /\ Len(puts') = IF kind = "put" THEN Len(puts) + 1 ELSE Len(puts)
        /\ \A i \in 1 .. Len(puts) : puts'[i] = puts[i]
        /\ puts \in Seq(Keys)
    BY <1>1, CallType DEF ShapeInv, TypeOK, CallsOK
  <2>2. 1 .. Len(puts) \subseteq 1 .. Len(puts')
    BY <2>1
  <2> QED BY <2>1, <2>2 DEF Names
<1>2. CASE (\E c \in Clients : ClientStep(c)) \/ Background
  BY <1>2, CallsKept
<1> QED BY <1>1, <1>2, NextCases

\* Every step keeps names and versions together.
LEMMA NameStep == ShapeInv /\ NameInv /\ [Next]_vars => NameInv'
<1> SUFFICES ASSUME ShapeInv, NameInv, [Next]_vars PROVE NameInv'
  OBVIOUS
<1>0. FilerOK /\ CompOK /\ ShapeInv'
  BY ShapeStep DEF ShapeInv, TypeOK
<1>1. ASSUME NEW c \in Clients, NEW kind \in Kinds, NEW key \in Keys, Call(c, kind, key)
      PROVE  NameInv'
  <2>1. /\ kind = "put" => puts'[Len(puts) + 1] = key /\ Len(puts') = Len(puts) + 1
        /\ Len(puts) \in Nat
    BY <1>1, CallType DEF ShapeInv, TypeOK, CallsOK
  <2>2. kind = "put" => Names(puts', Len(puts) + 1, key)
    BY <2>1 DEF Names
  <2>3. \A m \in Metas : Claimed(m)' => Names(puts', m.ver, m.key)
    BY <1>1, <2>2, CallClaims, NamesKept DEF NameInv
  <2>4. entries' = entries /\ pending' = pending
    BY <1>1 DEF Call, filerVars, compVars
  <2> QED BY <2>3, <2>4, NamesKept DEF NameInv
<1>2. CASE (\E c \in Clients : ClientStep(c)) \/ Background
  <2>1. \A m \in Metas : Claimed(m) => Names(puts', m.ver, m.key)
    BY NamesKept DEF NameInv
  <2>2. ASSUME NEW k \in Keys, entries'[k] # 0 PROVE Names(puts', entries'[k], k)
    <3>1. CASE entries'[k] = entries[k]
      BY <2>2, <3>1, NamesKept DEF NameInv
    <3>2. CASE \E m \in Metas : Claimed(m) /\ Registers(m)
      BY <1>0, <2>1, <2>2, <3>1, <3>2 DEF Registers, FilerOK
    <3>3. CASE \E c \in Clients : Removes(c)
      BY <1>0, <2>2, <3>1, <3>3 DEF Removes, RemoveEntry, FilerOK
    <3> QED BY <1>2, <3>1, <3>2, <3>3, FilerEffect
  <2>3. ASSUME NEW k \in Keys, pending'[k] # 0 PROVE Names(puts', pending'[k], k)
    BY <1>2, <2>1, <2>3, CompEffect, NamesKept DEF MovesMetas, NameInv
  <2> QED BY <1>2, <2>1, <2>2, <2>3, ClaimsKept DEF NameInv
<1> QED BY <1>1, <1>2, NextCases

\* A key somebody may still register has a CreateEntry under way.
LEMMA ClaimedRegisters ==
  ASSUME NEW m \in Metas, Claimed(m) PROVE Registering(m.key)
  BY DEF Claimed, Registering, Retrying, Putting, Meta

\* Every step keeps deleted keys out of the hands of the Puts.
LEMMA DeleteStep == ShapeInv /\ DeleteInv /\ [Next]_vars => DeleteInv'
<1> SUFFICES ASSUME ShapeInv, DeleteInv, [Next]_vars PROVE DeleteInv'
  OBVIOUS
<1>0. CallsOK /\ puts \in Seq(Keys) /\ Len(puts) \in Nat
  BY DEF ShapeInv, TypeOK, CallsOK
<1>1. ASSUME NEW c \in Clients, NEW kind \in Kinds, NEW key \in Keys, Call(c, kind, key)
      PROVE  DeleteInv'
  <2>0. /\ Len(puts') = IF kind = "put" THEN Len(puts) + 1 ELSE Len(puts)
        /\ \A i \in 1 .. Len(puts) : puts'[i] = puts[i]
        /\ kind = "put" => puts'[Len(puts) + 1] = key
        /\ puts' \in Seq(Keys)
    BY <1>1, CallType DEF ShapeInv, TypeOK, CallsOK
  <2>1. Range(puts) = {puts[i] : i \in 1 .. Len(puts)}
        /\ Range(puts') = {puts'[i] : i \in 1 .. Len(puts')}
    BY <1>0, <2>0 DEF Range
  <2>2. Range(puts) \subseteq Range(puts')
    BY <1>0, <2>0, <2>1
  <2>3. kind = "put" => (key \in Once => key \notin Range(puts)) /\ key \notin deleted
    BY <1>1 DEF Call, MayCall, DeleteInv
  <2>4. kind = "delete" => key \in Once /\ key \in Range(puts) /\ ~Registering(key)
    BY <1>1 DEF Call, MayCall
  <2>5. deleted' = IF kind = "delete" THEN deleted \cup {key} ELSE deleted
    BY <1>1 DEF Call
  <2>6. \A i, j \in 1 .. Len(puts') : puts'[i] = puts'[j] /\ puts'[i] \in Once => i = j
    <3>1. \A i, j \in 1 .. Len(puts) : puts[i] = puts[j] /\ puts[i] \in Once => i = j
      BY DEF DeleteInv
    <3>2. CASE kind # "put"
      BY <2>0, <3>1, <3>2
    <3>3. CASE kind = "put"
      <4>1. \A i \in 1 .. Len(puts') : i \in 1 .. Len(puts) \/ i = Len(puts) + 1
        BY <1>0, <2>0, <3>3
      <4>2. \A i \in 1 .. Len(puts) : puts[i] \in Once => puts[i] # key
        BY <2>1, <2>3, <3>3
      <4> QED BY <2>0, <3>1, <3>3, <4>1, <4>2
    <3> QED BY <3>2, <3>3
  <2>7. \A k \in deleted' : k \in Once /\ k \in Range(puts')
    BY <2>2, <2>4, <2>5 DEF DeleteInv
  <2>8. \A m \in Metas : Claimed(m)' => m.key \notin deleted'
    BY <1>1, <2>3, <2>4, <2>5, CallClaims, ClaimedRegisters DEF DeleteInv
  <2>9. \A d \in Clients : pc'[d] # "idle" /\ op'[d].kind = "delete" => op'[d].key \in deleted'
    BY <1>1, <2>5, CallClaims DEF DeleteInv
  <2> QED BY <2>6, <2>7, <2>8, <2>9 DEF DeleteInv
<1>2. CASE (\E c \in Clients : ClientStep(c)) \/ Background
  <2>1. UNCHANGED <<puts, deleted>>
    BY <1>2, CallsKept
  <2>2. \A m \in Metas : Claimed(m)' => m.key \notin deleted'
    BY <1>2, <2>1, ClaimsKept DEF DeleteInv
  <2>3. \A d \in Clients : pc'[d] # "idle" /\ op'[d].kind = "delete" => op'[d].key \in deleted'
    BY <1>2, <2>1, CallsKept DEF DeleteInv
  <2> QED BY <2>1, <2>2, <2>3 DEF DeleteInv
<1> QED BY <1>1, <1>2, NextCases

\* A Put gets past its upload only with its data stored.
LEMMA UploadedFirst ==
  ASSUME ShapeInv, (\E c \in Clients : ClientStep(c)) \/ Background,
         NEW d \in Clients, Putting(d)', pc'[d] \in {"create", "cache", "enqueue"}
  PROVE  \/ Putting(d) /\ pc[d] \in {"create", "cache", "enqueue"} /\ op'[d] = op[d]
         \/ op'[d].ver \in objects'
<1>0. Putting(d) /\ op'[d] = op[d] /\ CallsOK
  BY CallsKept DEF ShapeInv, TypeOK
<1>1. CASE Background
  BY <1>0, <1>1, ShapeBackground
<1>2. ASSUME NEW c \in Clients, ClientStep(c), c # d PROVE pc'[d] = pc[d]
  BY <1>0, <1>2, ClientMoves DEF Return, Goto, CallsOK
<1>3. CASE ClientStep(d)
  <2>1. CASE \E ok \in Healthy : Upload(d, ok)
    <3>1. PICK ok \in Healthy : Upload(d, ok)
      BY <2>1
    <3>2. CASE ok
      BY <1>0, <3>1, <3>2 DEF Upload, VolumePut
    <3>3. CASE ~ok
      BY <1>0, <3>1, <3>3 DEF Upload, PutReturns, Return, Goto, CallsOK
    <3> QED BY <3>2, <3>3
  <2>2. CASE \E r \in CreateResults : Create(d, r)
    BY <1>0, <2>2 DEF Create, At
  <2>3. CASE \/ \E ok \in Healthy : Assign(d, ok) \/ FallbackPut(d, ok)
             \/ PutCache(d) \/ Enqueue(d)
    BY <1>0, <2>3 DEF Assign, FallbackPut, PutCache, Enqueue, PutReturns, Return, Goto, CallsOK
  <2>4. CASE OtherStep(d)
    BY <1>0, <2>4 DEF OtherStep, Delete, FallbackDelete, Lookup, List, Uncache, Fill, FallbackRead,
         At, Putting
  <2>5. CASE Route(d) \/ \E ok \in PingResults : Probe(d, ok)
    BY <1>0, <2>5 DEF Route, Probe, Goto, CallsOK
  <2> QED BY <1>3, <2>1, <2>2, <2>3, <2>4, <2>5 DEF ClientStep, PutStep
<1> QED BY <1>0, <1>1, <1>2, <1>3

\* A deletion takes the data of the deleted entry alone.
LEMMA OthersKeepData ==
  ASSUME ShapeInv, NameInv, DeleteInv, (\E c \in Clients : ClientStep(c)) \/ Background
  PROVE  /\ \A m : Ready(m) /\ StoredInv => m.ver \in objects'
         /\ \A k \in Keys : StoredInv /\ entries'[k] # 0 => entries'[k] \in objects'
<1>0. FilerOK
  BY DEF ShapeInv, TypeOK
<1>1. CASE entries' = entries /\ objects \subseteq objects'
  BY <1>1 DEF Ready, StoredInv, NoDanglingEntry
<1>2. CASE \E m \in Metas : Claimed(m) /\ Registers(m)
  BY <1>0, <1>2 DEF Ready, Registers, StoredInv, NoDanglingEntry, FilerOK
<1>3. CASE \E c \in Clients : Removes(c)
  <2>1. PICK c \in Clients : Removes(c)
    BY <1>3
  <2> DEFINE gone == op[c].key
  <2>2. gone \in deleted /\ gone \in Keys
    BY <2>1 DEF Removes, DeleteInv, ShapeInv, TypeOK, CallsOK
  <2>3. /\ entries' = [entries EXCEPT ![gone] = 0] /\ objects' = objects \ {entries[gone]}
        /\ entries \in [Keys -> 0 .. MaxPuts]
    BY <1>0, <2>1 DEF Removes, RemoveEntry, FilerOK
  <2> HIDE DEF gone
  <2>4. ASSUME NEW m, Ready(m), StoredInv PROVE m.ver \in objects'
    <3>1. m \in Metas /\ m.ver \in objects /\ m.ver # 0 /\ Names(puts, m.ver, m.key)
          /\ m.key \notin deleted
      BY <2>4 DEF Ready, NameInv, DeleteInv, Metas, Vers
    <3>2. entries[gone] # 0 => Names(puts, entries[gone], gone)
      BY <2>2 DEF NameInv
    <3> QED BY <2>2, <2>3, <3>1, <3>2 DEF Names
  <2>5. ASSUME NEW k \in Keys, StoredInv, entries'[k] # 0 PROVE entries'[k] \in objects'
    <3>1. k # gone /\ entries'[k] = entries[k] /\ entries[k] # 0 /\ Names(puts, entries[k], k)
      BY <2>2, <2>3, <2>5 DEF NameInv
    <3>2. entries[gone] # 0 => Names(puts, entries[gone], gone)
      BY <2>2 DEF NameInv
    <3>3. entries[k] # entries[gone]
      BY <3>1, <3>2 DEF Names
    <3> QED BY <2>3, <2>5, <3>1, <3>3 DEF StoredInv, NoDanglingEntry
  <2> QED BY <2>4, <2>5
<1> QED BY <1>1, <1>2, <1>3, FilerEffect

\* Every step keeps the data behind the entries.
LEMMA StoredStep ==
  ShapeInv /\ NameInv /\ DeleteInv /\ StoredInv /\ [Next]_vars => StoredInv'
<1> SUFFICES ASSUME ShapeInv, NameInv, DeleteInv, StoredInv, [Next]_vars PROVE StoredInv'
  OBVIOUS
<1>1. ASSUME NEW c \in Clients, NEW kind \in Kinds, NEW key \in Keys, Call(c, kind, key)
      PROVE  StoredInv'
  <2>1. UNCHANGED filerVars /\ UNCHANGED compVars
    BY <1>1, CallClaims
  <2>2. \A d \in Clients : Putting(d)' /\ pc'[d] \in {"create", "cache", "enqueue"} =>
          op'[d].ver \in objects'
    BY <1>1, <2>1, CallClaims DEF StoredInv, Putting, filerVars
  <2> QED BY <2>1, <2>2 DEF StoredInv, NoDanglingEntry, filerVars, compVars
<1>2. CASE (\E c \in Clients : ClientStep(c)) \/ Background
  <2>1. MovesMetas /\ \A m : Ready(m) => m.ver \in objects'
    BY <1>2, CompEffect, OthersKeepData
  <2>2. NoDanglingEntry'
    BY <1>2, OthersKeepData DEF NoDanglingEntry
  <2>3. \A d \in Clients : Putting(d)' /\ pc'[d] \in {"create", "cache", "enqueue"} =>
          op'[d].ver \in objects'
    BY <1>2, <2>1, UploadedFirst, ReadyMetas
  <2> QED BY <2>1, <2>2, <2>3 DEF StoredInv, MovesMetas
<1> QED BY <1>1, <1>2, NextCases

\* Nothing is claimed, named or deleted in the beginning.
LEMMA StoredInit == Init => NameInv /\ DeleteInv /\ StoredInv
<1> SUFFICES ASSUME Init PROVE NameInv /\ DeleteInv /\ StoredInv
  OBVIOUS
<1>1. \A m \in Metas : ~Claimed(m)
  BY DEF Init, Claimed, Retrying, Putting
<1>2. puts = <<>> /\ deleted = {} /\ \A c \in Clients : pc[c] = "idle"
  BY DEF Init
<1>3. NameInv
  BY <1>1 DEF Init, NameInv
<1>4. DeleteInv
  BY <1>1, <1>2 DEF DeleteInv
<1>5. StoredInv
  BY <1>2 DEF Init, StoredInv, NoDanglingEntry, Retrying, Putting
<1> QED BY <1>3, <1>4, <1>5

\* The directory never refers to data that is not there: a Put, its compensation and
\* the calls that come late register an entry only after the upload succeeded, and a
\* Delete takes the data with the entry and nobody else's.
THEOREM NoDangling == Spec => []NoDanglingEntry
<1>1. StoredInv => NoDanglingEntry
  BY DEF StoredInv
<1> QED BY <1>1, ShapeInit, StoredInit, ShapeStep, NameStep, DeleteStep, StoredStep, PTL DEF Spec

-----------------------------------------------------------------------------
(* What acknowledged, pending and cached writes say of the directory *)

\* What a Put that returns has made sure of.
Returns(c, result) ==
  \/ result = "error"
  \/ result \in {"ok", "degraded"} /\ (pc[c] = "cache" \/ entries'[op[c].key] = op[c].ver)
  \/ /\ result \in {"pending", "unqueued"}
     /\ pending'[op[c].key] = op[c].ver \/ (pending[op[c].key] # 0 /\ pending' = pending)

\* Only a Put that returns sets an outcome, its own.
LEMMA OutcomeEffect ==
  ASSUME ShapeInv, (\E c \in Clients : ClientStep(c)) \/ Background, NEW n \in Vers
  PROVE  \/ outcome'[n] = outcome[n]
         \/ \E c \in Clients : Putting(c) /\ op[c].ver = n /\ Returns(c, outcome'[n])
<1>0. CallsOK /\ FilerOK /\ CompOK /\ outcome \in [Vers -> Outcomes]
  BY DEF ShapeInv, TypeOK, CallsOK
<1>a. ASSUME NEW c \in Clients, NEW result \in Outcomes, Putting(c), PutReturns(c, result),
             Returns(c, result)
      PROVE  \/ outcome'[n] = outcome[n]
             \/ Putting(c) /\ op[c].ver = n /\ Returns(c, outcome'[n])
  <2>1. outcome' = [outcome EXCEPT ![op[c].ver] = result]
    BY <1>a DEF PutReturns
  <2>2. CASE op[c].ver = n
    <3>1. outcome'[n] = result
      BY <1>0, <2>1, <2>2
    <3> QED BY <1>a, <2>2, <3>1
  <2>3. CASE op[c].ver # n
    BY <1>0, <2>1, <2>3
  <2> QED BY <2>2, <2>3
<1>o. {"ok", "pending", "unqueued", "degraded", "error"} \subseteq Outcomes
  BY DEF Outcomes
<1>k. \A c \in Clients : Putting(c) => op[c].key \in Keys
  BY <1>0 DEF CallsOK, Putting, Ops
<1>1. ASSUME NEW c \in Clients, PutStep(c)
      PROVE  \/ outcome'[n] = outcome[n]
             \/ Putting(c) /\ op[c].ver = n /\ Returns(c, outcome'[n])
  <2>1. ASSUME NEW ok \in Healthy, Upload(c, ok), outcome' # outcome
        PROVE  Putting(c) /\ PutReturns(c, "error") /\ Returns(c, "error")
    BY <2>1 DEF Upload, At, Putting, Returns
  <2>2. ASSUME NEW ok \in Healthy, FallbackPut(c, ok)
        PROVE  \E r \in Outcomes : Putting(c) /\ PutReturns(c, r) /\ Returns(c, r)
    <3>1. Putting(c) /\ op[c].key \in Keys
      BY <1>k, <2>2 DEF FallbackPut, At, Putting
    <3>2. CASE ~ok
      BY <1>o, <2>2, <3>1, <3>2 DEF FallbackPut, Returns
    <3>3. CASE ok
      <4>1. entries'[op[c].key] = op[c].ver
        BY <1>0, <2>2, <3>1, <3>3 DEF FallbackPut, FilerOK
      <4> QED BY <1>o, <2>2, <3>1, <3>3, <4>1 DEF FallbackPut, Returns
    <3> QED BY <3>2, <3>3
  <2>3. CASE PutCache(c)
    <3>1. Putting(c) /\ PutReturns(c, "ok") /\ Returns(c, "ok")
      BY <2>3 DEF PutCache, At, Putting, Returns
    <3> QED BY <1>a, <1>o, <3>1
  <2>4. CASE Enqueue(c)
    <3>1. /\ Putting(c) /\ op[c].key \in Keys
          /\ PutReturns(c, "pending") \/ PutReturns(c, "unqueued")
      BY <1>k, <2>4 DEF Enqueue, At, Putting
    <3>p. \/ pending' = [pending EXCEPT ![op[c].key] = op[c].ver]
          \/ pending[op[c].key] # 0 /\ pending' = pending
      BY <2>4 DEF Enqueue
    <3>q. pending'[op[c].key] = op[c].ver \/ (pending[op[c].key] # 0 /\ pending' = pending)
      BY <1>0, <3>1, <3>p DEF CompOK
    <3>2. Returns(c, "pending") /\ Returns(c, "unqueued")
      BY <3>q, Zenon DEF Returns
    <3> QED BY <1>a, <1>o, <3>1, <3>2
  <2>5. CASE (\E ok \in Healthy : Assign(c, ok)) \/ \E r \in CreateResults : Create(c, r)
    BY <2>5 DEF Assign, Create
  <2> QED BY <1>1, <1>a, <1>o, <2>1, <2>2, <2>3, <2>4, <2>5 DEF PutStep
<1>2. ASSUME NEW c \in Clients, OtherStep(c) \/ Route(c) \/ \E ok \in PingResults : Probe(c, ok)
      PROVE  outcome' = outcome
  BY <1>2 DEF OtherStep, Delete, FallbackDelete, Lookup, List, Uncache, Fill, FallbackRead, Route,
       Probe
<1> QED BY <1>1, <1>2, ShapeBackground DEF ClientStep

\* A Put that goes on has set no outcome.
LEMMA OutcomeReturns ==
  ASSUME ShapeInv, (\E c \in Clients : ClientStep(c)) \/ Background,
         NEW d \in Clients, Putting(d)',
         \A c \in Clients : Putting(c) /\ op[c].ver = op[d].ver => c = d
  PROVE  outcome'[op[d].ver] = outcome[op[d].ver]
<1>0. CallsOK /\ Putting(d) /\ op[d].ver \in Vers /\ outcome \in [Vers -> Outcomes]
  BY CallsKept DEF ShapeInv, TypeOK, CallsOK
<1>1. ASSUME NEW c \in Clients, NEW result, PutReturns(c, result), Putting(c)
      PROVE  outcome'[op[d].ver] = outcome[op[d].ver]
  <2>1. pc'[c] = "idle"
    BY <1>0, <1>1 DEF PutReturns, Return, Goto, CallsOK
  <2>2. op[c].ver # op[d].ver
    BY <1>1, <2>1 DEF Putting
  <2> QED BY <1>0, <1>1, <2>2 DEF PutReturns
<1>2. ASSUME NEW c \in Clients, PutStep(c) PROVE outcome'[op[d].ver] = outcome[op[d].ver]
  <2>1. Putting(c)
    BY <1>2 DEF PutStep, Assign, Upload, FallbackPut, Create, PutCache, Enqueue, At, Putting
  <2>2. outcome' = outcome \/ \E result : PutReturns(c, result)
    BY <1>2 DEF PutStep, Assign, Upload, FallbackPut, Create, PutCache, Enqueue
  <2> QED BY <1>1, <2>1, <2>2
<1>3. ASSUME NEW c \in Clients, OtherStep(c) \/ Route(c) \/ \E ok \in PingResults : Probe(c, ok)
      PROVE  outcome' = outcome
  BY <1>3 DEF OtherStep, Delete, FallbackDelete, Lookup, List, Uncache, Fill, FallbackRead, Route,
       Probe
<1> QED BY <1>2, <1>3, ShapeBackground DEF ClientStep

\* A pending meta is forgotten only by the loop, when it has registered it.
LEMMA PendingEffect ==
  ASSUME ShapeInv, (\E c \in Clients : ClientStep(c)) \/ Background, NEW k \in Keys, pending[k] # 0
  PROVE  pending'[k] = pending[k] \/ (loop.pc = "settle" /\ loop.meta.key = k)
<1>0. CompOK
  BY DEF ShapeInv, TypeOK
<1>1. ASSUME NEW c \in Clients, ClientStep(c) PROVE pending'[k] = pending[k]
  <2>1. CASE Enqueue(c)
    BY <1>0, <2>1 DEF Enqueue, CompOK
  <2>2. CASE ~Enqueue(c)
    BY <1>1, <2>2 DEF ClientStep, Route, Probe, PutStep, Assign, Upload, FallbackPut, Create,
         PutCache, OtherStep, Delete, FallbackDelete, Lookup, List, Uncache, Fill, FallbackRead,
         compVars
  <2> QED BY <2>1, <2>2
<1>2. CASE LoopSettle
  BY <1>0, <1>2 DEF LoopSettle, CompOK
<1>3. CASE Background /\ ~LoopSettle
  BY <1>3 DEF Background, LoopStep, LoopTake, LoopExit, LoopTry, LoopCache, ProbeTime, WindowOver,
       LateCreate, Expire, CloseBegin, CloseReturn, CloseAgain, vars, compVars
<1> QED BY <1>1, <1>2, <1>3

\* The cache is filled by a Put, a Get or the loop.
LEMMA CacheEffect ==
  ASSUME ShapeInv, (\E c \in Clients : ClientStep(c)) \/ Background, NEW k \in Keys
  PROVE  \/ cache'[k] \in {0, cache[k]}
         \/ \E c \in Clients : pc[c] \in {"cache", "fill"} /\ op[c].key = k /\ cache'[k] = op[c].ver
         \/ loop.pc = "cache" /\ loop.meta.key = k /\ cache'[k] = loop.meta.ver
<1>0. FilerOK
  BY DEF ShapeInv, TypeOK
<1>1. ASSUME NEW c \in Clients, PutCache(c) \/ Fill(c)
      PROVE  \/ cache'[k] = cache[k]
             \/ pc[c] \in {"cache", "fill"} /\ op[c].key = k /\ cache'[k] = op[c].ver
  BY <1>0, <1>1 DEF PutCache, Fill, At, FilerOK
<1>2. ASSUME NEW c \in Clients, Uncache(c) PROVE cache'[k] \in {0, cache[k]}
  BY <1>0, <1>2 DEF Uncache, FilerOK
<1>3. ASSUME NEW c \in Clients, ClientStep(c), ~PutCache(c), ~Fill(c), ~Uncache(c)
      PROVE  cache' = cache
  BY <1>3 DEF ClientStep, Route, Probe, PutStep, Assign, Upload, FallbackPut, Create,
       Enqueue, OtherStep, Delete, FallbackDelete, Lookup, List, FallbackRead
<1>4. CASE LoopCache
  BY <1>0, <1>4 DEF LoopCache, FilerOK
<1>5. CASE \E key \in Keys : Expire(key)
  BY <1>0, <1>5 DEF Expire, FilerOK
<1>6. CASE Background /\ ~LoopCache /\ ~\E key \in Keys : Expire(key)
  BY <1>6 DEF Background, LoopStep, LoopTake, LoopExit, LoopTry, LoopSettle, ProbeTime, WindowOver,
       LateCreate, CloseBegin, CloseReturn, CloseAgain, vars
<1> QED BY <1>1, <1>2, <1>3, <1>4, <1>5, <1>6

\* A caller is about to fill the cache with what it registered or looked up.
LEMMA FillEffect ==
  ASSUME ShapeInv, (\E c \in Clients : ClientStep(c)) \/ Background,
         NEW d \in Clients, pc'[d] \in {"cache", "fill"}
  PROVE  \/ pc'[d] = pc[d] /\ op'[d] = op[d]
         \/ Believed(op[d].key, op[d].ver)' /\ op'[d].ver # 0
<1>0. CallsOK /\ FilerOK /\ pc[d] # "idle" /\ op[d] \in Ops
  BY CallsKept DEF ShapeInv, TypeOK, CallsOK
<1>1. CASE Background
  BY <1>1, ShapeBackground
<1>2. ASSUME NEW c \in Clients, ClientStep(c), c # d PROVE pc'[d] = pc[d] /\ op'[d] = op[d]
  BY <1>0, <1>2, ClientMoves DEF Return, Goto, CallsOK
<1>3. CASE ClientStep(d)
  <2>1. ASSUME NEW r \in CreateResults, Create(d, r)
        PROVE  Believed(op[d].key, op[d].ver)' /\ op'[d].ver # 0
    <3>1. op'[d] = op[d] /\ Putting(d) /\ NoError(r) /\ CreateEntry(Meta(d), r)
      BY <1>0, <2>1 DEF Create, At, Putting, Goto, CallsOK
    <3>2. op[d].ver \in Vers /\ op[d].key \in Keys /\ Meta(d).key = op[d].key
          /\ Meta(d).ver = op[d].ver
      BY <1>0, <3>1, MetaType DEF ShapeInv
    <3>3. entries'[op[d].key] = op[d].ver \/ op[d].ver \in refused'
      BY <1>0, <3>1, <3>2 DEF CreateEntry, NoError, FilerOK
    <3> QED BY <3>1, <3>2, <3>3 DEF Vers, Believed
  <2>2. ASSUME NEW ok \in Healthy, Lookup(d, ok)
        PROVE  Believed(op[d].key, op[d].ver)' /\ op'[d].ver # 0
    <3> DEFINE n == LookupEntry(op[d].key)
    <3>1. n # 0 /\ op' = [op EXCEPT ![d].ver = n] /\ entries' = entries
      BY <1>0, <2>2 DEF Lookup, Return, Goto, CallsOK, filerVars
    <3> HIDE DEF n
    <3>2. op'[d].ver = n /\ op'[d].key = op[d].key
      BY <1>0, <3>1 DEF CallsOK, Ops
    <3> QED BY <3>1, <3>2 DEF n, LookupEntry, Believed
  <2>3. CASE PutStep(d) /\ ~\E r \in CreateResults : Create(d, r)
    BY <1>0, <2>3 DEF PutStep, Assign, Upload, FallbackPut, PutCache, Enqueue, PutReturns, Return,
         Goto, CallsOK
  <2>4. CASE OtherStep(d) /\ ~\E ok \in Healthy : Lookup(d, ok)
    BY <1>0, <2>4 DEF OtherStep, Delete, FallbackDelete, List, Uncache, Fill, FallbackRead, Return,
         Goto, CallsOK
  <2>5. CASE Route(d) \/ \E ok \in PingResults : Probe(d, ok)
    BY <1>0, <2>5 DEF Route, Probe, Goto, CallsOK
  <2> QED BY <1>3, <2>1, <2>2, <2>3, <2>4, <2>5 DEF ClientStep
<1> QED BY <1>1, <1>2, <1>3

\* The loop settles what it has registered.
LEMMA SettleEffect ==
  ASSUME ShapeInv, (\E c \in Clients : ClientStep(c)) \/ Background,
         loop'.pc \in {"settle", "cache"}
  PROVE  /\ loop'.meta = loop.meta /\ loop.pc \in Retrying
         /\ \/ loop.pc \in {"settle", "cache"}
            \/ Believed(loop.meta.key, loop.meta.ver)'
<1>0. CompOK /\ FilerOK
  BY DEF ShapeInv, TypeOK
<1>1. CASE loop' = loop
  BY <1>1 DEF Retrying
<1>2. ASSUME NEW c \in Clients, ClientStep(c) PROVE loop' = loop
  BY <1>2 DEF ClientStep, Route, Probe, PutStep, Assign, Upload, FallbackPut, Create, PutCache,
       Enqueue, OtherStep, Delete, FallbackDelete, Lookup, List, Uncache, Fill, FallbackRead,
       compVars
<1>3. ASSUME NEW r \in CreateResults, LoopTry(r)
      PROVE  loop'.meta = loop.meta /\ Believed(loop.meta.key, loop.meta.ver)'
  <2>1. loop.meta \in Metas /\ loop.meta.key \in Keys /\ loop \in Loops
    BY <1>0, <1>3 DEF LoopTry, CompOK, Metas
  <2>2. NoError(r) /\ loop'.meta = loop.meta
    BY <1>3, <2>1 DEF LoopTry, LoopAt, Loops
  <2> QED BY <1>0, <1>3, <2>1, <2>2 DEF LoopTry, CreateEntry, NoError, FilerOK, Believed
<1>4. CASE LoopTake \/ LoopExit \/ LoopSettle \/ LoopCache
  BY <1>0, <1>4 DEF LoopTake, LoopExit, LoopSettle, LoopCache, LoopAt, CompOK, Loops, Retrying
<1>5. CASE Background /\ ~LoopStep
  BY <1>1, <1>5 DEF Background, ProbeTime, WindowOver, LateCreate, Expire, CloseBegin, CloseReturn,
       CloseAgain, vars, compVars
<1> QED BY <1>1, <1>2, <1>3, <1>4, <1>5 DEF Background, LoopStep, LoopTry, Retrying

\* The Puts of a write-once key have one version.
LEMMA OneVersion ==
  ASSUME DeleteInv
  PROVE  \A k \in Once : \A n, m : Names(puts, n, k) /\ Names(puts, m, k) => n = m
  BY DEF DeleteInv, Names

\* The entry of a write-once key stays until the key is deleted.
LEMMA EntryKept ==
  ASSUME ShapeInv, NameInv, DeleteInv, (\E c \in Clients : ClientStep(c)) \/ Background,
         NEW k \in Once \ deleted, entries[k] # 0
  PROVE  entries'[k] = entries[k]
<1>0. FilerOK /\ k \in Keys
  BY OnceAssumption DEF ShapeInv, TypeOK
<1>1. ASSUME NEW m \in Metas, Claimed(m), Registers(m) PROVE entries'[k] = entries[k]
  <2>1. CASE m.key = k
    <3>1. Names(puts, m.ver, k) /\ Names(puts, entries[k], k)
      BY <1>0, <1>1, <2>1 DEF NameInv
    <3>2. m.ver = entries[k]
      BY <3>1, OneVersion
    <3> QED BY <1>0, <1>1, <2>1, <3>2 DEF Registers, FilerOK
  <2>2. CASE m.key # k
    BY <1>0, <1>1, <2>2 DEF Registers, FilerOK
  <2> QED BY <2>1, <2>2
<1>2. ASSUME NEW c \in Clients, Removes(c) PROVE entries'[k] = entries[k]
  BY <1>0, <1>2 DEF Removes, RemoveEntry, DeleteInv, FilerOK
<1> QED BY <1>1, <1>2, FilerEffect

\* A refusal is not taken back.
LEMMA RefusedKept ==
  ASSUME (\E c \in Clients : ClientStep(c)) \/ Background
  PROVE  refused \subseteq refused'
  BY DEF ClientStep, Route, Probe, PutStep, Assign, Upload, FallbackPut, Create, PutCache, Enqueue,
       OtherStep, Delete, FallbackDelete, Lookup, List, Uncache, Fill, FallbackRead, RemoveEntry,
       CreateEntry, Background, LoopStep, LoopTake, LoopExit, LoopTry, LoopSettle, LoopCache,
       ProbeTime, WindowOver, LateCreate, Expire, CloseBegin, CloseReturn, CloseAgain, vars,
       filerVars

\* What was believed of a write-once key stays so until the key is deleted.
LEMMA BeliefKept ==
  ASSUME ShapeInv, NameInv, DeleteInv, (\E c \in Clients : ClientStep(c)) \/ Background,
         NEW k \in Once \ deleted, NEW n, n # 0, Believed(k, n)
  PROVE  Believed(k, n)'
  BY EntryKept, RefusedKept DEF Believed

\* A new call changes nothing that was said of the directory.
LEMMA VisibleCall ==
  ASSUME ShapeInv, VisibleInv,
         NEW c \in Clients, NEW kind \in Kinds, NEW k \in Keys, Call(c, kind, k)
  PROVE  VisibleInv'
<1>0. /\ Len(puts') = IF kind = "put" THEN Len(puts) + 1 ELSE Len(puts)
      /\ \A i \in 1 .. Len(puts) : puts'[i] = puts[i]
      /\ Len(puts) \in Nat /\ (kind = "put" => Len(puts) + 1 \in Vers)
  BY CallType DEF ShapeInv, TypeOK, CallsOK
<1>d. deleted \subseteq deleted'
  BY DEF Call
<1>1. /\ entries' = entries /\ cache' = cache /\ pending' = pending /\ loop' = loop
      /\ outcome' = outcome /\ refused' = refused
  BY DEF Call, filerVars, compVars
<1>2. ASSUME NEW n \in 1 .. Len(puts'), puts'[n] \in Once \ deleted'
      PROVE  /\ Acked(n)' => Believed(puts[n], n)'
             /\ Deferred(n)' => Believed(puts[n], n)' \/ pending'[puts'[n]] = n
  <2>1. CASE n \in 1 .. Len(puts)
    <3>1. puts'[n] = puts[n] /\ puts[n] \in Once \ deleted
      BY <1>0, <1>d, <1>2, <2>1
    <3> QED BY <1>1, <2>1, <3>1 DEF VisibleInv, Acked, Deferred, Believed
  <2>2. CASE n \notin 1 .. Len(puts)
    <3>1. n = Len(puts) + 1 /\ n \in Vers /\ n > Len(puts)
      BY <1>0, <1>2, <2>2
    <3>2. outcome'[n] = "none"
      BY <1>1, <3>1 DEF VisibleInv
    <3> QED BY <3>2 DEF Acked, Deferred
  <2> QED BY <2>1, <2>2
<1>3. \A key \in Once \ deleted' : cache'[key] # 0 => Believed(key, cache[key])'
  BY <1>d, <1>1 DEF VisibleInv, Believed
<1>4. \A d \in Clients : pc'[d] \in {"cache", "fill"} /\ op'[d].key \in Once \ deleted' =>
        op'[d].ver # 0 /\ Believed(op[d].key, op[d].ver)'
  BY <1>d, <1>1, CallClaims DEF VisibleInv, Believed
<1>5. loop'.pc \in {"settle", "cache"} /\ loop'.meta.key \in Once =>
        Believed(loop.meta.key, loop.meta.ver)'
  BY <1>1 DEF VisibleInv, Believed
<1>6. \A n \in Vers : n > Len(puts') => outcome'[n] = "none"
  BY <1>0, <1>1 DEF VisibleInv, Vers
<1> QED BY <1>2, <1>3, <1>4, <1>5, <1>6 DEF VisibleInv

\* The work on the calls keeps what is said of the directory.
LEMMA VisibleWork ==
  ASSUME ShapeInv, NameInv, DeleteInv, VisibleInv, (\E c \in Clients : ClientStep(c)) \/ Background
  PROVE  VisibleInv'
<1>0. /\ UNCHANGED <<puts, deleted>> /\ FilerOK /\ CompOK /\ CallsOK
      /\ Len(puts) \in 0 .. MaxPuts /\ MaxPuts \in Nat /\ puts \in Seq(Keys)
  BY CallsKept, BoundsAssumption DEF ShapeInv, TypeOK, CallsOK
<1>v. 1 .. Len(puts) \subseteq Vers /\ 0 \notin Vers
  BY <1>0 DEF Vers
<1>p. \A c \in Clients : Putting(c) => Names(puts, op[c].ver, op[c].key)
  BY ReadyMetas DEF NameInv
<1>l. loop.pc \in Retrying => /\ loop.meta \in Metas /\ loop.meta.key \notin deleted
                              /\ Names(puts, loop.meta.ver, loop.meta.key)
                              /\ loop.meta.ver # 0
  <2>1. loop.pc \in Retrying => loop.meta \in Metas /\ Claimed(loop.meta)
    BY ReadyMetas DEF Ready
  <2> QED BY <2>1, <1>v DEF NameInv, DeleteInv, Metas
<1>1. ASSUME NEW n \in 1 .. Len(puts), puts[n] \in Once \ deleted
      PROVE  /\ Acked(n)' => Believed(puts[n], n)'
             /\ Deferred(n)' => Believed(puts[n], n)' \/ pending'[puts[n]] = n
  <2>0. Names(puts, n, puts[n]) /\ puts[n] \in Keys /\ n \in Vers /\ n # 0
    BY <1>0, <1>1, <1>v DEF Names
  <2>1. Believed(puts[n], n) => Believed(puts[n], n)'
    BY <1>0, <1>1, <2>0, BeliefKept DEF Believed
  <2>2. pending[puts[n]] = n => Believed(puts[n], n)' \/ pending'[puts[n]] = n
    <3>1. CASE pending[puts[n]] = n /\ loop.pc = "settle" /\ loop.meta.key = puts[n]
      <4>1. Names(puts, loop.meta.ver, puts[n])
        BY <1>l, <3>1 DEF Retrying
      <4>2. loop.meta.ver = n
        BY <1>1, <2>0, <4>1, OneVersion
      <4>3. Believed(puts[n], n)
        BY <1>1, <3>1, <4>2 DEF VisibleInv
      <4> QED BY <2>1, <4>3
    <3> QED BY <2>0, <3>1, PendingEffect
  <2>3. CASE outcome'[n] = outcome[n]
    BY <1>1, <2>1, <2>2, <2>3 DEF VisibleInv, Acked, Deferred
  <2>4. ASSUME NEW c \in Clients, Putting(c), op[c].ver = n, Returns(c, outcome'[n])
        PROVE  /\ Acked(n)' => Believed(puts[n], n)'
               /\ Deferred(n)' => Believed(puts[n], n)' \/ pending'[puts[n]] = n
    <3>1. op[c].key = puts[n]
      BY <1>p, <2>4 DEF Names
    <3>2. pc[c] = "cache" => Believed(puts[n], n)'
      BY <1>1, <2>1, <2>4, <3>1 DEF VisibleInv
    <3>3. pending[puts[n]] # 0 => pending[puts[n]] = n
      BY <1>1, <2>0, OneVersion DEF NameInv
    <3>4. entries'[puts[n]] = n => Believed(puts[n], n)'
      BY <1>0 DEF Believed
    <3>5. Acked(n)' => Believed(puts[n], n)'
      <4>1. Acked(n)' => pc[c] = "cache" \/ entries'[op[c].key] = op[c].ver
        BY <2>4 DEF Returns, Acked
      <4> QED BY <2>4, <3>1, <3>2, <3>4, <4>1, Zenon
    <3>6. Deferred(n)' => pending'[puts[n]] = n
      BY <1>1, <2>0, <2>4, <3>1, <3>3 DEF Returns, Deferred
    <3> QED BY <3>5, <3>6
  <2> QED BY <2>0, <2>3, <2>4, OutcomeEffect
<1>2. ASSUME NEW k \in Once \ deleted, cache'[k] # 0 PROVE Believed(k, cache[k])'
  <2>0. k \in Keys
    BY OnceAssumption
  <2>1. CASE cache'[k] = cache[k]
    BY <1>2, <2>1, BeliefKept DEF VisibleInv, Believed
  <2>2. ASSUME NEW c \in Clients, pc[c] \in {"cache", "fill"}, op[c].key = k, cache'[k] = op[c].ver
        PROVE  Believed(k, cache[k])'
    BY <2>2, BeliefKept DEF VisibleInv, Believed
  <2>3. CASE loop.pc = "cache" /\ loop.meta.key = k /\ cache'[k] = loop.meta.ver
    BY <1>2, <2>3, BeliefKept DEF VisibleInv, Believed
  <2> QED BY <1>2, <2>0, <2>1, <2>2, <2>3, CacheEffect
<1>3. ASSUME NEW d \in Clients, pc'[d] \in {"cache", "fill"}, op'[d].key \in Once \ deleted
      PROVE  op'[d].ver # 0 /\ Believed(op[d].key, op[d].ver)'
  BY <1>3, FillEffect, BeliefKept DEF VisibleInv, Believed
<1>4. ASSUME loop'.pc \in {"settle", "cache"}, loop'.meta.key \in Once
      PROVE  Believed(loop.meta.key, loop.meta.ver)'
  <2>1. /\ loop'.meta = loop.meta /\ loop.pc \in Retrying
        /\ \/ loop.pc \in {"settle", "cache"}
           \/ Believed(loop.meta.key, loop.meta.ver)'
    BY <1>4, SettleEffect
  <2>2. loop.meta.key \in Once \ deleted /\ loop.meta.ver # 0
    BY <1>4, <1>l, <2>1
  <2> QED BY <2>1, <2>2, BeliefKept DEF VisibleInv, Believed
<1>5. ASSUME NEW n \in Vers, n > Len(puts) PROVE outcome'[n] = "none"
  <2>1. \A c \in Clients : Putting(c) => op[c].ver # n
    BY <1>0, <1>p, <1>5 DEF Names
  <2> QED BY <1>5, <2>1, OutcomeEffect DEF VisibleInv
<1> QED BY <1>0, <1>1, <1>2, <1>3, <1>4, <1>5 DEF VisibleInv

\* What the backend starts with.
LEMMA VisibleInit == Init => VisibleInv
<1> SUFFICES ASSUME Init PROVE VisibleInv
  OBVIOUS
<1>1. puts = <<>> /\ Len(puts) = 0
  BY DEF Init
<1>2. /\ \A k \in Once : cache[k] = 0
      /\ \A c \in Clients : pc[c] \notin {"cache", "fill"}
      /\ loop.pc \notin {"settle", "cache"}
      /\ \A n \in Vers : outcome[n] = "none"
  BY OnceAssumption DEF Init
<1> QED BY <1>1, <1>2 DEF VisibleInv

-----------------------------------------------------------------------------
(* Keys that are put again *)

\* A meta comes into the hands of the filer, the queue or the loop from its Put, on its
\* way to enqueueCompensation or there.
LEMMA RetryEffect ==
  ASSUME ShapeInv, (\E c \in Clients : ClientStep(c)) \/ Background, NEW m \in Metas, Retried(m)'
  PROVE  \/ Retried(m)
         \/ \E c \in Clients : Putting(c) /\ Meta(c) = m /\ (pc'[c] = "enqueue" \/ Enqueue(c))
<1>0. FilerOK /\ CompOK /\ CallsOK
  BY DEF ShapeInv, TypeOK
<1>a. UNCHANGED compVars /\ late' \subseteq late => Retried(m)
  BY DEF Retried, compVars
<1>1. ASSUME NEW r \in CreateResults, NEW c \in Clients, Create(c, r), ~Retried(m)
      PROVE  Putting(c) /\ Meta(c) = m /\ pc'[c] = "enqueue"
  <2>1. Putting(c) /\ UNCHANGED compVars /\ CreateEntry(Meta(c), r)
    BY <1>1 DEF Create, At, Putting
  <2>2. m = Meta(c) /\ r = "late"
    BY <1>1, <1>a, <2>1 DEF Retried, CreateEntry, compVars
  <2> QED BY <1>0, <1>1, <2>1, <2>2 DEF Create, NoError, Goto, CallsOK
<1>2. ASSUME NEW c \in Clients, Enqueue(c), ~Retried(m) PROVE Putting(c) /\ Meta(c) = m
  <2>1. Putting(c) /\ late' = late /\ loop' = loop
        /\ (compQueue' = compQueue \/ compQueue' = Append(compQueue, Meta(c)))
    BY <1>2 DEF Enqueue, At, Putting, filerVars
  <2>2. \E i \in 1 .. Len(compQueue') : compQueue'[i] = m
    BY <1>2, <2>1 DEF Retried
  <2>3. compQueue' = Append(compQueue, Meta(c)) /\ Meta(c) \in Metas
    BY <1>2, <2>1, <2>2, ReadyMetas DEF Retried
  <2>4. /\ Len(compQueue') = Len(compQueue) + 1 /\ Len(compQueue) \in Nat
        /\ compQueue'[Len(compQueue) + 1] = Meta(c)
        /\ \A i \in 1 .. Len(compQueue) : compQueue'[i] = compQueue[i]
    BY <1>0, <2>3 DEF CompOK
  <2>5. PICK i \in 1 .. Len(compQueue') : compQueue'[i] = m
    BY <2>2
  <2>6. i \notin 1 .. Len(compQueue)
    BY <1>2, <2>4, <2>5 DEF Retried
  <2> QED BY <2>1, <2>4, <2>5, <2>6
<1>3. ASSUME NEW c \in Clients, ClientStep(c), ~Enqueue(c), ~\E r \in CreateResults : Create(c, r)
      PROVE  Retried(m)
  <2>1. UNCHANGED compVars /\ late' = late
    BY <1>3 DEF ClientStep, Route, Probe, PutStep, Assign, Upload, FallbackPut, PutCache, OtherStep,
         Delete, FallbackDelete, Lookup, List, Uncache, Fill, FallbackRead, RemoveEntry, filerVars
  <2> QED BY <1>a, <2>1
<1>4. ASSUME NEW r \in CreateResults, LoopTry(r) PROVE Retried(m)
  <2>1. loop.pc = "try" /\ compQueue' = compQueue /\ CreateEntry(loop.meta, r)
    BY <1>4 DEF LoopTry
  <2>2. loop'.meta = loop.meta
    BY <1>0, <1>4 DEF LoopTry, LoopAt, CompOK, Loops
  <2> QED BY <2>1, <2>2 DEF Retried, CreateEntry, Retrying
<1>5. CASE LoopTake
  <2>1. /\ Len(compQueue) >= 1 /\ loop'.meta = compQueue[1] /\ late' = late
        /\ Len(compQueue') = Len(compQueue) - 1 /\ Len(compQueue) \in Nat
        /\ \A i \in 1 .. Len(compQueue') : compQueue'[i] = compQueue[i + 1]
    BY <1>0, <1>5 DEF LoopTake, CompOK, filerVars
  <2>2. 1 \in 1 .. Len(compQueue) /\ \A i \in 1 .. Len(compQueue') : i + 1 \in 1 .. Len(compQueue)
    BY <2>1
  <2> QED BY <2>1, <2>2 DEF Retried
<1>6. CASE LoopExit \/ LoopSettle \/ LoopCache
  <2>1. /\ loop'.meta = loop.meta /\ (loop'.pc \in Retrying => loop.pc \in Retrying)
        /\ late' = late /\ compQueue' = compQueue
    BY <1>0, <1>6 DEF LoopExit, LoopSettle, LoopCache, LoopAt, CompOK, Loops, Retrying, filerVars
  <2> QED BY <2>1 DEF Retried
<1>7. CASE Background /\ ~LoopStep
  <2>1. UNCHANGED compVars /\ late' \subseteq late
    BY <1>7 DEF Background, ProbeTime, WindowOver, LateCreate, Expire, CloseBegin, CloseReturn,
         CloseAgain, vars, filerVars, compVars
  <2> QED BY <1>a, <2>1
<1> QED BY <1>1, <1>2, <1>3, <1>4, <1>5, <1>6, <1>7 DEF LoopStep, Background

\* A Put on its way to enqueueCompensation is deferred there.
LEMMA EnqueueEffect ==
  ASSUME ShapeInv, (\E c \in Clients : ClientStep(c)) \/ Background,
         NEW d \in Clients, Putting(d), pc[d] = "enqueue"
  PROVE  \/ pc'[d] = "enqueue" /\ op'[d] = op[d]
         \/ Enqueue(d)
<1>0. CallsOK
  BY DEF ShapeInv, TypeOK
<1>1. CASE Background
  BY <1>1, ShapeBackground
<1>2. ASSUME NEW c \in Clients, ClientStep(c), c # d PROVE pc'[d] = pc[d] /\ op'[d] = op[d]
  BY <1>0, <1>2, ClientMoves DEF Return, Goto, CallsOK
<1>3. CASE ClientStep(d)
  BY <1>3 DEF ClientStep, Route, Probe, PutStep, Assign, Upload, FallbackPut, Create, PutCache,
       OtherStep, Delete, FallbackDelete, Lookup, List, Uncache, Fill, FallbackRead, At, Putting
<1> QED BY <1>1, <1>2, <1>3

\* enqueueCompensation makes the Put a deferred one.
LEMMA EnqueueDefers ==
  ASSUME ShapeInv, NEW c \in Clients, Enqueue(c)
  PROVE  \A n \in Vers : n = op[c].ver => Deferred(n)'
<1>0. Putting(c) /\ op[c].ver \in Vers /\ outcome \in [Vers -> Outcomes]
  BY DEF Enqueue, At, Putting, ShapeInv, TypeOK, CallsOK
<1>1. PutReturns(c, "pending") \/ PutReturns(c, "unqueued")
  BY DEF Enqueue
<1>2. \A n \in Vers : n = op[c].ver => outcome'[n] \in {"pending", "unqueued"}
  BY <1>0, <1>1 DEF PutReturns
<1> QED BY <1>0, <1>2 DEF Deferred

\* Who is about to register a key that is put again is the last Put of the key, or one
\* that was deferred.
LEMMA LastOrDeferred ==
  ASSUME ShapeInv, AgainInv, NEW m \in Metas, Claimed(m),
         NEW n \in 1 .. Len(puts), puts[n] = m.key
  PROVE  n <= m.ver \/ Deferred(m.ver)
<1>1. ASSUME NEW c \in Clients, Putting(c), Meta(c) = m PROVE n <= m.ver
  BY <1>1 DEF AgainInv, Meta
<1>2. CASE Retried(m)
  BY <1>1, <1>2 DEF AgainInv, Postponed
<1> QED BY <1>1, <1>2 DEF Claimed, Retried

\* A Put that was deferred stays so.
LEMMA DeferredKept ==
  ASSUME ShapeInv, AgainInv, (\E c \in Clients : ClientStep(c)) \/ Background,
         NEW n \in Vers, outcome[n] # "none"
  PROVE  outcome'[n] = outcome[n]
  BY OutcomeEffect DEF AgainInv

\* What the directory shows of a key that is put again gets no older, but for the
\* registrations that were deferred.
LEMMA ShowsKept ==
  ASSUME ShapeInv, NameInv, DeleteInv, AgainInv, (\E c \in Clients : ClientStep(c)) \/ Background,
         NEW n \in 1 .. Len(puts), NEW k \in Keys \ Once, puts[n] = k, Shows(k, n)
  PROVE  Shows(k, n)'
<1>0. /\ FilerOK /\ MaxPuts \in Nat /\ Len(puts) \in 0 .. MaxPuts /\ n \in Nat
      /\ entries \in [Keys -> 0 .. MaxPuts] /\ entries[k] \in Vers
  BY BoundsAssumption DEF ShapeInv, TypeOK, CallsOK, FilerOK, Shows, Vers
<1>1. CASE entries'[k] = entries[k]
  <2>1. Deferred(entries[k]) => outcome'[entries[k]] = outcome[entries[k]]
    BY <1>0, DeferredKept DEF Deferred
  <2> QED BY <1>1, <2>1 DEF Shows, Deferred
<1>2. ASSUME NEW m \in Metas, Claimed(m), Registers(m), m.key = k PROVE Shows(k, n)'
  <2>1. entries'[k] = m.ver /\ m.ver \in Vers /\ m.ver # 0
    BY <1>0, <1>2 DEF Registers, Metas, Vers
  <2>2. n <= m.ver \/ Deferred(m.ver)
    BY <1>2, LastOrDeferred
  <2>3. Deferred(m.ver) => outcome'[m.ver] = outcome[m.ver]
    BY <2>1, DeferredKept DEF Deferred
  <2>4. m.ver \in Nat
    BY <1>0, <2>1 DEF Vers
  <2> QED BY <1>0, <2>1, <2>2, <2>3, <2>4 DEF Shows, Deferred
<1>3. ASSUME NEW m \in Metas, Registers(m), m.key # k PROVE entries'[k] = entries[k]
  BY <1>0, <1>3 DEF Registers
<1>4. ASSUME NEW c \in Clients, Removes(c) PROVE entries'[k] = entries[k]
  <2>1. op[c].key \in Once
    BY <1>4 DEF Removes, DeleteInv
  <2> QED BY <1>0, <1>4, <2>1 DEF Removes, RemoveEntry
<1> QED BY <1>1, <1>2, <1>3, <1>4, FilerEffect

\* A new Put is the last of its key.
LEMMA AgainCall ==
  ASSUME ShapeInv, NameInv, VisibleInv, AgainInv,
         NEW c \in Clients, NEW kind \in Kinds, NEW k \in Keys, Call(c, kind, k)
  PROVE  AgainInv'
<1>0. /\ Len(puts') = IF kind = "put" THEN Len(puts) + 1 ELSE Len(puts)
      /\ \A i \in 1 .. Len(puts) : puts'[i] = puts[i]
      /\ Len(puts) \in Nat /\ (kind = "put" => Len(puts) + 1 \in Vers)
      /\ CallsOK /\ CompOK /\ FilerOK
  BY CallType DEF ShapeInv, TypeOK, CallsOK
<1>1. /\ UNCHANGED <<entries, late, refused, compQueue, loop, outcome>>
      /\ \A d \in Clients \ {c} : pc'[d] = pc[d] /\ op'[d] = op[d]
      /\ pc[c] = "idle" /\ pc'[c] = "route" /\ op'[c].kind = kind /\ op'[c].key = k
  BY CallClaims DEF Call, filerVars, compVars
<1>2. kind = "put" => op'[c].ver = Len(puts) + 1
  BY <1>0 DEF Call, CallsOK
<1>3. /\ \A d \in Clients \ {c} : Putting(d)' = Putting(d) /\ Meta(d)' = Meta(d)
      /\ Putting(c)' => kind = "put"
      /\ kind = "put" => \A d \in Clients : ~(Putting(d) /\ op[d].key = k)
  <2>1. kind = "put" => \A d \in Clients : ~(Putting(d) /\ op[d].key = k)
    BY DEF Call, MayCall, Putting
  <2> QED BY <1>1, <2>1 DEF Putting, Meta
<1>4. \A a, b \in Clients : Putting(a)' /\ Putting(b)' /\ op'[a].key = op'[b].key => a = b
  BY <1>1, <1>3 DEF AgainInv
<1>5. ASSUME NEW d \in Clients, Putting(d)'
      PROVE  /\ \A n \in 1 .. Len(puts') : puts'[n] = op'[d].key => n <= op'[d].ver
             /\ outcome'[op'[d].ver] = "none"
  <2>1. CASE d = c
    <3>1. op'[d].ver = Len(puts) + 1 /\ Len(puts') = Len(puts) + 1 /\ Len(puts) + 1 \in Vers
      BY <1>0, <1>2, <1>3, <1>5, <2>1
    <3>2. outcome[Len(puts) + 1] = "none"
      BY <1>0, <3>1 DEF VisibleInv
    <3> QED BY <1>0, <1>1, <3>1, <3>2
  <2>2. CASE d # c
    <3>1. Putting(d) /\ op'[d] = op[d] /\ (kind = "put" => op[d].key # k)
      BY <1>1, <1>3, <1>5, <2>2
    <3>2. ASSUME NEW n \in 1 .. Len(puts'), puts'[n] = op[d].key PROVE n \in 1 .. Len(puts)
      <4>1. CASE kind # "put"
        BY <1>0, <4>1
      <4>2. CASE kind = "put"
        <5>1. puts'[Len(puts) + 1] = k
          BY <4>2, CallType DEF ShapeInv
        <5> QED BY <1>0, <3>1, <3>2, <4>2, <5>1
      <4> QED BY <4>1, <4>2
    <3> QED BY <1>0, <1>1, <3>1, <3>2 DEF AgainInv
  <2> QED BY <2>1, <2>2
<1>6. ASSUME NEW m \in Metas, Retried(m)' PROVE Postponed(m)'
  <2>1. Retried(m) /\ Postponed(m)
    BY <1>1, <1>6 DEF Retried, AgainInv
  <2>2. ASSUME NEW d \in Clients, Putting(d), pc[d] = "enqueue", Meta(d) = m
        PROVE  Putting(d)' /\ pc'[d] = "enqueue" /\ Meta(d)' = m
    BY <1>1, <1>3, <2>2
  <2> QED BY <1>1, <2>1, <2>2 DEF Postponed, Deferred
<1>7. ASSUME NEW n \in 1 .. Len(puts'), Acked(n)', puts'[n] \notin Once
      PROVE  n \in refused' \/ Shows(puts[n], n)'
  <2>1. n \in 1 .. Len(puts)
    <3>1. ASSUME n \notin 1 .. Len(puts) PROVE FALSE
      <4>1. n = Len(puts) + 1 /\ n \in Vers /\ n > Len(puts)
        BY <1>0, <3>1
      <4>2. outcome'[n] = "none"
        BY <1>1, <4>1 DEF VisibleInv
      <4> QED BY <1>7, <4>2 DEF Acked
    <3> QED BY <3>1
  <2>2. puts'[n] = puts[n] /\ Acked(n)
    BY <1>0, <1>1, <1>7, <2>1 DEF Acked
  <2>3. n \in refused \/ Shows(puts[n], n)
    BY <1>7, <2>1, <2>2 DEF AgainInv
  <2> QED BY <1>1, <2>2, <2>3 DEF Shows, Deferred
<1>8. ASSUME NEW d \in Clients, Putting(d)', pc'[d] = "cache", op'[d].key \notin Once
      PROVE  op'[d].ver \in refused' \/ Shows(op[d].key, op[d].ver)'
  <2>1. Putting(d) /\ pc[d] = "cache" /\ op'[d] = op[d]
    BY <1>1, <1>3, <1>8
  <2>2. op[d].ver \in refused \/ Shows(op[d].key, op[d].ver)
    BY <1>8, <2>1 DEF AgainInv
  <2> QED BY <1>1, <2>1, <2>2 DEF Shows, Deferred
<1> QED BY <1>4, <1>5, <1>6, <1>7, <1>8 DEF AgainInv

\* The work on the calls keeps the order of the Puts of a key.
LEMMA AgainWork ==
  ASSUME ShapeInv, NameInv, DeleteInv, AgainInv, (\E c \in Clients : ClientStep(c)) \/ Background
  PROVE  AgainInv'
<1>0. /\ UNCHANGED <<puts, deleted>> /\ ShapeInv' /\ CallsOK /\ FilerOK
      /\ Len(puts) \in 0 .. MaxPuts /\ MaxPuts \in Nat /\ puts \in Seq(Keys)
      /\ 1 .. Len(puts) \subseteq Vers
  <2>1. ShapeInv'
    <3>1. ASSUME NEW c \in Clients, ClientStep(c) PROVE ShapeInv'
      BY <3>1, ShapePut, ShapeOther DEF ClientStep
    <3> QED BY <3>1, ShapeBackground
  <2> QED BY <2>1, CallsKept, BoundsAssumption DEF ShapeInv, TypeOK, CallsOK, Vers
<1>k. \A d \in Clients : Putting(d)' => Putting(d) /\ op'[d] = op[d]
  BY CallsKept
<1>n. \A c \in Clients : Putting(c) => /\ Names(puts, op[c].ver, op[c].key) /\ op[c].ver \in Vers
                                       /\ op[c].key \in Keys
  <2>1. \A c \in Clients : Putting(c) => Names(puts, op[c].ver, op[c].key)
    BY ReadyMetas DEF NameInv
  <2> QED BY <1>0, <2>1, MetaType DEF ShapeInv
<1>1. \A c, d \in Clients : Putting(c)' /\ Putting(d)' /\ op'[c].key = op'[d].key => c = d
  BY <1>k DEF AgainInv
<1>2. ASSUME NEW d \in Clients, Putting(d)'
      PROVE  /\ \A n \in 1 .. Len(puts') : puts'[n] = op'[d].key => n <= op'[d].ver
             /\ outcome'[op'[d].ver] = "none"
  <2>1. Putting(d) /\ op'[d] = op[d] /\ op[d].ver \in Vers /\ outcome[op[d].ver] = "none"
    BY <1>2, <1>k, <1>n DEF AgainInv
  <2>2. ASSUME NEW c \in Clients, Putting(c), op[c].ver = op[d].ver PROVE c = d
    BY <1>n, <2>1, <2>2 DEF AgainInv, Names
  <2>3. outcome'[op[d].ver] = "none"
    BY <1>2, <2>1, <2>2, OutcomeReturns
  <2> QED BY <1>0, <2>1, <2>3 DEF AgainInv
<1>3. ASSUME NEW m \in Metas, Retried(m)' PROVE Postponed(m)'
  <2>0. m.ver \in Vers
    BY DEF Metas
  <2>1. ASSUME NEW c \in Clients, Putting(c), Meta(c) = m, Enqueue(c) PROVE Postponed(m)'
    <3>1. Meta(c).ver = op[c].ver
      BY DEF Meta
    <3> QED BY <2>0, <2>1, <3>1, EnqueueDefers DEF Postponed
  <2>2. ASSUME NEW c \in Clients, Putting(c), Meta(c) = m, pc'[c] = "enqueue" PROVE Postponed(m)'
    <3>1. pc'[c] # "idle" /\ op'[c].kind = op[c].kind
      BY <2>2, CallsKept
    <3>2. Putting(c)'
      BY <2>2, <3>1 DEF Putting
    <3>3. Meta(c)' = m
      BY <1>k, <2>2, <3>2 DEF Meta
    <3> QED BY <2>2, <3>2, <3>3 DEF Postponed
  <2>3. ASSUME NEW c \in Clients, Putting(c), Meta(c) = m, pc[c] = "enqueue" PROVE Postponed(m)'
    BY <2>1, <2>2, <2>3, EnqueueEffect
  <2>4. Deferred(m.ver) => Postponed(m)'
    BY <2>0, DeferredKept DEF Deferred, Postponed
  <2>5. Retried(m) => Postponed(m)'
    BY <2>3, <2>4 DEF AgainInv, Postponed
  <2> QED BY <1>3, <2>1, <2>2, <2>5, RetryEffect
<1>s. ASSUME NEW n \in 1 .. Len(puts), puts[n] \notin Once, Shows(puts[n], n)
      PROVE  Shows(puts[n], n)'
  <2>1. puts[n] \in Keys \ Once
    BY <1>0, <1>s
  <2>2. \A k \in Keys \ Once : puts[n] = k /\ Shows(k, n) => Shows(k, n)'
    BY ShowsKept
  <2> QED BY <1>0, <1>s, <2>1, <2>2 DEF Shows
<1>b. ASSUME NEW n \in 1 .. Len(puts), entries'[puts[n]] = n PROVE Shows(puts[n], n)'
  <2>1. n \in Nat /\ n # 0
    BY <1>0
  <2> QED BY <1>0, <1>b, <2>1 DEF Shows
<1>4. ASSUME NEW n \in 1 .. Len(puts), Acked(n)', puts[n] \notin Once
      PROVE  n \in refused' \/ Shows(puts[n], n)'
  <2>1. CASE outcome'[n] = outcome[n]
    <3>1. n \in refused \/ Shows(puts[n], n)
      BY <1>4, <2>1 DEF AgainInv, Acked
    <3> QED BY <1>4, <1>s, <3>1, RefusedKept
  <2>2. ASSUME NEW c \in Clients, Putting(c), op[c].ver = n, Returns(c, outcome'[n])
        PROVE  n \in refused' \/ Shows(puts[n], n)'
    <3>1. op[c].key = puts[n]
      BY <1>n, <2>2 DEF Names
    <3>2. pc[c] = "cache" \/ entries'[op[c].key] = op[c].ver
      BY <1>4, <2>2 DEF Returns, Acked
    <3>3. CASE pc[c] = "cache"
      <4>1. n \in refused \/ Shows(puts[n], n)
        BY <1>4, <2>2, <3>1, <3>3 DEF AgainInv
      <4> QED BY <1>4, <1>s, <4>1, RefusedKept
    <3>4. CASE entries'[op[c].key] = op[c].ver
      BY <1>b, <2>2, <3>1, <3>4
    <3> QED BY <3>2, <3>3, <3>4
  <2> QED BY <1>0, <2>1, <2>2, OutcomeEffect
<1>5. ASSUME NEW d \in Clients, Putting(d)', pc'[d] = "cache", op'[d].key \notin Once
      PROVE  op'[d].ver \in refused' \/ Shows(op[d].key, op[d].ver)'
  <2>1. /\ Putting(d) /\ op'[d] = op[d] /\ op[d].ver \in 1 .. Len(puts)
        /\ puts[op[d].ver] = op[d].key
    BY <1>5, <1>k, <1>n DEF Names
  <2> DEFINE v == op[d].ver
  <2>2. v \in refused' \/ Shows(puts[v], v)'
    <3>1. CASE pc[d] = "cache"
      <4>1. v \in refused \/ Shows(puts[v], v)
        BY <1>5, <2>1, <3>1 DEF AgainInv
      <4> QED BY <1>5, <1>s, <2>1, <4>1, RefusedKept
    <3>2. CASE pc[d] # "cache"
      <4>1. entries'[op'[d].key] = op'[d].ver \/ op'[d].ver \in refused'
        BY <1>5, <3>2, FillEffect DEF Believed
      <4> QED BY <1>b, <2>1, <4>1
    <3> QED BY <3>1, <3>2
  <2> QED BY <1>0, <2>1, <2>2 DEF Shows
<1> QED BY <1>0, <1>1, <1>2, <1>3, <1>4, <1>5 DEF AgainInv

\* Nothing was put in the beginning.
LEMMA AgainInit == Init => AgainInv
<1> SUFFICES ASSUME Init PROVE AgainInv
  OBVIOUS
<1>1. puts = <<>> /\ Len(puts) = 0 /\ \A c \in Clients : ~Putting(c)
  BY DEF Init, Putting
<1>2. \A m \in Metas : ~Retried(m)
  BY DEF Init, Retried, Retrying
<1> QED BY <1>1, <1>2 DEF AgainInv

\* Types, names, deletions, what is said of the directory and the order of the Puts of a
\* key hold together.
BackendInv == ShapeInv /\ NameInv /\ DeleteInv /\ VisibleInv /\ AgainInv

\* Every step keeps them.
LEMMA BackendStep == BackendInv /\ [Next]_vars => BackendInv'
<1>1. BackendInv /\ [Next]_vars => VisibleInv' /\ AgainInv'
  BY NextCases, VisibleCall, VisibleWork, AgainCall, AgainWork DEF BackendInv
<1> QED BY <1>1, ShapeStep, NameStep, DeleteStep DEF BackendInv

\* They hold in every state of the backend.
LEMMA Backend == Spec => []BackendInv
<1>1. Init => BackendInv
  BY ShapeInit, StoredInit, VisibleInit, AgainInit DEF BackendInv
<1> QED BY <1>1, BackendStep, PTL DEF Spec

\* What Put acknowledged with nil or ErrStorageDegraded stays in the directory under its
\* key until the key is deleted, whatever compensation, late CreateEntry calls and
\* fallbacks do, but for an entry the filer refused in a reply.  Of the snapshot's key,
\* which is put again, it is this Put, a later one or one that was deferred.
THEOREM AckedStaysVisible == Spec => []AckedIsVisible
<1>1. BackendInv => AckedIsVisible
  <2> SUFFICES ASSUME BackendInv, NEW n \in 1 .. Len(puts), Acked(n), n \notin refused,
                      puts[n] \notin deleted
               PROVE  \/ entries[puts[n]] = n
                      \/ /\ puts[n] \notin Once
                         /\ \/ entries[puts[n]] > n
                            \/ entries[puts[n]] # 0 /\ Deferred(entries[puts[n]])
    BY DEF AckedIsVisible
  <2>1. puts[n] \in Keys /\ entries[puts[n]] \in Nat /\ n \in Nat
    BY BoundsAssumption DEF BackendInv, ShapeInv, TypeOK, CallsOK, FilerOK
  <2>2. CASE puts[n] \in Once
    BY <2>2 DEF BackendInv, VisibleInv, Believed
  <2>3. CASE puts[n] \notin Once
    BY <2>1, <2>3 DEF BackendInv, AgainInv, Shows
  <2> QED BY <2>2, <2>3
<1> QED BY <1>1, Backend, PTL

\* A Put of a write-once key that returned ErrEntryPendingCompensation is in the directory
\* or in compPending until its key is deleted, but for an entry the filer refused in a
\* reply: the compensation forgets no other.
THEOREM PendingNotForgotten == Spec => []PendingTracked
<1>1. BackendInv => PendingTracked
  BY DEF BackendInv, VisibleInv, Believed, PendingTracked
<1> QED BY <1>1, Backend, PTL

\* The entry cache, filled by Put, by Get after its lookup and by the compensation loop,
\* answers what the directory holds for a write-once key that no Delete was called for, or
\* an entry the filer refused in a reply.
THEOREM CacheStaysCoherent == Spec => []CacheCoherent
<1>1. BackendInv => CacheCoherent
  BY DEF BackendInv, VisibleInv, Believed, CacheCoherent
<1> QED BY <1>1, Backend, PTL

-----------------------------------------------------------------------------
(* No pending meta is waited for by nobody, unless the queue was full *)

\* A Put that met the full queue is remembered as such.
LEMMA UnqueuedKept ==
  ASSUME BackendInv, [Next]_vars, NEW n \in Vers, outcome[n] = "unqueued"
  PROVE  outcome'[n] = "unqueued"
<1>1. ASSUME NEW c \in Clients, NEW kind \in Kinds, NEW k \in Keys, Call(c, kind, k)
      PROVE  outcome' = outcome
  BY <1>1 DEF Call
<1>2. CASE (\E c \in Clients : ClientStep(c)) \/ Background
  BY <1>2, DeferredKept DEF BackendInv
<1> QED BY <1>1, <1>2, NextCases

\* A pending meta is one of the Puts.
LEMMA PendingVers ==
  ASSUME BackendInv, NEW k \in Keys, pending[k] # 0
  PROVE  pending[k] \in Vers
  BY BoundsAssumption DEF BackendInv, ShapeInv, TypeOK, CompOK, Vers

\* The queue takes the meta of a key that was not pending, or is full.
LEMMA HandledEnqueue ==
  ASSUME BackendInv, HandledInv, [Next]_vars, NEW c \in Clients, Enqueue(c)
  PROVE  HandledInv'
<1> USE DEF BackendInv
<1>0. CompOK /\ compQueue \in Seq(Metas) /\ Len(compQueue) \in Nat /\ pending \in [Keys -> 0 .. MaxPuts]
      /\ loop' = loop /\ orphans' = orphans
  BY DEF ShapeInv, TypeOK, CompOK, Enqueue
<1>1. Putting(c) /\ op[c].key \in Keys /\ op[c].ver \in Vers /\ op[c].ver # 0
      /\ Meta(c) \in Metas /\ Meta(c).key = op[c].key /\ Meta(c).ver = op[c].ver
  BY MetaType DEF Enqueue, At, Putting, ShapeInv, TypeOK, Vers
<1>u. \A k \in Keys : pending[k] # 0 /\ outcome[pending[k]] = "unqueued" =>
        outcome'[pending[k]] = "unqueued"
  BY UnqueuedKept, PendingVers
<1>q. \A i \in 1 .. Len(compQueue) : compQueue[i].key \in Keys /\ compQueue[i].ver # 0
  <2>1. \A i \in 1 .. Len(compQueue) : compQueue[i] \in Metas
    BY <1>0
  <2>2. \A m \in Metas : m.key \in Keys /\ m.ver # 0
    BY DEF Metas, Vers
  <2> QED BY <2>1, <2>2
<1>2. CASE pending[op[c].key] # 0
  <2>1. pending' = pending /\ compQueue' = compQueue
    BY <1>2 DEF Enqueue
  <2>2. PendingHandled'
    BY <1>0, <1>u, <2>1 DEF HandledInv, PendingHandled
  <2> QED BY <1>0, <2>1, <2>2 DEF HandledInv
<1>4. CASE pending[op[c].key] = 0 /\ QueueFull
  <2>1. /\ pending' = [pending EXCEPT ![op[c].key] = op[c].ver] /\ compQueue' = compQueue
        /\ PutReturns(c, "unqueued")
    BY <1>4 DEF Enqueue
  <2>2. /\ pending'[op[c].key] = op[c].ver
        /\ \A k \in Keys : k # op[c].key => pending'[k] = pending[k]
    BY <1>0, <1>1, <2>1
  <2>3. outcome'[pending'[op[c].key]] = "unqueued"
    BY <1>1, <2>1, <2>2 DEF PutReturns, ShapeInv, TypeOK, CallsOK
  <2>4. PendingHandled'
    BY <1>0, <1>u, <2>1, <2>2, <2>3 DEF HandledInv, PendingHandled
  <2>5. \A i \in 1 .. Len(compQueue) : compQueue[i].key # op[c].key
    BY <1>4, <1>q DEF HandledInv
  <2>6. loop.pc \in {"try", "settle"} => loop.meta.key \in Keys /\ loop.meta.key # op[c].key
    BY <1>0, <1>4 DEF CompOK, Metas, Vers, HandledInv
  <2> QED BY <1>0, <1>q, <2>1, <2>2, <2>4, <2>5, <2>6 DEF HandledInv
<1>3. CASE pending[op[c].key] = 0 /\ ~QueueFull
  <2>1. \A i \in 1 .. Len(compQueue) : compQueue[i].key # op[c].key
    BY <1>3, <1>q DEF HandledInv
  <2>2. /\ pending' = [pending EXCEPT ![op[c].key] = op[c].ver]
        /\ compQueue' = Append(compQueue, Meta(c))
    BY <1>3 DEF Enqueue
  <2>3. /\ Len(compQueue') = Len(compQueue) + 1 /\ compQueue'[Len(compQueue) + 1] = Meta(c)
        /\ \A i \in 1 .. Len(compQueue) : compQueue'[i] = compQueue[i]
    BY <1>0, <1>1, <2>2
  <2>4. /\ pending'[op[c].key] = op[c].ver
        /\ \A k \in Keys : k # op[c].key => pending'[k] = pending[k]
    BY <1>0, <1>1, <2>2
  <2>5. \A i \in 1 .. Len(compQueue) : compQueue[i].key \in Keys
    <3>1. \A i \in 1 .. Len(compQueue) : compQueue[i] \in Metas
      BY <1>0
    <3> QED BY <3>1 DEF Metas
  <2>6. PendingHandled'
    <3> SUFFICES ASSUME NEW k \in Keys, pending'[k] # 0
                 PROVE  \/ \E i \in 1 .. Len(compQueue') : compQueue'[i].ver = pending'[k]
                        \/ loop'.pc \in {"try", "settle"} /\ loop'.meta.ver = pending'[k]
                        \/ pending'[k] \in orphans'
                        \/ outcome'[pending'[k]] = "unqueued"
      BY DEF PendingHandled
    <3>1. CASE k = op[c].key
      BY <1>0, <1>1, <2>3, <2>4, <3>1
    <3>2. CASE k # op[c].key
      BY <1>0, <1>u, <2>3, <2>4, <3>2 DEF HandledInv, PendingHandled
    <3> QED BY <3>1, <3>2
  <2>7. \A i \in 1 .. Len(compQueue') : pending'[compQueue'[i].key] = compQueue'[i].ver
    BY <1>0, <1>1, <2>1, <2>3, <2>4, <2>5 DEF HandledInv
  <2>8. \A i, j \in 1 .. Len(compQueue') : compQueue'[i].key = compQueue'[j].key => i = j
    BY <1>0, <1>1, <2>1, <2>3 DEF HandledInv
  <2>9. loop.pc \in {"try", "settle"} => /\ loop.meta \in Metas /\ loop.meta.key \in Keys
                                         /\ loop.meta.ver # 0 /\ loop.meta.key # op[c].key
    BY <1>0, <1>3 DEF CompOK, Metas, Vers, HandledInv
  <2>10. loop'.pc \in {"try", "settle"} =>
           /\ pending'[loop'.meta.key] = loop'.meta.ver
           /\ \A i \in 1 .. Len(compQueue') : compQueue'[i].key # loop'.meta.key
    BY <1>0, <1>1, <2>3, <2>4, <2>9 DEF HandledInv
  <2> QED BY <2>6, <2>7, <2>8, <2>10 DEF HandledInv
<1> QED BY <1>2, <1>3, <1>4

\* The loop takes, retries, gives up and settles what is pending.
LEMMA HandledLoop ==
  ASSUME BackendInv, HandledInv, LoopStep
  PROVE  HandledInv'
<1> USE DEF BackendInv
<1>o. outcome' = outcome
  BY DEF LoopStep, LoopTake, LoopExit, LoopTry, LoopSettle, LoopCache
<1>0. /\ CompOK /\ compQueue \in Seq(Metas) /\ Len(compQueue) \in Nat /\ loop \in Loops
      /\ pending \in [Keys -> 0 .. MaxPuts]
  BY DEF ShapeInv, TypeOK, CompOK
<1>m. \A m \in Metas : m.key \in Keys /\ m.ver # 0
  BY DEF Metas, Vers
<1>q. \A i \in 1 .. Len(compQueue) : compQueue[i] \in Metas
  BY <1>0
<1>1. CASE LoopTake
  <2>1. /\ Len(compQueue) >= 1 /\ loop'.meta = compQueue[1] /\ loop'.pc = "try"
        /\ Len(compQueue') = Len(compQueue) - 1
        /\ \A i \in 1 .. Len(compQueue') : compQueue'[i] = compQueue[i + 1]
        /\ pending' = pending /\ orphans' = orphans /\ loop.pc = "idle"
    BY <1>0, <1>1 DEF LoopTake
  <2>2. PendingHandled'
    <3> SUFFICES ASSUME NEW k \in Keys, pending'[k] # 0
                 PROVE  \/ \E i \in 1 .. Len(compQueue') : compQueue'[i].ver = pending'[k]
                        \/ loop'.pc \in {"try", "settle"} /\ loop'.meta.ver = pending'[k]
                        \/ pending'[k] \in orphans'
                        \/ outcome'[pending'[k]] = "unqueued"
      BY DEF PendingHandled
    <3>1. ASSUME NEW i \in 1 .. Len(compQueue), compQueue[i].ver = pending[k], i # 1
          PROVE  \E j \in 1 .. Len(compQueue') : compQueue'[j].ver = pending'[k]
      <4>1. i - 1 \in 1 .. Len(compQueue') /\ compQueue'[i - 1] = compQueue[i]
        BY <1>0, <2>1, <3>1
      <4> QED BY <2>1, <3>1, <4>1
    <3> QED BY <1>o, <2>1, <3>1 DEF HandledInv, PendingHandled
  <2>r. \A i \in 1 .. Len(compQueue') : i + 1 \in 1 .. Len(compQueue) /\ i + 1 # 1
    BY <1>0, <2>1
  <2>3. /\ \A i \in 1 .. Len(compQueue') : pending'[compQueue'[i].key] = compQueue'[i].ver
        /\ \A i, j \in 1 .. Len(compQueue') : compQueue'[i].key = compQueue'[j].key => i + 1 = j + 1
        /\ pending'[loop'.meta.key] = loop'.meta.ver
        /\ \A i \in 1 .. Len(compQueue') : compQueue'[i].key # loop'.meta.key
    <3>1. 1 \in 1 .. Len(compQueue)
      BY <1>0, <2>1
    <3>2. /\ \A i \in 1 .. Len(compQueue) : pending[compQueue[i].key] = compQueue[i].ver
          /\ \A i, j \in 1 .. Len(compQueue) : compQueue[i].key = compQueue[j].key => i = j
      BY DEF HandledInv
    <3>3. \A i \in 1 .. Len(compQueue') : pending'[compQueue'[i].key] = compQueue'[i].ver
      BY <2>1, <2>r, <3>2
    <3>4. ASSUME NEW i \in 1 .. Len(compQueue'), NEW j \in 1 .. Len(compQueue'),
                 compQueue'[i].key = compQueue'[j].key
          PROVE  i + 1 = j + 1
      BY <2>1, <2>r, <3>2, <3>4
    <3>5. ASSUME NEW i \in 1 .. Len(compQueue') PROVE compQueue'[i].key # loop'.meta.key
      BY <2>1, <2>r, <3>1, <3>2, <3>5
    <3> QED BY <2>1, <3>1, <3>2, <3>3, <3>4, <3>5
  <2>4. \A i, j \in 1 .. Len(compQueue') : compQueue'[i].key = compQueue'[j].key => i = j
    BY <1>0, <2>1, <2>3
  <2> QED BY <2>2, <2>3, <2>4 DEF HandledInv
<1>2. ASSUME NEW r \in CreateResults, LoopTry(r) PROVE HandledInv'
  <2>1. /\ loop.pc = "try" /\ loop'.meta = loop.meta /\ pending' = pending
        /\ compQueue' = compQueue /\ orphans \subseteq orphans'
        /\ loop'.pc \in {"try", "settle"} \/ loop.meta.ver \in orphans'
    BY <1>0, <1>2 DEF LoopTry, LoopAt, Loops
  <2>2. PendingHandled'
    BY <1>o, <2>1 DEF HandledInv, PendingHandled
  <2> QED BY <2>1, <2>2 DEF HandledInv
<1>3. CASE LoopSettle
  <2>1. /\ loop.pc = "settle" /\ loop'.pc = "cache" /\ compQueue' = compQueue
        /\ orphans' = orphans /\ pending' = [pending EXCEPT ![loop.meta.key] = 0]
    BY <1>0, <1>3 DEF LoopSettle, LoopAt, Loops
  <2>2. /\ loop.meta \in Metas /\ loop.meta.key \in Keys
        /\ Names(puts, loop.meta.ver, loop.meta.key)
    BY <1>m, <2>1, ReadyMetas DEF Ready, Retrying, NameInv
  <2>3. /\ pending'[loop.meta.key] = 0
        /\ \A k \in Keys : k # loop.meta.key => pending'[k] = pending[k]
    BY <1>0, <2>1, <2>2
  <2>4. PendingHandled'
    <3> SUFFICES ASSUME NEW k \in Keys, pending'[k] # 0
                 PROVE  \/ \E i \in 1 .. Len(compQueue) : compQueue[i].ver = pending[k]
                        \/ pending[k] \in orphans
                        \/ outcome[pending[k]] = "unqueued"
      BY <1>o, <2>1, <2>3 DEF PendingHandled
    <3>1. k # loop.meta.key /\ pending[k] # 0 /\ Names(puts, pending[k], k)
      BY <2>3 DEF NameInv
    <3>2. pending[k] # loop.meta.ver
      BY <2>2, <3>1 DEF Names
    <3> QED BY <3>1, <3>2 DEF HandledInv, PendingHandled
  <2>5. \A i \in 1 .. Len(compQueue) :
          compQueue[i].key \in Keys /\ compQueue[i].key # loop.meta.key
    BY <1>m, <1>q, <2>1 DEF HandledInv
  <2> QED BY <2>1, <2>3, <2>4, <2>5 DEF HandledInv
<1>4. CASE LoopExit \/ LoopCache
  <2>1. /\ loop.pc \in {"idle", "cache"} /\ loop'.pc \in {"idle", "done"}
        /\ UNCHANGED <<pending, compQueue, orphans>>
    BY <1>0, <1>4 DEF LoopExit, LoopCache, LoopAt, Loops
  <2>2. PendingHandled'
    BY <1>o, <2>1 DEF HandledInv, PendingHandled
  <2> QED BY <2>1, <2>2 DEF HandledInv
<1> QED BY <1>1, <1>2, <1>3, <1>4 DEF LoopStep

\* Every step keeps each pending meta in somebody's hands.
LEMMA HandledStep ==
  ASSUME BackendInv, HandledInv, [Next]_vars
  PROVE  HandledInv'
<1>a. UNCHANGED compVars => HandledInv'
  <2>1. \A k \in Keys : pending[k] # 0 /\ outcome[pending[k]] = "unqueued" =>
          outcome'[pending[k]] = "unqueued"
    BY UnqueuedKept, PendingVers
  <2>2. UNCHANGED compVars => PendingHandled'
    BY <2>1 DEF compVars, HandledInv, PendingHandled
  <2> QED BY <2>2 DEF compVars, HandledInv
<1>1. ASSUME NEW c \in Clients, NEW kind \in Kinds, NEW k \in Keys, Call(c, kind, k)
      PROVE  HandledInv'
  BY <1>a, <1>1 DEF Call
<1>2. ASSUME NEW c \in Clients, ClientStep(c), ~Enqueue(c) PROVE HandledInv'
  <2>1. UNCHANGED compVars
    BY <1>2 DEF ClientStep, Route, Probe, PutStep, Assign, Upload, FallbackPut, Create,
         PutCache, OtherStep, Delete, FallbackDelete, Lookup, List, Uncache, Fill, FallbackRead
  <2> QED BY <1>a, <2>1
<1>3. CASE Background /\ ~LoopStep
  <2>1. UNCHANGED compVars
    BY <1>3 DEF Background, ProbeTime, WindowOver, LateCreate, Expire, CloseBegin, CloseReturn,
         CloseAgain, vars
  <2> QED BY <1>a, <2>1
<1> QED BY <1>1, <1>2, <1>3, NextCases, HandledEnqueue, HandledLoop

\* Each meta in compPending is in the queue, in the hands of the compensation loop, or was
\* counted as an orphan suspect, unless it met a full queue: the key check of
\* enqueueCompensation never leaves another one that nobody will retry or report.
THEOREM PendingInHand == Spec => []PendingHandled
<1> DEFINE IInv == BackendInv /\ HandledInv
<1>1. Init => IInv
  <2>1. Init => HandledInv
    BY DEF Init, HandledInv, PendingHandled
  <2> QED BY <2>1, ShapeInit, StoredInit, VisibleInit, AgainInit DEF BackendInv
<1>2. IInv /\ [Next]_vars => IInv'
  BY BackendStep, HandledStep
<1>3. IInv => PendingHandled
  BY DEF HandledInv
<1> HIDE DEF IInv
<1> QED BY <1>1, <1>2, <1>3, PTL DEF Spec

=============================================================================
