--------------------------- MODULE RetentionProofs ---------------------------
(***************************************************************************)
(* What holds of the retention cleaner for any retention, any time zone    *)
(* and any recordings, whatever fails, stops or is restored.               *)
(***************************************************************************)
EXTENDS Retention, TLAPS

\* The retention period.
Period == RetentionDays * Day

\* The types, with the snapshot's and with the rows of gop_index.
SnapshotOK ==
  snapshot # None =>
    /\ snapshot.written \subseteq written
    /\ snapshot.index \subseteq snapshot.written /\ snapshot.v1 \subseteq snapshot.written
    /\ snapshot.forgotten \subseteq snapshot.written /\ snapshot.migrated \in BOOLEAN

ShapeInv == TypeOK /\ SnapshotOK

\* What a cleanup takes is old enough, however long ago it computed its cutoff.
CutoffInv == pc # "idle" => cutoff <= now - RetentionDays * Day

\* The GOPs that have to be in a database whose GOPs are all but lost, with the rows
\* old and new of its two buckets.
Complete(all, lost, new, old, done) ==
  \A g \in all : Fresh(g.start) /\ g \notin lost =>
    g \in old /\ (done \/ g \notin OldGOPs => g \in new)

\* An init segment is stored, or an expired GOP took it along.
InitKept(s) == s \in inits \/ \E h \in written : h.init = s /\ ~Fresh(h.end)

KeptInv ==
  /\ \A g \in written : Fresh(g.end) => g \in gopData
  /\ \A g \in written : InitKept(g.init)
  /\ init # -1 => InitKept(init)
  /\ Complete(written, forgotten, index, v1, migrated)
  /\ snapshot # None =>
       Complete(snapshot.written, snapshot.forgotten, snapshot.index, snapshot.v1, snapshot.migrated)

\* The cleanup of the day is about to remove g from the index.
Doomed(g) ==
  /\ pc = "delete" /\ g.end <= cutoff
  /\ g.start >= DayStart(day) /\ Date(g.start) >= Date(day)

\* Both buckets name objects that are there, or that the cleanup has just deleted.
NamedInv ==
  /\ ~partial => \A g \in index \cup v1 : g \in gopData \/ Doomed(g)
  /\ pc = "delete" =>
       \A g \in todo : g.start >= DayStart(day) /\ Date(g.start) >= Date(day)

\* The days a cleanup has been through, from the first instant of the first; the last
\* of its ranges contain the midnight that ends them.
Covered(t) ==
  LET first == cutoff - ScanDays * Day
  IN  t >= DayStart(first) /\ t <= cutoff /\ (t < DayStart(day) \/ (day # first /\ t = DayStart(day)))

\* Of the days it has been through a cleanup has left nothing.
HealedInv ==
  pc # "idle" =>
    /\ \E j \in 0 .. ScanDays : day = cutoff - j * Day
    /\ pc = "delete" => day < cutoff
    /\ ~failed => \A g \in index : ~Covered(g.start)

-----------------------------------------------------------------------------
(* Types *)

\* The retention period is a length of time.
LEMMA PeriodType == Period \in Nat /\ Period = RetentionDays * Day /\ ScanDays * Day \in Nat
                    /\ (RetentionDays + ScanDays) * Day = Period + ScanDays * Day
  BY DaysAssumption, DayAssumption DEF Period

\* The date of an instant is a number.
LEMMA DateType == \A t \in Int : Date(t) \in Int /\ DayStart(t) \in Int
  BY DayAssumption, ZoneAssumption DEF Date, DateIn, DayStart

\* The recorder starts with the right types.
LEMMA ShapeInit == Init => ShapeInv
<1> SUFFICES ASSUME Init PROVE ShapeInv
  OBVIOUS
<1>1. now \in 0 .. MaxTime /\ last \in 0 .. now /\ init \in -1 .. MaxTime /\ MaxTime \in Nat
  BY MaxTimeAssumption DEF Init
<1>2. OldGOPs \subseteq GOPs /\ inits \subseteq 0 .. MaxTime
  BY OldGOPsAssumption DEF Init, GOPs
<1>3. {failed, partial, up, readable, migrated} \subseteq BOOLEAN
  BY Zenon DEF Init
<1>4. stops \in 0 .. Crashes
  BY ResultsAssumption DEF Init
<1>5. pc \in {"idle", "day", "delete"} /\ (~up => pc = "idle") /\ (up => readable)
      /\ cutoff \in Int /\ day \in Int
  BY DEF Init
<1>6. /\ written \subseteq GOPs /\ index \subseteq written /\ v1 \subseteq written
      /\ gopData \subseteq written /\ todo \subseteq written /\ forgotten \subseteq written
      /\ SnapshotOK
  BY <1>2 DEF Init, SnapshotOK
<1> QED BY <1>1, <1>2, <1>3, <1>4, <1>5, <1>6 DEF ShapeInv, TypeOK

\* The GOP that ends now.
NewGOP(changed) == [start |-> last, end |-> now, init |-> IF changed THEN last ELSE init]

\* Recording, spelt out.
LEMMA RecordEffect ==
  ASSUME ShapeInv, NEW changed \in BOOLEAN, Record(changed)
  PROVE  LET g == NewGOP(changed)
         IN  /\ g \in GOPs /\ g.start = last /\ g.end = now
             /\ g.init = init' /\ init' \in 0 .. MaxTime
             /\ init' \in inits' \/ (init' = init /\ init # -1)
             /\ inits \subseteq inits' /\ inits' \subseteq inits \cup {init'}
             /\ written' = written \cup {g} /\ gopData' = gopData \cup {g}
             /\ index' = index \cup {g} /\ v1' = v1 \cup {g}
             /\ last < now /\ now - last <= MaxGOP
             /\ last' = now /\ UNCHANGED <<now, cleanVars, upVars>>
<1>0. now \in 0 .. MaxTime /\ last \in 0 .. now /\ init \in -1 .. MaxTime /\ MaxTime \in Nat
  BY MaxTimeAssumption DEF ShapeInv, TypeOK
<1> DEFINE seg == IF changed THEN last ELSE init
           g == [start |-> last, end |-> now, init |-> seg]
<1>1. /\ last < now /\ now - last <= MaxGOP /\ init' = seg /\ last' = now
      /\ changed \/ init # -1
      /\ inits' = IF changed THEN inits \cup {seg} ELSE inits
      /\ written' = written \cup {g} /\ gopData' = gopData \cup {g}
      /\ WriteGOP(g) /\ UNCHANGED <<now, cleanVars, upVars>>
  BY DEF Record
<1>2. seg \in 0 .. MaxTime /\ (changed => seg \in inits') /\ (~changed => seg = init)
  BY <1>0, <1>1
<1>3. inits \subseteq inits' /\ inits' \subseteq inits \cup {seg}
  BY <1>1
<1>4. g \in GOPs /\ g.start = last /\ g.end = now /\ g.init = seg
  BY <1>0, <1>1, <1>2 DEF GOPs
<1>5. index' = index \cup {g} /\ v1' = v1 \cup {g}
  BY <1>1 DEF WriteGOP
<1>6. g = NewGOP(changed)
  BY DEF NewGOP
<1> HIDE DEF g, seg
<1> QED BY <1>1, <1>2, <1>3, <1>4, <1>5, <1>6

\* The flags stay flags.
LEMMA FlagStep ==
  ASSUME ShapeInv, [Next]_vars
  PROVE  {failed', partial', up', readable', migrated'} \subseteq BOOLEAN
<1>0. failed \in BOOLEAN /\ partial \in BOOLEAN /\ up \in BOOLEAN /\ migrated \in BOOLEAN
      /\ readable \in BOOLEAN
  BY DEF ShapeInv, TypeOK
<1>r. IndexResults \subseteq BOOLEAN
  BY ResultsAssumption
<1>1. CASE RestoreFromSnapshot
  <2>1. migrated' \in BOOLEAN
    BY <1>1 DEF RestoreFromSnapshot, ShapeInv, SnapshotOK
  <2> QED BY <1>0, <1>1, <2>1 DEF RestoreFromSnapshot
<1>2. CASE MigrateIndex \/ StartProcess
  BY <1>0, <1>2 DEF MigrateIndex, StartProcess, cleanVars
<1>7. ASSUME NEW empty \in BOOLEAN, RestoreFails(empty)
      PROVE  {failed', partial', up', readable', migrated'} \subseteq BOOLEAN
  BY <1>0, <1>7 DEF RestoreFails, cleanVars
<1>3. CASE StopProcess \/ CreateSnapshot \/ CleanBegin
  BY <1>0, <1>3 DEF StopProcess, CreateSnapshot, CleanBegin, cleanVars, upVars
<1>4. ASSUME NEW ok \in IndexResults, ScanDay(ok) \/ DeleteIndex(ok)
      PROVE  {failed', partial', up', readable', migrated'} \subseteq BOOLEAN
  BY <1>0, <1>r, <1>4 DEF ScanDay, DeleteIndex, upVars
<1>5. CASE CleanEnd \/ \E ok, initOk \in DeleteResults : DeleteGOP(ok, initOk)
  BY <1>0, <1>5 DEF CleanEnd, DeleteGOP, upVars
<1>6. CASE Tick \/ Pause \/ (\E changed \in BOOLEAN : Record(changed)) \/ UNCHANGED vars
  BY <1>0, <1>6 DEF Tick, Pause, Record, cleanVars, upVars, vars
<1> QED BY <1>1, <1>2, <1>3, <1>4, <1>5, <1>6, <1>7 DEF Next, CleanStep

\* The rows and the data are of GOPs that were written.
RowsOK ==
  /\ written \subseteq GOPs /\ index \subseteq written /\ v1 \subseteq written
  /\ gopData \subseteq written /\ inits \subseteq 0 .. MaxTime
  /\ todo \subseteq written /\ forgotten \subseteq written

\* The clocks and counters.
ClocksOK ==
  /\ now \in 0 .. MaxTime /\ last \in 0 .. now /\ init \in -1 .. MaxTime
  /\ pc \in {"idle", "day", "delete"} /\ (~up => pc = "idle") /\ (up => readable)
  /\ cutoff \in Int /\ day \in Int /\ stops \in 0 .. Crashes

\* The rows stay those of written GOPs.
LEMMA RowsStep == ASSUME ShapeInv, [Next]_vars PROVE RowsOK' /\ SnapshotOK'
<1>0. RowsOK /\ SnapshotOK
  BY DEF ShapeInv, TypeOK, RowsOK
<1>a. /\ UNCHANGED <<written, snapshot>> => SnapshotOK'
      /\ UNCHANGED <<written, index, v1, gopData, inits, forgotten>> /\ todo' \subseteq todo => RowsOK'
  BY <1>0 DEF RowsOK, SnapshotOK
<1>1. ASSUME NEW changed \in BOOLEAN, Record(changed) PROVE RowsOK' /\ SnapshotOK'
  <2>1. /\ NewGOP(changed) \in GOPs /\ init' \in 0 .. MaxTime /\ inits' \subseteq inits \cup {init'}
        /\ written' = written \cup {NewGOP(changed)}
        /\ gopData' = gopData \cup {NewGOP(changed)}
        /\ index' = index \cup {NewGOP(changed)} /\ v1' = v1 \cup {NewGOP(changed)}
        /\ todo' = todo /\ forgotten' = forgotten /\ snapshot' = snapshot
    BY <1>1, RecordEffect DEF cleanVars, upVars
  <2> QED BY <1>0, <2>1 DEF RowsOK, SnapshotOK
<1>2. ASSUME NEW ok \in IndexResults, ScanDay(ok) PROVE RowsOK' /\ SnapshotOK'
  <2>1. OfDay \subseteq index
    BY DEF OfDay, QueryRange
  <2> QED BY <1>0, <1>2, <2>1 DEF ScanDay, RowsOK, SnapshotOK, recordVars, indexVars, upVars
<1>3. ASSUME NEW ok \in IndexResults, DeleteIndex(ok) PROVE RowsOK' /\ SnapshotOK'
  <2>1. index' \subseteq index /\ v1' \subseteq v1
    BY <1>3 DEF DeleteIndex, DeleteRange, indexVars
  <2> QED BY <1>0, <1>3, <2>1 DEF DeleteIndex, RowsOK, SnapshotOK, recordVars, upVars
<1>4. CASE \E ok, initOk \in DeleteResults : DeleteGOP(ok, initOk)
  <2>1. gopData' \subseteq gopData /\ inits' \subseteq inits /\ todo' \subseteq todo
    BY <1>4 DEF DeleteGOP
  <2> QED BY <1>0, <1>4, <2>1 DEF DeleteGOP, RowsOK, SnapshotOK, recordVars, indexVars, upVars
<1>5. CASE CreateSnapshot
  <2>1. RowsOK'
    BY <1>a, <1>5 DEF CreateSnapshot, recordVars, indexVars, cleanVars
  <2>2. /\ snapshot'.written = written /\ snapshot'.index = index /\ snapshot'.v1 = v1
        /\ snapshot'.migrated = migrated /\ snapshot'.forgotten = forgotten /\ written' = written
    BY <1>5 DEF CreateSnapshot, recordVars
  <2>3. migrated \in BOOLEAN
    BY DEF ShapeInv, TypeOK
  <2> QED BY <1>0, <2>1, <2>2, <2>3 DEF RowsOK, SnapshotOK
<1>6. CASE RestoreFromSnapshot
  BY <1>0, <1>6 DEF RestoreFromSnapshot, RowsOK, SnapshotOK, recordVars
<1>9. CASE \E empty \in BOOLEAN : RestoreFails(empty)
  BY <1>0, <1>9 DEF RestoreFails, RowsOK, SnapshotOK, recordVars, cleanVars
<1>7. CASE MigrateIndex
  BY <1>0, <1>7 DEF MigrateIndex, Migrate, RowsOK, SnapshotOK, recordVars, cleanVars
<1>8. CASE Tick \/ Pause \/ CleanBegin \/ CleanEnd \/ StopProcess \/ StartProcess \/ UNCHANGED vars
  BY <1>a, <1>8 DEF Tick, Pause, CleanBegin, CleanEnd, StopProcess, StartProcess, recordVars,
       indexVars, cleanVars, upVars, vars
<1> QED BY <1>1, <1>2, <1>3, <1>4, <1>5, <1>6, <1>7, <1>8, <1>9 DEF Next, CleanStep

\* The clock goes on by ticks, and a cutoff stays behind it.
LEMMA ClocksStep ==
  ASSUME ShapeInv, CutoffInv, [Next]_vars
  PROVE  ClocksOK' /\ CutoffInv' /\ now <= now'
<1>0. ClocksOK /\ MaxTime \in Nat /\ Crashes \in Nat
  BY MaxTimeAssumption, ResultsAssumption DEF ShapeInv, TypeOK, ClocksOK
<1>p. RetentionDays * Day \in Nat /\ (RetentionDays + ScanDays) * Day \in Nat
  BY PeriodType, DaysAssumption, DayAssumption
<1>1. CASE Tick
  BY <1>0, <1>p, <1>1 DEF Tick, ClocksOK, CutoffInv, recordVars, cleanVars, upVars
<1>2. ASSUME NEW changed \in BOOLEAN, Record(changed) PROVE ClocksOK' /\ CutoffInv' /\ now <= now'
  <2>1. /\ init' \in 0 .. MaxTime /\ last' = now
        /\ UNCHANGED <<now, pc, cutoff, day, up, readable, stops>>
    BY <1>2, RecordEffect DEF cleanVars, upVars
  <2> QED BY <1>0, <2>1 DEF ClocksOK, CutoffInv
<1>3. CASE CleanBegin
  BY <1>0, <1>p, <1>3 DEF CleanBegin, ClocksOK, CutoffInv, recordVars, upVars
<1>4. ASSUME NEW ok \in IndexResults, ScanDay(ok) PROVE ClocksOK' /\ CutoffInv' /\ now <= now'
  BY <1>0, <1>4, DayAssumption DEF ScanDay, ClocksOK, CutoffInv, recordVars, upVars
<1>5. ASSUME NEW ok \in IndexResults, DeleteIndex(ok) PROVE ClocksOK' /\ CutoffInv' /\ now <= now'
  BY <1>0, <1>5, DayAssumption DEF DeleteIndex, ClocksOK, CutoffInv, recordVars, upVars
<1>6. CASE StopProcess
  BY <1>0, <1>6 DEF StopProcess, ClocksOK, CutoffInv, recordVars
<1>7. CASE \/ CleanEnd \/ StartProcess \/ CreateSnapshot \/ Pause
  BY <1>0, <1>7 DEF CleanEnd, StartProcess, CreateSnapshot, Pause, ClocksOK, CutoffInv,
       recordVars, cleanVars, upVars
<1>8. CASE \/ RestoreFromSnapshot \/ MigrateIndex \/ UNCHANGED vars
           \/ \E empty \in BOOLEAN : RestoreFails(empty)
           \/ \E ok, initOk \in DeleteResults : DeleteGOP(ok, initOk)
  BY <1>0, <1>8 DEF RestoreFromSnapshot, RestoreFails, MigrateIndex, DeleteGOP, ClocksOK, CutoffInv,
       recordVars, cleanVars, upVars, vars
<1> QED BY <1>1, <1>2, <1>3, <1>4, <1>5, <1>6, <1>7, <1>8 DEF Next, CleanStep

\* Every step keeps the types and the cutoff.
LEMMA ShapeStep == ShapeInv /\ CutoffInv /\ [Next]_vars => ShapeInv' /\ CutoffInv'
<1> SUFFICES ASSUME ShapeInv, CutoffInv, [Next]_vars PROVE ShapeInv' /\ CutoffInv'
  OBVIOUS
<1>1. RowsOK' /\ SnapshotOK' /\ ClocksOK' /\ CutoffInv'
  BY RowsStep, ClocksStep
<1>2. {failed', partial', up', readable', migrated'} \subseteq BOOLEAN
  BY FlagStep
<1> QED BY <1>1, <1>2 DEF ShapeInv, TypeOK, RowsOK, ClocksOK

\* The cleaner, the snapshots and the database stay well formed: rows and data are of
\* GOPs that were written, and no cleanup runs in a process that is down.
THEOREM TypeCorrect == Spec => []TypeOK
<1>1. Init => ShapeInv /\ CutoffInv
  BY ShapeInit DEF Init, CutoffInv
<1>2. ShapeInv => TypeOK
  BY DEF ShapeInv
<1> QED BY <1>1, <1>2, ShapeStep, PTL DEF Spec

-----------------------------------------------------------------------------
(* Retention keeps what is fresh *)

\* Nothing gets fresh again.
LEMMA FreshShrinks ==
  ASSUME ShapeInv, CutoffInv, [Next]_vars
  PROVE  /\ \A t \in Int : Fresh(t)' => Fresh(t)
         /\ \A t \in Int : t <= cutoff /\ pc # "idle" => ~Fresh(t) /\ ~Fresh(t)'
<1>1. now <= now' /\ now \in Int /\ now' \in Int /\ cutoff \in Int
  BY ClocksStep DEF ShapeInv, TypeOK, ClocksOK
<1>2. RetentionDays * Day \in Nat
  BY PeriodType
<1> QED BY <1>1, <1>2 DEF Fresh, CutoffInv

\* The start, end and init segment of a GOP are instants.
LEMMA GOPType == \A g \in GOPs : g.start \in Int /\ g.end \in Int /\ g.init \in Int /\ g.init # -1
                                 /\ g.start <= g.end
  BY MaxTimeAssumption DEF GOPs

\* Every step keeps what is fresh.
LEMMA KeptStep == ShapeInv /\ CutoffInv /\ KeptInv /\ [Next]_vars => KeptInv'
<1> SUFFICES ASSUME ShapeInv, CutoffInv, KeptInv, [Next]_vars PROVE KeptInv'
  OBVIOUS
<1>0. RowsOK /\ SnapshotOK /\ \A g \in written : g \in GOPs /\ g.start \in Int /\ g.end \in Int
  BY GOPType DEF ShapeInv, TypeOK, RowsOK
<1>f. /\ \A g \in written : Fresh(g.start)' => Fresh(g.start)
      /\ \A g \in written : Fresh(g.end)' => Fresh(g.end)
  BY <1>0, FreshShrinks
<1>c. \A g \in written : pc # "idle" =>
        /\ g.start <= cutoff => ~Fresh(g.start)'
        /\ g.end <= cutoff => ~Fresh(g.end)'
  BY <1>0, FreshShrinks
<1>a. ASSUME UNCHANGED <<written, index, v1, migrated, forgotten>>
      PROVE  Complete(written, forgotten, index, v1, migrated)'
  BY <1>a, <1>f DEF KeptInv, Complete
<1>s. ASSUME UNCHANGED snapshot
      PROVE  snapshot' # None =>
               Complete(snapshot.written, snapshot.forgotten, snapshot.index, snapshot.v1, snapshot.migrated)'
  BY <1>s, <1>0, <1>f DEF KeptInv, Complete, SnapshotOK
<1>1. ASSUME NEW changed \in BOOLEAN, Record(changed) PROVE KeptInv'
  <2> DEFINE g == NewGOP(changed)
  <2>1. /\ g.init = init' /\ (init' \in inits' \/ (init' = init /\ init # -1))
        /\ inits \subseteq inits' /\ written' = written \cup {g} /\ gopData' = gopData \cup {g}
        /\ index' = index \cup {g} /\ v1' = v1 \cup {g}
        /\ UNCHANGED <<now, migrated, forgotten, snapshot>>
    BY <1>1, RecordEffect DEF upVars
  <2> HIDE DEF g
  <2>2. init' \in inits' \/ \E h \in written' : h.init = init' /\ ~Fresh(h.end)'
    <3>1. CASE init' = init /\ init # -1
      BY <1>f, <2>1, <3>1 DEF KeptInv, InitKept
    <3> QED BY <2>1, <3>1
  <2>3. \A h \in written' : h.init \in inits' \/ \E x \in written' : x.init = h.init /\ ~Fresh(x.end)'
    BY <1>f, <2>1, <2>2 DEF KeptInv, InitKept
  <2>4. \A h \in written' : Fresh(h.end)' => h \in gopData'
    BY <1>f, <2>1 DEF KeptInv
  <2>5. Complete(written, forgotten, index, v1, migrated)'
    BY <1>f, <2>1 DEF KeptInv, Complete
  <2> QED BY <1>s, <2>1, <2>2, <2>3, <2>4, <2>5 DEF KeptInv, InitKept
<1>2. CASE \E ok, initOk \in DeleteResults : DeleteGOP(ok, initOk)
  <2>1. PICK ok \in DeleteResults, initOk \in DeleteResults : DeleteGOP(ok, initOk)
    BY <1>2
  <2>2. PICK g \in todo : /\ gopData' = IF Expired(g) /\ ok THEN gopData \ {g} ELSE gopData
                          /\ inits' = IF Expired(g) /\ ok /\ initOk THEN inits \ {g.init} ELSE inits
    BY <2>1 DEF DeleteGOP
  <2>3. /\ UNCHANGED <<now, init, written, index, v1, migrated, forgotten, snapshot>>
        /\ pc = "delete" /\ g \in written
    BY <1>0, <2>1, <2>2 DEF DeleteGOP, RowsOK, recordVars, indexVars, upVars
  <2>4. Expired(g) => ~Fresh(g.end)'
    BY <1>c, <2>3 DEF Expired
  <2>5. \A h \in written : Fresh(h.end)' => h \in gopData'
    BY <1>f, <2>2, <2>4 DEF KeptInv
  <2>6. ASSUME NEW s, InitKept(s)
        PROVE  s \in inits' \/ \E h \in written : h.init = s /\ ~Fresh(h.end)'
    BY <1>f, <2>2, <2>3, <2>4, <2>6 DEF InitKept
  <2>7. \A h \in written : h.init \in inits' \/ \E x \in written : x.init = h.init /\ ~Fresh(x.end)'
    BY <2>6 DEF KeptInv
  <2>8. init # -1 => init \in inits' \/ \E x \in written : x.init = init /\ ~Fresh(x.end)'
    BY <2>6 DEF KeptInv
  <2> QED BY <1>a, <1>s, <2>3, <2>5, <2>7, <2>8 DEF KeptInv, InitKept
<1>b. ASSUME UNCHANGED <<init, written, gopData, inits>>
      PROVE  /\ \A h \in written' : Fresh(h.end)' => h \in gopData'
             /\ \A h \in written' : h.init \in inits' \/ \E x \in written' : x.init = h.init /\ ~Fresh(x.end)'
             /\ init' # -1 => init' \in inits' \/ \E x \in written' : x.init = init' /\ ~Fresh(x.end)'
  BY <1>b, <1>f DEF KeptInv, InitKept
<1>3. ASSUME NEW ok \in IndexResults, DeleteIndex(ok) PROVE KeptInv'
  <2>1. /\ UNCHANGED <<init, written, gopData, inits, migrated, forgotten, snapshot>>
        /\ pc = "delete"
        /\ \A g \in index \ index' : g.start <= cutoff
        /\ \A g \in v1 \ v1' : g.start <= cutoff
    <3>1. /\ UNCHANGED <<init, written, gopData, inits, migrated, forgotten, snapshot>>
          /\ pc = "delete" /\ (UNCHANGED indexVars \/ DeleteRange(DayStart(day), cutoff))
      BY <1>3 DEF DeleteIndex, recordVars, upVars
    <3>2. \A t : t \in DayStart(day) .. cutoff => t <= cutoff
      BY DateType DEF ShapeInv, TypeOK
    <3> QED BY <3>1, <3>2 DEF DeleteRange, QueryRange, indexVars
  <2>2. Complete(written, forgotten, index, v1, migrated)'
    BY <1>c, <1>f, <2>1 DEF KeptInv, Complete
  <2> QED BY <1>b, <1>s, <2>1, <2>2 DEF KeptInv, InitKept
<1>4. CASE RestoreFromSnapshot
  <2>1. /\ UNCHANGED <<init, written, gopData, inits, snapshot>> /\ snapshot # None
        /\ index' = snapshot.index /\ v1' = snapshot.v1 /\ migrated' = snapshot.migrated
        /\ forgotten' = snapshot.forgotten \cup (written \ snapshot.written)
    BY <1>4 DEF RestoreFromSnapshot, recordVars
  <2>2. Complete(written, forgotten, index, v1, migrated)'
    BY <1>f, <2>1 DEF KeptInv, Complete
  <2> QED BY <1>b, <1>s, <2>1, <2>2 DEF KeptInv, InitKept
<1>8. CASE \E empty \in BOOLEAN : RestoreFails(empty)
  <2>1. UNCHANGED <<init, written, gopData, inits, snapshot>> /\ forgotten' = written
    BY <1>8 DEF RestoreFails, recordVars
  <2>2. Complete(written, forgotten, index, v1, migrated)'
    BY <2>1 DEF Complete
  <2> QED BY <1>b, <1>s, <2>1, <2>2 DEF KeptInv, InitKept
<1>5. CASE MigrateIndex
  <2>1. /\ UNCHANGED <<init, written, gopData, inits, snapshot, v1, forgotten>>
        /\ index' = index \cup v1
    BY <1>5 DEF MigrateIndex, Migrate, recordVars
  <2>2. Complete(written, forgotten, index, v1, migrated)'
    BY <1>f, <2>1 DEF KeptInv, Complete
  <2> QED BY <1>b, <1>s, <2>1, <2>2 DEF KeptInv, InitKept
<1>6. CASE CreateSnapshot
  <2>1. /\ UNCHANGED <<init, written, gopData, inits, index, v1, migrated, forgotten>>
        /\ snapshot' = [index |-> index, v1 |-> v1, migrated |-> migrated,
                        written |-> written, forgotten |-> forgotten]
    BY <1>6 DEF CreateSnapshot, recordVars, indexVars
  <2>2. /\ snapshot'.written = written /\ snapshot'.index = index /\ snapshot'.v1 = v1
        /\ snapshot'.migrated = migrated /\ snapshot'.forgotten = forgotten
    BY <2>1
  <2>3. Complete(snapshot.written, snapshot.forgotten, snapshot.index, snapshot.v1, snapshot.migrated)'
    BY <1>f, <2>1, <2>2 DEF KeptInv, Complete
  <2> QED BY <1>a, <1>b, <2>1, <2>3 DEF KeptInv, InitKept
<1>7. CASE \/ Tick \/ Pause \/ CleanBegin \/ CleanEnd \/ StopProcess \/ StartProcess
           \/ UNCHANGED vars \/ \E ok \in IndexResults : ScanDay(ok)
  <2>1. UNCHANGED <<init, written, gopData, inits, index, v1, migrated, forgotten, snapshot>>
    BY <1>7 DEF Tick, Pause, CleanBegin, CleanEnd, StopProcess, StartProcess, ScanDay, recordVars,
         indexVars, upVars, vars
  <2> QED BY <1>a, <1>b, <1>s, <2>1 DEF KeptInv, InitKept
<1> QED BY <1>1, <1>2, <1>3, <1>4, <1>5, <1>6, <1>7, <1>8 DEF Next, CleanStep

\* Retention takes no recording before its time.  While a GOP is younger than the
\* retention period its object is stored, its init segment too unless an expired GOP
\* shared it, and the index finds it if it did not begin before the cutoff: whatever
\* the clock does during a cleanup, whichever deletions and transactions fail, and
\* with the process stopped, an older database restored, at the first attempt or after
\* failed ones, or the index migrated.
THEOREM FreshStays == Spec => []FreshKept
<1>1. Init => ShapeInv /\ CutoffInv /\ KeptInv
  <2>1. Init => KeptInv
    BY DEF Init, KeptInv, InitKept, Complete
  <2> QED BY <2>1, ShapeInit DEF Init, CutoffInv
<1>2. KeptInv => FreshKept
  BY DEF KeptInv, FreshKept, InitKept, Complete
<1> QED BY <1>1, <1>2, ShapeStep, KeptStep, PTL DEF Spec

-----------------------------------------------------------------------------
(* The index names nothing that is gone *)

\* The day an instant is in.
LEMMA DayOf ==
  ASSUME NEW t \in Int, NEW d \in Int
  PROVE  /\ t \div Day \in Int
         /\ d * Day <= t <=> d <= t \div Day
<1>1. /\ t \div Day \in Int
      /\ Day * (t \div Day) <= t /\ t < Day * (t \div Day) + Day
  BY DayAssumption
<1> DEFINE q == t \div Day
<1> HIDE DEF q
<1>2. q \in Int /\ Day * q <= t /\ t < Day * q + Day
  BY <1>1 DEF q
<1>3. ASSUME d <= q PROVE d * Day <= t
  <2>1. d * Day <= Day * q
    BY <1>2, <1>3, DayAssumption
  <2> QED BY <1>2, <2>1, DayAssumption
<1>4. ASSUME q < d PROVE t < d * Day
  <2>1. Day * (q + 1) <= d * Day /\ Day * (q + 1) = Day * q + Day
    BY <1>2, <1>4, DayAssumption
  <2> QED BY <1>2, <2>1, DayAssumption
<1> QED BY <1>2, <1>3, <1>4, DayAssumption DEF q

\* A range asked for in UTC that begins at midnight of day d is looked for in the buckets
\* from that of d on, up to the last one it has GOPs in.
LEMMA DatesFrom ==
  ASSUME NEW d \in Int, NEW e \in Int, NEW t \in d * Day .. e
  PROVE  Date(t) \in Dates(d * Day, e, 0) <=> d <= Date(t)
<1>0. t \in Int /\ d * Day \in Int /\ Day \in Nat \ {0} /\ Zone \in Int /\ Zone < Day
  BY DayAssumption, ZoneAssumption
<1>1. \A k \in Int : k * Day \in Int /\ (k * Day) \div Day = k
  <2> SUFFICES ASSUME NEW k \in Int PROVE k * Day \in Int /\ (k * Day) \div Day = k
    OBVIOUS
  <2>1. k * Day \in Int /\ (k + 1) * Day = k * Day + Day
    BY <1>0
  <2>2. k <= (k * Day) \div Day /\ ~(k + 1 <= (k * Day) \div Day) /\ (k * Day) \div Day \in Int
    BY <1>0, <2>1, DayOf
  <2> QED BY <2>1, <2>2
<1>2. Dates(d * Day, e, 0) = d .. e \div Day + 1
  <2>1. Dates(d * Day, e, 0) = {(k * Day + 0) \div Day : k \in d .. e \div Day + 1}
    BY <1>1 DEF Dates, DateIn
  <2>2. e \div Day \in Int
    BY DayOf
  <2>3. \A k \in d .. e \div Day + 1 : (k * Day + 0) \div Day = k
    BY <1>1, <2>2
  <2> QED BY <2>1, <2>3, Zenon
<1>3. Date(t) \in Int /\ Date(t) <= e \div Day + 1 /\ e \div Day \in Int
  <2>1. t + Zone \in Int /\ e \div Day \in Int /\ (t + Zone) \div Day \in Int
    BY <1>0, DayOf
  <2>2. ~((e \div Day + 1) * Day <= e)
    BY <2>1, DayOf
  <2>3. (e \div Day + 2) * Day = (e \div Day + 1) * Day + Day /\ (e \div Day + 1) * Day \in Int
    BY <1>0, <2>1
  <2>4. ~((e \div Day + 2) * Day <= t + Zone)
    BY <1>0, <2>2, <2>3
  <2>5. ~(e \div Day + 2 <= (t + Zone) \div Day)
    BY <2>1, <2>4, DayOf
  <2> QED BY <2>1, <2>5 DEF Date, DateIn
<1> QED BY <1>2, <1>3

\* What DeleteRange leaves of the buckets after the cleanup of a day.
LEMMA DayCleaned ==
  ASSUME ShapeInv, DeleteRange(DayStart(day), cutoff), NEW g \in GOPs,
         g.start >= DayStart(day), g.start <= cutoff
  PROVE  g \notin v1' /\ (Date(g.start) >= Date(day) => g \notin index')
<1>1. g.start \in Int /\ day \in Int /\ cutoff \in Int /\ Date(day) \in Int
      /\ DayStart(day) = Date(day) * Day /\ DayStart(day) \in Int /\ Date(g.start) \in Int
  BY GOPType, DateType DEF ShapeInv, TypeOK, DayStart
<1>2. g.start \in DayStart(day) .. cutoff
  BY <1>1
<1>3. Date(g.start) >= Date(day) => Date(g.start) \in Dates(DayStart(day), cutoff, 0)
  BY <1>1, <1>2, DatesFrom
<1> QED BY <1>2, <1>3 DEF DeleteRange, QueryRange

\* The GOPs of the day are in the day.
LEMMA OfDayStarts ==
  ASSUME ShapeInv, NEW g \in OfDay
  PROVE  g.start >= DayStart(day) /\ Date(g.start) >= Date(day)
<1>1. day \in Int /\ Date(day) \in Int /\ DayStart(day) = Date(day) * Day /\ DayStart(day) \in Int
      /\ DayStart(day) + Day \in Int
  BY DateType, DayAssumption DEF ShapeInv, TypeOK, DayStart
<1>2. /\ g.start \in DayStart(day) .. DayStart(day) + Day
      /\ Date(g.start) \in Dates(DayStart(day), DayStart(day) + Day, 0)
  BY DEF OfDay, QueryRange
<1>3. Date(g.start) \in Int
  BY <1>1, <1>2, DateType
<1>4. Date(day) <= Date(g.start)
  BY <1>1, <1>2, DatesFrom
<1> QED BY <1>1, <1>2, <1>3, <1>4

\* Every step keeps the buckets to the objects that are there or just went.
LEMMA NamedStep == ShapeInv /\ NamedInv /\ [Next]_vars => NamedInv'
<1> SUFFICES ASSUME ShapeInv, NamedInv, [Next]_vars PROVE NamedInv'
  OBVIOUS
<1>0. /\ RowsOK /\ cutoff \in Int
      /\ \A g \in written : g \in GOPs /\ g.start \in Int /\ g.end \in Int /\ g.start <= g.end
  BY GOPType DEF ShapeInv, TypeOK, RowsOK
<1>a. ASSUME UNCHANGED <<pc, cutoff, day>> PROVE \A g : Doomed(g) => Doomed(g)'
  BY <1>a DEF Doomed
<1>b. ASSUME UNCHANGED <<index, v1, gopData, partial>>, pc # "delete", pc' # "delete" PROVE NamedInv'
  BY <1>b DEF NamedInv, Doomed
<1>1. ASSUME NEW changed \in BOOLEAN, Record(changed) PROVE NamedInv'
  <2>1. /\ gopData' = gopData \cup {NewGOP(changed)}
        /\ index' = index \cup {NewGOP(changed)} /\ v1' = v1 \cup {NewGOP(changed)}
        /\ UNCHANGED <<pc, cutoff, day, todo, partial>>
    BY <1>1, RecordEffect DEF cleanVars
  <2> QED BY <1>a, <2>1 DEF NamedInv
<1>2. ASSUME NEW ok \in IndexResults, ScanDay(ok) PROVE NamedInv'
  <2>1. UNCHANGED <<index, v1, gopData, partial>> /\ pc = "day"
    BY <1>2 DEF ScanDay, indexVars
  <2>2. CASE pc' = "day"
    BY <1>b, <2>1, <2>2
  <2>3. CASE pc' # "day"
    <3>1. pc' = "delete" /\ todo' = OfDay /\ day' = day
      BY <1>2, <2>1, <2>3 DEF ScanDay
    <3>2. \A g \in todo' : g.start >= DayStart(day') /\ Date(g.start) >= Date(day')
      BY <3>1, OfDayStarts
    <3> QED BY <2>1, <3>2 DEF NamedInv, Doomed
  <2> QED BY <2>2, <2>3
<1>3. CASE \E ok, initOk \in DeleteResults : DeleteGOP(ok, initOk)
  <2>1. PICK g \in todo : /\ todo' = todo \ {g}
                          /\ gopData' = gopData \/ (Expired(g) /\ gopData' = gopData \ {g})
    BY <1>3 DEF DeleteGOP
  <2>2. UNCHANGED <<pc, cutoff, day, index, v1, partial>> /\ pc = "delete"
    BY <1>3 DEF DeleteGOP, indexVars
  <2>3. Expired(g) => Doomed(g)
    BY <2>1, <2>2 DEF NamedInv, Doomed, Expired
  <2> QED BY <1>a, <2>1, <2>2, <2>3 DEF NamedInv
<1>4. ASSUME NEW ok \in IndexResults, DeleteIndex(ok) PROVE NamedInv'
  <2>1. /\ pc' = "day" /\ gopData' = gopData /\ partial' = (partial \/ ~ok)
        /\ IF ok THEN DeleteRange(DayStart(day), cutoff) ELSE UNCHANGED indexVars
    BY <1>4 DEF DeleteIndex
  <2>2. ASSUME ~partial', NEW g \in index' \cup v1' PROVE g \in gopData'
    <3>1. ok /\ ~partial
      BY <2>1, <2>2, ResultsAssumption
    <3>2. DeleteRange(DayStart(day), cutoff)
      BY <2>1, <3>1
    <3>3. g \in index \cup v1 /\ g \in written
      BY <1>0, <2>2, <3>2 DEF DeleteRange, RowsOK
    <3>4. CASE Doomed(g)
      <4>1. g.start >= DayStart(day) /\ g.start <= cutoff /\ Date(g.start) >= Date(day)
        BY <1>0, <3>3, <3>4 DEF Doomed
      <4>2. g \notin v1' /\ g \notin index'
        BY <1>0, <3>2, <3>3, <4>1, DayCleaned
      <4> QED BY <2>2, <4>2
    <3> QED BY <2>1, <3>1, <3>3, <3>4 DEF NamedInv
  <2> QED BY <2>1, <2>2 DEF NamedInv
<1>5. CASE StopProcess
  <2>1. /\ pc' = "idle" /\ partial' = (partial \/ pc = "delete")
        /\ UNCHANGED <<index, v1, gopData>>
    BY <1>5 DEF StopProcess, indexVars
  <2> QED BY <2>1 DEF NamedInv, Doomed
<1>6. CASE RestoreFromSnapshot
  <2>1. partial' /\ pc' = "idle"
    BY <1>6 DEF RestoreFromSnapshot, ShapeInv, TypeOK
  <2> QED BY <2>1 DEF NamedInv
<1>10. CASE \E empty \in BOOLEAN : RestoreFails(empty)
  <2>1. index' = {} /\ v1' = {} /\ pc' = "idle"
    BY <1>10 DEF RestoreFails, cleanVars, ShapeInv, TypeOK
  <2> QED BY <2>1 DEF NamedInv
<1>7. CASE MigrateIndex
  <2>1. /\ index' = index \cup v1 /\ v1' = v1 /\ pc = "idle"
        /\ UNCHANGED <<gopData, pc, cutoff, day, todo, partial>>
    BY <1>7 DEF MigrateIndex, Migrate, cleanVars, ShapeInv, TypeOK
  <2> QED BY <1>a, <2>1 DEF NamedInv
<1>8. CASE CleanBegin \/ CleanEnd
  BY <1>b, <1>8 DEF CleanBegin, CleanEnd, indexVars
<1>9. CASE Tick \/ Pause \/ StartProcess \/ CreateSnapshot \/ UNCHANGED vars
  <2>1. UNCHANGED <<index, v1, gopData, pc, cutoff, day, todo, partial>>
    BY <1>9 DEF Tick, Pause, StartProcess, CreateSnapshot, indexVars, cleanVars, vars
  <2> QED BY <1>a, <2>1 DEF NamedInv
<1> QED BY <1>1, <1>2, <1>3, <1>4, <1>5, <1>6, <1>7, <1>8, <1>9, <1>10 DEF Next, CleanStep

\* Unless a day was cut short by the end of the process or a failed transaction, or an
\* older database was restored, the index names no GOP whose object is gone, in any
\* time zone: what the loop deletes of a day is in the range the index is cleaned of.
THEOREM IndexIsBacked == Spec => []IndexNeverDangles
<1>1. Init => ShapeInv /\ CutoffInv /\ NamedInv
  <2>1. Init => NamedInv
    BY DEF Init, NamedInv
  <2> QED BY <2>1, ShapeInit DEF Init, CutoffInv
<1>2. NamedInv => IndexNeverDangles
  BY DEF NamedInv, Doomed, IndexNeverDangles
<1> QED BY <1>1, <1>2, ShapeStep, NamedStep, PTL DEF Spec

-----------------------------------------------------------------------------
(* A cleanup makes up for what the ones before it left *)

\* The cleaner goes from one day to the next.
LEMMA NextDay ==
  ASSUME NEW d \in Int
  PROVE  DayStart(d + Day) = DayStart(d) + Day /\ DayStart(d) \in Int
<1> DEFINE q == Date(d)
<1>1. q \in Int /\ Date(d + Day) \in Int /\ Day \in Nat \ {0} /\ Zone \in Int
  BY DateType, DayAssumption, ZoneAssumption
<1>2. q * Day <= d + Zone /\ ~((q + 1) * Day <= d + Zone)
  <2>1. q = (d + Zone) \div Day /\ d + Zone \in Int
    BY <1>1 DEF Date, DateIn
  <2> HIDE DEF q
  <2> QED BY <1>1, <2>1, DayOf
<1> HIDE DEF q
<1>3. (q + 1) * Day = q * Day + Day /\ (q + 2) * Day = q * Day + Day + Day /\ q * Day \in Int
  BY <1>1
<1>4. (q + 1) * Day <= d + Day + Zone /\ ~((q + 2) * Day <= d + Day + Zone)
  BY <1>1, <1>2, <1>3
<1>5. q + 1 <= (d + Day + Zone) \div Day /\ ~(q + 2 <= (d + Day + Zone) \div Day)
  BY <1>1, <1>4, DayOf
<1>6. Date(d + Day) = q + 1
  BY <1>1, <1>5 DEF Date, DateIn
<1> QED BY <1>1, <1>3, <1>6 DEF DayStart, q

\* East of Greenwich no GOP that begins after midnight of UTC has an earlier date.
LEMMA DateAfter ==
  ASSUME Zone >= 0, NEW d \in Int, NEW t \in Int, t >= DayStart(d)
  PROVE  Date(t) >= Date(d)
<1>1. Date(d) \in Int /\ DayStart(d) = Date(d) * Day /\ DayStart(d) \in Int /\ t + Zone \in Int
  BY DateType, ZoneAssumption DEF DayStart
<1>2. Date(d) * Day <= t + Zone
  BY <1>1, ZoneAssumption
<1>3. Date(d) <= (t + Zone) \div Day /\ (t + Zone) \div Day \in Int
  BY <1>1, <1>2, DayOf
<1> QED BY <1>1, <1>3 DEF Date, DateIn

\* The days of a scan are whole days before the cutoff.
LEMMA DayStep ==
  ASSUME NEW c \in Int, NEW j \in 0 .. ScanDays, c - j * Day < c
  PROVE  j - 1 \in 0 .. ScanDays /\ c - j * Day + Day = c - (j - 1) * Day
         /\ c - j * Day \in Int
<1>1. Day \in Nat \ {0} /\ j \in Nat /\ ScanDays \in Nat
  BY DayAssumption, DaysAssumption
<1>2. j # 0
  BY <1>1
<1> QED BY <1>1, <1>2

\* Every step keeps the days a cleanup has been through clean.
LEMMA HealedStep ==
  ASSUME Zone >= 0, ShapeInv, CutoffInv, HealedInv, [Next]_vars
  PROVE  HealedInv'
<1>0. /\ RowsOK /\ cutoff \in Int /\ day \in Int /\ now \in Int /\ last \in Int
      /\ \A g \in written : g \in GOPs /\ g.start \in Int
      /\ Day \in Nat \ {0} /\ ScanDays \in Nat \ {0} /\ ScanDays * Day \in Nat
      /\ RetentionDays * Day \in Nat
  BY GOPType, DayAssumption, DaysAssumption, PeriodType DEF ShapeInv, TypeOK, RowsOK
<1>a. ASSUME UNCHANGED <<pc, cutoff, day, failed>>, index' \subseteq index PROVE HealedInv'
  BY <1>a DEF HealedInv, Covered
<1>n. ASSUME day < cutoff, pc # "idle"
      PROVE  \E j \in 0 .. ScanDays : day + Day = cutoff - j * Day
  <2>1. PICK j \in 0 .. ScanDays : day = cutoff - j * Day
    BY <1>n DEF HealedInv
  <2>2. j - 1 \in 0 .. ScanDays /\ day + Day = cutoff - (j - 1) * Day
    BY <1>0, <1>n, <2>1, DayStep
  <2> QED BY <2>2
<1>d. DayStart(day + Day) = DayStart(day) + Day /\ DayStart(day) \in Int
  BY <1>0, NextDay
<1>f. DayStart(cutoff - ScanDays * Day) \in Int
  BY <1>0, NextDay
<1>g. ASSUME NEW t \in Int, day' = day + Day, cutoff' = cutoff, Covered(t)'
      PROVE  /\ t <= cutoff /\ t <= DayStart(day) + Day
             /\ t < DayStart(day) => Covered(t)
  BY <1>d, <1>f, <1>g, <1>0 DEF Covered
<1>1. ASSUME NEW changed \in BOOLEAN, Record(changed) PROVE HealedInv'
  <2>1. /\ NewGOP(changed).start = last /\ now - last <= MaxGOP
        /\ index' = index \cup {NewGOP(changed)}
        /\ UNCHANGED <<pc, cutoff, day, failed>>
    BY <1>1, RecordEffect DEF cleanVars
  <2>2. pc # "idle" => last > cutoff
    BY <1>0, <2>1, MaxTimeAssumption DEF CutoffInv
  <2>3. pc # "idle" => ~Covered(last)
    BY <1>0, <2>2 DEF Covered
  <2> QED BY <2>1, <2>3 DEF HealedInv, Covered
<1>2. CASE CleanBegin
  <2>1. /\ cutoff' = now - RetentionDays * Day /\ day' = now - (RetentionDays + ScanDays) * Day
        /\ index' = index /\ pc' = "day"
    BY <1>2 DEF CleanBegin, indexVars
  <2>2. day' = cutoff' - ScanDays * Day /\ day' \in Int
    BY <1>0, <2>1, PeriodType
  <2>3. \A t \in Int : ~Covered(t)'
    <3>1. DayStart(day') \in Int
      BY <2>2, NextDay
    <3> QED BY <2>2, <3>1 DEF Covered
  <2> QED BY <1>0, <2>1, <2>2, <2>3 DEF HealedInv, RowsOK
<1>3. ASSUME NEW ok \in IndexResults, ScanDay(ok) PROVE HealedInv'
  <2>1. /\ pc = "day" /\ day < cutoff /\ cutoff' = cutoff /\ index' = index
        /\ failed' = (failed \/ ~ok)
    BY <1>3 DEF ScanDay, indexVars
  <2>2. CASE ~ok \/ OfDay = {}
    <3>1. day' = day + Day /\ pc' = "day"
      BY <1>3, <2>1, <2>2 DEF ScanDay
    <3>2. ASSUME ~failed', NEW g \in index PROVE ~Covered(g.start)'
      <4>1. ok /\ ~failed /\ OfDay = {} /\ g.start \in Int
        BY <1>0, <2>1, <2>2, <3>2 DEF RowsOK
      <4>2. ~Covered(g.start)
        BY <2>1, <4>1 DEF HealedInv
      <4> SUFFICES ASSUME Covered(g.start)' PROVE FALSE
        OBVIOUS
      <4>3. g.start >= DayStart(day) /\ g.start <= DayStart(day) + Day
        BY <1>d, <1>g, <2>1, <3>1, <4>1, <4>2
      <4>4. Date(g.start) >= Date(day)
        BY <1>0, <4>1, <4>3, DateAfter
      <4>5. Date(day) \in Int /\ DayStart(day) = Date(day) * Day /\ Date(g.start) \in Int
        BY <1>0, <4>1, DateType DEF DayStart
      <4>6. g.start \in DayStart(day) .. DayStart(day) + Day
        BY <1>0, <1>d, <4>1, <4>3
      <4>7. Date(g.start) \in Dates(DayStart(day), DayStart(day) + Day, 0)
        BY <1>0, <1>d, <4>4, <4>5, <4>6, DatesFrom
      <4> QED BY <4>1, <4>6, <4>7 DEF OfDay, QueryRange
    <3> QED BY <1>n, <2>1, <3>1, <3>2 DEF HealedInv
  <2>3. CASE ok /\ OfDay # {}
    <3>1. day' = day
      BY <1>3, <2>3 DEF ScanDay
    <3> QED BY <2>1, <2>3, <3>1 DEF HealedInv, Covered
  <2> QED BY <2>2, <2>3, ResultsAssumption
<1>4. ASSUME NEW ok \in IndexResults, DeleteIndex(ok) PROVE HealedInv'
  <2>1. /\ pc = "delete" /\ pc' = "day" /\ day' = day + Day /\ cutoff' = cutoff
        /\ failed' = (failed \/ ~ok)
        /\ IF ok THEN DeleteRange(DayStart(day), cutoff) ELSE UNCHANGED indexVars
    BY <1>4 DEF DeleteIndex
  <2>2. ASSUME ~failed', NEW g \in index' PROVE ~Covered(g.start)'
    <3>1. ok /\ ~failed
      BY <2>1, <2>2, ResultsAssumption
    <3>2. DeleteRange(DayStart(day), cutoff)
      BY <2>1, <3>1
    <3>3. g \in index /\ g \in GOPs /\ g.start \in Int
      BY <1>0, <2>2, <3>2 DEF DeleteRange, RowsOK
    <3>4. ~Covered(g.start)
      BY <2>1, <3>1, <3>3 DEF HealedInv
    <3> SUFFICES ASSUME Covered(g.start)' PROVE FALSE
      OBVIOUS
    <3>5. g.start >= DayStart(day) /\ g.start <= cutoff
      BY <1>d, <1>g, <2>1, <3>3, <3>4
    <3>6. Date(g.start) >= Date(day)
      BY <1>0, <3>3, <3>5, DateAfter
    <3> QED BY <2>2, <3>2, <3>3, <3>5, <3>6, DayCleaned
  <2>3. \E j \in 0 .. ScanDays : day' = cutoff' - j * Day
    BY <1>n, <2>1 DEF HealedInv
  <2> QED BY <2>1, <2>2, <2>3 DEF HealedInv
<1>5. CASE \E ok, initOk \in DeleteResults : DeleteGOP(ok, initOk)
  BY <1>a, <1>5 DEF DeleteGOP, indexVars
<1>6. CASE CleanEnd \/ StopProcess
  BY <1>6 DEF CleanEnd, StopProcess, HealedInv
<1>7. CASE RestoreFromSnapshot \/ MigrateIndex \/ \E empty \in BOOLEAN : RestoreFails(empty)
  BY <1>7 DEF RestoreFromSnapshot, RestoreFails, MigrateIndex, HealedInv, cleanVars, ShapeInv, TypeOK
<1>8. CASE Tick \/ Pause \/ StartProcess \/ CreateSnapshot \/ UNCHANGED vars
  BY <1>a, <1>8 DEF Tick, Pause, StartProcess, CreateSnapshot, indexVars, cleanVars, vars
<1> QED BY <1>1, <1>2, <1>3, <1>4, <1>5, <1>6, <1>7, <1>8 DEF Next, CleanStep

\* What Min says of two instants.
LEMMA MinOfTwo == \A a, b \in Int : Min({a, b}) \in Int /\ Min({a, b}) <= a /\ Min({a, b}) <= b
<1> SUFFICES ASSUME NEW a \in Int, NEW b \in Int
             PROVE  Min({a, b}) \in Int /\ Min({a, b}) <= a /\ Min({a, b}) <= b
  OBVIOUS
<1>1. \E x \in {a, b} : \A y \in {a, b} : x <= y
  <2>1. a <= b \/ b <= a
    OBVIOUS
  <2> QED BY <2>1
<1> QED BY <1>1 DEF Min

\* On a server east of Greenwich (in Asia, say) a cleanup whose index transactions
\* succeed leaves, of the days it scans, no GOP up to the cutoff in the index, whatever
\* crashes, failures and restored databases left there before, and whatever is
\* recorded meanwhile.
THEOREM CleanupEndsClean == Zone >= 0 => (Spec => CleanupHeals)
<1> SUFFICES ASSUME Zone >= 0 PROVE Spec => CleanupHeals
  OBVIOUS
<1> DEFINE IInv == ShapeInv /\ CutoffInv /\ HealedInv
<1>1. Init => IInv
  BY ShapeInit DEF Init, CutoffInv, HealedInv
<1>2. IInv /\ [Next]_vars => IInv'
  BY ShapeStep, HealedStep
<1>3. ASSUME IInv, CleanEnd, ~failed, NEW g \in index
      PROVE  g.start \notin DayStart(cutoff - ScanDays * Day) .. Min({cutoff, DayStart(cutoff)})
  <2>0. /\ cutoff \in Int /\ day \in Int /\ g.start \in Int /\ ~Covered(g.start)
        /\ pc = "day" /\ day >= cutoff
    BY <1>3, GOPType DEF ShapeInv, TypeOK, HealedInv, CleanEnd
  <2>1. DayStart(cutoff) \in Int /\ DayStart(cutoff - ScanDays * Day) \in Int
    BY <2>0, DateType, PeriodType
  <2>2. PICK j \in 0 .. ScanDays : day = cutoff - j * Day
    BY <1>3, <2>0 DEF HealedInv
  <2>3. j * Day \in Nat /\ ScanDays * Day \in Nat /\ ScanDays * Day # 0
    BY DayAssumption, DaysAssumption
  <2>4. day = cutoff /\ day # cutoff - ScanDays * Day
    BY <2>0, <2>2, <2>3
  <2>5. /\ Min({cutoff, DayStart(cutoff)}) \in Int /\ Min({cutoff, DayStart(cutoff)}) <= cutoff
        /\ Min({cutoff, DayStart(cutoff)}) <= DayStart(cutoff)
    BY <2>0, <2>1, MinOfTwo
  <2> QED BY <2>0, <2>1, <2>4, <2>5 DEF Covered
<1>4. IInv => (CleanEnd /\ ~failed =>
                 \A g \in index : g.start \notin DayStart(cutoff - ScanDays * Day)
                                                 .. Min({cutoff, DayStart(cutoff)}))
  BY <1>3
<1> HIDE DEF IInv
<1> QED BY <1>1, <1>2, <1>4, PTL DEF Spec, CleanupHeals

=============================================================================
