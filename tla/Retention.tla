------------------------------ MODULE Retention ------------------------------
(***************************************************************************)
(* The retention cleaner (internal/recorder/retention.go) and the snapshot *)
(* manager (internal/index/snapshot.go) over the GOP index, for one        *)
(* camera.                                                                 *)
(*                                                                         *)
(* A GOP is its start, its end and the start of the GOP its init segment   *)
(* came with, which names that segment.  The cleaner computes its ranges   *)
(* in UTC.                                                                 *)
(***************************************************************************)
EXTENDS GOPIndex

CONSTANTS
  RetentionDays,  \* RetentionCleaner.retentionDays
  ScanDays,       \* how far before the cutoff the scan starts (30 days)
  MaxTime,        \* bound: length of a behaviour
  MaxGOP,         \* bound: length of a GOP
  DeleteResults,  \* what StorageBackend.Delete may return
  IndexResults,   \* what DeleteRange may return
  OldGOPs,        \* rows of gop_index from before there was gop_v2
  Crashes,        \* bound: how often the process may be stopped
  None            \* no snapshot

ASSUME DaysAssumption == RetentionDays \in Nat /\ ScanDays \in Nat \ {0}
ASSUME MaxTimeAssumption == MaxTime \in Nat /\ MaxGOP \in Nat /\ MaxGOP < RetentionDays * Day
ASSUME ResultsAssumption ==
  DeleteResults \subseteq BOOLEAN /\ IndexResults \subseteq BOOLEAN /\ Crashes \in Nat

GOPs == {g \in [start : 0 .. MaxTime, end : 1 .. MaxTime, init : 0 .. MaxTime] : g.start <= g.end}

ASSUME OldGOPsAssumption == OldGOPs \subseteq GOPs

VARIABLES
  now,      \* the clock
  last,     \* end of the newest GOP, where the next one starts
  init,     \* init segment in use; -1 before the first
  written,  \* every GOP ever indexed
  gopData,  \* GOPs whose object is in storage
  inits,    \* init segments in storage
  pc,       \* where the cleaner stands
  cutoff,   \* its cutoff
  day,      \* the instant d of the day it works on
  todo,     \* GOPs of that day still to be looked at
  up,       \* the process runs
  stops,    \* how often it was stopped
  snapshot, \* the copy of the database in storage, or None
  readable, \* the database file can be opened
  migrated, \* cmd/migrate has been run, or was not needed
  forgotten,\* history: GOPs a restored database did not have
  failed,   \* history: an index transaction of this cleanup has failed
  partial   \* history: objects went and their index entries were left, or came back

recordVars == <<last, init, written>>
cleanVars == <<pc, cutoff, day, todo, failed, partial>>
upVars == <<up, stops, snapshot, readable, migrated, forgotten>>
vars == <<now, recordVars, indexVars, gopData, inits, cleanVars, upVars>>

Init ==
  /\ now \in {t \in 0 .. MaxTime : \A g \in OldGOPs : g.end <= t} /\ last = now /\ init = -1
  /\ written = OldGOPs /\ gopData = OldGOPs /\ inits = {g.init : g \in OldGOPs}
  /\ index = {} /\ v1 = OldGOPs
  /\ pc = "idle" /\ cutoff = 0 /\ day = 0 /\ todo = {} /\ failed = FALSE /\ partial = FALSE
  /\ up = TRUE /\ stops = 0 /\ snapshot = None /\ readable = TRUE
  /\ migrated = (OldGOPs = {}) /\ forgotten = {}

-----------------------------------------------------------------------------
(* Recording *)

Tick ==
  /\ now < MaxTime /\ now' = now + 1
  /\ UNCHANGED <<recordVars, indexVars, gopData, inits, cleanVars, upVars>>

\* The writer stores and indexes the GOP that ends now; with changed, the
\* stream's parameters changed and the GOP brought a new init segment.
Record(changed) ==
  /\ up /\ last < now /\ now - last <= MaxGOP
  /\ changed \/ init # -1
  /\ LET seg == IF changed THEN last ELSE init
         g == [start |-> last, end |-> now, init |-> seg]
     IN  /\ init' = seg
         /\ inits' = IF changed THEN inits \cup {seg} ELSE inits
         /\ written' = written \cup {g}
         /\ WriteGOP(g)
         /\ gopData' = gopData \cup {g}
  /\ last' = now
  /\ UNCHANGED <<now, cleanVars, upVars>>

\* The camera was not recorded up to now.
Pause ==
  /\ last < now /\ last' = now
  /\ UNCHANGED <<now, init, written, indexVars, gopData, inits, cleanVars, upVars>>

-----------------------------------------------------------------------------
(* Cleaning *)

CleanBegin ==
  /\ up /\ pc = "idle"
  /\ pc' = "day"
  /\ cutoff' = now - RetentionDays * Day
  /\ day' = now - (RetentionDays + ScanDays) * Day
  /\ UNCHANGED <<now, recordVars, indexVars, gopData, inits, todo, failed, partial, upVars>>

CleanEnd ==
  /\ pc = "day" /\ day >= cutoff
  /\ pc' = "idle" /\ cutoff' = 0 /\ day' = 0 /\ failed' = FALSE
  /\ UNCHANGED <<now, recordVars, indexVars, gopData, inits, todo, partial, upVars>>

\* dayStart: midnight UTC of the date instant d has in the server's time zone.
DayStart(d) == Date(d) * Day

OfDay == QueryRange(DayStart(day), DayStart(day) + Day, 0)

\* A day without GOPs, or whose query failed, is skipped.
ScanDay(ok) ==
  /\ pc = "day" /\ day < cutoff
  /\ IF ~ok \/ OfDay = {} THEN day' = day + Day /\ UNCHANGED <<pc, todo>>
                          ELSE pc' = "delete" /\ todo' = OfDay /\ UNCHANGED day
  /\ failed' = (failed \/ ~ok)
  /\ UNCHANGED <<now, recordVars, indexVars, gopData, inits, cutoff, partial, upVars>>

\* Mutant: a GOP that has only begun before the cutoff goes too.
ExpiredByStart(g) == g.start <= cutoff

Expired(g) == g.end <= cutoff

\* One turn of the loop over the day's GOPs, oldest first: the object and, if
\* that succeeded, the init segment, whose result is ignored.
DeleteGOP(ok, initOk) ==
  /\ pc = "delete"
  /\ \E g \in todo :
       /\ \A h \in todo : g.start <= h.start
       /\ todo' = todo \ {g}
       /\ gopData' = IF Expired(g) /\ ok THEN gopData \ {g} ELSE gopData
       /\ inits' = IF Expired(g) /\ ok /\ initOk THEN inits \ {g.init} ELSE inits
  /\ UNCHANGED <<now, recordVars, indexVars, pc, cutoff, day, failed, partial, upVars>>

\* Mutant: the index is not cleaned.
DeleteIndexNever(ok) ==
  /\ pc = "delete" /\ todo = {}
  /\ day' = day + Day /\ pc' = "day"
  /\ UNCHANGED <<now, recordVars, indexVars, gopData, inits, cutoff, todo, failed, partial, upVars>>

\* Mutant: the index is cleaned up to the end of the day before.
DeleteIndexShort(ok) ==
  /\ pc = "delete" /\ todo = {}
  /\ IF ok THEN DeleteRange(DayStart(day), cutoff - Day) ELSE UNCHANGED indexVars
  /\ failed' = (failed \/ ~ok) /\ partial' = (partial \/ ~ok)
  /\ day' = day + Day /\ pc' = "day"
  /\ UNCHANGED <<now, recordVars, gopData, inits, cutoff, todo, upVars>>

\* deleteExpiredFromIndex: from the day's start to the cutoff.
DeleteIndex(ok) ==
  /\ pc = "delete" /\ todo = {}
  /\ IF ok THEN DeleteRange(DayStart(day), cutoff) ELSE UNCHANGED indexVars
  /\ failed' = (failed \/ ~ok) /\ partial' = (partial \/ ~ok)
  /\ day' = day + Day /\ pc' = "day"
  /\ UNCHANGED <<now, recordVars, gopData, inits, cutoff, todo, upVars>>

-----------------------------------------------------------------------------
(* Stopping, snapshots and migration *)

\* The process is killed, or stopped by the signal between two days.
StopProcess ==
  /\ up /\ stops < Crashes
  /\ up' = FALSE /\ stops' = stops + 1
  /\ pc' = "idle" /\ cutoff' = 0 /\ day' = 0 /\ todo' = {} /\ failed' = FALSE
  /\ partial' = (partial \/ pc = "delete")
  /\ UNCHANGED <<now, recordVars, indexVars, gopData, inits, snapshot, readable, migrated, forgotten>>

\* NewBoltIndex has to open the database: main ends when it cannot.
StartProcess ==
  /\ ~up /\ readable /\ up' = TRUE
  /\ UNCHANGED <<now, recordVars, indexVars, gopData, inits, cleanVars, stops,
                 snapshot, readable, migrated, forgotten>>

\* CreateSnapshot: the database in one read transaction.  (Each one replaces the
\* one before; which one is restored is open, so that one is enough.)
CreateSnapshot ==
  /\ up /\ snapshot = None
  /\ snapshot' = [index |-> index, v1 |-> v1, migrated |-> migrated,
                  written |-> written, forgotten |-> forgotten]
  /\ UNCHANGED <<now, recordVars, indexVars, gopData, inits, cleanVars, up, stops,
                 readable, migrated, forgotten>>

\* RestoreFromSnapshot, while the database is not open.  A download that fails or
\* is empty changes nothing.
RestoreFromSnapshot ==
  /\ ~up /\ snapshot # None
  /\ index' = snapshot.index /\ v1' = snapshot.v1 /\ migrated' = snapshot.migrated
  /\ forgotten' = snapshot.forgotten \cup (written \ snapshot.written)
  /\ partial' = TRUE /\ readable' = TRUE
  /\ UNCHANGED <<now, recordVars, gopData, inits, pc, cutoff, day, todo, failed, up, stops, snapshot>>

\* The error comes when the old database is already gone: what was written cannot be
\* opened or, when WriteFile failed after truncating the file, is empty, which bolt
\* will open as a new database.
RestoreFails(empty) ==
  /\ ~up /\ snapshot # None
  /\ index' = {} /\ v1' = {} /\ migrated' = TRUE
  /\ forgotten' = written /\ readable' = empty
  /\ UNCHANGED <<now, recordVars, gopData, inits, cleanVars, up, stops, snapshot>>

MigrateIndex ==
  /\ ~up /\ readable /\ ~migrated
  /\ Migrate /\ migrated' = TRUE
  /\ UNCHANGED <<now, recordVars, gopData, inits, cleanVars, up, stops, snapshot, readable, forgotten>>

-----------------------------------------------------------------------------
CleanStep ==
  \/ CleanEnd
  \/ \E ok \in IndexResults : ScanDay(ok) \/ DeleteIndex(ok)
  \/ \E ok, initOk \in DeleteResults : DeleteGOP(ok, initOk)

Next ==
  \/ Tick \/ Pause
  \/ \E changed \in BOOLEAN : Record(changed)
  \/ CleanBegin \/ CleanStep
  \/ StopProcess \/ StartProcess \/ CreateSnapshot \/ RestoreFromSnapshot \/ MigrateIndex
  \/ \E empty \in BOOLEAN : RestoreFails(empty)

Spec == Init /\ [][Next]_vars

-----------------------------------------------------------------------------
(* Properties *)

\* Every variable has its type.
TypeOK ==
  /\ now \in 0 .. MaxTime /\ last \in 0 .. now /\ init \in -1 .. MaxTime
  /\ written \subseteq GOPs /\ index \subseteq written /\ v1 \subseteq written
  /\ gopData \subseteq written /\ inits \subseteq 0 .. MaxTime
  /\ pc \in {"idle", "day", "delete"} /\ (~up => pc = "idle")
  /\ cutoff \in Int /\ day \in Int /\ todo \subseteq written
  /\ {failed, partial, up, readable, migrated} \subseteq BOOLEAN /\ (up => readable)
  /\ stops \in 0 .. Crashes /\ forgotten \subseteq written

Fresh(t) == t > now - RetentionDays * Day

\* Retention never takes a recording before its time: while a GOP is younger
\* than the retention period its data is stored, and it can be found unless it
\* had already begun before the cutoff, whatever fails or crashes; a database
\* that was restored, at the first attempt or after failed ones, has all that was
\* indexed when its snapshot was taken.  Its init segment is stored too, unless an
\* expired GOP shared it.
FreshKept ==
  \A g \in written :
    /\ Fresh(g.end) => g \in gopData
    /\ Fresh(g.end) /\ g.init \notin inits =>
         \E h \in written : h.init = g.init /\ ~Fresh(h.end)
    /\ Fresh(g.start) /\ g \notin forgotten /\ (migrated \/ g \notin OldGOPs) => g \in index

\* Unless a day was cut short, by the end of the process or a failed index
\* transaction, or an older database restored, the index names no GOP whose object
\* is gone: deletions of objects that fail, GOPs over the cutoff and recording
\* beside the cleaner do not leave one.
IndexNeverDangles == pc # "delete" /\ ~partial => index \subseteq gopData

\* A cleanup whose index transactions succeed makes up for the ones before it: of
\* the days it scans no GOP up to the cutoff is left in the index, whatever was
\* left by a crash or brought back by a restored database.
CleanupHeals ==
  [][CleanEnd /\ ~failed =>
       \A g \in index : g.start \notin DayStart(cutoff - ScanDays * Day)
                                       .. Min({cutoff, DayStart(cutoff)})]_vars

=============================================================================
