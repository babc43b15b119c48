------------------------------ MODULE GOPIndex -------------------------------
(***************************************************************************)
(* The GOP index of one camera (internal/index/bolt_index.go), the tool    *)
(* that migrates its older form (cmd/migrate) and the answer the HTTP API  *)
(* makes of it (internal/api/server.go).                                   *)
(*                                                                         *)
(* Time is counted in ticks of UTC, Day of them to a day.  The index keeps *)
(* every GOP twice: index is gop_v2, with a bucket for each date in the    *)
(* server's time zone, which queries read; v1 is gop_index, a flat bucket  *)
(* that is only written.  A transaction of BoltDB is one step.             *)
(***************************************************************************)
EXTENDS Integers, FiniteSets, SequencesExt

CONSTANTS
  Day,        \* ticks of a day
  Zone,       \* offset of the server's time zone
  Locations,  \* offsets of the time zones queries are asked in
  Gap         \* GOPs this far apart are different recordings (5 s)

ASSUME DayAssumption == Day \in Nat \ {0}
ASSUME ZoneAssumption == Zone \in 1 - Day .. Day - 1 /\ Locations \subseteq 1 - Day .. Day - 1
ASSUME GapAssumption == Gap \in Nat

VARIABLES
  index,  \* the rows of gop_v2
  v1      \* the rows of gop_index

indexVars == <<index, v1>>

\* The number of the date of instant t for a clock that is loc ahead of UTC.
DateIn(t, loc) == (t + loc) \div Day

\* The date bucket of getOrCreateDateBucket.
Date(t) == DateIn(t, Zone)

\* Mutant: the day after the range is not looked at.
DatesShort(start, end, loc) == {DateIn(k * Day, loc) : k \in start \div Day .. end \div Day}

\* The buckets a range is looked for in: every midnight of UTC from start's to the
\* one after end's, named in the time zone of start.
Dates(start, end, loc) == {DateIn(k * Day, loc) : k \in start \div Day .. end \div Day + 1}

QueryRange(start, end, loc) ==
  {g \in index : Date(g.start) \in Dates(start, end, loc) /\ g.start \in start .. end}

WriteGOP(g) == index' = index \cup {g} /\ v1' = v1 \cup {g}

\* Mutant: the old bucket is left alone.
DeleteRangeNew(start, end) ==
  /\ index' = index \ QueryRange(start, end, 0)
  /\ v1' = v1

\* DeleteRange, with a start in UTC.
DeleteRange(start, end) ==
  /\ index' = index \ QueryRange(start, end, 0)
  /\ v1' = {g \in v1 : g.start \notin start .. end}

\* cmd/migrate, while no server has the database open.
Migrate == index' = index \cup v1 /\ UNCHANGED v1

-----------------------------------------------------------------------------
(* Recording ranges *)

\* The rows in the order of their keys; no two GOPs of a camera have the same key.
ByStart(gops) ==
  [i \in 1 .. Cardinality(gops) |->
     CHOOSE g \in gops : Cardinality({h \in gops : h.start < g.start}) = i - 1]

\* Mutant: a gap of five seconds still joins.
JoinsWide(g, range) == g.start - range.end <= Gap

Joins(g, range) == g.start - range.end < Gap

\* The loop of GetRecordingRanges: a GOP extends the last range or begins a new one.
AddGOP(ranges, g) ==
  LET m == Len(ranges)
  IN  IF m > 0 /\ Joins(g, ranges[m])
        THEN [ranges EXCEPT ![m].end = g.end]
        ELSE Append(ranges, [start |-> g.start, end |-> g.end])

Merged(gops) ==
  LET merge[i \in 0 .. Len(gops)] == IF i = 0 THEN <<>> ELSE AddGOP(merge[i - 1], gops[i])
  IN  merge[Len(gops)]

Midnight(t, loc) == DateIn(t, loc) * Day - loc

\* GetRecordingRanges of the date of instant t.
GetRecordingRanges(t, loc) ==
  Merged(ByStart(QueryRange(Midnight(t, loc), Midnight(t, loc) + Day, loc)))

\* Mutant: only ranges that begin after the start are answered.
RangesAnswerInside(start, end, loc) ==
  {r \in ToSet(GetRecordingRanges(start, loc)) : r.start >= start /\ r.start < end}

\* handleRecordingRanges: what overlaps of the recordings of start's date.
RangesAnswer(start, end, loc) ==
  {r \in ToSet(GetRecordingRanges(start, loc)) : r.end > start /\ r.start < end}

=============================================================================
