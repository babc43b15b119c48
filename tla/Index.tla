-------------------------------- MODULE Index --------------------------------
(***************************************************************************)
(* The GOP index by itself: GOPs of one stream, indexed in any order by    *)
(* the writer's workers, ranges deleted by the cleaner, the old bucket     *)
(* migrated while the server is down, and the questions the API asks.      *)
(***************************************************************************)
EXTENDS GOPIndex

CONSTANTS
  MaxTime,   \* bound: the time that is recorded
  MaxGOP,    \* bound: length of a GOP
  OldSets    \* what gop_index may hold from before there was gop_v2

ASSUME IndexBoundsAssumption == MaxTime \in Nat /\ MaxGOP \in Nat

VARIABLE migrated  \* cmd/migrate has been run, or was not needed

vars == <<indexVars, migrated>>

GOPs == {[start |-> s, end |-> s + n] : s \in 0 .. MaxTime - 1, n \in 1 .. MaxGOP}

\* GOPs of one stream do not overlap.
Apart(g, h) == g.end <= h.start \/ h.end <= g.start

ASSUME OldSetsAssumption ==
  OldSets \subseteq SUBSET GOPs /\ \A rows \in OldSets : \A g, h \in rows : g = h \/ Apart(g, h)

Init ==
  /\ index = {} /\ v1 \in OldSets
  /\ migrated = (v1 = {})

Record(g) ==
  /\ g.end <= MaxTime
  /\ \A h \in index \cup v1 : Apart(g, h)
  /\ WriteGOP(g) /\ UNCHANGED migrated

Clean(start, end) == DeleteRange(start, end) /\ UNCHANGED migrated

MigrateIndex == ~migrated /\ Migrate /\ migrated' = TRUE

Next ==
  \/ \E g \in GOPs : Record(g)
  \/ \E start \in 0 .. MaxTime : \E end \in start .. MaxTime : Clean(start, end)
  \/ MigrateIndex

Spec == Init /\ [][Next]_vars

-----------------------------------------------------------------------------
(* Properties *)

\* The two copies of the index agree once the old one was migrated, through date
\* buckets and flat keys: running the migration again would bring nothing back.
CopiesAgree == migrated => index = v1

\* A range, of a query or of a deletion, misses no GOP that starts in it, whatever
\* date the GOP has where the server stands and where the question was asked.
RangeComplete ==
  \A s \in 0 .. MaxTime, loc \in Locations : \A e \in s .. MaxTime :
    {g \in index : g.start \in s .. e} \subseteq QueryRange(s, e, loc)

\* The recording ranges of a date: gaps of at least Gap and no others separate
\* them, each begins and ends with a GOP, and every GOP of the date is in one.
RangesExact ==
  \A t \in 0 .. MaxTime, loc \in Locations :
    LET ranges == GetRecordingRanges(t, loc)
        gops == QueryRange(Midnight(t, loc), Midnight(t, loc) + Day, loc)
        Inside(g, r) == r.start <= g.start /\ g.end <= r.end
    IN  /\ \A i \in 2 .. Len(ranges) : ranges[i].start - ranges[i - 1].end >= Gap
        /\ \A g \in gops : \E r \in ToSet(ranges) : Inside(g, r)
        /\ \A r \in ToSet(ranges) :
             /\ \E g, h \in gops : g.start = r.start /\ h.end = r.end
             /\ \A g \in {h \in gops : Inside(h, r) /\ h.end < r.end} :
                  \E h \in gops : Inside(h, r) /\ h.start - g.end \in 0 .. Gap - 1

\* A client that asks for a stretch of time is told of every recording in it that
\* belongs to the date it starts on.
RangesFound ==
  \A s \in 0 .. MaxTime, loc \in Locations : \A e \in s + 1 .. MaxTime :
    \A g \in index :
      DateIn(g.start, loc) = DateIn(s, loc) /\ g.start < e /\ g.end > s =>
        \E r \in RangesAnswer(s, e, loc) : r.start <= g.start /\ g.end <= r.end

=============================================================================
