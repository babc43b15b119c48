-------------------------------- MODULE FMP4 ---------------------------------
(***************************************************************************)
(* What a fragment keeps of the timestamps of a GOP                        *)
(* (internal/recorder/fmp4_builder.go).  BuildFragment stores a duration   *)
(* per sample in units of the track's time scale; ParseFragment adds the   *)
(* durations up again, from the start time the index remembers.            *)
(*                                                                         *)
(* A GOP is the sequence of its samples' timestamps, in stream order.      *)
(***************************************************************************)
EXTENDS Integers, Sequences

CONSTANTS
  Second,       \* clock units of a second (nanoseconds in the code)
  Timescale,    \* fmp4Timescale, 90000
  DefaultDur,   \* the duration of a sample that has no usable successor, 3600
  DurLimit      \* durations are uint32: computed modulo this

ASSUME ScaleAssumption ==
  /\ Second \in Nat \ {0} /\ Timescale \in Nat \ {0} /\ DefaultDur \in Nat \ {0}
  /\ DurLimit \in Nat \ {0}

\* A span of time in units of the track, truncated.
ToScale(delta) == ((delta * Timescale) \div Second) % DurLimit

FromScale(units) == (units * Second) \div Timescale

\* Mutant: the duration is the distance to the previous sample.
DurationBackwards(ts, i) ==
  IF Len(ts) = 1 \/ i = 1 THEN DefaultDur ELSE ToScale(ts[i] - ts[i - 1])

\* computeSampleDurations: the distance to the next sample; the last sample gets
\* that of the one before; a step back or a lone sample gets the default.
Duration(ts, i) ==
  LET n == Len(ts)
      k == IF i = n THEN n - 1 ELSE i
      units == IF n = 1 \/ ts[k + 1] <= ts[k] THEN DefaultDur ELSE ToScale(ts[k + 1] - ts[k])
  IN  IF units = 0 THEN 1 ELSE units

\* The decode time BuildFragment gives sample i.
DecodeTime(ts, i) ==
  LET at[k \in 1 .. Len(ts)] == IF k = 1 THEN 0 ELSE at[k - 1] + Duration(ts, k - 1)
  IN  at[i]

\* parseActualFragment: the timestamp sample i has when it is read back.
ParsedTime(ts, i) == ts[1] + FromScale(DecodeTime(ts, i))

Increasing(ts) == \A i \in 2 .. Len(ts) : ts[i - 1] < ts[i]

=============================================================================
