--------------------------- MODULE PlaybackProofs ---------------------------
(***************************************************************************)
(* Proofs about Playback and about the timestamps of FMP4, for every       *)
(* recording, every number of requests and every size of the cache.        *)
(*                                                                         *)
(* The library's induction theorems take an operator, which the provers    *)
(* cannot instantiate; that a set of numbers has a least member can be     *)
(* stated with sets alone, and induction over the samples of a GOP is done *)
(* with it.                                                                *)
(***************************************************************************)
EXTENDS Playback, WellFoundedInduction, TLAPS

-----------------------------------------------------------------------------
(* Least members, and induction *)

\* The numbers are well-founded (the library's theorem, with its relation
\* written out).
LEMMA LessWellFounded == IsWellFoundedOn({p \in Nat \X Nat : p[1] < p[2]}, Nat)
  BY NatLessThanWellFounded DEF OpToRel

\* Every set of numbers that is not empty has a least member.
LEMMA LeastMember ==
  ASSUME NEW S, S \subseteq Nat, S # {}
  PROVE  \E x \in S : \A y \in S : x <= y
<1> DEFINE R == {p \in Nat \X Nat : p[1] < p[2]}
<1>1. IsWellFoundedOn(R, Nat)
  BY LessWellFounded
<1>2. PICK x \in S : \A y \in S : ~(<<y, x>> \in R)
  <2> HIDE DEF R
  <2> QED
    BY <1>1, WFMin
<1>3. \A y \in S : ~(y < x)
  BY <1>2
<1> QED
  BY <1>3

\* Induction over 1 .. n, for a set of numbers.
LEMMA Induction ==
  ASSUME NEW n \in Nat, NEW S, n >= 1 => 1 \in S,
         \A k \in 1 .. n - 1 : k \in S => k + 1 \in S
  PROVE  \A k \in 1 .. n : k \in S
<1> DEFINE T == {k \in 1 .. n : k \notin S}
<1> SUFFICES ASSUME T # {} PROVE FALSE
  OBVIOUS
<1>0. T \subseteq Nat
  OBVIOUS
<1>1. PICK x \in T : \A y \in T : x <= y
  <2> HIDE DEF T
  <2> QED
    BY <1>0, LeastMember
<1>2. x # 1
  BY <1>1
<1>3. x - 1 \in 1 .. n - 1
  BY <1>1, <1>2
<1>4. x - 1 \in S
  BY <1>1, <1>3
<1>5. (x - 1) + 1 = x
  BY <1>1
<1> QED
  BY <1>1, <1>3, <1>4, <1>5

\* First returns the least of a set of numbers, or None.
LEMMA FirstIsLeast ==
  ASSUME NEW S, S \subseteq Nat
  PROVE  /\ First(S) = None <=> S = {}
         /\ S # {} => First(S) \in S /\ \A y \in S : First(S) <= y
<1>1. CASE S = {}
  BY <1>1 DEF First
<1>2. CASE S # {}
  <2>1. \E x \in S : \A y \in S : x =< y
    BY <1>2, LeastMember
  <2>2. PICK x : x = Min(S)
    OBVIOUS
  <2>3. x \in S /\ \A y \in S : x =< y
    BY <2>1, <2>2 DEF Min
  <2>4. x # None
    BY <2>3, NoneAssumption
  <2> QED
    BY <1>2, <2>2, <2>3, <2>4 DEF First
<1> QED
  BY <1>1, <1>2

-----------------------------------------------------------------------------
(* The timestamps of a fragment *)

\* f gives the samples of ts up to number n their decode times.
Decodes(f, ts, n) == f = [k \in 1 .. n |-> IF k = 1 THEN 0 ELSE f[k - 1] + Duration(ts, k - 1)]

\* The recursive definition of DecodeTime has a solution.
LEMMA DecodesExists ==
  ASSUME NEW ts, NEW n \in Nat
  PROVE  \E f : Decodes(f, ts, n)
<1> DEFINE Solved == {m \in Nat : \E f : Decodes(f, ts, m)}
<1>1. 0 \in Solved
  <2>1. Decodes([k \in 1 .. 0 |-> 0], ts, 0)
    BY DEF Decodes
  <2> QED
    BY <2>1
<1>2. 1 \in Solved
  <2>1. Decodes([k \in 1 .. 1 |-> 0], ts, 1)
    BY DEF Decodes
  <2> QED
    BY <2>1
<1>3. ASSUME NEW m \in Nat, m \in Solved
      PROVE  m + 1 \in Solved
  <2>1. PICK f : Decodes(f, ts, m)
    BY <1>3
  <2> DEFINE g == [k \in 1 .. m + 1 |-> IF k = 1 THEN 0 ELSE f[k - 1] + Duration(ts, k - 1)]
  <2>2. \A k \in 1 .. m : g[k] = f[k]
    BY <2>1 DEF Decodes
  <2>3. \A k \in 1 .. m + 1 : k # 1 => k - 1 \in 1 .. m
    OBVIOUS
  <2>4. g = [k \in 1 .. m + 1 |-> IF k = 1 THEN 0 ELSE g[k - 1] + Duration(ts, k - 1)]
    BY <2>2, <2>3
  <2>5. Decodes(g, ts, m + 1)
    BY <2>4 DEF Decodes
  <2> QED
    BY <2>5
<1> HIDE DEF Solved
<1>4. \A k \in 1 .. n : k \in Solved
  BY <1>2, <1>3, Induction
<1>5. n \in Solved
  BY <1>1, <1>4
<1> QED
  BY <1>5 DEF Solved

\* What DecodeTime computes, a step at a time.
LEMMA DecodeTimeStep ==
  ASSUME NEW ts \in Seq(Int), ts # <<>>
  PROVE  /\ DecodeTime(ts, 1) = 0
         /\ \A k \in 1 .. Len(ts) - 1 : DecodeTime(ts, k + 1) = DecodeTime(ts, k) + Duration(ts, k)
<1>1. PICK f : f = CHOOSE g : Decodes(g, ts, Len(ts))
  OBVIOUS
<1>2. Decodes(f, ts, Len(ts))
  <2>1. Len(ts) \in Nat
    OBVIOUS
  <2>2. \E g : Decodes(g, ts, Len(ts))
    BY <2>1, DecodesExists
  <2> QED
    BY <1>1, <2>2
<1>3. \A i : DecodeTime(ts, i) = f[i]
  BY <1>1 DEF DecodeTime, Decodes
<1>4. Len(ts) \in Nat \ {0}
  OBVIOUS
<1>5. f[1] = 0
  BY <1>2, <1>4 DEF Decodes
<1>6. ASSUME NEW k \in 1 .. Len(ts) - 1
      PROVE  f[k + 1] = f[k] + Duration(ts, k)
  <2>1. k + 1 \in 1 .. Len(ts) /\ k + 1 # 1 /\ (k + 1) - 1 = k
    BY <1>4
  <2>2. f[k + 1] = f[(k + 1) - 1] + Duration(ts, (k + 1) - 1)
    BY <1>2, <2>1 DEF Decodes
  <2> QED
    BY <2>1, <2>2
<1> QED
  BY <1>3, <1>5, <1>6

\* The samples of a GOP as a camera sends them: each at least one unit of the
\* track, and less than DurLimit units, after the one before.
Regular(ts) ==
  \A i \in 1 .. Len(ts) - 1 :
    (ts[i + 1] - ts[i]) * Timescale \in Second .. Second * DurLimit - 1

\* The duration of such a sample is its distance in units, rounded down.
LEMMA RegularDuration ==
  ASSUME NEW ts \in Seq(Int), Regular(ts), NEW k \in 1 .. Len(ts) - 1
  PROVE  /\ Duration(ts, k) \in Nat \ {0}
         /\ Duration(ts, k) * Second <= (ts[k + 1] - ts[k]) * Timescale
         /\ (ts[k + 1] - ts[k]) * Timescale < Duration(ts, k) * Second + Second
         /\ ts[k] < ts[k + 1]
<1>0. ts[k] \in Int /\ ts[k + 1] \in Int /\ Len(ts) \in Nat
  OBVIOUS
<1>1. PICK d \in Int : d = ts[k + 1] - ts[k]
  BY <1>0
<1>2. PICK p \in Int : p = d * Timescale
  BY ScaleAssumption
<1>3. p >= Second /\ p < Second * DurLimit
  BY <1>1, <1>2, ScaleAssumption DEF Regular
<1>4. PICK q \in Int : q = p \div Second
  BY ScaleAssumption
<1>5. q * Second <= p /\ p < q * Second + Second
  BY <1>4, ScaleAssumption
<1>6. q >= 1 /\ q < DurLimit
  BY <1>3, <1>5, ScaleAssumption
<1>7. q % DurLimit = q
  BY <1>6, ScaleAssumption
<1>8. d > 0
  BY <1>2, <1>3, ScaleAssumption
<1>9. ts[k] < ts[k + 1] /\ ~(ts[k + 1] <= ts[k])
  <2> HIDE DEF Regular
  <2> QED
    BY <1>0, <1>1, <1>8
<1>10. Len(ts) # 1 /\ k # Len(ts)
  <2>1. PICK n \in Nat : n = Len(ts)
    BY <1>0
  <2>2. k \in 1 .. n - 1
    BY <2>1
  <2> QED
    BY <2>1, <2>2
<1>11. Duration(ts, k) = q
  BY <1>1, <1>2, <1>4, <1>6, <1>7, <1>9, <1>10 DEF Duration, ToScale
<1>12. (ts[k + 1] - ts[k]) * Timescale = p
  BY <1>1, <1>2
<1> QED
  BY <1>5, <1>6, <1>9, <1>11, <1>12

\* The decode time of sample k is behind its timestamp, by less than one unit
\* for every sample before it.
LEMMA RegularDecode ==
  ASSUME NEW ts \in Seq(Int), ts # <<>>, Regular(ts)
  PROVE  \A k \in 1 .. Len(ts) :
           /\ DecodeTime(ts, k) \in Nat
           /\ DecodeTime(ts, k) * Second <= (ts[k] - ts[1]) * Timescale
           /\ (ts[k] - ts[1]) * Timescale <= DecodeTime(ts, k) * Second + (k - 1) * Second
<1> DEFINE Good == {k \in 1 .. Len(ts) :
                      /\ DecodeTime(ts, k) \in Nat
                      /\ DecodeTime(ts, k) * Second <= (ts[k] - ts[1]) * Timescale
                      /\ (ts[k] - ts[1]) * Timescale <= DecodeTime(ts, k) * Second + (k - 1) * Second}
<1>1. Len(ts) \in Nat \ {0} /\ \A i \in 1 .. Len(ts) : ts[i] \in Int
  OBVIOUS
<1>2. 1 \in Good
  <2>1. DecodeTime(ts, 1) = 0 /\ ts[1] \in Int
    BY <1>1, DecodeTimeStep
  <2> QED
    BY <1>1, <2>1, ScaleAssumption
<1>3. ASSUME NEW k \in 1 .. Len(ts) - 1, k \in Good
      PROVE  k + 1 \in Good
  <2>0. k \in Nat /\ k + 1 \in 1 .. Len(ts) /\ ts[1] \in Int /\ ts[k] \in Int /\ ts[k + 1] \in Int
    BY <1>1
  <2>1. PICK u \in Nat : u = DecodeTime(ts, k)
    BY <1>3
  <2>2. PICK d \in Nat : d = Duration(ts, k)
    BY RegularDuration
  <2>3. DecodeTime(ts, k + 1) = u + d
    BY <2>1, <2>2, DecodeTimeStep
  <2>4. PICK a \in Int : a = (ts[k] - ts[1]) * Timescale
    BY <2>0, ScaleAssumption
  <2>5. PICK b \in Int : b = (ts[k + 1] - ts[k]) * Timescale
    BY <2>0, ScaleAssumption
  <2>6. (ts[k + 1] - ts[1]) * Timescale = a + b
    <3>1. PICK x \in Int, y \in Int, z \in Int : x = ts[1] /\ y = ts[k] /\ z = ts[k + 1]
      BY <2>0
    <3>2. (z - x) * Timescale = (y - x) * Timescale + (z - y) * Timescale
      BY ScaleAssumption
    <3>3. a = (y - x) * Timescale /\ b = (z - y) * Timescale
      BY <2>4, <2>5, <3>1
    <3>4. (ts[k + 1] - ts[1]) * Timescale = (z - x) * Timescale
      BY <3>1
    <3> QED
      BY <3>2, <3>3, <3>4
  <2>7. u * Second <= a /\ a <= u * Second + (k - 1) * Second
    BY <1>3, <2>1, <2>4
  <2>8. d * Second <= b /\ b < d * Second + Second
    BY <2>2, <2>5, RegularDuration
  <2>9. (u + d) * Second = u * Second + d * Second /\ ((k + 1) - 1) * Second = (k - 1) * Second + Second
    BY <2>0, <2>1, <2>2, ScaleAssumption
  <2>10. (u + d) * Second <= a + b /\ a + b <= (u + d) * Second + ((k + 1) - 1) * Second
    <3>1. PICK us \in Int : us = u * Second
      BY ScaleAssumption
    <3>2. PICK ds \in Int : ds = d * Second
      BY ScaleAssumption
    <3>3. PICK ks \in Int : ks = (k - 1) * Second
      BY <2>0, ScaleAssumption
    <3>4. PICK s \in Int : s = Second
      BY ScaleAssumption
    <3>5. us <= a /\ a <= us + ks /\ ds <= b /\ b < ds + s
      BY <2>7, <2>8, <3>1, <3>2, <3>3, <3>4
    <3>6. us + ds <= a + b /\ a + b <= us + ds + (ks + s)
      BY <3>5
    <3> QED
      BY <2>9, <3>1, <3>2, <3>3, <3>4, <3>6
  <2>11. PICK v \in Nat : v = u + d
    OBVIOUS
  <2>12. /\ DecodeTime(ts, k + 1) = v
         /\ v * Second <= (ts[k + 1] - ts[1]) * Timescale
         /\ (ts[k + 1] - ts[1]) * Timescale <= v * Second + ((k + 1) - 1) * Second
    BY <2>3, <2>6, <2>10, <2>11
  <2> QED
    BY <2>0, <2>11, <2>12
<1> HIDE DEF Good
<1>4. \A k \in 1 .. Len(ts) : k \in Good
  BY <1>1, <1>2, <1>3, Induction
<1> QED
  BY <1>4 DEF Good

\* A span of units in clock units, rounded down.
LEMMA FromScaleBounds ==
  ASSUME NEW u \in Nat
  PROVE  /\ FromScale(u) \in Nat
         /\ FromScale(u) * Timescale <= u * Second
         /\ u * Second < FromScale(u) * Timescale + Timescale
<1>1. PICK p \in Nat : p = u * Second
  BY ScaleAssumption
<1>2. PICK q \in Int : q = p \div Timescale
  BY ScaleAssumption
<1>3. q * Timescale <= p /\ p < q * Timescale + Timescale
  BY <1>2, ScaleAssumption
<1>4. q >= 0
  BY <1>3, ScaleAssumption
<1> QED
  BY <1>1, <1>2, <1>3, <1>4 DEF FromScale

\* More units are not less time.
LEMMA FromScaleMonotone ==
  ASSUME NEW u \in Nat, NEW v \in Nat, u <= v
  PROVE  FromScale(u) <= FromScale(v)
<1>1. PICK a \in Nat : a = FromScale(u)
  BY FromScaleBounds
<1>2. PICK b \in Nat : b = FromScale(v)
  BY FromScaleBounds
<1>3. a * Timescale <= u * Second /\ v * Second < b * Timescale + Timescale
  BY <1>1, <1>2, FromScaleBounds
<1>4. u * Second <= v * Second
  BY ScaleAssumption
<1>5. a * Timescale < (b + 1) * Timescale
  <2>1. /\ u * Second \in Int /\ v * Second \in Int /\ a * Timescale \in Int
        /\ (b + 1) * Timescale = b * Timescale + Timescale /\ b * Timescale \in Int /\ Timescale \in Int
    BY ScaleAssumption
  <2> QED
    BY <1>3, <1>4, <2>1
<1>6. a < b + 1
  BY <1>5, ScaleAssumption
<1> QED
  BY <1>1, <1>2, <1>6

\* The timestamps a regular GOP has when it is read back: in order, none later
\* than recorded, and none earlier by more than the units lost on the way.
LEMMA RegularTimes ==
  ASSUME NEW ts \in Seq(Int), ts # <<>>, Regular(ts)
  PROVE  \A k \in 1 .. Len(ts) :
           /\ ParsedTime(ts, k) \in Int /\ ts[1] <= ParsedTime(ts, k)
           /\ ts[k] - ParsedTime(ts, k) \in 0 .. FromScale(k - 1) + 1
<1> SUFFICES ASSUME NEW k \in 1 .. Len(ts)
             PROVE  /\ ParsedTime(ts, k) \in Int /\ ts[1] <= ParsedTime(ts, k)
                    /\ ts[k] - ParsedTime(ts, k) \in 0 .. FromScale(k - 1) + 1
  OBVIOUS
<1>1. ts[1] \in Int /\ ts[k] \in Int /\ k - 1 \in Nat
  OBVIOUS
<1>2. PICK d \in Int : d = ts[k] - ts[1]
  BY <1>1
<1>3. PICK u \in Nat : u = DecodeTime(ts, k)
  BY RegularDecode
<1>4. u * Second <= d * Timescale /\ d * Timescale <= u * Second + (k - 1) * Second
  BY <1>2, <1>3, RegularDecode
<1>5. PICK f \in Nat : f = FromScale(u)
  BY FromScaleBounds
<1>6. f * Timescale <= u * Second /\ u * Second < f * Timescale + Timescale
  BY <1>5, FromScaleBounds
<1>7. PICK g \in Nat : g = FromScale(k - 1)
  BY <1>1, FromScaleBounds
<1>8. (k - 1) * Second < g * Timescale + Timescale
  BY <1>1, <1>7, FromScaleBounds
<1>9. f * Timescale <= d * Timescale /\ d * Timescale < (f + g + 2) * Timescale
  <2>1. PICK us \in Int, dt \in Int, ks \in Int, ft \in Int, gt \in Int, t \in Int :
          /\ us = u * Second /\ dt = d * Timescale /\ ks = (k - 1) * Second
          /\ ft = f * Timescale /\ gt = g * Timescale /\ t = Timescale
    BY <1>1, ScaleAssumption
  <2>2. us <= dt /\ dt <= us + ks /\ ft <= us /\ us < ft + t /\ ks < gt + t
    BY <1>4, <1>6, <1>8, <2>1
  <2>3. ft <= dt /\ dt < ft + gt + 2 * t
    BY <2>2
  <2>4. (f + g + 2) * Timescale = ft + gt + 2 * t
    BY <2>1, ScaleAssumption
  <2> QED
    BY <2>1, <2>3, <2>4
<1>10. f <= d /\ d < f + g + 2
  <2>1. ASSUME NEW x \in Int, NEW y \in Int, x * Timescale <= y * Timescale
        PROVE  x <= y
    BY <2>1, ScaleAssumption
  <2>2. ASSUME NEW x \in Int, NEW y \in Int, x * Timescale < y * Timescale
        PROVE  x < y
    BY <2>2, ScaleAssumption
  <2> QED
    BY <1>9, <2>1, <2>2
<1>11. ParsedTime(ts, k) = ts[1] + f
  BY <1>3, <1>5 DEF ParsedTime
<1>12. PICK a \in Int, b \in Int : a = ts[1] /\ b = ts[k]
  BY <1>1
<1>13. /\ a + f \in Int /\ a <= a + f
       /\ b - (a + f) \in 0 .. g + 1
  <2>1. d = b - a
    BY <1>2, <1>12
  <2> QED
    BY <1>10, <2>1
<1> QED
  BY <1>7, <1>11, <1>12, <1>13

\* They do not go back.
LEMMA RegularTimesOrdered ==
  ASSUME NEW ts \in Seq(Int), ts # <<>>, Regular(ts)
  PROVE  \A k \in 1 .. Len(ts) : \A i \in 1 .. k : ParsedTime(ts, i) <= ParsedTime(ts, k)
<1> DEFINE Good == {k \in 1 .. Len(ts) :
                      \A i \in 1 .. k : ParsedTime(ts, i) <= ParsedTime(ts, k)}
<1>1. Len(ts) \in Nat \ {0}
  OBVIOUS
<1>2. \A k \in 1 .. Len(ts) : ParsedTime(ts, k) \in Int
  BY RegularTimes
<1>3. 1 \in Good
  BY <1>1, <1>2
<1>4. ASSUME NEW k \in 1 .. Len(ts) - 1, k \in Good
      PROVE  k + 1 \in Good
  <2>1. k \in 1 .. Len(ts) /\ k + 1 \in 1 .. Len(ts)
    BY <1>1
  <2>2. PICK u \in Nat : u = DecodeTime(ts, k)
    BY <2>1, RegularDecode
  <2>3. PICK v \in Nat : v = DecodeTime(ts, k + 1)
    BY <2>1, RegularDecode
  <2>4. u <= v
    <3>1. PICK d \in Nat : d = Duration(ts, k)
      BY RegularDuration
    <3>2. v = u + d
      BY <2>2, <2>3, <3>1, DecodeTimeStep
    <3> QED
      BY <3>2
  <2>5. FromScale(u) <= FromScale(v) /\ FromScale(u) \in Nat /\ FromScale(v) \in Nat
    BY <2>4, FromScaleMonotone, FromScaleBounds
  <2>6. ParsedTime(ts, k) <= ParsedTime(ts, k + 1)
    <3>1. ts[1] \in Int
      BY <1>1
    <3> QED
      BY <2>2, <2>3, <2>5, <3>1 DEF ParsedTime
  <2>7. ASSUME NEW i \in 1 .. k + 1
        PROVE  ParsedTime(ts, i) <= ParsedTime(ts, k + 1)
    <3>1. CASE i = k + 1
      BY <1>2, <2>1, <3>1
    <3>2. CASE i \in 1 .. k
      <4>1. ParsedTime(ts, i) <= ParsedTime(ts, k)
        BY <1>4, <3>2
      <4>2. i \in 1 .. Len(ts)
        BY <2>1, <3>2
      <4>3. PICK x \in Int, y \in Int, z \in Int :
              x = ParsedTime(ts, i) /\ y = ParsedTime(ts, k) /\ z = ParsedTime(ts, k + 1)
        BY <1>2, <2>1, <4>2
      <4> QED
        BY <2>6, <4>1, <4>3
    <3> QED
      BY <2>1, <3>1, <3>2
  <2> QED
    BY <2>1, <2>7
<1> HIDE DEF Good
<1>5. \A k \in 1 .. Len(ts) : k \in Good
  BY <1>1, <1>3, <1>4, Induction
<1> QED
  BY <1>5 DEF Good

-----------------------------------------------------------------------------
(* Types *)

\* A duration is a number, whatever the timestamps are.
LEMMA DurationType ==
  ASSUME NEW ts \in Seq(Int), NEW k \in 1 .. Len(ts) - 1
  PROVE  Duration(ts, k) \in Nat
<1>1. ASSUME NEW d \in Int
      PROVE  ToScale(d) \in Nat
  <2>1. PICK p \in Int : p = d * Timescale
    BY ScaleAssumption
  <2>2. PICK q \in Int : q = p \div Second
    BY ScaleAssumption
  <2>3. q % DurLimit \in Nat
    BY ScaleAssumption
  <2> QED
    BY <2>1, <2>2, <2>3 DEF ToScale
<1>2. PICK n \in Nat : n = Len(ts)
  OBVIOUS
<1>3. k \in 1 .. n - 1 /\ k # Len(ts) /\ ts[k] \in Int /\ ts[k + 1] \in Int
  BY <1>2
<1>4. ToScale(ts[k + 1] - ts[k]) \in Nat
  <2>1. PICK d \in Int : d = ts[k + 1] - ts[k]
    BY <1>3
  <2> QED
    BY <1>1, <2>1
<1> QED
  BY <1>3, <1>4, ScaleAssumption DEF Duration

\* So is the timestamp of every sample that is read back.
LEMMA ParsedType ==
  ASSUME NEW ts \in Seq(Int), ts # <<>>
  PROVE  \A k \in 1 .. Len(ts) : ParsedTime(ts, k) \in Int
<1> DEFINE Good == {k \in 1 .. Len(ts) : DecodeTime(ts, k) \in Nat}
<1>1. Len(ts) \in Nat \ {0}
  OBVIOUS
<1>2. 1 \in Good
  BY <1>1, DecodeTimeStep
<1>3. ASSUME NEW k \in 1 .. Len(ts) - 1, k \in Good
      PROVE  k + 1 \in Good
  <2>1. k + 1 \in 1 .. Len(ts)
    BY <1>1
  <2>2. DecodeTime(ts, k + 1) = DecodeTime(ts, k) + Duration(ts, k)
    BY DecodeTimeStep
  <2> QED
    BY <1>3, <2>1, <2>2, DurationType
<1> HIDE DEF Good
<1>4. \A k \in 1 .. Len(ts) : k \in Good
  BY <1>1, <1>2, <1>3, Induction
<1>5. ASSUME NEW k \in 1 .. Len(ts)
      PROVE  ParsedTime(ts, k) \in Int
  <2>1. PICK u \in Nat : u = DecodeTime(ts, k)
    BY <1>4 DEF Good
  <2>2. FromScale(u) \in Nat
    BY FromScaleBounds
  <2>3. ts[1] \in Int
    BY <1>1
  <2> QED
    BY <2>1, <2>2, <2>3 DEF ParsedTime
<1> QED
  BY <1>5

\* What a recording is made of.
LEMMA RecordingTypes ==
  ASSUME recording \in Recordings
  PROVE  /\ GOPs \subseteq Nat \ {0}
         /\ \A g \in GOPs : /\ recording[g].ts \in Seq(Int) /\ recording[g].ts # <<>>
                            /\ recording[g].codec \in STRING
                            /\ StartTime(g) \in Int /\ EndTime(g) \in Int
                            /\ DOMAIN recording[g].ts = 1 .. Len(recording[g].ts)
                            /\ \A k \in DOMAIN recording[g].ts : Time(g, k) \in Int
<1> DEFINE R == [ts : Seq(Int) \ {<<>>}, codec : STRING]
<1>1. recording \in Seq(R)
  BY RecordingsAssumption
<1>2. \A x \in R : x.ts \in Seq(Int) /\ x.ts # <<>> /\ x.codec \in STRING
  OBVIOUS
<1> HIDE DEF R
<1>3. GOPs \subseteq Nat \ {0} /\ \A g \in GOPs : recording[g] \in R
  BY <1>1 DEF GOPs
<1>4. ASSUME NEW g \in GOPs
      PROVE  /\ recording[g].ts \in Seq(Int) /\ recording[g].ts # <<>>
             /\ recording[g].codec \in STRING
             /\ StartTime(g) \in Int /\ EndTime(g) \in Int
             /\ DOMAIN recording[g].ts = 1 .. Len(recording[g].ts)
             /\ \A k \in DOMAIN recording[g].ts : Time(g, k) \in Int
  <2>1. PICK ts : ts = recording[g].ts
    OBVIOUS
  <2>2. ts \in Seq(Int) /\ ts # <<>> /\ recording[g].codec \in STRING
    BY <1>2, <1>3, <2>1
  <2>3. DOMAIN ts = 1 .. Len(ts) /\ ts[1] \in Int /\ ts[Len(ts)] \in Int
    BY <2>2
  <2>4. \A k \in 1 .. Len(ts) : ParsedTime(ts, k) \in Int
    BY <2>2, ParsedType
  <2> QED
    BY <2>1, <2>2, <2>3, <2>4 DEF StartTime, EndTime, Time
<1> QED
  BY <1>3, <1>4

\* The runs but r are as they were.
OnlyRun(r) ==
  /\ runs' \in Seq(Runs) /\ DOMAIN runs' = DOMAIN runs /\ Len(runs') = Len(runs)
  /\ \A x \in DOMAIN runs : x # r => runs'[x] = runs[x]

\* The states but s are as they were.
OnlyState(s) ==
  /\ states' \in Seq(States) /\ DOMAIN states' = DOMAIN states /\ Len(states') = Len(states)
  /\ \A x \in DOMAIN states : x # s => states'[x] = states[x]

\* What no step changes in a run.
SameRequest(old, new) ==
  new.st = old.st /\ new.start = old.start /\ new.scale = old.scale /\ new.prev = old.prev

\* One run is replaced.
LEMMA ReplaceRun ==
  ASSUME runs \in Seq(Runs), NEW r \in DOMAIN runs, NEW new \in Runs,
         runs' = [runs EXCEPT ![r] = new]
  PROVE  OnlyRun(r) /\ runs'[r] = new
<1> HIDE DEF Runs
<1> QED
  BY DEF OnlyRun

\* One state is replaced.
LEMMA ReplaceState ==
  ASSUME states \in Seq(States), NEW s \in DOMAIN states, NEW new \in States,
         states' = [states EXCEPT ![s] = new]
  PROVE  OnlyState(s) /\ states'[s] = new
<1> HIDE DEF States
<1> QED
  BY DEF OnlyState

\* A member of a sequence of runs, of states.
LEMMA RunType ==
  ASSUME runs \in Seq(Runs), NEW r \in DOMAIN runs
  PROVE  runs[r] \in Runs
<1> HIDE DEF Runs
<1> QED
  OBVIOUS

LEMMA StateType ==
  ASSUME states \in Seq(States), NEW s \in DOMAIN states
  PROVE  states[s] \in States
<1> HIDE DEF States
<1> QED
  OBVIOUS

\* Goto changes the pc of one run.
LEMMA GotoEffect ==
  ASSUME RunsOK, NEW r \in DOMAIN runs, NEW label \in RunPCs, Goto(r, label)
  PROVE  /\ OnlyRun(r) /\ SameRequest(runs[r], runs'[r]) /\ runs'[r].pc = label
         /\ runs'[r].gop = runs[r].gop /\ runs'[r].k = runs[r].k /\ runs'[r].last = runs[r].last
         /\ runs'[r].cancelled = runs[r].cancelled /\ runs'[r].sent = runs[r].sent
         /\ runs'[r].extra = runs[r].extra
<1>1. PICK old \in Runs : old = runs[r]
  BY RunType DEF RunsOK
<1>2. PICK new : new = [old EXCEPT !.pc = label]
  OBVIOUS
<1>3. runs' = [runs EXCEPT ![r] = new]
  BY <1>1, <1>2 DEF Goto, RunsOK
<1>4. new \in Runs
  BY <1>2 DEF Runs
<1>5. /\ new.pc = label /\ new.st = old.st /\ new.start = old.start /\ new.scale = old.scale
      /\ new.prev = old.prev /\ new.gop = old.gop /\ new.k = old.k /\ new.last = old.last
      /\ new.cancelled = old.cancelled /\ new.sent = old.sent /\ new.extra = old.extra
  BY <1>2 DEF Runs
<1>6. OnlyRun(r) /\ runs'[r] = new
  BY <1>3, <1>4, ReplaceRun DEF RunsOK
<1> QED
  BY <1>1, <1>5, <1>6 DEF SameRequest

\* RunFetch, when it goes on with GOP g.
LEMMA FetchEffect ==
  ASSUME RunsOK, NEW r \in DOMAIN runs, NEW g \in Nat,
         runs' = [runs EXCEPT ![r] = AtGOP(@, g)]
  PROVE  /\ OnlyRun(r) /\ SameRequest(runs[r], runs'[r]) /\ runs'[r].pc = "sample"
         /\ runs'[r].gop = g /\ runs'[r].k = 0 /\ runs'[r].last = runs[r].last
         /\ runs'[r].cancelled = runs[r].cancelled /\ runs'[r].sent = runs[r].sent
         /\ runs'[r].extra = runs[r].extra
<1>1. PICK old \in Runs : old = runs[r]
  BY RunType DEF RunsOK
<1>2. PICK new : new = [old EXCEPT !.pc = "sample", !.gop = g, !.k = 0]
  OBVIOUS
<1>3. runs' = [runs EXCEPT ![r] = new]
  BY <1>1, <1>2 DEF AtGOP
<1>4. new \in Runs
  BY <1>2 DEF Runs, RunPCs
<1>5. /\ new.pc = "sample" /\ new.st = old.st /\ new.start = old.start /\ new.scale = old.scale
      /\ new.prev = old.prev /\ new.gop = g /\ new.k = 0 /\ new.last = old.last
      /\ new.cancelled = old.cancelled /\ new.sent = old.sent /\ new.extra = old.extra
  BY <1>2 DEF Runs
<1>6. OnlyRun(r) /\ runs'[r] = new
  BY <1>3, <1>4, ReplaceRun DEF RunsOK
<1> QED
  BY <1>1, <1>5, <1>6 DEF SameRequest

\* RunSample, when it goes on with sample k.
LEMMA SampleEffect ==
  ASSUME RunsOK, NEW r \in DOMAIN runs, NEW k \in Nat,
         runs' = [runs EXCEPT ![r] = AtSample(@, k)]
  PROVE  /\ OnlyRun(r) /\ SameRequest(runs[r], runs'[r]) /\ runs'[r].pc = "send"
         /\ runs'[r].gop = runs[r].gop /\ runs'[r].k = k /\ runs'[r].last = runs[r].last
         /\ runs'[r].cancelled = runs[r].cancelled /\ runs'[r].sent = runs[r].sent
         /\ runs'[r].extra = runs[r].extra
<1>1. PICK old \in Runs : old = runs[r]
  BY RunType DEF RunsOK
<1>2. PICK new : new = [old EXCEPT !.k = k, !.pc = "send"]
  OBVIOUS
<1>3. runs' = [runs EXCEPT ![r] = new]
  BY <1>1, <1>2 DEF AtSample
<1>4. new \in Runs
  BY <1>2 DEF Runs, RunPCs
<1>5. /\ new.pc = "send" /\ new.st = old.st /\ new.start = old.start /\ new.scale = old.scale
      /\ new.prev = old.prev /\ new.gop = old.gop /\ new.k = k /\ new.last = old.last
      /\ new.cancelled = old.cancelled /\ new.sent = old.sent /\ new.extra = old.extra
  BY <1>2 DEF Runs
<1>6. OnlyRun(r) /\ runs'[r] = new
  BY <1>3, <1>4, ReplaceRun DEF RunsOK
<1> QED
  BY <1>1, <1>5, <1>6 DEF SameRequest

\* RunSend, on a stream that is open.
LEMMA SendEffect ==
  ASSUME RunsOK, NEW r \in DOMAIN runs, Time(runs[r].gop, runs[r].k) \in Int, NEW extra \in Nat,
         runs' = [runs EXCEPT ![r] = HasSent(@, extra)]
  PROVE  /\ OnlyRun(r) /\ SameRequest(runs[r], runs'[r]) /\ runs'[r].pc = "progress"
         /\ runs'[r].gop = runs[r].gop /\ runs'[r].k = runs[r].k
         /\ runs'[r].last = Time(runs[r].gop, runs[r].k)
         /\ runs'[r].cancelled = runs[r].cancelled
         /\ runs'[r].sent = Append(runs[r].sent, <<runs[r].gop, runs[r].k>>)
         /\ runs'[r].extra = runs[r].extra + extra
<1>1. PICK old \in Runs : old = runs[r]
  BY RunType DEF RunsOK
<1>2. PICK more : more = Append(old.sent, <<old.gop, old.k>>)
  OBVIOUS
<1>3. more \in Seq(Nat \X Nat)
  BY <1>2 DEF Runs
<1>4. PICK e \in Nat, t \in Int : e = old.extra + extra /\ t = Time(old.gop, old.k)
  BY <1>1 DEF Runs
<1>5. PICK new : new = [old EXCEPT !.pc = "progress", !.last = t, !.sent = more, !.extra = e]
  OBVIOUS
<1>6. HasSent(old, extra) = new
  BY <1>2, <1>4, <1>5, Zenon DEF HasSent
<1>7. runs' = [runs EXCEPT ![r] = new]
  BY <1>1, <1>6
<1>8. new \in Runs
  BY <1>3, <1>5 DEF Runs, RunPCs
<1>9. /\ new.pc = "progress" /\ new.st = old.st /\ new.start = old.start /\ new.scale = old.scale
      /\ new.prev = old.prev /\ new.gop = old.gop /\ new.k = old.k /\ new.last = t
      /\ new.cancelled = old.cancelled /\ new.sent = more /\ new.extra = e
  BY <1>5 DEF Runs
<1>10. OnlyRun(r) /\ runs'[r] = new
  BY <1>7, <1>8, ReplaceRun DEF RunsOK
<1> QED
  BY <1>1, <1>2, <1>4, <1>9, <1>10 DEF SameRequest

\* What CancelRun makes of the runs.
LEMMA CancelEffect ==
  ASSUME RunsOK, NEW c \in DOMAIN runs \cup {None}
  PROVE  /\ CancelRun(c) \in Seq(Runs) /\ DOMAIN CancelRun(c) = DOMAIN runs
         /\ Len(CancelRun(c)) = Len(runs)
         /\ \A x \in DOMAIN runs :
              /\ x # c => CancelRun(c)[x] = runs[x]
              /\ SameRequest(runs[x], CancelRun(c)[x]) /\ CancelRun(c)[x].pc = runs[x].pc
              /\ CancelRun(c)[x].gop = runs[x].gop /\ CancelRun(c)[x].k = runs[x].k
              /\ CancelRun(c)[x].last = runs[x].last /\ CancelRun(c)[x].sent = runs[x].sent
              /\ CancelRun(c)[x].extra = runs[x].extra
              /\ x = c \/ runs[x].cancelled => CancelRun(c)[x].cancelled
<1>0. None \notin DOMAIN runs
  <2>1. DOMAIN runs \subseteq Int
    <3> HIDE DEF Runs
    <3> QED
      BY DEF RunsOK
  <2> QED
    BY <2>1, NoneAssumption
<1>1. CASE c = None
  <2>1. CancelRun(c) = runs
    BY <1>1 DEF CancelRun
  <2> QED
    BY <1>0, <1>1, <2>1 DEF RunsOK, SameRequest
<1>2. CASE c # None
  <2>1. PICK old \in Runs : old = runs[c]
    BY <1>2, RunType DEF RunsOK
  <2>2. PICK new : new = [old EXCEPT !.cancelled = TRUE]
    OBVIOUS
  <2>3. PICK q : q = CancelRun(c)
    OBVIOUS
  <2>4. q = [runs EXCEPT ![c] = new]
    BY <1>2, <2>1, <2>2, <2>3, Zenon DEF CancelRun
  <2>5. new \in Runs
    BY <2>2 DEF Runs
  <2>6. /\ new.pc = old.pc /\ new.st = old.st /\ new.start = old.start /\ new.scale = old.scale
        /\ new.prev = old.prev /\ new.gop = old.gop /\ new.k = old.k /\ new.last = old.last
        /\ new.sent = old.sent /\ new.extra = old.extra
    BY <2>2 DEF Runs
  <2>7. new.cancelled = TRUE
    BY <2>2 DEF Runs
  <2>8. /\ q \in Seq(Runs) /\ DOMAIN q = DOMAIN runs /\ Len(q) = Len(runs) /\ q[c] = new
        /\ \A x \in DOMAIN runs : x # c => q[x] = runs[x]
    <3> HIDE DEF Runs
    <3> QED
      BY <1>2, <2>4, <2>5 DEF RunsOK
  <2> QED
    BY <2>1, <2>3, <2>6, <2>7, <2>8 DEF SameRequest
<1> QED
  BY <1>1, <1>2

\* A set of numbers with a bound has a greatest member.
LEMMA GreatestMember ==
  ASSUME NEW n \in Nat, NEW S, S \subseteq 0 .. n, S # {}
  PROVE  \E x \in S : \A y \in S : x >= y
<1> DEFINE T == {n - x : x \in S}
<1>1. T \subseteq Nat /\ T # {}
  <2>1. ASSUME NEW x \in S PROVE n - x \in Nat
    <3>1. x \in 0 .. n
      OBVIOUS
    <3> QED
      BY <3>1
  <2> QED
    BY <2>1
<1>2. PICK m \in T : \A y \in T : m <= y
  <2> HIDE DEF T
  <2> QED
    BY <1>1, LeastMember
<1>3. PICK x \in S : m = n - x
  BY <1>2
<1>4. ASSUME NEW y \in S PROVE x >= y
  <2>1. n - x <= n - y
    BY <1>2, <1>3
  <2> QED
    BY <2>1
<1> QED
  BY <1>4

\* LastRun is the last run of a state, 0 if there is none.
LEMMA LastRunIsLast ==
  ASSUME RunsOK, NEW s
  PROVE  /\ LastRun(s) \in 0 .. Len(runs)
         /\ LastRun(s) = 0 \/ (LastRun(s) \in DOMAIN runs /\ runs[LastRun(s)].st = s)
<1>1. PICK S : S = {r \in DOMAIN runs : runs[r].st = s} \cup {0}
  OBVIOUS
<1>2. PICK n \in Nat : n = Len(runs) /\ DOMAIN runs = 1 .. n
  <2> HIDE DEF Runs
  <2> QED
    BY DEF RunsOK
<1>3. S \subseteq 0 .. n /\ S # {}
  BY <1>1, <1>2
<1>4. \E x \in S : \A y \in S : x >= y
  BY <1>3, GreatestMember
<1>5. Max(S) \in S
  BY <1>4 DEF Max
<1>6. LastRun(s) \in S
  BY <1>1, <1>5 DEF LastRun
<1>7. PICK l \in S : l = LastRun(s)
  BY <1>6
<1>8. l \in 0 .. n
  BY <1>3
<1>9. l = 0 \/ (l \in DOMAIN runs /\ runs[l].st = s)
  BY <1>1
<1> QED
  BY <1>2, <1>7, <1>8, <1>9

\* What no step changes in a state.
SameStream(old, new) == new.start = old.start /\ new.end = old.end /\ new.codec = old.codec

\* What a run's step leaves alone in the states, unless it records progress.
SameStates ==
  /\ DOMAIN states' = DOMAIN states
  /\ \A s \in Refs : /\ SameStream(states[s], states'[s]) /\ states'[s].pos = states[s].pos
                     /\ states'[s].cancel = states[s].cancel
                     /\ states'[s].writer = states[s].writer

\* What PlayStart makes of the state of the session.
LEMMA PlayingFields ==
  ASSUME NEW st \in States, call \in Calls, NEW r \in Nat
  PROVE  /\ Playing(st, r) \in States /\ SameStream(st, Playing(st, r))
         /\ Playing(st, r).pos = call.start /\ Playing(st, r).cancel = r
         /\ Playing(st, r).writer = r /\ Playing(st, r).cache = st.cache
<1>1. PICK start \in Int, scale \in Int : start = call.start /\ scale = call.scale
  BY DEF Calls
<1>2. PICK new : new = [st EXCEPT !.scale = scale, !.pos = start, !.progress = TRUE,
                                  !.cancel = r, !.writer = r]
  OBVIOUS
<1>3. new \in States
  BY <1>2 DEF States
<1>4. /\ new.start = st.start /\ new.end = st.end /\ new.codec = st.codec /\ new.pos = start
      /\ new.cancel = r /\ new.writer = r /\ new.cache = st.cache
  BY <1>2 DEF States
<1>5. Playing(st, r) = new
  BY <1>1, <1>2, Zenon DEF Playing
<1> QED
  BY <1>1, <1>3, <1>4, <1>5 DEF SameStream

\* RunProgress, as far as it writes the state of the run.
LEMMA ProgressStateEffect ==
  ASSUME StatesOK, NEW s \in DOMAIN states, NEW pos \in Int, NEW r \in Nat,
         states' = [states EXCEPT ![s] = Progressed(@, pos, r)]
  PROVE  /\ OnlyState(s) /\ SameStream(states[s], states'[s])
         /\ states'[s].pos = pos /\ states'[s].cancel = states[s].cancel /\ states'[s].writer = r
         /\ states'[s].cache = states[s].cache /\ states'[s].open = states[s].open
<1>1. PICK old \in States : old = states[s]
  BY StateType DEF StatesOK
<1>2. PICK new : new = [old EXCEPT !.pos = pos, !.progress = TRUE, !.writer = r]
  OBVIOUS
<1>3. states' = [states EXCEPT ![s] = new]
  BY <1>1, <1>2 DEF Progressed
<1>4. new \in States
  BY <1>2 DEF States
<1>5. /\ new.start = old.start /\ new.end = old.end /\ new.codec = old.codec /\ new.pos = pos
      /\ new.cancel = old.cancel /\ new.writer = r /\ new.cache = old.cache /\ new.open = old.open
  BY <1>2 DEF States
<1>6. OnlyState(s) /\ states'[s] = new
  BY <1>3, <1>4, ReplaceState DEF StatesOK
<1> QED
  BY <1>1, <1>5, <1>6 DEF SameStream

\* Pause forgets the goroutine, SessionClose closes the stream, a fetch or a
\* prefetch changes the cache.
LEMMA OneFieldEffect ==
  ASSUME StatesOK, NEW s \in DOMAIN states, NEW cache \in SUBSET Nat,
         \/ states' = [states EXCEPT ![s].cancel = None] /\ cache = states[s].cache
         \/ states' = [states EXCEPT ![s].open = FALSE] /\ cache = states[s].cache
         \/ states' = [states EXCEPT ![s].cache = cache]
  PROVE  /\ OnlyState(s) /\ SameStream(states[s], states'[s])
         /\ states'[s].pos = states[s].pos /\ states'[s].writer = states[s].writer
         /\ states'[s].cache = cache
         /\ \/ states'[s].cancel = states[s].cancel
            \/ states' = [states EXCEPT ![s].cancel = None] /\ states'[s].cancel = None
<1>1. PICK old \in States : old = states[s]
  BY StateType DEF StatesOK
<1>2. CASE states' = [states EXCEPT ![s].cancel = None] /\ cache = states[s].cache
  <2>1. PICK new : new = [old EXCEPT !.cancel = None]
    OBVIOUS
  <2>2. states' = [states EXCEPT ![s] = new]
    BY <1>1, <1>2, <2>1, Zenon
  <2>3. new \in States
    BY <2>1 DEF States
  <2>4. /\ new.start = old.start /\ new.end = old.end /\ new.codec = old.codec /\ new.pos = old.pos
        /\ new.cancel = None /\ new.writer = old.writer /\ new.cache = old.cache
    BY <2>1 DEF States
  <2>5. OnlyState(s) /\ states'[s] = new
    BY <2>2, <2>3, ReplaceState DEF StatesOK
  <2> QED
    BY <1>1, <1>2, <2>4, <2>5 DEF SameStream
<1>3. CASE states' = [states EXCEPT ![s].open = FALSE] /\ cache = states[s].cache
  <2>1. PICK new : new = [old EXCEPT !.open = FALSE]
    OBVIOUS
  <2>2. states' = [states EXCEPT ![s] = new]
    BY <1>1, <1>3, <2>1, Zenon
  <2>3. new \in States
    BY <2>1 DEF States
  <2>4. /\ new.start = old.start /\ new.end = old.end /\ new.codec = old.codec /\ new.pos = old.pos
        /\ new.cancel = old.cancel /\ new.writer = old.writer /\ new.cache = old.cache
    BY <2>1 DEF States
  <2>5. OnlyState(s) /\ states'[s] = new
    BY <2>2, <2>3, ReplaceState DEF StatesOK
  <2> QED
    BY <1>1, <1>3, <2>4, <2>5 DEF SameStream
<1>4. CASE states' = [states EXCEPT ![s].cache = cache]
  <2>1. PICK new : new = [old EXCEPT !.cache = cache]
    OBVIOUS
  <2>2. states' = [states EXCEPT ![s] = new]
    BY <1>1, <1>4, <2>1, Zenon
  <2>3. new \in States
    BY <2>1 DEF States
  <2>4. /\ new.start = old.start /\ new.end = old.end /\ new.codec = old.codec /\ new.pos = old.pos
        /\ new.cancel = old.cancel /\ new.writer = old.writer /\ new.cache = cache
    BY <2>1 DEF States
  <2>5. OnlyState(s) /\ states'[s] = new
    BY <2>2, <2>3, ReplaceState DEF StatesOK
  <2> QED
    BY <1>1, <1>4, <2>4, <2>5 DEF SameStream
<1> QED
  BY <1>2, <1>3, <1>4

\* What RunsOK asks of one run.
RunOK(run) ==
  /\ run.pc \in {"sample", "send", "progress"} => run.gop \in GOPs
  /\ run.pc \in {"send", "progress"} => run.k \in DOMAIN recording[run.gop].ts
  /\ run.pc = "progress" => run.last = Time(run.gop, run.k)

\* A step that moves one run keeps RunsOK, if the run is where it says.
LEMMA RunsKept ==
  ASSUME RunsOK, NEW r \in DOMAIN runs, OnlyRun(r), SameRequest(runs[r], runs'[r]),
         recording' = recording, DOMAIN states' = DOMAIN states, RunOK(runs'[r])
  PROVE  RunsOK'
<1>1. \A x \in DOMAIN runs : RunOK(runs'[x]) /\ runs'[x].st \in Refs /\ runs'[x].prev \in 0 .. Len(runs)
  BY DEF RunsOK, OnlyRun, SameRequest, RunOK
<1> QED
  BY <1>1 DEF RunsOK, OnlyRun, RunOK, GOPs, Time, Refs

\* A step that changes the cache of a state, or its position, keeps StatesOK.
LEMMA StatesKept ==
  ASSUME StatesOK, NEW s \in DOMAIN states, OnlyState(s), recording' = recording,
         DOMAIN runs \subseteq DOMAIN runs', states'[s].cache \subseteq GOPs,
         states'[s].cancel \in DOMAIN runs' \cup {None},
         states'[s].writer \in DOMAIN runs' \cup {None}
  PROVE  StatesOK'
<1>1. ASSUME NEW x \in DOMAIN states
      PROVE  /\ states'[x].cache \subseteq GOPs
             /\ states'[x].cancel \in DOMAIN runs' \cup {None}
             /\ states'[x].writer \in DOMAIN runs' \cup {None}
  <2>1. CASE x = s
    BY <2>1
  <2>2. CASE x # s
    BY <2>2 DEF StatesOK, OnlyState, Refs
  <2> QED
    BY <2>1, <2>2
<1> QED
  BY <1>1 DEF StatesOK, OnlyState, Refs, GOPs

\* The initial state has the types.
LEMMA InitType == Init => TypeOK
<1> SUFFICES ASSUME Init PROVE TypeOK
  OBVIOUS
<1>1. DOMAIN states = {} /\ DOMAIN runs = {}
  BY DEF Init
<1>2. states \in Seq(States) /\ runs \in Seq(Runs)
  BY DEF Init
<1>3. ServerOK
  BY DEF Init, ServerOK
<1> QED
  BY <1>1, <1>2, <1>3 DEF Init, TypeOK, StatesOK, RunsOK, FetchOK, Refs

\* The handlers that touch neither states nor runs keep the types.
LEMMA ServerType ==
  ASSUME TypeOK,
         \/ Setup \/ ConnClose
         \/ \E req \in PlayRequests : PlayResolve(req.range, req.scale)
  PROVE  TypeOK'
<1>1. UNCHANGED <<recording, states, runs, fetching, crashed>>
  BY DEF Setup, ConnClose, PlayResolve
<1>2. StatesOK' /\ RunsOK' /\ FetchOK'
  BY <1>1 DEF TypeOK, StatesOK, RunsOK, FetchOK, Refs, GOPs, Time
<1>3. CASE Setup
  BY <1>1, <1>2, <1>3 DEF Setup, TypeOK, ServerOK, Refs
<1>4. CASE ConnClose
  BY <1>1, <1>2, <1>4 DEF ConnClose, TypeOK, ServerOK, Refs
<1>5. ASSUME NEW req \in PlayRequests, PlayResolve(req.range, req.scale)
      PROVE  TypeOK'
  <2>1. req.range \in Int \cup {None} /\ req.scale \in Int \cup {None}
    BY RequestsAssumption
  <2>2. states[session] \in States
    BY <1>5, StateType DEF PlayResolve, TypeOK, ServerOK, StatesOK, Refs
  <2>3. PICK st \in States : st = states[session]
    BY <2>2
  <2>4. st.pos \in Int /\ st.start \in Int /\ st.scale \in Int /\ st.progress \in BOOLEAN
    BY DEF States
  <2>5. PICK start \in Int :
          start = IF req.range # None THEN req.range ELSE IF st.progress THEN st.pos ELSE st.start
    BY <2>1, <2>4
  <2>6. PICK scale \in Int : scale = IF req.scale # None THEN req.scale ELSE st.scale
    BY <2>1, <2>4
  <2>7. PICK resumes \in BOOLEAN : resumes = (req.range = None /\ st.progress)
    BY <2>4
  <2>8. PICK clean \in BOOLEAN : clean = (st.writer = LastRun(session))
    OBVIOUS
  <2>9. call' = [start |-> start, scale |-> scale, resumes |-> resumes, clean |-> clean]
    BY <1>5, <2>3, <2>5, <2>6, <2>7, <2>8, Zenon DEF PlayResolve
  <2>10. call' \in Calls
    BY <2>9 DEF Calls
  <2>11. session # None /\ UNCHANGED <<recording, conn, pending, session, phase, states, crashed>>
    BY <1>5 DEF PlayResolve
  <2>12. ServerOK'
    BY <2>10, <2>11 DEF TypeOK, ServerOK, Refs
  <2> QED
    BY <1>2, <2>12 DEF TypeOK
<1> QED
  BY <1>3, <1>4, <1>5

\* Describe makes one more state.
LEMMA DescribeType ==
  ASSUME TypeOK, NEW req \in Requests, Describe(req)
  PROVE  /\ TypeOK' /\ \A s \in Refs : states'[s] = states[s]
         /\ DOMAIN states' = 1 .. Len(states) + 1
         /\ states'[Len(states) + 1].writer = None
<1>1. PICK g : g = First(Relevant(req.start, req.end))
  OBVIOUS
<1>2. PICK S : S = Relevant(req.start, req.end)
  OBVIOUS
<1>3. S \subseteq GOPs /\ GOPs \subseteq Nat
  <2>1. GOPs \subseteq Nat
    BY RecordingTypes DEF TypeOK, ServerOK
  <2> QED
    BY <1>2, <2>1 DEF Relevant, ListGOPs
<1>4. g \in GOPs
  <2>1. g # None
    BY <1>1 DEF Describe
  <2> QED
    BY <1>1, <1>2, <1>3, <2>1, FirstIsLeast
<1>5. req.start \in Int /\ req.end \in Int \cup {None}
  BY RequestsAssumption
<1>6. PICK codec \in STRING : codec = recording[g].codec
  BY <1>4, RecordingTypes DEF TypeOK, ServerOK
<1>7. PICK new : new = [start |-> req.start, end |-> req.end, codec |-> codec,
            scale |-> 1, pos |-> 0, progress |-> FALSE, cancel |-> None,
            open |-> TRUE, cache |-> {}, writer |-> None]
  OBVIOUS
<1>8. new \in States /\ new.cancel = None /\ new.cache = {} /\ new.writer = None
  BY <1>5, <1>6, <1>7 DEF States
<1>9. states' = Append(states, new)
  BY <1>1, <1>6, <1>7 DEF Describe
<1>10. PICK n \in Nat : n = Len(states) /\ DOMAIN states = 1 .. n
  <2> HIDE DEF States
  <2> QED
    BY DEF TypeOK, StatesOK
<1>11. /\ states' \in Seq(States) /\ DOMAIN states' = 1 .. n + 1
       /\ states'[n + 1] = new /\ \A s \in 1 .. n : states'[s] = states[s]
  <2> HIDE DEF States
  <2> QED
    BY <1>8, <1>9, <1>10 DEF TypeOK, StatesOK
<1>12. UNCHANGED <<recording, conn, session, phase, call, runs, fetching, crashed>> /\ pending' = n + 1
  BY <1>10 DEF Describe
<1>13. StatesOK'
  <2>1. ASSUME NEW s \in 1 .. n + 1
        PROVE  /\ states'[s].cache \subseteq GOPs
               /\ states'[s].cancel \in DOMAIN runs \cup {None}
               /\ states'[s].writer \in DOMAIN runs \cup {None}
    <3>1. CASE s = n + 1
      BY <1>8, <1>11, <3>1
    <3>2. CASE s \in 1 .. n
      BY <1>10, <1>11, <3>2 DEF TypeOK, StatesOK, Refs
    <3> QED
      BY <3>1, <3>2
  <2> QED
    BY <1>11, <1>12, <2>1 DEF StatesOK, Refs, GOPs
<1>14. Refs \subseteq Refs' /\ n + 1 \in Refs'
  BY <1>10, <1>11 DEF Refs
<1>15. ServerOK'
  BY <1>12, <1>14 DEF TypeOK, ServerOK
<1>16. RunsOK'
  BY <1>12, <1>14 DEF TypeOK, RunsOK, GOPs, Time
<1>17. FetchOK'
  BY <1>12 DEF TypeOK, FetchOK, GOPs
<1> QED
  BY <1>8, <1>10, <1>11, <1>13, <1>15, <1>16, <1>17 DEF TypeOK, Refs

\* PlayStart adds a run to those of before, of which the one the state
\* remembers is cancelled.
LEMMA PlayStartEffect ==
  ASSUME TypeOK, PlayStart
  PROVE  /\ session \in Refs /\ call \in Calls
         /\ runs' \in Seq(Runs) /\ Len(runs') = Len(runs) + 1
         /\ DOMAIN runs' = 1 .. Len(runs) + 1 /\ DOMAIN runs = 1 .. Len(runs)
         /\ \A x \in DOMAIN runs : runs'[x] = CancelRun(states[session].cancel)[x]
         /\ runs'[Len(runs) + 1] = NewRun /\ NewRun \in Runs
         /\ OnlyState(session) /\ SameStream(states[session], states'[session])
         /\ states'[session].pos = call.start
         /\ states'[session].cancel = Len(runs) + 1 /\ states'[session].writer = Len(runs) + 1
         /\ states'[session].cache = states[session].cache
<1>1. session \in Refs /\ call \in Calls
  BY DEF PlayStart, TypeOK, ServerOK
<1>2. PICK n \in Nat : n = Len(runs) /\ DOMAIN runs = 1 .. n
  <2> HIDE DEF Runs
  <2> QED
    BY DEF TypeOK, RunsOK
<1>3. PICK m \in Nat : DOMAIN states = 1 .. m
  <2> HIDE DEF States
  <2> QED
    BY DEF TypeOK, StatesOK
<1>4. call.start \in Int /\ call.scale \in Int
  BY <1>1 DEF Calls
<1>5. NewRun \in Runs
  <2>1. PICK p \in Nat : p = IF call.resumes /\ call.clean THEN LastRun(session) ELSE 0
    <3>1. LastRun(session) \in 0 .. Len(runs)
      BY LastRunIsLast DEF TypeOK
    <3> QED
      BY <1>2, <3>1
  <2>2. session \in Nat
    BY <1>1, <1>3 DEF Refs
  <2>3. NewRun = [st |-> session, start |-> call.start, scale |-> call.scale, pc |-> "list",
                  gop |-> 0, k |-> 0, last |-> None, cancelled |-> FALSE,
                  sent |-> <<>>, extra |-> 0, prev |-> p]
    BY <2>1 DEF NewRun
  <2>4. <<>> \in Seq(Nat \X Nat)
    OBVIOUS
  <2> QED
    BY <1>4, <2>2, <2>3, <2>4 DEF Runs, RunPCs
<1>6. PICK q : q = CancelRun(states[session].cancel)
  OBVIOUS
<1>7. q \in Seq(Runs) /\ Len(q) = Len(runs) /\ DOMAIN q = DOMAIN runs
  BY <1>1, <1>6, CancelEffect DEF TypeOK, StatesOK
<1>8. PICK new : new = NewRun
  OBVIOUS
<1>9. runs' = Append(q, new)
  BY <1>6, <1>8 DEF PlayStart
<1>10. /\ runs' \in Seq(Runs) /\ Len(runs') = n + 1 /\ DOMAIN runs' = 1 .. n + 1
       /\ runs'[n + 1] = new /\ \A x \in 1 .. n : runs'[x] = q[x]
  <2> HIDE DEF Runs
  <2> QED
    BY <1>2, <1>5, <1>7, <1>8, <1>9
<1>11. states[session] \in States /\ n + 1 \in Nat /\ session \in DOMAIN states
  BY <1>1, StateType DEF TypeOK, StatesOK, Refs
<1>12. PICK st : st = Playing(states[session], n + 1)
  OBVIOUS
<1>13. /\ st \in States /\ SameStream(states[session], st) /\ st.pos = call.start
       /\ st.cancel = n + 1 /\ st.writer = n + 1 /\ st.cache = states[session].cache
  BY <1>1, <1>11, <1>12, PlayingFields
<1>14. states' = [states EXCEPT ![session] = st]
  BY <1>2, <1>12 DEF PlayStart
<1>15. OnlyState(session) /\ states'[session] = st
  BY <1>11, <1>13, <1>14, ReplaceState DEF TypeOK, StatesOK
<1> QED
  BY <1>1, <1>2, <1>5, <1>6, <1>8, <1>10, <1>13, <1>15

\* It keeps the types.
LEMMA PlayStartType ==
  ASSUME TypeOK, PlayStart
  PROVE  TypeOK'
<1>1. PICK n \in Nat : n = Len(runs) /\ DOMAIN runs = 1 .. n
  <2> HIDE DEF Runs
  <2> QED
    BY DEF TypeOK, RunsOK
<1>2. /\ session \in Refs /\ runs' \in Seq(Runs) /\ Len(runs') = n + 1 /\ DOMAIN runs' = 1 .. n + 1
      /\ \A x \in 1 .. n : runs'[x] = CancelRun(states[session].cancel)[x]
      /\ runs'[n + 1] = NewRun
      /\ OnlyState(session)
      /\ states'[session].cancel = n + 1 /\ states'[session].writer = n + 1
      /\ states'[session].cache = states[session].cache
  BY <1>1, PlayStartEffect
<1>3. UNCHANGED <<recording, conn, pending, session, fetching, crashed>> /\ phase' = "playing" /\ call' = None
  BY DEF PlayStart
<1>4. Refs' = Refs
  BY <1>2 DEF OnlyState, Refs
<1>5. ServerOK'
  <2>1. session # None
    <3>1. call # None
      BY DEF PlayStart
    <3> QED
      BY <3>1 DEF TypeOK, ServerOK
  <2> QED
    BY <1>3, <1>4, <2>1 DEF TypeOK, ServerOK
<1>6. StatesOK'
  BY <1>1, <1>2, <1>3, StatesKept DEF TypeOK, StatesOK, Refs
<1>7. RunsOK'
  <2>1. ASSUME NEW x \in 1 .. n
        PROVE  RunOK(runs'[x]) /\ runs'[x].st \in Refs /\ runs'[x].prev \in 0 .. n + 1
    <3>1. /\ SameRequest(runs[x], runs'[x]) /\ runs'[x].pc = runs[x].pc
          /\ runs'[x].gop = runs[x].gop /\ runs'[x].k = runs[x].k /\ runs'[x].last = runs[x].last
      <4>1. states[session].cancel \in DOMAIN runs \cup {None}
        BY <1>2 DEF TypeOK, StatesOK
      <4> QED
        BY <1>1, <1>2, <4>1, CancelEffect DEF TypeOK
    <3>2. RunOK(runs[x]) /\ runs[x].st \in Refs /\ runs[x].prev \in 0 .. n
      BY <1>1 DEF TypeOK, RunsOK, RunOK
    <3> QED
      BY <3>1, <3>2 DEF SameRequest, RunOK
  <2>2. RunOK(NewRun) /\ NewRun.st \in Refs /\ NewRun.prev \in 0 .. n + 1
    <3>1. NewRun.pc = "list" /\ NewRun.st = session
      BY DEF NewRun
    <3>2. NewRun.prev = LastRun(session) \/ NewRun.prev = 0
      BY DEF NewRun
    <3>3. LastRun(session) \in 0 .. n
      BY <1>1, LastRunIsLast DEF TypeOK
    <3> QED
      BY <1>2, <3>1, <3>2, <3>3 DEF RunOK
  <2>3. ASSUME NEW x \in 1 .. n + 1
        PROVE  RunOK(runs'[x]) /\ runs'[x].st \in Refs /\ runs'[x].prev \in 0 .. n + 1
    <3>1. x \in 1 .. n \/ x = n + 1
      OBVIOUS
    <3> QED
      BY <1>2, <2>1, <2>2, <3>1
  <2> QED
    BY <1>2, <1>3, <1>4, <2>3 DEF RunsOK, RunOK, GOPs, Time
<1>8. FetchOK'
  BY <1>1, <1>2, <1>3 DEF TypeOK, FetchOK, GOPs
<1> QED
  BY <1>5, <1>6, <1>7, <1>8 DEF TypeOK

\* Pause and SessionClose cancel the run the state of the session remembers.
LEMMA StopEffect ==
  ASSUME TypeOK, Pause \/ SessionClose
  PROVE  /\ session \in Refs /\ runs' = CancelRun(states[session].cancel)
         /\ OnlyState(session) /\ SameStream(states[session], states'[session])
         /\ states'[session].pos = states[session].pos
         /\ states'[session].writer = states[session].writer
         /\ states'[session].cache = states[session].cache
         /\ states'[session].cancel \in {states[session].cancel, None}
         /\ call = None /\ UNCHANGED <<recording, fetching, call, crashed>>
<1>1. session \in Refs /\ session \in DOMAIN states
  BY DEF Pause, SessionClose, TypeOK, ServerOK, Refs
<1>2. states[session].cache \in SUBSET Nat
  <2>1. states[session] \in States
    BY <1>1, StateType DEF TypeOK, StatesOK
  <2> QED
    BY <2>1 DEF States
<1>3. PICK s \in DOMAIN states : s = session
  BY <1>1
<1>4. \/ states' = [states EXCEPT ![s].cancel = None]
      \/ states' = [states EXCEPT ![s].open = FALSE]
  BY <1>3 DEF Pause, SessionClose
<1>5. /\ OnlyState(s) /\ SameStream(states[s], states'[s])
      /\ states'[s].pos = states[s].pos /\ states'[s].writer = states[s].writer
      /\ states'[s].cache = states[s].cache /\ states'[s].cancel \in {states[s].cancel, None}
  <2>1. PICK cache \in SUBSET Nat : cache = states[s].cache
    BY <1>2, <1>3
  <2> QED
    BY <1>4, <2>1, OneFieldEffect DEF TypeOK
<1> QED
  BY <1>1, <1>3, <1>5 DEF Pause, SessionClose

\* They keep the types.
LEMMA StopType ==
  ASSUME TypeOK, Pause \/ SessionClose
  PROVE  TypeOK'
<1>1. /\ session \in Refs /\ runs' = CancelRun(states[session].cancel) /\ OnlyState(session)
      /\ states'[session].writer = states[session].writer
      /\ states'[session].cache = states[session].cache
      /\ states'[session].cancel \in {states[session].cancel, None}
      /\ call = None /\ UNCHANGED <<recording, fetching, call, crashed>>
  BY StopEffect
<1>2. states[session].cancel \in DOMAIN runs \cup {None}
  BY <1>1 DEF TypeOK, StatesOK
<1>3. /\ runs' \in Seq(Runs) /\ DOMAIN runs' = DOMAIN runs /\ Len(runs') = Len(runs)
      /\ \A x \in DOMAIN runs :
           /\ SameRequest(runs[x], runs'[x]) /\ runs'[x].pc = runs[x].pc
           /\ runs'[x].gop = runs[x].gop /\ runs'[x].k = runs[x].k /\ runs'[x].last = runs[x].last
  BY <1>1, <1>2, CancelEffect DEF TypeOK
<1>4. Refs' = Refs
  BY <1>1 DEF OnlyState, Refs
<1>5. ServerOK'
  BY <1>1, <1>4 DEF TypeOK, ServerOK, Pause, SessionClose
<1>6. StatesOK'
  <2>1. session \in DOMAIN states
    BY <1>1 DEF Refs
  <2> QED
    BY <1>1, <1>2, <1>3, <2>1, StatesKept DEF TypeOK, StatesOK, Refs
<1>7. RunsOK'
  <2>1. /\ GOPs' = GOPs /\ recording' = recording
        /\ \A g, k : Time(g, k)' = Time(g, k)
    BY <1>1 DEF GOPs, Time
  <2>2. ASSUME NEW x \in DOMAIN runs
        PROVE  /\ runs'[x].st \in Refs /\ runs'[x].prev \in 0 .. Len(runs)
               /\ runs'[x].pc \in {"sample", "send", "progress"} => runs'[x].gop \in GOPs
               /\ runs'[x].pc \in {"send", "progress"} =>
                    runs'[x].k \in DOMAIN recording[runs'[x].gop].ts
               /\ runs'[x].pc = "progress" => runs'[x].last = Time(runs'[x].gop, runs'[x].k)
    BY <1>3 DEF TypeOK, RunsOK, SameRequest
  <2> QED
    BY <1>3, <1>4, <2>1, <2>2 DEF RunsOK, Time
<1>8. FetchOK'
  BY <1>1, <1>3 DEF TypeOK, FetchOK, GOPs
<1> QED
  BY <1>5, <1>6, <1>7, <1>8 DEF TypeOK

\* A step that moves one run, and nothing else but caches, keeps the types.
LEMMA MoveType ==
  ASSUME TypeOK, UNCHANGED <<recording, serverVars, crashed>>, RunsOK', StatesOK', FetchOK',
         DOMAIN states' = DOMAIN states
  PROVE  TypeOK'
  BY DEF TypeOK, ServerOK, Refs, serverVars

\* The steps of a run that leave the states alone keep the types.
LEMMA QuietRunType ==
  ASSUME TypeOK, NEW r \in DOMAIN runs, OnlyRun(r), SameRequest(runs[r], runs'[r]),
         RunOK(runs'[r]), UNCHANGED <<recording, serverVars, states, fetching, crashed>>
  PROVE  TypeOK'
<1>1. RunsOK'
  BY RunsKept DEF TypeOK
<1>2. StatesOK' /\ FetchOK'
  BY DEF TypeOK, StatesOK, FetchOK, OnlyRun, Refs, GOPs
<1> QED
  BY <1>1, <1>2, MoveType

\* The sets that RunFetch and NextSample take the first member of.
LEMMA ChoicesAreNumbers ==
  ASSUME TypeOK
  PROVE  /\ \A r \in DOMAIN runs :
              {x \in Metas(r) : x > runs[r].gop /\ EndTime(x) >= runs[r].start} \subseteq Nat
         /\ \A r \in DOMAIN runs : \A g : {x \in Metas(r) : x > g} \subseteq Nat
         /\ \A r \in DOMAIN runs : runs[r].gop \in GOPs =>
              {k \in DOMAIN recording[runs[r].gop].ts :
                 /\ k > runs[r].k /\ Time(runs[r].gop, k) >= runs[r].start
                 /\ AfterEnd(r, k) \/ ShouldSend(k, runs[r].scale)} \subseteq Nat
<1>1. /\ GOPs \subseteq Nat
      /\ \A g \in GOPs : DOMAIN recording[g].ts = 1 .. Len(recording[g].ts)
  BY RecordingTypes DEF TypeOK, ServerOK
<1>2. \A r \in DOMAIN runs : Metas(r) \subseteq GOPs
  BY DEF Metas, ListGOPs
<1>3. \A g \in GOPs : DOMAIN recording[g].ts \subseteq Nat
  <2> SUFFICES ASSUME NEW g \in GOPs, NEW k \in DOMAIN recording[g].ts
               PROVE  k \in Nat
    OBVIOUS
  <2>1. Len(recording[g].ts) \in Nat
    BY RecordingTypes DEF TypeOK, ServerOK
  <2> QED
    BY <1>1, <2>1
<1> QED
  BY <1>1, <1>2, <1>3

\* RunFetch goes on with the next GOP of the list, or ends.
LEMMA RunFetchEffect ==
  ASSUME TypeOK, NEW r \in DOMAIN runs, NEW ok \in ReadResults, RunFetch(r, ok)
  PROVE  /\ OnlyRun(r) /\ SameRequest(runs[r], runs'[r]) /\ runs[r].pc = "fetch"
         /\ runs'[r].last = runs[r].last /\ runs'[r].cancelled = runs[r].cancelled
         /\ runs'[r].sent = runs[r].sent /\ runs'[r].extra = runs[r].extra
         /\ \/ runs'[r].pc = "ended"
            \/ /\ runs'[r].pc = "sample" /\ runs'[r].k = 0 /\ runs'[r].gop \in Metas(r)
               /\ runs'[r].gop > runs[r].gop
               /\ \A x \in Metas(r) : x > runs[r].gop /\ EndTime(x) >= runs[r].start
                                        => runs'[r].gop <= x
         /\ TypeOK' /\ SameStates /\ UNCHANGED <<recording, serverVars, crashed>>
<1>1. PICK S : S = {x \in Metas(r) : x > runs[r].gop /\ EndTime(x) >= runs[r].start}
  OBVIOUS
<1>2. PICK g : g = First(S)
  OBVIOUS
<1>3. S \subseteq Nat /\ S \subseteq GOPs
  BY <1>1, ChoicesAreNumbers DEF Metas, ListGOPs
<1>4. g # None => g \in S /\ g \in Nat /\ g \in GOPs /\ \A y \in S : g <= y
  BY <1>2, <1>3, FirstIsLeast
<1>5. /\ runs[r].pc = "fetch" /\ UNCHANGED <<recording, serverVars, crashed>>
      /\ runs[r].st \in DOMAIN states
  BY DEF RunFetch, TypeOK, RunsOK, Refs
<1>6. CASE Goto(r, "ended") /\ UNCHANGED <<states, fetching>>
  <2>1. /\ OnlyRun(r) /\ SameRequest(runs[r], runs'[r]) /\ runs'[r].pc = "ended"
        /\ runs'[r].last = runs[r].last /\ runs'[r].cancelled = runs[r].cancelled
        /\ runs'[r].sent = runs[r].sent /\ runs'[r].extra = runs[r].extra
    BY <1>6, GotoEffect DEF TypeOK, RunPCs
  <2>2. RunOK(runs'[r])
    BY <2>1 DEF RunOK
  <2>3. TypeOK'
    BY <1>5, <1>6, <2>1, <2>2, QuietRunType
  <2> QED
    BY <1>5, <1>6, <2>1, <2>3 DEF SameStream, SameStates
<1>7. CASE /\ g # None
           /\ states' = [states EXCEPT ![runs[r].st].cache = @ \ {g}]
           /\ \/ Goto(r, "ended") /\ UNCHANGED fetching
              \/ runs' = [runs EXCEPT ![r] = AtGOP(@, g)]
           /\ \A f \in fetching' : f \in fetching \/ (f.run = r /\ f.gop \in GOPs)
  <2>1. PICK s \in DOMAIN states : s = runs[r].st
    BY <1>5
  <2>2. PICK cache : cache = states[s].cache \ {g}
    OBVIOUS
  <2>3. cache \in SUBSET Nat /\ cache \subseteq GOPs
    <3>1. states[s].cache \subseteq GOPs
      BY DEF TypeOK, StatesOK, Refs
    <3>2. GOPs \subseteq Nat
      BY RecordingTypes DEF TypeOK, ServerOK
    <3> QED
      BY <2>2, <3>1, <3>2
  <2>4. states' = [states EXCEPT ![s].cache = cache]
    BY <1>7, <2>1, <2>2
  <2>5. /\ OnlyState(s) /\ SameStream(states[s], states'[s])
        /\ states'[s].pos = states[s].pos /\ states'[s].writer = states[s].writer
        /\ states'[s].cache = cache
    BY <2>3, <2>4, OneFieldEffect DEF TypeOK
  <2>6. states'[s].cancel = states[s].cancel
    <3>1. states[s] \in States
      BY StateType DEF TypeOK, StatesOK
    <3>2. states'[s] = [states[s] EXCEPT !.cache = cache]
      BY <2>4 DEF TypeOK, StatesOK
    <3> QED
      BY <3>1, <3>2 DEF States
  <2>7. /\ OnlyRun(r) /\ SameRequest(runs[r], runs'[r])
        /\ runs'[r].last = runs[r].last /\ runs'[r].cancelled = runs[r].cancelled
        /\ runs'[r].sent = runs[r].sent /\ runs'[r].extra = runs[r].extra
        /\ \/ runs'[r].pc = "ended"
           \/ runs'[r].pc = "sample" /\ runs'[r].k = 0 /\ runs'[r].gop = g
    <3>1. CASE Goto(r, "ended")
      BY <3>1, GotoEffect DEF TypeOK, RunPCs
    <3>2. CASE runs' = [runs EXCEPT ![r] = AtGOP(@, g)]
      BY <1>4, <1>7, <3>2, FetchEffect DEF TypeOK
    <3> QED
      BY <1>7, <3>1, <3>2
  <2>8. RunOK(runs'[r])
    BY <1>4, <1>7, <2>7 DEF RunOK
  <2>9. DOMAIN states' = DOMAIN states
    BY <2>5 DEF OnlyState
  <2>10. RunsOK'
    BY <1>5, <2>7, <2>8, <2>9, RunsKept DEF TypeOK
  <2>11. StatesOK'
    <3>1. DOMAIN runs' = DOMAIN runs
      BY <2>7 DEF OnlyRun
    <3> QED
      BY <1>5, <2>3, <2>5, <2>6, <3>1, StatesKept DEF TypeOK, StatesOK, Refs
  <2>12. FetchOK'
    BY <1>5, <1>7, <2>7 DEF TypeOK, FetchOK, OnlyRun, GOPs
  <2>13. TypeOK'
    BY <1>5, <2>9, <2>10, <2>11, <2>12, MoveType
  <2>14. SameStates
    BY <2>5, <2>6, <2>9 DEF SameStates, OnlyState, SameStream, Refs
  <2>15. /\ g \in Metas(r) /\ g > runs[r].gop
         /\ \A x \in Metas(r) : x > runs[r].gop /\ EndTime(x) >= runs[r].start => g <= x
    BY <1>1, <1>4, <1>7
  <2> QED
    BY <1>5, <2>7, <2>9, <2>13, <2>14, <2>15
<1>8. QED
  <2>1. PICK next : next = First({x \in Metas(r) : x > g})
    OBVIOUS
  <2>2. next # None => next \in GOPs
    <3>1. {x \in Metas(r) : x > g} \subseteq Nat /\ {x \in Metas(r) : x > g} \subseteq GOPs
      BY ChoicesAreNumbers DEF Metas, ListGOPs
    <3> QED
      BY <2>1, <3>1, FirstIsLeast
  <2>3. \/ Goto(r, "ended") /\ UNCHANGED <<states, fetching>>
        \/ /\ g # None
           /\ states' = [states EXCEPT ![runs[r].st].cache = @ \ {g}]
           /\ \/ Goto(r, "ended") /\ UNCHANGED fetching
              \/ /\ runs' = [runs EXCEPT ![r] = AtGOP(@, g)]
                 /\ fetching' = fetching \cup (IF next = None THEN {} ELSE {[run |-> r, gop |-> next]})
    BY <1>1, <1>2, <2>1 DEF RunFetch
  <2>4. ASSUME fetching' = fetching \cup (IF next = None THEN {} ELSE {[run |-> r, gop |-> next]})
        PROVE  \A f \in fetching' : f \in fetching \/ (f.run = r /\ f.gop \in GOPs)
    BY <2>2, <2>4
  <2> QED
    BY <1>6, <1>7, <2>3, <2>4

\* RunList, RunDelayCancelled, and RunSend on a closed stream, only move the pc.
LEMMA RunMoveEffect ==
  ASSUME TypeOK, NEW r \in DOMAIN runs,
         \/ \E ok \in ReadResults : RunList(r, ok)
         \/ RunDelayCancelled(r)
         \/ RunSend(r) /\ ~StateOf(r).open
  PROVE  /\ OnlyRun(r) /\ SameRequest(runs[r], runs'[r])
         /\ (runs[r].pc = "list" /\ runs'[r].pc = "fetch") \/ runs'[r].pc = "ended"
         /\ runs'[r].gop = runs[r].gop /\ runs'[r].k = runs[r].k
         /\ runs'[r].cancelled = runs[r].cancelled /\ runs'[r].sent = runs[r].sent
         /\ runs'[r].extra = runs[r].extra /\ TypeOK' /\ SameStates
         /\ UNCHANGED <<recording, serverVars, crashed>>
<1>1. PICK label \in {"fetch", "ended"} :
        /\ Goto(r, label) /\ (label = "fetch" => runs[r].pc = "list")
        /\ UNCHANGED <<recording, serverVars, states, fetching, crashed>>
  BY DEF RunList, RunDelayCancelled, RunSend
<1>2. label \in RunPCs
  BY DEF RunPCs
<1>3. /\ OnlyRun(r) /\ SameRequest(runs[r], runs'[r]) /\ runs'[r].pc = label
      /\ runs'[r].gop = runs[r].gop /\ runs'[r].k = runs[r].k
      /\ runs'[r].cancelled = runs[r].cancelled /\ runs'[r].sent = runs[r].sent
      /\ runs'[r].extra = runs[r].extra
  BY <1>1, <1>2, GotoEffect DEF TypeOK
<1>4. RunOK(runs'[r])
  BY <1>3 DEF RunOK
<1>5. TypeOK'
  BY <1>1, <1>3, <1>4, QuietRunType
<1> QED
  BY <1>1, <1>3, <1>5 DEF SameStates, SameStream

\* RunSample goes on with the next sample that is not skipped, with the next
\* GOP, or ends.
LEMMA RunSampleEffect ==
  ASSUME TypeOK, NEW r \in DOMAIN runs, RunSample(r)
  PROVE  /\ OnlyRun(r) /\ SameRequest(runs[r], runs'[r]) /\ runs[r].pc = "sample"
         /\ runs'[r].gop = runs[r].gop /\ runs'[r].cancelled = runs[r].cancelled
         /\ runs'[r].sent = runs[r].sent /\ runs'[r].extra = runs[r].extra
         /\ \/ runs'[r].pc = "ended"
            \/ runs'[r].pc = "fetch" /\ NextSample(r) = None /\ ~runs[r].cancelled
            \/ /\ runs'[r].pc = "send" /\ runs'[r].k = NextSample(r) /\ NextSample(r) # None
               /\ ~AfterEnd(r, NextSample(r)) /\ ~runs[r].cancelled
         /\ TypeOK' /\ SameStates /\ UNCHANGED <<recording, serverVars, crashed>>
<1>1. PICK k : k = NextSample(r)
  OBVIOUS
<1>2. /\ runs[r].pc = "sample" /\ UNCHANGED <<recording, serverVars, states, fetching, crashed>>
      /\ \/ Goto(r, "ended")
         \/ Goto(r, "fetch") /\ k = None /\ ~Cancelled(r)
         \/ /\ runs' = [runs EXCEPT ![r] = AtSample(@, k)] /\ k # None /\ ~AfterEnd(r, k)
            /\ ~Cancelled(r)
  BY <1>1 DEF RunSample
<1>3. runs[r].gop \in GOPs
  BY <1>2 DEF TypeOK, RunsOK
<1>4. k # None => k \in Nat /\ k \in DOMAIN recording[runs[r].gop].ts
  <2>1. PICK S : S = {x \in DOMAIN recording[runs[r].gop].ts :
                        /\ x > runs[r].k /\ Time(runs[r].gop, x) >= runs[r].start
                        /\ AfterEnd(r, x) \/ ShouldSend(x, runs[r].scale)}
    OBVIOUS
  <2>2. S \subseteq Nat
    BY <1>3, <2>1, ChoicesAreNumbers
  <2>3. k = First(S)
    BY <1>1, <2>1 DEF NextSample
  <2>4. k # None => k \in S
    BY <2>2, <2>3, FirstIsLeast
  <2> QED
    BY <2>1, <2>2, <2>4
<1>5. CASE Goto(r, "ended") \/ (Goto(r, "fetch") /\ k = None /\ ~Cancelled(r))
  <2>1. PICK label \in {"ended", "fetch"} :
          Goto(r, label) /\ (label = "fetch" => k = None /\ ~Cancelled(r))
    BY <1>5
  <2>2. label \in RunPCs
    BY DEF RunPCs
  <2>3. /\ OnlyRun(r) /\ SameRequest(runs[r], runs'[r]) /\ runs'[r].pc = label
        /\ runs'[r].gop = runs[r].gop /\ runs'[r].cancelled = runs[r].cancelled
        /\ runs'[r].sent = runs[r].sent /\ runs'[r].extra = runs[r].extra
    BY <2>1, <2>2, GotoEffect DEF TypeOK
  <2>4. RunOK(runs'[r])
    BY <2>3 DEF RunOK
  <2>5. TypeOK'
    BY <1>2, <2>3, <2>4, QuietRunType
  <2> QED
    BY <1>1, <1>2, <2>1, <2>3, <2>5 DEF SameStates, SameStream, Cancelled
<1>6. CASE /\ runs' = [runs EXCEPT ![r] = AtSample(@, k)] /\ k # None /\ ~AfterEnd(r, k)
           /\ ~Cancelled(r)
  <2>1. /\ OnlyRun(r) /\ SameRequest(runs[r], runs'[r]) /\ runs'[r].pc = "send"
        /\ runs'[r].gop = runs[r].gop /\ runs'[r].k = k
        /\ runs'[r].cancelled = runs[r].cancelled
        /\ runs'[r].sent = runs[r].sent /\ runs'[r].extra = runs[r].extra
    BY <1>4, <1>6, SampleEffect DEF TypeOK
  <2>2. RunOK(runs'[r])
    BY <1>3, <1>4, <1>6, <2>1 DEF RunOK
  <2>3. TypeOK'
    BY <1>2, <2>1, <2>2, QuietRunType
  <2> QED
    BY <1>1, <1>2, <1>6, <2>1, <2>3 DEF SameStates, SameStream, Cancelled
<1> QED
  BY <1>2, <1>5, <1>6

\* RunSend appends the sample to what was sent.
LEMMA RunSendEffect ==
  ASSUME TypeOK, NEW r \in DOMAIN runs, RunSend(r), StateOf(r).open
  PROVE  /\ OnlyRun(r) /\ SameRequest(runs[r], runs'[r]) /\ runs[r].pc = "send"
         /\ runs'[r].pc = "progress" /\ runs'[r].gop = runs[r].gop /\ runs'[r].k = runs[r].k
         /\ runs'[r].cancelled = runs[r].cancelled
         /\ runs'[r].sent = Append(runs[r].sent, <<runs[r].gop, runs[r].k>>)
         /\ runs'[r].extra = runs[r].extra + (IF runs[r].cancelled THEN 1 ELSE 0)
         /\ TypeOK' /\ SameStates /\ UNCHANGED <<recording, serverVars, crashed>>
<1>1. /\ runs[r].pc = "send" /\ UNCHANGED <<recording, serverVars, states, fetching, crashed>>
      /\ runs' = [runs EXCEPT ![r] = HasSent(@, IF Cancelled(r) THEN 1 ELSE 0)]
  BY DEF RunSend
<1>2. PICK extra \in Nat : extra = (IF Cancelled(r) THEN 1 ELSE 0)
  OBVIOUS
<1>3. r # None
  <2>1. DOMAIN runs \subseteq Int
    <3> HIDE DEF Runs
    <3> QED
      BY DEF TypeOK, RunsOK
  <2> QED
    BY <2>1, NoneAssumption
<1>4. extra = (IF runs[r].cancelled THEN 1 ELSE 0)
  BY <1>2, <1>3 DEF Cancelled
<1>5. runs[r].gop \in GOPs /\ runs[r].k \in DOMAIN recording[runs[r].gop].ts
  BY <1>1 DEF TypeOK, RunsOK
<1>6. Time(runs[r].gop, runs[r].k) \in Int
  BY <1>5, RecordingTypes DEF TypeOK, ServerOK
<1>7. runs' = [runs EXCEPT ![r] = HasSent(@, extra)]
  BY <1>1, <1>2
<1>8. /\ OnlyRun(r) /\ SameRequest(runs[r], runs'[r]) /\ runs'[r].pc = "progress"
      /\ runs'[r].gop = runs[r].gop /\ runs'[r].k = runs[r].k
      /\ runs'[r].last = Time(runs[r].gop, runs[r].k)
      /\ runs'[r].cancelled = runs[r].cancelled
      /\ runs'[r].sent = Append(runs[r].sent, <<runs[r].gop, runs[r].k>>)
      /\ runs'[r].extra = runs[r].extra + extra
  BY <1>6, <1>7, SendEffect DEF TypeOK
<1>9. RunOK(runs'[r])
  BY <1>5, <1>8 DEF RunOK
<1>10. TypeOK'
  BY <1>1, <1>8, <1>9, QuietRunType
<1> QED
  BY <1>1, <1>4, <1>8, <1>10 DEF SameStates, SameStream

\* RunProgress records the time of the sample that was sent last.
LEMMA RunProgressEffect ==
  ASSUME TypeOK, NEW r \in DOMAIN runs, RunProgress(r)
  PROVE  /\ OnlyRun(r) /\ SameRequest(runs[r], runs'[r]) /\ runs[r].pc = "progress"
         /\ runs'[r].pc = "sample" /\ runs'[r].gop = runs[r].gop /\ runs'[r].k = runs[r].k
         /\ runs'[r].cancelled = runs[r].cancelled /\ runs'[r].sent = runs[r].sent
         /\ runs'[r].extra = runs[r].extra
         /\ runs[r].st \in Refs /\ OnlyState(runs[r].st)
         /\ SameStream(states[runs[r].st], states'[runs[r].st])
         /\ states'[runs[r].st].pos = Time(runs[r].gop, runs[r].k)
         /\ states'[runs[r].st].cancel = states[runs[r].st].cancel
         /\ states'[runs[r].st].writer = r
         /\ TypeOK' /\ UNCHANGED <<recording, serverVars, crashed>>
<1>1. /\ runs[r].pc = "progress" /\ UNCHANGED <<recording, serverVars, fetching, crashed>>
      /\ Goto(r, "sample")
      /\ states' = [states EXCEPT ![runs[r].st] = Progressed(@, runs[r].last, r)]
  BY DEF RunProgress
<1>2. /\ runs[r].gop \in GOPs /\ runs[r].k \in DOMAIN recording[runs[r].gop].ts
      /\ runs[r].last = Time(runs[r].gop, runs[r].k) /\ runs[r].st \in DOMAIN states
  BY <1>1 DEF TypeOK, RunsOK, Refs
<1>3. PICK pos \in Int : pos = Time(runs[r].gop, runs[r].k)
  BY <1>2, RecordingTypes DEF TypeOK, ServerOK
<1>4. PICK s \in DOMAIN states : s = runs[r].st
  BY <1>2
<1>5. states' = [states EXCEPT ![s] = Progressed(@, pos, r)]
  BY <1>1, <1>2, <1>3, <1>4
<1>6. r \in Nat
  <2> HIDE DEF Runs
  <2> QED
    BY DEF TypeOK, RunsOK
<1>7. /\ OnlyState(s) /\ SameStream(states[s], states'[s])
      /\ states'[s].pos = pos /\ states'[s].cancel = states[s].cancel /\ states'[s].writer = r
      /\ states'[s].cache = states[s].cache
  BY <1>5, <1>6, ProgressStateEffect DEF TypeOK
<1>8. /\ OnlyRun(r) /\ SameRequest(runs[r], runs'[r]) /\ runs'[r].pc = "sample"
      /\ runs'[r].gop = runs[r].gop /\ runs'[r].k = runs[r].k
      /\ runs'[r].cancelled = runs[r].cancelled /\ runs'[r].sent = runs[r].sent
      /\ runs'[r].extra = runs[r].extra
  BY <1>1, GotoEffect DEF TypeOK, RunPCs
<1>9. RunOK(runs'[r])
  BY <1>2, <1>8 DEF RunOK
<1>10. RunsOK'
  BY <1>1, <1>7, <1>8, <1>9, RunsKept DEF TypeOK, OnlyState
<1>11. StatesOK'
  <2>1. DOMAIN runs' = DOMAIN runs
    BY <1>8 DEF OnlyRun
  <2> QED
    BY <1>1, <1>7, <2>1, StatesKept DEF TypeOK, StatesOK, Refs
<1>12. FetchOK'
  BY <1>1, <1>8 DEF TypeOK, FetchOK, OnlyRun, GOPs
<1>13. TypeOK'
  BY <1>1, <1>7, <1>10, <1>11, <1>12, MoveType DEF OnlyState
<1> QED
  BY <1>1, <1>3, <1>4, <1>7, <1>8, <1>13 DEF Refs

\* Prefetch changes one cache.
LEMMA PrefetchEffect ==
  ASSUME TypeOK, NEW f \in fetching, NEW ok \in ReadResults, Prefetch(f, ok)
  PROVE  TypeOK' /\ SameStates /\ runs' = runs /\ UNCHANGED <<recording, serverVars, crashed>>
<1>1. /\ fetching' = fetching \ {f} /\ UNCHANGED <<recording, serverVars, runs, crashed>>
      /\ \/ UNCHANGED states
         \/ \E cache \in AfterInsert(CacheOf(f) \cup {f.gop}) :
              states' = [states EXCEPT ![runs[f.run].st].cache = cache]
  BY DEF Prefetch
<1>2. RunsOK' /\ FetchOK'
  <2>1. FetchOK'
    BY <1>1 DEF TypeOK, FetchOK, GOPs
  <2>2. DOMAIN states' = DOMAIN states
    BY <1>1
  <2> QED
    BY <1>1, <2>1, <2>2 DEF TypeOK, RunsOK, GOPs, Refs, Time
<1>3. CASE UNCHANGED states
  <2>1. StatesOK'
    BY <1>1, <1>3 DEF TypeOK, StatesOK, Refs, GOPs
  <2> QED
    BY <1>1, <1>2, <1>3, <2>1, MoveType DEF SameStates, SameStream
<1>4. ASSUME NEW cache \in AfterInsert(CacheOf(f) \cup {f.gop}),
             states' = [states EXCEPT ![runs[f.run].st].cache = cache]
      PROVE  TypeOK' /\ SameStates
  <2>1. f.run \in DOMAIN runs /\ f.gop \in GOPs
    BY DEF TypeOK, FetchOK
  <2>2. PICK s \in DOMAIN states : s = runs[f.run].st
    BY <2>1 DEF TypeOK, RunsOK, Refs
  <2>3. cache \subseteq GOPs
    <3>1. CacheOf(f) \subseteq GOPs
      BY <2>2 DEF CacheOf, TypeOK, StatesOK, Refs
    <3> QED
      BY <1>4, <2>1, <3>1 DEF AfterInsert
  <2>4. cache \in SUBSET Nat
    BY <2>3, RecordingTypes DEF TypeOK, ServerOK
  <2>5. states' = [states EXCEPT ![s].cache = cache]
    BY <1>4, <2>2
  <2>6. /\ OnlyState(s) /\ SameStream(states[s], states'[s])
        /\ states'[s].pos = states[s].pos /\ states'[s].writer = states[s].writer
        /\ states'[s].cache = cache
    BY <2>4, <2>5, OneFieldEffect DEF TypeOK
  <2>7. states'[s].cancel = states[s].cancel
    <3>1. states[s] \in States
      BY StateType DEF TypeOK, StatesOK
    <3>2. states'[s] = [states[s] EXCEPT !.cache = cache]
      BY <2>5
    <3> QED
      BY <3>1, <3>2 DEF States
  <2>8. StatesOK'
    BY <1>1, <2>3, <2>6, <2>7, StatesKept DEF TypeOK, StatesOK, Refs
  <2>9. SameStates
    BY <2>6, <2>7 DEF SameStates, OnlyState, SameStream, Refs
  <2> QED
    BY <1>1, <1>2, <2>8, <2>9, MoveType DEF SameStates
<1> QED
  BY <1>1, <1>3, <1>4

\* The steps, by what they change.
Answer == Setup \/ ConnClose \/ \E req \in PlayRequests : PlayResolve(req.range, req.scale)
Moved(r) ==
  \/ \E ok \in ReadResults : RunList(r, ok)
  \/ RunDelayCancelled(r)
  \/ RunSend(r) /\ ~StateOf(r).open

\* Every step is one of these.
LEMMA StepCases ==
  ASSUME Next
  PROVE  \/ \E req \in Requests : Describe(req)
         \/ Answer \/ PlayStart \/ Pause \/ SessionClose
         \/ \E r \in DOMAIN runs :
              \/ Moved(r) \/ RunSample(r) \/ SendPanics(r) \/ RunProgress(r)
              \/ RunSend(r) /\ StateOf(r).open
              \/ \E ok \in ReadResults : RunFetch(r, ok)
         \/ \E f \in fetching, ok \in ReadResults : Prefetch(f, ok)
  BY Zenon DEF Next, HandlerStep, RunStep, Prefetching, Answer, Moved

\* SendPanics ends the process.
LEMMA PanicType ==
  ASSUME TypeOK, NEW r \in DOMAIN runs, SendPanics(r)
  PROVE  TypeOK' /\ UNCHANGED <<recording, serverVars, states, runs, fetching>>
<1>1. crashed' = TRUE /\ UNCHANGED <<recording, serverVars, states, runs, fetching>>
  BY DEF SendPanics
<1>2. StatesOK' /\ RunsOK' /\ FetchOK'
  BY <1>1 DEF TypeOK, StatesOK, RunsOK, FetchOK, Refs, GOPs, Time
<1>3. ServerOK'
  BY <1>1 DEF TypeOK, ServerOK, Refs, serverVars
<1> QED
  BY <1>1, <1>2, <1>3 DEF TypeOK

\* Every step keeps the types.
LEMMA NextType ==
  ASSUME TypeOK, [Next]_vars
  PROVE  TypeOK'
<1>1. CASE UNCHANGED vars
  <2>1. UNCHANGED <<recording, conn, pending, session, phase, call, states, runs, fetching, crashed>>
    BY <1>1 DEF vars, serverVars
  <2>2. StatesOK' /\ RunsOK' /\ FetchOK'
    BY <2>1 DEF TypeOK, StatesOK, RunsOK, FetchOK, Refs, GOPs, Time
  <2>3. ServerOK'
    BY <2>1 DEF TypeOK, ServerOK, Refs
  <2> QED
    BY <2>2, <2>3 DEF TypeOK
<1>2. ASSUME NEW req \in Requests, Describe(req)
      PROVE  TypeOK'
  BY <1>2, DescribeType
<1>3. CASE Answer
  BY <1>3, ServerType DEF Answer
<1>4. CASE PlayStart
  BY <1>4, PlayStartType
<1>5. CASE Pause \/ SessionClose
  BY <1>5, StopType
<1>6. ASSUME NEW r \in DOMAIN runs,
             \/ Moved(r) \/ RunSample(r) \/ SendPanics(r) \/ RunProgress(r)
             \/ RunSend(r) /\ StateOf(r).open
             \/ \E ok \in ReadResults : RunFetch(r, ok)
      PROVE  TypeOK'
  <2>1. CASE Moved(r)
    BY <2>1, RunMoveEffect DEF Moved
  <2>2. CASE RunSample(r)
    BY <2>2, RunSampleEffect
  <2>3. CASE SendPanics(r)
    BY <2>3, PanicType
  <2>4. CASE RunProgress(r)
    BY <2>4, RunProgressEffect
  <2>5. CASE RunSend(r) /\ StateOf(r).open
    BY <2>5, RunSendEffect
  <2>6. CASE \E ok \in ReadResults : RunFetch(r, ok)
    BY <2>6, RunFetchEffect
  <2> QED
    BY <1>6, <2>1, <2>2, <2>3, <2>4, <2>5, <2>6
<1>7. ASSUME NEW f \in fetching, NEW ok \in ReadResults, Prefetch(f, ok)
      PROVE  TypeOK'
  BY <1>7, PrefetchEffect
<1> QED
  BY <1>1, <1>2, <1>3, <1>4, <1>5, <1>6, <1>7, StepCases

\* Type correctness of the playback server: whatever the client asks for and in
\* whatever order, every variable has its type, and no handler, goroutine or
\* prefetch refers to a state, a run, a GOP or a sample that does not exist.
THEOREM TypeCorrect == Spec => []TypeOK
<1>1. TypeOK /\ [Next]_vars => TypeOK'
  BY NextType
<1> QED
  BY <1>1, InitType, PTL DEF Spec

-----------------------------------------------------------------------------
(* Cancelling *)

\* What cancelling rests on: a run that goes on and was not cancelled is the one
\* the state remembers, and its session plays, so that no SETUP can give the
\* session another state; and a run that has sent a sample after it was
\* cancelled will look at its context before it sends another.
LiveInv ==
  \A r \in DOMAIN runs :
    runs[r].pc # "ended" /\ ~runs[r].cancelled =>
      StateOf(r).cancel = r /\ session = runs[r].st /\ phase = "playing"
OnceInv ==
  \A r \in DOMAIN runs :
    /\ runs[r].extra <= 1
    /\ runs[r].extra = 1 => runs[r].cancelled /\ runs[r].pc \in {"progress", "sample", "ended"}

\* A step of one run that leaves its state's goroutine and its own context alone.
LEMMA LiveKept ==
  ASSUME TypeOK, LiveInv, NEW r \in DOMAIN runs, OnlyRun(r), SameRequest(runs[r], runs'[r]),
         runs'[r].cancelled = runs[r].cancelled, runs[r].pc # "ended",
         \A s \in Refs : states'[s].cancel = states[s].cancel, session' = session, phase' = phase
  PROVE  LiveInv'
<1> SUFFICES ASSUME NEW x \in DOMAIN runs', runs'[x].pc # "ended", ~runs'[x].cancelled
             PROVE  /\ states'[runs'[x].st].cancel = x /\ session' = runs'[x].st
                    /\ phase' = "playing"
  BY DEF LiveInv, StateOf
<1>1. /\ x \in DOMAIN runs /\ runs'[x].st = runs[x].st
      /\ runs'[x].cancelled = runs[x].cancelled /\ runs[x].pc # "ended"
  BY DEF OnlyRun, SameRequest
<1>2. runs[x].st \in Refs
  BY <1>1 DEF TypeOK, RunsOK
<1> QED
  BY <1>1, <1>2 DEF LiveInv, StateOf

LEMMA NextLive ==
  ASSUME TypeOK, LiveInv, [Next]_vars
  PROVE  LiveInv'
<1>0. \A x \in DOMAIN runs : runs[x].st \in Refs
  BY DEF TypeOK, RunsOK
<1>1. CASE UNCHANGED vars
  BY <1>1 DEF LiveInv, vars, serverVars, StateOf
<1>2. ASSUME NEW req \in Requests, Describe(req)
      PROVE  LiveInv'
  <2>1. runs' = runs /\ session' = session /\ phase' = phase
    BY <1>2 DEF Describe
  <2>2. \A s \in Refs : states'[s] = states[s]
    BY <1>2, DescribeType
  <2> QED
    BY <1>0, <2>1, <2>2 DEF LiveInv, StateOf
<1>3. CASE Answer
  <2>1. states' = states /\ runs' = runs
    BY <1>3 DEF Answer, Setup, ConnClose, PlayResolve
  <2>2. (session' = session /\ phase' = phase) \/ phase # "playing"
    BY <1>3 DEF Answer, Setup, ConnClose, PlayResolve
  <2> QED
    BY <2>1, <2>2 DEF LiveInv, StateOf
<1>4. CASE PlayStart
  <2> DEFINE c == states[session].cancel
  <2>1. /\ session \in Refs /\ DOMAIN runs' = 1 .. Len(runs) + 1 /\ DOMAIN runs = 1 .. Len(runs)
        /\ \A x \in DOMAIN runs : runs'[x] = CancelRun(c)[x]
        /\ runs'[Len(runs) + 1] = NewRun /\ states'[session].cancel = Len(runs) + 1
    BY <1>4, PlayStartEffect
  <2>2. session' = session /\ phase' = "playing" /\ NewRun.st = session
    BY <1>4 DEF PlayStart, NewRun
  <2>3. c \in DOMAIN runs \cup {None}
    BY <2>1 DEF TypeOK, StatesOK
  <2> HIDE DEF c
  <2>4. ASSUME NEW x \in DOMAIN runs, runs'[x].pc # "ended"
        PROVE  runs'[x].cancelled
    <3>1. /\ runs'[x].pc = runs[x].pc
          /\ x = c \/ runs[x].cancelled => runs'[x].cancelled
      BY <2>1, <2>3, CancelEffect DEF TypeOK
    <3> QED
      BY <2>4, <3>1 DEF LiveInv, StateOf, c
  <2>5. ASSUME NEW x \in DOMAIN runs', x \notin DOMAIN runs
        PROVE  x = Len(runs) + 1
    <3>1. Len(runs) \in Nat
      BY DEF TypeOK, RunsOK
    <3>2. PICK n \in Nat : n = Len(runs)
      BY <3>1
    <3> QED
      BY <2>1, <2>5, <3>2
  <2>6. ASSUME NEW x \in DOMAIN runs', runs'[x].pc # "ended", ~runs'[x].cancelled
        PROVE  x = Len(runs) + 1
    BY <2>4, <2>5, <2>6
  <2>7. ASSUME NEW x \in DOMAIN runs', runs'[x].pc # "ended", ~runs'[x].cancelled
        PROVE  /\ states'[runs'[x].st].cancel = x /\ session' = runs'[x].st
               /\ phase' = "playing"
    BY <2>1, <2>2, <2>6, <2>7
  <2> QED
    BY <2>7 DEF LiveInv, StateOf
<1>5. CASE Pause \/ SessionClose
  <2> DEFINE c == states[session].cancel
  <2>1. session \in Refs /\ runs' = CancelRun(c)
    BY <1>5, StopEffect
  <2>2. c \in DOMAIN runs \cup {None}
    BY <2>1 DEF TypeOK, StatesOK
  <2> HIDE DEF c
  <2>3. ASSUME NEW x \in DOMAIN runs', runs'[x].pc # "ended"
        PROVE  runs'[x].cancelled
    <3>1. /\ x \in DOMAIN runs /\ runs'[x].pc = runs[x].pc
          /\ x = c \/ runs[x].cancelled => runs'[x].cancelled
      BY <2>1, <2>2, CancelEffect DEF TypeOK
    <3> QED
      BY <2>3, <3>1 DEF LiveInv, StateOf, c
  <2> QED
    BY <2>3 DEF LiveInv
<1>6. ASSUME NEW r \in DOMAIN runs,
             \/ Moved(r) \/ RunSample(r) \/ SendPanics(r) \/ RunProgress(r)
             \/ RunSend(r) /\ StateOf(r).open
             \/ \E ok \in ReadResults : RunFetch(r, ok)
      PROVE  LiveInv'
  <2>1. CASE Moved(r)
    <3>1. runs[r].pc # "ended"
      BY <2>1 DEF Moved, RunList, RunDelayCancelled, RunSend
    <3> QED
      BY <2>1, <3>1, RunMoveEffect, LiveKept DEF Moved, SameStates, serverVars
  <2>2. CASE RunSample(r)
    BY <2>2, RunSampleEffect, LiveKept DEF SameStates, serverVars
  <2>3. CASE SendPanics(r)
    BY <2>3 DEF SendPanics, LiveInv, StateOf, serverVars
  <2>4. CASE RunProgress(r)
    BY <2>4, RunProgressEffect, LiveKept DEF OnlyState, Refs, serverVars
  <2>5. CASE RunSend(r) /\ StateOf(r).open
    BY <2>5, RunSendEffect, LiveKept DEF SameStates, serverVars
  <2>6. CASE \E ok \in ReadResults : RunFetch(r, ok)
    BY <2>6, RunFetchEffect, LiveKept DEF SameStates, serverVars
  <2> QED
    BY <1>6, <2>1, <2>2, <2>3, <2>4, <2>5, <2>6
<1>7. ASSUME NEW f \in fetching, NEW ok \in ReadResults, Prefetch(f, ok)
      PROVE  LiveInv'
  <2>1. SameStates /\ runs' = runs /\ session' = session /\ phase' = phase
    BY <1>7, PrefetchEffect DEF serverVars
  <2> QED
    BY <1>0, <2>1 DEF LiveInv, StateOf, SameStates
<1> QED
  BY <1>1, <1>2, <1>3, <1>4, <1>5, <1>6, <1>7, StepCases

LEMMA NextOnce ==
  ASSUME TypeOK, OnceInv, [Next]_vars
  PROVE  OnceInv'
<1>0. \A x \in DOMAIN runs : runs[x].extra \in Nat /\ runs[x].cancelled \in BOOLEAN
  <2>1. \A x \in DOMAIN runs : runs[x] \in Runs
    BY RunType DEF TypeOK, RunsOK
  <2> QED
    BY <2>1 DEF Runs
<1>1. CASE runs' = runs
  BY <1>1 DEF OnceInv
<1>2. CASE PlayStart
  <2> DEFINE c == states[session].cancel
  <2>1. /\ session \in Refs /\ DOMAIN runs' = 1 .. Len(runs) + 1 /\ DOMAIN runs = 1 .. Len(runs)
        /\ \A x \in DOMAIN runs : runs'[x] = CancelRun(c)[x]
        /\ runs'[Len(runs) + 1] = NewRun
    BY <1>2, PlayStartEffect
  <2>2. NewRun.extra = 0
    BY DEF NewRun
  <2>3. c \in DOMAIN runs \cup {None}
    BY <2>1 DEF TypeOK, StatesOK
  <2> HIDE DEF c
  <2>4. ASSUME NEW x \in DOMAIN runs
        PROVE  /\ runs'[x].extra <= 1
               /\ runs'[x].extra = 1 =>
                    runs'[x].cancelled /\ runs'[x].pc \in {"progress", "sample", "ended"}
    BY <2>1, <2>3, CancelEffect DEF TypeOK, OnceInv
  <2>5. ASSUME NEW x \in DOMAIN runs', x \notin DOMAIN runs
        PROVE  runs'[x].extra = 0
    <3>1. PICK n \in Nat : n = Len(runs)
      BY DEF TypeOK, RunsOK
    <3> QED
      BY <2>1, <2>2, <2>5, <3>1
  <2> QED
    BY <2>4, <2>5 DEF OnceInv
<1>3. CASE Pause \/ SessionClose
  <2> DEFINE c == states[session].cancel
  <2>1. session \in Refs /\ runs' = CancelRun(c)
    BY <1>3, StopEffect
  <2>2. c \in DOMAIN runs \cup {None}
    BY <2>1 DEF TypeOK, StatesOK
  <2> HIDE DEF c
  <2> QED
    BY <2>1, <2>2, CancelEffect DEF TypeOK, OnceInv
<1>4. ASSUME NEW r \in DOMAIN runs,
             \/ Moved(r) \/ RunSample(r) \/ SendPanics(r) \/ RunProgress(r)
             \/ RunSend(r) /\ StateOf(r).open
             \/ \E ok \in ReadResults : RunFetch(r, ok)
      PROVE  OnceInv'
  <2>0. ASSUME OnlyRun(r), runs'[r].cancelled = runs[r].cancelled, runs'[r].extra = runs[r].extra,
               \/ runs'[r].pc \in {"progress", "sample", "ended"}
               \/ runs[r].pc \notin {"progress", "sample", "ended"}
               \/ ~runs[r].cancelled
        PROVE  OnceInv'
    BY <1>0, <2>0 DEF OnceInv, OnlyRun
  <2>1. CASE Moved(r)
    <3>1. runs[r].pc \in {"list", "send"}
      BY <2>1 DEF Moved, RunList, RunDelayCancelled, RunSend
    <3> QED
      BY <2>0, <2>1, <3>1, RunMoveEffect DEF Moved
  <2>2. CASE RunSample(r)
    BY <2>0, <2>2, RunSampleEffect
  <2>3. CASE SendPanics(r)
    BY <1>1, <2>3 DEF SendPanics
  <2>4. CASE RunProgress(r)
    BY <2>0, <2>4, RunProgressEffect
  <2>5. CASE RunSend(r) /\ StateOf(r).open
    <3>1. /\ OnlyRun(r) /\ runs'[r].cancelled = runs[r].cancelled /\ runs[r].pc = "send"
          /\ runs'[r].pc = "progress"
          /\ runs'[r].extra = runs[r].extra + (IF runs[r].cancelled THEN 1 ELSE 0)
      BY <2>5, RunSendEffect
    <3>2. runs[r].extra = 0
      BY <1>0, <3>1 DEF OnceInv
    <3>3. CASE runs[r].cancelled
      <4>1. runs'[r].extra = 1 /\ runs'[r].cancelled
        BY <3>1, <3>2, <3>3
      <4> QED
        BY <1>0, <3>1, <4>1 DEF OnceInv, OnlyRun
    <3>4. CASE ~runs[r].cancelled
      BY <3>1, <3>2, <3>4 DEF OnceInv, OnlyRun
    <3> QED
      BY <3>3, <3>4
  <2>6. CASE \E ok \in ReadResults : RunFetch(r, ok)
    BY <2>0, <2>6, RunFetchEffect
  <2> QED
    BY <1>4, <2>1, <2>2, <2>3, <2>4, <2>5, <2>6
<1>5. CASE \/ UNCHANGED vars \/ Answer \/ \E req \in Requests : Describe(req)
           \/ \E f \in fetching, ok \in ReadResults : Prefetch(f, ok)
  <2>1. runs' = runs
    BY <1>5 DEF vars, Answer, Setup, ConnClose, PlayResolve, Describe, Prefetch
  <2> QED
    BY <1>1, <2>1
<1> QED
  BY <1>2, <1>3, <1>4, <1>5, StepCases

\* Every goroutine can be stopped: one that has not ended and was not cancelled
\* is the one its state remembers, and the session of the client still has that
\* state, whatever DESCRIBEs, SETUPs, PLAYs and PAUSEs came before.
THEOREM NoOrphan == Spec => []NoOrphanRun
<1>1. Init => TypeOK /\ LiveInv
  BY InitType DEF Init, LiveInv
<1>2. TypeOK /\ LiveInv /\ [Next]_vars => (TypeOK /\ LiveInv)'
  BY NextType, NextLive
<1>3. TypeOK /\ LiveInv => NoOrphanRun
  BY DEF LiveInv, NoOrphanRun
<1> QED
  BY <1>1, <1>2, <1>3, PTL DEF Spec

\* A goroutine that was cancelled sends at most the sample it had decided to
\* send, however late it looks at its context and however many PLAYs, PAUSEs and
\* TEARDOWNs there are.
THEOREM CancelIsPrompt == Spec => []CancelledSendsOnce
<1>1. Init => TypeOK /\ OnceInv
  BY InitType DEF Init, OnceInv
<1>2. TypeOK /\ OnceInv /\ [Next]_vars => (TypeOK /\ OnceInv)'
  BY NextType, NextOnce
<1>3. TypeOK /\ OnceInv => CancelledSendsOnce
  BY DEF OnceInv, CancelledSendsOnce
<1> QED
  BY <1>1, <1>2, <1>3, PTL DEF Spec

-----------------------------------------------------------------------------
(* Times *)

\* The GOPs of the recordings are regular.
RegularRecordings == \A rec \in Recordings : \A g \in DOMAIN rec : Regular(rec[g].ts)

\* A sample is played at the time it was recorded, in a GOP of any length whose
\* samples are regular: no timestamp comes back later than it was, and none
\* earlier by more than a unit for each sample before it.
THEOREM TimesAreKept == RegularRecordings => (Spec => []TimesKept)
<1> SUFFICES ASSUME RegularRecordings PROVE Spec => []TimesKept
  OBVIOUS
<1>1. TypeOK => TimesKept
  <2> SUFFICES ASSUME TypeOK, NEW g \in GOPs, NEW k \in DOMAIN recording[g].ts
               PROVE  recording[g].ts[k] - Time(g, k) \in 0 .. FromScale(k - 1) + 1
    BY DEF TimesKept
  <2>1. recording \in Recordings
    BY DEF TypeOK, ServerOK
  <2>2. PICK ts \in Seq(Int) : ts = recording[g].ts /\ ts # <<>> /\ DOMAIN ts = 1 .. Len(ts)
    BY <2>1, RecordingTypes
  <2>3. Regular(ts)
    BY <2>1, <2>2 DEF RegularRecordings, GOPs
  <2>4. ts[k] - ParsedTime(ts, k) \in 0 .. FromScale(k - 1) + 1
    BY <2>2, <2>3, RegularTimes
  <2> QED
    BY <2>2, <2>4 DEF Time
<1> QED
  BY <1>1, TypeCorrect, PTL

-----------------------------------------------------------------------------
(* What is sent *)

\* Recordings that ListGOPs and the loop of runPlayback are made for: the GOPs are
\* regular, follow one another in time, and each but the last is no longer than
\* ListGOPs looks back.
Playable ==
  \A rec \in Recordings : \A g, h \in DOMAIN rec :
    /\ Regular(rec[g].ts)
    /\ g < h => /\ rec[g].ts[Len(rec[g].ts)] <= rec[h].ts[1]
                /\ rec[g].ts[Len(rec[g].ts)] - rec[g].ts[1] <= Lookback

\* The timestamps of a regular GOP increase.
LEMMA RegularOrdered ==
  ASSUME NEW ts \in Seq(Int), ts # <<>>, Regular(ts)
  PROVE  \A k \in 1 .. Len(ts) : ts[k] <= ts[Len(ts)]
<1>1. PICK n \in Nat : n = Len(ts) /\ n # 0
  OBVIOUS
<1>2. \A k \in 1 .. n : ts[k] \in Int
  BY <1>1
<1> DEFINE Good == {j \in 1 .. n : \A k \in 1 .. j : ts[k] <= ts[j]}
<1>3. 1 \in Good
  BY <1>1, <1>2
<1>4. ASSUME NEW j \in 1 .. n - 1, j \in Good
      PROVE  j + 1 \in Good
  <2>1. ts[j] < ts[j + 1]
    BY <1>1, RegularDuration
  <2>2. ASSUME NEW k \in 1 .. j + 1 PROVE ts[k] <= ts[j + 1]
    <3>1. CASE k = j + 1
      BY <1>2, <3>1
    <3>2. CASE k # j + 1
      <4>1. k \in 1 .. j /\ k \in 1 .. n
        BY <3>2
      <4>2. ts[k] <= ts[j]
        BY <1>4, <4>1
      <4>3. ts[k] \in Int /\ ts[j] \in Int /\ ts[j + 1] \in Int
        BY <1>2, <4>1
      <4> QED
        BY <2>1, <4>2, <4>3
    <3> QED
      BY <3>1, <3>2
  <2> QED
    BY <2>2
<1> HIDE DEF Good
<1>5. \A j \in 1 .. n : j \in Good
  BY <1>3, <1>4, Induction
<1>6. n \in Good
  BY <1>1, <1>5
<1> QED
  BY <1>1, <1>6 DEF Good

\* A sample is a number of a GOP and a number in it.
LEMMA SampleIdsArePairs ==
  ASSUME recording \in Recordings
  PROVE  /\ \A w \in SampleIds : /\ w = <<w[1], w[2]>> /\ w[1] \in GOPs
                                 /\ w[2] \in DOMAIN recording[w[1]].ts
                                 /\ w[1] \in Nat \ {0} /\ w[2] \in Nat \ {0} /\ At(w) \in Int
         /\ \A g \in GOPs : \A k \in DOMAIN recording[g].ts : <<g, k>> \in SampleIds
<1>1. ASSUME NEW w \in SampleIds
      PROVE  /\ w = <<w[1], w[2]>> /\ w[1] \in GOPs /\ w[2] \in DOMAIN recording[w[1]].ts
             /\ w[1] \in Nat \ {0} /\ w[2] \in Nat \ {0} /\ At(w) \in Int
  <2>1. PICK g \in GOPs : \E k \in DOMAIN recording[g].ts : w = <<g, k>>
    BY <1>1 DEF SampleIds
  <2>2. PICK k \in DOMAIN recording[g].ts : w = <<g, k>>
    BY <2>1
  <2>3. g \in Nat \ {0} /\ Time(g, k) \in Int
    BY RecordingTypes
  <2>4. PICK n \in Nat : n = Len(recording[g].ts) /\ DOMAIN recording[g].ts = 1 .. n
    BY RecordingTypes
  <2>5. k \in Nat \ {0}
    BY <2>4
  <2> QED
    BY <2>2, <2>3, <2>5 DEF At
<1>2. ASSUME NEW g \in GOPs, NEW k \in DOMAIN recording[g].ts
      PROVE  <<g, k>> \in SampleIds
  BY DEF SampleIds
<1> QED
  BY <1>1, <1>2

\* The samples of a recording that can be played are in the order of their times.
LEMMA PlayableTimes ==
  ASSUME Playable, recording \in Recordings
  PROVE  /\ \A w \in SampleIds : StartTime(w[1]) <= At(w) /\ At(w) <= EndTime(w[1])
         /\ \A v, w \in SampleIds : Precedes(v, w) => At(v) <= At(w)
         /\ \A g, h \in GOPs : g < h => /\ StartTime(g) <= EndTime(g)
                                        /\ EndTime(g) <= StartTime(h)
                                        /\ EndTime(g) - StartTime(g) <= Lookback
<1>1. ASSUME NEW g \in GOPs
      PROVE  /\ \A k \in DOMAIN recording[g].ts :
                  StartTime(g) <= Time(g, k) /\ Time(g, k) <= EndTime(g)
             /\ \A k, i \in DOMAIN recording[g].ts : i < k => Time(g, i) <= Time(g, k)
             /\ StartTime(g) <= EndTime(g)
  <2>1. PICK ts \in Seq(Int) : ts = recording[g].ts /\ ts # <<>>
    BY RecordingTypes
  <2>2. Regular(ts)
    BY <2>1 DEF Playable, GOPs
  <2>3. PICK n \in Nat \ {0} : n = Len(ts) /\ DOMAIN ts = 1 .. n
    BY <2>1
  <2>4. ASSUME NEW k \in 1 .. n
        PROVE  ts[1] <= ParsedTime(ts, k) /\ ParsedTime(ts, k) <= ts[n]
    <3>1. /\ ParsedTime(ts, k) \in Int /\ ts[1] <= ParsedTime(ts, k)
          /\ ts[k] - ParsedTime(ts, k) \in 0 .. FromScale(k - 1) + 1
      BY <2>1, <2>2, <2>3, RegularTimes
    <3>2. ts[k] <= ts[n]
      BY <2>1, <2>2, <2>3, RegularOrdered
    <3>3. k - 1 \in Nat
      OBVIOUS
    <3>4. PICK f \in Nat : f = FromScale(k - 1)
      BY <3>3, FromScaleBounds
    <3>5. ts[k] \in Int /\ ts[n] \in Int
      BY <2>3
    <3>6. PICK p \in Int : p = ParsedTime(ts, k)
      BY <3>1
    <3>7. ts[k] - p >= 0
      BY <3>1, <3>4, <3>5, <3>6
    <3> QED
      BY <3>1, <3>2, <3>5, <3>6, <3>7
  <2>5. ASSUME NEW k \in 1 .. n, NEW i \in 1 .. n, i < k
        PROVE  ParsedTime(ts, i) <= ParsedTime(ts, k)
    <3>1. i \in 1 .. k
      BY <2>5
    <3> QED
      BY <2>1, <2>2, <2>3, <3>1, RegularTimesOrdered
  <2>6. ts[1] <= ts[n]
    BY <2>1, <2>2, <2>3, RegularOrdered
  <2> QED
    BY <2>1, <2>3, <2>4, <2>5, <2>6 DEF StartTime, EndTime, Time
<1>2. \A g, h \in GOPs : g < h => /\ EndTime(g) <= StartTime(h)
                                  /\ EndTime(g) - StartTime(g) <= Lookback
  BY DEF Playable, GOPs, StartTime, EndTime
<1>3. ASSUME NEW w \in SampleIds
      PROVE  StartTime(w[1]) <= At(w) /\ At(w) <= EndTime(w[1])
  BY <1>1, SampleIdsArePairs DEF At
<1>4. ASSUME NEW v \in SampleIds, NEW w \in SampleIds, Precedes(v, w)
      PROVE  At(v) <= At(w)
  <2>1. /\ v[1] \in GOPs /\ w[1] \in GOPs /\ v[2] \in DOMAIN recording[v[1]].ts
        /\ w[2] \in DOMAIN recording[w[1]].ts /\ At(v) \in Int /\ At(w) \in Int
    BY SampleIdsArePairs
  <2>2. CASE v[1] < w[1]
    <3>1. At(v) <= EndTime(v[1]) /\ EndTime(v[1]) <= StartTime(w[1]) /\ StartTime(w[1]) <= At(w)
      BY <1>2, <1>3, <2>1, <2>2
    <3>2. EndTime(v[1]) \in Int /\ StartTime(w[1]) \in Int
      BY <2>1, RecordingTypes
    <3> QED
      BY <2>1, <3>1, <3>2
  <2>3. CASE v[1] = w[1] /\ v[2] < w[2]
    BY <1>1, <2>1, <2>3 DEF At
  <2> QED
    BY <1>4, <2>2, <2>3 DEF Precedes
<1> QED
  BY <1>1, <1>2, <1>3, <1>4

\* The samples a run has gone by, sent or not.
Passed(run, w) ==
  \/ w[1] < run.gop
  \/ w[1] = run.gop /\ \/ run.pc = "fetch" \/ w[2] < run.k
                       \/ (w[2] = run.k /\ run.pc # "send")

Members(seq) == {seq[i] : i \in DOMAIN seq}

\* What SentIsUnbroken says of a run that is to send the samples W, and what it
\* rests on: until it ends, a run has sent exactly the samples of W it has passed.
PrefixOK(run, W) ==
  /\ run.pc = "list" => run.gop = 0
  /\ run.pc = "send" => <<run.gop, run.k>> \in W
  /\ run.pc # "ended" => \A w \in W : Passed(run, w) <=> w \in Members(run.sent)
  /\ \A i \in 2 .. Len(run.sent) : Precedes(run.sent[i - 1], run.sent[i])
  /\ Members(run.sent) \subseteq W
  /\ \A w \in W, v \in Members(run.sent) : Precedes(w, v) => w \in Members(run.sent)

Pairs(W) == \A w \in W : w = <<w[1], w[2]>> /\ w[1] \in Nat \ {0} /\ w[2] \in Nat \ {0}

\* A run that ends, that is only cancelled, that has listed the GOPs, or has
\* recorded its progress, has sent and passed what it had.
LEMMA PrefixStays ==
  ASSUME NEW run, NEW new, NEW W, Pairs(W), PrefixOK(run, W),
         new.gop = run.gop, new.k = run.k, new.sent = run.sent,
         \/ new.pc = run.pc \/ new.pc = "ended"
         \/ run.pc = "list" /\ new.pc = "fetch"
         \/ run.pc = "progress" /\ new.pc = "sample"
  PROVE  PrefixOK(new, W)
<1>1. CASE new.pc = run.pc \/ new.pc = "ended" \/ (run.pc = "progress" /\ new.pc = "sample")
  BY <1>1 DEF PrefixOK, Passed
<1>2. CASE run.pc = "list" /\ new.pc = "fetch"
  <2>1. \A w \in W : ~Passed(run, w) /\ ~Passed(new, w)
    BY <1>2 DEF PrefixOK, Passed, Pairs
  <2> QED
    BY <1>2, <2>1 DEF PrefixOK
<1> QED
  BY <1>1, <1>2

\* A run that goes on with a GOP before which it has nothing left to send.
LEMMA PrefixFetch ==
  ASSUME NEW run, NEW new, NEW W, Pairs(W), PrefixOK(run, W), run.pc = "fetch",
         run.gop \in Nat, new.gop \in Nat, new.gop > run.gop, new.k = 0, new.sent = run.sent,
         new.pc = "sample", \A w \in W : w[1] <= run.gop \/ w[1] >= new.gop
  PROVE  PrefixOK(new, W)
<1>1. ASSUME NEW w \in W
      PROVE  Passed(new, w) <=> Passed(run, w)
  <2>1. w[1] \in Nat /\ w[2] \in Nat \ {0}
    BY DEF Pairs
  <2>2. Passed(run, w) <=> w[1] <= run.gop
    BY <2>1 DEF Passed
  <2>3. Passed(new, w) <=> w[1] < new.gop
    BY <2>1 DEF Passed
  <2> QED
    BY <1>1, <2>1, <2>2, <2>3
<1> QED
  BY <1>1 DEF PrefixOK

\* A run that goes on to the next sample, or past the last one.
LEMMA PrefixSample ==
  ASSUME NEW run, NEW new, NEW W, Pairs(W), PrefixOK(run, W), run.pc = "sample",
         run.gop \in Nat, run.k \in Nat, new.gop = run.gop, new.sent = run.sent,
         \/ /\ new.pc = "fetch" /\ \A w \in W : w[1] = run.gop => w[2] <= run.k
         \/ /\ new.pc = "send" /\ new.k \in Nat /\ new.k > run.k /\ <<run.gop, new.k>> \in W
            /\ \A w \in W : w[1] = run.gop => w[2] <= run.k \/ w[2] >= new.k
  PROVE  PrefixOK(new, W)
<1>1. ASSUME NEW w \in W
      PROVE  Passed(new, w) <=> Passed(run, w)
  <2>1. w[1] \in Nat /\ w[2] \in Nat \ {0}
    BY DEF Pairs
  <2>2. Passed(run, w) <=> w[1] < run.gop \/ (w[1] = run.gop /\ w[2] <= run.k)
    BY <2>1 DEF Passed
  <2>3. CASE new.pc = "fetch"
    <3>1. Passed(new, w) <=> w[1] <= run.gop
      BY <2>1, <2>3 DEF Passed
    <3>2. w[1] = run.gop => w[2] <= run.k
      BY <2>3
    <3> QED
      BY <2>1, <2>2, <3>1, <3>2
  <2>4. CASE new.pc = "send"
    <3>1. Passed(new, w) <=> w[1] < run.gop \/ (w[1] = run.gop /\ w[2] < new.k)
      BY <2>1, <2>4 DEF Passed
    <3>2. /\ w[1] = run.gop => w[2] <= run.k \/ w[2] >= new.k
          /\ new.k \in Nat /\ new.k > run.k
      BY <2>4
    <3> QED
      BY <2>1, <2>2, <3>1, <3>2
  <2> QED
    BY <2>3, <2>4
<1>2. new.pc # "ended" /\ new.pc # "list" /\ (new.pc = "send" => <<new.gop, new.k>> \in W)
  OBVIOUS
<1> QED
  BY <1>1, <1>2 DEF PrefixOK

\* A run that sends the sample it has come to.
LEMMA PrefixSend ==
  ASSUME NEW run, NEW new, NEW W, Pairs(W), PrefixOK(run, W), run.pc = "send",
         run.gop \in Nat, run.k \in Nat, new.gop = run.gop, new.k = run.k, new.pc = "progress",
         run.sent \in Seq(Nat \X Nat), new.sent = Append(run.sent, <<run.gop, run.k>>)
  PROVE  PrefixOK(new, W)
<1>1. PICK e : e = <<run.gop, run.k>>
  OBVIOUS
<1>2. e \in W /\ e[1] = run.gop /\ e[2] = run.k /\ e \in Nat \X Nat
  BY <1>1 DEF PrefixOK
<1>3. PICK n \in Nat : n = Len(run.sent) /\ DOMAIN run.sent = 1 .. n
  OBVIOUS
<1>4. PICK s \in Seq(Nat \X Nat) : s = run.sent
  OBVIOUS
<1>5. /\ Len(new.sent) = n + 1 /\ DOMAIN new.sent = 1 .. n + 1 /\ new.sent[n + 1] = e
      /\ \A i \in 1 .. n : new.sent[i] = run.sent[i]
  <2>1. new.sent = Append(s, e) /\ n = Len(s)
    BY <1>1, <1>3, <1>4
  <2>2. /\ Len(Append(s, e)) = n + 1 /\ DOMAIN Append(s, e) = 1 .. n + 1
        /\ Append(s, e)[n + 1] = e /\ \A i \in 1 .. n : Append(s, e)[i] = s[i]
    BY <1>2, <1>4, <2>1
  <2> QED
    BY <1>4, <2>1, <2>2
<1>6. Members(new.sent) = Members(run.sent) \cup {e}
  <2>1. ASSUME NEW i \in 1 .. n + 1
        PROVE  new.sent[i] \in Members(run.sent) \cup {e}
    <3>1. i \in 1 .. n \/ i = n + 1
      OBVIOUS
    <3> QED
      BY <1>3, <1>5, <3>1 DEF Members
  <2>2. ASSUME NEW i \in 1 .. n
        PROVE  run.sent[i] \in Members(new.sent)
    <3>1. i \in 1 .. n + 1 /\ new.sent[i] = run.sent[i]
      BY <1>5
    <3> QED
      BY <1>5, <3>1 DEF Members
  <2>3. n + 1 \in 1 .. n + 1
    OBVIOUS
  <2>4. e \in Members(new.sent)
    BY <1>5, <2>3 DEF Members
  <2> QED
    BY <1>3, <1>5, <2>1, <2>2, <2>4 DEF Members
<1>7. ASSUME NEW w \in W
      PROVE  (Passed(run, w) <=> Precedes(w, e)) /\ (Passed(new, w) <=> Precedes(w, e) \/ w = e)
  <2>1. w[1] \in Nat /\ w[2] \in Nat /\ w = <<w[1], w[2]>>
    BY DEF Pairs
  <2>2. Passed(run, w) <=> Precedes(w, e)
    BY <1>2, <2>1 DEF Passed, Precedes
  <2>3. w = e <=> w[1] = run.gop /\ w[2] = run.k
    BY <1>1, <2>1
  <2>4. Passed(new, w) <=> Precedes(w, e) \/ w = e
    BY <1>2, <2>1, <2>3 DEF Passed, Precedes
  <2> QED
    BY <2>2, <2>4
<1>8. \A w \in W : Passed(run, w) <=> w \in Members(run.sent)
  BY DEF PrefixOK
<1>9. Members(run.sent) \subseteq W
  BY DEF PrefixOK
<1>10. \A w \in W : Passed(new, w) <=> w \in Members(new.sent)
  BY <1>6, <1>7, <1>8
<1>11. ASSUME NEW i \in 2 .. Len(new.sent)
       PROVE  Precedes(new.sent[i - 1], new.sent[i])
  <2>1. CASE i = n + 1
    <3>1. i - 1 = n /\ n \in 1 .. n
      BY <1>5, <2>1
    <3>2. run.sent[n] \in Members(run.sent)
      BY <1>3, <3>1 DEF Members
    <3>3. Precedes(run.sent[n], e)
      BY <1>7, <1>8, <1>9, <3>2
    <3> QED
      BY <1>5, <2>1, <3>1, <3>3
  <2>2. CASE i # n + 1
    <3>1. i \in 2 .. Len(run.sent) /\ i \in 1 .. n /\ i - 1 \in 1 .. n
      BY <1>3, <1>5, <2>2
    <3>2. Precedes(run.sent[i - 1], run.sent[i])
      BY <3>1 DEF PrefixOK
    <3> QED
      BY <1>5, <3>1, <3>2
  <2> QED
    BY <2>1, <2>2
<1>12. Members(new.sent) \subseteq W
  BY <1>2, <1>6, <1>9
<1>13. \A w \in W, v \in Members(new.sent) : Precedes(w, v) => w \in Members(new.sent)
  <2>1. \A w \in W, v \in Members(run.sent) : Precedes(w, v) => w \in Members(run.sent)
    BY DEF PrefixOK
  <2>2. \A w \in W : Precedes(w, e) => w \in Members(run.sent)
    BY <1>7, <1>8
  <2> QED
    BY <1>6, <2>1, <2>2
<1> QED
  BY <1>10, <1>11, <1>12, <1>13 DEF PrefixOK

\* A step that changes neither the recording nor the request of a run does not
\* change what it is to send.
LEMMA WantedStays ==
  ASSUME TypeOK, recording' = recording, NEW r \in DOMAIN runs,
         SameRequest(runs[r], runs'[r]),
         \A s \in Refs : SameStream(states[s], states'[s])
  PROVE  Wanted(r)' = Wanted(r)
<1>1. runs[r].st \in Refs
  BY DEF TypeOK, RunsOK
<1>2. states'[runs'[r].st].end = states[runs[r].st].end
  BY <1>1 DEF SameRequest, SameStream
<1>3. SampleIds' = SampleIds
  BY DEF SampleIds, GOPs
<1>4. \A w \in SampleIds : At(w)' = At(w)
  BY DEF At, Time
<1> QED
  BY <1>2, <1>3, <1>4 DEF Wanted, StateOf, SameRequest

\* One more member.
LEMMA AppendMembers ==
  ASSUME NEW seq \in Seq(Nat \X Nat), NEW e \in Nat \X Nat
  PROVE  Members(seq) \subseteq Members(Append(seq, e))
<1>1. PICK n \in Nat : n = Len(seq) /\ DOMAIN seq = 1 .. n
  OBVIOUS
<1>2. /\ DOMAIN Append(seq, e) = 1 .. n + 1
      /\ \A i \in 1 .. n : Append(seq, e)[i] = seq[i]
  BY <1>1
<1>3. ASSUME NEW i \in 1 .. n
      PROVE  seq[i] \in Members(Append(seq, e))
  <2>1. i \in 1 .. n + 1
    OBVIOUS
  <2> QED
    BY <1>2, <2>1 DEF Members
<1> QED
  BY <1>1, <1>3 DEF Members

\* What no step undoes: the requests of runs and states stay, and so does what
\* was sent.
LEMMA StepFrame ==
  ASSUME TypeOK, [Next]_vars
  PROVE  /\ recording' = recording /\ DOMAIN runs \subseteq DOMAIN runs'
         /\ \A r \in DOMAIN runs :
              SameRequest(runs[r], runs'[r]) /\ Members(runs[r].sent) \subseteq Members(runs'[r].sent)
         /\ \A s \in Refs : SameStream(states[s], states'[s])
<1> DEFINE Frame ==
      /\ recording' = recording /\ DOMAIN runs \subseteq DOMAIN runs'
      /\ \A r \in DOMAIN runs :
           SameRequest(runs[r], runs'[r]) /\ Members(runs[r].sent) \subseteq Members(runs'[r].sent)
      /\ \A s \in Refs : SameStream(states[s], states'[s])
<1>1. ASSUME \/ UNCHANGED vars \/ Answer
             \/ \E r \in DOMAIN runs : SendPanics(r)
      PROVE  Frame
  <2>1. UNCHANGED <<recording, states, runs>>
    BY <1>1 DEF vars, Answer, Setup, ConnClose, PlayResolve, SendPanics
  <2> QED
    BY <2>1 DEF SameRequest, SameStream
<1>2. ASSUME NEW req \in Requests, Describe(req)
      PROVE  Frame
  <2>1. runs' = runs /\ recording' = recording
    BY <1>2 DEF Describe
  <2>2. \A s \in Refs : states'[s] = states[s]
    BY <1>2, DescribeType
  <2> QED
    BY <2>1, <2>2 DEF SameRequest, SameStream
<1>3. ASSUME PlayStart \/ Pause \/ SessionClose
      PROVE  Frame
  <2>1. PICK c \in DOMAIN runs \cup {None} :
          /\ recording' = recording /\ DOMAIN runs \subseteq DOMAIN runs'
          /\ \A x \in DOMAIN runs : runs'[x] = CancelRun(c)[x]
          /\ OnlyState(session) /\ SameStream(states[session], states'[session])
    <3>1. CASE PlayStart
      <4>1. /\ session \in Refs
            /\ DOMAIN runs' = 1 .. Len(runs) + 1 /\ DOMAIN runs = 1 .. Len(runs)
            /\ \A x \in DOMAIN runs : runs'[x] = CancelRun(states[session].cancel)[x]
            /\ OnlyState(session) /\ SameStream(states[session], states'[session])
        BY <3>1, PlayStartEffect
      <4>2. PICK n \in Nat : n = Len(runs)
        BY DEF TypeOK, RunsOK
      <4>3. DOMAIN runs \subseteq DOMAIN runs'
        BY <4>1, <4>2
      <4>4. states[session].cancel \in DOMAIN runs \cup {None}
        BY <4>1 DEF TypeOK, StatesOK
      <4> QED
        BY <3>1, <4>1, <4>3, <4>4 DEF PlayStart
    <3>2. CASE Pause \/ SessionClose
      <4>1. /\ session \in Refs /\ runs' = CancelRun(states[session].cancel)
            /\ OnlyState(session) /\ SameStream(states[session], states'[session])
            /\ recording' = recording
        BY <3>2, StopEffect
      <4>2. states[session].cancel \in DOMAIN runs \cup {None}
        BY <4>1 DEF TypeOK, StatesOK
      <4>3. DOMAIN runs' = DOMAIN runs
        BY <4>1, <4>2, CancelEffect DEF TypeOK
      <4> QED
        BY <4>1, <4>2, <4>3
    <3> QED
      BY <1>3, <3>1, <3>2
  <2>2. \A x \in DOMAIN runs : SameRequest(runs[x], runs'[x]) /\ runs'[x].sent = runs[x].sent
    BY <2>1, CancelEffect DEF TypeOK
  <2>3. \A s \in Refs : SameStream(states[s], states'[s])
    BY <2>1 DEF OnlyState, SameStream, Refs
  <2> QED
    BY <2>1, <2>2, <2>3
<1>4. ASSUME NEW r \in DOMAIN runs, OnlyRun(r), SameRequest(runs[r], runs'[r]),
             Members(runs[r].sent) \subseteq Members(runs'[r].sent),
             recording' = recording, \A s \in Refs : SameStream(states[s], states'[s])
      PROVE  Frame
  BY <1>4 DEF OnlyRun, SameRequest
<1>5. ASSUME NEW r \in DOMAIN runs,
             \/ Moved(r) \/ RunSample(r) \/ RunProgress(r)
             \/ RunSend(r) /\ StateOf(r).open
             \/ \E ok \in ReadResults : RunFetch(r, ok)
      PROVE  Frame
  <2> HIDE DEF Frame
  <2>1. CASE Moved(r)
    BY <1>4, <2>1, RunMoveEffect DEF Moved, SameStates
  <2>2. CASE RunSample(r)
    BY <1>4, <2>2, RunSampleEffect DEF SameStates
  <2>3. CASE RunProgress(r)
    <3>1. /\ OnlyRun(r) /\ SameRequest(runs[r], runs'[r]) /\ runs'[r].sent = runs[r].sent
          /\ OnlyState(runs[r].st) /\ SameStream(states[runs[r].st], states'[runs[r].st])
          /\ recording' = recording
      BY <2>3, RunProgressEffect
    <3>2. \A s \in Refs : SameStream(states[s], states'[s])
      BY <3>1 DEF OnlyState, SameStream, Refs
    <3> QED
      BY <1>4, <3>1, <3>2
  <2>4. CASE RunSend(r) /\ StateOf(r).open
    <3>1. /\ OnlyRun(r) /\ SameRequest(runs[r], runs'[r]) /\ SameStates /\ recording' = recording
          /\ runs'[r].sent = Append(runs[r].sent, <<runs[r].gop, runs[r].k>>)
      BY <2>4, RunSendEffect
    <3>2. runs[r].sent \in Seq(Nat \X Nat) /\ <<runs[r].gop, runs[r].k>> \in Nat \X Nat
      <4>1. runs[r] \in Runs
        BY RunType DEF TypeOK, RunsOK
      <4> QED
        BY <4>1 DEF Runs
    <3>3. Members(runs[r].sent) \subseteq Members(runs'[r].sent)
      BY <3>1, <3>2, AppendMembers
    <3> QED
      BY <1>4, <3>1, <3>3 DEF SameStates
  <2>5. CASE \E ok \in ReadResults : RunFetch(r, ok)
    BY <1>4, <2>5, RunFetchEffect DEF SameStates
  <2> QED
    BY <1>5, <2>1, <2>2, <2>3, <2>4, <2>5
<1>6. ASSUME NEW f \in fetching, NEW ok \in ReadResults, Prefetch(f, ok)
      PROVE  Frame
  <2>1. SameStates /\ runs' = runs /\ recording' = recording
    BY <1>6, PrefetchEffect
  <2> QED
    BY <2>1 DEF SameStates, SameRequest
<1>7. Frame
  <2> HIDE DEF Frame
  <2> QED
    BY <1>1, <1>2, <1>3, <1>5, <1>6, StepCases
<1> QED
  BY <1>7

PrefixInv == \A r \in DOMAIN runs : PrefixOK(runs[r], Wanted(r))

\* What a run is to send are samples; their GOPs are listed unless they start
\* before it looks back, or after its window.
LEMMA WantedPairs ==
  ASSUME TypeOK
  PROVE  /\ \A r \in DOMAIN runs : Pairs(Wanted(r)) /\ Wanted(r) \subseteq SampleIds
         /\ \A r \in DOMAIN runs : runs[r] \in Runs
<1>1. recording \in Recordings
  BY DEF TypeOK, ServerOK
<1>2. \A r \in DOMAIN runs : Wanted(r) \subseteq SampleIds
  BY DEF Wanted
<1>3. \A r \in DOMAIN runs : runs[r] \in Runs
  BY RunType DEF TypeOK, RunsOK
<1> QED
  BY <1>1, <1>2, <1>3, SampleIdsArePairs DEF Pairs

\* RunFetch leaves no GOP out that has a sample to be sent.
LEMMA FetchSkipsNothing ==
  ASSUME Playable, TypeOK, NEW r \in DOMAIN runs, NEW g \in Metas(r),
         \A x \in Metas(r) : x > runs[r].gop /\ EndTime(x) >= runs[r].start => g <= x
  PROVE  \A w \in Wanted(r) : w[1] <= runs[r].gop \/ w[1] >= g
<1>1. recording \in Recordings
  BY DEF TypeOK, ServerOK
<1> SUFFICES ASSUME NEW w \in Wanted(r), w[1] > runs[r].gop, w[1] < g
             PROVE  FALSE
  <2>1. runs[r].gop \in Nat
    BY WantedPairs DEF Runs
  <2>2. \A w \in Wanted(r) : w[1] \in Nat
    BY WantedPairs DEF Pairs
  <2>3. g \in Nat
    BY <1>1, RecordingTypes DEF Metas, ListGOPs
  <2> QED
    BY <2>1, <2>2, <2>3
<1>2. g \in GOPs /\ g \in Nat
  BY <1>1, RecordingTypes DEF Metas, ListGOPs
<1>3. w \in SampleIds /\ w[1] \in GOPs /\ At(w) \in Int /\ w[1] \in Nat
  BY <1>1, WantedPairs, SampleIdsArePairs
<1>4. runs[r].start \in Int /\ StateOf(r).end \in Int \cup {None}
  <2>1. runs[r] \in Runs /\ runs[r].st \in DOMAIN states
    BY WantedPairs DEF TypeOK, RunsOK, Refs
  <2>2. states[runs[r].st] \in States
    BY <2>1, StateType DEF TypeOK, StatesOK
  <2> QED
    BY <2>1, <2>2 DEF Runs, States, StateOf
<1>5. /\ StartTime(w[1]) \in Int /\ EndTime(w[1]) \in Int /\ StartTime(g) \in Int
      /\ Lookback \in Int /\ Horizon \in Int
  BY <1>1, <1>2, <1>3, RecordingTypes, PlaybackBoundsAssumption
<1>6. /\ At(w) >= runs[r].start /\ At(w) <= EndTime(w[1])
      /\ StartTime(w[1]) <= EndTime(w[1]) /\ EndTime(w[1]) <= StartTime(g)
      /\ EndTime(w[1]) - StartTime(w[1]) <= Lookback
  BY <1>1, <1>2, <1>3, PlayableTimes DEF Wanted
<1>7. PICK end \in Int :
        end = IF StateOf(r).end = None THEN runs[r].start + Horizon ELSE StateOf(r).end + Lookback
  BY <1>4, <1>5
<1>8. Metas(r) = {x \in GOPs : StartTime(x) \in runs[r].start - Lookback .. end}
  BY <1>7 DEF Metas, ListGOPs
<1>9. StartTime(g) <= end
  <2>1. PICK lo \in Int : lo = runs[r].start - Lookback
    BY <1>4, <1>5
  <2>2. StartTime(g) \in lo .. end
    BY <1>8, <2>1
  <2> QED
    BY <1>5, <2>2
<1>10. StartTime(w[1]) \in runs[r].start - Lookback .. end
  BY <1>3, <1>4, <1>5, <1>6, <1>9
<1>11. w[1] \in Metas(r)
  BY <1>3, <1>8, <1>10
<1>12. EndTime(w[1]) >= runs[r].start
  BY <1>3, <1>4, <1>5, <1>6
<1>13. g <= w[1]
  BY <1>11, <1>12
<1> QED
  BY <1>2, <1>3, <1>13

\* RunSample leaves no sample out that is to be sent, and comes to one that is.
LEMMA SampleSkipsNothing ==
  ASSUME TypeOK, NEW r \in DOMAIN runs, runs[r].pc = "sample"
  PROVE  /\ NextSample(r) = None => \A w \in Wanted(r) : w[1] = runs[r].gop => w[2] <= runs[r].k
         /\ NextSample(r) # None /\ ~AfterEnd(r, NextSample(r)) =>
              /\ NextSample(r) \in Nat /\ NextSample(r) > runs[r].k
              /\ <<runs[r].gop, NextSample(r)>> \in Wanted(r)
              /\ \A w \in Wanted(r) :
                   w[1] = runs[r].gop => w[2] <= runs[r].k \/ w[2] >= NextSample(r)
<1>1. recording \in Recordings /\ runs[r].gop \in GOPs
  BY DEF TypeOK, ServerOK, RunsOK
<1>2. PICK S : S = {x \in DOMAIN recording[runs[r].gop].ts :
                      /\ x > runs[r].k /\ Time(runs[r].gop, x) >= runs[r].start
                      /\ AfterEnd(r, x) \/ ShouldSend(x, runs[r].scale)}
  OBVIOUS
<1>3. S \subseteq Nat
  BY <1>1, <1>2, ChoicesAreNumbers
<1>4. PICK k : k = NextSample(r)
  OBVIOUS
<1>5. k = First(S)
  BY <1>2, <1>4 DEF NextSample
<1>6. (k = None => S = {}) /\ (k # None => k \in S /\ k \in Nat /\ \A y \in S : k <= y)
  BY <1>3, <1>5, FirstIsLeast
<1>7. runs[r].k \in Nat /\ StateOf(r).end \in Int \cup {None}
  <2>1. runs[r] \in Runs /\ runs[r].st \in DOMAIN states
    BY WantedPairs DEF TypeOK, RunsOK, Refs
  <2>2. states[runs[r].st] \in States
    BY <2>1, StateType DEF TypeOK, StatesOK
  <2> QED
    BY <2>1, <2>2 DEF Runs, States, StateOf
<1>8. ASSUME NEW w \in Wanted(r), w[1] = runs[r].gop
      PROVE  w[2] \in Nat /\ (w[2] <= runs[r].k \/ w[2] \in S)
  <2>1. w \in SampleIds /\ w[2] \in DOMAIN recording[w[1]].ts /\ w[2] \in Nat
    BY <1>1, WantedPairs, SampleIdsArePairs
  <2>2. Time(runs[r].gop, w[2]) >= runs[r].start /\ ShouldSend(w[2], runs[r].scale)
    BY <1>8 DEF Wanted, At
  <2> QED
    BY <1>2, <1>7, <1>8, <2>1, <2>2
<1>9. k = None => \A w \in Wanted(r) : w[1] = runs[r].gop => w[2] <= runs[r].k
  BY <1>6, <1>8
<1>10. ASSUME k # None, ~AfterEnd(r, k)
       PROVE  /\ k \in Nat /\ k > runs[r].k /\ <<runs[r].gop, k>> \in Wanted(r)
              /\ \A w \in Wanted(r) : w[1] = runs[r].gop => w[2] <= runs[r].k \/ w[2] >= k
  <2>1. /\ k \in DOMAIN recording[runs[r].gop].ts /\ k > runs[r].k
        /\ Time(runs[r].gop, k) >= runs[r].start /\ ShouldSend(k, runs[r].scale) /\ k \in Nat
    BY <1>2, <1>6, <1>10
  <2>2. StateOf(r).end # None => Time(runs[r].gop, k) <= StateOf(r).end
    <3>1. Time(runs[r].gop, k) \in Int
      BY <1>1, <2>1, RecordingTypes
    <3> QED
      BY <1>7, <1>10, <3>1 DEF AfterEnd
  <2>3. PICK w : w = <<runs[r].gop, k>>
    OBVIOUS
  <2>4. w \in SampleIds /\ At(w) = Time(runs[r].gop, k) /\ w[2] = k
    BY <1>1, <2>1, <2>3, SampleIdsArePairs DEF At
  <2>5. w \in Wanted(r)
    BY <2>1, <2>2, <2>4 DEF Wanted
  <2>6. ASSUME NEW v \in Wanted(r), v[1] = runs[r].gop
        PROVE  v[2] <= runs[r].k \/ v[2] >= k
    BY <1>6, <1>7, <1>8, <1>10, <2>6
  <2> QED
    BY <2>1, <2>3, <2>5, <2>6
<1> QED
  BY <1>4, <1>9, <1>10

\* A step of run r keeps PrefixInv if it keeps it for r.
LEMMA PrefixOfOthers ==
  ASSUME TypeOK, PrefixInv, [Next]_vars, NEW r \in DOMAIN runs, OnlyRun(r),
         PrefixOK(runs'[r], Wanted(r))
  PROVE  PrefixInv'
<1>1. \A x \in DOMAIN runs : Wanted(x)' = Wanted(x)
  BY StepFrame, WantedStays
<1>2. \A x \in DOMAIN runs : PrefixOK(runs'[x], Wanted(x))
  BY DEF PrefixInv, OnlyRun
<1>3. \A x \in DOMAIN runs' : PrefixOK(runs'[x], Wanted(x)')
  BY <1>1, <1>2 DEF OnlyRun
<1> QED
  BY <1>3 DEF PrefixInv, PrefixOK, Passed, Members, Precedes

LEMMA NextPrefix ==
  ASSUME Playable, TypeOK, TypeOK', PrefixInv, [Next]_vars
  PROVE  PrefixInv'
<1>1. \A x \in DOMAIN runs : Wanted(x)' = Wanted(x) /\ Pairs(Wanted(x))
  BY StepFrame, WantedStays, WantedPairs
<1>2. \A x \in DOMAIN runs : PrefixOK(runs[x], Wanted(x))
  BY DEF PrefixInv
<1>3. CASE runs' = runs
  <2>1. \A x \in DOMAIN runs' : PrefixOK(runs'[x], Wanted(x)')
    BY <1>1, <1>2, <1>3
  <2> QED
    BY <2>1 DEF PrefixInv, PrefixOK, Passed, Members, Precedes
<1>4. ASSUME NEW x \in DOMAIN runs, NEW c \in DOMAIN runs \cup {None}, runs'[x] = CancelRun(c)[x]
      PROVE  PrefixOK(runs'[x], Wanted(x)')
  <2>1. /\ runs'[x].pc = runs[x].pc /\ runs'[x].gop = runs[x].gop /\ runs'[x].k = runs[x].k
        /\ runs'[x].sent = runs[x].sent
    BY <1>4, CancelEffect DEF TypeOK
  <2>2. PICK run, new, W : run = runs[x] /\ new = runs'[x] /\ W = Wanted(x)
    OBVIOUS
  <2>3. PrefixOK(new, W)
    BY <1>1, <1>2, <2>1, <2>2, PrefixStays
  <2> QED
    BY <1>1, <2>2, <2>3
<1>5. CASE PlayStart
  <2>1. /\ session \in Refs
        /\ DOMAIN runs' = 1 .. Len(runs) + 1 /\ DOMAIN runs = 1 .. Len(runs)
        /\ \A x \in DOMAIN runs : runs'[x] = CancelRun(states[session].cancel)[x]
        /\ runs'[Len(runs) + 1] = NewRun
    BY <1>5, PlayStartEffect
  <2>2. states[session].cancel \in DOMAIN runs \cup {None}
    BY <2>1 DEF TypeOK, StatesOK
  <2>3. \A x \in DOMAIN runs : PrefixOK(runs'[x], Wanted(x)')
    BY <1>4, <2>1, <2>2
  <2>4. ASSUME NEW x \in DOMAIN runs', x \notin DOMAIN runs
        PROVE  PrefixOK(runs'[x], Wanted(x)')
    <3>1. PICK n \in Nat : n = Len(runs)
      BY DEF TypeOK, RunsOK
    <3>2. runs'[x] = NewRun
      BY <2>1, <2>4, <3>1
    <3>3. NewRun.pc = "list" /\ NewRun.gop = 0 /\ NewRun.k = 0 /\ NewRun.sent = <<>>
      BY DEF NewRun
    <3>4. PICK W : W = Wanted(x)'
      OBVIOUS
    <3>5. Pairs(W)
      <4>1. recording' \in Recordings /\ recording' = recording
        BY StepFrame DEF TypeOK, ServerOK
      <4>2. W \subseteq SampleIds
        BY <3>4, <4>1 DEF Wanted, SampleIds, GOPs
      <4> QED
        BY <4>1, <4>2, SampleIdsArePairs DEF Pairs
    <3>6. PICK run : run = runs'[x]
      OBVIOUS
    <3>7. run.pc = "list" /\ run.gop = 0 /\ run.k = 0 /\ run.sent = <<>>
      BY <3>2, <3>3, <3>6
    <3>8. Members(run.sent) = {} /\ Len(run.sent) = 0
      BY <3>7 DEF Members
    <3>9. \A w \in W : ~Passed(run, w)
      BY <3>5, <3>7 DEF Passed, Pairs
    <3>10. PrefixOK(run, W)
      BY <3>7, <3>8, <3>9 DEF PrefixOK
    <3> QED
      BY <3>4, <3>6, <3>10
  <2>5. \A x \in DOMAIN runs' : PrefixOK(runs'[x], Wanted(x)')
    BY <2>3, <2>4
  <2> QED
    BY <2>5 DEF PrefixInv, PrefixOK, Passed, Members, Precedes
<1>6. CASE Pause \/ SessionClose
  <2>1. session \in Refs /\ runs' = CancelRun(states[session].cancel)
    BY <1>6, StopEffect
  <2>2. states[session].cancel \in DOMAIN runs \cup {None}
    BY <2>1 DEF TypeOK, StatesOK
  <2>3. DOMAIN runs' = DOMAIN runs
    BY <2>1, <2>2, CancelEffect DEF TypeOK
  <2>4. \A x \in DOMAIN runs' : PrefixOK(runs'[x], Wanted(x)')
    BY <1>4, <2>1, <2>2, <2>3
  <2> QED
    BY <2>4 DEF PrefixInv, PrefixOK, Passed, Members, Precedes
<1>7. ASSUME NEW r \in DOMAIN runs,
             \/ Moved(r) \/ RunSample(r) \/ RunProgress(r)
             \/ RunSend(r) /\ StateOf(r).open
             \/ \E ok \in ReadResults : RunFetch(r, ok)
      PROVE  PrefixInv'
  <2>1. PICK run, new, W : run = runs[r] /\ new = runs'[r] /\ W = Wanted(r)
    OBVIOUS
  <2>2. Pairs(W) /\ PrefixOK(run, W)
    BY <1>1, <1>2, <2>1
  <2>3. run.gop \in Nat /\ run.k \in Nat /\ run.sent \in Seq(Nat \X Nat)
    BY <2>1, WantedPairs DEF Runs
  <2>4. PrefixOK(new, W) /\ OnlyRun(r)
    <3>1. CASE Moved(r)
      BY <2>1, <2>2, <3>1, RunMoveEffect, PrefixStays DEF Moved
    <3>2. CASE RunSample(r)
      <4>1. /\ OnlyRun(r) /\ run.pc = "sample" /\ new.gop = run.gop /\ new.sent = run.sent
            /\ \/ new.pc = "ended"
               \/ new.pc = "fetch" /\ NextSample(r) = None
               \/ /\ new.pc = "send" /\ new.k = NextSample(r) /\ NextSample(r) # None
                  /\ ~AfterEnd(r, NextSample(r))
        BY <2>1, <3>2, RunSampleEffect
      <4>2. CASE new.pc = "ended"
        BY <2>2, <4>1, <4>2 DEF PrefixOK
      <4>3. CASE new.pc # "ended"
        <5>1. \/ new.pc = "fetch" /\ \A w \in W : w[1] = run.gop => w[2] <= run.k
              \/ /\ new.pc = "send" /\ new.k \in Nat /\ new.k > run.k /\ <<run.gop, new.k>> \in W
                 /\ \A w \in W : w[1] = run.gop => w[2] <= run.k \/ w[2] >= new.k
          BY <2>1, <4>1, <4>3, SampleSkipsNothing
        <5> QED
          BY <2>2, <2>3, <4>1, <5>1, PrefixSample
      <4> QED
        BY <4>1, <4>2, <4>3
    <3>3. CASE RunProgress(r)
      BY <2>1, <2>2, <3>3, RunProgressEffect, PrefixStays
    <3>4. CASE RunSend(r) /\ StateOf(r).open
      BY <2>1, <2>2, <2>3, <3>4, RunSendEffect, PrefixSend
    <3>5. CASE \E ok \in ReadResults : RunFetch(r, ok)
      <4>1. /\ OnlyRun(r) /\ run.pc = "fetch" /\ new.sent = run.sent
            /\ \/ new.pc = "ended"
               \/ /\ new.pc = "sample" /\ new.k = 0 /\ new.gop \in Metas(r) /\ new.gop > run.gop
                  /\ \A x \in Metas(r) : x > run.gop /\ EndTime(x) >= run.start => new.gop <= x
        BY <2>1, <3>5, RunFetchEffect
      <4>2. CASE new.pc = "ended"
        BY <2>2, <4>1, <4>2 DEF PrefixOK
      <4>3. CASE new.pc # "ended"
        <5>1. \A w \in W : w[1] <= run.gop \/ w[1] >= new.gop
          BY <2>1, <4>1, <4>3, FetchSkipsNothing
        <5>2. new.gop \in Nat
          BY <4>1, <4>3, RecordingTypes DEF Metas, ListGOPs, TypeOK, ServerOK
        <5> QED
          BY <2>2, <2>3, <4>1, <4>3, <5>1, <5>2, PrefixFetch
      <4> QED
        BY <4>1, <4>2, <4>3
    <3> QED
      BY <1>7, <3>1, <3>2, <3>3, <3>4, <3>5
  <2> QED
    BY <2>1, <2>4, PrefixOfOthers
<1>8. CASE \/ UNCHANGED vars \/ Answer \/ \E req \in Requests : Describe(req)
           \/ \E r \in DOMAIN runs : SendPanics(r)
           \/ \E f \in fetching, ok \in ReadResults : Prefetch(f, ok)
  <2>1. runs' = runs
    BY <1>8 DEF vars, Answer, Setup, ConnClose, PlayResolve, Describe, Prefetch, SendPanics
  <2> QED
    BY <1>3, <2>1
<1> QED
  BY <1>5, <1>6, <1>7, <1>8, StepCases

\* A run that has sent an initial part of what is wanted has left nothing out of
\* what it may send, since times increase along the recording.
LEMMA PrefixUnbroken ==
  ASSUME Playable
  PROVE  TypeOK /\ PrefixInv => SentIsUnbroken
<1> SUFFICES ASSUME TypeOK, PrefixInv, NEW r \in DOMAIN runs
             PROVE  /\ \A i \in 2 .. Len(runs[r].sent) :
                         Precedes(runs[r].sent[i - 1], runs[r].sent[i])
                    /\ Sent(r) \subseteq MaySend(r)
                    /\ \A w \in MaySend(r), v \in Sent(r) :
                         /\ Precedes(w, v)
                         /\ At(w) >= runs[r].start \/ \E u \in Sent(r) : Precedes(u, w)
                         => w \in Sent(r)
  BY DEF SentIsUnbroken
<1>1. recording \in Recordings
  BY DEF TypeOK, ServerOK
<1>2. runs[r].start \in Int
  BY WantedPairs DEF Runs
<1>3. /\ \A i \in 2 .. Len(runs[r].sent) : Precedes(runs[r].sent[i - 1], runs[r].sent[i])
      /\ Sent(r) \subseteq Wanted(r)
      /\ \A w \in Wanted(r), v \in Sent(r) : Precedes(w, v) => w \in Sent(r)
  BY DEF PrefixInv, PrefixOK, Sent, Members
<1>4. \A w \in SampleIds : At(w) \in Int /\ EndTime(w[1]) \in Int /\ At(w) <= EndTime(w[1])
  BY <1>1, SampleIdsArePairs, RecordingTypes, PlayableTimes
<1>5. Sent(r) \subseteq MaySend(r)
  BY <1>2, <1>3, <1>4 DEF Wanted, MaySend
<1>6. ASSUME NEW w \in MaySend(r), NEW v \in Sent(r), Precedes(w, v),
             At(w) >= runs[r].start \/ \E u \in Sent(r) : Precedes(u, w)
      PROVE  w \in Sent(r)
  <2>1. w \in SampleIds
    BY DEF MaySend
  <2>2. At(w) >= runs[r].start
    <3>1. ASSUME NEW u \in Sent(r), Precedes(u, w) PROVE At(w) >= runs[r].start
      <4>1. u \in SampleIds /\ At(u) >= runs[r].start
        BY <1>3 DEF Wanted
      <4>2. At(u) <= At(w)
        BY <1>1, <2>1, <3>1, <4>1, PlayableTimes
      <4> QED BY <1>2, <1>4, <2>1, <4>1, <4>2
    <3> QED BY <1>6, <3>1
  <2>3. w \in Wanted(r)
    BY <2>1, <2>2 DEF MaySend, Wanted
  <2> QED BY <1>3, <1>6, <2>3
<1> QED BY <1>3, <1>5, <1>6

\* Playback is gapless, for every recording that can be played: what a PLAY
\* sends leaves nothing out from the wanted time on, whatever other PLAYs, seeks,
\* prefetches and failing reads did meanwhile.
THEOREM Gapless == Playable => (Spec => []SentIsUnbroken)
<1> SUFFICES ASSUME Playable PROVE Spec => []SentIsUnbroken
  OBVIOUS
<1>1. Init => TypeOK /\ PrefixInv
  BY InitType DEF Init, PrefixInv
<1>2. TypeOK /\ PrefixInv /\ [Next]_vars => (TypeOK /\ PrefixInv)'
  BY NextType, NextPrefix
<1>3. TypeOK /\ PrefixInv => SentIsUnbroken
  BY PrefixUnbroken
<1> QED
  BY <1>1, <1>2, <1>3, PTL DEF Spec

-----------------------------------------------------------------------------
(* Resuming *)

\* Run r has sent everything before time t that it is to send.
Covers(r, t) == \A w \in Wanted(r) : At(w) < t => w \in Sent(r)

\* The position of a state is covered by the run that wrote it; so is the start
\* OnPlay has taken from it, by the last run of the session; and the start of a
\* run that resumes, by the run before it.
PositionInv ==
  /\ \A s \in Refs, r \in DOMAIN runs, t \in Int :
       states[s].writer = r /\ states[s].pos = t => Covers(r, t)
  /\ \A r \in DOMAIN runs, t \in Int :
       (call # None /\ call.resumes /\ call.clean /\ LastRun(session) = r /\ call.start = t)
         => Covers(r, t)
  /\ \A x, r \in DOMAIN runs, t \in Int :
       runs[x].prev = r /\ runs[x].start = t => Covers(r, t)

\* What is covered stays so.
LEMMA CoversKept ==
  ASSUME TypeOK, [Next]_vars
  PROVE  \A r \in DOMAIN runs, t \in Int : Covers(r, t) => Covers(r, t)'
<1> SUFFICES ASSUME NEW r \in DOMAIN runs, NEW t \in Int, Covers(r, t)
             PROVE  Covers(r, t)'
  OBVIOUS
<1>1. Wanted(r)' = Wanted(r)
  BY StepFrame, WantedStays
<1>2. \A w : At(w)' = At(w)
  BY StepFrame DEF At, Time
<1>3. Sent(r) \subseteq Sent(r)'
  BY StepFrame DEF Sent, Members
<1> QED
  BY <1>1, <1>2, <1>3 DEF Covers

\* A run that has sent a sample has sent all before the time of it.
LEMMA SentCovers ==
  ASSUME Playable, TypeOK, PrefixInv, NEW r \in DOMAIN runs, runs[r].pc = "progress"
  PROVE  Covers(r, Time(runs[r].gop, runs[r].k))
<1>1. recording \in Recordings
  BY DEF TypeOK, ServerOK
<1>2. PICK e : e = <<runs[r].gop, runs[r].k>>
  OBVIOUS
<1>3. e \in SampleIds /\ e[1] = runs[r].gop /\ e[2] = runs[r].k
  BY <1>1, <1>2, SampleIdsArePairs DEF TypeOK, RunsOK
<1>4. runs[r].gop \in Nat /\ runs[r].k \in Nat /\ At(e) = Time(runs[r].gop, runs[r].k)
  BY <1>3, WantedPairs DEF Runs, At
<1>5. ASSUME NEW w \in Wanted(r), At(w) < At(e)
      PROVE  w \in Sent(r)
  <2>1. w \in SampleIds /\ w[1] \in Nat /\ w[2] \in Nat /\ At(w) \in Int /\ At(e) \in Int
    BY <1>1, <1>3, WantedPairs, SampleIdsArePairs
  <2>2. ~(At(e) <= At(w))
    BY <1>5, <2>1
  <2>3. ~Precedes(e, w)
    BY <1>1, <1>3, <2>1, <2>2, PlayableTimes
  <2>4. Passed(runs[r], w)
    BY <1>3, <1>4, <2>1, <2>3 DEF Precedes, Passed
  <2> QED
    BY <2>4 DEF PrefixInv, PrefixOK, Sent, Members
<1> QED
  BY <1>4, <1>5 DEF Covers

\* A step that starts no run, writes no position and resolves no PLAY.
LEMMA PositionKept ==
  ASSUME TypeOK, PositionInv, [Next]_vars, DOMAIN runs' = DOMAIN runs,
         \A s \in DOMAIN states' :
           \/ s \in Refs /\ states'[s].pos = states[s].pos /\ states'[s].writer = states[s].writer
           \/ \A r \in DOMAIN runs, t \in Int :
                states'[s].writer = r /\ states'[s].pos = t => Covers(r, t),
         call' = None \/ (call' = call /\ session' = session)
  PROVE  PositionInv'
<1>1. \A x \in DOMAIN runs : SameRequest(runs[x], runs'[x])
  BY StepFrame
<1>2. \A r \in DOMAIN runs, t \in Int : Covers(r, t) => Covers(r, t)'
  BY CoversKept
<1>3. ASSUME NEW s \in Refs', NEW r \in DOMAIN runs', NEW t \in Int,
             states'[s].writer = r, states'[s].pos = t
      PROVE  Covers(r, t)'
  <2>1. Covers(r, t)
    BY <1>3 DEF PositionInv, Refs
  <2> QED
    BY <1>2, <2>1
<1>4. ASSUME NEW r \in DOMAIN runs', NEW t \in Int,
             call' # None, call'.resumes, call'.clean, LastRun(session)' = r, call'.start = t
      PROVE  Covers(r, t)'
  <2>1. \A s : LastRun(s)' = LastRun(s)
    BY <1>1 DEF LastRun, SameRequest
  <2>2. LastRun(session)' = LastRun(session)
    <3>1. session' = session
      BY <1>4
    <3> QED
      BY <2>1, <3>1 DEF LastRun
  <2>3. Covers(r, t)
    BY <1>4, <2>2 DEF PositionInv
  <2> QED
    BY <1>2, <2>3
<1>5. ASSUME NEW x \in DOMAIN runs', NEW r \in DOMAIN runs', NEW t \in Int,
             runs'[x].prev = r, runs'[x].start = t
      PROVE  Covers(r, t)'
  <2>1. Covers(r, t)
    BY <1>1, <1>5 DEF PositionInv, SameRequest
  <2> QED
    BY <1>2, <2>1
<1> QED
  BY <1>3, <1>4, <1>5 DEF PositionInv

LEMMA NextPosition ==
  ASSUME Playable, TypeOK, PrefixInv, PositionInv, [Next]_vars
  PROVE  PositionInv'
<1>0. DOMAIN states = Refs /\ Refs \subseteq Nat /\ Len(states) \in Nat /\ Refs = 1 .. Len(states)
  <2> HIDE DEF States
  <2> QED
    BY DEF TypeOK, StatesOK, Refs
<1>1. CASE \/ UNCHANGED vars \/ Setup \/ ConnClose \/ \E r \in DOMAIN runs : SendPanics(r)
  <2>1. /\ UNCHANGED <<states, runs>>
        /\ call' = None \/ (call' = call /\ session' = session)
    BY <1>1 DEF vars, serverVars, Setup, ConnClose, SendPanics
  <2> QED
    BY <1>0, <2>1, PositionKept
<1>2. ASSUME NEW req \in Requests, Describe(req)
      PROVE  PositionInv'
  <2>1. runs' = runs /\ call' = call /\ session' = session
    BY <1>2 DEF Describe
  <2>2. /\ \A s \in Refs : states'[s] = states[s]
        /\ DOMAIN states' = 1 .. Len(states) + 1 /\ states'[Len(states) + 1].writer = None
    BY <1>2, DescribeType
  <2>3. None \notin DOMAIN runs
    <3>1. DOMAIN runs \subseteq Int
      <4> HIDE DEF Runs
      <4> QED
        BY DEF TypeOK, RunsOK
    <3> QED
      BY <3>1, NoneAssumption
  <2>4. ASSUME NEW s \in DOMAIN states', s \notin Refs
        PROVE  states'[s].writer = None
    <3>1. s = Len(states) + 1
      BY <1>0, <2>2, <2>4
    <3> QED
      BY <2>2, <3>1
  <2> QED
    BY <2>1, <2>2, <2>3, <2>4, PositionKept
<1>3. ASSUME NEW req \in PlayRequests, PlayResolve(req.range, req.scale)
      PROVE  PositionInv'
  <2>1. UNCHANGED <<states, runs, session>> /\ session \in Refs
    BY <1>3 DEF PlayResolve, TypeOK, ServerOK
  <2>2. /\ call'.start = (IF req.range # None THEN req.range
                          ELSE IF states[session].progress THEN states[session].pos
                          ELSE states[session].start)
        /\ call'.resumes = (req.range = None /\ states[session].progress)
        /\ call'.clean = (states[session].writer = LastRun(session))
    BY <1>3 DEF PlayResolve
  <2>3. \A r \in DOMAIN runs, t \in Int : Covers(r, t) => Covers(r, t)'
    BY CoversKept
  <2>4. ASSUME NEW r \in DOMAIN runs, NEW t \in Int,
               call'.resumes, call'.clean, LastRun(session)' = r, call'.start = t
        PROVE  Covers(r, t)
    <3>1. states[session].writer = LastRun(session) /\ states[session].pos = t
      BY <2>2, <2>4
    <3>2. LastRun(session)' = LastRun(session)
      BY <2>1 DEF LastRun
    <3> QED
      BY <2>1, <2>4, <3>1, <3>2 DEF PositionInv
  <2> QED
    BY <2>1, <2>3, <2>4 DEF PositionInv, Refs
<1>4. CASE PlayStart
  <2>1. /\ session \in Refs /\ call \in Calls
        /\ DOMAIN runs' = 1 .. Len(runs) + 1 /\ DOMAIN runs = 1 .. Len(runs)
        /\ runs'[Len(runs) + 1] = NewRun
        /\ OnlyState(session) /\ states'[session].pos = call.start
        /\ states'[session].writer = Len(runs) + 1
    BY <1>4, PlayStartEffect
  <2>2. call' = None
    BY <1>4 DEF PlayStart
  <2>3. PICK n \in Nat : n = Len(runs)
    BY DEF TypeOK, RunsOK
  <2>4. /\ NewRun.start = call.start
        /\ NewRun.prev = IF call.resumes /\ call.clean THEN LastRun(session) ELSE 0
    BY DEF NewRun
  <2>5. \A r \in DOMAIN runs, t \in Int : Covers(r, t) => Covers(r, t)'
    BY CoversKept
  <2>6. call.start \in Int
    BY <2>1 DEF Calls
  <2>7. ASSUME NEW r, NEW t \in Int, r = n + 1, t = call.start
        PROVE  Covers(r, t)'
    <3>1. runs'[r].start = t
      BY <2>1, <2>3, <2>4, <2>7
    <3>2. recording' \in Recordings /\ recording' = recording
      BY StepFrame DEF TypeOK, ServerOK
    <3>3. \A w \in Wanted(r)' : w \in SampleIds /\ At(w)' >= t /\ At(w)' = At(w)
      BY <3>1, <3>2 DEF Wanted, SampleIds, GOPs, At, Time
    <3>4. \A w \in Wanted(r)' : ~(At(w)' < t)
      <4> SUFFICES ASSUME NEW w \in Wanted(r)' PROVE ~(At(w)' < t)
        OBVIOUS
      <4>1. At(w) \in Int /\ At(w) >= t /\ At(w)' = At(w)
        BY <3>2, <3>3, SampleIdsArePairs
      <4> QED
        BY <4>1
    <3> QED
      BY <3>4 DEF Covers
  <2>8. ASSUME NEW s \in Refs', NEW r \in DOMAIN runs', NEW t \in Int,
               states'[s].writer = r, states'[s].pos = t
        PROVE  Covers(r, t)'
    <3>1. CASE s = session
      BY <2>1, <2>3, <2>7, <2>8, <3>1
    <3>2. CASE s # session
      <4>1. s \in Refs /\ states'[s] = states[s]
        BY <2>1, <3>2 DEF OnlyState, Refs
      <4>2. r \in DOMAIN runs
        <5>1. states[s].writer \in DOMAIN runs \cup {None}
          BY <4>1 DEF TypeOK, StatesOK
        <5>2. r \in Int
          BY <2>1, <2>3
        <5> QED
          BY <2>8, <4>1, <5>1, <5>2, NoneAssumption
      <4> QED
        BY <2>5, <2>8, <4>1, <4>2 DEF PositionInv
    <3> QED
      BY <3>1, <3>2
  <2>9. ASSUME NEW x \in DOMAIN runs', NEW r \in DOMAIN runs', NEW t \in Int,
               runs'[x].prev = r, runs'[x].start = t
        PROVE  Covers(r, t)'
    <3>1. CASE x \in DOMAIN runs
      <4>1. runs[x].prev = r /\ runs[x].start = t
        BY <2>9, <3>1, StepFrame DEF SameRequest
      <4>2. r \in DOMAIN runs
        <5>1. runs[x].prev \in 0 .. n
          BY <2>3, <3>1 DEF TypeOK, RunsOK
        <5> QED
          BY <2>1, <2>3, <4>1, <5>1
      <4> QED
        BY <2>5, <3>1, <4>1, <4>2 DEF PositionInv
    <3>2. CASE x \notin DOMAIN runs
      <4>1. x = n + 1 /\ r # 0
        BY <2>1, <2>3, <3>2
      <4>2. call.resumes /\ call.clean /\ LastRun(session) = r /\ call.start = t
        BY <2>1, <2>3, <2>4, <2>9, <4>1
      <4>3. r \in DOMAIN runs
        BY <4>1, <4>2, LastRunIsLast DEF TypeOK
      <4>4. call # None
        BY <1>4 DEF PlayStart
      <4> QED
        BY <2>5, <4>2, <4>3, <4>4 DEF PositionInv
    <3> QED
      BY <3>1, <3>2
  <2> QED
    BY <2>2, <2>8, <2>9 DEF PositionInv
<1>5. CASE Pause \/ SessionClose
  <2>1. /\ session \in Refs /\ runs' = CancelRun(states[session].cancel)
        /\ OnlyState(session) /\ states'[session].pos = states[session].pos
        /\ states'[session].writer = states[session].writer /\ call' = None
    BY <1>5, StopEffect
  <2>2. states[session].cancel \in DOMAIN runs \cup {None}
    BY <2>1 DEF TypeOK, StatesOK
  <2>3. DOMAIN runs' = DOMAIN runs
    BY <2>1, <2>2, CancelEffect DEF TypeOK
  <2> QED
    BY <1>0, <2>1, <2>3, PositionKept DEF OnlyState
<1>6. ASSUME NEW r \in DOMAIN runs,
             \/ Moved(r) \/ RunSample(r) \/ RunProgress(r)
             \/ RunSend(r) /\ StateOf(r).open
             \/ \E ok \in ReadResults : RunFetch(r, ok)
      PROVE  PositionInv'
  <2>1. CASE RunProgress(r)
    <3>1. /\ OnlyRun(r) /\ runs[r].pc = "progress" /\ runs[r].st \in Refs /\ OnlyState(runs[r].st)
          /\ states'[runs[r].st].pos = Time(runs[r].gop, runs[r].k)
          /\ states'[runs[r].st].writer = r /\ call' = call /\ session' = session
      BY <2>1, RunProgressEffect DEF serverVars
    <3>2. Covers(r, Time(runs[r].gop, runs[r].k))
      BY <3>1, SentCovers
    <3>3. \A x \in DOMAIN runs, t \in Int :
            states'[runs[r].st].writer = x /\ states'[runs[r].st].pos = t => Covers(x, t)
      BY <3>1, <3>2
    <3> QED
      BY <1>0, <3>1, <3>3, PositionKept DEF OnlyRun, OnlyState
  <2>2. CASE \/ Moved(r) \/ RunSample(r) \/ (RunSend(r) /\ StateOf(r).open)
             \/ \E ok \in ReadResults : RunFetch(r, ok)
    <3>1. OnlyRun(r) /\ SameStates /\ call' = call /\ session' = session
      BY <2>2, RunMoveEffect, RunSampleEffect, RunSendEffect, RunFetchEffect DEF Moved, serverVars
    <3> QED
      BY <1>0, <3>1, PositionKept DEF OnlyRun, SameStates
  <2> QED
    BY <1>6, <2>1, <2>2
<1>7. ASSUME NEW f \in fetching, NEW ok \in ReadResults, Prefetch(f, ok)
      PROVE  PositionInv'
  <2>1. SameStates /\ runs' = runs /\ call' = call /\ session' = session
    BY <1>7, PrefetchEffect DEF serverVars
  <2> QED
    BY <1>0, <2>1, PositionKept DEF SameStates
<1> QED
  BY <1>1, <1>2, <1>3, <1>4, <1>5, <1>6, <1>7, StepCases DEF Answer

\* PAUSE and PLAY, or a change of scale, lose nothing: a PLAY without a Range
\* starts no later than the first sample that the PLAY before had left to send,
\* unless an older goroutine has overwritten the position.
THEOREM ResumesWhereItWas == Playable => (Spec => []ResumeLosesNothing)
<1> SUFFICES ASSUME Playable PROVE Spec => []ResumeLosesNothing
  OBVIOUS
<1> DEFINE Inv == TypeOK /\ PrefixInv /\ PositionInv
<1>1. Init => Inv
  BY InitType DEF Init, PrefixInv, PositionInv, Refs
<1>2. Inv /\ [Next]_vars => Inv'
  BY NextType, NextPrefix, NextPosition
<1>3. Inv => ResumeLosesNothing
  <2> SUFFICES ASSUME Inv, NEW x \in DOMAIN runs, runs[x].prev # 0
               PROVE  \A w \in Wanted(runs[x].prev) :
                        At(w) < runs[x].start => w \in Sent(runs[x].prev)
    BY DEF ResumeLosesNothing
  <2>1. runs[x].start \in Int
    BY WantedPairs DEF Runs
  <2>2. runs[x].prev \in DOMAIN runs
    <3>1. PICK n \in Nat : n = Len(runs) /\ DOMAIN runs = 1 .. n
      <4> HIDE DEF Runs
      <4> QED
        BY DEF TypeOK, RunsOK
    <3>2. runs[x].prev \in 0 .. n
      BY <3>1 DEF TypeOK, RunsOK
    <3> QED
      BY <3>1, <3>2
  <2>3. Covers(runs[x].prev, runs[x].start)
    BY <2>1, <2>2 DEF PositionInv
  <2> QED
    BY <2>3 DEF Covers
<1> HIDE DEF Inv
<1> QED
  BY <1>1, <1>2, <1>3, PTL DEF Spec

=============================================================================
