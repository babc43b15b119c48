---------------------------- MODULE IndexProofs -----------------------------
(***************************************************************************)
(* What holds of the index for any length of a day, any offsets and any    *)
(* set of GOPs.                                                            *)
(***************************************************************************)
EXTENDS Index, FiniteSetTheorems, WellFoundedInduction, TLAPS

\* A question is asked on the server's side of Greenwich.  On the other side the
\* midnights that Dates names are a day away from the buckets.
SameSide(loc) == Zone < 0 <=> loc < 0

\* The index holds GOPs, and gop_index every one of them.
IndexInv == v1 \subseteq GOPs /\ index \subseteq v1 /\ migrated \in BOOLEAN /\ CopiesAgree

-----------------------------------------------------------------------------
(* Dates *)

\* The day of an instant begins no later than the instant, and ends after it.
LEMMA DayBounds ==
  ASSUME NEW t \in Int
  PROVE  /\ t \div Day \in Int
         /\ Day * (t \div Day) <= t /\ t < Day * (t \div Day) + Day
  BY DayAssumption

\* Only one day does so.
LEMMA DayUnique ==
  ASSUME NEW t \in Int, NEW d \in Int, Day * d <= t, t < Day * d + Day
  PROVE  t \div Day = d
<1>1. ASSUME NEW p \in Int, NEW q \in Int, p < q, Day * q <= t, t < Day * p + Day
      PROVE  FALSE
  <2>1. Day * (p + 1) <= Day * q
    BY <1>1, DayAssumption
  <2>2. Day * (p + 1) = Day * p + Day
    BY DayAssumption
  <2> QED BY <1>1, <2>1, <2>2, DayAssumption
<1>2. /\ t \div Day \in Int
      /\ Day * (t \div Day) <= t /\ t < Day * (t \div Day) + Day
  BY DayBounds
<1>3. t \div Day < d \/ d < t \div Day \/ t \div Day = d
  BY <1>2
<1> QED BY <1>1, <1>2, <1>3

\* A later instant does not have an earlier day.
LEMMA DayMonotone ==
  ASSUME NEW s \in Int, NEW t \in Int, s <= t
  PROVE  s \div Day <= t \div Day
<1> SUFFICES ASSUME t \div Day < s \div Day PROVE FALSE
  BY DayBounds
<1>1. /\ s \div Day \in Int /\ t \div Day \in Int
      /\ Day * (s \div Day) <= s /\ t < Day * (t \div Day) + Day
  BY DayBounds
<1>2. Day * (t \div Day + 1) <= Day * (s \div Day)
  BY <1>1, DayAssumption
<1>3. Day * (t \div Day + 1) = Day * (t \div Day) + Day
  BY <1>1, DayAssumption
<1> QED BY <1>1, <1>2, <1>3, DayAssumption

\* An offset of less than a day moves an instant to the day after, or before, at most.
LEMMA OffsetDay ==
  ASSUME NEW t \in Int, NEW loc \in 1 - Day .. Day - 1
  PROVE  DateIn(t, loc) \in IF loc < 0 THEN {t \div Day - 1, t \div Day}
                                       ELSE {t \div Day, t \div Day + 1}
<1> DEFINE d == t \div Day
<1>1. d \in Int /\ Day * d <= t /\ t < Day * d + Day /\ t + loc \in Int /\ loc \in Int
  BY DayBounds, DayAssumption
<1>2. Day * (d - 1) = Day * d - Day /\ Day * (d + 1) = Day * d + Day
  BY <1>1, DayAssumption
<1> HIDE DEF d
<1>3. CASE t + loc < Day * d
  <2>1. loc < 0 /\ (t + loc) \div Day = d - 1
    BY <1>1, <1>2, <1>3, DayUnique, DayAssumption
  <2> QED BY <2>1 DEF DateIn, d
<1>4. CASE Day * d <= t + loc /\ t + loc < Day * d + Day
  <2>1. (t + loc) \div Day = d
    BY <1>1, <1>4, DayUnique
  <2> QED BY <2>1 DEF DateIn, d
<1>5. CASE Day * d + Day <= t + loc
  <2>1. ~(loc < 0) /\ (t + loc) \div Day = d + 1
    BY <1>1, <1>2, <1>5, DayUnique, DayAssumption
  <2> QED BY <2>1 DEF DateIn, d
<1> QED BY <1>1, <1>3, <1>4, <1>5, DayAssumption

\* The date on which midnight of UTC falls elsewhere.
LEMMA MidnightDay ==
  ASSUME NEW k \in Int, NEW loc \in 1 - Day .. Day - 1
  PROVE  DateIn(k * Day, loc) = IF loc < 0 THEN k - 1 ELSE k
<1>1. k * Day \in Int /\ k * Day = Day * k /\ k * Day + loc \in Int /\ loc \in Int
  BY DayAssumption
<1>2. Day * (k - 1) = Day * k - Day
  BY DayAssumption
<1>3. CASE loc < 0
  BY <1>1, <1>2, <1>3, DayUnique, DayAssumption DEF DateIn
<1>4. CASE ~(loc < 0)
  BY <1>1, <1>4, DayUnique, DayAssumption DEF DateIn
<1> QED BY <1>3, <1>4

\* The dates that are looked at contain the bucket of every instant of the range.
LEMMA DatesCover ==
  ASSUME NEW s \in Int, NEW e \in Int, NEW t \in s .. e,
         NEW loc \in 1 - Day .. Day - 1, SameSide(loc)
  PROVE  Date(t) \in Dates(s, e, loc)
<1> DEFINE k == IF loc < 0 THEN Date(t) + 1 ELSE Date(t)
<1>1. /\ s \div Day \in Int /\ e \div Day \in Int /\ t \div Day \in Int
      /\ s \div Day <= t \div Day /\ t \div Day <= e \div Day
  BY DayBounds, DayMonotone
<1>2. /\ Date(t) \in IF loc < 0 THEN {t \div Day - 1, t \div Day}
                                ELSE {t \div Day, t \div Day + 1}
  BY OffsetDay, ZoneAssumption DEF Date, SameSide
<1>3. k \in s \div Day .. e \div Day + 1
  BY <1>1, <1>2
<1>4. DateIn(k * Day, loc) = Date(t)
  <2>1. DateIn(k * Day, loc) = IF loc < 0 THEN k - 1 ELSE k
    BY <1>1, <1>3, MidnightDay
  <2> QED BY <1>1, <1>2, <2>1
<1> QED BY <1>3, <1>4 DEF Dates

-----------------------------------------------------------------------------
(* Ranges *)

\* A range that is asked for on the server's side finds every GOP that starts in it.
LEMMA QueryComplete ==
  ASSUME NEW s \in Int, NEW e \in Int, NEW loc \in 1 - Day .. Day - 1, SameSide(loc),
         NEW g \in index, g.start \in s .. e
  PROVE  g \in QueryRange(s, e, loc)
  BY DatesCover DEF QueryRange

\* What is recorded, deleted or migrated keeps the two copies together.
LEMMA IndexStep ==
  ASSUME Zone >= 0, IndexInv, [Next]_vars
  PROVE  IndexInv'
<1>0. v1 \subseteq GOPs /\ index \subseteq v1 /\ migrated \in BOOLEAN /\ (migrated => index = v1)
  BY DEF IndexInv, CopiesAgree
<1>1. ASSUME NEW g \in GOPs, Record(g) PROVE IndexInv'
  BY <1>0, <1>1 DEF Record, WriteGOP, IndexInv, CopiesAgree
<1>2. ASSUME NEW s \in 0 .. MaxTime, NEW e \in s .. MaxTime, Clean(s, e) PROVE IndexInv'
  <2>1. 0 \in 1 - Day .. Day - 1 /\ SameSide(0) /\ s \in Int /\ e \in Int
    BY DayAssumption, ZoneAssumption, IndexBoundsAssumption DEF SameSide
  <2>2. QueryRange(s, e, 0) = {g \in index : g.start \in s .. e}
    <3>1. {g \in index : g.start \in s .. e} \subseteq QueryRange(s, e, 0)
      BY <2>1, QueryComplete
    <3> QED BY <3>1 DEF QueryRange
  <2>3. /\ index' = {g \in index : g.start \notin s .. e}
        /\ v1' = {g \in v1 : g.start \notin s .. e}
        /\ migrated' = migrated
    BY <1>2, <2>2 DEF Clean, DeleteRange
  <2> QED BY <1>0, <2>3 DEF IndexInv, CopiesAgree
<1>3. CASE MigrateIndex
  BY <1>0, <1>3 DEF MigrateIndex, Migrate, IndexInv, CopiesAgree
<1>4. CASE UNCHANGED vars
  BY <1>0, <1>4 DEF vars, indexVars, IndexInv, CopiesAgree
<1> QED BY <1>1, <1>2, <1>3, <1>4 DEF Next

\* The index starts empty, or with the rows of an older version.
LEMMA IndexInit == Init => IndexInv
<1> SUFFICES ASSUME Init PROVE IndexInv
  OBVIOUS
<1>1. index = {} /\ v1 \in SUBSET GOPs /\ migrated = (v1 = {})
  BY OldSetsAssumption DEF Init
<1>2. migrated => index = v1
  BY <1>1
<1> QED BY <1>1, <1>2 DEF IndexInv, CopiesAgree

\* On a server at Greenwich or east of it the two copies of the index agree once
\* the old one was migrated: every deletion, by date buckets in one copy and by
\* flat keys in the other, takes the same rows out of both.
THEOREM CopiesStayEqual == Zone >= 0 => (Spec => []CopiesAgree)
<1> SUFFICES ASSUME Zone >= 0 PROVE Spec => []CopiesAgree
  OBVIOUS
<1>1. IndexInv /\ [Next]_vars => IndexInv'
  BY IndexStep
<1>2. IndexInv => CopiesAgree
  BY DEF IndexInv
<1> QED BY <1>1, <1>2, IndexInit, PTL DEF Spec

\* A query misses no GOP of its range, if every question is asked on the server's
\* side of Greenwich: over any midnight, of the server, of UTC or of the caller.
THEOREM RangesComplete == (\A loc \in Locations : SameSide(loc)) => (Spec => []RangeComplete)
<1> SUFFICES ASSUME \A loc \in Locations : SameSide(loc) PROVE Spec => []RangeComplete
  OBVIOUS
<1>1. RangeComplete
  <2> SUFFICES ASSUME NEW s \in 0 .. MaxTime, NEW loc \in Locations, NEW e \in s .. MaxTime,
                      NEW g \in index, g.start \in s .. e
               PROVE  g \in QueryRange(s, e, loc)
    BY DEF RangeComplete
  <2>1. s \in Int /\ e \in Int /\ loc \in 1 - Day .. Day - 1 /\ SameSide(loc)
    BY ZoneAssumption, IndexBoundsAssumption
  <2> QED BY <2>1, QueryComplete
<1> QED BY <1>1, PTL

-----------------------------------------------------------------------------
(* The order of the rows *)

\* Rows of one stream.
Separate(rows) == rows \subseteq GOPs /\ \A g, h \in rows : g = h \/ Apart(g, h)

\* seq is a sequence of all of rows, each after the end of the one before.
InOrder(seq, rows) ==
  /\ seq \in Seq(rows)
  /\ \A g \in rows : \E i \in 1 .. Len(seq) : seq[i] = g
  /\ \A i, j \in 1 .. Len(seq) : i < j => seq[i].end <= seq[j].start

\* A GOP ends after it starts.
LEMMA GOPTimes ==
  ASSUME NEW g \in GOPs
  PROVE  g.start \in 0 .. MaxTime - 1 /\ g.end \in Nat /\ g.start < g.end
  BY IndexBoundsAssumption DEF GOPs

\* Rows of one stream have different starts, so there are finitely many.
LEMMA SeparateStarts ==
  ASSUME NEW rows, Separate(rows)
  PROVE  /\ \A g, h \in rows : g.start = h.start => g = h
         /\ \A g, h \in rows : g.start < h.start => g.end <= h.start
         /\ IsFiniteSet(rows) /\ Cardinality(rows) \in Nat
<1>1. \A g \in rows : g.start \in 0 .. MaxTime - 1 /\ g.end \in Nat /\ g.start < g.end
  BY GOPTimes DEF Separate
<1>2. \A g, h \in rows : g.start = h.start => g = h
  BY <1>1 DEF Separate, Apart
<1>3. \A g, h \in rows : g.start < h.start => g.end <= h.start
  BY <1>1 DEF Separate, Apart
<1>4. [g \in rows |-> g.start] \in Injection(rows, 0 .. MaxTime - 1)
  BY <1>1, <1>2 DEF Injection, IsInjective
<1>5. IsFiniteSet(0 .. MaxTime - 1)
  BY IndexBoundsAssumption, FS_Interval
<1>6. IsFiniteSet(rows)
  BY <1>4, <1>5, FS_Injection
<1> QED BY <1>2, <1>3, <1>6, FS_CardinalityType

\* The number of rows that start earlier.
Rank(rows, g) == Cardinality({h \in rows : h.start < g.start})

\* A row has fewer rows before it than a later one.
LEMMA RankOrder ==
  ASSUME NEW rows, Separate(rows)
  PROVE  /\ \A g \in rows : Rank(rows, g) \in 0 .. Cardinality(rows) - 1
         /\ \A g, h \in rows : g.start < h.start => Rank(rows, g) < Rank(rows, h)
<1>0. /\ IsFiniteSet(rows) /\ Cardinality(rows) \in Nat
      /\ \A g \in rows : g.start \in Int
  BY SeparateStarts, GOPTimes DEF Separate
<1>1. ASSUME NEW S \in SUBSET rows, NEW T \in SUBSET S, NEW e \in S, e \notin T
      PROVE  Cardinality(T) \in Nat /\ Cardinality(S) \in Nat /\ Cardinality(T) < Cardinality(S)
  <2>1. IsFiniteSet(S)
    BY <1>0, FS_Subset
  <2>2. /\ Cardinality(S) \in Nat /\ Cardinality(T) \in Nat
        /\ Cardinality(T) <= Cardinality(S) /\ Cardinality(T) # Cardinality(S)
    BY <1>1, <2>1, FS_Subset, FS_CardinalityType
  <2> QED BY <2>2
<1>2. ASSUME NEW g \in rows PROVE Rank(rows, g) \in 0 .. Cardinality(rows) - 1
  <2>1. g \notin {h \in rows : h.start < g.start}
    BY <1>0
  <2>2. Rank(rows, g) \in Nat /\ Rank(rows, g) < Cardinality(rows)
    BY <1>1, <2>1 DEF Rank
  <2> QED BY <1>0, <2>2
<1>3. ASSUME NEW g \in rows, NEW h \in rows, g.start < h.start
      PROVE  Rank(rows, g) < Rank(rows, h)
  <2> DEFINE S == {k \in rows : k.start < h.start}
             T == {k \in rows : k.start < g.start}
  <2>1. S \in SUBSET rows /\ T \in SUBSET S /\ g \in S /\ g \notin T
    BY <1>0, <1>3
  <2> HIDE DEF S, T
  <2>2. Cardinality(T) < Cardinality(S)
    BY <1>1, <2>1
  <2> QED BY <2>2 DEF S, T, Rank
<1> QED BY <1>2, <1>3

\* Every number below that of the rows is the rank of one of them.
LEMMA RankTaken ==
  ASSUME NEW rows, Separate(rows), NEW i \in 1 .. Cardinality(rows)
  PROVE  \E g \in rows : Rank(rows, g) = i - 1
<1> DEFINE f == [g \in rows |-> Rank(rows, g)]
           N == 0 .. Cardinality(rows) - 1
<1>0. /\ IsFiniteSet(rows) /\ Cardinality(rows) \in Nat
      /\ \A g \in rows : g.start \in Int
      /\ \A g, h \in rows : g.start = h.start => g = h
  BY SeparateStarts, GOPTimes DEF Separate
<1>1. /\ \A g \in rows : Rank(rows, g) \in N
      /\ \A g, h \in rows : g.start < h.start => Rank(rows, g) < Rank(rows, h)
  BY RankOrder
<1>2. \A g, h \in rows : Rank(rows, g) = Rank(rows, h) => g = h
  <2> SUFFICES ASSUME NEW g \in rows, NEW h \in rows, Rank(rows, g) = Rank(rows, h), g # h
               PROVE  FALSE
    OBVIOUS
  <2>1. g.start < h.start \/ h.start < g.start
    BY <1>0
  <2>2. Rank(rows, g) \in Int /\ Rank(rows, h) \in Int
    BY <1>0, <1>1
  <2> QED BY <1>1, <2>1, <2>2
<1>3. f \in Injection(rows, N)
  <2> HIDE DEF N
  <2> QED BY <1>1, <1>2 DEF Injection, IsInjective
<1>4. IsFiniteSet(N) /\ Cardinality(N) = Cardinality(rows)
  <2>1. PICK n \in Nat : n = Cardinality(rows)
    BY <1>0
  <2>2. \A m \in Int : /\ IsFiniteSet(0 .. m)
                       /\ Cardinality(0 .. m) = IF 0 > m THEN 0 ELSE m - 0 + 1
    BY FS_Interval
  <2>3. IsFiniteSet(0 .. n - 1) /\ Cardinality(0 .. n - 1) = n
    <3>1. PICK m \in Int : m = n - 1
      OBVIOUS
    <3>2. IsFiniteSet(0 .. m) /\ Cardinality(0 .. m) = IF 0 > m THEN 0 ELSE m - 0 + 1
      BY <2>2
    <3>3. (IF 0 > m THEN 0 ELSE m - 0 + 1) = n
      BY <3>1
    <3> QED BY <3>1, <3>2, <3>3
  <2> QED BY <2>1, <2>3
<1>5. f \in Surjection(rows, N)
  <2> HIDE DEF f, N
  <2> QED BY <1>3, <1>4, FS_Injection
<1>6. i - 1 \in N
  BY <1>0
<1>7. \E g \in rows : f[g] = i - 1
  <2> HIDE DEF f, N
  <2> QED BY <1>5, <1>6 DEF Surjection
<1> QED BY <1>7

\* ByStart puts the rows of one stream in order, and leaves none out.
LEMMA ByStartInOrder ==
  ASSUME NEW rows, Separate(rows)
  PROVE  InOrder(ByStart(rows), rows)
<1> DEFINE b == ByStart(rows)
           n == Cardinality(rows)
<1>0. /\ n \in Nat /\ \A g \in rows : g.start \in Int
      /\ \A g, h \in rows : g.start = h.start => g = h
      /\ \A g, h \in rows : g.start < h.start => g.end <= h.start
  BY SeparateStarts, GOPTimes DEF Separate
<1>1. /\ \A g \in rows : Rank(rows, g) \in 0 .. n - 1
      /\ \A g, h \in rows : g.start < h.start => Rank(rows, g) < Rank(rows, h)
  BY RankOrder
<1>2. b = [i \in 1 .. n |-> CHOOSE g \in rows : Rank(rows, g) = i - 1]
  BY DEF ByStart, Rank
<1> HIDE DEF b, n
<1>3. \A i \in 1 .. n : b[i] \in rows /\ Rank(rows, b[i]) = i - 1
  <2> SUFFICES ASSUME NEW i \in 1 .. n PROVE b[i] \in rows /\ Rank(rows, b[i]) = i - 1
    OBVIOUS
  <2>1. \E g \in rows : Rank(rows, g) = i - 1
    BY RankTaken DEF n
  <2>2. b[i] = CHOOSE g \in rows : Rank(rows, g) = i - 1
    BY <1>2
  <2> QED BY <2>1, <2>2
<1>4. b \in Seq(rows) /\ Len(b) = n
  BY <1>0, <1>2, <1>3
<1>5. ASSUME NEW i \in 1 .. n, NEW j \in 1 .. n, i < j PROVE b[i].end <= b[j].start
  <2>1. b[i] \in rows /\ b[j] \in rows /\ Rank(rows, b[i]) = i - 1 /\ Rank(rows, b[j]) = j - 1
    BY <1>3
  <2>2. Rank(rows, b[i]) < Rank(rows, b[j])
    BY <1>0, <1>5, <2>1
  <2>3. ~(b[j].start < b[i].start) /\ b[i] # b[j]
    <3>1. ~(Rank(rows, b[j]) < Rank(rows, b[i])) /\ Rank(rows, b[i]) # Rank(rows, b[j])
      BY <1>0, <1>5, <2>1
    <3> QED BY <1>1, <2>1, <3>1
  <2>4. b[i].start < b[j].start
    BY <1>0, <2>1, <2>3
  <2> QED BY <1>0, <2>1, <2>4
<1>6. ASSUME NEW g \in rows PROVE \E i \in 1 .. n : b[i] = g
  <2>1. PICK r \in 0 .. n - 1 : r = Rank(rows, g)
    BY <1>1
  <2>2. r + 1 \in 1 .. n /\ (r + 1) - 1 = r
    BY <1>0
  <2>3. b[r + 1] \in rows /\ Rank(rows, b[r + 1]) = r
    BY <1>3, <2>2
  <2>4. ~(b[r + 1].start < g.start) /\ ~(g.start < b[r + 1].start)
    <3>1. ~(Rank(rows, b[r + 1]) < Rank(rows, g)) /\ ~(Rank(rows, g) < Rank(rows, b[r + 1]))
      BY <2>1, <2>3
    <3> QED BY <1>1, <2>3, <3>1
  <2>5. b[r + 1] = g
    BY <1>0, <2>3, <2>4
  <2> QED BY <2>2, <2>5
<1>7. InOrder(b, rows)
  BY <1>4, <1>5, <1>6 DEF InOrder
<1> QED BY <1>7 DEF b

-----------------------------------------------------------------------------
(* Merging *)

\* Induction up to n, for a set in place of a predicate.
LEMMA UpTo ==
  ASSUME NEW n \in Nat, NEW S, 0 \in S, \A k \in 0 .. n - 1 : k \in S => k + 1 \in S
  PROVE  \A k \in 0 .. n : k \in S
<1> DEFINE Less == {p \in Nat \X Nat : p[1] < p[2]}
           Out == {k \in 0 .. n : k \notin S}
<1> SUFFICES ASSUME Out # {} PROVE FALSE
  OBVIOUS
<1>1. IsWellFoundedOn(Less, Nat)
  BY NatLessThanWellFounded DEF OpToRel
<1>2. Out \subseteq Nat
  OBVIOUS
<1>3. PICK k \in Out : \A m \in Out : ~(<<m, k>> \in Less)
  <2> HIDE DEF Less, Out
  <2> QED BY <1>1, <1>2, WFMin
<1>4. k # 0 /\ k - 1 \in 0 .. n - 1 /\ (k - 1) + 1 = k
  BY <1>3
<1>5. k - 1 \notin Out
  <2>1. <<k - 1, k>> \in Less
    BY <1>3, <1>4
  <2> HIDE DEF Less
  <2> QED BY <1>3, <2>1
<1> QED BY <1>3, <1>4, <1>5

\* f gives the ranges of the first rows of seq, up to n of them.
Merges(f, seq, n) ==
  f = [i \in 0 .. n |-> IF i = 0 THEN <<>> ELSE AddGOP(f[i - 1], seq[i])]

\* The loop of GetRecordingRanges comes to an end.
LEMMA MergesExist ==
  ASSUME NEW seq, NEW n \in Nat
  PROVE  \E f : Merges(f, seq, n)
<1> DEFINE Solved == {m \in Nat : \E f : Merges(f, seq, m)}
<1>1. 0 \in Solved
  <2>1. Merges([i \in 0 .. 0 |-> <<>>], seq, 0)
    BY DEF Merges
  <2> QED BY <2>1
<1>2. ASSUME NEW m \in Nat, m \in Solved PROVE m + 1 \in Solved
  <2>1. PICK f : Merges(f, seq, m)
    BY <1>2
  <2> DEFINE g == [i \in 0 .. m + 1 |-> IF i = 0 THEN <<>> ELSE AddGOP(f[i - 1], seq[i])]
  <2>2. \A i \in 0 .. m : g[i] = f[i]
    BY <2>1 DEF Merges
  <2>3. \A i \in 0 .. m + 1 : i # 0 => i - 1 \in 0 .. m
    OBVIOUS
  <2>4. g = [i \in 0 .. m + 1 |-> IF i = 0 THEN <<>> ELSE AddGOP(g[i - 1], seq[i])]
    BY <2>2, <2>3
  <2>5. Merges(g, seq, m + 1)
    BY <2>4 DEF Merges
  <2> QED BY <2>5
<1> HIDE DEF Solved
<1>3. \A k \in 0 .. n : k \in Solved
  BY <1>1, <1>2, UpTo
<1>4. n \in Solved
  BY <1>3
<1> QED BY <1>4 DEF Solved

Ranges == [start : Int, end : Int]

Within(g, r) == r.start <= g.start /\ g.end <= r.end

\* ranges are the recordings made of the first i rows of seq.
RangesOf(ranges, seq, i) ==
  /\ ranges \in Seq(Ranges)
  /\ i = 0 => ranges = <<>>
  /\ i > 0 => Len(ranges) > 0 /\ ranges[Len(ranges)].end = seq[i].end
  /\ \A k \in 2 .. Len(ranges) : ranges[k].start - ranges[k - 1].end >= Gap
  /\ \A j \in 1 .. i : \E k \in 1 .. Len(ranges) : Within(seq[j], ranges[k])
  /\ \A k \in 1 .. Len(ranges) :
       /\ \E j, l \in 1 .. i : seq[j].start = ranges[k].start /\ seq[l].end = ranges[k].end
       /\ \A j \in 1 .. i : Within(seq[j], ranges[k]) /\ seq[j].end < ranges[k].end =>
            /\ j < i /\ Within(seq[j + 1], ranges[k])
            /\ seq[j + 1].start - seq[j].end \in 0 .. Gap - 1

\* Adding the next row keeps that.
LEMMA AddKeeps ==
  ASSUME NEW rows, rows \subseteq GOPs, NEW seq, InOrder(seq, rows),
         NEW i \in 0 .. Len(seq) - 1, NEW ranges, RangesOf(ranges, seq, i)
  PROVE  RangesOf(AddGOP(ranges, seq[i + 1]), seq, i + 1)
<1>0. /\ seq \in Seq(rows) /\ Len(seq) \in Nat /\ i \in Nat /\ i + 1 \in 1 .. Len(seq) /\ Gap \in Nat
      /\ \A j \in 1 .. i : j \in 1 .. Len(seq) /\ j \in Int /\ j < i + 1
  BY GapAssumption DEF InOrder
<1>1. \A j \in 1 .. Len(seq) : /\ seq[j].start \in Int /\ seq[j].end \in Int
                               /\ seq[j].start < seq[j].end
  BY <1>0, GOPTimes
<1>2. \A j, l \in 1 .. Len(seq) : j < l => seq[j].end <= seq[l].start
  BY DEF InOrder
<1>3. PICK m \in Nat : m = Len(ranges)
  BY DEF RangesOf
<1>4. PICK g : g = seq[i + 1] /\ g.start \in Int /\ g.end \in Int /\ g.start < g.end
  BY <1>0, <1>1
<1>5. /\ ranges \in Seq(Ranges) /\ \A k \in 1 .. m : ranges[k] \in Ranges
      /\ \A k \in 1 .. m : ranges[k].start \in Int /\ ranges[k].end \in Int
  <2>1. ranges \in Seq(Ranges) /\ \A k \in 1 .. m : ranges[k] \in Ranges
    BY <1>3 DEF RangesOf
  <2> QED BY <2>1 DEF Ranges
<1>6. \A j \in 1 .. i : seq[j].end <= g.start
  BY <1>0, <1>2, <1>4
<1>7. \A k \in 1 .. m : ranges[k].end <= g.start
  <2> SUFFICES ASSUME NEW k \in 1 .. m PROVE ranges[k].end <= g.start
    OBVIOUS
  <2>1. PICK l \in 1 .. i : seq[l].end = ranges[k].end
    BY <1>3 DEF RangesOf
  <2> QED BY <1>6, <2>1
<1>8. \A k \in 1 .. m : ~Within(g, ranges[k])
  BY <1>4, <1>5, <1>7 DEF Within
<1>9. CASE m > 0 /\ Joins(g, ranges[m])
  <2> DEFINE new == [ranges EXCEPT ![m].end = g.end]
  <2>1. AddGOP(ranges, seq[i + 1]) = new
    BY <1>3, <1>4, <1>9 DEF AddGOP
  <2>2. /\ new \in Seq(Ranges) /\ Len(new) = m
        /\ \A k \in 1 .. m : k # m => new[k] = ranges[k]
        /\ new[m].start = ranges[m].start /\ new[m].end = g.end
    BY <1>3, <1>4, <1>5, <1>9 DEF Ranges
  <2> HIDE DEF new
  <2>3. i > 0 /\ i \in 1 .. i /\ ranges[m].end = seq[i].end /\ g.start - ranges[m].end < Gap
    <3>1. i > 0
      BY <1>0, <1>3, <1>9 DEF RangesOf
    <3> QED BY <1>0, <1>3, <1>9, <3>1 DEF RangesOf, Joins
  <2>4. \A k \in 2 .. m : new[k].start - new[k - 1].end >= Gap
    <3> SUFFICES ASSUME NEW k \in 2 .. m PROVE new[k].start - new[k - 1].end >= Gap
      OBVIOUS
    <3>1. new[k].start = ranges[k].start /\ new[k - 1] = ranges[k - 1]
      BY <2>2
    <3> QED BY <1>3, <3>1 DEF RangesOf
  <2>5. \A k \in 1 .. m, j \in 1 .. i : Within(seq[j], ranges[k]) => Within(seq[j], new[k])
    <3> SUFFICES ASSUME NEW k \in 1 .. m, NEW j \in 1 .. i, Within(seq[j], ranges[k])
                 PROVE  Within(seq[j], new[k])
      OBVIOUS
    <3>1. CASE k # m
      BY <2>2, <3>1
    <3>2. CASE k = m
      <4>1. seq[j].end <= g.end
        BY <1>0, <1>1, <1>4, <1>6
      <4> QED BY <2>2, <3>2, <4>1 DEF Within
    <3> QED BY <3>1, <3>2
  <2>6. Within(g, new[m])
    <3>0. m \in 1 .. m
      BY <1>9
    <3>1. PICK j \in 1 .. i : seq[j].start = ranges[m].start
      BY <1>3, <3>0 DEF RangesOf
    <3>2. seq[j].start < seq[j].end /\ seq[j].end <= g.start /\ seq[j].end \in Int
      BY <1>0, <1>1, <1>6
    <3> QED BY <1>4, <1>5, <1>9, <2>2, <3>1, <3>2 DEF Within
  <2>7. \A j \in 1 .. i + 1 : \E k \in 1 .. m : Within(seq[j], new[k])
    <3> SUFFICES ASSUME NEW j \in 1 .. i + 1 PROVE \E k \in 1 .. m : Within(seq[j], new[k])
      OBVIOUS
    <3>1. CASE j = i + 1
      BY <1>4, <1>9, <2>6, <3>1
    <3>2. CASE j # i + 1
      <4>1. j \in 1 .. i
        BY <1>0, <3>2
      <4>2. PICK k \in 1 .. m : Within(seq[j], ranges[k])
        BY <1>3, <4>1 DEF RangesOf
      <4> QED BY <2>5, <4>1, <4>2
    <3> QED BY <3>1, <3>2
  <2>8. ASSUME NEW k \in 1 .. m
        PROVE  \E j, l \in 1 .. i + 1 : seq[j].start = new[k].start /\ seq[l].end = new[k].end
    <3>1. PICK j \in 1 .. i, l \in 1 .. i : seq[j].start = ranges[k].start /\ seq[l].end = ranges[k].end
      BY <1>3 DEF RangesOf
    <3>2. j \in 1 .. i + 1 /\ l \in 1 .. i + 1 /\ i + 1 \in 1 .. i + 1
      BY <1>0
    <3>3. CASE k = m
      BY <1>4, <2>2, <3>1, <3>2, <3>3
    <3>4. CASE k # m
      BY <2>2, <3>1, <3>2, <3>4
    <3> QED BY <3>3, <3>4
  <2>9. ASSUME NEW k \in 1 .. m, NEW j \in 1 .. i + 1, Within(seq[j], new[k]), seq[j].end < new[k].end
        PROVE  /\ j < i + 1 /\ Within(seq[j + 1], new[k])
               /\ seq[j + 1].start - seq[j].end \in 0 .. Gap - 1
    <3>1. j # i + 1
      <4>1. CASE k = m
        BY <1>4, <2>2, <2>9, <4>1
      <4>2. CASE k # m
        BY <1>4, <1>8, <2>2, <2>9, <4>2
      <4> QED BY <4>1, <4>2
    <3>2. j \in 1 .. i /\ j < i + 1 /\ j \in 1 .. Len(seq)
      BY <1>0, <3>1
    <3>3. CASE Within(seq[j], ranges[k]) /\ seq[j].end < ranges[k].end
      <4>1. /\ j < i /\ Within(seq[j + 1], ranges[k])
            /\ seq[j + 1].start - seq[j].end \in 0 .. Gap - 1
        BY <1>3, <3>2, <3>3 DEF RangesOf
      <4>2. j + 1 \in 1 .. i
        BY <1>0, <3>2, <4>1
      <4> QED BY <2>5, <3>2, <4>1, <4>2
    <3>4. CASE k # m
      BY <2>2, <2>9, <3>3, <3>4
    <3>5. CASE k = m /\ j = i
      <4>1. seq[j + 1] = g /\ g.start - seq[j].end >= 0 /\ g.start - seq[j].end < Gap
        BY <1>0, <1>1, <1>4, <1>6, <2>3, <3>2, <3>5
      <4>2. g.start - seq[j].end \in Int
        BY <1>1, <1>4, <3>2
      <4> QED BY <1>0, <2>6, <3>2, <3>5, <4>1, <4>2
    <3>6. CASE k = m /\ j # i
      <4>1. j < i /\ i \in 1 .. Len(seq)
        BY <1>0, <3>2, <3>6
      <4>2. seq[j].end <= seq[i].start /\ seq[i].start < seq[i].end
        BY <1>1, <1>2, <3>2, <4>1
      <4>3. seq[j].end < ranges[m].end
        BY <1>1, <2>3, <3>2, <4>1, <4>2
      <4>4. Within(seq[j], ranges[m])
        BY <1>1, <1>5, <1>9, <2>2, <2>9, <3>2, <3>6, <4>3 DEF Within
      <4> QED BY <3>3, <3>6, <4>3, <4>4
    <3> QED BY <3>4, <3>5, <3>6
  <2>10. RangesOf(new, seq, i + 1)
    <3>1. i + 1 > 0 /\ i + 1 # 0 /\ Len(new) > 0 /\ new[Len(new)].end = seq[i + 1].end
      BY <1>0, <1>4, <1>9, <2>2
    <3>2. Len(new) = m /\ new \in Seq(Ranges)
      BY <2>2
    <3> QED BY <2>4, <2>7, <2>8, <2>9, <3>1, <3>2 DEF RangesOf
  <2> QED BY <2>1, <2>10
<1>10. CASE ~(m > 0 /\ Joins(g, ranges[m]))
  <2> DEFINE last == [start |-> g.start, end |-> g.end]
             new == Append(ranges, last)
  <2>1. AddGOP(ranges, seq[i + 1]) = new
    BY <1>3, <1>4, <1>10 DEF AddGOP
  <2>2. /\ new \in Seq(Ranges) /\ Len(new) = m + 1
        /\ \A k \in 1 .. m : new[k] = ranges[k]
        /\ new[m + 1].start = g.start /\ new[m + 1].end = g.end
    <3>1. last \in Ranges
      BY <1>4 DEF Ranges
    <3>2. last.start = g.start /\ last.end = g.end
      OBVIOUS
    <3> HIDE DEF last
    <3>3. /\ new \in Seq(Ranges) /\ Len(new) = m + 1 /\ new[m + 1] = last
          /\ \A k \in 1 .. m : new[k] = ranges[k]
      BY <1>3, <1>5, <3>1
    <3> QED BY <3>2, <3>3
  <2> HIDE DEF new
  <2>3. \A k \in 1 .. m + 1 : k \in 1 .. m \/ k = m + 1
    OBVIOUS
  <2>4. \A k \in 2 .. m + 1 : new[k].start - new[k - 1].end >= Gap
    <3> SUFFICES ASSUME NEW k \in 2 .. m + 1 PROVE new[k].start - new[k - 1].end >= Gap
      OBVIOUS
    <3>1. CASE k = m + 1
      <4>1. m > 0 /\ m \in 1 .. m /\ k - 1 = m
        BY <3>1
      <4>2. ~(g.start - ranges[m].end < Gap) /\ ranges[m].end \in Int
        BY <1>5, <1>10, <4>1 DEF Joins
      <4>3. new[k - 1].end = ranges[m].end /\ new[k].start = g.start
        BY <2>2, <3>1, <4>1
      <4> QED BY <1>0, <1>4, <4>2, <4>3
    <3>2. CASE k # m + 1
      <4>1. k \in 2 .. m /\ k \in 1 .. m /\ k - 1 \in 1 .. m
        BY <3>2
      <4> QED BY <1>3, <2>2, <4>1 DEF RangesOf
    <3> QED BY <3>1, <3>2
  <2>5. Within(g, new[m + 1]) /\ m + 1 \in 1 .. m + 1
    BY <1>4, <2>2 DEF Within
  <2>6. \A j \in 1 .. i + 1 : \E k \in 1 .. m + 1 : Within(seq[j], new[k])
    <3> SUFFICES ASSUME NEW j \in 1 .. i + 1 PROVE \E k \in 1 .. m + 1 : Within(seq[j], new[k])
      OBVIOUS
    <3>1. CASE j = i + 1
      BY <1>4, <2>5, <3>1
    <3>2. CASE j # i + 1
      <4>1. j \in 1 .. i
        BY <1>0, <3>2
      <4>2. PICK k \in 1 .. m : Within(seq[j], ranges[k])
        BY <1>3, <4>1 DEF RangesOf
      <4>3. k \in 1 .. m + 1
        OBVIOUS
      <4> QED BY <2>2, <4>2, <4>3
    <3> QED BY <3>1, <3>2
  <2>7. ASSUME NEW k \in 1 .. m + 1
        PROVE  \E j, l \in 1 .. i + 1 : seq[j].start = new[k].start /\ seq[l].end = new[k].end
    <3>1. i + 1 \in 1 .. i + 1 /\ \A j \in 1 .. i : j \in 1 .. i + 1
      BY <1>0
    <3>2. CASE k = m + 1
      BY <1>4, <2>2, <3>1, <3>2
    <3>3. CASE k \in 1 .. m
      <4>1. PICK j \in 1 .. i, l \in 1 .. i : seq[j].start = ranges[k].start /\ seq[l].end = ranges[k].end
        BY <1>3, <3>3 DEF RangesOf
      <4> QED BY <2>2, <3>1, <3>3, <4>1
    <3> QED BY <2>3, <3>2, <3>3
  <2>8. ASSUME NEW k \in 1 .. m + 1, NEW j \in 1 .. i + 1,
               Within(seq[j], new[k]), seq[j].end < new[k].end
        PROVE  /\ j < i + 1 /\ Within(seq[j + 1], new[k])
               /\ seq[j + 1].start - seq[j].end \in 0 .. Gap - 1
    <3>1. j \in 1 .. i \/ j = i + 1
      BY <1>0
    <3>2. k \in 1 .. m
      <4> SUFFICES ASSUME k = m + 1 PROVE FALSE
        BY <2>3
      <4>1. CASE j = i + 1
        BY <1>4, <2>2, <2>8, <4>1
      <4>2. CASE j \in 1 .. i
        <5>1. seq[j].start < seq[j].end /\ seq[j].end <= g.start /\ seq[j].start \in Int /\ seq[j].end \in Int
          BY <1>0, <1>1, <1>6, <4>2
        <5>2. g.start <= seq[j].start
          BY <2>2, <2>8 DEF Within
        <5> QED BY <1>4, <5>1, <5>2
      <4> QED BY <3>1, <4>1, <4>2
    <3>3. new[k] = ranges[k]
      BY <2>2, <3>2
    <3>4. j \in 1 .. i
      BY <1>4, <1>8, <2>8, <3>1, <3>2, <3>3
    <3>5. /\ j < i /\ Within(seq[j + 1], ranges[k])
          /\ seq[j + 1].start - seq[j].end \in 0 .. Gap - 1
      BY <1>3, <2>8, <3>2, <3>3, <3>4 DEF RangesOf
    <3> QED BY <1>0, <3>3, <3>4, <3>5
  <2>9. RangesOf(new, seq, i + 1)
    <3>1. i + 1 > 0 /\ i + 1 # 0 /\ Len(new) > 0 /\ new[Len(new)].end = seq[i + 1].end
      BY <1>0, <1>4, <2>2
    <3>2. Len(new) = m + 1 /\ new \in Seq(Ranges)
      BY <2>2
    <3> QED BY <2>4, <2>6, <2>7, <2>8, <3>1, <3>2 DEF RangesOf
  <2> QED BY <2>1, <2>9
<1> QED BY <1>9, <1>10

\* What the loop of GetRecordingRanges returns.
LEMMA MergedRanges ==
  ASSUME NEW rows, rows \subseteq GOPs, NEW seq, InOrder(seq, rows)
  PROVE  RangesOf(Merged(seq), seq, Len(seq))
<1>1. Len(seq) \in Nat
  BY DEF InOrder
<1>2. PICK f : f = CHOOSE h : Merges(h, seq, Len(seq))
  OBVIOUS
<1>3. Merges(f, seq, Len(seq))
  BY <1>1, <1>2, MergesExist
<1>4. Merged(seq) = f[Len(seq)]
  BY <1>2 DEF Merged, Merges
<1> DEFINE Good == {i \in 0 .. Len(seq) : RangesOf(f[i], seq, i)}
<1>5. 0 \in Good
  <2>1. f[0] = <<>>
    BY <1>1, <1>3 DEF Merges
  <2>2. RangesOf(<<>>, seq, 0)
    BY DEF RangesOf
  <2> QED BY <1>1, <2>1, <2>2
<1>6. ASSUME NEW i \in 0 .. Len(seq) - 1, i \in Good PROVE i + 1 \in Good
  <2>1. i + 1 \in 0 .. Len(seq) /\ i + 1 # 0 /\ (i + 1) - 1 = i
    BY <1>1
  <2>2. f[i + 1] = AddGOP(f[i], seq[i + 1])
    BY <1>3, <2>1 DEF Merges
  <2>3. RangesOf(f[i], seq, i)
    BY <1>6
  <2>4. RangesOf(f[i + 1], seq, i + 1)
    BY <2>2, <2>3, AddKeeps
  <2> QED BY <2>1, <2>4
<1> HIDE DEF Good
<1>7. \A k \in 0 .. Len(seq) : k \in Good
  BY <1>1, <1>5, <1>6, UpTo
<1>8. Len(seq) \in 0 .. Len(seq)
  BY <1>1
<1> QED BY <1>4, <1>7, <1>8 DEF Good

\* The recording ranges of a set of rows of one stream, however it is asked for.
LEMMA RangesOfRows ==
  ASSUME NEW rows, Separate(rows), NEW ranges, ranges = Merged(ByStart(rows))
  PROVE  /\ ranges \in Seq(Ranges)
         /\ \A i \in 2 .. Len(ranges) : ranges[i].start - ranges[i - 1].end >= Gap
         /\ \A g \in rows : \E r \in ToSet(ranges) : Within(g, r)
         /\ \A r \in ToSet(ranges) :
              /\ \E g, h \in rows : g.start = r.start /\ h.end = r.end
              /\ \A g \in rows : Within(g, r) /\ g.end < r.end =>
                   \E h \in rows : Within(h, r) /\ h.start - g.end \in 0 .. Gap - 1
<1>1. PICK seq : seq = ByStart(rows)
  OBVIOUS
<1>2. InOrder(seq, rows) /\ rows \subseteq GOPs
  BY <1>1, ByStartInOrder DEF Separate
<1>3. RangesOf(ranges, seq, Len(seq))
  BY <1>1, <1>2, MergedRanges
<1>4. /\ Len(seq) \in Nat /\ \A i \in 1 .. Len(seq) : seq[i] \in rows
      /\ \A g \in rows : \E i \in 1 .. Len(seq) : seq[i] = g
  BY <1>2 DEF InOrder
<1>5. ranges \in Seq(Ranges) /\ Len(ranges) \in Nat
  BY <1>3 DEF RangesOf
<1>6. ToSet(ranges) = {ranges[k] : k \in 1 .. Len(ranges)}
  BY <1>5 DEF ToSet
<1>7. ASSUME NEW g \in rows PROVE \E r \in ToSet(ranges) : Within(g, r)
  <2>1. PICK i \in 1 .. Len(seq) : seq[i] = g
    BY <1>4
  <2>2. PICK k \in 1 .. Len(ranges) : Within(seq[i], ranges[k])
    BY <1>3 DEF RangesOf
  <2> QED BY <1>6, <2>1, <2>2
<1>8. ASSUME NEW r \in ToSet(ranges) PROVE \E g, h \in rows : g.start = r.start /\ h.end = r.end
  <2>1. PICK k \in 1 .. Len(ranges) : r = ranges[k]
    BY <1>6
  <2>2. PICK j \in 1 .. Len(seq), l \in 1 .. Len(seq) :
          seq[j].start = ranges[k].start /\ seq[l].end = ranges[k].end
    BY <1>3 DEF RangesOf
  <2> QED BY <1>4, <2>1, <2>2
<1>9. ASSUME NEW r \in ToSet(ranges), NEW g \in rows, Within(g, r), g.end < r.end
      PROVE  \E h \in rows : Within(h, r) /\ h.start - g.end \in 0 .. Gap - 1
  <2>1. PICK k \in 1 .. Len(ranges) : r = ranges[k]
    BY <1>6
  <2>2. PICK j \in 1 .. Len(seq) : seq[j] = g
    BY <1>4
  <2>3. /\ j < Len(seq) /\ Within(seq[j + 1], ranges[k])
        /\ seq[j + 1].start - seq[j].end \in 0 .. Gap - 1
    BY <1>3, <1>9, <2>1, <2>2 DEF RangesOf
  <2>4. seq[j + 1] \in rows
    BY <1>4, <2>3
  <2> QED BY <2>1, <2>2, <2>3, <2>4
<1> QED BY <1>3, <1>5, <1>7, <1>8, <1>9 DEF RangesOf

\* The rows of both copies are GOPs of one stream.
SeparateInv == Separate(index \cup v1)

\* Only a written GOP adds a row, and Record writes one apart from all there are.
LEMMA SeparateStep == SeparateInv /\ [Next]_vars => SeparateInv'
<1> SUFFICES ASSUME SeparateInv, [Next]_vars PROVE SeparateInv'
  OBVIOUS
<1> DEFINE rows == index \cup v1
<1>0. Separate(rows)
  BY DEF SeparateInv
<1>1. SeparateInv' <=> Separate(index' \cup v1')
  BY DEF SeparateInv, Separate, GOPs, Apart
<1>2. ASSUME index' \cup v1' \subseteq rows PROVE Separate(index' \cup v1')
  BY <1>0, <1>2 DEF Separate
<1>3. ASSUME NEW g \in GOPs, Record(g) PROVE Separate(index' \cup v1')
  <2>1. index' \cup v1' = rows \cup {g}
    BY <1>3 DEF Record, WriteGOP
  <2>2. \A h \in rows : Apart(g, h) /\ Apart(h, g)
    BY <1>3 DEF Record, Apart
  <2> HIDE DEF rows
  <2> QED BY <1>0, <2>1, <2>2 DEF Separate
<1>4. ASSUME NEW s \in 0 .. MaxTime, NEW e \in s .. MaxTime, Clean(s, e)
      PROVE  index' \cup v1' \subseteq rows
  BY <1>4 DEF Clean, DeleteRange
<1>5. ASSUME MigrateIndex \/ UNCHANGED vars PROVE index' \cup v1' \subseteq rows
  BY <1>5 DEF MigrateIndex, Migrate, vars, indexVars
<1> QED BY <1>1, <1>2, <1>3, <1>4, <1>5 DEF Next

\* The rows a file of the older version holds are of one stream as well.
LEMMA SeparateInit == Init => SeparateInv
<1> SUFFICES ASSUME Init PROVE SeparateInv
  OBVIOUS
<1>1. index \cup v1 \in OldSets
  BY DEF Init
<1> QED BY <1>1, OldSetsAssumption DEF SeparateInv, Separate

\* What a query returns are rows of one stream.
LEMMA QuerySeparate ==
  ASSUME SeparateInv, NEW s, NEW e, NEW loc
  PROVE  Separate(QueryRange(s, e, loc))
  BY DEF SeparateInv, Separate, QueryRange

\* GetRecordingRanges is exact for every set of GOPs the index can hold, every
\* date and every time zone: two ranges are apart by at least Gap, no gap inside
\* one reaches it, and the rows of the date are all in the ranges.
THEOREM RangesAreExact == Spec => []RangesExact
<1>1. SeparateInv => RangesExact
  <2> SUFFICES ASSUME SeparateInv, NEW t \in 0 .. MaxTime, NEW loc \in Locations,
                      NEW gops, gops = QueryRange(Midnight(t, loc), Midnight(t, loc) + Day, loc),
                      NEW ranges, ranges = GetRecordingRanges(t, loc)
               PROVE  /\ \A i \in 2 .. Len(ranges) : ranges[i].start - ranges[i - 1].end >= Gap
                      /\ \A g \in gops : \E r \in ToSet(ranges) : Within(g, r)
                      /\ \A r \in ToSet(ranges) :
                           /\ \E g, h \in gops : g.start = r.start /\ h.end = r.end
                           /\ \A g \in {h \in gops : Within(h, r) /\ h.end < r.end} :
                                \E h \in gops : Within(h, r) /\ h.start - g.end \in 0 .. Gap - 1
    BY DEF RangesExact, Within
  <2>1. Separate(gops) /\ ranges = Merged(ByStart(gops))
    BY QuerySeparate DEF GetRecordingRanges
  <2> QED BY <2>1, RangesOfRows
<1> QED BY <1>1, SeparateInit, SeparateStep, PTL DEF Spec

\* An instant is in the day that begins at its midnight.
LEMMA InItsDay ==
  ASSUME NEW s \in Int, NEW t \in Int, NEW loc \in Int, DateIn(t, loc) = DateIn(s, loc)
  PROVE  /\ Midnight(s, loc) \in Int /\ t \in Midnight(s, loc) .. Midnight(s, loc) + Day
<1>1. PICK d \in Int : /\ d = DateIn(t, loc) /\ d = DateIn(s, loc)
                       /\ Day * d <= t + loc /\ t + loc < Day * d + Day
  <2>1. t + loc \in Int
    OBVIOUS
  <2> QED BY <2>1, DayBounds DEF DateIn
<1>2. PICK p \in Int : p = Day * d /\ p = d * Day
  BY DayAssumption
<1> QED BY <1>1, <1>2, DayAssumption DEF Midnight

\* The API tells a client of every recording in the stretch it asks for that is
\* of the date it starts on, if all questions are asked on the server's side of
\* Greenwich.
THEOREM RangesAreFound == (\A loc \in Locations : SameSide(loc)) => (Spec => []RangesFound)
<1> SUFFICES ASSUME \A loc \in Locations : SameSide(loc) PROVE Spec => []RangesFound
  OBVIOUS
<1>1. SeparateInv => RangesFound
  <2> SUFFICES ASSUME SeparateInv, NEW s \in 0 .. MaxTime, NEW loc \in Locations,
                      NEW e \in s + 1 .. MaxTime, NEW g \in index,
                      DateIn(g.start, loc) = DateIn(s, loc), g.start < e, g.end > s
               PROVE  \E r \in RangesAnswer(s, e, loc) : r.start <= g.start /\ g.end <= r.end
    BY DEF RangesFound
  <2>1. /\ s \in Int /\ e \in Int /\ loc \in Int /\ loc \in 1 - Day .. Day - 1 /\ SameSide(loc)
        /\ Day \in Int
    BY ZoneAssumption, DayAssumption, IndexBoundsAssumption
  <2>2. g.start \in Int /\ g.end \in Int
    BY GOPTimes DEF SeparateInv, Separate
  <2>3. PICK m \in Int : m = Midnight(s, loc) /\ g.start \in m .. m + Day
    BY <2>1, <2>2, InItsDay
  <2>4. g \in QueryRange(m, m + Day, loc)
    BY <2>1, <2>3, QueryComplete
  <2>5. PICK gops, ranges : /\ gops = QueryRange(m, m + Day, loc)
                            /\ ranges = GetRecordingRanges(s, loc)
    OBVIOUS
  <2>6. Separate(gops) /\ ranges = Merged(ByStart(gops)) /\ g \in gops
    BY <2>3, <2>4, <2>5, QuerySeparate DEF GetRecordingRanges
  <2>7. ranges \in Seq(Ranges) /\ \E r \in ToSet(ranges) : Within(g, r)
    BY <2>6, RangesOfRows
  <2>8. PICK r \in ToSet(ranges) : Within(g, r)
    BY <2>7
  <2>9. r.start \in Int /\ r.end \in Int
    <3>1. r \in Ranges
      BY <2>7, <2>8 DEF ToSet
    <3> QED BY <3>1 DEF Ranges
  <2>10. r.end > s /\ r.start < e /\ r.start <= g.start /\ g.end <= r.end
    BY <2>1, <2>2, <2>8, <2>9 DEF Within
  <2> QED BY <2>5, <2>8, <2>10 DEF RangesAnswer
<1> QED BY <1>1, SeparateInit, SeparateStep, PTL DEF Spec

=============================================================================
