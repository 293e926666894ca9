---------------------------- MODULE LatencyProofs ----------------------------
(***************************************************************************)
(* Proofs about what the scheduler makes of measured latencies: the tail the *)
(* SLO gate of module Admission reads out of its window, and the line the    *)
(* learner of module Learner fits.                                           *)
(***************************************************************************)
EXTENDS SchedulerProofs, Learner, FiniteSetTheorems

-----------------------------------------------------------------------------
(* Entries of a sorted copy.                                               *)

\* xs is a finite family of natural numbers with at least one entry.
IsSample(xs) ==
    IsFiniteSet(DOMAIN xs) /\ DOMAIN xs # {} /\ \A i \in DOMAIN xs : xs[i] \in Nat

\* How many entries there are up to x.
LEMMA UpToCounts ==
    ASSUME NEW xs, IsFiniteSet(DOMAIN xs), NEW x
    PROVE  /\ UpTo(xs, x) \subseteq DOMAIN xs /\ IsFiniteSet(UpTo(xs, x))
           /\ Cardinality(UpTo(xs, x)) \in Nat /\ Cardinality(DOMAIN xs) \in Nat
           /\ Cardinality(UpTo(xs, x)) <= Cardinality(DOMAIN xs)
<1>1. UpTo(xs, x) \subseteq DOMAIN xs
  BY DEF UpTo
<1> QED  BY <1>1, FS_Subset, FS_CardinalityType

\* A larger entry has more entries up to it.
LEMMA LargerHasMore ==
    ASSUME NEW xs, IsSample(xs), NEW x \in Nat, NEW j \in DOMAIN xs, x < xs[j]
    PROVE  Cardinality(UpTo(xs, x)) < Cardinality(UpTo(xs, xs[j]))
<1>1. IsFiniteSet(DOMAIN xs) /\ xs[j] \in Nat /\ \A i \in DOMAIN xs : xs[i] \in Nat
  BY DEF IsSample
<1>2. UpTo(xs, x) \subseteq UpTo(xs, xs[j]) /\ j \in UpTo(xs, xs[j]) /\ j \notin UpTo(xs, x)
  BY <1>1 DEF UpTo
<1>3. IsFiniteSet(UpTo(xs, xs[j])) /\ Cardinality(UpTo(xs, xs[j])) \in Nat
  BY <1>1, UpToCounts
<1> QED  BY <1>2, <1>3, FS_Subset, FS_CardinalityType

\* Some entry is not exceeded by any.
LEMMA Largest ==
    ASSUME NEW xs, IsSample(xs)
    PROVE  \E x \in Entries(xs) : UpTo(xs, x) = DOMAIN xs
<1> DEFINE n == Cardinality(DOMAIN xs)
           Above(x) == n - Cardinality(UpTo(xs, x))
           S == {Above(x) : x \in Entries(xs)}
<1>1. /\ IsFiniteSet(DOMAIN xs) /\ DOMAIN xs # {} /\ \A i \in DOMAIN xs : xs[i] \in Nat
  BY DEF IsSample
<1>2. \A x : /\ Cardinality(UpTo(xs, x)) \in Nat /\ n \in Nat
             /\ Cardinality(UpTo(xs, x)) <= n
  BY <1>1, UpToCounts
<1>3. \A x : Above(x) \in Nat
  BY <1>2
<1>4. S \subseteq Nat /\ S # {}
  BY <1>1, <1>3 DEF Entries
<1>5. Min(S) \in S /\ \A y \in S : Min(S) <= y
  BY <1>4, MinOfNats
<1>6. PICK x \in Entries(xs) : \A y \in Entries(xs) : Above(x) <= Above(y)
  BY <1>5
<1>7. x \in Nat
  BY <1>1 DEF Entries
<1>8. ASSUME NEW j \in DOMAIN xs PROVE xs[j] <= x
  <2>1. xs[j] \in Entries(xs) /\ xs[j] \in Nat
    BY <1>1 DEF Entries
  <2>2. ~(x < xs[j])
    <3>1. Above(x) <= Above(xs[j])
      BY <1>6, <2>1
    <3>2. Cardinality(UpTo(xs, xs[j])) <= Cardinality(UpTo(xs, x))
      BY <1>2, <3>1
    <3> QED  BY <1>2, <1>7, <3>2, LargerHasMore
  <2> QED  BY <1>7, <2>1, <2>2
<1>9. UpTo(xs, x) = DOMAIN xs
  BY <1>8 DEF UpTo
<1> QED  BY <1>9

\* sorted(xs)[k - 1] is an entry, k entries do not exceed it, and it is the least
\* such entry.
LEMMA SortedEntry ==
    ASSUME NEW xs, IsSample(xs), NEW k \in Nat, k <= Cardinality(DOMAIN xs)
    PROVE  /\ SortedAt(xs, k) \in Entries(xs) /\ SortedAt(xs, k) \in Nat
           /\ Cardinality(UpTo(xs, SortedAt(xs, k))) >= k
           /\ \A y \in Entries(xs) : Cardinality(UpTo(xs, y)) >= k => SortedAt(xs, k) <= y
<1> DEFINE S == {x \in Entries(xs) : Cardinality(UpTo(xs, x)) >= k}
<1>1. S \subseteq Nat
  BY DEF Entries, IsSample
<1>2. S # {}
  <2>1. PICK x \in Entries(xs) : UpTo(xs, x) = DOMAIN xs
    BY Largest
  <2>2. Cardinality(UpTo(xs, x)) >= k
    BY <2>1, FS_CardinalityType DEF IsSample
  <2> QED  BY <2>2
<1>3. Min(S) \in S /\ \A y \in S : Min(S) <= y
  BY <1>1, <1>2, MinOfNats
<1>4. SortedAt(xs, k) = Min(S)
  BY DEF SortedAt
<1> HIDE DEF S
<1>5. SortedAt(xs, k) \in S /\ \A y \in S : SortedAt(xs, k) <= y
  BY <1>3, <1>4
<1> QED  BY <1>1, <1>5 DEF S

\* A sorted copy is in order.
LEMMA SortedInOrder ==
    ASSUME NEW xs, IsSample(xs), NEW j \in Nat, NEW k \in Nat, j <= k, k <= Cardinality(DOMAIN xs)
    PROVE  SortedAt(xs, j) <= SortedAt(xs, k)
<1>1. Cardinality(DOMAIN xs) \in Nat
  BY FS_CardinalityType DEF IsSample
<1>2. SortedAt(xs, k) \in Entries(xs) /\ Cardinality(UpTo(xs, SortedAt(xs, k))) >= k
  BY SortedEntry
<1>3. Cardinality(UpTo(xs, SortedAt(xs, k))) \in Nat
  BY UpToCounts DEF IsSample
<1>4. j <= Cardinality(DOMAIN xs) /\ Cardinality(UpTo(xs, SortedAt(xs, k))) >= j
  BY <1>1, <1>2, <1>3
<1> QED  BY <1>2, <1>4, SortedEntry

-----------------------------------------------------------------------------
(* The SLO gate.                                                           *)

\* Linear interpolation stays between the two entries.
LEMMA Interpolated ==
    ASSUME NEW lo \in Nat, NEW hi \in Nat, lo <= hi, NEW r \in 0..99
    PROVE  LET q == lo * (100 - r) + hi * r
           IN  /\ q \in Nat /\ 100 * lo <= q /\ q <= 100 * hi
               /\ \A c \in Nat : r > 0 /\ c <= lo /\ q <= 100 * c => hi <= c
<1> DEFINE d == hi - lo
           q == lo * (100 - r) + hi * r
<1>1. d \in Nat /\ hi = lo + d /\ r \in Nat /\ 100 - r \in Nat
  OBVIOUS
<1> HIDE DEF d
<1>2. q = 100 * lo + d * r
  BY <1>1
<1>3. d * r \in Nat /\ d * r <= 100 * d /\ (r > 0 /\ d > 0 => d * r > 0)
  BY <1>1
<1> HIDE DEF q
<1>4. q \in Nat /\ 100 * lo <= q /\ q <= 100 * hi
  BY <1>1, <1>2, <1>3
<1>5. ASSUME NEW c \in Nat, r > 0, c <= lo, q <= 100 * c PROVE hi <= c
  BY <1>1, <1>2, <1>3, <1>5
<1> QED  BY <1>4, <1>5 DEF q

\* What a percentile says about the number of entries below it: the entry it
\* starts from has the 0-based rank p / 100 * (n - 1), cut off.
LEMMA PercentileCounts ==
    ASSUME NEW xs, IsSample(xs), NEW p \in 0..100
    PROVE  LET n == Cardinality(DOMAIN xs)
               k == p * (n - 1)
               q == Percentile(xs, p)
           IN  /\ q \in Nat
               /\ \A c \in Nat : q <= 100 * c => Cardinality(UpTo(xs, c)) >= k \div 100 + 1
               /\ \A c \in Nat : q <= 100 * c /\ k % 100 # 0 /\ (\A i \in DOMAIN xs : c <= xs[i])
                                   => Cardinality(UpTo(xs, c)) >= k \div 100 + 2
               /\ \A c \in Nat : q > 100 * c => \E i \in DOMAIN xs : xs[i] > c
<1> DEFINE n == Cardinality(DOMAIN xs)
           k == p * (n - 1)
           a == k \div 100 + 1
           r == k % 100
           lo == SortedAt(xs, a)
           hi == IF r = 0 THEN lo ELSE SortedAt(xs, a + 1)
           q == Percentile(xs, p)
<1>1. IsFiniteSet(DOMAIN xs) /\ DOMAIN xs # {} /\ \A i \in DOMAIN xs : xs[i] \in Nat
  BY DEF IsSample
<1>2. n \in Nat /\ n > 0
  BY <1>1, FS_CardinalityType, FS_EmptySet
<1>3. k \in Nat /\ k <= 100 * (n - 1)
  <2> DEFINE m == n - 1
  <2>1. m \in Nat /\ p \in Nat /\ p <= 100
    BY <1>2
  <2> HIDE DEF m
  <2>2. p * m \in Nat /\ p * m <= 100 * m
    BY <2>1
  <2> QED  BY <2>2 DEF m
<1> HIDE DEF k
<1>4. a \in Nat /\ r \in 0..99 /\ a >= 1 /\ a <= n /\ (r # 0 => a + 1 <= n)
  BY <1>2, <1>3
<1>5. q = lo * (100 - r) + hi * r
  <2>1. k \div 100 + 2 = a + 1
    BY <1>3
  <2> QED  BY <1>2, <2>1 DEF Percentile, k
<1> HIDE DEF n, a, r, q
<1>6. /\ lo \in Entries(xs) /\ lo \in Nat /\ Cardinality(UpTo(xs, lo)) >= a
  BY <1>4, SortedEntry DEF n
<1>7. /\ hi \in Entries(xs) /\ hi \in Nat /\ lo <= hi
      /\ r # 0 => Cardinality(UpTo(xs, hi)) >= a + 1
  <2>1. CASE r = 0
    BY <1>6, <2>1
  <2>2. CASE r # 0
    <3>1. a + 1 \in Nat /\ a <= a + 1
      BY <1>4
    <3>2. /\ SortedAt(xs, a + 1) \in Entries(xs) /\ SortedAt(xs, a + 1) \in Nat
          /\ Cardinality(UpTo(xs, SortedAt(xs, a + 1))) >= a + 1
      BY <1>4, <2>2, <3>1, SortedEntry DEF n
    <3>3. SortedAt(xs, a) <= SortedAt(xs, a + 1)
      BY <1>4, <2>2, <3>1, SortedInOrder DEF n
    <3> QED  BY <2>2, <3>2, <3>3
  <2> QED  BY <2>1, <2>2
<1> HIDE DEF lo, hi
<1>8. /\ q \in Nat /\ 100 * lo <= q /\ q <= 100 * hi
      /\ \A c \in Nat : r > 0 /\ c <= lo /\ q <= 100 * c => hi <= c
  BY <1>4, <1>5, <1>6, <1>7, Interpolated
<1>9. ASSUME NEW c \in Nat, NEW x \in Nat, x <= c
      PROVE  Cardinality(UpTo(xs, x)) <= Cardinality(UpTo(xs, c)) /\ Cardinality(UpTo(xs, c)) \in Nat
             /\ Cardinality(UpTo(xs, x)) \in Nat
  <2>1. UpTo(xs, x) \subseteq UpTo(xs, c)
    BY <1>1, <1>9 DEF UpTo
  <2> QED  BY <1>1, <2>1, UpToCounts, FS_Subset
<1>10. ASSUME NEW c \in Nat, q <= 100 * c PROVE Cardinality(UpTo(xs, c)) >= a
  <2>1. lo <= c
    BY <1>6, <1>8, <1>10
  <2> QED  BY <1>4, <1>6, <1>9, <2>1
<1>11. ASSUME NEW c \in Nat, q <= 100 * c, r # 0, \A i \in DOMAIN xs : c <= xs[i]
       PROVE  Cardinality(UpTo(xs, c)) >= a + 1
  <2>1. c <= lo
    BY <1>6, <1>11 DEF Entries
  <2>2. hi <= c
    BY <1>4, <1>8, <1>11, <2>1
  <2> QED  BY <1>4, <1>7, <1>9, <1>11, <2>2
<1>12. ASSUME NEW c \in Nat, q > 100 * c PROVE \E i \in DOMAIN xs : xs[i] > c
  <2>1. hi > c
    BY <1>7, <1>8, <1>12
  <2> QED  BY <1>7, <2>1 DEF Entries
<1>13. k \div 100 + 1 = a /\ k \div 100 + 2 = a + 1 /\ k % 100 = r
  BY <1>3 DEF a, r
<1> HIDE DEF q
<1> QED  BY <1>8, <1>10, <1>11, <1>12, <1>13 DEF q, k, n

\* A sequence of latencies is a sample of its length.
LEMMA SeqIsSample ==
    ASSUME NEW xs \in Seq(Nat), Len(xs) > 0
    PROVE  IsSample(xs) /\ Cardinality(DOMAIN xs) = Len(xs)
<1>1. DOMAIN xs = 1..Len(xs) /\ Len(xs) \in Nat /\ \A i \in 1..Len(xs) : xs[i] \in Nat
  OBVIOUS
<1>2. IsFiniteSet(1..Len(xs)) /\ Cardinality(1..Len(xs)) = Len(xs)
  BY <1>1, FS_Interval
<1>3. 1 \in 1..Len(xs)
  BY <1>1
<1> QED  BY <1>1, <1>2, <1>3 DEF IsSample

\* The scores of the feasible backends, and the best of them.
LEMMA ScoresAreSample ==
    ASSUME NEW field \in Fields, Candidates(field) # {}
    PROVE  /\ IsSample(Scores(field)) /\ DOMAIN Scores(field) = Candidates(field)
           /\ Best(field) \in Nat
           /\ \E i \in Candidates(field) : field[i] = Best(field)
           /\ \A i \in Candidates(field) : Best(field) <= Scores(field)[i]
           /\ \A i \in Candidates(field) : Scores(field)[i] = field[i]
<1> DEFINE xs == Scores(field)
<1>1. field \in Seq(Nat \cup {Blocked})
  BY AdmissionAssumption
<1>2. DOMAIN field = 1..Len(field) /\ \A i \in DOMAIN field : field[i] \in Nat \cup {Blocked}
  BY <1>1
<1>3. DOMAIN xs = Candidates(field) /\ \A i \in Candidates(field) : xs[i] = field[i] /\ xs[i] \in Nat
  BY <1>2 DEF Scores, Candidates
<1>4. IsFiniteSet(Candidates(field))
  <2>1. IsFiniteSet(1..Len(field))
    <3>1. Len(field) \in Nat
      BY <1>1
    <3> QED  BY <3>1, FS_Interval
  <2>2. Candidates(field) \subseteq 1..Len(field)
    BY <1>2 DEF Candidates
  <2> QED  BY <2>1, <2>2, FS_Subset
<1> HIDE DEF xs
<1>5. IsSample(xs)
  BY <1>3, <1>4 DEF IsSample
<1>6. Entries(xs) \subseteq Nat /\ Entries(xs) # {}
  BY <1>3 DEF Entries
<1>7. Min(Entries(xs)) \in Entries(xs) /\ \A y \in Entries(xs) : Min(Entries(xs)) <= y
  BY <1>6, MinOfNats
<1>8. Best(field) = Min(Entries(xs))
  BY DEF Best, xs
<1>9. Best(field) \in Entries(xs) /\ \A y \in Entries(xs) : Best(field) <= y
  BY <1>7, <1>8
<1>10. \A i \in Candidates(field) : xs[i] \in Entries(xs)
  BY <1>3 DEF Entries
<1>11. \E i \in Candidates(field) : field[i] = Best(field)
  BY <1>3, <1>9 DEF Entries
<1> QED  BY <1>3, <1>5, <1>6, <1>9, <1>10, <1>11 DEF xs

\* The window holds latencies.
WindowInv == recent_e2e \in Seq(Nat)

\* It is only ever appended to, after its oldest entry left.
LEMMA WindowStep == WindowInv /\ [GateNext]_gateVars => WindowInv'
<1> SUFFICES ASSUME WindowInv, [GateNext]_gateVars PROVE WindowInv'
  OBVIOUS
<1>1. ASSUME NEW e2e \in Samples, Completed(e2e) PROVE WindowInv'
  <2>1. e2e \in Nat /\ Window > 0 /\ Window \in Nat
    BY AdmissionAssumption
  <2>2. recent_e2e' = Append(IF Len(recent_e2e) < Window THEN recent_e2e ELSE Tail(recent_e2e), e2e)
    BY <1>1 DEF Completed
  <2>3. CASE Len(recent_e2e) < Window
    BY <2>1, <2>2, <2>3 DEF WindowInv
  <2>4. CASE ~(Len(recent_e2e) < Window)
    <3>1. recent_e2e # <<>>
      BY <2>1, <2>4 DEF WindowInv
    <3>2. Tail(recent_e2e) \in Seq(Nat)
      BY <3>1 DEF WindowInv
    <3> QED  BY <2>1, <2>2, <2>4, <3>2 DEF WindowInv
  <2> QED  BY <2>3, <2>4
<1>2. ASSUME UNCHANGED recent_e2e PROVE WindowInv'
  BY <1>2 DEF WindowInv
<1>3. ASSUME NEW field \in Fields, Decide(field) \/ NoFeasible(field) PROVE WindowInv'
  BY <1>2, <1>3 DEF Decide, NoFeasible
<1> QED  BY <1>1, <1>2, <1>3 DEF GateNext, Dropped, ResetCounters, gateVars

\* While strict mode admits, the window keeps the contract.
LEMMA StrictTail == WindowInv => StrictHoldsTheTail
<1> SUFFICES ASSUME WindowInv, admission_mode = "strict", Len(recent_e2e) >= Warmup,
                    NEW field \in Fields, Candidates(field) # {}, ~Rejects(field)
             PROVE  LET n == Len(recent_e2e)
                    IN  Cardinality({i \in DOMAIN recent_e2e : recent_e2e[i] > SloMs})
                          <= (n - 1) - (TailPercent * (n - 1)) \div 100
  BY DEF StrictHoldsTheTail
<1> DEFINE n == Len(recent_e2e)
           misses == {i \in DOMAIN recent_e2e : recent_e2e[i] > SloMs}
           within == UpTo(recent_e2e, SloMs)
           rank == (TailPercent * (n - 1)) \div 100
<1>1. SloMs \in Nat /\ TailPercent \in 0..100 /\ Warmup > 0 /\ Warmup \in Nat
  BY AdmissionAssumption
<1>2. recent_e2e \in Seq(Nat) /\ n \in Nat /\ n > 0
  BY <1>1 DEF WindowInv
<1>3. IsSample(recent_e2e) /\ Cardinality(DOMAIN recent_e2e) = n
  BY <1>2, SeqIsSample
<1>4. Percentile(recent_e2e, TailPercent) <= 100 * SloMs
  <2>1. ~(Percentile(recent_e2e, TailPercent) > 100 * SloMs)
    BY DEF Rejects, TailOverSlo
  <2>2. Percentile(recent_e2e, TailPercent) \in Nat
    BY <1>1, <1>3, PercentileCounts
  <2> QED  BY <1>1, <2>1, <2>2
<1>5. Cardinality(within) >= rank + 1
  BY <1>1, <1>3, <1>4, PercentileCounts
<1>6. /\ within \cup misses = DOMAIN recent_e2e /\ within \cap misses = {}
  <2>1. \A i \in DOMAIN recent_e2e : (recent_e2e[i] > SloMs) <=> ~(recent_e2e[i] <= SloMs)
    BY <1>1, <1>2
  <2> QED  BY <2>1 DEF UpTo
<1>7. /\ IsFiniteSet(within) /\ IsFiniteSet(misses)
      /\ Cardinality(within) \in Nat /\ Cardinality(misses) \in Nat
  <2>1. within \subseteq DOMAIN recent_e2e /\ misses \subseteq DOMAIN recent_e2e
    BY DEF UpTo
  <2> QED  BY <1>3, <2>1, FS_Subset, FS_CardinalityType DEF IsSample
<1>8. Cardinality(within \cup misses) = Cardinality(within) + Cardinality(misses)
  <2>1. Cardinality(within \cap misses) = 0
    BY <1>6, FS_EmptySet
  <2>2. Cardinality(within \cup misses)
          = Cardinality(within) + Cardinality(misses) - Cardinality(within \cap misses)
    BY <1>7, FS_Union
  <2> QED  BY <1>7, <2>1, <2>2
<1>9. rank \in Int
  BY <1>1, <1>2
<1> HIDE DEF within, misses, rank
<1>10. Cardinality(misses) <= (n - 1) - rank
  BY <1>2, <1>3, <1>5, <1>6, <1>7, <1>8, <1>9
<1> QED  BY <1>10 DEF misses, rank

\* The strict contract, for any window, percentile, limit and latencies: while
\* requests are let in, the share of the window above the percentile, at most,
\* missed the SLO.
THEOREM StrictContract == GateSpec => []StrictHoldsTheTail
<1>1. GateInit => WindowInv
  BY DEF GateInit, WindowInv
<1> QED  BY <1>1, StrictTail, WindowStep, PTL DEF GateSpec

\* What the empirical gate sheds follows from real misses and a saturated field.
LEMMA ShedsFollow == WindowInv => ShedIsJustified
<1> SUFFICES ASSUME WindowInv, admission_mode = "empirical", NEW field \in Fields,
                    Candidates(field) # {}, Rejects(field)
             PROVE  /\ \E i \in DOMAIN recent_e2e : recent_e2e[i] > SloMs
                    /\ 4 * Cardinality({i \in Candidates(field) : field[i] = Best(field)})
                         >= 3 * Cardinality(Candidates(field))
  BY DEF ShedIsJustified
<1> DEFINE xs == Scores(field)
           best == Best(field)
           n == Cardinality(Candidates(field))
           tied == {i \in Candidates(field) : field[i] = best}
           k == 75 * (n - 1)
<1>1. TailOverSlo /\ WorstQuartile(field)
  BY DEF Rejects
<1>2. \E i \in DOMAIN recent_e2e : recent_e2e[i] > SloMs
  <2>1. SloMs \in Nat /\ TailPercent \in 0..100 /\ Warmup > 0 /\ Warmup \in Nat
    BY AdmissionAssumption
  <2>2. recent_e2e \in Seq(Nat) /\ Len(recent_e2e) > 0
    BY <1>1, <2>1 DEF WindowInv, TailOverSlo
  <2>3. IsSample(recent_e2e)
    BY <2>2, SeqIsSample
  <2> QED  BY <1>1, <2>1, <2>3, PercentileCounts DEF TailOverSlo
<1>3. /\ IsSample(xs) /\ DOMAIN xs = Candidates(field) /\ best \in Nat
      /\ \E i \in Candidates(field) : field[i] = best
      /\ \A i \in DOMAIN xs : best <= xs[i] /\ xs[i] = field[i] /\ xs[i] \in Nat
  BY ScoresAreSample DEF IsSample
<1> HIDE DEF xs, best
<1>4. tied = UpTo(xs, best)
  BY <1>3 DEF UpTo
<1>5. /\ IsFiniteSet(tied) /\ Cardinality(tied) \in Nat /\ n \in Nat /\ n > 0
      /\ Cardinality(tied) > 0
  <2>1. IsFiniteSet(Candidates(field)) /\ tied \subseteq Candidates(field)
    BY <1>3 DEF IsSample
  <2>2. tied # {}
    BY <1>3
  <2> QED  BY <2>1, <2>2, FS_Subset, FS_CardinalityType, FS_EmptySet
<1> DEFINE t == Cardinality(tied)
<1>6. ASSUME n < 2 PROVE 4 * t >= 3 * n
  <2> HIDE DEF n, t
  <2>1. t \in Nat /\ t > 0 /\ n \in Nat
    BY <1>5 DEF t
  <2> QED  BY <1>6, <2>1
<1>7. ASSUME n >= 2 PROVE 4 * t >= 3 * n
  <2>1. Percentile(xs, 75) <= 100 * best
    <3>1. 100 * best >= Percentile(xs, 75)
      BY <1>1, <1>7 DEF WorstQuartile, xs, best
    <3>2. Percentile(xs, 75) \in Nat
      BY <1>3, PercentileCounts
    <3> QED  BY <1>3, <3>1, <3>2
  <2>2. /\ Cardinality(UpTo(xs, best)) >= k \div 100 + 1
        /\ k % 100 # 0 => Cardinality(UpTo(xs, best)) >= k \div 100 + 2
    <3>1. 75 \in 0..100 /\ n = Cardinality(DOMAIN xs)
      BY <1>3
    <3>2. \A i \in DOMAIN xs : best <= xs[i]
      BY <1>3
    <3> QED  BY ONLY <1>3, <2>1, <3>1, <3>2, PercentileCounts
  <2>3. t >= k \div 100 + 1 /\ (k % 100 # 0 => t >= k \div 100 + 2) /\ t \in Nat /\ n \in Nat
    BY <1>4, <1>5, <2>2
  <2> HIDE DEF n, t
  <2>4. k \in Nat
    BY <1>7, <2>3
  <2> HIDE DEF k
  <2>5. 100 * t >= k + 100
    BY <2>3, <2>4
  <2> QED  BY <2>3, <2>5 DEF k
<1>8. 4 * t >= 3 * n
  <2> HIDE DEF n, t
  <2>1. n \in Nat
    BY <1>5
  <2> QED  BY <1>6, <1>7, <2>1
<1> QED  BY <1>2, <1>8 DEF best

\* The empirical gate sheds only while completed requests miss the SLO and three
\* quarters of the feasible backends, at least, cost as much as the best one: for
\* any window, percentile, scores and number of backends.
THEOREM ShedsAreJustified == GateSpec => []ShedIsJustified
<1>1. GateInit => WindowInv
  BY DEF GateInit, WindowInv
<1> QED  BY <1>1, ShedsFollow, WindowStep, PTL DEF GateSpec

-----------------------------------------------------------------------------
(* Arithmetic of the learner.                                              *)

\* A quotient cut off towards zero has the sign of its numerator and is no
\* larger than the exact one.
LEMMA CutSigns ==
    ASSUME NEW a \in Int, NEW b \in Nat, b > 0
    PROVE  /\ Cut(a, b) \in Int
           /\ a >= 0 => Cut(a, b) >= 0 /\ b * Cut(a, b) <= a
           /\ a <= 0 => Cut(a, b) <= 0 /\ b * Cut(a, b) >= a
<1>1. ASSUME NEW x \in Nat PROVE x \div b \in Nat /\ b * (x \div b) <= x
  OBVIOUS
<1>2. CASE a >= 0
  <2>1. a \in Nat /\ Cut(a, b) = a \div b
    BY <1>2 DEF Cut
  <2>2. a \div b \in Nat /\ b * (a \div b) <= a
    BY <1>1, <2>1
  <2>3. a = 0 => a \div b = 0
    BY <2>2
  <2> QED  BY <1>2, <2>1, <2>2, <2>3
<1>3. CASE a < 0
  <2> DEFINE x == -a
             c == x \div b
  <2>1. x \in Nat /\ Cut(a, b) = -c
    BY <1>3 DEF Cut
  <2>2. c \in Nat /\ b * c <= x
    BY <1>1, <2>1
  <2> HIDE DEF c
  <2>3. b * (-c) = -(b * c)
    BY <2>2
  <2>4. b * (-c) >= a
    BY <2>2, <2>3
  <2> QED  BY <1>3, <2>1, <2>2, <2>4
<1> QED  BY <1>2, <1>3

\* The clamp max(lo, min(hi, x)).
LEMMA Clamped ==
    ASSUME NEW lo \in Int, NEW hi \in Int, lo <= hi, NEW x \in Int
    PROVE  /\ Between(lo, hi, x) \in lo..hi
           /\ \A y \in lo..hi : /\ y <= x => y <= Between(lo, hi, x) /\ Between(lo, hi, x) <= x
                                /\ x <= y => x <= Between(lo, hi, x) /\ Between(lo, hi, x) <= y
BY DEF Between

\* The tolerance for a contended sample: doubled by each clipped one, six times.
LEMMA Widened ==
    ASSUME NEW streak \in Nat
    PROVE  /\ Widening(streak) \in Nat /\ Widening(streak) >= 1
           /\ streak = 0 => Widening(streak) = 1
           /\ streak >= MaxDoublings => Widening(streak) = 64
<1> DEFINE e == IF streak < MaxDoublings THEN streak ELSE MaxDoublings
<1>1. Widening(streak) = 2 ^ e
  BY DEF Widening
<1>2. e \in 0..6 /\ (streak = 0 => e = 0) /\ (streak >= MaxDoublings => e = 6)
  BY DEF MaxDoublings
<1> HIDE DEF e
<1>3. 2 ^ 0 = 1 /\ 2 ^ 1 = 2 /\ 2 ^ 2 = 4 /\ 2 ^ 3 = 8 /\ 2 ^ 4 = 16 /\ 2 ^ 5 = 32 /\ 2 ^ 6 = 64
  OBVIOUS
<1> DEFINE w == 2 ^ e
<1>4. e = 0 \/ e = 1 \/ e = 2 \/ e = 3 \/ e = 4 \/ e = 5 \/ e = 6
  BY <1>2
<1>5. /\ e = 0 => w = 1
      /\ e = 1 => w = 2
      /\ e = 2 => w = 4
      /\ e = 3 => w = 8
      /\ e = 4 => w = 16
      /\ e = 5 => w = 32
      /\ e = 6 => w = 64
  BY ONLY <1>3, Zenon
<1>6. Widening(streak) = w
  BY <1>1
<1> HIDE DEF w
<1> QED  BY <1>2, <1>4, <1>5, <1>6

\* A step of a slope has the sign of the error, keeps to the cap, and takes at
\* most 1 / rate of the error at this size.
LEMMA StepSigns ==
    ASSUME NEW err \in Int, NEW tokens \in Nat, tokens > 0, NEW rate \in Nat, rate > 0,
           NEW cap \in Nat
    PROVE  LET d == SlopeStep(err, tokens, rate, cap)
           IN  /\ d \in Int
               /\ err >= 0 => 0 <= d /\ d <= cap /\ rate * (tokens * d) <= err
               /\ err <= 0 => d <= 0 /\ -cap <= d /\ rate * (tokens * d) >= err
<1> DEFINE b == rate * tokens
           c == Cut(err, b)
           d == SlopeStep(err, tokens, rate, cap)
<1>1. b \in Nat /\ b > 0
  <2>1. \A x, y \in Nat : x > 0 /\ y > 0 => x * y \in Nat /\ x * y > 0
    OBVIOUS
  <2> QED  BY <2>1
<1>2. d = Between(-cap, cap, c)
  BY DEF SlopeStep
<1> HIDE DEF b
<1>3. c \in Int /\ (err >= 0 => c >= 0 /\ b * c <= err) /\ (err <= 0 => c <= 0 /\ b * c >= err)
  BY <1>1, CutSigns
<1> HIDE DEF c, d
<1>4. /\ d \in Int /\ -cap <= d /\ d <= cap
      /\ c >= 0 => 0 <= d /\ d <= c
      /\ c <= 0 => c <= d /\ d <= 0
  BY <1>2, <1>3 DEF Between
<1>5. \A x, y \in Int : x <= y => b * x <= b * y
  BY <1>1
<1>6. rate * (tokens * d) = b * d
  BY <1>4 DEF b
<1>7. err >= 0 => b * d <= err
  <2>1. err >= 0 => b * d <= b * c
    BY <1>3, <1>4, <1>5
  <2>2. b * d \in Int /\ b * c \in Int
    BY <1>1, <1>3, <1>4
  <2> QED  BY <1>3, <2>1, <2>2
<1>8. err <= 0 => b * d >= err
  <2>1. err <= 0 => b * c <= b * d
    BY <1>3, <1>4, <1>5
  <2>2. b * d \in Int /\ b * c \in Int
    BY <1>1, <1>3, <1>4
  <2> QED  BY <1>3, <2>1, <2>2
<1> QED  BY <1>3, <1>4, <1>6, <1>7, <1>8 DEF d

-----------------------------------------------------------------------------
(* One update of the learner.                                              *)

Fits == [fast : Floor..SlopeMax, slow : Floor..SlopeMax, intercept : Floor..InterceptMax, avg : Nat]

LearnTypeOK ==
    /\ mode \in {"DUAL", "SINGLE", "STATIC"} /\ robust \in BOOLEAN /\ workload \in Workloads
    /\ model \in Fits /\ recent \in Seq(Nat) /\ clip_streak \in Nat

\* The slope that counts is at least the floor.
LEMMA SlopeType ==
    ASSUME NEW m \in Fits
    PROVE  EffectiveSlope(m) \in Nat /\ EffectiveSlope(m) >= Floor
<1>1. /\ m.fast \in Nat /\ m.slow \in Nat /\ m.fast >= 100 /\ m.slow >= 100
  BY LearnerAssumption DEF Fits, Floor
<1> DEFINE f == m.fast
           w == m.slow
<1> HIDE DEF f, w
<1>2. f \in Nat /\ w \in Nat /\ f >= 100 /\ w >= 100
  BY <1>1 DEF f, w
<1>3. Cut(8 * f + 2 * w, 10) \in Nat /\ Cut(8 * f + 2 * w, 10) >= 100
  BY <1>2 DEF Cut
<1> QED  BY <1>2, <1>3 DEF EffectiveSlope, Floor, f, w

\* A slope that moves by at most d per token moves the estimate in proportion.
LEMMA Distributed ==
    ASSUME NEW t \in Nat, NEW d \in Int, NEW p \in Int, NEW q \in Int
    PROVE  /\ 10 * d <= 8 * p + 2 * q + 10
                => 10 * (t * d) <= 8 * (t * p) + 2 * (t * q) + 10 * t
           /\ 10 * d >= 8 * p + 2 * q - 10
                => 10 * (t * d) >= 8 * (t * p) + 2 * (t * q) - 10 * t
           /\ t * d \in Int /\ t * p \in Int /\ t * q \in Int
<1> DEFINE y == 8 * p + 2 * q + 10
           z == 8 * p + 2 * q - 10
<1>1. \A u, v \in Int : u <= v => t * u <= t * v
  OBVIOUS
<1>2. /\ t * (10 * d) = 10 * (t * d)
      /\ t * y = 8 * (t * p) + 2 * (t * q) + 10 * t
      /\ t * z = 8 * (t * p) + 2 * (t * q) - 10 * t
  OBVIOUS
<1>3. y \in Int /\ z \in Int /\ 10 * d \in Int
  OBVIOUS
<1>4. t * d \in Int /\ t * p \in Int /\ t * q \in Int
  OBVIOUS
<1> HIDE DEF y, z
<1>5. (10 * d <= y => t * (10 * d) <= t * y) /\ (10 * d >= z => t * z <= t * (10 * d))
  BY <1>1, <1>3
<1> QED  BY <1>2, <1>4, <1>5 DEF y, z

\* What one step does to the line: slope and intercept move with the sign of the
\* error that was taken, the slope by at most the cap, the estimate by at most a
\* tenth of the error, and the intercept by at most a two-hundredth of it.
LEMMA SteppedMoves ==
    ASSUME NEW m \in Fits, NEW err \in Int, NEW tokens \in Nat, tokens > 0, NEW cap \in Nat
    PROVE  LET n == Stepped(m, err, tokens, cap)
               d == EffectiveSlope(n) - EffectiveSlope(m)
               i == n.intercept - m.intercept
           IN  /\ n \in Fits
               /\ err >= 0 => /\ 0 <= d /\ d <= cap /\ 10 * (tokens * d) <= err + 10 * tokens
                              /\ 0 <= i /\ 200 * i <= err
               /\ err <= 0 => /\ d <= 0 /\ -cap <= d /\ 10 * (tokens * d) >= err - 10 * tokens
                              /\ i <= 0 /\ 200 * i >= err
<1> DEFINE n == Stepped(m, err, tokens, cap)
           p == SlopeStep(err, tokens, 10, cap)
           q == SlopeStep(err, tokens, 100, cap)
           c == Cut(err, 200)
           f == m.fast
           w == m.slow
           b == m.intercept
           ff == Between(Floor, SlopeMax, f + p)
           ww == IF mode = "DUAL" THEN Between(Floor, SlopeMax, w + q) ELSE ff
           bb == Between(Floor, InterceptMax, b + c)
           d == EffectiveSlope(n) - EffectiveSlope(m)
<1>1. /\ p \in Int
      /\ err >= 0 => 0 <= p /\ p <= cap /\ 10 * (tokens * p) <= err
      /\ err <= 0 => p <= 0 /\ -cap <= p /\ 10 * (tokens * p) >= err
  BY StepSigns
<1>2. /\ q \in Int
      /\ err >= 0 => 0 <= q /\ q <= cap /\ 100 * (tokens * q) <= err
      /\ err <= 0 => q <= 0 /\ -cap <= q /\ 100 * (tokens * q) >= err
  BY StepSigns
<1>3. c \in Int /\ (err >= 0 => c >= 0 /\ 200 * c <= err) /\ (err <= 0 => c <= 0 /\ 200 * c >= err)
  BY CutSigns
<1>4. n = [m EXCEPT !.fast = ff, !.slow = ww, !.intercept = bb]
  BY DEF Stepped
<1> HIDE DEF p, q, c
<1>5. /\ f \in Floor..SlopeMax /\ w \in Floor..SlopeMax /\ b \in Floor..InterceptMax
      /\ Floor \in Int /\ SlopeMax \in Int /\ InterceptMax \in Int
      /\ Floor <= SlopeMax /\ Floor <= InterceptMax /\ Floor = 100
  BY LearnerAssumption DEF Fits, Floor
<1> HIDE DEF f, w, b
<1>6. /\ ff \in Floor..SlopeMax
      /\ p >= 0 => f <= ff /\ ff <= f + p
      /\ p <= 0 => f + p <= ff /\ ff <= f
  BY <1>1, <1>5, Clamped
<1>7. /\ bb \in Floor..InterceptMax
      /\ c >= 0 => b <= bb /\ bb <= b + c
      /\ c <= 0 => b + c <= bb /\ bb <= b
  BY <1>3, <1>5, Clamped
<1>8. /\ ww \in Floor..SlopeMax
      /\ mode = "DUAL" /\ q >= 0 => w <= ww /\ ww <= w + q
      /\ mode = "DUAL" /\ q <= 0 => w + q <= ww /\ ww <= w
  <2> DEFINE x == Between(Floor, SlopeMax, w + q)
  <2>1. /\ x \in Floor..SlopeMax
        /\ q >= 0 => w <= x /\ x <= w + q
        /\ q <= 0 => w + q <= x /\ x <= w
    BY <1>2, <1>5, Clamped
  <2>2. ww = IF mode = "DUAL" THEN x ELSE ff
    OBVIOUS
  <2> HIDE DEF x, ff, ww
  <2> QED  BY <1>6, <2>1, <2>2
<1> HIDE DEF ff, ww, bb
<1>9. n \in Fits /\ n.fast = ff /\ n.slow = ww /\ n.intercept = bb
  BY <1>4, <1>6, <1>7, <1>8 DEF Fits
<1> HIDE DEF n
<1>10. /\ f \in Nat /\ w \in Nat /\ ff \in Nat /\ ww \in Nat /\ b \in Nat /\ bb \in Nat
  BY <1>5, <1>6, <1>7, <1>8
<1>11. d = IF mode = "DUAL" THEN (8 * ff + 2 * ww) \div 10 - (8 * f + 2 * w) \div 10 ELSE ff - f
  <2>1. Cut(8 * ff + 2 * ww, 10) = (8 * ff + 2 * ww) \div 10
    BY <1>10 DEF Cut
  <2>2. Cut(8 * f + 2 * w, 10) = (8 * f + 2 * w) \div 10
    BY <1>10 DEF Cut
  <2> QED  BY <1>9, <2>1, <2>2 DEF EffectiveSlope, f, w
<1> DEFINE i == n.intercept - m.intercept
<1>14. /\ i \in Int
       /\ err >= 0 => 0 <= i /\ 200 * i <= err
       /\ err <= 0 => i <= 0 /\ 200 * i >= err
  <2>1. i = bb - b
    BY <1>9 DEF b
  <2> HIDE DEF i
  <2> QED  BY <1>3, <1>7, <1>10, <2>1
<1> DEFINE Moves ==
             /\ d \in Int
             /\ err >= 0 => 0 <= d /\ d <= cap /\ 10 * (tokens * d) <= err + 10 * tokens
             /\ err <= 0 => d <= 0 /\ -cap <= d /\ 10 * (tokens * d) >= err - 10 * tokens
<1> HIDE DEF d, i
<1>12. ASSUME mode = "DUAL" PROVE Moves
  <2> DEFINE old == 8 * f + 2 * w
             new == 8 * ff + 2 * ww
  <2>1. old \in Nat /\ new \in Nat /\ d = new \div 10 - old \div 10
    BY <1>10, <1>11, <1>12
  <2>2. /\ err >= 0 => old <= new /\ new <= old + 8 * p + 2 * q
        /\ err <= 0 => new <= old /\ old + 8 * p + 2 * q <= new
    BY <1>1, <1>2, <1>6, <1>8, <1>10, <1>12
  <2> HIDE DEF old, new
  <2>3. /\ d \in Int /\ (old <= new => 0 <= d) /\ (new <= old => d <= 0)
        /\ 10 * d <= (new - old) + 10 /\ 10 * d >= (new - old) - 10
        /\ new <= old + 10 * cap => d <= cap
        /\ old <= new + 10 * cap => -cap <= d
    BY <2>1
  <2>4. ASSUME err >= 0
        PROVE  0 <= d /\ d <= cap /\ 10 * (tokens * d) <= err + 10 * tokens
    <3>1. 0 <= d /\ d <= cap /\ 10 * d <= 8 * p + 2 * q + 10
      BY <1>1, <1>2, <2>1, <2>2, <2>3, <2>4
    <3> QED  BY <1>1, <1>2, <2>3, <2>4, <3>1, Distributed
  <2>5. ASSUME err <= 0
        PROVE  d <= 0 /\ -cap <= d /\ 10 * (tokens * d) >= err - 10 * tokens
    <3>1. d <= 0 /\ -cap <= d /\ 10 * d >= 8 * p + 2 * q - 10
      BY <1>1, <1>2, <2>1, <2>2, <2>3, <2>5
    <3> QED  BY <1>1, <1>2, <2>3, <2>5, <3>1, Distributed
  <2> QED  BY <2>3, <2>4, <2>5
<1>13. ASSUME mode # "DUAL" PROVE Moves
  <2>1. d = ff - f /\ d \in Int
    BY <1>10, <1>11, <1>13
  <2>2. /\ err >= 0 => 0 <= d /\ d <= p
        /\ err <= 0 => p <= d /\ d <= 0
    BY <1>1, <1>6, <1>10, <2>1
  <2>3. /\ err >= 0 => 10 * (tokens * d) <= err + 10 * tokens
        /\ err <= 0 => 10 * (tokens * d) >= err - 10 * tokens
    <3>1. /\ err >= 0 => 10 * d <= 8 * p + 2 * p + 10
          /\ err <= 0 => 10 * d >= 8 * p + 2 * p - 10
      BY <1>1, <2>1, <2>2
    <3>2. /\ err >= 0 => 10 * (tokens * d) <= 8 * (tokens * p) + 2 * (tokens * p) + 10 * tokens
          /\ err <= 0 => 10 * (tokens * d) >= 8 * (tokens * p) + 2 * (tokens * p) - 10 * tokens
          /\ tokens * d \in Int /\ tokens * p \in Int
      BY <1>1, <2>1, <3>1, Distributed
    <3> QED  BY <1>1, <3>2
  <2> QED  BY <1>1, <2>1, <2>2, <2>3
<1>15. /\ n \in Fits
       /\ err >= 0 => /\ 0 <= d /\ d <= cap /\ 10 * (tokens * d) <= err + 10 * tokens
                      /\ 0 <= i /\ 200 * i <= err
       /\ err <= 0 => /\ d <= 0 /\ -cap <= d /\ 10 * (tokens * d) >= err - 10 * tokens
                      /\ i <= 0 /\ 200 * i >= err
  <2> HIDE DEF Moves
  <2>1. Moves
    BY <1>12, <1>13
  <2>2. n \in Fits
    BY <1>9
  <2> QED  BY <1>14, <2>1, <2>2 DEF Moves
<1> QED  BY ONLY <1>15, Zenon DEF d, i, n

\* The reference magnitude of the clipping is a latency.
LEMMA ScaleType ==
    recent \in Seq(Nat) =>
        \A pred \in Nat : RobustScale(pred) \in Nat
<1> SUFFICES ASSUME recent \in Seq(Nat), NEW pred \in Nat
             PROVE  RobustScale(pred) \in Nat
  OBVIOUS
<1> DEFINE k == (Len(recent) - 1) \div 4 + 1
           typical == SortedAt(recent, k)
<1>1. ASSUME Len(recent) >= WindowMin PROVE typical \in Nat
  <2>1. Len(recent) \in Nat /\ Len(recent) > 0
    BY <1>1, LearnerAssumption
  <2>2. k \in Nat /\ k <= Len(recent)
    BY <2>1
  <2>3. IsSample(recent) /\ Cardinality(DOMAIN recent) = Len(recent)
    BY <2>1, SeqIsSample
  <2> HIDE DEF k
  <2> QED  BY <2>2, <2>3, SortedEntry
<1> HIDE DEF typical
<1>2. RobustScale(pred) = Larger(IF Len(recent) >= WindowMin THEN typical ELSE pred, 1000)
  BY DEF RobustScale, typical
<1> QED  BY <1>1, <1>2 DEF Larger

\* The trust region of one odd sample: a twentieth of the estimate.
LEMMA CapAtSize ==
    ASSUME NEW pred \in Nat, NEW tokens \in Nat, tokens > 0
    PROVE  LET cap == Larger(Cut(pred, 20 * tokens), 1)
           IN  cap \in Nat /\ tokens * cap <= pred \div 20 + tokens
<1> DEFINE c == Cut(pred, 20 * tokens)
           cap == Larger(c, 1)
<1>1. 20 * tokens \in Nat /\ 20 * tokens > 0
  OBVIOUS
<1>2. c \in Int /\ c >= 0 /\ (20 * tokens) * c <= pred
  BY <1>1, CutSigns
<1> HIDE DEF c
<1>3. (20 * tokens) * c = 20 * (tokens * c) /\ tokens * c \in Nat
  BY <1>2
<1>4. tokens * c <= pred \div 20 /\ pred \div 20 \in Nat
  BY <1>2, <1>3
<1>5. cap \in Nat /\ (cap = c \/ cap = 1)
  BY <1>2 DEF Larger
<1>6. tokens * 1 = tokens
  OBVIOUS
<1> HIDE DEF cap
<1>7. tokens * cap <= pred \div 20 + tokens
  BY <1>3, <1>4, <1>5, <1>6
<1> QED  BY <1>5, <1>7 DEF cap, c

\* An update, in terms of how far it moves slope and intercept.
LEMMA UpdateMoves ==
    ASSUME LearnTypeOK, NEW s \in workload.samples, Update(s)
    PROVE  LET t == s.tokens
               pred == Predict(model, t)
               err == s.actual - pred
               scale == RobustScale(pred)
               now == Predict(model, t)'
           IN  /\ LearnTypeOK' /\ t \in Nat /\ t > 0 /\ s.actual \in Nat /\ s.contended \in BOOLEAN
               /\ pred \in Nat /\ scale \in Nat /\ now \in Int
               /\ last'.sample = s /\ last'.pred = pred /\ last'.scale = scale
               /\ last'.streak = clip_streak
               /\ mode = "STATIC" => now = pred
               /\ err >= 0 => now >= pred /\ now <= s.actual + t
               /\ err <= 0 => now <= pred /\ now >= s.actual - t
               /\ clip_streak = 0 /\ robust /\ s.contended =>
                    Distance(now, pred) <= pred \div 20 + scale \div 100 + t
               /\ held' = 0 \/ (held' = held + 1 /\ clip_streak' = clip_streak + 1
                                  /\ Distance(err, 0) > 2 * scale * Widening(clip_streak))
<1> DEFINE t == s.tokens
           pred == Predict(model, t)
           err == s.actual - pred
           scale == RobustScale(pred)
           widen == Widening(clip_streak)
           base == 2 * scale
           limit == base * widen
           guarded == ~Trusted(s.contended)
           taken == IF guarded THEN Between(-limit, limit, err) ELSE err
           clipped == guarded /\ mode # "STATIC" /\ taken # err
           cap == IF guarded THEN Larger(Cut(widen * pred, 20 * t), 1) ELSE SlopeMax * 100
           n == IF mode = "STATIC" THEN model ELSE Stepped(model, taken, t, cap)
           now == Predict(model, t)'
           d == EffectiveSlope(n) - EffectiveSlope(model)
           i == n.intercept - model.intercept
<1>1. /\ model' = [n EXCEPT !.avg = AvgAfter(@, s.actual)]
      /\ clip_streak' = IF mode = "STATIC" THEN clip_streak
                        ELSE IF ~guarded THEN 0
                        ELSE IF clipped THEN clip_streak + 1
                        ELSE IF Distance(err, 0) <= base THEN 0 ELSE clip_streak
      /\ recent' = IF Len(recent) = WindowMax THEN Append(Tail(recent), s.actual)
                   ELSE Append(recent, s.actual)
      /\ last' = [sample |-> s, pred |-> pred, clipped |-> clipped, scale |-> scale,
                  streak |-> clip_streak]
      /\ held' = IF clipped THEN held + 1 ELSE 0
      /\ mode' = mode /\ robust' = robust /\ workload' = workload
  BY DEF Update
<1>2. /\ t \in Nat /\ t > 0 /\ s.actual \in Nat /\ s.contended \in BOOLEAN
  BY LearnerAssumption DEF LearnTypeOK
<1>3. /\ model \in Fits /\ model.intercept \in Nat /\ EffectiveSlope(model) \in Nat
      /\ pred = EffectiveSlope(model) * t + model.intercept
  <2>1. model \in Fits
    BY DEF LearnTypeOK
  <2>2. model.intercept \in Floor..InterceptMax /\ Floor = 100 /\ InterceptMax \in Nat
    BY <2>1, LearnerAssumption DEF Fits, Floor
  <2>3. model.intercept \in Nat
    BY <2>2
  <2> QED  BY <2>1, <2>3, SlopeType DEF Predict
<1>4. pred \in Nat
  <2>1. EffectiveSlope(model) * t \in Nat
    BY <1>2, <1>3
  <2> QED  BY <1>3, <2>1
<1> HIDE DEF t, pred
<1>5. scale \in Nat
  <2>1. recent \in Seq(Nat)
    BY DEF LearnTypeOK
  <2> QED  BY ONLY <1>4, <2>1, ScaleType
<1>6. widen \in Nat /\ widen >= 1 /\ (clip_streak = 0 => widen = 1)
  BY Widened DEF LearnTypeOK
<1> HIDE DEF scale, widen
<1>7. limit \in Nat /\ (widen = 1 => limit = 2 * scale) /\ limit = 2 * scale * widen
  <2>1. base \in Nat
    BY <1>5
  <2> HIDE DEF base
  <2>2. base * widen \in Nat /\ (widen = 1 => base * widen = base)
    BY <1>6, <2>1
  <2> QED  BY <2>2 DEF base
<1>8. err \in Int
  BY <1>2, <1>4
<1> HIDE DEF limit, err
<1>9. /\ taken \in Int
      /\ err >= 0 => 0 <= taken /\ taken <= err
      /\ err <= 0 => err <= taken /\ taken <= 0
      /\ guarded => -limit <= taken /\ taken <= limit
      /\ -limit <= err /\ err <= limit => taken = err
  <2> HIDE DEF guarded
  <2> QED  BY <1>7, <1>8 DEF Between
<1>10. cap \in Nat /\ (guarded /\ widen = 1 => t * cap <= pred \div 20 + t)
  <2>1. widen * pred \in Nat
    BY <1>4, <1>6
  <2>2. Larger(Cut(widen * pred, 20 * t), 1) \in Nat
    <3> DEFINE w == widen * pred
    <3> HIDE DEF w
    <3> QED  BY <1>2, <2>1, CapAtSize DEF w
  <2>3. widen = 1 => t * Larger(Cut(widen * pred, 20 * t), 1) <= pred \div 20 + t
    <3>1. ASSUME widen = 1 PROVE widen * pred = pred
      BY <1>4, <3>1
    <3> QED  BY <1>2, <1>4, <3>1, CapAtSize
  <2>4. SlopeMax * 100 \in Nat
    BY LearnerAssumption
  <2> QED  BY <2>2, <2>3, <2>4
<1> HIDE DEF guarded, taken, cap
<1>11. /\ n \in Fits /\ d \in Int /\ i \in Int
       /\ mode = "STATIC" => d = 0 /\ i = 0
       /\ taken >= 0 => /\ 0 <= d /\ d <= cap /\ 10 * (t * d) <= taken + 10 * t
                        /\ 0 <= i /\ 200 * i <= taken
       /\ taken <= 0 => /\ d <= 0 /\ -cap <= d /\ 10 * (t * d) >= taken - 10 * t
                        /\ i <= 0 /\ 200 * i >= taken
  <2>1. CASE mode = "STATIC"
    <3>1. n = model
      BY <2>1
    <3>2. d = 0 /\ i = 0
      BY <1>3, <3>1
    <3>3. t * d = 0
      BY <1>2, <3>2
    <3> HIDE DEF n, d, i
    <3> QED  BY <1>2, <1>3, <1>9, <1>10, <2>1, <3>1, <3>2, <3>3
  <2>2. CASE mode # "STATIC"
    <3>1. n = Stepped(model, taken, t, cap)
      BY <2>2
    <3> HIDE DEF n
    <3>2. /\ n \in Fits
          /\ taken >= 0 => /\ 0 <= d /\ d <= cap /\ 10 * (t * d) <= taken + 10 * t
                           /\ 0 <= i /\ 200 * i <= taken
          /\ taken <= 0 => /\ d <= 0 /\ -cap <= d /\ 10 * (t * d) >= taken - 10 * t
                           /\ i <= 0 /\ 200 * i >= taken
      <4> DEFINE m == Stepped(model, taken, t, cap)
                 dm == EffectiveSlope(m) - EffectiveSlope(model)
                 im == m.intercept - model.intercept
      <4>1. /\ m \in Fits
            /\ taken >= 0 => /\ 0 <= dm /\ dm <= cap /\ 10 * (t * dm) <= taken + 10 * t
                             /\ 0 <= im /\ 200 * im <= taken
            /\ taken <= 0 => /\ dm <= 0 /\ -cap <= dm /\ 10 * (t * dm) >= taken - 10 * t
                             /\ im <= 0 /\ 200 * im >= taken
        <5>1. model \in Fits /\ taken \in Int /\ t \in Nat /\ t > 0 /\ cap \in Nat
          BY <1>2, <1>3, <1>9, <1>10
        <5> QED  BY ONLY <5>1, SteppedMoves
      <4> HIDE DEF m
      <4>2. n = m
        BY <3>1 DEF m
      <4> QED  BY ONLY <4>1, <4>2
    <3>3. EffectiveSlope(n) \in Nat /\ n.intercept \in Int
      BY <3>2, SlopeType DEF Fits
    <3>4. d \in Int /\ i \in Int
      BY <1>3, <3>3
    <3> HIDE DEF d, i
    <3> QED  BY <2>2, <3>2, <3>4
  <2> QED  BY <2>1, <2>2
<1> HIDE DEF n
<1>12. now = EffectiveSlope(n) * t + n.intercept /\ EffectiveSlope(n) \in Nat /\ n.intercept \in Nat
  <2>1. EffectiveSlope(n) \in Nat /\ n.intercept \in Floor..InterceptMax
    BY <1>11, SlopeType DEF Fits
  <2>2. n.intercept \in Nat
    BY <2>1, LearnerAssumption DEF Floor
  <2>3. model'.fast = n.fast /\ model'.slow = n.slow /\ model'.intercept = n.intercept
    BY <1>1, <1>11 DEF Fits
  <2>4. EffectiveSlope(model)' = EffectiveSlope(n)
    BY <1>1, <2>3 DEF EffectiveSlope
  <2>5. now = EffectiveSlope(model)' * t + model'.intercept
    BY DEF Predict, t
  <2> QED  BY <2>1, <2>2, <2>3, <2>4, <2>5
<1> HIDE DEF now
<1>13. now = pred + t * d + i /\ now \in Int /\ t * d \in Int
  <2> DEFINE e == EffectiveSlope(model)
             f == EffectiveSlope(n)
  <2>1. e \in Nat /\ f \in Nat /\ d = f - e
    BY <1>3, <1>12
  <2> HIDE DEF e, f
  <2>2. t * d = f * t - e * t /\ f * t \in Int /\ e * t \in Int
    BY <1>2, <2>1
  <2>3. now = f * t + n.intercept /\ pred = e * t + model.intercept
    BY <1>3, <1>12 DEF e, f
  <2>4. i = n.intercept - model.intercept
    OBVIOUS
  <2> HIDE DEF d, i
  <2> QED  BY <1>3, <1>12, <2>2, <2>3, <2>4
<1> HIDE DEF d, i
<1>14. LearnTypeOK'
  <2>1. model' \in Fits
    <3>1. n.avg \in Nat
      BY <1>11 DEF Fits
    <3>2. AvgAfter(n.avg, s.actual) \in Nat
      BY <1>2, <3>1 DEF AvgAfter, Cut
    <3>3. model' = [n EXCEPT !.avg = AvgAfter(n.avg, s.actual)]
      BY <1>1
    <3> QED  BY <1>11, <3>2, <3>3 DEF Fits
  <2>2. recent' \in Seq(Nat)
    <3>1. recent \in Seq(Nat)
      BY DEF LearnTypeOK
    <3>2. ASSUME Len(recent) = WindowMax PROVE Tail(recent) \in Seq(Nat)
      <4>1. recent # <<>>
        BY <3>1, <3>2, LearnerAssumption
      <4> QED  BY <3>1, <4>1
    <3> QED  BY <1>1, <1>2, <3>1, <3>2
  <2>3. clip_streak' \in Nat
    BY <1>1 DEF LearnTypeOK
  <2> QED  BY <1>1, <2>1, <2>2, <2>3 DEF LearnTypeOK
<1>15. mode = "STATIC" => now = pred
  BY <1>2, <1>4, <1>11, <1>13
<1>16. err = s.actual - pred
  BY DEF err
<1>17. err >= 0 => now >= pred /\ now <= s.actual + t
  <2>1. ASSUME err >= 0 PROVE 0 <= t * d
    BY <1>2, <1>9, <1>11, <2>1
  <2> QED  BY <1>2, <1>4, <1>8, <1>9, <1>11, <1>13, <1>16, <2>1
<1>18. err <= 0 => now <= pred /\ now >= s.actual - t
  <2>1. ASSUME err <= 0 PROVE t * d <= 0
    BY <1>2, <1>9, <1>11, <2>1
  <2> QED  BY <1>2, <1>4, <1>8, <1>9, <1>11, <1>13, <1>16, <2>1
<1>19. ASSUME clip_streak = 0, robust, s.contended
       PROVE  Distance(now, pred) <= pred \div 20 + scale \div 100 + t
  <2>1. guarded /\ widen = 1
    BY <1>6, <1>19 DEF guarded, Trusted
  <2>2. t * cap <= pred \div 20 + t /\ -limit <= taken /\ taken <= limit /\ limit = 2 * scale
    BY <1>7, <1>9, <1>10, <2>1
  <2>3. -(t * cap) <= t * d /\ t * d <= t * cap /\ t * cap \in Nat
    <3>1. -cap <= d /\ d <= cap
      BY <1>9, <1>10, <1>11
    <3>2. \A u, v \in Int : u <= v => t * u <= t * v
      BY <1>2
    <3>3. t * (-cap) = -(t * cap) /\ t * cap \in Nat
      BY <1>2, <1>10
    <3>4. -cap \in Int /\ cap \in Int /\ d \in Int
      BY <1>10, <1>11
    <3> QED  BY <3>1, <3>2, <3>3, <3>4
  <2>4. -(scale \div 100) <= i /\ i <= scale \div 100
    BY <1>5, <1>9, <1>11, <2>2
  <2>5. now - pred = t * d + i
    BY <1>4, <1>11, <1>13
  <2> QED  BY <1>2, <1>4, <1>5, <1>11, <1>13, <2>2, <2>3, <2>4, <2>5 DEF Distance
<1>20. held' = 0 \/ (held' = held + 1 /\ clip_streak' = clip_streak + 1
                      /\ Distance(err, 0) > 2 * scale * Widening(clip_streak))
  <2>1. CASE clipped
    <3>1. held' = held + 1 /\ clip_streak' = clip_streak + 1
      BY <1>1, <2>1
    <3>2. ~(-limit <= err /\ err <= limit)
      BY <1>9, <2>1
    <3>3. Distance(err, 0) > limit
      BY <1>7, <1>8, <3>2 DEF Distance
    <3> QED  BY <1>7, <3>1, <3>3 DEF widen
  <2>2. CASE ~clipped
    BY <1>1, <2>2
  <2> QED  BY <2>1, <2>2
<1>21. /\ last'.sample = s /\ last'.pred = pred /\ last'.scale = scale /\ last'.streak = clip_streak
  BY <1>1
<1> QED  BY <1>2, <1>4, <1>5, <1>13, <1>14, <1>15, <1>17, <1>18, <1>19, <1>20, <1>21
         DEF t, pred, err, scale, now

\* The three properties, with what makes them inductive: the types, and that a
\* streak is at least as long as the run of clipped samples behind it (longer
\* where a sample in between was taken at face value without ending it).
LearnInv ==
    /\ LearnTypeOK /\ held \in Nat /\ held <= clip_streak
    /\ NeverOvershoots /\ SustainedIsBelieved /\ OutlierIsHeld

\* Before the first sample.
LEMMA LearnInitially == LearnerInit => LearnInv
<1> SUFFICES ASSUME LearnerInit PROVE LearnInv
  OBVIOUS
<1>1. model \in Fits
  BY LearnerAssumption DEF LearnerInit, Fits
<1>2. LearnTypeOK
  BY <1>1, LearnerAssumption DEF LearnerInit, LearnTypeOK
<1>3. held = 0 /\ clip_streak = 0 /\ counts.updates = 0 /\ ~last.sample.contended
  BY DEF LearnerInit, NoSample
<1>4. NeverOvershoots /\ SustainedIsBelieved /\ OutlierIsHeld
  BY <1>3 DEF NeverOvershoots, SustainedIsBelieved, OutlierIsHeld, MaxDoublings
<1> QED  BY <1>2, <1>3, <1>4 DEF LearnInv

\* Every update keeps all of it.
LEMMA LearnStep == LearnInv /\ [Learn]_learnerVars => LearnInv'
<1> SUFFICES ASSUME LearnInv, [Learn]_learnerVars PROVE LearnInv'
  OBVIOUS
<1>1. CASE UNCHANGED learnerVars
  BY <1>1 DEF learnerVars, LearnInv, LearnTypeOK, NeverOvershoots, SustainedIsBelieved,
              OutlierIsHeld, Predict, EffectiveSlope
<1>2. ASSUME NEW s \in workload.samples, Update(s) PROVE LearnInv'
  <2> DEFINE t == s.tokens
             pred == Predict(model, t)
             err == s.actual - pred
             scale == RobustScale(pred)
             now == Predict(model, t)'
             slack == Slack(t)
  <2>1. LearnTypeOK /\ held \in Nat /\ held <= clip_streak /\ clip_streak \in Nat
    BY DEF LearnInv, LearnTypeOK
  <2>2. /\ LearnTypeOK' /\ t \in Nat /\ t > 0 /\ s.actual \in Nat /\ s.contended \in BOOLEAN
        /\ pred \in Nat /\ scale \in Nat /\ now \in Int
        /\ last'.sample = s /\ last'.pred = pred /\ last'.scale = scale
        /\ last'.streak = clip_streak
        /\ mode = "STATIC" => now = pred
        /\ err >= 0 => now >= pred /\ now <= s.actual + t
        /\ err <= 0 => now <= pred /\ now >= s.actual - t
        /\ clip_streak = 0 /\ robust /\ s.contended =>
             Distance(now, pred) <= pred \div 20 + scale \div 100 + t
        /\ held' = 0 \/ (held' = held + 1 /\ clip_streak' = clip_streak + 1
                           /\ Distance(err, 0) > 2 * scale * Widening(clip_streak))
    BY <1>2, <2>1, UpdateMoves
  <2>3. mode' = mode /\ robust' = robust
    BY <1>2 DEF Update
  <2>4. slack \in Nat /\ t <= slack /\ slack = 2 * t + 1
    BY <2>2 DEF Slack
  <2>5. now = Predict(model, last.sample.tokens)'
    BY <2>2 DEF Predict
  <2>6. err \in Int /\ err = s.actual - pred
    BY <2>2
  <2> HIDE DEF t, pred, err, scale, now, slack
  <2>7. NeverOvershoots'
    <3>1. /\ mode = "STATIC" => now = pred
          /\ pred <= s.actual => now >= pred - slack /\ now <= s.actual + slack
          /\ pred >= s.actual => now <= pred + slack /\ now >= s.actual - slack
      BY <2>2, <2>4, <2>6
    <3>2. last'.sample = s /\ last'.pred = pred /\ slack = Slack(last'.sample.tokens) /\ mode' = mode
      BY <2>2, <2>3 DEF slack, t
    <3> QED  BY <2>5, <3>1, <3>2 DEF NeverOvershoots, Slack
  <2>8. OutlierIsHeld'
    <3>1. clip_streak = 0 /\ robust /\ s.contended =>
             Distance(now, pred) <= pred \div 20 + scale \div 100 + slack
      <4>1. Distance(now, pred) \in Int
        BY <2>2 DEF Distance
      <4>2. pred \div 20 \in Nat /\ scale \div 100 \in Nat
        BY <2>2
      <4> QED  BY <2>2, <2>4, <4>1, <4>2
    <3>2. /\ last'.sample = s /\ last'.pred = pred /\ slack = Slack(last'.sample.tokens)
          /\ last'.scale = scale /\ last'.streak = clip_streak /\ robust' = robust
      BY <2>2, <2>3 DEF slack, t
    <3> QED  BY <2>5, <3>1, <3>2 DEF OutlierIsHeld, Slack, Distance
  <2>9. SustainedIsBelieved' /\ held' \in Nat /\ held' <= clip_streak'
    <3>1. CASE held' = 0
      <4>1. clip_streak' \in Nat
        BY <2>2 DEF LearnTypeOK
      <4> QED  BY <3>1, <4>1 DEF SustainedIsBelieved, MaxDoublings
    <3>2. CASE /\ held' = held + 1 /\ clip_streak' = clip_streak + 1
               /\ Distance(err, 0) > 2 * scale * Widening(clip_streak)
      <4>1. held' \in Nat /\ held' <= clip_streak'
        BY <2>1, <3>2
      <4>2. Distance(last'.sample.actual, last'.pred) = Distance(err, 0)
        BY <2>2, <2>6 DEF Distance
      <4>3. clip_streak >= MaxDoublings => Distance(err, 0) > 128 * scale
        <5>1. clip_streak >= MaxDoublings => Widening(clip_streak) = 64
          BY <2>1, Widened
        <5> QED  BY <2>2, <3>2, <5>1
      <4>4. Distance(err, 0) \in Int /\ MaxDoublings = 6
        BY <2>6 DEF Distance, MaxDoublings
      <4>5. Distance(err, 0) <= 100 * scale => held' <= MaxDoublings
        BY <2>1, <2>2, <3>2, <4>3, <4>4
      <4> QED  BY <2>2, <4>1, <4>2, <4>5 DEF SustainedIsBelieved, Distance
    <3> QED  BY <2>2, <3>1, <3>2
  <2> QED  BY <2>2, <2>7, <2>8, <2>9 DEF LearnInv
<1> QED  BY <1>1, <1>2 DEF Learn

\* Every update, from any line within its limits, moves the estimate towards the
\* measurement and never past it: for any samples, sizes, limits and windows.
THEOREM EstimateNeverOvershoots == LearnerSpec => []NeverOvershoots
<1>1. LearnInv => NeverOvershoots
  BY DEF LearnInv
<1> QED  BY <1>1, LearnInitially, LearnStep, PTL DEF LearnerSpec

\* Of seven contended samples in a row one is taken at face value, whatever came
\* before them and whatever the window makes the typical latency.
THEOREM ChangeIsBelieved == LearnerSpec => []SustainedIsBelieved
<1>1. LearnInv => SustainedIsBelieved
  BY DEF LearnInv
<1> QED  BY <1>1, LearnInitially, LearnStep, PTL DEF LearnerSpec

\* One odd sample moves the estimate for its size by at most a twentieth and a
\* hundredth of the typical latency, however far off it is.
THEOREM OutliersAreHeld == LearnerSpec => []OutlierIsHeld
<1>1. LearnInv => OutlierIsHeld
  BY DEF LearnInv
<1> QED  BY <1>1, LearnInitially, LearnStep, PTL DEF LearnerSpec

=============================================================================
