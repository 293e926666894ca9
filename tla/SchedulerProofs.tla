---------------------------- MODULE SchedulerProofs ----------------------------
(***************************************************************************)
(* Proofs about the scheduling core: the cost ranking of module Ranking and  *)
(* the counters of the SLO gate of module Admission, for any number of       *)
(* backends, any request sizes, any state of the learner and any score list. *)
(***************************************************************************)
EXTENDS Ranking, Admission, FiniteSetTheorems, SequenceTheorems, WellFoundedInduction, TLAPS

-----------------------------------------------------------------------------
(* Extrema.                                                                *)

\* min(a, b) and max(a, b)
LEMMA MinOfTwo ==
    ASSUME NEW a \in Int, NEW b \in Int
    PROVE  Min({a, b}) \in {a, b} /\ Min({a, b}) <= a /\ Min({a, b}) <= b
<1>1. \E x \in {a, b} : \A y \in {a, b} : x <= y
  <2>1. CASE a <= b
    BY <2>1
  <2>2. CASE ~(a <= b)
    BY <2>2
  <2> QED  BY <2>1, <2>2
<1> QED  BY <1>1 DEF Min

\* The larger of two integers, as Max of the community modules gives it.
LEMMA MaxOfTwo ==
    ASSUME NEW a \in Int, NEW b \in Int
    PROVE  Max({a, b}) \in {a, b} /\ Max({a, b}) >= a /\ Max({a, b}) >= b
<1>1. \E x \in {a, b} : \A y \in {a, b} : x >= y
  <2>1. CASE a <= b
    BY <2>1
  <2>2. CASE ~(a <= b)
    BY <2>2
  <2> QED  BY <2>1, <2>2
<1> QED  BY <1>1 DEF Max

\* A set of natural numbers has a least element, and min finds it.
LEMMA MinOfNats ==
    ASSUME NEW S, S \subseteq Nat, S # {}
    PROVE  Min(S) \in S /\ \A y \in S : Min(S) <= y
<1> DEFINE Less == {ss \in Nat \X Nat : ss[1] < ss[2]}
<1>1. IsWellFoundedOn(Less, Nat)
  BY NatLessThanWellFounded DEF OpToRel
<1>2. PICK x \in S : \A y \in S : ~(<<y, x>> \in Less)
  BY <1>1, WFMin
<1>3. \A y \in S : x <= y
  <2>1. \A y \in S : ~(y < x)
    BY <1>2
  <2> QED  BY <2>1
<1> QED  BY <1>2, <1>3 DEF Min

-----------------------------------------------------------------------------
(* Costs.                                                                  *)

AnySnapshot == [ok : BOOLEAN, kvPct : 0..100, waiting : Nat, hitPct : 0..100]

\* What _score reads.  Free memory may be any number: /debug/chaos/vram takes
\* what it is given.
RankTypeOK ==
    /\ pending \in [Workers -> Nat]
    /\ line \in [Workers -> [slope : Nat, intercept : Nat]]
    /\ avg \in [Workers -> Nat]
    /\ free \in [Workers -> Int]
    /\ engine_snap \in [Workers -> AnySnapshot]

\* The terms of a score are natural numbers, and the bonuses are bounded.
LEMMA CostTypes ==
    ASSUME RankTypeOK, NEW w \in Workers, NEW size \in Sizes, NEW tier, NEW key
    PROVE  /\ Service(w, size) \in Nat /\ Penalties(w, tier) \in Nat
           /\ RawBonus(w, key) \in Nat
           /\ RawBonus(w, key) <= BatchSize * (CacheBonusMs + PrefixHitBonusMs)
<1>1. /\ pending[w] \in Nat /\ line[w].slope \in Nat /\ line[w].intercept \in Nat
      /\ avg[w] \in Nat /\ free[w] \in Int /\ Tokens[size] \in Nat
      /\ engine_snap[w] \in AnySnapshot
  BY RankingAssumption DEF RankTypeOK, Sizes
<1>2. \A a, b \in Nat : a * b \in Nat
  OBVIOUS
<1>3. Service(w, size) \in Nat
  <2>1. line[w].slope * Tokens[size] \in Nat
    BY <1>1, <1>2
  <2>2. ExecMs(w, size) \in Nat
    BY <1>1, <2>1 DEF ExecMs
  <2> DEFINE avgT == IF avg[w] > 0 THEN avg[w] ELSE ExecMs(w, size)
  <2>3. avgT \in Nat
    BY <1>1, <2>2
  <2>4. pending[w] * avgT \in Nat
    BY <1>1, <1>2, <2>3
  <2> QED  BY <2>2, <2>4 DEF Service, BatchSize
<1>4. Penalties(w, tier) \in Nat
  <2>1. /\ engine_snap[w].kvPct \in 0..100 /\ engine_snap[w].waiting \in Nat
    BY <1>1 DEF AnySnapshot
  <2>2. (BatchSize * KvCacheCostMs * engine_snap[w].kvPct) \div 100 \in Nat
    BY <2>1 DEF BatchSize, KvCacheCostMs
  <2>3. BatchSize * EngineQueueCostMs * engine_snap[w].waiting \in Nat
    BY <2>1 DEF BatchSize, EngineQueueCostMs
  <2>4. ASSUME free[w] < VramSoftMb
        PROVE  (BatchSize * 1000 * (TotalVramMb - free[w])) \div TotalVramMb \in Nat
    <3> DEFINE d == TotalVramMb - free[w]
    <3>1. d \in Nat
      BY <1>1, <2>4 DEF VramSoftMb, TotalVramMb
    <3> HIDE DEF d
    <3>2. (8 * 1000 * d) \div 24000 \in Nat
      BY <3>1
    <3> QED  BY <3>2 DEF d, BatchSize, TotalVramMb
  <2> QED  BY <2>2, <2>3, <2>4 DEF Penalties, BatchSize, TierMismatchMs
<1>5. RawBonus(w, key) \in Nat /\ RawBonus(w, key) <= BatchSize * (CacheBonusMs + PrefixHitBonusMs)
  <2>1. engine_snap[w].hitPct \in 0..100
    BY <1>1 DEF AnySnapshot
  <2> DEFINE hit == (BatchSize * PrefixHitBonusMs * engine_snap[w].hitPct) \div 100
  <2>2. hit \in 0..1200
    <3> DEFINE pct == engine_snap[w].hitPct
    <3>1. pct \in Int /\ 0 <= pct /\ pct <= 100
      BY <2>1
    <3>2. hit = (1200 * pct) \div 100
      BY <3>1 DEF BatchSize, PrefixHitBonusMs
    <3> HIDE DEF pct, hit
    <3>3. (1200 * pct) \div 100 = 12 * pct
      BY ONLY <3>1
    <3> QED  BY ONLY <3>1, <3>2, <3>3
  <2> HIDE DEF hit
  <2>3. RawBonus(w, key) = (IF AffinityHit(w, key) THEN BatchSize * CacheBonusMs ELSE 0)
                           + (IF engine_snap[w].ok THEN hit ELSE 0)
    BY DEF RawBonus, hit
  <2> QED  BY <2>2, <2>3 DEF BatchSize, CacheBonusMs, PrefixHitBonusMs
<1> QED  BY <1>3, <1>4, <1>5

\* A score is the cost less the bonus, and the bonus is at most the service time:
\* the clamp at zero never cuts anything off.
LEMMA ScoreIsCost ==
    ASSUME RankTypeOK, NEW w \in Workers, NEW size \in Sizes, NEW tier, NEW key
    PROVE  /\ Bonus(w, size, key) \in Nat
           /\ Bonus(w, size, key) <= Service(w, size)
           /\ Bonus(w, size, key) <= BatchSize * (CacheBonusMs + PrefixHitBonusMs)
           /\ Score(w, size, tier, key) \in Nat
           /\ Score(w, size, tier, key)
                = Service(w, size) + Penalties(w, tier) - Bonus(w, size, key)
<1> DEFINE sv == Service(w, size)
           pen == Penalties(w, tier)
           raw == RawBonus(w, key)
           bon == Bonus(w, size, key)
           most == BatchSize * (CacheBonusMs + PrefixHitBonusMs)
<1>1. sv \in Nat /\ pen \in Nat /\ raw \in Nat /\ raw <= most /\ most \in Nat
  BY CostTypes DEF BatchSize, CacheBonusMs, PrefixHitBonusMs
<1>2. bon = Min({raw, sv}) /\ Score(w, size, tier, key) = Max({0, sv + pen - bon})
  BY DEF Bonus, Score
<1> HIDE DEF sv, pen, raw, bon, most
<1>3. bon \in Nat /\ bon <= sv /\ bon <= raw
  <2>1. raw \in Int /\ sv \in Int
    BY <1>1
  <2>2. Min({raw, sv}) \in {raw, sv} /\ Min({raw, sv}) <= raw /\ Min({raw, sv}) <= sv
    BY <2>1, MinOfTwo
  <2>3. bon \in {raw, sv} /\ bon <= raw /\ bon <= sv
    BY <1>2, <2>2, Zenon
  <2> QED  BY <1>1, <2>3
<1>4. Max({0, sv + pen - bon}) = sv + pen - bon
  <2>1. sv + pen - bon \in Nat
    BY <1>1, <1>3
  <2> QED  BY <2>1, MaxOfTwo
<1>5. sv + pen - bon \in Nat /\ bon <= most
  BY <1>1, <1>3
<1> QED  BY <1>2, <1>3, <1>4, <1>5 DEF sv, pen, raw, bon, most

\* The ranking loop returns a feasible backend of the smallest score.
LEMMA BestIsBest ==
    ASSUME RankTypeOK, NEW ids \in SUBSET Workers, NEW size \in Sizes, NEW tier, NEW key,
           NEW w \in Feasible(ids, size, tier)
    PROVE  LET c == BestWorker(ids, size, tier, key)
           IN  /\ c \in Workers /\ c \in Feasible(ids, size, tier)
               /\ Score(c, size, tier, key) <= Score(w, size, tier, key)
<1> DEFINE ws == Feasible(ids, size, tier)
           Sc(v) == Score(v, size, tier, key)
           scores == {Sc(v) : v \in ws}
           best == {v \in ws : \A u \in ws : Sc(v) <= Sc(u)}
           c == BestWorker(ids, size, tier, key)
<1>1. ws \subseteq Workers /\ ws \subseteq Nat /\ w \in ws
  <2>1. ws \subseteq Workers /\ w \in ws
    BY DEF Feasible
  <2>2. Workers \subseteq Nat
    BY RankingAssumption DEF Workers
  <2> QED  BY <2>1, <2>2
<1>2. \A v \in ws : Sc(v) \in Nat
  BY <1>1, ScoreIsCost
<1> HIDE DEF ws, Sc
<1>3. best # {}
  <2>1. scores \subseteq Nat /\ scores # {}
    BY <1>1, <1>2
  <2>2. Min(scores) \in scores /\ \A s \in scores : Min(scores) <= s
    BY <2>1, MinOfNats
  <2>3. PICK v \in ws : Min(scores) = Sc(v)
    BY <2>2
  <2>4. v \in best
    BY <2>2, <2>3
  <2> QED  BY <2>4
<1>4. c = Min(best)
  <2> DEFINE score == [v \in ws |-> Sc(v)]
  <2>1. {v \in ws : \A u \in ws : score[v] <= score[u]} = best
    OBVIOUS
  <2>2. c = Min({v \in ws : \A u \in ws : score[v] <= score[u]})
    BY <1>1 DEF BestWorker, ws, Sc
  <2> QED  BY <2>1, <2>2
<1>5. c \in best
  <2>1. best \subseteq Nat
    BY <1>1
  <2> QED  BY <1>3, <1>4, <2>1, MinOfNats
<1> QED  BY <1>1, <1>5 DEF ws, Sc

\* Bonuses are savings, in every state that has the types of the code.
LEMMA PenaltiesStand == RankTypeOK => BonusBuysNoPenalty
<1> SUFFICES ASSUME RankTypeOK, NEW w \in Workers, NEW size \in Sizes, NEW tier \in Tiers,
                    NEW key \in PromptKeys
             PROVE  Score(w, size, tier, key) >= Penalties(w, tier)
  BY DEF BonusBuysNoPenalty
<1>1. Service(w, size) \in Nat /\ Penalties(w, tier) \in Nat
  BY CostTypes
<1>2. /\ Bonus(w, size, key) \in Nat /\ Bonus(w, size, key) <= Service(w, size)
      /\ Score(w, size, tier, key) = Service(w, size) + Penalties(w, tier) - Bonus(w, size, key)
  BY ScoreIsCost
<1> QED  BY <1>1, <1>2

\* A detour has a price limit, in every such state.
LEMMA DetourIsBounded == RankTypeOK => StickinessIsBounded
<1> SUFFICES ASSUME RankTypeOK, NEW ids \in SUBSET Workers, NEW size \in Sizes,
                    NEW tier \in Tiers, NEW key \in PromptKeys,
                    NEW w \in Feasible(ids, size, tier)
             PROVE  LET c == BestWorker(ids, size, tier, key)
                    IN  Service(c, size) + Penalties(c, tier)
                          <= Service(w, size) + Penalties(w, tier)
                               + BatchSize * (CacheBonusMs + PrefixHitBonusMs)
  BY DEF StickinessIsBounded
<1> DEFINE c == BestWorker(ids, size, tier, key)
           most == BatchSize * (CacheBonusMs + PrefixHitBonusMs)
<1>1. w \in Workers
  BY DEF Feasible
<1>2. c \in Workers /\ Score(c, size, tier, key) <= Score(w, size, tier, key)
  BY BestIsBest
<1>3. most \in Nat
  BY DEF BatchSize, CacheBonusMs, PrefixHitBonusMs
<1> HIDE DEF c, most
<1>4. /\ Service(c, size) \in Nat /\ Penalties(c, tier) \in Nat
      /\ Service(w, size) \in Nat /\ Penalties(w, tier) \in Nat
  BY <1>1, <1>2, CostTypes
<1>5. /\ Score(c, size, tier, key) = Service(c, size) + Penalties(c, tier) - Bonus(c, size, key)
      /\ Score(w, size, tier, key) = Service(w, size) + Penalties(w, tier) - Bonus(w, size, key)
      /\ Bonus(c, size, key) \in Nat /\ Bonus(w, size, key) \in Nat
      /\ Bonus(c, size, key) <= most
  BY <1>1, <1>2, ScoreIsCost DEF most
<1>6. Service(c, size) + Penalties(c, tier) <= Service(w, size) + Penalties(w, tier) + most
  BY <1>2, <1>3, <1>4, <1>5
<1> QED  BY <1>6 DEF c, most

\* Every step that a backend goes through keeps the types of what _score reads.
LEMMA RankTypeStep == RankTypeOK /\ [RankNext]_rankVars => RankTypeOK'
<1> SUFFICES ASSUME RankTypeOK, [RankNext]_rankVars PROVE RankTypeOK'
  OBVIOUS
<1>1. CASE Picks
  <2>1. PICK ids \in SUBSET Workers, size \in Sizes, tier \in Tiers, key \in PromptKeys :
             Pick(ids, size, tier, key)
    BY <1>1 DEF Picks
  <2>2. PICK w : pending' = [pending EXCEPT ![w] = @ + 1]
    BY <2>1 DEF Pick
  <2>3. pending' \in [Workers -> Nat]
    <3>1. pending' = [v \in Workers |-> IF v = w THEN pending[v] + 1 ELSE pending[v]]
      BY <2>2 DEF RankTypeOK
    <3> QED  BY <3>1 DEF RankTypeOK
  <2>4. UNCHANGED <<line, avg, free, engine_snap>>
    BY <2>1 DEF Pick
  <2> QED  BY <2>3, <2>4 DEF RankTypeOK
<1>2. ASSUME NEW w \in Workers, FeedbackSuccess(w) PROVE RankTypeOK'
  <2>1. pending' \in [Workers -> Nat] /\ UNCHANGED <<free, engine_snap>>
    BY <1>2 DEF FeedbackSuccess, RankTypeOK
  <2>2. line' \in [Workers -> [slope : Nat, intercept : Nat]] /\ avg' \in [Workers -> Nat]
    BY <1>2, RankingAssumption DEF FeedbackSuccess, AnyUpdate, RankTypeOK
  <2> QED  BY <2>1, <2>2 DEF RankTypeOK
<1>3. ASSUME NEW w \in Workers, Release(w) PROVE RankTypeOK'
  BY <1>3 DEF Release, RankTypeOK
<1>4. ASSUME NEW w \in Workers, Scrape(w) PROVE RankTypeOK'
  <2>1. PICK snap \in Snapshots : /\ engine_snap' = [engine_snap EXCEPT ![w] = snap]
                                  /\ free' = [free EXCEPT ![w] = HeadroomMb(snap)]
    BY <1>4 DEF Scrape
  <2>2. snap \in AnySnapshot /\ snap.kvPct \in 0..100
    BY RankingAssumption DEF AnySnapshot
  <2>3. HeadroomMb(snap) \in Int
    BY <2>2 DEF HeadroomMb, TotalVramMb
  <2>4. UNCHANGED <<pending, line, avg>>
    BY <1>4 DEF Scrape
  <2> QED  BY <2>1, <2>2, <2>3, <2>4 DEF RankTypeOK
<1>5. ASSUME NEW w \in Workers, SetVram(w) PROVE RankTypeOK'
  BY <1>5, RankingAssumption DEF SetVram, RankTypeOK
<1>6. ASSUME NEW w \in Workers, Register(w) PROVE RankTypeOK'
  <2>1. InitialLine \in [slope : Nat, intercept : Nat]
    BY DEF InitialLine
  <2> QED  BY <1>6, <2>1, RankingAssumption DEF Register, RankTypeOK
<1>7. CASE ResetAffinity
  BY <1>7 DEF ResetAffinity, workerVars, RankTypeOK
<1>8. CASE UNCHANGED rankVars
  BY <1>8 DEF rankVars, workerVars, RankTypeOK
<1> QED  BY <1>1, <1>2, <1>3, <1>4, <1>5, <1>6, <1>7, <1>8 DEF RankNext, WorkerChanges

\* The types hold of a fresh scheduler.
LEMMA RankTypeInit == RankInit => RankTypeOK
<1> SUFFICES ASSUME RankInit PROVE RankTypeOK
  OBVIOUS
<1>1. InitialLine \in [slope : Nat, intercept : Nat] /\ NoSnapshot \in AnySnapshot
  BY DEF InitialLine, NoSnapshot, AnySnapshot
<1> QED  BY <1>1, RankingAssumption DEF RankInit, RankTypeOK

\* In every reachable state the score of a backend is at least its penalties: no
\* affinity makes a saturated backend look free, however the learner has moved.
THEOREM BonusesAreSavings == RankSpec => []BonusBuysNoPenalty
BY RankTypeInit, RankTypeStep, PenaltiesStand, PTL DEF RankSpec

\* In every reachable state the backend pick returns costs at most the two
\* bonuses more than any feasible one, whichever backends are healthy.
THEOREM DetoursAreBounded == RankSpec => []StickinessIsBounded
BY RankTypeInit, RankTypeStep, DetourIsBounded, PTL DEF RankSpec

-----------------------------------------------------------------------------
(* The counters of the gate.                                               *)

\* The counters pick moves.
CounterNames ==
    {"admitted", "rejected_slo", "rejected_vram", "rejected_no_worker",
     "rejected_slo_suppressed", "would_reject_absolute",
     "would_admit_absolute", "absolute_vs_active_disagree"}
Counters == [CounterNames -> Nat]

\* The counters are natural numbers; DecisionsAddUp is inductive with that.
GateInv ==
    /\ stats \in Counters
    /\ admission_mode \in {"rank_only", "strict", "empirical", "absolute"}
    /\ DecisionsAddUp

\* self.stats.k += n
LEMMA Bumped ==
    ASSUME NEW s \in Counters, NEW k \in CounterNames, NEW n \in Nat
    PROVE  LET t == [s EXCEPT ![k] = @ + n]
           IN  /\ t \in Counters /\ t[k] = s[k] + n
               /\ \A j \in CounterNames : j # k => t[j] = s[j]
BY DEF Counters

\* What a decision adds to the counters.
LEMMA DecidedCounts ==
    ASSUME stats \in Counters, NEW field
    PROVE  LET abs == Best(field) > SloMs
               new == Decided(field)
           IN  /\ new \in Counters
               /\ new.would_reject_absolute = stats.would_reject_absolute + Bit(abs)
               /\ new.would_admit_absolute = stats.would_admit_absolute + Bit(~abs)
               /\ new.absolute_vs_active_disagree
                    = stats.absolute_vs_active_disagree + Bit(abs # Rejects(field))
               /\ new.rejected_slo_suppressed = stats.rejected_slo_suppressed + Bit(Suppressed(field))
               /\ new.rejected_slo = stats.rejected_slo + Bit(Rejects(field))
               /\ new.admitted = stats.admitted + Bit(~Rejects(field))
<1> DEFINE abs == Best(field) > SloMs
           a == Bit(abs)
           b == Bit(~abs)
           c == Bit(abs # Rejects(field))
           d == Bit(Suppressed(field))
           e == Bit(Rejects(field))
           f == Bit(~Rejects(field))
<1>2. /\ a \in Nat /\ b \in Nat /\ c \in Nat /\ d \in Nat /\ e \in Nat /\ f \in Nat
  BY DEF Bit
<1>3. Decided(field) =
        [stats EXCEPT !.would_reject_absolute = @ + a,
                      !.would_admit_absolute = @ + b,
                      !.absolute_vs_active_disagree = @ + c,
                      !.rejected_slo_suppressed = @ + d,
                      !.rejected_slo = @ + e,
                      !.admitted = @ + f]
  BY DEF Decided
<1> HIDE DEF a, b, c, d, e, f
<1> DEFINE s1 == [stats EXCEPT !.would_reject_absolute = @ + a]
           s2 == [s1 EXCEPT !.would_admit_absolute = @ + b]
           s3 == [s2 EXCEPT !.absolute_vs_active_disagree = @ + c]
           s4 == [s3 EXCEPT !.rejected_slo_suppressed = @ + d]
           s5 == [s4 EXCEPT !.rejected_slo = @ + e]
           s6 == [s5 EXCEPT !.admitted = @ + f]
<1>4. Decided(field) = s6
  BY <1>3
<1>5. /\ s1 \in Counters /\ s1.would_reject_absolute = stats.would_reject_absolute + a
      /\ \A j \in CounterNames : j # "would_reject_absolute" => s1[j] = stats[j]
  BY <1>2, Bumped DEF CounterNames
<1> HIDE DEF s1
<1>6. /\ s2 \in Counters /\ s2.would_admit_absolute = s1.would_admit_absolute + b
      /\ \A j \in CounterNames : j # "would_admit_absolute" => s2[j] = s1[j]
  BY <1>2, <1>5, Bumped DEF CounterNames
<1> HIDE DEF s2
<1>7. /\ s3 \in Counters /\ s3.absolute_vs_active_disagree = s2.absolute_vs_active_disagree + c
      /\ \A j \in CounterNames : j # "absolute_vs_active_disagree" => s3[j] = s2[j]
  BY <1>2, <1>6, Bumped DEF CounterNames
<1> HIDE DEF s3
<1>8. /\ s4 \in Counters /\ s4.rejected_slo_suppressed = s3.rejected_slo_suppressed + d
      /\ \A j \in CounterNames : j # "rejected_slo_suppressed" => s4[j] = s3[j]
  BY <1>2, <1>7, Bumped DEF CounterNames
<1> HIDE DEF s4
<1>9. /\ s5 \in Counters /\ s5.rejected_slo = s4.rejected_slo + e
      /\ \A j \in CounterNames : j # "rejected_slo" => s5[j] = s4[j]
  BY <1>2, <1>8, Bumped DEF CounterNames
<1> HIDE DEF s5
<1>10. /\ s6 \in Counters /\ s6.admitted = s5.admitted + f
      /\ \A j \in CounterNames : j # "admitted" => s6[j] = s5[j]
  BY <1>2, <1>9, Bumped DEF CounterNames
<1> HIDE DEF s6
<1> QED  BY <1>4, <1>5, <1>6, <1>7, <1>8, <1>9, <1>10 DEF CounterNames, a, b, c, d, e, f

\* Of a and b events, s happen alone: that is, some number h happen together.
LEMMA TogetherOrAlone ==
    ASSUME NEW a \in Nat, NEW b \in Nat, NEW s \in Nat
    PROVE  (/\ s <= a + b /\ ((a + b) - s) % 2 = 0
            /\ ((a + b) - s) \div 2 <= Min({a, b}))
           <=> \E h \in Nat : a + b = s + 2 * h /\ h <= a /\ h <= b
<1>1. Min({a, b}) \in {a, b} /\ Min({a, b}) <= a /\ Min({a, b}) <= b
  BY MinOfTwo
<1> DEFINE m == Min({a, b})
<1>2. m \in Nat /\ m <= a /\ m <= b /\ (m = a \/ m = b)
  BY <1>1
<1> HIDE DEF m
<1>3. ASSUME s <= a + b, ((a + b) - s) % 2 = 0, ((a + b) - s) \div 2 <= m
      PROVE  \E h \in Nat : a + b = s + 2 * h /\ h <= a /\ h <= b
  <2> DEFINE h == ((a + b) - s) \div 2
  <2>1. h \in Nat /\ a + b = s + 2 * h /\ h <= m
    BY <1>3
  <2> QED  BY <1>2, <2>1
<1>4. ASSUME NEW h \in Nat, a + b = s + 2 * h, h <= a, h <= b
      PROVE  s <= a + b /\ ((a + b) - s) % 2 = 0 /\ ((a + b) - s) \div 2 <= m
  <2>1. (a + b) - s = 2 * h
    BY <1>4
  <2>2. (2 * h) % 2 = 0 /\ (2 * h) \div 2 = h
    OBVIOUS
  <2> QED  BY <1>2, <1>4, <2>1, <2>2
<1> QED  BY <1>3, <1>4 DEF m

\* DecisionsAddUp without the halving: both verdicts reject h requests.
Balanced(t, m) ==
    /\ t.would_reject_absolute + t.would_admit_absolute = t.admitted + t.rejected_slo
    /\ \E h \in Nat :
          /\ t.rejected_slo + t.would_reject_absolute = t.absolute_vs_active_disagree + 2 * h
          /\ h <= t.rejected_slo /\ h <= t.would_reject_absolute
    /\ t.rejected_slo_suppressed <= t.admitted
    /\ t.rejected_slo_suppressed > 0 => m = "empirical"
    /\ m = "absolute" => t.absolute_vs_active_disagree = 0
    /\ m = "rank_only" => t.rejected_slo = 0

\* On counters, the two forms of the property are the same.
LEMMA AddUpForm ==
    /\ stats \in Counters => (DecisionsAddUp <=> Balanced(stats, admission_mode))
    /\ stats' \in Counters => (DecisionsAddUp' <=> Balanced(stats', admission_mode'))
<1> DEFINE Paired(a, b, s) ==
             /\ s <= a + b /\ ((a + b) - s) % 2 = 0
             /\ ((a + b) - s) \div 2 <= Min({a, b})
           Rest(t, m) ==
             /\ t.would_reject_absolute + t.would_admit_absolute = t.admitted + t.rejected_slo
             /\ t.rejected_slo_suppressed <= t.admitted
             /\ t.rejected_slo_suppressed > 0 => m = "empirical"
             /\ m = "absolute" => t.absolute_vs_active_disagree = 0
             /\ m = "rank_only" => t.rejected_slo = 0
<1>1. ASSUME NEW t \in Counters, NEW m
      PROVE  Balanced(t, m) <=>
               Paired(t.rejected_slo, t.would_reject_absolute, t.absolute_vs_active_disagree) /\ Rest(t, m)
  <2> DEFINE a == t.rejected_slo
             b == t.would_reject_absolute
             s == t.absolute_vs_active_disagree
  <2>1. a \in Nat /\ b \in Nat /\ s \in Nat
    BY DEF Counters, CounterNames
  <2>2. Paired(a, b, s) <=> \E h \in Nat : a + b = s + 2 * h /\ h <= a /\ h <= b
    BY <2>1, TogetherOrAlone
  <2> HIDE DEF Paired
  <2> QED  BY <2>2, Zenon DEF Balanced
<1>2. DecisionsAddUp <=>
        /\ Paired(stats.rejected_slo, stats.would_reject_absolute, stats.absolute_vs_active_disagree)
        /\ Rest(stats, admission_mode)
  BY DEF DecisionsAddUp
<1>3. DecisionsAddUp' <=>
        /\ Paired(stats'.rejected_slo, stats'.would_reject_absolute, stats'.absolute_vs_active_disagree)
        /\ Rest(stats', admission_mode')
  BY DEF DecisionsAddUp
<1> HIDE DEF Paired, Rest
<1> QED  BY <1>1, <1>2, <1>3

\* After reset_stats.
LEMMA ZeroAddsUp == Zero \in Counters /\ \A m : Balanced(Zero, m)
<1>1. Zero \in Counters
  BY DEF Zero, Counters, CounterNames
<1>2. ASSUME NEW m PROVE Balanced(Zero, m)
  <2>1. 0 \in Nat /\ 0 + 0 = 0 + 2 * 0
    OBVIOUS
  <2> QED  BY <2>1 DEF Zero, Balanced
<1> QED  BY <1>1, <1>2

\* No step of the gate unbalances its counters.
LEMMA GateStep == GateInv /\ [GateNext]_gateVars => GateInv'
<1> SUFFICES ASSUME GateInv, [GateNext]_gateVars PROVE GateInv'
  OBVIOUS
<1>2. /\ stats \in Counters /\ DecisionsAddUp
      /\ admission_mode \in {"rank_only", "strict", "empirical", "absolute"}
  BY DEF GateInv
<1>3. ASSUME NEW field, Decide(field) PROVE GateInv'
  <2> DEFINE abs == Best(field) > SloMs
             rej == Rejects(field)
             sup == Suppressed(field)
  <2>1. stats' = Decided(field) /\ admission_mode' = admission_mode
    BY <1>3 DEF Decide
  <2>2. /\ stats' \in Counters
        /\ stats'.would_reject_absolute = stats.would_reject_absolute + Bit(abs)
        /\ stats'.would_admit_absolute = stats.would_admit_absolute + Bit(~abs)
        /\ stats'.absolute_vs_active_disagree = stats.absolute_vs_active_disagree + Bit(abs # rej)
        /\ stats'.rejected_slo_suppressed = stats.rejected_slo_suppressed + Bit(sup)
        /\ stats'.rejected_slo = stats.rejected_slo + Bit(rej)
        /\ stats'.admitted = stats.admitted + Bit(~rej)
    BY <1>2, <2>1, DecidedCounts
  <2>3. /\ sup => admission_mode = "empirical" /\ ~rej
        /\ admission_mode = "absolute" => (rej <=> abs)
        /\ admission_mode = "rank_only" => ~rej
    BY DEF Rejects, Suppressed
  <2>4. /\ abs \in BOOLEAN /\ rej \in BOOLEAN /\ sup \in BOOLEAN
    BY DEF Rejects, Suppressed
  <2> HIDE DEF abs, rej, sup
  <2>5. /\ stats.admitted \in Nat /\ stats.rejected_slo \in Nat
        /\ stats.rejected_slo_suppressed \in Nat /\ stats.would_reject_absolute \in Nat
        /\ stats.would_admit_absolute \in Nat /\ stats.absolute_vs_active_disagree \in Nat
    BY <1>2 DEF Counters, CounterNames
  <2>6. PICK h \in Nat :
             /\ stats.rejected_slo + stats.would_reject_absolute
                  = stats.absolute_vs_active_disagree + 2 * h
             /\ h <= stats.rejected_slo /\ h <= stats.would_reject_absolute
    BY <1>2, AddUpForm DEF Balanced
  <2>7. /\ stats.would_reject_absolute + stats.would_admit_absolute
             = stats.admitted + stats.rejected_slo
        /\ stats.rejected_slo_suppressed <= stats.admitted
        /\ stats.rejected_slo_suppressed > 0 => admission_mode = "empirical"
        /\ admission_mode = "absolute" => stats.absolute_vs_active_disagree = 0
        /\ admission_mode = "rank_only" => stats.rejected_slo = 0
    BY <1>2, AddUpForm DEF Balanced
  <2>8. /\ Bit(abs) + Bit(~abs) = 1 /\ Bit(rej) + Bit(~rej) = 1
        /\ Bit(abs) \in 0..1 /\ Bit(rej) \in 0..1 /\ Bit(sup) \in 0..1
        /\ Bit(~rej) \in 0..1 /\ Bit(~abs) \in 0..1
        /\ Bit(abs # rej) = IF Bit(abs) = Bit(rej) THEN 0 ELSE 1
        /\ Bit(sup) <= Bit(~rej)
        /\ Bit(sup) > 0 => admission_mode = "empirical"
        /\ admission_mode = "absolute" => Bit(abs # rej) = 0
        /\ admission_mode = "rank_only" => Bit(rej) = 0
    <3> DEFINE dis == abs # rej
    <3>1. dis <=> (abs /\ ~rej) \/ (~abs /\ rej)
      BY <2>4, Zenon
    <3> HIDE DEF dis
    <3>2. Bit(dis) = IF Bit(abs) = Bit(rej) THEN 0 ELSE 1
      BY <3>1 DEF Bit
    <3>3. admission_mode = "absolute" => Bit(dis) = 0
      BY <2>3, <3>1 DEF Bit
    <3> QED  BY <2>3, <3>2, <3>3 DEF Bit, dis
  <2>9. \E g \in Nat :
             /\ stats'.rejected_slo + stats'.would_reject_absolute
                  = stats'.absolute_vs_active_disagree + 2 * g
             /\ g <= stats'.rejected_slo /\ g <= stats'.would_reject_absolute
    <3>1. CASE Bit(abs) = 1 /\ Bit(rej) = 1
      <4>1. h + 1 \in Nat /\ h + 1 <= stats'.rejected_slo /\ h + 1 <= stats'.would_reject_absolute
        BY <2>2, <2>5, <2>6, <3>1
      <4>2. stats'.rejected_slo + stats'.would_reject_absolute
              = stats'.absolute_vs_active_disagree + 2 * (h + 1)
        <5>1. Bit(abs # rej) = 0
          BY <2>8, <3>1
        <5> QED  BY <2>2, <2>5, <2>6, <3>1, <5>1
      <4> QED  BY <4>1, <4>2
    <3>2. CASE ~(Bit(abs) = 1 /\ Bit(rej) = 1)
      <4>1. h <= stats'.rejected_slo /\ h <= stats'.would_reject_absolute
        BY <2>2, <2>5, <2>6, <2>8
      <4>2. stats'.rejected_slo + stats'.would_reject_absolute
              = stats'.absolute_vs_active_disagree + 2 * h
        BY <2>2, <2>5, <2>6, <2>8, <3>2
      <4> QED  BY <4>1, <4>2
    <3> QED  BY <3>1, <3>2
  <2>10. /\ stats'.would_reject_absolute + stats'.would_admit_absolute
              = stats'.admitted + stats'.rejected_slo
         /\ stats'.rejected_slo_suppressed <= stats'.admitted
         /\ stats'.rejected_slo_suppressed > 0 => admission_mode' = "empirical"
         /\ admission_mode' = "absolute" => stats'.absolute_vs_active_disagree = 0
         /\ admission_mode' = "rank_only" => stats'.rejected_slo = 0
    BY <2>1, <2>2, <2>5, <2>7, <2>8
  <2>11. DecisionsAddUp'
    BY <2>2, <2>9, <2>10, AddUpForm DEF Balanced
  <2> QED  BY <1>2, <2>1, <2>2, <2>11 DEF GateInv
<1>4. ASSUME UNCHANGED <<stats, admission_mode>> PROVE GateInv'
  BY <1>4 DEF GateInv, DecisionsAddUp
<1>5. ASSUME NEW field, NoFeasible(field) PROVE GateInv'
  <2>1. /\ stats' = [stats EXCEPT !.rejected_no_worker = @ + 1] /\ admission_mode' = admission_mode
    BY <1>5 DEF NoFeasible
  <2>2. /\ stats' \in Counters
        /\ \A j \in CounterNames : j # "rejected_no_worker" => stats'[j] = stats[j]
    <3>1. "rejected_no_worker" \in CounterNames
      BY DEF CounterNames
    <3>2. stats \in Counters
      BY <1>2
    <3> QED  BY ONLY <2>1, <3>1, <3>2 DEF Counters
  <2>3. Balanced(stats', admission_mode')
    <3>1. Balanced(stats, admission_mode) /\ admission_mode' = admission_mode
      BY <1>2, <2>1, AddUpForm
    <3>2. /\ stats'.admitted = stats.admitted /\ stats'.rejected_slo = stats.rejected_slo
          /\ stats'.would_reject_absolute = stats.would_reject_absolute
          /\ stats'.would_admit_absolute = stats.would_admit_absolute
          /\ stats'.absolute_vs_active_disagree = stats.absolute_vs_active_disagree
          /\ stats'.rejected_slo_suppressed = stats.rejected_slo_suppressed
      BY ONLY <2>2 DEF CounterNames
    <3> QED  BY ONLY <3>1, <3>2 DEF Balanced
  <2> QED  BY <1>2, <2>1, <2>2, <2>3, AddUpForm DEF GateInv
<1>6. ASSUME ResetCounters PROVE GateInv'
  <2>1. stats' = Zero /\ admission_mode' = admission_mode
    BY <1>6 DEF ResetCounters
  <2> QED  BY <1>2, <2>1, ZeroAddsUp, AddUpForm DEF GateInv
<1>7. ASSUME Dropped \/ (\E e2e \in Samples : Completed(e2e)) \/ UNCHANGED gateVars PROVE GateInv'
  BY <1>4, <1>7 DEF Dropped, Completed, gateVars
<1> QED  BY <1>3, <1>5, <1>6, <1>7 DEF GateNext

\* The paper's admission table adds up in every mode, for every score list the
\* ranking may hand to the gate and however long it runs.
THEOREM TableAddsUp == GateSpec => []DecisionsAddUp
<1>1. GateInit => GateInv
  BY ZeroAddsUp, AddUpForm, AdmissionAssumption DEF GateInit, GateInv
<1>2. GateInv => DecisionsAddUp
  BY DEF GateInv
<1> QED  BY <1>1, <1>2, GateStep, PTL DEF GateSpec

-----------------------------------------------------------------------------
(* The affinity cache.                                                     *)

Uses == [key : PromptKeys, worker : Workers]

\* pop of one entry and append of another.
Replaced(cache, k, e) == Append(SubSeq(cache, 1, k - 1) \o SubSeq(cache, k + 1, Len(cache)), e)

\* The entries behind the one that went move up by one.
LEMMA ReplacedSeq ==
    ASSUME NEW S, NEW cache \in Seq(S), NEW e \in S, NEW k \in 1..Len(cache)
    PROVE  /\ Replaced(cache, k, e) \in Seq(S) /\ Len(Replaced(cache, k, e)) = Len(cache)
           /\ \A c \in 1..Len(cache) :
                 Replaced(cache, k, e)[c]
                   = IF c < k THEN cache[c] ELSE IF c < Len(cache) THEN cache[c + 1] ELSE e
<1> DEFINE n == Len(cache)
           a == SubSeq(cache, 1, k - 1)
           b == SubSeq(cache, k + 1, n)
           r == a \o b
           all == Append(r, e)
<1>1. n \in Nat /\ k \in Int /\ 1 <= k /\ k <= n /\ \A i \in 1..n : cache[i] \in S
  OBVIOUS
<1>2. a \in Seq(S) /\ Len(a) = k - 1 /\ \A i \in 1..k - 1 : a[i] = cache[i]
  <2>1. \A i \in 1..k - 1 : cache[i] \in S
    BY <1>1
  <2> QED  BY <1>1, <2>1, SubSeqProperties
<1>3. b \in Seq(S) /\ Len(b) = n - k /\ \A i \in 1..n - k : b[i] = cache[k + i]
  <2>1. \A i \in k + 1..n : cache[i] \in S
    BY <1>1
  <2>2. /\ b \in Seq(S) /\ Len(b) = IF k + 1 <= n THEN n - (k + 1) + 1 ELSE 0
        /\ \A i \in 1..n - (k + 1) + 1 : b[i] = cache[k + 1 + i - 1]
    BY <1>1, <2>1, SubSeqProperties
  <2> HIDE DEF b, n
  <2> QED  BY <1>1, <2>2
<1> HIDE DEF a, b, n
<1>4. /\ r \in Seq(S) /\ Len(r) = n - 1
      /\ \A i \in 1..n - 1 : r[i] = IF i < k THEN cache[i] ELSE cache[i + 1]
  <2>1. /\ r \in Seq(S) /\ Len(r) = Len(a) + Len(b)
        /\ \A i \in 1..Len(a) + Len(b) : r[i] = IF i <= Len(a) THEN a[i] ELSE b[i - Len(a)]
    BY <1>2, <1>3, ConcatProperties
  <2>2. Len(r) = n - 1
    BY <1>1, <1>2, <1>3, <2>1
  <2>3. ASSUME NEW i \in 1..n - 1 PROVE r[i] = IF i < k THEN cache[i] ELSE cache[i + 1]
    <3>1. r[i] = IF i <= k - 1 THEN a[i] ELSE b[i - (k - 1)]
      BY <1>1, <1>2, <1>3, <2>1
    <3>2. i <= k - 1 => a[i] = cache[i]
      BY <1>1, <1>2
    <3>3. ~(i <= k - 1) => b[i - (k - 1)] = cache[i + 1]
      <4>1. ASSUME ~(i <= k - 1) PROVE i - (k - 1) \in 1..n - k /\ k + (i - (k - 1)) = i + 1
        BY <1>1, <4>1
      <4> QED  BY <1>3, <4>1
    <3> QED  BY <1>1, <3>1, <3>2, <3>3
  <2> QED  BY <2>1, <2>2, <2>3
<1> HIDE DEF r
<1>5. /\ all \in Seq(S) /\ Len(all) = n /\ all[n] = e /\ \A i \in 1..n - 1 : all[i] = r[i]
  BY <1>1, <1>4
<1> HIDE DEF all
<1>6. ASSUME NEW c \in 1..n
      PROVE  all[c] = IF c < k THEN cache[c] ELSE IF c < n THEN cache[c + 1] ELSE e
  BY <1>1, <1>4, <1>5
<1> QED  BY <1>5, <1>6 DEF all, r, a, b, n, Replaced

\* What an admission does to the cache: the entry goes to the end, in place of
\* the one of its key or, if there is none and the cache is full, of the oldest.
LEMMA Touched ==
    ASSUME NEW cache \in Seq(Uses), Len(cache) <= CacheSize, NEW e \in Uses
    PROVE  LET n == Len(cache)
               new == CacheTouched(cache, e.key, e.worker)
           IN  /\ new \in Seq(Uses)
               /\ \/ /\ n < CacheSize /\ \A c \in 1..n : cache[c].key # e.key
                     /\ Len(new) = n + 1 /\ new[n + 1] = e /\ \A c \in 1..n : new[c] = cache[c]
                  \/ \E k \in 1..n :
                        /\ \/ cache[k].key = e.key
                           \/ k = 1 /\ n = CacheSize /\ \A c \in 1..n : cache[c].key # e.key
                        /\ Len(new) = n
                        /\ \A c \in 1..n :
                              new[c] = IF c < k THEN cache[c] ELSE IF c < n THEN cache[c + 1] ELSE e
<1> DEFINE n == Len(cache)
           new == CacheTouched(cache, e.key, e.worker)
           known == {i \in DOMAIN cache : cache[i].key = e.key}
           k == Min(known)
           rest == IF known = {} THEN cache ELSE SubSeq(cache, 1, k - 1) \o SubSeq(cache, k + 1, n)
           all == Append(rest, e)
<1>1. n \in Nat /\ DOMAIN cache = 1..n /\ CacheSize \in Nat /\ CacheSize > 0 /\ n <= CacheSize
  BY RankingAssumption
<1>2. [key |-> e.key, worker |-> e.worker] = e
  BY DEF Uses
<1>3. new = IF Len(all) > CacheSize THEN Tail(all) ELSE all
  BY <1>2 DEF CacheTouched
<1> HIDE DEF new
<1>4. CASE known = {}
  <2>1. all = Append(cache, e) /\ \A c \in 1..n : cache[c].key # e.key
    BY <1>1, <1>4
  <2>2. /\ all \in Seq(Uses) /\ Len(all) = n + 1 /\ all[n + 1] = e
        /\ \A c \in 1..n : all[c] = cache[c]
    <3> HIDE DEF all, known
    <3> QED  BY ONLY <2>1, cache \in Seq(Uses), e \in Uses, AppendProperties
  <2> HIDE DEF all
  <2>3. CASE n < CacheSize
    <3>1. new = all
      BY <1>1, <1>3, <2>2, <2>3
    <3> QED  BY <2>1, <2>2, <2>3, <3>1 DEF new
  <2>4. CASE ~(n < CacheSize)
    <3>1. n = CacheSize /\ new = Tail(all) /\ 1 \in 1..n
      <4>1. n = CacheSize
        <5> HIDE DEF n
        <5> QED  BY ONLY <1>1, <2>4
      <4>2. Len(all) > CacheSize /\ 1 \in 1..n
        BY <1>1, <2>2, <4>1
      <4> QED  BY <1>3, <4>1, <4>2
    <3>2. /\ new \in Seq(Uses) /\ Len(new) = n /\ \A c \in 1..n : new[c] = all[c + 1]
      BY <1>1, <2>2, <3>1
    <3>3. ASSUME NEW c \in 1..n
          PROVE  new[c] = IF c < 1 THEN cache[c] ELSE IF c < n THEN cache[c + 1] ELSE e
      <4>1. CASE c < n
        BY <1>1, <2>2, <3>2, <4>1
      <4>2. CASE c = n
        BY <1>1, <2>2, <3>2, <4>2
      <4>3. c < n \/ c = n
        <5> HIDE DEF n
        <5> QED  BY <1>1
      <4> QED  BY <4>1, <4>2, <4>3
    <3> QED  BY <2>1, <3>1, <3>2, <3>3 DEF new
  <2> QED  BY <2>3, <2>4
<1>5. CASE known # {}
  <2>1. known \subseteq Nat
    BY <1>1
  <2>2. k \in known
    BY <1>5, <2>1, MinOfNats
  <2>3. k \in 1..n /\ cache[k].key = e.key
    BY <1>1, <2>2
  <2> HIDE DEF k, known
  <2>4. all = Append(SubSeq(cache, 1, k - 1) \o SubSeq(cache, k + 1, n), e)
    BY <1>5
  <2>5. /\ all \in Seq(Uses) /\ Len(all) = n
        /\ \A c \in 1..n : all[c] = IF c < k THEN cache[c] ELSE IF c < n THEN cache[c + 1] ELSE e
    <3> HIDE DEF all
    <3>1. k \in 1..Len(cache) /\ all = Replaced(cache, k, e)
      BY <2>3, <2>4 DEF Replaced
    <3>2. /\ all \in Seq(Uses) /\ Len(all) = Len(cache)
          /\ \A c \in 1..Len(cache) :
                all[c] = IF c < k THEN cache[c] ELSE IF c < Len(cache) THEN cache[c + 1] ELSE e
      BY ONLY <3>1, cache \in Seq(Uses), e \in Uses, ReplacedSeq
    <3> QED  BY <3>2
  <2> HIDE DEF all
  <2>6. new = all
    BY <1>1, <1>3, <2>5
  <2> QED  BY <2>3, <2>5, <2>6 DEF new
<1> QED  BY <1>4, <1>5

\* LatestUses, of any history.
Latest(h) == {i \in DOMAIN h : \A j \in DOMAIN h : j > i => h[j].key # h[i].key}

\* One more request is the latest use of its key and ends the previous one.
LEMMA LatestAppended ==
    ASSUME NEW h \in Seq(Uses), NEW e \in Uses
    PROVE  /\ Latest(Append(h, e)) = {i \in Latest(h) : h[i].key # e.key} \cup {Len(h) + 1}
           /\ Latest(h) \subseteq 1..Len(h)
           /\ Append(h, e)[Len(h) + 1] = e /\ \A i \in 1..Len(h) : Append(h, e)[i] = h[i]
           /\ Append(h, e) \in Seq(Uses) /\ Len(Append(h, e)) = Len(h) + 1
<1> DEFINE n == Len(h)
           g == Append(h, e)
<1>1. /\ n \in Nat /\ DOMAIN h = 1..n /\ g \in Seq(Uses) /\ Len(g) = n + 1
      /\ g[n + 1] = e /\ \A i \in 1..n : g[i] = h[i]
  BY AppendProperties
<1>2. DOMAIN g = 1..n + 1
  BY <1>1
<1> HIDE DEF n, g
<1>3. n + 1 \in Latest(g)
  BY <1>1, <1>2 DEF Latest
<1>4. ASSUME NEW i \in 1..n
      PROVE  i \in Latest(g) <=> (i \in Latest(h) /\ h[i].key # e.key)
  <2>1. ASSUME i \in Latest(g) PROVE i \in Latest(h) /\ h[i].key # e.key
    <3>1. \A j \in 1..n + 1 : j > i => g[j].key # g[i].key
      BY <1>2, <2>1 DEF Latest
    <3>2. h[i].key # e.key
      <4>1. n + 1 \in 1..n + 1 /\ n + 1 > i
        BY <1>1
      <4> QED  BY <1>1, <3>1, <4>1
    <3>3. ASSUME NEW j \in 1..n, j > i PROVE h[j].key # h[i].key
      <4>1. j \in 1..n + 1
        BY <1>1
      <4> QED  BY <1>1, <3>1, <3>3, <4>1
    <3> QED  BY <1>1, <3>2, <3>3 DEF Latest
  <2>2. ASSUME i \in Latest(h), h[i].key # e.key PROVE i \in Latest(g)
    <3>1. ASSUME NEW j \in 1..n + 1, j > i PROVE g[j].key # g[i].key
      <4>1. CASE j = n + 1
        BY <1>1, <2>2, <4>1
      <4>2. CASE j # n + 1
        <5>1. j \in 1..n
          BY <1>1, <4>2
        <5> QED  BY <1>1, <2>2, <3>1, <5>1 DEF Latest
      <4> QED  BY <4>1, <4>2
    <3>2. i \in 1..n + 1
      BY <1>1
    <3> QED  BY <1>2, <3>1, <3>2 DEF Latest
  <2> QED  BY <2>1, <2>2
<1>5. Latest(h) \subseteq 1..n /\ Latest(g) \subseteq 1..n + 1
  BY <1>1, <1>2 DEF Latest
<1>6. Latest(g) = {i \in Latest(h) : h[i].key # e.key} \cup {n + 1}
  <2>1. ASSUME NEW i \in Latest(g) PROVE i \in {x \in Latest(h) : h[x].key # e.key} \cup {n + 1}
    <3>1. i \in 1..n \/ i = n + 1
      BY <1>1, <1>5
    <3> QED  BY <1>4, <3>1
  <2>2. ASSUME NEW i \in Latest(h), h[i].key # e.key PROVE i \in Latest(g)
    BY <1>4, <1>5, <2>2
  <2> QED  BY <1>3, <2>1, <2>2
<1> QED  BY <1>1, <1>5, <1>6 DEF n, g

\* Two uses that both are the latest of their key have different keys.
LEMMA LatestDistinct ==
    ASSUME NEW h \in Seq(Uses), NEW i \in Latest(h), NEW j \in Latest(h), h[i].key = h[j].key
    PROVE  i = j
<1>1. i \in Nat /\ j \in Nat /\ i \in DOMAIN h /\ j \in DOMAIN h
  BY DEF Latest
<1>2. ~(i < j) /\ ~(j < i)
  BY <1>1 DEF Latest
<1> QED  BY <1>1, <1>2

\* The c-th entry of the cache stands for the pos[c]-th request of the history:
\* the latest uses from some request on, in their order; all of them while the
\* cache has room or has evicted nothing.
Follows(cache, h, pos, evictions) ==
    /\ pos \in [1..Len(cache) -> Latest(h)]
    /\ \A c, d \in 1..Len(cache) : c < d => pos[c] < pos[d]
    /\ \A c \in 1..Len(cache) : cache[c] = h[pos[c]]
    /\ \A c \in 1..Len(cache), i \in Latest(h) : pos[c] < i => \E d \in 1..Len(cache) : pos[d] = i
    /\ Len(cache) < CacheSize \/ evictions = 0 =>
          \A i \in Latest(h) : \E d \in 1..Len(cache) : pos[d] = i

\* An admission keeps the correspondence.
LEMMA FollowsTouched ==
    ASSUME NEW cache \in Seq(Uses), Len(cache) <= CacheSize, NEW h \in Seq(Uses), NEW e \in Uses,
           NEW pos, NEW ev \in Nat, Follows(cache, h, pos, ev)
    PROVE  \E q : Follows(CacheTouched(cache, e.key, e.worker), Append(h, e), q,
                          ev + (IF Evicts(cache, e.key) THEN 1 ELSE 0))
<1> DEFINE n == Len(cache)
           N == Len(h)
           new == CacheTouched(cache, e.key, e.worker)
           g == Append(h, e)
           ev2 == ev + (IF Evicts(cache, e.key) THEN 1 ELSE 0)
<1>1. n \in Nat /\ N \in Nat /\ DOMAIN cache = 1..n
  OBVIOUS
<1>2. /\ Latest(g) = {i \in Latest(h) : h[i].key # e.key} \cup {N + 1}
      /\ Latest(h) \subseteq 1..N
      /\ g[N + 1] = e /\ \A i \in 1..N : g[i] = h[i]
  BY LatestAppended
<1>3. /\ pos \in [1..n -> Latest(h)]
      /\ \A c, d \in 1..n : c < d => pos[c] < pos[d]
      /\ \A c \in 1..n : cache[c] = h[pos[c]]
      /\ \A c \in 1..n, i \in Latest(h) : pos[c] < i => \E d \in 1..n : pos[d] = i
      /\ n < CacheSize \/ ev = 0 => \A i \in Latest(h) : \E d \in 1..n : pos[d] = i
  BY DEF Follows
<1>4. \A c \in 1..n : pos[c] \in Latest(h) /\ pos[c] \in 1..N /\ pos[c] \in Nat /\ pos[c] < N + 1
  BY <1>1, <1>2, <1>3
<1>5. ASSUME NEW c \in 1..n, NEW d \in 1..n, pos[c] = pos[d] PROVE c = d
  <2>1. ~(c < d) /\ ~(d < c)
    BY <1>3, <1>4, <1>5
  <2> QED  BY <1>1, <2>1
<1> HIDE DEF n, N, new, g, ev2
<1>6. ASSUME /\ n < CacheSize /\ \A c \in 1..n : cache[c].key # e.key
           /\ Len(new) = n + 1 /\ new[n + 1] = e /\ \A c \in 1..n : new[c] = cache[c]
      PROVE  \E q : Follows(new, g, q, ev2)
  <2> DEFINE q == [c \in 1..n + 1 |-> IF c = n + 1 THEN N + 1 ELSE pos[c]]
  <2>1. \A c \in 1..n + 1 : c \in 1..n \/ c = n + 1
    BY <1>1
  <2>2. \A c \in 1..n : q[c] = pos[c] /\ c # n + 1 /\ c \in 1..n + 1
    BY <1>1
  <2>3. q[n + 1] = N + 1 /\ n + 1 \in 1..n + 1
    BY <1>1
  <2>4. ASSUME NEW c \in 1..n PROVE pos[c] \in Latest(g)
    BY <1>2, <1>3, <1>4, <1>6
  <2>5. q \in [1..n + 1 -> Latest(g)]
    BY <1>2, <2>1, <2>2, <2>4
  <2> HIDE DEF q
  <2>6. ASSUME NEW c \in 1..n + 1, NEW d \in 1..n + 1, c < d PROVE q[c] < q[d]
    <3>1. c \in 1..n
      BY <1>1, <2>6
    <3>2. CASE d = n + 1
      BY <1>4, <2>2, <2>3, <3>1, <3>2
    <3>3. CASE d \in 1..n
      BY <1>3, <2>2, <2>6, <3>1, <3>3
    <3> QED  BY <2>1, <3>2, <3>3
  <2>7. ASSUME NEW c \in 1..n + 1 PROVE new[c] = g[q[c]]
    <3>1. CASE c = n + 1
      BY <1>2, <1>6, <2>3, <3>1
    <3>2. CASE c \in 1..n
      BY <1>2, <1>3, <1>4, <1>6, <2>2, <3>2
    <3> QED  BY <2>1, <3>1, <3>2
  <2>8. ASSUME NEW i \in Latest(g) PROVE \E d \in 1..n + 1 : q[d] = i
    <3>1. CASE i = N + 1
      BY <2>3, <3>1
    <3>2. CASE i \in Latest(h)
      <4>1. PICK d \in 1..n : pos[d] = i
        BY <1>3, <1>6, <3>2
      <4> QED  BY <2>2, <4>1
    <3> QED  BY <1>2, <3>1, <3>2
  <2>9. Follows(new, g, q, ev2)
    <3>1. Len(new) = n + 1
      BY <1>6
    <3> QED  BY <2>5, <2>6, <2>7, <2>8, <3>1 DEF Follows
  <2> QED  BY <2>9
<1>7. ASSUME NEW k \in 1..n,
             \/ cache[k].key = e.key
             \/ k = 1 /\ n = CacheSize /\ \A c \in 1..n : cache[c].key # e.key,
             Len(new) = n,
             \A c \in 1..n :
                new[c] = IF c < k THEN cache[c] ELSE IF c < n THEN cache[c + 1] ELSE e
      PROVE  \E q : Follows(new, g, q, ev2)
  <2> DEFINE q == [c \in 1..n |-> IF c < k THEN pos[c] ELSE IF c < n THEN pos[c + 1] ELSE N + 1]
             At(c) == IF c < k THEN c ELSE c + 1
  <2>1. \A c \in 1..n : (c < n \/ c < k => At(c) \in 1..n /\ At(c) # k /\ q[c] = pos[At(c)]
                                              /\ new[c] = cache[At(c)])
    <3>1. ASSUME NEW c \in 1..n, c < k PROVE At(c) \in 1..n /\ At(c) # k /\ q[c] = pos[At(c)]
                                              /\ new[c] = cache[At(c)]
      BY <1>1, <1>7, <3>1
    <3>2. ASSUME NEW c \in 1..n, ~(c < k), c < n
          PROVE  At(c) \in 1..n /\ At(c) # k /\ q[c] = pos[At(c)] /\ new[c] = cache[At(c)]
      BY <1>1, <1>7, <3>2
    <3> QED  BY <3>1, <3>2
  <2>2. \A c \in 1..n : c < n \/ c < k \/ c = n
    BY <1>1
  <2>3. /\ n \in 1..n /\ ~(n < k) /\ q[n] = N + 1 /\ new[n] = e
        /\ \A c \in 1..n : c # n => c < n
    BY <1>1, <1>7
  <2>4. ASSUME NEW d \in 1..n, d # k PROVE \E c \in 1..n : c < n /\ At(c) = d
    <3>1. CASE d < k
      BY <1>1, <3>1
    <3>2. CASE d > k
      <4>1. d - 1 \in 1..n /\ d - 1 < n /\ At(d - 1) = d
        BY <1>1, <3>2
      <4> QED  BY <4>1
    <3> QED  BY <1>1, <2>4, <3>1, <3>2
  <2>5. \A c, d \in 1..n : c < d /\ d < n => At(c) < At(d)
    BY <1>1
  <2> HIDE DEF q, At
  <2>6. ASSUME NEW c \in 1..n, c # k PROVE cache[c].key # e.key
    <3>1. ASSUME cache[k].key = e.key, cache[c].key = e.key PROVE FALSE
      <4>1. h[pos[c]].key = h[pos[k]].key
        BY <1>3, <3>1
      <4>2. pos[c] = pos[k]
        BY <1>4, <4>1, LatestDistinct
      <4> QED  BY <1>5, <2>6, <4>2
    <3> QED  BY <1>7, <3>1
  <2>7. ASSUME NEW c \in 1..n PROVE q[c] \in Latest(g)
    <3>1. CASE c = n
      BY <1>2, <2>3, <3>1
    <3>2. CASE c < n
      <4>1. At(c) \in 1..n /\ At(c) # k /\ q[c] = pos[At(c)]
        BY <2>1, <3>2
      <4>2. pos[At(c)] \in Latest(h) /\ h[pos[At(c)]].key # e.key
        BY <1>3, <1>4, <2>6, <4>1
      <4> QED  BY <1>2, <4>1, <4>2
    <3> QED  BY <2>3, <3>1, <3>2
  <2>8. q \in [1..n -> Latest(g)]
    BY <2>7 DEF q
  <2>9. ASSUME NEW c \in 1..n, NEW d \in 1..n, c < d PROVE q[c] < q[d]
    <3>1. c < n
      BY <1>1, <2>9
    <3>2. At(c) \in 1..n /\ q[c] = pos[At(c)]
      BY <2>1, <3>1
    <3>3. CASE d = n
      BY <1>4, <2>3, <3>2, <3>3
    <3>4. CASE d < n
      <4>1. At(d) \in 1..n /\ q[d] = pos[At(d)]
        BY <2>1, <3>4
      <4> QED  BY <1>3, <2>5, <2>9, <3>2, <3>4, <4>1
    <3> QED  BY <2>3, <3>3, <3>4
  <2>10. ASSUME NEW c \in 1..n PROVE new[c] = g[q[c]]
    <3>1. CASE c = n
      BY <1>2, <2>3, <3>1
    <3>2. CASE c < n
      <4>1. At(c) \in 1..n /\ q[c] = pos[At(c)] /\ new[c] = cache[At(c)]
        BY <2>1, <3>2
      <4> QED  BY <1>2, <1>3, <1>4, <4>1
    <3> QED  BY <2>3, <3>1, <3>2
  <2>11. ASSUME NEW d \in 1..n, d # k PROVE \E c \in 1..n : q[c] = pos[d]
    BY <2>1, <2>4, <2>11
  <2>12. ASSUME NEW i \in Latest(g), NEW c \in 1..n, q[c] < i PROVE \E d \in 1..n : q[d] = i
    <3>1. CASE i = N + 1
      BY <2>3, <3>1
    <3>2. CASE i \in Latest(h) /\ h[i].key # e.key
      <4>1. c < n
        <5>1. i \in 1..N
          BY <1>2, <3>2
        <5>2. c # n
          BY <1>1, <2>3, <2>12, <5>1
        <5> QED  BY <2>3, <5>2
      <4>2. At(c) \in 1..n /\ At(c) # k /\ pos[At(c)] < i
        BY <2>1, <2>12, <4>1
      <4>3. PICK d \in 1..n : pos[d] = i
        BY <1>3, <3>2, <4>2
      <4>4. d # k
        <5>1. CASE cache[k].key = e.key
          BY <1>3, <3>2, <4>3, <5>1
        <5>2. CASE k = 1
          <6>1. k < At(c)
            BY <1>1, <4>2, <5>2
          <6>2. pos[k] < pos[At(c)]
            BY <1>3, <4>2, <6>1
          <6>3. pos[k] \in Nat /\ pos[At(c)] \in Nat /\ i \in Nat
            BY <1>4, <4>2, <4>3
          <6> QED  BY <4>2, <4>3, <6>2, <6>3
        <5> QED  BY <1>7, <5>1, <5>2
      <4> QED  BY <2>11, <4>3, <4>4
    <3> QED  BY <1>2, <3>1, <3>2
  <2>13. ASSUME n < CacheSize \/ ev2 = 0, NEW i \in Latest(g) PROVE \E d \in 1..n : q[d] = i
    <3>1. cache[k].key = e.key /\ (n < CacheSize \/ ev = 0)
      <4>1. CASE k = 1 /\ n = CacheSize /\ \A c \in 1..n : cache[c].key # e.key
        <5>1. Evicts(cache, e.key)
          BY <1>1, <4>1 DEF Evicts, n
        <5>2. ev2 # 0
          BY <5>1 DEF ev2
        <5>3. CacheSize \in Nat
          BY RankingAssumption
        <5> QED  BY <1>1, <2>13, <4>1, <5>2, <5>3
      <4>2. CASE cache[k].key = e.key
        BY <2>13, <4>2 DEF ev2
      <4> QED  BY <1>7, <4>1, <4>2
    <3>2. CASE i = N + 1
      BY <2>3, <3>2
    <3>3. CASE i \in Latest(h) /\ h[i].key # e.key
      <4>1. PICK d \in 1..n : pos[d] = i
        BY <1>3, <3>1, <3>3
      <4>2. d # k
        BY <1>3, <3>1, <3>3, <4>1
      <4> QED  BY <2>11, <4>1, <4>2
    <3> QED  BY <1>2, <3>2, <3>3
  <2>14. Follows(new, g, q, ev2)
    <3>1. Len(new) = n
      BY <1>7
    <3> QED  BY <2>8, <2>9, <2>10, <2>12, <2>13, <3>1 DEF Follows
  <2> QED  BY <2>14
<1>8. \/ /\ n < CacheSize /\ \A c \in 1..n : cache[c].key # e.key
         /\ Len(new) = n + 1 /\ new[n + 1] = e /\ \A c \in 1..n : new[c] = cache[c]
      \/ \E k \in 1..n :
            /\ \/ cache[k].key = e.key
               \/ k = 1 /\ n = CacheSize /\ \A c \in 1..n : cache[c].key # e.key
            /\ Len(new) = n
            /\ \A c \in 1..n :
                  new[c] = IF c < k THEN cache[c] ELSE IF c < n THEN cache[c + 1] ELSE e
  BY Touched DEF n, new
<1>9. \E q : Follows(new, g, q, ev2)
  BY <1>6, <1>7, <1>8
<1> QED  BY <1>9 DEF new, g, ev2


\* A sequence that follows the history has the size of an LRU list, and each of
\* its entries has as many successors as its use has later ones.
LEMMA FollowsIsExact ==
    ASSUME prefix_cache \in Seq(Uses), Len(prefix_cache) <= CacheSize, served \in Seq(Uses),
           NEW pos, NEW ev, Follows(prefix_cache, served, pos, ev)
    PROVE  LruIsExact
<1> DEFINE n == Len(prefix_cache)
           L == Latest(served)
           After(i) == {j \in L : j > i}
<1>1. n \in Nat /\ n <= CacheSize /\ CacheSize \in Nat
  BY RankingAssumption
<1>2. L \subseteq 1..Len(served) /\ L \subseteq Nat /\ IsFiniteSet(L) /\ Cardinality(L) \in Nat
  <2>1. L \subseteq 1..Len(served) /\ Len(served) \in Int /\ 1 \in Int
    BY DEF Latest
  <2>2. IsFiniteSet(1..Len(served))
    BY <2>1, FS_Interval
  <2>3. IsFiniteSet(L)
    BY <2>1, <2>2, FS_Subset
  <2> QED  BY <2>1, <2>3, FS_CardinalityType
<1>3. /\ pos \in [1..n -> L]
      /\ \A c, d \in 1..n : c < d => pos[c] < pos[d]
      /\ \A c \in 1..n : prefix_cache[c] = served[pos[c]]
      /\ \A c \in 1..n, i \in L : pos[c] < i => \E d \in 1..n : pos[d] = i
      /\ n < CacheSize => \A i \in L : \E d \in 1..n : pos[d] = i
  BY DEF Follows
<1>4. LatestUses = L
  BY DEF LatestUses, Latest
<1> HIDE DEF n, L
<1>5. \A c \in 1..n : pos[c] \in L /\ pos[c] \in Nat
  BY <1>2, <1>3
<1>6. ASSUME NEW c \in 1..n, NEW d \in 1..n, pos[c] = pos[d] PROVE c = d
  <2>1. ~(c < d) /\ ~(d < c)
    BY <1>3, <1>5, <1>6
  <2> QED  BY <1>1, <2>1
<1>7. \A i : IsFiniteSet(After(i)) /\ Cardinality(After(i)) \in Nat
  <2>1. \A i : After(i) \in SUBSET L
    OBVIOUS
  <2> HIDE DEF After
  <2> QED  BY <1>2, <2>1, FS_Subset, FS_CardinalityType
<1>8. IsFiniteSet(1..n) /\ Cardinality(1..n) = n
  BY <1>1, FS_Interval
<1>9. pos \in Injection(1..n, L)
  BY <1>3, <1>6 DEF Injection, IsInjective
<1>10. n = Min({CacheSize, Cardinality(L)})
  <2>1. n <= Cardinality(L)
    BY <1>2, <1>8, <1>9, FS_Injection
  <2>2. n < CacheSize => n = Cardinality(L)
    <3>1. ASSUME n < CacheSize PROVE pos \in Surjection(1..n, L)
      BY <1>3, <3>1 DEF Surjection
    <3> QED  BY <1>2, <1>8, <1>9, <3>1, FS_Injection
  <2>3. ASSUME NEW a \in Nat, NEW b \in Nat, n <= a, n <= b, n < a => n = b
        PROVE  n = Min({a, b})
    <3>1. a \in Int /\ b \in Int
      OBVIOUS
    <3>2. Min({a, b}) \in {a, b} /\ Min({a, b}) <= a /\ Min({a, b}) <= b
      BY <3>1, MinOfTwo
    <3> QED  BY <1>1, <2>3, <3>2
  <2> QED  BY <1>1, <1>2, <2>1, <2>2, <2>3
<1>11. ASSUME NEW m \in 1..n PROVE Cardinality(After(pos[m])) = n - m
  <2> DEFINE f == [d \in m + 1..n |-> pos[d]]
             A == After(pos[m])
  <2>1. \A d \in m + 1..n : d \in 1..n /\ m < d
    BY <1>1
  <2>2. f \in [m + 1..n -> A]
    BY <1>3, <1>5, <2>1
  <2>3. \A c, d \in m + 1..n : f[c] = f[d] => c = d
    BY <1>6, <2>1
  <2>4. ASSUME NEW i \in A PROVE \E d \in m + 1..n : f[d] = i
    <3>1. i \in L /\ i > pos[m] /\ i \in Nat
      BY <1>2
    <3>2. PICK d \in 1..n : pos[d] = i
      BY <1>3, <1>5, <3>1
    <3>3. ~(d <= m)
      <4>1. ASSUME d <= m PROVE FALSE
        <5>1. d = m \/ d < m
          BY <1>1, <4>1
        <5>2. d < m => pos[d] < pos[m]
          BY <1>3
        <5> QED  BY <1>5, <3>1, <3>2, <5>1, <5>2
      <4> QED  BY <4>1
    <3>4. d \in m + 1..n
      BY <1>1, <3>3
    <3> QED  BY <3>2, <3>4
  <2> HIDE DEF A, f
  <2>5. f \in Bijection(m + 1..n, A)
    BY <2>2, <2>3, <2>4 DEF Bijection, Injection, Surjection, IsInjective
  <2>6. ExistsBijection(m + 1..n, A)
    BY <2>5 DEF ExistsBijection
  <2>7. IsFiniteSet(m + 1..n) /\ Cardinality(m + 1..n) = n - m
    <3>1. /\ IsFiniteSet(m + 1..n)
          /\ Cardinality(m + 1..n) = IF m + 1 > n THEN 0 ELSE n - (m + 1) + 1
      BY <1>1, FS_Interval
    <3> QED  BY <1>1, <3>1
  <2>8. Cardinality(A) = n - m
    BY <2>6, <2>7, FS_Bijection
  <2> QED  BY <2>8 DEF A
<1>12. ASSUME NEW i \in L, Cardinality(After(i)) < n PROVE \E m \in 1..n : pos[m] = i
  <2>1. SUFFICES ASSUME ~\E m \in 1..n : pos[m] = i PROVE FALSE
    OBVIOUS
  <2>2. \A c \in 1..n : pos[c] \in After(i)
    <3>1. \A c \in 1..n : ~(pos[c] < i) /\ pos[c] # i
      BY <1>3, <2>1
    <3> QED  BY <1>2, <1>5, <3>1
  <2> HIDE DEF After
  <2>3. pos \in Injection(1..n, After(i))
    BY <1>3, <1>6, <2>2 DEF Injection, IsInjective
  <2>4. n <= Cardinality(After(i))
    BY <1>7, <1>8, <2>3, FS_Injection
  <2> QED  BY <1>1, <1>7, <1>12, <2>4
<1>13. ASSUME NEW i \in L, Cardinality(After(i)) < n
       PROVE  prefix_cache[n - Cardinality(After(i))] = served[i]
  <2>1. PICK m \in 1..n : pos[m] = i
    BY <1>12, <1>13
  <2>2. Cardinality(After(i)) = n - m
    BY <1>11, <2>1
  <2>3. n - (n - m) = m
    BY <1>1
  <2> QED  BY <1>3, <2>1, <2>2, <2>3
<1> QED  BY <1>4, <1>10, <1>13 DEF LruIsExact, n

\* Reuses, of any history, and the keys of one.
ReusesOf(h) ==
    {i \in DOMAIN h : \E j \in 1..(i - 1) :
        /\ h[j] = h[i]
        /\ \A k \in (j + 1)..(i - 1) : h[k].key # h[i].key}
KeysOf(h) == {h[i].key : i \in DOMAIN h}

\* HitsAreReuses, of any history and counters.
Honest(h, hits, ev) ==
    /\ hits <= Cardinality(ReusesOf(h))
    /\ ev = 0 => hits = Cardinality(ReusesOf(h))
    /\ ev > 0 => Cardinality(KeysOf(h)) > CacheSize

\* What an admission adds: a reuse when the latest use of the key went to the
\* same backend, and the key.
LEMMA ReusesAppended ==
    ASSUME NEW h \in Seq(Uses), NEW e \in Uses
    PROVE  /\ ReusesOf(Append(h, e)) =
                  ReusesOf(h) \cup (IF \E j \in Latest(h) : h[j] = e THEN {Len(h) + 1} ELSE {})
           /\ ReusesOf(h) \subseteq 1..Len(h)
           /\ KeysOf(Append(h, e)) = KeysOf(h) \cup {e.key}
           /\ IsFiniteSet(KeysOf(h)) /\ IsFiniteSet(ReusesOf(h))
<1> DEFINE n == Len(h)
           g == Append(h, e)
<1>1. /\ n \in Nat /\ DOMAIN h = 1..n /\ g \in Seq(Uses) /\ Len(g) = n + 1
      /\ g[n + 1] = e /\ \A i \in 1..n : g[i] = h[i]
  BY AppendProperties
<1>2. DOMAIN g = 1..n + 1
  BY <1>1
<1> HIDE DEF n, g
<1>3. ASSUME NEW i \in 1..n PROVE i \in ReusesOf(g) <=> i \in ReusesOf(h)
  <2>1. /\ i \in 1..n + 1 /\ \A j \in 1..i - 1 : j \in 1..n
        /\ \A j \in 1..i - 1 : \A k \in j + 1..i - 1 : k \in 1..n
    BY <1>1
  <2>2. ASSUME NEW j \in 1..i - 1
        PROVE  /\ g[j] = g[i] <=> h[j] = h[i]
               /\ \A k \in j + 1..i - 1 : g[k].key # g[i].key <=> h[k].key # h[i].key
    BY <1>1, <2>1
  <2> QED  BY <1>1, <1>2, <2>1, <2>2 DEF ReusesOf
<1>4. ASSUME NEW t, t = n + 1
      PROVE  t \in ReusesOf(g) <=> \E j \in Latest(h) : h[j] = e
  <2> DEFINE Found(j) == g[j] = g[t] /\ \A k \in j + 1..t - 1 : g[k].key # g[t].key
  <2>1. t - 1 = n /\ t \in DOMAIN g /\ g[t] = e
    BY <1>1, <1>2, <1>4
  <2>2. ASSUME NEW j \in 1..n PROVE Found(j) <=> (j \in Latest(h) /\ h[j] = e)
    <3>1. g[j] = g[t] <=> h[j] = e
      BY <1>1, <2>1
    <3>2. ASSUME h[j] = e
          PROVE  (\A k \in j + 1..t - 1 : g[k].key # g[t].key) <=> j \in Latest(h)
      <4>1. ASSUME \A k \in j + 1..t - 1 : g[k].key # g[t].key, NEW k \in 1..n, k > j
            PROVE  h[k].key # h[j].key
        <5>1. k \in j + 1..t - 1
          BY <1>1, <2>1, <4>1
        <5> QED  BY <1>1, <2>1, <3>2, <4>1, <5>1
      <4>2. ASSUME j \in Latest(h), NEW k \in j + 1..t - 1
            PROVE  g[k].key # g[t].key
        <5>1. k \in 1..n /\ k > j
          BY <1>1, <2>1
        <5> QED  BY <1>1, <2>1, <3>2, <4>2, <5>1 DEF Latest
      <4> QED  BY <1>1, <4>1, <4>2 DEF Latest
    <3> QED  BY <3>1, <3>2
  <2>3. \A j \in Latest(h) : j \in 1..n
    BY <1>1 DEF Latest
  <2>4. t \in ReusesOf(g) <=> \E j \in 1..n : Found(j)
    <3>1. ASSUME NEW m, t - 1 = m PROVE t \in ReusesOf(g) <=> \E j \in 1..m : Found(j)
      BY <2>1, <3>1 DEF ReusesOf
    <3> QED  BY <2>1, <3>1
  <2> HIDE DEF Found
  <2> QED  BY <2>2, <2>3, <2>4
<1>5. ReusesOf(h) \subseteq 1..n /\ ReusesOf(g) \subseteq 1..n + 1
  BY <1>1, <1>2 DEF ReusesOf
<1>6. \A i \in 1..n + 1 : i \in 1..n \/ i = n + 1
  BY <1>1
<1>7. ReusesOf(g) = ReusesOf(h) \cup (IF \E j \in Latest(h) : h[j] = e THEN {n + 1} ELSE {})
  <2>1. CASE \E j \in Latest(h) : h[j] = e
    BY <1>3, <1>4, <1>5, <1>6, <2>1
  <2>2. CASE ~\E j \in Latest(h) : h[j] = e
    BY <1>3, <1>4, <1>5, <1>6, <2>2
  <2> QED  BY <2>1, <2>2
<1>8. KeysOf(g) = KeysOf(h) \cup {e.key}
  <2>1. \A i \in 1..n : i \in 1..n + 1
    BY <1>1
  <2>2. n + 1 \in 1..n + 1
    BY <1>1
  <2>3. ASSUME NEW x \in KeysOf(g) PROVE x \in KeysOf(h) \cup {e.key}
    <3>1. PICK i \in 1..n + 1 : x = g[i].key
      BY <1>2 DEF KeysOf
    <3> QED  BY <1>1, <1>6, <3>1 DEF KeysOf
  <2>4. ASSUME NEW x \in KeysOf(h) PROVE x \in KeysOf(g)
    <3>1. PICK i \in 1..n : x = h[i].key
      BY <1>1 DEF KeysOf
    <3> QED  BY <1>1, <1>2, <2>1, <3>1 DEF KeysOf
  <2>5. e.key \in KeysOf(g)
    BY <1>1, <1>2, <2>2 DEF KeysOf
  <2> QED  BY <2>3, <2>4, <2>5
<1>9. IsFiniteSet(1..n)
  BY <1>1, FS_Interval
<1>10. IsFiniteSet(KeysOf(h))
  <2> DEFINE f == [i \in 1..n |-> h[i].key]
  <2>1. f \in Surjection(1..n, KeysOf(h))
    BY <1>1 DEF Surjection, KeysOf
  <2> QED  BY <1>9, <2>1, FS_Surjection
<1>11. IsFiniteSet(ReusesOf(h))
  BY <1>5, <1>9, FS_Subset
<1> QED  BY <1>5, <1>7, <1>8, <1>10, <1>11 DEF n, g

\* An admission keeps the counters honest: a hit finds the latest use of its key
\* in the cache; a reuse that is no hit was evicted; and what evicts is a key
\* that the full cache does not hold.
LEMMA HonestTouched ==
    ASSUME NEW cache \in Seq(Uses), Len(cache) <= CacheSize, NEW h \in Seq(Uses), NEW e \in Uses,
           NEW pos, NEW ev \in Nat, NEW hits \in Nat,
           Follows(cache, h, pos, ev), Honest(h, hits, ev)
    PROVE  Honest(Append(h, e), hits + (IF \E i \in DOMAIN cache : cache[i] = e THEN 1 ELSE 0),
                  ev + (IF Evicts(cache, e.key) THEN 1 ELSE 0))
<1> DEFINE n == Len(cache)
           N == Len(h)
           g == Append(h, e)
           hit == \E i \in DOMAIN cache : cache[i] = e
           reuse == \E j \in Latest(h) : h[j] = e
           evicts == Evicts(cache, e.key)
           R == ReusesOf(h)
           K == KeysOf(h)
<1>1. n \in Nat /\ N \in Nat /\ DOMAIN cache = 1..n /\ CacheSize \in Nat
  BY RankingAssumption
<1>2. /\ ReusesOf(g) = R \cup (IF reuse THEN {N + 1} ELSE {})
      /\ R \subseteq 1..N /\ KeysOf(g) = K \cup {e.key}
      /\ IsFiniteSet(K) /\ IsFiniteSet(R)
  BY ReusesAppended
<1>3. /\ pos \in [1..n -> Latest(h)]
      /\ \A c, d \in 1..n : c < d => pos[c] < pos[d]
      /\ \A c \in 1..n : cache[c] = h[pos[c]]
      /\ ev = 0 => \A i \in Latest(h) : \E d \in 1..n : pos[d] = i
  BY DEF Follows
<1>4. /\ hits <= Cardinality(R)
      /\ ev = 0 => hits = Cardinality(R)
      /\ ev > 0 => Cardinality(K) > CacheSize
  BY DEF Honest
<1>5. Cardinality(R) \in Nat /\ Cardinality(K) \in Nat
  BY <1>2, FS_CardinalityType
<1>6. evicts => n = CacheSize /\ \A c \in 1..n : cache[c].key # e.key
  BY <1>1 DEF Evicts
<1>7. Latest(h) \subseteq 1..N
  BY LatestAppended
<1> HIDE DEF n, N, g, hit, reuse, evicts, R, K
<1>8. Cardinality(ReusesOf(g)) = Cardinality(R) + (IF reuse THEN 1 ELSE 0)
  <2>1. N + 1 \notin R
    BY <1>1, <1>2
  <2>2. CASE reuse
    BY <1>2, <2>1, <2>2, FS_AddElement
  <2>3. CASE ~reuse
    <3>1. ReusesOf(g) = R
      BY <1>2, <2>3
    <3> QED  BY <1>5, <2>3, <3>1
  <2> QED  BY <2>2, <2>3
<1>9. hit => reuse
  BY <1>1, <1>3 DEF hit, reuse
<1>10. ev = 0 => (reuse => hit)
  <2>1. ASSUME ev = 0, reuse PROVE hit
    <3>1. PICK j \in Latest(h) : h[j] = e
      BY <2>1 DEF reuse
    <3>2. PICK d \in 1..n : pos[d] = j
      BY <1>3, <2>1
    <3> QED  BY <1>1, <1>3, <3>1, <3>2 DEF hit
  <2> QED  BY <2>1
<1>11. Cardinality(KeysOf(g)) \in Nat /\ Cardinality(K) <= Cardinality(KeysOf(g))
  <2>1. IsFiniteSet(KeysOf(g)) /\ K \in SUBSET KeysOf(g)
    BY <1>2, FS_AddElement
  <2> QED  BY <2>1, FS_Subset, FS_CardinalityType
<1>12. evicts => Cardinality(KeysOf(g)) > CacheSize
  <2>1. SUFFICES ASSUME evicts PROVE Cardinality(KeysOf(g)) > CacheSize
    OBVIOUS
  <2>2. n = CacheSize /\ \A c \in 1..n : cache[c].key # e.key
    BY <1>6, <2>1
  <2> DEFINE f == [c \in 1..n |-> cache[c].key]
             C == KeysOf(g) \ {e.key}
  <2>3. ASSUME NEW c \in 1..n PROVE cache[c].key \in C
    <3>1. pos[c] \in 1..N /\ cache[c].key = h[pos[c]].key
      BY <1>3, <1>7
    <3>2. cache[c].key \in K
      BY <3>1 DEF K, KeysOf, N
    <3> QED  BY <1>2, <2>2, <3>2
  <2>4. ASSUME NEW c \in 1..n, NEW d \in 1..n, cache[c].key = cache[d].key PROVE c = d
    <3>1. pos[c] \in Latest(h) /\ pos[d] \in Latest(h) /\ h[pos[c]].key = h[pos[d]].key
      BY <1>3, <2>4
    <3>2. pos[c] = pos[d] /\ pos[c] \in Nat /\ pos[d] \in Nat
      BY <1>7, <3>1, LatestDistinct
    <3>3. ~(c < d) /\ ~(d < c)
      BY <1>3, <3>2
    <3> QED  BY <1>1, <3>3
  <2>5. f \in Injection(1..n, C)
    BY <2>3, <2>4 DEF Injection, IsInjective
  <2> HIDE DEF f
  <2>6. /\ IsFiniteSet(C) /\ Cardinality(C) \in Nat
        /\ Cardinality(KeysOf(g)) = Cardinality(C) + 1
    <3>1. IsFiniteSet(KeysOf(g)) /\ e.key \in KeysOf(g)
      BY <1>2, FS_AddElement
    <3>2. IsFiniteSet(C) /\ Cardinality(C) = Cardinality(KeysOf(g)) - 1
      BY <3>1, FS_RemoveElement
    <3>3. Cardinality(C) \in Nat
      BY <3>2, FS_CardinalityType
    <3> HIDE DEF C
    <3> QED  BY <1>11, <3>2, <3>3
  <2> HIDE DEF C
  <2>7. Cardinality(1..n) = n
    BY <1>1, FS_Interval
  <2>8. n <= Cardinality(C)
    BY <2>5, <2>6, <2>7, FS_Injection
  <2> QED  BY <1>1, <2>2, <2>6, <2>8
<1> DEFINE hits2 == hits + (IF hit THEN 1 ELSE 0)
           ev2 == ev + (IF evicts THEN 1 ELSE 0)
           r == Cardinality(R)
           r2 == Cardinality(ReusesOf(g))
           k == Cardinality(K)
           k2 == Cardinality(KeysOf(g))
<1>13. /\ hits2 \in Nat /\ ev2 \in Nat /\ r \in Nat /\ k \in Nat /\ k2 \in Nat
       /\ hits2 = (IF hit THEN hits + 1 ELSE hits) /\ r2 = (IF reuse THEN r + 1 ELSE r)
       /\ (ev2 = 0 => ev = 0) /\ (ev2 > 0 => ev > 0 \/ evicts)
  BY <1>5, <1>8, <1>11
<1> HIDE DEF hits2, ev2, r, r2, k, k2
<1>14. hits <= r /\ (ev = 0 => hits = r) /\ (ev > 0 => k > CacheSize) /\ k <= k2
       /\ (evicts => k2 > CacheSize)
  BY <1>4, <1>11, <1>12 DEF r, k, k2
<1>15. hits2 <= r2
  BY <1>9, <1>13, <1>14
<1>16. ev2 = 0 => hits2 = r2
  BY <1>9, <1>10, <1>13, <1>14
<1>17. ev2 > 0 => k2 > CacheSize
  BY <1>1, <1>13, <1>14
<1>18. Honest(g, hits2, ev2)
  BY <1>15, <1>16, <1>17 DEF Honest, r2, k2
<1> QED  BY <1>18 DEF g, hits2, ev2, hit, evicts

\* What holds of the cache, its counters and the history they summarise.
AffinityInv ==
    /\ RankTypeOK
    /\ prefix_cache \in Seq(Uses) /\ served \in Seq(Uses) /\ Len(prefix_cache) <= CacheSize
    /\ affinity \in [decisions : Nat, hits : Nat, evictions : Nat]
    /\ \E pos : Follows(prefix_cache, served, pos, affinity.evictions)
    /\ Honest(served, affinity.hits, affinity.evictions)

\* A scheduler that has served nothing.
LEMMA NothingServed ==
    ASSUME RankTypeOK, prefix_cache = <<>>, served = <<>>, affinity = NoAffinity
    PROVE  AffinityInv
<1>1. /\ prefix_cache \in Seq(Uses) /\ served \in Seq(Uses) /\ Len(prefix_cache) = 0
      /\ DOMAIN served = {}
  OBVIOUS
<1>2. /\ affinity \in [decisions : Nat, hits : Nat, evictions : Nat]
      /\ affinity.hits = 0 /\ affinity.evictions = 0
  BY DEF NoAffinity
<1>3. Latest(served) = {} /\ ReusesOf(served) = {}
  BY <1>1 DEF Latest, ReusesOf
<1>4. \E pos : Follows(prefix_cache, served, pos, affinity.evictions)
  <2> DEFINE pos == [c \in {} |-> 0]
  <2>1. 1..Len(prefix_cache) = {}
    BY <1>1
  <2>2. pos \in [{} -> {}]
    OBVIOUS
  <2>3. Follows(prefix_cache, served, pos, affinity.evictions)
    BY <1>3, <2>1, <2>2 DEF Follows
  <2> QED  BY <2>3
<1>5. Honest(served, affinity.hits, affinity.evictions)
  <2>1. Cardinality({}) = 0
    BY FS_EmptySet
  <2>2. ~(affinity.evictions > 0) /\ affinity.hits <= 0
    BY <1>2
  <2> QED  BY <1>2, <1>3, <2>1, <2>2 DEF Honest
<1>6. Len(prefix_cache) <= CacheSize
  BY <1>1, RankingAssumption
<1> QED  BY <1>1, <1>2, <1>4, <1>5, <1>6 DEF AffinityInv

\* Only an admission and a reset of the statistics touch the cache.
LEMMA AffinityStep == AffinityInv /\ [RankNext]_rankVars => AffinityInv'
<1> SUFFICES ASSUME AffinityInv, [RankNext]_rankVars PROVE AffinityInv'
  OBVIOUS
<1>1. RankTypeOK'
  BY RankTypeStep DEF AffinityInv
<1>2. CASE Picks
  <2>1. PICK ids \in SUBSET Workers, size \in Sizes, tier \in Tiers, key \in PromptKeys :
             Pick(ids, size, tier, key)
    BY <1>2 DEF Picks
  <2> DEFINE w == BestWorker(ids, size, tier, key)
             e == [key |-> key, worker |-> w]
  <2>2. w # NoWorker
    BY <2>1 DEF Pick
  <2>3. w \in Workers
    <3>1. PICK v : v \in Feasible(ids, size, tier)
      BY <2>2 DEF BestWorker
    <3> QED  BY <3>1, BestIsBest DEF AffinityInv
  <2>4. /\ prefix_cache' = CacheTouched(prefix_cache, key, w)
        /\ served' = Append(served, [key |-> key, worker |-> w])
        /\ affinity' = [decisions |-> affinity.decisions + 1,
                        hits |-> affinity.hits + (IF AffinityHit(w, key) THEN 1 ELSE 0),
                        evictions |-> affinity.evictions
                                        + (IF Evicts(prefix_cache, key) THEN 1 ELSE 0)]
    BY <2>1 DEF Pick
  <2> HIDE DEF w
  <2>5. e \in Uses /\ e.key = key /\ e.worker = w
    BY <2>3 DEF Uses
  <2>6. AffinityHit(w, key) <=> \E i \in DOMAIN prefix_cache : prefix_cache[i] = e
    BY DEF AffinityHit
  <2> HIDE DEF e
  <2>7. served' = Append(served, e)
    BY <2>4 DEF e
  <2>8. prefix_cache' = CacheTouched(prefix_cache, e.key, e.worker)
    BY <2>4, <2>5
  <2>9. /\ affinity.hits \in Nat /\ affinity.evictions \in Nat /\ affinity.decisions \in Nat
        /\ prefix_cache \in Seq(Uses) /\ served \in Seq(Uses) /\ Len(prefix_cache) <= CacheSize
        /\ Honest(served, affinity.hits, affinity.evictions)
    BY DEF AffinityInv
  <2>10. PICK pos : Follows(prefix_cache, served, pos, affinity.evictions)
    BY DEF AffinityInv
  <2>11. /\ affinity'.hits = affinity.hits
                               + (IF \E i \in DOMAIN prefix_cache : prefix_cache[i] = e THEN 1 ELSE 0)
         /\ affinity'.evictions = affinity.evictions + (IF Evicts(prefix_cache, e.key) THEN 1 ELSE 0)
         /\ affinity' \in [decisions : Nat, hits : Nat, evictions : Nat]
    <3> DEFINE hit == IF \E i \in DOMAIN prefix_cache : prefix_cache[i] = e THEN 1 ELSE 0
               evicted == IF Evicts(prefix_cache, e.key) THEN 1 ELSE 0
    <3>1. hit \in Nat /\ evicted \in Nat
      OBVIOUS
    <3>2. hit = (IF AffinityHit(w, key) THEN 1 ELSE 0)
      BY <2>6
    <3>3. evicted = (IF Evicts(prefix_cache, key) THEN 1 ELSE 0)
      BY <2>5
    <3> HIDE DEF hit, evicted
    <3>4. affinity' = [decisions |-> affinity.decisions + 1, hits |-> affinity.hits + hit,
                       evictions |-> affinity.evictions + evicted]
      BY <2>4, <3>2, <3>3
    <3> QED  BY <2>9, <3>1, <3>4 DEF hit, evicted
  <2>12. \E q : Follows(prefix_cache', served', q, affinity'.evictions)
    <3>1. \E q : Follows(CacheTouched(prefix_cache, e.key, e.worker), Append(served, e), q,
                         affinity.evictions + (IF Evicts(prefix_cache, e.key) THEN 1 ELSE 0))
      BY <2>5, <2>9, <2>10, FollowsTouched
    <3> QED  BY <2>7, <2>8, <2>11, <3>1, Zenon
  <2>13. Honest(served', affinity'.hits, affinity'.evictions)
    <3>1. Honest(Append(served, e),
                 affinity.hits + (IF \E i \in DOMAIN prefix_cache : prefix_cache[i] = e THEN 1 ELSE 0),
                 affinity.evictions + (IF Evicts(prefix_cache, e.key) THEN 1 ELSE 0))
      BY <2>5, <2>9, <2>10, HonestTouched
    <3> QED  BY <2>7, <2>11, <3>1, Zenon
  <2>14. prefix_cache' \in Seq(Uses) /\ Len(prefix_cache') <= CacheSize
    <3>1. CacheSize \in Nat /\ Len(prefix_cache) \in Nat
      BY <2>9, RankingAssumption
    <3>2. /\ prefix_cache' \in Seq(Uses)
          /\ \/ Len(prefix_cache) < CacheSize /\ Len(prefix_cache') = Len(prefix_cache) + 1
             \/ Len(prefix_cache') = Len(prefix_cache)
      BY <2>5, <2>8, <2>9, Touched
    <3> QED  BY <2>9, <3>1, <3>2
  <2>15. served' \in Seq(Uses)
    BY <2>5, <2>7, <2>9
  <2> QED  BY <1>1, <2>11, <2>12, <2>13, <2>14, <2>15 DEF AffinityInv
<1>3. CASE ResetAffinity
  <2>1. prefix_cache' = <<>> /\ served' = <<>> /\ affinity' = NoAffinity
    BY <1>3 DEF ResetAffinity
  <2>2. (RankTypeOK /\ prefix_cache = <<>> /\ served = <<>> /\ affinity = NoAffinity
            => AffinityInv)'
    BY NothingServed, PTL
  <2> QED  BY <1>1, <2>1, <2>2 DEF NoAffinity
<1>4. CASE UNCHANGED affinityVars
  <2>1. UNCHANGED <<prefix_cache, affinity, served>>
    BY <1>4 DEF affinityVars
  <2> QED  BY <1>1, <2>1 DEF AffinityInv
<1>5. WorkerChanges \/ UNCHANGED rankVars => UNCHANGED affinityVars
  BY DEF WorkerChanges, FeedbackSuccess, Release, Scrape, SetVram, Register, rankVars
<1> QED  BY <1>2, <1>3, <1>4, <1>5 DEF RankNext

\* The invariant holds of a fresh scheduler.
LEMMA AffinityStart == RankInit => AffinityInv
BY RankTypeInit, NothingServed DEF RankInit

\* In every reachable state the affinity cache is the list of the CacheSize most
\* recently served keys, oldest first, each with the backend that served it last:
\* the OrderedDict with its re-insertion and eviction is an exact LRU.
THEOREM CacheIsLru == RankSpec => []LruIsExact
<1>1. AffinityInv => LruIsExact
  BY FollowsIsExact DEF AffinityInv
<1> QED  BY <1>1, AffinityStart, AffinityStep, PTL DEF RankSpec

\* In every reachable state the hits of /debug/affinity are reuses, all of them
\* as long as nothing was evicted, and what evicts is more keys than fit.
THEOREM HitsAreHonest == RankSpec => []HitsAreReuses
<1>1. AffinityInv => HitsAreReuses
  BY DEF AffinityInv, Honest, HitsAreReuses, ReusesOf, Reuses, KeysOf
<1> QED  BY <1>1, AffinityStart, AffinityStep, PTL DEF RankSpec

=============================================================================
