------------------------------- MODULE Ranking -------------------------------
(***************************************************************************)
(* Cost ranking of dio-serve/src/dio/scheduler.py: _score, the ranking loop  *)
(* of pick for the nlms and rls strategies (static is nlms with a line that  *)
(* never moves), and the prefix affinity LRU.  A request that pick turns     *)
(* away changes nothing here: module Gateway counts it.                      *)
(*                                                                         *)
(* Costs are integers in units of 1 ms / BatchSize, which is exact for the   *)
(* queue term pending / batch_size * avg and for the percentages used.  What *)
(* the learner makes of a sample is left open: feedback of a success may set *)
(* any line (slope and intercept) and any average.                           *)
(***************************************************************************)
EXTENDS Integers, Sequences, FiniteSets, FiniteSetsExt

CONSTANTS NumWorkers,    \* backends, numbered in registration order
          PromptKeys,    \* prefix hashes
          Tokens,        \* [size |-> tokens], the request sizes
          Lines,         \* [slope, intercept] records the learner can arrive at
          AvgMs,         \* average latencies a sample can leave behind
          FreeLevels,    \* free VRAM the operator or a registration can report
          Snapshots,     \* engine metrics a scrape can return
          CacheSize,     \* affinity_cache_size, at least 16 in the code
          MaxPending,    \* bound: outstanding requests per backend
          MaxPicks       \* bound: admitted requests between two resets

ASSUME RankingAssumption ==
    /\ NumWorkers \in Nat \ {0} /\ CacheSize \in Nat \ {0}
    /\ \A size \in DOMAIN Tokens : Tokens[size] \in Nat
    /\ FreeLevels \subseteq Int
    /\ Lines \subseteq [slope : Nat, intercept : Nat] /\ AvgMs \subseteq Nat
    /\ Snapshots \subseteq [ok : {TRUE}, kvPct : 0..100, waiting : Nat, hitPct : 0..100]

Workers == 1..NumWorkers
Sizes == DOMAIN Tokens
Tiers == {"small", "large"}
NoWorker == 0

\* The defaults of Scheduler.__init__ and of Backend.
BatchSize == 8
InitialLine == [slope |-> 2, intercept |-> 150]
TierMismatchMs == 500
CacheBonusMs == 200
KvCacheCostMs == 800
EngineQueueCostMs == 50
PrefixHitBonusMs == 150
TotalVramMb == 24000
VramSoftMb == 4096
VramHardMb == 2400

\* engine_snap of a backend that was never scraped.
NoSnapshot == [ok |-> FALSE, kvPct |-> 0, waiting |-> 0, hitPct |-> 0]

NoAffinity == [decisions |-> 0, hits |-> 0, evictions |-> 0]

VARIABLES tierOf,        \* [w |-> tier the backend was registered with]
          pending,       \* [w |-> outstanding requests]
          line,          \* [w |-> effective slope and intercept]
          avg,           \* [w |-> avg_latency, 0 before the first sample]
          free,          \* [w |-> free_vram_mb]
          engine_snap,   \* [w |-> last snapshot that was scraped with ok]
          prefix_cache,  \* OrderedDict, oldest first: <<[key, worker], ...>>
          affinity,      \* the affinity_decisions / hits / evictions counters
          served         \* history: [key, worker] of each admitted request

workerVars == <<tierOf, pending, line, avg, free, engine_snap>>
affinityVars == <<prefix_cache, affinity, served>>
rankVars == <<workerVars, affinityVars>>

-----------------------------------------------------------------------------
(* _score                                                                  *)

\* The KV gauge of the last scrape is nearly full.
KvFull(w) == engine_snap[w].ok /\ engine_snap[w].kvPct > 95

\* The early returns of _score with blocked = True.
HardBlocked(w, size, tier) ==
    \/ free[w] > 0 /\ free[w] < VramHardMb /\ Tokens[size] > 1000
    \/ KvFull(w) /\ Tokens[size] > 500
    \/ tier = "large" /\ tierOf[w] # "large"

ExecMs(w, size) == line[w].slope * Tokens[size] + line[w].intercept

\* Predicted service time: wait + exec, in units of 1 ms / BatchSize.
Service(w, size) ==
    LET exec == ExecMs(w, size)
        avgT == IF avg[w] > 0 THEN avg[w] ELSE exec
    IN  pending[w] * avgT + BatchSize * exec

\* tier_cost + vram_cost + eng_kv + eng_q.
Penalties(w, tier) ==
    LET snap == engine_snap[w]
        tierCost == IF tier = "small" /\ tierOf[w] = "large"
                    THEN BatchSize * TierMismatchMs ELSE 0
        vramCost == IF free[w] < VramSoftMb
                    THEN (BatchSize * 1000 * (TotalVramMb - free[w])) \div TotalVramMb ELSE 0
        kvCost == (BatchSize * KvCacheCostMs * snap.kvPct) \div 100
        queueCost == BatchSize * EngineQueueCostMs * snap.waiting
    IN  tierCost + vramCost + (IF snap.ok THEN kvCost + queueCost ELSE 0)

\* Mutant: any backend hits once the key is known.
AnyBackendHits(w, key) == \E i \in DOMAIN prefix_cache : prefix_cache[i].key = key

\* self.prefix_cache.get(pkey) == worker_id
AffinityHit(w, key) ==
    \E i \in DOMAIN prefix_cache : prefix_cache[i] = [key |-> key, worker |-> w]

\* cache_bonus + eng_pref, before the clamp.
RawBonus(w, key) ==
    LET snap == engine_snap[w]
    IN  (IF AffinityHit(w, key) THEN BatchSize * CacheBonusMs ELSE 0)
          + (IF snap.ok THEN (BatchSize * PrefixHitBonusMs * snap.hitPct) \div 100 ELSE 0)

\* Mutant: the bonus is applied in full.
UnclampedBonus(w, size, key) == RawBonus(w, key)

\* A bonus erases at most the predicted service time.
Bonus(w, size, key) == Min({RawBonus(w, key), Service(w, size)})

Score(w, size, tier, key) ==
    Max({0, Service(w, size) + Penalties(w, tier) - Bonus(w, size, key)})

-----------------------------------------------------------------------------
(* The ranking loop of pick.                                               *)

Feasible(ids, size, tier) == {w \in ids : ~HardBlocked(w, size, tier)}

\* Mutant: best_score is never updated, so the last feasible backend wins.
LastFeasible(ids, size, tier, key) ==
    LET ws == Feasible(ids, size, tier) IN IF ws = {} THEN NoWorker ELSE Max(ws)

\* The first backend, in registration order, of the smallest score.
BestWorker(ids, size, tier, key) ==
    LET ws == Feasible(ids, size, tier)
        score == [w \in ws |-> Score(w, size, tier, key)]
        best == {w \in ws : \A v \in ws : score[w] <= score[v]}
    IN  IF ws = {} THEN NoWorker ELSE Min(best)

-----------------------------------------------------------------------------
(* The affinity LRU: assignment and move_to_end, then eviction from the      *)
(* front.                                                                    *)

\* Mutant: the assignment alone, which keeps a known key at its old place.
CacheAssigned(cache, key, w) ==
    LET entry == [key |-> key, worker |-> w]
        known == {i \in DOMAIN cache : cache[i].key = key}
        all == IF known = {} THEN Append(cache, entry)
                             ELSE [cache EXCEPT ![Min(known)] = entry]
    IN  IF Len(all) > CacheSize THEN Tail(all) ELSE all

CacheTouched(cache, key, w) ==
    LET known == {i \in DOMAIN cache : cache[i].key = key}
        rest == IF known = {} THEN cache
                ELSE SubSeq(cache, 1, Min(known) - 1) \o SubSeq(cache, Min(known) + 1, Len(cache))
        all == Append(rest, [key |-> key, worker |-> w])
    IN  IF Len(all) > CacheSize THEN Tail(all) ELSE all

Evicts(cache, key) ==
    Len(cache) = CacheSize /\ \A i \in DOMAIN cache : cache[i].key # key

-----------------------------------------------------------------------------
\* A configuration file that says 0 MB free is read as saying nothing.
RankInit ==
    /\ tierOf \in [Workers -> Tiers]
    /\ pending = [w \in Workers |-> 0]
    /\ line = [w \in Workers |-> InitialLine]
    /\ avg = [w \in Workers |-> 0]
    /\ free \in [Workers -> FreeLevels \ {0}]
    /\ engine_snap = [w \in Workers |-> NoSnapshot]
    /\ prefix_cache = <<>>
    /\ affinity = NoAffinity
    /\ served = <<>>

\* pick on the healthy allowed backends ids returns the backend w.
Pick(ids, size, tier, key) ==
    LET w == BestWorker(ids, size, tier, key)
    IN  /\ w # NoWorker
        /\ pending[w] < MaxPending /\ Len(served) < MaxPicks
        /\ pending' = [pending EXCEPT ![w] = @ + 1]
        /\ prefix_cache' = CacheTouched(prefix_cache, key, w)
        /\ affinity' = [decisions |-> affinity.decisions + 1,
                        hits |-> affinity.hits + (IF AffinityHit(w, key) THEN 1 ELSE 0),
                        evictions |-> affinity.evictions
                                        + (IF Evicts(prefix_cache, key) THEN 1 ELSE 0)]
        /\ served' = Append(served, [key |-> key, worker |-> w])
        /\ UNCHANGED <<tierOf, line, avg, free, engine_snap>>

\* DualTimescaleNLMS.update, its arithmetic left open.
AnyUpdate(w) ==
    /\ \E l \in Lines : line' = [line EXCEPT ![w] = l]
    /\ \E a \in AvgMs : avg' = [avg EXCEPT ![w] = a]

\* feedback of a success: the learner moves, the slot comes back.
FeedbackSuccess(w) ==
    /\ pending[w] > 0
    /\ pending' = [pending EXCEPT ![w] = @ - 1]
    /\ AnyUpdate(w)
    /\ UNCHANGED <<tierOf, free, engine_snap, affinityVars>>

\* release, or feedback of a failure: the slot comes back, nothing is learned.
Release(w) ==
    /\ pending[w] > 0
    /\ pending' = [pending EXCEPT ![w] = @ - 1]
    /\ UNCHANGED <<tierOf, line, avg, free, engine_snap, affinityVars>>

\* set_engine_metrics: the KV gauge overwrites free_vram_mb.
HeadroomMb(snap) == (TotalVramMb * (100 - snap.kvPct)) \div 100

\* _metrics_loop, when a scrape parses.  One that fails leaves the old snapshot
\* in force.
Scrape(w) ==
    /\ \E snap \in Snapshots :
          /\ engine_snap' = [engine_snap EXCEPT ![w] = snap]
          /\ free' = [free EXCEPT ![w] = HeadroomMb(snap)]
    /\ UNCHANGED <<tierOf, pending, line, avg, affinityVars>>

\* set_vram, from POST /debug/chaos/vram.
SetVram(w) ==
    /\ \E mb \in FreeLevels : free' = [free EXCEPT ![w] = mb]
    /\ UNCHANGED <<tierOf, pending, line, avg, engine_snap, affinityVars>>

\* register of a known id: a new predictor, but the snapshot and the affinity
\* entries of the old engine stay.
Register(w) ==
    /\ pending' = [pending EXCEPT ![w] = 0]
    /\ line' = [line EXCEPT ![w] = InitialLine]
    /\ avg' = [avg EXCEPT ![w] = 0]
    /\ \E t \in Tiers : tierOf' = [tierOf EXCEPT ![w] = t]
    /\ \E mb \in FreeLevels : free' = [free EXCEPT ![w] = mb]
    /\ UNCHANGED <<engine_snap, affinityVars>>

\* reset_stats forgets the affinity, not the backends.
ResetAffinity ==
    /\ prefix_cache' = <<>>
    /\ affinity' = NoAffinity
    /\ served' = <<>>
    /\ UNCHANGED workerVars

Picks ==
    \E ids \in SUBSET Workers, size \in Sizes, tier \in Tiers, key \in PromptKeys :
        Pick(ids, size, tier, key)

WorkerChanges ==
    \E w \in Workers : FeedbackSuccess(w) \/ Release(w) \/ Scrape(w) \/ SetVram(w) \/ Register(w)

RankNext == Picks \/ WorkerChanges \/ ResetAffinity

RankSpec == RankInit /\ [][RankNext]_rankVars

-----------------------------------------------------------------------------
(* Properties.                                                             *)

\* Bonuses are savings: they erase at most the predicted service time of a
\* request, never a penalty.  No affinity makes a saturated engine look free.
BonusBuysNoPenalty ==
    \A w \in Workers, size \in Sizes, tier \in Tiers, key \in PromptKeys :
        Score(w, size, tier, key) >= Penalties(w, tier)

\* Stickiness has a price limit: the backend that pick returns costs, before
\* bonuses, at most the two bonuses more than any feasible alternative.
StickinessIsBounded ==
    LET Cost(w, size, tier) == Service(w, size) + Penalties(w, tier)
    IN  \A ids \in SUBSET Workers, size \in Sizes, tier \in Tiers,
           key \in PromptKeys :
            LET c == BestWorker(ids, size, tier, key)
            IN  \A w \in Feasible(ids, size, tier) :
                  Cost(c, size, tier)
                    <= Cost(w, size, tier) + BatchSize * (CacheBonusMs + PrefixHitBonusMs)

\* Positions of the history whose key was not served again later.
LatestUses == {i \in DOMAIN served : \A j \in DOMAIN served : j > i => served[j].key # served[i].key}

\* The affinity cache is exactly the CacheSize most recently served keys, in
\* the order of their last use, each with the backend that served it last.
LruIsExact ==
    LET n == Len(prefix_cache)
        Later(i) == Cardinality({j \in LatestUses : j > i})
    IN  /\ n = Min({CacheSize, Cardinality(LatestUses)})
        /\ \A i \in LatestUses : Later(i) < n => prefix_cache[n - Later(i)] = served[i]

\* Positions of the history whose key went to the same backend the last time
\* it was served.
Reuses ==
    {i \in DOMAIN served : \E j \in 1..(i - 1) :
        /\ served[j] = served[i]
        /\ \A k \in (j + 1)..(i - 1) : served[k].key # served[i].key}

\* /debug/affinity is honest: a counted hit is a request that followed its
\* prefix to the backend that served it last; as long as no entry was evicted,
\* all of those are counted, and an eviction takes more keys than the cache
\* holds.
HitsAreReuses ==
    LET keys == {served[i].key : i \in DOMAIN served}
    IN  /\ affinity.hits <= Cardinality(Reuses)
        /\ affinity.evictions = 0 => affinity.hits = Cardinality(Reuses)
        /\ affinity.evictions > 0 => Cardinality(keys) > CacheSize

=============================================================================
