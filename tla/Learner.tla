-------------------------------- MODULE Learner --------------------------------
(***************************************************************************)
(* DualTimescaleNLMS of dio-serve/src/dio/scheduler.py on one backend: the    *)
(* latency line y = s * tokens + b, its two slopes, the clipping of samples   *)
(* that queued behind others and the trust region on their steps.            *)
(*                                                                         *)
(* Fixed point: latencies and the intercept are in microseconds, slopes in    *)
(* microseconds per token; a quotient is cut off towards zero.               *)
(***************************************************************************)
EXTENDS Integers, Sequences, OrderStatistics

CONSTANTS Workloads,    \* sets of samples a behaviour draws from: [samples, length]
          Modes,        \* subset of {"DUAL", "SINGLE", "STATIC"}
          InitialSlope, InitialIntercept,
          SlopeMax, InterceptMax,
          WindowMin, WindowMax   \* samples before the window counts, and kept

\* mu_fast = 0.1, mu_slow = 0.01, mu_bias = 0.005, blend = 0.8, err_clip = 2,
\* step_frac = 0.05; slopes are at least 0.1 ms per token, b at least 0.1 ms.
Floor == 100
MaxDoublings == 6

ASSUME LearnerAssumption ==
    /\ WindowMin \in Nat \ {0} /\ WindowMax \in Nat /\ WindowMin <= WindowMax
    /\ Modes \subseteq {"DUAL", "SINGLE", "STATIC"}
    /\ SlopeMax \in Nat /\ InitialSlope \in Floor..SlopeMax
    /\ InterceptMax \in Nat /\ InitialIntercept \in Floor..InterceptMax
    /\ \A w \in Workloads : \A s \in w.samples :
          s.tokens \in Nat \ {0} /\ s.actual \in Nat /\ s.contended \in BOOLEAN

VARIABLES mode, robust,
          model,        \* [fast, slow, intercept, avg]
          recent,       \* the window of latencies
          clip_streak,
          counts,       \* [updates, clipped, contended]
          workload,
          last,         \* history: the latest update
          held          \* history: how many samples in a row were clipped

learnerVars == <<mode, robust, model, recent, clip_streak, counts, workload, last, held>>

Cut(a, b) == IF a < 0 THEN -((-a) \div b) ELSE a \div b
Between(lo, hi, x) == IF x < lo THEN lo ELSE IF x > hi THEN hi ELSE x
Larger(a, b) == IF a > b THEN a ELSE b
Distance(a, b) == IF a < b THEN b - a ELSE a - b

EffectiveSlope(m) == IF mode = "DUAL" THEN Cut(8 * m.fast + 2 * m.slow, 10) ELSE m.fast
Predict(m, tokens) == EffectiveSlope(m) * tokens + m.intercept

\* _robust_scale: the low quartile of a window that is long enough.
RobustScale(pred) ==
    LET typical == SortedAt(recent, (Len(recent) - 1) \div 4 + 1)
    IN  Larger(IF Len(recent) >= WindowMin THEN typical ELSE pred, 1000)

\* Mutant: the tolerance does not widen.
NeverWidens(streak) == 1

\* A streak of clipped samples doubles the tolerance, up to 64 times.
Widening(streak) == 2 ^ (IF streak < MaxDoublings THEN streak ELSE MaxDoublings)

Trusted(contended) == ~robust \/ ~contended

\* Mutant: the slope step is not divided by the size of the request.
UnnormalisedStep(err, tokens, rate, cap) == Between(-cap, cap, Cut(err, rate))

\* Mutant: no trust region.
UncappedStep(err, tokens, rate, cap) == Cut(err, rate * tokens)

\* mu * err / tokens within the cap of the trust region.
SlopeStep(err, tokens, rate, cap) == Between(-cap, cap, Cut(err, rate * tokens))

\* The model after an update with the error taken from the sample.
Stepped(m, err, tokens, cap) ==
    LET fast == m.fast + SlopeStep(err, tokens, 10, cap)
        slow == IF mode = "DUAL" THEN m.slow + SlopeStep(err, tokens, 100, cap) ELSE fast
    IN  [m EXCEPT !.fast = Between(Floor, SlopeMax, fast),
                  !.slow = Between(Floor, SlopeMax, slow),
                  !.intercept = Between(Floor, InterceptMax, m.intercept + Cut(err, 200))]

AvgAfter(avg, actual) == IF avg <= 0 THEN actual ELSE Cut(9 * avg + actual, 10)

\* update(actual_ms, tokens, inflight), contended when inflight > 1.
Update(s) ==
    LET pred == Predict(model, s.tokens)
        err == s.actual - pred
        widen == Widening(clip_streak)
        base == 2 * RobustScale(pred)
        guarded == ~Trusted(s.contended)
        taken == IF guarded THEN Between(-(base * widen), base * widen, err) ELSE err
        clipped == guarded /\ mode # "STATIC" /\ taken # err
        \* step_frac * widen * pred / tokens
        cap == IF guarded THEN Larger(Cut(widen * pred, 20 * s.tokens), 1) ELSE SlopeMax * 100
    IN  /\ model' = [(IF mode = "STATIC" THEN model ELSE Stepped(model, taken, s.tokens, cap))
                       EXCEPT !.avg = AvgAfter(@, s.actual)]
        /\ clip_streak' = IF mode = "STATIC" THEN clip_streak
                          ELSE IF ~guarded THEN 0
                          ELSE IF clipped THEN clip_streak + 1
                          ELSE IF Distance(err, 0) <= base THEN 0 ELSE clip_streak
        /\ counts' = [updates |-> counts.updates + 1,
                      clipped |-> counts.clipped + (IF clipped THEN 1 ELSE 0),
                      contended |-> counts.contended + (IF guarded /\ mode # "STATIC" THEN 1 ELSE 0)]
        /\ recent' = IF Len(recent) = WindowMax THEN Append(Tail(recent), s.actual)
                     ELSE Append(recent, s.actual)
        /\ last' = [sample |-> s, pred |-> pred, clipped |-> clipped, scale |-> RobustScale(pred),
                      streak |-> clip_streak]
        /\ held' = IF clipped THEN held + 1 ELSE 0
        /\ UNCHANGED <<mode, robust, workload>>

Learn ==
    /\ counts.updates < workload.length
    /\ \E s \in workload.samples : Update(s)

NoSample == [tokens |-> 1, actual |-> 0, contended |-> FALSE]

LearnerInit ==
    /\ mode \in Modes /\ robust \in BOOLEAN /\ workload \in Workloads
    /\ model = [fast |-> InitialSlope, slow |-> InitialSlope, intercept |-> InitialIntercept, avg |-> 0]
    /\ recent = <<>> /\ clip_streak = 0
    /\ counts = [updates |-> 0, clipped |-> 0, contended |-> 0]
    /\ last = [sample |-> NoSample, pred |-> 0, clipped |-> FALSE, scale |-> 1000, streak |-> 0]
    /\ held = 0

LearnerSpec == LearnerInit /\ [][Learn]_learnerVars

-----------------------------------------------------------------------------
(* Properties.                                                             *)

\* Rounding: less than a microsecond per token and slope, and in the intercept.
Slack(tokens) == 2 * tokens + 1

\* Every update moves the estimate for the size that was measured towards the
\* measurement and never past it, in both directions, clipped or not, whatever
\* the two slopes have come to; the estimate of a static profile stays.
NeverOvershoots ==
    counts.updates > 0 =>
        LET s == last.sample
            now == Predict(model, s.tokens)
        IN  /\ mode = "STATIC" => now = last.pred
            /\ last.pred <= s.actual => now >= last.pred - Slack(s.tokens) /\ now <= s.actual + Slack(s.tokens)
            /\ last.pred >= s.actual => now <= last.pred + Slack(s.tokens) /\ now >= s.actual - Slack(s.tokens)

\* A backend that stays slow, or stays fast, is believed: of seven contended
\* samples in a row one is taken at face value, whatever is typical in the
\* window by then, unless the estimate is off by over a hundred times that.
SustainedIsBelieved ==
    Distance(last.sample.actual, last.pred) <= 100 * last.scale => held <= MaxDoublings

\* One odd sample is not believed: a contended sample that follows one in line moves
\* the estimate for its size by at most a twentieth through the slopes and a
\* hundredth of the typical service time through the intercept.  The comment
\* in the code leaves the intercept out: see TrustRegionHolds.
OutlierIsHeld ==
    last.streak = 0 /\ robust /\ last.sample.contended =>
        Distance(Predict(model, last.sample.tokens), last.pred)
            <= last.pred \div 20 + last.scale \div 100 + Slack(last.sample.tokens)

-----------------------------------------------------------------------------
(* What a comment of the code says and the code does not do.                *)

\* scheduler.py, update: "a contended sample may not move the estimate for this
\* request size by more than step_frac of itself (times the widening)."
TrustRegionHolds ==
    robust /\ last.sample.contended =>
        Distance(Predict(model, last.sample.tokens), last.pred)
            <= (Widening(last.streak) * last.pred) \div 20 + Slack(last.sample.tokens)

=============================================================================
