------------------------------ MODULE Admission ------------------------------
(***************************************************************************)
(* The SLO gate of dio-serve/src/dio/scheduler.py: _percentile,              *)
(* _should_reject_slo, the part of pick that follows the ranking, and the    *)
(* window of observed latencies (recent_e2e) the gate decides by.            *)
(*                                                                         *)
(* A request arrives with the list of what _score returned for the healthy   *)
(* allowed backends; module Ranking says how these come about.  Percentiles  *)
(* are exact: they are kept in hundredths of a millisecond, which is what    *)
(* linear interpolation between two integers needs for an integer p.         *)
(***************************************************************************)
EXTENDS Integers, Sequences, FiniteSets, FiniteSetsExt, OrderStatistics

CONSTANTS AdmissionModes, \* admission_mode values a deployment may choose
          SloMs,          \* slo_ms
          TailPercent,    \* admission_percentile, 95 in the code
          Warmup,         \* samples before the window is believed, 8 in the code
          Window,         \* maxlen of recent_e2e, max(8, recent_latency_window)
          Samples,        \* e2e latencies of completed requests
          Fields,         \* score lists, Blocked for a hard-blocked backend
          MaxOutstanding, \* bound: admitted requests that are not over
          MaxDecisions    \* bound: calls of pick between two resets

Blocked == -1

ASSUME AdmissionAssumption ==
    /\ AdmissionModes \subseteq {"rank_only", "strict", "empirical", "absolute"}
    /\ SloMs \in Nat /\ TailPercent \in 0..100
    /\ Warmup \in Nat \ {0} /\ Window \in Nat /\ Window >= Warmup
    /\ Samples \subseteq Nat
    /\ \A f \in Fields : f \in Seq(Nat \cup {Blocked})

VARIABLES admission_mode, \* admission_mode, fixed when the scheduler is built
          recent_e2e,     \* deque of the latest e2e latencies, oldest first
          outstanding,    \* admitted requests that have not reported back
          stats           \* the AdmissionStats counters pick moves

gateVars == <<admission_mode, recent_e2e, outstanding, stats>>

Zero == [admitted |-> 0, rejected_slo |-> 0, rejected_vram |-> 0,
         rejected_no_worker |-> 0, rejected_slo_suppressed |-> 0,
         would_reject_absolute |-> 0, would_admit_absolute |-> 0,
         absolute_vs_active_disagree |-> 0]

Bit(b) == IF b THEN 1 ELSE 0

-----------------------------------------------------------------------------
(* _percentile, in hundredths: k = p / 100 * (n - 1) is 0-based, and a        *)
(* fractional k interpolates between its two neighbours.                      *)

\* Mutant: k is taken as 1-based.
PercentileOneLow(xs, p) ==
    LET n == Cardinality(DOMAIN xs)
        k == p * (n - 1)
        lo == SortedAt(xs, Max({1, k \div 100}))
        hi == IF k % 100 = 0 THEN lo ELSE SortedAt(xs, k \div 100 + 1)
    IN  IF n = 0 THEN 0 ELSE lo * (100 - (k % 100)) + hi * (k % 100)

Percentile(xs, p) ==
    LET n == Cardinality(DOMAIN xs)
        k == p * (n - 1)
        lo == SortedAt(xs, k \div 100 + 1)
        hi == IF k % 100 = 0 THEN lo ELSE SortedAt(xs, k \div 100 + 2)
    IN  IF n = 0 THEN 0 ELSE lo * (100 - (k % 100)) + hi * (k % 100)

-----------------------------------------------------------------------------
(* _should_reject_slo                                                      *)

\* The backends that are not blocked, and all_scores by backend: the gate does
\* not care for the order.
Candidates(field) == {i \in DOMAIN field : field[i] # Blocked}
Scores(field) == [i \in Candidates(field) |-> field[i]]
Best(field) == Min(Entries(Scores(field)))

\* The window is long enough and its tail is over the SLO.
TailOverSlo ==
    /\ Len(recent_e2e) >= Warmup
    /\ Percentile(recent_e2e, TailPercent) > 100 * SloMs

\* Mutant: the best candidate is held against the lowest quartile.
BestInLowQuartile(field) ==
    Cardinality(Candidates(field)) >= 2 => 100 * Best(field) >= Percentile(Scores(field), 25)

\* The best candidate is no better than three quarters of the field; a field
\* of one has nothing to compare with.
WorstQuartile(field) ==
    Cardinality(Candidates(field)) >= 2 => 100 * Best(field) >= Percentile(Scores(field), 75)

Rejects(field) ==
    \/ admission_mode = "strict" /\ TailOverSlo
    \/ admission_mode = "empirical" /\ TailOverSlo /\ WorstQuartile(field)
    \/ admission_mode = "absolute" /\ Best(field) > SloMs

\* The tail is over budget and the request is let through all the same.
Suppressed(field) == admission_mode = "empirical" /\ TailOverSlo /\ ~WorstQuartile(field)

-----------------------------------------------------------------------------
(* The counters that pick moves once the ranking has a best candidate.        *)

\* Mutant: a suppressed rejection is counted as a rejection too.
SuppressedIsRejected(field) ==
    LET absolute == Best(field) > SloMs
    IN  [stats EXCEPT !.would_reject_absolute = @ + Bit(absolute),
                      !.would_admit_absolute = @ + Bit(~absolute),
                      !.absolute_vs_active_disagree = @ + Bit(absolute # Rejects(field)),
                      !.rejected_slo_suppressed = @ + Bit(Suppressed(field)),
                      !.rejected_slo = @ + Bit(Rejects(field) \/ Suppressed(field)),
                      !.admitted = @ + Bit(~Rejects(field))]

Decided(field) ==
    LET absolute == Best(field) > SloMs
    IN  [stats EXCEPT !.would_reject_absolute = @ + Bit(absolute),
                      !.would_admit_absolute = @ + Bit(~absolute),
                      !.absolute_vs_active_disagree = @ + Bit(absolute # Rejects(field)),
                      !.rejected_slo_suppressed = @ + Bit(Suppressed(field)),
                      !.rejected_slo = @ + Bit(Rejects(field)),
                      !.admitted = @ + Bit(~Rejects(field))]

Decisions == stats.admitted + stats.rejected_slo + stats.rejected_no_worker

-----------------------------------------------------------------------------
GateInit ==
    /\ admission_mode \in AdmissionModes
    /\ recent_e2e = <<>>
    /\ outstanding = 0
    /\ stats = Zero

\* pick finds a best candidate; the gate admits or sheds the request.
Decide(field) ==
    /\ Decisions < MaxDecisions
    /\ Candidates(field) # {}
    /\ outstanding < MaxOutstanding
    /\ outstanding' = outstanding + Bit(~Rejects(field))
    /\ stats' = Decided(field)
    /\ UNCHANGED <<admission_mode, recent_e2e>>

\* pick finds none.  The code counts rejected_vram when any_candidate is set,
\* but then it has a best one too.
NoFeasible(field) ==
    LET anyCandidate == Candidates(field) # {}
    IN  /\ Decisions < MaxDecisions
        /\ Candidates(field) = {}
        /\ stats' = IF anyCandidate THEN [stats EXCEPT !.rejected_vram = @ + 1]
                                    ELSE [stats EXCEPT !.rejected_no_worker = @ + 1]
        /\ UNCHANGED <<admission_mode, recent_e2e, outstanding>>

\* feedback of a success: the latency enters the window.
Completed(e2e) ==
    /\ outstanding > 0
    /\ outstanding' = outstanding - 1
    /\ recent_e2e' = Append(IF Len(recent_e2e) < Window THEN recent_e2e
                                                        ELSE Tail(recent_e2e), e2e)
    /\ UNCHANGED <<admission_mode, stats>>

\* release, or feedback of a failure: no sample.
Dropped ==
    /\ outstanding > 0
    /\ outstanding' = outstanding - 1
    /\ UNCHANGED <<admission_mode, recent_e2e, stats>>

\* reset_stats leaves the window alone.
ResetCounters ==
    /\ stats' = Zero
    /\ UNCHANGED <<admission_mode, recent_e2e, outstanding>>

GateNext ==
    \/ \E field \in Fields : Decide(field) \/ NoFeasible(field)
    \/ \E e2e \in Samples : Completed(e2e)
    \/ Dropped
    \/ ResetCounters

GateSpec == GateInit /\ [][GateNext]_gateVars

-----------------------------------------------------------------------------
(* Properties.                                                             *)

\* The paper's admission table adds up, in every mode: each gated request is
\* admitted or shed and has one absolute verdict; the two verdicts disagree as
\* often as counted, never in absolute mode; only admissions are suppressed
\* rejections, and only in empirical mode.
DecisionsAddUp ==
    LET gated == stats.admitted + stats.rejected_slo
        either == stats.rejected_slo + stats.would_reject_absolute
        split == stats.absolute_vs_active_disagree
    IN  /\ stats.would_reject_absolute + stats.would_admit_absolute = gated
        /\ split <= either /\ (either - split) % 2 = 0
        /\ (either - split) \div 2 <= Min({stats.rejected_slo, stats.would_reject_absolute})
        /\ stats.rejected_slo_suppressed <= stats.admitted
        /\ stats.rejected_slo_suppressed > 0 => admission_mode = "empirical"
        /\ admission_mode = "absolute" => split = 0
        /\ admission_mode = "rank_only" => stats.rejected_slo = 0

\* The empirical gate sheds a request only if completed requests really missed
\* the SLO and the field is saturated: at least three quarters of the feasible
\* backends cost exactly as much as the best one.
ShedIsJustified ==
    admission_mode = "empirical" =>
        \A field \in Fields : Candidates(field) # {} /\ Rejects(field) =>
            LET tied == {i \in Candidates(field) : field[i] = Best(field)}
            IN  /\ \E i \in DOMAIN recent_e2e : recent_e2e[i] > SloMs
                /\ 4 * Cardinality(tied) >= 3 * Cardinality(Candidates(field))

\* The contract of strict mode, counted rather than interpolated: while it
\* admits, at most the share of the window above TailPercent missed the SLO.
StrictHoldsTheTail ==
    LET n == Len(recent_e2e)
        misses == {i \in DOMAIN recent_e2e : recent_e2e[i] > SloMs}
    IN  admission_mode = "strict" /\ n >= Warmup =>
            \A field \in Fields : Candidates(field) # {} /\ ~Rejects(field) =>
                Cardinality(misses) <= (n - 1) - (TailPercent * (n - 1)) \div 100

-----------------------------------------------------------------------------
(* What the documentation says and the code does not do.                    *)

\* README.md: "`503` + an honest `Retry-After`".  With nothing in flight no
\* sample can arrive any more, so a gate that sheds every request then sheds
\* every retry as well.
RetryCanSucceed ==
    outstanding = 0 =>
        \E field \in Fields : Candidates(field) # {} /\ ~Rejects(field)

=============================================================================
