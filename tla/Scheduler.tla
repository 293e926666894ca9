------------------------------ MODULE Scheduler ------------------------------
(***************************************************************************)
(* The shared state of dio-serve/src/dio/scheduler.py, class Scheduler, and  *)
(* its methods.  Every method takes self._lock, so each is one atomic step;  *)
(* the methods below are action formulas over the variables they assign, and *)
(* module Gateway conjoins the ones a coroutine calls between two awaits.    *)
(*                                                                         *)
(* Data abstracted here: latencies (an e2e sample is "under" or "over" the   *)
(* SLO), the learned cost model and the score (pick may return any feasible  *)
(* backend; module Ranking has the cost, module Admission the SLO gate).     *)
(***************************************************************************)
EXTENDS Naturals, Sequences

CONSTANTS Backends,       \* backend ids the operator may ever register
          FailThreshold,  \* note_failure's threshold, 3 in the code
          InflightCap,    \* maxlen of inflight_log, 1024 in the code
          MaxGeneration,  \* bound: registrations per backend id
          MaxResets       \* bound: calls of POST /debug/reset_stats

ASSUME SchedulerAssumption ==
    /\ FailThreshold \in Nat \ {0}
    /\ InflightCap \in Nat \ {0}
    /\ MaxGeneration \in Nat \ {0}
    /\ MaxResets \in Nat

VARIABLES pending,       \* [b |-> DualTimescaleNLMS.pending]
          inflight_log,  \* [b |-> DualTimescaleNLMS.inflight_log], oldest first
          peak,          \* [b |-> history: the most pending at once since it was registered]
          healthy,       \* [b |-> DualTimescaleNLMS.healthy]
          fail_streak,   \* [b |-> Scheduler._fail_streak, 0 when absent]
          generation,    \* [b |-> how many predictor objects b has had]
          admission,     \* Scheduler.admission, the AdmissionStats counters
          resets         \* how often admission was replaced by a fresh object

schedVars ==
    <<pending, inflight_log, peak, healthy, fail_streak, generation, admission, resets>>

-----------------------------------------------------------------------------
(* AdmissionStats: the counters the lifecycle of a request moves.           *)

Counters == {"admitted", "rejected_slo", "rejected_no_worker",
             "completed_under_slo", "completed_over_slo",
             "completed_total", "failed_total"}

AdmissionStats == [c \in Counters |-> 0]

\* += 1 on each counter of the set cs.
Count(cs) == admission' = [c \in Counters |->
                             IF c \in cs THEN admission[c] + 1 ELSE admission[c]]

Registered(b) == generation[b] > 0

\* ids in pick: the healthy registered backends.
HealthyIds == {b \in Backends : Registered(b) /\ healthy[b]}

\* Mutant: the bound is off by one.
DropsAtLastPlace(q, x) ==
    IF Len(q) + 1 < InflightCap \/ q = <<>> THEN Append(q, x) ELSE Append(Tail(q), x)

\* deque(maxlen = InflightCap).append: a full deque drops its oldest entry.
DequeAppend(q, x) ==
    IF Len(q) < InflightCap THEN Append(q, x) ELSE Append(Tail(q), x)

\* Mutant: the guard is dropped.
UnguardedDecrement(n) == n - 1

\* A decrement guarded by pending > 0, as in release and feedback.
Decremented(n) == IF n > 0 THEN n - 1 ELSE n

-----------------------------------------------------------------------------
(* The methods.                                                            *)

SchedInit ==
    /\ generation \in [Backends -> {0, 1}]
    /\ pending = [b \in Backends |-> 0]
    /\ inflight_log = [b \in Backends |-> <<>>]
    /\ peak = [b \in Backends |-> 0]
    /\ healthy = [b \in Backends |-> Registered(b)]
    /\ fail_streak = [b \in Backends |-> 0]
    /\ admission = AdmissionStats
    /\ resets = 0

MarkAdmitted(b) ==
    /\ pending' = [pending EXCEPT ![b] = @ + 1]
    /\ inflight_log' = [inflight_log EXCEPT ![b] = DequeAppend(@, pending[b] + 1)]
    /\ peak' = [peak EXCEPT ![b] = IF @ < pending[b] + 1 THEN pending[b] + 1 ELSE @]

\* pick, restricted to allowed, returns b: b is healthy and not hard-blocked.
PickReturns(allowed, b) ==
    /\ b \in HealthyIds \cap allowed
    /\ MarkAdmitted(b)
    /\ Count({"admitted"})
    /\ UNCHANGED <<healthy, fail_streak, generation, resets>>

\* pick raises AdmissionError: the pool is empty, every healthy backend is
\* hard-blocked for this request (both counted as rejected_no_worker), or the
\* SLO gate sheds it, which takes at least one candidate.
PickRaises(allowed) ==
    /\ \/ Count({"rejected_no_worker"})
       \/ HealthyIds \cap allowed # {} /\ Count({"rejected_slo"})
    /\ UNCHANGED <<pending, inflight_log, peak, healthy, fail_streak, generation, resets>>

\* release returns the slot and leaves inflight_log as it is.
Release(b) ==
    /\ pending' = [pending EXCEPT ![b] = Decremented(@)]
    /\ UNCHANGED <<inflight_log, peak, healthy, fail_streak, generation, admission, resets>>

\* Mutant: the slot is returned a second time.
SlotClosedTwice(b) ==
    /\ inflight_log' = [inflight_log EXCEPT ![b] = IF @ = <<>> THEN @ ELSE Tail(@)]
    /\ pending' = [pending EXCEPT ![b] = Decremented(Decremented(@))]
    /\ UNCHANGED peak

\* What feedback does whatever the outcome: popleft, then return the slot.
CloseSlot(b) ==
    /\ inflight_log' = [inflight_log EXCEPT ![b] = IF @ = <<>> THEN @ ELSE Tail(@)]
    /\ pending' = [pending EXCEPT ![b] = Decremented(@)]
    /\ UNCHANGED peak

\* feedback(success=True): e2e_ms <= slo_ms decides between the two counters.
FeedbackSuccess(b, underSlo) ==
    /\ CloseSlot(b)
    /\ Count({"completed_total",
              IF underSlo THEN "completed_under_slo" ELSE "completed_over_slo"})
    /\ fail_streak' = [fail_streak EXCEPT ![b] = 0]
    /\ UNCHANGED <<healthy, generation, resets>>

\* feedback(success=False): moves neither fail_streak nor healthy, so that it
\* conjoins with note_failure.
FeedbackFailure(b) ==
    /\ CloseSlot(b)
    /\ Count({"failed_total"})
    /\ UNCHANGED <<generation, resets>>

\* Mutant: off by one, the breaker trips a failure early.
TripsEarly(b) ==
    LET streak == fail_streak[b] + 1
    IN  /\ fail_streak' = [fail_streak EXCEPT ![b] = streak]
        /\ healthy' = [healthy EXCEPT ![b] = @ /\ streak + 1 < FailThreshold]

\* note_failure: the third failure in a row takes b out of rotation.
NoteFailure(b) ==
    LET streak == fail_streak[b] + 1
    IN  /\ fail_streak' = [fail_streak EXCEPT ![b] = streak]
        /\ healthy' = [healthy EXCEPT ![b] = @ /\ streak < FailThreshold]

SetHealthy(b, ok) ==
    /\ healthy' = [healthy EXCEPT ![b] = ok]
    /\ fail_streak' = [fail_streak EXCEPT ![b] = IF ok THEN 0 ELSE @]
    /\ UNCHANGED <<pending, inflight_log, peak, generation, admission, resets>>

\* register puts a new predictor object under the id: nothing pending, an
\* empty log, healthy.  _fail_streak is keyed by the id and survives.
Register(b) ==
    /\ generation[b] < MaxGeneration
    /\ generation' = [generation EXCEPT ![b] = @ + 1]
    /\ pending' = [pending EXCEPT ![b] = 0]
    /\ inflight_log' = [inflight_log EXCEPT ![b] = <<>>]
    /\ peak' = [peak EXCEPT ![b] = 0]
    /\ healthy' = [healthy EXCEPT ![b] = TRUE]
    /\ UNCHANGED <<fail_streak, admission, resets>>

\* reset_stats: fresh counters and streaks; slots, logs and health survive.
ResetStats ==
    /\ resets < MaxResets
    /\ resets' = resets + 1
    /\ admission' = AdmissionStats
    /\ fail_streak' = [b \in Backends |-> 0]
    /\ UNCHANGED <<pending, inflight_log, peak, healthy, generation>>

-----------------------------------------------------------------------------
SchedTypeOK ==
    /\ pending \in [Backends -> Nat]
    /\ inflight_log \in [Backends -> Seq(Nat)]
    /\ peak \in [Backends -> Nat]
    /\ healthy \in [Backends -> BOOLEAN]
    /\ fail_streak \in [Backends -> Nat]
    /\ generation \in [Backends -> 0..MaxGeneration]
    /\ admission \in [Counters -> Nat]
    /\ resets \in 0..MaxResets

=============================================================================
