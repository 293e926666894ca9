-------------------------------- MODULE Manager --------------------------------
(***************************************************************************)
(* The Go control plane under DIO/: the manager's gRPC server (main.go), its  *)
(* scheduler (loadbalancer.go, cost.go), its registry file (boltdb.go) and    *)
(* its autoscaler.  A worker's estimate is the one number its predictor       *)
(* would return; a sample may move it.  Go visits a map in random order, so   *)
(* RoundRobin and Session, which index into such a visit, may pick anyone.    *)
(***************************************************************************)
EXTENDS Integers, FiniteSets, FiniteSetsExt

CONSTANTS Workers,
          Requests,
          Profile,      \* [Requests -> [tier, long, front]]
          TierOf,       \* [Workers -> {"small", "large"}]
          Strategies,
          Latencies,    \* what a worker may report, in ms
          InitialMs,    \* the estimate of a fresh predictor
          SloMs, BatchSize, TierMismatchMs, CacheBonusMs,
          VRAMHardLimitMB, VRAMSoftLimitMB, DefaultVRAMMB,
          ScaleAbove,   \* queue per worker above which the autoscaler spawns
          Threshold,    \* workers below which it spawns
          NoWorker,
          MaxRestarts   \* bound: crashes of the manager

\* What the scheduler keeps of a worker: PendingTasks, LastKnownVRAM, and of its
\* predictors the VRAM it registered with, the estimate and the average.
WorkerState == [pending : Nat, vram : Nat, total : Nat, est : Nat, avg : Nat]

ASSUME ManagerAssumption ==
    /\ IsFiniteSet(Requests)
    /\ InitialMs \in Nat /\ Latencies \subseteq Nat /\ DefaultVRAMMB \in Nat
    /\ NoWorker \notin WorkerState

VARIABLES up,           \* the manager runs
          strategy,
          workers,      \* [Workers -> WorkerState, or NoWorker]
          store,        \* workers in dio_registry.db
          prefixCache,  \* [Requests -> the worker that served it last, or NoWorker]
          admission,    \* counters of AdmissionStats
          call,         \* [Requests -> [st, w, reply]]
          cooldown,     \* the last spawn is less than 30 s ago
          restarts,
          writable,     \* the registry file can be written
          forgotten,    \* [Workers -> calls out at the last registration]
          abandoned     \* [Workers -> calls given up since then without a call]

managerVars == <<up, strategy, workers, store, prefixCache, admission, call, cooldown, restarts,
                 writable, forgotten, abandoned>>

Known == {w \in Workers : workers[w] # NoWorker}
Out(r) == call[r].st \in {"picked", "calling"}
InFlight(w) == {r \in Requests : Out(r) /\ call[r].w = w}
NoCounts == [admitted |-> 0, slo |-> 0, vram |-> 0, no_worker |-> 0]
Idle == [st |-> "idle", w |-> NoWorker, reply |-> "none"]

-----------------------------------------------------------------------------
(* computeWorkerScore and the strategies of PickBestWorker.                 *)

Predictive == strategy \in {"NLMS", "RLS", "STATIC"}

\* Estimate is infinite, or the hard VRAM check or the tier check says no.
Blocked(r, w) ==
    \/ Profile[r].long /\ workers[w].vram > 0 /\ workers[w].vram < VRAMHardLimitMB
    \/ Profile[r].tier = "large" /\ TierOf[w] # "large"

Score(r, w) ==
    LET s == workers[w]
        task == IF s.avg = 0 THEN s.est ELSE s.avg
    IN  s.est + (s.pending * task) \div BatchSize
        + (IF Profile[r].tier = "small" /\ TierOf[w] = "large" THEN TierMismatchMs ELSE 0)
        + (IF s.total > 0 /\ s.vram < VRAMSoftLimitMB
           THEN (1000 * (s.total - s.vram)) \div s.total ELSE 0)
        - (IF prefixCache[r] = w THEN CacheBonusMs ELSE 0)

Least(set, f(_)) == {w \in set : \A v \in set : f(w) <= f(v)}

\* IsHealthy is set at registration and nothing clears it.
Best(r) ==
    CASE strategy \in {"RoundRobin", "Session"} -> Known
      [] strategy = "LeastLoaded" -> Least(Known, LAMBDA w : workers[w].pending)
      [] strategy = "LatencyBased" -> Least(Known, LAMBDA w : workers[w].avg)
      [] OTHER -> Least({w \in Known : ~Blocked(r, w)}, LAMBDA w : Score(r, w))

\* writeHTTPError knows an admission error by its gRPC code; the OpenAI
\* handler looks for the Go type, which a gRPC client never returns.
ErrorReply(r, admissionError) ==
    IF admissionError /\ Profile[r].front = "generate" THEN "503" ELSE "500"

\* ExecuteInference up to GetWorker.
PickBestWorker(r) ==
    /\ up /\ call[r].st = "idle"
    /\ IF Best(r) = {}
       THEN /\ admission' = IF strategy = "RoundRobin" THEN admission
                            ELSE [admission EXCEPT !.no_worker = @ + 1]
            /\ call' = [call EXCEPT ![r] = [st |-> "done", w |-> NoWorker, reply |-> ErrorReply(r, FALSE)]]
            /\ UNCHANGED <<workers, prefixCache>>
       ELSE \E w \in Best(r) :
              IF Predictive /\ Score(r, w) > SloMs
              THEN /\ admission' = [admission EXCEPT !.slo = @ + 1]
                   /\ call' = [call EXCEPT ![r] = [st |-> "done", w |-> NoWorker, reply |-> ErrorReply(r, TRUE)]]
                   /\ UNCHANGED <<workers, prefixCache>>
              ELSE /\ workers' = [workers EXCEPT ![w].pending = @ + 1]
                   /\ prefixCache' = [prefixCache EXCEPT ![r] = w]
                   /\ admission' = [admission EXCEPT !.admitted = @ + 1]
                   /\ call' = [call EXCEPT ![r] = [st |-> "picked", w |-> w, reply |-> "none"]]
    /\ UNCHANGED <<up, strategy, store, cooldown, restarts, writable, forgotten, abandoned>>

\* GetWorker and grpc.NewClient: the worker is called, or the request is given
\* up and no feedback takes it off the queue.
Dials(r) ==
    /\ call[r].st = "picked"
    /\ call' = [call EXCEPT ![r].st = "calling"]
    /\ UNCHANGED <<up, strategy, workers, store, prefixCache, admission, cooldown, restarts,
                   writable, forgotten, abandoned>>

DialFails(r) ==
    /\ call[r].st = "picked"
    /\ call' = [call EXCEPT ![r] = [@ EXCEPT !.st = "done", !.reply = ErrorReply(r, FALSE)]]
    /\ abandoned' = [abandoned EXCEPT ![call[r].w] = @ + 1]
    /\ UNCHANGED <<up, strategy, workers, store, prefixCache, admission, cooldown, restarts,
                   writable, forgotten>>

-----------------------------------------------------------------------------
(* FeedbackLoop                                                            *)

\* Mutant: a failed call keeps its place in the queue.
KeepsFailedPending(s, ok) == IF ok /\ s.pending > 0 THEN s.pending - 1 ELSE s.pending

PendingAfter(s, ok) == IF s.pending > 0 THEN s.pending - 1 ELSE s.pending

\* The sample moves the estimate or not; STATIC only averages.
Estimates(s, latency) == IF strategy = "STATIC" THEN {s.est} ELSE {s.est, latency}

Returned(r, reply) ==
    /\ call' = [call EXCEPT ![r] = [@ EXCEPT !.st = "done", !.reply = reply]]
    /\ UNCHANGED <<up, strategy, store, prefixCache, admission, cooldown, restarts, writable,
                   forgotten, abandoned>>

\* The worker answered, with text or with the text of an error.
CallReturns(r, latency) ==
    /\ call[r].st = "calling"
    /\ \E e \in Estimates(workers[call[r].w], latency) :
          workers' = [workers EXCEPT ![call[r].w] =
                        [pending |-> PendingAfter(@, TRUE), vram |-> @.vram, total |-> @.total,
                         est |-> e, avg |-> latency]]
    /\ Returned(r, "200")

\* Predict fails: the worker is gone, a deadline passed or the caller left.
CallFails(r) ==
    /\ call[r].st = "calling"
    /\ workers' = [workers EXCEPT ![call[r].w].pending = PendingAfter(workers[call[r].w], FALSE)]
    /\ Returned(r, ErrorReply(r, FALSE))

-----------------------------------------------------------------------------
(* Registration, the registry file, restarts.                               *)

\* A free VRAM of zero is taken for an absent field, and no VRAM for a default;
\* both are taken for megabytes.
VramOf(reg) == IF reg.free > 0 THEN reg.free ELSE IF reg.vram > 0 THEN reg.vram ELSE DefaultVRAMMB

\* A registration replaces the worker and its predictors.
Fresh(reg) == [pending |-> 0, vram |-> VramOf(reg), total |-> VramOf(reg), est |-> InitialMs, avg |-> 0]

\* The file first; the scheduler is told only when that was written.
RegisterWorker(w, reg) ==
    /\ up
    /\ IF writable
       THEN /\ store' = store \cup {w}
            /\ workers' = [workers EXCEPT ![w] = Fresh(reg)]
            /\ forgotten' = [forgotten EXCEPT ![w] = Cardinality(InFlight(w))]
            /\ abandoned' = [abandoned EXCEPT ![w] = 0]
       ELSE UNCHANGED <<store, workers, forgotten, abandoned>>
    /\ UNCHANGED <<up, strategy, prefixCache, admission, call, cooldown, restarts, writable>>

\* The disk under the registry file fills up or is freed: SaveWorker fails or not.
DiskChanges ==
    /\ writable' = ~writable
    /\ UNCHANGED <<up, strategy, workers, store, prefixCache, admission, call, cooldown, restarts,
                   forgotten, abandoned>>

\* /debug/reset_worker and /debug/chaos/vram.
ResetWorkerState(w) ==
    /\ up /\ w \in Known
    /\ workers' = [workers EXCEPT ![w].est = InitialMs]
    /\ UNCHANGED <<up, strategy, store, prefixCache, admission, call, cooldown, restarts,
                   writable, forgotten, abandoned>>

SetWorkerVRAM(w, free) ==
    /\ up /\ w \in Known
    /\ workers' = [workers EXCEPT ![w].vram = free]
    /\ UNCHANGED <<up, strategy, store, prefixCache, admission, call, cooldown, restarts,
                   writable, forgotten, abandoned>>

\* The process ends with everything but the file.
Crash ==
    /\ up /\ restarts < MaxRestarts
    /\ up' = FALSE /\ restarts' = restarts + 1
    /\ workers' = [w \in Workers |-> NoWorker]
    /\ prefixCache' = [r \in Requests |-> NoWorker]
    /\ admission' = NoCounts
    /\ call' = [r \in Requests |-> IF Out(r)
                                   THEN [call[r] EXCEPT !.st = "done", !.reply = "lost"] ELSE call[r]]
    /\ forgotten' = [w \in Workers |-> 0]
    /\ abandoned' = [w \in Workers |-> 0]
    /\ cooldown' = FALSE
    /\ UNCHANGED <<strategy, store, writable>>

\* main opens the file and starts with an empty scheduler.
Restart ==
    /\ ~up /\ up' = TRUE
    /\ UNCHANGED <<strategy, workers, store, prefixCache, admission, call, cooldown, restarts,
                   writable, forgotten, abandoned>>

-----------------------------------------------------------------------------
(* StartAutoscaler                                                         *)

QueueDepth == FoldSet(LAMBDA w, n : n + workers[w].pending, 0, Known)
ScaleUp == QueueDepth > ScaleAbove * Cardinality(Known) \/ Cardinality(Known) < Threshold

Cooled ==
    /\ cooldown /\ cooldown' = FALSE
    /\ UNCHANGED <<up, strategy, workers, store, prefixCache, admission, call, restarts,
                   writable, forgotten, abandoned>>

-----------------------------------------------------------------------------
ManagerInit ==
    /\ up = TRUE /\ strategy \in Strategies
    /\ workers = [w \in Workers |-> NoWorker]
    /\ store = {}
    /\ prefixCache = [r \in Requests |-> NoWorker]
    /\ admission = NoCounts
    /\ call = [r \in Requests |-> Idle]
    /\ cooldown = FALSE /\ restarts = 0
    /\ writable = TRUE
    /\ forgotten = [w \in Workers |-> 0]
    /\ abandoned = [w \in Workers |-> 0]

=============================================================================
