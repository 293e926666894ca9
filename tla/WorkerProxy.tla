------------------------------ MODULE WorkerProxy ------------------------------
(***************************************************************************)
(* The workers of the control plane: vllm_launcher.py and worker_proxy.py     *)
(* for a vLLM engine, python_worker/model_server.py for the others.  Each     *)
(* registers with the manager of module Manager; a vLLM proxy goes on doing   *)
(* so as its heartbeat, a Python worker registers once.                      *)
(***************************************************************************)
EXTENDS Manager

CONSTANTS Vllm,          \* workers that are vLLM proxies
          FreeMB,        \* what NVML may report as free
          TotalMB,
          WorkerVramGB,  \* WORKER_VRAM_GB of a Python worker
          MaxAttempts    \* registrations before a proxy goes on without one

ASSUME WorkersAssumption ==
    /\ Vllm \subseteq Workers /\ MaxAttempts \in Nat \ {0}
    /\ FreeMB \subseteq Nat /\ TotalMB \in Nat /\ WorkerVramGB \in Nat

VARIABLES engine,        \* [Vllm -> off, loading, ready]
          proxy,         \* [Workers -> off, waiting, registering, up, hung]
          attempts       \* [Workers -> failed registrations]

workerVars == <<engine, proxy, attempts>>
vars == <<managerVars, workerVars>>

-----------------------------------------------------------------------------
(* vllm_launcher.py                                                        *)

Launch(w) ==
    /\ engine[w] = "off"
    /\ engine' = [engine EXCEPT ![w] = "loading"]
    /\ UNCHANGED <<managerVars, proxy, attempts>>

\* wait_for_vllm_ready sees /v1/models answer.
EngineReady(w) ==
    /\ engine[w] = "loading"
    /\ engine' = [engine EXCEPT ![w] = "ready"]
    /\ UNCHANGED <<managerVars, proxy, attempts>>

\* The wait times out and the process is terminated, or it ends by itself or on a signal.
EngineEnds(w) ==
    /\ engine[w] # "off"
    /\ engine' = [engine EXCEPT ![w] = "off"]
    /\ UNCHANGED <<managerVars, proxy, attempts>>

-----------------------------------------------------------------------------
(* worker_proxy.py                                                         *)

ProxyStarts(w) ==
    /\ proxy[w] = "off"
    /\ proxy' = [proxy EXCEPT ![w] = "waiting"]
    /\ attempts' = [attempts EXCEPT ![w] = 0]
    /\ UNCHANGED <<managerVars, engine>>

\* wait_for_vllm: health_check answers, or sys.exit(1).
WaitEnds(w) ==
    /\ proxy[w] = "waiting"
    /\ proxy' = [proxy EXCEPT ![w] = IF engine[w] = "ready" THEN "registering" ELSE "off"]
    /\ UNCHANGED <<managerVars, engine, attempts>>

\* register_with_manager: total VRAM, then up; or one more failed attempt, the
\* last of which leaves the rest to the heartbeats.
Registers(w, free) ==
    /\ proxy[w] = "registering"
    /\ RegisterWorker(w, [free |-> free, vram |-> TotalMB])
    /\ IF writable THEN proxy' = [proxy EXCEPT ![w] = "up"] /\ UNCHANGED attempts
       ELSE /\ attempts' = [attempts EXCEPT ![w] = @ + 1]
            /\ proxy' = [proxy EXCEPT ![w] = IF attempts'[w] = MaxAttempts THEN "up" ELSE @]
    /\ UNCHANGED engine

AttemptFails(w) ==
    /\ proxy[w] = "registering" /\ ~up
    /\ attempts' = [attempts EXCEPT ![w] = @ + 1]
    /\ proxy' = [proxy EXCEPT ![w] = IF attempts'[w] = MaxAttempts THEN "up" ELSE @]
    /\ UNCHANGED <<managerVars, engine>>

\* Mutant: a failed registration ends the thread, so only a worker that is known
\* has a heartbeat.
BeatsWhileKnown(w, free) ==
    /\ proxy[w] = "up" /\ w \in Known
    /\ RegisterWorker(w, [free |-> free, vram |-> free])
    /\ UNCHANGED workerVars

\* heartbeat_loop: registers again every 30 s, with the free VRAM in both
\* fields; a failure is swallowed.
Heartbeat(w, free) ==
    /\ proxy[w] = "up"
    /\ RegisterWorker(w, [free |-> free, vram |-> free])
    /\ UNCHANGED workerVars

\* The call has no deadline: its thread may wait for an answer, for ever if the
\* connection is not closed, while the proxy goes on serving.
HeartbeatHangs(w) ==
    /\ proxy[w] = "up"
    /\ proxy' = [proxy EXCEPT ![w] = "hung"]
    /\ UNCHANGED <<managerVars, engine, attempts>>

HangEnds(w) ==
    /\ proxy[w] = "hung"
    /\ proxy' = [proxy EXCEPT ![w] = "up"]
    /\ UNCHANGED <<managerVars, engine, attempts>>

\* Predict: what the engine said, or "ERROR: ..." with the time that took.
Predict(r, latency) ==
    /\ call[r].st = "calling" /\ proxy[call[r].w] \in {"registering", "up", "hung"}
    /\ CallReturns(r, latency)
    /\ UNCHANGED workerVars

Fails(r) == CallFails(r) /\ UNCHANGED workerVars

ProxyStops(w) ==
    /\ proxy[w] # "off"
    /\ proxy' = [proxy EXCEPT ![w] = "off"]
    /\ UNCHANGED <<managerVars, engine, attempts>>

-----------------------------------------------------------------------------
(* model_server.py, started by hand or by the autoscaler.                   *)

Python == Workers \ Vllm

\* serve(): registers once and goes on whatever came of it.  It sends gigabytes
\* in the field the manager reads as megabytes.
ServeWorker(w) ==
    /\ proxy' = [proxy EXCEPT ![w] = "up"]
    /\ IF up THEN RegisterWorker(w, [free |-> 0, vram |-> WorkerVramGB]) ELSE UNCHANGED managerVars
    /\ UNCHANGED <<engine, attempts>>

ModelLoaded(w) == proxy[w] = "waiting"

\* SpawnWorker: a container whose worker loads its model before it registers.
Spawn(w) ==
    /\ up /\ ScaleUp /\ ~cooldown
    /\ proxy[w] = "off"
    /\ proxy' = [proxy EXCEPT ![w] = "waiting"]
    /\ cooldown' = TRUE
    /\ UNCHANGED <<up, strategy, workers, store, prefixCache, admission, call, restarts, writable,
                   forgotten, abandoned, engine, attempts>>

-----------------------------------------------------------------------------
Init ==
    /\ ManagerInit
    /\ engine = [w \in Vllm |-> "off"]
    /\ proxy = [w \in Workers |-> "off"]
    /\ attempts = [w \in Workers |-> 0]

ManagerStep ==
    \/ \E r \in Requests : PickBestWorker(r) \/ Dials(r) \/ DialFails(r)
    \/ Crash \/ Restart \/ Cooled \/ DiskChanges
    \/ \E w \in Workers : ResetWorkerState(w) \/ (\E free \in FreeMB : SetWorkerVRAM(w, free))

VllmStep(w) ==
    \/ Launch(w) \/ EngineReady(w) \/ EngineEnds(w)
    \/ ProxyStarts(w) \/ WaitEnds(w) \/ AttemptFails(w)
    \/ HeartbeatHangs(w) \/ HangEnds(w)
    \/ \E free \in FreeMB : Heartbeat(w, free) \/ Registers(w, free)

PythonStep(w) == Spawn(w) \/ (ModelLoaded(w) /\ ServeWorker(w))

Next ==
    \/ ManagerStep /\ UNCHANGED workerVars
    \/ \E w \in Vllm : VllmStep(w)
    \/ \E w \in Python : PythonStep(w)
    \/ \E w \in Workers : ProxyStops(w)
    \/ \E r \in Requests : Fails(r) \/ (\E latency \in Latencies : Predict(r, latency))

\* The heartbeat thread of a proxy goes on.  Nothing restarts a manager, frees a
\* disk or ends a call that hangs: those are premises of the property.
Fairness == \A w \in Vllm : WF_vars(\E free \in FreeMB : Heartbeat(w, free))

Spec == Init /\ [][Next]_vars /\ Fairness

-----------------------------------------------------------------------------
(* Properties.                                                             *)

\* How far the queue the scheduler counts is from the calls that are out.  It is
\* shorter only by calls a registration forgot: PendingTasks starts from zero
\* with every heartbeat, and the calls that were out then come back into a
\* count that no longer holds them.  It is longer only by requests given up
\* between the pick and the call, which no feedback takes off it.
QueueErrorIsBounded ==
    \A w \in Known : /\ workers[w].pending <= Cardinality(InFlight(w)) + abandoned[w]
                     /\ Cardinality(InFlight(w)) - workers[w].pending <= forgotten[w]

\* Whatever happened before - crashes of the manager, registrations and
\* heartbeats that were refused or hung, a proxy that went on unregistered - the
\* heartbeat alone brings a proxy back: once the manager stays up with a disk it
\* can write and the proxy's calls return, the scheduler comes to know it for good.
ProxiesReturn ==
    \A w \in Vllm : <>[](up /\ writable /\ proxy[w] = "up") => <>[](w \in Known)

=============================================================================
