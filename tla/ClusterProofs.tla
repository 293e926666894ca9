----------------------------- MODULE ClusterProofs -----------------------------
(* PendingTasks of the Go scheduler: how far the queue it counts can be from  *)
(* the calls that are out, whatever heartbeats, crashes and errors come       *)
(* between them.                                                             *)
EXTENDS WorkerProxy, FiniteSetTheorems, TLAPS

CallState == [st : {"idle", "picked", "calling", "done"}, w : Workers \cup {NoWorker},
              reply : {"none", "200", "500", "503", "lost"}]

ClusterTypeOK ==
    /\ workers \in [Workers -> WorkerState \cup {NoWorker}]
    /\ call \in [Requests -> CallState]
    /\ forgotten \in [Workers -> Nat]
    /\ abandoned \in [Workers -> Nat]

\* A call is out only to a worker the scheduler knows: a registration replaces
\* a worker and never removes it, and a crash takes the calls with the workers.
CallsGoToKnown == \A r \in Requests : Out(r) => call[r].w \in Known

\* QueueErrorIsBounded is inductive only together with CallsGoToKnown: a call
\* that returns lowers the queue of its worker, so that worker must be there.
QueueInv == ClusterTypeOK /\ CallsGoToKnown /\ QueueErrorIsBounded

-----------------------------------------------------------------------------
(* What a step can do to the queues and to the calls.                       *)

Kept == UNCHANGED <<workers, call, forgotten, abandoned>>

\* A request is refused before it reaches a worker.
RefusedCall(r) ==
    /\ call[r].st = "idle"
    /\ \E reply \in {"500", "503"} :
          call' = [call EXCEPT ![r] = [st |-> "done", w |-> NoWorker, reply |-> reply]]
    /\ UNCHANGED <<workers, forgotten, abandoned>>

\* A request is taken for w.
OutgoingCall(r, w) ==
    /\ call[r].st = "idle" /\ w \in Known
    /\ workers' = [workers EXCEPT ![w].pending = @ + 1]
    /\ call' = [call EXCEPT ![r] = [st |-> "picked", w |-> w, reply |-> "none"]]
    /\ UNCHANGED <<forgotten, abandoned>>

\* A call comes back, with or without a sample.
IncomingCall(r) ==
    /\ call[r].st = "calling"
    /\ \E s \in WorkerState :
          /\ s.pending = PendingAfter(workers[call[r].w], TRUE)
          /\ workers' = [workers EXCEPT ![call[r].w] = s]
    /\ \E reply \in {"200", "500"} :
          call' = [call EXCEPT ![r] = [@ EXCEPT !.st = "done", !.reply = reply]]
    /\ UNCHANGED <<forgotten, abandoned>>

\* w is registered, for the first time or again.
Replaced(w) ==
    /\ \E s \in WorkerState : s.pending = 0 /\ workers' = [workers EXCEPT ![w] = s]
    /\ forgotten' = [forgotten EXCEPT ![w] = Cardinality(InFlight(w))]
    /\ abandoned' = [abandoned EXCEPT ![w] = 0]
    /\ UNCHANGED call

\* An operator changes what the scheduler believes of w, not its queue.
Adjusted(w) ==
    /\ w \in Known
    /\ \E s \in WorkerState : /\ s.pending = workers[w].pending
                              /\ workers' = [workers EXCEPT ![w] = s]
    /\ UNCHANGED <<call, forgotten, abandoned>>

\* Whichever strategy picks, it picks among the known workers.
LEMMA BestIsKnown == \A r \in Requests : Best(r) \subseteq Known
BY DEF Best, Least

\* What pick does is to refuse the request or to send it out.
LEMMA PickShape ==
    ASSUME NEW r \in Requests, PickBestWorker(r)
    PROVE  RefusedCall(r) \/ \E w \in Known : OutgoingCall(r, w)
<1>1. \A e \in BOOLEAN : ErrorReply(r, e) \in {"500", "503"}
  BY DEF ErrorReply
<1>2. CASE Best(r) = {}
  BY <1>1, <1>2 DEF PickBestWorker, RefusedCall
<1>3. CASE Best(r) # {}
  <2>1. PICK w \in Best(r) :
          \/ /\ call' = [call EXCEPT ![r] = [st |-> "done", w |-> NoWorker, reply |-> ErrorReply(r, TRUE)]]
             /\ UNCHANGED <<workers, prefixCache>>
          \/ /\ workers' = [workers EXCEPT ![w].pending = @ + 1]
             /\ call' = [call EXCEPT ![r] = [st |-> "picked", w |-> w, reply |-> "none"]]
    BY <1>3 DEF PickBestWorker
  <2> QED  BY <1>1, <2>1, BestIsKnown DEF PickBestWorker, RefusedCall, OutgoingCall
<1> QED  BY <1>2, <1>3

\* A registration that is saved replaces the worker; one that is not does nothing.
LEMMA RegisterShape ==
    ASSUME NEW w \in Workers, NEW free \in Nat, NEW vram \in Nat,
           RegisterWorker(w, [free |-> free, vram |-> vram])
    PROVE  Kept \/ Replaced(w)
<1>1. Fresh([free |-> free, vram |-> vram]) \in WorkerState
  BY ManagerAssumption DEF Fresh, VramOf, WorkerState
<1>2. Fresh([free |-> free, vram |-> vram]).pending = 0
  BY DEF Fresh
<1> QED  BY <1>1, <1>2 DEF RegisterWorker, Kept, Replaced

\* The scheduler's part of a call that comes back.
LEMMA ReturnShape ==
    ASSUME ClusterTypeOK, CallsGoToKnown, NEW r \in Requests,
           CallFails(r) \/ \E latency \in Latencies : CallReturns(r, latency)
    PROVE  IncomingCall(r)
<1> DEFINE old == workers[call[r].w]
<1>1. call[r].st = "calling" /\ call[r].w \in Workers /\ old \in WorkerState
  BY DEF CallFails, CallReturns, CallsGoToKnown, ClusterTypeOK, Known, Out
<1>2. PendingAfter(old, TRUE) \in Nat /\ PendingAfter(old, FALSE) = PendingAfter(old, TRUE)
  BY <1>1 DEF PendingAfter, WorkerState
<1>3. UNCHANGED <<forgotten, abandoned>>
  BY DEF CallFails, CallReturns, Returned
<1>4. ASSUME CallFails(r) PROVE IncomingCall(r)
  <2> DEFINE new == [old EXCEPT !.pending = PendingAfter(old, FALSE)]
  <2>1. new \in WorkerState /\ new.pending = PendingAfter(old, TRUE)
    BY <1>1, <1>2 DEF WorkerState
  <2>2. workers' = [workers EXCEPT ![call[r].w] = new]
    BY <1>4 DEF CallFails
  <2>3. /\ ErrorReply(r, FALSE) \in {"200", "500"}
        /\ call' = [call EXCEPT ![r] = [@ EXCEPT !.st = "done", !.reply = ErrorReply(r, FALSE)]]
    BY <1>4 DEF CallFails, Returned, ErrorReply
  <2> QED  BY <1>1, <1>3, <2>1, <2>2, <2>3 DEF IncomingCall
<1>5. ASSUME NEW latency \in Latencies, CallReturns(r, latency) PROVE IncomingCall(r)
  <2>1. PICK e \in Estimates(old, latency) :
           workers' = [workers EXCEPT ![call[r].w] =
                         [pending |-> PendingAfter(@, TRUE), vram |-> @.vram, total |-> @.total,
                          est |-> e, avg |-> latency]]
    BY <1>5 DEF CallReturns
  <2> DEFINE new == [pending |-> PendingAfter(old, TRUE), vram |-> old.vram, total |-> old.total,
                     est |-> e, avg |-> latency]
  <2>2. e \in Nat /\ latency \in Nat
    BY <1>1, ManagerAssumption DEF Estimates, WorkerState
  <2>3. new \in WorkerState /\ new.pending = PendingAfter(old, TRUE)
    BY <1>1, <1>2, <2>2 DEF WorkerState
  <2>4. workers' = [workers EXCEPT ![call[r].w] = new]
    BY <2>1
  <2>5. call' = [call EXCEPT ![r] = [@ EXCEPT !.st = "done", !.reply = "200"]]
    BY <1>5 DEF CallReturns, Returned
  <2> HIDE DEF new
  <2> QED  BY <1>1, <1>3, <2>3, <2>4, <2>5 DEF IncomingCall
<1> QED  BY <1>4, <1>5

\* Every step of the cluster has one of these shapes.
LEMMA StepShape ==
    ASSUME ClusterTypeOK, CallsGoToKnown, [Next]_vars
    PROVE  \/ Kept \/ Crash
           \/ \E r \in Requests : RefusedCall(r) \/ IncomingCall(r) \/ \E w \in Known : OutgoingCall(r, w)
           \/ \E r \in Requests : Dials(r) \/ DialFails(r)
           \/ \E w \in Workers : Replaced(w) \/ Adjusted(w)
<1>1. ASSUME ManagerStep
      PROVE  \/ Kept \/ Crash
             \/ \E r \in Requests : RefusedCall(r) \/ \E w \in Known : OutgoingCall(r, w)
             \/ \E r \in Requests : Dials(r) \/ DialFails(r)
             \/ \E w \in Workers : Adjusted(w)
  <2>1. ASSUME NEW w \in Workers, ResetWorkerState(w) PROVE Adjusted(w)
    <3> DEFINE new == [workers[w] EXCEPT !.est = InitialMs]
    <3>1. w \in Known /\ workers[w] \in WorkerState
      BY <2>1 DEF ResetWorkerState, Known, ClusterTypeOK
    <3>2. new \in WorkerState /\ new.pending = workers[w].pending
      BY <3>1, ManagerAssumption DEF WorkerState
    <3>3. workers' = [workers EXCEPT ![w] = new] /\ UNCHANGED <<call, forgotten, abandoned>>
      BY <2>1 DEF ResetWorkerState
    <3> HIDE DEF new
    <3> QED  BY <3>1, <3>2, <3>3 DEF Adjusted
  <2>2. ASSUME NEW w \in Workers, NEW free \in FreeMB, SetWorkerVRAM(w, free) PROVE Adjusted(w)
    <3> DEFINE new == [workers[w] EXCEPT !.vram = free]
    <3>1. w \in Known /\ workers[w] \in WorkerState /\ free \in Nat
      BY <2>2, WorkersAssumption DEF SetWorkerVRAM, Known, ClusterTypeOK
    <3>2. new \in WorkerState /\ new.pending = workers[w].pending
      BY <3>1 DEF WorkerState
    <3>3. workers' = [workers EXCEPT ![w] = new] /\ UNCHANGED <<call, forgotten, abandoned>>
      BY <2>2 DEF SetWorkerVRAM
    <3> HIDE DEF new
    <3> QED  BY <3>1, <3>2, <3>3 DEF Adjusted
  <2>3. ASSUME Restart \/ Cooled \/ DiskChanges PROVE Kept
    BY <2>3 DEF Restart, Cooled, DiskChanges, Kept
  <2> QED  BY <1>1, <2>1, <2>2, <2>3, PickShape DEF ManagerStep
<1>2. ASSUME NEW w \in Vllm, VllmStep(w) PROVE Kept \/ \E v \in Workers : Replaced(v)
  <2>1. w \in Workers /\ \A free \in FreeMB : free \in Nat
    BY WorkersAssumption
  <2>2. ASSUME NEW free \in FreeMB, Heartbeat(w, free) PROVE Kept \/ Replaced(w)
    BY <2>1, <2>2, RegisterShape DEF Heartbeat
  <2>3. ASSUME NEW free \in FreeMB, Registers(w, free)
        PROVE  Kept \/ Replaced(w)
    BY <2>1, <2>3, RegisterShape, WorkersAssumption DEF Registers
  <2>4. ASSUME \/ Launch(w) \/ EngineReady(w) \/ EngineEnds(w)
               \/ ProxyStarts(w) \/ WaitEnds(w) \/ AttemptFails(w)
               \/ HeartbeatHangs(w) \/ HangEnds(w)
        PROVE  Kept
    BY <2>4 DEF Launch, EngineReady, EngineEnds, ProxyStarts, WaitEnds, AttemptFails, HeartbeatHangs, HangEnds,
                managerVars, Kept
  <2> QED  BY <1>2, <2>1, <2>2, <2>3, <2>4 DEF VllmStep
<1>3. ASSUME NEW w \in Python, PythonStep(w) PROVE Kept \/ \E v \in Workers : Replaced(v)
  <2>1. w \in Workers
    BY DEF Python
  <2>2. ASSUME Spawn(w) PROVE Kept
    BY <2>2 DEF Spawn, Kept
  <2>3. ASSUME ServeWorker(w) PROVE Kept \/ Replaced(w)
    <3>1. CASE ~up
      BY <2>3, <3>1 DEF ServeWorker, managerVars, Kept
    <3>2. CASE up
      <4>1. 0 \in Nat /\ WorkerVramGB \in Nat
        BY WorkersAssumption
      <4>2. RegisterWorker(w, [free |-> 0, vram |-> WorkerVramGB])
        BY <2>3, <3>2 DEF ServeWorker
      <4> QED  BY <2>1, <4>1, <4>2, RegisterShape
    <3> QED  BY <3>1, <3>2
  <2> QED  BY <1>3, <2>1, <2>2, <2>3 DEF PythonStep
<1>4. ASSUME NEW w \in Workers, ProxyStops(w) PROVE Kept
  BY <1>4 DEF ProxyStops, managerVars, Kept
<1>5. ASSUME NEW r \in Requests, Fails(r) \/ (\E latency \in Latencies : Predict(r, latency))
      PROVE  IncomingCall(r)
  BY <1>5, ReturnShape DEF Fails, Predict
<1>6. ASSUME UNCHANGED vars PROVE Kept
  BY <1>6 DEF vars, managerVars, Kept
<1> QED  BY <1>1, <1>2, <1>3, <1>4, <1>5, <1>6 DEF Next

-----------------------------------------------------------------------------
(* The invariant.                                                          *)

\* The calls out to a worker can be counted.
LEMMA InFlightFinite == \A w : IsFiniteSet(InFlight(w)) /\ Cardinality(InFlight(w)) \in Nat
<1> SUFFICES ASSUME NEW w PROVE IsFiniteSet(InFlight(w)) /\ Cardinality(InFlight(w)) \in Nat
  OBVIOUS
<1>1. InFlight(w) \subseteq Requests
  BY DEF InFlight
<1> QED  BY <1>1, FS_Subset, FS_CardinalityType, ManagerAssumption

\* The types are kept, and calls are out to known workers only.
LEMMA ClusterTypeStep ==
    ClusterTypeOK /\ CallsGoToKnown /\ [Next]_vars => ClusterTypeOK' /\ CallsGoToKnown'
<1> SUFFICES ASSUME ClusterTypeOK, CallsGoToKnown, [Next]_vars
             PROVE  ClusterTypeOK' /\ CallsGoToKnown'
  OBVIOUS
<1> USE DEF ClusterTypeOK, CallsGoToKnown, Known, Out
<1>1. CASE Kept
  BY <1>1 DEF Kept
<1>2. CASE Crash
  <2>1. call' = [r \in Requests |-> IF Out(r)
                                    THEN [call[r] EXCEPT !.st = "done", !.reply = "lost"] ELSE call[r]]
    BY <1>2 DEF Crash
  <2>2. \A r \in Requests : call'[r] \in CallState /\ ~Out(r)'
    BY <2>1 DEF CallState
  <2>3. call' \in [Requests -> CallState]
    BY <2>1, <2>2
  <2>4. /\ workers' \in [Workers -> WorkerState \cup {NoWorker}]
        /\ forgotten' \in [Workers -> Nat] /\ abandoned' \in [Workers -> Nat]
    BY <1>2 DEF Crash
  <2> QED  BY <2>2, <2>3, <2>4
<1>3. ASSUME NEW r \in Requests, RefusedCall(r) PROVE ClusterTypeOK' /\ CallsGoToKnown'
  BY <1>3 DEF RefusedCall, CallState
<1>4. ASSUME NEW r \in Requests, IncomingCall(r) PROVE ClusterTypeOK' /\ CallsGoToKnown'
  <2>1. PICK s \in WorkerState : workers' = [workers EXCEPT ![call[r].w] = s]
    BY <1>4 DEF IncomingCall
  <2>2. PICK reply \in {"200", "500"} :
           call' = [call EXCEPT ![r] = [@ EXCEPT !.st = "done", !.reply = reply]]
    BY <1>4 DEF IncomingCall
  <2>3. /\ call' \in [Requests -> CallState]
        /\ call'[r].st = "done" /\ \A q \in Requests \ {r} : call'[q] = call[q]
    <3> DEFINE new == [call[r] EXCEPT !.st = "done", !.reply = reply]
    <3>1. new \in CallState /\ new.st = "done"
      BY DEF CallState
    <3>2. call \in [Requests -> CallState] /\ call' = [call EXCEPT ![r] = new]
      BY <2>2
    <3> HIDE DEF new, CallState
    <3> QED  BY ONLY r \in Requests, <3>1, <3>2
  <2>4. workers' \in [Workers -> WorkerState \cup {NoWorker}] /\ Known' = Known
    BY <1>4, <2>1, ManagerAssumption DEF IncomingCall
  <2> QED  BY <1>4, <2>3, <2>4 DEF IncomingCall
<1>5. ASSUME NEW r \in Requests, NEW w \in Known, OutgoingCall(r, w)
      PROVE  ClusterTypeOK' /\ CallsGoToKnown'
  <2> DEFINE new == [workers[w] EXCEPT !.pending = @ + 1]
  <2>1. workers[w] \in WorkerState /\ w \in Workers
    OBVIOUS
  <2>2. new \in WorkerState
    BY <2>1 DEF WorkerState
  <2>3. workers' = [workers EXCEPT ![w] = new]
    BY <1>5 DEF OutgoingCall
  <2> HIDE DEF new
  <2>4. workers' \in [Workers -> WorkerState \cup {NoWorker}] /\ Known' = Known
    BY <2>1, <2>2, <2>3, ManagerAssumption
  <2>5. /\ call' \in [Requests -> CallState]
        /\ call'[r].w = w /\ \A q \in Requests \ {r} : call'[q] = call[q]
    BY <1>5, <2>1 DEF OutgoingCall, CallState
  <2> QED  BY <1>5, <2>4, <2>5 DEF OutgoingCall
<1>6. ASSUME NEW w \in Workers, Replaced(w) \/ Adjusted(w) PROVE ClusterTypeOK' /\ CallsGoToKnown'
  <2>1. PICK s \in WorkerState : workers' = [workers EXCEPT ![w] = s]
    BY <1>6 DEF Replaced, Adjusted
  <2>2. workers' \in [Workers -> WorkerState \cup {NoWorker}] /\ Known \subseteq Known'
    BY <2>1, ManagerAssumption
  <2>3. call' = call /\ forgotten' \in [Workers -> Nat] /\ abandoned' \in [Workers -> Nat]
    BY <1>6, InFlightFinite DEF Replaced, Adjusted
  <2> QED  BY <2>2, <2>3
<1>7. ASSUME NEW r \in Requests, Dials(r) \/ DialFails(r) PROVE ClusterTypeOK' /\ CallsGoToKnown'
  <2>1. UNCHANGED <<workers, forgotten>> /\ call[r].st = "picked" /\ call[r].w \in Workers
    BY <1>7 DEF Dials, DialFails
  <2>2. ErrorReply(r, FALSE) = "500"
    BY DEF ErrorReply
  <2>3. PICK c \in CallState : c.w = call[r].w /\ call' = [call EXCEPT ![r] = c]
    <3>1. CASE Dials(r)
      <4> DEFINE c == [call[r] EXCEPT !.st = "calling"]
      <4>1. c \in CallState /\ c.w = call[r].w
        BY DEF CallState
      <4>2. call' = [call EXCEPT ![r] = c]
        BY <3>1 DEF Dials
      <4> QED  BY <4>1, <4>2
    <3>2. CASE DialFails(r)
      <4> DEFINE c == [call[r] EXCEPT !.st = "done", !.reply = "500"]
      <4>1. c \in CallState /\ c.w = call[r].w
        BY DEF CallState
      <4>2. call' = [call EXCEPT ![r] = c]
        BY <2>2, <3>2 DEF DialFails
      <4> QED  BY <4>1, <4>2
    <3> QED  BY <1>7, <3>1, <3>2
  <2>4. call' \in [Requests -> CallState] /\ \A q \in Requests : call'[q].w = call[q].w
    BY <2>3
  <2>5. \A q \in Requests : Out(q)' => Out(q)
    BY <2>1, <2>3
  <2>6. abandoned' \in [Workers -> Nat]
    BY <1>7, <2>1 DEF Dials, DialFails
  <2> QED  BY <2>1, <2>4, <2>5, <2>6
<1> QED  BY <1>1, <1>2, <1>3, <1>4, <1>5, <1>6, <1>7, StepShape

\* QueueErrorIsBounded at one worker.
QueueAt(w) ==
    /\ workers[w].pending <= Cardinality(InFlight(w)) + abandoned[w]
    /\ Cardinality(InFlight(w)) - workers[w].pending <= forgotten[w]

\* The queue grows and shrinks with the calls that are out, but for the calls
\* a registration forgot; those come back into a queue that may be empty.
LEMMA QueueStep == QueueInv /\ [Next]_vars => QueueInv'
<1> SUFFICES ASSUME ClusterTypeOK, CallsGoToKnown, QueueErrorIsBounded, [Next]_vars
             PROVE  QueueInv'
  BY DEF QueueInv
<1>1. ClusterTypeOK' /\ CallsGoToKnown'
  BY ClusterTypeStep
<1> SUFFICES ASSUME NEW w \in Known' PROVE QueueAt(w)'
  BY <1>1 DEF QueueInv, QueueErrorIsBounded, QueueAt
<1>2. w \in Workers
  BY DEF Known
<1>3. w \in Known => QueueAt(w) /\ workers[w] \in WorkerState /\ workers[w].pending \in Nat
  BY DEF QueueErrorIsBounded, QueueAt, Known, ClusterTypeOK, WorkerState
<1>4. /\ IsFiniteSet(InFlight(w)) /\ Cardinality(InFlight(w)) \in Nat
      /\ forgotten[w] \in Nat /\ abandoned[w] \in Nat
  BY <1>2, InFlightFinite DEF ClusterTypeOK
<1>5. CASE Kept
  <2>1. InFlight(w)' = InFlight(w) /\ Known' = Known
    BY <1>5 DEF Kept, InFlight, Out, Known
  <2> QED  BY <1>3, <1>5, <2>1 DEF QueueAt, Kept
<1>6. CASE Crash
  BY <1>2, <1>6 DEF Crash, Known
<1>7. ASSUME NEW r \in Requests, RefusedCall(r) PROVE QueueAt(w)'
  <2>1. InFlight(w)' = InFlight(w) /\ Known' = Known
    BY <1>7 DEF RefusedCall, InFlight, Out, Known, ClusterTypeOK, CallState
  <2> QED  BY <1>3, <1>7, <2>1 DEF QueueAt, RefusedCall
<1>8. ASSUME NEW r \in Requests, IncomingCall(r) PROVE QueueAt(w)'
  <2> DEFINE v == call[r].w
  <2>1. v \in Known /\ v \in Workers /\ r \in InFlight(v)
    BY <1>8 DEF IncomingCall, CallsGoToKnown, Known, InFlight, Out
  <2>2. PICK s \in WorkerState : /\ s.pending = PendingAfter(workers[v], TRUE)
                                 /\ workers' = [workers EXCEPT ![v] = s]
    BY <1>8 DEF IncomingCall
  <2>3. PICK reply \in {"200", "500"} :
           call' = [call EXCEPT ![r] = [@ EXCEPT !.st = "done", !.reply = reply]]
    BY <1>8 DEF IncomingCall
  <2>4. call'[r].st = "done" /\ \A q \in Requests \ {r} : call'[q] = call[q]
    BY <2>3 DEF ClusterTypeOK, CallState
  <2>5. InFlight(w)' = IF w = v THEN InFlight(w) \ {r} ELSE InFlight(w)
    BY <2>1, <2>4 DEF InFlight, Out
  <2>6. CASE w = v
    <3>1. workers'[w].pending = PendingAfter(workers[w], TRUE)
      BY <1>2, <2>2, <2>6 DEF ClusterTypeOK
    <3>2. Cardinality(InFlight(w)') = Cardinality(InFlight(w)) - 1
      <4>1. Cardinality(InFlight(w) \ {r}) = Cardinality(InFlight(w)) - 1
        BY <1>4, <2>1, <2>6, FS_RemoveElement, Zenon
      <4> QED  BY ONLY <2>5, <2>6, <4>1, Zenon
    <3>3. Cardinality(InFlight(w)) # 0
      BY <1>4, <2>1, <2>6, FS_EmptySet
    <3>4. QueueAt(w) /\ workers[w].pending \in Nat
      BY <1>3, <2>1, <2>6
    <3>5. UNCHANGED <<forgotten, abandoned>>
      BY <1>8 DEF IncomingCall
    <3> QED  BY <1>4, <3>1, <3>2, <3>3, <3>4, <3>5 DEF QueueAt, PendingAfter
  <2>7. CASE w # v
    <3>1. workers'[w] = workers[w]
      BY <1>2, <2>2, <2>7 DEF ClusterTypeOK
    <3>2. w \in Known
      BY <1>2, <3>1 DEF Known
    <3> QED  BY <1>3, <1>8, <2>5, <2>7, <3>1, <3>2 DEF QueueAt, IncomingCall
  <2> QED  BY <2>6, <2>7
<1>9. ASSUME NEW r \in Requests, NEW v \in Known, OutgoingCall(r, v) PROVE QueueAt(w)'
  <2>1. v \in Workers /\ workers[v] \in WorkerState
    BY DEF Known, ClusterTypeOK
  <2>2. /\ call'[r].st = "picked" /\ call'[r].w = v
        /\ \A q \in Requests \ {r} : call'[q] = call[q]
    BY <1>9 DEF OutgoingCall, ClusterTypeOK
  <2>3. call[r].st = "idle" /\ forgotten' = forgotten /\ abandoned' = abandoned
    BY <1>9 DEF OutgoingCall
  <2>4. r \notin InFlight(w) /\ InFlight(w)' = IF w = v THEN InFlight(w) \cup {r} ELSE InFlight(w)
    BY <2>2, <2>3 DEF InFlight, Out
  <2>5. CASE w = v
    <3>1. workers'[w].pending = workers[w].pending + 1
      BY <1>2, <1>9, <2>1, <2>5 DEF OutgoingCall, ClusterTypeOK, WorkerState
    <3>2. Cardinality(InFlight(w)') = Cardinality(InFlight(w)) + 1
      BY <1>4, <2>4, <2>5, FS_AddElement
    <3> QED  BY <1>3, <1>4, <2>3, <2>5, <3>1, <3>2 DEF QueueAt
  <2>6. CASE w # v
    <3>1. workers'[w] = workers[w]
      BY <1>2, <1>9, <2>6 DEF OutgoingCall, ClusterTypeOK
    <3>2. w \in Known
      BY <1>2, <3>1 DEF Known
    <3> QED  BY <1>3, <2>3, <2>4, <2>6, <3>1, <3>2 DEF QueueAt
  <2> QED  BY <2>5, <2>6
<1>10. ASSUME NEW v \in Workers, Replaced(v) \/ Adjusted(v) PROVE QueueAt(w)'
  <2>1. InFlight(w)' = InFlight(w)
    BY <1>10 DEF Replaced, Adjusted, InFlight, Out
  <2>2. PICK s \in WorkerState : /\ workers' = [workers EXCEPT ![v] = s]
                                 /\ \/ s.pending = 0 /\ Replaced(v)
                                    \/ s.pending = workers[v].pending /\ Adjusted(v)
    BY <1>10 DEF Replaced, Adjusted
  <2>3. CASE w = v /\ Replaced(v) /\ s.pending = 0
    <3>1. workers'[w].pending = 0 /\ forgotten'[w] = Cardinality(InFlight(w)) /\ abandoned'[w] = 0
      BY <1>2, <2>2, <2>3 DEF Replaced, ClusterTypeOK
    <3> QED  BY <1>4, <2>1, <3>1 DEF QueueAt
  <2>4. CASE w = v /\ Adjusted(v) /\ s.pending = workers[v].pending
    <3>1. /\ workers'[w].pending = workers[w].pending /\ w \in Known
          /\ forgotten' = forgotten /\ abandoned' = abandoned
      BY <1>2, <2>2, <2>4 DEF Adjusted, ClusterTypeOK
    <3> QED  BY <1>3, <2>1, <3>1 DEF QueueAt
  <2>5. CASE w # v
    <3>1. workers'[w] = workers[w] /\ forgotten'[w] = forgotten[w] /\ abandoned'[w] = abandoned[w]
      BY <1>2, <1>10, <2>2, <2>5 DEF Replaced, Adjusted, ClusterTypeOK
    <3>2. w \in Known
      BY <1>2, <3>1 DEF Known
    <3> QED  BY <1>3, <2>1, <3>1, <3>2 DEF QueueAt
  <2> QED  BY <2>2, <2>3, <2>4, <2>5
<1>11. ASSUME NEW r \in Requests, Dials(r) PROVE QueueAt(w)'
  <2>1. UNCHANGED <<workers, forgotten, abandoned>> /\ Known' = Known
    BY <1>11 DEF Dials, Known
  <2>2. call[r].st = "picked" /\ call' = [call EXCEPT ![r].st = "calling"]
    BY <1>11 DEF Dials
  <2>3. \A q \in Requests : Out(q)' = Out(q) /\ call'[q].w = call[q].w
    BY <2>2 DEF Out, ClusterTypeOK, CallState
  <2>4. InFlight(w)' = InFlight(w)
    BY <2>3 DEF InFlight
  <2> QED  BY <1>3, <2>1, <2>4 DEF QueueAt
<1>12. ASSUME NEW r \in Requests, DialFails(r) PROVE QueueAt(w)'
  <2> DEFINE v == call[r].w
  <2>1. /\ UNCHANGED <<workers, forgotten>> /\ Known' = Known /\ call[r].st = "picked"
        /\ abandoned' = [abandoned EXCEPT ![v] = @ + 1]
        /\ call' = [call EXCEPT ![r] = [@ EXCEPT !.st = "done", !.reply = ErrorReply(r, FALSE)]]
    BY <1>12 DEF DialFails, Known
  <2>2. call'[r].st = "done" /\ \A q \in Requests \ {r} : call'[q] = call[q]
    BY <2>1 DEF ClusterTypeOK, CallState
  <2>3. v \in Workers /\ r \in InFlight(v)
    BY <2>1 DEF CallsGoToKnown, Known, InFlight, Out
  <2>4. InFlight(w)' = IF w = v THEN InFlight(w) \ {r} ELSE InFlight(w)
    BY <2>2, <2>3 DEF InFlight, Out
  <2>5. QueueAt(w) /\ workers[w].pending \in Nat
    BY <1>3, <2>1
  <2>6. CASE w = v
    <3>1. Cardinality(InFlight(w)') = Cardinality(InFlight(w)) - 1
      <4>1. Cardinality(InFlight(w) \ {r}) = Cardinality(InFlight(w)) - 1
        BY <1>4, <2>3, <2>6, FS_RemoveElement, Zenon
      <4> QED  BY ONLY <2>4, <2>6, <4>1, Zenon
    <3>2. abandoned'[w] = abandoned[w] + 1
      BY <1>2, <2>1, <2>6 DEF ClusterTypeOK
    <3> QED  BY <1>4, <2>1, <2>5, <3>1, <3>2 DEF QueueAt
  <2>7. CASE w # v
    <3>1. abandoned'[w] = abandoned[w]
      BY <1>2, <2>1, <2>7 DEF ClusterTypeOK
    <3> QED  BY <2>1, <2>4, <2>5, <2>7, <3>1 DEF QueueAt
  <2> QED  BY <2>6, <2>7
<1> QED  BY <1>5, <1>6, <1>7, <1>8, <1>9, <1>10, <1>11, <1>12, StepShape

\* The scheduler counts beyond the calls that are out only requests it gave up
\* before calling, and what it misses are at most the calls that were out at the
\* worker's last registration.
THEOREM QueueErrorBounded == Spec => []QueueErrorIsBounded
<1>1. Init => QueueInv
  <2> SUFFICES ASSUME Init PROVE QueueInv
    OBVIOUS
  <2>1. Known = {}
    BY DEF Init, ManagerInit, Known
  <2>2. \A r \in Requests : call[r] = Idle
    BY DEF Init, ManagerInit
  <2>3. ClusterTypeOK
    BY <2>2 DEF Init, ManagerInit, ClusterTypeOK, Idle, CallState
  <2>4. CallsGoToKnown
    BY <2>2 DEF CallsGoToKnown, Out, Idle
  <2> QED  BY <2>1, <2>3, <2>4 DEF QueueInv, QueueErrorIsBounded
<1>2. QueueInv => QueueErrorIsBounded
  BY DEF QueueInv
<1> QED  BY <1>1, <1>2, QueueStep, PTL DEF Spec
=============================================================================
