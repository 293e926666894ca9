---------------------------- MODULE GatewayProofs ----------------------------
(* Proofs of the safety properties of module Gateway, for every set of       *)
(* backends and requests and every threshold and bound.                      *)
EXTENDS Gateway, FiniteSetTheorems, TLAPS

(* The primitive operations on a backend's row keep their types.             *)

\* Appending to the bounded deque of inflight_log gives a sequence of depths.
LEMMA DequeAppendType ==
    ASSUME NEW q \in Seq(Nat), NEW x \in Nat
    PROVE  DequeAppend(q, x) \in Seq(Nat)
<1>1. CASE Len(q) < InflightCap
  BY <1>1 DEF DequeAppend
<1>2. CASE ~(Len(q) < InflightCap)
  <2>1. q # <<>>
    BY <1>2, SchedulerAssumption
  <2>2. Tail(q) \in Seq(Nat)
    BY <2>1
  <2> QED  BY <1>2, <2>2 DEF DequeAppend
<1> QED  BY <1>1, <1>2

\* Counting keeps every AdmissionStats counter a natural number.
LEMMA CountType ==
    ASSUME admission \in [Counters -> Nat], NEW cs, Count(cs)
    PROVE  admission' \in [Counters -> Nat]
BY DEF Count

\* feedback's popleft and guarded decrement keep the types of both fields.
LEMMA CloseSlotType ==
    ASSUME NEW b \in Backends, pending \in [Backends -> Nat],
           inflight_log \in [Backends -> Seq(Nat)], CloseSlot(b)
    PROVE  /\ pending' \in [Backends -> Nat]
           /\ inflight_log' \in [Backends -> Seq(Nat)]
           /\ UNCHANGED peak
<1>1. pending' \in [Backends -> Nat]
  BY DEF CloseSlot, Decremented
<1>2. ASSUME NEW q \in Seq(Nat) PROVE (IF q = <<>> THEN q ELSE Tail(q)) \in Seq(Nat)
  BY <1>2
<1>3. inflight_log' \in [Backends -> Seq(Nat)]
  BY <1>2 DEF CloseSlot
<1> QED  BY <1>1, <1>3 DEF CloseSlot

(* Each method of the scheduler keeps SchedTypeOK.  One lemma per method,    *)
(* cited by the action that calls it.                                        *)

\* pick returning a backend keeps the scheduler's types.
LEMMA PickType ==
    ASSUME SchedTypeOK, NEW allowed, NEW b \in Backends, PickReturns(allowed, b)
    PROVE  SchedTypeOK'
<1>1. pending' \in [Backends -> Nat]
  BY DEF SchedTypeOK, PickReturns, MarkAdmitted
<1>2. inflight_log' \in [Backends -> Seq(Nat)]
  <2>1. DequeAppend(inflight_log[b], pending[b] + 1) \in Seq(Nat)
    BY DequeAppendType DEF SchedTypeOK
  <2> QED  BY <2>1 DEF SchedTypeOK, PickReturns, MarkAdmitted
<1>3. admission' \in [Counters -> Nat]
  BY CountType DEF SchedTypeOK, PickReturns
<1>4. peak' \in [Backends -> Nat]
  BY DEF SchedTypeOK, PickReturns, MarkAdmitted
<1> QED  BY <1>1, <1>2, <1>3, <1>4 DEF SchedTypeOK, PickReturns

\* pick raising AdmissionError keeps the scheduler's types.
LEMMA PickRaisesType ==
    ASSUME SchedTypeOK, NEW allowed, PickRaises(allowed)
    PROVE  SchedTypeOK'
<1>1. admission' \in [Counters -> Nat]
  BY CountType DEF SchedTypeOK, PickRaises
<1> QED  BY <1>1 DEF SchedTypeOK, PickRaises

\* release keeps the scheduler's types: its decrement is guarded.
LEMMA ReleaseType ==
    ASSUME SchedTypeOK, NEW b \in Backends, Release(b)
    PROVE  SchedTypeOK'
BY DEF SchedTypeOK, Release, Decremented

\* feedback of a success keeps the scheduler's types.
LEMMA FeedbackSuccessType ==
    ASSUME SchedTypeOK, NEW b \in Backends, NEW u \in BOOLEAN, FeedbackSuccess(b, u)
    PROVE  SchedTypeOK'
<1>1. /\ pending' \in [Backends -> Nat]
      /\ inflight_log' \in [Backends -> Seq(Nat)]
      /\ UNCHANGED peak
  BY CloseSlotType DEF SchedTypeOK, FeedbackSuccess
<1>2. admission' \in [Counters -> Nat]
  BY CountType DEF SchedTypeOK, FeedbackSuccess
<1> QED  BY <1>1, <1>2 DEF SchedTypeOK, FeedbackSuccess

\* feedback of a failure keeps them, with note_failure's effect beside it.
LEMMA FeedbackFailureType ==
    ASSUME SchedTypeOK, NEW b \in Backends, FeedbackFailure(b),
           healthy' \in [Backends -> BOOLEAN], fail_streak' \in [Backends -> Nat]
    PROVE  SchedTypeOK'
<1>1. /\ pending' \in [Backends -> Nat]
      /\ inflight_log' \in [Backends -> Seq(Nat)]
      /\ UNCHANGED peak
  BY CloseSlotType DEF SchedTypeOK, FeedbackFailure
<1>2. admission' \in [Counters -> Nat]
  BY CountType DEF SchedTypeOK, FeedbackFailure
<1> QED  BY <1>1, <1>2 DEF SchedTypeOK, FeedbackFailure

\* note_failure keeps the types of the streaks and of the health flags.
LEMMA NoteFailureType ==
    ASSUME SchedTypeOK, NEW b \in Backends, NoteFailure(b)
    PROVE  healthy' \in [Backends -> BOOLEAN] /\ fail_streak' \in [Backends -> Nat]
<1>1. fail_streak' \in [Backends -> Nat]
  BY DEF SchedTypeOK, NoteFailure
<1>2. healthy' \in [Backends -> BOOLEAN]
  BY Zenon DEF SchedTypeOK, NoteFailure
<1> QED  BY <1>1, <1>2

-----------------------------------------------------------------------------
(* The four shapes of a handler's step: it moves to another await (or drops  *)
(* its slot), returns its slot by release, or by feedback of either kind.    *)

\* The breaker is left alone, or this step is the one strike of r.
Strike(r, p, v) ==
    \/ UNCHANGED <<healthy, fail_streak>>
    \/ /\ NoteFailure(worker[r])
       /\ \/ v = "aborted" /\ verdict[r] # "aborted"
          \/ v = "5xx" /\ p = "done"

\* A strike of r stays one.
KeepsStrike(r, v) == verdict[r] = "aborted" => v = "aborted"

Suspends(r) ==
    \E p \in Active \cup {"leaked"}, v \in Verdicts :
        /\ Goto(r, p, v) /\ VerdictFits(p, v) /\ Strike(r, p, v) /\ KeepsStrike(r, v)
        /\ UNCHANGED <<pending, inflight_log, peak, generation, admission, resets>>

Releases(r) ==
    \E v \in Returned : Goto(r, "done", v) /\ Release(worker[r]) /\ KeepsStrike(r, v)

Completes(r) ==
    \E v \in Successes : /\ Goto(r, "done", v) /\ KeepsStrike(r, v)
                         /\ FeedbackSuccess(worker[r], v = "under")

Fails(r) ==
    \E v \in {"4xx", "5xx", "aborted", "hung_up"} :
        /\ Goto(r, "done", v) /\ FeedbackFailure(worker[r])
        /\ Strike(r, "done", v) /\ KeepsStrike(r, v)

\* Every step of a handler past pick suspends again, releases, completes or
\* fails; the proofs below reason about these four shapes only.
LEMMA HandlerShape ==
    ASSUME TypeOK, NEW r \in Requests, HandlerStep(r)
    PROVE  /\ phase[r] \in Active /\ worker[r] \in Backends
           /\ Suspends(r) \/ Releases(r) \/ Completes(r) \/ Fails(r)
<1> USE DEF Active, JsonPhases, OpenPhases, StreamPhases, Successes, EngineFailures,
            Returned, Verdicts, VerdictFits, TypeOK
<1>1. phase[r] \in Active
  BY DEF HandlerStep, JsonStep, OpenStep, RelayStep, JsonFallback, JsonUnreachable,
         JsonSucceeds, JsonFails, StreamReopen, StreamUnreachable, StreamRefused,
         RefusalRead, RefusalReadRaises, StreamOpened, StreamStarts, StreamDropped,
         ChunkYielded, ChunkTaken, StreamEnds, StreamAborts, ErrorEventSent, ClientCancels, ClientHangsUp,
         StreamClosed, CloseRaises
<1>2. worker[r] \in Backends
  BY <1>1 DEF TypeOK
<1>3. ASSUME \/ JsonFallback(r) \/ StreamReopen(r) \/ StreamOpened(r) \/ StreamStarts(r)
             \/ ChunkYielded(r) \/ ChunkTaken(r)
      PROVE  Suspends(r)
  BY <1>3, Zenon DEF JsonFallback, StreamReopen, StreamOpened, StreamStarts, ChunkYielded,
             ChunkTaken, Suspends,
             Strike, KeepsStrike, schedVars
<1>4. ASSUME \/ StreamRefused(r) \/ RefusalReadRaises(r) \/ StreamDropped(r)
             \/ StreamEnds(r) \/ ErrorEventSent(r) \/ ClientCancels(r)
             \/ ClientHangsUp(r) \/ CloseRaises(r)
      PROVE  Suspends(r)
  BY <1>4 DEF StreamRefused, RefusalReadRaises, StreamDropped, StreamEnds,
             ErrorEventSent, ClientCancels, ClientHangsUp, CloseRaises, Suspends,
             Strike, KeepsStrike, schedVars
<1>5. ASSUME StreamAborts(r) PROVE Suspends(r)
  BY <1>5 DEF StreamAborts, Suspends, Strike, KeepsStrike
<1>6. ASSUME JsonUnreachable(r) \/ StreamUnreachable(r) PROVE Releases(r)
  BY <1>6 DEF JsonUnreachable, StreamUnreachable, Releases, KeepsStrike
<1>7. ASSUME JsonSucceeds(r) PROVE Completes(r)
  BY <1>7 DEF JsonSucceeds, Completes, KeepsStrike
<1>8. ASSUME JsonFails(r) \/ RefusalRead(r) PROVE Fails(r)
  BY <1>8 DEF JsonFails, RefusalRead, Fails, Strike, KeepsStrike
<1>9. ASSUME StreamClosed(r) PROVE Releases(r) \/ Completes(r) \/ Fails(r)
  BY <1>9 DEF StreamClosed, Releases, Completes, Fails, Strike, KeepsStrike
<1> QED
  BY <1>1, <1>2, <1>3, <1>4, <1>5, <1>6, <1>7, <1>8, <1>9
     DEF HandlerStep, JsonStep, OpenStep, RelayStep

-----------------------------------------------------------------------------
(* Type correctness.                                                       *)

\* Moving one request to a phase with a fitting verdict keeps the types.
LEMMA GotoType ==
    ASSUME TypeOK, NEW r \in Requests, NEW p \in Phases, NEW v \in Verdicts,
           Goto(r, p, v), VerdictFits(p, v), SchedTypeOK',
           worker[r] = NoBackend <=> p \in {"new", "rejected"}
    PROVE  TypeOK'
<1>1. /\ phase' \in [Requests -> Phases]
      /\ verdict' \in [Requests -> Verdicts]
  BY DEF TypeOK, Goto
<1>2. \A q \in Requests : /\ worker'[q] = NoBackend <=> phase'[q] \in {"new", "rejected"}
                          /\ VerdictFits(phase'[q], verdict'[q])
  BY DEF TypeOK, Goto
<1>3. /\ worker' \in [Requests -> Backends \cup {NoBackend}]
      /\ admitGen' \in [Requests -> 0..MaxGeneration]
      /\ up' \in [Backends -> BOOLEAN]
      /\ sweep' \subseteq Backends
      /\ probe' \in [backend : Backends, ok : BOOLEAN] \cup {NoProbe}
  BY Zenon DEF TypeOK, Goto, loopVars, NoProbe
<1> QED  BY <1>1, <1>2, <1>3, Zenon DEF TypeOK

\* A step that moves no request keeps their types.
LEMMA ReqTypeKept ==
    ASSUME TypeOK, SchedTypeOK', UNCHANGED reqVars,
           up' \in [Backends -> BOOLEAN], sweep' \subseteq Backends,
           probe' \in [backend : Backends, ok : BOOLEAN] \cup {NoProbe}
    PROVE  TypeOK'
BY DEF TypeOK, reqVars, NoProbe

\* The initial states are well typed.
LEMMA InitType == Init => TypeOK
<1> SUFFICES ASSUME Init PROVE TypeOK
  OBVIOUS
<1> USE DEF Init, SchedInit
<1>1. SchedTypeOK
  <2>1. /\ pending \in [Backends -> Nat]
        /\ peak \in [Backends -> Nat]
        /\ fail_streak \in [Backends -> Nat]
        /\ generation \in [Backends -> 0..MaxGeneration]
        /\ admission \in [Counters -> Nat]
        /\ resets \in 0..MaxResets
    BY SchedulerAssumption DEF AdmissionStats
  <2>2. inflight_log \in [Backends -> Seq(Nat)]
    <3>1. <<>> \in Seq(Nat)
      OBVIOUS
    <3> QED  BY <3>1
  <2>3. healthy \in [Backends -> BOOLEAN]
    BY <2>1 DEF Registered
  <2> QED  BY <2>1, <2>2, <2>3 DEF SchedTypeOK
<1>2. /\ phase \in [Requests -> Phases]
      /\ worker \in [Requests -> Backends \cup {NoBackend}]
      /\ verdict \in [Requests -> Verdicts]
      /\ up \in [Backends -> BOOLEAN]
      /\ sweep \subseteq Backends
      /\ probe \in [backend : Backends, ok : BOOLEAN] \cup {NoProbe}
      /\ \A r \in Requests : worker[r] = NoBackend <=> phase[r] \in {"new", "rejected"}
  BY DEF Phases, Verdicts
<1>3. admitGen \in [Requests -> 0..MaxGeneration]
  BY SchedulerAssumption
<1>4. \A r \in Requests : VerdictFits(phase[r], verdict[r])
  BY DEF VerdictFits
<1> QED  BY <1>1, <1>2, <1>3, <1>4 DEF TypeOK

\* The admission step of a handler is well typed.
LEMMA AdmitType == ASSUME TypeOK, NEW r \in Requests, Admit(r) PROVE TypeOK'
<1>1. PICK allowed \in SUBSET Backends, b \in Backends, p \in {"forwarding", "opening"} :
         /\ PickReturns(allowed, b)
         /\ phase' = [phase EXCEPT ![r] = p]
         /\ worker' = [worker EXCEPT ![r] = b]
         /\ admitGen' = [admitGen EXCEPT ![r] = generation[b]]
  BY DEF Admit
<1>2. SchedTypeOK'
  BY <1>1, PickType DEF TypeOK
<1>3. UNCHANGED <<verdict, up, sweep, probe>> /\ phase[r] = "new"
  BY DEF Admit, loopVars
<1>4. generation[b] \in 0..MaxGeneration
  BY DEF TypeOK, SchedTypeOK
<1>5. /\ phase' \in [Requests -> Phases]
      /\ worker' \in [Requests -> Backends \cup {NoBackend}]
      /\ admitGen' \in [Requests -> 0..MaxGeneration]
  BY <1>1, <1>4 DEF TypeOK, Phases, Active, JsonPhases, OpenPhases
<1>6. \A q \in Requests : /\ worker'[q] = NoBackend <=> phase'[q] \in {"new", "rejected"}
                          /\ VerdictFits(phase'[q], verdict'[q])
  BY <1>1, <1>3, GatewayAssumption
     DEF TypeOK, VerdictFits, JsonPhases, OpenPhases
<1> QED  BY <1>2, <1>3, <1>5, <1>6, Zenon DEF TypeOK, NoProbe

\* The 503 step of a handler is well typed.
LEMMA RejectType == ASSUME TypeOK, NEW r \in Requests, Reject(r) PROVE TypeOK'
<1>1. SchedTypeOK' /\ phase[r] = "new" /\ Goto(r, "rejected", "none")
  BY PickRaisesType DEF Reject, TypeOK
<1>2. worker[r] = NoBackend
  BY <1>1 DEF TypeOK
<1>3. VerdictFits("rejected", "none")
  BY DEF VerdictFits
<1> QED  BY <1>1, <1>2, <1>3, GotoType DEF Phases, Verdicts

\* Every later step of a handler is well typed.
LEMMA HandlerType == ASSUME TypeOK, NEW r \in Requests, HandlerStep(r) PROVE TypeOK'
<1>1. phase[r] \in Active /\ worker[r] \in Backends /\ worker[r] # NoBackend
  BY HandlerShape, GatewayAssumption
<1> USE DEF Phases, Active, JsonPhases, OpenPhases, StreamPhases, Verdicts,
            Successes, EngineFailures, Returned
<1>2. ASSUME Suspends(r) PROVE TypeOK'
  <2>1. PICK p \in Active \cup {"leaked"}, v \in Verdicts :
           /\ Goto(r, p, v) /\ VerdictFits(p, v) /\ Strike(r, p, v)
           /\ UNCHANGED <<pending, inflight_log, peak, generation, admission, resets>>
    BY <1>2 DEF Suspends
  <2>2. healthy' \in [Backends -> BOOLEAN] /\ fail_streak' \in [Backends -> Nat]
    BY <1>1, <2>1, NoteFailureType, Zenon DEF Strike, TypeOK, SchedTypeOK
  <2>3. SchedTypeOK'
    BY <2>1, <2>2, Zenon DEF TypeOK, SchedTypeOK
  <2> QED  BY <1>1, <2>1, <2>3, GotoType
<1>3. ASSUME Releases(r) PROVE TypeOK'
  BY <1>1, <1>3, ReleaseType, GotoType DEF Releases, TypeOK, VerdictFits
<1>4. ASSUME Completes(r) PROVE TypeOK'
  BY <1>1, <1>4, FeedbackSuccessType, GotoType DEF Completes, TypeOK, VerdictFits
<1>5. ASSUME Fails(r) PROVE TypeOK'
  <2>1. PICK v \in {"4xx", "5xx", "aborted", "hung_up"} :
           Goto(r, "done", v) /\ FeedbackFailure(worker[r]) /\ Strike(r, "done", v)
    BY <1>5 DEF Fails
  <2>2. healthy' \in [Backends -> BOOLEAN] /\ fail_streak' \in [Backends -> Nat]
    BY <1>1, <2>1, NoteFailureType, Zenon DEF Strike, TypeOK, SchedTypeOK
  <2>3. SchedTypeOK'
    BY <1>1, <2>1, <2>2, FeedbackFailureType DEF TypeOK
  <2> QED  BY <1>1, <2>1, <2>3, GotoType DEF VerdictFits
<1> QED  BY <1>2, <1>3, <1>4, <1>5, HandlerShape

\* The three steps of _health_loop are well typed.
LEMMA HealthType == ASSUME TypeOK, HealthLoop PROVE TypeOK'
<1>1. ASSUME HealthSweep PROVE TypeOK'
  BY <1>1, ReqTypeKept DEF HealthSweep, TypeOK, SchedTypeOK, schedVars
<1>2. ASSUME NEW b \in Backends, ProbeAnswered(b) PROVE TypeOK'
  <2>1. SchedTypeOK'
    BY <1>2 DEF ProbeAnswered, TypeOK, SchedTypeOK, schedVars
  <2>2. up[b] \in BOOLEAN
    BY DEF TypeOK
  <2> QED  BY <1>2, <2>1, <2>2, ReqTypeKept DEF ProbeAnswered, TypeOK
<1>3. ASSUME ProbeApplied PROVE TypeOK'
  <2>1. probe.backend \in Backends /\ probe.ok \in BOOLEAN
    BY <1>3 DEF ProbeApplied, TypeOK
  <2>2. SchedTypeOK'
    BY <1>3, <2>1 DEF ProbeApplied, SetHealthy, TypeOK, SchedTypeOK
  <2> QED  BY <1>3, <2>2, ReqTypeKept DEF ProbeApplied, TypeOK
<1> QED  BY <1>1, <1>2, <1>3 DEF HealthLoop

\* register keeps the scheduler's types.
LEMMA RegisterType == ASSUME SchedTypeOK, NEW b \in Backends, Register(b) PROVE SchedTypeOK'
<1>1. <<>> \in Seq(Nat)
  OBVIOUS
<1>2. generation' \in [Backends -> 0..MaxGeneration]
  BY SchedulerAssumption DEF Register, SchedTypeOK
<1> QED  BY <1>1, <1>2 DEF Register, SchedTypeOK

\* reset_stats keeps the scheduler's types.
LEMMA ResetType == ASSUME SchedTypeOK, ResetStats PROVE SchedTypeOK'
BY SchedulerAssumption DEF ResetStats, SchedTypeOK, AdmissionStats

\* Type correctness is inductive.
LEMMA NextType == TypeOK /\ [Next]_vars => TypeOK'
<1> SUFFICES ASSUME TypeOK, [Next]_vars PROVE TypeOK'
  OBVIOUS
<1>1. ASSUME NEW r \in Requests, Admit(r) \/ Reject(r) \/ HandlerStep(r) PROVE TypeOK'
  BY <1>1, AdmitType, RejectType, HandlerType
<1>2. ASSUME NEW b \in Backends, EngineFlips(b) PROVE TypeOK'
  <2>1. SchedTypeOK'
    BY <1>2 DEF EngineFlips, TypeOK, SchedTypeOK, schedVars
  <2>2. up' \in [Backends -> BOOLEAN]
    BY <1>2 DEF EngineFlips, TypeOK
  <2> QED  BY <1>2, <2>1, <2>2, ReqTypeKept DEF EngineFlips, TypeOK
<1>3. ASSUME NEW b \in Backends, AddBackend(b) PROVE TypeOK'
  BY <1>3, RegisterType, ReqTypeKept DEF AddBackend, TypeOK, loopVars
<1>4. ASSUME AdminReset PROVE TypeOK'
  BY <1>4, ResetType, ReqTypeKept DEF AdminReset, TypeOK, loopVars
<1>5. ASSUME UNCHANGED vars PROVE TypeOK'
  BY <1>5 DEF vars, schedVars, reqVars, loopVars, TypeOK, SchedTypeOK
<1> QED  BY <1>1, <1>2, <1>3, <1>4, <1>5, HealthType DEF Next

\* Type correctness of the gateway and of the scheduler state it shares, for
\* every interleaving of handlers, probes and admin calls.
THEOREM TypeCorrect == Spec => []TypeOK
BY InitType, NextType, PTL DEF Spec
=============================================================================
