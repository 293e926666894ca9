----------------------------- MODULE LedgerProofs -----------------------------
(* The gateway implements SlotLedger, and what follows for the load counters *)
(* and for inflight_log; the circuit breaker of note_failure, whose requests *)
(* evict a backend only after FailThreshold of them failed on it.            *)
EXTENDS GatewayProofs

-----------------------------------------------------------------------------
(* How a step of a handler moves the sets of holders.                       *)

\* The requests that occupy a backend can be counted.
LEMMA HoldersFinite == \A b : IsFiniteSet(Holders(b)) /\ Cardinality(Holders(b)) \in Nat
<1> SUFFICES ASSUME NEW b PROVE IsFiniteSet(Holders(b)) /\ Cardinality(Holders(b)) \in Nat
  OBVIOUS
<1>1. Holders(b) \subseteq Requests
  BY DEF Holders
<1> QED  BY <1>1, FS_Subset, FS_CardinalityType, GatewayAssumption

\* A handler that suspends again, or leaks its slot, changes no holder set.
LEMMA GotoKeeps ==
    ASSUME TypeOK, NEW r \in Requests, phase[r] \in Active, NEW p \in Active \cup {"leaked"},
           NEW v, Goto(r, p, v)
    PROVE  /\ \A b \in Backends : Holders(b)' = Holders(b)
           /\ {q \in Requests : phase'[q] = "done"} = {q \in Requests : phase[q] = "done"}
<1> USE DEF TypeOK, Goto, Active, JsonPhases, OpenPhases, StreamPhases
<1>1. \A q \in Requests : /\ phase'[q] \in Active \cup {"leaked"} <=> phase[q] \in Active \cup {"leaked"}
                          /\ worker'[q] = worker[q]
                          /\ phase'[q] = "done" <=> phase[q] = "done"
  OBVIOUS
<1> QED  BY <1>1 DEF Holders

\* A handler that ends leaves the holder set of its own backend only.
LEMMA GotoReturns ==
    ASSUME TypeOK, NEW r \in Requests, phase[r] \in Active, NEW v, Goto(r, "done", v)
    PROVE  /\ r \in Holders(worker[r])
           /\ \A b \in Backends :
                 Holders(b)' = IF b = worker[r] THEN Holders(b) \ {r} ELSE Holders(b)
           /\ {q \in Requests : phase'[q] = "done"}
                = {q \in Requests : phase[q] = "done"} \cup {r}
<1>1. \A q \in Requests : /\ q # r => phase'[q] = phase[q]
                          /\ worker'[q] = worker[q]
                          /\ phase'[r] = "done"
  BY DEF TypeOK, Goto
<1>2. "done" \notin Active \cup {"leaked"}
  BY DEF Active, JsonPhases, OpenPhases, StreamPhases
<1>3. r \in Holders(worker[r])
  BY DEF Holders
<1> QED  BY <1>1, <1>2, <1>3 DEF Holders

\* An admitted request becomes a new holder of one registered backend.
LEMMA AdmitAcquires ==
    ASSUME TypeOK, NEW r \in Requests, Admit(r)
    PROVE  \E b \in Backends :
             /\ generation[b] > 0
             /\ MarkAdmitted(b)
             /\ Count({"admitted"})
             /\ UNCHANGED <<healthy, fail_streak, generation, resets>>
             /\ \A c \in Backends : r \notin Holders(c)
             /\ phase[r] = "new"
             /\ worker' = [worker EXCEPT ![r] = b]
             /\ \A c \in Backends : Holders(c)' = IF c = b THEN Holders(c) \cup {r} ELSE Holders(c)
             /\ {q \in Requests : phase'[q] = "done"} = {q \in Requests : phase[q] = "done"}
<1>1. PICK allowed \in SUBSET Backends, b \in Backends, p \in {"forwarding", "opening"} :
         /\ PickReturns(allowed, b)
         /\ phase' = [phase EXCEPT ![r] = p]
         /\ worker' = [worker EXCEPT ![r] = b]
  BY DEF Admit
<1>2. phase[r] = "new" /\ \A c \in Backends : r \notin Holders(c)
  BY DEF Admit, Holders, Active, JsonPhases, OpenPhases, StreamPhases
<1>3. p \in Active /\ p # "done"
  BY DEF Active, JsonPhases, OpenPhases
<1>4. \A q \in Requests : /\ q # r => phase'[q] = phase[q] /\ worker'[q] = worker[q]
                          /\ phase'[r] = p /\ worker'[r] = b
  BY <1>1 DEF TypeOK
<1>5. \A c \in Backends : Holders(c)' = IF c = b THEN Holders(c) \cup {r} ELSE Holders(c)
  BY <1>2, <1>3, <1>4 DEF Holders
<1>6. {q \in Requests : phase'[q] = "done"} = {q \in Requests : phase[q] = "done"}
  BY <1>2, <1>3, <1>4
<1> QED  BY <1>1, <1>2, <1>5, <1>6 DEF PickReturns, HealthyIds, Registered

\* A rejected request touches no slot, no log and no holder set.
LEMMA RejectKeeps ==
    ASSUME TypeOK, NEW r \in Requests, Reject(r)
    PROVE  /\ UNCHANGED <<pending, inflight_log, healthy, fail_streak, generation, resets, worker>>
           /\ \A b \in Backends : Holders(b)' = Holders(b)
           /\ {q \in Requests : phase'[q] = "done"} = {q \in Requests : phase[q] = "done"}
<1>1. phase[r] = "new" /\ Goto(r, "rejected", "none")
  BY DEF Reject
<1>2. \A q \in Requests : /\ q # r => phase'[q] = phase[q]
                          /\ worker'[q] = worker[q]
                          /\ phase'[r] = "rejected"
  BY <1>1 DEF Goto, TypeOK
<1>3. "new" \notin Active \cup {"leaked"} /\ "rejected" \notin Active \cup {"leaked"}
  BY DEF Active, JsonPhases, OpenPhases, StreamPhases
<1>4. UNCHANGED <<pending, inflight_log, healthy, fail_streak, generation, resets, worker>>
  BY <1>1 DEF Reject, PickRaises, Goto
<1> QED  BY <1>1, <1>2, <1>3, <1>4 DEF Holders

\* No other step touches the request variables.
LEMMA ReqVarsKept ==
    ASSUME UNCHANGED reqVars
    PROVE  /\ \A b : Holders(b)' = Holders(b)
           /\ {q \in Requests : phase'[q] = "done"} = {q \in Requests : phase[q] = "done"}
BY DEF reqVars, Holders

-----------------------------------------------------------------------------
(* Refinement.                                                             *)

\* Initial states of the gateway are initial states of the ledger.
LEMMA LedgerInitRefined == Init => Ledger!LedgerInit
<1> SUFFICES ASSUME Init PROVE Ledger!LedgerInit
  OBVIOUS
<1>1. \A b \in Backends : Holders(b) = {}
  BY DEF Init, Holders, Active, JsonPhases, OpenPhases, StreamPhases
<1>2. {r \in Requests : phase[r] = "done"} = {}
  BY DEF Init
<1> QED  BY <1>1, <1>2 DEF Init, SchedInit, Ledger!LedgerInit

\* Every step of the gateway is a step of the ledger, or changes nothing in it.
LEMMA LedgerStep == TypeOK /\ [Next]_vars => [Ledger!LedgerNext]_(Ledger!ledgerVars)
<1> SUFFICES ASSUME TypeOK, [Next]_vars
             PROVE  Ledger!LedgerNext \/ UNCHANGED Ledger!ledgerVars
  OBVIOUS
<1> DEFINE held == [b \in Backends |-> Holders(b)]
           finished == {q \in Requests : phase[q] = "done"}
           Kept == held' = held /\ finished' = finished
<1>1. ASSUME NEW r \in Requests, Admit(r) PROVE Ledger!LedgerNext
  <2>1. PICK b \in Backends :
           /\ generation[b] > 0 /\ MarkAdmitted(b) /\ UNCHANGED generation
           /\ \A c \in Backends : r \notin Holders(c)
           /\ phase[r] = "new"
           /\ \A c \in Backends : Holders(c)' = IF c = b THEN Holders(c) \cup {r} ELSE Holders(c)
           /\ finished' = finished
    BY <1>1, AdmitAcquires
  <2>2. held' = [held EXCEPT ![b] = @ \cup {r}]
    BY <2>1
  <2>3. Ledger!Acquire(r, b)
    BY <2>1, <2>2 DEF Ledger!Acquire, MarkAdmitted
  <2> QED  BY <2>3 DEF Ledger!LedgerNext
<1>2. ASSUME NEW r \in Requests, Reject(r) PROVE UNCHANGED Ledger!ledgerVars
  BY <1>2, RejectKeeps DEF Ledger!ledgerVars
<1>3. ASSUME NEW r \in Requests, HandlerStep(r)
      PROVE  Ledger!LedgerNext \/ UNCHANGED Ledger!ledgerVars
  <2>1. phase[r] \in Active /\ worker[r] \in Backends
    BY <1>3, HandlerShape
  <2>2. ASSUME Suspends(r) PROVE UNCHANGED Ledger!ledgerVars
    <3>1. UNCHANGED <<pending, generation>> /\ Kept
      BY <2>1, <2>2, GotoKeeps DEF Suspends
    <3> QED  BY <3>1 DEF Ledger!ledgerVars
  <2>3. ASSUME NEW v, Goto(r, "done", v), UNCHANGED generation,
               pending' = [pending EXCEPT ![worker[r]] = Decremented(@)]
        PROVE  Ledger!LedgerNext
    <3>1. held' = [held EXCEPT ![worker[r]] = @ \ {r}]
      BY <2>1, <2>3, GotoReturns
    <3>2. finished' = finished \cup {r} /\ r \in held[worker[r]]
      BY <2>1, <2>3, GotoReturns
    <3>3. PICK b \in Backends : b = worker[r]
      BY <2>1
    <3>4. Ledger!Return(r, b)
      BY <2>3, <3>1, <3>2, <3>3 DEF Ledger!Return, Decremented
    <3> QED  BY <3>4 DEF Ledger!LedgerNext
  <2>4. ASSUME Releases(r) PROVE Ledger!LedgerNext
    BY <2>3, <2>4 DEF Releases, Release
  <2>5. ASSUME Completes(r) PROVE Ledger!LedgerNext
    BY <2>3, <2>5 DEF Completes, FeedbackSuccess, CloseSlot
  <2>6. ASSUME Fails(r) PROVE Ledger!LedgerNext
    BY <2>3, <2>6 DEF Fails, FeedbackFailure, CloseSlot
  <2> QED  BY <1>3, <2>2, <2>4, <2>5, <2>6, HandlerShape
<1>4. ASSUME NEW b \in Backends, AddBackend(b) PROVE Ledger!LedgerNext
  <2>1. Kept
    BY <1>4, ReqVarsKept DEF AddBackend
  <2>2. Ledger!Forget(b)
    BY <1>4, <2>1 DEF AddBackend, Register, Ledger!Forget
  <2> QED  BY <2>2 DEF Ledger!LedgerNext
<1>5. ASSUME UNCHANGED <<pending, generation>>, UNCHANGED reqVars
      PROVE  UNCHANGED Ledger!ledgerVars
  BY <1>5, ReqVarsKept DEF Ledger!ledgerVars
<1>6. ASSUME HealthLoop PROVE UNCHANGED Ledger!ledgerVars
  BY <1>5, <1>6 DEF HealthLoop, HealthSweep, ProbeAnswered, ProbeApplied, SetHealthy, schedVars
<1>7. ASSUME NEW b \in Backends, EngineFlips(b) PROVE UNCHANGED Ledger!ledgerVars
  BY <1>5, <1>7 DEF EngineFlips, schedVars
<1>8. ASSUME AdminReset PROVE UNCHANGED Ledger!ledgerVars
  BY <1>5, <1>8 DEF AdminReset, ResetStats
<1>9. ASSUME UNCHANGED vars PROVE UNCHANGED Ledger!ledgerVars
  BY <1>5, <1>9 DEF vars, schedVars
<1> QED  BY <1>1, <1>2, <1>3, <1>4, <1>6, <1>7, <1>8, <1>9 DEF Next

\* The gateway implements the abstract ledger: every step of a handler takes a
\* slot, returns one, or leaves the ledger alone.
THEOREM GatewayImplementsLedger == Spec => ImplementsLedger
BY TypeCorrect, LedgerInitRefined, LedgerStep, PTL
   DEF Spec, ImplementsLedger, Ledger!LedgerSpec

-----------------------------------------------------------------------------
(* The load counters.  PendingIsExact is not inductive as it stands: a first *)
(* registration zeroes pending, which is right only because nobody can hold  *)
(* a slot of a backend that was never registered.  LoadInv adds that.        *)

NeverRegisteredIsIdle ==
    \A b \in Backends : generation[b] = 0 => \A r \in Requests : worker[r] # b

LoadInv == NoPhantomLoad /\ PendingIsExact /\ NeverRegisteredIsIdle

\* A new member adds one to a cardinality.
LEMMA OneMore ==
    ASSUME NEW S, IsFiniteSet(S), NEW x, x \notin S
    PROVE  Cardinality(S \cup {x}) = Cardinality(S) + 1
BY FS_AddElement

\* A member less takes one off a cardinality.
LEMMA OneLess ==
    ASSUME NEW S, IsFiniteSet(S), NEW x \in S
    PROVE  Cardinality(S \ {x}) = Cardinality(S) - 1 /\ Cardinality(S) >= 1
<1>1. Cardinality(S) \in Nat /\ Cardinality(S \ {x}) = Cardinality(S) - 1
  BY FS_RemoveElement, FS_CardinalityType
<1>2. Cardinality(S) # 0
  BY FS_EmptySet
<1> QED  BY <1>1, <1>2

\* LoadInv at one backend.
LoadAt(b) ==
    /\ pending[b] <= Cardinality(Holders(b))
    /\ generation[b] <= 1 => pending[b] = Cardinality(Holders(b))
    /\ generation[b] = 0 => \A r \in Requests : worker[r] # b

\* The load invariant, backend by backend.
LEMMA LoadInvByBackend == LoadInv <=> \A b \in Backends : LoadAt(b)
BY DEF LoadInv, NoPhantomLoad, PendingIsExact, NeverRegisteredIsIdle, LoadAt

\* At the start nothing is pending and nobody holds a slot.
LEMMA LoadInit == Init => LoadInv
<1> SUFFICES ASSUME Init, NEW b \in Backends PROVE LoadAt(b)
  BY LoadInvByBackend
<1>1. Holders(b) = {}
  BY DEF Init, Holders, Active, JsonPhases, OpenPhases, StreamPhases
<1>2. Cardinality(Holders(b)) = 0
  BY <1>1, FS_EmptySet
<1>3. pending[b] = 0 /\ \A r \in Requests : worker[r] # b
  BY GatewayAssumption DEF Init, SchedInit
<1> QED  BY <1>2, <1>3 DEF LoadAt

\* The load invariant is inductive: pending moves with the holder sets.
LEMMA LoadStep == TypeOK /\ LoadInv /\ [Next]_vars => LoadInv'
<1> SUFFICES ASSUME TypeOK, LoadInv, [Next]_vars, NEW b \in Backends
             PROVE  LoadAt(b)'
  BY DEF LoadInv, NoPhantomLoad, PendingIsExact, NeverRegisteredIsIdle, LoadAt
<1>1. /\ pending \in [Backends -> Nat] /\ generation \in [Backends -> Nat]
      /\ worker \in [Requests -> Backends \cup {NoBackend}]
      /\ LoadAt(b)
  BY LoadInvByBackend DEF TypeOK, SchedTypeOK
<1>2. IsFiniteSet(Holders(b)) /\ Cardinality(Holders(b)) \in Nat
  BY HoldersFinite
<1>3. ASSUME UNCHANGED <<pending, generation, worker>>, Holders(b)' = Holders(b)
      PROVE  LoadAt(b)'
  BY <1>1, <1>3 DEF LoadAt
<1>4. ASSUME NEW r \in Requests, Admit(r) PROVE LoadAt(b)'
  <2>1. PICK c \in Backends :
           /\ generation[c] > 0 /\ MarkAdmitted(c) /\ UNCHANGED generation
           /\ r \notin Holders(b)
           /\ worker' = [worker EXCEPT ![r] = c]
           /\ Holders(b)' = IF b = c THEN Holders(b) \cup {r} ELSE Holders(b)
    BY <1>4, AdmitAcquires
  <2>2. b = c => Cardinality(Holders(b)') = Cardinality(Holders(b)) + 1
    BY <1>2, <2>1, OneMore
  <2> QED  BY <1>1, <1>2, <2>1, <2>2 DEF LoadAt, MarkAdmitted
<1>5. ASSUME NEW r \in Requests, Reject(r) PROVE LoadAt(b)'
  BY <1>5, <1>3, RejectKeeps
<1>6. ASSUME NEW r \in Requests, HandlerStep(r) PROVE LoadAt(b)'
  <2>1. phase[r] \in Active /\ worker[r] \in Backends
    BY <1>6, HandlerShape
  <2>2. ASSUME Suspends(r) PROVE LoadAt(b)'
    BY <1>3, <2>1, <2>2, GotoKeeps DEF Suspends, Goto
  <2>3. ASSUME NEW v, Goto(r, "done", v), UNCHANGED generation,
               pending' = [pending EXCEPT ![worker[r]] = Decremented(@)]
        PROVE  LoadAt(b)'
    <3>1. /\ r \in Holders(worker[r])
          /\ Holders(b)' = IF b = worker[r] THEN Holders(b) \ {r} ELSE Holders(b)
      BY <2>1, <2>3, GotoReturns
    <3>2. b = worker[r] => /\ Cardinality(Holders(b)') = Cardinality(Holders(b)) - 1
                           /\ Cardinality(Holders(b)) >= 1
      BY <1>2, <3>1, OneLess
    <3>3. UNCHANGED worker
      BY <2>3 DEF Goto
    <3> QED  BY <1>1, <1>2, <2>1, <2>3, <3>1, <3>2, <3>3 DEF LoadAt, Decremented
  <2>4. ASSUME Releases(r) PROVE LoadAt(b)'
    BY <2>3, <2>4 DEF Releases, Release
  <2>5. ASSUME Completes(r) PROVE LoadAt(b)'
    BY <2>3, <2>5 DEF Completes, FeedbackSuccess, CloseSlot
  <2>6. ASSUME Fails(r) PROVE LoadAt(b)'
    BY <2>3, <2>6 DEF Fails, FeedbackFailure, CloseSlot
  <2> QED  BY <1>6, <2>2, <2>4, <2>5, <2>6, HandlerShape
<1>7. ASSUME NEW c \in Backends, AddBackend(c) PROVE LoadAt(b)'
  <2>1. Holders(b)' = Holders(b) /\ UNCHANGED worker
    BY <1>7, ReqVarsKept DEF AddBackend, reqVars
  <2>2. generation[b] = 0 => Cardinality(Holders(b)) = 0
    <3>1. generation[b] = 0 => Holders(b) = {}
      BY <1>1 DEF LoadAt, Holders
    <3> QED  BY <3>1, FS_EmptySet
  <2> QED  BY <1>1, <1>2, <1>7, <2>1, <2>2 DEF AddBackend, Register, LoadAt
<1>8. ASSUME UNCHANGED <<pending, generation, reqVars>> PROVE LoadAt(b)'
  BY <1>3, <1>8, ReqVarsKept DEF reqVars
<1>9. ASSUME \/ HealthLoop \/ AdminReset \/ UNCHANGED vars
             \/ \E c \in Backends : EngineFlips(c)
      PROVE  LoadAt(b)'
  BY <1>8, <1>9 DEF HealthLoop, HealthSweep, ProbeAnswered, ProbeApplied, SetHealthy,
                    EngineFlips, AdminReset, ResetStats, vars, schedVars
<1> QED  BY <1>4, <1>5, <1>6, <1>7, <1>9 DEF Next

\* The load invariant holds in every reachable state.
LEMMA LoadCorrect == Spec => []LoadInv
BY TypeCorrect, LoadInit, LoadStep, PTL DEF Spec

\* pending never counts a slot that no request accounts for, even across
\* re-registrations of the backend.
THEOREM LoadNeverPhantom == Spec => []NoPhantomLoad
BY LoadCorrect, PTL DEF LoadInv

\* Until a backend id is registered again, pending is the number of requests
\* that occupy it: every path through the handlers returns the slot once.
THEOREM LoadExact == Spec => []PendingIsExact
BY LoadCorrect, PTL DEF LoadInv

-----------------------------------------------------------------------------
(* inflight_log.                                                           *)

\* An append lengthens the deque unless it is full.
LEMMA DequeLength ==
    ASSUME NEW q \in Seq(Nat), NEW x \in Nat
    PROVE  Len(DequeAppend(q, x)) = IF Len(q) < InflightCap THEN Len(q) + 1 ELSE Len(q)
<1>1. CASE Len(q) < InflightCap
  BY <1>1 DEF DequeAppend
<1>2. CASE ~(Len(q) < InflightCap)
  <2>1. q # <<>>
    BY <1>2, SchedulerAssumption
  <2>2. Tail(q) \in Seq(Nat) /\ Len(Tail(q)) = Len(q) - 1
    BY <2>1
  <2> QED  BY <1>2, <2>2 DEF DequeAppend
<1> QED  BY <1>1, <1>2

\* feedback's popleft shortens the log exactly as a guarded decrement.
LEMMA PoppedLength ==
    ASSUME NEW q \in Seq(Nat), NEW p \in Seq(Nat), p = (IF q = <<>> THEN q ELSE Tail(q))
    PROVE  Len(p) = Decremented(Len(q))
<1>1. CASE q = <<>>
  BY <1>1 DEF Decremented
<1>2. CASE q # <<>>
  BY <1>2 DEF Decremented
<1> QED  BY <1>1, <1>2

\* n requests pending, at most m at once so far, and a log of length l in a
\* deque of size c.
Covered(c, n, l, m) ==
    n <= m /\ l <= c /\ n <= l + (IF m > c THEN m - c ELSE 0)

\* The inductive invariant at one backend: ShortOnlyPastCap needs to know that
\* peak is one, and that the deque is bounded.
ShortAt(b) == Covered(InflightCap, pending[b], Len(inflight_log[b]), peak[b])

ShortInv == \A b \in Backends : ShortAt(b)

\* A request more: an entry more, or a full deque and a peak that accounts for
\* the one pushed out.
LEMMA ShortGrows ==
    ASSUME NEW c \in Nat, NEW n \in Nat, NEW l \in Nat, NEW m \in Nat, Covered(c, n, l, m)
    PROVE  Covered(c, n + 1, IF l < c THEN l + 1 ELSE l, IF m < n + 1 THEN n + 1 ELSE m)
<1>1. CASE l < c /\ m < n + 1
  BY <1>1 DEF Covered
<1>2. CASE l < c /\ ~(m < n + 1)
  BY <1>2 DEF Covered
<1>3. CASE ~(l < c) /\ m < n + 1
  BY <1>3 DEF Covered
<1>4. CASE ~(l < c) /\ ~(m < n + 1)
  BY <1>4 DEF Covered
<1> QED  BY <1>1, <1>2, <1>3, <1>4

\* A request less, with or without its entry.
LEMMA ShortShrinks ==
    ASSUME NEW c \in Nat, NEW n \in Nat, NEW l \in Nat, NEW m \in Nat, Covered(c, n, l, m)
    PROVE  Covered(c, Decremented(n), l, m) /\ Covered(c, Decremented(n), Decremented(l), m)
BY DEF Covered, Decremented

\* The log keeps up with pending, but for the excess.
LEMMA ShortStep == TypeOK /\ ShortInv /\ TypeOK' /\ [Next]_vars => ShortInv'
<1> SUFFICES ASSUME TypeOK, ShortInv, TypeOK', [Next]_vars, NEW b \in Backends
             PROVE  ShortAt(b)'
  BY DEF ShortInv
<1>1. /\ pending \in [Backends -> Nat] /\ pending'[b] \in Nat
      /\ peak \in [Backends -> Nat] /\ peak'[b] \in Nat
      /\ inflight_log \in [Backends -> Seq(Nat)] /\ inflight_log'[b] \in Seq(Nat)
      /\ Len(inflight_log[b]) \in Nat /\ Len(inflight_log'[b]) \in Nat
      /\ InflightCap \in Nat
      /\ ShortAt(b)
  BY SchedulerAssumption DEF TypeOK, SchedTypeOK, ShortInv
<1>2. ASSUME pending'[b] = pending[b], inflight_log'[b] = inflight_log[b], peak'[b] = peak[b]
      PROVE  ShortAt(b)'
  BY <1>1, <1>2 DEF ShortAt
<1>3. ASSUME NEW r \in Requests, Admit(r) PROVE ShortAt(b)'
  <2>1. PICK c \in Backends : MarkAdmitted(c)
    BY <1>3, AdmitAcquires
  <2>2. CASE b = c
    <3>1. /\ pending'[b] = pending[b] + 1
          /\ peak'[b] = IF peak[b] < pending[b] + 1 THEN pending[b] + 1 ELSE peak[b]
          /\ inflight_log'[b] = DequeAppend(inflight_log[b], pending[b] + 1)
      BY <1>1, <2>1, <2>2 DEF MarkAdmitted
    <3>2. Len(inflight_log'[b]) = IF Len(inflight_log[b]) < InflightCap
                                  THEN Len(inflight_log[b]) + 1 ELSE Len(inflight_log[b])
      BY <1>1, <3>1, DequeLength
    <3>3. Covered(InflightCap, pending[b], Len(inflight_log[b]), peak[b])
      BY <1>1 DEF ShortAt
    <3>4. Covered(InflightCap, pending[b] + 1,
                  IF Len(inflight_log[b]) < InflightCap
                  THEN Len(inflight_log[b]) + 1 ELSE Len(inflight_log[b]),
                  IF peak[b] < pending[b] + 1 THEN pending[b] + 1 ELSE peak[b])
      <4>1. pending[b] \in Nat /\ peak[b] \in Nat /\ Len(inflight_log[b]) \in Nat /\ InflightCap \in Nat
        BY <1>1
      <4> QED  BY ONLY <3>3, <4>1, ShortGrows
    <3>5. Covered(InflightCap, pending'[b], Len(inflight_log'[b]), peak'[b])
      BY ONLY <3>1, <3>2, <3>4
    <3> QED  BY ONLY <3>5 DEF ShortAt
  <2>3. CASE b # c
    BY <1>1, <1>2, <2>1, <2>3 DEF MarkAdmitted
  <2> QED  BY <2>2, <2>3
<1>4. ASSUME NEW r \in Requests, HandlerStep(r) PROVE ShortAt(b)'
  <2>1. worker[r] \in Backends
    BY <1>4, HandlerShape
  <2>2. ASSUME pending'[b] = Decremented(pending[b]), peak'[b] = peak[b],
               \/ Len(inflight_log'[b]) = Len(inflight_log[b])
               \/ Len(inflight_log'[b]) = Decremented(Len(inflight_log[b]))
        PROVE  ShortAt(b)'
    <3>1. Covered(InflightCap, pending[b], Len(inflight_log[b]), peak[b])
      BY <1>1 DEF ShortAt
    <3> QED  BY <1>1, <2>2, <3>1, ShortShrinks DEF ShortAt
  <2>3. ASSUME Suspends(r) PROVE ShortAt(b)'
    BY <1>2, <2>3 DEF Suspends
  <2>4. ASSUME Releases(r) PROVE ShortAt(b)'
    <3>1. /\ UNCHANGED <<peak, inflight_log>>
          /\ pending' = [pending EXCEPT ![worker[r]] = Decremented(@)]
      BY <2>4 DEF Releases, Release
    <3> QED  BY <1>1, <1>2, <2>1, <2>2, <3>1
  <2>5. ASSUME CloseSlot(worker[r]) PROVE ShortAt(b)'
    <3>1. CASE b = worker[r]
      <4>1. /\ pending'[b] = Decremented(pending[b])
            /\ inflight_log'[b] = IF inflight_log[b] = <<>> THEN inflight_log[b]
                                                           ELSE Tail(inflight_log[b])
            /\ UNCHANGED peak
        BY <1>1, <2>5, <3>1 DEF CloseSlot
      <4>2. Len(inflight_log'[b]) = Decremented(Len(inflight_log[b]))
        BY <1>1, <4>1, PoppedLength
      <4> QED  BY <2>2, <4>1, <4>2
    <3>2. CASE b # worker[r]
      BY <1>1, <1>2, <2>5, <3>2 DEF CloseSlot
    <3> QED  BY <3>1, <3>2
  <2> QED
    BY <1>4, <2>3, <2>4, <2>5, HandlerShape
       DEF Completes, Fails, FeedbackSuccess, FeedbackFailure
<1>5. ASSUME NEW c \in Backends, AddBackend(c) PROVE ShortAt(b)'
  <2>1. CASE b = c
    <3>1. pending'[b] = 0 /\ peak'[b] = 0 /\ inflight_log'[b] = <<>>
      BY <1>1, <1>5, <2>1 DEF AddBackend, Register
    <3>2. Len(inflight_log'[b]) = 0
      BY <3>1
    <3> QED  BY <1>1, <3>1, <3>2 DEF ShortAt, Covered
  <2>2. CASE b # c
    BY <1>1, <1>2, <1>5, <2>2 DEF AddBackend, Register
  <2> QED  BY <2>1, <2>2
<1>6. ASSUME \/ HealthLoop \/ AdminReset \/ UNCHANGED vars
             \/ \E c \in Backends : EngineFlips(c)
             \/ \E r \in Requests : Reject(r)
      PROVE  ShortAt(b)'
  BY <1>2, <1>6 DEF HealthLoop, HealthSweep, ProbeAnswered, ProbeApplied, SetHealthy,
                    EngineFlips, AdminReset, ResetStats, Reject, PickRaises, vars, schedVars
<1> QED  BY <1>3, <1>4, <1>5, <1>6 DEF Next

\* The log has an entry for every slot in use until more than InflightCap
\* requests are in flight at once, and is short by at most the excess then,
\* whatever release left in the deque.
THEOREM LogShortOnlyPastCap == Spec => []ShortOnlyPastCap
<1>1. Init => ShortInv
  <2>1. ASSUME Init, NEW b \in Backends PROVE ShortAt(b)
    <3>1. pending[b] = 0 /\ peak[b] = 0 /\ inflight_log[b] = <<>>
      BY <2>1 DEF Init, SchedInit
    <3>2. Len(inflight_log[b]) = 0
      BY <3>1
    <3> QED  BY <3>1, <3>2, SchedulerAssumption DEF ShortAt, Covered
  <2> QED  BY <2>1 DEF ShortInv
<1>2. ShortInv => ShortOnlyPastCap
  BY DEF ShortInv, ShortAt, Covered, ShortOnlyPastCap
<1> QED  BY <1>1, <1>2, TypeCorrect, ShortStep, PTL DEF Spec

-----------------------------------------------------------------------------
(* The property is about requests, the code about a counter.  StreakInv ties *)
(* the two: as long as the backend id is registered once, the streak never   *)
(* exceeds the number of requests that struck.  It needs GenInv: a request   *)
(* names a registration that has happened.                                   *)

GenInv ==
    \A r \in Requests : worker[r] # NoBackend => admitGen[r] \in 1..generation[worker[r]]

StreakInv ==
    \A b \in Backends :
        generation[b] <= 1 => fail_streak[b] <= Cardinality(Strikes(b, generation[b]))

\* The strikes against a registration can be counted.
LEMMA StrikesFinite ==
    \A b, g : IsFiniteSet(Strikes(b, g)) /\ Cardinality(Strikes(b, g)) \in Nat
<1> SUFFICES ASSUME NEW b, NEW g
             PROVE  IsFiniteSet(Strikes(b, g)) /\ Cardinality(Strikes(b, g)) \in Nat
  OBVIOUS
<1>1. Strikes(b, g) \subseteq Requests
  BY DEF Strikes
<1> QED  BY <1>1, FS_Subset, FS_CardinalityType, GatewayAssumption

\* No request carries a registration number at the start.
LEMMA GenInit == Init => GenInv
BY DEF Init, GenInv

\* A request never carries a registration number ahead of its backend's.
LEMMA GenStep == TypeOK /\ GenInv /\ [Next]_vars => GenInv'
<1> SUFFICES ASSUME TypeOK, GenInv, [Next]_vars PROVE GenInv'
  OBVIOUS
<1>1. /\ worker \in [Requests -> Backends \cup {NoBackend}]
      /\ generation \in [Backends -> Nat]
      /\ admitGen \in [Requests -> Nat]
  BY DEF TypeOK, SchedTypeOK
<1>2. ASSUME UNCHANGED <<worker, admitGen, generation>> PROVE GenInv'
  BY <1>2 DEF GenInv
<1>3. ASSUME NEW r \in Requests, Admit(r) PROVE GenInv'
  <2>1. PICK b \in Backends :
           /\ worker' = [worker EXCEPT ![r] = b]
           /\ admitGen' = [admitGen EXCEPT ![r] = generation[b]]
           /\ generation[b] > 0 /\ UNCHANGED generation
    BY <1>3 DEF Admit, PickReturns, HealthyIds, Registered
  <2> QED  BY <1>1, <2>1 DEF GenInv
<1>4. ASSUME NEW b \in Backends, AddBackend(b) PROVE GenInv'
  <2>1. /\ UNCHANGED <<worker, admitGen>>
        /\ generation' = [generation EXCEPT ![b] = @ + 1]
    BY <1>4 DEF AddBackend, Register, reqVars
  <2>2. \A c \in Backends : generation'[c] \in Nat /\ generation'[c] >= generation[c]
    BY <1>1, <2>1
  <2> QED  BY <1>1, <2>1, <2>2 DEF GenInv
<1>5. ASSUME NEW r \in Requests, HandlerStep(r) PROVE GenInv'
  BY <1>2, <1>5, HandlerShape
     DEF Suspends, Releases, Completes, Fails, Goto, Release, FeedbackSuccess, FeedbackFailure
<1>6. ASSUME \/ HealthLoop \/ AdminReset \/ UNCHANGED vars
             \/ \E c \in Backends : EngineFlips(c)
             \/ \E r \in Requests : Reject(r)
      PROVE  GenInv'
  BY <1>2, <1>6 DEF HealthLoop, HealthSweep, ProbeAnswered, ProbeApplied, SetHealthy,
                    EngineFlips, AdminReset, ResetStats, Reject, PickRaises, Goto,
                    vars, schedVars, reqVars
<1> QED  BY <1>3, <1>4, <1>5, <1>6 DEF Next

\* A handler's step loses no strike, and a strike it makes is a new one.
LEMMA GotoStrikes ==
    ASSUME TypeOK, NEW r \in Requests, phase[r] \in Active, NEW p, NEW v,
           Goto(r, p, v), KeepsStrike(r, v), NEW b, NEW g
    PROVE  /\ Strikes(b, g) \subseteq Strikes(b, g)'
           /\ (v = "aborted" /\ verdict[r] # "aborted") \/ (v = "5xx" /\ p = "done")
                => /\ r \notin Strikes(worker[r], admitGen[r])
                   /\ r \in Strikes(worker[r], admitGen[r])'
<1>1. \A q \in Requests : /\ q # r => phase'[q] = phase[q] /\ verdict'[q] = verdict[q]
                          /\ worker'[q] = worker[q] /\ admitGen'[q] = admitGen[q]
                          /\ phase'[r] = p /\ verdict'[r] = v
  BY DEF TypeOK, Goto
<1>2. phase[r] # "done"
  BY DEF Active, JsonPhases, OpenPhases, StreamPhases
<1> QED  BY <1>1, <1>2 DEF Strikes, KeepsStrike

\* At the start _fail_streak and the strikes are both zero.
LEMMA StreakInit == Init => StreakInv
<1> SUFFICES ASSUME Init, NEW b \in Backends
             PROVE  fail_streak[b] <= Cardinality(Strikes(b, generation[b]))
  BY DEF StreakInv
<1>1. fail_streak[b] = 0
  BY DEF Init, SchedInit
<1> QED  BY <1>1, StrikesFinite

\* note_failure raises _fail_streak only together with a new strike; every
\* other step leaves both alone or resets the streak.
LEMMA StreakStep == TypeOK /\ GenInv /\ StreakInv /\ TypeOK' /\ [Next]_vars => StreakInv'
<1> SUFFICES ASSUME TypeOK, GenInv, StreakInv, TypeOK', [Next]_vars,
                    NEW b \in Backends, generation'[b] <= 1
             PROVE  fail_streak'[b] <= Cardinality(Strikes(b, generation[b])')
  BY DEF StreakInv
<1> DEFINE S == Strikes(b, generation[b])
           Goal == fail_streak'[b] <= Cardinality(S')
<1>1. /\ fail_streak \in [Backends -> Nat] /\ fail_streak' \in [Backends -> Nat]
      /\ generation \in [Backends -> Nat]
  BY DEF TypeOK, SchedTypeOK
<1>2. IsFiniteSet(S) /\ Cardinality(S) \in Nat /\ IsFiniteSet(S') /\ Cardinality(S') \in Nat
  <2>1. IsFiniteSet(S) /\ Cardinality(S) \in Nat
    BY StrikesFinite
  <2>2. S' \subseteq Requests
    BY DEF Strikes
  <2> QED  BY <2>1, <2>2, FS_Subset, FS_CardinalityType, GatewayAssumption
<1>3. ASSUME fail_streak'[b] = 0 PROVE Goal
  BY <1>2, <1>3
<1>4. ASSUME fail_streak'[b] = fail_streak[b], UNCHANGED generation, S \subseteq S'
      PROVE  Goal
  <2>1. Cardinality(S) <= Cardinality(S')
    BY <1>2, <1>4, FS_Subset
  <2> QED  BY <1>1, <1>2, <1>4, <2>1 DEF StreakInv
<1>5. ASSUME NEW r \in Requests, Admit(r) PROVE Goal
  <2>1. PICK c \in Backends, p \in {"forwarding", "opening"} :
           /\ worker' = [worker EXCEPT ![r] = c]
           /\ admitGen' = [admitGen EXCEPT ![r] = generation[c]]
           /\ phase' = [phase EXCEPT ![r] = p]
           /\ UNCHANGED <<verdict, generation, fail_streak>>
           /\ phase[r] = "new"
    BY <1>5 DEF Admit, PickReturns
  <2>2. verdict[r] = "none"
    BY <2>1 DEF TypeOK, VerdictFits
  <2>3. S \subseteq S'
    BY <2>1, <2>2 DEF Strikes, TypeOK
  <2> QED  BY <1>4, <2>1, <2>3
<1>6. ASSUME NEW r \in Requests, Reject(r) PROVE Goal
  <2>1. /\ phase[r] = "new" /\ Goto(r, "rejected", "none")
        /\ UNCHANGED <<generation, fail_streak>>
    BY <1>6 DEF Reject, PickRaises
  <2>2. verdict[r] = "none"
    BY <2>1 DEF TypeOK, VerdictFits
  <2>3. S \subseteq S'
    BY <2>1, <2>2 DEF Strikes, TypeOK, Goto
  <2> QED  BY <1>4, <2>1, <2>3
<1>7. ASSUME NEW r \in Requests, HandlerStep(r) PROVE Goal
  <2>1. phase[r] \in Active /\ worker[r] \in Backends
    BY <1>7, HandlerShape
  <2>2. ASSUME NEW p, NEW v, Goto(r, p, v), KeepsStrike(r, v), UNCHANGED generation
        PROVE  S \subseteq S'
    <3>1. PICK g : g = generation[b]
      OBVIOUS
    <3>2. S = Strikes(b, g) /\ S' = Strikes(b, g)'
      BY <2>2, <3>1 DEF Strikes
    <3> QED  BY <2>1, <2>2, <3>2, GotoStrikes
  <2>3. ASSUME NEW p, NEW v, Goto(r, p, v), KeepsStrike(r, v), Strike(r, p, v),
               UNCHANGED generation
        PROVE  Goal
    <3>1. CASE UNCHANGED <<healthy, fail_streak>>
      BY <1>4, <2>2, <2>3, <3>1
    <3>2. CASE NoteFailure(worker[r]) /\ worker[r] # b
      <4>1. fail_streak'[b] = fail_streak[b]
        BY <1>1, <3>2 DEF NoteFailure
      <4> QED  BY <1>4, <2>2, <2>3, <4>1
    <3>3. CASE /\ NoteFailure(worker[r]) /\ worker[r] = b
               /\ \/ v = "aborted" /\ verdict[r] # "aborted"
                  \/ v = "5xx" /\ p = "done"
      <4>1. fail_streak'[b] = fail_streak[b] + 1
        BY <1>1, <3>3 DEF NoteFailure
      <4>2. admitGen[r] = generation[b]
        BY <1>1, <2>1, <2>3, <3>3, GatewayAssumption DEF GenInv
      <4>3. r \notin S /\ r \in S' /\ S \subseteq S'
        <5>1. /\ r \notin Strikes(worker[r], admitGen[r])
              /\ r \in Strikes(worker[r], admitGen[r])'
          BY <2>1, <2>3, <3>3, GotoStrikes
        <5>2. worker'[r] = b /\ admitGen'[r] = generation'[b]
          BY <2>3, <3>3, <4>2 DEF Goto
        <5> QED  BY <2>2, <2>3, <3>3, <4>2, <5>1, <5>2 DEF Strikes
      <4>4. Cardinality(S \cup {r}) = Cardinality(S) + 1
        BY <1>2, <4>3, OneMore
      <4>5. Cardinality(S \cup {r}) <= Cardinality(S')
        BY <1>2, <4>3, FS_Subset
      <4>6. fail_streak[b] <= Cardinality(S)
        BY <2>3 DEF StreakInv
      <4> QED  BY <1>1, <1>2, <4>1, <4>4, <4>5, <4>6
    <3> QED  BY <2>3, <3>1, <3>2, <3>3 DEF Strike
  <2>4. ASSUME Suspends(r) PROVE Goal
    BY <2>3, <2>4 DEF Suspends
  <2>5. ASSUME Fails(r) PROVE Goal
    BY <2>3, <2>5 DEF Fails, FeedbackFailure
  <2>6. ASSUME Releases(r) PROVE Goal
    BY <1>4, <2>2, <2>6 DEF Releases, Release
  <2>7. ASSUME Completes(r) PROVE Goal
    <3>1. PICK v : /\ Goto(r, "done", v) /\ KeepsStrike(r, v) /\ UNCHANGED generation
                   /\ fail_streak' = [fail_streak EXCEPT ![worker[r]] = 0]
      BY <2>7 DEF Completes, FeedbackSuccess
    <3>2. fail_streak'[b] = 0 \/ fail_streak'[b] = fail_streak[b]
      BY <1>1, <2>1, <3>1
    <3> QED  BY <1>3, <1>4, <2>2, <3>1, <3>2
  <2> QED  BY <1>7, <2>4, <2>5, <2>6, <2>7, HandlerShape
<1>8. ASSUME NEW c \in Backends, AddBackend(c) PROVE Goal
  <2>1. /\ UNCHANGED <<fail_streak, reqVars>>
        /\ generation' = [generation EXCEPT ![c] = @ + 1]
    BY <1>8 DEF AddBackend, Register
  <2>2. CASE b = c
    <3>1. generation[b] = 0
      BY <1>1, <2>1, <2>2
    <3>2. S = {}
      BY <1>1, <3>1, GatewayAssumption DEF Strikes, GenInv, TypeOK
    <3>3. fail_streak[b] = 0
      BY <1>1, <3>1, <3>2, FS_EmptySet DEF StreakInv
    <3> QED  BY <1>3, <2>1, <3>3
  <2>3. CASE b # c
    <3>1. generation'[b] = generation[b] /\ S' = S
      BY <1>1, <2>1, <2>3 DEF Strikes, reqVars
    <3> QED  BY <2>1, <3>1 DEF StreakInv
  <2> QED  BY <2>2, <2>3
<1>9. ASSUME \/ HealthLoop \/ AdminReset \/ UNCHANGED vars
             \/ \E c \in Backends : EngineFlips(c)
      PROVE  Goal
  <2>1. /\ UNCHANGED <<reqVars, generation>>
        /\ fail_streak'[b] = 0 \/ fail_streak'[b] = fail_streak[b]
    <3>1. CASE ProbeApplied
      BY <1>1, <3>1 DEF ProbeApplied, SetHealthy
    <3>2. CASE AdminReset
      BY <3>2 DEF AdminReset, ResetStats
    <3> QED  BY <1>9, <3>1, <3>2 DEF HealthLoop, HealthSweep, ProbeAnswered, EngineFlips,
                                     vars, schedVars
  <2>2. S' = S
    BY <2>1 DEF Strikes, reqVars
  <2> QED  BY <1>3, <1>4, <2>1, <2>2
<1> QED  BY <1>5, <1>6, <1>7, <1>8, <1>9 DEF Next

\* A step that takes a backend out of rotation applies a failed probe, or
\* is a note_failure that finds enough strikes.
LEMMA EvictionStep ==
    TypeOK /\ StreakInv' /\ [Next]_vars
      => \A b \in Backends : generation[b] <= 1 => EvictedBy(b, FailThreshold)
<1> SUFFICES ASSUME TypeOK, StreakInv', [Next]_vars, NEW b \in Backends,
                    generation[b] <= 1, healthy[b], ~healthy'[b]
             PROVE  \/ probe = [backend |-> b, ok |-> FALSE] /\ probe' = NoProbe
                    \/ Cardinality(Strikes(b, generation[b])') >= FailThreshold
  BY DEF EvictedBy
<1> DEFINE Goal == \/ probe = [backend |-> b, ok |-> FALSE] /\ probe' = NoProbe
                   \/ Cardinality(Strikes(b, generation[b])') >= FailThreshold
<1>1. healthy \in [Backends -> BOOLEAN] /\ fail_streak \in [Backends -> Nat]
  BY DEF TypeOK, SchedTypeOK
<1>2. ASSUME UNCHANGED healthy PROVE FALSE
  BY <1>2
<1>3. ASSUME NEW c \in Backends, NoteFailure(c), UNCHANGED generation PROVE Goal
  <2>1. fail_streak' = [fail_streak EXCEPT ![c] = fail_streak[c] + 1]
    BY <1>3 DEF NoteFailure
  <2>2. c = b /\ ~(fail_streak[c] + 1 < FailThreshold)
    BY <1>1, <1>3, Zenon DEF NoteFailure
  <2>3. fail_streak'[b] >= FailThreshold /\ fail_streak'[b] \in Nat
    BY <1>1, <2>1, <2>2, SchedulerAssumption
  <2>4. fail_streak'[b] <= Cardinality(Strikes(b, generation[b])')
    BY <1>3 DEF StreakInv
  <2>5. Cardinality(Strikes(b, generation[b])') \in Nat
    <3>1. Strikes(b, generation[b])' \subseteq Requests
      BY DEF Strikes
    <3> QED  BY <3>1, FS_Subset, FS_CardinalityType, GatewayAssumption
  <2> QED  BY <2>3, <2>4, <2>5, SchedulerAssumption
<1>4. ASSUME NEW r \in Requests, HandlerStep(r) PROVE Goal
  BY <1>2, <1>3, <1>4, HandlerShape
     DEF Suspends, Releases, Completes, Fails, Strike, Release, FeedbackSuccess, FeedbackFailure
<1>5. ASSUME ProbeApplied PROVE Goal
  <2>1. /\ probe # NoProbe /\ probe' = NoProbe
        /\ healthy' = [healthy EXCEPT ![probe.backend] = probe.ok]
    BY <1>5 DEF ProbeApplied, SetHealthy
  <2>2. probe \in [backend : Backends, ok : BOOLEAN]
    BY <2>1 DEF TypeOK
  <2>3. probe.backend = b /\ probe.ok = FALSE
    BY <1>1, <2>1, <2>2
  <2> QED  BY <2>1, <2>2, <2>3
<1>6. ASSUME NEW c \in Backends, AddBackend(c) PROVE FALSE
  BY <1>1, <1>6 DEF AddBackend, Register
<1>7. ASSUME \/ HealthSweep \/ AdminReset \/ UNCHANGED vars
             \/ \E c \in Backends : ProbeAnswered(c) \/ EngineFlips(c)
             \/ \E r \in Requests : Admit(r) \/ Reject(r)
      PROVE  FALSE
  BY <1>2, <1>7 DEF HealthSweep, ProbeAnswered, EngineFlips, AdminReset, ResetStats,
                    Admit, PickReturns, Reject, PickRaises, vars, schedVars
<1> QED  BY <1>4, <1>5, <1>6, <1>7 DEF Next, HealthLoop

\* note_failure's promise: until the backend id is registered again, requests
\* take it out of rotation only after FailThreshold of them failed on it.
THEOREM EvictionEarned == Spec => EvictionIsEarned
<1>1. Spec => [](GenInv /\ StreakInv)
  BY TypeCorrect, GenInit, GenStep, StreakInit, StreakStep, PTL DEF Spec
<1> QED  BY <1>1, TypeCorrect, EvictionStep, PTL DEF Spec, EvictionIsEarned
=============================================================================
