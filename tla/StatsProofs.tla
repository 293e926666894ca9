----------------------------- MODULE StatsProofs -----------------------------
(* The counters of /debug/admission are cardinalities of sets of requests,   *)
(* so the proof follows how each kind of step moves those sets.              *)
EXTENDS LedgerProofs

-----------------------------------------------------------------------------
(* The sets of requests that are counted.                                   *)

PastPick == {r \in Requests : worker[r] # NoBackend}
TurnedAway == {r \in Requests : phase[r] = "rejected"}
Over(vs) == {r \in Requests : phase[r] = "done" /\ verdict[r] \in vs}

\* S' is S, or S with the new member r.
Grows(new, old, r, joins) ==
    IF joins THEN r \notin old /\ new = old \cup {r} ELSE new = old

\* Every counted set is a finite set of requests.
LEMMA CountedFinite ==
    /\ IsFiniteSet(PastPick) /\ IsFiniteSet(TurnedAway)
    /\ \A vs : IsFiniteSet(Over(vs))
<1>1. /\ PastPick \subseteq Requests /\ TurnedAway \subseteq Requests
      /\ \A vs : Over(vs) \subseteq Requests
  BY DEF PastPick, TurnedAway, Over
<1> QED  BY <1>1, FS_Subset, FS_CardinalityType, GatewayAssumption

\* The cardinality of a set that may gain one member.
LEMMA GrowsByOne ==
    ASSUME NEW old, IsFiniteSet(old), NEW new, NEW r, NEW joins \in BOOLEAN,
           Grows(new, old, r, joins)
    PROVE  Cardinality(new) = IF joins THEN Cardinality(old) + 1 ELSE Cardinality(old)
BY OneMore DEF Grows

\* A handler that suspends again, or leaks, moves no counted set.
LEMMA SuspendCounts ==
    ASSUME TypeOK, NEW r \in Requests, phase[r] \in Active, Suspends(r)
    PROVE  /\ PastPick' = PastPick /\ TurnedAway' = TurnedAway
           /\ \A vs : Over(vs)' = Over(vs)
<1>1. PICK p \in Active \cup {"leaked"}, v \in Verdicts : Goto(r, p, v)
  BY DEF Suspends
<1>2. \A q \in Requests : /\ q # r => phase'[q] = phase[q] /\ verdict'[q] = verdict[q]
                          /\ worker'[q] = worker[q]
                          /\ phase'[r] = p
  BY <1>1 DEF Goto, TypeOK
<1>3. p \notin {"done", "rejected"} /\ phase[r] \notin {"done", "rejected"}
  BY DEF Active, JsonPhases, OpenPhases, StreamPhases
<1> QED  BY <1>2, <1>3 DEF PastPick, TurnedAway, Over

\* A handler that ends joins the set of its verdict.
LEMMA DoneCounts ==
    ASSUME TypeOK, NEW r \in Requests, phase[r] \in Active, NEW v, Goto(r, "done", v)
    PROVE  /\ PastPick' = PastPick /\ TurnedAway' = TurnedAway
           /\ \A vs : Grows(Over(vs)', Over(vs), r, v \in vs)
<1>1. \A q \in Requests : /\ q # r => phase'[q] = phase[q] /\ verdict'[q] = verdict[q]
                          /\ worker'[q] = worker[q]
                          /\ phase'[r] = "done" /\ verdict'[r] = v
  BY DEF Goto, TypeOK
<1>2. phase[r] \notin {"done", "rejected"}
  BY DEF Active, JsonPhases, OpenPhases, StreamPhases
<1>3. PastPick' = PastPick /\ TurnedAway' = TurnedAway
  BY <1>1, <1>2 DEF PastPick, TurnedAway
<1>4. \A vs : Grows(Over(vs)', Over(vs), r, v \in vs)
  BY <1>1, <1>2 DEF Over, Grows
<1> QED  BY <1>3, <1>4

\* An admitted request joins the ones past pick.
LEMMA AdmitCounts ==
    ASSUME TypeOK, NEW r \in Requests, Admit(r)
    PROVE  /\ Grows(PastPick', PastPick, r, TRUE) /\ TurnedAway' = TurnedAway
           /\ \A vs : Over(vs)' = Over(vs)
<1>1. PICK b \in Backends, p \in {"forwarding", "opening"} :
         /\ phase' = [phase EXCEPT ![r] = p]
         /\ worker' = [worker EXCEPT ![r] = b]
  BY DEF Admit
<1>2. phase[r] = "new" /\ worker[r] = NoBackend /\ UNCHANGED verdict /\ b # NoBackend
  BY GatewayAssumption DEF Admit, TypeOK
<1>3. \A q \in Requests : /\ q # r => phase'[q] = phase[q] /\ worker'[q] = worker[q]
                          /\ phase'[r] = p /\ worker'[r] = b
  BY <1>1 DEF TypeOK
<1>4. Grows(PastPick', PastPick, r, TRUE)
  BY <1>2, <1>3 DEF PastPick, Grows
<1>5. TurnedAway' = TurnedAway /\ \A vs : Over(vs)' = Over(vs)
  BY <1>2, <1>3 DEF TurnedAway, Over
<1> QED  BY <1>4, <1>5

\* A rejected request joins the ones turned away.
LEMMA RejectCounts ==
    ASSUME TypeOK, NEW r \in Requests, Reject(r)
    PROVE  /\ PastPick' = PastPick /\ Grows(TurnedAway', TurnedAway, r, TRUE)
           /\ \A vs : Over(vs)' = Over(vs)
<1>1. phase[r] = "new" /\ Goto(r, "rejected", "none")
  BY DEF Reject
<1>2. \A q \in Requests : /\ q # r => phase'[q] = phase[q] /\ verdict'[q] = verdict[q]
                          /\ worker'[q] = worker[q]
                          /\ phase'[r] = "rejected"
  BY <1>1 DEF Goto, TypeOK
<1>3. PastPick' = PastPick
  BY <1>1, <1>2 DEF PastPick
<1> QED  BY <1>1, <1>2, <1>3 DEF TurnedAway, Over, Grows

\* A step that leaves the requests alone moves no counted set.
LEMMA KeptCounts ==
    ASSUME UNCHANGED reqVars
    PROVE  /\ PastPick' = PastPick /\ TurnedAway' = TurnedAway
           /\ \A vs : Over(vs)' = Over(vs)
BY DEF reqVars, PastPick, TurnedAway, Over

-----------------------------------------------------------------------------
(* The admission counters.                                                  *)

Failures == {"4xx", "5xx", "aborted", "hung_up"}

\* What each counter counts between resets, client errors and hang-ups included
\* in failed_total: StatsAddUp is not inductive, its bounds on that counter are
\* too weak.
Tally ==
    /\ admission["admitted"] = Cardinality(PastPick)
    /\ admission["rejected_slo"] + admission["rejected_no_worker"] = Cardinality(TurnedAway)
    /\ admission["completed_under_slo"] = Cardinality(Over({"under"}))
    /\ admission["completed_over_slo"] = Cardinality(Over({"over"}))
    /\ admission["completed_total"] = Cardinality(Over(Successes))
    /\ admission["failed_total"] = Cardinality(Over(Failures))

TallyInv == resets = 0 => Tally

\* Counters that tally with the counted sets add up.
LEMMA TallyAddsUp == TallyInv => StatsAddUp
<1>1. EngineFailures \subseteq Failures /\ EngineFailures \cup {"4xx", "hung_up"} = Failures
  BY DEF EngineFailures, Failures
<1>2. Over(EngineFailures) \subseteq Over(Failures)
  BY <1>1 DEF Over
<1>3. IsFiniteSet(Over(Failures)) /\ IsFiniteSet(Over(EngineFailures))
  BY CountedFinite
<1>4. /\ Cardinality(Over(EngineFailures)) <= Cardinality(Over(Failures))
      /\ Cardinality(Over(Failures)) \in Nat
  BY <1>2, <1>3, FS_Subset, FS_CardinalityType
<1> QED
  BY <1>1, <1>4 DEF TallyInv, StatsAddUp, Tally, PastPick, TurnedAway, Over

\* The counters after += 1 on each one of cs.
LEMMA Counted ==
    ASSUME NEW cs, Count(cs)
    PROVE  \A c \in Counters :
              admission'[c] = IF c \in cs THEN admission[c] + 1 ELSE admission[c]
BY DEF Count

\* Every step moves a counter exactly when it moves the set it counts; a reset
\* empties the counters and ends the claim.
LEMMA StatsStep == TypeOK /\ TallyInv /\ [Next]_vars => TallyInv'
<1> SUFFICES ASSUME TypeOK, TallyInv, [Next]_vars, resets' = 0
             PROVE  Tally'
  BY DEF TallyInv
<1>1. resets \in Nat /\ admission \in [Counters -> Nat]
  BY DEF TypeOK, SchedTypeOK
<1>2. resets = 0 => Tally
  BY DEF TallyInv
<1>3. ASSUME UNCHANGED <<admission, resets>>, PastPick' = PastPick,
             TurnedAway' = TurnedAway, \A vs : Over(vs)' = Over(vs)
      PROVE  Tally'
  BY <1>2, <1>3 DEF Tally
<1>4. ASSUME NEW r \in Requests, Admit(r) PROVE Tally'
  <2>1. Count({"admitted"}) /\ resets' = resets
    BY <1>4, AdmitAcquires
  <2>2. /\ \A vs : Over(vs)' = Over(vs)
        /\ TurnedAway' = TurnedAway
        /\ Cardinality(PastPick') = Cardinality(PastPick) + 1
    BY <1>4, AdmitCounts, GrowsByOne, CountedFinite
  <2>3. /\ admission'["admitted"] = admission["admitted"] + 1
        /\ \A c \in Counters \ {"admitted"} : admission'[c] = admission[c]
    BY <2>1, Counted DEF Counters
  <2> QED  BY <1>2, <2>1, <2>2, <2>3 DEF Tally, Counters
<1>5. ASSUME NEW r \in Requests, Reject(r) PROVE Tally'
  <2>1. PICK c \in {"rejected_slo", "rejected_no_worker"} : Count({c}) /\ resets' = resets
    BY <1>5 DEF Reject, PickRaises
  <2>2. /\ \A vs : Over(vs)' = Over(vs)
        /\ PastPick' = PastPick
        /\ Cardinality(TurnedAway') = Cardinality(TurnedAway) + 1
    BY <1>5, RejectCounts, GrowsByOne, CountedFinite
  <2>3. /\ admission'[c] = admission[c] + 1
        /\ \A d \in Counters \ {c} : admission'[d] = admission[d]
    BY <2>1, Counted DEF Counters
  <2>4. admission'["rejected_slo"] + admission'["rejected_no_worker"]
          = admission["rejected_slo"] + admission["rejected_no_worker"] + 1
    BY <1>1, <2>3 DEF Counters
  <2>5. \A d \in Counters \ {"rejected_slo", "rejected_no_worker"} :
           admission'[d] = admission[d]
    BY <2>3
  <2> QED  BY <1>2, <2>1, <2>2, <2>4, <2>5 DEF Tally, Counters
<1>6. ASSUME NEW r \in Requests, HandlerStep(r) PROVE Tally'
  <2>1. phase[r] \in Active /\ worker[r] \in Backends
    BY <1>6, HandlerShape
  <2>2. ASSUME Suspends(r) PROVE Tally'
    BY <1>3, <2>1, <2>2, SuspendCounts DEF Suspends
  <2>3. ASSUME NEW v, Goto(r, "done", v)
        PROVE  /\ PastPick' = PastPick /\ TurnedAway' = TurnedAway
               /\ \A vs : v \in vs => Cardinality(Over(vs)') = Cardinality(Over(vs)) + 1
               /\ \A vs : v \notin vs => Over(vs)' = Over(vs)
    <3>1. /\ PastPick' = PastPick /\ TurnedAway' = TurnedAway
          /\ \A vs : Grows(Over(vs)', Over(vs), r, v \in vs)
      BY <2>1, <2>3, DoneCounts
    <3> QED  BY <3>1, CountedFinite, OneMore DEF Grows
  <2>4. ASSUME Releases(r) PROVE Tally'
    <3>1. PICK v \in Returned : Goto(r, "done", v) /\ Release(worker[r])
      BY <2>4 DEF Releases
    <3>2. UNCHANGED <<admission, resets>>
      BY <3>1 DEF Release
    <3>3. v \notin {"under"} /\ v \notin {"over"} /\ v \notin Successes /\ v \notin Failures
      BY <3>1 DEF Returned, Successes, Failures
    <3> QED  BY <1>2, <2>3, <3>1, <3>2, <3>3 DEF Tally
  <2>5. ASSUME Completes(r) PROVE Tally'
    <3>1. PICK v \in Successes : Goto(r, "done", v) /\ FeedbackSuccess(worker[r], v = "under")
      BY <2>5 DEF Completes
    <3>2. /\ Count({"completed_total",
                    IF v = "under" THEN "completed_under_slo" ELSE "completed_over_slo"})
          /\ resets' = resets
      BY <3>1 DEF FeedbackSuccess
    <3>3. /\ admission'["completed_total"] = admission["completed_total"] + 1
          /\ admission'["completed_under_slo"]
               = IF v = "under" THEN admission["completed_under_slo"] + 1
                                ELSE admission["completed_under_slo"]
          /\ admission'["completed_over_slo"]
               = IF v = "under" THEN admission["completed_over_slo"]
                                ELSE admission["completed_over_slo"] + 1
          /\ \A c \in {"admitted", "rejected_slo", "rejected_no_worker", "failed_total"} :
                admission'[c] = admission[c]
      BY <3>2, Counted DEF Counters
    <3>4. v \in Successes /\ v \notin Failures /\ (v = "under" \/ v = "over")
      BY <3>1 DEF Successes, Failures
    <3>5. /\ Cardinality(Over(Successes)') = Cardinality(Over(Successes)) + 1
          /\ Over(Failures)' = Over(Failures)
          /\ PastPick' = PastPick /\ TurnedAway' = TurnedAway
      BY <2>3, <3>1, <3>4
    <3>6. /\ Cardinality(Over({"under"})') = IF v = "under" THEN Cardinality(Over({"under"})) + 1
                                                           ELSE Cardinality(Over({"under"}))
          /\ Cardinality(Over({"over"})') = IF v = "under" THEN Cardinality(Over({"over"}))
                                                          ELSE Cardinality(Over({"over"})) + 1
      BY <2>3, <3>1, <3>4
    <3> QED  BY <1>2, <3>2, <3>3, <3>4, <3>5, <3>6 DEF Tally
  <2>6. ASSUME Fails(r) PROVE Tally'
    <3>1. PICK v \in Failures : Goto(r, "done", v) /\ FeedbackFailure(worker[r])
      BY <2>6 DEF Fails, Failures
    <3>2. Count({"failed_total"}) /\ resets' = resets
      BY <3>1 DEF FeedbackFailure
    <3>3. /\ admission'["failed_total"] = admission["failed_total"] + 1
          /\ \A c \in Counters \ {"failed_total"} : admission'[c] = admission[c]
      BY <3>2, Counted DEF Counters
    <3>4. v \in Failures /\ v \notin {"under"} /\ v \notin {"over"} /\ v \notin Successes
      BY <3>1 DEF Successes, Failures
    <3>5. /\ Cardinality(Over(Failures)') = Cardinality(Over(Failures)) + 1
          /\ Over(Successes)' = Over(Successes)
          /\ Over({"under"})' = Over({"under"}) /\ Over({"over"})' = Over({"over"})
          /\ PastPick' = PastPick /\ TurnedAway' = TurnedAway
      BY <2>3, <3>1, <3>4
    <3> QED  BY <1>2, <3>2, <3>3, <3>5 DEF Tally, Counters
  <2> QED  BY <1>6, <2>2, <2>4, <2>5, <2>6, HandlerShape
<1>7. ~AdminReset
  BY <1>1 DEF AdminReset, ResetStats
<1>8. ASSUME UNCHANGED <<admission, resets, reqVars>> PROVE Tally'
  BY <1>3, <1>8, KeptCounts
<1>9. ASSUME \/ HealthLoop \/ UNCHANGED vars
             \/ \E c \in Backends : EngineFlips(c) \/ AddBackend(c)
      PROVE  Tally'
  BY <1>8, <1>9 DEF HealthLoop, HealthSweep, ProbeAnswered, ProbeApplied, SetHealthy,
                    EngineFlips, AddBackend, Register, vars, schedVars
<1> QED  BY <1>4, <1>5, <1>6, <1>7, <1>9 DEF Next

\* Between resets /debug/admission accounts for every request exactly once,
\* whichever path its handler took.
THEOREM StatsCorrect == Spec => []StatsAddUp
<1>1. Init => TallyInv
  <2> SUFFICES ASSUME Init PROVE Tally
    BY DEF TallyInv
  <2>1. PastPick = {} /\ TurnedAway = {} /\ \A vs : Over(vs) = {}
    BY DEF Init, PastPick, TurnedAway, Over
  <2>2. \A c \in Counters : admission[c] = 0
    BY DEF Init, SchedInit, AdmissionStats
  <2> QED  BY <2>1, <2>2, FS_EmptySet DEF Tally, Counters
<1> QED  BY <1>1, TypeCorrect, StatsStep, TallyAddsUp, PTL DEF Spec
=============================================================================
