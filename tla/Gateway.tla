------------------------------- MODULE Gateway -------------------------------
(***************************************************************************)
(* The coroutines of dio-serve/src/dio/gateway.py on one asyncio event loop: *)
(* one handler per request (_proxy_json, or _relay_stream and its Ollama     *)
(* twin _proxy_ollama_stream), the health loop, and the admin endpoints.     *)
(* A step runs from one await to the next; module Scheduler supplies what    *)
(* the scheduler calls inside the step do.                                   *)
(*                                                                         *)
(* A stream ends in gen()'s finally block, which awaits upstream.aclose()    *)
(* before it returns the slot, and the verdict is what gen() knows by then.  *)
(***************************************************************************)
EXTENDS Scheduler, FiniteSets

CONSTANTS Requests,   \* the requests clients send, each handled once
          NoBackend   \* worker of a request that holds no backend yet

ASSUME GatewayAssumption ==
    /\ IsFiniteSet(Requests)
    /\ NoBackend \notin Backends

VARIABLES phase,     \* [r |-> the await the handler of r is suspended at]
          worker,    \* [r |-> worker_id returned by pick, or NoBackend]
          admitGen,  \* [r |-> generation of worker[r] when r was admitted]
          verdict,   \* [r |-> how the exchange with the engine went]
          up,        \* [b |-> the engine answers a probe with a status < 500]
          sweep,     \* backends the current health sweep has still to probe
          probe      \* the probe answer the health loop has not applied yet

reqVars == <<phase, worker, admitGen, verdict>>
loopVars == <<up, sweep, probe>>
vars == <<schedVars, reqVars, loopVars>>

-----------------------------------------------------------------------------
(* Where a handler can be suspended.  A leaked request has ended without     *)
(* returning its slot: an exception left the handler past the scheduler      *)
(* call, or gen() was dropped before its first step.                         *)

JsonPhases == {"forwarding",  \* awaiting forward_chat / forward_completions
               "fallback"}    \* awaiting the completions retry after a 404
OpenPhases == {"opening",     \* awaiting client.send(stream=True)
               "reopening"}   \* awaiting it again without stream_options
StreamPhases == {"refused",   \* awaiting the body of a status >= 400
                 "opened",    \* response returned, gen() not started
                 "streaming", \* awaiting the next chunk of the engine
                 "yielding",  \* at the yield of a chunk
                 "aborting",  \* at the yield of the in-band error event
                 "closing"}   \* awaiting upstream.aclose() in finally
AtYield == {"yielding", "aborting"}   \* the client decides how long this lasts
Active == JsonPhases \cup OpenPhases \cup StreamPhases
Phases == Active \cup {"new", "rejected", "done", "leaked"}

Successes == {"under", "over"}                  \* 2xx, by e2e_ms <= slo_ms
EngineFailures == {"5xx", "aborted"}            \* note_failure is called
Returned == {"unreachable", "cancelled"}        \* release, no feedback
Verdicts == Successes \cup EngineFailures \cup Returned
              \cup {"none", "4xx", "hung_up"}

\* What a handler suspended at p can know about the exchange.
VerdictFits(p, v) ==
    /\ p \in {"new", "rejected", "opened", "streaming", "yielding"} \cup JsonPhases \cup OpenPhases
          => v = "none"
    /\ p = "refused" => v \in {"4xx", "5xx"}
    /\ p = "aborting" => v = "aborted"
    /\ p = "closing" => v \in Successes \cup {"aborted", "cancelled", "hung_up"}
    /\ p \in {"done", "leaked"} => v # "none"

NoProbe == [backend |-> NoBackend, ok |-> FALSE]

\* Requests that occupy a slot of b as far as the handlers know.
Holders(b) == {r \in Requests : worker[r] = b /\ phase[r] \in Active \cup {"leaked"}}

Goto(r, p, v) ==
    /\ phase' = [phase EXCEPT ![r] = p]
    /\ verdict' = [verdict EXCEPT ![r] = v]
    /\ UNCHANGED <<worker, admitGen, loopVars>>

-----------------------------------------------------------------------------
(* Admission: the first step of every handler, up to its first await.        *)

\* allowed is the result of _resolve_model_backends; None is every backend.
Admit(r) ==
    /\ phase[r] = "new"
    /\ \E allowed \in SUBSET Backends, b \in Backends, p \in {"forwarding", "opening"} :
          /\ PickReturns(allowed, b)
          /\ phase' = [phase EXCEPT ![r] = p]
          /\ worker' = [worker EXCEPT ![r] = b]
          /\ admitGen' = [admitGen EXCEPT ![r] = generation[b]]
    /\ UNCHANGED <<verdict, loopVars>>

Reject(r) ==
    /\ phase[r] = "new"
    /\ \E allowed \in SUBSET Backends : PickRaises(allowed)
    /\ Goto(r, "rejected", "none")

-----------------------------------------------------------------------------
(* _proxy_json                                                             *)

\* A 404 from the chat route retries on the completions route.
JsonFallback(r) ==
    /\ phase[r] = "forwarding"
    /\ Goto(r, "fallback", "none")
    /\ UNCHANGED schedVars

\* Mutant: the 502 answer forgets the slot.
JsonLosesSlot(r) ==
    /\ phase[r] \in JsonPhases
    /\ Goto(r, "done", "unreachable")
    /\ UNCHANGED schedVars

\* Either await raises (refused connection, timeout): release, answer 502.
JsonUnreachable(r) ==
    /\ phase[r] \in JsonPhases
    /\ Release(worker[r])
    /\ Goto(r, "done", "unreachable")

JsonSucceeds(r) ==
    /\ phase[r] \in JsonPhases
    /\ \E v \in Successes : /\ FeedbackSuccess(worker[r], v = "under")
                            /\ Goto(r, "done", v)

\* A status >= 400 is a failed sample, a status >= 500 a strike as well.
JsonFails(r) ==
    /\ phase[r] \in JsonPhases
    /\ FeedbackFailure(worker[r])
    /\ \/ /\ NoteFailure(worker[r])
          /\ Goto(r, "done", "5xx")
       \/ /\ UNCHANGED <<healthy, fail_streak>>
          /\ Goto(r, "done", "4xx")

-----------------------------------------------------------------------------
(* _relay_stream and _proxy_ollama_stream                                  *)

\* Mutant: the second 400 is retried as the first was.
ReopensAgain(r) ==
    /\ phase[r] \in OpenPhases
    /\ Goto(r, IF phase[r] = "opening" THEN "reopening" ELSE "opening", "none")
    /\ UNCHANGED schedVars

\* The Ollama handler retries a 400 once without stream_options.
StreamReopen(r) ==
    /\ phase[r] = "opening"
    /\ Goto(r, "reopening", "none")
    /\ UNCHANGED schedVars

\* Mutant: the 502 answer forgets the slot.
StreamLosesSlot(r) ==
    /\ phase[r] \in OpenPhases
    /\ Goto(r, "done", "unreachable")
    /\ UNCHANGED schedVars

StreamUnreachable(r) ==
    /\ phase[r] \in OpenPhases
    /\ Release(worker[r])
    /\ Goto(r, "done", "unreachable")

\* Status >= 400: the handler awaits aread() and aclose() before it closes
\* the slot.
StreamRefused(r) ==
    /\ phase[r] \in OpenPhases
    /\ \E v \in {"4xx", "5xx"} : Goto(r, "refused", v)
    /\ UNCHANGED schedVars

RefusalRead(r) ==
    /\ phase[r] = "refused"
    /\ FeedbackFailure(worker[r])
    /\ IF verdict[r] = "5xx" THEN NoteFailure(worker[r])
                             ELSE UNCHANGED <<healthy, fail_streak>>
    /\ Goto(r, "done", verdict[r])

\* aread() or aclose() raises: no except clause covers them.
RefusalReadRaises(r) ==
    /\ phase[r] = "refused"
    /\ Goto(r, "leaked", verdict[r])
    /\ UNCHANGED schedVars

StreamOpened(r) ==
    /\ phase[r] \in OpenPhases
    /\ Goto(r, "opened", "none")
    /\ UNCHANGED schedVars

\* The server takes the first chunk: gen() enters its try block.
StreamStarts(r) ==
    /\ phase[r] = "opened"
    /\ Goto(r, "streaming", "none")
    /\ UNCHANGED schedVars

\* The client is gone before the server asks gen() for a chunk: the finally
\* block of a generator that never started does not run.
StreamDropped(r) ==
    /\ phase[r] = "opened"
    /\ Goto(r, "leaked", "cancelled")
    /\ UNCHANGED schedVars

\* aiter_bytes delivers a chunk and gen() yields it; the server asks for the
\* next one when the client has taken this one.
ChunkYielded(r) ==
    /\ phase[r] = "streaming"
    /\ Goto(r, "yielding", "none")
    /\ UNCHANGED schedVars

ChunkTaken(r) ==
    /\ phase[r] = "yielding"
    /\ Goto(r, "streaming", "none")
    /\ UNCHANGED schedVars

StreamEnds(r) ==
    /\ phase[r] = "streaming"
    /\ \E v \in Successes : Goto(r, "closing", v)
    /\ UNCHANGED schedVars

\* aiter_bytes raises: note_failure at once, feedback only in finally.
StreamAborts(r) ==
    /\ phase[r] = "streaming"
    /\ NoteFailure(worker[r])
    /\ Goto(r, "aborting", "aborted")
    /\ UNCHANGED <<pending, inflight_log, peak, generation, admission, resets>>

\* The error event is written, or the client is gone at its yield.
ErrorEventSent(r) ==
    /\ phase[r] = "aborting"
    /\ Goto(r, "closing", "aborted")
    /\ UNCHANGED schedVars

\* The client disconnects while gen() awaits a chunk: CancelledError.
ClientCancels(r) ==
    /\ phase[r] = "streaming"
    /\ Goto(r, "closing", "cancelled")
    /\ UNCHANGED schedVars

\* The client disconnects while gen() is suspended at its yield: the
\* generator is closed with GeneratorExit, which neither except clause takes.
ClientHangsUp(r) ==
    /\ phase[r] = "yielding"
    /\ Goto(r, "closing", "hung_up")
    /\ UNCHANGED schedVars

\* Mutant: a cancelled stream is a failed sample too.
CancelIsFailure(r) ==
    /\ phase[r] = "closing"
    /\ \/ /\ verdict[r] \in Successes
          /\ FeedbackSuccess(worker[r], verdict[r] = "under")
       \/ /\ verdict[r] \in {"aborted", "hung_up", "cancelled"}
          /\ FeedbackFailure(worker[r])
          /\ UNCHANGED <<healthy, fail_streak>>
    /\ Goto(r, "done", verdict[r])

\* aclose() returns and finally reports what gen() found out.
StreamClosed(r) ==
    /\ phase[r] = "closing"
    /\ \/ /\ verdict[r] \in Successes
          /\ FeedbackSuccess(worker[r], verdict[r] = "under")
       \/ /\ verdict[r] = "cancelled"
          /\ Release(worker[r])
       \/ /\ verdict[r] \in {"aborted", "hung_up"}
          /\ FeedbackFailure(worker[r])
          /\ UNCHANGED <<healthy, fail_streak>>
    /\ Goto(r, "done", verdict[r])

\* aclose() raises (or is itself cancelled): the rest of finally is skipped.
CloseRaises(r) ==
    /\ phase[r] = "closing"
    /\ Goto(r, "leaked", verdict[r])
    /\ UNCHANGED schedVars

-----------------------------------------------------------------------------
(* _health_loop, one probe at a time, and the engines it probes.            *)

\* Mutant: only the backends in rotation are probed.
SweepOfHealthy ==
    /\ sweep = {} /\ probe = NoProbe
    /\ sweep' = HealthyIds
    /\ UNCHANGED <<schedVars, reqVars, up, probe>>

HealthSweep ==
    /\ sweep = {} /\ probe = NoProbe
    /\ sweep' = {b \in Backends : Registered(b)}
    /\ UNCHANGED <<schedVars, reqVars, up, probe>>

\* The engine answers; the loop's task is not scheduled yet.
ProbeAnswered(b) ==
    /\ probe = NoProbe /\ b \in sweep
    /\ probe' = [backend |-> b, ok |-> up[b]]
    /\ sweep' = sweep \ {b}
    /\ UNCHANGED <<schedVars, reqVars, up>>

ProbeApplied ==
    /\ probe # NoProbe
    /\ SetHealthy(probe.backend, probe.ok)
    /\ probe' = NoProbe
    /\ UNCHANGED <<reqVars, up, sweep>>

EngineFlips(b) ==
    /\ up' = [up EXCEPT ![b] = ~@]
    /\ UNCHANGED <<schedVars, reqVars, sweep, probe>>

-----------------------------------------------------------------------------
(* The admin endpoints.                                                    *)

AddBackend(b) == Register(b) /\ UNCHANGED <<reqVars, loopVars>>

AdminReset == ResetStats /\ UNCHANGED <<reqVars, loopVars>>

-----------------------------------------------------------------------------
Init ==
    /\ SchedInit
    /\ phase = [r \in Requests |-> "new"]
    /\ worker = [r \in Requests |-> NoBackend]
    /\ admitGen = [r \in Requests |-> 0]
    /\ verdict = [r \in Requests |-> "none"]
    /\ up \in [Backends -> BOOLEAN]
    /\ sweep = {}
    /\ probe = NoProbe

JsonStep(r) == JsonFallback(r) \/ JsonUnreachable(r) \/ JsonSucceeds(r) \/ JsonFails(r)

OpenStep(r) == \/ StreamReopen(r) \/ StreamUnreachable(r) \/ StreamRefused(r)
               \/ RefusalRead(r) \/ RefusalReadRaises(r) \/ StreamOpened(r)

RelayStep(r) == \/ StreamStarts(r) \/ StreamDropped(r) \/ ChunkYielded(r)
                \/ ChunkTaken(r) \/ StreamEnds(r) \/ StreamAborts(r) \/ ErrorEventSent(r)
                \/ ClientCancels(r) \/ ClientHangsUp(r)
                \/ StreamClosed(r) \/ CloseRaises(r)

\* A handler that got past pick moves on.
HandlerStep(r) == JsonStep(r) \/ OpenStep(r) \/ RelayStep(r)

HealthLoop == HealthSweep \/ (\E b \in Backends : ProbeAnswered(b)) \/ ProbeApplied

Next ==
    \/ \E r \in Requests : Admit(r) \/ Reject(r) \/ HandlerStep(r)
    \/ HealthLoop
    \/ \E b \in Backends : EngineFlips(b) \/ AddBackend(b)
    \/ AdminReset

Spec == Init /\ [][Next]_vars

\* Every await of a handler ends: httpx bounds it by request_timeout_s.  An
\* engine that streams stops at max_tokens, so a stream that keeps being read
\* ends or breaks.  Nothing bounds a yield: it lasts until the client takes the
\* chunk or goes away.  The health loop never stops: its probes time out after
\* 3 s and its errors are caught.
FairHandler(r) ==
    /\ WF_vars(phase[r] \notin AtYield /\ HandlerStep(r))
    /\ SF_vars(StreamEnds(r) \/ StreamAborts(r))
Fairness == (\A r \in Requests : FairHandler(r)) /\ WF_vars(HealthLoop)
FairSpec == Spec /\ Fairness

-----------------------------------------------------------------------------
(* The slots of the gateway implement the abstract ledger.                  *)

Ledger == INSTANCE SlotLedger WITH
              load          <- pending,
              held          <- [b \in Backends |-> Holders(b)],
              finished      <- {r \in Requests : phase[r] = "done"},
              registrations <- generation

\* The gateway implements SlotLedger: whatever the handlers, the health loop
\* and the admin endpoints do, a slot is taken once and returned at most once.
ImplementsLedger == Ledger!LedgerSpec

-----------------------------------------------------------------------------
(* Properties.                                                             *)

\* Every variable keeps its type; a request names a backend exactly when it
\* got past pick, and its verdict is one its handler can hold at that await.
TypeOK ==
    /\ SchedTypeOK
    /\ phase \in [Requests -> Phases]
    /\ worker \in [Requests -> Backends \cup {NoBackend}]
    /\ admitGen \in [Requests -> 0..MaxGeneration]
    /\ verdict \in [Requests -> Verdicts]
    /\ up \in [Backends -> BOOLEAN]
    /\ sweep \subseteq Backends
    /\ probe \in [backend : Backends, ok : BOOLEAN] \cup {NoProbe}
    /\ \A r \in Requests : worker[r] = NoBackend <=> phase[r] \in {"new", "rejected"}
    /\ \A r \in Requests : VerdictFits(phase[r], verdict[r])

\* The load pick ranks by (DualTimescaleNLMS.pending) never exceeds the
\* requests that occupy the backend, whatever was re-registered meanwhile: no
\* path of the handlers leaves a slot behind that no request accounts for.
NoPhantomLoad == \A b \in Backends : pending[b] <= Cardinality(Holders(b))

\* Until a backend id is registered a second time, pending is exact: each
\* handler returns its slot once, by release or by feedback and never by both,
\* on every error path.  Only a leaked request keeps one for ever.
PendingIsExact ==
    \A b \in Backends : generation[b] <= 1 => pending[b] = Cardinality(Holders(b))

\* feedback finds an entry to pop for every slot in use, as long as no more
\* than InflightCap requests were in flight at once since the registration: the
\* entries release leaves behind fill the deque, but what they push out of it
\* are other leftovers.  Beyond that the log is short by no more than the
\* excess, and as many samples are learned as uncontended ones.  Whose depth a
\* sample pops is another matter: completions come in any order.
ShortOnlyPastCap ==
    \A b \in Backends :
        pending[b] <= Len(inflight_log[b])
                        + (IF peak[b] > InflightCap THEN peak[b] - InflightCap ELSE 0)

\* /debug/admission adds up: between resets, every request is in exactly one
\* of the counters, except those that occupy a slot or returned it by release.
\* goodput_fraction divides by completed_total + failed_total, which holds every
\* failure of an engine and at most client errors and hang-ups beside them; its
\* comment says that nothing else is in it, which no line here does.
StatsAddUp ==
    LET EndedWith(vs) == Cardinality({r \in Requests : phase[r] = "done" /\ verdict[r] \in vs})
    IN  resets = 0 =>
          /\ admission["admitted"] = Cardinality({r \in Requests : worker[r] # NoBackend})
          /\ admission["rejected_slo"] + admission["rejected_no_worker"]
               = Cardinality({r \in Requests : phase[r] = "rejected"})
          /\ admission["completed_under_slo"] = EndedWith({"under"})
          /\ admission["completed_over_slo"] = EndedWith({"over"})
          /\ admission["completed_total"] = EndedWith(Successes)
          /\ EndedWith(EngineFailures) <= admission["failed_total"]
          /\ admission["failed_total"] <= EndedWith(EngineFailures \cup {"4xx", "hung_up"})

\* Requests whose failure note_failure has counted against generation g of b.
Strikes(b, g) ==
    {r \in Requests : /\ worker[r] = b /\ admitGen[r] = g
                      /\ \/ verdict[r] = "aborted"
                         \/ verdict[r] = "5xx" /\ phase[r] = "done"}

\* The breaker: requests take a backend out of rotation only when at least
\* FailThreshold requests of that registration failed on the engine's side.
EvictedBy(b, n) ==
    healthy[b] /\ ~healthy'[b] =>
        \/ probe = [backend |-> b, ok |-> FALSE] /\ probe' = NoProbe
        \/ Cardinality(Strikes(b, generation[b])') >= n

\* Until a backend id is registered a second time, its eviction is earned.
EvictionIsEarned ==
    [][\A b \in Backends : generation[b] <= 1 => EvictedBy(b, FailThreshold)]_vars

\* A request that is not streamed is answered and gives its slot back, whatever
\* the engine and the client do.  A streamed one comes to an end unless its
\* client stops reading and stays connected, which no timeout of the gateway
\* covers.
EveryRequestEnds ==
    \A r \in Requests :
        /\ phase[r] \in JsonPhases ~> phase[r] = "done"
        /\ []<>(phase[r] \notin AtYield) =>
               (phase[r] \in Active ~> phase[r] \in {"done", "leaked"})

\* The slots come back: when every client reads or goes away, and no handler
\* lost its slot to an exception past the scheduler call, the load of every
\* backend returns to zero, re-registrations included.
SlotsComeBack ==
    (\A r \in Requests : []<>(phase[r] \notin AtYield) /\ [](phase[r] # "leaked"))
        => \A b \in Backends : <>[](pending[b] = 0)

\* Probes bring a recovered engine back into rotation, and keep a dead one out
\* of it, in spite of probe answers that are stale when they are applied.
HealthConverges ==
    \A b \in Backends :
        /\ <>[](up[b] /\ Registered(b)) => []<>healthy[b]
        /\ <>[](~up[b]) => <>[](~healthy[b])

-----------------------------------------------------------------------------
(* What comments of the code say and the code does not do.                  *)

\* gateway.py: "The caller hung up; the engine may be blameless, so return the
\* pending slot without recording a sample."
HangUpIsNoSample ==
    resets = 0 => admission["failed_total"] <=
        Cardinality({r \in Requests : verdict[r] \in EngineFailures \cup {"4xx"}})

\* scheduler.py, note_failure: "A single 5xx [...] must not evict an otherwise
\* healthy engine."
SingleFailureNeverEvicts == [][\A b \in Backends : EvictedBy(b, 2)]_vars

\* gateway.py, a refused stream: "The request never streamed, so close out the
\* pending slot promptly."
RefusedSlotIsClosed ==
    \A r \in Requests : ~(phase[r] = "leaked" /\ verdict[r] \in {"4xx", "5xx"})

=============================================================================
