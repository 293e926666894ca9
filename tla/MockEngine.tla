------------------------------ MODULE MockEngine ------------------------------
(* The stand-in vLLM server of the harness (mock_vllm_server.py): EngineState, *)
(* whose admit(), start_service() and release() are called in turn by the     *)
(* worker thread of every request, each under the lock.                       *)
EXTENDS Naturals, FiniteSets

CONSTANTS Calls,           \* the requests, each handled by a thread of its own
          Prefixes,        \* prompt prefixes
          MaxConcurrency   \* --max-concurrency

ASSUME MockAssumption == IsFiniteSet(Calls) /\ MaxConcurrency \in Nat \ {0}

VARIABLES call,            \* per request: "new", "admitted", "serving", "done"
          running, waiting,            \* the two gauges
          hits, queries, seen,         \* prefix-cache accounting
          peak_running, peak_waiting

mockVars == <<call, running, waiting, hits, queries, seen, peak_running, peak_waiting>>

Larger(a, b) == IF a > b THEN a ELSE b

MockInit ==
    /\ call = [c \in Calls |-> "new"]
    /\ running = 0 /\ waiting = 0
    /\ hits = 0 /\ queries = 0 /\ seen = {}
    /\ peak_running = 0 /\ peak_waiting = 0

\* admit(): a prompt is counted as running or as waiting.
Admit(c, prefix) ==
    /\ call[c] = "new"
    /\ call' = [call EXCEPT ![c] = "admitted"]
    /\ queries' = queries + 1
    /\ hits' = IF prefix \in seen THEN hits + 1 ELSE hits
    /\ seen' = seen \cup {prefix}
    /\ IF running >= MaxConcurrency
          THEN /\ waiting' = waiting + 1
               /\ peak_waiting' = Larger(peak_waiting, waiting')
               /\ UNCHANGED <<running, peak_running>>
          ELSE /\ running' = running + 1
               /\ peak_running' = Larger(peak_running, running')
               /\ UNCHANGED <<waiting, peak_waiting>>

\* start_service(): one turn of its loop that returns.  It does not know whether
\* its request was counted as running or as waiting.
TakesWaiting == running < MaxConcurrency /\ waiting > 0

\* Mutant: whoever finds room under the limit starts.
BelowLimit == running <= MaxConcurrency

NobodyWaits == running <= MaxConcurrency /\ waiting = 0

StartService(c) ==
    /\ call[c] = "admitted"
    /\ \/ /\ TakesWaiting
          /\ waiting' = waiting - 1
          /\ running' = running + 1
          /\ peak_running' = Larger(peak_running, running')
       \/ NobodyWaits /\ UNCHANGED <<waiting, running, peak_running>>
    /\ call' = [call EXCEPT ![c] = "serving"]
    /\ UNCHANGED <<hits, queries, seen, peak_waiting>>

\* The sleep is over: release() in the finally.
Release(c) ==
    /\ call[c] = "serving"
    /\ call' = [call EXCEPT ![c] = "done"]
    /\ running' = IF running > 0 THEN running - 1 ELSE 0
    /\ UNCHANGED <<waiting, hits, queries, seen, peak_running, peak_waiting>>

\* /debug/reset between cells; the two gauges stay.
Reset ==
    /\ hits' = 0 /\ queries' = 0 /\ seen' = {}
    /\ peak_running' = 0 /\ peak_waiting' = 0
    /\ UNCHANGED <<call, running, waiting>>

MockStep == \E c \in Calls : (\E prefix \in Prefixes : Admit(c, prefix)) \/ StartService(c) \/ Release(c)
MockNext == MockStep \/ Reset

MockSpec == MockInit /\ [][MockNext]_mockVars

-----------------------------------------------------------------------------
(* Properties.                                                             *)

In(state) == {c \in Calls : call[c] = state}

\* What DIO scrapes is true: running and waiting add up to the requests in the
\* server, and no more than MaxConcurrency are served at once, although the
\* threads trade the slots admit() gave them.
GaugesAreExact ==
    /\ running + waiting = Cardinality(In("admitted") \cup In("serving"))
    /\ Cardinality(In("serving")) <= running
    /\ running <= MaxConcurrency

=============================================================================
