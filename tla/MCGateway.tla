------------------------------ MODULE MCGateway ------------------------------
(* Small instances of Gateway for TLC.                                      *)
EXTENDS Gateway, TLC

\* Handlers differ in nothing but their name; so do the backends.
Symmetry == Permutations(Requests) \cup Permutations(Backends)

\* One behaviour is about three requests on one engine that is registered once
\* and stays up or down; about two requests on two backends; or about two
\* requests on a backend that is registered again, with a reset.
VARIABLE focus
mcVars == <<vars, focus>>

MCInit ==
    /\ Init
    /\ focus \in {"crowd", "two", "reload"}
    /\ focus # "two" => Cardinality({b \in Backends : Registered(b)}) <= 1
    /\ \A b \in Backends : Registered(b) \/ up[b]

MCBounds ==
    /\ focus = "crowd" => up' = up
    /\ focus # "crowd" => Cardinality({r \in Requests : phase'[r] # "new"}) <= 2
    /\ focus # "two" => Cardinality({b \in Backends : generation'[b] > 0}) <= 1
    /\ focus # "reload" => resets' = 0 /\ \A b \in Backends : generation'[b] <= 1
    /\ \A b \in Backends : generation'[b] = 0 => up'[b]

MCNext == Next /\ MCBounds /\ UNCHANGED focus
MCSpec == MCInit /\ [][MCNext]_mcVars

\* With fair handlers and a fair health loop: two requests, on an engine that
\* stays as it is, or one on an engine that comes and goes at any time.
MCFairInit == Init /\ focus \in {"clients", "engine"}
MCFairBounds ==
    /\ focus = "clients" => up' = up
    /\ focus = "engine" => Cardinality({r \in Requests : phase'[r] # "new"}) <= 1
MCFairNext == Next /\ MCFairBounds /\ UNCHANGED focus
MCFairSpec == MCFairInit /\ [][MCFairNext]_mcVars /\ Fairness

=============================================================================
