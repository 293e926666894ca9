------------------------------ MODULE MCHarness ------------------------------
(* Small instances of the experiment harness for TLC.                       *)
EXTENDS Suite, MockEngine, TLC

\* One behaviour is about a script or about a mock engine.
VARIABLE focus
mcVars == <<suiteVars, mockVars, focus>>

MCInit ==
    /\ focus \in {"suite", "mock"}
    /\ MockInit
    /\ SuiteInit
    /\ focus = "mock" => script = <<"post_d", 1>>

\* A kill and a second run are explored with one seed.
MCSuite == SuiteNext /\ (pc' = "killed" => script[2] = 1) /\ UNCHANGED mockVars

MCNext ==
    /\ UNCHANGED focus
    /\ \/ focus = "suite" /\ MCSuite
       \/ focus = "mock" /\ MockNext /\ UNCHANGED suiteVars

MCSpec == MCInit /\ [][MCNext]_mcVars /\ WF_mcVars(focus = "suite" /\ MainStep /\ UNCHANGED <<mockVars, focus>>)

\* A script ends: nothing is said of a mock engine.
ScriptsEnd == focus = "suite" => SuiteEnds

=============================================================================
