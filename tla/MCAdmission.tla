----------------------------- MODULE MCAdmission -----------------------------
(* Small instances of Admission for TLC.                                    *)
EXTENDS Admission

\* One feasible backend, for example the only one that serves the model.
MCOneBackend == {<<400>>, <<900>>}

=============================================================================
