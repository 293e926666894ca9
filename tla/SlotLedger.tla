------------------------------ MODULE SlotLedger ------------------------------
(***************************************************************************)
(* What the gateway promises about slots, without its handlers: a request    *)
(* takes a slot of one registered backend at most once in its life, gives it *)
(* back at most once, and load is counted up and down with it.  Registering  *)
(* a backend id forgets the load counted under it; what is given back        *)
(* afterwards never drives the count below zero.                             *)
(***************************************************************************)
EXTENDS Naturals

CONSTANTS Backends, Requests

VARIABLES load,           \* [b |-> slots the ledger counts as taken]
          held,           \* [b |-> the requests that hold a slot of b]
          finished,       \* requests that have given their slot back
          registrations   \* [b |-> how often b was registered]

ledgerVars == <<load, held, finished, registrations>>

LedgerInit ==
    /\ load = [b \in Backends |-> 0]
    /\ held = [b \in Backends |-> {}]
    /\ finished = {}
    /\ registrations \in [Backends -> {0, 1}]

Acquire(r, b) ==
    /\ registrations[b] > 0
    /\ r \notin finished
    /\ \A c \in Backends : r \notin held[c]
    /\ load' = [load EXCEPT ![b] = @ + 1]
    /\ held' = [held EXCEPT ![b] = @ \cup {r}]
    /\ UNCHANGED <<finished, registrations>>

Return(r, b) ==
    /\ r \in held[b]
    /\ load' = [load EXCEPT ![b] = IF @ > 0 THEN @ - 1 ELSE @]
    /\ held' = [held EXCEPT ![b] = @ \ {r}]
    /\ finished' = finished \cup {r}
    /\ UNCHANGED registrations

Forget(b) ==
    /\ load' = [load EXCEPT ![b] = 0]
    /\ registrations' = [registrations EXCEPT ![b] = @ + 1]
    /\ UNCHANGED <<held, finished>>

LedgerNext ==
    \/ \E r \in Requests, b \in Backends : Acquire(r, b) \/ Return(r, b)
    \/ \E b \in Backends : Forget(b)

LedgerSpec == LedgerInit /\ [][LedgerNext]_ledgerVars

=============================================================================
