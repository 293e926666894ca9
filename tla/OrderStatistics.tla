--------------------------- MODULE OrderStatistics ---------------------------
(***************************************************************************)
(* sorted(xs)[k - 1] of Python, without the sort: the gate and the learner   *)
(* only ever read single entries of a sorted copy.  xs is a family of        *)
(* numbers, a sequence for instance, and its indices do not matter.          *)
(***************************************************************************)
EXTENDS Integers, FiniteSets, FiniteSetsExt

Entries(xs) == {xs[i] : i \in DOMAIN xs}
UpTo(xs, x) == {i \in DOMAIN xs : xs[i] <= x}

\* The least entry that k entries do not exceed.
SortedAt(xs, k) == Min({x \in Entries(xs) : Cardinality(UpTo(xs, x)) >= k})

=============================================================================
