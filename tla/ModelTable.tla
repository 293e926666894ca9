------------------------------ MODULE ModelTable ------------------------------
(***************************************************************************)
(* Model names and the table that maps them to backends:                    *)
(* DIOGateway._model_aliases and _resolve_model_backends.                   *)
(*                                                                         *)
(* A name is its lower-case text, a sequence of tokens in which "/" stands   *)
(* for itself, and whether the caller spells it in another case.  Names come *)
(* with declarations, sequences of [names, ids]: a dictionary built from them *)
(* by setdefault and append holds a name once, where it occurs first, and    *)
(* under it the ids of every declaration that has the name.  A table is such *)
(* a dictionary: [order, ids], the names in the order they were put in and   *)
(* what each of them maps to.                                               *)
(***************************************************************************)
EXTENDS Integers, Sequences, SequencesExt, FiniteSetsExt

CONSTANTS NoModel,     \* a request or a backend that names no model
          ShortTexts   \* texts of fewer than three characters

Unrestricted == {"every backend"}   \* None: the caller may use any backend
DefaultModel == [text |-> <<"dio-default">>, cased |-> FALSE]
GenericNames == {NoModel, [text |-> <<"default">>, cased |-> FALSE], DefaultModel}

LastSegment(text) ==
    LET slashes == {i \in DOMAIN text : text[i] = "/"}
    IN  IF slashes = {} THEN text ELSE SubSeq(text, Max(slashes) + 1, Len(text))

PoolIds(pool) == {pool[i].id : i \in DOMAIN pool}

DeclaredNames(decls) == UNION {ToSet(decls[i].names) : i \in DOMAIN decls}
IdsOf(decls, n) == UNION {decls[i].ids : i \in {j \in DOMAIN decls : n \in ToSet(decls[j].names)}}

\* The ids that are in the pool, or all of them when none is.
Kept(ids, pool) == IF ids \cap PoolIds(pool) # {} THEN ids \cap PoolIds(pool) ELSE ids

\* Every backend declares its own model.
OwnNames(pool) ==
    [i \in DOMAIN pool |-> [names |-> IF pool[i].model = NoModel THEN <<>> ELSE <<pool[i].model>>,
                            ids |-> {pool[i].id}]]

\* The names of the map with the ids that are kept, then those of the backends.
Aliases(map, pool) ==
    LET decls == map \o OwnNames(pool)
    IN  [order |-> [i \in DOMAIN decls |-> decls[i].names],
         ids |-> [n \in DeclaredNames(decls) |->
                    Kept(IdsOf(map, n), pool) \cup IdsOf(OwnNames(pool), n)]]

NamesOf(table) == DOMAIN table.ids

SameText(key, n) == n.text = key.text \/ n.text = LastSegment(key.text)

PrefixOfEither(key, n) ==
    LET tail == LastSegment(key.text) IN IsPrefix(n.text, tail) \/ IsPrefix(tail, n.text)

\* The first of some names in dictionary order.
FirstIn(order, hits) ==
    LET i == Min({j \in DOMAIN order : ToSet(order[j]) \cap hits # {}})
    IN  order[i][Min({j \in DOMAIN order[i] : order[i][j] \in hits})]

\* Mutant: the unanchored test that the comment in the code warns of.
SubstringResolve(table, n) ==
    LET overlap == {k \in NamesOf(table) : ToSet(n.text) \cap ToSet(k.text) # {}}
    IN  IF NamesOf(table) = {} \/ n \in GenericNames THEN Unrestricted
        ELSE IF n \in NamesOf(table) THEN table.ids[n]
        ELSE IF overlap # {} THEN table.ids[FirstIn(table.order, overlap)] ELSE {}

\* _resolve_model_backends: exact, then in another case or by the last
\* segment, then by prefix of the last segment either way.
Resolve(table, n) ==
    LET same == {k \in NamesOf(table) : SameText(k, n)}
        near == {k \in NamesOf(table) : PrefixOfEither(k, n)}
    IN  IF NamesOf(table) = {} \/ n \in GenericNames THEN Unrestricted
        ELSE IF n \in NamesOf(table) THEN table.ids[n]
        ELSE IF n.text \in ShortTexts THEN {}
        ELSE IF same # {} THEN table.ids[FirstIn(table.order, same)]
        ELSE IF near # {} THEN table.ids[FirstIn(table.order, near)]
        ELSE {}

=============================================================================
