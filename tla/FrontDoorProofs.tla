---------------------------- MODULE FrontDoorProofs ----------------------------
(***************************************************************************)
(* Proofs about the way into the gateway, for any deployment, any bodies,    *)
(* any files and any script: the alias table and who serves a request, what  *)
(* a listing and a registration may do, the budgets that reach an engine     *)
(* (module FrontDoor), the file init writes and the verdicts of the commands *)
(* on it (module Deploy), and the replies of the MCP server (McpServer).     *)
(***************************************************************************)
EXTENDS FrontDoor, McpServer, FiniteSetTheorems, SequenceTheorems,
        WellFoundedInduction, TLAPS

-----------------------------------------------------------------------------
(* The alias table.                                                        *)

IsList(s) == s \in Seq(ToSet(s))

\* A set of natural numbers has a least element, and Min is that one.
LEMMA MinOfNats ==
    ASSUME NEW S, S \subseteq Nat, S # {}
    PROVE  Min(S) \in S /\ \A y \in S : Min(S) <= y
<1> DEFINE Less == {ss \in Nat \X Nat : ss[1] < ss[2]}
<1>1. IsWellFoundedOn(Less, Nat)
  BY NatLessThanWellFounded DEF OpToRel
<1>2. PICK x \in S : \A y \in S : ~(<<y, x>> \in Less)
  BY <1>1, WFMin
<1>3. \A y \in S : x <= y
  <2>1. \A y \in S : ~(y < x)
    BY <1>2
  <2> QED  BY <2>1
<1> QED  BY <1>2, <1>3 DEF Min

\* Min is the one number that is least.
LEMMA MinIs ==
    ASSUME NEW S, S \subseteq Nat, NEW x \in S, \A y \in S : x <= y
    PROVE  Min(S) = x
<1>1. Min(S) \in S /\ \A y \in S : Min(S) <= y
  BY MinOfNats
<1>2. Min(S) <= x /\ x <= Min(S) /\ Min(S) \in Nat /\ x \in Nat
  BY <1>1
<1> QED  BY <1>2

\* A list has the positions 1 to its length.
LEMMA ListPositions ==
    ASSUME NEW s, IsList(s)
    PROVE  Len(s) \in Nat /\ DOMAIN s = 1 .. Len(s) /\ s \in Seq(ToSet(s))
BY DEF IsList

\* A function on 1 .. n is a list.
LEMMA FunctionIsList ==
    ASSUME NEW n \in Nat, NEW s, DOMAIN s = 1 .. n, s = [i \in 1 .. n |-> s[i]]
    PROVE  IsList(s) /\ Len(s) = n
<1>1. \A i \in 1 .. n : s[i] \in ToSet(s)
  BY DEF ToSet
<1>2. s \in [1 .. n -> ToSet(s)]
  BY <1>1
<1> QED  BY <1>2, IsASeq DEF IsList

\* Whatever its elements are from.
LEMMA SeqIsList ==
    ASSUME NEW S, NEW s \in Seq(S)
    PROVE  IsList(s) /\ ToSet(s) \subseteq S
<1>1. Len(s) \in Nat /\ DOMAIN s = 1 .. Len(s) /\ s = [i \in 1 .. Len(s) |-> s[i]]
  OBVIOUS
<1>2. IsList(s)
  BY <1>1, FunctionIsList
<1> QED  BY <1>1, <1>2 DEF ToSet

\* A second element.
LEMMA AppendTwo == \A p, q : Append(<<p>>, q) = <<p, q>>
<1> SUFFICES ASSUME NEW p, NEW q PROVE Append(<<p>>, q) = <<p, q>>
  OBVIOUS
<1> DEFINE S == {p, q}
<1>1. <<p>> \in Seq(S) /\ Len(<<p>>) = 1 /\ <<p, q>> \in Seq(S) /\ Len(<<p, q>>) = 2
  OBVIOUS
<1>2. /\ Append(<<p>>, q) \in Seq(S) /\ Len(Append(<<p>>, q)) = 2
      /\ Append(<<p>>, q)[1] = p /\ Append(<<p>>, q)[2] = q
  BY <1>1, AppendProperties
<1>3. ASSUME NEW i \in 1 .. 2 PROVE Append(<<p>>, q)[i] = <<p, q>>[i]
  BY <1>2
<1> QED  BY <1>1, <1>2, <1>3, SeqEqual

\* The names of the backends.
LEMMA OwnNamesAre ==
    ASSUME NEW p, IsList(p)
    PROVE  /\ IsList(OwnNames(p)) /\ Len(OwnNames(p)) = Len(p)
           /\ \A n : n \in DeclaredNames(OwnNames(p)) <=> n # NoModel /\ \E i \in DOMAIN p : p[i].model = n
           /\ \A n, id : id \in IdsOf(OwnNames(p), n) <=>
                  n # NoModel /\ \E i \in DOMAIN p : p[i].model = n /\ p[i].id = id
<1> DEFINE own == OwnNames(p)
           N(i) == IF p[i].model = NoModel THEN <<>> ELSE <<p[i].model>>
<1>1. Len(p) \in Nat /\ DOMAIN p = 1 .. Len(p)
  BY ListPositions
<1>2. /\ DOMAIN own = 1 .. Len(p) /\ own = [i \in 1 .. Len(p) |-> own[i]]
      /\ \A i \in DOMAIN p : own[i].names = N(i) /\ own[i].ids = {p[i].id}
  BY <1>1 DEF OwnNames
<1>3. IsList(own) /\ Len(own) = Len(p)
  BY <1>1, <1>2, FunctionIsList
<1>4. \A i \in DOMAIN p : ToSet(N(i)) = IF p[i].model = NoModel THEN {} ELSE {p[i].model}
  BY DEF ToSet
<1> HIDE DEF own, N
<1>5. \A n : \A i \in DOMAIN p : n \in ToSet(own[i].names) <=> n # NoModel /\ p[i].model = n
  BY <1>2, <1>4
<1>6. ASSUME NEW n
      PROVE  n \in DeclaredNames(own) <=> n # NoModel /\ \E i \in DOMAIN p : p[i].model = n
  <2>1. n \in DeclaredNames(own) <=> \E i \in DOMAIN p : n \in ToSet(own[i].names)
    BY <1>1, <1>2 DEF DeclaredNames
  <2> QED  BY <1>5, <2>1
<1>7. ASSUME NEW n, NEW id
      PROVE  id \in IdsOf(own, n) <=>
                n # NoModel /\ \E i \in DOMAIN p : p[i].model = n /\ p[i].id = id
  <2>1. id \in IdsOf(own, n) <=> \E i \in DOMAIN p : n \in ToSet(own[i].names) /\ id \in own[i].ids
    BY <1>1, <1>2 DEF IdsOf
  <2>2. \A i \in DOMAIN p : id \in own[i].ids <=> p[i].id = id
    BY <1>2
  <2> QED  BY <1>5, <2>1, <2>2
<1> QED  BY <1>3, <1>6, <1>7 DEF own

\* A map read from a configuration: a list of declarations, each with names in a
\* list and with ids.
IsMap(map) ==
    /\ IsList(map)
    /\ \A i \in DOMAIN map : IsList(map[i].names) /\ map[i].ids # {}

\* What the table holds: the names of the map and of the backends, in the order
\* of the map and then of the pool.
LEMMA AliasesAre ==
    ASSUME NEW map, IsMap(map), NEW p, IsList(p)
    PROVE  LET t == Aliases(map, p)
           IN  /\ NamesOf(t) = DeclaredNames(map) \cup DeclaredNames(OwnNames(p))
               /\ \A n \in NamesOf(t) :
                     t.ids[n] = Kept(IdsOf(map, n), p) \cup IdsOf(OwnNames(p), n)
               /\ DOMAIN t.order = 1 .. (Len(map) + Len(p))
               /\ \A i \in DOMAIN t.order : IsList(t.order[i])
               /\ \A i \in 1 .. Len(map) : t.order[i] = map[i].names
               /\ \A i \in 1 .. Len(p) : t.order[Len(map) + i] = OwnNames(p)[i].names
               /\ NamesOf(t) = UNION {ToSet(t.order[i]) : i \in DOMAIN t.order}
<1> DEFINE own == OwnNames(p)
           decls == map \o own
           t == Aliases(map, p)
           S == ToSet(map) \cup ToSet(own)
<1>1. /\ Len(map) \in Nat /\ DOMAIN map = 1 .. Len(map) /\ Len(p) \in Nat
      /\ DOMAIN own = 1 .. Len(own) /\ Len(own) = Len(p) /\ DOMAIN p = 1 .. Len(p)
  BY ListPositions, OwnNamesAre DEF IsMap
<1>2. map \in Seq(S) /\ own \in Seq(S)
  <2>1. map \in Seq(ToSet(map)) /\ own \in Seq(ToSet(own))
    BY OwnNamesAre, ListPositions DEF IsMap
  <2>2. ToSet(map) \subseteq S /\ ToSet(own) \subseteq S
    OBVIOUS
  <2> QED  BY <2>1, <2>2, SeqMonotonic
<1>3. /\ DOMAIN decls = 1 .. (Len(map) + Len(p))
      /\ \A i \in 1 .. Len(map) : decls[i] = map[i]
      /\ \A i \in 1 .. Len(p) : decls[Len(map) + i] = own[i]
  <2>1. /\ decls \in Seq(S) /\ Len(decls) = Len(map) + Len(own)
        /\ \A i \in 1 .. Len(map) + Len(own) :
              decls[i] = IF i <= Len(map) THEN map[i] ELSE own[i - Len(map)]
    BY <1>2, ConcatProperties
  <2>2. ASSUME NEW i \in 1 .. Len(p) PROVE decls[Len(map) + i] = own[i]
    <3>1. Len(map) + i \in 1 .. Len(map) + Len(own) /\ ~(Len(map) + i <= Len(map))
          /\ (Len(map) + i) - Len(map) = i
      BY <1>1
    <3> HIDE DEF decls
    <3> QED  BY <2>1, <3>1
  <2>3. ASSUME NEW i \in 1 .. Len(map) PROVE decls[i] = map[i]
    <3>1. i \in 1 .. Len(map) + Len(own) /\ i <= Len(map)
      BY <1>1
    <3> HIDE DEF decls
    <3> QED  BY <2>1, <3>1
  <2>4. DOMAIN decls = 1 .. Len(decls)
    BY <2>1
  <2> QED  BY <1>1, <2>1, <2>2, <2>3, <2>4
<1>4. /\ DOMAIN t.order = DOMAIN decls
      /\ \A i \in DOMAIN decls : t.order[i] = decls[i].names
      /\ NamesOf(t) = DeclaredNames(decls)
      /\ \A n \in NamesOf(t) : t.ids[n] = Kept(IdsOf(map, n), p) \cup IdsOf(own, n)
  BY DEF Aliases, NamesOf
<1>5. ASSUME NEW i \in 1 .. (Len(map) + Len(p))
      PROVE  (i \in 1 .. Len(map)) \/ (\E j \in 1 .. Len(p) : i = Len(map) + j)
  <2>1. ASSUME ~(i \in 1 .. Len(map)) PROVE i - Len(map) \in 1 .. Len(p) /\ i = Len(map) + (i - Len(map))
    BY <1>1, <2>1
  <2> QED  BY <2>1
<1> HIDE DEF t, own, decls
<1>6. \A i \in 1 .. Len(p) : IsList(own[i].names)
  <2> SUFFICES ASSUME NEW i \in 1 .. Len(p) PROVE IsList(own[i].names)
    OBVIOUS
  <2>1. own[i].names = <<>> \/ own[i].names = <<p[i].model>>
    BY <1>1 DEF own, OwnNames
  <2>2. IsList(<<>>) /\ IsList(<<p[i].model>>)
    BY DEF IsList, ToSet
  <2> QED  BY <2>1, <2>2
<1>7. \A i \in DOMAIN decls : IsList(decls[i].names)
  <2> SUFFICES ASSUME NEW i \in DOMAIN decls PROVE IsList(decls[i].names)
    OBVIOUS
  <2>1. CASE i \in 1 .. Len(map)
    <3>1. IsList(map[i].names)
      BY <1>1, <2>1 DEF IsMap
    <3> QED  BY <1>3, <2>1, <3>1
  <2>2. ASSUME NEW j \in 1 .. Len(p), i = Len(map) + j PROVE IsList(decls[i].names)
    BY <1>3, <1>6, <2>2
  <2>3. i \in 1 .. (Len(map) + Len(p))
    BY <1>3
  <2> QED  BY <1>5, <2>1, <2>2, <2>3
<1>8. /\ \A i \in 1 .. Len(map) : i \in DOMAIN decls
      /\ \A i \in 1 .. Len(p) : Len(map) + i \in DOMAIN decls
  BY <1>1, <1>3
<1>9. DeclaredNames(decls) = DeclaredNames(map) \cup DeclaredNames(own)
  <2>1. ASSUME NEW n \in DeclaredNames(decls) PROVE n \in DeclaredNames(map) \cup DeclaredNames(own)
    <3>1. PICK i \in DOMAIN decls : n \in ToSet(decls[i].names)
      BY <2>1 DEF DeclaredNames
    <3> QED  BY <1>1, <1>3, <1>5, <3>1 DEF DeclaredNames
  <2>2. ASSUME NEW n \in DeclaredNames(map) PROVE n \in DeclaredNames(decls)
    BY <1>1, <1>3, <1>8, <2>2 DEF DeclaredNames
  <2>3. ASSUME NEW n \in DeclaredNames(own) PROVE n \in DeclaredNames(decls)
    BY <1>1, <1>3, <1>8, <2>3 DEF DeclaredNames
  <2> QED  BY <2>1, <2>2, <2>3
<1>10. NamesOf(t) = UNION {ToSet(t.order[i]) : i \in DOMAIN t.order}
  BY <1>4 DEF DeclaredNames
<1>11. /\ \A i \in 1 .. Len(map) : t.order[i] = map[i].names
       /\ \A i \in 1 .. Len(p) : t.order[Len(map) + i] = own[i].names
       /\ \A i \in DOMAIN t.order : IsList(t.order[i])
  BY <1>3, <1>4, <1>7, <1>8
<1>12. NamesOf(t) = DeclaredNames(map) \cup DeclaredNames(own) /\ DOMAIN t.order = 1 .. (Len(map) + Len(p))
  BY <1>3, <1>4, <1>9
<1> QED  BY <1>4, <1>10, <1>11, <1>12 DEF t, own

\* The first of the names that are hits is one of them.
LEMMA FirstIsHit ==
    ASSUME NEW m \in Nat, NEW order, DOMAIN order = 1 .. m,
           \A i \in DOMAIN order : IsList(order[i]),
           NEW hits, hits # {}, hits \subseteq UNION {ToSet(order[i]) : i \in DOMAIN order}
    PROVE  FirstIn(order, hits) \in hits
<1> DEFINE I == {j \in DOMAIN order : ToSet(order[j]) \cap hits # {}}
           K(i) == {j \in DOMAIN order[i] : order[i][j] \in hits}
<1>1. I # {} /\ I \subseteq Nat
  OBVIOUS
<1>2. Min(I) \in I
  BY <1>1, MinOfNats
<1>3. ASSUME NEW i \in I PROVE K(i) # {} /\ K(i) \subseteq Nat
  <2>1. DOMAIN order[i] \subseteq Nat
    BY ListPositions
  <2>2. PICK n \in hits : n \in ToSet(order[i])
    OBVIOUS
  <2> QED  BY <2>1, <2>2 DEF ToSet
<1>4. Min(K(Min(I))) \in K(Min(I))
  BY <1>2, <1>3, MinOfNats
<1> HIDE DEF I
<1>5. order[Min(I)][Min(K(Min(I)))] \in hits
  BY <1>4
<1> QED  BY <1>5 DEF FirstIn, I

\* The first name of the table among some hits is one of them.
LEMMA FirstInTable ==
    ASSUME NEW map, IsMap(map), NEW p, IsList(p),
           NEW hits, hits # {}, hits \subseteq NamesOf(Aliases(map, p))
    PROVE  FirstIn(Aliases(map, p).order, hits) \in hits
<1> DEFINE order == Aliases(map, p).order
<1>1. /\ DOMAIN order = 1 .. (Len(map) + Len(p)) /\ \A i \in DOMAIN order : IsList(order[i])
      /\ NamesOf(Aliases(map, p)) = UNION {ToSet(order[i]) : i \in DOMAIN order}
  BY AliasesAre
<1>2. Len(map) + Len(p) \in Nat
  BY ListPositions DEF IsMap
<1> HIDE DEF order
<1>3. FirstIn(order, hits) \in hits
  BY <1>1, <1>2, FirstIsHit
<1> QED  BY <1>3 DEF order

\* A name that resolves to an id does so by a name of the table: itself, one of
\* the same text, or one that either completes.
LEMMA ResolvedBy ==
    ASSUME NEW map, IsMap(map), NEW p, IsList(p), NEW n, NEW id,
           Resolve(Aliases(map, p), n) # Unrestricted, id \in Resolve(Aliases(map, p), n)
    PROVE  \E k \in NamesOf(Aliases(map, p)) :
              /\ id \in Aliases(map, p).ids[k]
              /\ k = n \/ SameText(k, n) \/ PrefixOfEither(k, n)
<1> DEFINE t == Aliases(map, p)
           same == {k \in NamesOf(t) : SameText(k, n)}
           near == {k \in NamesOf(t) : PrefixOfEither(k, n)}
<1>1. \A hits : hits # {} /\ hits \subseteq NamesOf(t) => FirstIn(t.order, hits) \in hits
  BY FirstInTable
<1> HIDE DEF t
<1>2. same # {} => FirstIn(t.order, same) \in same
  BY <1>1
<1>3. near # {} => FirstIn(t.order, near) \in near
  BY <1>1
<1>4. \/ n \in NamesOf(t) /\ id \in t.ids[n]
      \/ same # {} /\ id \in t.ids[FirstIn(t.order, same)]
      \/ near # {} /\ id \in t.ids[FirstIn(t.order, near)]
  <2>1. Resolve(t, n) # Unrestricted /\ id \in Resolve(t, n)
    BY DEF t
  <2> QED  BY <2>1 DEF Resolve
<1>5. CASE n \in NamesOf(t) /\ id \in t.ids[n]
  BY <1>5 DEF t
<1>6. CASE same # {} /\ id \in t.ids[FirstIn(t.order, same)]
  BY <1>2, <1>6 DEF t
<1>7. CASE near # {} /\ id \in t.ids[FirstIn(t.order, near)]
  BY <1>3, <1>7 DEF t
<1> QED  BY <1>4, <1>5, <1>6, <1>7

\* An id under a name of the table is there by the map or by its backend.
LEMMA BoundBy ==
    ASSUME NEW map, IsMap(map), NEW p, IsList(p), NEW k \in NamesOf(Aliases(map, p)),
           NEW id \in Aliases(map, p).ids[k]
    PROVE  \/ k \in DeclaredNames(map) /\ id \in IdsOf(map, k)
           \/ k # NoModel /\ \E i \in DOMAIN p : p[i].model = k /\ p[i].id = id
<1>1. id \in Kept(IdsOf(map, k), p) \cup IdsOf(OwnNames(p), k)
  BY AliasesAre
<1>2. CASE id \in IdsOf(OwnNames(p), k)
  BY <1>2, OwnNamesAre
<1>3. CASE id \in Kept(IdsOf(map, k), p)
  <2>1. id \in IdsOf(map, k)
    BY <1>3 DEF Kept
  <2>2. k \in DeclaredNames(map)
    BY <2>1 DEF IdsOf, DeclaredNames
  <2> QED  BY <2>1, <2>2
<1> QED  BY <1>1, <1>2, <1>3

-----------------------------------------------------------------------------
(* Pools.                                                                  *)

Distinct(p) == \A i, j \in DOMAIN p : p[i].id = p[j].id => i = j
BackendIn(p, id) == p[CHOOSE i \in DOMAIN p : p[i].id = id]

\* In a pool that holds an id once, the backend of that id is where it is.
LEMMA BackendIsAt ==
    ASSUME NEW p, Distinct(p), NEW i \in DOMAIN p
    PROVE  BackendIn(p, p[i].id) = p[i]
BY DEF Distinct, BackendIn

\* BackendPool.add keeps every other backend, and gives the new one the place of
\* the last of its id or a place at the end.
LEMMA PoolGrows ==
    ASSUME IsList(pool), Distinct(pool), NEW b
    PROVE  LET p == PoolWith(b)
           IN  /\ IsList(p) /\ Distinct(p)
               /\ PoolIds(p) = PoolIds(pool) \cup {b.id}
               /\ \A id \in PoolIds(pool) : id # b.id => BackendIn(p, id) = BackendIn(pool, id)
               /\ b.id \notin PoolIds(pool) =>
                     /\ Len(p) = Len(pool) + 1 /\ p[Len(p)] = b
                     /\ \A i \in 1 .. Len(pool) : p[i] = pool[i]
<1> DEFINE p == PoolWith(b)
           N == Len(pool)
<1>1. N \in Nat /\ DOMAIN pool = 1 .. N /\ pool \in Seq(ToSet(pool))
  BY ListPositions
<1>2. CASE b.id \in PoolIds(pool)
  <2>1. p = [i \in 1 .. N |-> IF pool[i].id = b.id THEN b ELSE pool[i]]
    BY <1>1, <1>2 DEF PoolWith
  <2>2. DOMAIN p = 1 .. N /\ p = [i \in 1 .. N |-> p[i]]
        /\ \A i \in 1 .. N : p[i] = IF pool[i].id = b.id THEN b ELSE pool[i]
    BY <2>1
  <2> HIDE DEF p
  <2>3. IsList(p) /\ Len(p) = N
    BY <1>1, <2>2, FunctionIsList
  <2>4. \A i \in 1 .. N : p[i].id = pool[i].id
    BY <2>2
  <2>5. Distinct(p)
    BY <1>1, <2>2, <2>4 DEF Distinct
  <2>6. PoolIds(p) = PoolIds(pool)
    BY <1>1, <2>2, <2>4 DEF PoolIds
  <2>7. ASSUME NEW id \in PoolIds(pool), id # b.id PROVE BackendIn(p, id) = BackendIn(pool, id)
    <3>1. PICK i \in 1 .. N : pool[i].id = id
      BY <1>1 DEF PoolIds
    <3>2. p[i] = pool[i] /\ p[i].id = id
      BY <2>2, <2>7, <3>1
    <3>3. BackendIn(p, id) = p[i] /\ BackendIn(pool, id) = pool[i]
      BY <1>1, <2>2, <2>5, <3>1, <3>2, BackendIsAt
    <3> QED  BY <3>2, <3>3
  <2> QED  BY <1>2, <2>3, <2>5, <2>6, <2>7 DEF p
<1>3. CASE b.id \notin PoolIds(pool)
  <2> DEFINE S == ToSet(pool) \cup {b}
  <2>1. p = Append(pool, b)
    BY <1>3 DEF PoolWith
  <2>2. pool \in Seq(S) /\ b \in S
    <3>1. ToSet(pool) \subseteq S
      OBVIOUS
    <3> QED  BY <1>1, <3>1, SeqMonotonic
  <2>3. /\ p \in Seq(S) /\ Len(p) = N + 1
        /\ \A i \in 1 .. N : p[i] = pool[i]
        /\ p[N + 1] = b
    BY <2>1, <2>2, AppendProperties
  <2> HIDE DEF p, S
  <2>4. /\ DOMAIN p = 1 .. N + 1 /\ p = [i \in 1 .. N + 1 |-> p[i]]
        /\ \A i \in 1 .. N + 1 : i \in 1 .. N \/ i = N + 1
        /\ \A i \in 1 .. N : i \in 1 .. N + 1
        /\ N + 1 \in 1 .. N + 1
    <3>1. DOMAIN p = 1 .. Len(p) /\ p = [i \in 1 .. Len(p) |-> p[i]]
      BY <2>3
    <3> QED  BY <1>1, <2>3, <3>1
  <2>5. IsList(p)
    <3>1. N + 1 \in Nat
      BY <1>1
    <3> QED  BY <2>4, <3>1, FunctionIsList
  <2>6. \A i \in 1 .. N : p[i].id = pool[i].id /\ pool[i].id # b.id
    BY <1>1, <1>3, <2>3 DEF PoolIds
  <2>7. Distinct(p)
    <3> SUFFICES ASSUME NEW i \in DOMAIN p, NEW j \in DOMAIN p, p[i].id = p[j].id PROVE i = j
      BY DEF Distinct
    <3>1. i \in 1 .. N \/ i = N + 1
      BY <2>4
    <3>2. j \in 1 .. N \/ j = N + 1
      BY <2>4
    <3> QED  BY <1>1, <2>3, <2>6, <3>1, <3>2 DEF Distinct
  <2>8. PoolIds(p) = PoolIds(pool) \cup {b.id}
    <3>1. ASSUME NEW x \in PoolIds(p) PROVE x \in PoolIds(pool) \cup {b.id}
      <4>1. PICK i \in 1 .. N + 1 : x = p[i].id
        BY <2>4 DEF PoolIds
      <4>2. CASE i \in 1 .. N
        BY <1>1, <2>6, <4>1, <4>2 DEF PoolIds
      <4>3. CASE i = N + 1
        BY <2>3, <4>1, <4>3
      <4> QED  BY <2>4, <4>2, <4>3
    <3>2. \A x \in PoolIds(pool) : x \in PoolIds(p)
      BY <1>1, <2>4, <2>6 DEF PoolIds
    <3>3. b.id \in PoolIds(p)
      BY <2>3, <2>4 DEF PoolIds
    <3> QED  BY <3>1, <3>2, <3>3
  <2>9. ASSUME NEW id \in PoolIds(pool), id # b.id PROVE BackendIn(p, id) = BackendIn(pool, id)
    <3>1. PICK i \in 1 .. N : pool[i].id = id
      BY <1>1 DEF PoolIds
    <3>2. p[i] = pool[i] /\ p[i].id = id /\ i \in DOMAIN p
      BY <2>3, <2>4, <3>1
    <3>3. BackendIn(p, id) = p[i] /\ BackendIn(pool, id) = pool[i]
      BY <1>1, <2>7, <3>1, <3>2, BackendIsAt
    <3> QED  BY <3>2, <3>3
  <2> QED  BY <1>3, <2>3, <2>5, <2>7, <2>8, <2>9 DEF p
<1> QED  BY <1>2, <1>3

\* The pool is a dictionary and the map a configuration's, whatever is
\* registered.
DoorInv ==
    /\ IsMap(model_map) /\ IsList(pool) /\ Distinct(pool)
    /\ Unrestricted \cap PoolIds(pool) = {}
    /\ \A i \in DOMAIN model_map : Unrestricted \cap model_map[i].ids = {}

\* DoorInv holds at the start.
LEMMA DoorInit == Init => DoorInv
<1> SUFFICES ASSUME Init PROVE DoorInv
  OBVIOUS
<1>1. PICK d \in Deployments : model_map = d.map /\ pool = d.pool
  BY DEF Init
<1>2. IsMap(d.map)
  BY DeploymentsAssumption DEF IsMap, IsList
<1>3. IsList(d.pool) /\ Distinct(d.pool)
  BY DeploymentsAssumption DEF IsList, Distinct
<1>4. Unrestricted \cap (PoolIds(d.pool) \cup UNION {d.map[i].ids : i \in DOMAIN d.map}) = {}
  BY DeploymentsAssumption
<1>5. Unrestricted \cap PoolIds(d.pool) = {} /\ \A i \in DOMAIN d.map : Unrestricted \cap d.map[i].ids = {}
  BY <1>4
<1> QED  BY <1>1, <1>2, <1>3, <1>5 DEF DoorInv

\* What a registration does to the pool.
Registered(b) == [id |-> b.id, model |-> b.model, style |-> "openai", reports |-> b.reports]

\* DoorInv is kept by every step.
LEMMA DoorStep == DoorInv /\ [Next]_vars => DoorInv'
<1> SUFFICES ASSUME DoorInv, [Next]_vars PROVE DoorInv'
  OBVIOUS
<1>1. ASSUME NEW b \in HotBackends, AddBackend(b) PROVE DoorInv'
  <2>1. pool' = PoolWith(Registered(b)) /\ model_map' = model_map
    BY <1>1 DEF AddBackend, Registered
  <2>2. IsList(pool') /\ Distinct(pool') /\ PoolIds(pool') = PoolIds(pool) \cup {Registered(b).id}
    BY <2>1, PoolGrows DEF DoorInv
  <2>3. Registered(b).id = b.id /\ b.id \notin Unrestricted
    BY DeploymentsAssumption DEF Registered
  <2> QED  BY <2>1, <2>2, <2>3 DEF DoorInv
<1>2. ASSUME UNCHANGED <<pool, model_map>> PROVE DoorInv'
  BY <1>2 DEF DoorInv
<1>3. ASSUME NEW body \in Bodies, Handle(body) PROVE DoorInv'
  BY <1>2, <1>3 DEF Handle
<1>4. ASSUME Fallback \/ EngineReplies \/ Done PROVE DoorInv'
  BY <1>2, <1>4 DEF Fallback, EngineReplies, Done
<1>5. ASSUME ListingStep \/ UNCHANGED vars PROVE DoorInv'
  BY <1>2, <1>5 DEF ListingStep, StartListing, Probe, EndListing, vars
<1> QED  BY <1>1, <1>3, <1>4, <1>5 DEF Next, RequestStep, HotAdd

-----------------------------------------------------------------------------
(* Who serves a request.                                                   *)

\* The backend of id, if it answers for its own model, answers for n; or the map
\* gives it other names.
Right(id, n) ==
    LET own == BackendOf(id).model
    IN  \/ HasSecondNames(id)
        \/ own = NoModel \/ own = n \/ SameText(own, n) \/ PrefixOfEither(own, n)
Spoken(id, n) == IF BackendOf(id).model = NoModel THEN n ELSE BackendOf(id).model

\* A payload went to a backend that is right for n, unless that id has been
\* registered again.
RoutedTo(p, n) ==
    /\ p.to \in PoolIds(pool)
    /\ p.to \in replaced \/ (Right(p.to, n) /\ p.answers = Spoken(p.to, n))

Routed(r) ==
    \E p, q : /\ r.sent = <<p>> \/ r.sent = <<p, q>>
              /\ r.resolved # Unrestricted =>
                    RoutedTo(p, r.body.model) /\ RoutedTo(q, r.body.model)

RouteInv ==
    /\ req.phase = "sent" => DOMAIN req = {"body", "resolved", "feature", "phase", "sent"}
    /\ req.phase # "idle" /\ "sent" \in DOMAIN req => Routed(req)
    /\ req.phase = "answered" /\ req.status = 200 => "sent" \in DOMAIN req

\* Whatever a name resolves to is right for it.
LEMMA ResolvedIsRight ==
    ASSUME DoorInv, NEW n, NEW id \in PoolIds(pool),
           Resolve(Table, n) # Unrestricted, id \in Resolve(Table, n)
    PROVE  Right(id, n)
<1>1. PICK k \in NamesOf(Table) :
         id \in Table.ids[k] /\ (k = n \/ SameText(k, n) \/ PrefixOfEither(k, n))
  BY ResolvedBy DEF DoorInv, Table
<1>2. \/ k \in DeclaredNames(model_map) /\ id \in IdsOf(model_map, k)
      \/ \E i \in DOMAIN pool : pool[i].model = k /\ pool[i].id = id
  BY <1>1, BoundBy DEF DoorInv, Table
<1>3. CASE k \in DeclaredNames(model_map) /\ id \in IdsOf(model_map, k)
  <2>1. CASE k = BackendOf(id).model
    BY <1>1, <2>1 DEF Right
  <2>2. CASE k # BackendOf(id).model
    BY <1>3, <2>2 DEF Right, HasSecondNames
  <2> QED  BY <2>1, <2>2
<1>4. CASE \E i \in DOMAIN pool : pool[i].model = k /\ pool[i].id = id
  <2>1. BackendOf(id).model = k
    BY <1>4, BackendIsAt DEF DoorInv, BackendOf, BackendIn
  <2> QED  BY <1>1, <2>1 DEF Right
<1> QED  BY <1>2, <1>3, <1>4

\* The payload for a backend carries its id and what it answers for.
LEMMA PayloadIs ==
    ASSUME DoorInv, NEW id \in PoolIds(pool), NEW body, NEW budget
    PROVE  LET p == Payload(BackendOf(id), body, budget)
           IN  p.to = id /\ p.answers = Spoken(id, body.model)
<1>1. PICK i \in DOMAIN pool : pool[i].id = id
  BY DEF PoolIds
<1>2. BackendOf(id) = pool[i]
  BY <1>1, BackendIsAt DEF DoorInv, BackendOf, BackendIn
<1> QED  BY <1>1, <1>2 DEF Payload, Spoken

\* What was sent, and answered with a 200, was served by the model asked for.
LEMMA RoutedIsServed == RouteInv => ServedByItsModel
<1> SUFFICES ASSUME RouteInv, Answered, req.resolved # Unrestricted
             PROVE  LET n == req.body.model
                    IN  \/ Served.to \in replaced \/ HasSecondNames(Served.to)
                        \/ Served.answers = n \/ SameText(Served.answers, n)
                        \/ PrefixOfEither(Served.answers, n)
  BY DEF ServedByItsModel
<1>1. PICK p, q : /\ req.sent = <<p>> \/ req.sent = <<p, q>>
                  /\ RoutedTo(p, req.body.model) /\ RoutedTo(q, req.body.model)
  BY DEF RouteInv, Answered, Routed
<1>2. Served = p \/ Served = q
  <2>1. CASE req.sent = <<p>>
    <3>1. Len(<<p>>) = 1 /\ <<p>>[1] = p
      OBVIOUS
    <3> QED  BY <2>1, <3>1 DEF Served, Last
  <2>2. CASE req.sent = <<p, q>>
    <3>1. Len(<<p, q>>) = 2 /\ <<p, q>>[2] = q
      OBVIOUS
    <3> QED  BY <2>2, <3>1 DEF Served, Last
  <2> QED  BY <1>1, <2>1, <2>2
<1>3. RoutedTo(Served, req.body.model)
  BY <1>1, <1>2
<1> QED  BY <1>3 DEF RoutedTo, Right, Spoken

\* A registration leaves a payload routed: its backend is the same, or was
\* registered again.
LEMMA StaysRouted ==
    ASSUME DoorInv, NEW b, pool' = PoolWith(Registered(b)), model_map' = model_map,
           replaced' = replaced \cup ({b.id} \cap PoolIds(pool)),
           NEW p, NEW n, RoutedTo(p, n)
    PROVE  RoutedTo(p, n)'
<1>1. /\ PoolIds(pool') = PoolIds(pool) \cup {b.id}
      /\ \A id \in PoolIds(pool) : id # b.id => BackendIn(pool', id) = BackendIn(pool, id)
  <2>1. Registered(b).id = b.id
    BY DEF Registered
  <2> QED  BY <2>1, PoolGrows DEF DoorInv
<1>2. p.to \in PoolIds(pool) /\ p.to \in PoolIds(pool')
  BY <1>1 DEF RoutedTo
<1>3. CASE p.to \in replaced \/ p.to = b.id
  BY <1>2, <1>3 DEF RoutedTo
<1>4. CASE p.to \notin replaced /\ p.to # b.id
  <2>1. BackendOf(p.to)' = BackendOf(p.to)
    BY <1>1, <1>2, <1>4 DEF BackendOf, BackendIn
  <2>2. HasSecondNames(p.to)' = HasSecondNames(p.to)
    BY <2>1 DEF HasSecondNames
  <2>3. Right(p.to, n)' = Right(p.to, n) /\ Spoken(p.to, n)' = Spoken(p.to, n)
    BY <2>1, <2>2 DEF Right, Spoken
  <2> QED  BY <1>2, <1>4, <2>3 DEF RoutedTo
<1> QED  BY <1>3, <1>4

\* What a payload is routed by does not change with the request.
LEMMA StillRouted ==
    ASSUME UNCHANGED <<model_map, pool, replaced>>, NEW p, NEW n
    PROVE  RoutedTo(p, n)' = RoutedTo(p, n)
<1>1. model_map' = model_map /\ pool' = pool /\ replaced' = replaced
  OBVIOUS
<1>2. BackendOf(p.to)' = BackendOf(p.to)
  BY <1>1 DEF BackendOf
<1>3. HasSecondNames(p.to)' = HasSecondNames(p.to)
  BY <1>1, <1>2 DEF HasSecondNames
<1>4. Right(p.to, n)' = Right(p.to, n) /\ Spoken(p.to, n)' = Spoken(p.to, n)
  BY <1>2, <1>3 DEF Right, Spoken
<1> QED  BY <1>1, <1>4 DEF RoutedTo

\* A step that keeps what was sent, and the table, keeps it rightly sent.
LEMMA StillAllRouted ==
    ASSUME UNCHANGED <<model_map, pool, replaced>>, Routed(req),
           req'.sent = req.sent, req'.body = req.body, req'.resolved = req.resolved
    PROVE  Routed(req)'
<1>1. PICK p, q : /\ req.sent = <<p>> \/ req.sent = <<p, q>>
                  /\ req.resolved # Unrestricted =>
                        RoutedTo(p, req.body.model) /\ RoutedTo(q, req.body.model)
  BY DEF Routed
<1>2. PICK n : n = req.body.model
  OBVIOUS
<1>3. RoutedTo(p, n)' = RoutedTo(p, n) /\ RoutedTo(q, n)' = RoutedTo(q, n)
  BY StillRouted
<1> QED  BY <1>1, <1>2, <1>3 DEF Routed

\* Every step of a handler sends to a backend that is right, and every
\* registration in between is accounted for.
LEMMA RouteStep == DoorInv /\ RouteInv /\ [Next]_vars => RouteInv'
<1> SUFFICES ASSUME DoorInv, RouteInv, [Next]_vars PROVE RouteInv'
  OBVIOUS
<1> DEFINE Keys == {"body", "resolved", "feature", "phase", "sent"}
<1>1. ASSUME NEW body \in Bodies, Handle(body) PROVE RouteInv'
  <2> DEFINE found == Resolve(Table, body.model)
             Reply(status) ==
               [body |-> body, resolved |-> found, feature |-> Feature(body),
                phase |-> "answered", status |-> status]
             Out(b) ==
               [body |-> body, resolved |-> found, feature |-> Feature(body),
                phase |-> "sent", sent |-> <<Payload(b, body, ToOpenAI(body))>>]
             usable == IF found = Unrestricted THEN PoolIds(pool) ELSE found \cap PoolIds(pool)
  <2>1. /\ UNCHANGED <<model_map, pool, replaced>>
        /\ \/ Refusal(body, Table) # 0 /\ req' = Reply(Refusal(body, Table))
           \/ req' = Reply(503)
           \/ \E id \in usable : req' = Out(BackendOf(id))
    BY <1>1 DEF Handle
  <2>2. Refusal(body, Table) # 200
    BY DEF Refusal
  <2>3. CASE \E status : status # 200 /\ req' = Reply(status)
    <3>1. PICK status : status # 200 /\ req' = Reply(status)
      BY <2>3
    <3>2. req'.phase = "answered" /\ req'.status = status /\ "sent" \notin DOMAIN req'
      BY <3>1
    <3> QED  BY <3>1, <3>2 DEF RouteInv
  <2>4. CASE \E id \in usable : req' = Out(BackendOf(id))
    <3>1. PICK id \in usable : req' = Out(BackendOf(id))
      BY <2>4
    <3> DEFINE new == Payload(BackendOf(id), body, ToOpenAI(body))
    <3>2. /\ DOMAIN req' = Keys /\ req'.phase = "sent" /\ req'.sent = <<new>>
          /\ req'.body = body /\ req'.resolved = found
      BY <3>1
    <3>3. new.to = id /\ new.answers = Spoken(id, body.model) /\ id \in PoolIds(pool)
      <4>1. id \in PoolIds(pool)
        OBVIOUS
      <4> QED  BY <4>1, PayloadIs
    <3> HIDE DEF new
    <3>4. PICK p : p = new
      OBVIOUS
    <3>5. ASSUME found # Unrestricted PROVE RoutedTo(p, body.model)'
      <4>1. id \in found
        BY <3>5
      <4>2. Right(id, body.model)
        BY <3>3, <3>5, <4>1, ResolvedIsRight
      <4>3. RoutedTo(p, body.model)
        BY <3>3, <3>4, <4>2 DEF RoutedTo
      <4> QED  BY <2>1, <4>3, StillRouted
    <3> HIDE DEF found, Out
    <3>6. Routed(req)'
      BY <3>2, <3>4, <3>5 DEF Routed
    <3> QED  BY <3>2, <3>6 DEF RouteInv
  <2> QED  BY <2>1, <2>2, <2>3, <2>4
<1>2. ASSUME Fallback PROVE RouteInv'
  <2> DEFINE n == req.body.model
             new == Payload(BackendOf(req.sent[1].to), req.body, FallbackBudget(ToOpenAI(req.body)))
  <2>1. /\ req.phase = "sent" /\ Len(req.sent) = 1
        /\ req' = [req EXCEPT !.sent = Append(req.sent, new)]
        /\ UNCHANGED <<model_map, pool, replaced>>
    BY <1>2 DEF Fallback
  <2>2. DOMAIN req = Keys /\ Routed(req)
    BY <2>1 DEF RouteInv
  <2>3. PICK p : /\ req.sent = <<p>>
                 /\ req.resolved # Unrestricted => RoutedTo(p, n)
    <3>1. PICK p, q : /\ req.sent = <<p>> \/ req.sent = <<p, q>>
                      /\ req.resolved # Unrestricted => RoutedTo(p, n)
      BY <2>2 DEF Routed
    <3>2. Len(<<p, q>>) = 2
      OBVIOUS
    <3> QED  BY <2>1, <3>1, <3>2
  <2>4. ASSUME req.resolved # Unrestricted PROVE RoutedTo(new, n)
    <3>1. req.sent[1] = p /\ p.to \in PoolIds(pool) /\ RoutedTo(p, n)
      BY <2>3, <2>4 DEF RoutedTo
    <3>2. new.to = p.to /\ new.answers = Spoken(p.to, n)
      BY <3>1, PayloadIs
    <3> HIDE DEF new
    <3> QED  BY <3>1, <3>2 DEF RoutedTo
  <2> HIDE DEF new
  <2>5. /\ DOMAIN req' = Keys /\ req'.phase = "sent" /\ req'.body = req.body
        /\ req'.sent = <<p, new>> /\ req'.resolved = req.resolved
    <3>1. Append(<<p>>, new) = <<p, new>>
      BY AppendTwo
    <3>2. req'.sent = Append(req.sent, new) /\ DOMAIN req' = Keys
      BY <2>1, <2>2
    <3>3. req'.phase = "sent" /\ req'.body = req.body /\ req'.resolved = req.resolved
      BY <2>1, <2>2
    <3> QED  BY <2>3, <3>1, <3>2, <3>3
  <2>6. PICK q, m : q = new /\ m = n
    OBVIOUS
  <2>7. /\ req'.sent = <<p, q>> /\ req'.body.model = m
        /\ req'.resolved # Unrestricted => RoutedTo(p, m)' /\ RoutedTo(q, m)'
    <3>1. RoutedTo(p, m)' = RoutedTo(p, m) /\ RoutedTo(q, m)' = RoutedTo(q, m)
      BY <2>1, StillRouted
    <3> QED  BY <2>3, <2>4, <2>5, <2>6, <3>1
  <2>8. Routed(req)'
    BY <2>7 DEF Routed
  <2> QED  BY <2>5, <2>8 DEF RouteInv
<1>3. ASSUME EngineReplies PROVE RouteInv'
  <2>1. /\ req.phase = "sent" /\ req'.phase = "answered" /\ "sent" \in DOMAIN req'
        /\ req'.body = req.body /\ req'.sent = req.sent /\ req'.resolved = req.resolved
        /\ UNCHANGED <<model_map, pool, replaced>>
    BY <1>3 DEF EngineReplies
  <2>2. Routed(req)
    BY <2>1 DEF RouteInv
  <2>3. Routed(req)'
    BY <2>1, <2>2, StillAllRouted
  <2> QED  BY <2>1, <2>3 DEF RouteInv
<1>4. ASSUME Done PROVE RouteInv'
  BY <1>4 DEF Done, Idle, RouteInv
<1>5. ASSUME UNCHANGED <<req, model_map, pool, replaced>> PROVE RouteInv'
  <2>1. Routed(req) => Routed(req)'
    BY <1>5, StillAllRouted
  <2> QED  BY <1>5, <2>1 DEF RouteInv
<1>6. ASSUME ListingStep \/ UNCHANGED vars PROVE RouteInv'
  BY <1>5, <1>6 DEF ListingStep, StartListing, Probe, EndListing, vars
<1>7. ASSUME NEW b \in HotBackends, AddBackend(b) PROVE RouteInv'
  <2>1. /\ pool' = PoolWith(Registered(b)) /\ model_map' = model_map /\ req' = req
        /\ replaced' = replaced \cup ({b.id} \cap PoolIds(pool))
    BY <1>7 DEF AddBackend, Registered
  <2>2. ASSUME Routed(req) PROVE Routed(req)'
    <3>1. PICK p, q : /\ req.sent = <<p>> \/ req.sent = <<p, q>>
                      /\ req.resolved # Unrestricted =>
                            RoutedTo(p, req.body.model) /\ RoutedTo(q, req.body.model)
      BY <2>2 DEF Routed
    <3>2. ASSUME NEW n, RoutedTo(p, n) PROVE RoutedTo(p, n)'
      BY <2>1, <3>2, StaysRouted
    <3>3. ASSUME NEW n, RoutedTo(q, n) PROVE RoutedTo(q, n)'
      BY <2>1, <3>3, StaysRouted
    <3>4. PICK n : n = req.body.model
      OBVIOUS
    <3>5. req.resolved # Unrestricted => RoutedTo(p, n)' /\ RoutedTo(q, n)'
      BY <3>1, <3>2, <3>3, <3>4
    <3> QED  BY <2>1, <3>1, <3>4, <3>5 DEF Routed
  <2> QED  BY <2>1, <2>2 DEF RouteInv
<1> QED  BY <1>1, <1>2, <1>3, <1>4, <1>6, <1>7 DEF Next, RequestStep, HotAdd

\* Whoever names a model gets a 200 from that model only, or from one whose name
\* its own completes, for any map, pool, request and order of registrations: the
\* exceptions are a backend the map gives several names and one registered again.
THEOREM ServedAsAsked == Spec => []ServedByItsModel
<1>1. Init => RouteInv
  BY DEF Init, Idle, RouteInv
<1> QED  BY <1>1, DoorInit, DoorStep, RouteStep, RoutedIsServed, PTL DEF Spec

-----------------------------------------------------------------------------
(* What is listed.                                                         *)

\* A backend more, and no name is lost.
LEMMA NamesGrow ==
    ASSUME NEW map, IsMap(map), NEW p, IsList(p), NEW q, IsList(q), ToSet(p) \subseteq ToSet(q)
    PROVE  NamesOf(Aliases(map, p)) \subseteq NamesOf(Aliases(map, q))
<1> SUFFICES ASSUME NEW n \in NamesOf(Aliases(map, p)) PROVE n \in NamesOf(Aliases(map, q))
  OBVIOUS
<1>1. n \in DeclaredNames(map) \/ n \in DeclaredNames(OwnNames(p))
  BY AliasesAre
<1>2. ASSUME n \in DeclaredNames(OwnNames(p)) PROVE n \in DeclaredNames(OwnNames(q))
  <2>1. n # NoModel /\ \E i \in DOMAIN p : p[i].model = n
    BY <1>2, OwnNamesAre
  <2>2. PICK i \in DOMAIN p : p[i].model = n
    BY <2>1
  <2>3. p[i] \in ToSet(q)
    BY <2>2 DEF ToSet
  <2>4. \E j \in DOMAIN q : q[j].model = n
    BY <2>2, <2>3 DEF ToSet
  <2> QED  BY <2>1, <2>4, OwnNamesAre
<1> QED  BY <1>1, <1>2, AliasesAre

\* A name of the table resolves to somebody.
LEMMA NamesResolve ==
    ASSUME NEW map, IsMap(map), NEW p, IsList(p), NEW n \in NamesOf(Aliases(map, p))
    PROVE  Resolve(Aliases(map, p), n) # {}
<1> DEFINE t == Aliases(map, p)
<1>1. Resolve(t, n) = Unrestricted \/ Resolve(t, n) = t.ids[n]
  BY DEF Resolve
<1>2. Unrestricted # {}
  BY DEF Unrestricted
<1>3. t.ids[n] = Kept(IdsOf(map, n), p) \cup IdsOf(OwnNames(p), n)
  BY AliasesAre
<1>4. n \in DeclaredNames(map) \/ n \in DeclaredNames(OwnNames(p))
  BY AliasesAre
<1>5. CASE n \in DeclaredNames(map)
  <2>1. PICK i \in DOMAIN map : n \in ToSet(map[i].names)
    BY <1>5 DEF DeclaredNames
  <2>2. PICK id : id \in map[i].ids
    BY DEF IsMap
  <2>3. id \in IdsOf(map, n)
    BY <2>1, <2>2 DEF IdsOf
  <2>4. Kept(IdsOf(map, n), p) # {}
    BY <2>3 DEF Kept
  <2> QED  BY <1>1, <1>2, <1>3, <2>4
<1>6. CASE n \in DeclaredNames(OwnNames(p))
  <2>1. PICK i \in DOMAIN p : p[i].model = n /\ n # NoModel
    BY <1>6, OwnNamesAre
  <2>2. p[i].id \in IdsOf(OwnNames(p), n)
    BY <2>1, OwnNamesAre
  <2> QED  BY <1>1, <1>2, <1>3, <2>2
<1> QED  BY <1>4, <1>5, <1>6

Reported(p) == UNION {b.reports : b \in ToSet(p)}

\* While no known id is registered again, what a listing has gathered is in the
\* table as it is now or reported by a backend of the pool, and so are the
\* backends it has yet to ask.
ListInv ==
    /\ listing.phase \in {"none", "probing", "listed"}
    /\ listing.phase = "probing" =>
          /\ DOMAIN listing = {"phase", "names", "left", "stable"}
          /\ IsList(listing.left)
          /\ listing.stable => /\ listing.names \subseteq NamesOf(Table) \cup Reported(pool)
                               /\ ToSet(listing.left) \subseteq ToSet(pool)
    /\ listing.phase = "listed" =>
          /\ DOMAIN listing = {"phase", "names", "stable"}
          /\ listing.stable => listing.names \subseteq NamesOf(Table) \cup Reported(pool) \cup {DefaultModel}

\* What ListInv says of the names gathered is what the listing promises.
LEMMA GatheredIsRoutable == DoorInv /\ ListInv => ListedIsRoutable
<1> SUFFICES ASSUME DoorInv, ListInv, listing.phase = "listed", listing.stable,
                    NEW n \in listing.names
             PROVE  Resolve(Table, n) # {} \/ \E i \in DOMAIN pool : n \in pool[i].reports
  BY DEF ListedIsRoutable
<1>1. n \in NamesOf(Table) \/ n \in Reported(pool) \/ n = DefaultModel
  BY DEF ListInv
<1>2. CASE n \in NamesOf(Table)
  BY <1>2, NamesResolve DEF DoorInv, Table
<1>3. CASE n \in Reported(pool)
  BY <1>3 DEF Reported, ToSet
<1>4. CASE n = DefaultModel
  BY <1>4 DEF Resolve, GenericNames, Unrestricted
<1> QED  BY <1>1, <1>2, <1>3, <1>4

\* ListInv is kept by every step.
LEMMA ListStep == DoorInv /\ ListInv /\ [Next]_vars => ListInv'
<1> SUFFICES ASSUME DoorInv, ListInv, [Next]_vars PROVE ListInv'
  OBVIOUS
<1>1. ASSUME UNCHANGED <<listing, model_map, pool>> PROVE ListInv'
  <2>1. Table' = Table
    BY <1>1 DEF Table
  <2> QED  BY <1>1, <2>1 DEF ListInv
<1>2. ASSUME NEW body \in Bodies, Handle(body) PROVE ListInv'
  BY <1>1, <1>2 DEF Handle
<1>3. ASSUME Fallback \/ EngineReplies \/ Done \/ UNCHANGED vars PROVE ListInv'
  BY <1>1, <1>3 DEF Fallback, EngineReplies, Done, vars
<1>4. ASSUME UNCHANGED <<model_map, pool>> PROVE Table' = Table /\ Reported(pool)' = Reported(pool)
  BY <1>4 DEF Table, Reported
<1>5. ASSUME StartListing PROVE ListInv'
  <2>1. /\ listing' = [phase |-> "probing", names |-> NamesOf(Table), left |-> pool, stable |-> TRUE]
        /\ UNCHANGED <<model_map, pool>>
    BY <1>5 DEF StartListing
  <2>2. Table' = Table /\ IsList(pool)
    BY <1>4, <2>1 DEF DoorInv
  <2> QED  BY <2>1, <2>2 DEF ListInv
<1>6. ASSUME Probe PROVE ListInv'
  <2>1. PICK names \in {{}, Head(listing.left).reports} :
           /\ listing' = [listing EXCEPT !.left = Tail(listing.left), !.names = listing.names \cup names]
           /\ listing.phase = "probing" /\ listing.left # <<>> /\ UNCHANGED <<model_map, pool>>
    BY <1>6 DEF Probe
  <2> DEFINE left == listing.left
  <2>2. DOMAIN listing = {"phase", "names", "left", "stable"} /\ IsList(left) /\ left # <<>>
    BY <2>1 DEF ListInv
  <2>3. /\ DOMAIN listing' = {"phase", "names", "left", "stable"}
        /\ listing'.phase = "probing" /\ listing'.left = Tail(left)
        /\ listing'.names = listing.names \cup names /\ listing'.stable = listing.stable
    BY <2>1, <2>2
  <2>4. Head(left) \in ToSet(left) /\ ToSet(Tail(left)) \subseteq ToSet(left) /\ IsList(Tail(left))
    <3>1. left \in Seq(ToSet(left)) /\ left # <<>>
      BY <2>2 DEF IsList
    <3> HIDE DEF left
    <3>2. /\ Head(left) \in ToSet(left) /\ Tail(left) \in Seq(ToSet(left))
      BY <3>1, HeadTailProperties
    <3> QED  BY <3>2, SeqIsList
  <2>5. ASSUME listing.stable
        PROVE  /\ listing'.names \subseteq NamesOf(Table) \cup Reported(pool)
               /\ ToSet(listing'.left) \subseteq ToSet(pool)
    <3>1. listing.names \subseteq NamesOf(Table) \cup Reported(pool) /\ ToSet(left) \subseteq ToSet(pool)
      BY <2>1, <2>5 DEF ListInv
    <3>2. names \subseteq Reported(pool)
      BY <2>4, <3>1 DEF Reported
    <3> QED  BY <2>3, <2>4, <3>1, <3>2
  <2>6. Table' = Table /\ Reported(pool)' = Reported(pool) /\ pool' = pool
    BY <1>4, <2>1
  <2>7. IsList(listing'.left)
    BY <2>3, <2>4
  <2> QED  BY <2>3, <2>5, <2>6, <2>7 DEF ListInv
<1>7. ASSUME EndListing PROVE ListInv'
  <2>1. /\ listing.phase = "probing" /\ UNCHANGED <<model_map, pool>>
        /\ listing' = [phase |-> "listed", names |-> Listed(listing.names), stable |-> listing.stable]
    BY <1>7 DEF EndListing
  <2>2. Table' = Table /\ Reported(pool)' = Reported(pool)
    BY <1>4, <2>1
  <2>3. listing.stable => listing.names \subseteq NamesOf(Table) \cup Reported(pool)
    BY <2>1 DEF ListInv
  <2>4. Listed(listing.names) \subseteq listing.names \cup {DefaultModel}
    BY DEF Listed
  <2> QED  BY <2>1, <2>2, <2>3, <2>4 DEF ListInv
<1>8. ASSUME NEW b \in HotBackends, AddBackend(b) PROVE ListInv'
  <2>1. /\ pool' = PoolWith(Registered(b)) /\ model_map' = model_map
        /\ listing' = IF listing = NoListing \/ b.id \notin PoolIds(pool) THEN listing
                      ELSE [listing EXCEPT !.stable = FALSE]
    BY <1>8 DEF AddBackend, Registered
  <2>2. CASE listing.phase = "none"
    <3>1. listing'.phase = "none"
      BY <2>1, <2>2
    <3> QED  BY <3>1 DEF ListInv
  <2>3. CASE listing.phase # "none" /\ b.id \in PoolIds(pool)
    <3>1. listing # NoListing
      BY <2>3 DEF NoListing
    <3>2. listing' = [listing EXCEPT !.stable = FALSE]
      BY <2>1, <2>3, <3>1
    <3>3. "stable" \in DOMAIN listing
      BY <2>3 DEF ListInv
    <3>4. /\ listing'.phase = listing.phase /\ DOMAIN listing' = DOMAIN listing
          /\ listing'.stable = FALSE
      BY <3>2, <3>3
    <3>5. listing.phase = "probing" => listing'.left = listing.left
      BY <3>2
    <3> QED  BY <3>4, <3>5 DEF ListInv
  <2>4. CASE b.id \notin PoolIds(pool)
    <3>1. listing' = listing
      BY <2>1, <2>4
    <3>2. IsList(pool) /\ IsList(pool') /\ IsMap(model_map) /\ DoorInv
      BY <2>1, PoolGrows DEF DoorInv
    <3>3. ToSet(pool) \subseteq ToSet(pool')
      <4>1. Registered(b).id = b.id
        BY DEF Registered
      <4>2. Len(pool') = Len(pool) + 1 /\ \A i \in 1 .. Len(pool) : pool'[i] = pool[i]
        BY <2>1, <2>4, <4>1, PoolGrows DEF DoorInv
      <4>3. DOMAIN pool = 1 .. Len(pool) /\ DOMAIN pool' = 1 .. Len(pool') /\ Len(pool) \in Nat
        BY <3>2, ListPositions
      <4>4. \A i \in DOMAIN pool : i \in DOMAIN pool' /\ pool'[i] = pool[i]
        BY <4>2, <4>3
      <4> QED  BY <4>4 DEF ToSet
    <3>4. NamesOf(Table) \subseteq NamesOf(Table')
      BY <2>1, <3>2, <3>3, NamesGrow DEF Table
    <3>5. Reported(pool) \subseteq Reported(pool')
      BY <3>3 DEF Reported
    <3> QED  BY <3>1, <3>3, <3>4, <3>5 DEF ListInv
  <2> QED  BY <2>2, <2>3, <2>4
<1> QED  BY <1>2, <1>3, <1>5, <1>6, <1>7, <1>8 DEF Next, RequestStep, ListingStep, HotAdd

\* Every name on /v1/models and /api/tags is one the gateway routes, or one only
\* an engine knows, for any pool, map and order of registrations and probes.
THEOREM ListedNamesRoute == Spec => []ListedIsRoutable
<1>1. Init => ListInv
  BY DEF Init, NoListing, ListInv
<1> QED  BY <1>1, DoorInit, DoorStep, ListStep, GatheredIsRoutable, PTL DEF Spec

-----------------------------------------------------------------------------
(* What a registration takes away.                                         *)

\* Lists in m places, and one place more.
PlaceAdded(order, longer, m) ==
    /\ DOMAIN order = 1 .. m /\ DOMAIN longer = 1 .. m + 1
    /\ \A i \in 1 .. m : longer[i] = order[i]
NamesIn(order, m) == UNION {ToSet(order[i]) : i \in 1 .. m}

\* The first hit stays the first when a place is added at the end.
LEMMA FirstStays ==
    ASSUME NEW m \in Nat, NEW order, NEW longer, PlaceAdded(order, longer, m),
           NEW hits, hits # {}, NEW more, more \cap NamesIn(order, m) = hits
    PROVE  FirstIn(longer, more) = FirstIn(order, hits)
<1> DEFINE names == NamesIn(order, m)
<1> USE DEF PlaceAdded, NamesIn
<1> DEFINE I == {j \in DOMAIN order : ToSet(order[j]) \cap hits # {}}
           J == {j \in DOMAIN longer : ToSet(longer[j]) \cap more # {}}
           x == Min(I)
<1>1. I # {} /\ I \subseteq Nat /\ J \subseteq Nat
  OBVIOUS
<1>2. x \in I /\ \A y \in I : x <= y
  BY <1>1, MinOfNats
<1>3. \A j \in 1 .. m : ToSet(longer[j]) \cap more = ToSet(order[j]) \cap hits
  <2> SUFFICES ASSUME NEW j \in 1 .. m PROVE ToSet(longer[j]) \cap more = ToSet(order[j]) \cap hits
    OBVIOUS
  <2>1. longer[j] = order[j] /\ ToSet(order[j]) \subseteq names
    OBVIOUS
  <2> QED  BY <2>1
<1> HIDE DEF x
<1>4. x \in J
  <2>1. x \in 1 .. m /\ x \in 1 .. m + 1
    BY <1>2
  <2> QED  BY <1>2, <1>3, <2>1
<1>5. \A y \in J : x <= y
  <2> SUFFICES ASSUME NEW y \in J PROVE x <= y
    OBVIOUS
  <2>1. y \in 1 .. m \/ y = m + 1
    OBVIOUS
  <2>2. CASE y \in 1 .. m
    BY <1>2, <1>3, <2>2
  <2>3. CASE y = m + 1
    <3>1. x \in 1 .. m
      BY <1>2
    <3> QED  BY <2>3, <3>1
  <2> QED  BY <2>1, <2>2, <2>3
<1>6. Min(J) = x
  BY <1>1, <1>4, <1>5, MinIs
<1>7. x \in 1 .. m /\ longer[x] = order[x]
  BY <1>2
<1>8. \A j \in DOMAIN order[x] : order[x][j] \in more <=> order[x][j] \in hits
  <2>1. \A j \in DOMAIN order[x] : order[x][j] \in ToSet(order[x])
    BY DEF ToSet
  <2>2. ToSet(order[x]) \subseteq names
    BY <1>7
  <2> QED  BY <2>1, <2>2
<1>9. {j \in DOMAIN longer[x] : longer[x][j] \in more} = {j \in DOMAIN order[x] : order[x][j] \in hits}
  BY <1>7, <1>8
<1> HIDE DEF I, J
<1>10. FirstIn(longer, more) = longer[x][Min({j \in DOMAIN longer[x] : longer[x][j] \in more})]
  BY <1>6 DEF FirstIn, J
<1>11. FirstIn(order, hits) = order[x][Min({j \in DOMAIN order[x] : order[x][j] \in hits})]
  BY DEF FirstIn, x, I
<1> QED  BY <1>7, <1>9, <1>10, <1>11

\* A map and a pool without the name for None in them.
Routable(map, p) ==
    /\ IsMap(map) /\ IsList(p) /\ Unrestricted \cap PoolIds(p) = {}
    /\ \A i \in DOMAIN map : Unrestricted \cap map[i].ids = {}

\* No name of the table maps to None.
LEMMA IdsAreRestricted ==
    ASSUME NEW map, NEW p, Routable(map, p), NEW k \in NamesOf(Aliases(map, p))
    PROVE  Aliases(map, p).ids[k] # Unrestricted
<1> DEFINE ids == Aliases(map, p).ids[k]
<1>1. ids = Kept(IdsOf(map, k), p) \cup IdsOf(OwnNames(p), k)
  BY AliasesAre DEF Routable
<1>2. PICK x : x \in Unrestricted
  BY DEF Unrestricted
<1>3. x \notin IdsOf(map, k)
  BY <1>2 DEF IdsOf, Routable
<1>4. x \notin IdsOf(OwnNames(p), k)
  <2>1. x \notin PoolIds(p)
    BY <1>2 DEF Routable
  <2> QED  BY <2>1, OwnNamesAre DEF PoolIds, Routable
<1>5. x \notin ids
  BY <1>1, <1>3, <1>4 DEF Kept
<1> QED  BY <1>2, <1>5

\* One backend more at the end of a pool.
Longer(p, q, b) ==
    /\ Len(q) = Len(p) + 1 /\ q[Len(q)] = b
    /\ \A i \in 1 .. Len(p) : q[i] = p[i]
    /\ PoolIds(q) = PoolIds(p) \cup {b.id}

\* The table has the names it had, in the places they had, with the usable ids
\* they had, and the model of the new backend with its id.
LEMMA TableGrows ==
    ASSUME NEW map, NEW p, Routable(map, p), NEW q, IsList(q), NEW b, Longer(p, q, b)
    PROVE  LET t == Aliases(map, p)
               u == Aliases(map, q)
           IN  /\ NamesOf(u) = NamesOf(t) \cup ({b.model} \ {NoModel})
               /\ \A k \in NamesOf(t) : t.ids[k] \cap PoolIds(p) \subseteq u.ids[k] \cap PoolIds(q)
               /\ b.model # NoModel => b.id \in u.ids[b.model]
               /\ DOMAIN t.order = 1 .. (Len(map) + Len(p))
               /\ DOMAIN u.order = 1 .. (Len(map) + Len(p)) + 1
               /\ \A i \in DOMAIN t.order : u.order[i] = t.order[i]
<1> DEFINE t == Aliases(map, p)
           u == Aliases(map, q)
<1>1. /\ Len(map) \in Nat /\ Len(p) \in Nat /\ Len(q) \in Nat /\ Len(q) = Len(p) + 1
      /\ DOMAIN p = 1 .. Len(p) /\ DOMAIN q = 1 .. Len(q)
  BY ListPositions DEF Routable, IsMap, Longer
<1>2. /\ \A i \in DOMAIN p : i \in DOMAIN q /\ q[i] = p[i]
      /\ \A i \in DOMAIN q : i \in DOMAIN p \/ q[i] = b
      /\ \E i \in DOMAIN q : q[i] = b
  <2>1. Len(q) \in DOMAIN q /\ q[Len(q)] = b
    BY <1>1 DEF Longer
  <2>2. \A i \in DOMAIN q : i \in DOMAIN p \/ i = Len(q)
    BY <1>1
  <2>3. \A i \in DOMAIN p : i \in DOMAIN q /\ q[i] = p[i]
    BY <1>1 DEF Longer
  <2> QED  BY <2>1, <2>2, <2>3
<1>3. ASSUME NEW n PROVE n \in DeclaredNames(OwnNames(q)) <=>
                            n \in DeclaredNames(OwnNames(p)) \/ (n # NoModel /\ n = b.model)
  <2>1. n \in DeclaredNames(OwnNames(q)) <=> n # NoModel /\ \E i \in DOMAIN q : q[i].model = n
    BY OwnNamesAre
  <2>2. n \in DeclaredNames(OwnNames(p)) <=> n # NoModel /\ \E i \in DOMAIN p : p[i].model = n
    BY OwnNamesAre DEF Routable
  <2> QED  BY <1>2, <2>1, <2>2
<1>4. NamesOf(u) = NamesOf(t) \cup ({b.model} \ {NoModel})
  <2>1. NamesOf(t) = DeclaredNames(map) \cup DeclaredNames(OwnNames(p))
    BY AliasesAre DEF Routable
  <2>2. NamesOf(u) = DeclaredNames(map) \cup DeclaredNames(OwnNames(q))
    BY AliasesAre DEF Routable
  <2> HIDE DEF t, u
  <2> QED  BY <1>3, <2>1, <2>2
<1>5. ASSUME NEW k \in NamesOf(t), NEW id \in t.ids[k] \cap PoolIds(p)
      PROVE  id \in u.ids[k] \cap PoolIds(q)
  <2>1. id \in Kept(IdsOf(map, k), p) \cup IdsOf(OwnNames(p), k)
    BY AliasesAre DEF Routable
  <2>2. k \in NamesOf(u)
    BY <1>4
  <2>3. u.ids[k] = Kept(IdsOf(map, k), q) \cup IdsOf(OwnNames(q), k)
    BY <2>2, AliasesAre DEF Routable
  <2>4. id \in PoolIds(q)
    BY DEF Longer
  <2> HIDE DEF t, u
  <2>5. CASE id \in Kept(IdsOf(map, k), p)
    BY <2>3, <2>4, <2>5 DEF Kept
  <2>6. CASE id \in IdsOf(OwnNames(p), k)
    <3>1. k # NoModel /\ \E i \in DOMAIN p : p[i].model = k /\ p[i].id = id
      BY <2>6, OwnNamesAre DEF Routable
    <3>2. \E i \in DOMAIN q : q[i].model = k /\ q[i].id = id
      BY <1>2, <3>1
    <3>3. id \in IdsOf(OwnNames(q), k)
      BY <3>1, <3>2, OwnNamesAre
    <3> QED  BY <2>3, <2>4, <3>3
  <2> QED  BY <2>1, <2>5, <2>6
<1>6. ASSUME b.model # NoModel PROVE b.id \in u.ids[b.model]
  <2>1. b.model \in NamesOf(u)
    BY <1>4, <1>6
  <2>2. u.ids[b.model] = Kept(IdsOf(map, b.model), q) \cup IdsOf(OwnNames(q), b.model)
    BY <2>1, AliasesAre DEF Routable
  <2>3. b.id \in IdsOf(OwnNames(q), b.model)
    BY <1>2, <1>6, OwnNamesAre
  <2> QED  BY <2>2, <2>3
<1>7. /\ DOMAIN t.order = 1 .. (Len(map) + Len(p)) /\ DOMAIN u.order = 1 .. (Len(map) + Len(q))
      /\ \A i \in 1 .. Len(map) : t.order[i] = map[i].names /\ u.order[i] = map[i].names
      /\ \A i \in 1 .. Len(p) : t.order[Len(map) + i] = OwnNames(p)[i].names
      /\ \A i \in 1 .. Len(q) : u.order[Len(map) + i] = OwnNames(q)[i].names
  BY AliasesAre DEF Routable
<1> HIDE DEF t, u
<1>8. ASSUME NEW i \in 1 .. Len(p) PROVE OwnNames(q)[i].names = OwnNames(p)[i].names /\ i \in 1 .. Len(q)
  BY <1>1, <1>2 DEF OwnNames
<1>9. ASSUME NEW i \in DOMAIN t.order PROVE u.order[i] = t.order[i]
  <2>1. i \in 1 .. Len(map) \/ (i - Len(map) \in 1 .. Len(p) /\ Len(map) + (i - Len(map)) = i)
    BY <1>1, <1>7
  <2>2. CASE i \in 1 .. Len(map)
    BY <1>7, <2>2
  <2>3. CASE i - Len(map) \in 1 .. Len(p) /\ Len(map) + (i - Len(map)) = i
    <3>1. PICK j \in 1 .. Len(p) : Len(map) + j = i
      BY <2>3
    <3> QED  BY <1>7, <1>8, <3>1
  <2> QED  BY <2>1, <2>2, <2>3
<1>10. DOMAIN u.order = 1 .. (Len(map) + Len(p)) + 1
  BY <1>1, <1>7
<1> QED  BY <1>4, <1>5, <1>6, <1>7, <1>9, <1>10 DEF t, u

\* Names that pass a test resolve to somebody usable after a registration as well.
LEMMA HitsStayUsable ==
    ASSUME NEW map, NEW p, Routable(map, p), NEW q, IsList(q), NEW b, Longer(p, q, b),
           NEW old, old \subseteq NamesOf(Aliases(map, p)),
           NEW new, new \subseteq NamesOf(Aliases(map, q)),
           new \cap NamesOf(Aliases(map, p)) = old,
           new # {},
           old # {} => Aliases(map, p).ids[FirstIn(Aliases(map, p).order, old)] \cap PoolIds(p) # {}
    PROVE  /\ FirstIn(Aliases(map, q).order, new) \in NamesOf(Aliases(map, q))
           /\ Aliases(map, q).ids[FirstIn(Aliases(map, q).order, new)] \cap PoolIds(q) # {}
<1> DEFINE t == Aliases(map, p)
           u == Aliases(map, q)
           m == Len(map) + Len(p)
           k == FirstIn(u.order, new)
<1>1. /\ NamesOf(u) = NamesOf(t) \cup ({b.model} \ {NoModel})
      /\ \A n \in NamesOf(t) : t.ids[n] \cap PoolIds(p) \subseteq u.ids[n] \cap PoolIds(q)
      /\ b.model # NoModel => b.id \in u.ids[b.model]
      /\ DOMAIN t.order = 1 .. m /\ DOMAIN u.order = 1 .. m + 1
      /\ \A i \in 1 .. m : u.order[i] = t.order[i]
  BY TableGrows
<1>2. m \in Nat
  BY ListPositions DEF Routable, IsMap
<1>3. NamesOf(t) = UNION {ToSet(t.order[i]) : i \in 1 .. m}
  <2>1. NamesOf(t) = UNION {ToSet(t.order[i]) : i \in DOMAIN t.order}
    BY AliasesAre DEF Routable
  <2> HIDE DEF t, m
  <2> QED  BY <1>1, <2>1
<1>4. old # {} => k = FirstIn(t.order, old) /\ FirstIn(t.order, old) \in old
  <2> HIDE DEF t, u, m
  <2> SUFFICES ASSUME old # {}
               PROVE  FirstIn(u.order, new) = FirstIn(t.order, old) /\ FirstIn(t.order, old) \in old
    OBVIOUS
  <2>1. old \subseteq NamesOf(t) /\ new \cap NamesOf(t) = old
    BY DEF t
  <2>2. FirstIn(u.order, new) = FirstIn(t.order, old)
    <3> DEFINE o == t.order
               l == u.order
    <3>1. PlaceAdded(o, l, m)
      BY <1>1 DEF PlaceAdded
    <3>2. new \cap NamesIn(o, m) = old
      BY <1>3, <2>1 DEF NamesIn
    <3> HIDE DEF o, l
    <3>3. FirstIn(l, new) = FirstIn(o, old)
      BY <1>2, <3>1, <3>2, FirstStays
    <3> QED  BY <3>3 DEF o, l
  <2>3. FirstIn(t.order, old) \in old
    BY <2>1, FirstInTable DEF t, Routable
  <2> QED  BY <2>2, <2>3
<1>5. k \in new
  BY FirstInTable DEF Routable
<1>6. t.ids = Aliases(map, p).ids /\ t.order = Aliases(map, p).order /\ new \subseteq NamesOf(u)
  OBVIOUS
<1>7. new \cap NamesOf(t) = old /\ old \subseteq NamesOf(t)
      /\ (old # {} => t.ids[FirstIn(t.order, old)] \cap PoolIds(p) # {})
  OBVIOUS
<1> HIDE DEF t, u, k
<1>8. CASE old # {}
  <2>1. k \in NamesOf(t) /\ t.ids[k] \cap PoolIds(p) # {}
    BY <1>4, <1>7, <1>8
  <2>2. k \in NamesOf(u) /\ u.ids[k] \cap PoolIds(q) # {}
    BY <1>1, <2>1
  <2> QED  BY <2>2 DEF u, k
<1>9. CASE old = {}
  <2>1. k \in NamesOf(u) /\ k \notin NamesOf(t)
    BY <1>5, <1>6, <1>7, <1>9
  <2>2. k = b.model /\ k # NoModel
    BY <1>1, <2>1
  <2>3. b.id \in u.ids[k] /\ b.id \in PoolIds(q)
    BY <1>1, <2>2 DEF Longer
  <2> QED  BY <2>1, <2>3 DEF u, k
<1> QED  BY <1>8, <1>9

\* A backend more: a name that had a usable backend has one, and a name of the
\* table has all it had.
LEMMA RoutesStay ==
    ASSUME NEW map, NEW p, Routable(map, p), NEW q, Routable(map, q), NEW b, Longer(p, q, b),
           NamesOf(Aliases(map, p)) # {}, NEW n
    PROVE  /\ Usable(map, p, n) # {} => Usable(map, q, n) # {}
           /\ n \in NamesOf(Aliases(map, p)) => Usable(map, p, n) \subseteq Usable(map, q, n)
<1> DEFINE t == Aliases(map, p)
           u == Aliases(map, q)
           sameT == {k \in NamesOf(t) : SameText(k, n)}
           nearT == {k \in NamesOf(t) : PrefixOfEither(k, n)}
           sameU == {k \in NamesOf(u) : SameText(k, n)}
           nearU == {k \in NamesOf(u) : PrefixOfEither(k, n)}
<1>1. /\ NamesOf(u) = NamesOf(t) \cup ({b.model} \ {NoModel})
      /\ \A k \in NamesOf(t) : t.ids[k] \cap PoolIds(p) \subseteq u.ids[k] \cap PoolIds(q)
      /\ b.model # NoModel => b.id \in u.ids[b.model]
  BY TableGrows DEF Routable
<1>2. PoolIds(p) \subseteq PoolIds(q) /\ b.id \in PoolIds(q)
  BY DEF Longer
<1>3. \A k \in NamesOf(t) : t.ids[k] # Unrestricted
  BY IdsAreRestricted
<1>4. \A k \in NamesOf(u) : u.ids[k] # Unrestricted
  BY IdsAreRestricted
<1>5. ASSUME NEW old, NEW new, old \subseteq NamesOf(t), new \subseteq NamesOf(u),
             new \cap NamesOf(t) = old, new # {},
             old # {} => t.ids[FirstIn(t.order, old)] \cap PoolIds(p) # {}
      PROVE  /\ FirstIn(u.order, new) \in NamesOf(u)
             /\ u.ids[FirstIn(u.order, new)] \cap PoolIds(q) # {}
  BY <1>5, HitsStayUsable DEF Routable
<1>6. Usable(map, p, n) = IF Resolve(t, n) = Unrestricted THEN PoolIds(p) ELSE Resolve(t, n) \cap PoolIds(p)
  BY DEF Usable
<1>7. Usable(map, q, n) = IF Resolve(u, n) = Unrestricted THEN PoolIds(q) ELSE Resolve(u, n) \cap PoolIds(q)
  BY DEF Usable
<1>8. {} # Unrestricted
  BY DEF Unrestricted
<1>9. sameU \cap NamesOf(t) = sameT /\ nearU \cap NamesOf(t) = nearT
  BY <1>1
<1>10. NamesOf(t) # {} /\ NamesOf(u) # {}
  BY <1>1
<1> HIDE DEF t, u
<1>11. CASE n \in GenericNames
  <2>1. Resolve(t, n) = Unrestricted /\ Resolve(u, n) = Unrestricted
    BY <1>11 DEF Resolve
  <2> QED  BY <1>2, <1>6, <1>7, <2>1
<1>12. CASE n \notin GenericNames /\ n \in NamesOf(t)
  <2>1. Resolve(t, n) = t.ids[n] /\ Resolve(u, n) = u.ids[n]
    BY <1>1, <1>10, <1>12 DEF Resolve
  <2>2. Usable(map, p, n) = t.ids[n] \cap PoolIds(p) /\ Usable(map, q, n) = u.ids[n] \cap PoolIds(q)
    BY <1>1, <1>3, <1>4, <1>6, <1>7, <1>12, <2>1
  <2> QED  BY <1>1, <1>12, <2>2
<1>13. CASE n \notin GenericNames /\ n \notin NamesOf(t) /\ n \in NamesOf(u)
  <2>1. n = b.model /\ b.model # NoModel
    BY <1>1, <1>13
  <2>2. Resolve(u, n) = u.ids[n] /\ u.ids[n] # Unrestricted
    BY <1>4, <1>10, <1>13 DEF Resolve
  <2>3. b.id \in Usable(map, q, n)
    BY <1>1, <1>2, <1>7, <2>1, <2>2
  <2> QED  BY <1>13, <2>3 DEF t
<1>14. CASE n \notin GenericNames /\ n \notin NamesOf(u)
  <2>1. n \notin NamesOf(t)
    BY <1>1, <1>14
  <2> SUFFICES ASSUME Usable(map, p, n) # {} PROVE Usable(map, q, n) # {}
    BY <2>1 DEF t
  <2>2. Resolve(t, n) = IF n.text \in ShortTexts THEN {}
                        ELSE IF sameT # {} THEN t.ids[FirstIn(t.order, sameT)]
                        ELSE IF nearT # {} THEN t.ids[FirstIn(t.order, nearT)] ELSE {}
    BY <1>10, <1>14, <2>1 DEF Resolve
  <2>3. Resolve(u, n) = IF n.text \in ShortTexts THEN {}
                        ELSE IF sameU # {} THEN u.ids[FirstIn(u.order, sameU)]
                        ELSE IF nearU # {} THEN u.ids[FirstIn(u.order, nearU)] ELSE {}
    BY <1>10, <1>14 DEF Resolve
  <2>4. /\ sameT \subseteq NamesOf(t) /\ nearT \subseteq NamesOf(t)
        /\ sameU \subseteq NamesOf(u) /\ nearU \subseteq NamesOf(u)
    OBVIOUS
  <2>5. Resolve(t, n) # {} /\ ~(n.text \in ShortTexts) /\ (sameT # {} \/ nearT # {})
    BY <1>6, <1>8, <2>2
  <2> HIDE DEF sameT, nearT, sameU, nearU
  <2>6. ASSUME NEW k \in NamesOf(u), Resolve(u, n) = u.ids[k], u.ids[k] \cap PoolIds(q) # {}
        PROVE  Usable(map, q, n) # {}
    BY <1>4, <1>7, <2>6
  <2>7. CASE sameU # {}
    <3>1. ASSUME sameT # {} PROVE t.ids[FirstIn(t.order, sameT)] \cap PoolIds(p) # {}
      <4>1. Resolve(t, n) = t.ids[FirstIn(t.order, sameT)]
        BY <2>2, <2>5, <3>1
      <4>2. FirstIn(t.order, sameT) \in NamesOf(t)
        BY <2>4, <3>1, FirstInTable DEF t, Routable
      <4> QED  BY <1>3, <1>6, <4>1, <4>2
    <3>2. /\ FirstIn(u.order, sameU) \in NamesOf(u)
          /\ u.ids[FirstIn(u.order, sameU)] \cap PoolIds(q) # {}
      BY <1>5, <1>9, <2>4, <2>7, <3>1
    <3>3. Resolve(u, n) = u.ids[FirstIn(u.order, sameU)]
      BY <2>3, <2>5, <2>7
    <3> QED  BY <2>6, <3>2, <3>3
  <2>8. CASE sameU = {}
    <3>1. sameT = {} /\ nearT # {}
      BY <1>9, <2>5, <2>8
    <3>2. nearU # {}
      BY <1>9, <3>1
    <3>3. t.ids[FirstIn(t.order, nearT)] \cap PoolIds(p) # {}
      <4>1. Resolve(t, n) = t.ids[FirstIn(t.order, nearT)]
        BY <2>2, <2>5, <3>1
      <4>2. FirstIn(t.order, nearT) \in NamesOf(t)
        BY <2>4, <3>1, FirstInTable DEF t, Routable
      <4> QED  BY <1>3, <1>6, <4>1, <4>2
    <3>4. /\ FirstIn(u.order, nearU) \in NamesOf(u)
          /\ u.ids[FirstIn(u.order, nearU)] \cap PoolIds(q) # {}
      BY <1>5, <1>9, <2>4, <3>2, <3>3
    <3>5. Resolve(u, n) = u.ids[FirstIn(u.order, nearU)]
      BY <2>3, <2>5, <2>8, <3>2
    <3> QED  BY <2>6, <3>4, <3>5
  <2> QED  BY <2>7, <2>8
<1> QED  BY <1>11, <1>12, <1>13, <1>14

\* No registration of a new id takes a route away, for any pool, any map and any
\* name a client may ask for.
THEOREM RegistrationKeepsRoutes == Spec => HotAddKeepsRoutes
<1> DEFINE A == PoolIds(pool') # PoolIds(pool) /\ NamesOf(Table) # {} =>
                  \A n \in {body.model : body \in Bodies} :
                      /\ Usable(model_map, pool, n) # {} => Usable(model_map, pool', n) # {}
                      /\ n \in NamesOf(Table) =>
                            Usable(model_map, pool, n) \subseteq Usable(model_map, pool', n)
<1>1. DoorInv /\ DoorInv' /\ [Next]_vars => [A]_vars
  <2> SUFFICES ASSUME DoorInv, DoorInv', [Next]_vars, PoolIds(pool') # PoolIds(pool), NamesOf(Table) # {}
               PROVE  A
    OBVIOUS
  <2>1. ASSUME NEW b \in HotBackends, AddBackend(b) PROVE A
    <3>1. pool' = PoolWith(Registered(b)) /\ model_map' = model_map /\ Registered(b).id = b.id
      BY <2>1 DEF AddBackend, Registered
    <3>2. PICK new : new = Registered(b)
      OBVIOUS
    <3>3. PoolIds(pool') = PoolIds(pool) \cup {new.id}
      BY <3>1, <3>2, PoolGrows DEF DoorInv
    <3>4. new.id \notin PoolIds(pool)
      BY <3>3
    <3>5. Longer(pool, pool', new)
      BY <3>1, <3>2, <3>3, <3>4, PoolGrows DEF DoorInv, Longer
    <3>6. Routable(model_map, pool) /\ Routable(model_map, pool')
      BY <3>1 DEF DoorInv, Routable
    <3> QED  BY <3>5, <3>6, RoutesStay DEF Table
  <2>2. ASSUME UNCHANGED pool PROVE A
    BY <2>2
  <2>3. ASSUME NEW body \in Bodies, Handle(body) PROVE A
    BY <2>2, <2>3 DEF Handle
  <2>4. ASSUME Fallback \/ EngineReplies \/ Done \/ ListingStep \/ UNCHANGED vars PROVE A
    BY <2>2, <2>4 DEF Fallback, EngineReplies, Done, ListingStep, StartListing, Probe, EndListing, vars
  <2> QED  BY <2>1, <2>3, <2>4 DEF Next, RequestStep, HotAdd
<1>2. Spec => []DoorInv
  BY DoorInit, DoorStep, PTL DEF Spec
<1> QED  BY <1>1, <1>2, PTL DEF Spec, HotAddKeepsRoutes

-----------------------------------------------------------------------------
(* Budgets.                                                                *)

\* A budget that may reach an engine.
Capped(v) ==
    \/ v = NoBudget
    \/ v > 0 /\ (MaxTokensCap # 0 => v <= Greatest(MaxTokensCap, DefaultBudget))
CappedKeys(budget) == \A k \in BudgetKeys : Capped(budget[k])

\* Every budget of a body that passed _validate_openai_body is within the cap.
LEMMA ValidIsCapped ==
    ASSUME NEW body \in Bodies, ~Invalid(body)
    PROVE  CappedKeys(body.budget)
<1> SUFFICES ASSUME NEW k \in BudgetKeys PROVE Capped(body.budget[k])
  BY DEF CappedKeys
<1>1. body.budget[k] \in Int \cup {NoBudget} /\ MaxTokensCap \in Int
  BY FrontDoorAssumption
<1>2. body.budget[k] = NoBudget
        \/ ~(body.budget[k] <= 0 \/ (MaxTokensCap # 0 /\ body.budget[k] > MaxTokensCap))
  BY DEF Invalid
<1> QED  BY <1>1, <1>2 DEF Capped, Greatest, DefaultBudget

\* The budget the gateway makes up.
LEMMA DefaultIsCapped == Capped(DefaultBudget) /\ Capped(NoBudget)
BY FrontDoorAssumption DEF Capped, Greatest, DefaultBudget

\* The translations keep a budget within the cap, whatever the backend is.
LEMMA PayloadIsCapped ==
    ASSUME NEW b, NEW body, NEW budget, CappedKeys(budget)
    PROVE  CappedKeys(Payload(b, body, budget).budget) /\ CappedKeys(FallbackBudget(budget))
<1>1. Capped(TgiBudget(budget))
  BY DefaultIsCapped DEF TgiBudget, CappedKeys, BudgetKeys
<1>2. CappedKeys([k \in BudgetKeys |-> IF k = "max_new_tokens" THEN TgiBudget(budget) ELSE NoBudget])
  BY <1>1, DefaultIsCapped DEF CappedKeys
<1>3. CappedKeys(Payload(b, body, budget).budget)
  BY <1>2 DEF Payload
<1>4. CappedKeys(FallbackBudget(budget))
  BY DefaultIsCapped DEF CappedKeys, FallbackBudget
<1> QED  BY <1>3, <1>4

\* A request that is out holds what was sent for it, once or twice, and its body
\* passed the checks.
SentOK(r) ==
    /\ r.body \in Bodies /\ ~Invalid(r.body)
    /\ \E p, q : /\ r.sent = <<p>> \/ r.sent = <<p, q>>
                 /\ ~IsOllama(r.body.surface) => CappedKeys(p.budget) /\ CappedKeys(q.budget)

BudgetInv ==
    /\ req.phase = "sent" => DOMAIN req = {"body", "resolved", "feature", "phase", "sent"}
    /\ req.phase # "idle" /\ "sent" \in DOMAIN req => SentOK(req)

\* What was sent is within the cap.
LEMMA SentIsCapped == BudgetInv => BudgetWithinCap
<1> SUFFICES ASSUME BudgetInv, req.phase # "idle", "sent" \in DOMAIN req,
                    ~IsOllama(req.body.surface),
                    NEW i \in DOMAIN req.sent, NEW k \in BudgetKeys
             PROVE  Capped(req.sent[i].budget[k])
  BY DEF BudgetWithinCap, Capped
<1>1. PICK p, q : /\ req.sent = <<p>> \/ req.sent = <<p, q>>
                  /\ CappedKeys(p.budget) /\ CappedKeys(q.budget)
  BY DEF BudgetInv, SentOK
<1>2. req.sent[i] = p \/ req.sent[i] = q
  BY <1>1
<1> QED  BY <1>1, <1>2 DEF CappedKeys

\* Every way a request takes through the handlers keeps its budgets capped, also
\* when its backend is registered again while it is out.
LEMMA BudgetStep == BudgetInv /\ [Next]_vars => BudgetInv'
<1> SUFFICES ASSUME BudgetInv, [Next]_vars PROVE BudgetInv'
  OBVIOUS
<1>1. ASSUME NEW body \in Bodies, Handle(body) PROVE BudgetInv'
  <2> DEFINE Reply(status) ==
               [body |-> body, resolved |-> Resolve(Table, body.model), feature |-> Feature(body),
                phase |-> "answered", status |-> status]
             Out(b) ==
               [body |-> body, resolved |-> Resolve(Table, body.model), feature |-> Feature(body),
                phase |-> "sent", sent |-> <<Payload(b, body, ToOpenAI(body))>>]
             budget == ToOpenAI(body)
  <2>1. \/ \E status : req' = Reply(status)
        \/ Refusal(body, Table) = 0 /\ \E b : req' = Out(b)
    BY <1>1 DEF Handle
  <2>2. CASE \E status : req' = Reply(status)
    <3>1. req'.phase = "answered" /\ "sent" \notin DOMAIN req'
      BY <2>2
    <3> QED  BY <3>1 DEF BudgetInv
  <2>3. CASE Refusal(body, Table) = 0 /\ \E b : req' = Out(b)
    <3>1. PICK b : req' = Out(b)
      BY <2>3
    <3>2. /\ DOMAIN req' = {"body", "resolved", "feature", "phase", "sent"}
          /\ req'.body = body /\ req'.sent = <<Payload(b, body, budget)>> /\ req'.phase = "sent"
      BY <3>1
    <3>3. ~Invalid(body)
      <4>1. Invalid(body) => Refusal(body, Table) \in {401, 413, 400}
        BY DEF Refusal
      <4> QED  BY <2>3, <4>1
    <3>4. ASSUME ~IsOllama(body.surface) PROVE CappedKeys(Payload(b, body, budget).budget)
      BY <3>3, <3>4, ValidIsCapped, PayloadIsCapped DEF ToOpenAI
    <3>5. SentOK(req')
      BY <3>2, <3>3, <3>4 DEF SentOK
    <3> QED  BY <3>2, <3>5 DEF BudgetInv
  <2> QED  BY <2>1, <2>2, <2>3
<1>2. ASSUME Fallback PROVE BudgetInv'
  <2> DEFINE new == Payload(BackendOf(req.sent[1].to), req.body, FallbackBudget(ToOpenAI(req.body)))
  <2>1. /\ req.phase = "sent" /\ Len(req.sent) = 1
        /\ req' = [req EXCEPT !.sent = Append(req.sent, new)]
    BY <1>2 DEF Fallback
  <2>2. /\ DOMAIN req = {"body", "resolved", "feature", "phase", "sent"} /\ SentOK(req)
    BY <2>1 DEF BudgetInv
  <2>3. PICK p : /\ req.sent = <<p>>
                 /\ ~IsOllama(req.body.surface) => CappedKeys(p.budget)
    BY <2>1, <2>2 DEF SentOK
  <2>4. ASSUME ~IsOllama(req.body.surface) PROVE CappedKeys(new.budget)
    BY <2>2, <2>4, ValidIsCapped, PayloadIsCapped DEF ToOpenAI, SentOK
  <2> HIDE DEF new
  <2>5. /\ DOMAIN req' = DOMAIN req /\ req'.phase = "sent" /\ req'.body = req.body
        /\ req'.sent = <<p, new>>
    <3>1. Append(<<p>>, new) = <<p, new>>
      BY AppendTwo
    <3>2. req'.sent = Append(req.sent, new) /\ DOMAIN req' = DOMAIN req
      BY <2>1, <2>2
    <3>3. req'.phase = "sent" /\ req'.body = req.body
      BY <2>1, <2>2
    <3> QED  BY <2>3, <3>1, <3>2, <3>3
  <2>6. SentOK(req')
    BY <2>2, <2>3, <2>4, <2>5 DEF SentOK
  <2> QED  BY <2>2, <2>5, <2>6 DEF BudgetInv
<1>3. ASSUME EngineReplies PROVE BudgetInv'
  <2>1. /\ req.phase = "sent" /\ req'.phase = "answered"
        /\ req'.body = req.body /\ req'.sent = req.sent
    BY <1>3 DEF EngineReplies
  <2>2. SentOK(req)
    BY <2>1 DEF BudgetInv
  <2>3. SentOK(req')
    BY <2>1, <2>2 DEF SentOK
  <2> QED  BY <2>1, <2>3 DEF BudgetInv
<1>4. ASSUME Done PROVE BudgetInv'
  BY <1>4 DEF Done, Idle, BudgetInv
<1>5. ASSUME UNCHANGED req PROVE BudgetInv'
  BY <1>5 DEF BudgetInv
<1>6. ASSUME ListingStep \/ HotAdd \/ UNCHANGED vars PROVE BudgetInv'
  BY <1>5, <1>6 DEF ListingStep, StartListing, Probe, EndListing, HotAdd, AddBackend, vars
<1> QED  BY <1>1, <1>2, <1>3, <1>4, <1>6 DEF Next, RequestStep

\* No budget above max_tokens_cap reaches an engine by an OpenAI endpoint.
THEOREM BudgetsAreCapped == Spec => []BudgetWithinCap
<1>1. Init => BudgetInv
  BY DEF Init, Idle, BudgetInv
<1> QED  BY <1>1, BudgetStep, SentIsCapped, PTL DEF Spec

-----------------------------------------------------------------------------
(* What init finds.                                                        *)

\* A set of numbers up to n has a greatest element, and Max is that one.
LEMMA MaxOfSome ==
    ASSUME NEW n \in Nat, NEW S, S \subseteq 1 .. n, S # {}
    PROVE  Max(S) \in S
<1> DEFINE T == {n - j : j \in S}
<1>1. T \subseteq Nat /\ T # {}
  <2>1. \A j \in 1 .. n : n - j \in Nat
    OBVIOUS
  <2>2. \A j \in S : n - j \in Nat
    BY <2>1
  <2>3. PICK j \in S : TRUE
    OBVIOUS
  <2>4. n - j \in T
    OBVIOUS
  <2> QED  BY <2>2, <2>4
<1>2. Min(T) \in T /\ \A y \in T : Min(T) <= y
  BY <1>1, MinOfNats
<1>3. PICK x \in S : Min(T) = n - x
  BY <1>2
<1>4. ASSUME NEW y \in S PROVE x >= y
  <2>1. n - y \in T
    OBVIOUS
  <2>2. n - x <= n - y
    BY <1>2, <1>3, <2>1
  <2>3. x \in Int /\ y \in Int
    OBVIOUS
  <2> QED  BY <2>2, <2>3
<1> QED  BY <1>4 DEF Max

\* An entry of init's file: a mapping with a URL that is accepted.
Sound(e) == e.kind = "mapping" /\ e.url = "ok" /\ IsList(e.models)
FoundList(found) == IsList(found) /\ \A i \in DOMAIN found : Sound(found[i])

\* A file that loads as a list of sound entries routes each of their models to
\* the entry's backend.
LEMMA FoundIsServed ==
    ASSUME NEW found, FoundList(found), NEW i \in DOMAIN found, NEW n \in ToSet(found[i].models)
    PROVE  LET t == Aliases(ModelMap(found), PoolOf([j \in DOMAIN found |-> ParseBackend(found[j])]))
           IN  Resolve(t, n) = Unrestricted \/ found[i].id \in Resolve(t, n)
<1> DEFINE map == ModelMap(found)
           backends == [j \in DOMAIN found |-> ParseBackend(found[j])]
           p == PoolOf(backends)
           N == Len(found)
<1>1. N \in Nat /\ DOMAIN found = 1 .. N
  BY ListPositions DEF FoundList
<1>2. IsMap(map)
  <2>1. DOMAIN map = 1 .. N /\ map = [j \in 1 .. N |-> map[j]]
        /\ \A j \in 1 .. N : map[j].names = found[j].models /\ map[j].ids = {found[j].id}
    BY <1>1 DEF ModelMap
  <2> HIDE DEF map
  <2>2. IsList(map)
    BY <1>1, <2>1, FunctionIsList
  <2> QED  BY <1>1, <2>1, <2>2 DEF IsMap, FoundList, Sound
<1>3. found[i].id \in IdsOf(map, n) /\ n \in DeclaredNames(map)
  BY DEF IdsOf, DeclaredNames, ModelMap
<1>4. \A j \in 1 .. N : backends[j].id = found[j].id
  BY <1>1 DEF ParseBackend
<1>5. DOMAIN backends = 1 .. N
  BY <1>1
<1> HIDE DEF map, backends
<1>6. DOMAIN p = 1 .. N /\ p = [j \in 1 .. N |-> p[j]]
      /\ \A j \in 1 .. N : p[j] = backends[Max({k \in 1 .. N : backends[k].id = backends[j].id})]
  BY <1>5 DEF PoolOf
<1> HIDE DEF p
<1>7. IsList(p)
  BY <1>1, <1>6, FunctionIsList
<1>8. found[i].id \in PoolIds(p)
  <2> DEFINE S == {k \in 1 .. N : backends[k].id = backends[i].id}
  <2>1. i \in 1 .. N /\ S # {} /\ S \subseteq 1 .. N
    BY <1>1
  <2>2. Max(S) \in S
    BY <1>1, <2>1, MaxOfSome
  <2>3. p[i].id = found[i].id
    BY <1>4, <1>6, <2>1, <2>2
  <2> QED  BY <1>6, <2>1, <2>3 DEF PoolIds
<1> DEFINE t == Aliases(map, p)
<1>9. n \in NamesOf(t) /\ t.ids[n] = Kept(IdsOf(map, n), p) \cup IdsOf(OwnNames(p), n)
  <2>1. n \in NamesOf(t)
    BY <1>2, <1>3, <1>7, AliasesAre
  <2> QED  BY <1>2, <1>7, <2>1, AliasesAre
<1>10. found[i].id \in t.ids[n]
  <2> HIDE DEF t
  <2>1. found[i].id \in Kept(IdsOf(map, n), p)
    BY <1>3, <1>8 DEF Kept
  <2> QED  BY <1>9, <2>1
<1>11. Resolve(t, n) = Unrestricted \/ Resolve(t, n) = t.ids[n]
  BY <1>9 DEF Resolve
<1> QED  BY <1>10, <1>11 DEF t, map, backends, p

FileOK(f) ==
    /\ f.by = "init" =>
          /\ f.form = "mapping" /\ f.badValue = FALSE
          /\ \A i \in DOMAIN f.entries : f.entries[i].kind = "mapping" /\ f.entries[i].url = "ok"
    /\ f.found # <<>> => f.entries = f.found /\ FoundList(f.found)

GatewayOK(g) ==
    g.found # <<>> =>
        /\ FoundList(g.found) /\ g.map = ModelMap(g.found)
        /\ g.pool = PoolOf([j \in DOMAIN g.found |-> ParseBackend(g.found[j])])

\* A scan holds sound entries, the file what the scan found, and a gateway that
\* was started from the file alone what the file held.
InitInv ==
    /\ engines \in [Ports -> Listings \cup {NoEngine}]
    /\ scan = [on |-> scan.on, port |-> scan.port, found |-> scan.found]
    /\ FoundList(scan.found)
    /\ file # NoFile => FileOK(file)
    /\ gw # NoGateway /\ ~gw.mixed => GatewayOK(gw)

\* What InitInv says of the file written is what init promises.
LEMMA FoundIsRouted == InitInv => InitServesWhatItFound
<1> SUFFICES ASSUME InitInv PROVE InitServesWhatItFound
  OBVIOUS
<1>1. ASSUME file # NoFile, file.by = "init", LoadProblem(file) # "none"
      PROVE  \E i \in DOMAIN file.entries : ToSet(file.entries[i].models) \cap NonStringNames # {}
  <2> DEFINE bad == {i \in DOMAIN file.entries : EntryProblem(file.entries[i]) # "none"}
  <2>1. /\ file.form = "mapping" /\ file.badValue = FALSE
        /\ \A i \in DOMAIN file.entries : file.entries[i].kind = "mapping" /\ file.entries[i].url = "ok"
    BY <1>1 DEF InitInv, FileOK
  <2>2. bad # {}
    BY <1>1, <2>1 DEF LoadProblem
  <2>3. PICK i \in DOMAIN file.entries : EntryProblem(file.entries[i]) # "none"
    BY <2>2
  <2> QED  BY <2>1, <2>3 DEF EntryProblem
<1>2. ASSUME gw # NoGateway, ~gw.mixed, NEW i \in DOMAIN gw.found, NEW n \in ToSet(gw.found[i].models)
      PROVE  \/ Resolve(Aliases(gw.map, gw.pool), n) = Unrestricted
             \/ gw.found[i].id \in Resolve(Aliases(gw.map, gw.pool), n)
  <2>1. gw.found # <<>>
    BY <1>2
  <2>2. /\ FoundList(gw.found) /\ gw.map = ModelMap(gw.found)
        /\ gw.pool = PoolOf([j \in DOMAIN gw.found |-> ParseBackend(gw.found[j])])
    BY <1>2, <2>1 DEF InitInv, GatewayOK
  <2>3. PICK found : found = gw.found
    OBVIOUS
  <2> QED  BY <1>2, <2>2, <2>3, FoundIsServed
<1> QED  BY <1>1, <1>2 DEF InitServesWhatItFound

\* What a port that answers adds to the scan is a sound entry.
LEMMA DetectedIsSound ==
    ASSUME NEW port, NEW models \in Listings
    PROVE  Sound(Detected(port, models))
<1>1. IsList(models)
  BY FilesAssumption DEF IsList
<1>2. IsList(<<LocalEngines[port].fallback>>)
  <2>1. <<LocalEngines[port].fallback>> \in Seq({LocalEngines[port].fallback})
    OBVIOUS
  <2> QED  BY <2>1, SeqIsList
<1> QED  BY <1>1, <1>2 DEF Sound, Detected

\* A list of engines found stays one when the next is added.
LEMMA FoundListGrows ==
    ASSUME NEW found, FoundList(found), NEW e, Sound(e)
    PROVE  FoundList(Append(found, e))
<1> DEFINE S == ToSet(found) \cup {e}
           new == Append(found, e)
<1>1. found \in Seq(S) /\ e \in S
  <2>1. found \in Seq(ToSet(found)) /\ ToSet(found) \subseteq S
    BY DEF FoundList, IsList
  <2> QED  BY <2>1, SeqMonotonic
<1>2. new \in Seq(S)
  BY <1>1, AppendProperties
<1>3. \A x \in S : Sound(x)
  BY DEF FoundList, ToSet
<1> HIDE DEF S, new
<1>4. IsList(new) /\ \A i \in DOMAIN new : new[i] \in S
  <2>1. IsList(new) /\ ToSet(new) \subseteq S
    BY <1>2, SeqIsList
  <2> QED  BY <2>1 DEF ToSet
<1>5. FoundList(new)
  BY <1>3, <1>4 DEF FoundList
<1> QED  BY <1>5 DEF new

\* The file init writes.
LEMMA WrittenIsOK ==
    ASSUME NEW found, FoundList(found), NEW settings
    PROVE  FileOK([form |-> "mapping", badValue |-> FALSE, oddSetting |-> FALSE, by |-> "init",
                   entries |-> IF found = <<>> THEN <<ExampleEntry>> ELSE WrittenEntries(found),
                   settings |-> settings, found |-> found])
<1> DEFINE entries == IF found = <<>> THEN <<ExampleEntry>> ELSE WrittenEntries(found)
<1>1. \A i \in DOMAIN entries : entries[i].kind = "mapping" /\ entries[i].url = "ok"
  <2>1. CASE found = <<>>
    <3>1. entries = <<ExampleEntry>>
      BY <2>1
    <3>2. ExampleEntry.kind = "mapping" /\ ExampleEntry.url = "ok"
      BY DEF ExampleEntry
    <3>3. \A i \in DOMAIN <<ExampleEntry>> : <<ExampleEntry>>[i] = ExampleEntry
      OBVIOUS
    <3> QED  BY <3>1, <3>2, <3>3
  <2>2. CASE found # <<>>
    BY <2>2 DEF WrittenEntries, FoundList, Sound
  <2> QED  BY <2>1, <2>2
<1>2. found # <<>> => entries = found
  BY DEF WrittenEntries
<1> HIDE DEF entries
<1>3. FileOK([form |-> "mapping", badValue |-> FALSE, oddSetting |-> FALSE, by |-> "init", entries |-> entries,
              settings |-> settings, found |-> found])
  BY <1>1, <1>2 DEF FileOK
<1> QED  BY <1>3 DEF entries

\* A gateway started from the file alone routes what the file holds.
LEMMA StartedIsOK ==
    ASSUME file # NoFile => FileOK(file), NEW flags, ~Started(flags).mixed
    PROVE  GatewayOK(Started(flags))
<1>1. CASE ReadsFile(flags) /\ file # NoFile
  <2> DEFINE g == Started(flags)
             parsed == [i \in DOMAIN file.entries |-> ParseBackend(file.entries[i])]
  <2>1. /\ g.mixed = (flags.backends # <<>>) /\ g.found = file.found /\ g.map = ModelMap(file.entries)
        /\ g.pool = PoolOf(IF flags.backends # <<>> THEN FlagBackends(flags) ELSE parsed)
    BY <1>1 DEF Started
  <2>2. g.mixed = FALSE \/ g.mixed = TRUE
    BY <2>1
  <2>3. flags.backends = <<>>
    BY <2>1, <2>2
  <2>4. g.pool = PoolOf(parsed)
    BY <2>1, <2>3
  <2>5. file.found # <<>> => file.entries = file.found /\ FoundList(file.found)
    BY <1>1 DEF FileOK
  <2> HIDE DEF g
  <2>6. GatewayOK(g)
    <3> SUFFICES ASSUME g.found # <<>>
                 PROVE  /\ FoundList(g.found) /\ g.map = ModelMap(g.found)
                        /\ g.pool = PoolOf([j \in DOMAIN g.found |-> ParseBackend(g.found[j])])
      BY DEF GatewayOK
    <3>1. file.entries = g.found /\ FoundList(g.found)
      BY <2>1, <2>5
    <3> QED  BY <2>1, <2>4, <3>1
  <2> QED  BY <2>6 DEF g
<1>2. CASE ~(ReadsFile(flags) /\ file # NoFile)
  <2>1. Started(flags).found = <<>>
    BY <1>2 DEF Started
  <2> QED  BY <2>1 DEF GatewayOK
<1> QED  BY <1>1, <1>2

\* No command breaks the chain from the scan to the gateway.
LEMMA InitStep == InitInv /\ [DeployNext]_deployVars => InitInv'
<1> SUFFICES ASSUME InitInv, [DeployNext]_deployVars PROVE InitInv'
  OBVIOUS
<1>1. ASSUME NEW flags, Serve(flags) PROVE InitInv'
  <2>1. UNCHANGED <<file, engines, scan>> /\ (gw' = gw \/ gw' = Started(flags))
    BY <1>1 DEF Serve
  <2>2. CASE gw' = gw
    BY <2>1, <2>2 DEF InitInv
  <2>3. CASE gw' = Started(flags)
    <3>1. ~gw'.mixed => GatewayOK(gw')
      BY <2>3, StartedIsOK DEF InitInv
    <3> QED  BY <2>1, <3>1 DEF InitInv
  <2> QED  BY <2>1, <2>2, <2>3
<1>2. ASSUME Stop PROVE InitInv'
  BY <1>2 DEF Stop, InitInv
<1>3. ASSUME UNCHANGED <<file, engines, scan, gw>> PROVE InitInv'
  BY <1>3 DEF InitInv
<1>4. ASSUME CheckConfig \/ ConfigShow \/ UNCHANGED deployVars PROVE InitInv'
  BY <1>3, <1>4 DEF CheckConfig, ConfigShow, deployVars
<1>5. FoundList(<<>>) /\ NoScan.found = <<>>
  BY DEF FoundList, IsList, NoScan
<1>6. ASSUME NEW force \in BOOLEAN, InitStarts(force) PROVE InitInv'
  <2>1. scan' = [NoScan EXCEPT !.on = TRUE] /\ UNCHANGED <<file, engines, gw>>
    BY <1>6 DEF InitStarts
  <2>2. scan' = [on |-> TRUE, port |-> 1, found |-> <<>>]
    BY <2>1 DEF NoScan
  <2> QED  BY <1>5, <2>1, <2>2 DEF InitInv
<1>7. ASSUME ProbePort PROVE InitInv'
  <2> DEFINE found == IF engines[scan.port] = NoEngine THEN scan.found
                      ELSE Append(scan.found, Detected(scan.port, engines[scan.port]))
  <2>1. /\ scan.port \in Ports /\ UNCHANGED <<file, engines, gw>>
        /\ scan' = [scan EXCEPT !.port = scan.port + 1, !.found = found]
    BY <1>7 DEF ProbePort
  <2>2. FoundList(found)
    <3>1. CASE engines[scan.port] = NoEngine
      BY <3>1 DEF InitInv
    <3>2. CASE engines[scan.port] # NoEngine
      <4>1. engines[scan.port] \in Listings
        BY <2>1, <3>2 DEF InitInv
      <4>2. Sound(Detected(scan.port, engines[scan.port]))
        BY <4>1, DetectedIsSound
      <4> QED  BY <3>2, <4>2, FoundListGrows DEF InitInv
    <3> QED  BY <3>1, <3>2
  <2> HIDE DEF found
  <2>3. scan' = [on |-> scan.on, port |-> scan.port + 1, found |-> found]
    BY <2>1 DEF InitInv
  <2>4. FoundList(scan'.found)
    BY <2>2, <2>3
  <2> QED  BY <2>1, <2>3, <2>4 DEF InitInv
<1>8. ASSUME InitWrites PROVE InitInv'
  <2>1. /\ scan' = NoScan /\ UNCHANGED <<engines, gw>>
        /\ file' = [form |-> "mapping", badValue |-> FALSE, oddSetting |-> FALSE, by |-> "init",
                    entries |-> IF scan.found = <<>> THEN <<ExampleEntry>> ELSE WrittenEntries(scan.found),
                    settings |-> [Defaults EXCEPT !.slo = 30000], found |-> scan.found]
    BY <1>8 DEF InitWrites
  <2>2. FileOK(file')
    BY <2>1, WrittenIsOK DEF InitInv
  <2>3. scan' = [on |-> FALSE, port |-> 1, found |-> <<>>]
    BY <2>1 DEF NoScan
  <2> QED  BY <1>5, <2>1, <2>2, <2>3 DEF InitInv
<1>9. ASSUME NEW f \in Files \cup {NoFile}, Edit(f) PROVE InitInv'
  <2>1. file' = f /\ UNCHANGED <<engines, scan, gw>>
    BY <1>9 DEF Edit
  <2>2. f # NoFile => FileOK(f)
    BY FilesAssumption DEF FileOK
  <2> QED  BY <2>1, <2>2 DEF InitInv
<1>10. ASSUME NEW port \in Ports, EngineChanges(port) PROVE InitInv'
  <2>1. /\ UNCHANGED <<file, scan, gw>>
        /\ \E m \in Listings \cup {NoEngine} : engines' = [engines EXCEPT ![port] = m]
    BY <1>10 DEF EngineChanges
  <2>2. engines' \in [Ports -> Listings \cup {NoEngine}]
    BY <2>1 DEF InitInv
  <2> QED  BY <2>1, <2>2 DEF InitInv
<1> QED  BY <1>1, <1>2, <1>4, <1>6, <1>7, <1>8, <1>9, <1>10 DEF DeployNext

\* What dio init finds on the local ports is what dio serve routes, for any
\* engines, listings and files, and whatever starts or stops during the scan.
THEOREM FoundIsWhatServes == DeploySpec => []InitServesWhatItFound
<1>1. DeployInit => InitInv
  <2> SUFFICES ASSUME DeployInit PROVE InitInv
    OBVIOUS
  <2>1. scan = [on |-> FALSE, port |-> 1, found |-> <<>>] /\ FoundList(<<>>)
    BY DEF DeployInit, NoScan, FoundList, IsList
  <2>2. file # NoFile => FileOK(file)
    BY FilesAssumption DEF DeployInit, FileOK
  <2> QED  BY <2>1, <2>2 DEF DeployInit, InitInv
<1> QED  BY <1>1, InitStep, FoundIsRouted, PTL DEF DeploySpec

-----------------------------------------------------------------------------
(* Verdicts.                                                               *)

\* A verdict is of the file as it is now: whatever changes it clears them.
VerdictInv ==
    /\ verdicts = [serve |-> verdicts.serve, check |-> verdicts.check, show |-> verdicts.show]
    /\ verdicts.serve \in {Unset} \cup {ServeExit(ServeProblem(file, byFlags)) : byFlags \in BOOLEAN}
    /\ verdicts.show \in {Unset, ServeExit(ShowProblem(file))}
    /\ verdicts.check \in {Unset, CheckExit(LoadProblem(file))}

\* The commands differ in what they say of a malformed file, not in what they
\* take for a success.
LEMMA SameAcceptance ==
    ASSUME NEW problem
    PROVE  /\ ServeExit(problem) \in {0, 1, 2} /\ CheckExit(problem) \in {0, 1, 2}
           /\ ServeExit(problem) = 0 <=> problem = "none"
           /\ CheckExit(problem) = 0 <=> problem = "none"
BY DEF ServeExit, CheckExit

\* What serve and config meet after loading is at least what loading meets, and
\* no more than that when the file is text throughout.
LEMMA LoadingDecides ==
    ASSUME NEW f, NEW byFlags \in BOOLEAN
    PROVE  /\ ServeProblem(f, byFlags) = "none" \/ ShowProblem(f) = "none" => LoadProblem(f) = "none"
           /\ LoadProblem(f) = "none" /\ AllText(f) =>
                 ServeProblem(f, byFlags) = "none" /\ ShowProblem(f) = "none"
<1>1. ServeProblem(f, byFlags) = "none" => LoadProblem(f) = "none"
  BY DEF ServeProblem
<1>2. ShowProblem(f) = "none" => LoadProblem(f) = "none"
  BY DEF ShowProblem
<1>3. ASSUME LoadProblem(f) = "none", AllText(f)
      PROVE  ServeProblem(f, byFlags) = "none" /\ ShowProblem(f) = "none"
  <2>1. \A i \in DOMAIN f.entries : ~BackendRowRaises(f.entries[i]) /\ ~RoutingRowRaises(f.entries[i])
    BY <1>3 DEF AllText, BackendRowRaises, RoutingRowRaises
  <2> QED  BY <1>3, <2>1 DEF AllText, ServeProblem, ShowProblem
<1> QED  BY <1>1, <1>2, <1>3

\* No command leaves a verdict of another file.
LEMMA VerdictStep == VerdictInv /\ [DeployNext]_deployVars => VerdictInv'
<1> SUFFICES ASSUME VerdictInv, [DeployNext]_deployVars PROVE VerdictInv'
  OBVIOUS
<1>1. ASSUME NEW flags, Serve(flags) PROVE VerdictInv'
  <2> DEFINE byFlags == flags.backends # <<>>
  <2>1. CASE verdicts' = verdicts /\ file' = file
    BY <2>1 DEF VerdictInv
  <2>2. CASE /\ verdicts' = [verdicts EXCEPT !.serve = ServeExit(ServeProblem(file, byFlags))]
             /\ file' = file
    <3>1. byFlags \in BOOLEAN
      OBVIOUS
    <3> HIDE DEF byFlags
    <3>2. ServeExit(ServeProblem(file, byFlags)) \in {ServeExit(ServeProblem(file, b)) : b \in BOOLEAN}
      BY <3>1
    <3>3. PICK exit : exit = ServeExit(ServeProblem(file, byFlags))
      OBVIOUS
    <3>4. verdicts' = [serve |-> exit, check |-> verdicts.check, show |-> verdicts.show]
      BY <2>2, <3>3 DEF VerdictInv
    <3> QED  BY <2>2, <3>2, <3>3, <3>4 DEF VerdictInv
  <2> QED  BY <1>1, <2>1, <2>2 DEF Serve
<1>2. ASSUME CheckConfig PROVE VerdictInv'
  BY <1>2 DEF CheckConfig, VerdictInv
<1>3. ASSUME ConfigShow PROVE VerdictInv'
  BY <1>3 DEF ConfigShow, VerdictInv
<1>4. ASSUME verdicts' = NoVerdicts PROVE VerdictInv'
  BY <1>4 DEF NoVerdicts, VerdictInv
<1>5. ASSUME InitWrites \/ \E f \in Files \cup {NoFile} : Edit(f) PROVE VerdictInv'
  BY <1>4, <1>5 DEF InitWrites, Edit
<1>6. ASSUME UNCHANGED <<file, verdicts>> PROVE VerdictInv'
  BY <1>6 DEF VerdictInv
<1>7. ASSUME Stop \/ (\E force \in BOOLEAN : InitStarts(force)) \/ ProbePort
             \/ (\E port \in Ports : EngineChanges(port)) \/ UNCHANGED deployVars
      PROVE  VerdictInv'
  BY <1>6, <1>7 DEF Stop, InitStarts, ProbePort, EngineChanges, deployVars
<1> QED  BY <1>1, <1>2, <1>3, <1>5, <1>7 DEF DeployNext

\* check-config, config and serve agree on every file, whatever commands ran in
\* between, but for ids, tiers and settings that are not text.
THEOREM VerdictsAgree == DeploySpec => []CommandsAgree
<1>1. DeployInit => VerdictInv
  BY DEF DeployInit, NoVerdicts, VerdictInv
<1>2. ASSUME VerdictInv PROVE CommandsAgree
  <2>1. Unset # 0
    BY DeployAssumption
  <2>2. verdicts.check = 0 => LoadProblem(file) = "none"
    BY <1>2, <2>1, SameAcceptance DEF VerdictInv
  <2>3. LoadProblem(file) = "none" => verdicts.check \in {0, Unset}
    BY <1>2, SameAcceptance DEF VerdictInv
  <2>4. /\ verdicts.show = 0 => ShowProblem(file) = "none"
        /\ ShowProblem(file) = "none" => verdicts.show \in {0, Unset}
    BY <1>2, <2>1, SameAcceptance DEF VerdictInv
  <2>5. CASE verdicts.serve = Unset
    BY <2>1, <2>2, <2>3, <2>4, <2>5, LoadingDecides DEF CommandsAgree
  <2>6. ASSUME NEW byFlags \in BOOLEAN, verdicts.serve = ServeExit(ServeProblem(file, byFlags))
        PROVE  CommandsAgree
    <3>1. verdicts.serve = 0 <=> ServeProblem(file, byFlags) = "none"
      BY <2>6, SameAcceptance
    <3> QED  BY <2>2, <2>3, <2>4, <3>1, LoadingDecides DEF CommandsAgree
  <2> QED  BY <1>2, <2>5, <2>6 DEF VerdictInv
<1> QED  BY <1>1, <1>2, VerdictStep, PTL DEF DeploySpec

-----------------------------------------------------------------------------
(* Replies of the MCP server.                                              *)

UpTo(S, i) == {j \in S : j <= i}

\* How many of some places come up to a given one.
LEMMA Ranks ==
    ASSUME NEW S \in SUBSET Nat, 0 \notin S, NEW d \in Nat
    PROVE  /\ IsFiniteSet(UpTo(S, d)) /\ Cardinality(UpTo(S, d)) \in Nat
           /\ d + 1 \in S => Cardinality(UpTo(S, d + 1)) = Cardinality(UpTo(S, d)) + 1
           /\ d + 1 \notin S => UpTo(S, d + 1) = UpTo(S, d)
           /\ \A i \in UpTo(S, d) : Cardinality(UpTo(S, i)) \in 1 .. Cardinality(UpTo(S, d))
<1>1. /\ \A i, j : j \in UpTo(S, i) <=> j \in S /\ j <= i
      /\ \A j \in S : j \in Nat /\ j >= 1
  BY DEF UpTo
<1>2. ASSUME NEW e \in Nat PROVE IsFiniteSet(UpTo(S, e)) /\ Cardinality(UpTo(S, e)) \in Nat
  <2>1. UpTo(S, e) \subseteq 1 .. e
    <3>1. ASSUME NEW j \in UpTo(S, e) PROVE j \in 1 .. e
      <4>1. j \in S /\ j <= e
        BY <1>1
      <4>2. j \in Nat /\ j >= 1
        BY <1>1, <4>1
      <4> QED  BY <4>1, <4>2
    <3> QED  BY <3>1
  <2>2. IsFiniteSet(1 .. e)
    BY FS_Interval
  <2>3. IsFiniteSet(UpTo(S, e))
    BY <2>1, <2>2, FS_Subset
  <2> QED  BY <2>3, FS_CardinalityType
<1>3. \A j \in S : j <= d + 1 <=> j <= d \/ j = d + 1
  BY <1>1
<1>4. ASSUME d + 1 \in S PROVE Cardinality(UpTo(S, d + 1)) = Cardinality(UpTo(S, d)) + 1
  <2>1. d + 1 \notin UpTo(S, d)
    BY <1>1
  <2>2. UpTo(S, d + 1) = UpTo(S, d) \cup {d + 1}
    BY <1>1, <1>3, <1>4
  <2> QED  BY <1>2, <2>1, <2>2, FS_AddElement
<1>5. ASSUME d + 1 \notin S PROVE UpTo(S, d + 1) = UpTo(S, d)
  BY <1>1, <1>3, <1>5
<1>6. ASSUME NEW i \in UpTo(S, d) PROVE Cardinality(UpTo(S, i)) \in 1 .. Cardinality(UpTo(S, d))
  <2>1. i \in Nat /\ i <= d /\ i \in S
    BY <1>1
  <2>2. i \in UpTo(S, i) /\ UpTo(S, i) \subseteq UpTo(S, d)
    <3>1. \A j \in S : j <= i => j <= d
      BY <1>1, <2>1
    <3>2. i <= i
      BY <2>1
    <3>3. i \in UpTo(S, i)
      BY <1>1, <2>1, <3>2
    <3>4. ASSUME NEW j \in UpTo(S, i) PROVE j \in UpTo(S, d)
      <4>1. j \in S /\ j <= i
        BY <1>1
      <4> QED  BY <1>1, <3>1, <4>1
    <3> QED  BY <3>3, <3>4
  <2>3. Cardinality(UpTo(S, i)) <= Cardinality(UpTo(S, d))
    BY <1>2, <2>2, FS_Subset
  <2>4. Cardinality(UpTo(S, i)) # 0
    BY <1>2, <2>1, <2>2, FS_EmptySet
  <2> QED  BY <1>2, <2>1, <2>3, <2>4
<1> QED  BY <1>2, <1>4, <1>5, <1>6

\* A list with an entry for each of the places up to d, and one that agrees with
\* it there.
Ranked(s, S, d) == IsList(s) /\ Len(s) = Cardinality(UpTo(S, d))
Stands(s, S, i, x) == s[Cardinality(UpTo(S, i))] = x
Stay(new, s, S, d) ==
    \A i \in UpTo(S, d) : new[Cardinality(UpTo(S, i))] = s[Cardinality(UpTo(S, i))]

\* What is appended for the next place stands at its rank, and the rest where it
\* was.
LEMMA RankAdded ==
    ASSUME NEW S \in SUBSET Nat, 0 \notin S, NEW d \in Nat, d + 1 \in S,
           NEW s, Ranked(s, S, d), NEW x, NEW new, new = Append(s, x)
    PROVE  /\ Ranked(new, S, d + 1)
           /\ Stands(new, S, d + 1, x)
           /\ Stay(new, s, S, d)
<1> DEFINE T == ToSet(s) \cup {x}
<1>1. s \in Seq(T) /\ x \in T
  <2>1. s \in Seq(ToSet(s)) /\ ToSet(s) \subseteq T
    BY DEF IsList, Ranked
  <2> QED  BY <2>1, SeqMonotonic
<1>2. /\ new \in Seq(T) /\ Len(new) = Len(s) + 1
      /\ \A i \in 1 .. Len(s) : new[i] = s[i]
      /\ new[Len(s) + 1] = x
  BY <1>1, AppendProperties
<1> HIDE DEF T
<1>3. IsList(new)
  BY <1>2, SeqIsList
<1>4. Cardinality(UpTo(S, d + 1)) = Len(s) + 1
  BY Ranks DEF Ranked
<1>5. Stay(new, s, S, d)
  BY <1>2, Ranks DEF Stay, Ranked
<1> QED  BY <1>2, <1>3, <1>4, <1>5 DEF Ranked, Stands

\* The replies so far are those owed to the first d places of a line, and the
\* frames so far those owed to the first n lines.
RepliedBy(rs, line, d) ==
    /\ IsList(rs) /\ Len(rs) = Cardinality(OwedUpTo(line, d))
    /\ \A i \in OwedUpTo(line, d) : rs[Cardinality(OwedUpTo(line, i))].id = IdOwed(line, i)

AnswerableIn(ls, n) == {k \in 1 .. n : Owed(ls[k]) # {}}

FramedBy(out, ls, n) ==
    /\ IsList(out) /\ Len(out) = Cardinality(AnswerableIn(ls, n))
    /\ \A k \in AnswerableIn(ls, n) : Answers(out[Cardinality(AnswerableIn(ls, k))], ls[k])

Itemized(line) == IsList(line.items)

\* The places owed a reply are positions.
LEMMA OwedPlaces ==
    ASSUME NEW line, Itemized(line)
    PROVE  Owed(line) \in SUBSET Nat /\ 0 \notin Owed(line)
<1>1. DOMAIN line.items = 1 .. Len(line.items) /\ Len(line.items) \in Nat
  BY ListPositions DEF Itemized
<1>2. DOMAIN line.items \subseteq Nat /\ 0 \notin DOMAIN line.items
  BY <1>1
<1> QED  BY <1>2 DEF Owed

\* A reply with the id owed, for a place that is owed one.
LEMMA ReplyAdded ==
    ASSUME NEW line, Itemized(line), NEW d \in Nat, d + 1 \in Owed(line),
           NEW rs, RepliedBy(rs, line, d), NEW x, x.id = IdOwed(line, d + 1)
    PROVE  RepliedBy(Append(rs, x), line, d + 1)
<1> DEFINE S == Owed(line)
           new == Append(rs, x)
<1>1. S \in SUBSET Nat /\ 0 \notin S /\ \A i : OwedUpTo(line, i) = UpTo(S, i)
  BY OwedPlaces DEF OwedUpTo, UpTo
<1>2. /\ Ranked(new, S, d + 1)
      /\ Stands(new, S, d + 1, x)
      /\ Stay(new, rs, S, d)
  <2>1. Ranked(rs, S, d) /\ d + 1 \in S
    BY <1>1 DEF RepliedBy, Ranked
  <2>2. S \in SUBSET Nat /\ 0 \notin S /\ d + 1 \in S
    BY <1>1, <2>1
  <2> HIDE DEF S
  <2>3. new = Append(rs, x)
    OBVIOUS
  <2> HIDE DEF new
  <2> QED  BY <2>1, <2>2, <2>3, RankAdded
<1>3. \A i \in UpTo(S, d + 1) : i \in UpTo(S, d) \/ i = d + 1
  BY <1>1 DEF UpTo
<1> HIDE DEF S, new
<1>4. \A i \in UpTo(S, d) : rs[Cardinality(UpTo(S, i))].id = IdOwed(line, i)
  BY <1>1 DEF RepliedBy
<1>5. \A i \in UpTo(S, d + 1) : new[Cardinality(UpTo(S, i))].id = IdOwed(line, i)
  BY <1>2, <1>3, <1>4 DEF Stay, Stands
<1>6. RepliedBy(new, line, d + 1)
  BY <1>1, <1>2, <1>5 DEF RepliedBy, Ranked
<1> QED  BY <1>6 DEF new

\* No reply, for a place that is owed none.
LEMMA ReplySkipped ==
    ASSUME NEW line, Itemized(line), NEW d \in Nat, d + 1 \notin Owed(line),
           NEW rs, RepliedBy(rs, line, d)
    PROVE  RepliedBy(rs, line, d + 1)
<1>1. Owed(line) \in SUBSET Nat /\ 0 \notin Owed(line) /\ \A i : OwedUpTo(line, i) = UpTo(Owed(line), i)
  BY OwedPlaces DEF OwedUpTo, UpTo
<1>2. OwedUpTo(line, d + 1) = OwedUpTo(line, d)
  BY <1>1, Ranks
<1> QED  BY <1>2 DEF RepliedBy

\* A frame that answers the next line.
LEMMA FrameAdded ==
    ASSUME NEW ls, NEW n \in Nat, Owed(ls[n + 1]) # {}, NEW out, FramedBy(out, ls, n),
           NEW frame, Answers(frame, ls[n + 1])
    PROVE  FramedBy(Append(out, frame), ls, n + 1)
<1> DEFINE S == {k \in Nat \ {0} : Owed(ls[k]) # {}}
           new == Append(out, frame)
<1>1. S \in SUBSET Nat /\ 0 \notin S /\ n + 1 \in S /\ \A i \in Nat : AnswerableIn(ls, i) = UpTo(S, i)
  BY DEF AnswerableIn, UpTo
<1>2. /\ Ranked(new, S, n + 1)
      /\ Stands(new, S, n + 1, frame)
      /\ Stay(new, out, S, n)
  <2>1. Ranked(out, S, n)
    BY <1>1 DEF FramedBy, Ranked
  <2>2. S \in SUBSET Nat /\ 0 \notin S /\ n + 1 \in S
    BY <1>1, <2>1
  <2> HIDE DEF S
  <2>3. new = Append(out, frame)
    OBVIOUS
  <2> HIDE DEF new
  <2> QED  BY <2>1, <2>2, <2>3, RankAdded
<1>3. /\ \A i \in UpTo(S, n + 1) : i \in UpTo(S, n) \/ i = n + 1
      /\ \A i \in UpTo(S, n + 1) : i \in Nat
      /\ n + 1 \in Nat
  BY <1>1 DEF UpTo
<1>4. \A i \in UpTo(S, n) : Answers(out[Cardinality(UpTo(S, i))], ls[i])
  <2> SUFFICES ASSUME NEW i \in UpTo(S, n) PROVE Answers(out[Cardinality(UpTo(S, i))], ls[i])
    OBVIOUS
  <2>1. i \in Nat /\ i \in AnswerableIn(ls, n)
    BY <1>1 DEF UpTo
  <2>2. AnswerableIn(ls, i) = UpTo(S, i)
    BY <1>1, <2>1
  <2> QED  BY <2>1, <2>2 DEF FramedBy
<1> HIDE DEF S, new
<1>5. \A i \in UpTo(S, n + 1) : Answers(new[Cardinality(UpTo(S, i))], ls[i])
  BY <1>2, <1>3, <1>4 DEF Stay, Stands
<1>6. AnswerableIn(ls, n + 1) = UpTo(S, n + 1) /\ \A i \in UpTo(S, n + 1) : AnswerableIn(ls, i) = UpTo(S, i)
  BY <1>1, <1>3
<1>7. FramedBy(new, ls, n + 1)
  BY <1>2, <1>5, <1>6 DEF FramedBy, Ranked
<1> QED  BY <1>7 DEF new

\* No frame, for a line that is owed none.
LEMMA FrameSkipped ==
    ASSUME NEW ls, NEW n \in Nat, Owed(ls[n + 1]) = {}, NEW out, FramedBy(out, ls, n)
    PROVE  FramedBy(out, ls, n + 1)
<1>1. AnswerableIn(ls, n + 1) = AnswerableIn(ls, n)
  BY DEF AnswerableIn
<1> QED  BY <1>1 DEF FramedBy

\* The frame of a message that is done.
LEMMA RepliedIsAnswer ==
    ASSUME NEW line, Itemized(line), line.form # "blank", ~Refuses(line),
           NEW rs, RepliedBy(rs, line, Len(line.items))
    PROVE  Answers(rs, line) /\ (rs = <<>> <=> Owed(line) = {})
<1>1. OwedUpTo(line, Len(line.items)) = Owed(line)
  <2>1. DOMAIN line.items = 1 .. Len(line.items) /\ Len(line.items) \in Nat
    BY ListPositions DEF Itemized
  <2> QED  BY <2>1 DEF OwedUpTo, Owed
<1>2. Answers(rs, line)
  BY <1>1 DEF RepliedBy, Answers
<1>3. Len(rs) = Cardinality(Owed(line)) /\ rs \in Seq(ToSet(rs))
  BY <1>1 DEF RepliedBy, IsList
<1>4. IsFiniteSet(Owed(line))
  <2>1. Len(line.items) \in Nat /\ Owed(line) \subseteq Nat \ {0}
    BY ListPositions, OwedPlaces DEF Itemized
  <2>2. UpTo(Owed(line), Len(line.items)) = Owed(line)
    BY <1>1 DEF OwedUpTo, UpTo
  <2> QED  BY <2>1, <2>2, Ranks
<1>5. rs = <<>> <=> Len(rs) = 0
  BY <1>3, EmptySeq
<1>6. Owed(line) = {} <=> Cardinality(Owed(line)) = 0
  BY <1>4, FS_EmptySet
<1> QED  BY <1>2, <1>3, <1>5, <1>6

\* The reply to what is no tool: one with the id that is owed, or none.
LEMMA ImmediateIsOwed ==
    ASSUME NEW item, ~RunsTool(item)
    PROVE  /\ Owes(item) => \E x : ImmediateReply(item) = <<x>> /\ x.id = IdOf(item)
           /\ ~Owes(item) => ImmediateReply(item) = <<>>
<1>1. \A code : Error(NullId, code).id = NullId /\ Error(item.id, code).id = item.id
  BY DEF Error
<1>2. \A b, c : Result(item.id, b, c).id = item.id
  BY DEF Result
<1>3. CASE item.form # "object"
  BY <1>1, <1>3 DEF ImmediateReply, Owes, IdOf
<1>4. CASE item.form = "object" /\ item.id = NullId
  BY <1>4 DEF ImmediateReply, Owes
<1>5. CASE item.form = "object" /\ item.id # NullId
  <2>1. CASE item.method \in {"initialize", "ping", "tools/list"}
    BY <1>2, <1>5, <2>1 DEF ImmediateReply, Owes, IdOf
  <2>2. CASE item.method = "initialized"
    BY <1>5, <2>2 DEF ImmediateReply, Owes
  <2>3. CASE item.method \notin {"initialize", "ping", "tools/list", "initialized"}
    BY <1>1, <1>5, <2>3 DEF ImmediateReply, Owes, IdOf
  <2> QED  BY <2>1, <2>2, <2>3
<1> QED  BY <1>3, <1>4, <1>5

\* t is what is left of s.
EndOf(t, s) ==
    /\ IsList(t) /\ IsList(s) /\ Len(t) <= Len(s)
    /\ \A i \in 1 .. Len(t) : t[i] = s[Len(s) - Len(t) + i]

\* What an Append leaves alone.
OneMore(a, s, x) ==
    /\ IsList(a) /\ Len(a) = Len(s) + 1
    /\ \A i \in 1 .. Len(s) : a[i] = s[i]
    /\ a[Len(s) + 1] = x
    /\ a = s \o <<x>>

\* An Append is that.
LEMMA Appended ==
    ASSUME NEW s, IsList(s), NEW x, NEW a, a = Append(s, x)
    PROVE  OneMore(a, s, x)
<1> DEFINE T == ToSet(s) \cup {x}
<1>1. s \in Seq(T) /\ x \in T
  <2>1. s \in Seq(ToSet(s)) /\ ToSet(s) \subseteq T
    BY DEF IsList
  <2> QED  BY <2>1, SeqMonotonic
<1> HIDE DEF T
<1>2. /\ a \in Seq(T) /\ Len(a) = Len(s) + 1
      /\ \A i \in 1 .. Len(s) : a[i] = s[i]
      /\ a[Len(s) + 1] = x
  BY <1>1, AppendProperties
<1>3. IsList(a)
  BY <1>2, SeqIsList
<1>4. a = s \o <<x>>
  BY <1>1, AppendIsConcat
<1> QED  BY <1>2, <1>3, <1>4 DEF OneMore

\* Taking the first of what is left.
LEMMA Taken ==
    ASSUME NEW s, NEW t, EndOf(t, s), t # <<>>
    PROVE  /\ EndOf(Tail(t), s) /\ Len(Tail(t)) = Len(t) - 1
           /\ Len(s) - Len(t) \in Nat /\ Len(s) - Len(t) + 1 \in 1 .. Len(s)
           /\ Head(t) = s[Len(s) - Len(t) + 1]
<1>1. Len(t) \in Nat /\ Len(s) \in Nat /\ t \in Seq(ToSet(t)) /\ Len(t) <= Len(s)
  BY ListPositions DEF EndOf
<1>2. Len(t) # 0
  BY <1>1, EmptySeq
<1>3. /\ Tail(t) \in Seq(ToSet(t)) /\ Len(Tail(t)) = Len(t) - 1
      /\ \A i \in 1 .. Len(Tail(t)) : Tail(t)[i] = t[i + 1]
  BY <1>1, HeadTailProperties
<1>4. IsList(Tail(t))
  BY <1>3, SeqIsList
<1>5. Head(t) = t[1]
  BY <1>1
<1>6. ASSUME NEW i \in 1 .. Len(Tail(t)) PROVE Tail(t)[i] = s[Len(s) - Len(Tail(t)) + i]
  <2>1. Tail(t)[i] = t[i + 1] /\ i + 1 \in 1 .. Len(t)
    BY <1>1, <1>3
  <2>2. t[i + 1] = s[Len(s) - Len(t) + (i + 1)]
    BY <2>1 DEF EndOf
  <2>3. Len(s) - Len(t) + (i + 1) = Len(s) - Len(Tail(t)) + i
    BY <1>1, <1>3
  <2> QED  BY <2>1, <2>2, <2>3
<1>7. Len(Tail(t)) <= Len(s)
  BY <1>1, <1>2, <1>3
<1>8. EndOf(Tail(t), s)
  BY <1>4, <1>6, <1>7 DEF EndOf
<1>9. 1 \in 1 .. Len(t)
  BY <1>1, <1>2
<1>10. t[1] = s[Len(s) - Len(t) + 1]
  BY <1>9 DEF EndOf
<1>11. Len(s) - Len(t) \in Nat /\ Len(s) - Len(t) + 1 \in 1 .. Len(s)
  BY <1>1, <1>2
<1> QED  BY <1>3, <1>5, <1>8, <1>10, <1>11

\* As much of b is done as of s.
LeftAlike(a, b, t, s) == Len(b) - Len(a) = Len(s) - Len(t)

\* Adding one more to both.
LEMMA Extended ==
    ASSUME NEW s, NEW t, EndOf(t, s), NEW x, NEW a, a = Append(t, x), NEW b, b = Append(s, x)
    PROVE  EndOf(a, b) /\ LeftAlike(a, b, t, s)
<1>1. Len(t) \in Nat /\ Len(s) \in Nat /\ IsList(s) /\ IsList(t) /\ Len(t) <= Len(s)
  BY ListPositions DEF EndOf
<1>2. /\ IsList(b) /\ Len(b) = Len(s) + 1
      /\ \A i \in 1 .. Len(s) : b[i] = s[i]
      /\ b[Len(s) + 1] = x
  <2>1. OneMore(b, s, x)
    BY <1>1, Appended
  <2> QED  BY <2>1 DEF OneMore
<1>3. /\ IsList(a) /\ Len(a) = Len(t) + 1
      /\ \A i \in 1 .. Len(t) : a[i] = t[i]
      /\ a[Len(t) + 1] = x
  <2>1. OneMore(a, t, x)
    BY <1>1, Appended
  <2> QED  BY <2>1 DEF OneMore
<1>4. ASSUME NEW i \in 1 .. Len(a) PROVE a[i] = b[Len(b) - Len(a) + i]
  <2>0. PICK j : j = Len(s) - Len(t) + i
    OBVIOUS
  <2>1. Len(b) - Len(a) + i = j
    BY <1>1, <1>2, <1>3, <2>0
  <2>2. CASE i \in 1 .. Len(t)
    <3>1. a[i] = t[i] /\ t[i] = s[j]
      BY <1>3, <2>0, <2>2 DEF EndOf
    <3>2. j \in 1 .. Len(s)
      BY <1>1, <2>0, <2>2
    <3>3. b[j] = s[j]
      BY <1>2, <3>2
    <3> QED  BY <2>1, <3>1, <3>3
  <2>3. CASE i = Len(t) + 1
    <3>1. j = Len(s) + 1
      BY <1>1, <2>0, <2>3
    <3>2. a[i] = x /\ b[j] = x
      BY <1>2, <1>3, <2>3, <3>1
    <3> QED  BY <2>1, <3>2
  <2>4. i \in 1 .. Len(t) \/ i = Len(t) + 1
    BY <1>1, <1>3
  <2> QED  BY <2>2, <2>3, <2>4
<1>5. Len(a) <= Len(b) /\ Len(b) - Len(a) = Len(s) - Len(t)
  BY <1>1, <1>2, <1>3
<1>6. EndOf(a, b)
  BY <1>2, <1>3, <1>4, <1>5 DEF EndOf
<1> QED  BY <1>5, <1>6 DEF LeftAlike

\* The frames of the first lines do not depend on those that follow.
LEMMA FramedStays ==
    ASSUME NEW ls, NEW ms, NEW n \in Nat, \A k \in 1 .. n : ms[k] = ls[k],
           NEW out, FramedBy(out, ls, n)
    PROVE  FramedBy(out, ms, n)
<1>1. ASSUME NEW k \in Nat, k <= n PROVE AnswerableIn(ms, k) = AnswerableIn(ls, k)
  <2>1. \A j \in 1 .. k : j \in 1 .. n
    BY <1>1
  <2> QED  BY <2>1 DEF AnswerableIn
<1>2. AnswerableIn(ms, n) = AnswerableIn(ls, n)
  BY <1>1
<1>3. ASSUME NEW k \in AnswerableIn(ms, n)
      PROVE  Answers(out[Cardinality(AnswerableIn(ms, k))], ms[k])
  <2>1. k \in 1 .. n /\ k \in Nat /\ k <= n
    BY DEF AnswerableIn
  <2>2. AnswerableIn(ms, k) = AnswerableIn(ls, k) /\ ms[k] = ls[k]
    BY <1>1, <2>1
  <2> QED  BY <1>2, <2>2 DEF FramedBy
<1>4. IsList(out) /\ Len(out) = Cardinality(AnswerableIn(ms, n))
  BY <1>2 DEF FramedBy
<1> QED  BY <1>3, <1>4 DEF FramedBy

\* The reply to a line the server cannot take in hand.
LEMMA RefusalIsAnswer ==
    ASSUME NEW line, line.form # "blank", Refuses(line), NEW code
    PROVE  Owed(line) # {} /\ Answers(<<Error(NullId, code)>>, line)
<1>1. Owed(line) = {1}
  BY DEF Owed
<1>2. OwedUpTo(line, 1) = {1}
  BY <1>1 DEF OwedUpTo
<1>3. Cardinality({1}) = 1
  BY FS_Singleton
<1>4. Error(NullId, code).id = NullId
  BY DEF Error
<1>5. Len(<<Error(NullId, code)>>) = 1 /\ <<Error(NullId, code)>>[1] = Error(NullId, code)
  OBVIOUS
<1>6. IdOwed(line, 1) = NullId
  BY DEF IdOwed
<1> QED  BY <1>1, <1>2, <1>3, <1>4, <1>5, <1>6 DEF Answers

\* Lines read so far.
Read == Len(lines) - Len(stdin)

\* Where the server stands in the line in hand: the items before the ones that
\* are left are answered, but for the one whose tool runs.
Handled(line) == Len(line.items) - Len(batch.items)
InHand(line) ==
    /\ line.form # "blank" /\ ~Refuses(line) /\ EndOf(batch.items, line.items)
    /\ tool_call = NoCall => RepliedBy(replies, line, Handled(line))
    /\ tool_call # NoCall =>
          /\ Handled(line) >= 1 /\ Handled(line) \in Owed(line)
          /\ RepliedBy(replies, line, Handled(line) - 1)
          /\ tool_call.id = IdOwed(line, Handled(line)) /\ tool_call.id # NullId

Shaped ==
    /\ batch = [open |-> batch.open, single |-> batch.single, items |-> batch.items]
    /\ batch.open \in BOOLEAN
    /\ tool_call = [id |-> tool_call.id, tool |-> tool_call.tool, left |-> tool_call.left, seen |-> tool_call.seen]

\* Every line before the one in hand has its frame.
McpInv ==
    /\ EndOf(stdin, lines) /\ \A i \in 1 .. Len(lines) : lines[i] \in Script
    /\ Shaped
    /\ ~batch.open => tool_call = NoCall /\ FramedBy(stdout, lines, Read)
    /\ batch.open => Read >= 1 /\ FramedBy(stdout, lines, Read - 1) /\ InHand(lines[Read])

\* The numbers the invariant speaks of.
LEMMA ReadIsNat ==
    ASSUME McpInv
    PROVE  Read \in Nat /\ Read <= Len(lines) /\ Len(lines) \in Nat
<1>1. Len(lines) \in Nat /\ Len(stdin) \in Nat /\ Len(stdin) <= Len(lines)
  BY ListPositions DEF McpInv, EndOf
<1> QED  BY <1>1 DEF Read

\* The line in hand is one of the script, and its items a list.
LEMMA LineInHand ==
    ASSUME McpInv, NEW k \in 1 .. Len(lines)
    PROVE  Itemized(lines[k])
BY ScriptAssumption DEF McpInv, Itemized, IsList

\* The client writes another line.
LEMMA WritesKeep ==
    ASSUME McpInv, NEW line \in Script, ClientWrites(line)
    PROVE  McpInv'
<1>1. /\ stdin' = Append(stdin, line) /\ lines' = Append(lines, line)
      /\ batch' = batch /\ tool_call' = tool_call /\ replies' = replies /\ stdout' = stdout
  BY DEF ClientWrites
<1>2. EndOf(stdin', lines') /\ Read' = Read
  <2>1. EndOf(stdin, lines)
    BY DEF McpInv
  <2>2. EndOf(stdin', lines') /\ LeftAlike(stdin', lines', stdin, lines)
    BY <1>1, <2>1, Extended
  <2> QED  BY <2>2 DEF LeftAlike, Read
<1>3. /\ Len(lines') = Len(lines) + 1 /\ lines'[Len(lines) + 1] = line
      /\ \A i \in 1 .. Len(lines) : lines'[i] = lines[i]
  <2>1. IsList(lines)
    BY DEF McpInv, EndOf
  <2>2. OneMore(lines', lines, line)
    BY <1>1, <2>1, Appended
  <2> QED  BY <2>2 DEF OneMore
<1>4. Read \in Nat /\ Read <= Len(lines) /\ Len(lines) \in Nat
  BY ReadIsNat
<1>5. \A i \in 1 .. Len(lines') : lines'[i] \in Script
  <2> SUFFICES ASSUME NEW i \in 1 .. Len(lines') PROVE lines'[i] \in Script
    OBVIOUS
  <2>1. i \in 1 .. Len(lines) \/ i = Len(lines) + 1
    BY <1>3, <1>4
  <2> QED  BY <1>3, <2>1 DEF McpInv
<1>6. Shaped'
  BY <1>1 DEF McpInv, Shaped
<1>7. ASSUME NEW n \in Nat, n <= Read, FramedBy(stdout, lines, n) PROVE FramedBy(stdout', lines', n)
  <2>1. \A k \in 1 .. n : k \in 1 .. Len(lines)
    BY <1>4, <1>7
  <2>2. \A k \in 1 .. n : lines'[k] = lines[k]
    BY <1>3, <2>1
  <2>3. FramedBy(stdout, lines', n)
    BY <1>7, <2>2, FramedStays
  <2> QED  BY <1>1, <2>3
<1>8. ~batch'.open => tool_call' = NoCall /\ FramedBy(stdout', lines', Read')
  BY <1>1, <1>2, <1>4, <1>7 DEF McpInv
<1>9. batch'.open => Read' >= 1 /\ FramedBy(stdout', lines', Read' - 1) /\ InHand(lines[Read])'
  <2> SUFFICES ASSUME batch.open
               PROVE  Read >= 1 /\ FramedBy(stdout', lines', Read - 1) /\ InHand(lines[Read])'
    BY <1>1, <1>2
  <2>1. Read >= 1 /\ FramedBy(stdout, lines, Read - 1) /\ InHand(lines[Read])
    BY DEF McpInv
  <2>2. Read - 1 \in Nat /\ Read - 1 <= Read /\ Read \in 1 .. Len(lines)
    BY <1>4, <2>1
  <2>3. FramedBy(stdout', lines', Read - 1)
    BY <1>7, <2>1, <2>2
  <2>4. lines[Read]' = lines[Read]
    BY <1>2, <1>3, <2>2
  <2>5. InHand(lines[Read])'
    BY <1>1, <2>1, <2>4 DEF InHand, Handled
  <2> QED  BY <2>1, <2>3, <2>5
<1> QED  BY <1>2, <1>5, <1>6, <1>8, <1>9 DEF McpInv

\* The next line is skipped, refused or taken in hand.
LEMMA ReadKeeps ==
    ASSUME McpInv, ReadLine
    PROVE  McpInv'
<1>0. PICK line : line = Head(stdin)
  OBVIOUS
<1>1. /\ ~batch.open /\ tool_call = NoCall /\ stdin # <<>>
      /\ stdin' = Tail(stdin) /\ lines' = lines /\ tool_call' = tool_call /\ replies' = <<>>
  BY DEF ReadLine, Waiting
<1>2. FramedBy(stdout, lines, Read) /\ Read \in Nat
  BY <1>1, ReadIsNat DEF McpInv
<1>3. /\ EndOf(stdin', lines') /\ Len(stdin') = Len(stdin) - 1
      /\ Read + 1 \in 1 .. Len(lines) /\ line = lines[Read + 1]
  BY <1>0, <1>1, Taken DEF McpInv, Read
<1>4. Read' = Read + 1
  <2>1. Len(lines) \in Nat /\ Len(stdin) \in Nat
    BY ListPositions DEF McpInv, EndOf
  <2> QED  BY <1>1, <1>3, <2>1 DEF Read
<1>5. Itemized(line)
  BY <1>3, LineInHand
<1>6. \A i \in 1 .. Len(lines') : lines'[i] \in Script
  BY <1>1 DEF McpInv
<1>7. ASSUME batch' = batch, FramedBy(stdout', lines, Read + 1) PROVE McpInv'
  <2>1. Shaped'
    BY <1>1, <1>7 DEF McpInv, Shaped
  <2> QED  BY <1>1, <1>3, <1>4, <1>6, <1>7, <2>1 DEF McpInv
<1>8. CASE line.form = "blank"
  <2>1. batch' = batch /\ stdout' = stdout
    BY <1>0, <1>8 DEF ReadLine
  <2>2. Owed(lines[Read + 1]) = {}
    BY <1>3, <1>8 DEF Owed
  <2>3. FramedBy(stdout', lines, Read + 1)
    BY <1>2, <2>1, <2>2, FrameSkipped
  <2> QED  BY <1>7, <2>1, <2>3
<1>9. CASE line.form # "blank" /\ Refuses(line)
  <2>1. PICK code : stdout' = Append(stdout, <<Error(NullId, code)>>) /\ batch' = batch
    BY <1>0, <1>9 DEF ReadLine, Refuses
  <2>2. Owed(line) # {} /\ Answers(<<Error(NullId, code)>>, line)
    BY <1>9, RefusalIsAnswer
  <2>3. FramedBy(stdout', lines, Read + 1)
    BY <1>2, <1>3, <2>1, <2>2, FrameAdded
  <2> QED  BY <1>7, <2>1, <2>3
<1>10. CASE line.form # "blank" /\ ~Refuses(line)
  <2>1. /\ batch' = [open |-> TRUE, single |-> line.form = "single", items |-> line.items]
        /\ stdout' = stdout
    BY <1>0, <1>10 DEF ReadLine, Refuses
  <2>2. Shaped'
    BY <1>1, <2>1 DEF McpInv, Shaped
  <2>3. IsList(line.items) /\ Len(line.items) \in Nat
    BY <1>5, ListPositions DEF Itemized
  <2>4. EndOf(line.items, line.items)
    BY <2>3 DEF EndOf
  <2>5. lines[Read]' = line
    BY <1>1, <1>3, <1>4
  <2>6. RepliedBy(<<>>, line, 0)
    <3>1. OwedUpTo(line, 0) = {}
      <4>1. Owed(line) \in SUBSET Nat /\ 0 \notin Owed(line)
        BY <1>5, OwedPlaces
      <4> QED  BY <4>1 DEF OwedUpTo
    <3>2. IsList(<<>>) /\ Len(<<>>) = 0 /\ Cardinality({}) = 0
      BY FS_EmptySet DEF IsList
    <3> QED  BY <3>1, <3>2 DEF RepliedBy
  <2>7. InHand(lines[Read])'
    <3>1. batch'.items = line.items /\ Handled(line)' = 0
      <4>1. batch'.items = line.items
        BY <2>1
      <4> QED  BY <2>3, <4>1 DEF Handled
    <3>2. line.form # "blank" /\ ~Refuses(line) /\ EndOf(batch'.items, line.items)
      BY <1>10, <2>4, <3>1
    <3>3. tool_call' = NoCall /\ RepliedBy(replies', line, Handled(line)')
      BY <1>1, <2>6, <3>1
    <3> QED  BY <2>5, <3>2, <3>3 DEF InHand, Handled
  <2>8. Read' >= 1 /\ FramedBy(stdout', lines', Read' - 1)
    BY <1>1, <1>2, <1>4, <2>1
  <2>9. batch'.open
    BY <2>1
  <2> QED  BY <1>3, <1>6, <2>2, <2>7, <2>8, <2>9 DEF McpInv
<1> QED  BY <1>8, <1>9, <1>10

\* What the line in hand is.
LEMMA TheLine ==
    ASSUME McpInv, batch.open, NEW line, line = lines[Read]
    PROVE  /\ Itemized(line) /\ InHand(line) /\ Read \in 1 .. Len(lines)
           /\ Len(line.items) \in Nat /\ Len(batch.items) \in Nat /\ Handled(line) \in Nat
           /\ Handled(line) <= Len(line.items)
<1>1. Read \in 1 .. Len(lines) /\ InHand(line)
  BY ReadIsNat DEF McpInv
<1>2. Itemized(line)
  BY <1>1, LineInHand
<1>3. /\ Len(line.items) \in Nat /\ Len(batch.items) \in Nat
      /\ Len(batch.items) <= Len(line.items)
  BY <1>1, ListPositions DEF InHand, EndOf
<1>4. ASSUME NEW m \in Nat, NEW n \in Nat, n <= m PROVE m - n \in Nat /\ m - n <= m
  BY <1>4
<1>5. Handled(line) \in Nat /\ Handled(line) <= Len(line.items)
  BY <1>3, <1>4 DEF Handled
<1> QED  BY <1>1, <1>2, <1>3, <1>5

\* A step within the line in hand.
LEMMA WithinLine ==
    ASSUME McpInv, batch.open, NEW line, line = lines[Read],
           UNCHANGED <<stdin, lines, stdout>>, batch'.open, Shaped', InHand(line)'
    PROVE  McpInv'
<1>1. Read' = Read /\ lines[Read]' = line
  BY DEF Read
<1>2. InHand(lines[Read])'
  BY <1>1 DEF InHand, Handled
<1>3. EndOf(stdin', lines') /\ \A i \in 1 .. Len(lines') : lines'[i] \in Script
  BY DEF McpInv
<1>4. Read' >= 1 /\ FramedBy(stdout', lines', Read' - 1)
  BY <1>1 DEF McpInv
<1> QED  BY <1>2, <1>3, <1>4 DEF McpInv

\* The next item is answered at once, owed nothing, or the start of a tool.
LEMMA HandleKeeps ==
    ASSUME McpInv, HandleItem
    PROVE  McpInv'
<1>0. PICK line : line = lines[Read]
  OBVIOUS
<1>1. PICK item : item = Head(batch.items)
  OBVIOUS
<1>2. PICK d : d = Handled(line)
  OBVIOUS
<1>3. /\ batch.open /\ tool_call = NoCall /\ batch.items # <<>>
      /\ batch' = [batch EXCEPT !.items = Tail(@)]
      /\ UNCHANGED <<stdin, lines, stdout>>
  BY DEF HandleItem
<1>4. /\ Itemized(line) /\ Len(line.items) \in Nat /\ d \in Nat
      /\ line.form # "blank" /\ ~Refuses(line) /\ EndOf(batch.items, line.items)
      /\ RepliedBy(replies, line, d)
  BY <1>0, <1>2, <1>3, TheLine DEF InHand
<1>5. /\ EndOf(Tail(batch.items), line.items) /\ Len(Tail(batch.items)) = Len(batch.items) - 1
      /\ d + 1 \in 1 .. Len(line.items) /\ item = line.items[d + 1]
  BY <1>1, <1>2, <1>3, <1>4, Taken DEF Handled
<1>6. batch'.open /\ batch'.items = Tail(batch.items)
      /\ batch' = [open |-> batch'.open, single |-> batch'.single, items |-> batch'.items]
      /\ batch'.open \in BOOLEAN
  <2>1. batch = [open |-> batch.open, single |-> batch.single, items |-> batch.items]
    BY DEF McpInv, Shaped
  <2> QED  BY <1>3, <2>1
<1>7. Handled(line)' = d + 1
  <2>1. Len(batch.items) \in Nat
    BY <1>0, <1>3, TheLine
  <2>2. Handled(line)' = Len(line.items) - (Len(batch.items) - 1)
    BY <1>5, <1>6 DEF Handled
  <2>3. d = Len(line.items) - Len(batch.items)
    BY <1>2 DEF Handled
  <2> QED  BY <1>4, <2>1, <2>2, <2>3
<1>8. /\ d + 1 \in Owed(line) <=> Owes(item)
      /\ IdOwed(line, d + 1) = IdOf(item)
  <2>1. DOMAIN line.items = 1 .. Len(line.items)
    BY <1>4, ListPositions DEF Itemized
  <2> QED  BY <1>4, <1>5, <2>1 DEF Owed, IdOwed
<1>9. EndOf(batch'.items, line.items)
  BY <1>5, <1>6
<1>10. Shaped /\ IsList(replies)
  BY <1>4 DEF McpInv, RepliedBy
<1>11. ASSUME tool_call' = tool_call, RepliedBy(replies', line, d + 1) PROVE McpInv'
  <2>1. Shaped'
    BY <1>6, <1>10, <1>11 DEF Shaped
  <2>2. InHand(line)'
    BY <1>3, <1>4, <1>7, <1>9, <1>11 DEF InHand
  <2> QED  BY <1>0, <1>3, <1>6, <2>1, <2>2, WithinLine
<1>12. ASSUME NEW x, x.id = IdOf(item), Owes(item), replies' = Append(replies, x), tool_call' = tool_call
       PROVE  McpInv'
  <2>1. RepliedBy(replies', line, d + 1)
    BY <1>4, <1>8, <1>12, ReplyAdded
  <2> QED  BY <1>11, <1>12, <2>1
<1>13. CASE ~RunsTool(item)
  <2>1. replies' = replies \o ImmediateReply(item) /\ tool_call' = tool_call
    BY <1>1, <1>13 DEF HandleItem
  <2>2. CASE Owes(item)
    <3>1. PICK x : ImmediateReply(item) = <<x>> /\ x.id = IdOf(item)
      BY <1>13, <2>2, ImmediateIsOwed
    <3>2. PICK a : a = Append(replies, x)
      OBVIOUS
    <3>3. replies' = Append(replies, x)
      <4>1. a = replies \o <<x>>
        BY <1>10, <3>2, Appended DEF OneMore
      <4> QED  BY <2>1, <3>1, <3>2, <4>1
    <3> QED  BY <1>12, <2>1, <2>2, <3>1, <3>3
  <2>3. CASE ~Owes(item)
    <3>1. ImmediateReply(item) = <<>>
      BY <1>13, <2>3, ImmediateIsOwed
    <3>2. replies' = replies
      BY <1>10, <2>1, <3>1, ConcatEmptySeq DEF IsList
    <3>3. RepliedBy(replies', line, d + 1)
      BY <1>4, <1>8, <2>3, <3>2, ReplySkipped
    <3> QED  BY <1>11, <2>1, <3>3
  <2> QED  BY <2>2, <2>3
<1>14. CASE RunsTool(item)
  <2>1. Owes(item) /\ IdOf(item) = item.id /\ item.id # NullId
    BY <1>14 DEF RunsTool, Owes, IdOf
  <2>2. CASE item.tool = "unknown"
    <3>1. replies' = Append(replies, Error(item.id, "method")) /\ tool_call' = tool_call
      BY <1>1, <1>14, <2>2 DEF HandleItem
    <3>2. Error(item.id, "method").id = item.id
      BY DEF Error
    <3> QED  BY <1>12, <2>1, <3>1, <3>2
  <2>3. CASE item.tool = "bad_arguments"
    <3>1. replies' = Append(replies, Result(item.id, TRUE, "none")) /\ tool_call' = tool_call
      BY <1>1, <1>14, <2>3 DEF HandleItem
    <3>2. Result(item.id, TRUE, "none").id = item.id
      BY DEF Result
    <3> QED  BY <1>12, <2>1, <3>1, <3>2
  <2>4. CASE item.tool \notin {"unknown", "bad_arguments"}
    <3>1. /\ tool_call' = [id |-> item.id, tool |-> item.tool, left |-> CallsOf(item.tool), seen |-> {}]
          /\ replies' = replies
      BY <1>1, <1>14, <2>4 DEF HandleItem
    <3>2. tool_call'.id = item.id /\ tool_call' # NoCall
      <4>1. tool_call'.id = item.id
        BY <3>1
      <4>2. NoCall.id = NullId
        BY DEF NoCall, NullId
      <4> QED  BY <2>1, <4>1, <4>2
    <3>3. Shaped'
      BY <1>6, <3>1 DEF Shaped
    <3>4. d + 1 >= 1 /\ d + 1 - 1 = d
      BY <1>4
    <3>5. d + 1 \in Owed(line) /\ tool_call'.id = IdOwed(line, d + 1)
      BY <1>8, <2>1, <3>2
    <3>6. RepliedBy(replies', line, d + 1 - 1)
      BY <1>4, <3>1, <3>4
    <3>7. InHand(line)'
      BY <1>4, <1>7, <1>9, <2>1, <3>2, <3>4, <3>5, <3>6 DEF InHand
    <3> QED  BY <1>0, <1>3, <1>6, <3>3, <3>7, WithinLine
  <2> QED  BY <2>2, <2>3, <2>4
<1> QED  BY <1>13, <1>14

\* A call of the tool in progress keeps the id it will answer to.
LEMMA CallKeeps ==
    ASSUME McpInv, ToolCalls
    PROVE  McpInv'
<1>0. PICK line : line = lines[Read]
  OBVIOUS
<1>1. tool_call # NoCall /\ UNCHANGED <<stdin, lines, stdout, batch, replies>>
  <2>1. NoCall.left = <<>>
    BY DEF NoCall
  <2> QED  BY <2>1 DEF ToolCalls
<1>2. batch.open
  BY <1>1 DEF McpInv, Shaped
<1>3. Shaped
  BY DEF McpInv
<1>4. PICK left, seen : tool_call' = [tool_call EXCEPT !.seen = seen, !.left = left]
  BY DEF ToolCalls
<1>5. tool_call'.id = tool_call.id /\ Shaped'
  BY <1>1, <1>3, <1>4 DEF Shaped
<1>6. InHand(line)
  BY <1>0, <1>2, TheLine
<1>7. tool_call' # NoCall
  <2>1. tool_call.id # NullId
    BY <1>1, <1>6 DEF InHand
  <2>2. NoCall.id = NullId
    BY DEF NoCall, NullId
  <2> QED  BY <1>5, <2>1, <2>2
<1>8. InHand(line)'
  BY <1>1, <1>5, <1>6, <1>7 DEF InHand, Handled
<1> QED  BY <1>0, <1>1, <1>2, <1>5, <1>8, WithinLine

\* The tool's result answers the item it was started for.
LEMMA EndKeeps ==
    ASSUME McpInv, ToolEnds
    PROVE  McpInv'
<1>0. PICK line : line = lines[Read]
  OBVIOUS
<1>1. /\ tool_call # NoCall /\ tool_call' = NoCall /\ UNCHANGED <<stdin, lines, stdout, batch>>
      /\ \E b, c : replies' = Append(replies, Result(tool_call.id, b, c))
  BY DEF ToolEnds
<1>2. PICK x : replies' = Append(replies, x) /\ x.id = tool_call.id
  <2>1. PICK b, c : replies' = Append(replies, Result(tool_call.id, b, c))
    BY <1>1
  <2>2. Result(tool_call.id, b, c).id = tool_call.id
    BY DEF Result
  <2> QED  BY <2>1, <2>2
<1>3. batch.open
  BY <1>1 DEF McpInv, Shaped
<1>4. PICK d : d = Handled(line)
  OBVIOUS
<1>5. /\ Itemized(line) /\ d \in Nat /\ d >= 1 /\ d \in Owed(line)
      /\ RepliedBy(replies, line, d - 1) /\ tool_call.id = IdOwed(line, d)
      /\ line.form # "blank" /\ ~Refuses(line) /\ EndOf(batch.items, line.items)
  BY <1>0, <1>1, <1>3, <1>4, TheLine DEF InHand
<1>6. d - 1 \in Nat /\ (d - 1) + 1 = d
  BY <1>5
<1>7. RepliedBy(replies', line, d)
  BY <1>2, <1>5, <1>6, ReplyAdded
<1>8. Handled(line)' = d
  BY <1>1, <1>4 DEF Handled
<1>9. Shaped'
  BY <1>1 DEF McpInv, Shaped, NoCall
<1>10. InHand(line)'
  BY <1>1, <1>5, <1>7, <1>8 DEF InHand
<1> QED  BY <1>0, <1>1, <1>3, <1>9, <1>10, WithinLine

\* The frame of the line in hand, or none when it is owed none.
LEMMA FrameKeeps ==
    ASSUME McpInv, WriteFrame
    PROVE  McpInv'
<1>0. PICK line : line = lines[Read]
  OBVIOUS
<1>1. /\ batch.open /\ tool_call = NoCall /\ batch.items = <<>>
      /\ stdout' = IF replies = <<>> THEN stdout ELSE Append(stdout, replies)
      /\ batch' = NoBatch /\ UNCHANGED <<stdin, lines, tool_call>>
  BY DEF WriteFrame
<1>2. /\ Itemized(line) /\ line.form # "blank" /\ ~Refuses(line)
      /\ Len(line.items) \in Nat /\ RepliedBy(replies, line, Handled(line))
  BY <1>0, <1>1, TheLine DEF InHand
<1>3. Handled(line) = Len(line.items)
  <2>1. Len(batch.items) = 0
    BY <1>1
  <2> QED  BY <1>2, <2>1 DEF Handled
<1>4. Answers(replies, line) /\ (replies = <<>> <=> Owed(line) = {})
  <2>1. RepliedBy(replies, line, Len(line.items))
    BY <1>2, <1>3
  <2> QED  BY <1>2, <2>1, RepliedIsAnswer
<1>5. Read - 1 \in Nat /\ (Read - 1) + 1 = Read /\ FramedBy(stdout, lines, Read - 1)
  BY <1>1, ReadIsNat DEF McpInv
<1>6. FramedBy(stdout', lines, Read)
  <2>1. CASE replies = <<>>
    BY <1>0, <1>1, <1>4, <1>5, <2>1, FrameSkipped
  <2>2. CASE replies # <<>>
    BY <1>0, <1>1, <1>4, <1>5, <2>2, FrameAdded
  <2> QED  BY <2>1, <2>2
<1>7. Shaped' /\ ~batch'.open
  BY <1>1 DEF McpInv, Shaped, NoBatch
<1>8. Read' = Read /\ EndOf(stdin', lines') /\ \A i \in 1 .. Len(lines') : lines'[i] \in Script
  BY <1>1 DEF McpInv, Read
<1>9. FramedBy(stdout', lines', Read')
  BY <1>1, <1>6, <1>8
<1> QED  BY <1>1, <1>7, <1>8, <1>9 DEF McpInv

\* Whatever the rest of the deployment does, the server's own state stays.
LEMMA OthersKeep ==
    ASSUME McpInv, UNCHANGED <<stdin, lines, batch, tool_call, replies, stdout>>
    PROVE  McpInv'
<1>1. Read' = Read /\ (InHand(lines[Read]) => InHand(lines[Read])')
  BY DEF Read, InHand, Handled
<1>2. Shaped'
  BY DEF McpInv, Shaped
<1> QED  BY <1>1, <1>2 DEF McpInv

\* McpInv is kept by every step.
LEMMA McpInvKept ==
    ASSUME McpInv, [McpNext]_serverVars
    PROVE  McpInv'
<1>1. CASE DeployNext /\ UNCHANGED mcpVars
  BY <1>1, OthersKeep DEF mcpVars
<1>2. CASE GuardChanges
  BY <1>2, OthersKeep DEF GuardChanges
<1>3. ASSUME NEW line \in Script, ClientWrites(line) PROVE McpInv'
  BY <1>3, WritesKeep
<1>4. CASE McpStep
  BY <1>4, ReadKeeps, HandleKeeps, CallKeeps, EndKeeps, FrameKeeps DEF McpStep
<1>5. CASE UNCHANGED serverVars
  BY <1>5, OthersKeep DEF serverVars, mcpVars
<1> QED  BY <1>1, <1>2, <1>3, <1>4, <1>5 DEF McpNext

\* RepliesMatchRequests, for every script, however many lines the client has
\* written ahead, and whatever becomes of the gateway between two calls.
THEOREM RepliesInStep == McpSpec => []RepliesMatchRequests
<1>1. McpInit => McpInv
  <2> SUFFICES ASSUME McpInit PROVE McpInv
    OBVIOUS
  <2>1. /\ stdin = <<>> /\ lines = <<>> /\ batch = NoBatch /\ tool_call = NoCall /\ stdout = <<>>
    BY DEF McpInit
  <2>2. Len(<<>>) = 0 /\ IsList(<<>>)
    BY DEF IsList
  <2>3. EndOf(stdin, lines) /\ \A i \in 1 .. Len(lines) : lines[i] \in Script
    BY <2>1, <2>2 DEF EndOf
  <2>4. Shaped /\ ~batch.open
    BY <2>1 DEF Shaped, NoBatch, NoCall
  <2>5. Read = 0
    BY <2>1, <2>2 DEF Read
  <2>6. AnswerableIn(lines, 0) = {} /\ Cardinality({}) = 0
    BY FS_EmptySet DEF AnswerableIn
  <2>7. FramedBy(stdout, lines, Read)
    BY <2>1, <2>2, <2>5, <2>6 DEF FramedBy
  <2> QED  BY <2>1, <2>3, <2>4, <2>7 DEF McpInv
<1>2. McpInv => RepliesMatchRequests
  <2> SUFFICES ASSUME McpInv, Waiting PROVE RepliesMatchRequests
    BY DEF RepliesMatchRequests
  <2>1. FramedBy(stdout, lines, Read)
    BY DEF McpInv, Waiting
  <2>2. \A n : Answerable(n) = AnswerableIn(lines, n)
    BY DEF Answerable, AnswerableIn
  <2> QED  BY <2>1, <2>2 DEF FramedBy, RepliesMatchRequests, Read
<1>3. McpInv /\ [McpNext]_serverVars => McpInv'
  BY McpInvKept
<1> QED  BY <1>1, <1>2, <1>3, PTL DEF McpSpec

================================================================================
