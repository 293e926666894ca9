----------------------------- MODULE HarnessProofs -----------------------------
(* The experiment harness: the gauges of the mock engine, what a driver       *)
(* script leaves behind, in the process table and in summary.json, and on     *)
(* which gateway it measures a cell, and which rows it compares.              *)
EXTENDS Suite, MockEngine, Integers, FiniteSetTheorems, SequenceTheorems,
        WellFoundedInduction, TLAPS

-----------------------------------------------------------------------------
(* The mock engine.                                                        *)

MockTypeOK ==
    /\ call \in [Calls -> {"new", "admitted", "serving", "done"}]
    /\ running \in Nat /\ waiting \in Nat

Inside == In("admitted") \cup In("serving")

\* The requests in a state, and those inside the server, can be counted.
LEMMA CallsFinite ==
    /\ IsFiniteSet(Inside) /\ Cardinality(Inside) \in Nat
    /\ \A s : IsFiniteSet(In(s)) /\ Cardinality(In(s)) \in Nat
<1>1. Inside \subseteq Calls /\ \A s : In(s) \subseteq Calls
  BY DEF Inside, In
<1> QED  BY <1>1, FS_Subset, FS_CardinalityType, MockAssumption

\* A request enters as running or as waiting, trades places with whoever waits,
\* and leaves as running: the sum of the gauges follows the requests, and a
\* thread that starts without taking a waiter has a running slot to itself.
LEMMA GaugesStep ==
    MockTypeOK /\ GaugesAreExact /\ [MockNext]_mockVars => MockTypeOK' /\ GaugesAreExact'
<1> SUFFICES ASSUME MockTypeOK, GaugesAreExact, [MockNext]_mockVars
             PROVE  MockTypeOK' /\ GaugesAreExact'
  OBVIOUS
<1> DEFINE S == In("serving")
<1>1. /\ IsFiniteSet(Inside) /\ Cardinality(Inside) \in Nat
      /\ IsFiniteSet(S) /\ Cardinality(S) \in Nat
  BY CallsFinite
<1>2. /\ running + waiting = Cardinality(Inside)
      /\ Cardinality(S) <= running /\ running <= MaxConcurrency
      /\ running \in Nat /\ waiting \in Nat /\ MaxConcurrency \in Nat \ {0}
  BY MockAssumption DEF GaugesAreExact, MockTypeOK, Inside
<1>3. ASSUME running' + waiting' = Cardinality(Inside'),
             Cardinality(S') <= running', running' <= MaxConcurrency
      PROVE  GaugesAreExact'
  BY <1>3 DEF GaugesAreExact, Inside
<1>4. ASSUME NEW c \in Calls, NEW prefix, Admit(c, prefix)
      PROVE  MockTypeOK' /\ GaugesAreExact'
  <2>1. call[c] = "new" /\ call' = [call EXCEPT ![c] = "admitted"]
    BY <1>4 DEF Admit
  <2>2. c \notin Inside /\ Inside' = Inside \cup {c} /\ S' = S
    BY <2>1 DEF Inside, In, MockTypeOK
  <2>3. Cardinality(Inside') = Cardinality(Inside) + 1
    BY <1>1, <2>2, FS_AddElement
  <2>4. /\ running' + waiting' = running + waiting + 1
        /\ running' \in Nat /\ waiting' \in Nat
        /\ running <= running' /\ running' <= MaxConcurrency
    BY <1>2, <1>4 DEF Admit
  <2>5. MockTypeOK'
    BY <2>1, <2>4 DEF MockTypeOK
  <2>6. Cardinality(S') <= running'
    BY <1>1, <1>2, <2>2, <2>4
  <2>7. running' + waiting' = Cardinality(Inside')
    BY <1>1, <1>2, <2>3, <2>4
  <2> QED  BY <1>3, <2>4, <2>5, <2>6, <2>7
<1>5. ASSUME NEW c \in Calls, StartService(c) PROVE MockTypeOK' /\ GaugesAreExact'
  <2>1. call[c] = "admitted" /\ call' = [call EXCEPT ![c] = "serving"]
    BY <1>5 DEF StartService
  <2>2. c \in Inside /\ c \notin S /\ Inside' = Inside /\ S' = S \cup {c}
    BY <2>1 DEF Inside, In, MockTypeOK
  <2>3. Cardinality(S') = Cardinality(S) + 1 /\ S' \subseteq Inside
    BY <1>1, <2>2, FS_AddElement DEF Inside
  <2>4. Cardinality(S) + 1 <= Cardinality(Inside)
    BY <1>1, <2>3, FS_Subset
  <2>5. /\ running' + waiting' = running + waiting
        /\ running' \in Nat /\ waiting' \in Nat
        /\ running' <= MaxConcurrency /\ Cardinality(S) + 1 <= running'
    <3>1. CASE TakesWaiting /\ waiting' = waiting - 1 /\ running' = running + 1
      BY <1>1, <1>2, <3>1 DEF TakesWaiting
    <3>2. CASE NobodyWaits /\ UNCHANGED <<waiting, running>>
      BY <1>1, <1>2, <2>4, <3>2 DEF NobodyWaits
    <3> QED  BY <1>5, <3>1, <3>2 DEF StartService
  <2>6. MockTypeOK'
    BY <2>1, <2>5 DEF MockTypeOK
  <2> QED  BY <1>1, <1>2, <1>3, <2>2, <2>3, <2>5, <2>6
<1>6. ASSUME NEW c \in Calls, Release(c) PROVE MockTypeOK' /\ GaugesAreExact'
  <2>1. call[c] = "serving" /\ call' = [call EXCEPT ![c] = "done"] /\ waiting' = waiting
    BY <1>6 DEF Release
  <2>2. c \in Inside /\ c \in S /\ Inside' = Inside \ {c} /\ S' = S \ {c}
    BY <2>1 DEF Inside, In, MockTypeOK
  <2>3. /\ Cardinality(S') = Cardinality(S) - 1
        /\ Cardinality(Inside') = Cardinality(Inside) - 1
    <3>1. Cardinality(S \ {c}) = Cardinality(S) - 1
      BY <1>1, <2>2, FS_RemoveElement, Zenon
    <3>2. Cardinality(Inside \ {c}) = Cardinality(Inside) - 1
      BY <1>1, <2>2, FS_RemoveElement, Zenon
    <3> QED  BY ONLY <2>2, <3>1, <3>2, Zenon
  <2>4. Cardinality(S) # 0
    BY <1>1, <2>2, FS_EmptySet
  <2>5. running' = running - 1 /\ running' \in Nat
    BY <1>1, <1>2, <1>6, <2>4 DEF Release
  <2>6. MockTypeOK'
    BY <2>1, <2>5 DEF MockTypeOK
  <2> QED  BY <1>1, <1>2, <1>3, <2>1, <2>3, <2>5, <2>6
<1>7. ASSUME Reset \/ UNCHANGED mockVars PROVE MockTypeOK' /\ GaugesAreExact'
  <2>1. UNCHANGED <<call, running, waiting>>
    BY <1>7 DEF Reset, mockVars
  <2> QED  BY <2>1 DEF MockTypeOK, GaugesAreExact, In
<1> QED  BY <1>4, <1>5, <1>6, <1>7 DEF MockNext, MockStep

\* What DIO scrapes from the mock engine is true, whatever order its threads
\* take the lock in: the gauges add up to the requests inside, and the limit
\* is kept.
THEOREM MockGaugesExact == MockSpec => []GaugesAreExact
<1>1. MockInit => MockTypeOK /\ GaugesAreExact
  <2> SUFFICES ASSUME MockInit PROVE MockTypeOK /\ GaugesAreExact
    OBVIOUS
  <2>1. In("admitted") \cup In("serving") = {} /\ In("serving") = {}
    BY DEF MockInit, In
  <2>2. Cardinality(In("admitted") \cup In("serving")) = 0 /\ Cardinality(In("serving")) = 0
    BY <2>1, FS_EmptySet
  <2> QED  BY <2>2, MockAssumption DEF MockInit, MockTypeOK, GaugesAreExact
<1> QED  BY <1>1, GaugesStep, PTL DEF MockSpec

-----------------------------------------------------------------------------
(* summary.json.                                                           *)

\* Steps of a script that neither end a block nor write or close.
BusyStep ==
    \/ StartEngines \/ EnginesReady \/ EnginesTimeOut
    \/ BeginBlock \/ ProxyReady \/ ProxyTimesOut
    \/ StartGateway \/ GatewayReady \/ GatewayTimesOut
    \/ \E result \in ClusterLoad : Load(result)
    \/ Interrupt \/ InterruptInStart \/ InterruptInTeardown \/ HardKill

\* What such a step leaves alone, and where it may go: never to the end of main(),
\* and to a write only before the clean-up of an end that has one.
Idle ==
    /\ UNCHANGED <<script, blk, finished, disk>>
    /\ pc' \notin {"ended", "writing"}
    /\ pc' = "saving" => outcome' # "none"
    /\ pc' = "closing" => outcome' \notin The.early

\* No busy step touches a result.
LEMMA BusyKeepsResults == BusyStep => Idle
<1> SUFFICES ASSUME BusyStep PROVE Idle
  OBVIOUS
<1>1. ASSUME StartEngines \/ EnginesReady \/ EnginesTimeOut \/ BeginBlock \/ ProxyReady PROVE Idle
  BY <1>1 DEF StartEngines, EnginesReady, EnginesTimeOut, BeginBlock, ProxyReady, Leave, Idle
<1>2. ASSUME ProxyTimesOut \/ StartGateway \/ GatewayReady PROVE Idle
  BY <1>2 DEF ProxyTimesOut, StartGateway, GatewayReady, Leave, Idle
<1>3. ASSUME GatewayTimesOut PROVE Idle
  BY <1>3 DEF GatewayTimesOut, Leave, Idle
<1>4. ASSUME NEW result \in ClusterLoad, Load(result) PROVE Idle
  BY <1>4 DEF Load, Leave, Idle
<1>5. ASSUME Interrupt \/ HardKill PROVE Idle
  BY <1>5 DEF Interrupt, HardKill, Leave, Idle
<1>6. ASSUME InterruptInStart \/ InterruptInTeardown PROVE Idle
  BY <1>6 DEF InterruptInStart, InterruptInTeardown, Leave, Idle
<1> QED  BY <1>1, <1>2, <1>3, <1>4, <1>5, <1>6 DEF BusyStep

\* FinishedBlocksAreKept needs to know that the blocks before the current one are in
\* the summary dict, and the current one too while it is saved; and that an end
\* whose write comes before the clean-up has written when it cleans up.
KeptInv ==
    /\ blk \in Nat \ {0}
    /\ \A i \in 1 .. blk - 1 : The.blocks[i].name \in finished
    /\ pc \in {"saving", "writing"} /\ outcome = "none" => ThisBlock.name \in finished
    /\ pc = "closing" /\ outcome \in The.early => finished \subseteq disk
    /\ FinishedBlocksAreKept

\* main() goes on to the next block, or leaves its body.
LEMMA AdvanceGoes ==
    ASSUME blk \in Nat \ {0}, Advance
    PROVE  /\ blk' \in Nat \ {0} /\ blk' \in {blk, blk + 1} /\ pc' \in {"block", "saving", "closing"}
           /\ pc' = "saving" => outcome' # "none"
           /\ pc' = "closing" => outcome' \notin The.early
  BY DEF Advance, Leave

\* A finished block reaches the file with the block or with the end of main().
LEMMA KeptStep == KeptInv /\ [SuiteNext]_suiteVars => KeptInv'
<1> SUFFICES ASSUME KeptInv, [SuiteNext]_suiteVars PROVE KeptInv'
  OBVIOUS
<1>1. /\ blk \in Nat \ {0} /\ FinishedBlocksAreKept
      /\ \A i \in 1 .. blk - 1 : The.blocks[i].name \in finished
  BY DEF KeptInv
<1>2. ASSUME Idle PROVE KeptInv'
  <2>1. The' = The
    BY <1>2 DEF The, Idle
  <2> QED  BY <1>1, <1>2, <2>1 DEF Idle, KeptInv, FinishedBlocksAreKept
<1>3. ASSUME BusyStep PROVE KeptInv'
  BY <1>2, <1>3, BusyKeepsResults
<1>4. ASSUME NEW n \in {blk, blk + 1}, NEW all, finished \subseteq all,
             n = blk + 1 => ThisBlock.name \in all
      PROVE  \A i \in 1 .. n - 1 : The.blocks[i].name \in all
  <2>1. ASSUME NEW i \in 1 .. n - 1 PROVE i \in 1 .. blk - 1 \/ (i = blk /\ n = blk + 1)
    BY <1>1, <1>4
  <2> QED  BY <1>1, <1>4, <2>1 DEF ThisBlock
<1>5. ASSUME EndBlock PROVE KeptInv'
  <2>1. /\ script' = script /\ disk' = disk
        /\ finished' = finished \cup {ThisBlock.name}
    BY <1>5 DEF EndBlock
  <2>2. The' = The
    BY <2>1 DEF The
  <2>3. CASE The.saves = "blocks" /\ blk > 1
    <3>1. pc' = "saving" /\ blk' = blk
      BY <1>5, <2>3 DEF EndBlock
    <3>2. ThisBlock' = ThisBlock
      BY <2>2, <3>1 DEF ThisBlock
    <3> QED  BY <1>1, <2>1, <2>2, <3>1, <3>2 DEF KeptInv, FinishedBlocksAreKept
  <2>4. CASE ~(The.saves = "blocks" /\ blk > 1)
    <3>1. /\ blk' \in Nat \ {0} /\ blk' \in {blk, blk + 1} /\ pc' \in {"block", "saving", "closing"}
          /\ pc' = "saving" => outcome' # "none"
          /\ pc' = "closing" => outcome' \notin The.early
      BY <1>1, <1>5, <2>4, AdvanceGoes DEF EndBlock
    <3>2. \A i \in 1 .. blk' - 1 : The.blocks[i].name \in finished'
      BY <1>4, <2>1, <3>1
    <3>3. The.saves = "blocks" => ~(blk' > 2)
      BY <1>1, <2>4, <3>1
    <3> QED  BY <2>2, <3>1, <3>2, <3>3 DEF KeptInv, FinishedBlocksAreKept
  <2> QED  BY <2>3, <2>4
<1>6. ASSUME OpenSummary PROVE KeptInv'
  <2>1. /\ UNCHANGED <<script, blk, finished, outcome>> /\ pc = "saving" /\ pc' = "writing"
        /\ disk' = Torn
    BY <1>6 DEF OpenSummary
  <2>2. The' = The /\ ThisBlock' = ThisBlock /\ Torn' = Torn
    BY <2>1 DEF The, ThisBlock, Torn
  <2> QED  BY <1>1, <2>1, <2>2 DEF KeptInv, FinishedBlocksAreKept
<1>7. ASSUME WriteSummary PROVE KeptInv'
  <2>1. UNCHANGED <<script, finished>> /\ disk' = finished /\ pc = "writing"
    BY <1>7 DEF WriteSummary, Saved
  <2>2. The' = The
    BY <2>1 DEF The
  <2>3. CASE outcome = "none"
    <3>1. /\ blk' \in Nat \ {0} /\ blk' \in {blk, blk + 1} /\ pc' \in {"block", "saving", "closing"}
          /\ pc' = "saving" => outcome' # "none"
          /\ pc' = "closing" => outcome' \notin The.early
      BY <1>1, <1>7, <2>3, AdvanceGoes DEF WriteSummary
    <3>2. ThisBlock.name \in finished
      BY <2>1, <2>3 DEF KeptInv
    <3>3. \A i \in 1 .. blk' - 1 : The.blocks[i].name \in finished
      BY <1>4, <3>1, <3>2
    <3> QED  BY <2>1, <2>2, <3>1, <3>3 DEF KeptInv, FinishedBlocksAreKept
  <2>4. CASE outcome # "none"
    <3>1. UNCHANGED <<blk, outcome>> /\ pc' \in {"closing", "ended"}
      BY <1>7, <2>4 DEF WriteSummary
    <3> QED  BY <1>1, <2>1, <2>2, <3>1 DEF KeptInv, FinishedBlocksAreKept
  <2> QED  BY <2>3, <2>4
<1>8. ASSUME Close PROVE KeptInv'
  <2>1. /\ UNCHANGED <<script, blk, finished, disk, outcome>> /\ pc = "closing"
        /\ pc' = IF WritesLate(outcome) THEN "saving" ELSE "ended"
    BY <1>8 DEF Close
  <2>2. The' = The /\ KeptOutcomes' = KeptOutcomes
    BY <2>1 DEF The, KeptOutcomes
  <2>3. WritesLate(outcome) => outcome # "none"
    BY DEF WritesLate
  <2>4. outcome \in {"ok"} \cup KeptOutcomes => WritesLate(outcome) \/ outcome \in The.early
    BY DEF KeptOutcomes, WritesLate
  <2>5. outcome \in The.early => finished \subseteq disk
    BY <2>1 DEF KeptInv
  <2> QED  BY <1>1, <2>1, <2>2, <2>3, <2>4, <2>5 DEF KeptInv, FinishedBlocksAreKept
<1>9. ASSUME Rerun PROVE KeptInv'
  BY <1>9 DEF Rerun, KeptInv, FinishedBlocksAreKept
<1>10. ASSUME UNCHANGED suiteVars \/ \E p \in booting : Boots(p) PROVE KeptInv'
  <2>1. UNCHANGED <<script, pc, blk, finished, disk, outcome>>
    BY <1>10 DEF suiteVars, Boots
  <2>2. The' = The /\ ThisBlock' = ThisBlock /\ KeptOutcomes' = KeptOutcomes
    BY <2>1 DEF The, ThisBlock, KeptOutcomes
  <2> QED  BY <2>1, <2>2 DEF KeptInv, FinishedBlocksAreKept
<1> QED  BY <1>3, <1>5, <1>6, <1>7, <1>8, <1>9, <1>10 DEF SuiteNext, MainStep, BusyStep

\* A block that finished is in summary.json once main() has ended in a way that
\* writes it; where every block is saved, the blocks before the current one are in
\* it at any moment, a kill included unless it falls between the opening of the
\* file and the write: for every script, seed count and number of reruns.
THEOREM ResultsAreKept == SuiteSpec => []FinishedBlocksAreKept
<1>1. SuiteInit => KeptInv
  BY DEF SuiteInit, KeptInv, FinishedBlocksAreKept
<1>2. KeptInv => FinishedBlocksAreKept
  BY DEF KeptInv
<1> QED  BY <1>1, <1>2, KeptStep, PTL DEF SuiteSpec

-----------------------------------------------------------------------------
(* What a script leaves running.                                           *)

\* Lists of handles.
Elements(hs) == {hs[i] : i \in DOMAIN hs}
IsList(hs) == hs \in Seq(Elements(hs))

\* A sequence over any set is a sequence over its elements.
LEMMA SeqIsList ==
    ASSUME NEW S, NEW hs \in Seq(S)
    PROVE  IsList(hs)
<1>1. Len(hs) \in Nat /\ DOMAIN hs = 1 .. Len(hs) /\ hs = [i \in 1 .. Len(hs) |-> hs[i]]
  OBVIOUS
<1>2. \A i \in 1 .. Len(hs) : hs[i] \in Elements(hs)
  BY <1>1 DEF Elements
<1> QED  BY <1>1, <1>2 DEF IsList

\* handles = []
LEMMA EmptyIsList == IsList(<<>>) /\ Elements(<<>>) = {}
<1>1. <<>> \in Seq({})
  OBVIOUS
<1>2. IsList(<<>>)
  BY <1>1, SeqIsList
<1>3. Elements(<<>>) = {}
  BY DOMAIN <<>> = {} DEF Elements
<1> QED  BY <1>2, <1>3

\* handles.append(p)
LEMMA AppendedList ==
    ASSUME NEW hs, IsList(hs), NEW p
    PROVE  IsList(Append(hs, p)) /\ Elements(Append(hs, p)) = Elements(hs) \cup {p}
<1> DEFINE S == Elements(hs) \cup {p}
           new == Append(hs, p)
<1>1. hs \in Seq(S)
  BY DEF IsList
<1>2. /\ new \in Seq(S) /\ Len(new) = Len(hs) + 1 /\ Len(hs) \in Nat
      /\ DOMAIN new = 1 .. Len(hs) + 1 /\ DOMAIN hs = 1 .. Len(hs)
      /\ new[Len(hs) + 1] = p /\ \A i \in 1 .. Len(hs) : new[i] = hs[i]
  BY <1>1
<1>3. IsList(new)
  BY <1>2, SeqIsList
<1>4. Elements(new) = Elements(hs) \cup {p}
  BY <1>2 DEF Elements
<1> QED  BY <1>3, <1>4

\* handles.pop()
LEMMA PoppedList ==
    ASSUME NEW hs, IsList(hs)
    PROVE  /\ IsList(SubSeq(hs, 1, Len(hs) - 1))
           /\ Elements(hs) \ {hs[Len(hs)]} \subseteq Elements(SubSeq(hs, 1, Len(hs) - 1))
<1> DEFINE S == Elements(hs)
           new == SubSeq(hs, 1, Len(hs) - 1)
<1>1. hs \in Seq(S) /\ Len(hs) \in Nat /\ DOMAIN hs = 1 .. Len(hs)
  BY DEF IsList
<1>2. new \in Seq(S)
  BY <1>1
<1>3. \A i \in 1 .. Len(hs) - 1 : i \in DOMAIN new /\ new[i] = hs[i]
  BY <1>1
<1>4. ASSUME NEW q \in Elements(hs) \ {hs[Len(hs)]} PROVE q \in Elements(new)
  <2>1. PICK i \in 1 .. Len(hs) : q = hs[i]
    BY <1>1, <1>4 DEF Elements
  <2>2. i \in 1 .. Len(hs) - 1
    BY <1>1, <1>4, <2>1
  <2> QED  BY <1>3, <2>1, <2>2 DEF Elements
<1> QED  BY <1>2, <1>4, SeqIsList

\* handles.remove(p)
LEMMA RemovedList ==
    ASSUME NEW hs, IsList(hs), NEW p
    PROVE  IsList(Removed(hs, p)) /\ Elements(hs) \ {p} \subseteq Elements(Removed(hs, p))
<1> DEFINE S == Elements(hs)
           First == CHOOSE i \in DOMAIN hs : hs[i] = p /\ \A j \in 1 .. i - 1 : hs[j] # p
<1>1. hs \in Seq(S) /\ Len(hs) \in Nat /\ DOMAIN hs = 1 .. Len(hs)
  BY DEF IsList
<1>2. CASE ~\E i \in DOMAIN hs : hs[i] = p
  BY <1>2 DEF Removed
<1>3. CASE \E i \in DOMAIN hs : hs[i] = p
  <2>1. First \in DOMAIN hs /\ hs[First] = p
    <3>1. \E i \in DOMAIN hs : hs[i] = p /\ \A j \in 1 .. i - 1 : hs[j] # p
      <4> DEFINE Hit == {i \in DOMAIN hs : hs[i] = p}
      <4>1. Hit # {} /\ Hit \subseteq Nat
        BY <1>1, <1>3
      <4>2. PICK i \in Hit : \A j \in Hit : i <= j
        <5> DEFINE Less == {ss \in Nat \X Nat : ss[1] < ss[2]}
        <5>1. IsWellFoundedOn(Less, Nat)
          BY NatLessThanWellFounded DEF OpToRel
        <5>2. PICK i \in Hit : \A j \in Hit : ~(<<j, i>> \in Less)
          BY <4>1, <5>1, WFMin
        <5>3. \A j \in Hit : ~(j < i)
          BY <4>1, <5>2
        <5> QED  BY <4>1, <5>3
      <4>3. i \in 1 .. Len(hs) /\ hs[i] = p
        BY <1>1, <4>2
      <4>4. \A j \in 1 .. i - 1 : j \in DOMAIN hs /\ ~(i <= j)
        BY <1>1, <4>3
      <4> QED  BY <1>1, <4>2, <4>3, <4>4
    <3> QED  BY <3>1
  <2> HIDE DEF First
  <2> DEFINE front == SubSeq(hs, 1, First - 1)
             back == SubSeq(hs, First + 1, Len(hs))
             new == front \o back
  <2>2. Removed(hs, p) = new
    BY <1>3 DEF Removed, First
  <2>3. First \in 1 .. Len(hs) /\ First \in Nat /\ 1 <= First /\ First <= Len(hs)
    BY <1>1, <2>1
  <2>4. /\ front \in Seq(S) /\ Len(front) = First - 1
        /\ \A i \in 1 .. First - 1 : front[i] = hs[i]
    BY <1>1, <2>3, SubSeqProperties
  <2>5. /\ back \in Seq(S) /\ Len(back) = Len(hs) - First
        /\ \A i \in 1 .. Len(hs) - First : back[i] = hs[First + i]
    <3> HIDE DEF back
    <3>1. /\ back \in Seq(S)
          /\ Len(back) = IF First + 1 <= Len(hs) THEN Len(hs) - (First + 1) + 1 ELSE 0
          /\ \A i \in 1 .. Len(hs) - (First + 1) + 1 : back[i] = hs[First + 1 + i - 1]
      <4>1. First + 1 \in Int /\ Len(hs) \in Int /\ \A i \in First + 1 .. Len(hs) : hs[i] \in S
        BY <1>1, <2>3
      <4> QED  BY ONLY <4>1, SubSeqProperties DEF back
    <3>2. Len(back) = Len(hs) - First
      <4>1. CASE First + 1 <= Len(hs)
        <5>1. Len(back) = Len(hs) - (First + 1) + 1
          BY <3>1, <4>1
        <5> QED  BY <1>1, <2>3, <5>1
      <4>2. CASE ~(First + 1 <= Len(hs))
        <5>1. Len(back) = 0
          BY <3>1, <4>2
        <5>2. First = Len(hs)
          <6>1. Len(hs) \in Nat
            BY <1>1
          <6> QED  BY <2>3, <4>2, <6>1
        <5> QED  BY <1>1, <5>1, <5>2
      <4> QED  BY <4>1, <4>2
    <3>3. ASSUME NEW i \in 1 .. Len(hs) - First PROVE back[i] = hs[First + i]
      <4>1. i \in 1 .. Len(hs) - (First + 1) + 1 /\ First + 1 + i - 1 = First + i
        BY <1>1, <2>3
      <4> QED  BY <3>1, <4>1
    <3> QED  BY <3>1, <3>2, <3>3
  <2> HIDE DEF front, back
  <2>6. /\ new \in Seq(S) /\ Len(new) = Len(front) + Len(back)
        /\ \A i \in 1 .. Len(new) : new[i] = IF i <= Len(front) THEN front[i] ELSE back[i - Len(front)]
    <3> HIDE DEF S
    <3>1. front \in Seq(S) /\ back \in Seq(S)
      BY <2>4, <2>5
    <3>2. /\ new \in Seq(S) /\ Len(new) = Len(front) + Len(back)
          /\ \A i \in 1 .. Len(front) + Len(back) :
                new[i] = IF i <= Len(front) THEN front[i] ELSE back[i - Len(front)]
      BY ONLY <3>1, ConcatProperties, Zenon
    <3> QED  BY ONLY <3>2
  <2> HIDE DEF new
  <2>7. Len(new) = Len(hs) - 1 /\ DOMAIN new = 1 .. Len(hs) - 1
    <3>1. Len(new) = Len(hs) - 1
      BY <1>1, <2>3, <2>4, <2>5, <2>6
    <3> QED  BY <2>6, <3>1
  <2>8. ASSUME NEW i \in 1 .. Len(hs), i # First PROVE hs[i] \in Elements(new)
    <3>1. CASE i < First
      <4>1. i \in DOMAIN new /\ new[i] = hs[i]
        <5>1. i \in DOMAIN new /\ i \in 1 .. Len(new) /\ i \in 1 .. First - 1 /\ i <= First - 1
          BY <1>1, <2>3, <2>7, <3>1
        <5>2. new[i] = front[i]
          BY ONLY <2>4, <2>6, <5>1
        <5> QED  BY ONLY <2>4, <5>1, <5>2
      <4> QED  BY <4>1 DEF Elements
    <3>2. CASE i > First
      <4>1. i - 1 \in DOMAIN new /\ i - First \in 1 .. Len(hs) - First
        BY <1>1, <2>3, <2>7, <3>2
      <4>2. new[i - 1] = back[i - 1 - (First - 1)] /\ i - 1 - (First - 1) = i - First
        <5>1. i - 1 \in 1 .. Len(new) /\ ~(i - 1 <= First - 1) /\ i - 1 - (First - 1) = i - First
          BY <1>1, <2>3, <2>7, <3>2
        <5>2. new[i - 1] = back[i - 1 - Len(front)]
          BY ONLY <2>4, <2>6, <5>1
        <5> QED  BY ONLY <2>4, <5>1, <5>2, Zenon
      <4>3. back[i - First] = hs[i]
        BY <2>3, <2>5, <4>1
      <4> QED  BY <4>1, <4>2, <4>3 DEF Elements
    <3> QED  BY <2>3, <2>8, <3>1, <3>2
  <2>9. S \ {p} \subseteq Elements(new)
    BY <1>1, <2>1, <2>8 DEF Elements
  <2> QED  BY <2>2, <2>6, <2>9, SeqIsList
<1> QED  BY <1>2, <1>3

\* What the clean-up depends on in a descriptor: only mock_hetero keeps a gateway
\* to itself until it answers; it kills it then, and is not guarded; and no script
\* writes between an interrupt or an error and its clean-up.
LEMMA DescriptorFacts ==
    ASSUME NEW s \in DOMAIN Descriptors
    PROVE  /\ Descriptors[s].engines \in Nat
           /\ Descriptors[s].tracked \in {"start", "ready"}
           /\ Descriptors[s].early \subseteq {"ok", "returned"}
           /\ Descriptors[s].tracked = "ready" =>
                 /\ ~Descriptors[s].guarded
                 /\ Len(Descriptors[s].blocks) = 1
                 /\ Descriptors[s].blocks[1].failed = "raise"
<1>1. s \in ScriptNames \X SeedCounts
  BY DEF Descriptors
<1>2. CASE s[1] = "cluster"
  BY <1>1, <1>2 DEF Descriptors, ClusterScript
<1>3. CASE s[1] = "workshop"
  BY <1>1, <1>3 DEF Descriptors, WorkshopScript
<1>4. CASE s[1] = "abc"
  BY <1>1, <1>4 DEF Descriptors, AbcScript
<1>5. CASE s[1] = "regime_d"
  BY <1>1, <1>5 DEF Descriptors, RegimeScript
<1>6. CASE s[1] = "hetero"
  BY <1>1, <1>6 DEF Descriptors, HeteroScript
<1>7. CASE s[1] = "post_d"
  BY <1>1, <1>7 DEF Descriptors, PostScript
<1>8. CASE s[1] = "mock_hetero"
  <2>1. Descriptors[s] = MockScript(s[2])
    BY <1>1, <1>8 DEF Descriptors
  <2>2. MockCells(s[2]).failed = "raise"
    BY DEF MockCells, Block
  <2> QED  BY <2>1, <2>2 DEF MockScript
<1> QED  BY <1>1, <1>2, <1>3, <1>4, <1>5, <1>6, <1>7, <1>8 DEF ScriptNames

\* The processes this run of the script has started and not lost, and the one
\* of them that no handle of mock_hetero names while it waits for its health.
Mine == {p \in Live : p.run = run}
Untracked == IF pc = "health" /\ The.tracked = "ready" THEN {Gateway(ThisCell)} ELSE {}

\* main() is still to clean up, or has cleaned up, in a way that reaches all.
Reachable == pc # "killed" /\ outcome # "cut" /\ (outcome = "interrupted" => The.guarded)

\* The clean-up is over.
Closed ==
    \/ pc = "ended"
    \/ pc \in {"saving", "writing"} /\ outcome \notin {"none"} \cup The.early

\* What is true of a script wherever main() is.
BookInv ==
    /\ script \in DOMAIN Descriptors
    /\ run \in Nat /\ \A p \in Live : p.run \in Nat /\ p.run <= run
    /\ The.tracked = "ready" => blk = 1
    /\ pc \notin {"saving", "writing", "closing", "ended", "killed"} => outcome = "none"
    /\ IsList(handles)

\* Everything a run has started is on its list of handles, but for a gateway
\* that mock_hetero waits for and one process if a start or a teardown was cut.
OwnInv ==
    /\ BookInv
    /\ pc = "start" => Mine = {}
    /\ Reachable => Mine \subseteq Elements(handles) \cup Untracked
    /\ outcome = "cut" /\ The.guarded /\ pc # "killed" => \E q : Mine \subseteq Elements(handles) \cup {q}
    /\ Closed => handles = <<>>

\* A step of main() that starts and stops processes, and leaves every handle of
\* what is still its own on the list, preserves OwnInv.
LEMMA OwnFrame ==
    ASSUME OwnInv, UNCHANGED <<script, run>>,
           \A p \in Live' : p \in Live \/ p.run = run,
           The.tracked = "ready" => blk' = blk,
           pc' \notin {"start", "killed"},
           Closed' => handles' = <<>>,
           pc' \in {"saving", "writing", "closing", "ended"} \/ outcome' = "none",
           IsList(handles'),
           outcome' = "cut" /\ The.guarded => \E q : Mine' \subseteq Elements(handles') \cup {q},
           Reachable' => Mine' \subseteq Elements(handles') \cup Untracked'
    PROVE  OwnInv'
<1>1. The' = The
  BY DEF The
<1>2. BookInv'
  <2>1. run' \in Nat /\ \A p \in Live' : p.run \in Nat /\ p.run <= run'
    BY DEF OwnInv, BookInv
  <2> QED  BY <1>1, <2>1 DEF OwnInv, BookInv
<1> QED  BY <1>1, <1>2 DEF OwnInv

\* What a teardown stops is no longer live, and only that leaves the list.
LEMMA TeardownKeeps ==
    ASSUME IsList(handles), NEW how, NEW p, Teardown(how, p)
    PROVE  /\ IsList(handles') /\ Live' \subseteq Live
           /\ \A q \in Live' : q \in Elements(handles) => q \in Elements(handles')
<1>1. CASE how = "kill"
  BY <1>1 DEF Teardown, Kill, Live
<1>2. CASE how = "pop"
  BY <1>2, PoppedList DEF Teardown, Kill, Live
<1>3. CASE how = "remove"
  BY <1>3, RemovedList DEF Teardown, Kill, Live
<1>4. CASE how \notin {"kill", "pop", "remove"}
  BY <1>4 DEF Teardown, Live
<1> QED  BY <1>1, <1>2, <1>3, <1>4

\* The engines of a script.
LEMMA EnginesAreMine ==
    ASSUME The.engines \in Nat
    PROVE  /\ Engines \in Seq(Elements(Engines)) /\ Len(Engines) = The.engines
           /\ DOMAIN Engines = 1 .. The.engines
           /\ \A i \in 1 .. The.engines : Engines[i].run = run
<1> DEFINE n == The.engines
           e(i) == Engine(i - 1)
           es == [i \in 1 .. n |-> e(i)]
<1>1. n \in Nat /\ Engines = es
  BY DEF Engines
<1>2. ASSUME NEW i \in 1 .. n PROVE e(i).run = run
  BY DEF Engine
<1> HIDE DEF n, e
<1>3. \A S : (\A i \in 1 .. n : e(i) \in S) => [i \in 1 .. n |-> e(i)] \in Seq(S)
  BY <1>1
<1>4. DOMAIN es = 1 .. n /\ Len(es) = n /\ \A i \in 1 .. n : es[i] = e(i)
  BY <1>1
<1>5. es \in Seq(Elements(es))
  BY <1>3, <1>4 DEF Elements
<1> QED  BY <1>1, <1>2, <1>4, <1>5 DEF n

\* The starts of processes: the engines, a proxy, a gateway.
LEMMA StartsOwn ==
    ASSUME OwnInv, StartEngines \/ BeginBlock \/ StartGateway \/ GatewayReady
    PROVE  OwnInv'
<1>1. /\ script \in DOMAIN Descriptors /\ IsList(handles)
      /\ pc \notin {"saving", "writing", "closing", "ended", "killed"} => outcome = "none"
  BY DEF OwnInv, BookInv
<1>2. /\ The.engines \in Nat /\ The.tracked \in {"start", "ready"}
  BY <1>1, DescriptorFacts DEF The
<1>3. outcome = "none" /\ pc # "killed" /\ Reachable /\ ~Closed'
  BY <1>1 DEF StartEngines, BeginBlock, StartGateway, GatewayReady, Reachable, Closed
<1>4. Mine \subseteq Elements(handles) \cup Untracked
  BY <1>3 DEF OwnInv
<1>5. CASE StartEngines
  <2>1. /\ UNCHANGED <<script, run, blk, cell, up, outcome>> /\ pc = "start" /\ pc' = "engines"
        /\ handles' = Engines /\ booting' = booting \cup {Engines[i] : i \in DOMAIN Engines}
    BY <1>5 DEF StartEngines, Spawn
  <2>2. /\ Engines \in Seq(Elements(Engines)) /\ DOMAIN Engines = 1 .. The.engines
        /\ \A i \in 1 .. The.engines : Engines[i].run = run
    BY <1>2, EnginesAreMine
  <2>3. IsList(handles') /\ Elements(handles') = {Engines[i] : i \in DOMAIN Engines}
    BY <2>1, <2>2, SeqIsList DEF Elements
  <2>4. \A p \in Elements(handles') : p.run = run
    BY <2>2, <2>3
  <2>5. Live' = Live \cup Elements(handles') /\ Mine = {}
    BY <2>1, <2>3 DEF Live, OwnInv
  <2>6. Mine' \subseteq Elements(handles')
    BY <2>1, <2>5 DEF Mine
  <2> QED  BY <1>3, <2>1, <2>3, <2>4, <2>5, <2>6, OwnFrame
<1>6. CASE BeginBlock /\ ThisBlock.proxy = "none"
  <2>1. UNCHANGED <<script, run, blk, cell, booting, up, handles, outcome>> /\ pc = "block" /\ pc' = "cell"
    BY <1>6 DEF BeginBlock
  <2>2. Live' = Live /\ Mine' = Mine /\ Untracked = {}
    BY <2>1 DEF Live, Mine, Untracked
  <2> QED  BY <1>1, <1>3, <1>4, <2>1, <2>2, OwnFrame
<1>7. CASE BeginBlock /\ ThisBlock.proxy # "none"
  <2>1. /\ UNCHANGED <<script, run, blk, cell, up, outcome>> /\ pc = "block" /\ pc' = "proxy"
        /\ handles' = Append(handles, Proxy) /\ booting' = booting \cup {Proxy}
    BY <1>7 DEF BeginBlock, Spawn
  <2>2. IsList(handles') /\ Elements(handles') = Elements(handles) \cup {Proxy}
    BY <1>1, <2>1, AppendedList
  <2>3. Live' = Live \cup {Proxy} /\ Proxy.run = run /\ Untracked = {}
    <3>1. Live' = Live \cup {Proxy} /\ Untracked = {}
      BY <2>1 DEF Live, Untracked
    <3>2. Proxy.run = run
      BY DEF Proxy
    <3> QED  BY <3>1, <3>2
  <2>4. Mine' \subseteq Mine \cup {Proxy}
    BY <2>1, <2>3 DEF Mine
  <2> QED  BY <1>3, <1>4, <2>1, <2>2, <2>3, <2>4, OwnFrame
<1>8. CASE StartGateway /\ ~StartsOne
  <2>1. UNCHANGED <<script, run, blk, cell, booting, up, handles, outcome>> /\ pc = "cell" /\ pc' = "load"
    BY <1>8 DEF StartGateway
  <2>2. Live' = Live /\ Mine' = Mine /\ Untracked = {}
    BY <2>1 DEF Live, Mine, Untracked
  <2> QED  BY <1>1, <1>3, <1>4, <2>1, <2>2, OwnFrame
<1>9. CASE StartGateway /\ StartsOne
  <2> DEFINE g == Gateway(ThisCell)
  <2>1. /\ UNCHANGED <<script, run, blk, cell, up, outcome>> /\ pc = "cell" /\ pc' = "health"
        /\ handles' = IF The.tracked = "start" THEN Append(handles, g) ELSE handles
        /\ booting' = booting \cup {g}
    BY <1>9 DEF StartGateway, Spawn
  <2>2. The' = The /\ (Gateway(ThisCell))' = g /\ g.run = run
    BY <2>1 DEF The, Gateway, ThisCell, ThisBlock
  <2>3. Live' = Live \cup {g} /\ Untracked = {}
    BY <2>1 DEF Live, Untracked
  <2>4. Mine' \subseteq Mine \cup {g}
    BY <2>1, <2>3 DEF Mine
  <2>5. IsList(handles') /\ Elements(handles) \cup {g} \subseteq Elements(handles') \cup Untracked'
    <3>1. CASE The.tracked = "start"
      BY <1>1, <2>1, <3>1, AppendedList
    <3>2. CASE The.tracked = "ready"
      BY <1>1, <2>1, <2>2, <3>2 DEF Untracked
    <3> QED  BY <1>2, <3>1, <3>2
  <2>6. Mine' \subseteq Elements(handles') \cup Untracked'
    BY <1>4, <2>3, <2>4, <2>5
  <2> HIDE DEF g
  <2> QED  BY <1>3, <2>1, <2>2, <2>3, <2>5, <2>6, OwnFrame
<1>10. CASE GatewayReady
  <2> DEFINE g == Gateway(ThisCell)
  <2>1. /\ UNCHANGED <<script, run, blk, cell, booting, up, outcome>> /\ pc = "health" /\ pc' = "load"
        /\ handles' = IF The.tracked = "ready" THEN Append(handles, g) ELSE handles
    BY <1>10 DEF GatewayReady
  <2>2. Live' = Live /\ Mine' = Mine
    BY <2>1 DEF Live, Mine
  <2>3. IsList(handles') /\ Elements(handles) \cup Untracked \subseteq Elements(handles')
    <3>1. CASE The.tracked = "ready"
      BY <1>1, <2>1, <3>1, AppendedList DEF Untracked
    <3>2. CASE The.tracked # "ready"
      BY <1>1, <2>1, <3>2 DEF Untracked
    <3> QED  BY <3>1, <3>2
  <2> QED  BY <1>3, <1>4, <2>1, <2>2, <2>3, OwnFrame
<1> QED  BY <1>5, <1>6, <1>7, <1>8, <1>9, <1>10

\* The waits of main(), and its way to the clean-up.
LEMMA WaitsOwn ==
    ASSUME OwnInv, EnginesReady \/ EnginesTimeOut \/ ProxyReady \/ ProxyTimesOut \/ EndBlock
    PROVE  OwnInv'
<1>1. script \in DOMAIN Descriptors /\ IsList(handles)
  BY DEF OwnInv, BookInv
<1>2. /\ UNCHANGED <<script, run, booting, up, handles>>
      /\ pc \in {"engines", "proxy", "cell"} /\ pc' \in {"block", "cell", "saving", "closing"}
      /\ pc' \in {"block", "cell"} => outcome' = outcome
      /\ outcome' \in {outcome, "returned", "ok"}
      /\ pc' = "saving" => outcome' \in {outcome} \cup The.early
  BY DEF EnginesReady, EnginesTimeOut, ProxyReady, ProxyTimesOut, EndBlock, Advance, Leave
<1>3. outcome = "none" /\ Reachable /\ ~Closed'
  <2>1. outcome = "none" /\ Reachable /\ The' = The
    BY <1>2 DEF OwnInv, BookInv, Reachable, The
  <2> QED  BY <1>2, <2>1 DEF Closed
<1>4. Mine' = Mine /\ Live' = Live /\ Untracked = {}
  BY <1>2 DEF Mine, Live, Untracked
<1>5. ASSUME The.tracked = "ready" PROVE blk' = blk
  <2>1. Len(The.blocks) = 1 /\ blk = 1
    BY <1>1, <1>5, DescriptorFacts DEF The, OwnInv, BookInv
  <2> QED  BY <2>1 DEF EnginesReady, EnginesTimeOut, ProxyReady, ProxyTimesOut, EndBlock, Advance
<1>6. Mine' \subseteq Elements(handles')
  BY <1>2, <1>3, <1>4 DEF OwnInv
<1> QED  BY <1>1, <1>2, <1>3, <1>4, <1>5, <1>6, OwnFrame

\* The write of summary.json starts and stops nothing.
LEMMA SavesOwn ==
    ASSUME OwnInv, OpenSummary \/ WriteSummary
    PROVE  OwnInv'
<1>1. script \in DOMAIN Descriptors /\ IsList(handles)
  BY DEF OwnInv, BookInv
<1>2. /\ UNCHANGED <<script, run, booting, up, handles>>
      /\ pc \in {"saving", "writing"} /\ pc' \in {"writing", "block", "saving", "closing", "ended"}
  BY DEF OpenSummary, WriteSummary, Advance, Leave
<1>3. Mine' = Mine /\ Live' = Live /\ Untracked = {} /\ Untracked' = {} /\ The' = The
  BY <1>2 DEF Mine, Live, Untracked, The
<1>4. /\ pc' = "block" => outcome' = "none"
      /\ outcome' = outcome \/ (outcome = "none" /\ outcome' = "ok")
      /\ Closed' => Closed
  <2>1. CASE OpenSummary
    BY <1>3, <2>1 DEF OpenSummary, Closed
  <2>2. CASE WriteSummary
    BY <1>3, <2>2 DEF WriteSummary, Advance, Leave, Closed
  <2> QED  BY <2>1, <2>2
<1>5. ASSUME The.tracked = "ready" PROVE blk' = blk
  <2>1. Len(The.blocks) = 1 /\ blk = 1
    BY <1>1, <1>5, DescriptorFacts DEF The, OwnInv, BookInv
  <2> QED  BY <2>1 DEF OpenSummary, WriteSummary, Advance
<1>6. Reachable' => Mine' \subseteq Elements(handles')
  <2>1. Reachable' => Reachable
    BY <1>2, <1>3, <1>4 DEF Reachable
  <2> QED  BY <1>2, <1>3, <2>1 DEF OwnInv
<1>7. outcome' = "cut" /\ The.guarded => \E q : Mine' \subseteq Elements(handles') \cup {q}
  BY <1>2, <1>3, <1>4 DEF OwnInv
<1>8. Closed' => handles' = <<>>
  BY <1>2, <1>4 DEF OwnInv
<1> QED  BY <1>1, <1>2, <1>3, <1>4, <1>5, <1>6, <1>7, <1>8, OwnFrame

\* A gateway that did not start, and one whose load is over.
LEMMA StopsOwn ==
    ASSUME OwnInv, GatewayTimesOut \/ \E result \in ClusterLoad : Load(result)
    PROVE  OwnInv'
<1> DEFINE g == Gateway(ThisCell)
<1>1. script \in DOMAIN Descriptors /\ IsList(handles)
  BY DEF OwnInv, BookInv
<1>2. UNCHANGED <<script, run, blk>> /\ pc \in {"health", "load"}
  BY DEF GatewayTimesOut, Load
<1>3. outcome = "none" /\ Mine \subseteq Elements(handles) \cup Untracked
  BY <1>2 DEF OwnInv, BookInv, Reachable
<1>4. /\ pc' \in {"cell", "saving", "closing"} /\ (pc' = "cell" => outcome' = outcome)
      /\ outcome' # "cut" /\ ~Closed'
  <2>1. /\ pc' \in {"cell", "saving", "closing"} /\ (pc' = "cell" => outcome' = outcome)
        /\ outcome' \in {outcome, "returned", "error"} /\ (pc' = "saving" => outcome' \in The.early)
    BY DEF GatewayTimesOut, Load, Leave
  <2>2. The' = The
    BY <1>2 DEF The
  <2> QED  BY <1>3, <2>1, <2>2 DEF Closed
<1>5. Untracked \subseteq {g} /\ (Untracked # {} => pc = "health" /\ ThisBlock.failed = "raise")
  <2>1. ASSUME The.tracked = "ready" PROVE ThisBlock.failed = "raise"
    BY <1>1, <2>1, DescriptorFacts DEF The, ThisBlock, OwnInv, BookInv
  <2> QED  BY <2>1 DEF Untracked
<1>6. /\ IsList(handles') /\ Live' \subseteq Live
      /\ \A q \in Live' : q \in Elements(handles) \cup Untracked => q \in Elements(handles')
  <2>1. CASE UNCHANGED <<booting, up, handles>> /\ Untracked = {}
    BY <1>1, <2>1 DEF Live
  <2>2. CASE Kill({g}) /\ UNCHANGED handles
    BY <1>1, <1>5, <2>2 DEF Kill, Live
  <2>3. ASSUME NEW how, Teardown(how, g), Untracked = {}
        PROVE  /\ IsList(handles') /\ Live' \subseteq Live
               /\ \A q \in Live' : q \in Elements(handles) \cup Untracked => q \in Elements(handles')
    BY <1>1, <2>3, TeardownKeeps
  <2>4. CASE GatewayTimesOut
    <3>1. CASE ThisBlock.failed = "raise"
      BY <2>2, <2>4, <3>1 DEF GatewayTimesOut
    <3>2. CASE ThisBlock.failed = "return"
      BY <1>5, <2>1, <2>4, <3>2 DEF GatewayTimesOut
    <3>3. CASE ThisBlock.failed \notin {"return", "raise"}
      <4>1. Teardown(ThisBlock.failed, g)
        BY <2>4, <3>3 DEF GatewayTimesOut
      <4> QED  BY <1>5, <2>3, <3>3, <4>1
    <3> QED  BY <3>1, <3>2, <3>3
  <2>5. CASE \E result \in ClusterLoad : Load(result)
    <3>1. Untracked = {}
      BY <1>5, <2>5 DEF Load
    <3>2. PICK result \in ClusterLoad : Load(result)
      BY <2>5
    <3>3. \/ UNCHANGED <<booting, up, handles>>
          \/ Teardown("remove", g)
          \/ Teardown(IF StopsOne THEN ThisBlock.done ELSE "leave", g)
      BY <3>2 DEF Load
    <3> QED  BY <2>1, <2>3, <3>1, <3>3
  <2> QED  BY <2>4, <2>5
<1>7. Mine' \subseteq Elements(handles')
  BY <1>2, <1>3, <1>6 DEF Mine
<1> QED  BY <1>2, <1>3, <1>4, <1>6, <1>7, OwnFrame

\* An interrupt inside a start or a teardown loses one process.
LEMMA CutsOwn ==
    ASSUME OwnInv, InterruptInStart \/ InterruptInTeardown
    PROVE  OwnInv'
<1>1. script \in DOMAIN Descriptors /\ IsList(handles)
  BY DEF OwnInv, BookInv
<1>2. The.engines \in Nat /\ (The.guarded => The.tracked # "ready")
  BY <1>1, DescriptorFacts DEF The
<1>3. /\ UNCHANGED <<script, run, blk, up>> /\ pc \in {"start", "block", "cell", "health", "load"}
      /\ outcome' = "cut" /\ pc' \in {"saving", "closing"} /\ (pc' = "saving" => "cut" \in The.early)
  BY DEF InterruptInStart, InterruptInTeardown, Leave
<1>4. The' = The /\ ~Reachable' /\ ~Closed'
  BY <1>3 DEF The, Reachable, Closed
<1>5. Reachable /\ (The.guarded => Mine \subseteq Elements(handles))
  <2>1. Reachable
    BY <1>3 DEF Reachable, OwnInv, BookInv
  <2> QED  BY <1>2, <2>1 DEF OwnInv, Untracked
<1>6. SUFFICES /\ \A p \in Live' : p \in Live \/ p.run = run
               /\ IsList(handles')
               /\ The.guarded => \E q : Mine' \subseteq Elements(handles') \cup {q}
  BY <1>3, <1>4, OwnFrame
<1>7. ASSUME NEW q, q.run = run, booting' = booting \cup {q}, handles' = handles
      PROVE  /\ \A p \in Live' : p \in Live \/ p.run = run
             /\ IsList(handles')
             /\ The.guarded => \E x : Mine' \subseteq Elements(handles') \cup {x}
  <2>1. Live' = Live \cup {q} /\ Mine' \subseteq Mine \cup {q}
    BY <1>3, <1>7 DEF Live, Mine
  <2> QED  BY <1>1, <1>5, <1>7, <2>1
<1>8. CASE InterruptInTeardown
  <2>1. UNCHANGED <<booting, up>> /\ handles' = SubSeq(handles, 1, Len(handles) - 1)
    BY <1>8 DEF InterruptInTeardown
  <2>2. Live' = Live /\ Mine' = Mine
    BY <1>3, <2>1 DEF Live, Mine
  <2>3. /\ IsList(handles')
        /\ Elements(handles) \subseteq Elements(handles') \cup {handles[Len(handles)]}
    BY <1>1, <2>1, PoppedList
  <2> QED  BY <1>5, <2>2, <2>3
<1>9. CASE InterruptInStart
  <2>1. CASE pc = "start"
    <3>1. PICK i \in 1 .. The.engines :
             /\ Spawn(SubSeq(Engines, 1, i))
             /\ handles' = IF The.guarded THEN SubSeq(Engines, 1, i - 1) ELSE <<>>
      BY <1>9, <2>1 DEF InterruptInStart
    <3> DEFINE es == Engines
               some == SubSeq(es, 1, i)
               kept == SubSeq(es, 1, i - 1)
    <3>2. /\ es \in Seq(Elements(es)) /\ Len(es) = The.engines
          /\ \A j \in 1 .. The.engines : es[j].run = run
      BY <1>2, EnginesAreMine
    <3> HIDE DEF es
    <3>3. /\ i \in Nat /\ i <= Len(es) /\ Len(es) \in Nat /\ 1 <= i
      BY <1>2, <3>2
    <3>4. /\ some \in Seq(Elements(es)) /\ DOMAIN some = 1 .. i
          /\ \A j \in 1 .. i : some[j] = es[j]
      BY <3>2, <3>3, SubSeqProperties
    <3>5. /\ kept \in Seq(Elements(es)) /\ DOMAIN kept = 1 .. i - 1
          /\ \A j \in 1 .. i - 1 : kept[j] = es[j]
      BY <3>2, <3>3, SubSeqProperties
    <3>6. IsList(handles')
      BY <3>1, <3>5, SeqIsList, EmptyIsList DEF es
    <3>7. Live' = Live \cup {es[j] : j \in 1 .. i}
      <4>1. booting' = booting \cup {some[j] : j \in DOMAIN some}
        BY <3>1 DEF Spawn, es
      <4>2. booting' = booting \cup {es[j] : j \in 1 .. i}
        BY <3>4, <4>1
      <4> QED  BY <1>3, <4>2 DEF Live
    <3>8. \A p \in Live' : p \in Live \/ p.run = run
      BY <3>2, <3>3, <3>7
    <3>9. ASSUME The.guarded PROVE Mine' \subseteq Elements(handles') \cup {es[i]}
      <4>1. Mine = {} /\ handles' = kept
        BY <2>1, <3>1, <3>9 DEF OwnInv, es
      <4>2. \A p \in Mine' : \E j \in 1 .. i : p = es[j]
        BY <1>3, <3>7, <4>1 DEF Mine
      <4>3. \A j \in 1 .. i : j \in 1 .. i - 1 \/ j = i
        BY <3>3
      <4>4. \A j \in 1 .. i - 1 : es[j] \in Elements(kept)
        BY <3>5 DEF Elements
      <4> QED  BY <4>1, <4>2, <4>3, <4>4
    <3> QED  BY <3>6, <3>8, <3>9
  <2>2. CASE pc = "block"
    <3>1. booting' = booting \cup {Proxy} /\ handles' = handles
      BY <1>9, <2>2 DEF InterruptInStart, Spawn
    <3>2. Proxy.run = run
      BY DEF Proxy
    <3> QED  BY ONLY <1>7, <3>1, <3>2
  <2>3. CASE pc = "cell"
    <3>1. booting' = booting \cup {Gateway(ThisCell)} /\ handles' = handles
      BY <1>9, <2>3 DEF InterruptInStart, Spawn
    <3>2. Gateway(ThisCell).run = run
      BY DEF Gateway
    <3> QED  BY ONLY <1>7, <3>1, <3>2
  <2> QED  BY <1>9, <2>1, <2>2, <2>3 DEF InterruptInStart
<1> QED  BY <1>8, <1>9

\* Whatever happens, what a run has started stays within reach of its clean-up.
LEMMA OwnStep == OwnInv /\ [SuiteNext]_suiteVars => OwnInv'
<1> SUFFICES ASSUME OwnInv, [SuiteNext]_suiteVars PROVE OwnInv'
  OBVIOUS
<1>1. script \in DOMAIN Descriptors /\ IsList(handles)
  BY DEF OwnInv, BookInv
<1>2. CASE Close
  <2>1. /\ UNCHANGED <<script, run, blk, cell, outcome>> /\ handles' = <<>>
        /\ pc = "closing" /\ pc' \in {"saving", "ended"} /\ Kill(Elements(handles))
    BY <1>2 DEF Close, Elements
  <2>2. Live' = Live \ Elements(handles) /\ Untracked = {} /\ The' = The
    BY <2>1 DEF Kill, Live, Untracked, The
  <2>3. ASSUME Reachable' PROVE Mine' = {}
    <3>1. Reachable
      BY <2>1, <2>2, <2>3 DEF Reachable
    <3>2. Mine \subseteq Elements(handles)
      BY <2>2, <3>1 DEF OwnInv
    <3> QED  BY <2>1, <2>2, <3>2 DEF Mine
  <2>4. IsList(handles')
    BY <2>1, EmptyIsList
  <2>5. ASSUME outcome' = "cut", The.guarded PROVE \E q : Mine' \subseteq Elements(handles') \cup {q}
    <3>1. PICK q : Mine \subseteq Elements(handles) \cup {q}
      BY <2>1, <2>5 DEF OwnInv
    <3>2. Mine' \subseteq {q}
      BY <2>1, <2>2, <3>1 DEF Mine
    <3> QED  BY <3>2
  <2> QED  BY <2>1, <2>2, <2>3, <2>4, <2>5, OwnFrame
<1>3. CASE Interrupt
  <2>1. /\ UNCHANGED <<script, run, blk, cell, booting, up>>
        /\ pc \notin {"start", "closing", "ended", "killed"} /\ pc' \in {"saving", "closing"}
        /\ pc \in {"saving", "writing"} => outcome \in {"none"} \cup The.early
        /\ pc' = "saving" => "interrupted" \in The.early
        /\ outcome' = "interrupted" /\ handles' \in {handles, <<>>}
        /\ The.guarded => handles' = handles
    BY <1>3 DEF Interrupt, Leave, Ended
  <2>2. The' = The /\ Live' = Live /\ Mine' = Mine
    BY <2>1 DEF The, Live, Mine
  <2>3. ASSUME Reachable' PROVE Mine' \subseteq Elements(handles')
    <3>1. The.guarded /\ The.tracked # "ready"
      BY <1>1, <2>1, <2>2, <2>3, DescriptorFacts DEF Reachable, The
    <3>2. outcome \notin {"cut", "interrupted"}
      <4>1. The.early \subseteq {"ok", "returned"}
        BY <1>1, DescriptorFacts DEF The
      <4> QED  BY <2>1, <4>1 DEF OwnInv, BookInv
    <3>3. Reachable /\ Untracked = {}
      BY <2>1, <3>1, <3>2 DEF Reachable, Untracked
    <3> QED  BY <2>1, <2>2, <3>1, <3>3 DEF OwnInv
  <2>4. IsList(handles')
    BY <1>1, <2>1, EmptyIsList
  <2>5. ~Closed'
    BY <2>1, <2>2 DEF Closed
  <2> QED  BY <2>1, <2>2, <2>3, <2>4, <2>5, OwnFrame
<1>4. CASE \E p \in booting : Boots(p)
  <2>1. /\ UNCHANGED <<script, run, pc, blk, cell, handles, outcome>> /\ Live' \subseteq Live
    BY <1>4 DEF Boots, Live
  <2>2. /\ The' = The /\ Mine' \subseteq Mine /\ Untracked' = Untracked /\ Reachable' = Reachable
        /\ Closed' = Closed
    BY <2>1 DEF The, Mine, Untracked, Reachable, Closed, Gateway, ThisCell, ThisBlock
  <2>3. BookInv'
    BY <2>1, <2>2 DEF OwnInv, BookInv
  <2>4. ASSUME NEW S, Mine \subseteq S PROVE Mine' \subseteq S
    BY <2>2, <2>4
  <2> QED  BY <2>1, <2>2, <2>3, <2>4 DEF OwnInv
<1>5. CASE UNCHANGED suiteVars
  <2>1. /\ The' = The /\ Live' = Live /\ Mine' = Mine /\ Untracked' = Untracked /\ Reachable' = Reachable
        /\ Closed' = Closed
    BY <1>5 DEF suiteVars, The, Live, Mine, Untracked, Reachable, Closed, Gateway, ThisCell, ThisBlock
  <2> QED  BY <1>5, <2>1 DEF OwnInv, BookInv, suiteVars
<1>6. CASE HardKill
  <2>1. /\ UNCHANGED <<script, run, blk, booting, up>> /\ pc' = "killed" /\ handles' = <<>>
    BY <1>6 DEF HardKill
  <2>2. The' = The /\ Live' = Live /\ IsList(handles')
    BY <2>1, EmptyIsList DEF The, Live
  <2> QED  BY <2>1, <2>2 DEF OwnInv, BookInv, Reachable, Closed
<1>7. CASE Rerun
  <2>1. /\ UNCHANGED <<script, booting, up, handles>> /\ run' = run + 1 /\ blk' = 1
        /\ pc' = "start" /\ outcome' = "none"
    BY <1>7 DEF Rerun
  <2>2. Live' = Live /\ run \in Nat /\ \A p \in Live : p.run \in Nat /\ p.run <= run
    BY <2>1 DEF Live, OwnInv, BookInv
  <2>3. Mine' = {} /\ run' \in Nat /\ \A p \in Live' : p.run \in Nat /\ p.run <= run'
    BY <2>1, <2>2 DEF Mine
  <2>4. BookInv' /\ ~Closed'
    BY <1>1, <2>1, <2>3 DEF OwnInv, BookInv, Closed
  <2> QED  BY <2>1, <2>3, <2>4 DEF OwnInv
<1> QED  BY <1>2, <1>3, <1>4, <1>5, <1>6, <1>7, StartsOwn, WaitsOwn, SavesOwn, StopsOwn, CutsOwn
         DEF SuiteNext, MainStep

\* A script that has not begun has started nothing.
LEMMA OwnStart == SuiteInit => OwnInv
<1> SUFFICES ASSUME SuiteInit PROVE OwnInv
  OBVIOUS
<1>1. Live = {} /\ Mine = {} /\ handles = <<>> /\ script \in DOMAIN Descriptors
      /\ run = 1 /\ blk = 1 /\ pc = "start" /\ outcome = "none"
  BY DEF SuiteInit, Live, Mine
<1>2. IsList(handles)
  BY <1>1, EmptyIsList
<1> QED  BY <1>1, <1>2 DEF OwnInv, BookInv

\* However main() ends, nothing it started outlives it, except one process when an
\* interrupt falls inside a start or a teardown, and what mock_hetero has started
\* when it is interrupted: for every script, any number of seeds and of runs, and
\* however late the processes bind their ports.
THEOREM ScriptsCleanUp == SuiteSpec => []NothingOutlivesMain
<1>1. SuiteInit => OwnInv
  BY OwnStart
<1>2. OwnInv => NothingOutlivesMain
  <2> SUFFICES ASSUME OwnInv, pc = "ended"
               PROVE  /\ Reachable => \A p \in Live : p.run < run
                      /\ outcome = "cut" /\ The.guarded =>
                            \A p, q \in Live : p.run = run /\ q.run = run => p = q
    BY DEF NothingOutlivesMain, Reachable
  <2>1. Elements(handles) = {} /\ Untracked = {}
    BY EmptyIsList DEF OwnInv, Closed, Untracked
  <2>2. Reachable => Mine = {}
    BY <2>1 DEF OwnInv
  <2>3. Reachable => \A p \in Live : p.run < run
    BY <2>2 DEF Mine, OwnInv, BookInv
  <2>4. outcome = "cut" /\ The.guarded => \E x : Mine \subseteq {x}
    BY <2>1 DEF OwnInv
  <2> QED  BY <2>3, <2>4 DEF Mine
<1> QED  BY <1>1, <1>2, OwnStep, PTL DEF SuiteSpec

-----------------------------------------------------------------------------
(* Engines and proxies stay up while cells are measured.                   *)

\* A block with a gateway of its own for every cell, which is stopped after its load,
\* and one that also stops a gateway that did not start or returns from main().
Sized(b) == Len(b.cells) \in Nat /\ DOMAIN b.cells = 1 .. Len(b.cells)
Owning(b) == Sized(b) /\ ~b.shared /\ b.done \in {"kill", "pop", "remove"}
Plain(b) == Owning(b) /\ b.failed \in {"return", "kill", "pop", "remove"}

\* Every block of run_gpu_cluster_validation.py is plain.
LEMMA ClusterPlain ==
    ASSUME NEW n \in Nat
    PROVE  /\ Plain(ClusterG1) /\ Plain(ClusterG2(n)) /\ Plain(ClusterG3(n))
           /\ Plain(ClusterG4(n)) /\ Plain(ClusterG5) /\ Plain(ClusterG7)
<1>1. Plain(ClusterG1)
  BY DEF Plain, Owning, Sized, ClusterG1, Block, Cells
<1>2. Plain(ClusterG2(n))
  BY DEF Plain, Owning, Sized, ClusterG2, Block, Cells
<1>3. Plain(ClusterG3(n))
  BY DEF Plain, Owning, Sized, ClusterG3, Block, Cells
<1>4. Plain(ClusterG4(n))
  BY DEF Plain, Owning, Sized, ClusterG4, Block, Cells
<1>5. Plain(ClusterG5)
  BY DEF Plain, Owning, Sized, ClusterG5, Block, Cells
<1>6. Plain(ClusterG7)
  BY DEF Plain, Owning, Sized, ClusterG7, Block
<1> QED  BY <1>1, <1>2, <1>3, <1>4, <1>5, <1>6

\* Every block of run_workshop_final_suite.py is plain.
LEMMA WorkshopPlain ==
    ASSUME NEW n \in Nat
    PROVE  /\ Plain(WorkshopSmoke) /\ Plain(WorkshopW2(n)) /\ Plain(WorkshopW3(n))
           /\ Plain(WorkshopW4(n)) /\ Plain(WorkshopW5(n)) /\ Plain(WorkshopW6)
<1>1. Plain(WorkshopSmoke)
  BY DEF Plain, Owning, Sized, WorkshopSmoke, Block, Cells
<1>2. Plain(WorkshopW2(n))
  BY DEF Plain, Owning, Sized, WorkshopW2, Block, Cells
<1>3. Plain(WorkshopW3(n))
  BY DEF Plain, Owning, Sized, WorkshopW3, WorkshopMatrix, Block, Cells
<1>4. Plain(WorkshopW4(n))
  BY DEF Plain, Owning, Sized, WorkshopW4, WorkshopMatrix, Block, Cells
<1>5. Plain(WorkshopW5(n))
  BY DEF Plain, Owning, Sized, WorkshopW5, WorkshopMatrix, Block, Cells
<1>6. Plain(WorkshopW6)
  BY DEF Plain, Owning, Sized, WorkshopW6, Block, Cells
<1> QED  BY <1>1, <1>2, <1>3, <1>4, <1>5, <1>6

\* Every block of run_gpu_abc_suite.py is plain.
LEMMA AbcPlain ==
    ASSUME NEW n \in Nat
    PROVE  /\ Plain(AbcG1(n)) /\ Plain(AbcG2(n)) /\ Plain(AbcG2b(n))
           /\ Plain(AbcG3(n)) /\ Plain(AbcG4(n))
<1>1. Plain(AbcG1(n))
  BY DEF Plain, Owning, Sized, AbcG1, AbcBlock, Block, Cells
<1>2. Plain(AbcG2(n))
  BY DEF Plain, Owning, Sized, AbcG2, AbcBlock, Block, Cells
<1>3. Plain(AbcG2b(n))
  BY DEF Plain, Owning, Sized, AbcG2b, AbcBlock, Block, Cells
<1>4. Plain(AbcG3(n))
  BY DEF Plain, Owning, Sized, AbcG3, AbcBlock, Block, Cells
<1>5. Plain(AbcG4(n))
  BY DEF Plain, Owning, Sized, AbcG4, AbcBlock, Block, Cells
<1> QED  BY <1>1, <1>2, <1>3, <1>4, <1>5

\* Every block of the regime D and post D scripts is plain; that of the real
\* heterogeneous one is not, for it leaves a gateway that did not start alone.
LEMMA OthersPlain ==
    ASSUME NEW n \in Nat
    PROVE  /\ Plain(RegimeD1(n)) /\ Plain(RegimeD2(n)) /\ Plain(RegimeD3(n))
           /\ Plain(PostDiscovery) /\ Plain(PostExtraD1(n))
           /\ Owning(HeteroBlock(n)) /\ HeteroBlock(n).failed = "leave"
<1>1. Plain(RegimeD1(n))
  BY DEF Plain, Owning, Sized, RegimeD1, OneSeed, Block, Cells
<1>2. Plain(RegimeD2(n))
  BY DEF Plain, Owning, Sized, RegimeD2, OneSeed, Block, Cells
<1>3. Plain(RegimeD3(n))
  BY DEF Plain, Owning, Sized, RegimeD3, OneSeed, Block, Cells
<1>4. Owning(HeteroBlock(n)) /\ HeteroBlock(n).failed = "leave"
  BY DEF Owning, Sized, HeteroBlock, Block, Cells
<1>5. Plain(PostDiscovery)
  BY DEF Plain, Owning, Sized, PostDiscovery, Block, Cells
<1>6. Plain(PostExtraD1(n))
  BY DEF Plain, Owning, Sized, PostExtraD1, Block, Cells
<1> QED  BY <1>1, <1>2, <1>3, <1>4, <1>5, <1>6

\* The block of run_real_hetero_multiseed.py, and that of the mock script.
Leaving(b, n) == Owning(b) /\ b.failed = "leave" /\ b = HeteroBlock(n)
Sharing(b, n) == Sized(b) /\ b.done = "remove" /\ b.failed = "raise" /\ b = MockCells(n)

\* The blocks of a script: only mock_hetero shares a gateway among its cells, and
\* it stops it by its own handle; only hetero leaves a gateway running, and it has
\* one block.
LEMMA BlockFacts ==
    ASSUME NEW s \in DOMAIN Descriptors
    PROVE  /\ Len(Descriptors[s].blocks) \in Nat \ {0}
           /\ DOMAIN Descriptors[s].blocks = 1 .. Len(Descriptors[s].blocks)
           /\ \A b \in DOMAIN Descriptors[s].blocks :
                 \/ Descriptors[s].tracked = "start" /\ Plain(Descriptors[s].blocks[b])
                 \/ /\ Descriptors[s].tracked = "start" /\ Leaving(Descriptors[s].blocks[b], s[2])
                    /\ Len(Descriptors[s].blocks) = 1
                 \/ Descriptors[s].tracked = "ready" /\ Sharing(Descriptors[s].blocks[b], s[2])
<1> DEFINE n == s[2]
<1>1. s \in ScriptNames \X SeedCounts /\ n \in Nat
  BY PortsAssumption DEF Descriptors
<1>2. CASE s[1] = "cluster"
  <2>1. Descriptors[s] = ClusterScript(n)
    BY <1>1, <1>2 DEF Descriptors
  <2>2. \A b \in DOMAIN ClusterScript(n).blocks : Plain(ClusterScript(n).blocks[b])
    BY <1>1, ClusterPlain DEF ClusterScript
  <2> QED  BY <2>1, <2>2 DEF ClusterScript
<1>3. CASE s[1] = "workshop"
  <2>1. Descriptors[s] = WorkshopScript(n)
    BY <1>1, <1>3 DEF Descriptors
  <2>2. \A b \in DOMAIN WorkshopScript(n).blocks : Plain(WorkshopScript(n).blocks[b])
    BY <1>1, WorkshopPlain DEF WorkshopScript
  <2> QED  BY <2>1, <2>2 DEF WorkshopScript
<1>4. CASE s[1] = "abc"
  <2>1. Descriptors[s] = AbcScript(n)
    BY <1>1, <1>4 DEF Descriptors
  <2>2. \A b \in DOMAIN AbcScript(n).blocks : Plain(AbcScript(n).blocks[b])
    BY <1>1, AbcPlain DEF AbcScript
  <2> QED  BY <2>1, <2>2 DEF AbcScript
<1>5. CASE s[1] = "regime_d"
  <2>1. Descriptors[s] = RegimeScript(n)
    BY <1>1, <1>5 DEF Descriptors
  <2>2. \A b \in DOMAIN RegimeScript(n).blocks : Plain(RegimeScript(n).blocks[b])
    BY <1>1, OthersPlain DEF RegimeScript
  <2> QED  BY <2>1, <2>2 DEF RegimeScript
<1>6. CASE s[1] = "hetero"
  <2>1. Descriptors[s] = HeteroScript(n)
    BY <1>1, <1>6 DEF Descriptors
  <2>2. \A b \in DOMAIN HeteroScript(n).blocks : Leaving(HeteroScript(n).blocks[b], n)
    BY <1>1, OthersPlain DEF HeteroScript, Leaving
  <2> QED  BY <2>1, <2>2 DEF HeteroScript
<1>7. CASE s[1] = "post_d"
  <2>1. Descriptors[s] = PostScript(n)
    BY <1>1, <1>7 DEF Descriptors
  <2>2. \A b \in DOMAIN PostScript(n).blocks : Plain(PostScript(n).blocks[b])
    BY <1>1, OthersPlain DEF PostScript
  <2> QED  BY <2>1, <2>2 DEF PostScript
<1>8. CASE s[1] = "mock_hetero"
  <2>1. Descriptors[s] = MockScript(n)
    BY <1>1, <1>8 DEF Descriptors
  <2>2. Sharing(MockCells(n), n)
    BY <1>1 DEF Sharing, MockCells, Sized, Block, Cells
  <2> QED  BY <2>1, <2>2 DEF MockScript
<1> QED  BY <1>1, <1>2, <1>3, <1>4, <1>5, <1>6, <1>7, <1>8 DEF ScriptNames

\* main() is within its descriptor.
PlaceInv ==
    /\ blk \in DOMAIN The.blocks /\ cell \in Nat \ {0}
    /\ pc \in {"health", "load"} => cell \in DOMAIN ThisBlock.cells

\* A port no gateway of the script has, and a port somebody else than a gateway
\* listens on.
Apart(port) == port # ProxyPort /\ \A i \in 1 .. The.engines : port # EngineBase + i - 1
Held(port) == \E p \in up : p.port = port /\ p.kind # "gateway"

\* main() saves a block, is among its blocks, or has left its body.
Saving == pc \in {"saving", "writing"} /\ outcome = "none"
InBlocks == pc \in {"block", "proxy", "cell", "health", "load"} \/ Saving
Through == pc \in {"closing", "ended", "killed"} \/ (pc \in {"saving", "writing"} /\ outcome # "none")

\* Gateways keep to their ports, the last handle is the gateway a teardown would
\* pop, and the engines and the proxy that answered once have not been stopped.
HeldInv ==
    /\ \A p \in Live : p.kind = "gateway" => Apart(p.port)
    /\ pc \in {"health", "load"} /\ The.tracked = "start" =>
          Len(handles) > 0 /\ handles[Len(handles)].kind = "gateway"
    /\ InBlocks => \A i \in 1 .. The.engines : Held(EngineBase + i - 1)
    /\ pc \in {"cell", "health", "load"} /\ ThisBlock.proxy \in {"skip", "return"}
       /\ cell <= Len(ThisBlock.cells) => Held(ProxyPort)

\* The block main() is in.
LEMMA HereFacts ==
    ASSUME OwnInv, PlaceInv
    PROVE  /\ script \in DOMAIN Descriptors
           /\ Len(The.blocks) \in Nat \ {0} /\ DOMAIN The.blocks = 1 .. Len(The.blocks)
           /\ Len(ThisBlock.cells) \in Nat /\ DOMAIN ThisBlock.cells = 1 .. Len(ThisBlock.cells)
           /\ \/ The.tracked = "start" /\ Plain(ThisBlock)
              \/ The.tracked = "start" /\ Leaving(ThisBlock, script[2]) /\ Len(The.blocks) = 1
              \/ The.tracked = "ready" /\ Sharing(ThisBlock, script[2])
           /\ \/ The.tracked = "start" /\ ~ThisBlock.shared
              \/ The.tracked = "ready" /\ ThisBlock.done = "remove" /\ ThisBlock.failed = "raise"
<1>1. script \in DOMAIN Descriptors /\ blk \in DOMAIN The.blocks
  BY DEF OwnInv, BookInv, PlaceInv
<1>2. /\ Len(The.blocks) \in Nat \ {0} /\ DOMAIN The.blocks = 1 .. Len(The.blocks)
      /\ \A b \in DOMAIN The.blocks :
            \/ The.tracked = "start" /\ Plain(The.blocks[b])
            \/ The.tracked = "start" /\ Leaving(The.blocks[b], script[2]) /\ Len(The.blocks) = 1
            \/ The.tracked = "ready" /\ Sharing(The.blocks[b], script[2])
  BY <1>1, BlockFacts DEF The
<1>3. \/ The.tracked = "start" /\ Plain(ThisBlock)
      \/ The.tracked = "start" /\ Leaving(ThisBlock, script[2]) /\ Len(The.blocks) = 1
      \/ The.tracked = "ready" /\ Sharing(ThisBlock, script[2])
  BY <1>1, <1>2 DEF ThisBlock
<1> QED  BY <1>1, <1>2, <1>3 DEF Plain, Owning, Leaving, Sharing, Sized

\* No step takes main() out of its descriptor.
LEMMA PlaceStep == OwnInv /\ PlaceInv /\ [SuiteNext]_suiteVars => PlaceInv'
<1> SUFFICES ASSUME OwnInv, PlaceInv, [SuiteNext]_suiteVars PROVE PlaceInv'
  OBVIOUS
<1>1. /\ Len(The.blocks) \in Nat \ {0} /\ DOMAIN The.blocks = 1 .. Len(The.blocks)
      /\ Len(ThisBlock.cells) \in Nat /\ DOMAIN ThisBlock.cells = 1 .. Len(ThisBlock.cells)
      /\ blk \in 1 .. Len(The.blocks) /\ cell \in Nat \ {0}
  BY HereFacts DEF PlaceInv
<1>2. script' = script /\ The' = The
  BY DEF SuiteNext, MainStep, suiteVars, The, StartEngines, EnginesReady, EnginesTimeOut, BeginBlock,
         ProxyReady, ProxyTimesOut, StartGateway, GatewayReady, GatewayTimesOut, Load, EndBlock,
         OpenSummary, WriteSummary, Close, Interrupt, InterruptInStart, InterruptInTeardown, Boots,
         HardKill, Rerun
<1>3. ASSUME UNCHANGED <<blk, cell>>, pc' \notin {"health", "load"} \/ pc' = pc PROVE PlaceInv'
  BY <1>2, <1>3 DEF PlaceInv, ThisBlock
<1>4. CASE StartGateway
  <2>1. UNCHANGED <<blk, cell>> /\ cell <= Len(ThisBlock.cells)
    BY <1>4 DEF StartGateway
  <2>2. ThisBlock' = ThisBlock /\ cell \in DOMAIN ThisBlock.cells
    BY <1>1, <1>2, <2>1 DEF ThisBlock
  <2> QED  BY <1>1, <1>2, <2>1, <2>2 DEF PlaceInv
<1>5. CASE GatewayReady
  <2>1. UNCHANGED <<blk, cell>> /\ pc = "health"
    BY <1>5 DEF GatewayReady
  <2> QED  BY <1>2, <2>1 DEF PlaceInv, ThisBlock
<1>6. CASE ProxyTimesOut \/ GatewayTimesOut \/ \E result \in ClusterLoad : Load(result)
  <2>1. /\ blk' = blk /\ pc' \notin {"health", "load"}
        /\ cell' \in {cell, cell + 1, Len(ThisBlock.cells) + 1}
    BY <1>6 DEF ProxyTimesOut, GatewayTimesOut, Load, Leave, CellAfterFailure
  <2> QED  BY <1>1, <1>2, <2>1 DEF PlaceInv
<1>7. CASE EndBlock \/ WriteSummary
  <2>1. /\ pc' \notin {"health", "load"} /\ cell' \in {1, cell}
        /\ blk' = blk \/ (blk < Len(The.blocks) /\ blk' = blk + 1)
    BY <1>7 DEF EndBlock, WriteSummary, Advance, Leave
  <2> QED  BY <1>1, <1>2, <2>1 DEF PlaceInv
<1>8. CASE Rerun
  <2>1. pc' = "start" /\ cell' = 1 /\ blk' = 1
    BY <1>8 DEF Rerun
  <2> QED  BY <1>1, <1>2, <2>1 DEF PlaceInv
<1>9. CASE StartEngines \/ EnginesReady \/ EnginesTimeOut \/ BeginBlock \/ ProxyReady \/ Close
           \/ Interrupt \/ InterruptInStart \/ InterruptInTeardown \/ HardKill \/ OpenSummary
  <2>1. UNCHANGED <<blk, cell>> /\ pc' \notin {"health", "load"}
    BY <1>9 DEF StartEngines, EnginesReady, EnginesTimeOut, BeginBlock, ProxyReady, Close, Interrupt,
                InterruptInStart, InterruptInTeardown, HardKill, OpenSummary, Leave
  <2> QED  BY <1>3, <2>1
<1>10. CASE (\E p \in booting : Boots(p)) \/ UNCHANGED suiteVars
  BY <1>3, <1>10 DEF Boots, suiteVars
<1> QED  BY <1>4, <1>5, <1>6, <1>7, <1>8, <1>9, <1>10 DEF SuiteNext, MainStep

\* The cells of a script.
CellsOf(d) == UNION {{d.blocks[b].cells[k] : k \in DOMAIN d.blocks[b].cells} : b \in DOMAIN d.blocks}

\* The current cell is one of the script's.
LEMMA HereCell ==
    ASSUME OwnInv, PlaceInv, cell \in DOMAIN ThisBlock.cells
    PROVE  ThisCell \in CellsOf(The) /\ Apart(ThisCell.port)
<1>1. script \in DOMAIN Descriptors /\ blk \in DOMAIN The.blocks
  BY DEF OwnInv, BookInv, PlaceInv
<1>2. ThisCell \in CellsOf(The)
  BY <1>1 DEF ThisCell, ThisBlock, CellsOf
<1>3. Apart(ThisCell.port)
  BY <1>1, PortsAssumption DEF Apart, The, ThisBlock, ThisCell
<1> QED  BY <1>2, <1>3

\* What an interrupt inside a start may have started.
LEMMA CutStarts ==
    ASSUME OwnInv, PlaceInv, InterruptInStart, NEW p \in Live'
    PROVE  \/ p \in Live \/ p = Proxy
           \/ \E i \in 1 .. The.engines : p = Engine(i - 1)
           \/ p = Gateway(ThisCell) /\ cell \in DOMAIN ThisBlock.cells
<1>1. script \in DOMAIN Descriptors /\ up' = up
  BY DEF InterruptInStart, OwnInv, BookInv
<1>2. CASE pc = "start"
  <2>1. PICK i \in 1 .. The.engines : Spawn(SubSeq(Engines, 1, i))
    BY <1>2 DEF InterruptInStart
  <2> DEFINE es == Engines
  <2>2. The.engines \in Nat
    BY <1>1, DescriptorFacts DEF The
  <2>3. es \in Seq(Elements(es)) /\ Len(es) = The.engines
    BY <2>2, EnginesAreMine
  <2> HIDE DEF es
  <2>4. i \in Nat /\ i <= Len(es) /\ 1 <= i /\ Len(es) \in Nat
    BY <2>2, <2>3
  <2>5. DOMAIN SubSeq(es, 1, i) = 1 .. i /\ \A j \in 1 .. i : SubSeq(es, 1, i)[j] = es[j]
    BY <2>3, <2>4, SubSeqProperties
  <2>6. p \in Live \/ \E j \in 1 .. i : p = es[j]
    BY <1>1, <2>1, <2>5 DEF Spawn, Live, es
  <2>7. \A j \in 1 .. i : j \in 1 .. The.engines
    BY <2>2
  <2>8. \A j \in 1 .. The.engines : es[j] = Engine(j - 1)
    BY DEF es, Engines
  <2> QED  BY <2>6, <2>7, <2>8
<1>3. CASE pc = "block"
  BY <1>1, <1>3 DEF InterruptInStart, Spawn, Live
<1>4. CASE pc = "cell"
  <2>1. booting' = booting \cup {Gateway(ThisCell)} /\ cell <= Len(ThisBlock.cells)
    BY <1>4 DEF InterruptInStart, Spawn
  <2>2. cell \in DOMAIN ThisBlock.cells
    BY <2>1, HereFacts DEF PlaceInv
  <2> QED  BY <1>1, <2>1, <2>2 DEF Live
<1> QED  BY <1>2, <1>3, <1>4 DEF InterruptInStart

\* Somebody who answers on the port of an engine or of the proxy is no gateway.
LEMMA AnswersHeld ==
    ASSUME HeldInv, NEW port, Answers(port), ~Apart(port)
    PROVE  Held(port)
BY DEF HeldInv, Answers, Held, Live

\* A teardown hits a gateway and nothing else.
LEMMA TeardownHitsGateway ==
    ASSUME OwnInv, PlaceInv, HeldInv, pc \in {"health", "load"},
           NEW how, how = "pop" => The.tracked = "start", Teardown(how, Gateway(ThisCell))
    PROVE  Live' \subseteq Live /\ \A p \in up : p.kind # "gateway" => p \in up'
<1> DEFINE g == Gateway(ThisCell)
<1>1. g.kind = "gateway"
  BY DEF Gateway
<1> HIDE DEF g
<1>2. CASE how = "pop"
  <2>1. handles[Len(handles)].kind = "gateway"
    BY <1>2 DEF HeldInv
  <2>2. Kill({handles[Len(handles)]})
    BY <1>2 DEF Teardown
  <2> QED  BY <2>1, <2>2 DEF Kill, Live
<1>3. CASE how \in {"kill", "remove"}
  <2>1. Kill({g})
    BY <1>3 DEF Teardown, g
  <2> QED  BY <1>1, <2>1 DEF Kill, Live
<1>4. CASE how \notin {"kill", "pop", "remove"}
  BY <1>4 DEF Teardown, Live
<1> QED  BY <1>2, <1>3, <1>4

\* The conditions under which a step preserves HeldInv: its gateways keep to their
\* ports, main() is among cells only if it was, and then no engine or proxy stops.
LEMMA HeldFrame ==
    ASSUME HeldInv, UNCHANGED script,
           \A p \in Live' : p \in Live \/ p.kind # "gateway" \/ Apart(p.port),
           pc' \in {"health", "load"} /\ The.tracked = "start" =>
              Len(handles') > 0 /\ handles'[Len(handles')].kind = "gateway",
           InBlocks' =>
              /\ InBlocks
              /\ \A p \in up : p.kind # "gateway" => p \in up',
           pc' \in {"cell", "health", "load"} =>
              /\ blk' = blk
              /\ \/ pc \in {"cell", "health", "load"} /\ cell' = cell
                 \/ pc \in {"health", "load"} /\ cell <= Len(ThisBlock.cells)
                 \/ ThisBlock.proxy \notin {"skip", "return"}
                 \/ ~(cell' <= Len(ThisBlock.cells))
    PROVE  HeldInv'
<1>1. The' = The
  BY DEF The
<1>2. ASSUME NEW port, Held(port), \A p \in up : p.kind # "gateway" => p \in up' PROVE Held(port)'
  BY <1>2 DEF Held
<1>3. ASSUME NEW port, Apart(port) PROVE Apart(port)'
  BY <1>1, <1>3 DEF Apart
<1>4. \A p \in Live' : p.kind = "gateway" => Apart(p.port)'
  BY <1>3 DEF HeldInv
<1>5. ASSUME InBlocks', NEW i \in 1 .. The.engines
      PROVE  Held(EngineBase + i - 1)'
  <2>1. Held(EngineBase + i - 1)
    BY <1>5 DEF HeldInv
  <2> QED  BY <1>2, <1>5, <2>1
<1>6. ASSUME pc' \in {"cell", "health", "load"}, ThisBlock'.proxy \in {"skip", "return"},
             cell' <= Len(ThisBlock'.cells)
      PROVE  Held(ProxyPort)'
  <2>1. ThisBlock' = ThisBlock
    BY <1>1, <1>6 DEF ThisBlock
  <2>2. Held(ProxyPort)
    BY <1>6, <2>1 DEF HeldInv
  <2> QED  BY <1>2, <1>6, <2>2 DEF InBlocks
<1> QED  BY <1>1, <1>4, <1>5, <1>6 DEF HeldInv

\* The steps that start something or find it answering.
LEMMA StartsHeld ==
    ASSUME OwnInv, PlaceInv, HeldInv,
           StartEngines \/ EnginesReady \/ BeginBlock \/ ProxyReady \/ StartGateway \/ GatewayReady
    PROVE  HeldInv'
<1>1. /\ script \in DOMAIN Descriptors /\ blk \in DOMAIN The.blocks /\ IsList(handles)
      /\ Len(ThisBlock.cells) \in Nat /\ DOMAIN ThisBlock.cells = 1 .. Len(ThisBlock.cells)
      /\ ThisBlock.shared => The.tracked # "start"
  BY HereFacts DEF OwnInv, BookInv, PlaceInv
<1>2. UNCHANGED <<script, blk, cell, up>> /\ The' = The /\ ThisBlock' = ThisBlock
  BY DEF StartEngines, EnginesReady, BeginBlock, ProxyReady, StartGateway, GatewayReady, The, ThisBlock
<1>3. CASE StartEngines
  <2>1. pc' = "engines" /\ booting' = booting \cup {Engines[i] : i \in DOMAIN Engines}
    BY <1>3 DEF StartEngines, Spawn
  <2>2. \A i \in DOMAIN Engines : Engines[i].kind = "engine"
    BY DEF Engines, Engine
  <2>3. \A p \in Live' : p \in Live \/ p.kind # "gateway"
    BY <1>2, <2>1, <2>2 DEF Live
  <2> QED  BY <1>2, <2>1, <2>3, HeldFrame DEF InBlocks, Saving
<1>4. CASE EnginesReady
  <2>1. /\ booting' = booting /\ pc' = "block"
        /\ \A i \in 1 .. The.engines : Answers(EngineBase + i - 1)
    BY <1>4 DEF EnginesReady
  <2>2. ASSUME NEW i \in 1 .. The.engines PROVE Held(EngineBase + i - 1)'
    <3>1. ~Apart(EngineBase + i - 1)
      BY DEF Apart
    <3>2. Held(EngineBase + i - 1)
      BY <2>1, <3>1, AnswersHeld
    <3> QED  BY <1>2, <3>2 DEF Held
  <2>3. \A p \in Live' : p.kind = "gateway" => Apart(p.port)'
    BY <1>2, <2>1 DEF HeldInv, Live, Apart
  <2> QED  BY <1>2, <2>1, <2>2, <2>3 DEF HeldInv
<1>5. CASE BeginBlock
  <2>1. /\ pc = "block" /\ pc' \in {"cell", "proxy"} /\ (pc' = "cell" => ThisBlock.proxy = "none")
        /\ booting' = booting \/ booting' = booting \cup {Proxy}
    BY <1>5 DEF BeginBlock, Spawn
  <2>2. \A p \in Live' : p \in Live \/ p.kind # "gateway"
    <3>1. Proxy.kind = "proxy"
      BY DEF Proxy
    <3>2. \A p \in Live' : p \in Live \/ p = Proxy
      BY <1>2, <2>1 DEF Live
    <3> QED  BY <3>1, <3>2
  <2> QED  BY <1>2, <2>1, <2>2, HeldFrame DEF InBlocks, Saving
<1>6. CASE ProxyReady
  <2>1. booting' = booting /\ pc = "proxy" /\ pc' = "cell" /\ Answers(ProxyPort)
    BY <1>6 DEF ProxyReady, ProxyAnswers
  <2>2. Held(ProxyPort)'
    <3>1. ~Apart(ProxyPort)
      BY DEF Apart
    <3>2. Held(ProxyPort)
      BY <2>1, <3>1, AnswersHeld
    <3> QED  BY <1>2, <3>2 DEF Held
  <2>3. \A p \in Live' : p.kind = "gateway" => Apart(p.port)'
    BY <1>2, <2>1 DEF HeldInv, Live, Apart
  <2>4. \A i \in 1 .. The.engines : Held(EngineBase + i - 1)'
    BY <1>2, <2>1 DEF HeldInv, Held, InBlocks
  <2> QED  BY <1>2, <2>1, <2>2, <2>3, <2>4 DEF HeldInv
<1>7. CASE StartGateway /\ StartsOne
  <2> DEFINE g == Gateway(ThisCell)
  <2>1. /\ pc = "cell" /\ pc' = "health" /\ booting' = booting \cup {g}
        /\ The.tracked = "start" => handles' = Append(handles, g)
        /\ cell <= Len(ThisBlock.cells)
    BY <1>7 DEF StartGateway, Spawn
  <2>2. g.kind = "gateway" /\ g.port = ThisCell.port
    BY DEF Gateway
  <2> HIDE DEF g
  <2>3. cell \in DOMAIN ThisBlock.cells
    BY <1>1, <2>1 DEF PlaceInv
  <2>4. Apart(g.port)
    BY <1>1, <2>2, <2>3, PortsAssumption DEF Apart, The, ThisBlock, ThisCell
  <2>5. \A p \in Live' : p \in Live \/ Apart(p.port)
    BY <1>2, <2>1, <2>4 DEF Live
  <2>6. The.tracked = "start" => Len(handles') > 0 /\ handles'[Len(handles')].kind = "gateway"
    BY <1>1, <2>1, <2>2 DEF IsList
  <2> QED  BY <1>2, <2>1, <2>5, <2>6, HeldFrame DEF InBlocks, Saving
<1>8. CASE StartGateway /\ ~StartsOne
  <2>1. pc = "cell" /\ pc' = "load" /\ booting' = booting /\ The.tracked # "start"
    BY <1>1, <1>8 DEF StartGateway, StartsOne
  <2>2. Live' = Live
    BY <1>2, <2>1 DEF Live
  <2> QED  BY <1>2, <2>1, <2>2, HeldFrame DEF InBlocks, Saving
<1>9. CASE GatewayReady
  <2>1. /\ pc = "health" /\ pc' = "load" /\ booting' = booting
        /\ The.tracked = "start" => handles' = handles
    BY <1>9 DEF GatewayReady
  <2>2. Live' = Live
    BY <1>2, <2>1 DEF Live
  <2>3. The.tracked = "start" => Len(handles') > 0 /\ handles'[Len(handles')].kind = "gateway"
    BY <2>1 DEF HeldInv
  <2> QED  BY <1>2, <2>1, <2>2, <2>3, HeldFrame DEF InBlocks, Saving
<1> QED  BY <1>3, <1>4, <1>5, <1>6, <1>7, <1>8, <1>9

\* The steps that give a gateway up, or are through with it.
LEMMA StopsHeld ==
    ASSUME OwnInv, PlaceInv, HeldInv, GatewayTimesOut \/ \E result \in ClusterLoad : Load(result)
    PROVE  HeldInv'
<1> DEFINE g == Gateway(ThisCell)
           Spared == Live' \subseteq Live /\ \A p \in up : p.kind # "gateway" => p \in up'
<1>1. /\ Len(ThisBlock.cells) \in Nat /\ DOMAIN ThisBlock.cells = 1 .. Len(ThisBlock.cells)
      /\ The.tracked # "start" => ThisBlock.done = "remove" /\ ThisBlock.failed = "raise"
  BY HereFacts
<1>2. /\ UNCHANGED <<script, blk>> /\ pc \in {"health", "load"} /\ pc' \in {"cell", "saving", "closing"}
      /\ pc' = "saving" => outcome' # "none"
  BY DEF GatewayTimesOut, Load, Leave
<1>3. cell <= Len(ThisBlock.cells)
  BY <1>1, <1>2 DEF PlaceInv
<1>4. CASE UNCHANGED <<booting, up>>
  BY <1>2, <1>3, <1>4, HeldFrame DEF Live, InBlocks, Saving
<1>5. ASSUME NEW how, how = "pop" => The.tracked = "start", Teardown(how, g) PROVE Spared
  BY <1>2, <1>5, TeardownHitsGateway
<1>6. CASE GatewayTimesOut
  <2>1. CASE ThisBlock.failed = "raise"
    <3>1. Kill({g}) /\ g.kind = "gateway"
      BY <1>6, <2>1 DEF GatewayTimesOut, Gateway
    <3>2. Spared
      BY <3>1 DEF Kill, Live
    <3> QED  BY <1>2, <1>3, <3>2, HeldFrame DEF InBlocks, Saving
  <2>2. CASE ThisBlock.failed = "return"
    BY <1>4, <1>6, <2>2 DEF GatewayTimesOut
  <2>3. CASE ThisBlock.failed \notin {"return", "raise"}
    <3>1. Teardown(ThisBlock.failed, g) /\ The.tracked = "start"
      BY <1>1, <1>6, <2>3 DEF GatewayTimesOut
    <3>2. Spared
      BY <1>5, <3>1
    <3> QED  BY <1>2, <1>3, <3>2, HeldFrame DEF InBlocks, Saving
  <2> QED  BY <2>1, <2>2, <2>3
<1>7. CASE \E result \in ClusterLoad : Load(result)
  <2>1. \/ UNCHANGED <<booting, up>>
        \/ Teardown("remove", g)
        \/ Teardown(IF StopsOne THEN ThisBlock.done ELSE "leave", g)
    BY <1>7 DEF Load
  <2>2. CASE Teardown("remove", g)
    <3>1. Spared
      BY <1>5, <2>2
    <3> QED  BY <1>2, <1>3, <3>1, HeldFrame DEF InBlocks, Saving
  <2>3. CASE Teardown(IF StopsOne THEN ThisBlock.done ELSE "leave", g)
    <3> DEFINE how == IF StopsOne THEN ThisBlock.done ELSE "leave"
    <3>1. how = "pop" => The.tracked = "start"
      BY <1>1
    <3>2. Teardown(how, g)
      BY <2>3
    <3> HIDE DEF how
    <3>3. Spared
      BY <1>5, <3>1, <3>2
    <3> QED  BY <1>2, <1>3, <3>3, HeldFrame DEF InBlocks, Saving
  <2> QED  BY <1>4, <2>1, <2>2, <2>3
<1> QED  BY <1>6, <1>7

\* No step stops an engine or a proxy while cells are measured.
LEMMA HeldStep == OwnInv /\ PlaceInv /\ HeldInv /\ [SuiteNext]_suiteVars => HeldInv'
<1> SUFFICES ASSUME OwnInv, PlaceInv, HeldInv, [SuiteNext]_suiteVars PROVE HeldInv'
  OBVIOUS
<1>1. Len(ThisBlock.cells) \in Nat
  BY HereFacts
<1>2. CASE EnginesTimeOut \/ EndBlock \/ OpenSummary \/ WriteSummary \/ Interrupt \/ InterruptInTeardown
           \/ HardKill \/ Rerun
  <2>1. /\ UNCHANGED <<script, booting, up>>
        /\ pc' \in {"saving", "writing", "closing", "block", "ended", "killed", "start"}
        /\ InBlocks' => InBlocks
    <3>1. CASE EnginesTimeOut \/ Interrupt \/ InterruptInTeardown \/ HardKill \/ Rerun
      BY <3>1 DEF EnginesTimeOut, Interrupt, InterruptInTeardown, HardKill, Rerun, Leave, InBlocks, Saving
    <3>2. CASE EndBlock \/ OpenSummary
      BY <3>2 DEF EndBlock, OpenSummary, Advance, Leave, InBlocks, Saving
    <3>3. CASE WriteSummary
      BY <3>3 DEF WriteSummary, Advance, Leave, InBlocks, Saving
    <3> QED  BY <1>2, <3>1, <3>2, <3>3
  <2>2. Live' = Live
    BY <2>1 DEF Live
  <2> QED  BY <2>1, <2>2, HeldFrame
<1>3. CASE ProxyTimesOut
  <2>1. /\ UNCHANGED <<script, blk, booting, up>> /\ pc = "proxy" /\ pc' \in {"cell", "saving", "closing"}
        /\ pc' = "cell" => ThisBlock.proxy = "warn" \/ cell' = Len(ThisBlock.cells) + 1
    BY <1>3 DEF ProxyTimesOut, Leave
  <2>2. Live' = Live /\ (cell' = Len(ThisBlock.cells) + 1 => ~(cell' <= Len(ThisBlock.cells)))
    BY <1>1, <2>1 DEF Live
  <2> QED  BY <2>1, <2>2, HeldFrame DEF InBlocks, Saving
<1>4. CASE Close
  <2>1. script' = script /\ pc' \in {"saving", "ended"} /\ Live' \subseteq Live /\ ~InBlocks'
    BY <1>4 DEF Close, Kill, Live, InBlocks, Saving, WritesLate
  <2> QED  BY <2>1, HeldFrame
<1>6. CASE InterruptInStart
  <2>1. script' = script /\ pc' \in {"saving", "closing"} /\ ~InBlocks'
    BY <1>6 DEF InterruptInStart, Leave, InBlocks, Saving
  <2>2. \A p \in Live' : p \in Live \/ p.kind # "gateway" \/ Apart(p.port)
    <3>1. Proxy.kind = "proxy" /\ \A i : Engine(i).kind = "engine"
      BY DEF Proxy, Engine
    <3>2. cell \in DOMAIN ThisBlock.cells => Apart(ThisCell.port)
      BY HereCell
    <3>3. Gateway(ThisCell).port = ThisCell.port
      BY DEF Gateway
    <3> QED  BY <1>6, <3>1, <3>2, <3>3, CutStarts
  <2> QED  BY <2>1, <2>2, HeldFrame
<1>5. CASE (\E p \in booting : Boots(p)) \/ UNCHANGED suiteVars
  <2>1. /\ UNCHANGED <<script, pc, blk, cell, handles, outcome>> /\ Live' \subseteq Live /\ up \subseteq up'
    BY <1>5 DEF Boots, Live, suiteVars
  <2>2. pc' \in {"health", "load"} /\ The.tracked = "start" =>
            Len(handles') > 0 /\ handles'[Len(handles')].kind = "gateway"
    BY <2>1 DEF HeldInv
  <2> QED  BY <2>1, <2>2, HeldFrame DEF InBlocks, Saving
<1> QED  BY <1>2, <1>3, <1>4, <1>5, <1>6, StartsHeld, StopsHeld DEF SuiteNext, MainStep

\* While a script measures cells, its engines answer, and so does a proxy its block
\* waited for: a teardown that pops the last handle always pops a gateway, for
\* every script, number of seeds and ports that do not overlap.
THEOREM EnginesStayUp == SuiteSpec => []EnginesOutliveCells
<1>1. SuiteInit => OwnInv
  BY OwnStart
<1>2. SuiteInit => PlaceInv /\ HeldInv
  <2> SUFFICES ASSUME SuiteInit PROVE PlaceInv /\ HeldInv
    OBVIOUS
  <2>1. script \in DOMAIN Descriptors /\ blk = 1 /\ cell = 1 /\ pc = "start" /\ Live = {}
    BY DEF SuiteInit, Live
  <2>2. 1 \in DOMAIN The.blocks
    BY <2>1, BlockFacts DEF The
  <2> QED  BY <2>1, <2>2 DEF PlaceInv, HeldInv, InBlocks, Saving
<1>3. HeldInv => EnginesOutliveCells
  <2>1. ASSUME NEW port, Held(port) PROVE Answers(port)
    BY <2>1 DEF Held, Answers
  <2> QED  BY <2>1 DEF HeldInv, EnginesOutliveCells, InBlocks
<1> QED  BY <1>1, <1>2, <1>3, OwnStep, PlaceStep, HeldStep, PTL DEF SuiteSpec

-----------------------------------------------------------------------------
(* The ports of a script tell its configurations apart.                    *)

\* The configuration and the seed of the k-th cell of a block.
LEMMA CellPlace ==
    ASSUME NEW n \in Nat, NEW m \in Nat, NEW k \in 1 .. m * n
    PROVE  /\ (k - 1) \div n \in 0 .. m - 1
           /\ (k - 1) % n \in 0 .. n - 1
           /\ k - 1 = (n * ((k - 1) \div n)) + ((k - 1) % n)
<1>1. n > 0
  BY m * 0 = 0
<1> DEFINE c == (k - 1) \div n
           s == (k - 1) % n
<1>2. k - 1 \in Nat /\ k - 1 < m * n /\ m * n \in Nat
  BY <1>1
<1>3. c \in Int /\ s \in Int /\ k - 1 = n * c + s /\ 0 <= s /\ s < n
  BY <1>1, <1>2
<1> HIDE DEF c, s
<1>4. c >= 0
  <2>1. ASSUME c <= -1 PROVE FALSE
    <3>1. n * c <= n * (-1)
      BY <1>1, <1>3, <2>1
    <3> QED  BY <1>1, <1>2, <1>3, <3>1
  <2> QED  BY <1>3, <2>1
<1>5. c <= m - 1
  <2>1. ASSUME c >= m PROVE FALSE
    <3>1. c - m \in Nat /\ c = m + (c - m)
      BY <1>3, <2>1
    <3>2. ASSUME NEW d \in Nat PROVE n * (m + d) = n * m + n * d /\ n * d \in Nat /\ n * m \in Nat
      OBVIOUS
    <3>3. n * m = m * n
      OBVIOUS
    <3>4. n * c >= n * m /\ n * c \in Nat
      BY <3>1, <3>2
    <3> QED  BY <1>1, <1>2, <1>3, <3>3, <3>4
  <2> QED  BY <1>3, <2>1
<1>6. c \in 0 .. m - 1 /\ s \in 0 .. n - 1 /\ k - 1 = n * c + s
  BY <1>3, <1>4, <1>5
<1> QED  BY <1>6 DEF c, s

\* A cell of a configuration whose ports are a range of their own.
OnSlot(x, config, first, width) ==
    x.config = config /\ x.port \in first .. first + width - 1

\* Two configurations, their ports step apart.
Paired(cells, n, one, two, base, step, second) ==
    /\ second = base + step
    /\ cells = [k \in 1 .. 2 * n |->
                   [config |-> <<one, two>>[((k - 1) \div n) + 1], turn |-> (k - 1) \div n,
                    seed |-> (k - 1) % n,
                    port |-> base + ((k - 1) \div n) * step + ((k - 1) % n)]]

\* Each of the two keeps to its range.
LEMMA PairedSlots ==
    ASSUME NEW n \in Nat, NEW m \in Nat, n <= m, NEW cells, NEW one, NEW two,
           NEW base \in Nat, NEW step \in Nat, NEW second,
           Paired(cells, n, one, two, base, step, second), NEW k \in DOMAIN cells
    PROVE  OnSlot(cells[k], one, base, m) \/ OnSlot(cells[k], two, second, m)
<1> DEFINE c == (k - 1) \div n
           s == (k - 1) % n
<1>1. /\ k \in 1 .. 2 * n
      /\ cells[k].config = <<one, two>>[c + 1] /\ cells[k].port = base + c * step + s
  BY DEF Paired
<1>2. c \in {0, 1} /\ s \in 0 .. n - 1
  <2>1. 2 \in Nat /\ k \in 1 .. 2 * n
    BY <1>1
  <2>2. c \in 0 .. 2 - 1 /\ s \in 0 .. n - 1
    BY ONLY n \in Nat, <2>1, CellPlace DEF c, s
  <2> QED  BY <2>2
<1> HIDE DEF c, s
<1>3. c * step = IF c = 0 THEN 0 ELSE step
  BY <1>2
<1> QED  BY <1>1, <1>2, <1>3 DEF OnSlot, Paired

\* The ranges of run_gpu_cluster_validation.py, at ten seeds at most.
ClusterCell(x) ==
    \/ OnSlot(x, "smoke", DioBase, 1)
    \/ OnSlot(x, "nlms", DioBase + 100, 10) \/ OnSlot(x, "round_robin", DioBase + 110, 10)
    \/ OnSlot(x, "hetero_nlms", DioBase + 200, 10) \/ OnSlot(x, "hetero_rr", DioBase + 250, 10)
    \/ OnSlot(x, "dual", DioBase + 300, 10) \/ OnSlot(x, "single", DioBase + 330, 10)
    \/ OnSlot(x, "admit_off", DioBase + 400, 1) \/ OnSlot(x, "admit_on", DioBase + 401, 1)

\* The ranges of run_workshop_final_suite.py, at ten seeds at most.
WorkshopCell(x) ==
    \/ OnSlot(x, "smoke", DioBase, 1)
    \/ OnSlot(x, "heuristic", DioBase + 50, 10) \/ OnSlot(x, "tokenizer", DioBase + 70, 10)
    \/ OnSlot(x, "a_nlms", DioBase + 200, 10) \/ OnSlot(x, "a_rr", DioBase + 240, 10)
    \/ OnSlot(x, "c_nlms", DioBase + 400, 10) \/ OnSlot(x, "c_rr", DioBase + 440, 10)
    \/ OnSlot(x, "long_nlms", DioBase + 600, 10) \/ OnSlot(x, "long_rr", DioBase + 640, 10)
    \/ OnSlot(x, "baseline", DioBase + 700, 1) \/ OnSlot(x, "tier_p50", DioBase + 701, 1)
    \/ OnSlot(x, "tier_m50", DioBase + 702, 1) \/ OnSlot(x, "cache_p50", DioBase + 703, 1)
    \/ OnSlot(x, "cache_m50", DioBase + 704, 1) \/ OnSlot(x, "both_p50", DioBase + 705, 1)
    \/ OnSlot(x, "both_m50", DioBase + 706, 1)

\* The ranges of run_regime_d_hetero.py, at ten seeds at most.
RegimeCell(x) ==
    \/ OnSlot(x, "nlms", DioBase, 10) \/ OnSlot(x, "round_robin", DioBase + 50, 10)
    \/ OnSlot(x, "d2_rr", DioBase + 400, 10)
    \/ OnSlot(x, "d3_32", DioBase + 600, 10) \/ OnSlot(x, "d3_256", DioBase + 620, 10)

\* The ranges of run_real_hetero_multiseed.py, at ten seeds at most.
HeteroCell(x) == OnSlot(x, "nlms", DioBase, 10) \/ OnSlot(x, "round_robin", DioBase + 50, 10)

\* The ranges of run_post_d_priority.py, at ten seeds at most.
PostCell(x) ==
    \/ OnSlot(x, "discovery", DioBase, 1)
    \/ OnSlot(x, "nlms", DioBase + 100, 10) \/ OnSlot(x, "rls", DioBase + 150, 10)

\* The ranges of run_gpu_cluster_validation.py do not overlap.
LEMMA ClusterSlots ==
    ASSUME NEW x, NEW y, ClusterCell(x), ClusterCell(y), x.port = y.port
    PROVE  x.config = y.config
BY PortsAssumption DEF ClusterCell, OnSlot

\* The ranges of run_workshop_final_suite.py do not overlap.
LEMMA WorkshopSlots ==
    ASSUME NEW x, NEW y, WorkshopCell(x), WorkshopCell(y), x.port = y.port
    PROVE  x.config = y.config
BY PortsAssumption DEF WorkshopCell, OnSlot

\* The ranges of run_regime_d_hetero.py do not overlap.
LEMMA RegimeSlots ==
    ASSUME NEW x, NEW y, RegimeCell(x), RegimeCell(y), x.port = y.port
    PROVE  x.config = y.config
BY PortsAssumption DEF RegimeCell, OnSlot

\* The ranges of run_real_hetero_multiseed.py do not overlap.
LEMMA HeteroSlots ==
    ASSUME NEW x, NEW y, HeteroCell(x), HeteroCell(y), x.port = y.port
    PROVE  x.config = y.config
BY PortsAssumption DEF HeteroCell, OnSlot

\* The ranges of run_post_d_priority.py do not overlap.
LEMMA PostSlots ==
    ASSUME NEW x, NEW y, PostCell(x), PostCell(y), x.port = y.port
    PROVE  x.config = y.config
BY PortsAssumption DEF PostCell, OnSlot

\* Every cell of run_gpu_cluster_validation.py is on one of its ranges.
LEMMA ClusterCells ==
    ASSUME NEW n \in Nat, n <= 10, NEW b \in DOMAIN ClusterScript(n).blocks,
           NEW k \in DOMAIN ClusterScript(n).blocks[b].cells
    PROVE  ClusterCell(ClusterScript(n).blocks[b].cells[k])
<1> DEFINE bl == ClusterScript(n).blocks[b]
<1>1. bl \in {ClusterG1, ClusterG2(n), ClusterG3(n), ClusterG4(n), ClusterG5, ClusterG7}
  BY DEF ClusterScript
<1>2. DioBase \in Nat
  BY PortsAssumption
<1>k. n \in Nat /\ n <= 10 /\ 10 \in Nat /\ k \in DOMAIN bl.cells
  OBVIOUS
<1> SUFFICES ClusterCell(bl.cells[k])
  OBVIOUS
<1> HIDE DEF bl
<1>3. CASE bl = ClusterG1
  <2>1. bl.cells[k].config = "smoke" /\ bl.cells[k].port = DioBase
    BY <1>k, <1>3 DEF ClusterG1, Block, Cells
  <2> QED  BY <1>2, <2>1 DEF ClusterCell, OnSlot
<1>4. CASE bl = ClusterG2(n)
  <2>1. Paired(bl.cells, n, "nlms", "round_robin", DioBase + 100, 10, DioBase + 110)
    BY <1>2, <1>4 DEF ClusterG2, Block, Cells, Paired
  <2> DEFINE cells == bl.cells
             base == DioBase + 100
             second == DioBase + 110
  <2>2. /\ base \in Nat /\ 10 \in Nat /\ k \in DOMAIN cells
        /\ Paired(cells, n, "nlms", "round_robin", base, 10, second)
    BY <1>2, <1>k, <2>1
  <2> HIDE DEF cells, base, second
  <2>3. OnSlot(cells[k], "nlms", base, 10) \/ OnSlot(cells[k], "round_robin", second, 10)
    BY ONLY <1>k, <2>2, PairedSlots
  <2> QED  BY ONLY <2>3 DEF ClusterCell, cells, base, second
<1>5. CASE bl = ClusterG3(n)
  <2>1. Paired(bl.cells, n, "hetero_nlms", "hetero_rr", DioBase + 200, 50, DioBase + 250)
    BY <1>2, <1>5 DEF ClusterG3, Block, Cells, Paired
  <2> DEFINE cells == bl.cells
             base == DioBase + 200
             second == DioBase + 250
  <2>2. /\ base \in Nat /\ 50 \in Nat /\ k \in DOMAIN cells
        /\ Paired(cells, n, "hetero_nlms", "hetero_rr", base, 50, second)
    BY <1>2, <1>k, <2>1
  <2> HIDE DEF cells, base, second
  <2>3. OnSlot(cells[k], "hetero_nlms", base, 10) \/ OnSlot(cells[k], "hetero_rr", second, 10)
    BY ONLY <1>k, <2>2, PairedSlots
  <2> QED  BY ONLY <2>3 DEF ClusterCell, cells, base, second
<1>6. CASE bl = ClusterG4(n)
  <2>1. Paired(bl.cells, n, "dual", "single", DioBase + 300, 30, DioBase + 330)
    BY <1>2, <1>6 DEF ClusterG4, Block, Cells, Paired
  <2> DEFINE cells == bl.cells
             base == DioBase + 300
             second == DioBase + 330
  <2>2. /\ base \in Nat /\ 30 \in Nat /\ k \in DOMAIN cells
        /\ Paired(cells, n, "dual", "single", base, 30, second)
    BY <1>2, <1>k, <2>1
  <2> HIDE DEF cells, base, second
  <2>3. OnSlot(cells[k], "dual", base, 10) \/ OnSlot(cells[k], "single", second, 10)
    BY ONLY <1>k, <2>2, PairedSlots
  <2> QED  BY ONLY <2>3 DEF ClusterCell, cells, base, second
<1>7. CASE bl = ClusterG5
  <2>1. k \in {1, 2} /\ bl.cells[k].config = <<"admit_off", "admit_on">>[k] /\ bl.cells[k].port = DioBase + 400 + (k - 1)
    BY <1>k, <1>7 DEF ClusterG5, Block, Cells
  <2> QED  BY <1>2, <2>1 DEF ClusterCell, OnSlot
<1>8. CASE bl = ClusterG7
  BY <1>k, <1>8 DEF ClusterG7, Block
<1> QED  BY ONLY <1>1, <1>3, <1>4, <1>5, <1>6, <1>7, <1>8

\* Every cell of run_workshop_final_suite.py is on one of its ranges.
LEMMA WorkshopCells ==
    ASSUME NEW n \in Nat, n <= 10, NEW b \in DOMAIN WorkshopScript(n).blocks,
           NEW k \in DOMAIN WorkshopScript(n).blocks[b].cells
    PROVE  WorkshopCell(WorkshopScript(n).blocks[b].cells[k])
<1> DEFINE bl == WorkshopScript(n).blocks[b]
<1>1. bl \in {WorkshopSmoke, WorkshopW2(n), WorkshopW3(n), WorkshopW4(n), WorkshopW5(n), WorkshopW6}
  BY DEF WorkshopScript
<1>2. DioBase \in Nat
  BY PortsAssumption
<1>k. n \in Nat /\ n <= 10 /\ 10 \in Nat /\ k \in DOMAIN bl.cells
  OBVIOUS
<1> SUFFICES WorkshopCell(bl.cells[k])
  OBVIOUS
<1> HIDE DEF bl
<1>3. CASE bl = WorkshopSmoke
  <2>1. bl.cells[k].config = "smoke" /\ bl.cells[k].port = DioBase
    BY <1>k, <1>3 DEF WorkshopSmoke, Block, Cells
  <2> QED  BY <1>2, <2>1 DEF WorkshopCell, OnSlot
<1>4. CASE bl = WorkshopW2(n)
  <2>1. Paired(bl.cells, n, "heuristic", "tokenizer", DioBase + 50, 20, DioBase + 70)
    BY <1>2, <1>4 DEF WorkshopW2, Block, Cells, Paired
  <2> DEFINE cells == bl.cells
             base == DioBase + 50
             second == DioBase + 70
  <2>2. /\ base \in Nat /\ 20 \in Nat /\ k \in DOMAIN cells
        /\ Paired(cells, n, "heuristic", "tokenizer", base, 20, second)
    BY <1>2, <1>k, <2>1
  <2> HIDE DEF cells, base, second
  <2>3. OnSlot(cells[k], "heuristic", base, 10) \/ OnSlot(cells[k], "tokenizer", second, 10)
    BY ONLY <1>k, <2>2, PairedSlots
  <2> QED  BY ONLY <2>3 DEF WorkshopCell, cells, base, second
<1>5. CASE bl = WorkshopW3(n)
  <2>1. Paired(bl.cells, n, "a_nlms", "a_rr", DioBase + 200, 40, DioBase + 240)
    BY <1>2, <1>5 DEF WorkshopW3, WorkshopMatrix, Block, Cells, Paired
  <2> DEFINE cells == bl.cells
             base == DioBase + 200
             second == DioBase + 240
  <2>2. /\ base \in Nat /\ 40 \in Nat /\ k \in DOMAIN cells
        /\ Paired(cells, n, "a_nlms", "a_rr", base, 40, second)
    BY <1>2, <1>k, <2>1
  <2> HIDE DEF cells, base, second
  <2>3. OnSlot(cells[k], "a_nlms", base, 10) \/ OnSlot(cells[k], "a_rr", second, 10)
    BY ONLY <1>k, <2>2, PairedSlots
  <2> QED  BY ONLY <2>3 DEF WorkshopCell, cells, base, second
<1>6. CASE bl = WorkshopW4(n)
  <2>1. Paired(bl.cells, n, "c_nlms", "c_rr", DioBase + 400, 40, DioBase + 440)
    BY <1>2, <1>6 DEF WorkshopW4, WorkshopMatrix, Block, Cells, Paired
  <2> DEFINE cells == bl.cells
             base == DioBase + 400
             second == DioBase + 440
  <2>2. /\ base \in Nat /\ 40 \in Nat /\ k \in DOMAIN cells
        /\ Paired(cells, n, "c_nlms", "c_rr", base, 40, second)
    BY <1>2, <1>k, <2>1
  <2> HIDE DEF cells, base, second
  <2>3. OnSlot(cells[k], "c_nlms", base, 10) \/ OnSlot(cells[k], "c_rr", second, 10)
    BY ONLY <1>k, <2>2, PairedSlots
  <2> QED  BY ONLY <2>3 DEF WorkshopCell, cells, base, second
<1>7. CASE bl = WorkshopW5(n)
  <2>1. Paired(bl.cells, n, "long_nlms", "long_rr", DioBase + 600, 40, DioBase + 640)
    BY <1>2, <1>7 DEF WorkshopW5, WorkshopMatrix, Block, Cells, Paired
  <2> DEFINE cells == bl.cells
             base == DioBase + 600
             second == DioBase + 640
  <2>2. /\ base \in Nat /\ 40 \in Nat /\ k \in DOMAIN cells
        /\ Paired(cells, n, "long_nlms", "long_rr", base, 40, second)
    BY <1>2, <1>k, <2>1
  <2> HIDE DEF cells, base, second
  <2>3. OnSlot(cells[k], "long_nlms", base, 10) \/ OnSlot(cells[k], "long_rr", second, 10)
    BY ONLY <1>k, <2>2, PairedSlots
  <2> QED  BY ONLY <2>3 DEF WorkshopCell, cells, base, second
<1>8. CASE bl = WorkshopW6
  <2>1. /\ k \in 1 .. 7 /\ bl.cells[k].port = DioBase + 700 + (k - 1)
        /\ bl.cells[k].config = <<"baseline", "tier_p50", "tier_m50", "cache_p50", "cache_m50", "both_p50", "both_m50">>[k]
    BY <1>k, <1>8 DEF WorkshopW6, Block, Cells
  <2> QED  BY <1>2, <2>1 DEF WorkshopCell, OnSlot
<1> QED  BY ONLY <1>1, <1>3, <1>4, <1>5, <1>6, <1>7, <1>8

\* Every cell of run_regime_d_hetero.py is on one of its ranges.
LEMMA RegimeCells ==
    ASSUME NEW n \in Nat, n <= 10, NEW b \in DOMAIN RegimeScript(n).blocks,
           NEW k \in DOMAIN RegimeScript(n).blocks[b].cells
    PROVE  RegimeCell(RegimeScript(n).blocks[b].cells[k])
<1> DEFINE bl == RegimeScript(n).blocks[b]
<1>1. bl \in {RegimeD1(n), RegimeD2(n), RegimeD3(n)}
  BY DEF RegimeScript
<1>2. DioBase \in Nat
  BY PortsAssumption
<1>k. n \in Nat /\ n <= 10 /\ 10 \in Nat /\ k \in DOMAIN bl.cells
  OBVIOUS
<1> SUFFICES RegimeCell(bl.cells[k])
  OBVIOUS
<1> HIDE DEF bl
<1>3. CASE bl = RegimeD1(n)
  <2>1. Paired(bl.cells, n, "nlms", "round_robin", DioBase, 50, DioBase + 50)
    BY <1>2, <1>3 DEF RegimeD1, OneSeed, Block, Cells, Paired
  <2>2. OnSlot(bl.cells[k], "nlms", DioBase, 10) \/ OnSlot(bl.cells[k], "round_robin", DioBase + 50, 10)
    BY ONLY <1>k, <1>2, <2>1, PairedSlots
  <2> QED  BY ONLY <2>2 DEF RegimeCell
<1>4. CASE bl = RegimeD2(n)
  <2> DEFINE s == (k - 1) % n
  <2>1. k \in 1 .. 1 * n /\ bl.cells[k].config = <<"d2_rr">>[((k - 1) \div n) + 1] /\ bl.cells[k].port = DioBase + 400 + s
    BY <1>k, <1>4 DEF RegimeD2, OneSeed, Block, Cells
  <2>2. (k - 1) \div n \in 0 .. 1 - 1 /\ s \in 0 .. n - 1
    <3> DEFINE one == 1
    <3>1. one \in Nat /\ k \in 1 .. one * n
      BY <2>1
    <3> HIDE DEF one
    <3>2. (k - 1) \div n \in 0 .. one - 1 /\ s \in 0 .. n - 1
      BY ONLY <1>k, <3>1, CellPlace
    <3> QED  BY <3>2 DEF one
  <2>3. (k - 1) \div n = 0
    BY ONLY <2>2
  <2>4. bl.cells[k].config = "d2_rr"
    BY ONLY <2>1, <2>3
  <2> HIDE DEF s
  <2> QED  BY ONLY <1>k, <1>2, <2>1, <2>2, <2>4 DEF RegimeCell, OnSlot
<1>5. CASE bl = RegimeD3(n)
  <2>1. Paired(bl.cells, n, "d3_32", "d3_256", DioBase + 600, 20, DioBase + 620)
    BY <1>2, <1>5 DEF RegimeD3, OneSeed, Block, Cells, Paired
  <2> DEFINE cells == bl.cells
             base == DioBase + 600
             second == DioBase + 620
  <2>2. /\ base \in Nat /\ 20 \in Nat /\ k \in DOMAIN cells
        /\ Paired(cells, n, "d3_32", "d3_256", base, 20, second)
    BY <1>2, <1>k, <2>1
  <2> HIDE DEF cells, base, second
  <2>3. OnSlot(cells[k], "d3_32", base, 10) \/ OnSlot(cells[k], "d3_256", second, 10)
    BY ONLY <1>k, <2>2, PairedSlots
  <2> QED  BY ONLY <2>3 DEF RegimeCell, cells, base, second
<1> QED  BY ONLY <1>1, <1>3, <1>4, <1>5

\* Every cell of run_real_hetero_multiseed.py is on one of its ranges.
LEMMA HeteroCells ==
    ASSUME NEW n \in Nat, n <= 10, NEW b \in DOMAIN HeteroScript(n).blocks,
           NEW k \in DOMAIN HeteroScript(n).blocks[b].cells
    PROVE  HeteroCell(HeteroScript(n).blocks[b].cells[k])
<1> DEFINE bl == HeteroScript(n).blocks[b]
<1>1. bl \in {HeteroBlock(n)}
  BY DEF HeteroScript
<1>2. DioBase \in Nat
  BY PortsAssumption
<1>k. n \in Nat /\ n <= 10 /\ 10 \in Nat /\ k \in DOMAIN bl.cells
  OBVIOUS
<1> SUFFICES HeteroCell(bl.cells[k])
  OBVIOUS
<1> HIDE DEF bl
<1>3. CASE bl = HeteroBlock(n)
  <2>1. Paired(bl.cells, n, "nlms", "round_robin", DioBase, 50, DioBase + 50)
    BY <1>2, <1>3 DEF HeteroBlock, HeteroPort, Block, Cells, Paired
  <2>2. OnSlot(bl.cells[k], "nlms", DioBase, 10) \/ OnSlot(bl.cells[k], "round_robin", DioBase + 50, 10)
    BY ONLY <1>k, <1>2, <2>1, PairedSlots
  <2> QED  BY ONLY <2>2 DEF HeteroCell
<1> QED  BY ONLY <1>1, <1>3

\* Every cell of run_post_d_priority.py is on one of its ranges.
LEMMA PostCells ==
    ASSUME NEW n \in Nat, n <= 10, NEW b \in DOMAIN PostScript(n).blocks,
           NEW k \in DOMAIN PostScript(n).blocks[b].cells
    PROVE  PostCell(PostScript(n).blocks[b].cells[k])
<1> DEFINE bl == PostScript(n).blocks[b]
<1>1. bl \in {PostDiscovery, PostExtraD1(n)}
  BY DEF PostScript
<1>2. DioBase \in Nat
  BY PortsAssumption
<1>k. n \in Nat /\ n <= 10 /\ 10 \in Nat /\ k \in DOMAIN bl.cells
  OBVIOUS
<1> SUFFICES PostCell(bl.cells[k])
  OBVIOUS
<1> HIDE DEF bl
<1>3. CASE bl = PostDiscovery
  <2>1. bl.cells[k].config = "discovery" /\ bl.cells[k].port = DioBase
    BY <1>k, <1>3 DEF PostDiscovery, Block, Cells
  <2> QED  BY <1>2, <2>1 DEF PostCell, OnSlot
<1>4. CASE bl = PostExtraD1(n)
  <2>1. Paired(bl.cells, n, "nlms", "rls", DioBase + 100, 50, DioBase + 150)
    BY <1>2, <1>4 DEF PostExtraD1, Block, Cells, Paired
  <2> DEFINE cells == bl.cells
             base == DioBase + 100
             second == DioBase + 150
  <2>2. /\ base \in Nat /\ 50 \in Nat /\ k \in DOMAIN cells
        /\ Paired(cells, n, "nlms", "rls", base, 50, second)
    BY <1>2, <1>k, <2>1
  <2> HIDE DEF cells, base, second
  <2>3. OnSlot(cells[k], "nlms", base, 10) \/ OnSlot(cells[k], "rls", second, 10)
    BY ONLY <1>k, <2>2, PairedSlots
  <2> QED  BY ONLY <2>3 DEF PostCell, cells, base, second
<1> QED  BY ONLY <1>1, <1>3, <1>4

\* Where the ports tell the configurations apart, which they do in all scripts but
\* two, up to ten seeds: from eleven on, G2 of the cluster script has the first port
\* of round robin for the last seed of nlms.
LEMMA PortsTell ==
    ASSUME NEW s \in DOMAIN Descriptors, s[1] \notin {"abc", "mock_hetero"}, s[2] <= 10,
           NEW x \in CellsOf(Descriptors[s]), NEW y \in CellsOf(Descriptors[s]), x.port = y.port
    PROVE  x.config = y.config
<1> DEFINE n == s[2]
<1>1. s \in ScriptNames \X SeedCounts /\ n \in Nat /\ n <= 10
  BY PortsAssumption DEF Descriptors
<1> HIDE DEF n
<1>2. CASE s[1] = "cluster"
  <2>1. Descriptors[s] = ClusterScript(n)
    BY <1>1, <1>2 DEF Descriptors, n
  <2>2. ClusterCell(x) /\ ClusterCell(y)
    BY <1>1, <2>1, ClusterCells DEF CellsOf
  <2> QED  BY ONLY <2>2, x.port = y.port, ClusterSlots
<1>3. CASE s[1] = "workshop"
  <2>1. Descriptors[s] = WorkshopScript(n)
    BY <1>1, <1>3 DEF Descriptors, n
  <2>2. WorkshopCell(x) /\ WorkshopCell(y)
    BY <1>1, <2>1, WorkshopCells DEF CellsOf
  <2> QED  BY ONLY <2>2, x.port = y.port, WorkshopSlots
<1>4. CASE s[1] = "regime_d"
  <2>1. Descriptors[s] = RegimeScript(n)
    BY <1>1, <1>4 DEF Descriptors, n
  <2>2. RegimeCell(x) /\ RegimeCell(y)
    BY <1>1, <2>1, RegimeCells DEF CellsOf
  <2> QED  BY ONLY <2>2, x.port = y.port, RegimeSlots
<1>5. CASE s[1] = "hetero"
  <2>1. Descriptors[s] = HeteroScript(n)
    BY <1>1, <1>5 DEF Descriptors, n
  <2>2. HeteroCell(x) /\ HeteroCell(y)
    BY <1>1, <2>1, HeteroCells DEF CellsOf
  <2> QED  BY ONLY <2>2, x.port = y.port, HeteroSlots
<1>6. CASE s[1] = "post_d"
  <2>1. Descriptors[s] = PostScript(n)
    BY <1>1, <1>6 DEF Descriptors, n
  <2>2. PostCell(x) /\ PostCell(y)
    BY <1>1, <2>1, PostCells DEF CellsOf
  <2> QED  BY ONLY <2>2, x.port = y.port, PostSlots
<1> QED  BY <1>1, <1>2, <1>3, <1>4, <1>5, <1>6 DEF ScriptNames

\* A gateway that is alive, of this run or of a killed one, has the port and the
\* configuration of a cell, and everybody else the port of an engine or the proxy.
Lined(p) ==
    \/ p.kind # "gateway" /\ ~Apart(p.port)
    \/ p.kind = "gateway" /\ \E x \in CellsOf(The) : p.port = x.port /\ p.config = x.config
LineInv == \A p \in Live : Lined(p)

\* Whatever a step starts is on its own port.
LEMMA LineStep == OwnInv /\ PlaceInv /\ LineInv /\ [SuiteNext]_suiteVars => LineInv'
<1> SUFFICES ASSUME OwnInv, PlaceInv, LineInv, [SuiteNext]_suiteVars PROVE LineInv'
  OBVIOUS
<1>1. script' = script /\ The' = The
  BY DEF SuiteNext, MainStep, suiteVars, The, StartEngines, EnginesReady, EnginesTimeOut, BeginBlock,
         ProxyReady, ProxyTimesOut, StartGateway, GatewayReady, GatewayTimesOut, Load, EndBlock,
         OpenSummary, WriteSummary, Close, Interrupt, InterruptInStart, InterruptInTeardown, Boots,
         HardKill, Rerun
<1>2. SUFFICES \A p \in Live' : Lined(p)
  <2>1. ASSUME NEW p, Lined(p) PROVE Lined(p)'
    BY <1>1, <2>1 DEF Lined, Apart
  <2> QED  BY <2>1 DEF LineInv
<1>3. ASSUME Live' \subseteq Live PROVE \A p \in Live' : Lined(p)
  BY <1>3 DEF LineInv
<1>e. ASSUME NEW i \in 1 .. The.engines PROVE Lined(Engine(i - 1))
  <2>1. i \in Int /\ EngineBase \in Nat
    BY PortsAssumption
  <2>2. Engine(i - 1).kind = "engine" /\ Engine(i - 1).port = EngineBase + (i - 1)
    BY DEF Engine
  <2>3. EngineBase + (i - 1) = EngineBase + i - 1
    BY <2>1
  <2> QED  BY <2>2, <2>3 DEF Apart, Lined
<1>p. Lined(Proxy)
  BY DEF Proxy, Apart, Lined
<1>g. ASSUME cell \in DOMAIN ThisBlock.cells PROVE Lined(Gateway(ThisCell))
  <2> DEFINE g == Gateway(ThisCell)
  <2>1. ThisCell \in CellsOf(The)
    BY <1>g, HereCell
  <2>2. g.kind = "gateway" /\ g.port = ThisCell.port /\ g.config = ThisCell.config
    BY DEF Gateway
  <2> HIDE DEF g
  <2>3. Lined(g)
    BY <2>1, <2>2 DEF Lined
  <2> QED  BY <2>3 DEF g
<1>4. CASE StartEngines
  <2>1. Live' = Live \cup {Engines[i] : i \in DOMAIN Engines}
    BY <1>4 DEF StartEngines, Spawn, Live
  <2>2. ASSUME NEW i \in DOMAIN Engines PROVE Lined(Engines[i])
    <3>1. i \in 1 .. The.engines /\ Engines[i] = Engine(i - 1)
      BY DEF Engines
    <3> QED  BY <1>e, <3>1
  <2> QED  BY <2>1, <2>2 DEF LineInv
<1>5. CASE BeginBlock
  <2>1. Live' \subseteq Live \cup {Proxy}
    BY <1>5 DEF BeginBlock, Spawn, Live
  <2> QED  BY <1>p, <2>1 DEF LineInv
<1>6. CASE StartGateway
  <2>1. Live' \subseteq Live \cup {Gateway(ThisCell)} /\ cell <= Len(ThisBlock.cells)
    BY <1>6 DEF StartGateway, Spawn, Live
  <2>2. cell \in DOMAIN ThisBlock.cells
    BY <2>1, HereFacts DEF PlaceInv
  <2> QED  BY <1>g, <2>1, <2>2 DEF LineInv
<1>7. CASE GatewayTimesOut \/ \E result \in ClusterLoad : Load(result)
  <2>1. Live' \subseteq Live
    BY <1>7, TeardownKeeps DEF GatewayTimesOut, Load, Kill, Live, OwnInv, BookInv
  <2> QED  BY <1>3, <2>1
<1>8. CASE EnginesReady \/ EnginesTimeOut \/ ProxyReady \/ ProxyTimesOut \/ GatewayReady \/ EndBlock
           \/ OpenSummary \/ WriteSummary \/ Close
  <2>1. Live' \subseteq Live
    BY <1>8 DEF EnginesReady, EnginesTimeOut, ProxyReady, ProxyTimesOut, GatewayReady, EndBlock,
                OpenSummary, WriteSummary, Close, Kill, Live
  <2> QED  BY <1>3, <2>1
<1>9. CASE Interrupt \/ InterruptInTeardown \/ HardKill \/ Rerun \/ (\E p \in booting : Boots(p))
           \/ UNCHANGED suiteVars
  <2>1. Live' \subseteq Live
    BY <1>9 DEF Interrupt, InterruptInTeardown, HardKill, Rerun, Boots, suiteVars, Live
  <2> QED  BY <1>3, <2>1
<1>10. CASE InterruptInStart
  BY <1>e, <1>p, <1>g, <1>10, CutStarts DEF LineInv
<1> QED  BY <1>4, <1>5, <1>6, <1>7, <1>8, <1>9, <1>10 DEF SuiteNext, MainStep

\* The place and the line of a script that is about to start.
LEMMA PlaceStart == SuiteInit => PlaceInv /\ LineInv
<1> SUFFICES ASSUME SuiteInit PROVE PlaceInv /\ LineInv
  OBVIOUS
<1>1. script \in DOMAIN Descriptors /\ blk = 1 /\ cell = 1 /\ pc = "start" /\ Live = {}
  BY DEF SuiteInit, Live
<1>2. 1 \in DOMAIN The.blocks
  BY <1>1, BlockFacts DEF The
<1> QED  BY <1>1, <1>2 DEF PlaceInv, LineInv

\* A cell is never measured on a gateway of another configuration, not even on one
\* that a killed run left behind, in the scripts whose ports tell configurations
\* apart and up to the ten seeds for which they do.
THEOREM RightGateway ==
    ASSUME \A n \in SeedCounts : n <= 10
    PROVE  SuiteSpec => []RightConfiguration
<1>1. OwnInv /\ PlaceInv /\ LineInv => RightConfiguration
  <2> SUFFICES ASSUME OwnInv, PlaceInv, LineInv, pc = "load", script[1] \notin {"abc", "mock_hetero"},
                      NEW p \in up, p.port = ThisCell.port
               PROVE  p.config = ThisCell.config
    BY DEF RightConfiguration
  <2>1. script \in DOMAIN Descriptors /\ cell \in DOMAIN ThisBlock.cells /\ p \in Live
    BY DEF OwnInv, BookInv, PlaceInv, Live
  <2>2. ThisCell \in CellsOf(The) /\ Apart(ThisCell.port)
    BY <2>1, HereCell
  <2>3. PICK x \in CellsOf(The) : p.port = x.port /\ p.config = x.config
    BY <2>1, <2>2 DEF LineInv, Lined
  <2>4. script[2] <= 10
    BY <2>1 DEF Descriptors
  <2> QED  BY <2>1, <2>2, <2>3, <2>4, PortsTell DEF The
<1> QED  BY <1>1, OwnStart, OwnStep, PlaceStart, PlaceStep, LineStep, PTL DEF SuiteSpec

-----------------------------------------------------------------------------
(* Every cell of a first run is measured on its own gateway.               *)

\* The ports of run_real_hetero_multiseed.py differ from cell to cell, up to fifty seeds.
LEMMA HeteroPorts ==
    ASSUME NEW n \in Nat, n <= 50, NEW j \in DOMAIN HeteroBlock(n).cells,
           NEW k \in DOMAIN HeteroBlock(n).cells,
           HeteroBlock(n).cells[j].port = HeteroBlock(n).cells[k].port
    PROVE  j = k
<1> DEFINE cells == HeteroBlock(n).cells
           c(i) == (i - 1) \div n
           s(i) == (i - 1) % n
<1>1. \A i \in DOMAIN cells : i \in 1 .. 2 * n /\ cells[i].port = DioBase + c(i) * 50 + s(i)
  BY DEF HeteroBlock, Block, Cells, HeteroPort
<1>2. ASSUME NEW i \in DOMAIN cells
      PROVE  c(i) \in {0, 1} /\ s(i) \in 0 .. n - 1 /\ i - 1 = (n * c(i)) + s(i) /\ i \in Nat
  <2>1. 2 \in Nat /\ i \in 1 .. 2 * n
    BY <1>1
  <2>2. c(i) \in 0 .. 2 - 1 /\ s(i) \in 0 .. n - 1 /\ i - 1 = (n * c(i)) + s(i)
    BY ONLY n \in Nat, <2>1, CellPlace
  <2> QED  BY <2>1, <2>2
<1>3. cells[j].port = cells[k].port /\ j \in DOMAIN cells /\ k \in DOMAIN cells /\ DioBase \in Nat
  BY PortsAssumption
<1> HIDE DEF cells, c, s
<1>4. c(j) = c(k) /\ s(j) = s(k)
  <2>1. DioBase + c(j) * 50 + s(j) = DioBase + c(k) * 50 + s(k)
    BY <1>1, <1>3
  <2> QED  BY ONLY <2>1, <1>2, <1>3, n \in Nat, n <= 50
<1> QED  BY ONLY <1>2, <1>3, <1>4

\* The cells of the mock script: all on one port, the seeds of a configuration one
\* after the other, the first of them 0.
LEMMA MockSeeds ==
    ASSUME NEW n \in Nat, NEW k \in DOMAIN MockCells(n).cells
    PROVE  /\ MockCells(n).shared
           /\ k = 1 => MockCells(n).cells[k].seed = 0
           /\ k + 1 \in DOMAIN MockCells(n).cells =>
                 /\ MockCells(n).cells[k + 1].port = MockCells(n).cells[k].port
                 /\ MockCells(n).cells[k + 1].config = MockCells(n).cells[k].config
                       <=> MockCells(n).cells[k + 1].seed # 0
<1> DEFINE cells == MockCells(n).cells
           c(i) == (i - 1) \div n
           s(i) == (i - 1) % n
<1>1. \A i \in DOMAIN cells :
         /\ i \in 1 .. 2 * n /\ cells[i].port = DioBase /\ cells[i].seed = s(i)
         /\ cells[i].config = <<"c1_nlms", "c1_round_robin">>[c(i) + 1]
  BY DEF MockCells, Block, Cells
<1>2. ASSUME NEW i \in DOMAIN cells
      PROVE  c(i) \in {0, 1} /\ s(i) \in 0 .. n - 1 /\ i - 1 = (n * c(i)) + s(i) /\ i \in Nat
  <2>1. 2 \in Nat /\ i \in 1 .. 2 * n
    BY <1>1
  <2>2. c(i) \in 0 .. 2 - 1 /\ s(i) \in 0 .. n - 1 /\ i - 1 = (n * c(i)) + s(i)
    BY ONLY n \in Nat, <2>1, CellPlace
  <2> QED  BY <2>1, <2>2
<1>3. MockCells(n).shared
  BY DEF MockCells, Block
<1>4. k \in DOMAIN cells
  OBVIOUS
<1> SUFFICES /\ k = 1 => cells[k].seed = 0
             /\ k + 1 \in DOMAIN cells =>
                   /\ cells[k + 1].port = cells[k].port
                   /\ cells[k + 1].config = cells[k].config <=> cells[k + 1].seed # 0
  BY <1>3
<1> HIDE DEF cells, c, s
<1>5. k = 1 => cells[k].seed = 0
  BY ONLY <1>1, <1>2, <1>4, n \in Nat
<1>6. ASSUME k + 1 \in DOMAIN cells
      PROVE  /\ cells[k + 1].port = cells[k].port
             /\ cells[k + 1].config = cells[k].config <=> cells[k + 1].seed # 0
  <2>1. /\ c(k) \in {0, 1} /\ s(k) \in 0 .. n - 1 /\ k - 1 = (n * c(k)) + s(k) /\ k \in Nat
        /\ c(k + 1) \in {0, 1} /\ s(k + 1) \in 0 .. n - 1 /\ (k + 1) - 1 = (n * c(k + 1)) + s(k + 1)
    BY ONLY <1>2, <1>4, <1>6
  <2>2. c(k + 1) = c(k) <=> s(k + 1) # 0
    <3> DEFINE cc == c(k + 1)
               ss == s(k + 1)
    <3>1. /\ c(k) \in {0, 1} /\ s(k) \in 0 .. n - 1 /\ k - 1 = (n * c(k)) + s(k) /\ k \in Nat
          /\ cc \in {0, 1} /\ ss \in 0 .. n - 1 /\ k = (n * cc) + ss
      BY ONLY <2>1, n \in Nat
    <3> SUFFICES cc = c(k) <=> ss # 0
      OBVIOUS
    <3> HIDE DEF cc, ss
    <3>2. CASE c(k) = 0 /\ cc = 0
      BY ONLY <3>1, <3>2, n \in Nat
    <3>3. CASE c(k) = 0 /\ cc = 1
      BY ONLY <3>1, <3>3, n \in Nat
    <3>4. CASE c(k) = 1 /\ cc = 0
      BY ONLY <3>1, <3>4, n \in Nat
    <3>5. CASE c(k) = 1 /\ cc = 1
      BY ONLY <3>1, <3>5, n \in Nat
    <3> QED  BY ONLY <3>1, <3>2, <3>3, <3>4, <3>5
  <2>3. cells[k + 1].config = cells[k].config <=> c(k + 1) = c(k)
    BY ONLY <1>1, <1>4, <1>6, <2>1
  <2> QED  BY ONLY <1>1, <1>4, <1>6, <2>2, <2>3
<1> QED  BY ONLY <1>5, <1>6

\* A cell of mock_hetero whose gateway is still that of the cell before it.
MidShared == ThisBlock.shared /\ cell <= Len(ThisBlock.cells) /\ ThisCell.seed # 0

\* The gateway of the current cell has been started, and has been found listening.
Serving == pc \in {"health", "load"} \/ (pc = "cell" /\ MidShared)
Measured == pc = "load" \/ (pc = "cell" /\ MidShared)

\* A gateway that was given up on and not stopped: it has the port of a cell that
\* is over.
LeftOver(p) ==
    /\ ThisBlock.failed = "leave" /\ pc \in {"cell", "health", "load"}
    /\ \E k \in DOMAIN ThisBlock.cells : k < cell /\ p.port = ThisBlock.cells[k].port

\* What a first run has alive.
FirstRun ==
    /\ \A p \in Live : p.kind = "gateway" => (Serving /\ p = Gateway(ThisCell)) \/ LeftOver(p)
    /\ Measured => Gateway(ThisCell) \in up

\* While main() is among its blocks, a first run has at most one gateway alive, but
\* for those left over; and a teardown that pops a handle pops that gateway.
FreshInv ==
    /\ run \in Nat \ {0}
    /\ pc \in {"start", "engines", "block", "proxy"} \/ Saving => cell = 1
    /\ pc \in {"health", "load"} /\ The.tracked = "start" => handles[Len(handles)] = Gateway(ThisCell)
    /\ run = 1 /\ ~Through => FirstRun

\* A step after which main() has no gateway.
LEMMA QuietFrame ==
    ASSUME run' \in Nat \ {0}, pc' \notin {"health", "load"},
           pc' \in {"start", "engines", "block", "proxy"} \/ Saving' => cell' = 1,
           run' = 1 => (\A p \in Live' : p.kind # "gateway") /\ ~(pc' = "cell" /\ MidShared')
    PROVE  FreshInv'
<1>1. run' = 1 => FirstRun'
  BY DEF FirstRun, Measured
<1> QED  BY <1>1 DEF FreshInv

\* A step after which main() is through with its cells.
LEMMA ThroughFrame ==
    ASSUME run' \in Nat \ {0}, Through'
    PROVE  FreshInv'
<1>1. pc' \notin {"health", "load", "start", "engines", "block", "proxy"} /\ ~Saving'
  BY DEF Through, Saving
<1> QED  BY <1>1 DEF FreshInv

\* Leaving the body of main().
LEMMA LeaveGoes ==
    ASSUME NEW how, how # "none", Leave(how)
    PROVE  Through' /\ pc' \in {"saving", "closing"}
BY DEF Leave, Through

\* In a first run, whoever listens on the port of the current cell is its gateway.
LEMMA OnlyMine ==
    ASSUME \A n \in SeedCounts : n <= 50,
           OwnInv, PlaceInv, LineInv, FreshInv, run = 1, pc \in {"health", "load"},
           NEW p \in up, p.port = ThisCell.port
    PROVE  p = Gateway(ThisCell)
<1>1. /\ script \in DOMAIN Descriptors /\ cell \in DOMAIN ThisBlock.cells /\ p \in Live
      /\ cell \in Nat
  BY DEF OwnInv, BookInv, PlaceInv, Live
<1>2. Apart(ThisCell.port)
  BY <1>1, HereCell
<1>3. p.kind = "gateway"
  BY <1>1, <1>2 DEF LineInv, Lined
<1>4. p = Gateway(ThisCell) \/ LeftOver(p)
  BY <1>1, <1>3 DEF FreshInv, FirstRun, Through
<1>5. ASSUME LeftOver(p) PROVE FALSE
  <2>1. PICK k \in DOMAIN ThisBlock.cells : k < cell /\ p.port = ThisBlock.cells[k].port
    BY <1>5 DEF LeftOver
  <2>2. ThisBlock = HeteroBlock(script[2]) /\ DOMAIN ThisBlock.cells = 1 .. Len(ThisBlock.cells)
    BY <1>5, HereFacts DEF LeftOver, Plain, Leaving, Sharing
  <2>3. script[2] \in Nat /\ script[2] <= 50
    BY <1>1, PortsAssumption DEF Descriptors
  <2>4. k = cell
    BY <1>1, <2>1, <2>2, <2>3, HeteroPorts DEF ThisCell
  <2> QED  BY <1>1, <2>1, <2>4
<1> QED  BY <1>4, <1>5

\* The first cell of a block starts a gateway.
LEMMA FirstStarts ==
    ASSUME OwnInv, PlaceInv, cell = 1
    PROVE  ~MidShared
<1> SUFFICES ASSUME MidShared PROVE FALSE
  OBVIOUS
<1>1. ThisBlock = MockCells(script[2]) /\ 1 \in DOMAIN ThisBlock.cells /\ script \in DOMAIN Descriptors
  BY HereFacts DEF MidShared, Plain, Owning, Leaving, Sharing
<1>2. script[2] \in Nat
  BY <1>1, PortsAssumption DEF Descriptors
<1> QED  BY <1>1, <1>2, MockSeeds DEF MidShared, ThisCell

\* The steps before the cells of a block.
LEMMA BeforeCells ==
    ASSUME OwnInv, PlaceInv, FreshInv,
           StartEngines \/ EnginesReady \/ BeginBlock \/ ProxyReady \/ ProxyTimesOut
    PROVE  FreshInv'
<1>0. CASE Through'
  <2>1. run' = run
    BY DEF StartEngines, EnginesReady, BeginBlock, ProxyReady, ProxyTimesOut
  <2> QED  BY <1>0, <2>1, ThroughFrame DEF FreshInv
<1>  SUFFICES ASSUME ~Through' PROVE FreshInv'
  BY <1>0
<1>1. /\ UNCHANGED <<script, run, blk>> /\ pc \in {"start", "engines", "block", "proxy"}
      /\ pc' \in {"engines", "block", "proxy", "cell"}
      /\ cell' = cell \/ (pc' = "cell" /\ cell' = Len(ThisBlock.cells) + 1)
  BY LeaveGoes DEF StartEngines, EnginesReady, BeginBlock, ProxyReady, ProxyTimesOut
<1>2. The' = The /\ ThisBlock' = ThisBlock /\ cell = 1 /\ run \in Nat \ {0}
  BY <1>1 DEF The, ThisBlock, FreshInv
<1>3. ASSUME run = 1 PROVE \A p \in Live : p.kind # "gateway"
  BY <1>1, <1>3 DEF FreshInv, FirstRun, Serving, LeftOver, Through
<1>4. \A p \in Live' : p \in Live \/ p.kind # "gateway"
  <2>1. CASE StartEngines
    <3>1. Live' = Live \cup {Engines[i] : i \in DOMAIN Engines}
      BY <2>1 DEF StartEngines, Spawn, Live
    <3>2. \A i \in DOMAIN Engines : Engines[i].kind = "engine"
      BY DEF Engines, Engine
    <3> QED  BY <3>1, <3>2
  <2>2. CASE BeginBlock
    <3>1. Live' \subseteq Live \cup {Proxy}
      BY <2>2 DEF BeginBlock, Spawn, Live
    <3>2. Proxy.kind = "proxy"
      BY DEF Proxy
    <3> QED  BY <3>1, <3>2
  <2>3. CASE EnginesReady \/ ProxyReady \/ ProxyTimesOut
    BY <2>3 DEF EnginesReady, ProxyReady, ProxyTimesOut, Live
  <2> QED  BY <2>1, <2>2, <2>3
<1>5. ~MidShared'
  <2>1. CASE cell' = cell
    <3>1. ThisCell' = ThisCell
      BY <1>2, <2>1 DEF ThisCell
    <3> QED  BY <1>2, <2>1, <3>1, FirstStarts DEF MidShared
  <2>2. CASE cell' = Len(ThisBlock.cells) + 1
    BY <1>2, <2>2, HereFacts DEF MidShared
  <2> QED  BY <1>1, <2>1, <2>2
<1> QED  BY <1>1, <1>2, <1>3, <1>4, <1>5, QuietFrame DEF Saving

\* A gateway is started, or the one of the cell before it goes on, and answers.
LEMMA StartsFresh ==
    ASSUME \A n \in SeedCounts : n <= 50,
           OwnInv, PlaceInv, LineInv, FreshInv, StartGateway \/ GatewayReady
    PROVE  FreshInv'
<1> DEFINE g == Gateway(ThisCell)
<1>1. UNCHANGED <<script, run, blk, cell, up>> /\ pc \in {"cell", "health"} /\ pc' \in {"health", "load"}
  BY DEF StartGateway, GatewayReady
<1>2. The' = The /\ ThisBlock' = ThisBlock /\ ThisCell' = ThisCell /\ g' = g
  BY <1>1 DEF The, ThisBlock, ThisCell, Gateway
<1>3. run \in Nat \ {0} /\ IsList(handles)
  BY DEF FreshInv, OwnInv, BookInv
<1>4. \A p : LeftOver(p) => LeftOver(p)'
  BY <1>1, <1>2 DEF LeftOver
<1>5. Live' \subseteq Live \cup {g}
  BY DEF StartGateway, GatewayReady, Spawn, Live
<1>6. ASSUME run = 1 PROVE FirstRun
  BY <1>1, <1>6 DEF FreshInv, Through
<1> HIDE DEF g
<1>7. The.tracked = "start" => handles'[Len(handles')] = g
  <2>1. CASE StartGateway
    <3>1. The.tracked = "start" => handles' = Append(handles, g)
      BY <2>1, HereFacts DEF StartGateway, StartsOne, g
    <3> QED  BY <1>3, <3>1 DEF IsList
  <2>2. CASE GatewayReady
    <3>1. pc = "health" /\ (The.tracked = "start" => handles' = handles)
      BY <2>2 DEF GatewayReady
    <3> QED  BY <3>1 DEF FreshInv, g
  <2> QED  BY <2>1, <2>2
<1>8. ASSUME run = 1, pc' = "load" PROVE g \in up
  <2>1. CASE StartGateway
    <3>1. pc = "cell" /\ MidShared
      BY <1>8, <2>1 DEF StartGateway, StartsOne, MidShared
    <3> QED  BY <1>6, <1>8, <3>1 DEF FirstRun, Measured, g
  <2>2. CASE GatewayReady
    <3>1. pc = "health" /\ \E p \in up : p.port = ThisCell.port
      BY <2>2 DEF GatewayReady, Answers
    <3> QED  BY <1>8, <3>1, OnlyMine DEF g
  <2> QED  BY <2>1, <2>2
<1>9. ASSUME run = 1 PROVE FirstRun'
  <2>1. \A p \in Live' : p.kind = "gateway" => p = g \/ LeftOver(p)'
    BY <1>4, <1>5, <1>6, <1>9 DEF FirstRun, g
  <2>2. Serving' /\ (Measured' => pc' = "load")
    BY <1>1 DEF Serving, Measured
  <2>3. Gateway(ThisCell)' = g
    BY <1>2 DEF g
  <2> QED  BY <1>1, <1>8, <1>9, <2>1, <2>2, <2>3 DEF FirstRun
<1> QED  BY <1>1, <1>2, <1>3, <1>7, <1>9 DEF FreshInv, Saving, g

\* A teardown stops the gateway of the cell.
LEMMA TeardownStops ==
    ASSUME FreshInv, pc \in {"health", "load"}, NEW how \in {"kill", "pop", "remove"},
           how = "pop" => The.tracked = "start", Teardown(how, Gateway(ThisCell))
    PROVE  Live' = Live \ {Gateway(ThisCell)}
<1> DEFINE g == Gateway(ThisCell)
<1>1. Kill({g})
  <2>1. CASE how = "pop"
    <3>1. handles[Len(handles)] = g
      BY <2>1 DEF FreshInv
    <3> QED  BY <2>1, <3>1 DEF Teardown
  <2>2. CASE how \in {"kill", "remove"}
    BY <2>2 DEF Teardown
  <2> QED  BY <2>1, <2>2
<1> HIDE DEF g
<1>2. Live' = Live \ {g}
  BY <1>1 DEF Kill, Live
<1> QED  BY <1>2 DEF g

\* A gateway given up on is stopped, or left over.
LEMMA TimeOutFresh ==
    ASSUME OwnInv, PlaceInv, FreshInv, GatewayTimesOut
    PROVE  FreshInv'
<1> DEFINE g == Gateway(ThisCell)
<1>1. /\ UNCHANGED <<script, run, blk>> /\ pc = "health" /\ (pc' = "cell" \/ Through')
      /\ pc' = "cell" => /\ cell' = cell + 1 /\ Teardown(ThisBlock.failed, g)
                         /\ ThisBlock.failed \notin {"return", "raise"}
  BY LeaveGoes DEF GatewayTimesOut, CellAfterFailure
<1>2. The' = The /\ ThisBlock' = ThisBlock /\ run \in Nat \ {0} /\ cell \in Nat /\ cell \in DOMAIN ThisBlock.cells
  BY <1>1 DEF The, ThisBlock, FreshInv, PlaceInv
<1>3. CASE Through'
  BY <1>1, <1>2, <1>3, ThroughFrame
<1>4. CASE pc' = "cell" /\ run # 1
  BY <1>1, <1>2, <1>4, QuietFrame DEF Saving
<1>5. CASE pc' = "cell" /\ run = 1
  <2>1. FirstRun
    BY <1>1, <1>5 DEF FreshInv, Through
  <2>2. \/ Plain(ThisBlock) /\ The.tracked = "start"
        \/ Leaving(ThisBlock, script[2]) /\ The.tracked = "start"
    BY <1>1, <1>5, HereFacts DEF Sharing
  <2>3. ~MidShared'
    BY <1>2, <2>2 DEF MidShared, Plain, Leaving, Owning
  <2>4. CASE Plain(ThisBlock)
    <3>1. ThisBlock.failed \in {"kill", "pop", "remove"} /\ ThisBlock.failed # "leave"
      BY <1>1, <1>5, <2>4 DEF Plain
    <3>2. Live' = Live \ {g}
      BY <1>1, <1>5, <2>2, <3>1, TeardownStops
    <3>3. \A p \in Live : p.kind = "gateway" => p = g
      BY <2>1, <3>1 DEF FirstRun, LeftOver
    <3> QED  BY <1>1, <1>2, <1>5, <2>3, <3>2, <3>3, QuietFrame DEF Saving
  <2>5. CASE Leaving(ThisBlock, script[2])
    <3>1. ThisBlock.failed = "leave" /\ Live' = Live
      BY <1>1, <1>5, <2>5 DEF Leaving, Teardown, Live
    <3>2. g.port = ThisCell.port /\ ThisCell = ThisBlock.cells[cell]
      BY DEF Gateway, ThisCell
    <3> HIDE DEF g
    <3>3. cell' \in Nat /\ \A k \in DOMAIN ThisBlock.cells : k < cell \/ k = cell => k < cell'
      BY <1>1, <1>2, <1>5, HereFacts
    <3>4. ASSUME NEW p, LeftOver(p) \/ p = g PROVE LeftOver(p)'
      <4>1. PICK k \in DOMAIN ThisBlock.cells : (k < cell \/ k = cell) /\ p.port = ThisBlock.cells[k].port
        BY <1>2, <3>2, <3>4 DEF LeftOver
      <4>2. k < cell'
        BY <3>3, <4>1
      <4> QED  BY ONLY <1>2, <1>5, <3>1, <4>1, <4>2 DEF LeftOver
    <3>5. FirstRun'
      <4>1. \A p \in Live' : p.kind = "gateway" => LeftOver(p)'
        BY <2>1, <3>1, <3>4 DEF FirstRun, g
      <4>2. ~Measured'
        BY <1>5, <2>3 DEF Measured
      <4> QED  BY <4>1, <4>2 DEF FirstRun
    <3> QED  BY <1>1, <1>2, <1>5, <3>5 DEF FreshInv, Saving
  <2> QED  BY <2>2, <2>4, <2>5
<1> QED  BY <1>1, <1>3, <1>4, <1>5

\* After its load a gateway is stopped, unless the next cell has the same one.
LEMMA LoadFresh ==
    ASSUME OwnInv, PlaceInv, FreshInv, NEW result, Load(result)
    PROVE  FreshInv'
<1> DEFINE g == Gateway(ThisCell)
           how == IF StopsOne THEN ThisBlock.done ELSE "leave"
<1>1. /\ UNCHANGED <<script, run, blk>> /\ pc = "load" /\ (pc' = "cell" \/ Through')
      /\ pc' = "cell" => cell' = cell + 1 /\ Teardown(how, g)
  BY LeaveGoes DEF Load
<1>2. /\ The' = The /\ ThisBlock' = ThisBlock /\ run \in Nat \ {0} /\ cell \in Nat \ {0}
      /\ cell \in DOMAIN ThisBlock.cells /\ script \in DOMAIN Descriptors
      /\ Len(ThisBlock.cells) \in Nat /\ DOMAIN ThisBlock.cells = 1 .. Len(ThisBlock.cells)
  BY <1>1, HereFacts DEF The, ThisBlock, FreshInv, PlaceInv
<1>3. CASE Through'
  BY <1>1, <1>2, <1>3, ThroughFrame
<1>4. CASE pc' = "cell" /\ run # 1
  BY <1>1, <1>2, <1>4, QuietFrame DEF Saving
<1>5. CASE pc' = "cell" /\ run = 1
  <2>1. FirstRun /\ g \in up
    BY <1>1, <1>5 DEF FreshInv, FirstRun, Measured, Through
  <2>2. CASE The.tracked = "start" /\ Owning(ThisBlock)
    <3>1. how \in {"kill", "pop", "remove"} /\ ~MidShared'
      BY <1>2, <2>2 DEF StopsOne, Owning, MidShared
    <3>2. Live' = Live \ {g}
      BY <1>1, <1>5, <2>2, <3>1, TeardownStops
    <3>3. ASSUME NEW p, LeftOver(p) PROVE LeftOver(p)'
      <4>1. PICK k \in DOMAIN ThisBlock.cells : k < cell /\ p.port = ThisBlock.cells[k].port
        BY <3>3 DEF LeftOver
      <4>2. k < cell'
        BY <1>1, <1>2, <1>5, <4>1
      <4> QED  BY <1>2, <1>5, <3>3, <4>1, <4>2 DEF LeftOver
    <3>4. FirstRun'
      <4>1. \A p \in Live' : p.kind = "gateway" => LeftOver(p)'
        BY <2>1, <3>2, <3>3 DEF FirstRun
      <4>2. ~Measured'
        BY <1>5, <3>1 DEF Measured
      <4> QED  BY <4>1, <4>2 DEF FirstRun
    <3> QED  BY <1>1, <1>2, <1>5, <3>4 DEF FreshInv, Saving
  <2>3. CASE Sharing(ThisBlock, script[2])
    <3> DEFINE cells == ThisBlock.cells
    <3>1. /\ ThisBlock.shared
          /\ cell + 1 \in DOMAIN cells =>
                /\ cells[cell + 1].port = cells[cell].port
                /\ cells[cell + 1].config = cells[cell].config <=> cells[cell + 1].seed # 0
      <4>1. script[2] \in Nat /\ ThisBlock = MockCells(script[2])
        BY <1>2, <2>3, PortsAssumption DEF Descriptors, Sharing
      <4>2. cell \in DOMAIN MockCells(script[2]).cells
        BY ONLY <1>2, <4>1
      <4> HIDE DEF cells
      <4>3. cells = MockCells(script[2]).cells
        BY <4>1 DEF cells
      <4> QED  BY ONLY <4>1, <4>2, <4>3, MockSeeds
    <3>2. /\ ThisBlock.done = "remove" /\ ThisBlock.failed = "raise"
          /\ \A p \in Live : p.kind = "gateway" => p = g
      BY <2>1, <2>3 DEF Sharing, FirstRun, LeftOver
    <3>3. ThisCell = cells[cell] /\ ThisCell' = cells[cell + 1]
      BY <1>1, <1>2, <1>5 DEF ThisCell
    <3>4. CASE StopsOne
      <4>1. Live' = Live \ {g}
        BY <1>1, <1>5, <3>2, <3>4, TeardownStops
      <4>2. ~MidShared'
        <5>1. cell < Len(cells) => cells[cell + 1].config # cells[cell].config
          BY <3>1, <3>3, <3>4 DEF StopsOne
        <5>2. cell' = cell + 1 /\ (cell + 1 <= Len(cells) => cell + 1 \in DOMAIN cells /\ cell < Len(cells))
          BY <1>1, <1>2, <1>5
        <5> QED  BY <1>2, <3>1, <3>3, <5>1, <5>2 DEF MidShared
      <4> QED  BY <1>1, <1>2, <1>5, <3>2, <4>1, <4>2, QuietFrame DEF Saving
    <3>5. CASE ~StopsOne
      <4>1. cell + 1 \in DOMAIN cells /\ cells[cell + 1].config = cells[cell].config
        BY <1>2, <3>1, <3>3, <3>5 DEF StopsOne
      <4>2. cells[cell + 1].port = cells[cell].port /\ cells[cell + 1].seed # 0
        BY <3>1, <4>1
      <4>3. MidShared'
        BY <1>1, <1>2, <1>5, <3>1, <3>3, <4>1, <4>2 DEF MidShared
      <4>4. Gateway(ThisCell)' = g
        BY <1>1, <1>2, <3>1, <3>3, <4>1, <4>2 DEF Gateway
      <4>5. UNCHANGED <<booting, up>>
        BY <1>1, <1>5, <3>5 DEF Teardown
      <4>6. Serving' /\ Live' = Live
        BY <1>5, <4>3, <4>5 DEF Serving, Live
      <4>7. FirstRun'
        BY <2>1, <3>2, <4>4, <4>5, <4>6 DEF FirstRun
      <4> QED  BY <1>1, <1>2, <1>5, <4>7 DEF FreshInv, Saving
    <3> QED  BY <3>4, <3>5
  <2> QED  BY <2>2, <2>3, HereFacts DEF Plain, Leaving
<1> QED  BY <1>1, <1>3, <1>4, <1>5

\* No step brings a gateway to a first run that is not the one of its cell.
LEMMA FreshStep ==
    ASSUME \A n \in SeedCounts : n <= 50
    PROVE  OwnInv /\ PlaceInv /\ LineInv /\ FreshInv /\ [SuiteNext]_suiteVars => FreshInv'
<1> SUFFICES ASSUME OwnInv, PlaceInv, LineInv, FreshInv, [SuiteNext]_suiteVars PROVE FreshInv'
  OBVIOUS
<1>1. run \in Nat \ {0}
  BY DEF FreshInv
<1>2. CASE EnginesTimeOut \/ Close \/ Interrupt \/ InterruptInStart \/ InterruptInTeardown \/ HardKill
  <2>1. run' = run /\ Through'
    <3>1. CASE EnginesTimeOut \/ Interrupt \/ InterruptInStart \/ InterruptInTeardown
      BY <3>1, LeaveGoes DEF EnginesTimeOut, Interrupt, InterruptInStart, InterruptInTeardown
    <3>2. CASE Close
      BY <3>2 DEF Close, WritesLate, Through
    <3>3. CASE HardKill
      BY <3>3 DEF HardKill, Through
    <3> QED  BY <1>2, <3>1, <3>2, <3>3
  <2> QED  BY <1>1, <2>1, ThroughFrame
<1>3. CASE Rerun
  <2>1. run' = run + 1 /\ pc' = "start" /\ cell' = 1
    BY <1>3 DEF Rerun
  <2> QED  BY <1>1, <2>1, QuietFrame DEF Saving
<1>4. CASE EndBlock
  <2>1. /\ UNCHANGED <<run, booting, up>> /\ pc = "cell" /\ cell' = 1 /\ cell > Len(ThisBlock.cells)
        /\ Through' \/ (pc' = "block" /\ blk < Len(The.blocks)) \/ (pc' = "saving" /\ blk > 1)
    BY <1>4, LeaveGoes DEF EndBlock, Advance
  <2>2. CASE Through'
    BY <1>1, <2>1, <2>2, ThroughFrame
  <2>3. ASSUME run = 1, ~Through' PROVE \A p \in Live' : p.kind # "gateway"
    <3> DEFINE last == Len(The.blocks)
    <3>1. last \in Nat /\ blk \in 1 .. last /\ (blk < last \/ blk > 1)
      BY <2>1, <2>3, HereFacts DEF PlaceInv
    <3> HIDE DEF last
    <3>2. last # 1
      BY ONLY <3>1
    <3>3. ThisBlock.failed # "leave"
      BY <3>2, HereFacts DEF Plain, Sharing, last
    <3>4. cell \in Nat /\ Len(ThisBlock.cells) \in Nat
      BY HereFacts DEF PlaceInv
    <3>5. ~MidShared
      BY <2>1, <3>4 DEF MidShared
    <3>6. FirstRun /\ Live' = Live
      BY <2>1, <2>3 DEF FreshInv, Live, Through
    <3> QED  BY <2>1, <3>3, <3>5, <3>6 DEF FirstRun, Serving, LeftOver
  <2> QED  BY <1>1, <2>1, <2>2, <2>3, QuietFrame
<1>10. CASE OpenSummary \/ WriteSummary
  <2>1. /\ UNCHANGED <<run, cell, booting, up>> /\ pc \in {"saving", "writing"}
        /\ Through' \/ (outcome = "none" /\ pc' \in {"writing", "block"})
    BY <1>10, LeaveGoes DEF OpenSummary, WriteSummary, Advance, Through
  <2>2. CASE Through'
    BY <1>1, <2>1, <2>2, ThroughFrame
  <2>3. CASE outcome = "none" /\ pc' \in {"writing", "block"}
    <3>1. Saving /\ ~Through /\ cell' = 1 /\ Live' = Live
      BY <2>1, <2>3 DEF Saving, Through, FreshInv, Live
    <3>2. run = 1 => \A p \in Live : p.kind # "gateway"
      BY <2>1, <3>1 DEF FreshInv, FirstRun, Serving, LeftOver
    <3> QED  BY <1>1, <2>1, <2>3, <3>1, <3>2, QuietFrame
  <2> QED  BY <2>1, <2>2, <2>3
<1>5. CASE (\E p \in booting : Boots(p)) \/ UNCHANGED suiteVars
  <2>1. UNCHANGED <<script, run, pc, blk, cell, handles, outcome>> /\ Live' \subseteq Live /\ up \subseteq up'
    BY <1>5 DEF Boots, Live, suiteVars
  <2>2. The' = The /\ ThisBlock' = ThisBlock /\ ThisCell' = ThisCell
    BY <2>1 DEF The, ThisBlock, ThisCell
  <2>3. Gateway(ThisCell)' = Gateway(ThisCell)
    BY <2>1, <2>2 DEF Gateway
  <2>4. (Serving <=> Serving') /\ (Measured <=> Measured') /\ \A p : LeftOver(p) => LeftOver(p)'
    BY <2>1, <2>2 DEF Serving, Measured, MidShared, LeftOver
  <2>5. FirstRun => FirstRun'
    BY <2>1, <2>3, <2>4 DEF FirstRun
  <2> QED  BY <2>1, <2>2, <2>3, <2>5 DEF FreshInv, Saving, Through
<1>6. CASE GatewayTimesOut
  BY <1>6, TimeOutFresh
<1>7. CASE \E result \in ClusterLoad : Load(result)
  BY <1>7, LoadFresh
<1>8. CASE StartGateway \/ GatewayReady
  BY <1>8, StartsFresh
<1>9. CASE StartEngines \/ EnginesReady \/ BeginBlock \/ ProxyReady \/ ProxyTimesOut
  BY <1>9, BeforeCells
<1> QED  BY <1>2, <1>3, <1>4, <1>5, <1>6, <1>7, <1>8, <1>9, <1>10 DEF SuiteNext, MainStep

\* In a run that no killed run preceded, the gateway a cell is measured on is the
\* one started for it, for every script and up to fifty seeds: from fifty-one on,
\* run_real_hetero_multiseed.py gives the first cell of round robin the port of the
\* last one of nlms, whose gateway it may have left running.
THEOREM EveryCellIsFresh ==
    ASSUME \A n \in SeedCounts : n <= 50
    PROVE  SuiteSpec => []FreshGateway
<1>1. SuiteInit => FreshInv
  <2> SUFFICES ASSUME SuiteInit PROVE FreshInv
    OBVIOUS
  <2>1. run = 1 /\ pc = "start" /\ cell = 1 /\ Live = {}
    BY DEF SuiteInit, Live
  <2> QED  BY <2>1 DEF FreshInv, FirstRun, Measured, Saving
<1>2. OwnInv /\ PlaceInv /\ LineInv /\ FreshInv => FreshGateway
  <2> SUFFICES ASSUME OwnInv, PlaceInv, LineInv, FreshInv, pc = "load", run = 1
               PROVE  {p \in up : p.port = ThisCell.port} = {Gateway(ThisCell)}
    BY DEF FreshGateway
  <2>1. Gateway(ThisCell) \in up
    BY DEF FreshInv, FirstRun, Measured, Through
  <2>2. Gateway(ThisCell).port = ThisCell.port
    BY DEF Gateway
  <2>3. \A p \in up : p.port = ThisCell.port => p = Gateway(ThisCell)
    BY OnlyMine
  <2> QED  BY <2>1, <2>2, <2>3
<1> QED  BY <1>1, <1>2, OwnStart, OwnStep, PlaceStart, PlaceStep, LineStep, FreshStep, PTL DEF SuiteSpec

-----------------------------------------------------------------------------
(* The comparisons pair rows of one workload.                              *)

\* The cells of a block: every configuration in turn, every seed of it in turn.
Laid(cells, configs, n) ==
    /\ DOMAIN cells = 1 .. Len(configs) * n
    /\ \A k \in DOMAIN cells :
          cells[k].config = configs[((k - 1) \div n) + 1] /\ cells[k].seed = (k - 1) % n

\* Among the cells of its configuration, that of a seed comes at the index of the seed.
LEMMA LaidIndex ==
    ASSUME NEW n \in Nat, NEW configs, Len(configs) \in Nat,
           \A i, j \in 1 .. Len(configs) : configs[i] = configs[j] => i = j,
           NEW cells, Laid(cells, configs, n), NEW k \in DOMAIN cells
    PROVE  Cardinality({j \in 1 .. k : cells[j].config = cells[k].config}) = cells[k].seed + 1
<1> DEFINE m == Len(configs)
           c(i) == (i - 1) \div n
           s(i) == (i - 1) % n
<1>1. /\ m \in Nat /\ k \in 1 .. m * n
      /\ \A i \in 1 .. m * n : cells[i].config = configs[c(i) + 1] /\ cells[i].seed = s(i)
  BY DEF Laid
<1>2. ASSUME NEW i \in 1 .. m * n
      PROVE  c(i) \in 0 .. m - 1 /\ s(i) \in 0 .. n - 1 /\ i - 1 = (n * c(i)) + s(i)
  BY ONLY n \in Nat, <1>1, <1>2, CellPlace
<1>3. \A i, j \in 1 .. m : configs[i] = configs[j] => i = j
  OBVIOUS
<1>4. m * n \in Nat /\ k \in Nat /\ \A j \in 1 .. k : j \in 1 .. m * n
  BY <1>1
<1> HIDE DEF m, c, s
<1>5. ASSUME NEW j \in 1 .. k PROVE cells[j].config = cells[k].config <=> c(j) = c(k)
  <2>1. /\ c(j) + 1 \in 1 .. m /\ c(k) + 1 \in 1 .. m /\ c(j) \in Nat /\ c(k) \in Nat
        /\ cells[j].config = configs[c(j) + 1] /\ cells[k].config = configs[c(k) + 1]
    BY ONLY <1>1, <1>2, <1>4
  <2>2. c(j) + 1 = c(k) + 1 => c(j) = c(k)
    BY ONLY <2>1
  <2> QED  BY ONLY <1>3, <2>1, <2>2
<1> DEFINE first == n * c(k)
<1>6. first \in Nat /\ k - 1 = first + s(k) /\ s(k) \in 0 .. n - 1 /\ c(k) \in Nat
  BY ONLY n \in Nat, <1>1, <1>2
<1> HIDE DEF first
<1>7. ASSUME NEW j \in 1 .. k PROVE c(j) = c(k) <=> j - 1 >= first
  <2>1. c(j) \in Nat /\ s(j) \in 0 .. n - 1 /\ j - 1 = (n * c(j)) + s(j) /\ j \in Nat /\ j <= k
    BY ONLY <1>1, <1>2, <1>4, <1>7
  <2>2. CASE c(j) = c(k)
    BY ONLY <1>6, <2>1, <2>2 DEF first
  <2>3. CASE c(j) < c(k)
    <3>1. PICK d \in Nat : c(k) = (c(j) + 1) + d
      <4>1. c(k) - (c(j) + 1) \in Nat /\ c(k) = (c(j) + 1) + (c(k) - (c(j) + 1))
        BY ONLY <1>6, <2>1, <2>3
      <4> QED  BY ONLY <4>1
    <3>2. first = (n * c(j)) + n + (n * d) /\ n * d \in Nat /\ n * c(j) \in Nat
      <4>1. n * ((c(j) + 1) + d) = (n * c(j)) + n + (n * d)
        BY ONLY n \in Nat, <2>1, d \in Nat
      <4> QED  BY ONLY n \in Nat, <2>1, d \in Nat, <3>1, <4>1 DEF first
    <3> QED  BY ONLY n \in Nat, <1>6, <2>1, <2>3, <3>2
  <2>4. CASE c(j) > c(k)
    <3>1. PICK d \in Nat : c(j) = (c(k) + 1) + d
      <4>1. c(j) - (c(k) + 1) \in Nat /\ c(j) = (c(k) + 1) + (c(j) - (c(k) + 1))
        BY ONLY <1>6, <2>1, <2>4
      <4> QED  BY ONLY <4>1
    <3>2. n * c(j) = first + n + (n * d) /\ n * d \in Nat
      <4>1. n * ((c(k) + 1) + d) = (n * c(k)) + n + (n * d)
        BY ONLY n \in Nat, <1>6, d \in Nat
      <4> QED  BY ONLY n \in Nat, d \in Nat, <3>1, <4>1 DEF first
    <3> DEFINE x == n * c(j)
               y == n * d
    <3>3. x = first + n + y /\ y \in Nat /\ j - 1 = x + s(j)
      BY ONLY <2>1, <3>2
    <3> HIDE DEF x, y
    <3>4. FALSE
      BY ONLY n \in Nat, <1>4, <1>6, <2>1, <3>3
    <3> QED  BY ONLY <3>4
  <2> QED  BY ONLY <1>6, <2>1, <2>2, <2>3, <2>4
<1>8. {j \in 1 .. k : cells[j].config = cells[k].config} = (first + 1) .. k
  BY <1>4, <1>5, <1>6, <1>7
<1>9. Cardinality((first + 1) .. k) = s(k) + 1
  <2> HIDE DEF first
  <2>1. first \in Nat /\ s(k) \in Nat /\ k - 1 = first + s(k) /\ k \in Nat
    BY ONLY n \in Nat, <1>4, <1>6
  <2>2. first + 1 \in Int /\ k \in Int /\ first + 1 <= k /\ k - (first + 1) + 1 = s(k) + 1
    BY ONLY <2>1
  <2> QED  BY ONLY <2>2, FS_Interval
<1> QED  BY <1>1, <1>8, <1>9

\* A block that pairs its rows has cells laid out in turn, of configurations that
\* differ, each of them in a comparison.
Compared(b, n) ==
    \E configs :
        /\ Len(configs) \in Nat /\ Laid(b.cells, configs, n)
        /\ \A i, j \in 1 .. Len(configs) : configs[i] = configs[j] => i = j
        /\ \A i \in 1 .. Len(configs) : \E pair \in b.compares : configs[i] \in {pair[1], pair[2]}
BySeed(b) == b.seeding = "seed" /\ b.pairing = "index"
Pairing(b, n) == b.compares = {} \/ (Compared(b, n) /\ BySeed(b))

\* Two configurations compared with each other.
LEMMA TwoCompared ==
    ASSUME NEW b, NEW n \in Nat, NEW one, NEW two, one # two,
           b.compares = {<<one, two>>}, BySeed(b), Laid(b.cells, <<one, two>>, n)
    PROVE  Pairing(b, n)
<1> DEFINE configs == <<one, two>>
<1>1. Len(configs) = 2 /\ configs[1] = one /\ configs[2] = two
  OBVIOUS
<1>2. \A i, j \in 1 .. Len(configs) : configs[i] = configs[j] => i = j
  BY <1>1
<1>3. \A i \in 1 .. Len(configs) : \E pair \in b.compares : configs[i] \in {pair[1], pair[2]}
  BY <1>1
<1>4. Laid(b.cells, configs, n) /\ Len(configs) \in Nat
  OBVIOUS
<1> HIDE DEF configs
<1>5. Compared(b, n)
  BY ONLY <1>2, <1>3, <1>4 DEF Compared
<1> QED  BY <1>5 DEF Pairing

\* The blocks of run_gpu_cluster_validation.py.
LEMMA ClusterPairing ==
    ASSUME NEW n \in Nat
    PROVE  /\ Pairing(ClusterG1, n) /\ Pairing(ClusterG2(n), n) /\ Pairing(ClusterG3(n), n)
           /\ Pairing(ClusterG4(n), n) /\ Pairing(ClusterG5, n) /\ Pairing(ClusterG7, n)
<1>1. Pairing(ClusterG1, n)
  BY DEF Pairing, ClusterG1, Block
<1>2. Pairing(ClusterG2(n), n)
  BY DEF Pairing, ClusterG2, Block
<1>3. Pairing(ClusterG3(n), n)
  <2>1. ClusterG3(n).compares = {<<"hetero_nlms", "hetero_rr">>} /\ BySeed(ClusterG3(n))
    BY DEF ClusterG3, Block, BySeed
  <2>2. Laid(ClusterG3(n).cells, <<"hetero_nlms", "hetero_rr">>, n)
    BY DEF ClusterG3, Block, Cells, Laid
  <2> QED  BY ONLY n \in Nat, <2>1, <2>2, "hetero_nlms" # "hetero_rr", TwoCompared
<1>4. Pairing(ClusterG4(n), n)
  BY DEF Pairing, ClusterG4, Block
<1>5. Pairing(ClusterG5, n)
  BY DEF Pairing, ClusterG5, Block
<1>6. Pairing(ClusterG7, n)
  BY DEF Pairing, ClusterG7, Block
<1> QED  BY <1>1, <1>2, <1>3, <1>4, <1>5, <1>6

\* The blocks of run_gpu_abc_suite.py.
LEMMA AbcPairing ==
    ASSUME NEW n \in Nat
    PROVE  /\ Pairing(AbcG1(n), n) /\ Pairing(AbcG2(n), n) /\ Pairing(AbcG2b(n), n)
           /\ Pairing(AbcG3(n), n) /\ Pairing(AbcG4(n), n)
<1>1. Pairing(AbcG1(n), n)
  <2> DEFINE configs == <<"hybrid_on", "metrics_only", "affinity_only", "hybrid_off", "rr">>
  <2>1. Laid(AbcG1(n).cells, configs, n)
    BY DEF AbcG1, AbcBlock, Block, Cells, Laid
  <2>2. \A c \in {"hybrid_off", "affinity_only", "metrics_only", "rr"} : <<"hybrid_on", c>> \in AbcG1(n).compares
    BY DEF AbcG1, AbcBlock, Block
  <2>3. /\ Len(configs) = 5 /\ configs[1] = "hybrid_on" /\ configs[2] = "metrics_only"
        /\ configs[3] = "affinity_only" /\ configs[4] = "hybrid_off" /\ configs[5] = "rr"
    OBVIOUS
  <2> HIDE DEF configs
  <2>4. \A i, j \in 1 .. Len(configs) : configs[i] = configs[j] => i = j
    BY ONLY <2>3
  <2>5. ASSUME NEW i \in 1 .. Len(configs)
        PROVE  \E pair \in AbcG1(n).compares : configs[i] \in {pair[1], pair[2]}
    <3>1. i \in {1, 2, 3, 4, 5}
      BY <2>3
    <3>2. CASE i = 1
      BY ONLY <2>2, <2>3, <3>2
    <3>3. CASE i \in {2, 3, 4, 5}
      <4>1. configs[i] \in {"hybrid_off", "affinity_only", "metrics_only", "rr"}
        BY ONLY <2>3, <3>3
      <4> DEFINE pair == <<"hybrid_on", configs[i]>>
      <4>2. pair \in AbcG1(n).compares /\ pair[2] = configs[i]
        BY ONLY <2>2, <4>1
      <4> QED  BY ONLY <4>2
    <3> QED  BY ONLY <3>1, <3>2, <3>3
  <2>6. Len(configs) \in Nat
    BY <2>3
  <2>7. BySeed(AbcG1(n))
    BY DEF AbcG1, AbcBlock, Block, BySeed
  <2> QED  BY ONLY <2>1, <2>4, <2>5, <2>6, <2>7 DEF Pairing, Compared
<1>2. Pairing(AbcG2(n), n)
  BY DEF Pairing, AbcG2, AbcBlock, Block
<1>3. Pairing(AbcG2b(n), n)
  BY DEF Pairing, AbcG2b, AbcBlock, Block
<1>4. Pairing(AbcG3(n), n)
  BY DEF Pairing, AbcG3, AbcBlock, Block
<1>5. Pairing(AbcG4(n), n)
  BY DEF Pairing, AbcG4, AbcBlock, Block
<1> QED  BY <1>1, <1>2, <1>3, <1>4, <1>5

\* The blocks of the regime D, real heterogeneous, post D and mock scripts.
LEMMA OthersPairing ==
    ASSUME NEW n \in Nat
    PROVE  /\ Pairing(RegimeD1(n), n) /\ Pairing(RegimeD2(n), n) /\ Pairing(RegimeD3(n), n)
           /\ Pairing(HeteroBlock(n), n) /\ Pairing(PostDiscovery, n) /\ Pairing(PostExtraD1(n), n)
           /\ Pairing(MockCells(n), n)
<1>1. Pairing(RegimeD1(n), n)
  <2>1. RegimeD1(n).compares = {<<"nlms", "round_robin">>} /\ BySeed(RegimeD1(n))
    BY DEF RegimeD1, OneSeed, Block, BySeed
  <2>2. Laid(RegimeD1(n).cells, <<"nlms", "round_robin">>, n)
    BY DEF RegimeD1, OneSeed, Block, Cells, Laid
  <2> QED  BY ONLY n \in Nat, <2>1, <2>2, "nlms" # "round_robin", TwoCompared
<1>2. Pairing(RegimeD2(n), n)
  BY DEF Pairing, RegimeD2, OneSeed, Block
<1>3. Pairing(RegimeD3(n), n)
  BY DEF Pairing, RegimeD3, OneSeed, Block
<1>4. Pairing(HeteroBlock(n), n)
  <2>1. HeteroBlock(n).compares = {<<"nlms", "round_robin">>} /\ BySeed(HeteroBlock(n))
    BY DEF HeteroBlock, Block, BySeed
  <2>2. Laid(HeteroBlock(n).cells, <<"nlms", "round_robin">>, n)
    BY DEF HeteroBlock, Block, Cells, Laid
  <2> QED  BY ONLY n \in Nat, <2>1, <2>2, "nlms" # "round_robin", TwoCompared
<1>5. Pairing(PostDiscovery, n)
  BY DEF Pairing, PostDiscovery, Block
<1>6. Pairing(PostExtraD1(n), n)
  BY DEF Pairing, PostExtraD1, Block
<1>7. Pairing(MockCells(n), n)
  <2>1. MockCells(n).compares = {<<"c1_nlms", "c1_round_robin">>} /\ BySeed(MockCells(n))
    BY DEF MockCells, Block, BySeed
  <2>2. Laid(MockCells(n).cells, <<"c1_nlms", "c1_round_robin">>, n)
    BY DEF MockCells, Block, Cells, Laid
  <2> QED  BY ONLY n \in Nat, <2>1, <2>2, "c1_nlms" # "c1_round_robin", TwoCompared
<1> QED  BY <1>1, <1>2, <1>3, <1>4, <1>5, <1>6, <1>7

\* Every block of every script but workshop pairs all of its rows or none.
LEMMA PairingFacts ==
    ASSUME NEW s \in DOMAIN Descriptors, s[1] # "workshop", NEW b \in DOMAIN Descriptors[s].blocks
    PROVE  Pairing(Descriptors[s].blocks[b], s[2])
<1> DEFINE n == s[2]
<1>1. s \in ScriptNames \X SeedCounts /\ n \in Nat
  BY PortsAssumption DEF Descriptors
<1> SUFFICES Pairing(Descriptors[s].blocks[b], n)
  OBVIOUS
<1> HIDE DEF n
<1>2. CASE s[1] = "cluster"
  <2>1. Descriptors[s] = ClusterScript(n)
    BY <1>1, <1>2 DEF Descriptors, n
  <2>2. \A i \in DOMAIN ClusterScript(n).blocks : Pairing(ClusterScript(n).blocks[i], n)
    BY <1>1, ClusterPairing DEF ClusterScript
  <2> QED  BY <2>1, <2>2
<1>4. CASE s[1] = "abc"
  <2>1. Descriptors[s] = AbcScript(n)
    BY <1>1, <1>4 DEF Descriptors, n
  <2>2. \A i \in DOMAIN AbcScript(n).blocks : Pairing(AbcScript(n).blocks[i], n)
    BY <1>1, AbcPairing DEF AbcScript
  <2> QED  BY <2>1, <2>2
<1>5. CASE s[1] = "regime_d"
  <2>1. Descriptors[s] = RegimeScript(n)
    BY <1>1, <1>5 DEF Descriptors, n
  <2>2. \A i \in DOMAIN RegimeScript(n).blocks : Pairing(RegimeScript(n).blocks[i], n)
    BY <1>1, OthersPairing DEF RegimeScript
  <2> QED  BY <2>1, <2>2
<1>6. CASE s[1] = "hetero"
  <2>1. Descriptors[s] = HeteroScript(n)
    BY <1>1, <1>6 DEF Descriptors, n
  <2>2. \A i \in DOMAIN HeteroScript(n).blocks : Pairing(HeteroScript(n).blocks[i], n)
    BY <1>1, OthersPairing DEF HeteroScript
  <2> QED  BY <2>1, <2>2
<1>7. CASE s[1] = "post_d"
  <2>1. Descriptors[s] = PostScript(n)
    BY <1>1, <1>7 DEF Descriptors, n
  <2>2. \A i \in DOMAIN PostScript(n).blocks : Pairing(PostScript(n).blocks[i], n)
    BY <1>1, OthersPairing DEF PostScript
  <2> QED  BY <2>1, <2>2
<1>8. CASE s[1] = "mock_hetero"
  <2>1. Descriptors[s] = MockScript(n)
    BY <1>1, <1>8 DEF Descriptors, n
  <2>2. \A i \in DOMAIN MockScript(n).blocks : Pairing(MockScript(n).blocks[i], n)
    BY <1>1, OthersPairing DEF MockScript
  <2> QED  BY <2>1, <2>2
<1> QED  BY <1>1, <1>2, <1>4, <1>5, <1>6, <1>7, <1>8 DEF ScriptNames

\* In a block that pairs its rows every cell leaves a row, at the position of the cell.
RowsInv ==
    /\ pc \in {"start", "engines", "block", "proxy"} \/ Saving => rows = <<>> /\ cell = 1
    /\ pc \in {"cell", "health", "load"} /\ script[1] # "workshop" /\ ThisBlock.compares # {} =>
          /\ IsList(rows) /\ Len(rows) <= Len(ThisBlock.cells)
          /\ Len(rows) = cell - 1 \/ (Len(rows) = 0 /\ cell > Len(ThisBlock.cells))
          /\ \A k \in 1 .. Len(rows) : /\ rows[k].config = ThisBlock.cells[k].config
                                       /\ rows[k].seed = ThisBlock.cells[k].seed

\* The block main() is in pairs all of its rows or none.
LEMMA HerePairing ==
    ASSUME OwnInv, PlaceInv, script[1] # "workshop", ThisBlock.compares # {}
    PROVE  script[2] \in Nat /\ Compared(ThisBlock, script[2]) /\ BySeed(ThisBlock)
<1>1. script \in DOMAIN Descriptors /\ blk \in DOMAIN The.blocks
  BY DEF OwnInv, BookInv, PlaceInv
<1>2. script[2] \in Nat
  BY <1>1, PortsAssumption DEF Descriptors
<1>3. Pairing(ThisBlock, script[2])
  BY <1>1, PairingFacts DEF The, ThisBlock
<1> QED  BY <1>2, <1>3 DEF Pairing

\* A cell of such a block leaves a row, and its seed is a number.
LEMMA RowIsKept ==
    ASSUME NEW b, NEW n \in Nat, Compared(b, n), NEW k \in DOMAIN b.cells
    PROVE  /\ \E pair \in b.compares : b.cells[k].config \in {pair[1], pair[2]}
           /\ b.cells[k].seed \in Nat
<1>1. PICK configs :
        /\ Len(configs) \in Nat /\ Laid(b.cells, configs, n)
        /\ \A i \in 1 .. Len(configs) : \E pair \in b.compares : configs[i] \in {pair[1], pair[2]}
  BY DEF Compared
<1> DEFINE c == (k - 1) \div n
<1>2. /\ k \in 1 .. Len(configs) * n
      /\ b.cells[k].config = configs[c + 1] /\ b.cells[k].seed = (k - 1) % n
  BY <1>1 DEF Laid
<1>3. c \in 0 .. Len(configs) - 1 /\ (k - 1) % n \in 0 .. n - 1
  BY ONLY n \in Nat, <1>1, <1>2, CellPlace
<1> HIDE DEF c
<1>4. c + 1 \in 1 .. Len(configs)
  BY <1>1, <1>3
<1>5. \E pair \in b.compares : b.cells[k].config \in {pair[1], pair[2]}
  BY <1>1, <1>2, <1>4
<1>6. b.cells[k].seed \in Nat
  BY ONLY n \in Nat, <1>2, <1>3
<1> QED  BY <1>5, <1>6

\* A row appended for the current cell.
LEMMA RowAdded ==
    ASSUME OwnInv, PlaceInv, RowsInv, pc \in {"health", "load"}, NEW seed, NEW measured,
           seed = ThisCell.seed \/ seed = Workload(ThisCell),
           UNCHANGED <<script, blk>>, pc' = "cell", cell' = cell + 1,
           rows' = WithRow(ThisCell, seed, measured)
    PROVE  RowsInv'
<1>1. The' = The /\ ThisBlock' = ThisBlock
  BY DEF The, ThisBlock
<1>2. SUFFICES ASSUME script[1] # "workshop", ThisBlock.compares # {}
               PROVE  /\ IsList(rows') /\ Len(rows') <= Len(ThisBlock.cells) /\ Len(rows') = cell
                      /\ \A k \in 1 .. Len(rows') : /\ rows'[k].config = ThisBlock.cells[k].config
                                                    /\ rows'[k].seed = ThisBlock.cells[k].seed
  <2>1. cell \in Nat /\ (cell + 1) - 1 = cell
    BY DEF PlaceInv
  <2> QED  BY <1>1, <2>1 DEF RowsInv, Saving
<1>3. /\ cell \in DOMAIN ThisBlock.cells /\ cell \in Nat \ {0} /\ cell <= Len(ThisBlock.cells)
      /\ Len(ThisBlock.cells) \in Nat
  BY HereFacts DEF PlaceInv
<1>4. /\ IsList(rows) /\ Len(rows) = cell - 1
      /\ \A k \in 1 .. Len(rows) : /\ rows[k].config = ThisBlock.cells[k].config
                                   /\ rows[k].seed = ThisBlock.cells[k].seed
  BY <1>2, <1>3 DEF RowsInv
<1> DEFINE row == [config |-> ThisCell.config, seed |-> seed, measured |-> measured]
<1>5. rows' = Append(rows, row)
  <2>1. \E pair \in ThisBlock.compares : ThisCell.config \in {pair[1], pair[2]}
    BY <1>2, <1>3, HerePairing, RowIsKept DEF ThisCell
  <2> QED  BY <2>1 DEF WithRow
<1>6. row.config = ThisBlock.cells[cell].config /\ row.seed = ThisBlock.cells[cell].seed
  <2>1. seed = ThisCell.seed
    BY <1>2, HerePairing DEF BySeed, Workload
  <2> QED  BY <2>1 DEF ThisCell
<1> HIDE DEF row
<1>7. IsList(rows')
  BY <1>4, <1>5, AppendedList
<1>8. Len(rows') = cell /\ rows'[cell] = row /\ \A k \in 1 .. Len(rows) : rows'[k] = rows[k]
  BY <1>3, <1>4, <1>5 DEF IsList
<1>9. \A k \in 1 .. cell : k \in 1 .. Len(rows) \/ k = cell
  BY <1>3, <1>4
<1>10. ASSUME NEW k \in 1 .. Len(rows')
       PROVE  rows'[k].config = ThisBlock.cells[k].config /\ rows'[k].seed = ThisBlock.cells[k].seed
  <2>1. CASE k = cell
    BY ONLY <1>6, <1>8, <2>1
  <2>2. CASE k \in 1 .. Len(rows)
    BY ONLY <1>4, <1>8, <2>2
  <2> QED  BY ONLY <1>8, <1>9, <1>10, <2>1, <2>2
<1> QED  BY ONLY <1>3, <1>7, <1>8, <1>10

\* No step loses a row or leaves one out.
LEMMA RowsStep == OwnInv /\ PlaceInv /\ RowsInv /\ [SuiteNext]_suiteVars => RowsInv'
<1> SUFFICES ASSUME OwnInv, PlaceInv, RowsInv, [SuiteNext]_suiteVars PROVE RowsInv'
  OBVIOUS
<1>1. cell \in Nat \ {0} /\ Len(ThisBlock.cells) \in Nat
  BY HereFacts DEF PlaceInv
<1>t. ASSUME Through' PROVE RowsInv'
  <2>1. pc' \notin {"start", "engines", "block", "proxy", "cell", "health", "load"} /\ ~Saving'
    BY <1>t DEF Through, Saving
  <2> QED  BY <2>1 DEF RowsInv
<1>2. CASE EnginesTimeOut \/ Close \/ Interrupt \/ InterruptInStart \/ InterruptInTeardown \/ HardKill
  <2>1. CASE EnginesTimeOut \/ Interrupt \/ InterruptInStart \/ InterruptInTeardown
    BY <1>t, <2>1, LeaveGoes DEF EnginesTimeOut, Interrupt, InterruptInStart, InterruptInTeardown
  <2>2. CASE Close
    BY <1>t, <2>2 DEF Close, WritesLate, Through
  <2>3. CASE HardKill
    BY <1>t, <2>3 DEF HardKill, Through
  <2> QED  BY <1>2, <2>1, <2>2, <2>3
<1>3. CASE Rerun \/ EndBlock
  <2>1. Through' \/ (pc' \in {"start", "block", "saving"} /\ rows' = <<>> /\ cell' = 1)
    BY <1>3, LeaveGoes DEF Rerun, EndBlock, Advance
  <2> QED  BY <1>t, <2>1 DEF RowsInv
<1>9. CASE OpenSummary \/ WriteSummary
  <2>1. /\ UNCHANGED <<cell, rows>> /\ pc \in {"saving", "writing"}
        /\ Through' \/ (outcome = "none" /\ pc' \in {"writing", "block"})
    BY <1>9, LeaveGoes DEF OpenSummary, WriteSummary, Advance, Through
  <2>2. CASE outcome = "none" /\ pc' \in {"writing", "block"}
    BY <2>1, <2>2 DEF RowsInv, Saving
  <2> QED  BY <1>t, <2>1, <2>2
<1>4. CASE StartEngines \/ EnginesReady \/ BeginBlock \/ ProxyReady \/ ProxyTimesOut
  <2> SUFFICES ASSUME ~Through' PROVE RowsInv'
    BY <1>t
  <2>1. /\ UNCHANGED <<script, blk, rows>> /\ pc \in {"start", "engines", "block", "proxy"}
        /\ pc' \in {"engines", "block", "proxy", "cell"}
        /\ cell' = cell \/ (pc' = "cell" /\ cell' = Len(ThisBlock.cells) + 1)
    BY <1>4, LeaveGoes DEF StartEngines, EnginesReady, BeginBlock, ProxyReady, ProxyTimesOut
  <2>2. The' = The /\ ThisBlock' = ThisBlock
    BY <2>1 DEF The, ThisBlock
  <2>3. rows = <<>> /\ cell = 1 /\ IsList(<<>>) /\ Len(<<>>) = 0
    BY <2>1, EmptyIsList DEF RowsInv
  <2>4. cell' = 1 \/ (pc' = "cell" /\ cell' > Len(ThisBlock.cells))
    BY <1>1, <2>1, <2>3
  <2>5. ~Saving'
    BY <2>1 DEF Saving
  <2> QED  BY <1>1, <2>1, <2>2, <2>3, <2>4, <2>5 DEF RowsInv
<1>5. CASE StartGateway \/ GatewayReady
  <2>1. /\ UNCHANGED <<script, blk, cell, rows>> /\ pc \in {"cell", "health"}
        /\ pc' \in {"health", "load"}
    BY <1>5 DEF StartGateway, GatewayReady
  <2>2. The' = The /\ ThisBlock' = ThisBlock
    BY <2>1 DEF The, ThisBlock
  <2> QED  BY <2>1, <2>2 DEF RowsInv, Saving
<1>6. CASE GatewayTimesOut
  <2>1. /\ UNCHANGED <<script, blk>> /\ pc = "health" /\ (pc' = "cell" \/ Through')
        /\ pc' = "cell" => cell' = cell + 1 /\ rows' = WithRow(ThisCell, ThisCell.seed, FALSE)
    BY <1>6, LeaveGoes DEF GatewayTimesOut, FailedRow, CellAfterFailure
  <2>2. CASE pc' = "cell"
    BY <2>1, <2>2, RowAdded
  <2> QED  BY <1>t, <2>1, <2>2
<1>7. CASE \E result \in ClusterLoad : Load(result)
  <2>1. PICK result \in ClusterLoad : Load(result)
    BY <1>7
  <2>2. /\ UNCHANGED <<script, blk>> /\ pc = "load" /\ (pc' = "cell" \/ Through')
        /\ pc' = "cell" => cell' = cell + 1 /\ rows' = WithRow(ThisCell, Workload(ThisCell), result = "measured")
    BY <2>1, LeaveGoes DEF Load
  <2>3. CASE pc' = "cell"
    BY <2>2, <2>3, RowAdded
  <2> QED  BY <1>t, <2>2, <2>3
<1>8. CASE (\E p \in booting : Boots(p)) \/ UNCHANGED suiteVars
  <2>1. UNCHANGED <<script, blk, cell, rows, pc, outcome>>
    BY <1>8 DEF Boots, suiteVars
  <2>2. The' = The /\ ThisBlock' = ThisBlock
    BY <2>1 DEF The, ThisBlock
  <2> QED  BY <2>1, <2>2 DEF RowsInv, Saving
<1> QED  BY <1>2, <1>3, <1>4, <1>5, <1>6, <1>7, <1>8, <1>9 DEF SuiteNext, MainStep

\* The index of a row in the list of its configuration is its seed.
LEMMA RowIndex ==
    ASSUME OwnInv, PlaceInv, RowsInv, pc = "cell", script[1] # "workshop", ThisBlock.compares # {},
           NEW k \in DOMAIN rows
    PROVE  rows[k].seed \in Nat /\ IndexIn(RowsOf(rows[k].config), k) = rows[k].seed + 1
<1> DEFINE cells == ThisBlock.cells
<1>1. /\ IsList(rows) /\ Len(rows) <= Len(cells) /\ Len(cells) \in Nat /\ DOMAIN cells = 1 .. Len(cells)
      /\ \A j \in 1 .. Len(rows) : rows[j].config = cells[j].config /\ rows[j].seed = cells[j].seed
  BY HereFacts DEF RowsInv
<1>2. DOMAIN rows = 1 .. Len(rows) /\ Len(rows) \in Nat /\ k \in 1 .. Len(rows) /\ k \in DOMAIN cells
  BY <1>1 DEF IsList
<1>3. script[2] \in Nat /\ Compared(ThisBlock, script[2])
  BY HerePairing
<1>4. cells[k].seed \in Nat
  BY <1>2, <1>3, RowIsKept
<1>5. Cardinality({j \in 1 .. k : cells[j].config = cells[k].config}) = cells[k].seed + 1
  <2>1. PICK configs :
          /\ Len(configs) \in Nat /\ Laid(cells, configs, script[2])
          /\ \A i, j \in 1 .. Len(configs) : configs[i] = configs[j] => i = j
    BY <1>3 DEF Compared
  <2> QED  BY ONLY <1>2, <1>3, <2>1, LaidIndex
<1>6. {j \in RowsOf(rows[k].config) : j <= k} = {j \in 1 .. k : cells[j].config = cells[k].config}
  BY <1>1, <1>2 DEF RowsOf
<1> QED  BY <1>1, <1>2, <1>4, <1>5, <1>6 DEF IndexIn

\* The comparisons of all scripts but workshop pair rows of one workload, for any
\* number of seeds and whatever gateways fail to start or measure nothing in between.
THEOREM PairsMatch == SuiteSpec => []PairsAreSeeds
<1>1. SuiteInit => RowsInv
  BY DEF SuiteInit, RowsInv, Saving
<1>2. OwnInv /\ PlaceInv /\ RowsInv => PairsAreSeeds
  <2> SUFFICES ASSUME OwnInv, PlaceInv, RowsInv, pc = "cell", script[1] # "workshop",
                      NEW pair \in ThisBlock.compares,
                      NEW k \in RowsOf(pair[1]), NEW m \in BaseRows(pair[2]),
                      IndexIn(RowsOf(pair[1]), k) = IndexIn(BaseRows(pair[2]), m)
               PROVE  rows[k].seed = rows[m].seed
    BY DEF PairsAreSeeds
  <2>1. BaseRows(pair[2]) = RowsOf(pair[2])
    BY HerePairing DEF BaseRows, BySeed
  <2>2. /\ k \in DOMAIN rows /\ rows[k].config = pair[1]
        /\ m \in DOMAIN rows /\ rows[m].config = pair[2]
    BY <2>1 DEF RowsOf
  <2>3. /\ rows[k].seed \in Nat /\ IndexIn(RowsOf(pair[1]), k) = rows[k].seed + 1
        /\ rows[m].seed \in Nat /\ IndexIn(RowsOf(pair[2]), m) = rows[m].seed + 1
    BY <2>2, RowIndex
  <2> QED  BY <2>1, <2>3
<1> QED  BY <1>1, <1>2, OwnStart, OwnStep, PlaceStart, PlaceStep, RowsStep, PTL DEF SuiteSpec

=============================================================================
