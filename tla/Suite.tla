--------------------------------- MODULE Suite ---------------------------------
(* The GPU experiment drivers of dio-serve/scripts: seven scripts that start   *)
(* two engines, then one gateway per measured cell, put a load on it, tear it  *)
(* down, and write summary.json.  A script is a descriptor (what it starts, on *)
(* which ports, in which order, how it tears down, when it saves), translated  *)
(* from that script; the actions run a descriptor.  Processes boot and bind    *)
(* their ports on their own, possibly after the script stopped waiting.        *)
EXTENDS Naturals, Sequences, FiniteSets

CONSTANTS DioBase,     \* --dio-base-port
          EngineBase,  \* --engine-base-port
          ProxyPort,   \* --proxy-port
          SeedCounts,  \* the values of --seeds
          MaxRuns      \* bound: how often the operator runs the script

VARIABLES script,      \* the script that runs, with its number of seeds
          run,         \* how often it has been run
          pc,          \* where main() is
          blk, cell,   \* index of the current block, and of the cell in it
          booting,     \* processes started that do not listen yet
          up,          \* processes that listen on their port
          handles,     \* session.handles, or the locals that stand for it
          rows,        \* the rows of the current block that are paired at its end
          finished,    \* blocks assigned in the summary dict
          disk,        \* blocks in summary.json, or Torn
          outcome      \* how main() ended, "none" before

suiteVars == <<script, run, pc, blk, cell, booting, up, handles, rows, finished, disk, outcome>>

-----------------------------------------------------------------------------
(* Descriptors.                                                            *)

\* The cells of a block: every configuration in turn, every seed of it in turn.
\* turn: the index of the configuration.
Cells(configs, seeds, Port(_, _)) ==
    [k \in 1 .. Len(configs) * seeds |->
        LET c == (k - 1) \div seeds
            s == (k - 1) % seeds
        IN  [config |-> configs[c + 1], turn |-> c, seed |-> s, port |-> Port(c, s)]]

\* What a load ends in: a row with a p99, a row without one because no request
\* succeeded, or, where the script does not count a request that raises as a
\* failed one, an exception that leaves the load.
ClusterLoad == {"measured", "empty", "raises"}
WorkshopLoad == {"measured", "empty"}
AbcLoad == {"measured", "empty"}
AbcAdmissionLoad == {"measured", "empty"}
RegimeLoad == {"measured", "empty"}
HeteroLoad == {"measured", "empty"}
PostLoad == {"measured", "empty", "raises"}
MockLoad == {"measured", "empty"}

\* failed, done: what becomes of the gateway when it does not start and after
\* its load: "kill" its process and keep the handle, "pop" and kill the last
\* handle, kill and "remove" its own handle, "leave" it running, "return" from
\* main() or "raise".  shared: one gateway serves all the seeds of a
\* configuration.  compares: the configurations whose rows are paired.  seeding:
\* what the requests of a cell are drawn from, its seed or its strategy as well.
Block(name, cells, loads, failed, done) ==
    [name |-> name, cells |-> cells, loads |-> loads, failed |-> failed, done |-> done,
     proxy |-> "none", shared |-> FALSE, compares |-> {}, pairing |-> "index", seeding |-> "seed"]

-----------------------------------------------------------------------------
(* run_gpu_cluster_validation.py *)

ClusterG1 ==
    Block("G1", Cells(<<"smoke">>, 1, LAMBDA c, s : DioBase), ClusterLoad, "return", "kill")
ClusterG2(seeds) ==
    Block("G2", Cells(<<"nlms", "round_robin">>, seeds, LAMBDA c, s : DioBase + 100 + c * 10 + s),
          ClusterLoad, "kill", "kill")
\* Mutant: both configurations of a seed have one port.
ClusterG3OnePort(seeds) ==
    [Block("G3", Cells(<<"hetero_nlms", "hetero_rr">>, seeds, LAMBDA c, s : DioBase + 200 + s),
           ClusterLoad, "kill", "kill")
        EXCEPT !.proxy = "warn", !.compares = {<<"hetero_nlms", "hetero_rr">>}]
ClusterG3(seeds) ==
    [Block("G3", Cells(<<"hetero_nlms", "hetero_rr">>, seeds, LAMBDA c, s : DioBase + 200 + c * 50 + s),
           ClusterLoad, "kill", "kill")
        EXCEPT !.proxy = "warn", !.compares = {<<"hetero_nlms", "hetero_rr">>}]
ClusterG4(seeds) ==
    Block("G4", Cells(<<"dual", "single">>, seeds, LAMBDA c, s : DioBase + 300 + c * 30 + s),
          ClusterLoad, "kill", "kill")
ClusterG5 ==
    Block("G5", Cells(<<"admit_off", "admit_on">>, 1, LAMBDA c, s : DioBase + 400 + c),
          ClusterLoad, "kill", "kill")
\* The CPU micro-benchmark starts no gateway.
ClusterG7 == Block("G7", <<>>, {}, "kill", "kill")

\* saves: summary.json is written after every block, at the end however main()
\* ends, or only on success; early: the ends for which it is written before the
\* clean-up.
\* tracked: when a gateway is reached by the clean-up, "start" or "ready".
\* guarded: the engines are started inside the try whose finally cleans up.
ClusterScript(seeds) ==
    [name |-> "cluster", engines |-> 2, saves |-> "end", early |-> {},
     tracked |-> "start", guarded |-> TRUE,
     blocks |-> <<ClusterG1, ClusterG2(seeds), ClusterG3(seeds), ClusterG4(seeds),
                  ClusterG5, ClusterG7>>]

(* run_workshop_final_suite.py *)

WorkshopSmoke ==
    Block("W0", Cells(<<"smoke">>, 1, LAMBDA c, s : DioBase), WorkshopLoad, "return", "pop")
WorkshopW2(seeds) ==
    Block("W2", Cells(<<"heuristic", "tokenizer">>, seeds, LAMBDA c, s : DioBase + 50 + c * 20 + s),
          WorkshopLoad, "pop", "pop")
\* The round-robin p99s are compacted before they are paired by index, and every
\* strategy has seeds of its own.
WorkshopMatrix(name, configs, seeds, base) ==
    [Block(name, Cells(configs, seeds, LAMBDA c, s : base + c * 40 + s), WorkshopLoad, "pop", "pop")
        EXCEPT !.compares = {<<configs[1], configs[2]>>}, !.pairing = "compacted", !.seeding = "strategy"]
WorkshopW3(seeds) == WorkshopMatrix("W3", <<"a_nlms", "a_rr">>, seeds, DioBase + 200)
WorkshopW4(seeds) ==
    [WorkshopMatrix("W4", <<"c_nlms", "c_rr">>, seeds, DioBase + 400) EXCEPT !.proxy = "skip"]
WorkshopW5(seeds) == WorkshopMatrix("W5", <<"long_nlms", "long_rr">>, seeds, DioBase + 600)
WorkshopW6 ==
    Block("W6", Cells(<<"baseline", "tier_p50", "tier_m50", "cache_p50", "cache_m50", "both_p50", "both_m50">>,
                      1, LAMBDA c, s : DioBase + 700 + c), WorkshopLoad, "pop", "pop")

WorkshopScript(seeds) ==
    [name |-> "workshop", engines |-> 2, saves |-> "blocks", early |-> {"returned"},
     tracked |-> "start", guarded |-> TRUE,
     blocks |-> <<WorkshopSmoke, WorkshopW2(seeds), WorkshopW3(seeds), WorkshopW4(seeds),
                  WorkshopW5(seeds), WorkshopW6>>]

(* run_gpu_abc_suite.py *)

AbcBlock(name, configs, seeds, base) ==
    Block(name, Cells(configs, seeds, LAMBDA c, s : base + c * 50 + s), AbcLoad, "pop", "pop")
\* The fifth configuration has the ports of the first one of G2.
AbcG1(seeds) ==
    [AbcBlock("G1", <<"hybrid_on", "metrics_only", "affinity_only", "hybrid_off", "rr">>, seeds, DioBase)
        EXCEPT !.compares = {<<"hybrid_on", c>> : c \in {"hybrid_off", "affinity_only", "metrics_only", "rr"}}
                            \cup {<<c, "hybrid_off">> : c \in {"metrics_only", "affinity_only"}}]
AbcG2(seeds) == AbcBlock("G2", <<"nlms_affinity", "rr2">>, seeds, DioBase + 200)
AbcG2b(seeds) == AbcBlock("G2b", <<"nlms_affinity_load", "rr_load">>, seeds, DioBase + 300)
AbcG3(seeds) ==
    [AbcBlock("G3", <<"absolute", "empirical", "rank_only">>, seeds, DioBase + 400) EXCEPT !.loads = AbcAdmissionLoad]
AbcG4(seeds) == AbcBlock("G4", <<"default", "kv_m50", "kv_p50", "q_m50", "q_p50">>, seeds, DioBase + 600)

AbcScript(seeds) ==
    [name |-> "abc", engines |-> 2, saves |-> "success", early |-> {"ok"},
     tracked |-> "start", guarded |-> TRUE,
     blocks |-> <<AbcG1(seeds), AbcG2(seeds), AbcG2b(seeds), AbcG3(seeds), AbcG4(seeds)>>]

(* run_regime_d_hetero.py *)

\* One cell: the gateway is killed and forgotten in a finally.
OneSeed(name, configs, seeds, Port(_, _)) ==
    Block(name, Cells(configs, seeds, Port), RegimeLoad, "remove", "remove")
RegimeD1(seeds) ==
    [OneSeed("D1", <<"nlms", "round_robin">>, seeds, LAMBDA c, s : DioBase + c * 50 + s)
        EXCEPT !.compares = {<<"nlms", "round_robin">>}]
RegimeD2(seeds) == OneSeed("D2", <<"d2_rr">>, seeds, LAMBDA c, s : DioBase + 400 + s)
RegimeD3(seeds) == OneSeed("D3", <<"d3_32", "d3_256">>, seeds, LAMBDA c, s : DioBase + 600 + c * 20 + s)

RegimeScript(seeds) ==
    [name |-> "regime_d", engines |-> 2, saves |-> "end", early |-> {},
     tracked |-> "start", guarded |-> TRUE,
     blocks |-> <<RegimeD1(seeds), RegimeD2(seeds), RegimeD3(seeds)>>]

(* run_real_hetero_multiseed.py *)

\* Mutant: both configurations of a seed have one port.
SharedHeteroPort(c, s) == DioBase + s
HeteroPort(c, s) == DioBase + c * 50 + s
\* A gateway that did not start in time is neither killed nor popped.
HeteroBlock(seeds) ==
    [Block("G3", Cells(<<"nlms", "round_robin">>, seeds, HeteroPort), HeteroLoad, "leave", "pop")
        EXCEPT !.proxy = "return", !.compares = {<<"nlms", "round_robin">>}]

HeteroScript(seeds) ==
    [name |-> "hetero", engines |-> 2, saves |-> "end", early |-> {},
     tracked |-> "start", guarded |-> TRUE, blocks |-> <<HeteroBlock(seeds)>>]

(* run_post_d_priority.py: the engines are someone else's. *)

PostDiscovery ==
    Block("discovery", Cells(<<"discovery">>, 1, LAMBDA c, s : DioBase), PostLoad, "remove", "remove")
PostExtraD1(seeds) ==
    Block("extra_d1", Cells(<<"nlms", "rls">>, seeds, LAMBDA c, s : DioBase + 100 + c * 50 + s),
          PostLoad, "remove", "remove")
PostScript(seeds) ==
    [name |-> "post_d", engines |-> 0, saves |-> "success", early |-> {"returned"},
     tracked |-> "start", guarded |-> TRUE, blocks |-> <<PostDiscovery, PostExtraD1(seeds)>>]

(* run_mock_hetero_concurrency.py: one port, one gateway per configuration. *)

MockCells(seeds) ==
    [Block("cells", Cells(<<"c1_nlms", "c1_round_robin">>, seeds, LAMBDA c, s : DioBase),
           MockLoad, "raise", "remove")
        EXCEPT !.shared = TRUE, !.compares = {<<"c1_nlms", "c1_round_robin">>}]
MockScript(seeds) ==
    [name |-> "mock_hetero", engines |-> 2, saves |-> "success", early |-> {},
     tracked |-> "ready", guarded |-> FALSE, blocks |-> <<MockCells(seeds)>>]

ScriptNames == {"cluster", "workshop", "abc", "regime_d", "hetero", "post_d", "mock_hetero"}

Descriptors ==
    [s \in ScriptNames \X SeedCounts |->
        CASE s[1] = "cluster" -> ClusterScript(s[2])
          [] s[1] = "workshop" -> WorkshopScript(s[2])
          [] s[1] = "abc" -> AbcScript(s[2])
          [] s[1] = "regime_d" -> RegimeScript(s[2])
          [] s[1] = "hetero" -> HeteroScript(s[2])
          [] s[1] = "post_d" -> PostScript(s[2])
          [] s[1] = "mock_hetero" -> MockScript(s[2])]

\* The operator's flags keep the ports of the gateways apart from those of the
\* engines and of the proxy, as the defaults of the scripts do.
ASSUME PortsAssumption ==
    /\ SeedCounts \subseteq Nat /\ {DioBase, EngineBase, ProxyPort} \subseteq Nat
    /\ \A s \in DOMAIN Descriptors : \A b \in DOMAIN Descriptors[s].blocks :
          LET cells == Descriptors[s].blocks[b].cells
          IN  \A k \in DOMAIN cells :
                  /\ cells[k].port # ProxyPort
                  /\ \A i \in 1 .. Descriptors[s].engines : cells[k].port # EngineBase + i - 1

The == Descriptors[script]
ThisBlock == The.blocks[blk]
ThisCell == ThisBlock.cells[cell]

-----------------------------------------------------------------------------
(* Processes.                                                              *)

Engine(i) == [kind |-> "engine", port |-> EngineBase + i, config |-> "", seed |-> 0, run |-> run]
Engines == [i \in 1 .. The.engines |-> Engine(i - 1)]
Proxy == [kind |-> "proxy", port |-> ProxyPort, config |-> "", seed |-> 0, run |-> run]

\* The gateway of a cell.  A shared one is started for the first seed.
Gateway(c) == [kind |-> "gateway", port |-> c.port, config |-> c.config, run |-> run,
               seed |-> IF ThisBlock.shared THEN 0 ELSE c.seed]

Live == booting \cup up

\* wait_url(): somebody answers on the port; it is not asked who.
Answers(port) == \E p \in up : p.port = port

\* The proxy's own /health route is registered after its catch-all route, so it
\* is forwarded to the engine as well and answers 502 without it.
ProxyAnswers == Answers(ProxyPort) /\ (The.engines > 0 => Answers(EngineBase + 1))

\* kill_proc(): SIGTERM, then SIGKILL; nothing if the process is gone already.
Kill(ps) == booting' = booting \ ps /\ up' = up \ ps

Spawn(ps) == booting' = booting \cup {ps[i] : i \in DOMAIN ps}

\* session.handles.remove(p): the first entry that is p, if there is one.
Removed(hs, p) ==
    LET First == CHOOSE i \in DOMAIN hs : hs[i] = p /\ \A j \in 1 .. i - 1 : hs[j] # p
    IN  IF \E i \in DOMAIN hs : hs[i] = p
        THEN SubSeq(hs, 1, First - 1) \o SubSeq(hs, First + 1, Len(hs)) ELSE hs

\* Mutant: the first handle is popped instead of the last.
TeardownPopsFirst(how, p) ==
    CASE how = "kill"   -> Kill({p}) /\ UNCHANGED handles
      [] how = "pop"    -> Kill({handles[1]}) /\ handles' = Tail(handles)
      [] how = "remove" -> Kill({p}) /\ handles' = Removed(handles, p)
      [] OTHER          -> UNCHANGED <<booting, up, handles>>

\* Mutant: the handle is dropped and the process is not killed.
TeardownForgets(how, p) ==
    /\ handles' = IF how \in {"pop", "remove"} THEN Removed(handles, p) ELSE handles
    /\ UNCHANGED <<booting, up>>

\* What the scripts do to a gateway they are through with.
Teardown(how, p) ==
    CASE how = "kill"   -> Kill({p}) /\ UNCHANGED handles
      [] how = "pop"    -> /\ Kill({handles[Len(handles)]})
                           /\ handles' = SubSeq(handles, 1, Len(handles) - 1)
      [] how = "remove" -> /\ Kill({p})
                           /\ handles' = Removed(handles, p)
      [] OTHER          -> UNCHANGED <<booting, up, handles>>

-----------------------------------------------------------------------------
(* main().                                                                 *)

Ended == pc \in {"ended", "killed"}

\* Whether the current cell starts a gateway, and whether it stops it.
StartsOne == ~ThisBlock.shared \/ ThisCell.seed = 0
StopsOne ==
    ThisBlock.shared /\ cell < Len(ThisBlock.cells) => ThisBlock.cells[cell + 1].config # ThisCell.config

\* main() leaves its body: the clean-up is next, or a write before it.
Leave(how) ==
    /\ pc' = IF how \in The.early THEN "saving" ELSE "closing"
    /\ outcome' = how

\* main() goes on to the next block.
Advance ==
    IF blk < Len(The.blocks)
    THEN blk' = blk + 1 /\ pc' = "block" /\ UNCHANGED outcome
    ELSE UNCHANGED blk /\ Leave("ok")

StartEngines ==
    /\ pc = "start"
    /\ Spawn(Engines)
    /\ handles' = Engines
    /\ pc' = "engines"
    /\ UNCHANGED <<script, run, blk, cell, up, rows, finished, disk, outcome>>

EnginesReady ==
    /\ pc = "engines"
    /\ \A i \in 1 .. The.engines : Answers(EngineBase + i - 1)
    /\ pc' = "block"
    /\ UNCHANGED <<script, run, blk, cell, booting, up, handles, rows, finished, disk, outcome>>

\* An engine does not answer in time (an engine of someone else's may be down).
EnginesTimeOut ==
    /\ pc = "engines"
    /\ The.engines > 0 => \E i \in 1 .. The.engines : ~Answers(EngineBase + i - 1)
    /\ Leave("returned")
    /\ UNCHANGED <<script, run, blk, cell, booting, up, handles, rows, finished, disk>>

BeginBlock ==
    /\ pc = "block"
    /\ IF ThisBlock.proxy = "none"
          THEN pc' = "cell" /\ UNCHANGED <<booting, handles>>
          ELSE /\ Spawn(<<Proxy>>)
               /\ handles' = Append(handles, Proxy)
               /\ pc' = "proxy"
    /\ UNCHANGED <<script, run, blk, cell, up, rows, finished, disk, outcome>>

ProxyReady ==
    /\ pc = "proxy"
    /\ ProxyAnswers
    /\ pc' = "cell"
    /\ UNCHANGED <<script, run, blk, cell, booting, up, handles, rows, finished, disk, outcome>>

\* cluster goes on with a warning, workshop skips the cells and keeps the
\* handle, hetero returns.
ProxyTimesOut ==
    /\ pc = "proxy"
    /\ ~ProxyAnswers
    /\ \/ ThisBlock.proxy = "warn" /\ pc' = "cell" /\ UNCHANGED <<cell, outcome>>
       \/ /\ ThisBlock.proxy = "skip" /\ pc' = "cell"
          /\ cell' = Len(ThisBlock.cells) + 1 /\ UNCHANGED outcome
       \/ ThisBlock.proxy = "return" /\ Leave("returned") /\ UNCHANGED cell
    /\ UNCHANGED <<script, run, blk, booting, up, handles, rows, finished, disk>>

StartGateway ==
    /\ pc = "cell"
    /\ cell <= Len(ThisBlock.cells)
    /\ IF StartsOne
          THEN /\ Spawn(<<Gateway(ThisCell)>>)
               /\ handles' = IF The.tracked = "start" THEN Append(handles, Gateway(ThisCell)) ELSE handles
               /\ pc' = "health"
          ELSE pc' = "load" /\ UNCHANGED <<booting, handles>>
    /\ UNCHANGED <<script, run, blk, cell, up, rows, finished, disk, outcome>>

GatewayReady ==
    /\ pc = "health"
    /\ Answers(ThisCell.port)
    /\ handles' = IF The.tracked = "ready" THEN Append(handles, Gateway(ThisCell)) ELSE handles
    /\ pc' = "load"
    /\ UNCHANGED <<script, run, blk, cell, booting, up, rows, finished, disk, outcome>>

\* The row of a cell, kept when the block pairs its configuration.
WithRow(c, seed, measured) ==
    IF \E pair \in ThisBlock.compares : c.config \in {pair[1], pair[2]}
    THEN Append(rows, [config |-> c.config, seed |-> seed, measured |-> measured])
    ELSE rows

\* What the requests of a cell are drawn from, and the "seed" of its row.
Workload(c) == IF ThisBlock.seeding = "strategy" THEN 1000 * (c.turn + 1) + c.seed ELSE c.seed

\* Mutant: a cell that failed leaves no row.
NoFailedRow(c) == rows

\* Mutant: a cell that failed is tried again.
SameCellAgain == cell

\* A cell whose gateway did not start: an error row takes the place of its row.
FailedRow(c) == WithRow(c, c.seed, FALSE)

\* ... and the script goes on with the next cell.
CellAfterFailure == cell + 1

\* The 90 s (120 s) are over and nothing answered; the process may bind yet.
GatewayTimesOut ==
    /\ pc = "health"
    /\ ~Answers(ThisCell.port)
    /\ IF ThisBlock.failed \in {"return", "raise"}
          THEN /\ Leave(IF ThisBlock.failed = "return" THEN "returned" ELSE "error")
               /\ IF ThisBlock.failed = "raise" THEN Kill({Gateway(ThisCell)}) ELSE UNCHANGED <<booting, up>>
               /\ UNCHANGED <<cell, handles, rows>>
          ELSE /\ Teardown(ThisBlock.failed, Gateway(ThisCell))
               /\ rows' = FailedRow(ThisCell)
               /\ cell' = CellAfterFailure
               /\ pc' = "cell"
               /\ UNCHANGED outcome
    /\ UNCHANGED <<script, run, blk, finished, disk>>

\* The load of the cell.  An exception that escapes it ends main(), through the
\* finally of the scripts that have one; a smoke test that measures nothing
\* returns from main().
Load(result) ==
    /\ pc = "load"
    /\ result \in ThisBlock.loads
    /\ IF result = "raises"
          THEN /\ Leave("error")
               /\ IF ThisBlock.done = "remove" THEN Teardown("remove", Gateway(ThisCell))
                                               ELSE UNCHANGED <<booting, up, handles>>
               /\ UNCHANGED <<cell, rows>>
          ELSE IF result = "empty" /\ ThisBlock.failed = "return"
          THEN Leave("returned") /\ UNCHANGED <<booting, up, handles, cell, rows>>
          ELSE /\ Teardown(IF StopsOne THEN ThisBlock.done ELSE "leave", Gateway(ThisCell))
               /\ rows' = WithRow(ThisCell, Workload(ThisCell), result = "measured")
               /\ cell' = cell + 1
               /\ pc' = "cell"
               /\ UNCHANGED outcome
    /\ UNCHANGED <<script, run, blk, finished, disk>>

\* The lists a comparison pairs, as the positions of their entries in rows: all the
\* rows of a configuration, or, in workshop's matrix, the base rows that have a p99.
RowsOf(config) == {k \in DOMAIN rows : rows[k].config = config}
BaseRows(config) ==
    IF ThisBlock.pairing = "compacted" THEN {k \in RowsOf(config) : rows[k].measured} ELSE RowsOf(config)

\* The index in a list of the entry that row k became.
IndexIn(list, k) == Cardinality({j \in list : j <= k})

\* The block is entered in the summary; the smoke block of workshop waits for
\* the next to be saved.
EndBlock ==
    /\ pc = "cell"
    /\ cell > Len(ThisBlock.cells)
    /\ finished' = finished \cup {ThisBlock.name}
    /\ rows' = <<>>
    /\ cell' = 1
    /\ IF The.saves = "blocks" /\ blk > 1
          THEN pc' = "saving" /\ UNCHANGED <<blk, outcome>>
          ELSE Advance
    /\ UNCHANGED <<script, run, booting, up, handles, disk>>

\* write_text() opens summary.json, which empties it, and then writes it.
Torn == {"torn"}
OpenSummary ==
    /\ pc = "saving"
    /\ disk' = Torn
    /\ pc' = "writing"
    /\ UNCHANGED <<script, run, blk, cell, booting, up, handles, rows, finished, outcome>>

\* Mutant: the file is written before the block is entered in the summary.
SavedBefore(done) == done \ {ThisBlock.name}

\* What is written: the summary dict as it is.
Saved(done) == done

\* The write after a block, before the clean-up, or at the end of main().
WriteSummary ==
    /\ pc = "writing"
    /\ disk' = Saved(finished)
    /\ IF outcome = "none" THEN Advance
       ELSE /\ pc' = IF outcome \in The.early THEN "closing" ELSE "ended"
            /\ UNCHANGED <<blk, outcome>>
    /\ UNCHANGED <<script, run, cell, booting, up, handles, rows, finished>>

\* KeyboardInterrupt.  mock_hetero starts its engines before its try, so what
\* it has started is then beyond its clean-up.  In the clean-up and after it no
\* try is left: there an interrupt is what HardKill is.
Interrupt ==
    /\ pc \notin {"start", "closing"} /\ ~Ended
    /\ pc \in {"saving", "writing"} => outcome \in {"none"} \cup The.early
    /\ Leave("interrupted")
    /\ handles' = IF The.guarded \/ pc # "engines" THEN handles ELSE <<>>
    /\ UNCHANGED <<script, run, blk, cell, booting, up, rows, finished, disk>>

\* KeyboardInterrupt inside Session.start(), after Popen and before the append:
\* nothing names the process.
InterruptInStart ==
    /\ \/ /\ pc = "start"
          /\ \E i \in 1 .. The.engines :
                /\ Spawn(SubSeq(Engines, 1, i))
                /\ handles' = IF The.guarded THEN SubSeq(Engines, 1, i - 1) ELSE <<>>
       \/ /\ pc = "block" /\ ThisBlock.proxy # "none"
          /\ Spawn(<<Proxy>>) /\ UNCHANGED handles
       \/ /\ pc = "cell" /\ cell <= Len(ThisBlock.cells) /\ StartsOne
          /\ Spawn(<<Gateway(ThisCell)>>) /\ UNCHANGED handles
    /\ Leave("cut")
    /\ UNCHANGED <<script, run, blk, cell, up, rows, finished, disk>>

\* Whether a teardown gives the handle up before it stops the process: it pops
\* it, or it holds the only reference, in a local.
Forgets(how) == how = "pop" \/ (how = "remove" /\ The.name \in {"post_d", "mock_hetero"})

\* KeyboardInterrupt in such a teardown: kill_proc(session.handles.pop()) has
\* popped and not killed.  The other teardowns keep the handle until then.
InterruptInTeardown ==
    /\ \/ pc = "health" /\ ~Answers(ThisCell.port) /\ Forgets(ThisBlock.failed)
       \/ pc = "load" /\ StopsOne /\ Forgets(ThisBlock.done)
    /\ handles' = SubSeq(handles, 1, Len(handles) - 1)
    /\ Leave("cut")
    /\ UNCHANGED <<script, run, blk, cell, booting, up, rows, finished, disk>>

\* Whether main() writes the summary after the clean-up.
WritesLate(how) ==
    /\ how \notin The.early
    /\ how = "ok" \/ (how \in {"interrupted", "cut", "error"} /\ The.saves # "success")

\* session.cleanup(), or the finally that stops the mocks.
Close ==
    /\ pc = "closing"
    /\ Kill({handles[i] : i \in DOMAIN handles})
    /\ handles' = <<>>
    /\ pc' = IF WritesLate(outcome) THEN "saving" ELSE "ended"
    /\ UNCHANGED <<script, run, blk, cell, rows, finished, disk, outcome>>

-----------------------------------------------------------------------------
(* What happens around main().                                             *)

\* A process binds its port, or finds it taken and exits.
Boots(p) ==
    /\ p \in booting
    /\ booting' = booting \ {p}
    /\ up' = IF Answers(p.port) THEN up ELSE up \cup {p}
    /\ UNCHANGED <<script, run, pc, blk, cell, handles, rows, finished, disk, outcome>>

\* The script is killed (a notebook kernel, the OOM killer): nothing cleans up,
\* and the children, in sessions of their own, live on.
HardKill ==
    /\ pc # "start" /\ ~Ended
    /\ run < MaxRuns
    /\ pc' = "killed"
    /\ handles' = <<>>
    /\ UNCHANGED <<script, run, blk, cell, booting, up, rows, finished, disk, outcome>>

Rerun ==
    /\ pc = "killed"
    /\ run' = run + 1
    /\ pc' = "start" /\ blk' = 1 /\ cell' = 1
    /\ rows' = <<>> /\ finished' = {} /\ outcome' = "none"
    /\ UNCHANGED <<script, booting, up, handles, disk>>

SuiteInit ==
    /\ script \in DOMAIN Descriptors
    /\ run = 1 /\ pc = "start" /\ blk = 1 /\ cell = 1
    /\ booting = {} /\ up = {} /\ handles = <<>>
    /\ rows = <<>> /\ finished = {} /\ disk = {} /\ outcome = "none"

MainStep ==
    \/ StartEngines \/ EnginesReady \/ EnginesTimeOut
    \/ BeginBlock \/ ProxyReady \/ ProxyTimesOut
    \/ StartGateway \/ GatewayReady \/ GatewayTimesOut
    \/ \E result \in ClusterLoad : Load(result)
    \/ EndBlock \/ OpenSummary \/ WriteSummary \/ Close

SuiteNext ==
    \/ MainStep
    \/ Interrupt \/ InterruptInStart \/ InterruptInTeardown
    \/ \E p \in booting : Boots(p)
    \/ HardKill \/ Rerun

\* The scripts are single-threaded and every wait of theirs has a timeout.
SuiteSpec == SuiteInit /\ [][SuiteNext]_suiteVars /\ WF_suiteVars(MainStep)

-----------------------------------------------------------------------------
(* Properties.                                                             *)

\* In a run that no killed run preceded, the gateway a cell is measured on is the
\* one started for it: "fresh gateway per seed" (run_regime_d_hetero.py), though
\* a health check does not ask who answers, a gateway given up on may bind its
\* port later, and ports are used again.
FreshGateway ==
    pc = "load" /\ run = 1 => {p \in up : p.port = ThisCell.port} = {Gateway(ThisCell)}

\* The ports of a script tell its configurations apart, so a cell is never
\* measured on a gateway of another configuration, not even on one a killed run
\* left behind.  In abc, where G2 has ports of G1, and in mock_hetero, where all
\* gateways have one port, a rerun can be fooled.
RightConfiguration ==
    pc = "load" /\ script[1] \notin {"abc", "mock_hetero"} =>
        \A p \in up : p.port = ThisCell.port => p.config = ThisCell.config

\* "engines stay up" (run_real_hetero_multiseed.py): while cells are measured, no
\* teardown has hit an engine, although it kills whatever handle is last, or a
\* proxy the block waited for.
EnginesOutliveCells ==
    pc \in {"cell", "health", "load"} =>
        /\ \A i \in 1 .. The.engines : Answers(EngineBase + i - 1)
        /\ ThisBlock.proxy \in {"skip", "return"} /\ cell <= Len(ThisBlock.cells) => Answers(ProxyPort)

\* However main() ends, nothing it started outlives it: however late a process
\* binds its port, whatever failed to start.  An interrupt inside a start or a
\* teardown leaves the one process that no handle names, no more; what mock_hetero
\* has started may be beyond its clean-up when it is interrupted.
NothingOutlivesMain ==
    pc = "ended" =>
        /\ outcome \notin {"interrupted", "cut"} \/ (outcome = "interrupted" /\ The.guarded) =>
              \A p \in Live : p.run < run
        /\ outcome = "cut" /\ The.guarded =>
              \A p, q \in Live : p.run = run /\ q.run = run => p = q

\* A block that finished is in summary.json once main() has ended in a way that
\* writes it; and where every block is saved, all blocks before the current one
\* are in it at any moment, even when the script was killed, unless the kill fell
\* between the opening of the file and the write.
KeptOutcomes == IF The.saves = "success" THEN {} ELSE {"interrupted", "cut", "error"}
FinishedBlocksAreKept ==
    /\ pc = "ended" /\ outcome \in {"ok"} \cup KeptOutcomes => finished \subseteq disk
    /\ The.saves = "blocks" /\ disk # Torn /\ blk > 2 =>
          \A i \in 1 .. blk - 1 : The.blocks[i].name \in disk

\* Rows are paired by index, so every cell of both configurations must have left a
\* row, whatever failed: then a comparison pairs rows of one workload.  Workshop
\* does not: it draws the workloads of a strategy from 1000 * (si + 1) + seed, and
\* drops the base rows without a p99 before it pairs.
PairsAreSeeds ==
    pc = "cell" /\ script[1] # "workshop" =>
        \A pair \in ThisBlock.compares :
            LET treat == RowsOf(pair[1])
                base == BaseRows(pair[2])
            IN  \A k \in treat, m \in base :
                    /\ rows[k].measured /\ rows[m].measured
                    /\ IndexIn(treat, k) = IndexIn(base, m)
                    => rows[k].seed = rows[m].seed

\* Every script comes to an end, whatever fails to start.
SuiteEnds == <>Ended

=============================================================================
