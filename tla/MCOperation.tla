----------------------------- MODULE MCOperation -----------------------------
(* Small instances, for TLC, of what surrounds a gateway: the commands of an  *)
(* operator and the MCP server (McpServer), the Go control plane and its      *)
(* workers (WorkerProxy).                                                    *)
EXTENDS McpServer, WorkerProxy, TLC

\* One behaviour is about the commands; about the MCP server, next to which a
\* gateway is started and stopped; about two calls on the Go control plane,
\* next to an engine and a heartbeat that go on once they have begun; or about
\* one call, next to a proxy that fails at any point.
VARIABLE focus
mcVars == <<serverVars, vars, focus>>

-----------------------------------------------------------------------------
(* Commands and tools.                                                     *)

MCName(text) == [text |-> text, cased |-> FALSE]
Llama == MCName(<<"llama">>)
Phi == MCName(<<"phi">>)
Year == MCName(<<"2024">>)
MCNonString == {Year}

\* Two of the four ports: Ollama, whose stand-in name is llama3, and a vLLM.
MCEngines == <<[id |-> "ollama-local", fallback |-> MCName(<<"llama3">>)],
               [id |-> "vllm-primary", fallback |-> MCName(<<"default">>)]>>
MCListings == {<<>>, <<Llama>>, <<Llama, Phi>>, <<Year>>}

MCUnset == [strategy |-> Unset, slo |-> Unset, port |-> Unset]
MCEntry(id, models) == [kind |-> "mapping", id |-> id, url |-> "ok", odd |-> {}, models |-> models]
MCFile(form, entries, bad) ==
    [form |-> form, entries |-> entries, badValue |-> bad, oddSetting |-> FALSE, by |-> "hand", found |-> <<>>,
     settings |-> [MCUnset EXCEPT !.strategy = "rls"]]
\* Good; two entries with one id; a refused URL; no URL and a name that is a
\* number; a bad number; not a mapping; not YAML; an id, a tier or a strategy
\* that is a number.
MCFiles == {MCFile("mapping", <<MCEntry("a", <<Llama, Phi>>), MCEntry("b", <<Llama>>)>>, FALSE),
            MCFile("mapping", <<MCEntry("a", <<Llama>>), MCEntry("a", <<Phi>>)>>, FALSE),
            MCFile("mapping", <<[MCEntry("a", <<Llama>>) EXCEPT !.url = "refused"]>>, FALSE),
            MCFile("mapping", <<[MCEntry("a", <<Year>>) EXCEPT !.url = "missing"]>>, FALSE),
            MCFile("mapping", <<MCEntry("a", <<>>)>>, TRUE),
            MCFile("mapping", <<[MCEntry("1", <<Llama>>) EXCEPT !.odd = {"id"}]>>, FALSE),
            MCFile("mapping", <<[MCEntry("a", <<Llama>>) EXCEPT !.odd = {"tier"}]>>, FALSE),
            [MCFile("mapping", <<MCEntry("a", <<Llama>>)>>, FALSE) EXCEPT !.oddSetting = TRUE],
            MCFile("list", <<>>, FALSE), MCFile("malformed", <<>>, FALSE)}

MCFlags(config, backends) == [config |-> config, backends |-> backends,
                              settings |-> [MCUnset EXCEPT !.port = 9000]]
MCFlagSets == {MCFlags(FALSE, <<>>), MCFlags(TRUE, <<>>), MCFlags(FALSE, <<"b0", "b1">>),
               MCFlags(TRUE, <<"b0">>)}

MCItem(id, method, tool) == [form |-> "object", id |-> id, method |-> method, tool |-> tool]
MCLine(items) == [form |-> "single", items |-> items]
MCTool(id, tool) == MCItem(id, "tools/call", tool)
MCScript == {[form |-> "garbage", items |-> <<>>], [form |-> "blank", items |-> <<>>],
             [form |-> "batch", items |-> <<>>],
             MCLine(<<MCItem(1, "ping", "")>>), MCLine(<<MCItem(0, "initialized", "")>>),
             MCLine(<<MCTool(2, "dio_get_models")>>), MCLine(<<MCTool(3, "dio_cluster_status")>>),
             [form |-> "batch", items |-> <<MCTool(4, "dio_route_prompt"), MCItem(0, "ping", ""),
                                            MCTool(5, "dio_predict_latency"), MCTool(6, "bad_arguments"),
                                            MCTool(7, "unknown"), [form |-> "number"]>>]}

\* The files an MCP server may find beside it.
MCBeside == {NoFile} \cup {f \in MCFiles : LoadProblem(f) \in {"none", "config_error"} /\ f.form = "mapping"}

MCDeployInit ==
    /\ McpInit
    /\ focus = "tools" => file \in MCBeside
    /\ focus \notin {"commands", "tools"} => file = NoFile
    /\ focus # "commands" \/ file # NoFile => engines = [p \in Ports |-> NoEngine]

MCCommands == DeployNext /\ UNCHANGED mcpVars
MCRestarts == ((\E flags \in {f \in FlagSets : ~f.config} : Serve(flags)) \/ Stop) /\ UNCHANGED mcpVars
MCTools == MCRestarts \/ GuardChanges \/ (\E line \in Script : ClientWrites(line)) \/ McpStep

-----------------------------------------------------------------------------
(* Manager and workers.                                                    *)

CONSTANTS v1, h1, r1, r2

MCWorkers == {v1, h1}
MCTier == v1 :> "large" @@ h1 :> "small"
MCProfile == r1 :> [tier |-> "small", long |-> TRUE, front |-> "generate"]
          @@ r2 :> [tier |-> "large", long |-> FALSE, front |-> "openai"]

MCClusterInit ==
    /\ Init
    /\ focus = "queue" => strategy \in {"NLMS", "LeastLoaded"}
    /\ focus = "proxies" => strategy \in {"RoundRobin", "LatencyBased"}
    /\ focus \in {"commands", "tools"} => strategy = "RoundRobin"

MCQueue ==
    /\ Next
    /\ restarts' <= 1
    /\ \A w \in Vllm : (engine[w] = "ready" => engine'[w] = "ready") /\ proxy'[w] # "hung"

MCProxies == Next /\ \A r \in Requests \ {r1} : call'[r] = call[r]

-----------------------------------------------------------------------------
MCInit == focus \in {"commands", "tools", "queue", "proxies"} /\ MCDeployInit /\ MCClusterInit

MCNext ==
    /\ UNCHANGED focus
    /\ \/ focus = "commands" /\ MCCommands /\ UNCHANGED vars
       \/ focus = "tools" /\ MCTools /\ UNCHANGED vars
       \/ focus = "queue" /\ MCQueue /\ UNCHANGED serverVars
       \/ focus = "proxies" /\ MCProxies /\ UNCHANGED serverVars

MCFairness == WF_mcVars(focus = "tools" /\ McpStep /\ UNCHANGED <<vars, focus>>) /\ Fairness
MCSpec == MCInit /\ [][MCNext]_mcVars /\ MCFairness

=============================================================================
