------------------------------ MODULE MCServing ------------------------------
(* Small instances, for TLC, of the parts of the gateway process whose calls  *)
(* do not wait inside: Ranking, Admission and Learner, FrontDoor and          *)
(* StreamTranslator.                                                         *)
EXTENDS Ranking, Admission, Learner, FrontDoor, StreamTranslator, TLC

\* One behaviour is about the cost of a request, about the affinity cache, about
\* the SLO gate, about the learner of one backend, about the requests at the
\* front door, about listings of the models or about one stream.
VARIABLE focus
schedVars == <<rankVars, gateVars, learnerVars>>
mcVars == <<schedVars, vars, streamVars, focus>>

-----------------------------------------------------------------------------
(* Scheduler: costs, the cache, the gate and the learner.                   *)

\* Below, between and above the two token limits of the hard blocks (500 and
\* 1000); the short one is fast enough for a bonus to exceed its service time.
MCTokens == [short |-> 20, medium |-> 600, long |-> 1200]

\* A fast backend, predicted at 50 ms for the short request, and a slow one.
MCFast == [slope |-> 1, intercept |-> 30]
MCSlow == [slope |-> 3, intercept |-> 400]
MCLines == {MCFast, MCSlow}

\* Idle with a warm prefix cache; saturated, with a queue.
MCWarm == [ok |-> TRUE, kvPct |-> 0, waiting |-> 0, hitPct |-> 100]
MCFull == [ok |-> TRUE, kvPct |-> 100, waiting |-> 8, hitPct |-> 50]
MCSnapshots == {MCWarm, MCFull}

\* Prefix hashes are only compared.
KeySymmetry == Permutations(PromptKeys)

\* The gate reads a score list through its minimum and its percentiles, so one
\* order of each list is enough.  None, one, two or five candidates: from five on, a
\* request can be shed although one backend costs more than the others.
MCSorted(f) == \A i \in 1..(Len(f) - 1) : f[i] <= f[i + 1]
MCFields == {f \in UNION {[1..n -> {Blocked, 400, 900}] : n \in {0, 1, 2, 5}} : MCSorted(f)}

\* Ten requests of one size, in line or outliers that queued behind others; three
\* requests of two sizes.
MCSample(tokens, ms, contended) == [tokens |-> tokens, actual |-> 1000 * ms, contended |-> contended]
MCSteady == [length |-> 10, samples |-> {MCSample(100, 300, FALSE), MCSample(100, 15000, TRUE)}]
MCMixed == [length |-> 3, samples |-> {MCSample(t, ms, c) : t \in {16, 200}, ms \in {20, 4000}, c \in BOOLEAN}]
MCWorkloads == {MCSteady, MCMixed}

\* Everything a backend can go through, around one request.
MCCost == (served = <<>> /\ Picks) \/ WorkerChanges \/ ResetAffinity

\* Longer histories of the cache: short requests, on small backends that keep
\* their memory and are fast.
MCAffinity ==
    \/ \E ids \in SUBSET Workers, tier \in Tiers, key \in PromptKeys : Pick(ids, "short", tier, key)
    \/ \E w \in Workers : Release(w) \/ (Register(w) /\ UNCHANGED free)
    \/ \E w \in Workers : FeedbackSuccess(w) /\ line'[w] = MCFast
    \/ ResetAffinity

-----------------------------------------------------------------------------
(* Front door: deployments and bodies.                                      *)

MCName(text) == [text |-> text, cased |-> FALSE]
Llama8b == MCName(<<"meta", "/", "llama", "8b">>)
Llama == MCName(<<"llama">>)
Phi == MCName(<<"phi">>)
Mistral == MCName(<<"mistral">>)

MCShortTexts == {<<"ph">>}

\* As in the table, in another case, by last segment, by prefix, under three
\* characters, sharing a token with a model, unknown, generic and absent.
MCAsked == {Llama8b, Llama, Phi, Mistral, [Llama8b EXCEPT !.cased = TRUE],
            MCName(<<"llama", "8b">>), MCName(<<"ph">>), MCName(<<"phi", "3">>),
            MCName(<<"code", "8b">>), MCName(<<"default">>), NoModel}

MCBackend(id, name, style, reports) ==
    [id |-> id, model |-> name, style |-> style, reports |-> reports]
MCOpen == [key |-> FALSE, protect |-> TRUE, guarded |-> FALSE]
MCLocked == [key |-> TRUE, protect |-> TRUE, guarded |-> TRUE]

\* Bare URLs; one model per backend, one of them TGI; a file whose map names a
\* backend the command line did not give, and an engine with a model of its own.
MCBare == [conf |-> MCOpen, map |-> <<>>,
           pool |-> <<MCBackend("a", NoModel, "openai", {Llama8b})>>]
MCSingles == [conf |-> MCLocked,
              map |-> <<[names |-> <<Llama8b>>, ids |-> {"a"}], [names |-> <<Phi>>, ids |-> {"b"}]>>,
              pool |-> <<MCBackend("a", Llama8b, "openai", {Llama8b}),
                         MCBackend("b", Phi, "tgi", {Phi})>>]
MCForeignMap == [conf |-> MCOpen, map |-> <<[names |-> <<Llama8b>>, ids |-> {"c"}]>>,
                 pool |-> <<MCBackend("a", Phi, "openai", {Phi, Mistral})>>]
\* An Ollama server with two models, as dio.example.yaml shows it.
MCMulti == [conf |-> MCOpen,
            map |-> <<[names |-> <<Llama>>, ids |-> {"a"}], [names |-> <<Mistral>>, ids |-> {"a"}]>>,
            pool |-> <<MCBackend("a", Llama, "openai", {Llama, Mistral})>>]
MCDeployments == {MCBare, MCSingles, MCForeignMap, MCMulti}

MCNoKeys == [k \in BudgetKeys |-> NoBudget]
MCPlain == [surface |-> "/v1/chat/completions", model |-> Llama8b, budget |-> MCNoKeys,
            num_predict |-> NoBudget, stream |-> FALSE, chars |-> 8, bytes |-> 50,
            chunked |-> FALSE, shaped |-> TRUE, keyed |-> TRUE]

\* Every name; every surface, streamed or not; every budget key below and above
\* the cap, and the num_predict values Ollama gives a meaning; every refusal.
MCBodies ==
    {[MCPlain EXCEPT !.model = n] : n \in MCAsked}
    \cup {[MCPlain EXCEPT !.model = n, !.stream = TRUE] : n \in {Llama8b, Phi, NoModel}}
    \cup {[MCPlain EXCEPT !.surface = p, !.model = n, !.budget = [MCNoKeys EXCEPT ![k] = v]] :
            p \in {"/v1/chat/completions", "/v1/completions"}, n \in {Llama8b, Phi},
            k \in BudgetKeys, v \in {32, 200}}
    \cup {[MCPlain EXCEPT !.surface = p, !.num_predict = v, !.stream = s] :
            p \in {"/api/chat", "/api/generate"}, v \in {-1, 0, 200}, s \in BOOLEAN}
    \cup {[MCPlain EXCEPT !.shaped = FALSE], [MCPlain EXCEPT !.budget = [@ EXCEPT !["max_tokens"] = 0]],
          [MCPlain EXCEPT !.keyed = FALSE],
          [MCPlain EXCEPT !.bytes = 900], [MCPlain EXCEPT !.bytes = 900, !.chunked = TRUE],
          [MCPlain EXCEPT !.chars = 500]}

\* A new id with a known model, a more specific one or none, a known id with
\* another model, a caller without the key, a URL that is refused.
MCHot(id, name) == [id |-> id, model |-> name, reports |-> {Phi}, keyed |-> TRUE, validUrl |-> TRUE]
MCHotBackends == {MCHot("c", Llama8b), MCHot("c", Llama), MCHot("c", NoModel), MCHot("b", Mistral),
                  [MCHot("d", Phi) EXCEPT !.keyed = FALSE], [MCHot("d", Phi) EXCEPT !.validUrl = FALSE]}

-----------------------------------------------------------------------------
(* Streams: what is asked of which engine.                                  *)

MCRequest(chat, words, max) ==
    [chat |-> chat, words |-> words, max |-> max, prompt |-> 3, estimate |-> 2]
MCRequests == {MCRequest(TRUE, 2, 2), MCRequest(TRUE, 2, 1), MCRequest(FALSE, 1, 2), MCRequest(FALSE, 3, 2)}

MCFrag(idx, id, name, args) == [idx |-> idx, id |-> id, name |-> name, args |-> args]
\* Two calls whose fragments interleave, a wide character, junk, a keep-alive
\* and events after [DONE].
MCToolScript == <<Tools(<<MCFrag(0, "c0", "f", <<>>)>>), Tools(<<MCFrag(1, "c1", "g", <<"{">>), MCFrag(0, None, None, <<"{">>)>>),
                  Tools(<<MCFrag(0, None, None, <<"}">>)>>), Finish("tool_calls"), DoneMark>>
MCWideScript == <<KeepAlive, WideText(1), Junk, Text(2), Usage(5, 7), Finish("length"), DoneMark, Text(4)>>
\* An engine that ends without [DONE] and reports usage twice.
MCOpenScript == <<Text(2), Usage(5, 1), Text(3), Usage(5, 2)>>

MCMock(usage) == [mock |-> TRUE, usage |-> usage, script |-> <<>>]
MCReal(events) == [mock |-> FALSE, usage |-> "supports", script |-> events]
MCEngines == {MCMock("supports"), MCMock("ignores"), MCMock("rejects"),
              MCReal(MCToolScript), MCReal(MCWideScript), MCReal(MCOpenScript)}

-----------------------------------------------------------------------------
MCInit ==
    /\ focus \in {"cost", "affinity", "gate", "learn", "door", "list", "stream"}
    /\ Init
    /\ focus \notin {"door", "list"} => conf = MCOpen /\ model_map = <<>>
    /\ StreamInit
    /\ focus # "stream" => call = MCRequest(TRUE, 2, 2) /\ engine = MCMock("supports")
    /\ RankInit
    /\ focus # "cost" => tierOf = [w \in Workers |-> "small"]
    /\ focus # "cost" => free = [w \in Workers |-> IF focus = "affinity" THEN TotalVramMb ELSE 1500]
    /\ GateInit
    /\ focus # "gate" => admission_mode = "rank_only"
    /\ LearnerInit
    /\ focus # "learn" => mode = "DUAL" /\ robust /\ workload = MCSteady

MCSched ==
    \/ focus = "cost" /\ MCCost /\ UNCHANGED <<gateVars, learnerVars>>
    \/ focus = "affinity" /\ MCAffinity /\ UNCHANGED <<gateVars, learnerVars>>
    \/ focus = "gate" /\ GateNext /\ UNCHANGED <<rankVars, learnerVars>>
    \/ focus = "learn" /\ Learn /\ UNCHANGED <<rankVars, gateVars>>

MCDoor ==
    \/ focus = "door" /\ (RequestStep \/ (req.phase # "answered" /\ HotAdd)) /\ UNCHANGED streamVars
    \/ focus = "list" /\ (ListingStep \/ HotAdd) /\ UNCHANGED streamVars
    \/ focus = "stream" /\ StreamNext /\ UNCHANGED vars

MCNext ==
    /\ UNCHANGED focus
    /\ \/ MCSched /\ UNCHANGED <<vars, streamVars>>
       \/ MCDoor /\ UNCHANGED schedVars

MCSpec == MCInit /\ [][MCNext]_mcVars

=============================================================================
