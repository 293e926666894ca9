------------------------------ MODULE FrontDoor ------------------------------
(***************************************************************************)
(* The way of a request through dio-serve/src/dio/gateway.py up to the       *)
(* engine and back: the middleware, the four inference endpoints with their  *)
(* checks, name resolution, the translation of Ollama and TGI bodies, the    *)
(* fallback to the completions route, the model listing, and hot            *)
(* registration in between.  Slots and health are module Gateway's: here     *)
(* pick returns any registered backend that is allowed, or none.             *)
(*                                                                         *)
(* A step runs from one await to the next.  What a client asks for is a      *)
(* member of Bodies; sizes are compared with the caps of the configuration.  *)
(***************************************************************************)
EXTENDS ModelTable

CONSTANTS Deployments,   \* pools, maps and keys the gateway is started with
          Bodies,        \* what clients send
          HotBackends,   \* what POST /debug/backends registers
          MaxTokensCap,  \* max_tokens_cap, 0 when it is off
          PromptCap,     \* prompt_chars_cap
          BodyCap,       \* body_size_cap_bytes
          FeatureCap,    \* token_feature_cap
          NoBudget,      \* the body holds no such key
          MaxAdds        \* bound: hot registrations

VARIABLES conf,      \* [key, protect, guarded]: api_key set, protect_debug, data_plane_auth
          model_map, \* the operator's declarations
          pool,      \* BackendPool.backends in dictionary order
          replaced,  \* ids registered a second time
          req,       \* the request in the handler, or Idle
          listing,   \* GET /v1/models or /api/tags between two probes, or NoListing
          adds

vars == <<conf, model_map, pool, replaced, req, listing, adds>>

-----------------------------------------------------------------------------
BudgetKeys == {"max_tokens", "max_completion_tokens", "max_new_tokens"}
IsChat(surface) == surface \in {"/v1/chat/completions", "/api/chat"}
IsOllama(surface) == surface \in {"/api/chat", "/api/generate"}
DefaultBudget == 64

\* What a body holds under a budget key, when it is shaped, is an integer.
ASSUME FrontDoorAssumption ==
    /\ MaxTokensCap \in Int
    /\ \A body \in Bodies, k \in BudgetKeys : body.budget[k] \in Int \cup {NoBudget}

\* Pools and maps are what a configuration file gives: lists, each id once in a
\* pool, an id for every name; and no backend has the name this module gives to None.
ASSUME DeploymentsAssumption ==
    /\ \A d \in Deployments :
          /\ d.pool \in Seq(ToSet(d.pool)) /\ d.map \in Seq(ToSet(d.map))
          /\ \A i, j \in DOMAIN d.pool : d.pool[i].id = d.pool[j].id => i = j
          /\ \A i \in DOMAIN d.map : /\ d.map[i].names \in Seq(ToSet(d.map[i].names))
                                      /\ d.map[i].ids # {}
          /\ Unrestricted \cap (PoolIds(d.pool) \cup UNION {d.map[i].ids : i \in DOMAIN d.map}) = {}
    /\ \A b \in HotBackends : b.id \notin Unrestricted

Idle == [phase |-> "idle"]
NoListing == [phase |-> "none"]

BackendOf(id) == pool[CHOOSE i \in DOMAIN pool : pool[i].id = id]
Table == Aliases(model_map, pool)
Least(a, b) == IF a <= b THEN a ELSE b
Greatest(a, b) == IF a >= b THEN a ELSE b

-----------------------------------------------------------------------------
(* The middleware and the checks of the endpoints.                         *)

\* hmac.compare_digest of the caller's key, on the paths the key covers.
Unauthorized(body, admin) ==
    /\ conf.key /\ ~body.keyed
    /\ IF admin THEN conf.protect ELSE conf.guarded

\* A chunked upload declares no length.
Oversized(body) == BodyCap # 0 /\ ~body.chunked /\ body.bytes > BodyCap

\* Mutant: only the current name of the key is checked.
ChecksMaxTokensOnly(body) ==
    \/ ~body.shaped
    \/ LET v == body.budget["max_tokens"]
       IN  v # NoBudget /\ (v <= 0 \/ (MaxTokensCap # 0 /\ v > MaxTokensCap))

\* _validate_openai_body; a number that is no integer counts as body.shaped
\* = FALSE, like missing messages or an empty prompt.
Invalid(body) ==
    \/ ~body.shaped
    \/ \E k \in BudgetKeys :
          LET v == body.budget[k]
          IN  v # NoBudget /\ (v <= 0 \/ (MaxTokensCap # 0 /\ v > MaxTokensCap))

PromptTooLong(body) == PromptCap # 0 /\ body.chars > PromptCap

\* The status of a request that is turned away before pick, or 0.
Refusal(body, table) ==
    IF Unauthorized(body, FALSE) THEN 401
    ELSE IF Oversized(body) THEN 413
    ELSE IF Invalid(body) THEN 400
    ELSE IF PromptTooLong(body) THEN 413
    ELSE IF Resolve(table, body.model) = {} THEN 404
    ELSE 0

-----------------------------------------------------------------------------
(* Translations.                                                           *)

\* An Ollama body is rebuilt from model, messages or prompt, and options:
\* num_predict becomes max_tokens, the checked keys are left behind.
ToOpenAI(body) ==
    IF ~IsOllama(body.surface) THEN body.budget
    ELSE [k \in BudgetKeys |-> IF k = "max_tokens" THEN body.num_predict ELSE NoBudget]

\* openai_chat_to_tgi_generate reads max_tokens, then max_new_tokens.
TgiBudget(budget) ==
    IF budget["max_tokens"] # NoBudget THEN budget["max_tokens"]
    ELSE IF budget["max_new_tokens"] # NoBudget THEN budget["max_new_tokens"]
    ELSE DefaultBudget

\* The body of the completions fallback carries max_tokens alone.
FallbackBudget(budget) ==
    [k \in BudgetKeys |-> IF k # "max_tokens" THEN NoBudget
                          ELSE IF budget[k] = NoBudget THEN DefaultBudget ELSE budget[k]]

\* What forward_chat, forward_completions and the stream handlers send to b:
\* the model of the backend replaces the caller's, and only the JSON path
\* rewrites the body for a TGI route.
Payload(b, body, budget) ==
    [to |-> b.id, route |-> b.style, answers |-> IF b.model = NoModel THEN body.model ELSE b.model,
     shape |-> IF b.style = "tgi" /\ ~body.stream THEN "tgi" ELSE "openai",
     budget |-> IF b.style = "tgi" /\ ~body.stream
                THEN [k \in BudgetKeys |-> IF k = "max_new_tokens" THEN TgiBudget(budget)
                                                                   ELSE NoBudget]
                ELSE budget]

\* _feature_tokens: prompt plus completion budget (0 counts as absent), the
\* feature the scheduler predicts with.
Feature(body) ==
    LET b == ToOpenAI(body)
        set(k) == b[k] \notin {NoBudget, 0}
        out == IF set("max_tokens") THEN b["max_tokens"]
               ELSE IF set("max_completion_tokens") THEN b["max_completion_tokens"]
               ELSE DefaultBudget
        tokens == Greatest(1, body.chars \div 4) + Greatest(1, out)
    IN  IF FeatureCap > 0 THEN Least(tokens, FeatureCap) ELSE tokens

-----------------------------------------------------------------------------
(* The inference endpoints.                                                *)

\* A handler runs from its first line to the first await: the refusal, or
\* pick and the first exchange with the engine.
Handle(body) ==
    /\ req = Idle
    /\ LET table == Table
           allowed == Resolve(table, body.model)
           usable == IF allowed = Unrestricted THEN PoolIds(pool) ELSE allowed \cap PoolIds(pool)
           answered(status) == [body |-> body, resolved |-> allowed, feature |-> Feature(body),
                                phase |-> "answered", status |-> status]
           sent(b) == [body |-> body, resolved |-> allowed, feature |-> Feature(body),
                       phase |-> "sent", sent |-> <<Payload(b, body, ToOpenAI(body))>>]
       IN  IF Refusal(body, table) # 0
           THEN req' = answered(Refusal(body, table))
           ELSE req' = answered(503) \/ \E id \in usable : req' = sent(BackendOf(id))
    /\ UNCHANGED <<conf, model_map, pool, replaced, listing, adds>>

\* A 404 of the chat route of a JSON request: once more, on the completions
\* route of whatever backend now has the id.
Fallback ==
    /\ req.phase = "sent" /\ IsChat(req.body.surface) /\ ~req.body.stream
    /\ Len(req.sent) = 1
    /\ req' = [req EXCEPT !.sent =
                Append(@, Payload(BackendOf(req.sent[1].to), req.body,
                                  FallbackBudget(ToOpenAI(req.body))))]
    /\ UNCHANGED <<conf, model_map, pool, replaced, listing, adds>>

\* The reply of a TGI chat route is rewritten when the backend registered
\* under the id by then is a TGI one.
Normalised(style) ==
    style = "tgi" /\ IsChat(req.body.surface) /\ ~req.body.stream

\* The engine accepts the last payload, fails, or cannot be reached (502).
EngineReplies ==
    /\ req.phase = "sent"
    /\ \E status \in {200, 500, 502} :
          req' = [body |-> req.body, resolved |-> req.resolved, feature |-> req.feature,
                  sent |-> req.sent, phase |-> "answered", status |-> status,
                  backend |-> req.sent[1].to,
                  rewritten |-> status = 200 /\ Normalised(BackendOf(req.sent[1].to).style)]
    /\ UNCHANGED <<conf, model_map, pool, replaced, listing, adds>>

\* The response is written; the next request may come.
Done ==
    /\ req.phase = "answered"
    /\ req' = Idle
    /\ UNCHANGED <<conf, model_map, pool, replaced, listing, adds>>

-----------------------------------------------------------------------------
(* The model listing and the admin endpoint.                               *)

\* _collect_model_names: the alias table, then one probe after the other of
\* the backends that were in the pool when it began.
StartListing ==
    /\ listing.phase # "probing"
    /\ listing' = [phase |-> "probing", names |-> NamesOf(Table), left |-> pool, stable |-> TRUE]
    /\ UNCHANGED <<conf, model_map, pool, replaced, req, adds>>

\* Mutant: a probe that fails lists the backend under its id.
ProbeNamesBackend ==
    /\ listing.phase = "probing" /\ listing.left # <<>>
    /\ LET b == Head(listing.left)
       IN  \E names \in {{[text |-> <<b.id>>, cased |-> FALSE]}, b.reports} :
              listing' = [listing EXCEPT !.left = Tail(@), !.names = @ \cup names]
    /\ UNCHANGED <<conf, model_map, pool, replaced, req, adds>>

\* A probe adds the names the engine reports (m.get("id") or b.model or b.id)
\* or fails and adds nothing.
Probe ==
    /\ listing.phase = "probing" /\ listing.left # <<>>
    /\ LET b == Head(listing.left)
       IN  \E names \in {{}, b.reports} :
              listing' = [listing EXCEPT !.left = Tail(@), !.names = @ \cup names]
    /\ UNCHANGED <<conf, model_map, pool, replaced, req, adds>>

Listed(names) == IF names = {} THEN {DefaultModel} ELSE names

\* list_models and ollama_tags answer with the names of the table.
EndListing ==
    /\ listing.phase = "probing" /\ listing.left = <<>>
    /\ listing' = [phase |-> "listed", names |-> Listed(listing.names), stable |-> listing.stable]
    /\ UNCHANGED <<conf, model_map, pool, replaced, req, adds>>

\* Mutant: a new backend takes the place of the others.
ReplacesPool(b) ==
    IF b.id \in PoolIds(pool)
    THEN [i \in DOMAIN pool |-> IF pool[i].id = b.id THEN b ELSE pool[i]]
    ELSE <<b>>

\* BackendPool.add: an assignment to a dictionary.
PoolWith(b) ==
    IF b.id \in PoolIds(pool)
    THEN [i \in DOMAIN pool |-> IF pool[i].id = b.id THEN b ELSE pool[i]]
    ELSE Append(pool, b)

\* add_backend_http: a backend with an id and a valid URL, OpenAI style.
AddBackend(b) ==
    /\ adds < MaxAdds /\ adds' = adds + 1
    /\ ~Unauthorized([keyed |-> b.keyed], TRUE)
    /\ b.validUrl
    /\ LET new == [id |-> b.id, model |-> b.model, style |-> "openai", reports |-> b.reports]
       IN  pool' = PoolWith(new)
    /\ replaced' = replaced \cup ({b.id} \cap PoolIds(pool))
    /\ listing' = IF listing = NoListing \/ b.id \notin PoolIds(pool) THEN listing
                  ELSE [listing EXCEPT !.stable = FALSE]
    /\ UNCHANGED <<conf, model_map, req>>

-----------------------------------------------------------------------------
Init ==
    /\ \E d \in Deployments : conf = d.conf /\ model_map = d.map /\ pool = d.pool
    /\ replaced = {}
    /\ req = Idle
    /\ listing = NoListing
    /\ adds = 0

RequestStep == (\E body \in Bodies : Handle(body)) \/ Fallback \/ EngineReplies \/ Done
ListingStep == StartListing \/ Probe \/ EndListing
HotAdd == \E b \in HotBackends : AddBackend(b)

Next == RequestStep \/ ListingStep \/ HotAdd

Spec == Init /\ [][Next]_vars

-----------------------------------------------------------------------------
(* Properties.                                                             *)

Usable(map, pl, n) ==
    LET ids == Resolve(Aliases(map, pl), n)
    IN  IF ids = Unrestricted THEN PoolIds(pl) ELSE ids \cap PoolIds(pl)

Answered == req.phase = "answered" /\ req.status = 200
Served == Last(req.sent)

\* The map binds id under a name that is not the backend's own model.
HasSecondNames(id) ==
    \E n \in DeclaredNames(model_map) : id \in IdsOf(model_map, n) /\ n # BackendOf(id).model

\* "Fail closed": whoever names a model gets a 200 from that model, or from one
\* whose name differs only in case, path or a completed suffix, unless the
\* backend goes by several names or was replaced while the request was out.
\* forward_chat overwrites the caller's model, so a wrong match goes unseen.
ServedByItsModel ==
    Answered /\ req.resolved # Unrestricted =>
        LET n == req.body.model
        IN  \/ Served.to \in replaced \/ HasSecondNames(Served.to)
            \/ Served.answers = n \/ SameText(Served.answers, n) \/ PrefixOfEither(Served.answers, n)

\* max_tokens_cap on the OpenAI endpoints: no key under which an engine takes a
\* budget gets past it, unless it is off: on the first attempt or the fallback,
\* translated for TGI or not; the budget the gateway makes up itself is the only
\* exception.
BudgetWithinCap ==
    req.phase # "idle" /\ "sent" \in DOMAIN req /\ ~IsOllama(req.body.surface) =>
        \A i \in DOMAIN req.sent, k \in BudgetKeys :
            LET v == req.sent[i].budget[k]
            IN  \/ v = NoBudget
                \/ v > 0 /\ (MaxTokensCap # 0 => v <= Greatest(MaxTokensCap, DefaultBudget))

\* Registering a new backend never takes a route away: a name with a usable
\* backend keeps one, and a name of the table keeps all of its own.  Only the
\* first model name ever known may (it ends the legacy "any name" mode), and
\* only an id that is registered again may lose a name.
HotAddKeepsRoutes ==
    [][PoolIds(pool') # PoolIds(pool) /\ NamesOf(Table) # {} =>
          \A n \in {body.model : body \in Bodies} :
              /\ Usable(model_map, pool, n) # {} => Usable(model_map, pool', n) # {}
              /\ n \in NamesOf(Table) =>
                    Usable(model_map, pool, n) \subseteq Usable(model_map, pool', n)]_vars

\* What the gateway lists on its own account, it routes: a client may ask for
\* every listed name that is not an engine's word alone, although backends were
\* registered between the probes, as long as no known id was registered again.
\* The comment in list_models says so of every id: see EveryListedIdRoutes.
ListedIsRoutable ==
    listing.phase = "listed" /\ listing.stable =>
        \A n \in listing.names :
            Resolve(Table, n) # {} \/ \E i \in DOMAIN pool : n \in pool[i].reports

-----------------------------------------------------------------------------
(* What comments of the code say and the code does not do.                  *)

\* gateway.py, list_models: "every id returned here is one this gateway will
\* actually route."
EveryListedIdRoutes ==
    listing.phase = "listed" /\ listing.stable =>
        \A n \in listing.names : Resolve(Table, n) # {}

\* gateway.py, _resolve_model_backends: a caller who "would get a 200 from the
\* wrong model" is refused.  Every name of the table is a model of its own.
NeverTheWrongModel ==
    Answered /\ req.resolved # Unrestricted /\ Served.to \notin replaced =>
        LET n == req.body.model
        IN  Served.answers = n \/ SameText(Served.answers, n) \/ PrefixOfEither(Served.answers, n)

=============================================================================
