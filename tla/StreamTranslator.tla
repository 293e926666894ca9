--------------------------- MODULE StreamTranslator ---------------------------
(***************************************************************************)
(* One Ollama client streaming through _proxy_ollama_stream of gateway.py:    *)
(* the engine's server-sent events arrive as byte chunks cut anywhere, gen()  *)
(* puts lines together again, reads them as OpenAI chunks and yields ndjson.  *)
(* The upstream is MockBackendServer of backends.py or an engine that sends   *)
(* whatever OpenAI's format allows.                                         *)
(*                                                                         *)
(* A byte stream is a sequence of pieces <<i, part>> of the i-th event of the *)
(* engine's script: head, the two bytes of a wide character, tail, newline.   *)
(***************************************************************************)
EXTENDS Integers, Sequences, FiniteSets, SequencesExt, FiniteSetsExt

CONSTANTS Requests,    \* [chat, words, max, prompt, estimate]
          Engines,     \* [mock, usage, script]: usage is supports, ignores or rejects
          None,        \* a field that is absent
          Garbled,     \* text with U+FFFD in it
          MaxChunk     \* bound: pieces in one chunk

ASSUME MaxChunkAssumption == MaxChunk \in Nat \ {0}

VARIABLES call, engine,
          asks,        \* stream_options.include_usage is in the payload
          script,      \* the events of the accepted stream
          wire,        \* pieces not received yet
          phase,       \* opening, reading, refused, ended, aborted, gone
          gen,         \* the locals of gen()
          out,         \* ndjson lines yielded
          sched        \* calls on the scheduler for this slot

streamVars == <<call, engine, asks, script, wire, phase, gen, out, sched>>

-----------------------------------------------------------------------------
(* Events and their bytes.                                                  *)

Chunk(choices, text, wide, frags, finish, usage) ==
    [kind |-> "chunk", choices |-> choices, text |-> text, wide |-> wide, frags |-> frags,
     finish |-> finish, usage |-> usage]
Text(t) == Chunk(TRUE, t, FALSE, <<>>, None, None)
WideText(t) == Chunk(TRUE, t, TRUE, <<>>, None, None)
Finish(reason) == Chunk(TRUE, None, FALSE, <<>>, reason, None)
Tools(frags) == Chunk(TRUE, None, FALSE, frags, None, None)
Usage(p, g) == Chunk(FALSE, None, FALSE, <<>>, None, [prompt |-> p, gen |-> g])
Marker(kind) == [Chunk(FALSE, None, FALSE, <<>>, None, None) EXCEPT !.kind = kind]
DoneMark == Marker("done")       \* data: [DONE]
Junk == Marker("junk")           \* data: that is no JSON
KeepAlive == Marker("comment")   \* a line that is no data:

Bytes(s, i) ==
    (IF s[i].wide THEN <<<<i, "head">>, <<i, "c1">>, <<i, "c2">>, <<i, "tail">>>>
                  ELSE <<<<i, "head">>, <<i, "tail">>>>) \o <<<<i, "nl">>, <<i, "nl">>>>
Wire(s) == FlattenSeq([i \in DOMAIN s |-> Bytes(s, i)])

\* chunk.decode(errors="replace"): half a character is not kept for later.
Decode(chunk) ==
    [j \in DOMAIN chunk |->
        LET i == chunk[j][1]
            whole == \/ chunk[j][2] = "c1" /\ j < Len(chunk) /\ chunk[j + 1] = <<i, "c2">>
                     \/ chunk[j][2] = "c2" /\ j > 1 /\ chunk[j - 1] = <<i, "c1">>
        IN  IF chunk[j][2] \in {"c1", "c2"} /\ ~whole THEN <<i, "bad">> ELSE chunk[j]]

-----------------------------------------------------------------------------
(* The mock backend, streamed and not.                                      *)

Smaller(a, b) == IF a < b THEN a ELSE b
MockFinish(r) == IF r.words > r.max THEN "length" ELSE "stop"

\* Mutant: the budget is reported as the completion.
MockUsageIsBudget(r) == r.max

\* completion_tokens of both the usage chunk and the JSON reply.
MockUsage(r) == Smaller(r.words, r.max)

MockStream(r, include) ==
    (IF r.chat THEN <<Chunk(TRUE, None, FALSE, <<>>, None, None)>> ELSE <<>>)
        \o [i \in 1 .. Smaller(r.words, r.max) |-> Text(i)]
        \o <<Finish(MockFinish(r))>>
        \o (IF include THEN <<Usage(r.prompt, MockUsage(r))>> ELSE <<>>)
        \o <<DoneMark>>

MockJson(r) == [text |-> [i \in 1 .. Smaller(r.words, r.max) |-> i], finish |-> MockFinish(r),
                prompt |-> r.prompt, gen |-> Smaller(r.words, r.max)]

\* _ollama_done_reason
DoneReason(finish) == IF finish \in {"length", "tool_calls"} THEN finish ELSE "stop"

\* The end of ollama_chat and ollama_generate without stream.
OllamaJson(json) == [reason |-> DoneReason(json.finish), prompt |-> json.prompt, gen |-> json.gen]

-----------------------------------------------------------------------------
(* Opening the stream.                                                      *)

NoLocals == [buffer |-> <<>>, gen_tokens |-> 0, prompt |-> None, completion |-> None,
             slots |-> <<>>, last_finish |-> None, finished |-> FALSE]

\* A 400 while stream_options is in the payload: asked again without it.
Reopen ==
    /\ phase = "opening" /\ asks /\ engine.usage = "rejects"
    /\ asks' = FALSE
    /\ UNCHANGED <<call, engine, script, wire, phase, gen, out, sched>>

Opened ==
    /\ phase = "opening" /\ ~(asks /\ engine.usage = "rejects")
    /\ script' = IF engine.mock THEN MockStream(call, asks /\ engine.usage = "supports")
                 ELSE engine.script
    /\ wire' = Wire(script')
    /\ phase' = "reading" /\ gen' = NoLocals
    /\ UNCHANGED <<call, engine, asks, out, sched>>

ErrorLine == [done |-> TRUE, error |-> TRUE]

\* A status >= 400 that stays: _ndjson_error with the slot closed out, and a
\* failure noted for a 5xx; or no answer at all, where the slot is released.
Refused(status) ==
    /\ phase = "opening"
    /\ phase' = "refused"
    /\ out' = IF status = "unreachable" THEN out ELSE Append(out, ErrorLine)
    /\ sched' = CASE status = "unreachable" -> <<"release">>
                  [] status = "4xx" -> <<"failure">>
                  [] status = "5xx" -> <<"failure", "note_failure">>
    /\ UNCHANGED <<call, engine, asks, script, wire, gen>>

-----------------------------------------------------------------------------
(* gen(): lines out of chunks, events out of lines.                         *)

IsNl(piece) == piece[2] = "nl"
HasLine(buffer) == \E j \in DOMAIN buffer : IsNl(buffer[j])
FirstLine(buffer) == SubSeq(buffer, 1, Min({j \in DOMAIN buffer : IsNl(buffer[j])}) - 1)
AfterLine(buffer) == SubSeq(buffer, Len(FirstLine(buffer)) + 2, Len(buffer))

\* Mutant: what follows the last newline is dropped with the chunk.
KeepsNoTail(buffer, chunk) == Decode(chunk)

\* buffer += chunk_bytes.decode(...)
Buffered(buffer, chunk) == buffer \o Decode(chunk)

Reading == phase = "reading" /\ ~HasLine(gen.buffer) /\ ~gen.finished

ReceiveChunk(n) ==
    /\ Reading /\ n <= Len(wire)
    /\ gen' = [gen EXCEPT !.buffer = Buffered(@, SubSeq(wire, 1, n))]
    /\ wire' = SubSeq(wire, n + 1, Len(wire))
    /\ UNCHANGED <<call, engine, asks, script, phase, out, sched>>

\* An event is read off a line that holds all of it.
Parsed(line) ==
    LET i == line[1][1]
    IN  IF line # <<>> /\ line[1][2] = "head" /\ Last(line)[2] = "tail"
           /\ \A j \in DOMAIN line : line[j][1] = i
        THEN [script[i] EXCEPT !.text = IF \E j \in DOMAIN line : line[j][2] = "bad"
                                        THEN Garbled ELSE @]
        ELSE Junk

\* _ollama_tool_call_deltas: the slots that have a name or arguments, by index.
NoSlot(idx) == [idx |-> idx, id |-> None, name |-> None, args |-> <<>>]
Calls(slots) ==
    SelectSeq(SetToSortSeq(ToSet(slots), LAMBDA a, b : a.idx < b.idx),
              LAMBDA s : s.name # None \/ s.args # <<>>)

\* One fragment of delta.tool_calls into its slot.
Accumulate(slot, frag) ==
    [slot EXCEPT !.id = IF frag.id # None THEN frag.id ELSE @,
                 !.name = IF frag.name # None THEN frag.name ELSE @,
                 !.args = @ \o frag.args]

WithFragment(slots, frag) ==
    IF \E j \in DOMAIN slots : slots[j].idx = frag.idx
    THEN [j \in DOMAIN slots |-> IF slots[j].idx = frag.idx THEN Accumulate(slots[j], frag) ELSE slots[j]]
    ELSE Append(slots, Accumulate(NoSlot(frag.idx), frag))

Line(text, calls) == [done |-> FALSE, error |-> FALSE, text |-> text, calls |-> calls]

\* The chunk's usage, finish reason, text and fragments, each with its yield.
\* A chunk without choices carries usage only; a completion has no fragments.
Handled(g, o, ev) ==
    LET counted == IF ev.usage = None THEN g
                   ELSE [g EXCEPT !.prompt = ev.usage.prompt, !.completion = ev.usage.gen]
        noted == [counted EXCEPT !.last_finish = IF ev.finish # None THEN ev.finish ELSE @,
                                 !.gen_tokens = IF ev.text # None THEN @ + 1 ELSE @]
        spoken == IF ev.text = None THEN o ELSE Append(o, Line(ev.text, <<>>))
        frags == IF call.chat THEN ev.frags ELSE <<>>
    IN  IF ~ev.choices THEN [gen |-> counted, out |-> o]
        ELSE FoldLeft(LAMBDA acc, f :
                        LET slots == WithFragment(acc.gen.slots, f)
                        IN  [gen |-> [acc.gen EXCEPT !.slots = slots, !.gen_tokens = @ + 1],
                             out |-> Append(acc.out, Line(None, Calls(slots)))],
                      [gen |-> noted, out |-> spoken], frags)

TakeLine ==
    /\ phase = "reading" /\ HasLine(gen.buffer) /\ ~gen.finished
    /\ LET ev == Parsed(FirstLine(gen.buffer))
           rest == [gen EXCEPT !.buffer = AfterLine(@)]
           step == CASE ev.kind = "done" -> [gen |-> [rest EXCEPT !.finished = TRUE], out |-> out]
                     [] ev.kind = "chunk" -> Handled(rest, out, ev)
                     [] OTHER -> [gen |-> rest, out |-> out]
       IN  gen' = step.gen /\ out' = step.out
    /\ UNCHANGED <<call, engine, asks, script, wire, phase, sched>>

-----------------------------------------------------------------------------
(* The ends of a stream.                                                    *)

FinalLine(g) ==
    [done |-> TRUE, error |-> FALSE, reason |-> DoneReason(g.last_finish),
     prompt |-> IF g.prompt # None THEN g.prompt ELSE call.estimate,
     gen |-> IF g.completion # None THEN g.completion ELSE g.gen_tokens,
     calls |-> Calls(g.slots)]

\* [DONE], or the engine closed the connection, wherever it was: the buffer's
\* unfinished line is not looked at.
StreamEnds ==
    /\ phase = "reading" /\ (gen.finished \/ ~HasLine(gen.buffer))
    /\ out' = Append(out, FinalLine(gen))
    /\ sched' = <<"success">>
    /\ phase' = "ended"
    /\ UNCHANGED <<call, engine, asks, script, wire, gen>>

\* The read fails or times out: an error line, a failure noted, and the slot
\* closed out as a failure.
StreamAborts ==
    /\ Reading
    /\ out' = Append(out, ErrorLine)
    /\ sched' = <<"note_failure", "failure">>
    /\ phase' = "aborted"
    /\ UNCHANGED <<call, engine, asks, script, wire, gen>>

\* The client is gone: cancelled in the read, the slot is released; dropped at a
\* yield, it is closed out as a failure.
ClientGone(atYield) ==
    /\ IF atYield THEN phase = "reading" /\ out # <<>> ELSE Reading
    /\ sched' = IF atYield THEN <<"failure">> ELSE <<"release">>
    /\ phase' = "gone"
    /\ UNCHANGED <<call, engine, asks, script, wire, gen, out>>

-----------------------------------------------------------------------------
StreamInit ==
    /\ call \in Requests /\ engine \in Engines
    /\ asks = TRUE
    /\ script = <<>> /\ wire = <<>> /\ out = <<>> /\ sched = <<>>
    /\ phase = "opening" /\ gen = NoLocals

StreamNext ==
    \/ Reopen \/ Opened
    \/ \E status \in {"unreachable", "4xx", "5xx"} : Refused(status)
    \/ \E n \in 1 .. MaxChunk : ReceiveChunk(n)
    \/ TakeLine \/ StreamEnds \/ StreamAborts
    \/ \E atYield \in BOOLEAN : ClientGone(atYield)

StreamSpec == StreamInit /\ [][StreamNext]_streamVars

-----------------------------------------------------------------------------
(* Properties.                                                             *)

\* The events whose line came in whole before the stream ended or [DONE].
Delivered ==
    LET sent == SubSeq(Wire(script), 1, Len(Wire(script)) - Len(wire))
        whole == {sent[j][1] : j \in {k \in DOMAIN sent : IsNl(sent[k])}}
        dones == {i \in whole : script[i].kind = "done"}
    IN  {i \in whole : script[i].kind = "chunk" /\ \A d \in dones : i < d}

\* A tool call from all the fragments of its index at once.
FragsUpTo(i, k) ==   \* the first k fragments of event i, after those of earlier ones
    FlattenSeq([j \in 1 .. i |-> IF j \notin Delivered THEN <<>>
                                 ELSE IF j < i THEN script[j].frags ELSE SubSeq(script[j].frags, 1, k)])
LastGiven(values) == LET given == SelectSeq(values, LAMBDA v : v # None)
                     IN  IF given = <<>> THEN None ELSE Last(given)
CallOf(frags, idx) ==
    LET mine == SelectSeq(frags, LAMBDA f : f.idx = idx)
    IN  [idx |-> idx, id |-> LastGiven([j \in DOMAIN mine |-> mine[j].id]),
         name |-> LastGiven([j \in DOMAIN mine |-> mine[j].name]),
         args |-> FlattenSeq([j \in DOMAIN mine |-> mine[j].args])]
CallsOf(frags) ==
    LET calls == {CallOf(frags, frags[j].idx) : j \in DOMAIN frags}
    IN  SetToSortSeq({c \in calls : c.name # None \/ c.args # <<>>}, LAMBDA a, b : a.idx < b.idx)

\* The lines the client should have before the last one.
ExpectedLines ==
    FlattenSeq([i \in DOMAIN script |->
        IF i \notin Delivered \/ ~script[i].choices THEN <<>>
        ELSE (IF script[i].text = None THEN <<>> ELSE <<Line(script[i].text, <<>>)>>)
             \o (IF call.chat THEN [k \in DOMAIN script[i].frags |-> Line(None, CallsOf(FragsUpTo(i, k)))]
                 ELSE <<>>)])
Reported(field) ==
    LET with == {i \in Delivered : script[i].usage # None}
    IN  IF with = {} THEN None ELSE script[Max(with)].usage[field]
ExpectedEnd ==
    LET reasons == {i \in Delivered : script[i].choices /\ script[i].finish # None}
    IN  [done |-> TRUE, error |-> FALSE,
         reason |-> IF reasons = {} THEN "stop" ELSE DoneReason(script[Max(reasons)].finish),
         prompt |-> IF Reported("prompt") # None THEN Reported("prompt") ELSE call.estimate,
         gen |-> IF Reported("gen") # None THEN Reported("gen") ELSE Len(ExpectedLines),
         calls |-> IF call.chat THEN CallsOf(FragsUpTo(Len(script), Len(Last(script).frags))) ELSE <<>>]

WideTokens == {script[i].text : i \in {k \in DOMAIN script : script[k].wide}}

\* Where the network cuts the engine's bytes does not show: at the end of a
\* stream the client has exactly the lines that the events which arrived whole
\* stand for, in order, and a last line whose counts are the engine's or, when
\* it reports none, one per line.  Only a character of several bytes may be
\* garbled, by a cut inside it.
ChunkingIsInvisible ==
    phase = "ended" =>
        /\ Last(out) = ExpectedEnd
        /\ Len(out) = Len(ExpectedLines) + 1
        /\ \A j \in DOMAIN ExpectedLines :
              \/ out[j] = ExpectedLines[j]
              \/ out[j].text = Garbled /\ ExpectedLines[j].text \in WideTokens

\* Token parity with the path that does not stream: a stream read to its
\* [DONE] reports the reason and the completion tokens of the JSON reply to the
\* same request, and the prompt tokens too unless the engine refused to report
\* usage.
StreamAgreesWithJson ==
    phase = "ended" /\ engine.mock /\ gen.finished =>
        LET json == OllamaJson(MockJson(call))
        IN  /\ Last(out).reason = json.reason /\ Last(out).gen = json.gen
            /\ asks /\ engine.usage = "supports" => Last(out).prompt = json.prompt

=============================================================================
