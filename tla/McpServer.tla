------------------------------ MODULE McpServer ------------------------------
(***************************************************************************)
(* The MCP server of dio-serve/src/dio/mcp.py next to the commands of module *)
(* Deploy: newline-delimited JSON-RPC on stdin and stdout, one message at a  *)
(* time, each tool a sequence of HTTP calls to a gateway that may start,     *)
(* stop or demand a key between two of them.                                *)
(***************************************************************************)
EXTENDS Deploy, FiniteSets

CONSTANTS Script,     \* the lines the client may write
          MaxLines    \* bound: lines of the client

\* The items of a line are a list.
ASSUME ScriptAssumption == \A line \in Script : line.items \in Seq(ToSet(line.items))

VARIABLES stdin,      \* lines not read yet
          lines,      \* every line written so far
          guarded,    \* the gateway demands a key on /debug
          batch,      \* items of the message in hand that are not handled yet
          tool_call,  \* the tool in progress: [id, tool, left, seen], or NoCall
          replies,    \* replies of the batch in hand
          stdout      \* frames written

mcpVars == <<stdin, lines, guarded, batch, tool_call, replies, stdout>>
serverVars == <<deployVars, mcpVars>>

NoCall == [id |-> 0, tool |-> "none", left |-> <<>>, seen |-> {}]
NoBatch == [open |-> FALSE, single |-> FALSE, items |-> <<>>]
NullId == 0

-----------------------------------------------------------------------------
(* The tools and the HTTP calls they make, in order.                       *)

CallsOf(tool) ==
    CASE tool = "dio_get_models"      -> <<"/v1/models", "/health">>
      [] tool = "dio_predict_latency" -> <<"/debug/metrics">>
      [] tool = "dio_route_prompt"    -> <<"/v1/chat/completions">>
      [] tool = "dio_cluster_status"  -> <<"/debug/metrics", "/debug/engine", "/health">>
      [] OTHER -> <<>>

\* What a call meets: no gateway (an exception), a 401, a refusal of the
\* request itself (a status other than 200), or an answer.
Outcomes(path) ==
    IF gw = NoGateway THEN {"raises"}
    ELSE IF guarded /\ path \in {"/debug/metrics", "/debug/engine"} THEN {"denied"}
    ELSE IF path = "/v1/chat/completions" THEN {"answers", "denied"} ELSE {"answers"}

\* "error" in res, for each tool: an offline gateway is an error to
\* route_prompt and cluster_status, to get_models only when no dio.yaml
\* loads, and to predict_latency never.
IsError(tool, seen) ==
    \/ tool \in {"dio_route_prompt", "dio_cluster_status"} /\ "raises" \in seen
    \/ tool \in {"dio_route_prompt", "dio_predict_latency"} /\ "denied" \in seen
    \/ tool = "dio_get_models" /\ "raises" \in seen /\ LoadProblem(file) # "none"

\* What the text of the reply says about the gateway.
Claim(tool, seen) ==
    IF "raises" \in seen THEN "offline"
    ELSE IF tool \in {"dio_route_prompt", "dio_predict_latency"} /\ "denied" \in seen
         THEN "refused" ELSE "online"

Result(id, isError, claim) == [id |-> id, kind |-> "result", isError |-> isError, claim |-> claim]
Error(id, code) == [id |-> id, kind |-> code, isError |-> TRUE, claim |-> "none"]

-----------------------------------------------------------------------------
(* run_stdio, handle_message and handle_request.                           *)

Waiting == ~batch.open /\ tool_call = NoCall

ClientWrites(line) ==
    /\ Len(lines) < MaxLines
    /\ stdin' = Append(stdin, line) /\ lines' = Append(lines, line)
    /\ UNCHANGED <<deployVars, guarded, batch, tool_call, replies, stdout>>

\* A blank line is skipped, garbage answered with a parse error, an empty
\* batch with an invalid request; anything else is taken in hand.
ReadLine ==
    /\ Waiting /\ stdin # <<>>
    /\ stdin' = Tail(stdin)
    /\ LET line == Head(stdin)
       IN  CASE line.form = "blank" -> UNCHANGED <<batch, stdout>>
             [] line.form = "garbage" ->
                  stdout' = Append(stdout, <<Error(NullId, "parse")>>) /\ UNCHANGED batch
             [] line.form = "batch" /\ line.items = <<>> ->
                  stdout' = Append(stdout, <<Error(NullId, "invalid")>>) /\ UNCHANGED batch
             [] OTHER ->
                  /\ batch' = [open |-> TRUE, single |-> line.form = "single", items |-> line.items]
                  /\ UNCHANGED stdout
    /\ replies' = <<>>
    /\ UNCHANGED <<deployVars, lines, guarded, tool_call>>

\* Mutant: a notification is answered like a request.
AnswersNotifications(item) ==
    IF item.form # "object" THEN <<Error(NullId, "invalid")>>
    ELSE CASE item.method \in {"initialize", "ping", "tools/list"} ->
                 <<Result(item.id, FALSE, "none")>>
           [] item.method = "initialized" -> <<>>
           [] OTHER -> <<Error(item.id, "method")>>

\* The reply to everything but a tool that runs.
ImmediateReply(item) ==
    IF item.form # "object" THEN <<Error(NullId, "invalid")>>
    ELSE IF item.id = NullId THEN <<>>
    ELSE CASE item.method \in {"initialize", "ping", "tools/list"} ->
                 <<Result(item.id, FALSE, "none")>>
           [] item.method = "initialized" -> <<>>
           [] OTHER -> <<Error(item.id, "method")>>

RunsTool(item) ==
    item.form = "object" /\ item.id # NullId /\ item.method = "tools/call"

\* The next item of the message: a reply at once, or the start of a tool.  An
\* unknown tool is an error, arguments that do not convert an isError result.
HandleItem ==
    /\ batch.open /\ tool_call = NoCall /\ batch.items # <<>>
    /\ LET item == Head(batch.items)
       IN  IF ~RunsTool(item)
           THEN replies' = replies \o ImmediateReply(item) /\ UNCHANGED tool_call
           ELSE IF item.tool = "unknown"
           THEN replies' = Append(replies, Error(item.id, "method")) /\ UNCHANGED tool_call
           ELSE IF item.tool = "bad_arguments"
           THEN replies' = Append(replies, Result(item.id, TRUE, "none")) /\ UNCHANGED tool_call
           ELSE /\ tool_call' = [id |-> item.id, tool |-> item.tool, left |-> CallsOf(item.tool), seen |-> {}]
                /\ UNCHANGED replies
    /\ batch' = [batch EXCEPT !.items = Tail(@)]
    /\ UNCHANGED <<deployVars, stdin, lines, guarded, stdout>>

\* Mutant: a call that raises is tried again.
ToolCallsAgain ==
    /\ tool_call.left # <<>>
    /\ \E o \in Outcomes(Head(tool_call.left)) :
          tool_call' = [tool_call EXCEPT !.seen = @ \cup {o},
                                     !.left = IF o = "raises" THEN @ ELSE Tail(@)]
    /\ UNCHANGED <<deployVars, stdin, lines, guarded, batch, replies, stdout>>

\* One HTTP call of the tool; an exception leaves the others out.
ToolCalls ==
    /\ tool_call.left # <<>>
    /\ \E o \in Outcomes(Head(tool_call.left)) :
          tool_call' = [tool_call EXCEPT !.seen = @ \cup {o},
                                     !.left = IF o = "raises" THEN <<>> ELSE Tail(@)]
    /\ UNCHANGED <<deployVars, stdin, lines, guarded, batch, replies, stdout>>

ToolEnds ==
    /\ tool_call # NoCall /\ tool_call.left = <<>>
    /\ replies' = Append(replies, Result(tool_call.id, IsError(tool_call.tool, tool_call.seen),
                                         Claim(tool_call.tool, tool_call.seen)))
    /\ tool_call' = NoCall
    /\ UNCHANGED <<deployVars, stdin, lines, guarded, batch, stdout>>

\* The frame of the message: nothing when there is no reply to send.
WriteFrame ==
    /\ batch.open /\ tool_call = NoCall /\ batch.items = <<>>
    /\ stdout' = IF replies = <<>> THEN stdout ELSE Append(stdout, replies)
    /\ batch' = NoBatch /\ replies' = <<>>
    /\ UNCHANGED <<deployVars, stdin, lines, guarded, tool_call>>

\* Restarted with another security section.
GuardChanges ==
    /\ gw = NoGateway /\ guarded' = ~guarded
    /\ UNCHANGED <<deployVars, stdin, lines, batch, tool_call, replies, stdout>>

-----------------------------------------------------------------------------
McpStep == ReadLine \/ HandleItem \/ ToolCalls \/ ToolEnds \/ WriteFrame

McpInit ==
    /\ DeployInit
    /\ stdin = <<>> /\ lines = <<>> /\ guarded = FALSE
    /\ batch = NoBatch /\ tool_call = NoCall /\ replies = <<>> /\ stdout = <<>>

McpNext ==
    \/ DeployNext /\ UNCHANGED mcpVars
    \/ GuardChanges
    \/ \E line \in Script : ClientWrites(line)
    \/ McpStep

\* The server's loop never stops and each of its calls ends within 60 s.
McpSpec == McpInit /\ [][McpNext]_serverVars /\ WF_serverVars(McpStep)

-----------------------------------------------------------------------------
(* Properties.                                                             *)

\* A request is owed a reply with its id, what is no request one with null, a
\* notification nothing; nor is "initialized", which the code drops even when it
\* carries an id.
Owes(item) == item.form # "object" \/ (item.id # NullId /\ item.method # "initialized")
IdOf(item) == IF item.form # "object" THEN NullId ELSE item.id

\* A line the server cannot take in hand is owed one reply, with null.
Refuses(line) == line.form = "garbage" \/ (line.form = "batch" /\ line.items = <<>>)

\* The places in a line that are owed a reply, and the id of each.
Owed(line) ==
    IF line.form = "blank" THEN {} ELSE IF Refuses(line) THEN {1}
    ELSE {i \in DOMAIN line.items : Owes(line.items[i])}
IdOwed(line, i) == IF Refuses(line) THEN NullId ELSE IdOf(line.items[i])
OwedUpTo(line, i) == {j \in Owed(line) : j <= i}

\* A frame answers a line: a reply for each place, in order, with its id.
Answers(frame, line) ==
    /\ Len(frame) = Cardinality(Owed(line))
    /\ \A i \in Owed(line) : frame[Cardinality(OwedUpTo(line, i))].id = IdOwed(line, i)

\* Of the first n lines, those that are owed a frame.
Answerable(n) == {k \in 1 .. n : Owed(lines[k]) # {}}

\* A strict client stays in step: once the server waits for a line again, there
\* is a frame on stdout for each line it has read that asks for one, in order,
\* with the ids the line asks for, one each and in order, whatever the tools met
\* and whoever restarted the gateway meanwhile.
RepliesMatchRequests ==
    Waiting =>
        LET read == Len(lines) - Len(stdin)
        IN  /\ Len(stdout) = Cardinality(Answerable(read))
            /\ \A k \in Answerable(read) : Answers(stdout[Cardinality(Answerable(k))], lines[k])

\* No tool call hangs and no exception ends the loop: every line is read and
\* its message finished.
EveryLineIsServed == []<>(Waiting /\ stdin = <<>>)

=============================================================================
