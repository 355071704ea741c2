-------------------------------- MODULE Stream --------------------------------
(***************************************************************************)
(* One turn of an unpinned session, from the streamed answer to the next   *)
(* request: the observer that reassembles the assistant message while the  *)
(* bytes pass (core/src/context/response_observer.c, stream_tools.c), what *)
(* rc_gateway_finish keeps of it, and whether the request that follows     *)
(* continues it (gateway_context.c, tool_boundary.c).                      *)
(*                                                                         *)
(* An event is one SSE event: a chunk, "done", "comment", "broken" (not    *)
(* JSON, an unknown field, over a wire bound) or "cut" (the bytes end      *)
(* inside it).  A fragment of a tool call names the fields it gives.  What *)
(* is counted is bytes: a character of a text is one, an id is one.        *)
(***************************************************************************)
EXTENDS ToolBoundary

CONSTANTS
    TextLimit,      \* RC_RESPONSE_LIMIT, for the text
    ToolLimit,      \* RC_STREAM_TOOLS_MAX_BYTES
    ThinkingLimit,  \* RC_REASONING_MAX_ELEMENTS
    ThinkingBytes,  \* RC_REASONING_MAX_BYTES
    Escaped,        \* the characters JSON writes as two bytes
    Turns,          \* bound: the requests, and the adapter of the provider they go to
    Events,         \* bound: the events a provider sends
    MaxBody,        \* bound: how many of them before the finish
    MaxEvents,      \* bound: how many in all
    Nexts(_, _)     \* bound: what a harness may send after a request and an answer

ASSUME StreamAssumption ==
    {TextLimit, ToolLimit, ThinkingLimit, ThinkingBytes, MaxBody, MaxEvents} \subseteq Nat

VARIABLES
    ask,      \* the request: messages, tools, choice, parallel
    adapter,  \* of the provider: strict_openai, and whether thinking is dropped
    wire,     \* what the provider has sent
    o,        \* the observer
    session,  \* what finish kept: pinned, boundary, history
    next      \* the request that followed, and what became of the session

vars == <<ask, adapter, wire, o, session, next>>

NoCall == [gives |-> {}, id |-> "", name |-> <<>>, args |-> <<>>]

NewObserver ==
    [failed |-> FALSE, partial |-> FALSE, role |-> FALSE, text |-> <<>>, id |-> "",
     calls |-> [k \in 0..(MaxCalls - 1) |-> NoCall], bytes |-> 0, toolsFailed |-> FALSE, toolUsed |-> FALSE,
     finished |-> FALSE, toolFinish |-> FALSE, native |-> "absent", tail |-> FALSE, done |-> FALSE,
     usage |-> 0, thinking |-> <<>>, thinkingFailed |-> FALSE]

(* Failing is for good: nothing else of the observer counts then.          *)
Failed == [NewObserver EXCEPT !.failed = TRUE]

Init ==
    /\ \E turn \in Turns : ask = turn.ask /\ adapter = turn.adapter
    /\ wire = <<>> /\ o = NewObserver
    /\ session = [phase |-> "streaming"]
    /\ next = [verdict |-> "none"]

-----------------------------------------------------------------------------
(* stream_tools.c: names and arguments are deltas, id and type are whole   *)
(* and counted once.                                                       *)
Size(call, f) ==
    LET once == f.gives \ call.gives
    IN Len(f.name) + Len(f.args) + (IF "id" \in once THEN 1 ELSE 0) + (IF "type" \in once THEN 8 ELSE 0)

MergedWhole(call, f) ==                \* mutant: every fragment has to be a whole call
    [gives |-> f.gives, id |-> IF "id" \in f.gives THEN f.id ELSE call.id,
     name |-> call.name \o f.name, args |-> call.args \o f.args]

Merged(call, f) ==
    [gives |-> call.gives \cup f.gives, id |-> IF "id" \in f.gives THEN f.id ELSE call.id,
     name |-> call.name \o f.name, args |-> call.args \o f.args]

rc_stream_tools_feed(s, calls) ==
    LET bytes == FoldLeft(LAMBDA n, f : n + Size(s.calls[f.index], f), s.bytes, calls)
        At(k) == CHOOSE i \in DOMAIN calls : calls[i].index = k
    IN IF /\ \A i \in DOMAIN calls :
                /\ calls[i].index < MaxCalls /\ calls[i].gives # {}
                /\ "id" \in calls[i].gives => calls[i].id # ""
                /\ "id" \in calls[i].gives \cap s.calls[calls[i].index].gives
                       => calls[i].id = s.calls[calls[i].index].id
          /\ Distinct([i \in DOMAIN calls |-> calls[i].index])
          /\ bytes <= ToolLimit
       THEN [s EXCEPT !.bytes = bytes,
                      !.calls = [k \in DOMAIN @ |-> IF \E i \in DOMAIN calls : calls[i].index = k
                                                    THEN Merged(@[k], calls[At(k)]) ELSE @[k]]]
       ELSE [s EXCEPT !.toolsFailed = TRUE]

Present(s) == {k \in DOMAIN s.calls : s.calls[k].gives # {}}

Buildable(s) ==
    /\ Present(s) # {} /\ \A k \in Present(s) : \A j \in 0..k : j \in Present(s)
    /\ \A k \in Present(s) : s.calls[k].gives = {"id", "type", "name", "args"} /\ s.calls[k].name # <<>>
    /\ \A j, k \in Present(s) : j # k => s.calls[j].id # s.calls[k].id

(* Compact JSON: the bytes of a string, of an array of calls, of a message *)
(* that makes them, each in its frame of member names and punctuation.     *)
Encoded(text) == Len(text) + Len(SelectSeq(text, LAMBDA x : x \in Escaped))

EncodedCalls(calls) ==
    1 + FoldLeft(LAMBDA n, c : n + 66 + Encoded(c.name) + Encoded(c.args), 0, calls) + Len(calls)

EncodedMessage(m) == 47 + Encoded(m.text) + EncodedCalls(m.calls)

(* The calls in the order of their indices, or none.                       *)
build(s) ==
    LET calls == [i \in 1..Cardinality(Present(s)) |->
                     [id |-> s.calls[i - 1].id, name |-> s.calls[i - 1].name, args |-> s.calls[i - 1].args]]
    IN IF Buildable(s) /\ EncodedCalls(calls) <= ToolLimit THEN calls ELSE <<>>

-----------------------------------------------------------------------------
(* response_observer.c: thinking of one type in a row is one element.      *)
Mergeable(s, e) == s.thinking # <<>> /\ e.type # "data" /\ Last(s.thinking).type = e.type

reasoning_add(s, e) ==
    LET used == FoldLeft(LAMBDA n, t : n + Len(t.text), 0, s.thinking)
    IN IF s.thinkingFailed THEN s
    ELSE IF used + Len(e.text) > ThinkingBytes THEN [s EXCEPT !.thinkingFailed = TRUE]
    ELSE IF Mergeable(s, e)
         THEN LET last == Last(s.thinking)
              IN [s EXCEPT !.thinking = Append(Front(@),
                     [last EXCEPT !.text = @ \o e.text, !.signature = IF @ = "" THEN e.signature ELSE @])]
    ELSE IF Len(s.thinking) < ThinkingLimit
         THEN [s EXCEPT !.thinking = Append(@, e)]
         ELSE [s EXCEPT !.thinkingFailed = TRUE]

natives ==
    {<<"completed", "stop">>, <<"completed", "tool_calls">>, <<"tool_calls", "tool_calls">>,
     <<"tool_use", "tool_calls">>, <<"end_turn", "stop">>}

(* What a provider on OpenRouter adds: its own finish reason, a repetition *)
(* of the empty terminal choice with the accounting.                       *)
RepeatsText(s, c) ==                   \* mutant: the repetition may bring more text
    /\ ~adapter.strict /\ ~s.tail /\ c.usage # 0
    /\ c.finish = IF s.toolFinish THEN "tool_calls" ELSE "stop"
    /\ c.calls = <<>> /\ c.native = s.native

Repeats(s, c) ==
    /\ ~adapter.strict /\ ~s.tail /\ c.usage # 0
    /\ c.finish = IF s.toolFinish THEN "tool_calls" ELSE "stop"
    /\ c.calls = <<>> /\ c.text = <<>> /\ c.native = s.native

Understood(s, c) ==
    /\ c.id \in {"", s.id} \/ s.id = ""
    /\ c.usage # 0 => s.usage \in {0, c.usage}
    /\ IF ~c.choice THEN s.finished /\ ~s.tail /\ c.usage # 0
       ELSE /\ c.thinking # <<>> => adapter.drop
            /\ c.native # "absent" => ~adapter.strict /\ <<c.native, c.finish>> \in natives
            /\ s.finished => Repeats(s, c)
            /\ s.role \/ c.role
            /\ Len(s.text) + Len(c.text) <= TextLimit
            /\ c.finish \in {"null", "stop", "tool_calls"}
            /\ c.finish # "null" => (c.finish = "tool_calls") = (s.toolUsed \/ c.calls # <<>>)

Thought(s, c) ==
    IF s.finished /\ c.thinking # <<>> THEN [s EXCEPT !.thinkingFailed = TRUE]
    ELSE FoldLeft(reasoning_add, s, c.thinking)

Called(s, c) == IF c.calls = <<>> \/ s.toolsFailed THEN s ELSE rc_stream_tools_feed(s, c.calls)

chunk(s, c) ==
    LET a == [Called(Thought(s, c), c) EXCEPT
                  !.id = IF @ = "" THEN c.id ELSE @, !.usage = IF c.usage = 0 THEN @ ELSE c.usage]
    IN IF ~Understood(s, c) THEN Failed
       ELSE IF ~c.choice THEN [a EXCEPT !.tail = TRUE]
       ELSE [a EXCEPT !.role = TRUE, !.text = @ \o c.text, !.toolUsed = @ \/ c.calls # <<>>,
                      !.tail = s.finished,
                      !.finished = s.finished \/ c.finish # "null",
                      !.toolFinish = c.finish = "tool_calls",
                      !.native = IF c.finish = "null" THEN @ ELSE c.native]

event(s, e) ==
    CASE e.kind = "comment" -> s
      [] e.kind = "cut" -> [s EXCEPT !.partial = TRUE]
      [] e.kind = "done" /\ s.finished /\ ~s.done -> [s EXCEPT !.done = TRUE]
      [] e.kind = "chunk" /\ ~s.done -> chunk(s, e)
      [] OTHER -> Failed

rc_response_observer_feed(e) ==
    /\ session.phase = "streaming" /\ ~o.failed /\ ~o.partial
    /\ Len(wire) < IF o.finished \/ (e.kind = "chunk" /\ e.finish # "null") THEN MaxEvents ELSE MaxBody
    /\ wire' = Append(wire, e)
    /\ o' = event(o, e)
    /\ UNCHANGED <<ask, adapter, session, next>>

-----------------------------------------------------------------------------
Whole(s) == ~s.failed /\ s.done /\ s.finished /\ s.role /\ ~s.partial

NoMessage == [role |-> "none"]

Assistant(text, calls) ==
    [role |-> "assistant", form |-> "string", text |-> text, calls |-> calls, id |-> "", thinking |-> <<>>,
     extra |-> FALSE]

rc_response_observer_message(s) ==
    IF ~Whole(s) THEN NoMessage
    ELSE IF ~s.toolFinish THEN Assistant(s.text, <<>>)
    ELSE LET m == Assistant(s.text, build(s))
         IN IF s.toolsFailed \/ m.calls = <<>> \/ EncodedMessage(m) > ToolLimit THEN NoMessage ELSE m

rc_response_observer_reasoning(s) == IF Whole(s) /\ ~s.thinkingFailed THEN s.thinking ELSE <<>>

(* rc_gateway_finish: an answer that calls tools is kept as a boundary if  *)
(* the request offered and allowed those calls, and is never history.      *)
Offered(calls) ==
    /\ ask.parallel \/ Len(calls) = 1
    /\ ask.choice # "none"
    /\ \A i \in DOMAIN calls :
           calls[i].name \in ask.tools /\ (ask.choice \in {"", "none"} \/ calls[i].name = <<ask.choice>>)

rc_gateway_finish(complete) ==
    LET m == IF complete THEN rc_response_observer_message(o) ELSE NoMessage
        thinking == rc_response_observer_reasoning(o)
    IN /\ session.phase = "streaming"
       /\ session' =
              IF m = NoMessage THEN [phase |-> "pinned"]
              ELSE IF m.calls = <<>> THEN [phase |-> "plain", history |-> Append(ask.messages, m)]
              ELSE IF Offered(m.calls) /\ rc_tool_boundary_capture(ask.messages, m)
                   THEN [phase |-> "boundary", history |-> ask.messages, assistant |-> m, thinking |-> thinking]
                   ELSE [phase |-> "pinned"]
       /\ o' = NewObserver /\ wire' = IF session'.phase = "pinned" THEN <<>> ELSE wire
       /\ UNCHANGED <<ask, adapter, next>>

-----------------------------------------------------------------------------
(* What the provider said, read off the whole wire at once.                *)
Chunks == SelectSeq(wire, LAMBDA e : e.kind = "chunk")

SaidText == FlattenSeq([i \in DOMAIN Chunks |-> Chunks[i].text])

Fragments == FlattenSeq([i \in DOMAIN Chunks |-> Chunks[i].calls])

Of(k) == SelectSeq(Fragments, LAMBDA f : f.index = k)

SaidCall(k) ==
    [id |-> (CHOOSE f \in ToSet(Of(k)) : "id" \in f.gives).id,
     name |-> FlattenSeq([i \in DOMAIN Of(k) |-> Of(k)[i].name]),
     args |-> FlattenSeq([i \in DOMAIN Of(k) |-> Of(k)[i].args])]

SaidCalls ==
    LET n == Cardinality({f.index : f \in ToSet(Fragments)}) IN [i \in 1..n |-> SaidCall(i - 1)]

Said == Assistant(SaidText, SaidCalls)

(* The next request of the conversation (continues, then the check that an *)
(* unpinned session without a boundary only grew by what the user says).   *)
continues(messages) ==
    CASE session.phase = "boundary" -> replay_tree(session, messages) = "complete"
      [] session.phase = "plain" -> /\ Len(messages) > Len(session.history)
                                    /\ IsPrefix(session.history, messages)
      [] OTHER -> FALSE

replayable(messages) ==
    /\ Len(messages) <= MaxMessages
    /\ \A i \in (Len(session.history) + 1)..Len(messages) : plain(messages[i]) /\ messages[i].role = "user"

Ask(messages) ==
    /\ session.phase \in {"boundary", "plain"} /\ next.verdict = "none"
    /\ next' = [messages |-> messages,
                verdict |-> IF ~continues(messages) THEN "other"
                            ELSE IF session.phase = "plain" /\ ~replayable(messages) THEN "pinned" ELSE "same"]
    /\ UNCHANGED <<ask, adapter, wire, o, session>>

Next ==
    \/ \E e \in Events : rc_response_observer_feed(e)
    \/ \E complete \in BOOLEAN : rc_gateway_finish(complete)
    \/ /\ session.phase \in {"boundary", "plain"}
       /\ \E messages \in Nexts(ask, Said) : Ask(messages)

Spec == Init /\ [][Next]_vars

-----------------------------------------------------------------------------
Finishes == {i \in DOMAIN Chunks : Chunks[i].finish # "null"}

(* What is kept of a stream is all that was said in it, to the end, and    *)
(* nothing else, however names, arguments and text were split and whatever *)
(* order the calls came in, and never an answer that was cut off at a      *)
(* limit ("exact concatenated content", response_observer.h:16; "stop or   *)
(* tool_calls then delimited DONE", :11).                                  *)
MessageIsWhole ==
    rc_response_observer_message(o) # NoMessage =>
        /\ rc_response_observer_message(o) = Said
        /\ Last(SelectSeq(wire, LAMBDA e : e.kind # "comment")).kind = "done"
        /\ \A i \in Finishes : Chunks[i].finish \in {"stop", "tool_calls"}
        /\ \A f, g \in ToSet(Fragments) : f.index = g.index /\ "id" \in f.gives \cap g.gives => f.id = g.id
        /\ \A i \in Finishes : \A j \in DOMAIN Chunks :
               j > i => Chunks[j].text = <<>> /\ Chunks[j].calls = <<>> /\ Chunks[j].usage # 0

OwnBytes(calls) == FoldLeft(LAMBDA n, c : n + 1 + 8 + Len(c.name) + Len(c.args), 0, calls)

(* A stream the interface documents is understood, up to the last byte of  *)
(* its bounds: the role first, each call with its id and type before more  *)
(* of it, one finish, the usage, the end; the bounds are on the bytes of   *)
(* the text, on those of the calls' own strings and on the message in JSON *)
(* (stream_tools.h:27, response_observer.h:15).                            *)
Documented ==
    /\ wire # <<>> /\ Last(wire).kind = "done"
    /\ \A i \in DOMAIN wire : wire[i].kind = "done" => i = Len(wire)
    /\ \A e \in ToSet(wire) : e.kind \in {"chunk", "comment", "done"}
    /\ Len(Chunks) > 1 /\ Chunks[1].role /\ Cardinality(Finishes) = 1
    /\ \A i \in DOMAIN Chunks :
           /\ Chunks[i].native = "absent" /\ Chunks[i].id \in {"", Chunks[1].id} /\ Len(Chunks[i].calls) <= 1
           /\ adapter.drop \/ Chunks[i].thinking = <<>>
           /\ Chunks[i].choice # (\E f \in Finishes : f < i)
           /\ ~Chunks[i].choice => i = Len(Chunks) /\ Chunks[i].usage # 0
           /\ Chunks[i].usage # 0 => i = Len(Chunks)
           /\ i \in Finishes => Chunks[i].finish = IF Fragments = <<>> THEN "stop" ELSE "tool_calls"
    /\ \A i \in DOMAIN Fragments :
           LET f == Fragments[i]  before == {Fragments[j].index : j \in 1..(i - 1)}
           IN /\ f.index < MaxCalls /\ \A k \in 0..(f.index - 1) : k \in before
              /\ f.gives = IF f.index \in before THEN {"args"} ELSE {"id", "type", "name", "args"}
              /\ "name" \in f.gives => f.name # <<>>
    /\ Len(SaidText) <= TextLimit /\ Distinct(Ids(SaidCalls))
    /\ Fragments # <<>> => OwnBytes(SaidCalls) <= ToolLimit /\ EncodedMessage(Said) <= ToolLimit

DocumentedIsHeard == session.phase = "streaming" /\ Documented => rc_response_observer_message(o) = Said

(* A session goes on unpinned only with a request that is, word for word,  *)
(* the one before, what the provider answered, and either the result of    *)
(* every call, once, or what the user says next; thinking sent back is     *)
(* thinking that was sent ("every element must equal an element the        *)
(* gateway observed", tool_boundary.c:148).                                *)
SameCall(c, d) ==
    /\ c.id = d.id /\ c.name = d.name
    /\ c.args = d.args \/ (Tokens(c.args) = Tokens(d.args) /\ IsJson(d.args))

ThinkingSent == FlattenSeq([i \in DOMAIN Chunks |-> Chunks[i].thinking])

WasThought(e) ==
    \E i, j \in DOMAIN ThinkingSent :
        /\ i <= j /\ \A k \in i..j : ThinkingSent[k].type = e.type
        /\ e.text = FlattenSeq([k \in 1..(j - i + 1) |-> ThinkingSent[i + k - 1].text])

ContinuesExactly ==
    next.verdict = "same" =>
        LET n == Len(ask.messages)  answer == next.messages[n + 1]
            after == SubSeq(next.messages, n + 2, Len(next.messages))
        IN /\ SubSeq(next.messages, 1, n) = ask.messages
           /\ answer.role = "assistant" /\ answer.text = SaidText
           /\ Len(answer.calls) = Len(SaidCalls)
           /\ \A i \in DOMAIN SaidCalls : SameCall(answer.calls[i], SaidCalls[i])
           /\ \A e \in ToSet(answer.thinking) : WasThought(e)
           /\ IF SaidCalls = <<>> THEN after # <<>> /\ \A i \in DOMAIN after : after[i].role = "user"
              ELSE /\ Len(after) = Len(SaidCalls) /\ \A i \in DOMAIN after : after[i].role = "tool"
                   /\ ToSet(Ids(after)) = ToSet(Ids(SaidCalls))
=============================================================================
