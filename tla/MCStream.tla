------------------------------- MODULE MCStream -------------------------------
(* An answer of up to four chunks before its finish: text, two calls in    *)
(* pieces, thinking, and what breaks them.                                 *)
EXTENDS Stream, TLC

Chunk ==
    [kind |-> "chunk", id |-> "", choice |-> TRUE, role |-> FALSE, text |-> <<>>, thinking |-> <<>>,
     calls |-> <<>>, finish |-> "null", native |-> "absent", usage |-> 0]

All == {"id", "type", "name", "args"}

Piece(k, gives, id, name, args) == [index |-> k, gives |-> gives, id |-> id, name |-> name, args |-> args]

Tool(piece) == [Chunk EXCEPT !.calls = <<piece>>]

First == Piece(0, All, "a", <<"f">>, <<"{">>)
Rest == Piece(0, {"args"}, "", <<>>, <<"}">>)
Second == Piece(1, All, "b", <<"g">>, <<"{", "}">>)
Huge == Piece(0, {"args"}, "", <<>>, [i \in 1..191 |-> "x"])   \* more than ToolLimit by itself

Finish(reason) == [Chunk EXCEPT !.finish = reason]
Accounting == [Chunk EXCEPT !.choice = FALSE, !.usage = 1]
Native == [Finish("tool_calls") EXCEPT !.native = "tool_use"]
Thinks(type, x, signature) ==
    [Chunk EXCEPT !.thinking = <<[type |-> type, text |-> x, signature |-> signature]>>]

Sent ==
    {[Chunk EXCEPT !.role = TRUE], [Chunk EXCEPT !.text = <<"w">>],
     [Tool(First) EXCEPT !.role = TRUE], Tool(Rest), Tool(Second), Tool(Huge),
     Tool(Piece(1, All, "a", <<"g">>, <<>>)), Tool(Piece(0, {"id"}, "b", <<>>, <<>>)),
     [Chunk EXCEPT !.calls = <<Rest, Second>>], Thinks("text", <<"h">>, ""), Thinks("text", <<"k">>, "s"),
     Finish("stop"), Finish("tool_calls"), Finish("length"), Native, Accounting, [Native EXCEPT !.usage = 1],
     [Finish("stop") EXCEPT !.usage = 1, !.text = <<"w">>],
     [kind |-> "done"], [kind |-> "comment"], [kind |-> "broken"], [kind |-> "cut"]}

User == [Assistant(<<"u">>, <<>>) EXCEPT !.role = "user"]
Result(i) == [Assistant(<<"r">>, <<>>) EXCEPT !.role = "tool", !.id = i]
Earlier == Assistant(<<>>, <<[id |-> "b", name |-> <<"g">>, args |-> <<>>]>>)

Request(messages, choice, parallel) ==
    [messages |-> messages, tools |-> {<<"f">>, <<"g">>}, choice |-> choice, parallel |-> parallel]

Turn(ask0, strict, drop) == [ask |-> ask0, adapter |-> [strict |-> strict, drop |-> drop]]

SomeTurns ==
    {Turn(Request(<<User>>, "", TRUE), FALSE, TRUE), Turn(Request(<<User>>, "", FALSE), TRUE, FALSE),
     Turn(Request(<<User>>, "f", TRUE), FALSE, FALSE),
     Turn(Request(<<User, Earlier, Result("b")>>, "", TRUE), TRUE, TRUE)}

(* How a harness sends an answer back.                                     *)
Rewritten(m) == [m EXCEPT !.calls = [i \in DOMAIN m.calls |-> [m.calls[i] EXCEPT !.args = <<"_">> \o @]]]

Versions(m) ==
    {m, [m EXCEPT !.form = "null"], [m EXCEPT !.extra = TRUE], Rewritten(m), [m EXCEPT !.text = Append(@, "x")]}
        \cup {[m EXCEPT !.thinking = <<[type |-> "text", text |-> x, signature |-> "s"]>>] :
                  x \in {<<"k">>, <<"h", "k">>, <<"z">>}}

After == {<<>>, <<User>>, <<Result("a")>>, <<Result("a"), Result("b")>>, <<Result("b"), Result("a")>>,
          <<Result("a"), Result("a")>>, <<Result("a"), Result("z")>>, <<Result("a"), User>>}

Continuations(ask0, m) ==
    {ask0.messages \o <<v>> \o a : v \in Versions(m), a \in After} \cup {<<User, User>> \o <<m>> \o <<User>>, ask0.messages}

(* A comment and a huge fragment are followed up to the fourth event: the  *)
(* one changes nothing, after the other nothing of the calls counts.       *)
Bounded ==
    Len(wire) > 4 =>
        \A e \in ToSet(wire) : e.kind # "comment" /\ (e.kind = "chunk" => e.calls # <<Huge>>)
=============================================================================
