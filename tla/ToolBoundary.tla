----------------------------- MODULE ToolBoundary -----------------------------
(***************************************************************************)
(* The exact boundary after an answer that calls tools: which histories    *)
(* and answers can be kept, and which next request is that history, that   *)
(* answer and the results, all of them (core/src/context/tool_boundary.c). *)
(*                                                                         *)
(* A message is [role, form, text, calls, id, thinking, extra]: form is    *)
(* what its content is, calls a sequence of [id, name, args], id the       *)
(* tool_call_id ("" when absent), thinking its reasoning_details, extra    *)
(* whether it has a member the gateway does not know.  Texts are sequences *)
(* of tokens, "_" the white space between two JSON tokens.                 *)
(***************************************************************************)
EXTENDS Naturals, Sequences, SequencesExt, FiniteSets

CONSTANTS
    MaxCalls,      \* RC_TOOL_MAX_CALLS
    MaxHistory,    \* RC_TOOL_MAX_HISTORY_CALLS
    MaxMessages    \* RC_TOOL_MAX_MESSAGES

ASSUME ToolBoundaryAssumption == {MaxCalls, MaxHistory, MaxMessages} \subseteq Nat

Distinct(s) == \A i, j \in DOMAIN s : i # j => s[i] # s[j]

Ids(calls) == [i \in DOMAIN calls |-> calls[i].id]

-----------------------------------------------------------------------------
(* Thinking belongs to the assistant.                                      *)
reasoning_shape(m) == m.thinking = <<>> \/ m.role = "assistant"

plain(m) ==
    /\ m.role \in {"user", "system", "assistant"} /\ m.form \in {"string", "parts"}
    /\ m.calls = <<>> /\ m.id = "" /\ ~m.extra /\ reasoning_shape(m)

calls_valid(m) ==
    /\ m.role = "assistant" /\ m.form \in {"string", "null", "absent"} /\ m.id = "" /\ ~m.extra
    /\ Len(m.calls) \in 1..MaxCalls
    /\ \A i \in DOMAIN m.calls : m.calls[i].id # "" /\ m.calls[i].name # <<>>
    /\ Distinct(Ids(m.calls))

result(m) == m.role = "tool" /\ m.form = "string" /\ m.id # "" /\ ~m.extra /\ m.thinking = <<>> /\ m.calls = <<>>

(* Every call so far has its result before anything else is said, and no   *)
(* id is used twice.                                                       *)
Follow(a, m) ==
    IF ~a.ok THEN a
    ELSE IF a.pending # {}
         THEN IF result(m) /\ m.id \in a.pending THEN [a EXCEPT !.pending = @ \ {m.id}] ELSE [a EXCEPT !.ok = FALSE]
    ELSE IF plain(m) THEN a
    ELSE LET ids == ToSet(Ids(m.calls))
         IN IF calls_valid(m) /\ ids \cap a.used = {} /\ Cardinality(ids \cup a.used) <= MaxHistory
            THEN [a EXCEPT !.pending = ids, !.used = @ \cup ids]
            ELSE [a EXCEPT !.ok = FALSE]

history_valid(history, assistant) ==
    LET a == FoldLeft(Follow, [ok |-> TRUE, pending |-> {}, used |-> {}], history)
    IN a.pending = {} /\ Follow(a, assistant).ok

rc_tool_boundary_capture(history, assistant) ==
    /\ calls_valid(assistant)
    /\ Len(history) + 1 + Len(assistant.calls) <= MaxMessages
    /\ history_valid(history, assistant)

-----------------------------------------------------------------------------
(* Arguments are JSON text that a harness may write again; text that is no *)
(* JSON stays as it is.                                                    *)
Tokens(args) == SelectSeq(args, LAMBDA x : x # "_")

IsJson(args) == Len(Tokens(args)) > 1 /\ Head(Tokens(args)) = "{" /\ Last(Tokens(args)) = "}"

args_equal(observed, replayed) ==
    \/ observed = replayed
    \/ IsJson(observed) /\ IsJson(replayed) /\ Tokens(observed) = Tokens(replayed)

no_text(m) == m.form \in {"null", "absent"} \/ (m.form = "string" /\ m.text = <<>>)

reasoning_replayed(m, thinking) == reasoning_shape(m) /\ ToSet(m.thinking) \subseteq ToSet(thinking)

assistant_equal(m, b) ==
    LET a == b.assistant
    IN /\ m.role = a.role /\ m.id = a.id /\ m.extra = a.extra
       /\ reasoning_replayed(m, b.thinking)
       /\ (no_text(m) /\ no_text(a)) \/ (m.form = a.form /\ m.text = a.text)
       /\ Len(m.calls) = Len(a.calls)
       /\ \A i \in DOMAIN a.calls :
              /\ m.calls[i].id = a.calls[i].id /\ m.calls[i].name = a.calls[i].name
              /\ args_equal(a.calls[i].args, m.calls[i].args)

replay_treeTwice(b, messages) ==  \* mutant: one result may answer twice
    LET n == Len(b.history)  nc == Len(b.assistant.calls)  total == Len(messages)
        results == SubSeq(messages, n + 2, total)
    IN IF /\ total \in (n + 1)..(n + 1 + nc)
          /\ SubSeq(messages, 1, n) = b.history
          /\ assistant_equal(messages[n + 1], b)
          /\ \A i \in DOMAIN results : result(results[i]) /\ results[i].id \in ToSet(Ids(b.assistant.calls))
       THEN IF total = n + 1 + nc THEN "complete" ELSE "incomplete"
       ELSE "invalid"

replay_tree(b, messages) ==
    LET n == Len(b.history)  nc == Len(b.assistant.calls)  total == Len(messages)
        results == SubSeq(messages, n + 2, total)
    IN IF /\ total \in (n + 1)..(n + 1 + nc)
          /\ SubSeq(messages, 1, n) = b.history
          /\ assistant_equal(messages[n + 1], b)
          /\ \A i \in DOMAIN results : result(results[i]) /\ results[i].id \in ToSet(Ids(b.assistant.calls))
          /\ Distinct(Ids(results))
       THEN IF total = n + 1 + nc THEN "complete" ELSE "incomplete"
       ELSE "invalid"
=============================================================================
