------------------------------- MODULE Signals -------------------------------
(***************************************************************************)
(* What the history of a request says about its next step:                 *)
(* core/src/context/signals.c, and the part of efficiency.c, prompt.c and  *)
(* judge.c that decides whether an optional advisor has an opinion at all. *)
(*                                                                         *)
(* A tool result is a record of the facts the code reads out of its text;  *)
(* the scores of the learned models are inputs.                            *)
(***************************************************************************)
EXTENDS Naturals, Sequences, SequencesExt, FiniteSets

CONSTANTS
    Reads,          \* tool names that read or search
    Window,         \* RC_SIGNALS_WINDOW
    MaxRejections,  \* RC_SIGNALS_MAX_REJECTIONS
    RepeatWindow,   \* RC_SIGNALS_REPEAT_WINDOW
    RepeatMin,      \* RC_SIGNALS_REPEAT_MIN
    MaxMessages     \* RC_SIGNALS_MAX_MESSAGES

ASSUME SignalsAssumption ==
    /\ {Window, MaxRejections, RepeatWindow, RepeatMin, MaxMessages} \subseteq Nat
    /\ RepeatMin <= RepeatWindow

Classes == {"none", "tool_followup_ok", "final_answer", "recovery"}

-----------------------------------------------------------------------------
(* The text of a tool result; opaque: not a string.  note: what follows a leading JSON object:   *)
(* nothing, one bracketed harness note, several, or something else.        *)
Text ==
    [shape: {"json", "prose", "opaque"}, note: {"none", "one", "many", "junk"},
     error: {"absent", "empty", "text", "value"}, exit: {"absent", "null", "zero", "other"},
     good: BOOLEAN,                        \* success and status, where given, say so
     children: BOOLEAN,                    \* so does the status of delegated work
     missing: BOOLEAN,                     \* not_found is true
     output: {"clean", "weak", "strong"},  \* failure markers in output, stdout, stderr
     other: BOOLEAN]                       \* it has keys besides error

(* Free text: the broad markers, anywhere in what is scanned.              *)
scan_text(output) == output # "clean"

strong_markers(output) == output = "strong"

Envelope(t) == t.shape = "json" /\ t.note # "junk"

envelope_failed(t) ==
    \/ t.error \in {"text", "value"}
    \/ t.exit = "other"
    \/ ~t.good \/ ~t.children \/ t.missing
    \/ IF t.exit = "absent" THEN scan_text(t.output) ELSE strong_markers(t.output)

rc_signals_failed_text(t) == IF Envelope(t) THEN envelope_failed(t) ELSE scan_text(t.output)

(* The harness refused the call before the tool ran.                       *)
rejected_call(t) ==
    t.shape = "json" /\ t.error = "text" /\ ~t.other /\ t.note \in {"none", "one"}

-----------------------------------------------------------------------------
(* Messages: role, the keys of its tool calls, and the text of a result.   *)
Is(m, role) == m.role = role

(* The loop over the history, newest message first, over its last i        *)
(* messages.                                                               *)
Unread == [seen |-> 0, run |-> 0, rejected |-> 0, running |-> TRUE, failed |-> FALSE, odd |-> FALSE]

LookPast(a, m) ==                      \* mutant: who speaks between two failures is not looked at
    IF a.odd \/ a.seen = Window \/ ~Is(m, "tool") THEN a
    ELSE IF m.text.shape = "opaque" THEN [a EXCEPT !.odd = TRUE]
    ELSE IF rejected_call(m.text)
         THEN [a EXCEPT !.rejected = IF a.seen = 0 THEN @ + 1 ELSE @]
    ELSE IF rc_signals_failed_text(m.text)
         THEN [a EXCEPT !.seen = @ + 1, !.failed = TRUE, !.run = IF a.running THEN @ + 1 ELSE @]
         ELSE [a EXCEPT !.seen = @ + 1, !.running = FALSE]

Look(a, m) ==
    IF a.odd \/ a.seen = Window \/ Is(m, "assistant") THEN a
    ELSE IF ~Is(m, "tool") THEN [a EXCEPT !.running = FALSE]
    ELSE IF m.text.shape = "opaque" THEN [a EXCEPT !.odd = TRUE]
    ELSE IF rejected_call(m.text)
         THEN [a EXCEPT !.rejected = IF a.seen = 0 THEN @ + 1 ELSE @]
    ELSE IF rc_signals_failed_text(m.text)
         THEN [a EXCEPT !.seen = @ + 1, !.failed = TRUE, !.run = IF a.running THEN @ + 1 ELSE @]
         ELSE [a EXCEPT !.seen = @ + 1, !.running = FALSE]

Walk(messages) == FoldLeft(Look, Unread, Reverse(messages))

(* The last calls made, newest first.                                      *)
CallsOf(messages) ==
    LET all == FlattenSeq([i \in DOMAIN messages |->
                   IF Is(messages[i], "assistant") THEN messages[i].calls ELSE <<>>])
    IN Reverse(all)

newest_call(messages) ==
    LET calls == CallsOf(messages) IN IF calls = <<>> THEN "" ELSE calls[1].name

(* A call without a name or arguments has no key.                          *)
stalled(messages) ==
    LET calls == CallsOf(messages)
        last == 1..(IF Len(calls) < RepeatWindow THEN Len(calls) ELSE RepeatWindow)
    IN /\ \A i \in last : calls[i].keyed
       /\ Cardinality({i \in last : calls[i] = calls[1]}) >= RepeatMin

(* facts: completed turns, whether tools are offered, the two options.     *)
Legible(messages, facts) ==
    /\ facts.turns # 0
    /\ messages # <<>> /\ Len(messages) <= MaxMessages
    /\ \A i \in DOMAIN messages : messages[i].role \in {"system", "user", "assistant", "tool"}
    /\ facts.sound                         \* tools and tool_choice have a known form
    /\ Is(Last(messages), "tool")

rc_signals_classify(messages, facts) ==
    LET w == Walk(messages)
    IN IF ~Legible(messages, facts) \/ w.odd \/ w.seen = 0 \/ w.rejected > MaxRejections THEN "none"
       ELSE IF w.run >= 2 THEN "recovery"
       ELSE IF facts.repeat /\ w.rejected = 0 /\ stalled(messages) THEN "recovery"
       ELSE IF w.failed THEN "none"
       ELSE IF facts.phase /\ facts.offered /\ newest_call(messages) \in Reads THEN "none"
       ELSE IF facts.offered THEN "tool_followup_ok" ELSE "final_answer"

rc_signals_recent_failure(messages, facts) ==
    LET w == Walk(messages)
    IN Legible(messages, [facts EXCEPT !.turns = 1]) /\ ~w.odd /\ w.failed

-----------------------------------------------------------------------------
(* Whether an advisor speaks; what it then says is an input.               *)
rc_judge_request(messages) ==
    /\ messages # <<>> /\ Len(messages) <= 256
    /\ Is(Last(messages), "tool")
    /\ \E i \in DOMAIN messages : Is(messages[i], "assistant")

rc_prompt_score(messages) == messages # <<>> /\ Is(Last(messages), "user")

-----------------------------------------------------------------------------
(* The frozen taxonomy of signals.h, without the loop.  Executed: results  *)
(* of calls that ran; Recent: the last of them.                            *)
Executed(h) == {i \in DOMAIN h : Is(h[i], "tool") /\ h[i].text.shape # "opaque" /\ ~rejected_call(h[i].text)}

Recent(h) == {i \in Executed(h) : Cardinality({j \in Executed(h) : j > i}) < Window}

(* The part of the history the classifier has to understand.               *)
Read(h) == {i \in DOMAIN h : Cardinality({j \in Executed(h) : j > i}) < Window}

Failing(h) == {i \in Recent(h) : rc_signals_failed_text(h[i].text)}

(* Two failed results in a row at the end, with nobody speaking since the  *)
(* first of them.                                                          *)
Repairing(h) ==
    \E i, j \in Failing(h) :
        /\ i < j
        /\ \A k \in i..Len(h) : k \in Executed(h) => k \in {i, j}
        /\ \A k \in i..Len(h) : ~Is(h[k], "user") /\ ~Is(h[k], "system")

Trailing(h) ==
    {i \in DOMAIN h : Is(h[i], "tool") /\ i \notin Executed(h) /\ \A j \in Executed(h) : j < i}

Contract(h, facts) ==
    IF \/ ~Legible(h, facts)
       \/ \E i \in Read(h) : Is(h[i], "tool") /\ h[i].text.shape = "opaque"
       \/ Recent(h) = {} \/ Cardinality(Trailing(h)) > MaxRejections
    THEN "none"
    ELSE IF Repairing(h) \/ (facts.repeat /\ Trailing(h) = {} /\ stalled(h)) THEN "recovery"
    ELSE IF Failing(h) # {} \/ (facts.phase /\ facts.offered /\ newest_call(h) \in Reads) THEN "none"
    ELSE IF facts.offered THEN "tool_followup_ok" ELSE "final_answer"
=============================================================================
