----------------------------- MODULE MCPlacement -----------------------------
(* Three kinds of load.  Histories: one request, any history of up to   *)
(* four messages.  Markets: one request, any three candidates.  Crowd: a   *)
(* few plain requests that compete for the judge, the session, the minute  *)
(* and the shadow.                                                         *)
EXTENDS Placement, TLC

Good == [shape |-> "json", note |-> "none", error |-> "absent", exit |-> "zero", good |-> TRUE,
         children |-> TRUE, missing |-> FALSE, output |-> "weak", other |-> TRUE]
Bad == [Good EXCEPT !.exit = "other"]
Rejection == [Good EXCEPT !.exit = "absent", !.error = "text", !.output = "clean", !.other = FALSE]
Prose == [Good EXCEPT !.shape = "prose", !.note = "junk"]

Opaque == [Good EXCEPT !.shape = "opaque"]

Call(name) == [name |-> name, keyed |-> TRUE]
Says(role) == [role |-> role, calls |-> <<>>, text |-> Opaque]
Calls(c) == [role |-> "assistant", calls |-> c, text |-> Opaque]
Result(t) == [role |-> "tool", calls |-> <<>>, text |-> t]

Results == {Result(t) : t \in {Good, Bad, Rejection, Prose, Opaque}}

Messages ==
    {Says("user"), Says("narrator"), Calls(<<Call("read_file")>>), Calls(<<Call("patch"), Call("patch")>>)}
        \cup Results

Plain == [turns |-> 1, sound |-> TRUE, offered |-> TRUE, repeat |-> FALSE, phase |-> FALSE]

FactsOf ==
    {Plain, [Plain EXCEPT !.turns = 0], [Plain EXCEPT !.offered = FALSE],
     [Plain EXCEPT !.repeat = TRUE, !.phase = TRUE]}

NoUsage == [known |-> FALSE, prompt |-> 0, completion |-> 0, cached |-> 0]
Usage == [known |-> TRUE, prompt |-> 3, completion |-> 1, cached |-> 2]

Step ==
    [class |-> "none", structural |-> TRUE, routine |-> FALSE, veto |-> FALSE, push |-> FALSE,
     simple |-> FALSE, privateOnly |-> FALSE, delegated |-> FALSE, awaiting |-> FALSE, turns |-> 1,
     usable |-> FALSE, now |-> 1, observed |-> 1, expires |-> 2, task |-> "none", spend |-> "low",
     last |-> NoUsage, appended |-> 4, bytes |-> 8, max |-> 1, bounded |-> TRUE, floor |-> 0,
     owner |-> 1, permits |-> 1..3, full |-> {}, declares |-> 1..3, baseline |-> 1]

Candidate(alias, cost, limit, qualified, private) ==
    [alias |-> alias, price |-> [input |-> cost, cached |-> 0, output |-> 0], limit |-> limit,
     qualified |-> qualified, capabilities |-> {}, private |-> private]

Base == Candidate(1, 2, 9, {}, FALSE)
Cheap == Candidate(2, 1, 9, {"tool_followup_ok"}, FALSE)
Free == Candidate(3, 0, 12, {"recovery"}, TRUE)

Request(h, f, t) == [messages |-> h, facts |-> f, turn |-> t]

SeqUpTo(n, S) == UNION {[1..k -> S] : k \in 1..n}

Recalled(n) == SeqUpTo(2, Messages) \cup {Append(h, m) : h \in SeqUpTo(n, Messages), m \in Results}

Ends(m) == <<Calls(<<Call("patch")>>), Result(m)>>

Shapes ==
    {<<cost, limit, q>> : cost \in 0..2, limit \in {2, 9}, q \in {{}, {"tool_followup_ok"}, {"recovery"}}}

Turns ==
    LET done == Ends(Good)  broken == Ends(Bad) \o Ends(Bad)
    IN {Request(done, Plain, Step), Request(broken, Plain, Step),
        Request(done, Plain, [Step EXCEPT !.last = Usage, !.owner = 2]),
        Request(done, Plain, [Step EXCEPT !.awaiting = TRUE, !.usable = TRUE, !.task = "tool_followup_ok"]),
        Request(done, Plain, [Step EXCEPT !.permits = {2, 3}, !.veto = TRUE]),
        Request(<<Says("user")>>, Plain, [Step EXCEPT !.push = TRUE, !.full = {3}])}

Markets ==
    {<<Candidate(3, a[1], a[2], a[3], FALSE), Candidate(1, b[1], b[2], b[3], FALSE),
       Candidate(2, c[1], c[2], c[3], TRUE)>> :
        a \in Shapes, b \in {s \in Shapes : s[3] = {}}, c \in Shapes}

Recalls == {Request(h, f, Step) : h \in Recalled(3), f \in FactsOf}

Rush ==
    {Request(Ends(Good), Plain, Step), Request(Ends(Prose), Plain, Step),
     Request(Ends(Good), Plain, [Step EXCEPT !.permits = {1, 2}])}

Same == Permutations(Threads)

AllLoads ==
    [histories |->
        [registries |-> {<<Base, Cheap, Free>>}, requests |-> 1, clock |-> 1,
         kinds |-> Recalls],
     markets |-> [registries |-> Markets, requests |-> 1, clock |-> 1, kinds |-> Turns],
     crowd |->
        [registries |-> {<<Base, Cheap, Free>>}, requests |-> 4, clock |-> 3,
         kinds |-> Rush]]
=============================================================================
