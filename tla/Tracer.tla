------------------------------- MODULE Tracer -------------------------------
(***************************************************************************)
(* recursant-tracer (core/src/http/tracer.c): one thread accepts, a thread *)
(* per connection reads the request, admits it, sends it to the upstream   *)
(* and relays the answer; the threads share the counter g_active.          *)
(*                                                                         *)
(* A request is what read_head and parse_request_head make of it, an       *)
(* answer its framing and the tokens of its body: hexadecimal digits, CR,  *)
(* LF, SEMI and "x" for any other byte.  Time is left out: a receive       *)
(* timeout may come whenever its thread waits.                             *)
(***************************************************************************)
EXTENDS Admission, Integers, FiniteSets

CONSTANTS
    Conns,            \* places for connections that are open at once
    MaxConnections,   \* MAX_CONNECTIONS
    Documents,        \* configuration documents, None for no --config
    Environments,
    Arguments,        \* --max-inflight and --max-body-bytes, None where absent
    Requests,
    Answers,
    Sizes,            \* what may be written for the size of a chunk
    MaxChunks         \* of an answer that is held for well formed

ASSUME ConnsAssumption == IsFiniteSet(Conns)

ASSUME NumbersAssumption ==
    /\ DefaultInflight \in Int
    /\ \A a \in Arguments : a.inflight = None \/ a.inflight \in Int
    /\ \A d \in Documents :
          d = None \/ ("inflight" \in DOMAIN d /\ (d.inflight = None \/ d.inflight \in Int))

(* A project names its variable, and every name can be looked up.          *)
ASSUME SecretsAssumption ==
    \A d \in Documents \ {None} :
        /\ "projects" \in DOMAIN d
        /\ \A e \in Environments :
              /\ \A p \in ToSet(d.projects) : p.token_env # None /\ p.token_env \in DOMAIN e
              /\ [i \in DOMAIN d.projects |-> e[d.projects[i].token_env]] # None

VARIABLES
    start,      \* what the process was started with, until it is up
    auth,       \* g_auth: the projects' tokens, None for no admission
    policy,     \* g_policy
    running,    \* the listener: "starting", "up" or "refused"
    g_active,
    conn,       \* connection -> its thread's place and locals
    gone        \* the connections whose client has left

shared == <<start, auth, policy, running>>
vars   == <<shared, g_active, conn, gone>>

Idle ==
    [phase |-> "free", admitted |-> FALSE, left |-> 0, held |-> 0, code |-> 0,
     answer |-> None, tracker |-> None, read |-> 0, out |-> 0, end |-> None]

Init ==
    /\ start \in [document : Documents, env : Environments, args : Arguments]
    /\ auth = None /\ policy = None /\ running = "starting"
    /\ g_active = 0
    /\ conn = [c \in Conns |-> Idle]
    /\ gone = {}

-----------------------------------------------------------------------------
(* main.                                                                   *)
Given(argument, configured) == IF argument # None THEN argument ELSE configured

Boot ==
    LET d == IF start.document = None THEN None ELSE rc_config_load(start.document)
        tokens == rc_auth_table_init(d, start.env)
        valid  == d # None /\ rc_config_validate(d) /\ tokens # None
    IN /\ running = "starting"
       /\ IF start.document = None \/ valid
          THEN running' = "up" /\ start' = None
          ELSE running' = "refused" /\ UNCHANGED start
       /\ IF start.document # None /\ valid
          THEN /\ auth' = tokens
               /\ policy' = [inflight |-> Given(start.args.inflight, d.inflight),
                             body     |-> Given(start.args.body, d.body)]
          ELSE /\ auth' = None
               /\ policy' = [inflight |-> Given(start.args.inflight, DefaultInflight),
                             body     |-> Given(start.args.body, DefaultBody)]
       /\ UNCHANGED <<g_active, conn, gone>>

(* The counter goes up before the thread exists; above the cap the client  *)
(* is answered 503 and nothing is kept.                                    *)
Accept(c) ==
    /\ running = "up" /\ conn[c].phase = "free" /\ g_active < MaxConnections
    /\ g_active' = g_active + 1
    /\ conn' = [conn EXCEPT ![c].phase = "accepted"]
    /\ UNCHANGED <<shared, gone>>

Freed(c) ==
    /\ g_active' = g_active - 1
    /\ conn' = [conn EXCEPT ![c] = Idle]
    /\ gone' = gone \ {c}

(* malloc or pthread_create fails.                                         *)
NoThread(c) ==
    /\ conn[c].phase = "accepted"
    /\ Freed(c)
    /\ UNCHANGED shared

Thread(c) ==
    /\ conn[c].phase = "accepted"
    /\ conn' = [conn EXCEPT ![c].phase = "head"]
    /\ UNCHANGED <<shared, g_active, gone>>

-----------------------------------------------------------------------------
(* handle_connection, up to the upstream.  A step that ends the connection *)
(* leaves the slot to Finish, which takes it back last.                    *)
Ends(c, code) == conn' = [conn EXCEPT ![c].phase = "closing", ![c].code = code]

route_status(q) ==
    CASE q.path = "chat"   -> IF q.method = "POST" THEN 0 ELSE 405
      [] q.path = "models" -> IF q.method = "GET" THEN 0 ELSE 405
      [] OTHER             -> 404

Post(q) == q.method = "POST"

Length(q) == IF Post(q) /\ q.length # None THEN q.length ELSE 0

(* Of what came with the head, the body's bytes.                           *)
Carried(q) == IF q.extra > Length(q) THEN Length(q) ELSE q.extra

(* Every other connection counts as in flight, admitted or not.            *)
Admits(q) ==
    IF auth = None THEN "ok"
    ELSE rc_admit_request(auth, policy, q.credential, Length(q), g_active - 1)

DeniedCode(result) ==
    CASE result = "auth" -> 401 [] result = "too_large" -> 413
      [] result = "overload" -> 503 [] OTHER -> 400

(* What is checked once the request is admitted.                           *)
ShapeCode(q) ==
    CASE Post(q) /\ (q.chunked \/ q.length = None) -> 400
      [] Post(q) /\ q.length > policy.body         -> 413
      [] ~Post(q) /\ q.extra > 0                   -> 400
      [] OTHER                                     -> 0

Refusal(q) ==
    CASE q.head = "version"      -> 405
      [] q.head = "malformed"    -> 400
      [] route_status(q) # 0     -> route_status(q)
      [] Admits(q) # "ok"        -> DeniedCode(Admits(q))
      [] OTHER                   -> ShapeCode(q)

(* The client goes or falls silent before its request is whole.            *)
HeadLost(c) ==
    /\ conn[c].phase = "head"
    /\ Ends(c, 0)
    /\ UNCHANGED <<shared, g_active, gone>>

Handle(c, q) ==
    /\ conn[c].phase = "head"
    /\ IF Refusal(q) # 0
       THEN Ends(c, Refusal(q))
       ELSE conn' = [conn EXCEPT ![c].phase = "connect", ![c].admitted = TRUE,
                                 ![c].left = Length(q), ![c].held = Carried(q)]
    /\ UNCHANGED <<shared, g_active, gone>>

-----------------------------------------------------------------------------
(* The request's way up: at most one piece is held, and the thread waits   *)
(* for the client to send it or for the upstream to take it.  The head is  *)
(* short of what an empty socket takes at once.                            *)
Above(left) == IF left = 0 THEN "answer" ELSE "body"

Connect(c) ==
    /\ conn[c].phase = "connect"
    /\ \/ Ends(c, 502)
       \/ conn' = [conn EXCEPT ![c].phase = Above(conn[c].left)]
    /\ UNCHANGED <<shared, g_active, gone>>

Receive(c) ==
    /\ conn[c].phase = "body" /\ conn[c].held = 0
    /\ \E n \in 1..conn[c].left : conn' = [conn EXCEPT ![c].held = n]
    /\ UNCHANGED <<shared, g_active, gone>>

UpstreamTakes(c) ==
    /\ conn[c].phase = "body" /\ conn[c].held > 0
    /\ conn' = [conn EXCEPT ![c].left = @ - conn[c].held, ![c].held = 0,
                            ![c].phase = Above(conn[c].left - conn[c].held)]
    /\ UNCHANGED <<shared, g_active, gone>>

(* The client fails, ends its side or is silent too long.                  *)
BodyLost(c) ==
    /\ conn[c].phase = "body" /\ conn[c].held = 0
    /\ Ends(c, 0)
    /\ UNCHANGED <<shared, g_active, gone>>

UploadFails(c) ==
    /\ conn[c].phase = "body" /\ conn[c].held > 0
    /\ Ends(c, 0)
    /\ UNCHANGED <<shared, g_active, gone>>

-----------------------------------------------------------------------------
(* chunked_step, over tokens.                                              *)
HexDigits == <<"0", "1", "2", "3", "4", "5", "6", "7", "8", "9", "a", "b", "c", "d", "e", "f">>
Hex == [t \in ToSet(HexDigits) |-> SelectInSeq(HexDigits, LAMBDA h : h = t) - 1]
isxdigit(t) == t \in DOMAIN Hex

Tokens == DOMAIN Hex \cup {"SEMI", "CR", "LF", "x"}

(* No head is passed on whose length is negative (tracer.c:386).           *)
ASSUME AnswersAssumption ==
    \A a \in Answers :
        /\ a.length = None \/ a.length \in Nat
        /\ a.chunked \in BOOLEAN /\ a.body \in Seq(Tokens)

AfterSize(n) == IF n = 0 THEN "TRAILER_CR" ELSE "DATA"

chunked_step(k, t) ==
    LET To(state) == [k EXCEPT !.state = state]
        Want(token, state) == To(IF t = token THEN state ELSE "ERROR")
    IN CASE k.state = "SIZE_START" ->
              IF isxdigit(t) THEN [state |-> "SIZE", remaining |-> Hex[t]] ELSE To("ERROR")
         [] k.state = "SIZE" ->
              IF isxdigit(t) THEN [k EXCEPT !.remaining = @ * 16 + Hex[t]]
              ELSE To(CASE t = "SEMI" -> "EXT"
                        [] t = "CR"   -> "SIZE_CR"
                        [] t = "LF"   -> AfterSize(k.remaining)
                        [] OTHER      -> "ERROR")
         [] k.state = "EXT"     -> IF t = "LF" THEN To(AfterSize(k.remaining)) ELSE k
         [] k.state = "SIZE_CR" -> Want("LF", AfterSize(k.remaining))
         [] k.state = "DATA"    -> [remaining |-> k.remaining - 1,
                                    state |-> IF k.remaining - 1 <= 0 THEN "DATA_CR" ELSE "DATA"]
         [] k.state = "DATA_CR"    -> Want("CR", "DATA_LF")
         [] k.state = "DATA_LF"    -> Want("LF", "SIZE_START")
         [] k.state = "TRAILER_CR" -> Want("CR", "DONE")
         [] OTHER                  -> k

TrackerStart == [state |-> "SIZE_START", remaining |-> 0]

TrackedAfresh(k, n) ==
    IF k.answer.chunked THEN FoldLeft(chunked_step, TrackerStart, SubSeq(k.answer.body, k.read + 1, n))
    ELSE k.tracker

(* The tracker after a read that ends with token n.                        *)
Tracked(k, n) ==
    IF k.answer.chunked THEN FoldLeft(chunked_step, k.tracker, SubSeq(k.answer.body, k.read + 1, n))
    ELSE k.tracker

-----------------------------------------------------------------------------
(* The answer's way down: relay_response.                                  *)
NoAnswer(c) ==
    /\ conn[c].phase = "answer"
    /\ Ends(c, 502)
    /\ UNCHANGED <<shared, g_active, gone>>

(* The head is written first, whether or not body bytes came with it.      *)
AnswerHead(c, a) ==
    /\ conn[c].phase = "answer"
    /\ IF a.head = "bad" THEN Ends(c, 0)
       ELSE conn' = [conn EXCEPT ![c].phase = "sending", ![c].answer = a,
                                 ![c].tracker = TrackerStart]
    /\ UNCHANGED <<shared, g_active, gone>>

Remaining(a, n) == IF a.chunked THEN a.length ELSE a.length - n

Complete(k) ==
    \/ k.answer.length # None /\ Remaining(k.answer, k.read) = 0
    \/ k.answer.chunked /\ k.tracker.state = "DONE"

Cut(c, why) == conn' = [conn EXCEPT ![c].phase = "closing", ![c].end = why]

Overrun(k, n) ==
    IF k.answer.chunked THEN Tracked(k, n).state = "ERROR"
    ELSE k.answer.length # None /\ n > k.answer.length

Read(c) ==
    LET k == conn[c] IN
    /\ k.phase = "relay"
    /\ \E n \in k.read + 1..Len(k.answer.body) :
          IF Overrun(k, n) THEN Cut(c, "broken")
          ELSE conn' = [conn EXCEPT ![c].phase = "sending", ![c].read = n,
                                    ![c].tracker = Tracked(k, n)]
    /\ UNCHANGED <<shared, g_active, gone>>

ClientTakes(c) ==
    LET k == conn[c] IN
    /\ k.phase = "sending"
    /\ conn' = IF Complete(k)
               THEN [conn EXCEPT ![c].phase = "closing", ![c].out = k.read, ![c].end = "whole"]
               ELSE [conn EXCEPT ![c].phase = "relay", ![c].out = k.read]
    /\ UNCHANGED <<shared, g_active, gone>>

ClientLost(c) ==
    /\ conn[c].phase = "sending" /\ c \in gone
    /\ Cut(c, "client")
    /\ UNCHANGED <<shared, g_active, gone>>

ProbeOnData(c) ==
    /\ conn[c].phase = "relay" /\ c \in gone /\ conn[c].read < Len(conn[c].answer.body)
    /\ Cut(c, "client")
    /\ UNCHANGED <<shared, g_active, gone>>

(* poll reports the client as well as the upstream, and has no timeout.    *)
Probe(c) ==
    /\ conn[c].phase = "relay" /\ c \in gone
    /\ Cut(c, "client")
    /\ UNCHANGED <<shared, g_active, gone>>

UpstreamEof(c) ==
    LET a == conn[c].answer  n == conn[c].read IN
    /\ conn[c].phase = "relay"
    /\ Cut(c, IF (a.length # None /\ Remaining(a, n) > 0) \/ a.chunked THEN "short" ELSE "whole")
    /\ UNCHANGED <<shared, g_active, gone>>

UpstreamFails(c) ==
    /\ conn[c].phase = "relay"
    /\ Cut(c, "short")
    /\ UNCHANGED <<shared, g_active, gone>>

(* finish: the sockets are closed before the slot is given back.           *)
Finish(c) ==
    /\ conn[c].phase = "closing"
    /\ Freed(c)
    /\ UNCHANGED shared

Leave(c) ==
    /\ conn[c].phase # "free" /\ c \notin gone
    /\ gone' = gone \cup {c}
    /\ UNCHANGED <<shared, g_active, conn>>

-----------------------------------------------------------------------------
Next ==
    \/ Boot
    \/ \E c \in Conns :
          \/ Accept(c) \/ NoThread(c) \/ Thread(c)
          \/ HeadLost(c) \/ \E q \in Requests : Handle(c, q)
          \/ Connect(c) \/ Receive(c) \/ UpstreamTakes(c) \/ BodyLost(c) \/ UploadFails(c)
          \/ NoAnswer(c) \/ \E a \in Answers : AnswerHead(c, a)
          \/ Read(c) \/ ClientTakes(c) \/ ClientLost(c) \/ Probe(c)
          \/ UpstreamEof(c) \/ UpstreamFails(c)
          \/ Finish(c) \/ Leave(c)

(* What a thread does of itself, or a receive timeout or an error makes it *)
(* do.  Sockets have a timeout for receiving only (tracer.c:85), so no     *)
(* peer is made to take what it is sent, neither a piece of the body nor   *)
(* one of the answer, and once the answer has begun nothing is made to     *)
(* come of the upstream.                                                   *)
Own(c) ==
    \/ NoThread(c) \/ Thread(c)
    \/ HeadLost(c) \/ \E q \in Requests : Handle(c, q)
    \/ Connect(c) \/ BodyLost(c)
    \/ NoAnswer(c) \/ \E a \in Answers : AnswerHead(c, a)
    \/ ClientLost(c) \/ Probe(c)
    \/ Finish(c)

Spec == Init /\ [][Next]_vars

FairSpec == Spec /\ \A c \in Conns : WF_vars(Own(c))

-----------------------------------------------------------------------------
(* What recursant-validate calls valid, the tracer starts with: the two    *)
(* look for the projects' secrets in code of their own ("checks that every *)
(* referenced secret NAME resolves", validate.c:4).                        *)
CheckedStarts == running = "refused" => ~recursant_validate(start.document, start.env)

(* However many requests arrive at once, no more are past admission and    *)
(* not yet over than the policy allows, though each counts the others by   *)
(* reading a counter the others are changing (tracer.c:571).               *)
Admitted == {c \in Conns : conn[c].admitted}

AdmittedWithinLimit ==
    auth # None /\ Admitted # {} => Cardinality(Admitted) <= policy.inflight

(* What the digits of a size stand for.                                    *)
SizeOf(digits) ==
    LET value[i \in 0..Len(digits)] ==
            IF i = 0 THEN 0 ELSE value[i - 1] * 16 + Hex[digits[i]]
    IN value[Len(digits)]

(* No chunk but the last is empty, and a long holds its size.              *)
ASSUME ChunksAssumption ==
    /\ MaxChunks \in Nat
    /\ \A digits \in Sizes :
          digits \in Seq(DOMAIN Hex) /\ Len(digits) < 16 /\ SizeOf(digits) > 0

(* An answer framed as HTTP/1.1 frames it is relayed to its end, however   *)
(* the reads cut it, unless a peer goes first, and one whose upstream ends *)
(* it early is not taken for whole ("never splice a truncated body",       *)
(* tracer.c:491).  An answer without a body is owed no more than its head, *)
(* on which its client may have gone.                                      *)
Chunks == [digits : Sizes, ext : BOOLEAN]

Encoded(k) ==
    k.digits \o (IF k.ext THEN <<"SEMI", "x">> ELSE <<>>) \o <<"CR", "LF">>
        \o [i \in 1..SizeOf(k.digits) |-> "x"] \o <<"CR", "LF">>

LastChunk == <<"0", "CR", "LF", "CR", "LF">>

Encoding(s) == FlattenSeq([i \in DOMAIN s |-> Encoded(s[i])]) \o LastChunk

Encodings == {Encoding(s) : s \in BoundedSeq(Chunks, MaxChunks)}

WellFormed(a) ==
    IF a.chunked THEN a.length = None /\ a.body \in Encodings
    ELSE a.length # None => a.length = Len(a.body)

(* The tracker is content with the CR of the last CR LF.                   *)
Needed(a) == IF a.chunked THEN Len(a.body) - 1 ELSE a.length

WholeAnswerRelayed ==
    \A c \in Conns :
        LET a == conn[c].answer IN
        conn[c].end # None /\ WellFormed(a) =>
            /\ conn[c].end # "broken"
            /\ a.chunked \/ a.length # None =>
                  /\ conn[c].end = "whole" => conn[c].out >= Needed(a)
                  /\ conn[c].out >= Needed(a) =>
                        conn[c].end = "whole" \/ (Needed(a) = 0 /\ conn[c].end = "client")

(* A client that goes away gives its slot back, even if the upstream then  *)
(* says nothing more ("client disconnect mid-response closes the upstream  *)
(* connection immediately", tracer.c:10).  The one exception is an         *)
(* upstream that never takes the piece of the body it is being sent: that  *)
(* send looks at no client and has no timeout (tracer.c:90, 660).          *)
Uploading(c) == conn[c].phase = "body" /\ conn[c].held > 0

GoneClientFreesSlot ==
    \A c \in Conns : c \in gone ~> (c \notin gone \/ []Uploading(c))
=============================================================================
