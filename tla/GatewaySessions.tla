--------------------------- MODULE GatewaySessions ---------------------------
(***************************************************************************)
(* The session table of the gateway: core/src/context/gateway_context.c.   *)
(*                                                                         *)
(* One fixed table of slots holds two kinds of session.  A registered one  *)
(* is opened and closed by the harness and named by its generation; a      *)
(* request session is made from the request stream and found again by the  *)
(* conversation it continues.  Every HTTP thread runs prepare, failover    *)
(* and finish on the table, each under the gateway lock and therefore one  *)
(* action here, with the upstream exchange between them.                   *)
(*                                                                         *)
(* Abstracted: message contents (whether a request continues a session,    *)
(* breaks its contract, or carries restricted content is an input), costs  *)
(* and classes (selection may take any candidate the code would consider), *)
(* and time (a session becomes idle, a candidate stops cooling, at any     *)
(* moment).  context.sessions is "request" and the context is active.      *)
(***************************************************************************)
EXTENDS Naturals, FiniteSets

CONSTANTS
    Slots,           \* the table, SCOPES entries
    RegisteredCap,   \* EXPLICIT_SCOPES: slots kept for registered sessions
    Idents,          \* values of X-Recursant-session-id
    NoIdent,         \* the header is absent or the attribution is invalid
    LabelCap,        \* LABELS: restricted sessions that can be remembered
    Candidates,      \* the qualified destinations
    PrivateModel,    \* the destination of every private redirection
    Public,          \* destinations on a public endpoint
    Baseline,
    Recovery,        \* candidates qualified for escalation and failover
    Declaring,       \* candidates declaring the requirements of a tooled session
    Housekeeping,    \* the candidate of titles and summaries
    Capped,          \* candidates with a max_inflight
    MaxInflight,
    Requests,        \* HTTP threads: names for the requests in progress
    MaxRetries,      \* context.health max_retries
    MaxGenerations,  \* bound: registrations in a behaviour
    Queries,         \* bound: the shapes of request that arrive
    Outcomes,        \* bound: the kinds of answer they get
    None

Destinations == Candidates \cup {PrivateModel}

Idn == Idents \cup {NoIdent}

(* What a request shows when it arrives. *)
Query ==
    [automatic: BOOLEAN,          \* addressed to the automatic alias
     ident: Idn,
     sensitive: BOOLEAN,          \* the compliance gate keeps it off public
     tools: BOOLEAN,              \* it brings requirements of its own
     breaks: BOOLEAN]             \* contract or history differ: it pins

ASSUME GatewayAssumption ==
    /\ Queries \subseteq Query
    /\ Outcomes \subseteq {"plain", "tools", "opaque"} /\ "opaque" \in Outcomes
    /\ IsFiniteSet(Slots) /\ IsFiniteSet(Requests) /\ IsFiniteSet(Idents)
    /\ RegisteredCap \in Nat /\ RegisteredCap <= Cardinality(Slots)
    /\ NoIdent \notin Idents
    /\ LabelCap \in Nat /\ MaxRetries \in Nat /\ MaxGenerations \in Nat
    /\ MaxInflight \in Nat \ {0}
    /\ Baseline \in Candidates /\ Housekeeping \in Candidates
    /\ Recovery \subseteq Candidates /\ Declaring \subseteq Candidates
    /\ Capped \subseteq Candidates /\ Public \subseteq Candidates
    /\ PrivateModel \notin Public
    /\ None \notin Slots /\ None \notin Destinations

VARIABLES
    scopes,       \* the table
    labels,       \* sessions a harness labelled restricted
    ticket,       \* the request each thread has between prepare and finish
    load,         \* inflight counter of each candidate
    cooling,      \* candidates inside their health cooldown
    generations   \* generations issued; none is ever issued again

vars == <<scopes, labels, ticket, load, cooling, generations>>

Scope ==
    [kind: {"free", "registered", "request"},
     gen: 0..MaxGenerations,      \* 0: not registered
     ident: Idn,
     inflight: BOOLEAN,
     pinned: BOOLEAN,             \* its history can no longer be replayed
     owner: Destinations \cup {None},
     private: BOOLEAN,            \* private_only
     tooled: BOOLEAN,             \* it has accumulated requirements
     boundary: BOOLEAN,           \* it waits for the results of tool calls
     idle: BOOLEAN]               \* not active for longer than the TTL

Free ==
    [kind |-> "free", gen |-> 0, ident |-> NoIdent, inflight |-> FALSE,
     pinned |-> FALSE, owner |-> None, private |-> FALSE, tooled |-> FALSE,
     boundary |-> FALSE, idle |-> FALSE]

Ticket ==
    [scope: Slots \cup {None}, gen: 0..MaxGenerations, ident: Idn,
     automatic: BOOLEAN, sensitive: BOOLEAN,
     dest: Destinations,
     holds: Capped \cup {None},   \* whose inflight counter it is in
     failed: BOOLEAN,             \* no client byte was sent and it failed
     tries: 0..MaxRetries]

ASSUME TicketAssumption == None \notin Ticket

TypeOK ==
    /\ scopes \in [Slots -> Scope]
    /\ labels \subseteq Idents
    /\ ticket \in [Requests -> Ticket \cup {None}]
    /\ load \in [Capped -> 0..Cardinality(Requests)]
    /\ cooling \subseteq Candidates
    /\ generations \in 0..MaxGenerations

OfKind(k) == {i \in Slots : scopes[i].kind = k}

-----------------------------------------------------------------------------
(* The policy a destination must pass. *)

Labelled(id) == id \in labels

MutMustBePrivate(s, id) == s.private

MustBePrivate(s, id) == IF s = Free THEN Labelled(id) ELSE s.private

(* The compliance gate permits destination d unchanged for this request. *)
Permits(d, sensitive) == ~(sensitive /\ d \in Public)

Full(c) == c \in Capped /\ load[c] >= MaxInflight

MutDeclares(c, s) == TRUE

Declares(c, s) == s.tooled => c \in Declaring

(* Candidates quoted as permitted: the baseline needs only the gate. *)
Quoted(s, q) ==
    {c \in Candidates :
        /\ s.private => c \notin Public
        /\ Permits(c, q.sensitive)
        /\ c # Baseline => ~Full(c) /\ c \notin cooling /\ Declares(c, s)}

(* Any candidate cost, class, budget or window may choose; when the gate   *)
(* vetoes the baseline, a permitted candidate that declares the session's  *)
(* requirements whatever its load, and the baseline when none fits.        *)
Compliant(s, q) ==
    {c \in Candidates :
        /\ Declares(c, s)
        /\ s.private => c \notin Public
        /\ Permits(c, q.sensitive)}

Selectable(s, q) ==
    {Baseline} \cup IF Baseline \in Quoted(s, q) THEN Quoted(s, q) ELSE Compliant(s, q)

MutFailoverTargets(from, s, restricted, sensitive, overflow) ==
    {c \in Candidates \ ({from} \cup cooling) :
        /\ IF overflow THEN c \in Recovery \cup {Baseline}
           ELSE IF from = Baseline THEN c \in Recovery ELSE c = Baseline
        /\ restricted => c \notin Public}

(* Where an automatic request may go from a failing or cooling candidate. *)
FailoverTargets(from, s, restricted, sensitive, overflow) ==
    {c \in Candidates \ ({from} \cup cooling) :
        /\ ~Full(c)
        /\ IF overflow THEN c \in Recovery \cup {Baseline}
           ELSE IF from = Baseline THEN c \in Recovery ELSE c = Baseline
        /\ restricted => c \notin Public
        /\ c # Baseline => Declares(c, s)
        /\ Permits(c, sensitive)}

-----------------------------------------------------------------------------
(* The table: which slot a new session may take. *)

MutReclaimInflight(k) == {i \in OfKind(k) : scopes[i].idle}

MutReclaimAuthority(k) ==
    {i \in OfKind(k) :
        /\ scopes[i].idle /\ ~scopes[i].inflight
        /\ k = "registered" => ~scopes[i].boundary}

(* A registered session owes the harness a reply to its tool calls and may *)
(* hold authority derived from evidence; a request session holds neither.  *)
Reclaimable(k) ==
    {i \in OfKind(k) :
        /\ scopes[i].idle /\ ~scopes[i].inflight
        /\ k = "registered" => ~scopes[i].boundary /\ ~scopes[i].private}

(* A free slot while the kind is under its share, else an idle one of it. *)
Room(k, cap) ==
    IF Cardinality(OfKind(k)) < cap /\ OfKind("free") # {}
    THEN OfKind("free") ELSE Reclaimable(k)

RegisteredRoom == Room("registered", RegisteredCap)
RequestRoom == Room("request", Cardinality(Slots) - RegisteredCap)

(* Restricted labels outlive the session object. *)
NewRequestScope(id) ==
    [Free EXCEPT !.kind = "request", !.ident = id, !.private = Labelled(id)]

Open(id) ==
    /\ ~ \E i \in OfKind("registered") : scopes[i].ident = id
    /\ generations < MaxGenerations
    /\ generations' = generations + 1
    /\ \E i \in RegisteredRoom :
         scopes' = [scopes EXCEPT ![i] =
             [Free EXCEPT !.kind = "registered", !.gen = generations + 1, !.ident = id]]
    /\ UNCHANGED <<labels, ticket, load, cooling>>

Close(i) ==
    /\ scopes[i].kind = "registered" /\ ~scopes[i].inflight
    /\ scopes' = [scopes EXCEPT ![i] = Free]
    /\ UNCHANGED <<labels, ticket, load, cooling, generations>>

MutBound(id) ==
    [i \in Slots |->
        IF scopes[i].kind = "request" /\ scopes[i].ident = id /\ ~scopes[i].inflight
        THEN [scopes[i] EXCEPT !.private = TRUE] ELSE scopes[i]]

(* The open request sessions of a labelled identity become private at once. *)
Bound(id) ==
    [i \in Slots |->
        IF scopes[i].kind = "request" /\ scopes[i].ident = id
        THEN [scopes[i] EXCEPT !.private = TRUE] ELSE scopes[i]]

(* The hint that a session is restricted: refused when the table is full. *)
Hint(id) ==
    /\ id \in labels \/ Cardinality(labels) < LabelCap
    /\ labels' = labels \cup {id}
    /\ scopes' = Bound(id)
    /\ UNCHANGED <<ticket, load, cooling, generations>>

(* Evidence of the last exchange of a registered session; restricted text  *)
(* makes the session private even when the evidence is then refused.       *)
Ingest(i, restricted, accepted) ==
    /\ scopes[i].kind = "registered" /\ ~scopes[i].inflight
    /\ scopes[i].owner # None
    /\ scopes' = [scopes EXCEPT ![i].private = @ \/ restricted,
                                ![i].idle = @ /\ ~accepted]
    /\ UNCHANGED <<labels, ticket, load, cooling, generations>>

-----------------------------------------------------------------------------
(* Prepare: place one request and commit the session to it. *)

(* The session's record once the request's shape is folded into it. *)
Folded(s, q) ==
    IF s = Free THEN Free
    ELSE [s EXCEPT !.pinned = @ \/ q.breaks, !.tooled = @ \/ q.tools]

(* Destinations before health: the pinned owner, the selection, the        *)
(* baseline of a request without a session, or the alias it asked for.     *)
Chosen(s, q) ==
    IF ~q.automatic THEN Destinations
    ELSE IF s = Free THEN {Baseline}
    ELSE IF s.pinned /\ s.owner # None THEN {s.owner}
    ELSE Selectable(s, q)

(* A cooling destination is left when some target can take the request. *)
Healthy(d, s, q) ==
    LET targets == FailoverTargets(d, s, MustBePrivate(s, q.ident), q.sensitive, FALSE)
    IN  IF q.automatic /\ d \in cooling /\ targets # {} THEN targets ELSE {d}

(* Restriction and then the final gate only ever move towards private. *)
Final(d, s, q) ==
    IF MustBePrivate(s, q.ident) /\ q.automatic THEN PrivateModel
    ELSE IF Permits(d, q.sensitive) THEN d ELSE PrivateModel

MutConflict(d, final, moved, s, q) ==
    \/ ~q.automatic /\ MustBePrivate(s, q.ident) /\ d \in Public
    \/ /\ s # Free
       /\ \/ (~q.automatic \/ (s.tooled /\ s.owner # None)) /\ final # d
          \/ ~q.automatic /\ s.tooled /\ s.owner # None /\ final # s.owner

(* A session is never silently retargeted: the request is refused. *)
Conflict(d, final, moved, s, q) ==
    \/ ~q.automatic /\ MustBePrivate(s, q.ident) /\ d \in Public
    \/ /\ s # Free
       /\ \/ (~q.automatic \/ (s.tooled /\ s.owner # None)) /\ final # d
          \/ ~q.automatic /\ s.tooled /\ s.owner # None /\ final # s.owner
          \/ s.pinned /\ s.owner # None /\ ~moved /\ final # s.owner

Owned(s, d) ==
    [s EXCEPT !.owner = d, !.inflight = TRUE, !.idle = FALSE, !.boundary = FALSE]

Counted(d) == IF d \in Capped THEN d ELSE None

MutShifted(from, to) == [c \in Capped |-> load[c] + (IF c = to THEN 1 ELSE 0)]

Shifted(from, to) ==
    [c \in Capped |-> load[c] - (IF c = from THEN 1 ELSE 0)
                              + (IF c = to THEN 1 ELSE 0)]

Issue(r, i, s, q, d) ==
    /\ ticket' = [ticket EXCEPT ![r] =
          [scope |-> i, gen |-> s.gen, ident |-> q.ident, automatic |-> q.automatic,
           sensitive |-> q.sensitive, dest |-> d, holds |-> Counted(d),
           failed |-> FALSE, tries |-> 0]]
    /\ load' = Shifted(None, Counted(d))

(* The request is dispatched for session record s in slot i, or without a  *)
(* session (i = None), starting from one of the given destinations.        *)
Dispatch(r, i, s, q, from) ==
    \E d \in from : \E h \in Healthy(d, s, q) :
        LET f == Final(h, s, q) IN
        /\ ~Conflict(h, f, h # d, s, q)
        /\ Issue(r, i, s, q, f)
        /\ scopes' = IF i = None THEN scopes ELSE [scopes EXCEPT ![i] = Owned(s, f)]
        /\ UNCHANGED <<labels, cooling, generations>>

(* A conflict, budget or selection refusal: the session keeps what the     *)
(* request did to it, and a session made for the request stays.            *)
Refuse(i, s) ==
    /\ scopes' = [scopes EXCEPT ![i] = s]
    /\ UNCHANGED <<labels, ticket, load, cooling, generations>>

Serve(r, i, s, q) ==
    LET g == Folded(s, q) IN Dispatch(r, i, g, q, Chosen(g, q)) \/ Refuse(i, g)

(* Identity without a generation is never joined to a registered workflow. *)
Fenced(id) == \E i \in OfKind("registered") : scopes[i].ident = id

(* The request session this one continues: any that replays. *)
Continued(q) == {i \in OfKind("request") : scopes[i].ident = q.ident}

PrepareRegistered(r, q) ==
    \E i \in OfKind("registered") :
        /\ scopes[i].ident = q.ident
        /\ ~scopes[i].inflight
        /\ Serve(r, i, scopes[i], q)

PrepareContinued(r, q) ==
    /\ q.automatic /\ ~Fenced(q.ident)
    /\ \E i \in Continued(q) : ~scopes[i].inflight /\ Serve(r, i, scopes[i], q)

PrepareNew(r, q) ==
    /\ q.automatic /\ ~Fenced(q.ident)
    /\ \E i \in RequestRoom : Serve(r, i, NewRequestScope(q.ident), q)

(* No session: a fixed alias; or automatic, when the continued session is  *)
(* busy, the table is full, or the messages show no opening to anchor on   *)
(* (which any request may: the contents are abstracted).                   *)
PrepareUnscoped(r, q) ==
    ~Fenced(q.ident) /\ Dispatch(r, None, Free, q, Chosen(Free, q))

PrepareHousekeeping(r, q) ==
    /\ q.automatic /\ ~Fenced(q.ident) /\ ~Labelled(q.ident)
    /\ Permits(Housekeeping, q.sensitive)
    /\ Dispatch(r, None, Free, q, {Housekeeping})

Prepare(r, q) ==
    /\ ticket[r] = None
    /\ \/ PrepareRegistered(r, q) \/ PrepareContinued(r, q) \/ PrepareNew(r, q)
       \/ PrepareUnscoped(r, q) \/ PrepareHousekeeping(r, q)

-----------------------------------------------------------------------------
(* The exchange after prepare. *)

Running(r) == ticket[r] # None /\ ~ticket[r].failed

ScopeOf(t) == IF t.scope = None THEN Free ELSE scopes[t.scope]

(* The provider failed before any client byte; the outcome may start the   *)
(* candidate's cooldown.                                                   *)
Fail(r, cools) ==
    /\ Running(r)
    /\ ticket' = [ticket EXCEPT ![r].failed = TRUE]
    /\ cooling' = IF cools THEN cooling \cup ({ticket[r].dest} \cap Candidates) ELSE cooling
    /\ UNCHANGED <<scopes, labels, load, generations>>

(* The retry is placed under the restrictions of now, not of prepare. *)
Failover(r, overflow) ==
    LET t == ticket[r] IN
    /\ t # None /\ t.failed /\ t.automatic /\ t.tries < MaxRetries
    /\ t.dest \in Candidates
    /\ \E to \in FailoverTargets(t.dest, ScopeOf(t), MustBePrivate(ScopeOf(t), t.ident),
                                 t.sensitive, overflow) :
         /\ ticket' = [ticket EXCEPT ![r] =
                [t EXCEPT !.dest = to, !.holds = Counted(to), !.failed = FALSE,
                          !.tries = @ + 1]]
         /\ load' = Shifted(t.holds, Counted(to))
         /\ scopes' = IF t.scope = None THEN scopes
                      ELSE [scopes EXCEPT ![t.scope].owner = to]
    /\ UNCHANGED <<labels, cooling, generations>>

(* What the answer leaves: replayable history, a captured tool boundary,   *)
(* or nothing that can be replayed.  A pinned session stays pinned.        *)
Settled(s, outcome) ==
    [s EXCEPT !.inflight = FALSE, !.idle = FALSE,
              !.pinned = @ \/ outcome = "opaque",
              !.boundary = outcome = "tools" /\ ~s.pinned,
              !.tooled = @ \/ (outcome = "tools" /\ ~s.pinned)]

Finish(r, outcome) ==
    LET t == ticket[r] IN
    /\ t # None
    /\ t.failed => outcome = "opaque"
    /\ ticket' = [ticket EXCEPT ![r] = None]
    /\ load' = Shifted(t.holds, None)
    /\ scopes' = IF t.scope = None THEN scopes
                 ELSE [scopes EXCEPT ![t.scope] = Settled(@, outcome)]
    /\ UNCHANGED <<labels, cooling, generations>>

(* Time passes: a quiet session outlives the TTL, a cooldown ends. *)
Age(i) ==
    /\ scopes[i].kind # "free" /\ ~scopes[i].idle
    /\ scopes' = [scopes EXCEPT ![i].idle = TRUE]
    /\ UNCHANGED <<labels, ticket, load, cooling, generations>>

Recover(c) ==
    /\ c \in cooling /\ cooling' = cooling \ {c}
    /\ UNCHANGED <<scopes, labels, ticket, load, generations>>

Init ==
    /\ scopes = [i \in Slots |-> Free]
    /\ labels = {} /\ cooling = {} /\ generations = 0
    /\ ticket = [r \in Requests |-> None]
    /\ load = [c \in Capped |-> 0]

Next ==
    \/ \E id \in Idents : Open(id) \/ Hint(id)
    \/ \E i \in Slots : Close(i) \/ Age(i)
    \/ \E i \in Slots : \E restricted, accepted \in BOOLEAN : Ingest(i, restricted, accepted)
    \/ \E r \in Requests : \E q \in Queries : Prepare(r, q)
    \/ \E r \in Requests : \E b \in BOOLEAN : Fail(r, b) \/ Failover(r, b)
    \/ \E r \in Requests : \E o \in Outcomes : Finish(r, o)
    \/ \E c \in Candidates : Recover(c)

Spec == Init /\ [][Next]_vars

-----------------------------------------------------------------------------
(* Safety. *)

(* A label reaches every open request session of its identity, whichever   *)
(* came first: the label, the session, or a session made again from the    *)
(* same identity after the table reclaimed it.                             *)
LabelsBind ==
    \A i \in OfKind("request") : Labelled(scopes[i].ident) => scopes[i].private

(* A destination chosen now, at dispatch or at a retry, is not public when *)
(* the request's session is private now or, without a registered session,  *)
(* its identity is labelled now: a label sent during an exchange stops the *)
(* retry of that same exchange from going public.                          *)
Placed(r) ==
    /\ ticket'[r] # None
    /\ \/ ticket[r] = None
       \/ ticket[r].dest # ticket'[r].dest

NeverPublicOnceRestricted ==
    [][\A r \in Requests : Placed(r) =>
          LET t == ticket'[r] IN
          \/ t.dest \notin Public
          \/ IF t.scope # None /\ t.gen # 0 THEN ~scopes'[t.scope].private
             ELSE t.ident \notin labels']_vars

(* What the gate vetoed is never in flight to a public destination, after  *)
(* any number of retries.                                                  *)
SensitiveStaysPrivate ==
    \A r \in Requests : ticket[r] # None /\ ticket[r].sensitive => ticket[r].dest \notin Public

(* A session has one exchange at a time, and the slot a request in         *)
(* progress points to still holds the session it was prepared for: no      *)
(* close, registration or new request session took it in between.          *)
OneExchange ==
    /\ \A r \in Requests : ticket[r] # None /\ ticket[r].scope # None =>
          LET s == scopes[ticket[r].scope] IN
          /\ s.inflight /\ s.gen = ticket[r].gen
          /\ s.kind = (IF ticket[r].gen = 0 THEN "request" ELSE "registered")
          /\ s.owner = ticket[r].dest
          /\ \A x \in Requests \ {r} :
                ticket[x] # None => ticket[x].scope # ticket[r].scope
    /\ \A i \in Slots : scopes[i].inflight =>
          \E r \in Requests : ticket[r] # None /\ ticket[r].scope = i

(* A candidate's inflight counter is the number of requests it is serving, *)
(* through retries that move a request and failures that end it.           *)
LoadIsExact ==
    \A c \in Capped :
        load[c] = Cardinality({r \in Requests : ticket[r] # None /\ ticket[r].dest = c})

(* Authority that evidence gave a registered session, and a tool boundary  *)
(* it owes a reply for, end by an explicit close or by its own next        *)
(* request, never because the table was full.                              *)
AuthoritySurvives ==
    [][\A i \in OfKind("registered") : scopes[i].private \/ scopes[i].boundary =>
          \/ scopes'[i] = Free
          \/ /\ scopes'[i].gen = scopes[i].gen
             /\ scopes[i].private => scopes'[i].private]_vars

Same(i) == scopes[i].gen # 0 /\ scopes'[i].gen = scopes[i].gen

Moved(i) == Same(i) /\ scopes[i].owner # None /\ scopes'[i].owner # scopes[i].owner

(* A pinned session leaves its owner only because the owner is cooling or  *)
(* just failed this exchange: neither cost, nor restriction, nor the gate  *)
(* moves a session that cannot be replayed elsewhere.                      *)
PinnedMovesOnlyOffFailure ==
    [][\A i \in Slots : Moved(i) /\ scopes[i].pinned =>
          \/ scopes[i].owner \in cooling
          \/ \E r \in Requests : ticket[r] # None /\ ticket[r].scope = i /\ ticket[r].failed]_vars

(* A session with requirements moves only to a candidate that declares     *)
(* them or to the baseline: neither a private redirection nor a retry      *)
(* strands a tool conversation on a model that cannot continue it.         *)
ToolsNeverStranded ==
    [][\A i \in Slots : Moved(i) /\ scopes'[i].tooled =>
          scopes'[i].owner \in Declaring \cup {Baseline}]_vars
=============================================================================
