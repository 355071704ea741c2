------------------------------- MODULE Evidence -------------------------------
(***************************************************************************)
(* What a harness tells the gateway of a finished exchange, and the advice *)
(* made of it: ingest, poll_locked and the use of advice in prepare        *)
(* (core/src/context/gateway_context.c) over the registry of               *)
(* core/src/context/context.c.                                             *)
(*                                                                         *)
(* An accepted event is evidence about the session's last exchange.  It is *)
(* handed to the interpreter, whose answer comes back at any later moment, *)
(* perhaps when the session has moved on, was told something newer, or was *)
(* closed; the next automatic request may then be placed by that answer.   *)
(* Every handler runs under the gateway's lock and is an action here.      *)
(*                                                                         *)
(* Abstracted: the interpreter is its abstract desk (JobDesk), the ledger  *)
(* its verdict (Attempts shows when that can be trusted), and time: a row, *)
(* a snapshot, a tombstone or a loss window may expire at any moment.      *)
(* A generation has one branch.  The restriction that evidence puts on a   *)
(* session is in GatewaySessions.                                          *)
(***************************************************************************)
EXTENDS Naturals, Sequences, FiniteSets

CONSTANTS
    Slots,           \* EXPLICIT_SCOPES entries of the session table
    Keys,            \* the five attribution headers of a request
    NoKey,           \* of a row whose place has been reclaimed
    Snapshots,       \* RC_CONTEXT_MAX_SLOTS
    Workers,         \* RC_INTERPRETER_CAPACITY
    MaxGenerations,  \* bound: registrations
    MaxRevision,     \* bound: revisions and sequences of a generation
    MaxRows,         \* bound: dispatches
    Events           \* bound: the events that arrive

Generations == 1..MaxGenerations

(* A gap is an event that tells of a loss: one dropped before it, or an    *)
(* invalidation.  An odd one is not what the schema asks for.              *)
Event ==
    [gen: Generations, key: Keys, revision: 1..MaxRevision, sequence: 1..MaxRevision,
     kind: {"response", "tool"}, shape: {"sound", "gap", "odd"}]

Job == [gen: Generations, revision: 1..MaxRevision]

ASSUME EvidenceAssumption ==
    /\ Events \subseteq Event
    /\ NoKey \notin Keys
    /\ IsFiniteSet(Slots) /\ Snapshots \in Nat /\ Workers \in Nat
    /\ MaxGenerations \in Nat /\ MaxRevision \in Nat /\ MaxRows \in Nat

VARIABLES
    scope,     \* the registered sessions
    opened,    \* generations given out
    row,       \* physical attempts, in the order they were dispatched
    loss,      \* what the ledger has lost: "none", "window" or "all"
    registry,  \* the snapshot of each generation
    fate,      \* the interpreter's jobs
    told,      \* history: the events accepted for open sessions, with their rows
    superseded \* history: those of them that a newer event came after

vars == <<scope, opened, row, loss, registry, fate, told, superseded>>

Desk == INSTANCE JobDesk WITH Jobs <- Job, Capacity <- Workers, closing <- FALSE

(* last and evidence index row, 0 for none; advice is the revision of the  *)
(* kept interpretation; advised the one the exchange in flight was placed  *)
(* by.                                                                     *)
Scope ==
    [gen: Generations \cup {0}, inflight: BOOLEAN, last: 0..MaxRows, evidence: 0..MaxRows,
     revision: 0..MaxRevision, sequence: 0..MaxRevision, advice: 0..MaxRevision,
     boundary: BOOLEAN, seen: BOOLEAN, advised: 0..MaxRevision]

Free ==
    [gen |-> 0, inflight |-> FALSE, last |-> 0, evidence |-> 0, revision |-> 0,
     sequence |-> 0, advice |-> 0, boundary |-> FALSE, seen |-> FALSE, advised |-> 0]

Row == [key: Keys \cup {NoKey}, is: {"open", "complete", "failed"},
        source: BOOLEAN, doubt: BOOLEAN, expired: BOOLEAN]

Snapshot == [is: {"none", "live", "closed"}, revision: 0..MaxRevision,
             interpreted: BOOLEAN, expired: BOOLEAN]

NoSnapshot == [is |-> "none", revision |-> 0, interpreted |-> FALSE, expired |-> FALSE]

Tombstone == [NoSnapshot EXCEPT !.is = "closed"]

TypeOK ==
    /\ scope \in [Slots -> Scope] /\ opened \in 0..MaxGenerations
    /\ row \in Seq(Row) /\ Len(row) <= MaxRows
    /\ loss \in {"none", "window", "all"}
    /\ registry \in [Generations -> Snapshot]
    /\ Cardinality({g \in Generations : registry[g].is # "none"}) <= Snapshots
    /\ Desk!JobDeskTypeOK /\ Cardinality(Desk!Outstanding) <= Workers
    /\ told \subseteq [gen: Generations, revision: 1..MaxRevision,
                       kind: {"response", "tool"}, row: 1..MaxRows]
    /\ superseded \subseteq told

Open == {i \in Slots : scope[i].gen # 0}

-----------------------------------------------------------------------------
(* The ledger's verdict on the attempt in a row of rs: the only one of its *)
(* key, completed by both sides, live, and counted in full.                *)
Exact(rs, r) ==
    /\ r # 0 /\ loss # "all"
    /\ rs[r].is = "complete" /\ rs[r].source /\ ~rs[r].doubt /\ ~rs[r].expired
    /\ \A q \in DOMAIN rs \ {r} : rs[q].key # rs[r].key

Doubted == [r \in DOMAIN row |-> [row[r] EXCEPT !.doubt = ~row[r].expired]]

Sourced(k) == [r \in DOMAIN row |->
    IF row[r].key = k /\ ~row[r].expired THEN [row[r] EXCEPT !.source = TRUE] ELSE row[r]]

(* The registry. *)
Stored(g) == registry[g].is = "live" /\ ~registry[g].expired

Puts(g, revision) ==
    \/ registry[g].is = "live" /\ revision > registry[g].revision
    \/ /\ registry[g].is = "none"
       /\ Cardinality({h \in Generations : registry[h].is # "none"}) < Snapshots

Put(g, revision) ==
    [registry EXCEPT ![g] = [NoSnapshot EXCEPT !.is = "live", !.revision = revision]]

MutClosed(g) == registry

(* Closing clears the generation before it looks for room for the          *)
(* tombstone.                                                              *)
Closed(g) ==
    [registry EXCEPT ![g] =
        IF Cardinality({h \in Generations \ {g} : registry[h].is # "none"}) < Snapshots
        THEN Tombstone ELSE NoSnapshot]

-----------------------------------------------------------------------------
(* Answers.  A poll takes the answers that are there, fewer when the       *)
(* interpreter's lock is held.  An answer lands on its own session if the  *)
(* session still rests on the evidence the question was asked of.          *)
Done == {j \in Desk!Outstanding : fate[j].is # "open"}

Lands(i, taken) ==
    \E j \in taken :
        /\ fate[j].is = "valid"
        /\ j.gen = scope[i].gen /\ j.revision = scope[i].revision
        /\ Exact(row, scope[i].evidence)
        /\ Stored(j.gen) /\ registry[j.gen].revision = j.revision
        /\ ~registry[j.gen].interpreted

Landing(taken) == {i \in Open : Lands(i, taken)}

Advised(taken) == [i \in Slots |->
    IF i \in Landing(taken) THEN [scope[i] EXCEPT !.advice = scope[i].revision] ELSE scope[i]]

Interpreted(taken) == [g \in Generations |->
    IF \E i \in Landing(taken) : scope[i].gen = g
    THEN [registry[g] EXCEPT !.interpreted = TRUE] ELSE registry[g]]

Polled(taken) == [j \in Job |-> IF j \in taken THEN [fate[j] EXCEPT !.polled = TRUE] ELSE fate[j]]

Poll(taken) ==
    /\ taken \subseteq Done
    /\ scope' = Advised(taken) /\ registry' = Interpreted(taken) /\ fate' = Polled(taken)
    /\ UNCHANGED <<opened, row, loss, told, superseded>>

Submit(j) ==
    /\ fate[j].is = "new" /\ Cardinality(Desk!Outstanding) < Workers
    /\ Desk!Set(j, "open")

Answer(j) ==
    /\ fate[j].is = "open" /\ \E a \in {"valid", "timeout"} : Desk!Set(j, a)
    /\ UNCHANGED <<scope, opened, row, loss, registry, told, superseded>>

-----------------------------------------------------------------------------
(* Exchanges.  prepare polls, then places the request by the session's     *)
(* advice, unless the request is explicit or pinned or repeats the         *)
(* attribution of another.                                                 *)
MutUsable(s, snapshots) ==
    /\ snapshots[s.gen].is = "live" /\ ~snapshots[s.gen].expired
    /\ snapshots[s.gen].interpreted /\ snapshots[s.gen].revision = s.advice
    /\ Exact(row, s.evidence)

Usable(s, snapshots) ==
    /\ snapshots[s.gen].is = "live" /\ ~snapshots[s.gen].expired
    /\ snapshots[s.gen].interpreted /\ snapshots[s.gen].revision = s.advice
    /\ Exact(row, s.evidence) /\ s.evidence = s.last

Advice(i, k, taken) ==
    IF /\ Usable(Advised(taken)[i], Interpreted(taken))
       /\ \A r \in DOMAIN row : row[r].key # k
    THEN Advised(taken)[i].advice ELSE 0

Prepare(i, k, taken, advice, last) ==
    /\ scope[i].gen # 0 /\ ~scope[i].inflight
    /\ taken \subseteq Done /\ advice \in {0, Advice(i, k, taken)}
    /\ scope' = [Advised(taken) EXCEPT ![i].inflight = TRUE, ![i].last = last,
          ![i].boundary = FALSE, ![i].seen = FALSE, ![i].advised = advice]
    /\ registry' = Interpreted(taken) /\ fate' = Polled(taken)
    /\ UNCHANGED <<opened, told, superseded>>

Dispatch(i, k, taken, advice) ==
    /\ Len(row) < MaxRows
    /\ Prepare(i, k, taken, advice, Len(row) + 1)
    /\ row' = Append(row, [key |-> k, is |-> "open",
          source |-> FALSE, doubt |-> loss = "window", expired |-> FALSE])
    /\ UNCHANGED loss

LosesWindow == row' = Doubted /\ loss' = (IF loss = "all" THEN "all" ELSE "window")

(* No row is left, here or in the ledger, or the attribution is malformed: *)
(* the attempt is lost, and every row it might duplicate with it, before   *)
(* advice is looked for.                                                   *)
DispatchUntracked(i, k, taken) == Prepare(i, k, taken, 0, 0) /\ LosesWindow

(* Only a complete answer leaves a tool boundary to report on. *)
Finish(i, complete, tools) ==
    /\ scope[i].inflight /\ (tools => complete)
    /\ scope' = [scope EXCEPT ![i].inflight = FALSE, ![i].boundary = tools,
                             ![i].advised = 0]
    /\ row' = IF scope[i].last = 0 THEN row
              ELSE [row EXCEPT ![scope[i].last].is = IF complete THEN "complete" ELSE "failed"]
    /\ UNCHANGED <<opened, loss, registry, fate, told, superseded>>

-----------------------------------------------------------------------------
(* Registration.  An open under pressure takes the place of an idle        *)
(* session with no tool call outstanding.                                  *)
OpenScope(i) ==
    /\ opened < MaxGenerations
    /\ opened' = opened + 1
    /\ scope' = [scope EXCEPT ![i] = [Free EXCEPT !.gen = opened + 1]]
    /\ UNCHANGED <<row, loss, fate>>

OpenFree(i) == scope[i].gen = 0 /\ OpenScope(i) /\ UNCHANGED <<registry, told, superseded>>

(* A closed generation is never given out again. *)
Forgets(g) ==
    /\ registry' = Closed(g)
    /\ told' = {e \in told : e.gen # g} /\ superseded' = {e \in superseded : e.gen # g}

OpenReclaimed(i) ==
    /\ Open = Slots /\ ~scope[i].inflight /\ ~scope[i].boundary
    /\ OpenScope(i) /\ Forgets(scope[i].gen)

Close(i) ==
    /\ scope[i].gen # 0 /\ ~scope[i].inflight
    /\ scope' = [scope EXCEPT ![i] = Free] /\ Forgets(scope[i].gen)
    /\ UNCHANGED <<opened, row, loss, fate>>

-----------------------------------------------------------------------------
(* Events.  One handler, by outcome.  A newer revision drops what the      *)
(* session knew before the event is judged, so it does so even if refused. *)
MutHears(i, ev) == scope[i]

Hears(i, ev) ==
    IF ev.revision > scope[i].revision
    THEN [scope[i] EXCEPT !.evidence = 0, !.advice = 0] ELSE scope[i]

Receives(i, ev) ==
    /\ ev \in Events /\ scope[i].gen = ev.gen
    /\ superseded' = superseded \cup {e \in told : e.gen = ev.gen /\ e.revision < ev.revision}

(* The event is about the session's last exchange, over by now, and a tool *)
(* result tells of the call that exchange made (one, here) for the first   *)
(* time.                                                                   *)
Fits(i, ev) ==
    /\ ev.shape = "sound"
    /\ ev.revision > scope[i].revision /\ ev.sequence > scope[i].sequence
    /\ {r \in DOMAIN row : row[r].key = ev.key} = {scope[i].last}
    /\ ~scope[i].inflight /\ row[scope[i].last].is = "complete"
    /\ ev.kind = "tool" => scope[i].boundary /\ ~scope[i].seen

IngestLoss(i, ev) ==
    /\ Receives(i, ev) /\ ev.shape = "gap"
    /\ scope' = [scope EXCEPT ![i] = Hears(i, ev)] /\ loss' = "all"
    /\ UNCHANGED <<opened, row, registry, fate, told>>

IngestRefused(i, ev) ==
    /\ Receives(i, ev) /\ ev.shape # "gap" /\ ~Fits(i, ev)
    /\ scope' = [scope EXCEPT ![i] = Hears(i, ev)]
    /\ UNCHANGED <<opened, row, loss, registry, fate, told>>

(* The receipt completes the source's half of the attempt even when the    *)
(* attempt is not exact or the registry has no room.                       *)
IngestInexact(i, ev) ==
    /\ Receives(i, ev) /\ Fits(i, ev)
    /\ ~Exact(Sourced(ev.key), scope[i].last) \/ ~Puts(ev.gen, ev.revision)
    /\ row' = Sourced(ev.key) /\ scope' = [scope EXCEPT ![i] = Hears(i, ev)]
    /\ UNCHANGED <<opened, loss, registry, fate, told>>

MutTold(s, ev) ==
    [s EXCEPT !.revision = ev.revision, !.sequence = ev.sequence, !.evidence = s.last, !.advice = 0]

Told(s, ev) ==
    [s EXCEPT !.revision = ev.revision, !.sequence = ev.sequence, !.evidence = s.last,
              !.advice = 0, !.seen = @ \/ ev.kind = "tool"]

(* The evidence is kept whether or not the interpreter takes it: a busy    *)
(* interpreter answers 503 and the revision is used up, and evidence with  *)
(* no text is not for the interpreter.                                     *)
IngestAccepted(i, ev) ==
    /\ Receives(i, ev) /\ Fits(i, ev)
    /\ Exact(Sourced(ev.key), scope[i].last) /\ Puts(ev.gen, ev.revision)
    /\ row' = Sourced(ev.key)
    /\ registry' = Put(ev.gen, ev.revision)
    /\ scope' = [scope EXCEPT ![i] = Told(scope[i], ev)]
    /\ told' = told \cup {[gen |-> ev.gen, revision |-> ev.revision,
                           kind |-> ev.kind, row |-> scope[i].last]}
    /\ \/ Submit([gen |-> ev.gen, revision |-> ev.revision])
       \/ UNCHANGED fate
    /\ UNCHANGED <<opened, loss>>

-----------------------------------------------------------------------------
(* A request that is then refused, or belongs to no session, has lost its  *)
(* window all the same.                                                    *)
LoseElsewhere ==
    /\ LosesWindow
    /\ UNCHANGED <<scope, opened, registry, fate, told, superseded>>

(* Rows live equally long; one past its time is exact no more, whatever    *)
(* else was known of it.                                                   *)
ExpireRow(r) ==
    /\ r \in DOMAIN row /\ ~row[r].expired /\ \A q \in 1..(r - 1) : row[q].expired
    /\ row' = [row EXCEPT ![r].expired = TRUE, ![r].source = FALSE, ![r].doubt = FALSE]
    /\ UNCHANGED <<scope, opened, loss, registry, fate, told, superseded>>

(* Under pressure a settled, expired row gives its place back, unless an   *)
(* open session names it or a live row repeats it.                         *)
ReclaimRow(r) ==
    /\ r \in DOMAIN row /\ row[r].expired /\ row[r].is # "open"
    /\ row[r].key # NoKey
    /\ \A i \in Open : scope[i].last # r /\ scope[i].evidence # r
    /\ \A q \in DOMAIN row : row[q].key = row[r].key => row[q].expired
    /\ row' = [row EXCEPT ![r].key = NoKey]
    /\ UNCHANGED <<scope, opened, loss, registry, fate, told, superseded>>

ExpireSnapshot(g) ==
    /\ Stored(g) /\ registry' = [registry EXCEPT ![g].expired = TRUE]
    /\ UNCHANGED <<scope, opened, row, loss, fate, told, superseded>>

ForgetTombstone(g) ==
    /\ registry[g].is = "closed" /\ registry' = [registry EXCEPT ![g] = NoSnapshot]
    /\ UNCHANGED <<scope, opened, row, loss, fate, told, superseded>>

WindowEnds ==
    /\ loss = "window" /\ loss' = "none"
    /\ UNCHANGED <<scope, opened, row, registry, fate, told, superseded>>

Init ==
    /\ scope = [i \in Slots |-> Free] /\ opened = 0
    /\ row = <<>> /\ loss = "none"
    /\ registry = [g \in Generations |-> NoSnapshot]
    /\ fate = [j \in Job |-> [is |-> "new", polled |-> FALSE]]
    /\ told = {} /\ superseded = {}

Session(i) ==
    \/ OpenFree(i) \/ OpenReclaimed(i) \/ Close(i)
    \/ \E k \in Keys, taken \in SUBSET Done :
          \/ \E advice \in 0..MaxRevision : Dispatch(i, k, taken, advice)
          \/ DispatchUntracked(i, k, taken)
    \/ \E complete, tools \in BOOLEAN : Finish(i, complete, tools)

Ingest(i, ev) ==
    IngestLoss(i, ev) \/ IngestRefused(i, ev) \/ IngestInexact(i, ev) \/ IngestAccepted(i, ev)

Time ==
    \/ \E r \in 1..MaxRows : ExpireRow(r) \/ ReclaimRow(r)
    \/ \E g \in Generations : ExpireSnapshot(g) \/ ForgetTombstone(g)
    \/ WindowEnds \/ LoseElsewhere

Next ==
    \/ \E i \in Slots : Session(i)
    \/ \E i \in Slots, ev \in Events : Ingest(i, ev)
    \/ \E taken \in SUBSET Done : Poll(taken)
    \/ \E j \in Job : Answer(j)
    \/ Time

Spec == Init /\ [][Next]_vars

-----------------------------------------------------------------------------
(* Placed(i, v): a request of session i is placed by the answer to its     *)
(* evidence v.                                                             *)
Placed(i, v) == ~scope[i].inflight /\ scope'[i].inflight /\ scope'[i].advised = v /\ v # 0

(* Advice is used only for the exchange right after the one it is about:   *)
(* the interpreter answered that very evidence, the evidence was about the *)
(* session's last dispatch, however explicit or failed, and no other       *)
(* attempt can be taken for that one.                                      *)
AdviceIsAboutLastTurn ==
    [][\A i \in Slots, v \in 1..MaxRevision : Placed(i, v) =>
          /\ \E e \in told : e.gen = scope[i].gen /\ e.revision = v /\ e.row = scope[i].last
          /\ fate[[gen |-> scope[i].gen, revision |-> v]].is = "valid"
          /\ \A r \in DOMAIN row : row[r].key = row[scope[i].last].key => r = scope[i].last]_vars

(* A newer event revokes older advice, whether it was accepted or refused  *)
(* and even if the answer comes after it ("A rejected newer scoped event   *)
(* revokes older advice", docs/m3-gateway-wire-contract.md:286).           *)
NewerWordRevokes ==
    [][\A i \in Slots, v \in 1..MaxRevision :
          Placed(i, v) => \A e \in superseded : e.gen = scope[i].gen => e.revision # v]_vars

(* One tool call is reported once, whatever revisions repeat it. *)
ToolResultOnce ==
    \A e, f \in told : e.kind = "tool" /\ f.kind = "tool" /\ e.row = f.row => e = f

(* The registry keeps snapshots of open sessions only: closing or          *)
(* reclaiming one gives its place back.                                    *)
RegistryIsOwned ==
    \A g \in Generations : registry[g].is = "live" => \E i \in Slots : scope[i].gen = g
=============================================================================
