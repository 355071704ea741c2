# A TLA+ model of Recursant

Recursant is a router between AI agents and the models that answer them. Each
chat request is scanned for personal data, classified, given a model, sent,
perhaps retried on another model, and its answer recorded in the session it
belongs to. This directory models the parts of `core/src` in which those steps
meet: threads, tables of fixed size, retries, incremental parsers, budgets, the
configuration they all rest on, and a privacy gate that must hold through all
of them. Definitions keep the names of the C code where that helps;
`PROJECT.json` ("map") gives the source lines of each.

## 1. Inventory

| Component | State it keeps | Operations | Interacts with | Hard because |
|---|---|---|---|---|
| Attempt ledger `context/attempts.c` | bounded table of attempts, serial, clock, loss window, loss flag | begin, finish, source_complete, get, capacity, lost, lost_at | gateway (serialized by its lock) | rows are dropped, refused or never seen, yet "exact" must stay true |
| Gateway sessions `context/gateway_context.c` | scopes, labels, per-candidate load, health, mirror rows | prepare, outcome, failover, finish; open, close, hint, context | every HTTP thread, ledger, gate, interpreter, selector | one table under pressure; a request spans several critical sections |
| Placement `gateway_context.c` prepare and shadow | breaker, minute, session spend, sampler | class, judge, choice, budgets, copy | signals, selector, cost, judge | the lock is released around the judge; money is known only at the end |
| Signals `context/signals.c` | none | what a history says of the turn | placement | one backwards walk with several counters and a window |
| Selector and cost `selector.c`, `cost.c` | none | the candidate of a turn | placement | one pass, three tie rules, saturating arithmetic |
| Evidence `gateway_context.c` ingest/poll, `context/context.c` | revision, sequence, snapshot and tombstones per generation | put, interpret, get, close | interpreter, ledger | late and reordered answers |
| Interpreter `context/interpreter.c` | slots, mutex, condition, stop and epoch atomics | submit, poll, cancel, destroy; worker thread | gateway, private model | cancellation against completion, lost wake-ups |
| HTTP relay `http/router.c` | per-request ring, flags, two threads | handle, header, receive, progress, read_response, completed | libmicrohttpd, libcurl, gateway | two threads, one condition, retries that reuse the state |
| Response observer, stream tools | parser state per answer | feed, message, reasoning | relay, gateway's finish | a message arrives in pieces of several calls at once |
| Tool boundary `tool_boundary.c` | captured history, calls, thinking | capture, replay | gateway's prepare | the next request proves its own identity |
| Compliance `compliance/*.c`, `providers/adapters.c` | record of public output, per-thread memo | memo_begin, gate, record_public_output | gateway, relay | scan and use are separated; the object changes on the way |
| Configuration `config.c`, `runtime.c`, `validate.c` | what a document means | load, validate, resolve a name, check secrets | everything, at start | two document forms, two loaders, two environments |
| Command line `cli/*.c` | configuration, backups, key file, unit | configure, install, start, stop, restart, uninstall | configuration, daemon | a command is many file steps and may end between any two |
| Tracer `http/tracer.c`, `auth.c`, `admission.c` | token table, limits, connection counter | accept, admit, forward, relay | clients, upstream | a thread per connection over one counter; framing cut anywhere |
| Identifiers, encoder, Hermes adapter, bench | | | | section 6 |

What makes each correct, in one sentence: the ledger never calls an attempt
exact that could be confused with another; the gateway never sends restricted
content or a restricted session to a public model, keeps one exchange per
session and moves a session only where it can continue; placement chooses what
its headers promise and no race passes a budget, though a failover may; the
interpreter gives each job one fate and never blocks its owner; the relay
reports an answer whole only if it was, and releases every request; what the
observer keeps is the message that was sent, and only its continuation
continues it; the gate lets nothing out that it did not clear; a name means one
thing under any configuration that is written; the tracer admits no more than
its limit and loses no slot of a client it answers.

The hazards, each at the line where it bites and with the property that would
catch it, are in `PROJECT.json` ("hazards").

## 2. The modules

    Attempts ── MCAttempts                AttemptsProofs
    GatewaySessions ── MCGateway          GatewayProofs
    Signals, Selection <── Placement ── MCPlacement     PlacementProofs
    ToolBoundary <── Stream ── MCStream
    JobDesk <── refined by ── Interpreter ── MCInterpreter    InterpreterProofs
    Evidence ── MCEvidence                EvidenceProofs   (the interpreter in it is JobDesk)
    Relay ── MCRelay                      RelayProofs
    Compliance ── MCCompliance            ComplianceProofs
    Registry <── Setup ── MCSetup
    StrictConfig <── Admission <── Tracer ── MCTracer   TracerProofs

(`<──` reads "is extended by". Each `...Proofs` module extends the component's
module and holds its theorems.)

**Attempts** — `attempts.c`. All calls are serialized by the gateway lock, so
an action is a call. The table is a set of rows (its order is never observed);
`accepted` is a history of every physical attempt, including those the ledger
could not record, against which the properties judge what it claims. `Begin` is
split by outcome: exhausted serial, clock gone back, overflow, unusable
headers, full table, tracked. Top of the integer range is `MaxTime` and
`MaxSerial`, small in the run so that it is met.

**GatewaySessions** — `gateway_context.c`. A slot is free, a registered session
or a request-stream session. `Prepare` (one critical section: `Prepare*`, then
`Serve`, then `Dispatch` or `Refuse`) issues a ticket; `Fail` and `Failover` are
the two lock sections of a retry, `Finish` ends the exchange. Between them any
other request, hint, evidence, open, close or idle expiry may run, which is the
point of the module. Contents are inputs: whether a request is sensitive, uses
tools, continues or breaks its session; how an answer ended. Which permitted
candidate selection takes is a free choice (`Selectable`, `FailoverTargets`),
so what is shown holds for any scoring. A refused prepare keeps the changes it
made before the refusal, as the code does.

**Placement**, over **Signals** and **Selection** — the other half of
`prepare`. `rc_signals_classify` walks a history newest first with the counters
of the code (`Walk`, a fold), and `Contract` says what `signals.h` promises
without walking; `rc_select` is the one pass of the code (`Better`), and `Meets`
says which candidates `selector.h` allows. In `Placement` a request is a record
its thread carries through the lock regions: `AskLabel` and `AskBreaker`, then
the judge outside the lock (`Answer`), `Count` for the breaker, `Prepare` for
the minute, the choice and the budget, `Mirror` for the shadow sampler,
`Failover` for a failed exchange, which moves to another model without asking
what the session may still spend, and `Finish`, which charges the model that
served in the end. `floor` is `context_floor`, the window that an overflowing
model was too small for and later turns must have. The detached shadow thread
is `Settle`. Arguments of a message are
what `signals.c` tells apart (JSON or prose, an error, an exit code, markers).
A session with an exchange in progress serves a second request without a
session and on the baseline (`Busy`).

**Stream**, over **ToolBoundary** — one turn of an unpinned session. An event
of the wire is fed to the observer (`event`, `chunk`, `rc_stream_tools_feed`,
`reasoning_add`), `rc_gateway_finish` decides what the session keeps, and `Ask`
is the next request, replayed against it (`replay_tree`). The text of a
message is a short sequence of tokens, so that concatenation, prefix and JSON
equality keep their meaning; its bytes are counted as the code counts them,
each part of a call once (`Size`) and the message as it is encoded, escapes
included (`Encoded`). `Said` reads the answer off the whole wire at
once, independently of the parser.

**Interpreter** and **JobDesk** — `interpreter.c` and the promises of
`interpreter.h`. The worker is modelled lock by lock: it holds the mutex from
its test of `stop` through its scan, waits, copies a slot, works without the
mutex and publishes by index. `cancel` is two steps (epoch, then the critical
section), `destroy` three. `JobDesk` has no threads: a job has one fate and
cancel is one step. The mapping (`FateOf`) calls a job cancelled from the
moment its epoch is past, which is before the slot says so; that early point is
where the two agree.

**Relay** — `router.c`. The connection thread (`Connection`) and the upstream
thread (`Upstream`) share a ring, flags and one condition variable. `waiting`
holds the sleepers; only `Broadcast` or the deadline wakes them. Bytes are
counted. The gateway is external here: its failover may or may not find a
target, its finish is idempotent as in `rc_gateway_finish`.

**Compliance** — `classifier.c`, `provenance.c`, `adapters.c`. One request is
asked, scanned into the thread's memo in two readings (content, then structure,
which consults the shared record), gated, dispatched, perhaps retried, finished.
Other requests add to and evict from the record at any time (`Others`). A body
is a record of what the code's branches tell apart: matching text, structure
the scanner cannot inspect, its cost in scan nodes, the reasoning values it
replays, and the fields that the decoration, the redirect and the reasoning
effort change. `Decorated` and `Restored` follow the adapter and the redirect
field by field.

**Evidence** — `ingest`, `poll_locked` and the use of advice in `prepare`, with
`context.c`. An event from the harness is about the session's last exchange;
once accepted it is a question to the interpreter, which here is `JobDesk`, the
specification `Interpreter` implements. Its answer may come after a newer event,
after another dispatch, or after the session closed. `ingest` is four actions by
outcome (loss, refused, inexact, accepted), since a refusal too changes state:
a higher revision drops evidence and advice before the event is judged. Rows are
in dispatch order and carry what the ledger knows of them; time is a set of
actions by which a row, a snapshot, a tombstone or a loss window ends at any
moment. `told` and `superseded` are histories of accepted events.

**Setup**, over **Registry** — `cli.c` and `configure.c` over `runtime.c`.
`Registry` is what a document means: `Loads` (the router's loader, both forms),
`Served` (what a requested name resolves to), `Secrets`, the edits of
`configure` (`Apply`) and `to_registry`, the conversion to the providers form.
`Setup` runs the commands as the file steps they take (`Save` writes the scratch
file, which all commands share, `Validate` checks it, `Backup`, `Write`,
`Store`), each of which an interrupt or a step of another operator may follow. systemd is external: it starts the daemon if the daemon
would accept its configuration and environment.

**Tracer**, over **Admission** and **StrictConfig** — `tracer.c` with `auth.c`,
`admission.c`, `config.c` and `validate.c`. `Boot` is `main` up to the listener;
`Accept` and `Thread` are the accept loop, and every connection then has a place
and locals of its own (`conn`), sharing only `g_active`. A request is what
`read_head` and `parse_request_head` make of it; an answer is its framing and
the tokens of its body, cut by `Read` at any place and followed by `Tracked`,
the chunk tracker. `gone` holds clients that left; `Probe` is the only way a
waiting relay learns of it. A thread that sends waits for its peer: for the
upstream while it holds a piece of the body, for the client while it holds one
of the answer.

## 3. The runs

| Run | Bounds | Shows |
|---|---|---|
| `Attempts` | 2 keys, 2 rows, TTL 2, clock 0..5, 3 attempts | uniqueness of exact attempts, known counts cover everything, doubt never heals |
| `Sessions` | 2 slots (1 registered), 1 identity with a label, 3 candidates (one with capacity 1), 2 requests in progress, 1 retry, 2 generations; a history is about restriction (one generation, cooldowns with none) or about continuity (tools and opaque answers; cooldowns with one generation) | labels bind; sensitive content and restricted sessions never placed public; one exchange per session, loads match tickets, authority survives reclaim, pins and tools respected |
| `Placement` | three loads: one request with any history of up to 4 messages of 9 kinds (longer than two only if a result ends it); one request over any three candidates of 3 prices, 2 limits and 3 qualifications; 4 competing requests of 2 threads and 1 session with budget 3, rate 3, one shadow in flight, a breaker of 2 failures and 1 failover a request | class and choice are what the headers promise; the shadow budget holds and only failover spends past a session's; a labelled session stays home |
| `Stream` | 4 kinds of request and adapter, 20 kinds of event, up to 4 events before the finish and 7 in all (a comment among the first four), 2 calls, 190 bytes for calls and for the encoded message (a call is 66 of them), 2 of thinking; 66 next requests for each answer | the message kept is the message sent; documented streams are understood; only the continuation continues |
| `Interpreter` | 2 slots, 3 jobs, 2 cancels, fair | refines `JobDesk`; destroy returns; the queue moves |
| `Evidence` | 1 session, 2 generations, 3 keys, 3 dispatches, revisions to 2, registry of 1, interpreter of 1; with two rows one of reopening, loss and expiry at a time, with three none | newer events revoke advice; advice is about the exchange just before; one report per tool call; closed sessions hold no place |
| `Relay` | ring 3, body 7, 2 retries, fair | whole means whole, safe release, invisible retries, every request ends |
| `Compliance` | 3 values (two of size 1, one of 2) in a record of 2 entries and 2 bytes, scan budget 3, 3 candidates, 1 retry | what is public was cleared; the memo is the scan |
| `Setup` | 1 operator, 2 edits of 18 kinds, 2 seconds, 5 starting states in both forms | what a save replaces is kept; names mean one thing; conversion changes no meaning |
| `Tracer` | 2 connections (the cap), a limit of 1 or no policy, 12 starts, 8 environments, 11 requests, 7 answers (the chunked one of one chunk), fair | a checked document starts; admission holds its limit; whole answers arrive whole; a gone client frees its slot unless the upstream takes nothing more of its body |
| `FailoverDecoration` | those of `Compliance` | a violation: section 5 |
| `SharedCheck` | those of `Setup`, 2 operators | a violation: section 5 |

Why the bounds suffice. *Attempts*: loss needs a full table, a dropped row and
a later attempt of the same key, which is three attempts on two rows; a clock of
more than twice the time to live lets a row expire, be dropped, and a window end.
*Gateway*: two requests are enough for any hazard between a request and one other
actor, and two slots with one per kind make every table full; more retries add
nothing to one because a retry keeps no state of the previous but the ticket.
*Placement*: four messages hold two failures with something between them, a
window of three that fills, and two rejections; ties need three candidates at
most, since the pass compares two at a time; four requests spend a budget of
three with answers of up to two, fail the judge twice, fill a minute of three
and start a second shadow on a cap of one. *Stream*: four events hold a split
call, an interleaved second one and thinking; seven add finish, repetition,
accounting and the end. *Interpreter*: two slots hold a running and a queued
job, three jobs reuse a slot. *Relay*: a body of more than two rings fills,
drains and wraps. *Compliance*: the large value evicts two small ones, and a
budget of three is exhausted exactly and by one. *Evidence*: two generations
meet on a registry of one place, so that a closed one can crowd out its
successor; advice that is one exchange too old takes three dispatches with
three keys. A second session would share only the registry and the interpreter,
which the second generation stands for; what `Bounded` leaves out are
combinations: a lost window or an expired row only ever stops advice, so each
is met alone once two rows are there. *Setup*: one edit may undo or
break what another made, and two saves fall in one second or in two. *Tracer*:
two connections race for a limit of one; every token of every answer is a place
to cut it, and longer sizes and more chunks are the theorem's (section 4). Runs
are kept to some ten million generated states, so that none takes more than a
minute.

Deadlock is checked except where the system really stops or the bound ends it:
the interpreter is destroyed (`Interpreter`), the request freed (`Relay`),
all requests of the load served (`Placement`), the conversation's next request
answered or the session pinned (`Stream`), the operator out of edits and seconds
with a command refused (`Setup`), the process refused to start (`Tracer`).

Fairness, where used. *Relay*: both threads run (`WF` of `Connection` and of
`Upstream`) and a transfer ends (`WF` of `Finish`: curl is given
`CURLOPT_TIMEOUT`, router.c:133); the deadline and the client's departure are
never promised. *Interpreter*: the worker runs, a call the owner has begun
returns, the gateway polls for ever, and a deadline passes; nothing makes the
owner submit, cancel or destroy. *Tracer*: each connection's own steps (`Own`):
its thread runs, connecting ends, and a receive times out where one is set, on
the client before and in the body and on the upstream before the answer's head.
Sockets have no timeout for sending (tracer.c:85-88), so nothing makes a peer
take what it is sent; and once an answer has begun nothing makes the upstream
say more, since the relay then polls without a timeout. `GoneClientFreesSlot`
therefore makes one exception, an upstream that never takes the piece it is
being sent; without it the run finds a client whose slot is never freed. The other runs check safety only.

Symmetry is used in runs without liveness: over keys in `Attempts` and
`Evidence`, over threads in `Placement`, and over slots and requests in the
gateway's; the code's choice of the lowest free slot is modelled as any slot,
which the properties cannot tell apart.

## 4. What is proved

Eight modules hold proofs; `PROJECT.json` ("theorems") lists the results. All
hold for every value of the constants that satisfies the named assumptions,
which TLC evaluates on the instances of section 3. They say only that the
constants have their types and what a configuration that was loaded ensures
(`LoadsAssumption`: no alias is given twice, prices are numbers;
`SecretsAssumption`: a project names its variable; `AnswersAssumption`: a
length that is passed on is not negative; `ChunksAssumption`: no chunk but the
last is empty).

`GatewayProofs`, for every table, set of candidates, number of requests and of
retries, from `GatewayAssumption` and `TicketAssumption`: the four invariants
of the table, `LabelsReach` (`LabelsBind`), `GateHolds`
(`SensitiveStaysPrivate`), `Exchanges` (`OneExchange`) and `LoadsAreExact`
(`LoadIsExact`), and its four action properties, `RestrictionBinds`
(`NeverPublicOnceRestricted`), `AuthorityIsKept` (`AuthoritySurvives`),
`PinsHold` (`PinnedMovesOnlyOffFailure`) and `ToolsAreKept`
(`ToolsNeverStranded`). None of the four invariants is inductive alone: a
finish gives back the counter its ticket names, so the invariant says that
ticket, slot and counter belong together (`Attributed`); and a registered
session is told by a generation that was issued once (`Kinds`), which is how a
ticket recognises that its slot has been reclaimed under it. `Given` is what
prepare has in hand between its branches (continued, new, reclaimed) and
`Dispatch`, so that each branch is examined once; `ExchangeKeeps` and
`LoadKeeps` are shared by dispatch, failure, failover and finish. The action
properties need no further invariant, only what a step may do to a registered
session (`RegisteredSteps`: it is left alone, closed, reclaimed, served or
retried).

`EvidenceProofs`, for any number of sessions, keys, snapshots and jobs, from
`EvidenceAssumption`: `ToolsToldOnce` (`ToolResultOnce`), `SnapshotsAreOwned`
(`RegistryIsOwned`), `OlderWordIsRevoked` (`NewerWordRevokes`), `AdviceFollows`
(`AdviceIsAboutLastTurn`). Advice is read from the session alone, so the
invariant ties it to the past: valid advice is the answer to the session's
latest evidence, that evidence was told of the row it names, and no later event
was heard (`AdviceRests`); a tool result once told is remembered until the next
row (`SeenIsKept`); generations and rows are of one session (`Issued`,
`RowsApart`). It is kept because each step is one of four kinds (`StepIs`): an
exchange begins, a session is opened or closed, an event is heard, or sessions
only learn answers to what they asked.

`AttemptsProofs`, for every set of keys, capacity, time to live and bound on
the clock, from `AttemptsAssumption` only: `CountIsKnown` (`KnownCountCovers`),
`ExactnessIsSound` (`ExactIsUnique`) and `DoubtIsLasting` (`DoubtNeverHeals`).
`ExactIsUnique` is not inductive: it speaks of attempts the table no longer
holds. The invariant (`IInv`) adds what the table must remember of them.
`RowsRecorded` and `SerialsDistinct` tie rows to the history; `Accounted` says
that, unless the generation is lost, every attempt is *retained* as a row,
*windowed* by the loss window, or *outlived*, meaning that every live row of its
key began after it had expired. Reclaim keeps `Accounted` because it drops a
row only when expired and when no live row has its key; a refused row keeps it
by opening a window; a clock that goes back keeps it by losing the generation.
A count that claims to be known excludes lost and windowed, and an overlapping
attempt cannot be outlived, so it is retained and counted. For doubt, every
step keeps its three causes (`DoubtKept`): the loss and its window only grow, a
failure stays, and the other row of an ambiguous key is dropped only if both
rows may be.

`ComplianceProofs`, for every record size, budget and set of candidates:
`RecordHoldsPublic` (`RecordIsPublic`), `Clearance` (`PublicIsCleared`) and
`MemoAgrees` (`MemoIsFaithful`). The invariant says the record is a subset of
what public candidates have said, a memo with a clean structural half had only
such values, and a body in flight to a public candidate has what the gate's
checks established. It is needed because the record may change between the
memo's reading and the gate: what was once said in public stays said although
the record forgets it. For the memo's agreement, `MemoIsExact` says what each of
its two halves holds of an object that replays no reasoning.

`PlacementProofs`, for any number of threads and sessions, any registry, prices
and requests, from `PlacementAssumption`, `SelectionAssumption`,
`SignalsAssumption` and `LoadsAssumption`.
*Money*: `SessionBudget` (`OverrunOnlyByFailover`) and `ShadowBudget`
(`ShadowWithinCap`). A session's sum says nothing of what is still being spent,
so the invariant adds it: at most one thread serves a session (`Exclusive`), and
an exchange that failover has not moved began below the cap or costs nothing
(`Funded`). The shadow's
bound is inductive once it counts what is in flight at its largest price.
*Labels*: `LabelHolds` (`LabelledStaysHome`); a request that found its session
labelled still does, and never gets as far as the judge (`Homed`).
*Algorithms*: `SelectorMeetsContract` (`ChoiceIsContract`) and
`ClassMeetsContract` (`ClassIsContract`). Both loops are folds. A fold is
unfolded to the recursive function that defines it (`PassUnfolds`,
`WalkUnfolds`); a closed form says what the loop has found of any set of places
(`Best`; `Summary`) and is shown to satisfy the recursion step by step
(`BestStep`, `SummaryStep`), so the recursion has a solution; two solutions
are equal, by the least set on which they differ (`SameFold`). That the closed
form is what the header promises is then a statement about sets: the best of
the eligible candidates for the selector; for the classifier, that the places
the walk looked at before it stopped are those within the window (`ScanIs`,
`NewestCount`), and that its running count reaches two exactly when there are
two failures in a row (`StreakIs`).

`TracerProofs`, for any set of connections and any limits: `SlotsAreExact` (the
counter equals the number of connections being served) and `AdmissionBound`
(`AdmittedWithinLimit`), from `ConnsAssumption` and `NumbersAssumption`. An
admitted connection was admitted on a counter that included all admitted before
it, because each is counted from `Accept` to `Finish`; so the bound follows from
the counter's exactness at the moment of the last admission, although the
reading and the count are not one step. `ValidStarts` (`CheckedStarts`), from
`SecretsAssumption`: what the validator clears has every token the tracer looks
for (`ClearedHasTokens`), although each finds them with code of its own.
`CutsDoNotMatter` and `WholeAnswers` (`WholeAnswerRelayed`), from
`AnswersAssumption` and `ChunksAssumption`, for answers of any length, and
well-formed ones of any number of chunks of any size, however the size is
written (in up to fifteen digits, which a `long` holds; the code checks no
more), with or without an extension. `FoldLeft` is where a run of the tracker
ends (`FoldIsRun`), any two runs over a sequence agree (`RunsAgree`), so a run
may be cut anywhere (`FedInPieces`). Digits lead to the number they stand for
(`SizeLeads`), that much data leads to its end (`DataLeads`), and so on through
the parts of a chunk, which chain (`LeadsJoin`, `ChunkLeads`, `ChunksLead`); so
an encoding is framed: no token of it is an error, and the tracker is content
with all but the last and not before (`EncodingFrames`). The invariant
(`Relays`) says of a relay under way that the tracker is where feeding all that
was read at once had left it, and that what the client has is no whole answer
yet. Here the attempt corrected the property: an answer without a body is owed
its head only, so that a client who leaves on the head has all of the body; the
run now holds such an answer.

`RelayProofs`, for every size of ring and body and every number of retries,
from `RelayAssumption`: `AnswerIsWhole` (`CompleteIsWhole`), `ReleaseIsSafe`
(`FreedIsSafe`) and `RetriesAreInvisible` (`RetryIsInvisible`). Each of the two
threads acts on flags the other wrote some time ago, so the invariant says what
a flag still means: bytes in the ring, read and pushed balance (`Balanced`);
nothing is known of an exchange before its first header line, so what a retry
resets was never seen (`Fresh`, `Heard`); `done` is the worker's last word
(`Last`); and where the connection's thread stands tells what it saw and what
it has settled (`Seen`, `Verdict`). An answer is whole because `done` without
`failed` is set when all that was offered has been pushed, and the end is
reported only once the ring is empty.

`InterpreterProofs`, for any number of slots, jobs and cancels, from
`InterpreterAssumption`: `Implements` (`ImplementsDesk`), the refinement. Its
invariant says that a job is in one slot and nowhere once delivered
(`OneHolder`), that the worker's index and copied epoch are those of the one
running slot (`Working`), and that whatever was submitted before a cancel is
past: all of it while the owner waits for the mutex, afterwards only the
running job and answers already turned into cancellations (`Epochs`). Then each
action is one step of `JobDesk` or none: the epoch's increment is `Cancel`, and
the critical section after it changes nothing the desk sees; publishing is
`Answer`, `Interrupt`, or nothing if the job is past. A free slot is room at the
desk because jobs inject into the slots that are not free (`Room`).

Left to TLC.
* Liveness (`EveryRequestEnds`, `DestroyReturns`, `QueueMoves`,
  `GoneClientFreesSlot`), which is outside the prover.
* `MessageIsWhole`, `DocumentedIsHeard` and `ContinuesExactly` of `Stream`: they
  compare a parser with a reading of the whole wire, over sequences of tokens
  that both build, and would need induction over those sequences.
* `PreviousIsKept`, `NamesResolveOnce` and `ConversionKeepsMeaning` of `Setup`:
  the last two compare what two documents
  mean, field by field, over documents that the run enumerates.
* `EgressDecorated` and `InvalidNeverWritten` are violated (section 5).

`TypeOK` is part of the invariant that is proved in `Attempts`,
`GatewaySessions`, `Evidence`, `Relay` and `Interpreter`; in `Compliance` it is
stated for the reader.

## 5. Where code and documents disagree

* `FailoverDecoration`: failover changes only the model of the object it sends
  (gateway_context.c:1176), and the decoration went to the probe copy
  (843-851); adapters.c:5 says silent fallback is forbidden to OpenRouter.
* `SharedCheck`: `configure` checks `config.json.check`, a file all commands
  share, and then writes the text it holds itself (configure.c:334); of two
  commands at once, one may pass on what the other wrote and write what the
  daemon refuses. configure.c:27 says an invalid result is never written. Alone
  a command writes what it checked. Likewise the backup of one may be of what
  the other has not yet replaced, so `Setup` runs one operator.

Seen while modelling, with no run of their own.

* A label binds request-stream sessions only (gateway_context.c:523, 935-937);
  docs/m3-request-sessions.md:109-112 says every later request with that
  session id is private.
* Failover and health do move a pinned session (gateway_context.c:1211-1226,
  1605), as the comment at 1211 intends; the comment at 129 still says they
  never do.
* The interpreter serves its slots lowest first and looks at a deadline only
  once the slot is served (interpreter.c:265, 219); interpreter.h:12 says the
  deadline includes queue time.
* The redirect of classifier.c:399-403 restores `provider` only, so a cache
  breakpoint the decoration added stays on the object sent to the private model;
  the comment at classifier.c:211-214 says strings of known reasoning are still
  scanned, while `scan` skips them (167-172).
* At its cap a session is placed on candidates of price zero only
  (docs/m3-request-sessions.md:289-292), but failover may move the exchange to a
  priced one (gateway_context.c:1205-1233) and finish charges it (1697-1702).
  So each turn whose free model fails may add to what is over, without a bound;
  `OverrunOnlyByFailover` says that nothing else does.
* A thread of the tracer that sends the body to an upstream which has stopped
  reading stays in `send` for good (tracer.c:90-102, 660), whatever its client
  does, and keeps one of the slots.
* `restart` checks secrets in the caller's environment joined with recursant.env
  (cli.c:654), the daemon then starts with recursant.env alone; a key exported
  only in the shell passes the check and stops a serving daemon (README.md:146).
* The efficiency model adds a downshift without asking whether a failed result
  is in the window (gateway_context.c:1443-1449); signals.h says optional
  advisors must not downshift such a turn.
* tracer.c's `build_downstream_head` copies the upstream's blank line before it
  appends `Connection: close`, so that line begins the body, and it drops
  `Transfer-Encoding` while the chunk framing is forwarded (342-414).
* The tracer's admission comes before identity once the limit is passed, so a
  caller without credentials is answered for overload (admission.c:11-13 says
  identity is first), and the answer is 400. Without `--config` the limit given
  with `--max-inflight` is not enforced; a configured limit of 0 becomes 64.
* `recursant-validate` finds only the endpoints' key variables in its table
  (validate.c:94-104), so a document whose project has a token variable of its
  own is reported invalid although the tracer starts with it; and validate.c:3-4
  calls its parser the router's, while the router reads runtime.c's forms.
* The chunk tracker is content with the CR of the last CR LF, and refuses
  trailers.

## 6. Not modelled

* Pattern matching, identifier checksums, the encoder, the word-piece tables
  (a third of the implementation's lines), token prices as decimals: pure,
  numeric or generated. A body's verdict and a prompt's score are inputs.
* In `Placement`: slots, pins and health (they are `GatewaySessions`');
  `session_requests`; usage that a provider does not report, which the code too
  leaves out of the sum; a request without a session, which the code serves on
  the baseline outside any budget. The judge is absent from default builds
  (`RC_WITH_JUDGE`).
* Reasoning effort, the tool report and metrics as gateway state; the reuse of
  a mirror row's index (`Evidence` gives back its key; the ledger behind is in
  `Attempts`).
* The split of bytes into events (`sse.c`) and nesting limits of JSON.
* Body upload, router listener, static pages; a wall clock that steps back and
  so postpones the relay's deadline; the header lines the tracer passes on, and
  the constant time of its comparison.
* The JSON parser, adapters' and patterns' names and the limits in `Registry`,
  the catalog's fetch, network interfaces, menus, status and tables,
  `--no-secrets` and an unreadable key file; `Store` writes all keys in one step.
* The Hermes adapter (Python), bench and installer.

## 7. Plan

Done, in this order of importance: restriction and continuity of sessions, the
gate, the ledger, the relay, the interpreter, evidence; then placement, the
stream and its boundary, the tracer, configuration and command line.

1. `Bridge`: the Hermes adapter that produces the events `Evidence` receives
   (queue, sequence, drop count, one worker, close), composed with it, so that
   events come in the order and with the losses the adapter allows. Property:
   the accepted events of a session have no unreported gap.
2. `Stream` composed with `GatewaySessions` in place of its free verdicts, and
   the row indices of the mirror, which need the table as an array.
3. Proofs: `PreviousIsKept` of `Setup`, which is about the order of file steps.
