-------------------------------- MODULE Relay --------------------------------
(***************************************************************************)
(* One request through the router: core/src/http/router.c.                 *)
(*                                                                         *)
(* Two threads share a request: the connection's thread (handle, then      *)
(* read_response once per chunk, then completed) and the worker that runs  *)
(* the upstream transfer (its curl callbacks header, receive and progress, *)
(* then its end).  They meet at one mutex, one condition variable and a    *)
(* ring of bytes.  Each critical section is one action; a wait on the      *)
(* condition is a state that only a broadcast or the deadline ends.        *)
(*                                                                         *)
(* Abstracted: bytes are counted, statuses are in four classes, the        *)
(* gateway's verdicts (prepare, failover) are free choices, and the        *)
(* deadline may pass at any time.                                          *)
(***************************************************************************)
EXTENDS Naturals

CONSTANTS
    QueueSize,    \* QUEUE_SIZE, the ring
    BodySize,     \* bound: bytes of a response body
    MaxRetries    \* context.health max_retries

ASSUME RelayAssumption ==
    QueueSize \in Nat \ {0} /\ BodySize \in Nat /\ MaxRetries \in Nat

VARIABLES
    phase,       \* the connection's thread
    worker,      \* the upstream thread
    status,      \* class of the upstream status
    headers, done, failed, cancel,
    count,       \* bytes in the ring
    offered,     \* bytes curl has handed to receive in this exchange
    pushed,      \* of those, bytes put into the ring
    read,        \* bytes given to the client
    attempt,
    waiting,     \* threads asleep on the condition
    expired,     \* the deadline has passed
    gone,        \* the client's connection is broken
    ticket       \* the gateway's record of the exchange

conn == <<phase, attempt, read, expired, gone>>
flags == <<status, headers, done, failed, cancel>>
ring == <<count, offered, pushed>>
vars == <<conn, flags, ring, worker, waiting, ticket>>

Phases == {"prepare", "launch", "await", "overflow", "retry", "stream",
           "ended", "broken", "join", "freed"}

TypeOK ==
    /\ phase \in Phases
    /\ worker \in {"none", "transfer", "body", "receive", "aborted", "exited"}
    /\ status \in {"none", "ok", "badRequest", "transient", "refused"}
    /\ headers \in BOOLEAN /\ done \in BOOLEAN /\ failed \in BOOLEAN /\ cancel \in BOOLEAN
    /\ count \in 0..QueueSize
    /\ offered \in 0..BodySize /\ pushed \in 0..BodySize /\ read \in 0..BodySize
    /\ attempt \in 0..MaxRetries
    /\ waiting \subseteq {"conn", "worker"}
    /\ expired \in BOOLEAN /\ gone \in BOOLEAN
    /\ ticket \in {"none", "begun", "complete", "incomplete"}

MutBroadcast == waiting' = waiting

Broadcast == waiting' = {}

Awake(thread) == thread \notin waiting

(* The gateway finishes a ticket once; later calls find it finished. *)
GatewayFinish(complete) ==
    ticket' = IF ticket # "begun" THEN ticket
              ELSE IF complete THEN "complete" ELSE "incomplete"

-----------------------------------------------------------------------------
(* handle: prepare, then one exchange per attempt. *)

(* Refused before any ticket, or nothing to answer on (no descriptor). *)
Prepare ==
    /\ phase = "prepare"
    /\ \/ phase' = "ended" /\ UNCHANGED ticket
       \/ phase' \in {"launch", "ended"} /\ ticket' = "begun"
    /\ UNCHANGED <<attempt, read, expired, gone, flags, ring, worker, waiting>>

(* Start the worker; without a provider or a thread the request ends. *)
Launch ==
    /\ phase = "launch"
    /\ \/ phase' = "await" /\ worker' = "transfer"
       \/ phase' = "ended" /\ UNCHANGED worker
    /\ UNCHANGED <<attempt, read, expired, gone, flags, ring, waiting, ticket>>

Settled == headers \/ done \/ cancel

Sleep(thread) == waiting' = waiting \cup {thread}

(* A timed wait that ends by the deadline cancels the exchange; it does    *)
(* not broadcast, the worker's progress callback will see it.              *)
Waits(p, ready) ==
    /\ phase = p /\ Awake("conn") /\ ~ready
    /\ \/ ~expired /\ Sleep("conn") /\ UNCHANGED cancel
       \/ expired /\ cancel' = TRUE /\ UNCHANGED waiting
    /\ UNCHANGED <<conn, status, headers, done, failed, ring, worker, ticket>>

AwaitHeaders == Waits("await", Settled)

(* A 400 is read to its end: it may report a context overflow. *)
AwaitError == Waits("overflow", done \/ cancel)

Retryable(overflow) == overflow \/ ~headers \/ status = "transient"

(* What the handler does with the exchange it saw: stream a 2xx, end a     *)
(* cancelled or hopeless one, or retry on the gateway's failover target.   *)
Resolve(overflow) ==
    IF ~cancel /\ headers /\ status = "ok" THEN phase' \in {"stream", "broken"}
    ELSE \/ phase' = "ended"
         \/ ~cancel /\ Retryable(overflow) /\ attempt < MaxRetries /\ phase' = "retry"

Headers ==
    /\ phase = "await" /\ Awake("conn") /\ Settled
    /\ IF ~cancel /\ headers /\ status = "badRequest"
       THEN phase' = "overflow" ELSE Resolve(FALSE)
    /\ UNCHANGED <<attempt, read, expired, gone, flags, ring, worker, waiting, ticket>>

Overflow ==
    /\ phase = "overflow" /\ Awake("conn") /\ (done \/ cancel)
    /\ \E o \in BOOLEAN : Resolve(o)
    /\ UNCHANGED <<attempt, read, expired, gone, flags, ring, worker, waiting, ticket>>

MutCleared ==
    /\ status' = "none"
    /\ headers' = FALSE /\ failed' = FALSE
    /\ UNCHANGED <<done, cancel>>

(* The failed exchange leaves nothing behind in the flags. *)
Cleared ==
    /\ status' = "none"
    /\ headers' = FALSE /\ done' = FALSE /\ failed' = FALSE
    /\ UNCHANGED cancel

MutRetry ==
    /\ phase = "retry"
    /\ Cleared
    /\ count' = 0 /\ offered' = 0 /\ pushed' = 0
    /\ attempt' = attempt + 1 /\ phase' = "launch"
    /\ UNCHANGED <<read, expired, gone, worker, waiting, ticket>>

(* Join the failed exchange's worker, then clear what it left. *)
Retry ==
    /\ phase = "retry" /\ worker = "exited"
    /\ Cleared
    /\ count' = 0 /\ offered' = 0 /\ pushed' = 0
    /\ attempt' = attempt + 1 /\ phase' = "launch"
    /\ UNCHANGED <<read, expired, gone, worker, waiting, ticket>>

-----------------------------------------------------------------------------
(* read_response and completed, called by the HTTP server. *)

AwaitBytes == Waits("stream", count > 0 \/ done \/ cancel)

ReadBytes ==
    /\ phase = "stream" /\ Awake("conn") /\ count > 0 /\ ~gone
    /\ \E n \in 1..count : count' = count - n /\ read' = read + n
    /\ Broadcast
    /\ UNCHANGED <<phase, attempt, expired, gone, flags, offered, pushed, worker, ticket>>

(* End of the body: the exchange is over for the gateway here, before the  *)
(* connection is torn down.                                                *)
EndOfBody ==
    /\ phase = "stream" /\ Awake("conn") /\ count = 0 /\ (done \/ cancel)
    /\ GatewayFinish(~failed /\ ~cancel)
    /\ phase' = IF failed \/ cancel THEN "broken" ELSE "ended"
    /\ UNCHANGED <<attempt, read, expired, gone, flags, ring, worker, waiting>>

(* The server finds the connection broken between two callbacks. *)
Abort ==
    /\ phase \in {"stream", "ended"} /\ Awake("conn") /\ gone
    /\ phase' = "broken"
    /\ UNCHANGED <<attempt, read, expired, gone, flags, ring, worker, waiting, ticket>>

Delivered == done /\ ~failed /\ ~cancel /\ status = "ok" /\ count = 0

MutComplete ==
    /\ phase \in {"ended", "broken"}
    /\ cancel' = TRUE /\ Broadcast
    /\ phase' = "freed" /\ GatewayFinish(phase = "ended" /\ Delivered)
    /\ UNCHANGED <<attempt, read, expired, gone, status, headers, done, failed, ring, worker>>

(* completed: take a verdict, cancel and join the worker, then finish. *)
Complete ==
    /\ phase \in {"ended", "broken"}
    /\ cancel' = TRUE /\ Broadcast
    /\ IF worker \in {"none", "exited"}
       THEN phase' = "freed" /\ GatewayFinish(phase = "ended" /\ Delivered)
       ELSE phase' = "join" /\ UNCHANGED ticket
    /\ UNCHANGED <<attempt, read, expired, gone, status, headers, done, failed, ring, worker>>

Join ==
    /\ phase = "join" /\ worker = "exited"
    /\ GatewayFinish(FALSE)
    /\ phase' = "freed"
    /\ UNCHANGED <<attempt, read, expired, gone, flags, ring, worker, waiting>>

-----------------------------------------------------------------------------
(* The worker: curl's callbacks and the end of the transfer. *)

HeaderLine ==
    /\ worker = "transfer"
    /\ status' \in {"ok", "badRequest", "transient", "refused"}
    /\ headers' = TRUE /\ Broadcast /\ worker' = "body"
    /\ UNCHANGED <<conn, done, failed, cancel, ring, ticket>>

(* Bytes of a 2xx arrive; an error's bytes are kept apart and only counted *)
(* by its end.                                                             *)
Offer ==
    /\ worker = "body" /\ status = "ok"
    /\ \E n \in 1..(BodySize - offered) : offered' = offered + n
    /\ worker' = "receive"
    /\ UNCHANGED <<conn, flags, count, pushed, waiting, ticket>>

Least(a, b) == IF a < b THEN a ELSE b

(* How much of the bytes left fits in the ring. *)
Room(left) == Least(left, QueueSize - count)

(* receive fills the ring, sleeping while it is full. *)
Push ==
    /\ worker = "receive" /\ Awake("worker") /\ ~cancel /\ Room(offered - pushed) > 0
    /\ LET n == Room(offered - pushed) IN count' = count + n /\ pushed' = pushed + n
    /\ worker' = IF pushed' = offered THEN "body" ELSE "receive"
    /\ Broadcast
    /\ UNCHANGED <<conn, flags, offered, ticket>>

RingFull ==
    /\ worker = "receive" /\ Awake("worker") /\ ~cancel /\ count = QueueSize
    /\ \/ ~expired /\ Sleep("worker") /\ UNCHANGED cancel
       \/ expired /\ cancel' = TRUE /\ UNCHANGED waiting
    /\ UNCHANGED <<conn, status, headers, done, failed, ring, worker, ticket>>

GiveUp ==
    /\ worker = "receive" /\ Awake("worker") /\ cancel
    /\ worker' = "aborted"
    /\ UNCHANGED <<conn, flags, ring, waiting, ticket>>

(* Between callbacks curl asks whether to go on: not when the client is    *)
(* unambiguously gone or the exchange is cancelled.                        *)
Progress ==
    /\ worker \in {"transfer", "body"} /\ (gone \/ cancel)
    /\ cancel' = TRUE /\ Broadcast /\ worker' = "aborted"
    /\ UNCHANGED <<conn, status, headers, done, failed, ring, ticket>>

(* The transfer ends: well at the end of a body, badly at any time (a      *)
(* transport error, curl's own timeout, an error body too large).          *)
Finish ==
    /\ worker \in {"transfer", "body", "aborted"}
    /\ failed' \in (IF worker = "body" THEN BOOLEAN ELSE {TRUE})
    /\ done' = TRUE /\ Broadcast /\ worker' = "exited"
    /\ UNCHANGED <<conn, status, headers, cancel, ring, ticket>>

(* A wait that outlives the deadline cancels the exchange, silently. *)
TimeOut(thread) ==
    /\ thread \in waiting /\ expired
    /\ waiting' = waiting \ {thread} /\ cancel' = TRUE
    /\ UNCHANGED <<conn, status, headers, done, failed, ring, worker, ticket>>

Expire ==
    /\ ~expired /\ expired' = TRUE
    /\ UNCHANGED <<phase, attempt, read, gone, flags, ring, worker, waiting, ticket>>

Depart ==
    /\ ~gone /\ gone' = TRUE
    /\ UNCHANGED <<phase, attempt, read, expired, flags, ring, worker, waiting, ticket>>

Init ==
    /\ phase = "prepare" /\ worker = "none" /\ status = "none"
    /\ headers = FALSE /\ done = FALSE /\ failed = FALSE /\ cancel = FALSE
    /\ count = 0 /\ offered = 0 /\ pushed = 0 /\ read = 0 /\ attempt = 0
    /\ waiting = {} /\ expired = FALSE /\ gone = FALSE /\ ticket = "none"

Connection ==
    \/ Prepare \/ Launch \/ AwaitHeaders \/ Headers \/ AwaitError \/ Overflow
    \/ Retry \/ AwaitBytes \/ ReadBytes \/ EndOfBody \/ Abort \/ Complete \/ Join
    \/ TimeOut("conn")

Upstream ==
    \/ HeaderLine \/ Offer \/ Push \/ RingFull \/ GiveUp \/ Progress \/ Finish
    \/ TimeOut("worker")

Next == Connection \/ Upstream \/ Expire \/ Depart

Spec == Init /\ [][Next]_vars

(* Both threads run; curl's own timeout bounds every transfer, so the      *)
(* worker, which the provider can otherwise keep busy for ever, ends.      *)
(* Nothing makes the deadline pass or the client leave.                    *)
FairSpec == Spec /\ WF_vars(Connection) /\ WF_vars(Upstream) /\ WF_vars(Finish)

-----------------------------------------------------------------------------
(* An exchange the gateway counts as complete (a turn of the session, with *)
(* its evidence) reached the client whole and ended well upstream, of the  *)
(* two places that can say so.                                             *)
CompleteIsWhole ==
    ticket = "complete" =>
        status = "ok" /\ done /\ ~failed /\ read = offered

(* The request's memory is released only after its worker has ended and    *)
(* its ticket is finished, so no session stays in flight for ever.         *)
FreedIsSafe ==
    phase = "freed" => worker \in {"none", "exited"} /\ ticket # "begun"

(* A request is sent again only while the client has no byte of it and the *)
(* worker of the failed exchange, which shares the flags and the ring that *)
(* the next one starts from, has ended.                                    *)
RetryIsInvisible ==
    [][attempt' # attempt => read = 0 /\ pushed = 0 /\ worker = "exited"]_vars

(* Every request that starts an exchange is released, its deadline passed  *)
(* or not: the two threads never wait for each other, whoever fails first. *)
EveryRequestEnds == phase = "launch" ~> phase = "freed"
=============================================================================
