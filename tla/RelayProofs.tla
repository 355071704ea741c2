----------------------------- MODULE RelayProofs -----------------------------
(***************************************************************************)
(* Theorems about one relayed request, for every size of ring and body and *)
(* every number of retries.  The flags are written by one thread and read  *)
(* by the other: the invariant says what each may conclude from them.      *)
(***************************************************************************)
EXTENDS Relay, TLAPS

(* Bytes are neither lost nor invented between curl and the client, and    *)
(* only an answer that is a success has any.                               *)
Balanced ==
    /\ read + count = pushed /\ pushed <= offered
    /\ status # "ok" => offered = 0
    /\ worker = "body" => pushed = offered

(* Nothing of an exchange is known before its first header line.           *)
Fresh ==
    phase \in {"prepare", "launch"} \/ worker \in {"none", "transfer"} =>
        ~headers /\ ~done /\ ~failed

Heard == headers <=> status # "none"

(* The worker's last word.                                                 *)
Last == done => worker = "exited" /\ (failed \/ pushed = offered)

(* Where the connection's thread is tells what it saw in the flags, and    *)
(* what it saw stays so.                                                   *)
Seen ==
    /\ phase \in {"prepare", "launch", "freed"} => worker \in {"none", "exited"}
    /\ phase \in {"prepare", "launch", "await", "overflow", "retry"} => read = 0
    /\ phase = "overflow" => status = "badRequest"
    /\ phase = "retry" => status # "ok" /\ (headers \/ worker = "exited") /\ attempt < MaxRetries
    /\ phase = "stream" => status = "ok"

Verdict ==
    /\ ticket = "complete" => phase \in {"ended", "broken", "join", "freed"}
    /\ phase = "freed" => ticket # "begun"

IInv == TypeOK /\ Balanced /\ Fresh /\ Heard /\ Last /\ Seen /\ Verdict /\ CompleteIsWhole

-----------------------------------------------------------------------------
LEMMA InitHolds == Init => IInv
<1> SUFFICES ASSUME Init  PROVE IInv
  OBVIOUS
<1>1. TypeOK
  <2>1. /\ phase = "prepare" /\ worker = "none" /\ status = "none" /\ ticket = "none" /\ waiting = {}
        /\ headers = FALSE /\ done = FALSE /\ failed = FALSE /\ cancel = FALSE /\ expired = FALSE /\ gone = FALSE
    BY DEF Init
  <2>2. count \in 0..QueueSize /\ {offered, pushed, read} \subseteq 0..BodySize /\ attempt \in 0..MaxRetries
    BY RelayAssumption DEF Init
  <2> QED  BY <2>1, <2>2, Zenon DEF TypeOK, Phases
<1>2. Balanced /\ Last /\ Seen /\ Verdict /\ CompleteIsWhole
  BY DEF Init, Balanced, Last, Seen, Verdict, CompleteIsWhole
<1>3. Fresh
  BY DEF Init, Fresh
<1>4. Heard
  <2>1. headers = FALSE /\ status = "none"
    BY DEF Init
  <2> QED  BY <2>1 DEF Heard
<1> QED  BY <1>1, <1>2, <1>3, <1>4 DEF IInv

(* What handle does before an answer is streamed.                          *)
LEMMA HandleKeeps ==
    ASSUME IInv, Prepare \/ Launch \/ Headers \/ Overflow \/ Retry
    PROVE  IInv'
<1> USE RelayAssumption DEF IInv, TypeOK, Phases, Balanced, Fresh, Heard, Last, Seen, Verdict, CompleteIsWhole,
                            conn, flags, ring
<1>1. CASE Prepare
  BY <1>1 DEF Prepare
<1>2. CASE Launch
  BY <1>2 DEF Launch
<1>3. CASE Headers
  BY <1>3 DEF Headers, Resolve, Retryable, Settled
<1>4. CASE Overflow
  BY <1>4 DEF Overflow, Resolve, Retryable
<1>5. CASE Retry
  <2>1. TypeOK'
    <3>1. attempt' \in 0..MaxRetries
      BY <1>5 DEF Retry
    <3>2. {count', offered', pushed'} = {0} /\ 0 \in 0..QueueSize /\ 0 \in 0..BodySize
      BY <1>5 DEF Retry
    <3>3. /\ phase' = "launch" /\ status' = "none"
          /\ headers' = FALSE /\ done' = FALSE /\ failed' = FALSE
          /\ UNCHANGED <<read, expired, gone, cancel, worker, waiting, ticket>>
      BY <1>5 DEF Retry, Cleared
    <3> QED  BY <3>1, <3>2, <3>3, Zenon
  <2>2. Balanced' /\ Verdict' /\ Seen' /\ CompleteIsWhole'
    <3>1. /\ phase = "retry" /\ worker = "exited" /\ phase' = "launch" /\ worker' = worker /\ read' = read
          /\ count' = 0 /\ offered' = 0 /\ pushed' = 0 /\ ticket' = ticket
      BY <1>5 DEF Retry
    <3>2. read = 0 /\ ticket # "complete"
      BY <3>1
    <3> QED  BY <3>1, <3>2
  <2>3. Last'
    <3>1. done' = FALSE
      BY <1>5 DEF Retry, Cleared
    <3> QED  BY <3>1
  <2>4. Fresh'
    BY <1>5 DEF Retry, Cleared
  <2>5. Heard'
    <3>1. headers' = FALSE /\ status' = "none"
      BY <1>5 DEF Retry, Cleared
    <3> QED  BY <3>1
  <2> QED  BY <2>1, <2>2, <2>3, <2>4, <2>5
<1> QED  BY <1>1, <1>2, <1>3, <1>4, <1>5

(* A wait changes who sleeps, or cancels; so do time and the client.       *)
LEMMA WaitingKeeps ==
    ASSUME IInv,
           \/ AwaitHeaders \/ AwaitError \/ AwaitBytes \/ RingFull
           \/ TimeOut("conn") \/ TimeOut("worker") \/ Expire \/ Depart
    PROVE  IInv'
<1>1. /\ UNCHANGED <<phase, attempt, read, status, headers, done, failed, ring, worker, ticket>>
      /\ cancel' \in BOOLEAN /\ waiting' \subseteq {"conn", "worker"}
      /\ expired' \in BOOLEAN /\ gone' \in BOOLEAN
  BY DEF IInv, TypeOK, AwaitHeaders, AwaitError, AwaitBytes, Waits, RingFull, TimeOut, Expire, Depart, Sleep,
         conn, flags, ring
<1> QED
  BY <1>1 DEF IInv, TypeOK, Balanced, Fresh, Heard, Last, Seen, Verdict, CompleteIsWhole, ring

(* read_response and completed.                                            *)
LEMMA ServerKeeps ==
    ASSUME IInv, ReadBytes \/ EndOfBody \/ Abort \/ Complete \/ Join
    PROVE  IInv'
<1> USE RelayAssumption DEF IInv, TypeOK, Phases, Balanced, Fresh, Heard, Last, Seen, Verdict, CompleteIsWhole,
                            conn, flags, ring
<1>1. CASE ReadBytes
  BY <1>1 DEF ReadBytes, Broadcast
<1>2. CASE EndOfBody
  BY <1>2 DEF EndOfBody, GatewayFinish
<1>3. CASE Abort
  BY <1>3 DEF Abort
<1>4. CASE Complete
  BY <1>4 DEF Complete, GatewayFinish, Delivered, Broadcast
<1>5. CASE Join
  BY <1>5 DEF Join, GatewayFinish
<1> QED  BY <1>1, <1>2, <1>3, <1>4, <1>5

(* The worker.                                                             *)
LEMMA WorkerKeeps ==
    ASSUME IInv, HeaderLine \/ Offer \/ Push \/ GiveUp \/ Progress \/ Finish
    PROVE  IInv'
<1> USE RelayAssumption DEF IInv, TypeOK, Phases, Balanced, Fresh, Heard, Last, Seen, Verdict, CompleteIsWhole,
                            conn, flags, ring
<1>1. CASE HeaderLine
  BY <1>1 DEF HeaderLine, Broadcast
<1>2. CASE Offer
  BY <1>2 DEF Offer
<1>3. CASE Push
  BY <1>3 DEF Push, Room, Least, Broadcast
<1>4. CASE GiveUp
  BY <1>4 DEF GiveUp
<1>5. CASE Progress
  BY <1>5 DEF Progress, Broadcast
<1>6. CASE Finish
  <2>1. /\ UNCHANGED <<phase, attempt, read, expired, gone, status, headers, cancel, count, offered, pushed, ticket>>
        /\ done' = TRUE /\ failed' \in BOOLEAN /\ waiting' = {} /\ worker' = "exited"
        /\ worker \in {"transfer", "body", "aborted"} /\ (worker # "body" => failed' = TRUE)
    BY <1>6 DEF Finish, Broadcast
  <2>2. TypeOK' /\ Balanced' /\ Seen' /\ Heard' /\ Verdict'
    BY <2>1
  <2>3. Last'
    BY <2>1
  <2>4. Fresh'
    <3>1. phase \notin {"prepare", "launch"}
      BY <2>1
    <3> QED  BY <2>1, <3>1
  <2>5. CompleteIsWhole'
    <3>1. ~done /\ ticket # "complete"
      BY <2>1
    <3> QED  BY <2>1, <3>1
  <2> QED  BY <2>2, <2>3, <2>4, <2>5
<1> QED  BY <1>1, <1>2, <1>3, <1>4, <1>5, <1>6

LEMMA StepKeeps == IInv /\ [Next]_vars => IInv'
<1> SUFFICES ASSUME IInv, [Next]_vars  PROVE IInv'
  OBVIOUS
<1>1. CASE UNCHANGED vars
  BY <1>1 DEF vars, conn, flags, ring, IInv, TypeOK, Balanced, Fresh, Heard, Last, Seen, Verdict, CompleteIsWhole
<1>2. CASE Connection
  BY <1>2, HandleKeeps, WaitingKeeps, ServerKeeps DEF Connection
<1>3. CASE Upstream
  BY <1>3, WaitingKeeps, WorkerKeeps DEF Upstream
<1>4. CASE Expire \/ Depart
  BY <1>4, WaitingKeeps
<1> QED  BY <1>1, <1>2, <1>3, <1>4 DEF Next

(* The flags and counters the two threads share keep the meaning each      *)
(* relies on, whatever the other does (router.c, receive and progress      *)
(* against handle and read_response).                                      *)
THEOREM Invariant == Spec => []IInv
BY InitHolds, StepKeeps, PTL DEF Spec

-----------------------------------------------------------------------------
(* The two threads' flags, counters and phases stay within their types,    *)
(* the ring never holds more than QUEUE_SIZE (router.c, receive).          *)
THEOREM TypeCorrect == Spec => []TypeOK
<1>1. IInv => TypeOK
  BY DEF IInv
<1> QED  BY <1>1, Invariant, PTL

(* What the gateway counts as complete ended well and reached the client   *)
(* to the last byte, for a body of any size (router.c, read_response and   *)
(* completed).                                                             *)
THEOREM AnswerIsWhole == Spec => []CompleteIsWhole
<1>1. IInv => CompleteIsWhole
  BY DEF IInv
<1> QED  BY <1>1, Invariant, PTL

(* completed releases a request only when its worker cannot touch it and   *)
(* its ticket is settled, after any number of retries.                     *)
THEOREM ReleaseIsSafe == Spec => []FreedIsSafe
<1>1. IInv => FreedIsSafe
  BY DEF IInv, Seen, Verdict, FreedIsSafe
<1> QED  BY <1>1, Invariant, PTL

(* A request is sent again only if no byte of the failed answer was passed *)
(* on and its worker is joined (handle's retry).                           *)
THEOREM RetriesAreInvisible == Spec => RetryIsInvisible
<1>1. IInv /\ [Next]_vars => [attempt' # attempt => read = 0 /\ pushed = 0 /\ worker = "exited"]_vars
  <2> SUFFICES ASSUME IInv, Next, attempt' # attempt
               PROVE  read = 0 /\ pushed = 0 /\ worker = "exited"
    BY DEF vars, conn
  <2>1. Retry
    BY DEF Next, Connection, Upstream, Prepare, Launch, AwaitHeaders, Headers, AwaitError, Overflow, AwaitBytes,
           Waits, ReadBytes, EndOfBody, Abort, Complete, Join, TimeOut, HeaderLine, Offer, Push, RingFull, GiveUp,
           Progress, Finish, Expire, Depart, conn
  <2>2. read = 0 /\ worker = "exited" /\ offered = 0
    BY <2>1 DEF IInv, Seen, Balanced, Retry
  <2> QED  BY <2>2 DEF IInv, TypeOK, Balanced
<1> QED  BY <1>1, Invariant, PTL DEF Spec, RetryIsInvisible
=============================================================================
