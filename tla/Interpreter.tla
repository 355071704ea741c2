----------------------------- MODULE Interpreter -----------------------------
(***************************************************************************)
(* The interpreter's worker: core/src/context/interpreter.c.               *)
(*                                                                         *)
(* Two threads.  The owner (the gateway, under its own lock) submits,      *)
(* polls, cancels and destroys, one call at a time; the worker takes the   *)
(* lowest queued slot and performs it with the mutex released.  The mutex, *)
(* the condition variable and the two atomics, stop and epoch, are here    *)
(* as they are in the code, because what is subtle is what happens between *)
(* epoch's increment and cancel's critical section, and between the        *)
(* worker's test of stop and its wait.                                     *)
(*                                                                         *)
(* Abstracted: the request and its answer (any of the three results), the  *)
(* clock (a deadline may pass at any time), and the owner's failing        *)
(* trylock, which changes nothing.                                         *)
(***************************************************************************)
EXTENDS Naturals, FiniteSets

CONSTANTS
    Capacity,    \* RC_INTERPRETER_CAPACITY
    Jobs,        \* bound: the inputs submitted, each at most once
    MaxCancels,  \* bound: calls of cancel
    None

Answers == {"valid", "rejected", "timeout"}
Results == Answers \cup {"cancelled"}

ASSUME InterpreterAssumption ==
    /\ Capacity \in Nat \ {0} /\ MaxCancels \in Nat
    /\ None \notin Jobs \cup Results \cup {"worker"}

Slots == 1..Capacity

VARIABLES
    slot,      \* the slots
    mutex,     \* its holder: the worker or nobody (the owner's calls are single steps)
    waiting,   \* the worker waits on the condition variable
    stop, epoch,
    worker,    \* where the worker is
    local,     \* its copy of the slot it performs, and the result so far
    owner,     \* where the owner is
    delivered  \* what polls have returned, by job

vars == <<slot, mutex, waiting, stop, epoch, worker, local, owner, delivered>>

Slot ==
    [state: {"free", "pending", "running", "done"}, job: Jobs \cup {None},
     epoch: 0..MaxCancels, late: BOOLEAN, result: Results \cup {None}]

Empty == [state |-> "free", job |-> None, epoch |-> 0, late |-> FALSE, result |-> None]

Idle == [at |-> 0, epoch |-> 0, late |-> FALSE, result |-> None]

TypeOK ==
    /\ slot \in [Slots -> Slot]
    /\ \A i \in Slots : /\ slot[i].state = "free" <=> slot[i].job = None
                        /\ slot[i].state = "done" <=> slot[i].result # None
    /\ mutex \in {"worker", None}
    /\ waiting \in BOOLEAN /\ stop \in BOOLEAN
    /\ epoch \in 0..MaxCancels
    /\ worker \in {"locking", "test", "scan", "performing", "publishing", "exited"}
    /\ local \in [at: 0..Capacity, epoch: 0..MaxCancels, late: BOOLEAN, result: Results \cup {None}]
    /\ owner \in {"idle", "cancelling", "stopping", "joining", "joined"}
    /\ delivered \in [Jobs -> Results \cup {None}]

In(state) == {i \in Slots : slot[i].state = state}

Lowest(S) == CHOOSE i \in S : \A k \in S : i <= k

Held == {slot[i].job : i \in Slots}

Fresh == {j \in Jobs \ Held : delivered[j] = None}

-----------------------------------------------------------------------------
(* The owner.  Submit, poll and the body of cancel are one critical        *)
(* section each.                                                           *)

MutSignal == waiting' = waiting

Signal == waiting' = FALSE

Submit(j) ==
    /\ owner = "idle" /\ mutex = None
    /\ j \in Fresh /\ In("free") # {}
    /\ slot' = [slot EXCEPT ![Lowest(In("free"))] =
          [Empty EXCEPT !.state = "pending", !.job = j, !.epoch = epoch]]
    /\ Signal
    /\ UNCHANGED <<mutex, stop, epoch, worker, local, owner, delivered>>

Poll ==
    /\ owner = "idle" /\ mutex = None /\ In("done") # {}
    /\ LET i == Lowest(In("done")) IN
         /\ delivered' = [delivered EXCEPT ![slot[i].job] = slot[i].result]
         /\ slot' = [slot EXCEPT ![i] = Empty]
    /\ UNCHANGED <<mutex, waiting, stop, epoch, worker, local, owner>>

(* The job being performed is left to the worker. *)
Cancellable == In("pending") \cup In("done")

(* The epoch moves before the mutex is taken, so the worker sees it while  *)
(* the owner waits.                                                        *)
CancelBegin ==
    /\ owner = "idle" /\ epoch < MaxCancels
    /\ epoch' = epoch + 1 /\ owner' = "cancelling"
    /\ UNCHANGED <<slot, mutex, waiting, stop, worker, local, delivered>>

CancelSlots ==
    /\ owner = "cancelling" /\ mutex = None
    /\ slot' = [i \in Slots |->
          IF i \in Cancellable
          THEN [slot[i] EXCEPT !.state = "done", !.result = "cancelled"] ELSE slot[i]]
    /\ owner' = "idle"
    /\ UNCHANGED <<mutex, waiting, stop, epoch, worker, local, delivered>>

DestroyStop ==
    /\ owner = "idle"
    /\ stop' = TRUE /\ owner' = "stopping"
    /\ UNCHANGED <<slot, mutex, waiting, epoch, worker, local, delivered>>

DestroySignal ==
    /\ owner = "stopping" /\ mutex = None
    /\ Signal /\ owner' = "joining"
    /\ UNCHANGED <<slot, mutex, stop, epoch, worker, local, delivered>>

DestroyJoin ==
    /\ owner = "joining" /\ worker = "exited"
    /\ owner' = "joined"
    /\ UNCHANGED <<slot, mutex, waiting, stop, epoch, worker, local, delivered>>

-----------------------------------------------------------------------------
(* The worker. *)

Lock ==
    /\ worker = "locking" /\ mutex = None /\ ~waiting
    /\ mutex' = "worker" /\ worker' = "test"
    /\ UNCHANGED <<slot, waiting, stop, epoch, local, owner, delivered>>

(* while(!stop), with the mutex held. *)
Test ==
    /\ worker = "test"
    /\ IF stop THEN worker' = "exited" /\ mutex' = None
               ELSE worker' = "scan" /\ UNCHANGED mutex
    /\ UNCHANGED <<slot, waiting, stop, epoch, local, owner, delivered>>

(* Take the lowest queued slot, or wait: pthread_cond_wait releases the    *)
(* mutex in the same step.                                                 *)
Wait ==
    /\ worker = "scan" /\ In("pending") = {}
    /\ waiting' = TRUE /\ mutex' = None /\ worker' = "locking"
    /\ UNCHANGED <<slot, stop, epoch, local, owner, delivered>>

Take ==
    /\ worker = "scan" /\ In("pending") # {}
    /\ LET i == Lowest(In("pending")) IN
         /\ slot' = [slot EXCEPT ![i].state = "running"]
         /\ local' = [at |-> i, epoch |-> slot[i].epoch, late |-> slot[i].late,
                      result |-> None]
    /\ mutex' = None /\ worker' = "performing"
    /\ UNCHANGED <<waiting, stop, epoch, owner, delivered>>

Performed(result) ==
    /\ worker = "performing"
    /\ local' = [local EXCEPT !.result = result]
    /\ worker' = "publishing"
    /\ UNCHANGED <<slot, mutex, waiting, stop, epoch, owner, delivered>>

(* A job that was late when taken times out at once.  Otherwise each turn  *)
(* of perform's loop looks at stop, the epoch and the deadline, then at    *)
(* the transfer: the answer can come after a look that found no reason to  *)
(* stop.                                                                   *)
Expired == worker = "performing" /\ slot[local.at].late /\ Performed("timeout")

Interrupted == ~local.late /\ (stop \/ local.epoch # epoch) /\ Performed("cancelled")

Answered == ~local.late /\ \E a \in Answers : Performed(a)

MutStored(result) == result

(* An answer to a job cancelled meanwhile is a cancellation. *)
Stored(result) == IF local.epoch # epoch THEN "cancelled" ELSE result

Publish ==
    /\ worker = "publishing" /\ mutex = None
    /\ slot' = [slot EXCEPT ![local.at].result = Stored(local.result),
                            ![local.at].state = "done"]
    /\ local' = Idle
    /\ mutex' = "worker" /\ worker' = "test"
    /\ UNCHANGED <<waiting, stop, epoch, owner, delivered>>

(* The deadline counts from the submission, queue time included. *)
Late(i) ==
    /\ slot[i].state \in {"pending", "running"} /\ ~slot[i].late
    /\ slot' = [slot EXCEPT ![i].late = TRUE]
    /\ UNCHANGED <<mutex, waiting, stop, epoch, worker, local, owner, delivered>>

Init ==
    /\ slot = [i \in Slots |-> Empty]
    /\ mutex = None /\ waiting = FALSE /\ stop = FALSE /\ epoch = 0
    /\ worker = "locking" /\ local = Idle /\ owner = "idle"
    /\ delivered = [j \in Jobs |-> None]

Owner ==
    \/ \E j \in Jobs : Submit(j)
    \/ Poll \/ CancelBegin \/ CancelSlots
    \/ DestroyStop \/ DestroySignal \/ DestroyJoin

Perform == Interrupted \/ Expired \/ Answered

Worker == Lock \/ Test \/ Wait \/ Take \/ Perform \/ Publish

Next == Owner \/ Worker \/ \E i \in Slots : Late(i)

Spec == Init /\ [][Next]_vars

(* The worker runs; its transfer ends, because every deadline passes and   *)
(* the loop looks at it; calls the owner has begun return; the gateway's   *)
(* main loop polls for ever.  Nothing makes the owner submit or cancel.    *)
FairSpec ==
    /\ Spec
    /\ WF_vars(Worker)
    /\ WF_vars(CancelSlots) /\ WF_vars(DestroySignal) /\ WF_vars(DestroyJoin)
    /\ WF_vars(Poll)
    /\ \A i \in Slots : WF_vars(Late(i))

-----------------------------------------------------------------------------
(* Cancelling is one atomic step for the owner although the worker runs    *)
(* through it: the detailed interpreter implements JobDesk.  A job is      *)
(* cancelled from the moment its epoch is past, or the owner is on its way *)
(* to the critical section that will say so.                               *)
FateOf(j) ==
    IF j \in Held
    THEN LET i == CHOOSE i \in Slots : slot[i].job = j IN
         [polled |-> FALSE,
          is |-> IF slot[i].epoch # epoch THEN "cancelled"
                 ELSE IF slot[i].state = "done" THEN slot[i].result ELSE "open"]
    ELSE IF delivered[j] # None THEN [polled |-> TRUE, is |-> delivered[j]]
    ELSE [polled |-> FALSE, is |-> "new"]

Desk == INSTANCE JobDesk WITH fate <- [j \in Jobs |-> FateOf(j)], closing <- stop

ImplementsDesk == Desk!Spec

(* Destroy returns: its signal cannot fall between the worker's test of    *)
(* stop and its wait.                                                      *)
DestroyReturns == owner = "stopping" ~> owner = "joined"

(* A queued job is never left beside a sleeping worker. *)
QueueMoves == In("pending") # {} ~> (In("pending") = {} \/ In("running") # {} \/ stop)
=============================================================================
