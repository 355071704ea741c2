-------------------------- MODULE InterpreterProofs --------------------------
(***************************************************************************)
(* The interpreter implements JobDesk, for any number of slots, jobs and   *)
(* cancels: first the invariant, then one lemma per action that says which *)
(* step of JobDesk it is, or none.                                         *)
(***************************************************************************)
EXTENDS Interpreter, FiniteSetTheorems, WellFoundedInduction, TLAPS

(* A job is in one slot, and in none once it is delivered.                 *)
OneHolder ==
    /\ \A i, k \in Slots : slot[i].job # None /\ slot[i].job = slot[k].job => i = k
    /\ \A i \in Slots : slot[i].job # None => delivered[slot[i].job] = None

(* Whatever the owner cancels was submitted before: while it is on its way *)
(* every job is past, and after it only the running one may still be.      *)
Epochs ==
    \A i \in Slots :
        /\ slot[i].epoch <= epoch
        /\ owner = "cancelling" /\ slot[i].job # None => slot[i].epoch # epoch
        /\ owner # "cancelling" /\ slot[i].epoch # epoch =>
               /\ slot[i].state # "pending"
               /\ slot[i].state = "done" => slot[i].result = "cancelled"

(* The worker publishes into the slot it took, which is nobody else's.     *)
Busy == worker \in {"performing", "publishing"}

Working ==
    /\ \A i \in Slots : slot[i].state = "running" <=> Busy /\ i = local.at
    /\ Busy => local.at \in Slots /\ local.epoch = slot[local.at].epoch
    /\ worker = "publishing" =>
           /\ local.result \in Results
           /\ local.result = "cancelled" => stop \/ local.epoch # epoch

Stopping == stop => owner \in {"stopping", "joining", "joined"}

Inv == TypeOK /\ OneHolder /\ Epochs /\ Working /\ Stopping

-----------------------------------------------------------------------------
(* What JobDesk sees of a slot that holds a job.                           *)
Standing(i) ==
    IF slot[i].epoch # epoch THEN "cancelled"
    ELSE IF slot[i].state = "done" THEN slot[i].result ELSE "open"

FatesFollow ==
    /\ \A i \in Slots :
          slot[i].job # None => FateOf(slot[i].job) = [polled |-> FALSE, is |-> Standing(i)]
    /\ \A j \in Jobs :
          (\A i \in Slots : slot[i].job # j) =>
              FateOf(j) = IF delivered[j] # None THEN [polled |-> TRUE, is |-> delivered[j]]
                          ELSE [polled |-> FALSE, is |-> "new"]

LEMMA Follow == Inv => FatesFollow
<1> SUFFICES ASSUME Inv  PROVE FatesFollow
  OBVIOUS
<1>1. ASSUME NEW i \in Slots, slot[i].job # None
      PROVE  FateOf(slot[i].job) = [polled |-> FALSE, is |-> Standing(i)]
  <2>1. slot[i].job \in Held
    BY DEF Held
  <2>2. (CHOOSE k \in Slots : slot[k].job = slot[i].job) = i
    BY <1>1 DEF Inv, OneHolder
  <2> QED  BY <2>1, <2>2 DEF FateOf, Standing
<1>2. ASSUME NEW j \in Jobs, \A i \in Slots : slot[i].job # j
      PROVE  FateOf(j) = IF delivered[j] # None THEN [polled |-> TRUE, is |-> delivered[j]]
                         ELSE [polled |-> FALSE, is |-> "new"]
  <2>1. j \notin Held
    BY <1>2 DEF Held
  <2> QED  BY <2>1 DEF FateOf
<1> QED  BY <1>1, <1>2 DEF FatesFollow

(* The lowest of some slots is one of them.                                *)
LEMMA LowestIsOne ==
    ASSUME NEW S \in SUBSET Slots, S # {}
    PROVE  Lowest(S) \in S
<1>1. S \subseteq Nat
  BY InterpreterAssumption DEF Slots
<1>2. \E i \in S : \A k \in S : ~(<<k, i>> \in OpToRel(<, Nat))
  BY <1>1, WFMin, NatLessThanWellFounded
<1>3. PICK i \in S : \A k \in S : ~(<<k, i>> \in OpToRel(<, Nat))
  BY <1>2
<1>4. \A k \in S : i <= k
  <2>1. ASSUME NEW x \in Nat, NEW y \in Nat, x < y  PROVE <<x, y>> \in OpToRel(<, Nat)
    BY <2>1 DEF OpToRel
  <2>2. \A k \in S : ~(k < i)
    BY <1>1, <1>3, <2>1
  <2>3. i \in Nat /\ \A k \in S : k \in Nat
    BY <1>1, <1>3
  <2> QED  BY <2>2, <2>3
<1> QED  BY <1>3, <1>4 DEF Lowest

(* A slot is free when it has no job, and done when it has a result.       *)
LEMMA Shape ==
    TypeOK => \A k \in Slots : /\ slot[k] \in Slot /\ (slot[k].state = "free" <=> slot[k].job = None)
                               /\ (slot[k].state = "done" <=> slot[k].result # None)
<1> SUFFICES ASSUME TypeOK, NEW k \in Slots
             PROVE  /\ slot[k] \in Slot /\ (slot[k].state = "free" <=> slot[k].job = None)
                    /\ (slot[k].state = "done" <=> slot[k].result # None)
  OBVIOUS
<1>1. slot[k] \in Slot
  BY DEF TypeOK
<1>2. slot[k].state = "free" <=> slot[k].job = None
  BY DEF TypeOK
<1>3. slot[k].state = "done" <=> slot[k].result # None
  BY DEF TypeOK
<1> QED  BY <1>1, <1>2, <1>3

-----------------------------------------------------------------------------
(* The invariant.                                                          *)
LEMMA InitHolds == Init => Inv
<1> SUFFICES ASSUME Init  PROVE Inv
  OBVIOUS
<1> USE DEF Init
<1>1. Empty \in Slot /\ \A i \in Slots : slot[i] = Empty
  BY InterpreterAssumption DEF Slot, Empty
<1>2. TypeOK
  <2>1. slot \in [Slots -> Slot]
    BY <1>1
  <2>2. local \in [at: 0..Capacity, epoch: 0..MaxCancels, late: BOOLEAN, result: Results \cup {None}]
    BY InterpreterAssumption DEF Idle
  <2>3. delivered \in [Jobs -> Results \cup {None}] /\ epoch \in 0..MaxCancels
    BY InterpreterAssumption
  <2> QED  BY <1>1, <2>1, <2>2, <2>3 DEF TypeOK, Empty
<1>3. OneHolder /\ Epochs
  BY <1>1 DEF OneHolder, Epochs, Empty
<1>4. Working /\ Stopping
  BY <1>1 DEF Working, Stopping, Busy, Empty
<1> QED  BY <1>2, <1>3, <1>4 DEF Inv

(* Steps that leave the slots and the worker's copy alone.                 *)
LEMMA QuietKeeps ==
    ASSUME Inv, CancelBegin \/ DestroyStop \/ DestroySignal \/ DestroyJoin \/ Lock \/ Test \/ Wait
    PROVE  Inv'
<1> USE InterpreterAssumption DEF Inv
<1> DEFINE Calls == CancelBegin \/ DestroyStop \/ DestroySignal \/ DestroyJoin
<1>0. /\ UNCHANGED <<slot, local, delivered>>
      /\ \/ epoch' = epoch
         \/ epoch' = epoch + 1 /\ epoch < MaxCancels /\ owner' = "cancelling" /\ owner = "idle"
      /\ epoch' = epoch => (owner' # "cancelling" <=> owner # "cancelling")
  <2>1. epoch \in Nat
    BY DEF TypeOK
  <2> QED  BY <2>1 DEF CancelBegin, DestroyStop, DestroySignal, DestroyJoin, Lock, Test, Wait
<1>1. (Busy' <=> Busy) /\ (worker' = "publishing" <=> worker = "publishing")
  BY DEF CancelBegin, DestroyStop, DestroySignal, DestroyJoin, Lock, Test, Wait, Busy
<1>2. (stop => stop') /\ Stopping'
  <2>1. CASE UNCHANGED <<stop, owner>>
    BY <2>1 DEF Stopping
  <2>2. CASE Calls
    BY <2>2 DEF CancelBegin, DestroyStop, DestroySignal, DestroyJoin, Stopping
  <2> QED  BY <2>1, <2>2 DEF Lock, Test, Wait
<1>8. /\ mutex' \in {"worker", None} /\ waiting' \in BOOLEAN /\ stop' \in BOOLEAN
      /\ worker' \in {"locking", "test", "scan", "performing", "publishing", "exited"}
      /\ owner' \in {"idle", "cancelling", "stopping", "joining", "joined"}
  BY DEF TypeOK, CancelBegin, DestroyStop, DestroySignal, DestroyJoin, Lock, Test, Wait, Signal
<1>3. epoch \in Nat /\ epoch' \in 0..MaxCancels /\ \A i \in Slots : slot[i].epoch \in Nat
  BY <1>0 DEF TypeOK, Slot
<1>4. TypeOK'
  BY <1>0, <1>8, <1>3 DEF TypeOK
<1>5. OneHolder'
  BY <1>0 DEF OneHolder
<1>6. Epochs'
  BY <1>0, <1>3 DEF Epochs
<1>7. Working'
  <2>1. Busy => local.epoch \in Nat /\ local.epoch <= epoch
    BY <1>3 DEF Working, Epochs
  <2>2. /\ \A i \in Slots : slot'[i].state = "running" <=> Busy' /\ i = local'.at
        /\ Busy' => local'.at \in Slots /\ local'.epoch = slot'[local'.at].epoch
    BY <1>0, <1>1 DEF Working
  <2>3. ASSUME worker' = "publishing", local'.result = "cancelled"
        PROVE  stop' \/ local'.epoch # epoch'
    <3>1. Busy /\ (stop \/ local.epoch # epoch)
      BY <1>0, <1>1, <2>3 DEF Working, Busy
    <3> QED  BY <1>0, <1>2, <1>3, <2>1, <3>1
  <2> QED  BY <1>0, <1>1, <2>2, <2>3 DEF Working
<1> QED  BY <1>2, <1>4, <1>5, <1>6, <1>7

(* One slot is rewritten.                                                  *)
LEMMA SubmitKeeps ==
    ASSUME Inv, NEW j \in Jobs, Submit(j)
    PROVE  Inv'
<1> USE InterpreterAssumption DEF Inv
<1> DEFINE i == Lowest(In("free"))
           new == [Empty EXCEPT !.state = "pending", !.job = j, !.epoch = epoch]
<1>1. i \in Slots /\ slot[i].state = "free"
  BY LowestIsOne DEF Submit, In
<1>2. /\ slot' = [slot EXCEPT ![i] = new] /\ waiting' = FALSE /\ owner = "idle"
      /\ UNCHANGED <<mutex, stop, epoch, worker, local, owner, delivered>>
      /\ delivered[j] = None /\ \A k \in Slots : slot[k].job # j
  BY DEF Submit, Signal, Fresh, Held
<1>3. /\ new \in Slot /\ new.state = "pending" /\ new.job = j /\ new.epoch = epoch /\ new.result = None
      /\ j # None
  BY DEF Slot, Empty, TypeOK
<1>4. /\ slot' \in [Slots -> Slot] /\ slot'[i] = new
      /\ \A k \in Slots \ {i} : slot'[k] = slot[k]
  <2> HIDE DEF i, new
  <2> QED  BY <1>1, <1>2, <1>3 DEF TypeOK
<1> HIDE DEF i, new
<1>5. TypeOK'
  BY <1>2, <1>3, <1>4 DEF TypeOK
<1>6. OneHolder'
  BY <1>2, <1>3, <1>4 DEF OneHolder
<1>7. Epochs'
  <2>1. epoch \in Nat
    BY DEF TypeOK
  <2> QED  BY <1>2, <1>3, <1>4, <2>1 DEF Epochs
<1>8. Working' /\ Stopping'
  BY <1>1, <1>2, <1>3, <1>4 DEF Working, Busy, Stopping
<1> QED  BY <1>5, <1>6, <1>7, <1>8

LEMMA PollKeeps ==
    ASSUME Inv, Poll
    PROVE  Inv'
<1> USE InterpreterAssumption DEF Inv
<1> DEFINE i == Lowest(In("done"))
<1>1. i \in Slots /\ slot[i].state = "done"
  BY LowestIsOne DEF Poll, In
<1>2. /\ slot' = [slot EXCEPT ![i] = Empty]
      /\ delivered' = [delivered EXCEPT ![slot[i].job] = slot[i].result]
      /\ UNCHANGED <<mutex, waiting, stop, epoch, worker, local, owner>>
  BY DEF Poll
<1>3. /\ Empty \in Slot /\ Empty.state = "free" /\ Empty.job = None /\ Empty.epoch = 0 /\ Empty.result = None
      /\ slot[i].job \in Jobs /\ slot[i].result \in Results /\ slot[i].job # None
  <2>1. /\ Empty \in Slot /\ Empty.state = "free" /\ Empty.job = None /\ Empty.epoch = 0 /\ Empty.result = None
    BY DEF Slot, Empty
  <2>2. slot[i] \in Slot /\ slot[i].job # None /\ slot[i].result # None
    <3> HIDE DEF i
    <3>1. \A k \in Slots : /\ slot[k] \in Slot /\ (slot[k].state = "free" <=> slot[k].job = None)
                           /\ (slot[k].state = "done" <=> slot[k].result # None)
      BY Shape
    <3> QED  BY <1>1, <3>1
  <2> QED  BY <2>1, <2>2 DEF Slot
<1>4. /\ slot' \in [Slots -> Slot] /\ slot'[i] = Empty
      /\ \A k \in Slots \ {i} : slot'[k] = slot[k]
      /\ delivered' \in [Jobs -> Results \cup {None}]
      /\ \A j \in Jobs \ {slot[i].job} : delivered'[j] = delivered[j]
  <2> HIDE DEF i
  <2> QED  BY <1>1, <1>2, <1>3 DEF TypeOK
<1> HIDE DEF i
<1>5. TypeOK'
  BY <1>2, <1>3, <1>4 DEF TypeOK
<1>6. OneHolder'
  <2>1. \A k \in Slots : slot[k].job \in Jobs \cup {None}
    BY DEF TypeOK, Slot
  <2> QED  BY <1>1, <1>3, <1>4, <2>1 DEF OneHolder
<1>7. Epochs'
  <2>1. epoch \in Nat
    BY DEF TypeOK
  <2> QED  BY <1>2, <1>3, <1>4, <2>1 DEF Epochs
<1>8. Working' /\ Stopping'
  BY <1>1, <1>2, <1>3, <1>4 DEF Working, Busy, Stopping
<1> QED  BY <1>5, <1>6, <1>7, <1>8

LEMMA TakeKeeps ==
    ASSUME Inv, Take
    PROVE  Inv'
<1> USE InterpreterAssumption DEF Inv
<1> DEFINE i == Lowest(In("pending"))
           new == [slot[i] EXCEPT !.state = "running"]
<1>1. i \in Slots /\ slot[i].state = "pending"
  BY LowestIsOne DEF Take, In
<1>2. /\ slot' = [slot EXCEPT ![i].state = "running"]
      /\ local' = [at |-> i, epoch |-> slot[i].epoch, late |-> slot[i].late, result |-> None]
      /\ mutex' = None /\ worker = "scan" /\ worker' = "performing"
      /\ UNCHANGED <<waiting, stop, epoch, owner, delivered>>
  BY DEF Take
<1>3. /\ new \in Slot /\ new.state = "running" /\ new.job = slot[i].job /\ new.epoch = slot[i].epoch
      /\ new.result = slot[i].result /\ slot[i] \in Slot
  BY <1>1 DEF Slot, TypeOK
<1>4. /\ slot' \in [Slots -> Slot] /\ slot'[i] = new
      /\ \A k \in Slots \ {i} : slot'[k] = slot[k]
  BY <1>1, <1>2, <1>3 DEF TypeOK
<1> HIDE DEF i, new
<1>5. TypeOK'
  <2>1. local' \in [at: 0..Capacity, epoch: 0..MaxCancels, late: BOOLEAN, result: Results \cup {None}]
    BY <1>1, <1>2, <1>3 DEF Slots, Slot
  <2> QED  BY <1>1, <1>2, <1>3, <1>4, <2>1 DEF TypeOK
<1>6. OneHolder'
  BY <1>1, <1>2, <1>3, <1>4 DEF OneHolder
<1>7. Epochs'
  BY <1>1, <1>2, <1>3, <1>4 DEF Epochs
<1>8. Working' /\ Stopping'
  BY <1>1, <1>2, <1>3, <1>4 DEF Working, Busy, Stopping
<1> QED  BY <1>5, <1>6, <1>7, <1>8

LEMMA PublishKeeps ==
    ASSUME Inv, Publish
    PROVE  Inv'
<1> USE InterpreterAssumption DEF Inv
<1> DEFINE i == local.at
           new == [slot[i] EXCEPT !.result = Stored(local.result), !.state = "done"]
<1>1. /\ i \in Slots /\ slot[i].state = "running" /\ local.epoch = slot[i].epoch
      /\ local.result \in Results /\ Stored(local.result) \in Results
  BY DEF Publish, Working, Busy, Stored, Results
<1>2. /\ slot' = [slot EXCEPT ![i].result = Stored(local.result), ![i].state = "done"]
      /\ local' = Idle /\ mutex' = "worker" /\ worker' = "test"
      /\ UNCHANGED <<waiting, stop, epoch, owner, delivered>>
  BY DEF Publish
<1>3. /\ new \in Slot /\ new.state = "done" /\ new.job = slot[i].job /\ new.epoch = slot[i].epoch
      /\ new.result = Stored(local.result) /\ slot[i] \in Slot /\ slot[i].job # None
  <2>1. \A k \in Slots : slot[k] \in Slot /\ (slot[k].state = "free" <=> slot[k].job = None)
    BY Shape
  <2>2. slot[i] \in Slot /\ slot[i].job # None
    BY <1>1, <2>1
  <2>3. new \in Slot /\ new.state = "done" /\ new.job = slot[i].job /\ new.epoch = slot[i].epoch
        /\ new.result = Stored(local.result)
    BY <1>1, <2>2 DEF Slot
  <2> QED  BY <2>2, <2>3
<1>4. /\ slot' \in [Slots -> Slot] /\ slot'[i] = new
      /\ \A k \in Slots \ {i} : slot'[k] = slot[k]
  BY <1>1, <1>2, <1>3 DEF TypeOK
<1>9. slot[i].epoch # epoch => new.result = "cancelled"
  BY <1>1, <1>3 DEF Stored
<1> HIDE DEF i, new
<1>5. TypeOK'
  <2>1. local' \in [at: 0..Capacity, epoch: 0..MaxCancels, late: BOOLEAN, result: Results \cup {None}]
    BY <1>2 DEF Idle
  <2>2. new.result # None
    BY <1>1, <1>3
  <2> QED  BY <1>2, <1>3, <1>4, <2>1, <2>2 DEF TypeOK
<1>6. OneHolder'
  BY <1>1, <1>2, <1>3, <1>4 DEF OneHolder
<1>7. Epochs'
  BY <1>1, <1>2, <1>3, <1>4, <1>9 DEF Epochs
<1>8. Working' /\ Stopping'
  <2>1. \A k \in Slots : slot'[k].state # "running"
    BY <1>1, <1>3, <1>4 DEF Working, i
  <2> QED  BY <1>2, <2>1 DEF Working, Busy, Stopping
<1> QED  BY <1>5, <1>6, <1>7, <1>8

LEMMA LateKeeps ==
    ASSUME Inv, NEW i \in Slots, Late(i)
    PROVE  Inv'
<1> USE InterpreterAssumption DEF Inv
<1> DEFINE new == [slot[i] EXCEPT !.late = TRUE]
<1>1. /\ slot' = [slot EXCEPT ![i].late = TRUE]
      /\ UNCHANGED <<mutex, waiting, stop, epoch, worker, local, owner, delivered>>
  BY DEF Late
<1>2. /\ new \in Slot /\ new.state = slot[i].state /\ new.job = slot[i].job /\ new.epoch = slot[i].epoch
      /\ new.result = slot[i].result
  <2>1. slot[i] \in Slot
    BY DEF TypeOK
  <2> QED  BY <2>1 DEF Slot
<1>3. /\ slot' \in [Slots -> Slot] /\ slot'[i] = new
      /\ \A k \in Slots \ {i} : slot'[k] = slot[k]
  BY <1>1, <1>2 DEF TypeOK
<1> HIDE DEF new
<1>4. \A k \in Slots : /\ slot'[k].state = slot[k].state /\ slot'[k].job = slot[k].job
                       /\ slot'[k].epoch = slot[k].epoch /\ slot'[k].result = slot[k].result
  BY <1>2, <1>3
<1>5. TypeOK'
  BY <1>1, <1>3, <1>4 DEF TypeOK
<1> QED  BY <1>1, <1>4, <1>5 DEF OneHolder, Epochs, Working, Busy, Stopping

LEMMA CancelSlotsKeeps ==
    ASSUME Inv, CancelSlots
    PROVE  Inv'
<1> USE InterpreterAssumption DEF Inv
<1>1. /\ owner = "cancelling" /\ owner' = "idle"
      /\ UNCHANGED <<mutex, waiting, stop, epoch, worker, local, delivered>>
  BY DEF CancelSlots
<1>2. \A i \in Slots : slot[i] \in Slot /\ (slot[i].state = "free" <=> slot[i].job = None)
                       /\ (slot[i].state = "done" <=> slot[i].result # None)
  BY Shape
<1>3. \A i \in Slots :
         /\ slot'[i] \in Slot /\ slot'[i].job = slot[i].job /\ slot'[i].epoch = slot[i].epoch
         /\ slot[i].state \in {"free", "running"} => slot'[i] = slot[i]
         /\ slot[i].state \notin {"free", "running"} => slot'[i].state = "done" /\ slot'[i].result = "cancelled"
  BY <1>2 DEF CancelSlots, Cancellable, In, Slot, Results
<1>4. TypeOK'
  <2>1. slot' \in [Slots -> Slot]
    BY <1>3 DEF CancelSlots
  <2>2. \A i \in Slots : /\ slot'[i].state = "free" <=> slot'[i].job = None
                         /\ slot'[i].state = "done" <=> slot'[i].result # None
    BY <1>2, <1>3 DEF Results
  <2> QED  BY <1>1, <2>1, <2>2 DEF TypeOK
<1>5. OneHolder'
  BY <1>1, <1>3 DEF OneHolder
<1>6. Epochs'
  BY <1>1, <1>2, <1>3 DEF Epochs, Slot
<1>7. Working' /\ Stopping'
  BY <1>1, <1>3 DEF Working, Busy, Stopping
<1> QED  BY <1>4, <1>5, <1>6, <1>7

LEMMA PerformKeeps ==
    ASSUME Inv, Perform
    PROVE  Inv'
<1> USE InterpreterAssumption DEF Inv
<1>1. PICK r \in Results : Performed(r) /\ (r = "cancelled" => stop \/ local.epoch # epoch)
  BY DEF Perform, Interrupted, Expired, Answered, Answers, Results
<1>2. /\ worker = "performing" /\ worker' = "publishing" /\ local' = [local EXCEPT !.result = r]
      /\ UNCHANGED <<slot, mutex, waiting, stop, epoch, owner, delivered>>
  BY <1>1 DEF Performed
<1>3. /\ local' \in [at: 0..Capacity, epoch: 0..MaxCancels, late: BOOLEAN, result: Results \cup {None}]
      /\ local'.at = local.at /\ local'.epoch = local.epoch /\ local'.result = r
  BY <1>2 DEF TypeOK
<1>4. TypeOK'
  BY <1>2, <1>3 DEF TypeOK
<1>5. OneHolder' /\ Epochs' /\ Stopping'
  BY <1>2 DEF OneHolder, Epochs, Stopping
<1>6. Working'
  BY <1>1, <1>2, <1>3 DEF Working, Busy
<1> QED  BY <1>4, <1>5, <1>6

LEMMA StepKeeps == Inv /\ [Next]_vars => Inv'
<1> SUFFICES ASSUME Inv, [Next]_vars  PROVE Inv'
  OBVIOUS
<1>1. CASE UNCHANGED vars
  BY <1>1 DEF vars, Inv, TypeOK, OneHolder, Epochs, Working, Busy, Stopping
<1>2. CASE Owner
  BY <1>2, SubmitKeeps, PollKeeps, QuietKeeps, CancelSlotsKeeps DEF Owner
<1>3. CASE Worker
  BY <1>3, QuietKeeps, TakeKeeps, PerformKeeps, PublishKeeps DEF Worker
<1>4. CASE \E i \in Slots : Late(i)
  BY <1>4, LateKeeps
<1> QED  BY <1>1, <1>2, <1>3, <1>4 DEF Next

(* A job is in one slot, the worker publishes into the slot it took, and   *)
(* no job submitted before a cancel keeps another answer after it          *)
(* (interpreter.c, worker and rc_interpreter_cancel).                      *)
THEOREM Invariant == Spec => []Inv
BY InitHolds, StepKeeps, PTL DEF Spec

-----------------------------------------------------------------------------
(* The refinement.  fate is what the mapping makes of the jobs.            *)
fate == [j \in Jobs |-> FateOf(j)]

LEMMA FollowNext == Inv' => FatesFollow'
BY Follow, PTL

(* No job but k changes its fate in a step that leaves the other jobs in   *)
(* their slots, with their standing, and what was delivered of them.       *)
LEMMA OthersKeepFate ==
    ASSUME Inv, Inv', NEW k,
           \A j \in Jobs \ {k} : delivered'[j] = delivered[j],
           \A i \in Slots : slot[i].job \notin {None, k} =>
               slot'[i].job = slot[i].job /\ Standing(i)' = Standing(i),
           \A i \in Slots : slot'[i].job \notin {None, k} => slot[i].job = slot'[i].job
    PROVE  \A j \in Jobs \ {k} : FateOf(j)' = FateOf(j)
<1>1. FatesFollow /\ FatesFollow'
  BY Follow, FollowNext
<1>2. ASSUME NEW j \in Jobs \ {k}  PROVE FateOf(j)' = FateOf(j)
  <2>1. CASE \E i \in Slots : slot[i].job = j
    <3>1. PICK i \in Slots : slot[i].job = j
      BY <2>1
    <3>2. slot[i].job # None /\ slot'[i].job = j /\ Standing(i)' = Standing(i)
      BY <3>1, InterpreterAssumption
    <3>3. FateOf(j) = [polled |-> FALSE, is |-> Standing(i)]
      BY <1>1, <3>1, <3>2 DEF FatesFollow
    <3>4. FateOf(j)' = [polled |-> FALSE, is |-> Standing(i)']
      BY <1>1, <3>2, InterpreterAssumption DEF FatesFollow
    <3> QED  BY <3>2, <3>3, <3>4
  <2>2. CASE \A i \in Slots : slot[i].job # j
    <3>1. \A i \in Slots : slot'[i].job # j
      BY <2>2, InterpreterAssumption
    <3>2. delivered'[j] = delivered[j]
      OBVIOUS
    <3>3. FateOf(j) = IF delivered[j] # None THEN [polled |-> TRUE, is |-> delivered[j]]
                      ELSE [polled |-> FALSE, is |-> "new"]
      BY <1>1, <2>2 DEF FatesFollow
    <3>4. FateOf(j)' = IF delivered'[j] # None THEN [polled |-> TRUE, is |-> delivered'[j]]
                       ELSE [polled |-> FALSE, is |-> "new"]
      BY <1>1, <3>1 DEF FatesFollow
    <3> QED  BY <3>2, <3>3, <3>4
  <2> QED  BY <2>1, <2>2
<1> QED  BY <1>2

LEMMA StandingKeepsFate ==
    ASSUME Inv, Inv', UNCHANGED delivered,
           \A i \in Slots : slot'[i].job = slot[i].job /\ (slot[i].job # None => Standing(i)' = Standing(i))
    PROVE  UNCHANGED fate
<1>1. \A j \in Jobs \ {None} : FateOf(j)' = FateOf(j)
  BY OthersKeepFate
<1> QED  BY <1>1, InterpreterAssumption DEF fate

(* A record with one field changed.                                        *)
LEMMA Rewritten ==
    ASSUME NEW S, NEW T, NEW x \in [is : S, polled : T], NEW y \in [is : S, polled : T]
    PROVE  /\ \A f : y.is = f /\ y.polled = x.polled => y = [x EXCEPT !.is = f]
           /\ \A f : y.polled = f /\ y.is = x.is => y = [x EXCEPT !.polled = f]
OBVIOUS

(* A step that changes the fate of one job, as JobDesk writes it.          *)
LEMMA OneFate ==
    ASSUME NEW k \in Jobs, \A j \in Jobs \ {k} : FateOf(j)' = FateOf(j),
           NEW f, FateOf(k)' = [FateOf(k) EXCEPT !.is = f]
    PROVE  fate' = [fate EXCEPT ![k].is = f]
BY DEF fate

(* The steps JobDesk does not see.                                         *)
LEMMA QuietStutters ==
    ASSUME Inv, Inv', Lock \/ Test \/ Wait \/ Perform \/ DestroySignal \/ DestroyJoin
    PROVE  UNCHANGED <<fate, stop>>
<1>1. UNCHANGED <<slot, epoch, delivered, stop>>
  BY DEF Lock, Test, Wait, Perform, Interrupted, Expired, Answered, Performed, DestroySignal, DestroyJoin
<1> QED  BY <1>1, StandingKeepsFate DEF Standing

LEMMA TakeStutters ==
    ASSUME Inv, Inv', Take
    PROVE  UNCHANGED <<fate, stop>>
<1> DEFINE i == Lowest(In("pending"))
<1>1. i \in Slots /\ slot[i].state = "pending"
  BY LowestIsOne DEF Take, In
<1>2. slot' = [slot EXCEPT ![i].state = "running"] /\ UNCHANGED <<stop, epoch, delivered>>
  BY DEF Take
<1> HIDE DEF i
<1>3. \A k \in Slots : /\ slot'[k].job = slot[k].job /\ slot'[k].epoch = slot[k].epoch
                       /\ slot'[k].result = slot[k].result
                       /\ slot'[k].state = "done" <=> slot[k].state = "done"
  BY <1>1, <1>2, Shape DEF Inv, Slot, TypeOK
<1>4. \A k \in Slots : Standing(k)' = Standing(k)
  BY <1>2, <1>3 DEF Standing
<1> QED  BY <1>2, <1>3, <1>4, StandingKeepsFate

LEMMA LateStutters ==
    ASSUME Inv, Inv', NEW i \in Slots, Late(i)
    PROVE  UNCHANGED <<fate, stop>>
<1>1. slot' = [slot EXCEPT ![i].late = TRUE] /\ UNCHANGED <<stop, epoch, delivered>>
  BY DEF Late
<1>2. \A k \in Slots : /\ slot'[k].job = slot[k].job /\ slot'[k].epoch = slot[k].epoch
                       /\ slot'[k].result = slot[k].result /\ slot'[k].state = slot[k].state
  BY <1>1, Shape DEF Inv, Slot, TypeOK
<1>3. \A k \in Slots : Standing(k)' = Standing(k)
  BY <1>1, <1>2 DEF Standing
<1> QED  BY <1>1, <1>2, <1>3, StandingKeepsFate

(* Everything held is past already when the critical section of cancel     *)
(* writes the cancellations down.                                          *)
LEMMA CancelSlotsStutters ==
    ASSUME Inv, Inv', CancelSlots
    PROVE  UNCHANGED <<fate, stop>>
<1>1. owner = "cancelling" /\ UNCHANGED <<stop, epoch, delivered>>
  BY DEF CancelSlots
<1>2. \A k \in Slots : slot'[k].job = slot[k].job /\ slot'[k].epoch = slot[k].epoch
  BY Shape DEF Inv, CancelSlots, Slot
<1>3. \A k \in Slots : slot[k].job # None => slot[k].epoch # epoch
  BY <1>1 DEF Inv, Epochs
<1>4. \A k \in Slots : slot[k].job # None => Standing(k)' = Standing(k)
  BY <1>1, <1>2, <1>3 DEF Standing
<1> QED  BY <1>1, <1>2, <1>4, StandingKeepsFate

(* What is outstanding at the desk is what the slots hold.                 *)
LEMMA StandingIs ==
    ASSUME Inv, NEW i \in Slots, slot[i].job # None
    PROVE  slot[i].job \in Jobs /\ Standing(i) \in {"open", "cancelled"} \cup Answers
<1>1. slot[i] \in Slot /\ (slot[i].state = "done" <=> slot[i].result # None)
  BY Shape DEF Inv
<1> QED  BY <1>1 DEF Standing, Slot, Results

LEMMA OutstandingIsHeld ==
    Inv => \A j \in Jobs : j \in Desk!Outstanding <=> \E i \in Slots : slot[i].job = j
<1> SUFFICES ASSUME Inv, NEW j \in Jobs
             PROVE  j \in Desk!Outstanding <=> \E i \in Slots : slot[i].job = j
  OBVIOUS
<1>0. j \in Desk!Outstanding <=> FateOf(j).is # "new" /\ ~FateOf(j).polled
  BY DEF Desk!Outstanding
<1>1. FatesFollow
  BY Follow
<1>2. ASSUME NEW i \in Slots, slot[i].job = j  PROVE j \in Desk!Outstanding
  <2>1. slot[i].job # None
    BY <1>2, InterpreterAssumption
  <2>2. FateOf(j) = [polled |-> FALSE, is |-> Standing(i)] /\ Standing(i) # "new"
    BY <1>1, <1>2, <2>1, StandingIs DEF FatesFollow, Answers
  <2> QED  BY <1>0, <2>2
<1>3. ASSUME \A i \in Slots : slot[i].job # j  PROVE j \notin Desk!Outstanding
  <2>1. FateOf(j) = IF delivered[j] # None THEN [polled |-> TRUE, is |-> delivered[j]]
                    ELSE [polled |-> FALSE, is |-> "new"]
    BY <1>1, <1>3 DEF FatesFollow
  <2> QED  BY <1>0, <2>1
<1> QED  BY <1>2, <1>3

LEMMA FateType ==
    Inv => \A j \in Jobs : FateOf(j) \in [is : Desk!Fates, polled : BOOLEAN]
<1> SUFFICES ASSUME Inv, NEW j \in Jobs  PROVE FateOf(j) \in [is : Desk!Fates, polled : BOOLEAN]
  OBVIOUS
<1>1. FatesFollow
  BY Follow
<1>2. CASE \E i \in Slots : slot[i].job = j
  <2>1. PICK i \in Slots : slot[i].job = j /\ j # None
    BY <1>2, InterpreterAssumption
  <2>2. FateOf(j) = [polled |-> FALSE, is |-> Standing(i)]
    BY <1>1, <2>1 DEF FatesFollow
  <2> QED  BY <2>1, <2>2, StandingIs DEF Answers, Desk!Fates, Desk!Answers
<1>3. CASE \A i \in Slots : slot[i].job # j
  <2>1. FateOf(j) = IF delivered[j] # None THEN [polled |-> TRUE, is |-> delivered[j]]
                    ELSE [polled |-> FALSE, is |-> "new"]
    BY <1>1, <1>3 DEF FatesFollow
  <2>2. delivered[j] \in Results \cup {None}
    BY DEF Inv, TypeOK
  <2> QED  BY <2>1, <2>2 DEF Results, Answers, Desk!Fates, Desk!Answers
<1> QED  BY <1>2, <1>3

LEMMA FateTypeNext ==
    Inv' => \A j \in Jobs : FateOf(j)' \in [is : Desk!Fates, polled : BOOLEAN]
<1> DEFINE Typed == \A j \in Jobs : FateOf(j) \in [is : Desk!Fates, polled : BOOLEAN]
<1>1. Inv => Typed
  BY FateType
<1>2. Inv' => Typed'
  BY <1>1, PTL
<1> QED  BY <1>2

(* A free slot is room for one more.                                       *)
LEMMA Room ==
    ASSUME Inv, NEW f \in Slots, slot[f].job = None
    PROVE  Cardinality(Desk!Outstanding) < Capacity
<1> DEFINE O == Desk!Outstanding
           at == [j \in O |-> CHOOSE i \in Slots : slot[i].job = j]
<1>1. O \subseteq Jobs
  BY DEF Desk!Outstanding
<1>2. \A j \in O : at[j] \in Slots \ {f} /\ slot[at[j]].job = j
  BY <1>1, OutstandingIsHeld, InterpreterAssumption
<1>3. at \in Injection(O, Slots \ {f})
  BY <1>2 DEF Injection, IsInjective
<1>4. IsFiniteSet(Slots) /\ Cardinality(Slots) = Capacity
  BY FS_Interval, InterpreterAssumption DEF Slots
<1>5. IsFiniteSet(Slots \ {f}) /\ Cardinality(Slots \ {f}) = Capacity - 1
  BY <1>4, FS_RemoveElement
<1> HIDE DEF O, at
<1>6. IsFiniteSet(O) /\ Cardinality(O) <= Capacity - 1
  BY <1>3, <1>5, FS_Injection
<1>7. Cardinality(O) \in Nat
  BY <1>6, FS_CardinalityType
<1> QED  BY <1>6, <1>7, InterpreterAssumption DEF O

(* The steps JobDesk sees.                                                 *)
LEMMA SubmitMaps ==
    ASSUME Inv, Inv', NEW j \in Jobs, Submit(j)
    PROVE  Desk!Submit(j)
<1> DEFINE New == [Empty EXCEPT !.state = "pending", !.job = j, !.epoch = epoch]
<1>1. PICK i \in Slots : slot[i].state = "free" /\ slot' = [slot EXCEPT ![i] = New]
  BY LowestIsOne DEF Submit, In
<1>2. /\ owner = "idle" /\ UNCHANGED <<stop, epoch, delivered>>
      /\ delivered[j] = None /\ \A k \in Slots : slot[k].job # j
  BY DEF Submit, Fresh, Held
<1>3. New.state = "pending" /\ New.job = j /\ New.epoch = epoch /\ j # None
  BY InterpreterAssumption DEF Empty
<1>4. /\ slot'[i].state = "pending" /\ slot'[i].job = j /\ slot'[i].epoch = epoch
      /\ \A k \in Slots \ {i} : slot'[k] = slot[k]
  BY <1>1, <1>3 DEF Inv, TypeOK
<1> HIDE DEF New
<1>5. ~stop /\ slot[i].job = None
  BY <1>1, <1>2, Shape DEF Inv, Stopping
<1>6. FatesFollow /\ FatesFollow'
  BY Follow, FollowNext
<1>7. FateOf(j) = [polled |-> FALSE, is |-> "new"]
  BY <1>2, <1>6 DEF FatesFollow
<1>8. FateOf(j)' = [polled |-> FALSE, is |-> "open"]
  <2>1. FateOf(j)' = [polled |-> FALSE, is |-> Standing(i)'] /\ j # None
    BY <1>1, <1>3, <1>4, <1>6 DEF FatesFollow
  <2> QED  BY <1>2, <1>3, <1>4, <2>1 DEF Standing
<1>9. \A k \in Jobs \ {j} : FateOf(k)' = FateOf(k)
  <2>1. \A k \in Slots : slot[k].job # None =>
            slot'[k].job = slot[k].job /\ Standing(k)' = Standing(k)
    BY <1>2, <1>4, <1>5 DEF Standing
  <2>2. \A k \in Slots : slot'[k].job \notin {None, j} => slot[k].job = slot'[k].job
    BY <1>3, <1>4
  <2> QED  BY <1>2, <2>1, <2>2, OthersKeepFate
<1>10. Desk!Cardinality(Desk!Outstanding) < Capacity
  <2>1. Desk!Cardinality(Desk!Outstanding) = Cardinality(Desk!Outstanding)
    BY Zenon DEF Desk!Cardinality, Cardinality
  <2> QED  BY <1>1, <1>5, <2>1, Room
<1>11. fate' = [fate EXCEPT ![j].is = "open"]
  <2>1. FateOf(j) \in [is : Desk!Fates, polled : BOOLEAN] /\ FateOf(j)' \in [is : Desk!Fates, polled : BOOLEAN]
    BY FateType, FateTypeNext
  <2>2. FateOf(j)'.is = "open" /\ FateOf(j)'.polled = FateOf(j).polled
    BY <1>7, <1>8
  <2>3. FateOf(j)' = [FateOf(j) EXCEPT !.is = "open"]
    BY <2>1, <2>2, Rewritten
  <2> QED  BY <1>9, <2>3, OneFate
<1>12. fate[j].is = "new"
  BY <1>7 DEF fate
<1> QED  BY <1>2, <1>5, <1>10, <1>11, <1>12 DEF Desk!Submit, Desk!Set, fate

LEMMA PollMaps ==
    ASSUME Inv, Inv', Poll
    PROVE  \E j \in Jobs : Desk!Poll(j)
<1>1. PICK i \in Slots :
         /\ slot[i].state = "done" /\ slot' = [slot EXCEPT ![i] = Empty]
         /\ delivered' = [delivered EXCEPT ![slot[i].job] = slot[i].result]
  BY LowestIsOne DEF Poll, In
<1>2. owner = "idle" /\ UNCHANGED <<stop, epoch>>
  BY DEF Poll
<1>3. PICK j \in Jobs, r \in Results :
         slot[i].job = j /\ slot[i].result = r /\ j # None /\ r # None
  <2>1. slot[i] \in Slot /\ slot[i].job # None /\ slot[i].result # None
    BY <1>1, Shape DEF Inv
  <2> QED  BY <2>1 DEF Slot
<1>4. /\ slot'[i] = Empty /\ \A k \in Slots \ {i} : slot'[k] = slot[k]
      /\ delivered'[j] = r /\ \A k \in Jobs \ {j} : delivered'[k] = delivered[k]
  BY <1>1, <1>2, <1>3 DEF Inv, TypeOK
<1>5. FatesFollow /\ FatesFollow'
  BY Follow, FollowNext
<1>6. Standing(i) = r
  BY <1>1, <1>2, <1>3 DEF Inv, Epochs, Standing
<1>7. FateOf(j) = [polled |-> FALSE, is |-> r]
  BY <1>1, <1>3, <1>5, <1>6 DEF FatesFollow
<1>8. FateOf(j)' = [polled |-> TRUE, is |-> r]
  <2>1. \A k \in Slots : slot'[k].job # j
    BY <1>1, <1>3, <1>4 DEF Inv, OneHolder, Empty
  <2> QED  BY <1>3, <1>4, <1>5, <2>1 DEF FatesFollow
<1>9. \A k \in Jobs \ {j} : FateOf(k)' = FateOf(k)
  <2>1. \A k \in Slots : slot[k].job \notin {None, j} =>
            slot'[k].job = slot[k].job /\ Standing(k)' = Standing(k)
    BY <1>2, <1>3, <1>4 DEF Standing
  <2>2. \A k \in Slots : slot'[k].job \notin {None, j} => slot[k].job = slot'[k].job
    BY <1>4 DEF Empty
  <2> QED  BY <1>4, <2>1, <2>2, OthersKeepFate
<1>10. ~stop /\ j \in Desk!Outstanding
  BY <1>1, <1>2, <1>3, OutstandingIsHeld DEF Inv, Stopping
<1>11. fate' = [fate EXCEPT ![j].polled = TRUE]
  <2>1. FateOf(j) \in [is : Desk!Fates, polled : BOOLEAN] /\ FateOf(j)' \in [is : Desk!Fates, polled : BOOLEAN]
    BY FateType, FateTypeNext
  <2>2. FateOf(j)'.polled = TRUE /\ FateOf(j)'.is = FateOf(j).is
    BY <1>7, <1>8
  <2>3. FateOf(j)' = [FateOf(j) EXCEPT !.polled = TRUE]
    BY <2>1, <2>2, Rewritten
  <2> QED  BY <1>9, <2>3 DEF fate
<1>12. fate[j].is # "open"
  BY <1>3, <1>7 DEF fate, Results, Answers
<1>13. Desk!Poll(j)
  BY <1>2, <1>10, <1>11, <1>12 DEF Desk!Poll, fate
<1> QED  BY <1>3, <1>13

(* An answer in time is an answer, one interrupted by the shutdown an      *)
(* interruption, and one to a past job is no news.                         *)
LEMMA PublishMaps ==
    ASSUME Inv, Inv', Publish
    PROVE  \/ UNCHANGED <<fate, stop>>
           \/ \E j \in Jobs : Desk!Answer(j) \/ Desk!Interrupt(j)
<1>1. PICK i \in Slots, r \in Results :
         /\ i = local.at /\ r = local.result /\ local.epoch = slot[i].epoch /\ slot[i].state = "running"
         /\ r = "cancelled" => stop \/ slot[i].epoch # epoch
  BY DEF Inv, Publish, Working, Busy
<1>2. UNCHANGED <<stop, epoch, delivered>>
  BY DEF Publish
<1>3. PICK j \in Jobs : slot[i].job = j /\ j # None
  <2>1. slot[i] \in Slot /\ slot[i].job # None
    BY <1>1, Shape DEF Inv
  <2> QED  BY <2>1 DEF Slot
<1>4. /\ slot'[i].state = "done" /\ slot'[i].result = Stored(r)
      /\ \A k \in Slots : slot'[k].job = slot[k].job /\ slot'[k].epoch = slot[k].epoch
      /\ \A k \in Slots \ {i} : slot'[k] = slot[k]
  <2>1. slot' = [slot EXCEPT ![i].result = Stored(r), ![i].state = "done"]
    BY <1>1 DEF Publish
  <2> QED  BY <2>1, Shape DEF Inv, TypeOK, Slot
<1>5. \A k \in Slots \ {i} : Standing(k)' = Standing(k)
  BY <1>2, <1>4 DEF Standing
<1>6. CASE slot[i].epoch # epoch
  <2>1. Standing(i)' = Standing(i)
    BY <1>2, <1>4, <1>6 DEF Standing
  <2> QED  BY <1>2, <1>4, <1>5, <2>1, StandingKeepsFate
<1>7. CASE slot[i].epoch = epoch
  <2>1. Standing(i) = "open" /\ Standing(i)' = r
    BY <1>1, <1>2, <1>4, <1>7 DEF Standing, Stored
  <2>2. FateOf(j) = [polled |-> FALSE, is |-> "open"]
    BY <1>3, <2>1, Follow DEF FatesFollow
  <2>3. FateOf(j)' = [polled |-> FALSE, is |-> r]
    <3>1. FateOf(j)' = [polled |-> FALSE, is |-> Standing(i)']
      BY <1>3, <1>4, FollowNext DEF FatesFollow
    <3> QED  BY <2>1, <3>1
  <2>4. \A k \in Jobs \ {j} : FateOf(k)' = FateOf(k)
    <3>1. \A k \in Slots : slot[k].job \notin {None, j} =>
              slot'[k].job = slot[k].job /\ Standing(k)' = Standing(k)
      BY <1>3, <1>4, <1>5
    <3> QED  BY <1>2, <1>4, <3>1, OthersKeepFate
  <2>5. fate[j].is = "open" /\ fate' = [fate EXCEPT ![j].is = r]
    <3>1. FateOf(j) \in [is : Desk!Fates, polled : BOOLEAN] /\ FateOf(j)' \in [is : Desk!Fates, polled : BOOLEAN]
      BY FateType, FateTypeNext
    <3>2. FateOf(j)'.is = r /\ FateOf(j)'.polled = FateOf(j).polled
      BY <2>2, <2>3
    <3>3. FateOf(j)' = [FateOf(j) EXCEPT !.is = r]
      BY <3>1, <3>2, Rewritten
    <3>4. fate[j].is = "open"
      BY <2>2 DEF fate
    <3> QED  BY <2>4, <3>3, <3>4, OneFate
  <2>6. CASE r = "cancelled"
    <3>1. stop
      BY <1>1, <1>7, <2>6
    <3>2. Desk!Interrupt(j)
      BY <1>2, <2>5, <2>6, <3>1 DEF Desk!Interrupt, Desk!Set, fate
    <3> QED  BY <3>2
  <2>7. CASE r # "cancelled"
    <3>1. r \in Desk!Answers
      BY <2>7 DEF Results, Answers, Desk!Answers
    <3>2. Desk!Answer(j)
      BY <1>2, <2>5, <3>1 DEF Desk!Answer, Desk!Set, fate
    <3> QED  BY <3>2
  <2> QED  BY <2>6, <2>7
<1> QED  BY <1>6, <1>7

(* The epoch's increment is the cancellation of everything outstanding.    *)
LEMMA CancelMaps ==
    ASSUME Inv, Inv', CancelBegin
    PROVE  Desk!Cancel
<1>1. /\ owner = "idle" /\ owner' = "cancelling" /\ UNCHANGED <<slot, stop, delivered>>
  BY DEF CancelBegin
<1>2. FatesFollow /\ FatesFollow'
  BY Follow, FollowNext
<1>3. ASSUME NEW j \in Jobs
      PROVE  FateOf(j)' = IF j \in Desk!Outstanding THEN [FateOf(j) EXCEPT !.is = "cancelled"] ELSE FateOf(j)
  <2>1. CASE \E i \in Slots : slot[i].job = j
    <3>1. PICK i \in Slots : slot[i].job = j /\ j # None
      BY <2>1, InterpreterAssumption
    <3>2. Standing(i)' = "cancelled"
      BY <1>1, <3>1 DEF Inv, Epochs, Standing
    <3>3. FateOf(j) = [polled |-> FALSE, is |-> Standing(i)]
      BY <1>2, <3>1 DEF FatesFollow
    <3>4. FateOf(j)' = [polled |-> FALSE, is |-> "cancelled"]
      <4>1. FateOf(j)' = [polled |-> FALSE, is |-> Standing(i)']
        BY <1>1, <1>2, <3>1 DEF FatesFollow
      <4> QED  BY <3>2, <4>1
    <3>5. FateOf(j) \in [is : Desk!Fates, polled : BOOLEAN] /\ FateOf(j)' \in [is : Desk!Fates, polled : BOOLEAN]
      BY FateType, FateTypeNext
    <3>6. FateOf(j)'.is = "cancelled" /\ FateOf(j)'.polled = FateOf(j).polled
      BY <3>3, <3>4
    <3>7. FateOf(j)' = [FateOf(j) EXCEPT !.is = "cancelled"]
      BY <3>5, <3>6, Rewritten
    <3> QED  BY <2>1, <3>7, OutstandingIsHeld
  <2>2. CASE \A i \in Slots : slot[i].job # j
    <3>1. FateOf(j)' = FateOf(j)
      BY <1>1, <1>2, <2>2 DEF FatesFollow
    <3> QED  BY <2>2, <3>1, OutstandingIsHeld
  <2> QED  BY <2>1, <2>2
<1>4. ~stop
  BY <1>1 DEF Inv, Stopping
<1>5. fate' = [j \in Jobs |-> IF j \in Desk!Outstanding THEN [fate[j] EXCEPT !.is = "cancelled"] ELSE fate[j]]
  BY <1>3 DEF fate
<1> QED  BY <1>1, <1>4, <1>5 DEF Desk!Cancel, fate

LEMMA CloseMaps ==
    ASSUME Inv, Inv', DestroyStop
    PROVE  Desk!Close
<1>1. UNCHANGED <<slot, epoch, delivered>> /\ ~stop /\ stop'
  BY DEF DestroyStop, Inv, Stopping
<1>2. UNCHANGED fate
  BY <1>1, StandingKeepsFate DEF Standing
<1> QED  BY <1>1, <1>2 DEF Desk!Close, fate

LEMMA StepMaps ==
    ASSUME Inv, Inv', [Next]_vars
    PROVE  Desk!Next \/ UNCHANGED <<fate, stop>>
<1>1. CASE UNCHANGED vars
  <2>1. UNCHANGED <<slot, epoch, delivered, stop>>
    BY <1>1 DEF vars
  <2> QED  BY <2>1, StandingKeepsFate DEF Standing
<1>2. CASE Owner
  <2>1. CASE \E j \in Jobs : Submit(j)
    BY <2>1, SubmitMaps DEF Desk!Next
  <2>2. CASE Poll
    BY <2>2, PollMaps DEF Desk!Next
  <2>3. CASE CancelBegin
    BY <2>3, CancelMaps DEF Desk!Next
  <2>4. CASE DestroyStop
    BY <2>4, CloseMaps DEF Desk!Next
  <2> QED  BY <1>2, <2>1, <2>2, <2>3, <2>4, CancelSlotsStutters, QuietStutters DEF Owner
<1>3. CASE Worker
  <2>1. CASE Publish
    BY <2>1, PublishMaps DEF Desk!Next
  <2> QED  BY <1>3, <2>1, TakeStutters, QuietStutters DEF Worker
<1>4. CASE \E i \in Slots : Late(i)
  BY <1>4, LateStutters
<1> QED  BY <1>1, <1>2, <1>3, <1>4 DEF Next

LEMMA InitMaps == Init => Desk!Init
<1> SUFFICES ASSUME Init  PROVE Desk!Init
  OBVIOUS
<1>1. \A j \in Jobs : j \notin Held /\ delivered[j] = None
  BY InterpreterAssumption DEF Init, Held, Empty
<1>2. \A j \in Jobs : FateOf(j) = [polled |-> FALSE, is |-> "new"]
  BY <1>1 DEF FateOf
<1>3. ~stop
  BY DEF Init
<1> QED  BY <1>2, <1>3 DEF Init, Desk!Init

(* The interpreter with its worker, its mutex and its epoch does what      *)
(* interpreter.h promises: capacity counts unpolled answers, cancel is one *)
(* step to its caller whatever the worker is doing, a cancellation is      *)
(* terminal, and only the shutdown interrupts a job nobody cancelled.      *)
THEOREM Implements == Spec => ImplementsDesk
<1>1. Inv /\ Inv' /\ [Next]_vars => [Desk!Next]_(Desk!vars)
  BY StepMaps DEF Desk!vars, fate
<1> QED  BY <1>1, InitMaps, Invariant, PTL DEF Spec, ImplementsDesk, Desk!Spec
=============================================================================
