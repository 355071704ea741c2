------------------------------- MODULE JobDesk -------------------------------
(***************************************************************************)
(* What core/include/recursant/interpreter.h promises the owner of the     *)
(* interpreter, with no threads in it: at most Capacity jobs outstanding,  *)
(* unpolled answers included; cancelling is one step that turns everything *)
(* outstanding into a cancellation, answers already there included; and a  *)
(* cancellation is terminal.                                               *)
(***************************************************************************)
EXTENDS Naturals, FiniteSets

CONSTANTS Jobs, Capacity

Answers == {"valid", "rejected", "timeout"}

VARIABLES
    fate,     \* what has become of each job
    closing   \* the owner is destroying the interpreter

vars == <<fate, closing>>

Fates == {"new", "open", "cancelled"} \cup Answers

(* A delivered job keeps its fate, marked as polled. *)
JobDeskTypeOK ==
    /\ fate \in [Jobs -> [is: Fates, polled: BOOLEAN]]
    /\ closing \in BOOLEAN

Outstanding == {j \in Jobs : fate[j].is # "new" /\ ~fate[j].polled}

Set(j, f) == fate' = [fate EXCEPT ![j].is = f]

Submit(j) ==
    /\ ~closing /\ fate[j].is = "new" /\ Cardinality(Outstanding) < Capacity
    /\ Set(j, "open")
    /\ UNCHANGED closing

Answer(j) ==
    /\ fate[j].is = "open" /\ \E a \in Answers : Set(j, a)
    /\ UNCHANGED closing

Cancel ==
    /\ ~closing
    /\ fate' = [j \in Jobs |->
           IF j \in Outstanding THEN [fate[j] EXCEPT !.is = "cancelled"] ELSE fate[j]]
    /\ UNCHANGED closing

Poll(j) ==
    /\ ~closing /\ j \in Outstanding /\ fate[j].is # "open"
    /\ fate' = [fate EXCEPT ![j].polled = TRUE]
    /\ UNCHANGED closing

(* Shutdown interrupts active work. *)
Close == ~closing /\ closing' = TRUE /\ UNCHANGED fate

Interrupt(j) ==
    /\ closing /\ fate[j].is = "open" /\ Set(j, "cancelled")
    /\ UNCHANGED closing

Init ==
    /\ fate = [j \in Jobs |-> [is |-> "new", polled |-> FALSE]]
    /\ closing = FALSE

Next ==
    \/ Cancel \/ Close
    \/ \E j \in Jobs : Submit(j) \/ Answer(j) \/ Poll(j) \/ Interrupt(j)

Spec == Init /\ [][Next]_vars
=============================================================================
