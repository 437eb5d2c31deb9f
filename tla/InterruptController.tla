------------------------- MODULE InterruptController -------------------------
(***************************************************************************)
(* What the interrupt hardware of the DGC-32 promises its guest program,   *)
(* without the ring in memory, the lock or the threads: interrupts wait in *)
(* one line; events of the machine join at the back and faults of the      *)
(* running instruction at the front; the one at the front is delivered     *)
(* when nothing is being handled, critical ones even while interrupts are  *)
(* suspended.  One arrival too many empties the line: the ring of          *)
(* InterruptUnit cannot tell a full ring from an empty one.                *)
(***************************************************************************)
EXTENDS Naturals, Sequences

CONSTANTS
    Interrupt,      \* the interrupts that can be raised
    Critical,       \* those delivered even while interrupts are suspended
    Capacity,       \* how many can wait
    None            \* nothing is being handled

VARIABLES
    pending,        \* the waiting interrupts, the next one first
    handling,       \* the interrupt whose handler runs, or None
    suspended       \* the program suspended interrupts

vars == <<pending, handling, suspended>>

Init ==
    /\ pending = <<>>
    /\ handling = None
    /\ suspended = FALSE

(* A thread of the machine raises interrupt i. *)
PostBack(i) ==
    /\ pending' = IF Len(pending) = Capacity THEN <<>> ELSE Append(pending, i)
    /\ UNCHANGED <<handling, suspended>>

(* The running instruction faults with interrupt i. *)
PostFront(i) ==
    /\ pending' = IF Len(pending) = Capacity THEN <<>> ELSE <<i>> \o pending
    /\ UNCHANGED <<handling, suspended>>

(* The processor leaves the program for the handler of the first interrupt. *)
Deliver ==
    /\ handling = None
    /\ pending # <<>>
    /\ suspended => Head(pending) \in Critical
    /\ handling' = Head(pending)
    /\ pending' = Tail(pending)
    /\ UNCHANGED suspended

(* The handler returns to the interrupted program. *)
Finish ==
    /\ handling' = None
    /\ UNCHANGED <<pending, suspended>>

(* The handler, or the program, lets interrupts in again. *)
Resume ==
    /\ handling' = None
    /\ suspended' = FALSE
    /\ UNCHANGED pending

Suspend ==
    /\ suspended' = TRUE
    /\ UNCHANGED <<pending, handling>>

Next ==
    \/ \E i \in Interrupt : PostBack(i) \/ PostFront(i)
    \/ Deliver \/ Finish \/ Resume \/ Suspend

Spec == Init /\ [][Next]_vars
=============================================================================
