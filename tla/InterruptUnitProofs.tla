------------------------- MODULE InterruptUnitProofs -------------------------
(***************************************************************************)
(* Theorems about InterruptUnit, for every number of threads, every ring   *)
(* size and every set of interrupts.                                       *)
(***************************************************************************)
EXTENDS InterruptUnit, SequenceTheorems, TLAPS

USE ThreadAssumption, QueueSizeAssumption, InterruptAssumption, TableAssumption
USE DEF ThreadAssumption, QueueSizeAssumption, InterruptAssumption, TableAssumption

(* The inductive invariant: the types need the mutex (an argument is an     *)
(* interrupt inside an enqueue), the mutex needs the types.                 *)
IInv == TypeOK /\ MutexInv

-----------------------------------------------------------------------------
(* The ring's index arithmetic stays inside the ring. *)
LEMMA SlotStep ==
    ASSUME NEW s \in Slot
    PROVE  NextSlot(s) \in Slot /\ PreviousSlot(s) \in Slot
  BY SMT DEF Slot, NextSlot, PreviousSlot

LEMMA InitIInv == Init => IInv
  <1> SUFFICES ASSUME Init PROVE TypeOK /\ MutexInv
    BY DEF IInv
  <1>1. TypeOK
    <2>1. 0 \in Slot
      BY DEF Slot
    <2>2. /\ step \in [Caller -> {"idle", "locked", "written", "moved"}]
          /\ argument \in [Caller -> Interrupt \cup {None}]
      BY DEF Init
    <2> QED BY <2>1, <2>2 DEF Init, TypeOK
  <1>2. MutexInv
    BY DEF Init, MutexInv, Caller
  <1> QED BY <1>1, <1>2

(* A thread inside an enqueue holds the mutex and carries an interrupt. *)
LEMMA InsideEnqueue ==
    ASSUME IInv, NEW t \in Caller, step[t] # "idle"
    PROVE  /\ interruptAccessMutex = t
           /\ argument[t] \in Interrupt
           /\ \A u \in Caller \ {t} : step[u] = "idle"
  BY DEF IInv, MutexInv, TypeOK

LEMMA BeginEnqueueIInv ==
    ASSUME IInv, NEW t \in Caller, NEW i \in Interrupt, BeginEnqueue(t, i),
           t = CPU => cpuPhase # "detect"
    PROVE  IInv'
  <1> USE DEF IInv, BeginEnqueue, Lock, ring, status
  <1>1. TypeOK'
    BY DEF TypeOK
  <1>2. MutexInv'
    BY DEF TypeOK, MutexInv, Caller
  <1> QED BY <1>1, <1>2

LEMMA WriteHeadSlotIInv ==
    ASSUME IInv, NEW t \in Caller, WriteHeadSlot(t)
    PROVE  IInv'
  <1> USE DEF IInv, WriteHeadSlot, status
  <1>0. argument[t] \in Interrupt
    BY InsideEnqueue
  <1>1. TypeOK'
    BY <1>0 DEF TypeOK
  <1>2. MutexInv'
    BY DEF TypeOK, MutexInv, Caller
  <1> QED BY <1>1, <1>2

LEMMA AdvanceHeadIInv ==
    ASSUME IInv, NEW t \in Caller, AdvanceHead(t)
    PROVE  IInv'
  <1> USE DEF IInv, AdvanceHead, AfterAccess, status
  <1>0. NextSlot(interruptHead) \in Slot
    BY SlotStep DEF TypeOK
  <1>1. TypeOK'
    BY <1>0 DEF TypeOK
  <1>2. MutexInv'
    BY DEF TypeOK, MutexInv, Caller
  <1> QED BY <1>1, <1>2

LEMMA MoveTailIInv ==
    ASSUME IInv, MoveTail
    PROVE  IInv'
  <1> USE DEF IInv, MoveTail, Lock, status
  <1>0. PreviousSlot(interruptTail) \in Slot
    BY SlotStep DEF TypeOK
  <1>1. PICK i \in Interrupt : argument' = [argument EXCEPT ![CPU] = i]
    BY DEF Interrupt
  <1>2. TypeOK'
    BY <1>0, <1>1 DEF TypeOK, Caller
  <1>3. MutexInv'
    BY <1>1 DEF TypeOK, MutexInv, Caller
  <1> QED BY <1>2, <1>3

LEMMA WriteTailSlotIInv ==
    ASSUME IInv, WriteTailSlot
    PROVE  IInv'
  <1> USE DEF IInv, WriteTailSlot, AfterAccess, status
  <1>0. argument[CPU] \in Interrupt
    BY InsideEnqueue DEF Caller
  <1>1. TypeOK'
    BY <1>0 DEF TypeOK
  <1>2. MutexInv'
    BY DEF TypeOK, MutexInv, Caller
  <1> QED BY <1>1, <1>2

LEMMA DetectInterruptIInv ==
    ASSUME IInv, detectInterrupt
    PROVE  IInv'
  <1> USE DEF IInv, detectInterrupt, KeepRunning, EnterHandler, callers
  <1>0. peekInterrupt \in Interrupt /\ NextSlot(interruptTail) \in Slot
    BY SlotStep DEF TypeOK, peekInterrupt
  <1>1. TypeOK'
    BY <1>0 DEF TypeOK
  <1>2. MutexInv'
    BY <1>0 DEF TypeOK, MutexInv, Caller, NothingToDeliver
  <1> QED BY <1>1, <1>2

LEMMA ExecuteIInv ==
    ASSUME IInv, Execute
    PROVE  IInv'
  <1> USE DEF IInv, Instruction, ring, callers, status
  <1>1. TypeOK'
    BY DEF TypeOK, Execute, ExecuteOther, SuspendInterrupts, ResumeInterrupts,
           FinishInterrupt, SetReturnAddress, SetInterruptTable
  <1>2. MutexInv'
    BY DEF TypeOK, MutexInv, Caller, Execute, ExecuteOther, SuspendInterrupts,
           ResumeInterrupts, FinishInterrupt, SetReturnAddress, SetInterruptTable
  <1> QED BY <1>1, <1>2

LEMMA NextIInv == IInv /\ [Next]_vars => IInv'
  <1> SUFFICES ASSUME IInv, [Next]_vars PROVE IInv'
    OBVIOUS
  <1>1. ASSUME NEW t \in Thread, DeviceRaises(t) PROVE IInv'
    BY <1>1, BeginEnqueueIInv DEF DeviceRaises, Caller, Interrupt
  <1>2. CASE CpuEnqueues
    BY <1>2, BeginEnqueueIInv DEF CpuEnqueues, Enqueued, Caller, Interrupt
  <1>3. CASE detectInterrupt
    BY <1>3, DetectInterruptIInv
  <1>4. CASE Execute
    BY <1>4, ExecuteIInv
  <1>5. CASE MoveTail \/ WriteTailSlot
    BY <1>5, MoveTailIInv, WriteTailSlotIInv
  <1>6. ASSUME NEW t \in Caller, CompleteEnqueue(t) PROVE IInv'
    BY <1>6, WriteHeadSlotIInv, AdvanceHeadIInv DEF CompleteEnqueue
  <1>7. CASE UNCHANGED vars
    BY <1>7 DEF vars, ring, status, callers, IInv, TypeOK, MutexInv
  <1> QED
    BY <1>1, <1>2, <1>3, <1>4, <1>5, <1>6, <1>7 DEF Next, cpuThreadFunction

LEMMA SpecIInv == Spec => []IInv
  BY InitIInv, NextIInv, PTL DEF Spec

(* Every variable of the unit keeps its type; above all, the head and the  *)
(* tail stay inside the ring whatever the threads do.                      *)
THEOREM TypeCorrect == Spec => []TypeOK
  BY SpecIInv, PTL DEF IInv

(* At most one thread is inside an enqueue, and the processor never looks  *)
(* for an interrupt while it is inside one.                                *)
THEOREM MutualExclusion == Spec => []MutexInv
  BY SpecIInv, PTL DEF IInv
-----------------------------------------------------------------------------
LEMMA NextHandlerUndisturbed ==
    ASSUME [Next]_vars, inProgress, inProgress'
    PROVE  /\ currentInterrupt' = currentInterrupt
           /\ interruptReturnAddress' = interruptReturnAddress \/ SetReturnAddress
  <1> USE DEF status
  <1>1. CASE detectInterrupt
    BY <1>1 DEF detectInterrupt, KeepRunning, EnterHandler, NothingToDeliver
  <1>2. CASE Execute
    BY <1>2 DEF Execute, ExecuteOther, SuspendInterrupts, ResumeInterrupts,
                FinishInterrupt, SetReturnAddress, SetInterruptTable
  <1>3. CASE CpuEnqueues \/ \E t \in Thread : DeviceRaises(t)
    BY <1>3 DEF CpuEnqueues, DeviceRaises, BeginEnqueue
  <1>4. CASE MoveTail \/ WriteTailSlot
    BY <1>4 DEF MoveTail, WriteTailSlot
  <1>5. CASE \E t \in Caller : CompleteEnqueue(t)
    BY <1>5 DEF CompleteEnqueue, WriteHeadSlot, AdvanceHead
  <1>6. CASE UNCHANGED vars
    BY <1>6 DEF vars
  <1> QED
    BY <1>1, <1>2, <1>3, <1>4, <1>5, <1>6 DEF Next, cpuThreadFunction

(* The interrupt a handler works on and the address it returns to survive   *)
(* every arrival and every fault until the handler ends, unless the handler *)
(* itself sets the return address.                                          *)
THEOREM HandlerUndisturbedHolds == Spec => HandlerUndisturbed
  BY NextHandlerUndisturbed, PTL DEF Spec, HandlerUndisturbed
-----------------------------------------------------------------------------
(* The ring read as a sequence. *)

LEMMA RingBounds ==
    ASSUME IInv
    PROVE  /\ FirstWaiting \in Slot
           /\ WaitingCount \in 0 .. QueueSize - 1
           /\ \A k \in 1 .. WaitingCount : WaitingSlot(k) \in Slot \ {interruptHead}
           /\ WaitingCount = 0 <=> FirstWaiting = interruptHead
           /\ WaitingCount > 0 => WaitingSlot(1) = FirstWaiting
  <1>1. interruptHead \in Slot /\ interruptTail \in Slot
    BY DEF IInv, TypeOK
  <1>2. FirstWaiting \in Slot
    BY <1>1, SlotStep DEF FirstWaiting
  <1> QED BY <1>1, <1>2 DEF Slot, WaitingCount, WaitingSlot

LEMMA WaitingIsSeq ==
    ASSUME IInv
    PROVE  /\ Waiting \in Seq(Interrupt)
           /\ Len(Waiting) = WaitingCount
           /\ DOMAIN Waiting = 1 .. WaitingCount
           /\ \A k \in 1 .. WaitingCount : Waiting[k] = interruptQueue[WaitingSlot(k)]
  <1>1. \A k \in 1 .. WaitingCount : interruptQueue[WaitingSlot(k)] \in Interrupt
    BY RingBounds DEF IInv, TypeOK
  <1>2. WaitingCount \in Nat
    BY RingBounds
  <1> QED BY <1>1, <1>2 DEF Waiting

(* Two readings of the ring with the same slots and contents are equal. *)
LEMMA SameWaiting ==
    ASSUME FirstWaiting' = FirstWaiting, interruptHead' = interruptHead,
           \A k \in 1 .. WaitingCount :
               interruptQueue'[WaitingSlot(k)] = interruptQueue[WaitingSlot(k)]
    PROVE  Waiting' = Waiting
  <1>1. WaitingCount' = WaitingCount
    BY DEF WaitingCount
  <1>2. \A k \in 1 .. WaitingCount : WaitingSlot(k)' = WaitingSlot(k)
    BY DEF WaitingSlot
  <1> QED BY <1>1, <1>2 DEF Waiting

LEMMA BeginEnqueueStutters ==
    ASSUME IInv, NEW t \in Caller, NEW i \in Interrupt, BeginEnqueue(t, i)
    PROVE  UNCHANGED Controller!vars
  <1>1. FirstWaiting' = FirstWaiting
    BY DEF BeginEnqueue, ring, FirstWaiting, NextSlot, IInv, TypeOK, Caller
  <1>2. Waiting' = Waiting
    BY <1>1, SameWaiting DEF BeginEnqueue, ring
  <1> QED BY <1>2 DEF BeginEnqueue, status, Handling, Controller!vars

LEMMA WriteHeadSlotStutters ==
    ASSUME IInv, NEW t \in Caller, WriteHeadSlot(t)
    PROVE  UNCHANGED Controller!vars
  <1>1. FirstWaiting' = FirstWaiting
    BY DEF WriteHeadSlot, FirstWaiting, NextSlot, IInv, TypeOK, Caller
  <1>2. \A k \in 1 .. WaitingCount :
            interruptQueue'[WaitingSlot(k)] = interruptQueue[WaitingSlot(k)]
    BY RingBounds DEF WriteHeadSlot, IInv, TypeOK
  <1>3. Waiting' = Waiting
    BY <1>1, <1>2, SameWaiting DEF WriteHeadSlot
  <1> QED BY <1>3 DEF WriteHeadSlot, status, Handling, Controller!vars

LEMMA MoveTailStutters ==
    ASSUME IInv, MoveTail
    PROVE  UNCHANGED Controller!vars
  <1>1. FirstWaiting' = FirstWaiting
    <2>1. FirstWaiting' = NextSlot(PreviousSlot(interruptTail))
      BY DEF MoveTail, FirstWaiting, NextSlot, IInv, TypeOK, Caller
    <2>2. NextSlot(PreviousSlot(interruptTail)) = interruptTail
      BY DEF NextSlot, PreviousSlot, IInv, TypeOK, Slot
    <2> QED BY <2>1, <2>2 DEF MoveTail, FirstWaiting
  <1>2. Waiting' = Waiting
    BY <1>1, SameWaiting DEF MoveTail
  <1> QED BY <1>2 DEF MoveTail, status, Handling, Controller!vars

LEMMA AdvanceHeadPostsBack ==
    ASSUME IInv, IInv', NEW t \in Caller, AdvanceHead(t)
    PROVE  Controller!PostBack(argument[t])
  <1> DEFINE i == argument[t]
             n == WaitingCount
  <1>1. i \in Interrupt /\ interruptQueue[interruptHead] = i
    BY InsideEnqueue DEF AdvanceHead, IInv, MutexInv
  <1>2. FirstWaiting = interruptTail /\ FirstWaiting' = interruptTail
    BY InsideEnqueue DEF AdvanceHead, FirstWaiting, IInv, TypeOK, Caller
  <1>3. interruptHead' = NextSlot(interruptHead) /\ interruptQueue' = interruptQueue
    BY DEF AdvanceHead
  <1>4. interruptHead \in Slot /\ interruptTail \in Slot
    BY DEF IInv, TypeOK
  <1>5. CASE n = QueueSize - 1
    <2>1. WaitingCount' = 0
      BY <1>2, <1>3, <1>4, <1>5 DEF WaitingCount, NextSlot, Slot
    <2>2. Waiting' = <<>>
      BY <2>1 DEF Waiting
    <2> QED BY <2>2, <1>5, WaitingIsSeq DEF Controller!PostBack, AdvanceHead, status, Handling
  <1>6. CASE n # QueueSize - 1
    <2>1. WaitingCount' = n + 1 /\ n \in Nat
      BY <1>2, <1>3, <1>4, <1>6, RingBounds DEF WaitingCount, NextSlot, Slot
    <2>2. \A k \in 1 .. n + 1 : WaitingSlot(k)' = WaitingSlot(k)
      BY <1>2 DEF WaitingSlot
    <2>3. WaitingSlot(n + 1) = interruptHead
      BY <1>2, <1>4 DEF WaitingCount, WaitingSlot, Slot
    <2>4. /\ Waiting' \in Seq(Interrupt) /\ Len(Waiting') = n + 1
          /\ \A k \in 1 .. n + 1 : Waiting'[k] = interruptQueue[WaitingSlot(k)]
      <3>1. \A k \in 1 .. n + 1 : interruptQueue[WaitingSlot(k)] \in Interrupt
        BY <2>1, <2>3, <1>1, RingBounds DEF IInv, TypeOK
      <3>2. Waiting' = [k \in 1 .. n + 1 |-> interruptQueue[WaitingSlot(k)]]
        BY <2>1, <2>2, <1>3 DEF Waiting
      <3> QED BY <3>1, <3>2, <2>1
    <2>5. /\ Append(Waiting, i) \in Seq(Interrupt) /\ Len(Append(Waiting, i)) = n + 1
          /\ \A k \in 1 .. n + 1 : Append(Waiting, i)[k] =
                 IF k = n + 1 THEN i ELSE interruptQueue[WaitingSlot(k)]
      BY <1>1, WaitingIsSeq, <2>1
    <2>6. Waiting' = Append(Waiting, i)
      BY <2>3, <2>4, <2>5, <1>1
    <2> QED BY <2>6, <1>6, WaitingIsSeq DEF Controller!PostBack, AdvanceHead, status, Handling
  <1> QED BY <1>5, <1>6

LEMMA WriteTailSlotPostsFront ==
    ASSUME IInv, WriteTailSlot
    PROVE  Controller!PostFront(argument[CPU])
  <1> DEFINE i == argument[CPU]
             n == WaitingCount
  <1>1. i \in Interrupt /\ step[CPU] = "moved" /\ step'[CPU] = "idle"
    BY InsideEnqueue DEF WriteTailSlot, IInv, TypeOK, Caller
  <1>2. FirstWaiting = NextSlot(interruptTail) /\ FirstWaiting' = interruptTail
    BY <1>1 DEF WriteTailSlot, FirstWaiting
  <1>3. /\ interruptHead' = interruptHead
        /\ interruptQueue' = [interruptQueue EXCEPT ![interruptTail] = i]
    BY DEF WriteTailSlot
  <1>4. interruptHead \in Slot /\ interruptTail \in Slot
    BY DEF IInv, TypeOK
  <1>5. CASE n = QueueSize - 1
    <2>1. WaitingCount' = 0
      BY <1>2, <1>3, <1>4, <1>5 DEF WaitingCount, NextSlot, Slot
    <2>2. Waiting' = <<>>
      BY <2>1 DEF Waiting
    <2> QED BY <2>2, <1>5, WaitingIsSeq DEF Controller!PostFront, WriteTailSlot, status, Handling
  <1>6. CASE n # QueueSize - 1
    <2>1. WaitingCount' = n + 1 /\ n \in Nat
      BY <1>2, <1>3, <1>4, <1>6, RingBounds DEF WaitingCount, NextSlot, Slot
    <2>2. \A k \in 2 .. n + 1 :
              WaitingSlot(k)' = WaitingSlot(k - 1) /\ WaitingSlot(k - 1) # interruptTail
      BY <1>2, <1>4, <2>1, <1>6 DEF WaitingCount, WaitingSlot, NextSlot, Slot
    <2>3. WaitingSlot(1)' = interruptTail
      BY <1>2, <1>4 DEF WaitingSlot, Slot
    <2>4. \A k \in 1 .. n + 1 : interruptQueue'[WaitingSlot(k)'] =
              IF k = 1 THEN i ELSE interruptQueue[WaitingSlot(k - 1)]
      BY <2>1, <2>2, <2>3, <1>3, <1>4, RingBounds DEF IInv, TypeOK
    <2>5. /\ Waiting' \in Seq(Interrupt) /\ Len(Waiting') = n + 1
          /\ \A k \in 1 .. n + 1 : Waiting'[k] =
                 IF k = 1 THEN i ELSE interruptQueue[WaitingSlot(k - 1)]
      <3>1. Waiting' = [k \in 1 .. n + 1 |->
                           IF k = 1 THEN i ELSE interruptQueue[WaitingSlot(k - 1)]]
        BY <2>1, <2>4 DEF Waiting
      <3>2. \A k \in 1 .. n : interruptQueue[WaitingSlot(k)] \in Interrupt
        BY RingBounds DEF IInv, TypeOK
      <3>3. \A k \in 2 .. n + 1 : k - 1 \in 1 .. n
        BY <2>1
      <3> QED BY <3>1, <3>2, <3>3, <2>1, <1>1
    <2>6. /\ <<i>> \o Waiting \in Seq(Interrupt) /\ Len(<<i>> \o Waiting) = n + 1
          /\ \A k \in 1 .. n + 1 : (<<i>> \o Waiting)[k] =
                 IF k = 1 THEN i ELSE interruptQueue[WaitingSlot(k - 1)]
      <3>1. <<i>> \in Seq(Interrupt) /\ Len(<<i>>) = 1 /\ <<i>>[1] = i
        BY <1>1
      <3>2. Waiting \in Seq(Interrupt) /\ Len(Waiting) = n
        BY WaitingIsSeq
      <3>3. \A k \in 2 .. n + 1 : Waiting[k - 1] = interruptQueue[WaitingSlot(k - 1)]
        BY WaitingIsSeq, <2>1
      <3> QED BY <3>1, <3>2, <3>3, <2>1
    <2>7. Waiting' = <<i>> \o Waiting
      <3>1. \A k \in 1 .. n + 1 : Waiting'[k] = (<<i>> \o Waiting)[k]
        BY <2>5, <2>6
      <3> QED BY <2>5, <2>6, <3>1, SeqEqual, Zenon
    <2> QED BY <2>7, <1>6, WaitingIsSeq DEF Controller!PostFront, WriteTailSlot, status, Handling
  <1> QED BY <1>5, <1>6

LEMMA DetectInterruptDelivers ==
    ASSUME IInv, detectInterrupt
    PROVE  [Controller!Deliver]_(Controller!vars)
  <1> DEFINE n == WaitingCount
  <1>1. FirstWaiting = interruptTail /\ FirstWaiting' = interruptTail'
    BY DEF detectInterrupt, callers, FirstWaiting, IInv, MutexInv, Caller
  <1>2. CASE KeepRunning
    <2>1. Waiting' = Waiting
      BY <1>1, <1>2, SameWaiting DEF detectInterrupt, KeepRunning
    <2>2. UNCHANGED Handling
      BY <1>2 DEF KeepRunning, NothingToDeliver, Handling
    <2> QED BY <2>1, <2>2 DEF detectInterrupt, Controller!vars
  <1>3. CASE EnterHandler
    <2>1. interruptHead \in Slot /\ interruptTail \in Slot
      BY DEF IInv, TypeOK
    <2>2. interruptHead # interruptTail
      BY <1>3 DEF EnterHandler, NothingToDeliver, isInterruptQueueEmpty
    <2>3. n \in 1 .. QueueSize - 1 /\ WaitingCount' = n - 1
      BY <1>1, <1>3, <2>1, <2>2 DEF detectInterrupt, EnterHandler, WaitingCount, NextSlot, Slot
    <2>4. \A k \in 1 .. n - 1 : WaitingSlot(k)' = WaitingSlot(k + 1)
      BY <1>1, <1>3, <2>1, <2>3 DEF EnterHandler, WaitingSlot, NextSlot, Slot
    <2>5. Waiting # <<>> /\ Head(Waiting) = peekInterrupt
      BY <1>1, <2>3, WaitingIsSeq, RingBounds DEF peekInterrupt
    <2>6. Waiting' = [k \in 1 .. n - 1 |-> interruptQueue[WaitingSlot(k + 1)]]
      BY <2>3, <2>4 DEF Waiting, detectInterrupt
    <2>7. Waiting' = Tail(Waiting)
      <3>1. /\ Waiting \in Seq(Interrupt) /\ Waiting # <<>> /\ Len(Waiting) = n
            /\ \A k \in 1 .. n - 1 : Waiting[k + 1] = interruptQueue[WaitingSlot(k + 1)]
        BY <2>3, <2>5, WaitingIsSeq
      <3>2. /\ Tail(Waiting) \in Seq(Interrupt) /\ Len(Tail(Waiting)) = n - 1
            /\ \A k \in 1 .. n - 1 : Tail(Waiting)[k] = interruptQueue[WaitingSlot(k + 1)]
        BY <3>1, <2>3, HeadTailProperties
      <3>3. /\ Waiting' \in Seq(Interrupt) /\ Len(Waiting') = n - 1
            /\ \A k \in 1 .. n - 1 : Waiting'[k] = interruptQueue[WaitingSlot(k + 1)]
        <4>1. \A k \in 1 .. n - 1 : interruptQueue[WaitingSlot(k + 1)] \in Interrupt
          BY <2>3, RingBounds DEF IInv, TypeOK
        <4> QED BY <4>1, <2>3, <2>6
      <3> QED BY <2>3, <3>2, <3>3, SeqEqual, Zenon
    <2> QED
      BY <1>3, <2>5, <2>7
      DEF Controller!Deliver, detectInterrupt, EnterHandler, NothingToDeliver, Deliverable, Handling
  <1> QED BY <1>2, <1>3 DEF detectInterrupt

LEMMA ExecuteImplementsController ==
    ASSUME IInv, Execute
    PROVE  [Controller!Next]_(Controller!vars)
  <1>1. FirstWaiting' = FirstWaiting /\ Waiting' = Waiting
    <2>1. UNCHANGED <<ring, callers>>
      BY DEF Execute, Instruction, ExecuteOther, SuspendInterrupts, ResumeInterrupts,
             FinishInterrupt, SetReturnAddress, SetInterruptTable
    <2>2. FirstWaiting' = FirstWaiting
      BY <2>1 DEF ring, callers, FirstWaiting
    <2> QED BY <2>1, <2>2, SameWaiting DEF ring
  <1>2. CASE ExecuteOther \/ SetReturnAddress \/ SetInterruptTable
    BY <1>1, <1>2 DEF ExecuteOther, SetReturnAddress, SetInterruptTable, status, Handling,
                      Controller!vars
  <1>3. CASE SuspendInterrupts
    BY <1>1, <1>3 DEF SuspendInterrupts, Handling, Controller!Suspend, Controller!Next
  <1>4. CASE ResumeInterrupts
    BY <1>1, <1>4 DEF ResumeInterrupts, Handling, Controller!Resume, Controller!Next
  <1>5. CASE FinishInterrupt
    BY <1>1, <1>5 DEF FinishInterrupt, Handling, Controller!Finish, Controller!Next
  <1> QED BY <1>2, <1>3, <1>4, <1>5 DEF Execute

LEMMA StepImplementsController ==
    ASSUME IInv, IInv', [Next]_vars
    PROVE  [Controller!Next]_(Controller!vars)
  <1>1. ASSUME NEW t \in Thread, DeviceRaises(t) PROVE UNCHANGED Controller!vars
    BY <1>1, BeginEnqueueStutters DEF DeviceRaises, Caller, Interrupt
  <1>2. CASE CpuEnqueues
    BY <1>2, BeginEnqueueStutters DEF CpuEnqueues, Enqueued, Caller, Interrupt
  <1>3. CASE detectInterrupt
    BY <1>3, DetectInterruptDelivers DEF Controller!Next
  <1>4. CASE Execute
    BY <1>4, ExecuteImplementsController
  <1>5. CASE MoveTail
    BY <1>5, MoveTailStutters
  <1>6. CASE WriteTailSlot
    BY <1>6, WriteTailSlotPostsFront, InsideEnqueue DEF WriteTailSlot, Caller, Controller!Next
  <1>7. ASSUME NEW t \in Caller, WriteHeadSlot(t) PROVE UNCHANGED Controller!vars
    BY <1>7, WriteHeadSlotStutters
  <1>8. ASSUME NEW t \in Caller, AdvanceHead(t) PROVE Controller!Next
    BY <1>8, AdvanceHeadPostsBack, InsideEnqueue DEF AdvanceHead, Controller!Next
  <1>9. CASE UNCHANGED vars
    <2>1. FirstWaiting' = FirstWaiting
      BY <1>9 DEF vars, ring, callers, FirstWaiting
    <2>2. Waiting' = Waiting
      BY <1>9, <2>1, SameWaiting DEF vars, ring
    <2> QED BY <1>9, <2>2 DEF vars, status, Handling, Controller!vars
  <1> QED
    BY <1>1, <1>2, <1>3, <1>4, <1>5, <1>6, <1>7, <1>8, <1>9
    DEF Next, cpuThreadFunction, CompleteEnqueue

LEMMA InitImplementsController == Init => Controller!Init
  <1> SUFFICES ASSUME Init PROVE Controller!Init
    OBVIOUS
  <1>1. FirstWaiting = 0 /\ WaitingCount = 0
    BY DEF Init, FirstWaiting, WaitingCount, Caller
  <1>2. Waiting = <<>>
    BY <1>1 DEF Waiting
  <1> QED BY <1>2 DEF Init, Handling, Controller!Init

(* For any number of threads and any ring size, the ring, its lock and the *)
(* status bits implement the line of waiting interrupts: an enqueue or a   *)
(* fault adds one interrupt at its end of the line, delivery takes the     *)
(* first one, and the only loss is the overflow of a ring with one slot    *)
(* left.                                                                   *)
THEOREM ImplementsController == Spec => ControllerSpec
  <1>1. Init => Controller!Init
    BY InitImplementsController
  <1>2. IInv /\ IInv' /\ [Next]_vars => [Controller!Next]_(Controller!vars)
    BY StepImplementsController
  <1> QED
    BY <1>1, <1>2, SpecIInv, PTL DEF Spec, ControllerSpec, Controller!Spec
-----------------------------------------------------------------------------
LEMMA NextCriticalAtOnce ==
    ASSUME IInv, [Next]_vars
    PROVE  EntersHandlerFor(criticalInterruptIDs)
  <1> SUFFICES ASSUME cpuPhase = "detect", cpuPhase' = "execute",
                      ~inProgress, interruptTable # NoTable,
                      Waiting # <<>>, Head(Waiting) \in criticalInterruptIDs
               PROVE  inProgress' /\ currentInterrupt' = Head(Waiting)
    BY DEF EntersHandlerFor
  <1>1. detectInterrupt
    BY DEF Next, cpuThreadFunction, Execute, Instruction, ExecuteOther, SuspendInterrupts,
           ResumeInterrupts, FinishInterrupt, SetReturnAddress, SetInterruptTable,
           CpuEnqueues, DeviceRaises, BeginEnqueue, MoveTail, WriteTailSlot, AfterAccess,
           CompleteEnqueue, WriteHeadSlot, AdvanceHead, vars
  <1>2. FirstWaiting = interruptTail
    BY <1>1 DEF FirstWaiting, IInv, MutexInv, Caller
  <1>3. WaitingCount > 0
    BY WaitingIsSeq, RingBounds
  <1>4. interruptHead # interruptTail /\ Head(Waiting) = peekInterrupt
    BY <1>2, <1>3, WaitingIsSeq, RingBounds DEF peekInterrupt
  <1> QED
    BY <1>1, <1>4 DEF detectInterrupt, KeepRunning, EnterHandler, NothingToDeliver,
                      Deliverable, isInterruptQueueEmpty

(* A critical interrupt at the front of the line is delivered before the   *)
(* processor executes another instruction, suspended or not, whatever the  *)
(* other threads are doing to the ring.                                    *)
THEOREM CriticalAtOnceHolds == Spec => CriticalAtOnce
  BY SpecIInv, NextCriticalAtOnce, PTL DEF Spec, CriticalAtOnce
-----------------------------------------------------------------------------
(* What an enqueue carries: a fault only on its way to the front.           *)
CarriedInv ==
    /\ \A t \in Caller : step[t] \in {"locked", "written"} => argument[t] \in Enqueued
    /\ step[CPU] = "moved" => argument[CPU] \in CpuFault

FaultsInFront(line) ==
    \A i, j \in DOMAIN line : i < j /\ line[j] \in CpuFault => line[i] \in CpuFault

LEMMA BeginEnqueueCarried ==
    ASSUME IInv, CarriedInv, NEW t \in Caller, NEW i \in Enqueued, BeginEnqueue(t, i)
    PROVE  CarriedInv'
  BY DEF IInv, TypeOK, CarriedInv, BeginEnqueue

LEMMA NextCarriedInv == IInv /\ CarriedInv /\ [Next]_vars => CarriedInv'
  <1> SUFFICES ASSUME IInv, CarriedInv, [Next]_vars PROVE CarriedInv'
    OBVIOUS
  <1> USE DEF CarriedInv
  <1>1. ASSUME NEW t \in Thread, DeviceRaises(t) PROVE CarriedInv'
    BY <1>1, BeginEnqueueCarried DEF DeviceRaises, Caller, Enqueued
  <1>2. CASE CpuEnqueues
    BY <1>2, BeginEnqueueCarried DEF CpuEnqueues, Caller, Enqueued
  <1>3. CASE MoveTail
    <2>1. PICK i \in CpuFault : argument' = [argument EXCEPT ![CPU] = i]
      BY <1>3 DEF MoveTail
    <2>2. step' = [step EXCEPT ![CPU] = "moved"]
      BY <1>3 DEF MoveTail
    <2> QED BY <2>1, <2>2 DEF IInv, TypeOK, Caller
  <1>4. CASE WriteTailSlot
    BY <1>4 DEF WriteTailSlot, IInv, TypeOK, Caller
  <1>5. ASSUME NEW t \in Caller, WriteHeadSlot(t) \/ AdvanceHead(t) PROVE CarriedInv'
    <2>1. CASE WriteHeadSlot(t)
      BY <2>1 DEF WriteHeadSlot, IInv, TypeOK, Caller
    <2>2. CASE AdvanceHead(t)
      BY <2>2 DEF AdvanceHead, IInv, TypeOK, Caller
    <2> QED BY <1>5, <2>1, <2>2
  <1>6. CASE detectInterrupt \/ Execute \/ UNCHANGED vars
    <2>1. UNCHANGED <<step, argument>>
      BY <1>6 DEF detectInterrupt, Execute, Instruction, ExecuteOther, SuspendInterrupts,
                  ResumeInterrupts, FinishInterrupt, SetReturnAddress, SetInterruptTable,
                  callers, vars
    <2> QED BY <2>1
  <1> QED
    BY <1>1, <1>2, <1>3, <1>4, <1>5, <1>6 DEF Next, cpuThreadFunction, CompleteEnqueue

LEMMA SpecCarriedInv == Spec => []CarriedInv
  <1>1. Init => CarriedInv
    BY DEF Init, CarriedInv, Caller
  <1> QED BY <1>1, NextCarriedInv, SpecIInv, PTL DEF Spec

(* Lines stay in that order when an event joins at the back, a fault at the *)
(* front, or the first one leaves.                                          *)
LEMMA JoinBack ==
    ASSUME NEW line \in Seq(Interrupt), FaultsInFront(line), NEW i \in Interrupt, i \notin CpuFault
    PROVE  FaultsInFront(Append(line, i))
  <1>1. Len(line) \in Nat /\ DOMAIN line = 1 .. Len(line)
    BY LenProperties
  <1>2. /\ DOMAIN Append(line, i) = 1 .. Len(line) + 1
        /\ Append(line, i)[Len(line) + 1] = i
        /\ \A k \in 1 .. Len(line) : Append(line, i)[k] = line[k]
    BY <1>1
  <1> QED BY <1>1, <1>2 DEF FaultsInFront

LEMMA JoinFront ==
    ASSUME NEW line \in Seq(Interrupt), FaultsInFront(line), NEW i \in Interrupt, i \in CpuFault
    PROVE  FaultsInFront(<<i>> \o line)
  <1>1. Len(line) \in Nat /\ DOMAIN line = 1 .. Len(line)
    BY LenProperties
  <1>2. <<i>> \in Seq(Interrupt) /\ Len(<<i>>) = 1 /\ <<i>>[1] = i
    OBVIOUS
  <1>3. /\ DOMAIN (<<i>> \o line) = 1 .. Len(line) + 1
        /\ (<<i>> \o line)[1] = i
        /\ \A k \in 2 .. Len(line) + 1 : (<<i>> \o line)[k] = line[k - 1]
    BY <1>1, <1>2
  <1> DEFINE longer == <<i>> \o line
  <1>4. ASSUME NEW k \in DOMAIN longer, NEW m \in DOMAIN longer,
               k < m, longer[m] \in CpuFault
        PROVE  longer[k] \in CpuFault
    <2>1. k \in 1 .. Len(line) + 1 /\ m \in 2 .. Len(line) + 1
      BY <1>1, <1>3, <1>4
    <2>2. CASE k = 1
      BY <1>3, <2>2
    <2>3. CASE k # 1
      <3>1. k - 1 \in DOMAIN line /\ m - 1 \in DOMAIN line /\ k - 1 < m - 1
        BY <1>1, <1>4, <2>1, <2>3
      <3>2. longer[k] = line[k - 1] /\ longer[m] = line[m - 1]
        BY <1>1, <1>3, <2>1, <2>3
      <3> QED BY <1>4, <3>1, <3>2 DEF FaultsInFront
    <2> QED BY <2>2, <2>3
  <1> QED BY <1>4 DEF FaultsInFront

LEMMA FirstLeaves ==
    ASSUME NEW line \in Seq(Interrupt), FaultsInFront(line), line # <<>>
    PROVE  FaultsInFront(Tail(line))
  <1>1. /\ Len(line) \in Nat \ {0} /\ DOMAIN line = 1 .. Len(line)
        /\ DOMAIN Tail(line) = 1 .. Len(line) - 1
        /\ \A k \in 1 .. Len(line) - 1 : Tail(line)[k] = line[k + 1]
    BY LenProperties, EmptySeq
  <1>2. \A k \in 1 .. Len(line) - 1 : k + 1 \in 1 .. Len(line)
    BY <1>1
  <1> QED BY <1>1, <1>2 DEF FaultsInFront

LEMMA NextFaultsInFront ==
    ASSUME IInv, IInv', CarriedInv, TriggerInterrupt \cap CpuFault = {},
           FaultsInFront(Waiting), [Next]_vars
    PROVE  FaultsInFront(Waiting)'
  <1> USE DEF Controller!vars
  <1>0. /\ Waiting \in Seq(Interrupt) /\ FaultsInFront(<<>>)
        /\ Waiting' = Waiting => FaultsInFront(Waiting)'
    BY WaitingIsSeq DEF FaultsInFront
  <1>1. CASE \/ \E t \in Thread : DeviceRaises(t)
             \/ CpuEnqueues \/ MoveTail
             \/ \E t \in Caller : WriteHeadSlot(t)
    BY <1>0, <1>1, BeginEnqueueStutters, MoveTailStutters, WriteHeadSlotStutters
       DEF DeviceRaises, CpuEnqueues, Enqueued, Caller, Interrupt
  <1>2. CASE Execute \/ UNCHANGED vars
    <2>1. UNCHANGED <<ring, callers>>
      BY <1>2 DEF Execute, Instruction, ExecuteOther, SuspendInterrupts, ResumeInterrupts,
                  FinishInterrupt, SetReturnAddress, SetInterruptTable, vars
    <2>2. FirstWaiting' = FirstWaiting
      BY <2>1 DEF ring, callers, FirstWaiting
    <2>3. Waiting' = Waiting
      BY <2>1, <2>2, SameWaiting DEF ring
    <2> QED BY <1>0, <2>3
  <1>3. ASSUME NEW t \in Caller, AdvanceHead(t) PROVE FaultsInFront(Waiting)'
    <2>1. Waiting' \in {<<>>, Append(Waiting, argument[t])}
      BY <1>3, AdvanceHeadPostsBack DEF Controller!PostBack
    <2>2. argument[t] \in Interrupt /\ argument[t] \notin CpuFault
      BY <1>3 DEF AdvanceHead, CarriedInv, Enqueued, Interrupt
    <2>3. FaultsInFront(Append(Waiting, argument[t]))
      BY <1>0, <2>2, JoinBack
    <2> QED BY <1>0, <2>1, <2>3 DEF FaultsInFront
  <1>4. CASE WriteTailSlot
    <2>1. Waiting' \in {<<>>, <<argument[CPU]>> \o Waiting}
      BY <1>4, WriteTailSlotPostsFront DEF Controller!PostFront
    <2>2. argument[CPU] \in Interrupt /\ argument[CPU] \in CpuFault
      BY <1>4 DEF WriteTailSlot, CarriedInv, Interrupt
    <2>3. FaultsInFront(<<argument[CPU]>> \o Waiting)
      BY <1>0, <2>2, JoinFront
    <2> QED BY <1>0, <2>1, <2>3 DEF FaultsInFront
  <1>5. CASE detectInterrupt
    <2>1. Waiting' = Waiting \/ (Waiting # <<>> /\ Waiting' = Tail(Waiting))
      BY <1>5, DetectInterruptDelivers DEF Controller!Deliver
    <2>2. Waiting # <<>> => FaultsInFront(Tail(Waiting))
      BY <1>0, FirstLeaves
    <2> QED BY <1>0, <2>1, <2>2 DEF FaultsInFront
  <1> QED
    BY <1>1, <1>2, <1>3, <1>4, <1>5 DEF Next, cpuThreadFunction, CompleteEnqueue

(* However many events of devices wait, a fault of the running program is   *)
(* in front of them all: enqueueCriticalInterrupt puts it there, and no     *)
(* enqueue of another thread gets in between.                               *)
THEOREM FaultsFirstHolds == Spec => []FaultsFirst
  <1>1. FaultsFirst <=> (TriggerInterrupt \cap CpuFault = {} => FaultsInFront(Waiting))
    BY DEF FaultsFirst, FaultsInFront
  <1>2. Init => FaultsFirst
    <2>1. Init => Waiting = <<>>
      <3> SUFFICES ASSUME Init PROVE Waiting = <<>>
        OBVIOUS
      <3>1. WaitingCount = 0
        BY DEF Init, FirstWaiting, WaitingCount, Caller
      <3> QED BY <3>1 DEF Waiting
    <2> QED BY <2>1 DEF FaultsFirst
  <1>3. IInv /\ IInv' /\ CarriedInv /\ FaultsFirst /\ [Next]_vars => FaultsFirst'
    BY <1>1, NextFaultsInFront DEF FaultsFirst, FaultsInFront
  <1> QED BY <1>2, <1>3, SpecIInv, SpecCarriedInv, PTL DEF Spec
=============================================================================
