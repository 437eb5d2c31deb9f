---------------------------- MODULE InterruptUnit ----------------------------
(***************************************************************************)
(* The interrupt unit of the DGC-32 processor (src/src/dgc32.c): the ring  *)
(* of waiting interrupts in hardware-reserved memory, the registers and    *)
(* status bits that govern delivery, and the threads that work on them.    *)
(*                                                                         *)
(* Device-manager threads and the main thread of the motherboard call      *)
(* enqueueInterrupt; so does the processor thread, for the two trigger     *)
(* instructions and for device handlers that run on it.  The processor     *)
(* thread alone calls enqueueCriticalInterrupt, when an instruction        *)
(* faults, and detectInterrupt, before every instruction.  All of them     *)
(* take interruptAccessMutex; the writes inside an enqueue are separate    *)
(* steps here, so that what the lock is for is visible.                    *)
(*                                                                         *)
(* An index counts two-byte slots.  Addresses are data: an instruction     *)
(* leaves any address in the program counter, and the interrupt table,     *)
(* which lies in guest memory, yields any address for a handler.           *)
(***************************************************************************)
EXTENDS Integers, Sequences

CONSTANTS
    Thread,              \* the threads of the machine that raise interrupts
    CPU,                 \* the processor thread
    NoThread,            \* nobody holds the mutex
    QueueSize,           \* slots of the ring: INTERRUPT_QUEUE_SIZE / 2
    DeviceInterrupt,     \* what device managers raise
    TriggerInterrupt,    \* what the program raises with a trigger instruction
    CpuFault,            \* what a faulting instruction raises
    MemoryViolation,     \* the fault of a memory access
    criticalInterruptIDs,\* the interrupts detectInterrupt takes for critical
    Address,             \* values of the program counter
    TableLocation,       \* values of the IL register
    NoTable,             \* zero, the IL register of a program without a table
    None                 \* not an interrupt

ASSUME ThreadAssumption ==
    /\ CPU \notin Thread
    /\ NoThread \notin Thread \cup {CPU}

ASSUME QueueSizeAssumption == QueueSize \in Nat /\ QueueSize > 1

Interrupt == DeviceInterrupt \cup TriggerInterrupt \cup CpuFault

(* The codes of device events (dmi_enqueueInterrupt) are none of the codes  *)
(* of faults.                                                               *)
ASSUME InterruptAssumption ==
    /\ MemoryViolation \in CpuFault
    /\ DeviceInterrupt \cap CpuFault = {}
    /\ criticalInterruptIDs \subseteq Interrupt
    /\ None \notin Interrupt

ASSUME TableAssumption == NoTable \in TableLocation

VARIABLES
    interruptAccessMutex,   \* who holds it
    interruptQueue,         \* the slots at INTERRUPT_QUEUE_BASE
    interruptHead,          \* the slot the next enqueueInterrupt fills
    interruptTail,          \* the slot delivered next
    currentInterrupt,       \* the interrupt detectInterrupt looked at last
    inProgress,             \* STAT_REG_INT_IN_PROG_MASK of statusRegister
    suspended,              \* STAT_REG_INT_SUS_MASK of statusRegister
    interruptTable,         \* the IL register
    interruptReturnAddress, \* the IR register
    programCounter,
    cpuPhase,               \* where cpuThreadFunction is in its loop
    step,                   \* per thread: where it is in an enqueue
    argument                \* per thread: the interrupt it is enqueueing

ring == <<interruptQueue, interruptHead, interruptTail>>
status == <<currentInterrupt, inProgress, suspended, interruptTable,
            interruptReturnAddress>>
callers == <<step, argument>>
vars == <<interruptAccessMutex, ring, status, programCounter, cpuPhase, callers>>

Slot == 0 .. QueueSize - 1
Caller == Thread \cup {CPU}
Enqueued == DeviceInterrupt \cup TriggerInterrupt

TypeOK ==
    /\ interruptAccessMutex \in Caller \cup {NoThread}
    /\ interruptQueue \in [Slot -> Interrupt]
    /\ interruptHead \in Slot
    /\ interruptTail \in Slot
    /\ currentInterrupt \in Interrupt \cup {None}
    /\ inProgress \in BOOLEAN
    /\ suspended \in BOOLEAN
    /\ interruptTable \in TableLocation
    /\ interruptReturnAddress \in Address
    /\ programCounter \in Address
    /\ cpuPhase \in {"detect", "execute", "secondAccess"}
    /\ step \in [Caller -> {"idle", "locked", "written", "moved"}]
    /\ argument \in [Caller -> Interrupt \cup {None}]
-----------------------------------------------------------------------------
(* The ring's index arithmetic. *)

(* Faulty form: the index runs past the end of the ring. *)
NextSlotUnwrapped(s) == s + 1

NextSlot(s) == IF s = QueueSize - 1 THEN 0 ELSE s + 1
PreviousSlot(s) == IF s = 0 THEN QueueSize - 1 ELSE s - 1
isInterruptQueueEmpty == interruptHead = interruptTail
peekInterrupt == interruptQueue[interruptTail]

(* The registers are zero and the ring's memory is uninitialised. *)
Init ==
    /\ interruptAccessMutex = NoThread
    /\ interruptQueue \in [Slot -> Interrupt]
    /\ interruptHead = 0
    /\ interruptTail = 0
    /\ currentInterrupt = None
    /\ inProgress = FALSE
    /\ suspended = FALSE
    /\ interruptTable = NoTable
    /\ interruptReturnAddress \in Address
    /\ programCounter = interruptReturnAddress
    /\ cpuPhase = "detect"
    /\ step = [t \in Caller |-> "idle"]
    /\ argument = [t \in Caller |-> None]
-----------------------------------------------------------------------------
(* enqueueInterrupt, called by thread t: lock, copy the interrupt into the *)
(* slot at the head, advance the head and unlock.  Nothing checks that the *)
(* ring has room.                                                          *)

(* Faulty form: the mutex is taken without waiting for its holder. *)
LockUnchecked(t) == interruptAccessMutex' = t

Lock(t) ==
    /\ interruptAccessMutex = NoThread
    /\ interruptAccessMutex' = t

BeginEnqueue(t, i) ==
    /\ step[t] = "idle"
    /\ Lock(t)
    /\ step' = [step EXCEPT ![t] = "locked"]
    /\ argument' = [argument EXCEPT ![t] = i]
    /\ UNCHANGED <<ring, status, programCounter, cpuPhase>>

WriteHeadSlot(t) ==
    /\ step[t] = "locked"
    /\ interruptQueue' = [interruptQueue EXCEPT ![interruptHead] = argument[t]]
    /\ step' = [step EXCEPT ![t] = "written"]
    /\ UNCHANGED <<interruptAccessMutex, interruptHead, interruptTail, status,
                   programCounter, cpuPhase, argument>>

(* The instruction that raised an interrupt ends, with the program counter *)
(* past it; a swap accesses memory twice and may go on to its second       *)
(* access after a first that raised one.                                   *)
AfterAccess(again) ==
    /\ programCounter' \in Address
    /\ cpuPhase' \in IF cpuPhase = "execute" /\ again
                     THEN {"secondAccess", "detect"} ELSE {"detect"}

(* Faulty form: a device thread returns without unlocking. *)
AdvanceHeadStillLocked(t) ==
    /\ step[t] = "written"
    /\ interruptHead' = NextSlot(interruptHead)
    /\ interruptAccessMutex' = IF t = CPU THEN NoThread ELSE t
    /\ step' = [step EXCEPT ![t] = "idle"]
    /\ argument' = [argument EXCEPT ![t] = None]
    /\ IF t = CPU THEN AfterAccess(argument[t] \in DeviceInterrupt)
                  ELSE UNCHANGED <<programCounter, cpuPhase>>
    /\ UNCHANGED <<interruptQueue, interruptTail, status>>

AdvanceHead(t) ==
    /\ step[t] = "written"
    /\ interruptHead' = NextSlot(interruptHead)
    /\ interruptAccessMutex' = NoThread
    /\ step' = [step EXCEPT ![t] = "idle"]
    /\ argument' = [argument EXCEPT ![t] = None]
    /\ IF t = CPU THEN AfterAccess(argument[t] \in DeviceInterrupt)
                  ELSE UNCHANGED <<programCounter, cpuPhase>>
    /\ UNCHANGED <<interruptQueue, interruptTail, status>>

(* A thread of the machine raises an interrupt. *)
DeviceRaises(t) == \E i \in DeviceInterrupt : BeginEnqueue(t, i)

(* The processor thread raises one: a trigger instruction, or the handler *)
(* of a device whose memory the instruction accesses.                     *)
CpuEnqueues ==
    /\ cpuPhase \in {"execute", "secondAccess"}
    /\ \E i \in IF cpuPhase = "execute" THEN Enqueued ELSE DeviceInterrupt :
          BeginEnqueue(CPU, i)
-----------------------------------------------------------------------------
(* enqueueCriticalInterrupt, called by the processor thread for a faulting *)
(* instruction: lock, move the tail back one slot, fill it and unlock.     *)

MoveTail ==
    /\ cpuPhase \in {"execute", "secondAccess"}
    /\ step[CPU] = "idle"
    /\ Lock(CPU)
    /\ \E i \in IF cpuPhase = "execute" THEN CpuFault ELSE {MemoryViolation} :
          argument' = [argument EXCEPT ![CPU] = i]
    /\ interruptTail' = PreviousSlot(interruptTail)
    /\ step' = [step EXCEPT ![CPU] = "moved"]
    /\ UNCHANGED <<interruptQueue, interruptHead, status, programCounter, cpuPhase>>

(* Faulty form: the slot is filled before the tail has moved. *)
WriteTailSlotUnmoved ==
    /\ step[CPU] = "moved"
    /\ interruptQueue' = [interruptQueue EXCEPT ![NextSlot(interruptTail)] = argument[CPU]]
    /\ interruptAccessMutex' = NoThread
    /\ step' = [step EXCEPT ![CPU] = "idle"]
    /\ argument' = [argument EXCEPT ![CPU] = None]
    /\ AfterAccess(argument[CPU] = MemoryViolation)
    /\ UNCHANGED <<interruptHead, interruptTail, status>>

WriteTailSlot ==
    /\ step[CPU] = "moved"
    /\ interruptQueue' = [interruptQueue EXCEPT ![interruptTail] = argument[CPU]]
    /\ interruptAccessMutex' = NoThread
    /\ step' = [step EXCEPT ![CPU] = "idle"]
    /\ argument' = [argument EXCEPT ![CPU] = None]
    /\ AfterAccess(argument[CPU] = MemoryViolation)
    /\ UNCHANGED <<interruptHead, interruptTail, status>>
-----------------------------------------------------------------------------
(* detectInterrupt.  The mutex is held from the first test to the dequeue; *)
(* the registers written after the unlock belong to the processor thread,  *)
(* so the whole call is one step, taken when the mutex is free.            *)

(* Faulty form: a running handler does not keep the next one out. *)
NothingToDeliverNested == isInterruptQueueEmpty \/ interruptTable = NoTable

NothingToDeliver == isInterruptQueueEmpty \/ inProgress \/ interruptTable = NoTable
(* Faulty form: suspension holds back critical interrupts too. *)
DeliverableUnlessSuspended(i) == ~suspended
Deliverable(i) == i \in criticalInterruptIDs \/ ~suspended

(* Faulty form: the interrupt is dequeued before its delivery is decided. *)
KeepRunningDequeued ==
    /\ \/ NothingToDeliver /\ UNCHANGED <<currentInterrupt, interruptTail>>
       \/ /\ ~NothingToDeliver
          /\ ~Deliverable(peekInterrupt)
          /\ currentInterrupt' = peekInterrupt
          /\ interruptTail' = NextSlot(interruptTail)
    /\ UNCHANGED <<inProgress, interruptReturnAddress, programCounter>>

(* The early returns, the last of them after currentInterrupt was written. *)
KeepRunning ==
    /\ \/ NothingToDeliver /\ UNCHANGED currentInterrupt
       \/ /\ ~NothingToDeliver
          /\ ~Deliverable(peekInterrupt)
          /\ currentInterrupt' = peekInterrupt
    /\ UNCHANGED <<interruptTail, inProgress, interruptReturnAddress, programCounter>>

EnterHandler ==
    /\ ~NothingToDeliver
    /\ Deliverable(peekInterrupt)
    /\ currentInterrupt' = peekInterrupt
    /\ interruptTail' = NextSlot(interruptTail)
    /\ interruptReturnAddress' = programCounter
    /\ programCounter' \in Address
    /\ inProgress' = TRUE

detectInterrupt ==
    /\ cpuPhase = "detect"
    /\ interruptAccessMutex = NoThread
    /\ cpuPhase' = "execute"
    /\ KeepRunning \/ EnterHandler
    /\ UNCHANGED <<interruptAccessMutex, interruptQueue, interruptHead, suspended,
                   interruptTable, callers>>
-----------------------------------------------------------------------------
(* The instructions.  Fetching one advances the program counter. *)

Instruction ==
    /\ cpuPhase = "execute"
    /\ step[CPU] = "idle"
    /\ cpuPhase' = "detect"
    /\ UNCHANGED <<interruptAccessMutex, ring, callers>>

(* Any instruction that leaves the interrupt unit alone. *)
ExecuteOther ==
    /\ Instruction
    /\ programCounter' \in Address
    /\ UNCHANGED status

SuspendInterrupts ==
    /\ Instruction
    /\ suspended' = TRUE
    /\ programCounter' \in Address
    /\ UNCHANGED <<currentInterrupt, inProgress, interruptTable, interruptReturnAddress>>

ResumeInterrupts ==
    /\ Instruction
    /\ inProgress' = FALSE
    /\ suspended' = FALSE
    /\ programCounter' \in Address
    /\ UNCHANGED <<currentInterrupt, interruptTable, interruptReturnAddress>>

FinishInterrupt ==
    /\ Instruction
    /\ programCounter' = interruptReturnAddress
    /\ inProgress' = FALSE
    /\ UNCHANGED <<currentInterrupt, suspended, interruptTable, interruptReturnAddress>>

SetReturnAddress ==
    /\ Instruction
    /\ interruptReturnAddress' \in Address
    /\ programCounter' \in Address
    /\ UNCHANGED <<currentInterrupt, inProgress, suspended, interruptTable>>

SetInterruptTable ==
    /\ Instruction
    /\ interruptTable' \in TableLocation
    /\ programCounter' \in Address
    /\ UNCHANGED <<currentInterrupt, inProgress, suspended, interruptReturnAddress>>
-----------------------------------------------------------------------------
Execute ==
    \/ ExecuteOther \/ SuspendInterrupts \/ ResumeInterrupts \/ FinishInterrupt
    \/ SetReturnAddress \/ SetInterruptTable

cpuThreadFunction ==
    \/ detectInterrupt
    \/ Execute
    \/ CpuEnqueues
    \/ MoveTail \/ WriteTailSlot

CompleteEnqueue(t) == WriteHeadSlot(t) \/ AdvanceHead(t)

Next ==
    \/ cpuThreadFunction
    \/ \E t \in Thread : DeviceRaises(t)
    \/ \E t \in Caller : CompleteEnqueue(t)

(* The processor thread gets the mutex again and again, although other     *)
(* threads compete for it: they hold it for a few instructions and raise   *)
(* interrupts at the pace of keys, terminal bytes and sleeping timers.     *)
(* A thread inside an enqueue waits for nothing and goes on.               *)
Fairness ==
    /\ SF_vars(cpuThreadFunction)
    /\ \A t \in Caller : WF_vars(CompleteEnqueue(t))

Spec == Init /\ [][Next]_vars /\ Fairness
-----------------------------------------------------------------------------
(* The interrupts that wait, the next to be delivered first.  While the     *)
(* processor is between moving the tail and filling the slot, the slot at   *)
(* the tail does not count.                                                 *)

FirstWaiting == IF step[CPU] = "moved" THEN NextSlot(interruptTail) ELSE interruptTail

WaitingCount ==
    IF interruptHead >= FirstWaiting THEN interruptHead - FirstWaiting
                                     ELSE interruptHead + QueueSize - FirstWaiting

WaitingSlot(k) ==
    IF FirstWaiting + k - 1 < QueueSize THEN FirstWaiting + k - 1
                                        ELSE FirstWaiting + k - 1 - QueueSize

Waiting == [k \in 1 .. WaitingCount |-> interruptQueue[WaitingSlot(k)]]

Handling == IF inProgress THEN currentInterrupt ELSE None

Controller == INSTANCE InterruptController WITH
    Critical <- criticalInterruptIDs, Capacity <- QueueSize - 1,
    pending <- Waiting, handling <- Handling

(* Ring, lock and status bits together behave like the line of waiting      *)
(* interrupts of InterruptController: concurrent enqueues lose and mix up   *)
(* nothing, and detectInterrupt delivers what it should and nothing else.   *)
ControllerSpec == Controller!Spec

(* A thread is inside an enqueue exactly while it holds the mutex; what it  *)
(* wrote into the slot at the head is still there when it advances the      *)
(* head; and only the processor moves the tail.                             *)
MutexInv ==
    /\ \A t \in Caller : step[t] # "idle" <=> interruptAccessMutex = t
    /\ \A t \in Caller : argument[t] = None <=> step[t] = "idle"
    /\ \A t \in Caller : step[t] = "written" => interruptQueue[interruptHead] = argument[t]
    /\ \A t \in Thread : step[t] # "moved"
    /\ step[CPU] # "idle" => cpuPhase # "detect"
    /\ inProgress => currentInterrupt # None

(* While a handler runs, neither the interrupt whose parameter it reads nor *)
(* the address it will return to changes under it: no arrival and no fault  *)
(* of the handler overwrites them.                                          *)
HandlerUndisturbed ==
    [][inProgress /\ inProgress' =>
          /\ currentInterrupt' = currentInterrupt
          /\ \/ interruptReturnAddress' = interruptReturnAddress
             \/ SetReturnAddress]_vars

(* A fault of the running program never waits behind an event of a device,  *)
(* however many have arrived before it (as long as the program does not     *)
(* itself trigger interrupts with the number of a fault).                   *)
FaultsFirst ==
    TriggerInterrupt \cap CpuFault = {} =>
        \A i, j \in DOMAIN Waiting :
            i < j /\ Waiting[j] \in CpuFault => Waiting[i] \in CpuFault

EntersHandlerFor(C) ==
    (/\ cpuPhase = "detect" /\ cpuPhase' = "execute"
     /\ ~inProgress /\ interruptTable # NoTable
     /\ Waiting # <<>> /\ Head(Waiting) \in C)
    => inProgress' /\ currentInterrupt' = Head(Waiting)

(* A critical interrupt at the front is delivered before the processor      *)
(* executes another instruction, whether or not interrupts are suspended.   *)
CriticalAtOnce == [][EntersHandlerFor(criticalInterruptIDs)]_vars

(* No instruction or arrival keeps the processor from the critical          *)
(* interrupt at the front for ever: it is delivered unless an overflow of   *)
(* the ring loses it or the program takes its interrupt table away.         *)
CriticalDelivered ==
    (/\ Waiting # <<>> /\ Head(Waiting) \in criticalInterruptIDs
     /\ ~inProgress /\ interruptTable # NoTable)
    ~> (inProgress \/ Waiting = <<>> \/ interruptTable = NoTable)

(* The interrupt types that doc/design/interrupts.md marks as critical,     *)
(* division by zero among them, are delivered regardless of suspension.     *)
DocumentedCriticalAtOnce == [][EntersHandlerFor(CpuFault)]_vars

(* doc/design/memory-mapping.md gives the queue as many interrupts as it    *)
(* has slots: an interrupt that arrives waits.                              *)
ArrivalWaits == [][interruptHead' # interruptHead => Waiting' # <<>>]_vars
=============================================================================
