------------------------------- MODULE Derial -------------------------------
(***************************************************************************)
(* The serial device (src/src/deviceManagers/peripherals.c).  A program    *)
(* stores bytes in an outbound buffer and asks for a flush; bytes from the *)
(* terminal appear in the inbound register.  Three threads change the same *)
(* variables without a lock:                                               *)
(*                                                                         *)
(*   the processor, in pr_handleWrite and pr_handleRead;                   *)
(*   the manager's thread, which flushes in pr_derialHandleReadWrite;      *)
(*   the main thread, in pr_derialHandleTermIn.                            *)
(*                                                                         *)
(* Each of them changes some bits, computes the byte of the status         *)
(* register from all of them, and writes it later.  Bytes are numbered in  *)
(* the order in which the program stores them, and the terminal sends      *)
(* them.  The interrupts that the device raises are among those of         *)
(* InterruptUnit; of the configuration only the automatic flush is kept.   *)
(***************************************************************************)
EXTENDS Integers, Sequences, SequencesExt

CONSTANTS
    BufferSize,   \* DERIAL_OUTBOUND_BUF_SIZE
    None,
    Derial,       \* derialDeviceId
    Dboard,       \* dboardDeviceId, the keyboard of the same manager
    MaxAccesses,  \* bound: accesses of the program to the two devices
    MaxTyped      \* bound: bytes the terminal sends

ASSUME DerialAssumption ==
    /\ BufferSize \in Nat \ {0} /\ MaxAccesses \in Nat /\ MaxTyped \in Nat
    /\ Derial # Dboard /\ None \notin {Derial, Dboard}

Bits == {"bufNotEmpty", "bufFull", "inboundReady", "rcvMissed"}

VARIABLES
    outboundBuffer, outboundBufferHead,
    shouldFlush, autoFlush,
    bits,          \* derialStatus...
    statusRegister, inboundRegister,
    wakerTodo,     \* the devices that were accessed
    semaphore,     \* the device that the manager's thread is to be woken for
    cpu,           \* the processor, in a handler or outside
    manager,       \* the manager's thread
    main,          \* the main thread, in pr_derialHandleTermIn or outside
    accesses, sent, \* accesses and bytes of the program so far
    accepted,      \* history: the bytes that found room in the buffer
    printed,       \* the bytes the terminal got
    unread,        \* history: nobody read the byte in the inbound register
    hasty,         \* history: a byte was stored while a flush was due or under way
    overwritten,   \* history: a wake for the keyboard replaced the only one for the flush
    raced,         \* history: the program read while the next byte came in
    overlapped,    \* history: two updates of the status were under way at a time
    lost           \* history: a byte was replaced unread, and not reported missed

buffer == <<outboundBuffer, outboundBufferHead>>
status == <<bits, statusRegister>>
flags == <<shouldFlush, autoFlush>>
counts == <<accesses, sent>>
wakes == <<wakerTodo, semaphore>>
threads == <<cpu, manager, main>>
histories == <<accepted, unread, hasty, overwritten, raced, overlapped, lost>>
vars == <<buffer, status, flags, inboundRegister, wakes, threads, counts, printed, histories>>

Outside == [step |-> "outside"]
Waiting == [step |-> "waiting"]

Init ==
    /\ outboundBuffer = [i \in 0 .. BufferSize - 1 |-> 0] /\ outboundBufferHead = 0
    /\ shouldFlush = FALSE /\ autoFlush = FALSE
    /\ bits = {} /\ statusRegister = {} /\ inboundRegister = 0
    /\ wakerTodo = {} /\ semaphore = None
    /\ cpu = Outside /\ main = Outside /\ manager = Waiting
    /\ accesses = 0 /\ sent = 0
    /\ accepted = <<>> /\ printed = <<>> /\ unread = FALSE
    /\ hasty = FALSE /\ overwritten = FALSE /\ raced = FALSE
    /\ overlapped = FALSE /\ lost = FALSE
-----------------------------------------------------------------------------
Flushing == manager.step \in {"transmit", "reset", "clear"}

(* pr_derialUpdateStatus writes the byte that a thread computed. *)
Updating(t) == t.step = "update"

(* t has changed its bits and computes the register; a and b may be about  *)
(* to write theirs.                                                        *)
NoteOverlap(a, b) == overlapped' = (overlapped \/ Updating(a) \/ Updating(b))
-----------------------------------------------------------------------------
(* The processor. *)

Access ==
    /\ cpu = Outside
    /\ accesses < MaxAccesses /\ accesses' = accesses + 1

(* Faulty form: no test for a full buffer. *)
NoRoomIgnored == FALSE

NoRoom == outboundBufferHead = BufferSize

(* A byte that finds the buffer full is skipped without a word. *)
SendInVain ==
    /\ Access /\ NoRoom
    /\ sent' = sent + 1
    /\ cpu' = [step |-> "leave"]
    /\ UNCHANGED <<buffer, status, flags, inboundRegister, wakes, manager, main, printed,
                   histories>>

(* derialOutboundBuffer[derialOutboundBufferHead++] reads the index, and   *)
(* stores the byte and the new index in whichever order.                   *)
Send ==
    /\ Access /\ ~ NoRoom
    /\ sent' = sent + 1
    /\ cpu' = [step |-> "append", index |-> outboundBufferHead, open |-> {"byte", "head"}]
    /\ hasty' = (hasty \/ shouldFlush \/ Flushing)
    /\ UNCHANGED <<buffer, status, flags, inboundRegister, wakes, manager, main, printed,
                   accepted, unread, overwritten, raced, overlapped, lost>>

StoreByte ==
    /\ cpu.step = "append" /\ "byte" \in cpu.open
    /\ outboundBuffer' = [outboundBuffer EXCEPT ![cpu.index] = sent]
    /\ cpu' = [cpu EXCEPT !.open = @ \ {"byte"}]
    /\ UNCHANGED <<outboundBufferHead, status, flags, inboundRegister, wakes, manager, main,
                   counts, printed, histories>>

StoreHead ==
    /\ cpu.step = "append" /\ "head" \in cpu.open
    /\ outboundBufferHead' = cpu.index + 1
    /\ cpu' = [cpu EXCEPT !.open = @ \ {"head"}]
    /\ UNCHANGED <<outboundBuffer, status, flags, inboundRegister, wakes, manager, main,
                   counts, printed, histories>>

NoteStored ==
    /\ cpu.step = "append" /\ cpu.open = {}
    /\ bits' = bits \cup {"bufNotEmpty"} \cup (IF NoRoom THEN {"bufFull"} ELSE {})
    /\ cpu' = [step |-> "update", bits |-> bits', flush |-> TRUE]
    /\ accepted' = Append(accepted, sent)
    /\ NoteOverlap(manager, main)
    /\ UNCHANGED <<buffer, statusRegister, flags, inboundRegister, wakes, manager, main,
                   counts, printed, unread, hasty, overwritten, raced, lost>>

CpuUpdatesStatus ==
    /\ Updating(cpu)
    /\ statusRegister' = cpu.bits
    /\ cpu' = [step |-> IF cpu.flush /\ autoFlush THEN "flush" ELSE "leave"]
    /\ UNCHANGED <<buffer, bits, flags, inboundRegister, wakes, manager, main, counts,
                   printed, histories>>

(* A store to the flush register, or the automatic flush after a byte. *)
RequestFlush ==
    /\ \/ Access
       \/ cpu.step = "flush" /\ accesses' = accesses
    /\ shouldFlush' = TRUE
    /\ cpu' = [step |-> "leave"]
    /\ overwritten' = FALSE
    /\ UNCHANGED <<buffer, status, autoFlush, inboundRegister, wakes, manager, main, sent,
                   printed, accepted, unread, hasty, raced, overlapped, lost>>

(* pr_derialUpdateConfig *)
Configure ==
    /\ Access
    /\ autoFlush' = ~ autoFlush
    /\ cpu' = [step |-> "leave"]
    /\ UNCHANGED <<buffer, status, shouldFlush, inboundRegister, wakes, manager, main, sent,
                   printed, histories>>

(* The program reads the inbound register; pr_handleRead comes after. *)
ReadInbound ==
    /\ Access
    /\ cpu' = [step |-> "read"]
    /\ unread' = FALSE
    /\ raced' = (raced \/ main.step \in {"miss", "ready"})
    /\ UNCHANGED <<buffer, status, flags, inboundRegister, wakes, manager, main, sent,
                   printed, accepted, hasty, overwritten, overlapped, lost>>

(* Faulty form: the register is left as it was. *)
NoteReadQuietly ==
    /\ cpu.step = "read"
    /\ bits' = bits \ {"inboundReady", "rcvMissed"}
    /\ cpu' = [step |-> "leave"]
    /\ UNCHANGED <<buffer, statusRegister, flags, inboundRegister, wakes, manager, main,
                   counts, printed, histories>>

NoteRead ==
    /\ cpu.step = "read"
    /\ bits' = bits \ {"inboundReady", "rcvMissed"}
    /\ cpu' = [step |-> "update", bits |-> bits', flush |-> FALSE]
    /\ NoteOverlap(manager, main)
    /\ UNCHANGED <<buffer, statusRegister, flags, inboundRegister, wakes, manager, main,
                   counts, printed, accepted, unread, hasty, overwritten, raced, lost>>

(* Faulty form: a device is marked before its handler runs. *)
LeaveUnmarked ==
    /\ cpu.step = "leave" /\ cpu' = Outside
    /\ UNCHANGED <<buffer, status, flags, inboundRegister, wakes, manager, main, counts,
                   printed, histories>>

(* The end of mb_writeToDeviceData and mb_readFromDeviceData. *)
Leave ==
    /\ cpu.step = "leave" /\ cpu' = Outside
    /\ wakerTodo' = wakerTodo \cup {Derial}
    /\ UNCHANGED <<buffer, status, flags, inboundRegister, semaphore, manager, main, counts,
                   printed, histories>>

(* An access that no handler minds, to the status register or to the       *)
(* keyboard, marks the device all the same.                                *)
AccessOther ==
    /\ Access
    /\ \E d \in {Derial, Dboard} : wakerTodo' = wakerTodo \cup {d}
    /\ UNCHANGED <<buffer, status, flags, inboundRegister, semaphore, threads, sent, printed,
                   histories>>
-----------------------------------------------------------------------------
(* The main thread: input from the terminal, and waking.                   *)

Type ==
    /\ main = Outside /\ inboundRegister < MaxTyped
    /\ inboundRegister' = inboundRegister + 1
    /\ main' = [step |-> "miss", replaced |-> unread]
    /\ unread' = TRUE
    /\ raced' = (raced \/ cpu.step = "read")
    /\ UNCHANGED <<buffer, status, flags, wakes, cpu, manager, counts, printed, accepted,
                   hasty, overwritten, overlapped, lost>>

(* Faulty form: the bit for a missed byte is not set. *)
MissedBitsForgotten == {}

MissedBits == IF "inboundReady" \in bits THEN {"rcvMissed"} ELSE {}

NoteMissed ==
    /\ main.step = "miss"
    /\ bits' = bits \cup MissedBits
    /\ lost' = (lost \/ (main.replaced /\ MissedBits = {}))
    /\ main' = [step |-> "ready"]
    /\ UNCHANGED <<buffer, statusRegister, flags, inboundRegister, wakes, cpu, manager,
                   counts, printed, accepted, unread, hasty, overwritten, raced, overlapped>>

NoteReady ==
    /\ main.step = "ready"
    /\ bits' = bits \cup {"inboundReady"}
    /\ main' = [step |-> "update", bits |-> bits']
    /\ NoteOverlap(manager, cpu)
    /\ UNCHANGED <<buffer, statusRegister, flags, inboundRegister, wakes, cpu, manager,
                   counts, printed, accepted, unread, hasty, overwritten, raced, lost>>

MainUpdatesStatus ==
    /\ Updating(main)
    /\ statusRegister' = main.bits
    /\ main' = Outside
    /\ UNCHANGED <<buffer, bits, flags, inboundRegister, wakes, cpu, manager, counts, printed,
                   histories>>

(* The wake that the manager's thread did not get to see is the only one   *)
(* for the flush that is due: no handler is about to mark the device again.*)
OnlyWake == shouldFlush /\ semaphore = Derial /\ Derial \notin wakerTodo /\ cpu = Outside

(* mb_mainThread posts under the manager's mutex, which the manager's      *)
(* thread holds unless it waits: the wait for the mutex is part of the     *)
(* step.  A wake for the same device loses nothing.                        *)
Wake(d) ==
    /\ main = Outside /\ d \in wakerTodo /\ manager = Waiting
    /\ wakerTodo' = wakerTodo \ {d}
    /\ semaphore' = d
    /\ overwritten' = (overwritten \/ (d # Derial /\ OnlyWake))
    /\ UNCHANGED <<buffer, status, flags, inboundRegister, threads, counts, printed,
                   accepted, unread, hasty, raced, overlapped, lost>>
-----------------------------------------------------------------------------
(* The manager's thread: the loop of pr_initDeviceManager, and             *)
(* pr_derialHandleReadWrite.                                               *)

(* A wake for the keyboard, or for the serial device that has nothing to   *)
(* flush.                                                                  *)
WakeInVain ==
    /\ manager = Waiting /\ semaphore # None
    /\ semaphore = Dboard \/ ~ shouldFlush
    /\ semaphore' = None
    /\ UNCHANGED <<buffer, status, flags, inboundRegister, wakerTodo, threads, counts,
                   printed, histories>>

BeginFlush ==
    /\ manager = Waiting /\ semaphore = Derial /\ shouldFlush
    /\ semaphore' = None
    /\ shouldFlush' = FALSE
    /\ manager' = [step |-> "transmit", index |-> 0]
    /\ UNCHANGED <<buffer, status, autoFlush, inboundRegister, wakerTodo, cpu, main, counts,
                   printed, histories>>

Transmit ==
    /\ manager.step = "transmit" /\ manager.index < outboundBufferHead
    /\ printed' = Append(printed, outboundBuffer[manager.index])
    /\ manager' = [manager EXCEPT !.index = @ + 1]
    /\ UNCHANGED <<buffer, status, flags, inboundRegister, wakes, cpu, main, counts,
                   histories>>

EndOfBuffer ==
    /\ manager.step = "transmit" /\ manager.index >= outboundBufferHead
    /\ manager' = [step |-> "reset"]
    /\ UNCHANGED <<buffer, status, flags, inboundRegister, wakes, cpu, main, counts, printed,
                   histories>>

(* Faulty form: the bytes stay in the buffer. *)
ResetHeadForgotten ==
    /\ manager.step = "reset"
    /\ manager' = [step |-> "clear"]
    /\ UNCHANGED <<buffer, status, flags, inboundRegister, wakes, cpu, main, counts, printed,
                   histories>>

ResetHead ==
    /\ manager.step = "reset"
    /\ outboundBufferHead' = 0
    /\ manager' = [step |-> "clear"]
    /\ UNCHANGED <<outboundBuffer, status, flags, inboundRegister, wakes, cpu, main, counts,
                   printed, histories>>

(* Faulty form: only the bit for a full buffer is cleared. *)
FlushedBitsFull == {"bufFull"}

FlushedBits == {"bufNotEmpty", "bufFull"}

ClearBits ==
    /\ manager.step = "clear"
    /\ bits' = bits \ FlushedBits
    /\ manager' = [step |-> "update", bits |-> bits']
    /\ NoteOverlap(cpu, main)
    /\ UNCHANGED <<buffer, statusRegister, flags, inboundRegister, wakes, cpu, main, counts,
                   printed, accepted, unread, hasty, overwritten, raced, lost>>

ManagerUpdatesStatus ==
    /\ Updating(manager)
    /\ statusRegister' = manager.bits
    /\ manager' = Waiting
    /\ UNCHANGED <<buffer, bits, flags, inboundRegister, wakes, cpu, main, counts, printed,
                   histories>>
-----------------------------------------------------------------------------
Program == SendInVain \/ Send \/ Configure \/ ReadInbound \/ AccessOther
Handler == StoreByte \/ StoreHead \/ NoteStored \/ CpuUpdatesStatus \/ NoteRead \/ Leave
MainThread == NoteMissed \/ NoteReady \/ MainUpdatesStatus \/ \E d \in {Derial, Dboard} : Wake(d)
Manager == WakeInVain \/ BeginFlush \/ Transmit \/ EndOfBuffer \/ ResetHead \/ ClearBits
              \/ ManagerUpdatesStatus

Next == Program \/ RequestFlush \/ Handler \/ Type \/ MainThread \/ Manager

(* Every thread goes on; nobody has to store or to type. *)
Fairness ==
    /\ WF_vars(Handler \/ (cpu.step = "flush" /\ RequestFlush))
    /\ WF_vars(MainThread) /\ WF_vars(Manager)

Spec == Init /\ [][Next]_vars /\ Fairness
-----------------------------------------------------------------------------
(* The types of the device's variables. *)
TypeOK ==
    /\ outboundBuffer \in [0 .. BufferSize - 1 -> 0 .. MaxAccesses]
    /\ outboundBufferHead \in 0 .. BufferSize
    /\ shouldFlush \in BOOLEAN /\ autoFlush \in BOOLEAN
    /\ bits \subseteq Bits /\ statusRegister \subseteq Bits
    /\ inboundRegister \in 0 .. MaxTyped
    /\ wakerTodo \subseteq {Derial, Dboard} /\ semaphore \in {None, Derial, Dboard}
    /\ cpu \in [step : {"outside", "read", "leave", "flush"}]
               \cup [step : {"append"}, index : 0 .. BufferSize - 1,
                     open : SUBSET {"byte", "head"}]
               \cup [step : {"update"}, bits : SUBSET Bits, flush : BOOLEAN]
    /\ main \in [step : {"outside", "ready"}] \cup [step : {"miss"}, replaced : BOOLEAN]
                \cup [step : {"update"}, bits : SUBSET Bits]
    /\ manager \in [step : {"waiting", "reset", "clear"}]
                   \cup [step : {"transmit"}, index : 0 .. BufferSize]
                   \cup [step : {"update"}, bits : SUBSET Bits]
    /\ accesses \in 0 .. MaxAccesses /\ sent \in 0 .. accesses
    /\ unread \in BOOLEAN /\ hasty \in BOOLEAN /\ overwritten \in BOOLEAN
    /\ raced \in BOOLEAN /\ overlapped \in BOOLEAN /\ lost \in BOOLEAN

(* The bytes b[k], ..., b[h - 1]. *)
Stretch(b, k, h) == [i \in 1 .. h - k |-> b[k + i - 1]]

(* The bytes that the next or the present flush will transmit. *)
Remaining ==
    CASE manager.step = "transmit" ->
            Stretch(outboundBuffer, manager.index, outboundBufferHead)
      [] manager.step = "reset" -> <<>>
      [] OTHER -> Stretch(outboundBuffer, 0, outboundBufferHead)

(* Every byte that found room in the buffer is transmitted once and in     *)
(* order, whatever wakes, requests and input come in between, as long as   *)
(* no byte is stored while a flush is due or under way.                    *)
OutboundExact ==
    ~ hasty /\ cpu.step # "append" => printed \o Remaining = accepted

(* The two bits about the buffer tell how full it is whenever nobody is    *)
(* storing or flushing, unless a byte was stored while a flush was due or  *)
(* under way.                                                              *)
BufferBits ==
    ~ hasty /\ cpu.step # "append" /\ manager.step # "clear" =>
        /\ "bufNotEmpty" \in bits <=> outboundBufferHead > 0
        /\ "bufFull" \in bits <=> outboundBufferHead = BufferSize

(* The status register shows the bits when no thread is about to write it, *)
(* unless two of them were about to at a time.                             *)
RegisterExact ==
    ~ overlapped /\ ~ Updating(cpu) /\ ~ Updating(main) /\ ~ Updating(manager)
       /\ main.step # "ready"
       => statusRegister = bits

(* Status bits and status register never mislead the program for good:     *)
(* with the threads out of the way, the bits about the buffer are those of *)
(* the buffer and the register shows the bits (pr_derialUpdateStatus).     *)
StatusTruthful == BufferBits /\ RegisterExact

(* A byte from the terminal that nobody read is announced as ready, and    *)
(* when the next one replaces it that is reported, unless the program read *)
(* the register while the next byte came in.                               *)
InputAccounted ==
    ~ raced => /\ ~ lost
               /\ main.step \notin {"miss", "ready"} /\ cpu.step # "read" =>
                     ("inboundReady" \in bits <=> unread)

(* A flush that was asked for begins sooner or later, and empties the      *)
(* buffer unless a byte was stored while it was due or under way: unless   *)
(* the only wake for it was replaced by one for the keyboard, whatever     *)
(* other wakes come in between, and whatever became of earlier flushes     *)
(* (mb_mainThread, pr_derialHandleReadWrite).                              *)
FlushHappens ==
    /\ shouldFlush ~> (overwritten \/ ~ shouldFlush)
    /\ shouldFlush ~> (overwritten \/ hasty \/ outboundBufferHead = 0)
=============================================================================
