# A verification project for DGC-32

DGC-32 is an emulator of a 32-bit computer: a processor (`src/src/dgc32.c`), a
motherboard (`src/src/motherboard.c`) and device managers
(`src/src/deviceManagers/`), each of them a thread, that share one array of
memory and the interrupt queue kept inside it. This directory holds TLA+ models
of it, the TLC runs that check them, and TLAPS proofs of what matters most.
`PROJECT.json` maps every definition to the lines it models.

## Inventory

| Component | State | Operations | Interacts through |
| --- | --- | --- | --- |
| Interrupt unit (`dgc32.c`) | ring of the waiting interrupts, head, tail, status bits, current interrupt, return address | `enqueueInterrupt`, `enqueueCriticalInterrupt`, `detectInterrupt`, the interrupt instructions | called by every device thread, the main thread and the processor; one mutex |
| Device registry (`motherboard.c`) | `deviceMappingData`, the chain of devices in memory, the registry table in guest memory | `dmi_requestNewDevice`, `dmi_removeDevice`, the look-ups of the processor's accesses | managers request, the processor looks up (mutex), the guest reads the table (no mutex) |
| Threads: boot, waker, teardown (`motherboard.c`, the managers' loops) | `powerState`, `wakerTodo`, per manager a mutex, a condition variable and a semaphore with one slot | `mb_init`, `mb_mainThread`, `mb_teardown` | main thread, processor, managers |
| Clock (`mb_timeThread`) | the date in the motherboard's data | a tick per second | timed wait, joined at teardown |
| Timer (`timers.c`) | duration, repeat, die flag | write handler, timer thread | processor writes, thread sleeps and clears the register |
| Peripherals (`peripherals.c`) | outbound buffer, status and configuration bits, flush flag | write and read handlers, flush, terminal input, key callback | processor, manager thread, main thread |
| Storage (`storage.c`) | drives, per-slot commands and status | insert, remove, read, write | processor writes commands, manager thread serves them |
| Arithmetic, flags, stack, decoding (`dgc32.c`) | registers | one instruction at a time | stack and arithmetic faults enter the interrupt unit |
| Dummy manager, self test, binary writer, set-up | - | - | no state of their own worth a model |

What is hard in this code, and what makes each component correct:

- **Interrupt unit.** Three kinds of threads write one ring. Faults are pushed
  in front while events are appended behind. A handler must not see its
  interrupt change, critical interrupts must not wait for the program, and
  nothing may get lost or be delivered twice.
- **Device registry.** Drives come and go for the life of the machine: devices
  must never overlap, each access must reach the device it lies in, and a
  guest that reads the table while it is rewritten must end up knowing the
  devices. A store is checked, done and reported in three steps, between which
  its device may leave.
- **Threads.** Every command travels handler, `wakerTodo`, semaphore, manager.
  Condition variables lose signals and wake spuriously, the semaphore holds
  one device, and the power may go off at any moment.
- **Timer, peripherals, storage.** Handlers run on the processor's thread and
  change, without a lock, what the manager's thread is working on.
- **Arithmetic and stack.** Flags at the borders (0, the smallest integer), the
  stack's critical region, wrapped addresses.

The hazards are listed, each at its line, in `PROJECT.json`.

## Plan

| # | Module | Question | State |
| --- | --- | --- | --- |
| 1 | `InterruptController`, `InterruptUnit`, `InterruptUnitProofs` | does the ring implement the abstract line of interrupts | done |
| 2 | `DeviceRegistry`, `DeviceRegistryProofs`, `DeviceRegistryTableProofs` | memory, look-ups, table and guest agree | done |
| 3 | `DeviceManagers`, `DeviceManagersProofs` | commands reach the managers, shutdown ends | done |
| 4 | `Disk`, `Storage`, `StorageProofs` | commands and status bits of drives that come and go; transfers implement an abstract disk | done |
| 5 | `Derial`, `DerialProofs` | no byte is lost or sent twice; the status bits agree with the buffer | done |
| 6 | `Timers`, `TimersProofs` | a started timer expires, the uptime follows the time, teardown ends | done |
| 7 | `Processor`, `ProcessorProofs` | flags and conditions against integer arithmetic, the stack, the memory bounds | done |

Done means: every property of the runs that is not a liveness property is a
theorem, too.

`InterruptController` is the abstract specification under `InterruptUnit`, and
`Disk` the one under `Storage`. The device modules (4-6) share the waking
protocol of `DeviceManagers`, reduced to what a device sees of it: `wakerTodo`, a
semaphore with room for one device, and a post that takes the manager's mutex.
Their interrupts are among those `InterruptUnit` lets devices raise. `Processor`
raises the faults that `InterruptUnit` delivers, and its stores to device data
are those `DeviceRegistry` looks up.

Many properties of 4-7 have an *excuse*: a history variable that records a named
interleaving in which the code does not keep its promise. The property says that
there is no other. Where the code is known to differ from its documentation the
difference is also listed below under "Where code and documents differ".

## Interrupt unit

`InterruptController` says what a program may rely on: a sequence `pending`, a
flag `handling`, a flag `suspended`. Events are appended, faults are put in
front, the front is delivered between two instructions when no handler runs and
it is critical or interrupts are not suspended.

`InterruptUnit` is the code. `interruptQueue`, `interruptHead` and
`interruptTail` are the ring; an enqueue is split where another thread can
interfere (lock, write of the slot, advance of the index and unlock);
`detectInterrupt` is one step under the mutex; every interrupt instruction is an
action. A device thread repeats `dmi_enqueueInterrupt` with any interrupt its
device may raise. The power-off test of the processor's loop is left out.
Interrupts are model values; a ring slot keeps its stale contents.

| Run | Shows |
| --- | --- |
| `interrupt_unit` | with a ring of 3 and two device threads: type, mutual exclusion, faults first, the handler's registers undisturbed, critical interrupts delivered at the next instruction, the refinement `ControllerSpec`, and that a waiting critical interrupt is delivered |
| `interrupt_division_by_zero` | **violated**: the documentation calls division by zero critical, the table in the code does not |
| `interrupt_capacity` | **violated**: the ring documented for 128 interrupts holds 127, and the 128th arrival empties it |

The ring has no test for full, and neither has the model: the arrival that makes
head equal tail empties it, and `InterruptController` says so too (`Capacity`).
`interrupt_capacity` contrasts that with the documentation. Three slots are
enough to wrap around both ends, and to overflow, while two threads are in the
middle of an enqueue. Fairness: a thread inside an enqueue waits for nothing
and goes on (weak fairness), and the processor gets the mutex, which keeps
coming free, sooner or later (strong fairness): the other threads hold it for a
few instructions at the pace of keys and timers. Nothing is assumed of the
program: `CriticalDelivered` starts where no handler runs.

**Proved** (`InterruptUnitProofs`), for every ring size, set of threads and
interrupt sets satisfying the named assumptions: `TypeCorrect`,
`MutualExclusion`, `HandlerUndisturbedHolds`, `FaultsFirstHolds`,
`ImplementsController` and `CriticalAtOnceHolds`. The inductive invariant is the type invariant with
`MutexInv`: while a thread is between its write and its advance it holds the
mutex, so the written slot is still its own. The refinement maps the ring to the
sequence of slots from tail to head; one lemma per index movement says that
appending, pushing in front and dropping the front of that sequence is what the
code does to the indices, modulo wrapping. `FaultsFirst` is proved on that line,
with `CarriedInv`: what an enqueue carries to the head is an event, and to the
front only a fault; it assumes that the codes of device events are none of the
codes of faults. Model-checked only: `CriticalDelivered`.

## Device registry

`DeviceRegistry` keeps `deviceMappingData` and the `nextInMem` chain (a sequence
of ids). A request is one step under the mutex for id and memory, then one step
for each field of the table entry, since the guest reads the table without the
mutex. `dmi_removeDevice` is split in the same way. The look-ups of reads,
checks and writes are the operator `FindDevice`, the walk along the chain. A
store is three steps: check, copy, report. The guest is the one the
documentation describes: it scans the table at power on and rereads an entry
when a motherboard event names it; it is modelled from the documents and marked
external. Its events are a set: their order is the interrupt unit's business.

| Run | Shows |
| --- | --- |
| `device_registry` | `MemoryPartitioned`, `LookupExact`, `TableTruthful`, `GuestInformed`, `StoreStaysWritable`, `MotherboardFirst` |
| `device_registry_gaps` | **violated**: a request fails although memory is free, because gaps behind removed drives are compared with the wrong device |

Bounds: 6 ids, 8 bytes of device data, three boot devices (a motherboard, a
drive, a timer) and up to 3 drives. This gives holes in the table in front of,
between and behind devices, a full memory, and ids given out again.
`TableAssumption` states why the last id is never used: six permanent devices
and sixteen drives are fewer than 32 entries. `MotherboardFirst` shows that the
code for the removal of the device that is first in memory, which forgets the
table and the interrupt, is not reached: drives are requested behind the
motherboard's device.

**Proved** (`DeviceRegistryProofs`), for every table size, region size, list of
boot devices and history of insertions and removals that satisfy the named
assumptions: `TypeCorrect`, `MemoryPartitionedHolds`, `MotherboardFirstHolds`
and `LookupExactHolds`. The inductive invariant adds to the partition that a
drive of the storage manager, and a device whose entry is being written, is
mapped (otherwise a removal would unlink nothing), and that the motherboard's
device is first. The argument: the place the search finds is either the front or
the back of the chain and never between two devices (`PlaceFacts`; this is also
why the gaps run fails), so an insertion keeps the order (`InsertKeepsOrder`);
a removal keeps it because no id is linked twice (`RemoveKeepsOrder`); in a
sorted chain the walk cannot stop before the holder of an address
(`LookupFinds`).

`DeviceRegistryTableProofs` adds `TableTruthfulHolds`, `GuestInformedHolds` and
`StoreStaysWritableHolds`. The table: entries are right but for the one the
manager is writing (`EntryInv`), a new device fills the first hole (`FillInv`),
and an end marker lies behind all devices and in the written part (`MarkerInv`),
which needs that the ids never run out (`CountInv`, by counting sets). The guest:
whatever it knows wrongly has an event waiting, or an entry under way on one of
the two sides (`GuestInv`). The store: behind the last device that stays, drives
lie at multiples of their size (`PlacesInv`), so an address that was writable in
a drive that left is writable in the one that took its place. This uses
`BootDrivesAssumption`: drives of the command line have the layout of all drives,
and `mb_init` gives up if there are more of them than slots.

## Threads

`DeviceManagers` models the main thread (`mb_init`, `mb_mainThread`,
`mb_teardown`) one lock or signal at a time, the processor's accesses (handler,
then `wakerTodo`, under the registry's mutex), and the loop every manager runs.
A signal moves a waiting thread to "relocking" and is lost if nobody waits. A
manager's work on a wake is one step, under its mutex; it clears the command and
may remove a drive. A manager may fail to initialise, which ends the boot, and
the waits of the managers in `Spurious` may end without a signal. Insertions are
in `DeviceRegistry`.

| Run | Shows |
| --- | --- |
| `device_managers` | boot brings managers up one at a time and switches on only when all are up; a command is lost by overwriting and in no other way; what is not overwritten is served; power off ends the machine from every state; nobody outlives the memory |
| `device_managers_overwritten` | **violated**: every transaction completes. The semaphore holds one device, the second wake overwrites the first |
| `device_managers_removed` | **violated**: the main thread survives. It follows the entry of a removed device |

Bounds: two managers and three devices, of which two share a manager and one may
leave: the least in which a wake can be overwritten, and a removal meet a scan.
Fairness: every thread is scheduled, a mutex that keeps coming free is given to
a waiting thread; nobody has to press the power button and the program need not
access a device. The wait of `mb_init` for a manager has no predicate; here it
ends by the manager's signal only.

**Proved** (`DeviceManagersProofs`), for any number of managers and devices,
whichever of them wake spuriously or fail: `TypeCorrect`, `BootOrderHolds`,
`NobodyOutlivesMemoryHolds` and `OnlyOverwritingLosesWakesHolds`. The first two
follow the main thread: who is up and who is absent at each of its steps
(`BootInv`, `RunInv`), that the power is on only in its main loop (`PowerInv`), and
that a manager it has joined stays gone (`EndInv`). For the last, `WakeInv` is stronger
than the property in one place: while a manager serves a device whose signal the
main thread has not sent yet, that signal is no wake any more, and a command that
comes now must have one of its own. Model-checked only: `CommandServed` and
`PowerOffEnds`.

## Storage

A command is a store to the initiate register of the drive manager or of a
drive. `st_handleWrite` runs on the processor's thread (`Initiate`, `Announce`,
`UpdateRegister`: the flag, the status bits, the register); the main thread passes
the access on (`Locate`, `PostWake`); the manager's thread serves one command per
wake (`TakeManagerCommand` or `TakeDriveCommand` to `ThreadUpdatesRegister`), each
shared variable in a step of its own. The arguments of a command lie in registers
that the program may change until the thread reads them, so they may be anything
then. Data is counted in pieces of 128 bytes, or of one sector where that is
less. A file that is created when its header cannot be written, or no device is
left, stays behind; the same file may be inserted twice; a slot and a patch of
device data keep what their last owner left in them. All this is the code's.

`Disk` says what a program may rely on: a transfer copies a sector piece by piece
between a file and memory, what was never written is zero, a transfer that
reports success has copied everything, and nothing else changes a file.

| Run | Shows |
| --- | --- |
| `storage` | `DrivesExact`: slots, registry, registers and files agree; `ClearMeansDone`: no transaction hides behind a clear status bit; `DiskSpec`: drives implement `Disk`; `TransactionEnds` |

Excuses of `TransactionEnds`: the completion overtook the announcement; the name
pointer was bad; the value stored to a drive's initiate register is no command;
another device's wake overwrote this one's; the drive inherited slot or registers
from a removed one. Each of them is reached. `ClearMeansDone` needs the last only.

Bounds: two slots and ids, two files (one inserted at boot, of one large sector
half of which is in the file), sectors of one and of two pieces, a memory of two
pieces so that a transfer can run out of it, three accesses. That is a drive in
use while another is created or removed, and a slot used again. A small sector at
the end of a file cannot be read (the test of `ferror` is inverted, storage.c:611)
and a large one can never be written (the loop reads the file, storage.c:723):
both are in the model and count as failures, which `Disk` allows. Fairness: the
handler, the main thread and the manager's thread go on; the program need not do
anything. A machine whose command line names a file that is no drive stops at
boot, so a state without successor is legal.

**Proved** (`StorageProofs`), for every number of slots, ids and files, every
geometry and memory: `TypeCorrect`, `DrivesExactHolds`, `ClearMeansDoneHolds`, and
`ImplementsDisk`, the refinement. The inductive invariant has the types, with what
the thread carries from step to step, and five parts. `DeviceInv`: drives and
devices belong to each other one to one, but for the one that is being inserted or
removed. `GeometryInv`: a drive, its file and its registers have the same
geometry. `ThreadInv`: what the thread works on is still there, and a transfer
stays in its sector. `CpuInv`: so is what the handler works on. `UnitInv`, behind
`ClearMeansDone`: a unit that inherited nothing has one command at a time, none
while it is served, and its register shows it once the handler has left. The
refinement maps a file to its pieces, zero behind its end, and the thread's
progress to the transfer; reading, writing, ending and acknowledging are the
steps of `Disk`, everything else stutters. Assumed of the files at the start
(`StorageAssumption`): they fit the longest file, and one of large sectors ends
in the first piece, because a write would read the rest of a longer one over a
buffer of one piece. Model-checked only: `TransactionEnds`.

## Serial device

`Derial` lets three threads change the same variables without a lock: the
processor (`Send` to `Leave`), the main thread (`Type` to `MainUpdatesStatus`) and
the manager (`BeginFlush` to `ManagerUpdatesStatus`). The byte of the status
register is computed in one step and written in a later one
(`pr_derialUpdateStatus`); of `buffer[head++] = byte` the two stores may happen in
either order. Bytes are numbered, so that a lost or repeated one shows.

| Run | Shows |
| --- | --- |
| `derial` | `OutboundExact`, `StatusTruthful`, `InputAccounted`, `FlushHappens` |

Excuses: a byte was stored while a flush was due or under way (`hasty`); the read
of the inbound register raced with the next byte (`raced`); two threads were
about to write the status register (`overlapped`); a wake for the keyboard
replaced the only one for the flush that is due (`overwritten`, see `OnlyWake`). A
program can avoid the first by waiting until the status shows an empty buffer; of
the others it cannot know. `overwritten` does not outlast the flush it is about: a
wake for the serial device that replaces one of its own loses nothing, since
`shouldFlush` remembers what to do, nor does a wake lost while another is on its way,
and the next request starts afresh. `FlushHappens` asks that a requested flush begins,
with no other excuse, and that it empties the buffer unless it is `hasty`.

Bounds: a buffer of two bytes (64 in the code), three accesses, two typed bytes:
a full buffer, a flush between the two stores, and a byte replaced unread.
Fairness: every thread goes on; nobody has to store or to type.

**Proved** (`DerialProofs`), for every size of the buffer and any number of bytes
and accesses: `TypeCorrect`, `OutboundExactHolds`, `StatusTruthfulHolds` and
`InputAccountedHolds`. The invariant says what each of the three threads leaves
half done: between the two stores of an append (`AppendInv`) what was printed and
the buffer up to the index, which `Stretch` puts together, are what was accepted;
a flush stays behind the head (`FlushInv`); a thread that is about to write the status register
carries the bits of the moment, unless two threads do (`RegisterInv`); the main
thread does not meet a reader (`InputInv`). Model-checked only: `FlushHappens`.

## Timers

`Timers` holds the dimer's thread and the motherboard's clock from the boot that
creates them to the teardown that joins them. Signals are sent without the mutex
of the waiting thread, so `Signalled` wakes a thread only if it waits, and the
step between a thread's last test and its wait (`enterWait`) is a state of its
own. A wait may end without a signal. Time passes in half seconds, the first 900
and the last 100 ms, because the clock's deadline depends on it.

| Run | Shows |
| --- | --- |
| `timers` | `RegisterShowsTimer`, `TimerCompletes`, `UptimeFollows`, `TeardownEnds` |

Excuses: a store of one byte to the duration (`half`), one that came when the
thread did not wait (`unheard`), an early end of the wait (`spurious`), a store
that crossed the end of the timer (`crossed`); the order to die fell between test
and wait (`missedKill`), the timer repeats; the clock's first wait ended before
the power was on (`overslept`). A repeating timer that was started cannot be
stopped by the teardown: the thread's inner loop does not look at `dimerDie`.

Bounds: durations 0 to 2, two stores, and an uptime at most three seconds behind.
Two stores are enough for one to meet the end of the other's timer. Fairness:
threads are scheduled and time passes; the clock's thread is prompt (`Tick` waits
for it), as a machine that is so busy that a thread does not run for seconds has
no uptime worth a property.

**Proved** (`TimersProofs`), for every longest duration and number of accesses:
`TypeCorrect`, `RegisterShowsTimerHolds` and `UptimeFollowsHolds`. `DurationInv`
follows a duration from the handler's store to its signal and into the thread's
sleep; `ClockInv` relates how far the uptime is ahead to how far the deadline is
off, so that skipping a second and catching it up keep within the bounds.
Model-checked only: `TimerCompletes` and `TeardownEnds`.

## Processor

`Processor` executes instructions: any of them may come next, with any operand
of a small set, since the program is not read from the memory. A byte has
`ByteBits` bits, a word four bytes: with 4 the memory map of the code, which
needs 15 bits, still fits. One general and one offset register stand for all.
Memory is an array that `malloc` left uninitialised; bytes past its end are
arbitrary. Faults are collected in `raised`; `InterruptUnit` delivers them.
`Shared` is `a & b`, bit by bit, from which `a | b` and `a ^ b` follow; a rotation
is the code's loop, one turn after the other.

| Run | Shows |
| --- | --- |
| `processor` | `FlagsExact`: flags after arithmetic and shifts, and all conditions after comparisons, against integers; `StackWarning`; `CallsReturn`; `MemoryExact` |

`FlagsExact` states where the code is wrong, too: zero and the least word are
their own negations, so the overflow of a comparison with them is inverted and
with it the signed conditions. `CallsReturn` is excused by a push that was denied
(the branch is taken all the same), a peek (which pops), a moved or wrapped
pointer, unbalanced widths, and a store or swap into the stack (`causes`). `StackWarning` holds without excuse for pushes
and calls; a stack of eight bytes or less is never warned of.

Bounds: twelve starts (borders of the number range as first operand, stacks that
are nearly full, too small, in forbidden memory and at the top of the memory),
borders as immediates, and runs of three instructions where the stack is used or
moved; every other instruction is a run by itself (`Isolated`), since it only leaves
other values in the registers, which the starts supply. A run ends at the bound or when
the emulator follows a null pointer, so a state without successor is legal.

**Proved** (`ProcessorProofs`), for bytes of four bits or more, every memory map
with a gap between the ROM and the device registers, every start, set of
operands and length of a run, and also for programs that mix all instructions
(`Isolated = FALSE`): `TypeCorrect`, `StackWarningHolds`, `FlagsExactHolds`,
`MemoryExactHolds` and `CallsReturnHolds`.

- `TypeInv`: registers are functions into their widths, and frames hold what was
  pushed; one lemma per instruction says that it keeps this (`Typed`).
- Each instruction then pushes, pops or leaves the stack alone (`PushShape`,
  `PopShape`, `RestShape`), and the stack's theorems look at these three only.
  For the warning it is enough that `placed` implies a critical pointer
  (`WarnInv`). For `CallsReturn`, `StackInv` says that while nothing excuses it the
  frames lie one below the other from the stack pointer down (`Lies`), each with
  its value: pushing writes above them, popping reads the upper one, and a store
  elsewhere does not meet them.
- The flags have no history. After a comparison, carry and overflow of
  `Sum(a, Negated(b))` are related to the difference of the words and to that of
  the integers they stand for (`DifferenceFacts`); the two words that
  are their own negation, zero and the least one, are where they differ. For the
  rotations, one turn moves every bit of the word and its carry one place
  (`LeftBits`, `RightBits`), and n turns n places (`LeftRotation`, `RightRotation`).
- `LogicIsBitwise` justifies how the model writes `&`, `|` and `^`: as sums over the
  bits two words share. A number built from bits, from the lowest up, has these bits
  (`BitsBuilt`), and so every bit of the result is that of the operands' bits.
- The library's theorems of induction take an operator as parameter, which the
  provers cannot instantiate. `SetInduction`, which these proofs use for powers
  of two, for `Shared` and for the turns of a rotation, is proved by counting: a set
  with zero and all successors, but without n, would map the part of it below n
  into itself without zero, one to one.

`ProcessorAssumption` asks for a threshold of eight or more (the code has eight),
so that a warning leaves room for a word, and for what the model's operands need:
`G0`, `SP` and `FL` are among the selected registers.

## Where code and documents differ

Five differences are runs of their own (`interrupt_*`, `device_registry_gaps`,
`device_managers_*`). Others met while modelling, which the modules reproduce:

- `OP_NOT_REG` rotates by zero and copies its operand (dgc32.c:3133); the
  documentation gives `R1 = ~R2`.
- The rotations through the carry take their count modulo 32 (dgc32.c:1115, 1129);
  registers-and-instructions.md:793 and 817 give `R3 places`, which is something
  else from 32 on, as the word and its carry turn as 33 bits. `RotationExact` states
  what the code does.
- Signed conditions after a comparison with 0 or the least integer (dgc32.c:1177).
- `OP_PEEK` pops, with the register of the previous operand (dgc32.c:3553).
- `BRNC_REG` in a relative mode offsets the number of the register, not its
  value (dgc32.c:3304).
- The immediates of `SUB_FL`, `MUL_FL` and `DIV_FL` are not fetched
  (dgc32.c:2740, 2814, 2888).
- A signed byte loaded into `SS` or `SP` follows a null pointer (dgc32.c:828-845).
- Nothing sets `dimerInterrupt` (timers.c:62-66), which the documentation of the
  dimer describes as bit 1 of its configuration.
- Small sectors at the end of a file and all writes of large sectors fail
  (storage.c:611, 723).

## What is not modelled

Window I/O and the command line, failures of an open file, the formatting of the
date, the keyboard's callback and table (which keep no state), the interrupts of
storage and serial device and the bits that enable them, the values of floats,
and the decoding of instructions from memory. The self-test harness and the
binary writer are tools beside the machine, and the dummy manager does nothing.

Model-checked only: the liveness properties (`CriticalDelivered`, `CommandServed`,
`PowerOffEnds`, `TransactionEnds`, `FlushHappens`, `TimerCompletes`,
`TeardownEnds`), which are out of the prover's reach. Every invariant and action
property of the passing runs, and both refinements, are theorems, too. What a
recursive function computes is proved where a theorem needs it: the place of each
bit after a rotation, and each bit of `AND`, `OR` and `XOR`. The theorems rest on the
named assumptions of the modules, which TLC evaluates in every run, and on
nothing else.

## Running

    tlc -workers 2 -config DeviceRegistry.cfg MCDeviceRegistry
    tlapm InterruptUnitProofs.tla
    tlapm DeviceRegistryProofs.tla
    tlapm DeviceRegistryTableProofs.tla
    tlapm DeviceManagersProofs.tla
    tlapm StorageProofs.tla
    tlapm DerialProofs.tla
    tlapm TimersProofs.tla
    tlapm ProcessorProofs.tla

Every other run is `tlc -config <cfg> <module>` with the configuration and the
module `PROJECT.json` gives for it.
