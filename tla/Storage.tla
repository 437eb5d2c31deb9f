------------------------------- MODULE Storage -------------------------------
(***************************************************************************)
(* The storage manager (src/src/deviceManagers/storage.c): the drive       *)
(* manager, a device that takes commands to insert and remove drives, and  *)
(* the drives, which take commands to read and write sectors.              *)
(*                                                                         *)
(* A command is a store to a device's initiate register.  st_handleWrite   *)
(* runs on the processor's thread, under deviceRegistryMutex; it notes the *)
(* command in a flag and announces a transaction in the status register.   *)
(* The main thread passes the access on through a semaphore with room for  *)
(* one device; the manager's thread serves one command per wake.  The      *)
(* flags and the status are shared without a lock.                         *)
(*                                                                         *)
(* Data is counted in pieces of 128 bytes (or of a sector, where that is   *)
(* less).  The registers that hold the arguments of a command belong to    *)
(* the program until the thread reads them: they hold any value then.      *)
(* Reading and writing an open file does not fail.                         *)
(***************************************************************************)
EXTENDS Integers, Sequences, FiniteSets, SequencesExt

CONSTANTS
    Manager,         \* the drive manager's device
    Ids,             \* device ids that drives may get
    Patches,         \* the places of device data that drives may get
    NumSlots,        \* DARDRIVE_MAX_DRIVE_COUNT
    Files,           \* names of files
    HostFiles,       \* the files at the start
    InitialDrives,   \* storageFileNames: drives given on the command line
    Geometries,      \* sector sizes and counts a program asks for
    MemorySize,      \* pieces of general memory
    Values, Zero,    \* contents of a piece
    None,            \* no drive, device, slot or patch
    MaxPieces,       \* bound: the longest file, in pieces
    MaxAccesses  \* bound: the program's accesses to the devices

Slots == 1 .. NumSlots
Units == {Manager} \cup Slots          \* who has a command and a status of its own
Devices == {Manager} \cup Ids
Registers == {Manager} \cup Patches    \* where a status register lies
Bits == {"inProgress", "failed"}
Causes == {"overtaken", "badPointer", "unknown", "overwritten", "inherited"}

Absent == [kind |-> "absent"]
Foreign == [kind |-> "foreign"]        \* exists, and is not a dardrive or not accessible
DriveFile(g, d) == [kind |-> "drive", geometry |-> g, data |-> d]
Contents == UNION {[1 .. n -> Values] : n \in 0 .. MaxPieces}
DriveFiles == {DriveFile(g, d) : g \in Geometries, d \in Contents}
DriveRecords == [file : Files, geometry : Geometries, id : Ids]

ASSUME StorageAssumption ==
    /\ Ids \subseteq Nat /\ NumSlots \in Nat /\ MemorySize \in Nat /\ Zero \in Values
    /\ Manager \notin Ids \cup Patches \cup Slots
    /\ None \notin Devices \cup Units \cup Patches \cup DriveRecords
    /\ MaxPieces \in Nat /\ MaxAccesses \in Nat
    /\ Geometries \subseteq [pieces : Nat \ {0}, sectors : Nat \ {0}]
    /\ \A g \in Geometries : g.pieces * g.sectors <= MaxPieces
    /\ HostFiles \in [Files -> {Absent, Foreign} \cup DriveFiles]
    /\ InitialDrives \in Seq(Files)
    /\ \A f \in Files :          \* else a write of a sector of several pieces reads the
          HostFiles[f].kind = "drive" /\ HostFiles[f].geometry.pieces > 1
             => Len(HostFiles[f].data) <= 1    \* rest of the file into a buffer of one

VARIABLES
    files,             \* the host's files
    mapped,            \* per id: the patch of its device in the registry, or None
    registers,         \* per status register: its bits
    readOnly,          \* per patch: sector size and count, as the program reads them
    driveData,         \* per slot: the drive in it, or None
    command,           \* insertNewDrive ..., driveRead, driveWrite
    status,            \* driveManagerStatus..., driveStatus
    wakerTodo, posting, semaphore,  \* a wake: marked, located, told to the thread
    accesses,      \* the program's accesses to the devices so far
    cpu,               \* the processor inside st_handleWrite
    thread,            \* the manager's thread
    initial,           \* drives still to be inserted at boot
    causes             \* history: what befell the last transaction of a device

registry == <<mapped, registers, readOnly>>
waking == <<wakerTodo, posting, semaphore>>
vars == <<files, registry, driveData, command, status, waking, accesses, cpu, thread,
          initial, causes>>

Outside == [step |-> "outside"]        \* the processor is in no handler
Waiting == [step |-> "waiting"]        \* the thread is in cnd_wait

Init ==
    /\ files = HostFiles
    /\ mapped = [d \in Ids |-> None]
    /\ registers = [r \in Registers |-> {}]
    /\ readOnly = [p \in Patches |-> None]
    /\ driveData = [s \in Slots |-> None]
    /\ command = [u \in Units |-> {}]
    /\ status = [u \in Units |-> {}]
    /\ wakerTodo = {} /\ posting = None /\ semaphore = None
    /\ accesses = 0
    /\ cpu = Outside
    /\ initial = InitialDrives
    /\ thread = IF InitialDrives = <<>> THEN Waiting ELSE [step |-> "boot"]
    /\ causes = [d \in Devices |-> {}]
-----------------------------------------------------------------------------
Occupied == {s \in Slots : driveData[s] # None}
SlotOf(d) == {s \in Occupied : driveData[s].id = d}

(* st_deviceIdToDriveIndex, for the drive manager too; None where the code *)
(* returns 0xFF.                                                           *)
UnitOf(d) ==
    IF d = Manager THEN Manager
    ELSE IF SlotOf(d) = {} THEN None ELSE CHOOSE s \in SlotOf(d) : TRUE

IsMapped(d) == d \in {Manager} \cup {i \in Ids : mapped[i] # None}
RegisterOf(d) == IF d = Manager THEN Manager ELSE mapped[d]
DeviceOf(u) == IF u = Manager THEN Manager ELSE driveData[u].id
Running == initial = <<>> /\ thread.step # "dead"

(* deviceRegistryMutex is the processor's while it is in the handler. *)
RegistryFree == cpu = Outside
-----------------------------------------------------------------------------
(* The processor: the program's accesses.  A program waits, as documented, *)
(* until the status register shows no transaction.                         *)

CommandsOf(d) == IF d = Manager THEN {"insertNew", "insertExisting", "remove"}
                                ELSE {"read", "write", "unknown"}

Accesses(d) ==
    /\ Running /\ RegistryFree /\ IsMapped(d)
    /\ accesses < MaxAccesses /\ accesses' = accesses + 1

(* A store to the initiate register: the command's flag is set.  A drive   *)
(* takes a transaction to be in progress whatever was stored.              *)
Initiate(d, c) ==
    /\ Accesses(d)
    /\ "inProgress" \notin registers[RegisterOf(d)]
    /\ UnitOf(d) # None
    /\ cpu' = [step |-> "announce", device |-> d]
    /\ command' = [command EXCEPT ![UnitOf(d)] = @ \cup ({c} \ {"unknown"})]
    /\ causes' = [causes EXCEPT ![d] = (@ \cap {"inherited"})
                                      \cup (IF c = "unknown" THEN {c} ELSE {})]
    /\ UNCHANGED <<files, registry, driveData, status, waking, thread, initial>>

(* Faulty form: the byte is computed before the bits are set. *)
AnnounceStale ==
    /\ cpu.step = "announce"
    /\ status' = [status EXCEPT ![UnitOf(cpu.device)] = {"inProgress"}]
    /\ cpu' = [step |-> "update", device |-> cpu.device, bits |-> status[UnitOf(cpu.device)]]
    /\ UNCHANGED <<files, registry, driveData, command, waking, thread, initial, causes,
                   accesses>>

Announce ==
    /\ cpu.step = "announce"
    /\ status' = [status EXCEPT ![UnitOf(cpu.device)] = {"inProgress"}]
    /\ cpu' = [step |-> "update", device |-> cpu.device, bits |-> {"inProgress"}]
    /\ UNCHANGED <<files, registry, driveData, command, waking, thread, initial,
                   causes, accesses>>

(* st_updateManagerStatus, st_updateDriveStatus: the byte was computed     *)
(* before.  Then the device is marked for the main thread.                 *)
UpdateRegister ==
    /\ cpu.step = "update"
    /\ registers' = [registers EXCEPT ![RegisterOf(cpu.device)] = cpu.bits]
    /\ wakerTodo' = wakerTodo \cup {cpu.device}
    /\ cpu' = Outside
    /\ UNCHANGED <<files, mapped, readOnly, driveData, command, status, posting, semaphore, thread,
                   initial, causes, accesses>>

(* Any other access, or one to a drive that is not published yet: it only  *)
(* wakes the manager.                                                      *)
Access(d) ==
    /\ Accesses(d)
    /\ wakerTodo' = wakerTodo \cup {d}
    /\ UNCHANGED <<files, registry, driveData, command, status, posting, semaphore, cpu, thread,
                   initial, causes>>

(* The main thread finds the manager of a marked device, and then waits    *)
(* for the manager's mutex, which is free while the thread waits.          *)
Locate(d) ==
    /\ posting = None /\ d \in wakerTodo /\ IsMapped(d)
    /\ wakerTodo' = wakerTodo \ {d}
    /\ posting' = d
    /\ UNCHANGED <<files, registry, driveData, command, status, semaphore, cpu, thread,
                   initial, causes, accesses>>

PostWake ==
    /\ posting # None /\ thread = Waiting
    /\ semaphore' = posting /\ posting' = None
    /\ causes' = IF /\ semaphore \in Devices \ {posting}
                    /\ UnitOf(semaphore) # None /\ command[UnitOf(semaphore)] # {}
                 THEN [causes EXCEPT ![semaphore] = @ \cup {"overwritten"}] ELSE causes
    /\ UNCHANGED <<files, registry, driveData, command, status, wakerTodo, cpu, thread,
                   initial, accesses>>
-----------------------------------------------------------------------------
(* The manager's thread: a wake for the drive manager. *)

(* The thread goes on to st_completeManagerTransaction or                  *)
(* st_completeDriveTransaction; at boot, to the next drive, or gives up.   *)
Finish(unit, result) ==
    IF initial = <<>>
    THEN thread' = [step |-> "complete", unit |-> unit, result |-> result]
         /\ UNCHANGED initial
    ELSE /\ initial' = IF result = "success" THEN Tail(initial) ELSE initial
         /\ thread' = IF result = "failure" THEN [step |-> "dead"]
                      ELSE IF Len(initial) = 1 THEN Waiting ELSE [step |-> "boot"]

(* One command per wake, insertions first. *)
Chosen == IF "insertNew" \in command[Manager] THEN "insertNew"
          ELSE IF "insertExisting" \in command[Manager] THEN "insertExisting" ELSE "remove"

IgnoreWake ==
    /\ thread = Waiting /\ semaphore # None
    /\ UnitOf(semaphore) # None /\ command[UnitOf(semaphore)] = {}
    /\ semaphore' = None
    /\ UNCHANGED <<files, registry, driveData, command, status, wakerTodo, posting, cpu, thread,
                   initial, causes, accesses>>

(* The name pointer does not lead to general memory: the transaction ends  *)
(* here, with an interrupt and without an update of its status.            *)
RefuseName ==
    /\ thread = Waiting /\ semaphore = Manager /\ command[Manager] # {}
    /\ Chosen # "remove"
    /\ command' = [command EXCEPT ![Manager] = @ \ {Chosen}]
    /\ causes' = [causes EXCEPT ![Manager] = @ \cup {"badPointer"}]
    /\ semaphore' = None
    /\ UNCHANGED <<files, registry, driveData, status, wakerTodo, posting, cpu, thread, initial,
                   accesses>>

TakeManagerCommand ==
    /\ thread = Waiting /\ semaphore = Manager /\ command[Manager] # {}
    /\ command' = [command EXCEPT ![Manager] = @ \ {Chosen}]
    /\ thread' = [step |-> Chosen]
    /\ semaphore' = None
    /\ UNCHANGED <<files, registry, driveData, status, wakerTodo, posting, cpu, initial, causes,
                   accesses>>

FreeSlots == Slots \ Occupied

(* Faulty form: a file that exists is written over. *)
MayCreateAnyway(f) == FreeSlots # {}

(* st_insertNewDrive up to the request: only a name that is not in use. *)
MayCreate(f) == files[f].kind = "absent" /\ FreeSlots # {}

CreateFile(f, g) ==
    /\ thread.step = "insertNew"
    /\ \/ /\ MayCreate(f)
          /\ files' = [files EXCEPT ![f] = DriveFile(g, <<>>)]
          /\ thread' = [step |-> "request", file |-> f, geometry |-> g]
          /\ UNCHANGED initial
       \/ /\ MayCreate(f)              \* fopen fails, or fwrite of the header does
          /\ files' \in {files, [files EXCEPT ![f] = Foreign]}
          /\ Finish(Manager, "failure")
       \/ /\ ~ MayCreate(f)
          /\ Finish(Manager, "failure") /\ UNCHANGED files
    /\ UNCHANGED <<registry, driveData, command, status, waking, cpu, causes,
                   accesses>>

(* st_insertExistingDriveFile up to the request.  The same file may be     *)
(* inserted twice.                                                         *)
OpenFile(f) ==
    /\ \/ thread.step = "insertExisting"
       \/ thread.step = "boot" /\ f = Head(initial)
    /\ \/ /\ files[f].kind = "drive" /\ FreeSlots # {}
          /\ thread' = [step |-> "request", file |-> f, geometry |-> files[f].geometry]
          /\ UNCHANGED initial
       \/ /\ ~ (files[f].kind = "drive" /\ FreeSlots # {})
          /\ Finish(Manager, "failure")
    /\ UNCHANGED <<files, registry, driveData, command, status, waking, cpu, causes,
                   accesses>>

FreeIds == {d \in Ids : mapped[d] = None}
FreePatches == Patches \ {mapped[d] : d \in Ids}

(* dmi_requestNewDevice: the lowest id, and any patch, with the registers  *)
(* its last owner left in it; then dmi_writeDeviceData.                    *)
RequestDevice(p) ==
    /\ thread.step = "request" /\ RegistryFree
    /\ p \in FreePatches
    /\ \E d \in FreeIds :
          /\ \A e \in FreeIds : d <= e
          /\ mapped' = [mapped EXCEPT ![d] = p]
          /\ thread' = [step |-> "publish", file |-> thread.file,
                        geometry |-> thread.geometry, id |-> d]
    /\ readOnly' = [readOnly EXCEPT ![p] = thread.geometry]
    /\ UNCHANGED <<files, registers, driveData, command, status, waking, cpu, initial,
                   causes, accesses>>

(* No id or no memory for the device: the file that was created stays. *)
RequestFails ==
    /\ thread.step = "request" /\ RegistryFree
    /\ Finish(Manager, "failure")
    /\ UNCHANGED <<files, registry, driveData, command, status, waking, cpu, causes,
                   accesses>>

(* The drive takes the last free slot, with the flags and the status that  *)
(* the slot, and the status register that the patch was left with.         *)
Publish ==
    /\ thread.step = "publish"
    /\ \E slot \in FreeSlots :
          /\ \A s \in FreeSlots : s <= slot
          /\ driveData' = [driveData EXCEPT ![slot] =
                [file |-> thread.file, geometry |-> thread.geometry, id |-> thread.id]]
          /\ causes' = [causes EXCEPT ![thread.id] =
                IF command[slot] = {} /\ registers[mapped[thread.id]] = {}
                THEN {} ELSE {"inherited"}]
    /\ Finish(Manager, "success")
    /\ UNCHANGED <<files, registry, command, status, waking, cpu, accesses>>

(* st_removeDrive of the device named in the drive id register. *)
RemoveDevice(d) ==
    /\ thread.step = "remove"
    /\ \/ /\ SlotOf(d) = {}
          /\ Finish(Manager, "failure") /\ UNCHANGED mapped
       \/ /\ SlotOf(d) # {} /\ RegistryFree
          /\ mapped' = [mapped EXCEPT ![d] = None]
          /\ thread' = [step |-> "forget", unit |-> UnitOf(d)] /\ UNCHANGED initial
    /\ UNCHANGED <<files, registers, readOnly, driveData, command, status, waking, cpu,
                   causes, accesses>>

Forget ==
    /\ thread.step = "forget"
    /\ driveData' = [driveData EXCEPT ![thread.unit] = None]
    /\ Finish(Manager, "success")
    /\ UNCHANGED <<files, registry, command, status, waking, cpu, causes, accesses>>
-----------------------------------------------------------------------------
(* The manager's thread: a wake for a drive. *)

(* The device was removed, or is not published yet. *)
WakeWithoutDrive ==
    /\ thread = Waiting /\ semaphore \in Ids /\ UnitOf(semaphore) = None
    /\ semaphore' = None
    /\ UNCHANGED <<files, registry, driveData, command, status, wakerTodo, posting, cpu, thread,
                   initial, causes, accesses>>

(* Faulty form: the number of the sector may equal their count. *)
IsSectorOrNext(sector, geometry) == sector <= geometry.sectors

IsSector(sector, geometry) == sector < geometry.sectors

(* A read goes first.  The sector, the address and the drive's size come   *)
(* from the device's data.                                                 *)
TakeDriveCommand(sector, address) ==
    /\ thread = Waiting /\ semaphore \in Ids /\ UnitOf(semaphore) # None
    /\ command[UnitOf(semaphore)] # {}
    /\ LET slot == UnitOf(semaphore)
           geometry == readOnly[mapped[semaphore]]
           taken == IF "read" \in command[slot] THEN "read" ELSE "write"
       IN  /\ command' = [command EXCEPT ![slot] = @ \ {taken}]
           /\ sector <= geometry.sectors
           /\ thread' = IF ~ IsSector(sector, geometry)
                        THEN [step |-> "complete", unit |-> slot, result |-> "failure"]
                        ELSE [step |-> taken, unit |-> slot, file |-> driveData[slot].file,
                              first |-> sector * geometry.pieces, pieces |-> geometry.pieces,
                              address |-> address, done |-> 0, copied |-> None]
    /\ semaphore' = None
    /\ UNCHANGED <<files, registry, driveData, status, wakerTodo, posting, cpu, initial, causes,
                   accesses>>

Copying == thread.step \in {"read", "write"} /\ thread.done < thread.pieces
InMemory == thread.address + thread.done < MemorySize
Data == files[thread.file].data
Position == thread.first + thread.done

(* Faulty form: past the end of the file the buffer keeps the last piece.  *)
PieceReadUncleared ==
    IF Position < Len(Data) THEN Data[Position + 1]
    ELSE IF Data = <<>> THEN Zero ELSE Last(Data)

(* What fread leaves in the buffer, which is filled up with zeros. *)
PieceRead == IF Position < Len(Data) THEN Data[Position + 1] ELSE Zero

(* A sector of one piece is not read past the end of the file: the test of *)
(* ferror is inverted.                                                     *)
CanRead == thread.step = "read" /\ InMemory
              /\ (thread.pieces = 1 => thread.first < Len(Data))

(* A larger sector is never written: the loop reads the file where it is   *)
(* meant to write it.                                                      *)
CanWrite == thread.step = "write" /\ InMemory /\ thread.pieces = 1

Copied(value) ==
    thread' = [thread EXCEPT !.done = @ + 1,
                   !.copied = [place |-> thread.address + thread.done, value |-> value]]

ReadPiece ==
    /\ Copying /\ CanRead
    /\ Copied(PieceRead)
    /\ UNCHANGED <<files, registry, driveData, command, status, waking, initial, cpu, causes,
                   accesses>>

(* Writing behind the end leaves zeros in between. *)
WritePiece(value) ==
    /\ Copying /\ CanWrite
    /\ files' = [files EXCEPT ![thread.file].data =
                    [i \in 1 .. (IF Position < Len(@) THEN Len(@) ELSE Position + 1) |->
                        IF i = Position + 1 THEN value ELSE IF i <= Len(@) THEN @[i] ELSE Zero]]
    /\ Copied(value)
    /\ UNCHANGED <<registry, driveData, command, status, waking, initial, cpu, causes,
                   accesses>>

EndTransfer(result) ==
    /\ thread' = [step |-> "complete", unit |-> thread.unit, result |-> result]
    /\ UNCHANGED <<files, registry, driveData, command, status, waking, cpu, initial,
                   causes, accesses>>

TransferEnds ==
    /\ thread.step \in {"read", "write"} /\ thread.done = thread.pieces
    /\ EndTransfer("success")

(* The file does not open, the sector cannot be read or written, or memory *)
(* ends on the way.                                                        *)
TransferFails ==
    /\ Copying
    /\ thread.done = 0 \/ ~ (CanRead \/ CanWrite)
    /\ EndTransfer("failure")
-----------------------------------------------------------------------------
(* st_completeManagerTransaction, st_completeDriveTransaction. *)

(* Faulty form: a failure leaves the transaction in progress. *)
CompletedStatusKept(u, result) ==
    IF result = "failure" THEN status[u] \cup {"failed"}
    ELSE IF u = Manager THEN status[u] \ {"inProgress"} ELSE {}

(* The drive manager's failed bit is cleared by the next command only. *)
CompletedStatus(u, result) ==
    IF result = "failure" THEN {"failed"}
    ELSE IF u = Manager THEN status[u] \ {"inProgress"} ELSE {}

(* A completion that comes while the processor still announces the         *)
(* transaction is undone by it.                                            *)
Complete ==
    /\ thread.step = "complete"
    /\ LET u == thread.unit
           d == DeviceOf(u)
           bits == CompletedStatus(u, thread.result)
       IN  /\ status' = [status EXCEPT ![u] = bits]
           /\ thread' = [step |-> "update", unit |-> u, bits |-> bits]
           /\ causes' = IF cpu.step \in {"announce", "update"} /\ cpu.device = d
                        THEN [causes EXCEPT ![d] = @ \cup {"overtaken"}] ELSE causes
    /\ UNCHANGED <<files, registry, driveData, command, waking, cpu, initial,
                   accesses>>

(* The interrupt that follows, where it is enabled, is one of those that   *)
(* InterruptUnit lets devices raise.                                       *)
ThreadUpdatesRegister ==
    /\ thread.step = "update"
    /\ registers' = [registers EXCEPT ![RegisterOf(DeviceOf(thread.unit))] = thread.bits]
    /\ thread' = Waiting
    /\ UNCHANGED <<files, mapped, readOnly, driveData, command, status, waking, cpu, initial,
                   causes, accesses>>
-----------------------------------------------------------------------------
Program ==
    \/ \E d \in Devices :
          \/ \E c \in CommandsOf(d) : Initiate(d, c)
          \/ Access(d)

Handler == Announce \/ UpdateRegister

Thread ==
    \/ IgnoreWake \/ RefuseName \/ TakeManagerCommand \/ WakeWithoutDrive
    \/ \E f \in Files : OpenFile(f) \/ \E g \in Geometries : CreateFile(f, g)
    \/ \E p \in Patches : RequestDevice(p)
    \/ RequestFails \/ Publish
    \/ \E d \in Devices : RemoveDevice(d)
    \/ Forget
    \/ \E sector \in 0 .. MaxPieces, address \in 0 .. MemorySize : TakeDriveCommand(sector, address)
    \/ ReadPiece \/ (\E v \in Values : WritePiece(v)) \/ TransferEnds \/ TransferFails
    \/ Complete \/ ThreadUpdatesRegister

Waker == PostWake \/ \E d \in Devices : Locate(d)

Next == Program \/ Handler \/ Waker \/ Thread

(* The processor, the main thread and the manager's thread go on. *)
Fairness == WF_vars(Handler) /\ WF_vars(Waker) /\ WF_vars(Thread)

Spec == Init /\ [][Next]_vars /\ Fairness
-----------------------------------------------------------------------------
TypeOK ==
    /\ files \in [Files -> {Absent, Foreign} \cup DriveFiles]
    /\ mapped \in [Ids -> Patches \cup {None}]
    /\ registers \in [Registers -> SUBSET Bits]
    /\ readOnly \in [Patches -> Geometries \cup {None}]
    /\ driveData \in [Slots -> DriveRecords \cup {None}]
    /\ command \in [Units -> SUBSET {"insertNew", "insertExisting", "remove", "read", "write"}]
    /\ status \in [Units -> SUBSET Bits]
    /\ wakerTodo \subseteq Devices /\ {posting, semaphore} \subseteq Devices \cup {None}
    /\ accesses \in 0 .. MaxAccesses
    /\ causes \in [Devices -> SUBSET Causes]

(* The storage manager's slots, the registry, the registers a program      *)
(* reads and the headers of the files agree about the drives: every drive  *)
(* has a device of its own, every device belongs to a drive, and size and  *)
(* count are those of the file, whatever is inserted, removed or created   *)
(* in between, also when a request fails.                                  *)
DrivesExact ==
    /\ \A s \in Occupied :
          /\ SlotOf(driveData[s].id) = {s}
          /\ files[driveData[s].file].kind = "drive"
          /\ files[driveData[s].file].geometry = driveData[s].geometry
          /\ \/ mapped[driveData[s].id] # None
                /\ readOnly[mapped[driveData[s].id]] = driveData[s].geometry
             \/ thread.step = "forget" /\ thread.unit = s
    /\ \A d \in Ids : mapped[d] # None =>
          /\ SlotOf(d) # {} \/ (thread.step = "publish" /\ thread.id = d)
          /\ \A e \in Ids : mapped[e] = mapped[d] => e = d

(* The thread is busy with the command of a unit, and its status register  *)
(* has not been updated yet.                                               *)
Serving(u) ==
    IF u = Manager
    THEN thread.step \in {"insertNew", "insertExisting", "remove", "request", "publish", "forget"}
         \/ (thread.step \in {"complete", "update"} /\ thread.unit = Manager)
    ELSE thread.step \in {"read", "write", "complete", "update"} /\ thread.unit = u

(* A status register without the bit for a transaction in progress can be  *)
(* trusted: no command of the device is waiting or being served.  Only a   *)
(* drive that inherited the slot or the registers of a removed one does    *)
(* not keep this.                                                          *)
ClearMeansDone ==
    Running => \A d \in Devices :
        (/\ IsMapped(d) /\ UnitOf(d) # None /\ "inherited" \notin causes[d]
         /\ (cpu = Outside \/ cpu.device # d)
         /\ "inProgress" \notin registers[RegisterOf(d)])
        => command[UnitOf(d)] = {} /\ ~ Serving(UnitOf(d))

(* A drive is an abstract disk: what a transfer reads is what was last     *)
(* written to that sector, and zeros before; one that reports success has  *)
(* copied every piece; creating, inserting and removing drives changes     *)
(* nothing that a drive holds.                                             *)
DiskContent == [f \in Files |-> [i \in 0 .. MaxPieces - 1 |->
                   IF files[f].kind = "drive" /\ i < Len(files[f].data)
                   THEN files[f].data[i + 1] ELSE Zero]]
DiskTransfer ==
    IF thread.step \in {"read", "write"}
    THEN [running |-> TRUE, file |-> thread.file, isRead |-> thread.step = "read",
          first |-> thread.first, count |-> thread.pieces, address |-> thread.address,
          done |-> thread.done]
    ELSE [running |-> FALSE]
DiskCopied == IF thread.step \in {"read", "write"} /\ thread.done > 0 THEN thread.copied
              ELSE [place |-> -1]
DiskOutcome == IF thread.step = "complete" /\ thread.unit # Manager THEN thread.result
               ELSE "none"
Drives == INSTANCE Disk WITH content <- DiskContent, transfer <- DiskTransfer,
                             copied <- DiskCopied, outcome <- DiskOutcome
DiskSpec == Drives!Spec

(* A transaction that is in progress ends, unless its completion overtook  *)
(* its own announcement, its name pointer was bad, its command is unknown, *)
(* its wake was overwritten, or its drive inherited the registers or the   *)
(* slot of a removed one.                                                  *)
InProgress(d) == IsMapped(d) /\ RegistryFree /\ "inProgress" \in registers[RegisterOf(d)]
TransactionEnds ==
    \A d \in Devices :
        (Running /\ InProgress(d)) ~> (~ InProgress(d) \/ causes[d] # {})
==============================================================================
