--------------------------- MODULE DeviceManagers ---------------------------
(***************************************************************************)
(* The threads of the machine (src/src/motherboard.c and the managers in   *)
(* src/src/deviceManagers): the main thread launches the device managers   *)
(* one by one, then passes the processor's accesses on to them, and kills  *)
(* them when the power goes off.                                           *)
(*                                                                         *)
(* An access of the processor runs the manager's handler, which notes a    *)
(* command for the manager's thread (driveRead, insertNewDrive,            *)
(* derialShouldFlush ...), and sets wakerTodo for the device.  The main    *)
(* thread scans wakerTodo and tells the thread which device to look after, *)
(* in a semaphore that has room for one.  Condition variables lose signals *)
(* nobody waits for and wake spuriously.                                   *)
(*                                                                         *)
(* Drives leave on a command to the drive manager.  Their insertion is in  *)
(* DeviceRegistry and is left out here.  Nothing happens after the main    *)
(* thread follows a null pointer.                                          *)
(***************************************************************************)
EXTENDS Integers, FiniteSets

CONSTANTS
    NumManagers,     \* NUM_DEVICE_MANAGERS
    NumDevices,      \* the devices the managers request at boot
    ManagerOf,       \* the manager of a device
    Motherboard,     \* the motherboard's device
    DriveManager,    \* the device that takes commands to insert and remove drives
    Drives,          \* the devices such a command may remove
    Spurious         \* managers whose waits may end without a signal

Managers == 1 .. NumManagers
Devices == 0 .. NumDevices - 1

ASSUME ManagersAssumption ==
    /\ NumManagers \in Nat \ {0} /\ NumDevices \in Nat
    /\ ManagerOf \in [Devices -> Managers]
    /\ Motherboard \in Devices /\ DriveManager \in Devices
    /\ Drives \subseteq Devices \ {Motherboard, DriveManager}
    /\ \A d \in Drives : ManagerOf[d] = ManagerOf[DriveManager]

VARIABLES
    powerState,
    mainStep, at,        \* the main thread: where it is, and for which manager or device
    managerMutex,        \* per manager: who holds its mutex
    wakeReason, wakeDevice, \* per manager: the two fields of its semaphore
    managerStep,         \* per manager: where its thread is
    present,             \* the devices in deviceMappingData
    cpuStep, cpuDevice,  \* the processor: where it is, and on which device
    command,             \* devices with a command that was not yet served
    wakerTodo,           \* devices whose manager is to be woken
    overwritten          \* history: devices whose wake was overwritten by another's

main == <<mainStep, at>>
semaphore == <<wakeReason, wakeDevice>>
processor == <<cpuStep, cpuDevice>>
vars == <<powerState, main, managerMutex, semaphore, managerStep, present, processor,
          command, wakerTodo, overwritten>>

PerManager == {"launch", "created", "awaiting", "returning", "verify", "kill",
               "signalKill", "join"}
PerDevice == {"scan", "post", "signal"}

TypeOK ==
    /\ powerState \in BOOLEAN
    /\ mainStep \in PerManager \cup PerDevice \cup {"input", "joinCpu", "done", "crashed"}
    /\ at \in Nat
    /\ mainStep \in PerManager => at \in Managers
    /\ mainStep \in PerDevice => at \in 0 .. NumDevices
    /\ managerMutex \in [Managers -> {"free", "main", "manager"}]
    /\ wakeReason \in [Managers -> {"continue", "handleReadWrite", "kill"}]
    /\ wakeDevice \in [Managers -> Devices]
    /\ managerStep \in [Managers -> {"absent", "locking", "initialising", "waiting",
                                     "relocking", "working", "finishing", "exited"}]
    /\ present \subseteq Devices
    /\ cpuStep \in {"off", "running", "marking", "exited"}
    /\ cpuDevice \in Devices
    /\ command \subseteq Devices
    /\ wakerTodo \subseteq Devices
    /\ overwritten \subseteq Devices

Init ==
    /\ powerState = FALSE
    /\ mainStep = "launch" /\ at = 1
    /\ managerMutex = [m \in Managers |-> "free"]
    /\ wakeReason = [m \in Managers |-> "continue"]
    /\ wakeDevice = [m \in Managers |-> 0]
    /\ managerStep = [m \in Managers |-> "absent"]
    /\ present = {}
    /\ cpuStep = "off" /\ cpuDevice = 0
    /\ command = {} /\ wakerTodo = {} /\ overwritten = {}
-----------------------------------------------------------------------------
Alive == mainStep # "crashed"

(* cnd_signal on a manager's condition variable, when the manager waits. *)
Woken(m) == IF managerStep[m] = "waiting" THEN [managerStep EXCEPT ![m] = "relocking"]
                                          ELSE managerStep
-----------------------------------------------------------------------------
(* The main thread launches the managers (mb_init). *)

Launch ==
    /\ mainStep = "launch"
    /\ managerMutex[at] = "free"
    /\ managerMutex' = [managerMutex EXCEPT ![at] = "main"]
    /\ managerStep' = [managerStep EXCEPT ![at] = "locking"]
    /\ mainStep' = "created"
    /\ UNCHANGED <<powerState, at, semaphore, present, processor, command, wakerTodo,
                   overwritten>>

AwaitManager ==
    /\ mainStep = "created"
    /\ managerMutex' = [managerMutex EXCEPT ![at] = "free"]
    /\ mainStep' = "awaiting"
    /\ UNCHANGED <<powerState, at, semaphore, managerStep, present, processor, command,
                   wakerTodo, overwritten>>

ReturnControl ==
    /\ mainStep = "returning"
    /\ managerMutex[at] = "free"
    /\ managerStep' = Woken(at)
    /\ mainStep' = "verify"
    /\ UNCHANGED <<powerState, at, managerMutex, semaphore, present, processor, command,
                   wakerTodo, overwritten>>

(* Faulty form: the manager's outcome is not looked at. *)
VerifyUnchecked ==
    /\ mainStep = "verify"
    /\ IF at < NumManagers
       THEN mainStep' = "launch" /\ at' = at + 1 /\ UNCHANGED <<powerState, cpuStep>>
       ELSE powerState' = TRUE /\ mainStep' = "input" /\ cpuStep' = "running" /\ UNCHANGED at
    /\ UNCHANGED <<managerMutex, semaphore, managerStep, present, cpuDevice, command,
                   wakerTodo, overwritten>>

(* The power goes on, and the processor starts, when the last one is up. *)
Verify ==
    /\ mainStep = "verify"
    /\ CASE wakeReason[at] = "kill" ->
              mainStep' = "kill" /\ at' = 1 /\ UNCHANGED <<powerState, cpuStep>>
         [] wakeReason[at] # "kill" /\ at < NumManagers ->
              mainStep' = "launch" /\ at' = at + 1 /\ UNCHANGED <<powerState, cpuStep>>
         [] OTHER ->
              powerState' = TRUE /\ mainStep' = "input" /\ cpuStep' = "running" /\ UNCHANGED at
    /\ UNCHANGED <<managerMutex, semaphore, managerStep, present, cpuDevice, command,
                   wakerTodo, overwritten>>
-----------------------------------------------------------------------------
(* The main thread wakes the managers (mb_mainThread). *)

StartScan ==
    /\ mainStep = "input" /\ powerState
    /\ mainStep' = "scan" /\ at' = 0
    /\ UNCHANGED <<powerState, managerMutex, semaphore, managerStep, present, processor,
                   command, wakerTodo, overwritten>>

(* Ctrl + C, or the window is closed. *)
PowerButton ==
    /\ mainStep = "input" /\ powerState
    /\ powerState' = FALSE
    /\ mainStep' = "joinCpu"
    /\ UNCHANGED <<at, managerMutex, semaphore, managerStep, present, processor, command,
                   wakerTodo, overwritten>>

LeaveLoop ==
    /\ mainStep = "input" /\ ~powerState
    /\ mainStep' = "joinCpu"
    /\ UNCHANGED <<powerState, at, managerMutex, semaphore, managerStep, present, processor,
                   command, wakerTodo, overwritten>>

(* deviceMappingData is read without deviceRegistryMutex and followed unchecked. *)
Locate(d) ==
    /\ wakerTodo' = wakerTodo \ {d}
    /\ mainStep' = IF d \in present THEN "post" ELSE "crashed"

(* Faulty form: the last device is never looked at. *)
ScanAllButLast ==
    /\ mainStep = "scan"
    /\ \/ at = NumDevices - 1 /\ mainStep' = "input" /\ UNCHANGED <<at, wakerTodo>>
       \/ /\ at < NumDevices - 1 /\ at \notin wakerTodo
          /\ at' = at + 1 /\ UNCHANGED <<mainStep, wakerTodo>>
       \/ at < NumDevices - 1 /\ at \in wakerTodo /\ Locate(at) /\ UNCHANGED at
    /\ UNCHANGED <<powerState, managerMutex, semaphore, managerStep, present, processor,
                   command, overwritten>>

Scan ==
    /\ mainStep = "scan"
    /\ \/ at = NumDevices /\ mainStep' = "input" /\ UNCHANGED <<at, wakerTodo>>
       \/ /\ at < NumDevices /\ at \notin wakerTodo
          /\ at' = at + 1 /\ UNCHANGED <<mainStep, wakerTodo>>
       \/ at < NumDevices /\ at \in wakerTodo /\ Locate(at) /\ UNCHANGED at
    /\ UNCHANGED <<powerState, managerMutex, semaphore, managerStep, present, processor,
                   command, overwritten>>

PostTo(m) ==
    /\ overwritten' = (IF wakeReason[m] = "handleReadWrite"
                       THEN overwritten \cup ({wakeDevice[m]} \cap command)
                       ELSE overwritten) \ {at}
    /\ wakeReason' = [wakeReason EXCEPT ![m] = "handleReadWrite"]
    /\ wakeDevice' = [wakeDevice EXCEPT ![m] = at]
    /\ mainStep' = "signal"

(* Faulty form: the semaphore is written without the manager's mutex. *)
PostUnlocked ==
    /\ mainStep = "post"
    /\ PostTo(ManagerOf[at])
    /\ UNCHANGED <<powerState, at, managerMutex, managerStep, present, processor, command,
                   wakerTodo>>

Post ==
    /\ mainStep = "post"
    /\ managerMutex[ManagerOf[at]] = "free"
    /\ PostTo(ManagerOf[at])
    /\ UNCHANGED <<powerState, at, managerMutex, managerStep, present, processor, command,
                   wakerTodo>>

Signal ==
    /\ mainStep = "signal"
    /\ managerStep' = Woken(ManagerOf[at])
    /\ mainStep' = "scan" /\ at' = at + 1
    /\ UNCHANGED <<powerState, managerMutex, semaphore, present, processor, command,
                   wakerTodo, overwritten>>
-----------------------------------------------------------------------------
(* The main thread joins the processor (run) and kills the managers that    *)
(* were launched (mb_teardown).                                             *)

(* Faulty form: the processor is not waited for. *)
JoinCpuAtOnce ==
    /\ mainStep = "joinCpu"
    /\ mainStep' = "kill" /\ at' = 1
    /\ UNCHANGED <<powerState, managerMutex, semaphore, managerStep, present, processor,
                   command, wakerTodo, overwritten>>

JoinCpu ==
    /\ mainStep = "joinCpu"
    /\ cpuStep = "exited"
    /\ mainStep' = "kill" /\ at' = 1
    /\ UNCHANGED <<powerState, managerMutex, semaphore, managerStep, present, processor,
                   command, wakerTodo, overwritten>>

(* Faulty form: one manager too many. *)
NextManagerPastLast == IF at > NumManagers THEN mainStep' = "done" /\ UNCHANGED at
                                           ELSE mainStep' = "kill" /\ at' = at + 1

NextManager == IF at = NumManagers THEN mainStep' = "done" /\ UNCHANGED at
                                   ELSE mainStep' = "kill" /\ at' = at + 1

(* Faulty form: the semaphore is written without the manager's mutex. *)
KillUnlocked ==
    /\ mainStep = "kill" /\ managerStep[at] # "absent"
    /\ wakeReason' = [wakeReason EXCEPT ![at] = "kill"]
    /\ mainStep' = "signalKill"
    /\ UNCHANGED <<powerState, at, managerMutex, wakeDevice, managerStep, present, processor,
                   command, wakerTodo, overwritten>>

Kill ==
    /\ mainStep = "kill" /\ managerStep[at] # "absent"
    /\ managerMutex[at] = "free"
    /\ wakeReason' = [wakeReason EXCEPT ![at] = "kill"]
    /\ mainStep' = "signalKill"
    /\ UNCHANGED <<powerState, at, managerMutex, wakeDevice, managerStep, present, processor,
                   command, wakerTodo, overwritten>>

SkipUnlaunched ==
    /\ mainStep = "kill" /\ managerStep[at] = "absent"
    /\ NextManager
    /\ UNCHANGED <<powerState, managerMutex, semaphore, managerStep, present, processor,
                   command, wakerTodo, overwritten>>

SignalKill ==
    /\ mainStep = "signalKill"
    /\ managerStep' = Woken(at)
    /\ mainStep' = "join"
    /\ UNCHANGED <<powerState, at, managerMutex, semaphore, present, processor, command,
                   wakerTodo, overwritten>>

Join ==
    /\ mainStep = "join" /\ managerStep[at] = "exited"
    /\ NextManager
    /\ UNCHANGED <<powerState, managerMutex, semaphore, managerStep, present, processor,
                   command, wakerTodo, overwritten>>
-----------------------------------------------------------------------------
(* A manager's thread.  Initialising it requests its devices and ends with  *)
(* a signal to the main thread; it keeps its mutex but while it waits.      *)

TakeMutex(m, from, to) ==
    /\ Alive
    /\ managerStep[m] = from
    /\ managerMutex[m] = "free"
    /\ managerMutex' = [managerMutex EXCEPT ![m] = "manager"]
    /\ managerStep' = [managerStep EXCEPT ![m] = to]
    /\ UNCHANGED <<powerState, main, semaphore, present, processor, command, wakerTodo,
                   overwritten>>

LockFirst(m) == TakeMutex(m, "locking", "initialising")
Relock(m) == TakeMutex(m, "relocking", "working")

Initialise(m) ==
    /\ managerStep[m] = "initialising"
    /\ managerMutex' = [managerMutex EXCEPT ![m] = "free"]
    /\ mainStep' = IF mainStep = "awaiting" /\ at = m THEN "returning" ELSE mainStep
    /\ \/ /\ present' = present \cup {d \in Devices : ManagerOf[d] = m}
          /\ managerStep' = [managerStep EXCEPT ![m] = "waiting"]
          /\ UNCHANGED wakeReason
       \/ /\ wakeReason' = [wakeReason EXCEPT ![m] = "kill"]
          /\ managerStep' = [managerStep EXCEPT ![m] = "exited"]
          /\ UNCHANGED present
    /\ UNCHANGED <<powerState, at, wakeDevice, processor, command, wakerTodo, overwritten>>

WakeSpuriously(m) ==
    /\ Alive
    /\ m \in Spurious
    /\ managerStep[m] = "waiting"
    /\ managerStep' = [managerStep EXCEPT ![m] = "relocking"]
    /\ UNCHANGED <<powerState, main, managerMutex, semaphore, present, processor, command,
                   wakerTodo, overwritten>>

(* A wake for a drive that has left is ignored.  The drive manager removes  *)
(* the drive it is told to, holding deviceRegistryMutex.                    *)
Serve(m) ==
    /\ Alive
    /\ managerStep[m] = "working" /\ wakeReason[m] = "handleReadWrite"
    /\ LET d == wakeDevice[m] IN
          /\ command' = IF d \in present THEN command \ {d} ELSE command
          /\ overwritten' = overwritten \ {d}
          /\ \/ UNCHANGED present
             \/ /\ d = DriveManager /\ d \in command /\ cpuStep # "marking"
                /\ \E r \in Drives \cap present : present' = present \ {r}
    /\ managerStep' = [managerStep EXCEPT ![m] = "finishing"]
    /\ UNCHANGED <<powerState, main, managerMutex, semaphore, processor, wakerTodo>>

(* The device in the semaphore is not read again before it is rewritten: it *)
(* is reset here to save states.                                            *)
Sleep(m) ==
    /\ Alive
    /\ \/ managerStep[m] = "finishing"
       \/ managerStep[m] = "working" /\ wakeReason[m] = "continue"
    /\ wakeReason' = [wakeReason EXCEPT ![m] = "continue"]
    /\ wakeDevice' = [wakeDevice EXCEPT ![m] = 0]
    /\ managerMutex' = [managerMutex EXCEPT ![m] = "free"]
    /\ managerStep' = [managerStep EXCEPT ![m] = "waiting"]
    /\ UNCHANGED <<powerState, main, present, processor, command, wakerTodo,
                   overwritten>>

(* The thread returns with its mutex locked. *)
Die(m) ==
    /\ managerStep[m] = "working" /\ wakeReason[m] = "kill"
    /\ managerStep' = [managerStep EXCEPT ![m] = "exited"]
    /\ UNCHANGED <<powerState, main, managerMutex, semaphore, present, processor, command,
                   wakerTodo, overwritten>>
-----------------------------------------------------------------------------
(* The processor reads or writes a device's data; holding                   *)
(* deviceRegistryMutex it runs the manager's handler, then sets wakerTodo.  *)
(* The motherboard's manager serves no command, so accesses that wake it in *)
(* vain are left out, save the shutdown.                                    *)

Access(d) ==
    /\ Alive
    /\ cpuStep = "running" /\ powerState
    /\ d \in present
    /\ \/ d # Motherboard /\ UNCHANGED <<powerState, command>>     \* not a command
       \/ /\ d # Motherboard
          /\ command' = command \cup {d} /\ UNCHANGED powerState
       \/ d = Motherboard /\ powerState' = FALSE /\ UNCHANGED command  \* mb_handleWrite
    /\ overwritten' = overwritten \ {d}
    /\ cpuStep' = "marking" /\ cpuDevice' = d
    /\ UNCHANGED <<main, managerMutex, semaphore, managerStep, present, wakerTodo>>

MarkDevice ==
    /\ Alive
    /\ cpuStep = "marking"
    /\ wakerTodo' = wakerTodo \cup {cpuDevice}
    /\ cpuStep' = "running" /\ cpuDevice' = 0
    /\ UNCHANGED <<powerState, main, managerMutex, semaphore, managerStep, present, command,
                   overwritten>>

CpuExits ==
    /\ Alive
    /\ cpuStep = "running" /\ ~powerState
    /\ cpuStep' = "exited"
    /\ UNCHANGED <<powerState, main, managerMutex, semaphore, managerStep, present, cpuDevice,
                   command, wakerTodo, overwritten>>
-----------------------------------------------------------------------------
MainLocks == Launch \/ ReturnControl \/ Post \/ Kill
MainRuns == \/ AwaitManager \/ Verify \/ StartScan \/ LeaveLoop \/ Scan \/ Signal
            \/ JoinCpu \/ SkipUnlaunched \/ SignalKill \/ Join
ManagerLocks(m) == LockFirst(m) \/ Relock(m)
ManagerRuns(m) == Initialise(m) \/ Serve(m) \/ Sleep(m) \/ Die(m)

Stopped == mainStep \in {"done", "crashed"} /\ UNCHANGED vars

Next ==
    \/ MainLocks \/ MainRuns \/ PowerButton
    \/ \E m \in Managers : ManagerLocks(m) \/ ManagerRuns(m) \/ WakeSpuriously(m)
    \/ \E d \in Devices : Access(d)
    \/ MarkDevice \/ CpuExits
    \/ Stopped

(* Every thread is scheduled and a mutex that keeps coming free is given to *)
(* who waits for it.  Nobody has to press the button, and the program need  *)
(* not touch a device.                                                      *)
Fairness ==
    /\ SF_vars(MainLocks) /\ WF_vars(MainRuns)
    /\ \A m \in Managers : SF_vars(ManagerLocks(m)) /\ WF_vars(ManagerRuns(m))
    /\ WF_vars(MarkDevice) /\ WF_vars(CpuExits)

Spec == Init /\ [][Next]_vars /\ Fairness
-----------------------------------------------------------------------------
(* A device's wake is somewhere between the processor and its manager. *)
WakeUnderWay(d) ==
    LET m == ManagerOf[d] IN
    \/ cpuStep = "marking" /\ cpuDevice = d
    \/ d \in wakerTodo
    \/ mainStep = "post" /\ at = d
    \/ /\ wakeReason[m] = "handleReadWrite" /\ wakeDevice[m] = d
       /\ \/ managerStep[m] \in {"relocking", "working"}
          \/ mainStep = "signal" /\ at = d

(* While the power is on, a command that was noted and not served has a     *)
(* wake under way, unless the wake of another device of the same manager    *)
(* overwrote it: wakes get lost in no other way, whatever the interleaving  *)
(* of handler, scan, signal, and waits that end spuriously.                 *)
OnlyOverwritingLosesWakes ==
    powerState /\ Alive =>
        \A d \in command \cap present : WakeUnderWay(d) \/ d \in overwritten

(* mb_init switches the power on only after every manager has come up, and  *)
(* managers come up one at a time, so their requests to the registry never  *)
(* meet.                                                                    *)
BootOrder ==
    /\ powerState => \A m \in Managers :
                        managerStep[m] \notin {"absent", "locking", "initialising", "exited"}
    /\ Cardinality({m \in Managers : managerStep[m] \in {"locking", "initialising"}}) <= 1

(* When teardown frees the memory, no thread is left that could touch it.   *)
NobodyOutlivesMemory ==
    mainStep = "done" =>
        /\ cpuStep \in {"off", "exited"}
        /\ \A m \in Managers : managerStep[m] \in {"absent", "exited"}

(* Boot comes to an end, and whenever the power goes off, by the button or  *)
(* by the program, in the middle of whatever goes on, the machine stops.    *)
PowerOffEnds == ~powerState ~> (powerState \/ mainStep \in {"done", "crashed"})

(* A command whose wake is not overwritten is served while the power is on  *)
(* and the device is there.                                                 *)
CommandServed ==
    \A d \in Devices \ {Motherboard} :
        d \in command ~> \/ d \notin command \/ d \in overwritten
                         \/ ~powerState \/ d \notin present \/ ~Alive

(* dardrive.md, line 110, of the bit that says a transaction is in          *)
(* progress: "It is cleared when a transaction completes."  So every        *)
(* transaction completes while the power is on and the device is there.     *)
EveryCommandServed ==
    \A d \in Devices \ {Motherboard} :
        d \in command ~> d \notin command \/ ~powerState \/ d \notin present \/ ~Alive

(* mb_mainThread, "waking relevant device manager threads", survives every  *)
(* device that comes and goes.                                              *)
MainThreadSurvives == mainStep # "crashed"
=============================================================================
