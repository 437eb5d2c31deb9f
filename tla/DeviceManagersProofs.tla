------------------------ MODULE DeviceManagersProofs ------------------------
(***************************************************************************)
(* Theorems about DeviceManagers, for every number of managers and devices *)
(* and every assignment of the ones to the others.                         *)
(***************************************************************************)
EXTENDS DeviceManagers, FiniteSetTheorems, TLAPS

(* TypeOK in parts.  A wake is posted and signalled for a device only.      *)
PowerType == powerState \in BOOLEAN
MainType ==
    /\ mainStep \in PerManager \cup PerDevice \cup {"input", "joinCpu", "done", "crashed"}
    /\ at \in Nat
    /\ mainStep \in PerManager => at \in Managers
    /\ mainStep \in PerDevice => at \in 0 .. NumDevices
    /\ mainStep \in {"post", "signal"} => at \in Devices
SemaphoreType ==
    /\ wakeReason \in [Managers -> {"continue", "handleReadWrite", "kill"}]
    /\ wakeDevice \in [Managers -> Devices]
ManagerType ==
    /\ managerMutex \in [Managers -> {"free", "main", "manager"}]
    /\ managerStep \in [Managers -> {"absent", "locking", "initialising", "waiting",
                                     "relocking", "working", "finishing", "exited"}]
DeviceType ==
    /\ present \subseteq Devices
    /\ cpuStep \in {"off", "running", "marking", "exited"}
    /\ cpuDevice \in Devices
    /\ command \subseteq Devices
    /\ wakerTodo \subseteq Devices
    /\ overwritten \subseteq Devices

(* A manager's thread holds its mutex while it initialises and works.       *)
LockInv ==
    \A m \in Managers :
        managerStep[m] \in {"initialising", "working", "finishing"} => managerMutex[m] = "manager"

IsUp(m) == managerStep[m] \in {"waiting", "relocking", "working", "finishing"}
              /\ wakeReason[m] # "kill"
Failed(m) == managerStep[m] = "exited" /\ wakeReason[m] = "kill"

(* During the boot the managers before the present one are up, those behind *)
(* it do not exist, and nothing has happened yet.                           *)
BootInv ==
    mainStep \in {"launch", "created", "awaiting", "returning", "verify"} =>
        /\ \A m \in Managers :
              /\ m < at => IsUp(m)
              /\ m > at => managerStep[m] = "absent"
              /\ m > at \/ (m = at /\ mainStep \notin {"returning", "verify"}) =>
                    wakeReason[m] # "kill"
        /\ mainStep = "launch" => managerStep[at] = "absent"
        /\ mainStep = "created" => managerStep[at] = "locking" /\ managerMutex[at] = "main"
        /\ mainStep = "awaiting" => managerStep[at] \in {"locking", "initialising"}
        /\ mainStep \in {"returning", "verify"} => IsUp(at) \/ Failed(at)
        /\ cpuStep = "off" /\ command = {}

(* From the boot until the processor has ended, all managers are up.        *)
RunInv ==
    mainStep \in {"input", "scan", "post", "signal", "joinCpu", "crashed"} =>
        \A m \in Managers : IsUp(m)
PowerInv == powerState => mainStep \in {"input", "scan", "post", "signal", "crashed"}

(* The teardown leaves no manager behind.                                   *)
EndInv ==
    mainStep \in {"kill", "signalKill", "join", "done"} =>
        /\ cpuStep \in {"off", "exited"}
        /\ \A m \in Managers :
              /\ managerStep[m] \notin {"locking", "initialising"}
              /\ m < at \/ mainStep = "done" => managerStep[m] \in {"absent", "exited"}

(* Where the wake of a device is.  This is WakeUnderWay, but for a manager  *)
(* that serves the device while the main thread has not signalled it yet:   *)
(* that signal is no wake any more.                                         *)
UnderWay(d) ==
    LET m == ManagerOf[d] IN
    \/ cpuStep = "marking" /\ cpuDevice = d
    \/ d \in wakerTodo
    \/ mainStep = "post" /\ at = d
    \/ /\ wakeReason[m] = "handleReadWrite" /\ wakeDevice[m] = d
       /\ \/ managerStep[m] \in {"relocking", "working"}
          \/ managerStep[m] = "waiting" /\ mainStep = "signal" /\ at = d
WakeInv ==
    powerState /\ Alive => \A d \in command \cap present : UnderWay(d) \/ d \in overwritten

(* The inductive invariant. *)
IInv ==
    /\ PowerType /\ MainType /\ SemaphoreType /\ ManagerType /\ DeviceType
    /\ LockInv /\ BootInv /\ RunInv /\ PowerInv /\ EndInv
    /\ WakeInv

USE ManagersAssumption DEF ManagersAssumption
-----------------------------------------------------------------------------
LEMMA ParameterFacts ==
    /\ NumManagers \in Nat \ {0} /\ 1 \in Managers
    /\ NumDevices \in Nat \ {0} /\ 0 \in Devices
    /\ ManagerOf \in [Devices -> Managers]
  BY DEF Managers, Devices

LEMMA InitIInv == Init => IInv
  <1> SUFFICES ASSUME Init PROVE IInv
    OBVIOUS
  <1> USE ParameterFacts DEF Init
  <1>1. PowerType
    BY DEF PowerType
  <1>2. MainType
    BY DEF MainType, PerManager, PerDevice
  <1>3. SemaphoreType
    BY DEF SemaphoreType
  <1>4. ManagerType
    BY DEF ManagerType
  <1>5. DeviceType
    BY DEF DeviceType
  <1>6. LockInv /\ EndInv
    BY DEF LockInv, EndInv
  <1>7. BootInv /\ RunInv
    BY DEF BootInv, RunInv, Managers
  <1>8. WakeInv
    BY DEF WakeInv
  <1>9. PowerInv
    BY DEF PowerInv
  <1> QED BY <1>1, <1>2, <1>3, <1>4, <1>5, <1>6, <1>7, <1>8, <1>9 DEF IInv

(* The boot: every manager comes up or ends it. *)
LEMMA BootIInv ==
    ASSUME IInv, Launch \/ AwaitManager \/ ReturnControl \/ Verify
    PROVE  IInv'
  <1> USE ParameterFacts DEF IInv, Woken, main, semaphore, processor, Launch, AwaitManager,
                             ReturnControl, Verify
  <1>1. PowerType'
    BY DEF PowerType
  <1>2. MainType'
    BY DEF MainType, PerManager, PerDevice, Managers
  <1>3. SemaphoreType'
    BY DEF SemaphoreType
  <1>4. ManagerType'
    BY DEF ManagerType
  <1>5. DeviceType'
    BY DEF DeviceType
  <1>6. LockInv'
    <2>1. CASE Launch
      BY <2>1 DEF LockInv
    <2>2. CASE AwaitManager
      BY <2>2 DEF MainType, PerManager, ManagerType, BootInv, LockInv
    <2>3. CASE ReturnControl
      BY <2>3 DEF LockInv
    <2>4. CASE Verify
      BY <2>4 DEF LockInv
    <2> QED BY <2>1, <2>2, <2>3, <2>4
  <1>7. BootInv'
    <2>1. CASE Launch \/ AwaitManager \/ ReturnControl
      BY <2>1 DEF MainType, ManagerType, BootInv, IsUp, Failed, PerManager, Managers
    <2>2. CASE Verify
      <3>1. at \in Managers /\ (IsUp(at) \/ Failed(at))
        BY <2>2 DEF MainType, PerManager, BootInv
      <3>2. CASE mainStep' = "launch"
        <4>1. at < NumManagers /\ at' = at + 1 /\ IsUp(at)
          BY <2>2, <3>1, <3>2 DEF Failed
        <4>2. \A m \in Managers :
                  /\ m < at' => IsUp(m)
                  /\ m >= at' => managerStep[m] = "absent" /\ wakeReason[m] # "kill"
          BY <2>2, <3>1, <4>1 DEF BootInv, Managers
        <4> QED BY <2>2, <3>1, <3>2, <4>1, <4>2 DEF BootInv, IsUp, Managers
      <3>3. CASE mainStep' \in {"kill", "input"}
        BY <3>3 DEF BootInv
      <3> QED BY <2>2, <3>2, <3>3
    <2> QED BY <2>1, <2>2
  <1>8. RunInv'
    <2>1. CASE Launch \/ AwaitManager \/ ReturnControl
      BY <2>1 DEF RunInv
    <2>2. CASE Verify
      <3>1. SUFFICES ASSUME mainStep' = "input" PROVE \A m \in Managers : IsUp(m)'
        BY <2>2 DEF RunInv
      <3>2. at \in Managers /\ (IsUp(at) \/ Failed(at)) /\ wakeReason[at] # "kill"
              /\ at >= NumManagers
        BY <2>2, <3>1 DEF MainType, PerManager, BootInv, Managers
      <3>3. \A m \in Managers : IsUp(m)
        BY <2>2, <3>2 DEF BootInv, Failed, Managers
      <3> QED BY <2>2, <3>3 DEF IsUp
    <2> QED BY <2>1, <2>2
  <1>9. PowerInv'
    BY DEF PowerInv
  <1>10. EndInv'
    <2>1. CASE Launch \/ AwaitManager \/ ReturnControl
      BY <2>1 DEF EndInv
    <2>2. CASE Verify
      <3>1. SUFFICES ASSUME mainStep' = "kill" PROVE EndInv'
        BY <2>2 DEF EndInv
      <3>2. at' = 1 /\ UNCHANGED <<managerStep, cpuStep>> /\ cpuStep = "off"
        BY <2>2, <3>1 DEF BootInv
      <3>3. \A m \in Managers : managerStep[m] \notin {"locking", "initialising"}
        BY <2>2 DEF MainType, PerManager, BootInv, IsUp, Failed, Managers
      <3> QED BY <3>1, <3>2, <3>3 DEF EndInv, Managers
    <2> QED BY <2>1, <2>2
  <1>11. WakeInv'
    <2>1. CASE Launch \/ AwaitManager \/ ReturnControl
      BY <2>1 DEF PowerInv, WakeInv
    <2>2. CASE Verify
      BY <2>2 DEF MainType, ManagerType, SemaphoreType, DeviceType, LockInv, BootInv, RunInv,
                  PowerInv, WakeInv, UnderWay, IsUp, Failed, PerManager, PerDevice, Managers
    <2> QED BY <2>1, <2>2
  <1> QED BY <1>1, <1>2, <1>3, <1>4, <1>5, <1>6, <1>7, <1>8, <1>9, <1>10, <1>11

(* The main thread passes wakes on, and overwrites what it finds. *)
LEMMA WakeIInv ==
    ASSUME IInv, StartScan \/ PowerButton \/ LeaveLoop \/ Scan \/ Post \/ Signal
    PROVE  IInv'
  <1> USE ParameterFacts DEF IInv, Locate, PostTo, Woken, Alive, main, semaphore, processor,
                             StartScan, PowerButton, LeaveLoop, Scan, Post, Signal
  <1>1. PowerType'
    BY DEF PowerType
  <1>2. MainType'
    <2>1. CASE StartScan \/ PowerButton \/ LeaveLoop \/ Post
      BY <2>1 DEF MainType, PerManager, PerDevice, Managers
    <2>2. CASE Scan
      BY <2>2 DEF MainType, PerManager, PerDevice, Devices
    <2>3. CASE Signal
      BY <2>3 DEF MainType, PerManager, PerDevice, Devices
    <2> QED BY <2>1, <2>2, <2>3
  <1>3. SemaphoreType'
    <2>1. CASE StartScan \/ PowerButton \/ LeaveLoop \/ Scan \/ Signal
      BY <2>1 DEF SemaphoreType
    <2>2. CASE Post
      BY <2>2 DEF MainType, SemaphoreType
    <2> QED BY <2>1, <2>2
  <1>4. ManagerType'
    BY DEF ManagerType
  <1>5. DeviceType'
    BY DEF DeviceType
  <1>6. LockInv'
    <2>1. CASE StartScan
      BY <2>1 DEF LockInv
    <2>2. CASE PowerButton
      BY <2>2 DEF LockInv
    <2>3. CASE LeaveLoop
      BY <2>3 DEF LockInv
    <2>4. CASE Scan
      BY <2>4 DEF LockInv
    <2>5. CASE Post
      BY <2>5 DEF LockInv
    <2>6. CASE Signal
      BY <2>6 DEF LockInv
    <2> QED BY <2>1, <2>2, <2>3, <2>4, <2>5, <2>6
  <1>7. BootInv'
    BY DEF BootInv
  <1>8. RunInv'
    <2>1. CASE StartScan
      BY <2>1 DEF RunInv, IsUp
    <2>2. CASE PowerButton
      BY <2>2 DEF RunInv, IsUp
    <2>3. CASE LeaveLoop
      BY <2>3 DEF RunInv, IsUp
    <2>4. CASE Scan
      BY <2>4 DEF RunInv, IsUp
    <2>5. CASE Post
      BY <2>5 DEF RunInv, IsUp
    <2>6. CASE Signal
      BY <2>6 DEF RunInv, IsUp
    <2> QED BY <2>1, <2>2, <2>3, <2>4, <2>5, <2>6
  <1>9. PowerInv'
    BY DEF PowerInv
  <1>10. EndInv'
    BY DEF EndInv
  <1>11. WakeInv'
    <2>1. CASE StartScan \/ Scan
      BY <2>1 DEF WakeInv, UnderWay
    <2>2. CASE PowerButton \/ LeaveLoop
      BY <2>2 DEF WakeInv
    <2>3. CASE Post
      <3>1. SUFFICES ASSUME powerState, NEW d \in command \cap present
                     PROVE  UnderWay(d)' \/ d \in overwritten'
        BY <2>3 DEF WakeInv
      <3> DEFINE m == ManagerOf[at]
                 n == ManagerOf[d]
      <3>2. /\ at \in Devices /\ d \in Devices /\ m \in Managers /\ n \in Managers
            /\ UnderWay(d) \/ d \in overwritten
        BY <2>3, <3>1 DEF MainType, DeviceType, WakeInv
      <3>3. managerStep[m] \in {"waiting", "relocking"}
        BY <2>3, <3>2 DEF ManagerType, LockInv, RunInv, IsUp
      <3>4. wakeReason'[m] = "handleReadWrite" /\ wakeDevice'[m] = at
        BY <2>3, <3>2 DEF SemaphoreType
      <3>5. CASE d = at
        BY <2>3, <3>3, <3>4, <3>5 DEF UnderWay
      <3>6. CASE d # at /\ d \in overwritten
        BY <2>3, <3>6
      <3>7. CASE d # at /\ wakeReason[n] = "handleReadWrite" /\ wakeDevice[n] = d /\ n = m
        BY <2>3, <3>1, <3>7
      <3>8. CASE d # at /\ n # m /\ UnderWay(d)
        BY <2>3, <3>2, <3>8 DEF UnderWay, SemaphoreType
      <3>9. CASE d # at /\ (d \in wakerTodo \/ (cpuStep = "marking" /\ cpuDevice = d))
        BY <2>3, <3>9 DEF UnderWay
      <3> QED BY <2>3, <3>2, <3>5, <3>6, <3>7, <3>8, <3>9 DEF UnderWay
    <2>4. CASE Signal
      BY <2>4 DEF MainType, ManagerType, SemaphoreType, DeviceType, RunInv, WakeInv, UnderWay,
                  IsUp, PerManager, PerDevice
    <2> QED BY <2>1, <2>2, <2>3, <2>4
  <1> QED BY <1>1, <1>2, <1>3, <1>4, <1>5, <1>6, <1>7, <1>8, <1>9, <1>10, <1>11

LEMMA TeardownIInv ==
    ASSUME IInv, JoinCpu \/ Kill \/ SkipUnlaunched \/ SignalKill \/ Join
    PROVE  IInv'
  <1> USE ParameterFacts DEF IInv, NextManager, Woken, main, semaphore, processor, JoinCpu,
                             Kill, SkipUnlaunched, SignalKill, Join
  <1>1. PowerType'
    BY DEF PowerType
  <1>2. MainType'
    BY DEF MainType, PerManager, PerDevice, Managers
  <1>3. SemaphoreType'
    BY DEF SemaphoreType
  <1>4. ManagerType'
    BY DEF ManagerType
  <1>5. DeviceType'
    BY DEF DeviceType
  <1>6. LockInv'
    <2>1. CASE JoinCpu
      BY <2>1 DEF LockInv
    <2>2. CASE Kill
      BY <2>2 DEF LockInv
    <2>3. CASE SkipUnlaunched
      BY <2>3 DEF LockInv
    <2>4. CASE SignalKill
      BY <2>4 DEF LockInv
    <2>5. CASE Join
      BY <2>5 DEF LockInv
    <2> QED BY <2>1, <2>2, <2>3, <2>4, <2>5
  <1>7. BootInv'
    BY DEF BootInv
  <1>8. RunInv'
    BY DEF RunInv
  <1>9. PowerInv'
    BY DEF PowerInv
  <1>10. EndInv'
    <2>1. CASE JoinCpu \/ SkipUnlaunched \/ Join
      BY <2>1 DEF MainType, ManagerType, RunInv, EndInv, IsUp, PerManager, Managers
    <2>2. CASE Kill
      BY <2>2 DEF EndInv
    <2>3. CASE SignalKill
      BY <2>3 DEF EndInv
    <2> QED BY <2>1, <2>2, <2>3
  <1>11. WakeInv'
    BY DEF PowerInv, WakeInv
  <1> QED BY <1>1, <1>2, <1>3, <1>4, <1>5, <1>6, <1>7, <1>8, <1>9, <1>10, <1>11

(* A manager's thread. *)
LEMMA ManagerIInv ==
    ASSUME IInv, NEW m \in Managers, 
           \/ LockFirst(m)
           \/ Relock(m)
           \/ Initialise(m)
           \/ WakeSpuriously(m)
           \/ Serve(m)
           \/ Sleep(m)
           \/ Die(m)
    PROVE  IInv'
  <1> USE ParameterFacts DEF IInv, TakeMutex, Alive, main, semaphore, processor, LockFirst,
                             Relock, Initialise, WakeSpuriously, Serve, Sleep, Die
  <1>1. PowerType'
    BY DEF PowerType
  <1>2. MainType'
    BY DEF MainType, PerManager, PerDevice, Managers
  <1>3. SemaphoreType'
    <2>1. CASE LockFirst(m) \/ Relock(m) \/ Initialise(m) \/ WakeSpuriously(m)
      BY <2>1 DEF SemaphoreType
    <2>2. CASE Serve(m)
      BY <2>2 DEF SemaphoreType
    <2>3. CASE Sleep(m) \/ Die(m)
      BY <2>3 DEF SemaphoreType
    <2> QED BY <2>1, <2>2, <2>3
  <1>4. ManagerType'
    BY DEF ManagerType
  <1>5. DeviceType'
    BY DEF DeviceType
  <1>6. LockInv'
    <2>1. CASE LockFirst(m) \/ Relock(m) \/ Initialise(m) \/ Sleep(m)
      BY <2>1 DEF ManagerType, LockInv
    <2>2. CASE WakeSpuriously(m)
      BY <2>2 DEF LockInv
    <2>3. CASE Serve(m)
      BY <2>3 DEF LockInv
    <2>4. CASE Die(m)
      BY <2>4 DEF LockInv
    <2> QED BY <2>1, <2>2, <2>3, <2>4
  <1>7. BootInv'
    <2>1. CASE LockFirst(m)
      BY <2>1 DEF MainType, ManagerType, BootInv, IsUp, Failed, PerManager, Managers
    <2>2. CASE Relock(m)
      BY <2>2 DEF MainType, ManagerType, BootInv, IsUp, Failed, PerManager, Managers
    <2>3. CASE Initialise(m)
      <3>1. mainStep = "awaiting" /\ m = at
        BY <2>3 DEF MainType, PerManager, PerDevice, Managers, BootInv, RunInv,
                    EndInv, IsUp, Failed
      <3>2. mainStep' = "returning" /\ at' = at /\ wakeReason[m] # "kill"
        BY <2>3, <3>1 DEF BootInv
      <3>3. IsUp(m)' \/ Failed(m)'
        BY <2>3, <3>2 DEF ManagerType, SemaphoreType, IsUp, Failed
      <3>4. \A k \in Managers \ {m} :
                managerStep'[k] = managerStep[k] /\ wakeReason'[k] = wakeReason[k]
        BY <2>3 DEF ManagerType, SemaphoreType
      <3>5. \A k \in Managers :
                /\ k < at => IsUp(k)
                /\ k > at => managerStep[k] = "absent" /\ wakeReason[k] # "kill"
        BY <3>1 DEF BootInv
      <3>6. \A k \in Managers :
                /\ k < at => IsUp(k)'
                /\ k > at => managerStep'[k] = "absent" /\ wakeReason'[k] # "kill"
        BY <3>1, <3>4, <3>5 DEF IsUp, Managers
      <3>7. cpuStep' = "off" /\ command' = {}
        BY <2>3, <3>1 DEF BootInv
      <3>8. IsUp(at)' \/ Failed(at)'
        BY <3>1, <3>2, <3>3 DEF IsUp, Failed
      <3>9. \A k \in Managers :
                /\ k < at' => IsUp(k)'
                /\ k > at' => managerStep'[k] = "absent"
                /\ k > at' \/ (k = at' /\ mainStep' \notin {"returning", "verify"}) =>
                      wakeReason'[k] # "kill"
        BY <3>1, <3>2, <3>6 DEF IsUp, Managers
      <3> QED BY <3>2, <3>7, <3>8, <3>9 DEF BootInv
    <2>4. CASE WakeSpuriously(m)
      BY <2>4 DEF MainType, ManagerType, BootInv, IsUp, Failed, PerManager, Managers
    <2>5. CASE Serve(m)
      BY <2>5 DEF MainType, ManagerType, BootInv, IsUp, Failed, PerManager, Managers
    <2>6. CASE Sleep(m)
      BY <2>6 DEF MainType, ManagerType, BootInv, IsUp, Failed, PerManager, Managers
    <2>7. CASE Die(m)
      BY <2>7 DEF MainType, ManagerType, BootInv, IsUp, Failed, PerManager, Managers
    <2> QED BY <2>1, <2>2, <2>3, <2>4, <2>5, <2>6, <2>7
  <1>8. RunInv'
    <2>1. CASE LockFirst(m)
      BY <2>1 DEF RunInv, IsUp
    <2>2. CASE Relock(m)
      BY <2>2 DEF RunInv, IsUp
    <2>3. CASE Initialise(m)
      BY <2>3 DEF RunInv, IsUp
    <2>4. CASE WakeSpuriously(m)
      BY <2>4 DEF RunInv, IsUp
    <2>5. CASE Serve(m)
      BY <2>5 DEF RunInv, IsUp
    <2>6. CASE Sleep(m)
      BY <2>6 DEF RunInv, IsUp
    <2>7. CASE Die(m)
      BY <2>7 DEF RunInv, IsUp
    <2> QED BY <2>1, <2>2, <2>3, <2>4, <2>5, <2>6, <2>7
  <1>9. PowerInv'
    BY DEF PowerInv
  <1>10. EndInv'
    <2>1. CASE LockFirst(m)
      BY <2>1 DEF EndInv
    <2>2. CASE Relock(m)
      BY <2>2 DEF EndInv
    <2>3. CASE Initialise(m)
      BY <2>3 DEF EndInv
    <2>4. CASE WakeSpuriously(m)
      BY <2>4 DEF EndInv
    <2>5. CASE Serve(m)
      BY <2>5 DEF EndInv
    <2>6. CASE Sleep(m)
      BY <2>6 DEF EndInv
    <2>7. CASE Die(m)
      BY <2>7 DEF EndInv
    <2> QED BY <2>1, <2>2, <2>3, <2>4, <2>5, <2>6, <2>7
  <1>11. WakeInv'
    <2>1. CASE LockFirst(m)
      BY <2>1 DEF WakeInv, UnderWay
    <2>2. CASE Relock(m)
      BY <2>2 DEF WakeInv, UnderWay
    <2>3. CASE Initialise(m)
      BY <2>3 DEF MainType, ManagerType, SemaphoreType, DeviceType, LockInv, BootInv, RunInv,
                  PowerInv, WakeInv, UnderWay, IsUp, Failed, PerManager, PerDevice, Managers
    <2>4. CASE WakeSpuriously(m)
      BY <2>4 DEF WakeInv, UnderWay
    <2>5. CASE Serve(m)
      <3>1. SUFFICES ASSUME powerState, NEW e \in command' \cap present'
                     PROVE  UnderWay(e)' \/ e \in overwritten'
        BY <2>5 DEF WakeInv
      <3>2. e \in command /\ e \in present /\ e # wakeDevice[m]
        BY <2>5, <3>1
      <3>3. UnderWay(e) \/ e \in overwritten
        BY <2>5, <3>1, <3>2 DEF WakeInv
      <3>4. ManagerOf[e] \in Managers
        BY <3>2 DEF DeviceType
      <3>5. UnderWay(e) => UnderWay(e)'
        BY <2>5, <3>2, <3>4 DEF UnderWay, ManagerType
      <3> QED BY <2>5, <3>2, <3>3, <3>5
    <2>6. CASE Sleep(m)
      BY <2>6 DEF WakeInv, UnderWay
    <2>7. CASE Die(m)
      BY <2>7 DEF WakeInv, UnderWay
    <2> QED BY <2>1, <2>2, <2>3, <2>4, <2>5, <2>6, <2>7
  <1> QED BY <1>1, <1>2, <1>3, <1>4, <1>5, <1>6, <1>7, <1>8, <1>9, <1>10, <1>11

LEMMA ProcessorIInv ==
    ASSUME IInv, (\E d \in Devices : Access(d)) \/ MarkDevice \/ CpuExits
    PROVE  IInv'
  <1> USE ParameterFacts DEF IInv, Alive, main, semaphore, processor, Access, MarkDevice,
                             CpuExits
  <1>1. PowerType'
    BY DEF PowerType
  <1>2. MainType'
    BY DEF MainType, PerManager, PerDevice, Managers
  <1>3. SemaphoreType'
    BY DEF SemaphoreType
  <1>4. ManagerType'
    BY DEF ManagerType
  <1>5. DeviceType'
    BY DEF DeviceType
  <1>6. LockInv'
    BY DEF LockInv
  <1>7. BootInv'
    BY DEF BootInv
  <1>8. RunInv'
    BY DEF RunInv, IsUp
  <1>9. PowerInv'
    BY DEF PowerInv
  <1>10. EndInv'
    BY DEF EndInv
  <1>11. WakeInv'
    <2>1. CASE (\E d \in Devices : Access(d))
      <3>1. PICK d \in Devices : Access(d)
        BY <2>1
      <3>2. SUFFICES ASSUME powerState', NEW e \in command' \cap present'
                     PROVE  UnderWay(e)' \/ e \in overwritten'
        BY DEF WakeInv
      <3>3. CASE e = d
        BY <3>1, <3>3 DEF UnderWay
      <3>4. CASE e # d
        <4>1. e \in command /\ e \in present /\ (UnderWay(e) \/ e \in overwritten)
          BY <3>1, <3>2, <3>4 DEF WakeInv
        <4>2. UnderWay(e) => UnderWay(e)'
          BY <3>1 DEF UnderWay
        <4> QED BY <3>1, <3>4, <4>1, <4>2
      <3> QED BY <3>3, <3>4
    <2>2. CASE MarkDevice
      BY <2>2 DEF WakeInv, UnderWay
    <2>3. CASE CpuExits
      BY <2>3 DEF WakeInv
    <2> QED BY <2>1, <2>2, <2>3
  <1> QED BY <1>1, <1>2, <1>3, <1>4, <1>5, <1>6, <1>7, <1>8, <1>9, <1>10, <1>11

LEMMA NextIInv == IInv /\ [Next]_vars => IInv'
  <1>1. IInv /\ UNCHANGED vars => IInv'
    BY DEF IInv, PowerType, MainType, SemaphoreType, ManagerType, DeviceType, LockInv, BootInv,
           RunInv, PowerInv, EndInv, WakeInv, UnderWay, IsUp, Failed, Alive, vars, main,
           semaphore, processor
  <1> QED BY <1>1, BootIInv, WakeIInv, TeardownIInv, ManagerIInv, ProcessorIInv
          DEF Next, MainLocks, MainRuns, ManagerLocks, ManagerRuns, Stopped

LEMMA SpecIInv == Spec => []IInv
  BY InitIInv, NextIInv, PTL DEF Spec
-----------------------------------------------------------------------------
(* The threads of the machine keep their types: the main thread indexes the *)
(* managers and the devices inside their tables.                            *)
THEOREM TypeCorrect == Spec => []TypeOK
  <1>1. IInv => TypeOK
    BY DEF IInv, PowerType, MainType, SemaphoreType, ManagerType, DeviceType, TypeOK
  <1> QED BY <1>1, SpecIInv, PTL

(* mb_init: the power goes on after every manager has come up, and they     *)
(* come up one at a time.                                                   *)
THEOREM BootOrderHolds == Spec => []BootOrder
  <1>1. ASSUME IInv PROVE BootOrder
    <2> DEFINE Coming == {m \in Managers : managerStep[m] \in {"locking", "initialising"}}
    <2>1. Coming \subseteq {at}
      <3>1. ASSUME NEW m \in Managers, m # at
            PROVE  managerStep[m] \notin {"locking", "initialising"}
        BY <1>1, <3>1 DEF IInv, MainType, PerManager, PerDevice, BootInv, RunInv, EndInv, IsUp,
                          Managers
      <3> QED BY <3>1
    <2>2. IsFiniteSet({at}) /\ Cardinality({at}) = 1
      BY FS_Singleton
    <2>3. Cardinality(Coming) <= 1
      BY <2>1, <2>2, FS_Subset
    <2>4. powerState => \A m \in Managers : IsUp(m)
      BY <1>1 DEF IInv, RunInv, PowerInv
    <2> QED BY <2>3, <2>4 DEF BootOrder, IsUp
  <1> QED BY <1>1, SpecIInv, PTL

(* mb_teardown: when the memory is freed, the processor and the managers    *)
(* that came up have ended, after a full boot as well as after a failed one.*)
THEOREM NobodyOutlivesMemoryHolds == Spec => []NobodyOutlivesMemory
  <1>1. IInv => NobodyOutlivesMemory
    BY DEF IInv, EndInv, NobodyOutlivesMemory
  <1> QED BY <1>1, SpecIInv, PTL

(* A command whose wake is lost was overwritten: wakes are lost neither     *)
(* between handler, scan, post and signal nor by a wait that ends early, for*)
(* every number of managers that share the main thread and of devices that  *)
(* share a manager.                                                         *)
THEOREM OnlyOverwritingLosesWakesHolds == Spec => []OnlyOverwritingLosesWakes
  <1>1. IInv => OnlyOverwritingLosesWakes
    BY DEF IInv, WakeInv, UnderWay, OnlyOverwritingLosesWakes, WakeUnderWay
  <1> QED BY <1>1, SpecIInv, PTL
=============================================================================
