---------------------------- MODULE StorageProofs ----------------------------
(***************************************************************************)
(* Theorems about Storage, for every number of slots, ids and files, every *)
(* geometry of a drive and every size of memory.                           *)
(***************************************************************************)
EXTENDS Storage, SequenceTheorems, TLAPS

(* TypeOK in parts, with the threads, and the commands by their unit.       *)
FilesType == files \in [Files -> {Absent, Foreign} \cup DriveFiles]
RegistryType ==
    /\ mapped \in [Ids -> Patches \cup {None}]
    /\ registers \in [Registers -> SUBSET Bits]
    /\ readOnly \in [Patches -> Geometries \cup {None}]
DriveType == driveData \in [Slots -> DriveRecords \cup {None}]
ManagerCommands == {"insertNew", "insertExisting", "remove"}
DriveCommands == {"read", "write"}
CommandType ==
    /\ command \in [Units -> SUBSET (ManagerCommands \cup DriveCommands)]
    /\ command[Manager] \subseteq ManagerCommands
    /\ \A s \in Slots : command[s] \subseteq DriveCommands
StatusType == status \in [Units -> SUBSET Bits]
WakeType ==
    /\ wakerTodo \subseteq Devices
    /\ posting \in Devices \cup {None} /\ semaphore \in Devices \cup {None}
HistoryType == accesses \in 0 .. MaxAccesses /\ causes \in [Devices -> SUBSET Causes]
CpuType ==
    cpu \in [step : {"outside"}] \cup [step : {"announce"}, device : Devices]
            \cup [step : {"update"}, device : Devices, bits : {{"inProgress"}}]

Pausing == [step : {"waiting", "boot", "dead"} \cup ManagerCommands]
Requesting == [step : {"request"}, file : Files, geometry : Geometries]
Publishing == [step : {"publish"}, file : Files, geometry : Geometries, id : Ids]
Forgetting == [step : {"forget"}, unit : Slots]
Transferring == [step : DriveCommands, unit : Slots, file : Files, first : Nat,
                 pieces : Nat \ {0}, address : 0 .. MemorySize, done : Nat,
                 copied : {None} \cup [place : Nat, value : Values]]
Completing == [step : {"complete"}, unit : Units, result : {"success", "failure"}]
Updating == [step : {"update"}, unit : Units, bits : SUBSET Bits]
ThreadType ==
    /\ initial \in Seq(Files)
    /\ thread \in Pausing \cup Requesting \cup Publishing \cup Forgetting
                      \cup Transferring \cup Completing \cup Updating

(* A device has one drive and a patch of its own, and a drive a device,     *)
(* but for the one that is being inserted or removed.                       *)
HasDrive(d) == \E s \in Occupied : driveData[s].id = d
DeviceInv ==
    /\ \A s, t \in Occupied : driveData[s].id = driveData[t].id => s = t
    /\ \A s \in Occupied : \/ mapped[driveData[s].id] # None
                           \/ thread.step = "forget" /\ thread.unit = s
    /\ \A d, e \in Ids : mapped[d] # None /\ mapped[e] = mapped[d] => e = d
    /\ \A d \in Ids : mapped[d] # None =>
          HasDrive(d) \/ (thread.step = "publish" /\ thread.id = d)

(* Geometries are those of the files.                                       *)
IsDriveOf(f, g) == files[f].kind = "drive" /\ files[f].geometry = g
GeometryInv ==
    /\ \A s \in Occupied :
          /\ IsDriveOf(driveData[s].file, driveData[s].geometry)
          /\ mapped[driveData[s].id] # None =>
                readOnly[mapped[driveData[s].id]] = driveData[s].geometry
    /\ thread.step \in {"request", "publish"} => IsDriveOf(thread.file, thread.geometry)

(* What the thread works on exists, and a transfer stays in its sector.     *)
ThreadInv ==
    /\ thread.step = "boot" => initial # <<>>
    /\ thread.step = "publish" =>
          /\ mapped[thread.id] # None /\ ~ HasDrive(thread.id)
          /\ readOnly[mapped[thread.id]] = thread.geometry
    /\ thread.step = "forget" =>
          thread.unit \in Occupied /\ mapped[driveData[thread.unit].id] = None
    /\ thread.step \in {"read", "write", "complete", "update"} /\ thread.unit # Manager =>
          thread.unit \in Occupied
    /\ thread.step \in {"read", "write"} =>
          /\ thread.first + thread.pieces <= MaxPieces /\ thread.done <= thread.pieces
          /\ IsDriveOf(thread.file, driveData[thread.unit].geometry)

(* The processor's handler works on a device with a drive, and not during   *)
(* the boot.                                                                *)
CpuInv ==
    /\ cpu # Outside /\ cpu.device # Manager =>
          mapped[cpu.device] # None /\ HasDrive(cpu.device)
    /\ initial # <<>> => cpu = Outside /\ \A u \in Units : command[u] = {}

(* A unit has one command at a time, and its register shows it while it     *)
(* waits or is served.                                                      *)
Trusted(u) == IsMapped(DeviceOf(u)) /\ "inherited" \notin causes[DeviceOf(u)]
InHandler(d) == cpu # Outside /\ cpu.device = d
UnitInv ==
    \A u \in {Manager} \cup Occupied : Trusted(u) =>
        /\ \A c, e \in command[u] : c = e
        /\ Serving(u) => command[u] = {}
        /\ Running /\ (command[u] # {} \/ Serving(u)) /\ ~ InHandler(DeviceOf(u)) =>
              "inProgress" \in registers[RegisterOf(DeviceOf(u))]

(* The inductive invariant. *)
Types == /\ FilesType /\ RegistryType /\ DriveType /\ CommandType /\ StatusType
         /\ WakeType /\ HistoryType /\ CpuType /\ ThreadType
IInv == Types /\ DeviceInv /\ GeometryInv /\ ThreadInv /\ CpuInv /\ UnitInv
-----------------------------------------------------------------------------
(* The parameters, and what a state says of its parts. *)

LEMMA Parameters ==
    /\ Manager \notin Ids /\ Manager \notin Patches /\ Manager \notin Slots
    /\ None \notin Ids /\ None \notin Patches /\ None \notin Slots
    /\ None # Manager /\ None \notin DriveRecords
    /\ NumSlots \in Nat /\ MemorySize \in Nat /\ MaxPieces \in Nat /\ MaxAccesses \in Nat
    /\ Zero \in Values
    /\ Slots \subseteq Units /\ Manager \in Units /\ Ids \subseteq Devices /\ Manager \in Devices
  BY StorageAssumption DEF StorageAssumption, Units, Devices, Slots

LEMMA GeometryFacts ==
    ASSUME NEW g \in Geometries
    PROVE  /\ g.pieces \in Nat \ {0} /\ g.sectors \in Nat \ {0}
           /\ g.pieces * g.sectors <= MaxPieces
  BY StorageAssumption DEF StorageAssumption

LEMMA DriveFileFacts ==
    ASSUME NEW g \in Geometries, NEW c \in Contents
    PROVE  /\ DriveFile(g, c) \in DriveFiles
           /\ DriveFile(g, c).kind = "drive" /\ DriveFile(g, c).geometry = g
           /\ DriveFile(g, c).data = c
  BY DEF DriveFile, DriveFiles

LEMMA FileFacts ==
    ASSUME FilesType, NEW f \in Files
    PROVE  /\ files[f] \in {Absent, Foreign} \cup DriveFiles
           /\ files[f].kind = "drive" =>
                 /\ files[f].geometry \in Geometries /\ files[f].data \in Contents
                 /\ files[f] = DriveFile(files[f].geometry, files[f].data)
           /\ files[f].kind # "drive" => files[f] \in {Absent, Foreign}
  BY DriveFileFacts DEF FilesType, DriveFiles, DriveFile, Absent, Foreign

LEMMA ContentsFacts ==
    ASSUME NEW c \in Contents
    PROVE  /\ c \in Seq(Values) /\ Len(c) \in 0 .. MaxPieces /\ c \in [1 .. Len(c) -> Values]
  <1>1. PICK n \in 0 .. MaxPieces : c \in [1 .. n -> Values]
    BY DEF Contents
  <1>2. n \in Nat
    BY <1>1, Parameters
  <1> QED BY <1>1, <1>2

LEMMA DriveFacts ==
    ASSUME DriveType, NEW s \in Occupied
    PROVE  /\ s \in Slots /\ s # Manager /\ driveData[s] \in DriveRecords
           /\ driveData[s].file \in Files /\ driveData[s].geometry \in Geometries
           /\ driveData[s].id \in Ids /\ DeviceOf(s) = driveData[s].id
  <1>1. s \in Slots /\ driveData[s] \in DriveRecords
    BY DEF Occupied, DriveType
  <1> QED BY <1>1, Parameters DEF DriveRecords, DeviceOf

LEMMA UnitFacts ==
    ASSUME DriveType
    PROVE  /\ UnitOf(Manager) = Manager
           /\ \A d \in Ids : \/ ~ HasDrive(d) /\ UnitOf(d) = None /\ SlotOf(d) = {}
                             \/ /\ HasDrive(d) /\ UnitOf(d) # None /\ SlotOf(d) # {}
                                /\ UnitOf(d) \in Occupied /\ driveData[UnitOf(d)].id = d
                                /\ DeviceOf(UnitOf(d)) = d
  <1>1. UnitOf(Manager) = Manager
    BY DEF UnitOf
  <1>2. ASSUME NEW d \in Ids, SlotOf(d) = {} PROVE ~ HasDrive(d) /\ UnitOf(d) = None
    BY <1>2, Parameters DEF HasDrive, SlotOf, UnitOf
  <1>3. ASSUME NEW d \in Ids, SlotOf(d) # {}
        PROVE  /\ HasDrive(d) /\ UnitOf(d) # None /\ UnitOf(d) \in Occupied
               /\ driveData[UnitOf(d)].id = d /\ DeviceOf(UnitOf(d)) = d
    <2>1. UnitOf(d) = CHOOSE s \in SlotOf(d) : TRUE
      BY <1>3, Parameters DEF UnitOf
    <2>2. UnitOf(d) \in SlotOf(d)
      BY <1>3, <2>1
    <2>3. UnitOf(d) \in Occupied /\ driveData[UnitOf(d)].id = d
      BY <2>2 DEF SlotOf
    <2> QED BY <2>3, DriveFacts, Parameters DEF HasDrive, Slots
  <1> QED BY <1>1, <1>2, <1>3

LEMMA ThreadFacts ==
    ASSUME ThreadType
    PROVE  /\ initial \in Seq(Files)
           /\ thread.step \in {"waiting", "boot", "dead", "insertNew", "insertExisting", "remove",
                  "request", "publish", "forget", "read", "write", "complete", "update"}
           /\ thread.step = "request" => thread.file \in Files /\ thread.geometry \in Geometries
           /\ thread.step = "publish" =>
                 thread.file \in Files /\ thread.geometry \in Geometries /\ thread.id \in Ids
           /\ thread.step = "forget" => thread.unit \in Slots
           /\ thread.step \in {"read", "write"} => thread \in Transferring
           /\ thread.step = "complete" => thread.unit \in Units
                                          /\ thread.result \in {"success", "failure"}
           /\ thread.step = "update" => thread.unit \in Units /\ thread.bits \in SUBSET Bits
           /\ thread = Waiting => thread.step = "waiting"
  <1>1. thread.step \in {"waiting", "boot", "dead", "insertNew", "insertExisting", "remove",
                  "request", "publish", "forget", "read", "write", "complete", "update"}
    BY DEF ThreadType, Pausing, Requesting, Publishing, Forgetting, Transferring, Completing,
           Updating, ManagerCommands, DriveCommands
  <1>2. /\ thread.step = "request" => thread \in Requesting
        /\ thread.step = "publish" => thread \in Publishing
        /\ thread.step = "forget" => thread \in Forgetting
        /\ thread.step \in {"read", "write"} => thread \in Transferring
        /\ thread.step = "complete" => thread \in Completing
        /\ thread.step = "update" => thread \in Updating
    BY DEF ThreadType, Pausing, Requesting, Publishing, Forgetting, Transferring, Completing,
           Updating, ManagerCommands, DriveCommands
  <1>3. initial \in Seq(Files) /\ (thread = Waiting => thread.step = "waiting")
    BY DEF ThreadType, Waiting
  <1> QED BY <1>1, <1>2, <1>3 DEF Requesting, Publishing, Forgetting, Completing, Updating

LEMMA CpuFacts ==
    ASSUME CpuType
    PROVE  /\ cpu.step \in {"outside", "announce", "update"}
           /\ cpu.step = "outside" <=> cpu = Outside
           /\ cpu.step # "outside" => cpu.device \in Devices
           /\ cpu.step = "update" => cpu.bits = {"inProgress"}
  <1>1. cpu.step \in {"outside", "announce", "update"}
    BY DEF CpuType
  <1>2. cpu.step = "outside" <=> cpu = Outside
    BY DEF CpuType, Outside
  <1> QED BY <1>1, <1>2 DEF CpuType

(* Drives in different slots have registers of their own.                   *)
LEMMA RegisterFacts ==
    ASSUME DriveType, RegistryType, DeviceInv,
           NEW t \in {Manager} \cup Occupied, NEW u \in {Manager} \cup Occupied,
           IsMapped(DeviceOf(t)), IsMapped(DeviceOf(u))
    PROVE  /\ RegisterOf(DeviceOf(u)) \in Registers
           /\ t # u => /\ DeviceOf(t) # DeviceOf(u)
                       /\ RegisterOf(DeviceOf(t)) # RegisterOf(DeviceOf(u))
  <1>1. DeviceOf(Manager) = Manager /\ RegisterOf(Manager) = Manager
    BY DEF DeviceOf, RegisterOf
  <1>2. ASSUME NEW s \in Occupied, IsMapped(DeviceOf(s))
        PROVE  /\ DeviceOf(s) \in Ids /\ DeviceOf(s) # Manager
               /\ mapped[DeviceOf(s)] # None
               /\ RegisterOf(DeviceOf(s)) = mapped[DeviceOf(s)]
               /\ RegisterOf(DeviceOf(s)) \in Patches
    BY <1>2, DriveFacts, Parameters DEF IsMapped, RegisterOf, RegistryType
  <1>3. RegisterOf(DeviceOf(u)) \in Registers
    BY <1>1, <1>2 DEF Registers
  <1>4. ASSUME t # u PROVE /\ DeviceOf(t) # DeviceOf(u)
                           /\ RegisterOf(DeviceOf(t)) # RegisterOf(DeviceOf(u))
    <2>1. CASE t = Manager
      BY <1>1, <1>2, <1>4, <2>1, Parameters
    <2>2. CASE u = Manager
      BY <1>1, <1>2, <1>4, <2>2, Parameters
    <2>3. CASE t \in Occupied /\ u \in Occupied
      <3>1. DeviceOf(t) = driveData[t].id /\ DeviceOf(u) = driveData[u].id
        BY <2>3, DriveFacts
      <3>2. DeviceOf(t) # DeviceOf(u)
        BY <1>4, <2>3, <3>1 DEF DeviceInv
      <3> QED BY <1>2, <2>3, <3>2 DEF DeviceInv
    <2> QED BY <2>1, <2>2, <2>3
  <1> QED BY <1>3, <1>4
-----------------------------------------------------------------------------
LEMMA InitIInv == Init => IInv
  <1> SUFFICES ASSUME Init PROVE IInv
    OBVIOUS
  <1> USE DEF Init
  <1>1. FilesType
    BY StorageAssumption DEF FilesType, StorageAssumption
  <1>2. RegistryType /\ DriveType
    BY DEF RegistryType, DriveType
  <1>3. CommandType /\ StatusType
    BY Parameters DEF CommandType, StatusType
  <1>4. WakeType /\ HistoryType /\ CpuType
    BY Parameters DEF WakeType, HistoryType, CpuType, Outside
  <1>5. ThreadType
    BY StorageAssumption DEF StorageAssumption, ThreadType, Waiting, Pausing
  <1>6. Occupied = {}
    BY DEF Occupied
  <1>7. thread.step \in {"waiting", "boot"} /\ (thread.step = "boot" => initial # <<>>)
    BY DEF Waiting
  <1>8. DeviceInv
    BY <1>6 DEF DeviceInv
  <1>9. GeometryInv /\ ThreadInv
    BY <1>6, <1>7 DEF GeometryInv, ThreadInv
  <1>10. CpuInv
    BY DEF CpuInv
  <1>11. UnitInv
    <2>1. ~ Serving(Manager) /\ command[Manager] = {}
      BY <1>7, Parameters DEF Serving
    <2> QED BY <1>6, <2>1 DEF UnitInv
  <1> QED BY <1>1, <1>2, <1>3, <1>4, <1>5, <1>8, <1>9, <1>10, <1>11 DEF IInv, Types
-----------------------------------------------------------------------------
(* Steps of the processor and of the main thread leave the drives alone.    *)

LEMMA DrivesLeftAlone ==
    ASSUME UNCHANGED <<files, mapped, readOnly, driveData, thread, initial>>,
           DeviceInv, GeometryInv, ThreadInv
    PROVE  DeviceInv' /\ GeometryInv' /\ ThreadInv'
  <1>1. Occupied' = Occupied
    BY DEF Occupied
  <1>2. DeviceInv'
    BY <1>1 DEF DeviceInv, HasDrive
  <1>3. GeometryInv'
    BY <1>1 DEF GeometryInv, IsDriveOf
  <1>4. ThreadInv'
    BY <1>1 DEF ThreadInv, IsDriveOf, HasDrive
  <1> QED BY <1>2, <1>3, <1>4

(* A program's command to a unit whose register shows no transaction.       *)
LEMMA InitiateIInv ==
    ASSUME IInv, NEW d \in Devices, NEW c \in CommandsOf(d), Initiate(d, c)
    PROVE  IInv'
  <1> USE DEF IInv, Types
  <1> DEFINE n == UnitOf(d)
  <1>1. /\ cpu = Outside /\ IsMapped(d) /\ Running
        /\ "inProgress" \notin registers[RegisterOf(d)] /\ n # None
        /\ cpu' = [step |-> "announce", device |-> d]
        /\ command' = [command EXCEPT ![n] = @ \cup ({c} \ {"unknown"})]
        /\ causes' = [causes EXCEPT ![d] = (@ \cap {"inherited"})
                                      \cup (IF c = "unknown" THEN {c} ELSE {})]
        /\ accesses' \in Nat /\ accesses' <= MaxAccesses
        /\ UNCHANGED <<files, registry, driveData, status, waking, thread, initial>>
    BY Parameters DEF Initiate, Accesses, RegistryFree, HistoryType
  <1>2. /\ n \in {Manager} \cup Occupied /\ DeviceOf(n) = d /\ n \in Units
        /\ d # Manager => mapped[d] # None /\ HasDrive(d) /\ d \in Ids /\ n \in Slots
        /\ d = Manager <=> n = Manager
    BY <1>1, UnitFacts, DriveFacts, Parameters DEF Devices, IsMapped, DeviceOf
  <1> HIDE DEF n
  <1>3. FilesType' /\ RegistryType' /\ DriveType' /\ StatusType' /\ WakeType' /\ ThreadType'
    BY <1>1 DEF FilesType, RegistryType, DriveType, StatusType, WakeType, ThreadType, registry,
                waking
  <1>4. HistoryType'
    BY <1>1, Parameters DEF HistoryType, Causes
  <1>5. CpuType'
    BY <1>1 DEF CpuType
  <1>6. CommandType'
    <2>1. CASE d = Manager
      BY <1>1, <1>2, <2>1, Parameters DEF CommandType, CommandsOf, ManagerCommands
    <2>2. CASE d # Manager
      <3>1. {c} \ {"unknown"} \subseteq DriveCommands
        BY <2>2 DEF CommandsOf, DriveCommands
      <3> QED BY <1>1, <1>2, <2>2, <3>1, Parameters DEF CommandType
    <2> QED BY <2>1, <2>2
  <1>7. DeviceInv' /\ GeometryInv' /\ ThreadInv'
    BY <1>1, DrivesLeftAlone DEF registry
  <1>8. CpuInv'
    <2>1. mapped' = mapped /\ driveData' = driveData /\ initial' = <<>>
      BY <1>1 DEF registry, Running
    <2>2. HasDrive(d) => HasDrive(d)'
      BY <2>1 DEF HasDrive, Occupied
    <2> QED BY <1>1, <1>2, <2>1, <2>2 DEF CpuInv
  <1>9. UnitInv'
    <2>1. SUFFICES ASSUME NEW u \in {Manager} \cup Occupied, Trusted(u)'
                   PROVE  /\ \A b, e \in command'[u] : b = e
                          /\ Serving(u)' => command'[u] = {}
                          /\ command'[u] # {} \/ Serving(u)' =>
                                \/ InHandler(DeviceOf(u))'
                                \/ "inProgress" \in registers[RegisterOf(DeviceOf(u))]
      BY <1>1 DEF UnitInv, registry, Occupied, RegisterOf, DeviceOf
    <2>2. /\ DeviceOf(u)' = DeviceOf(u) /\ Serving(u)' = Serving(u)
          /\ IsMapped(DeviceOf(u))' = IsMapped(DeviceOf(u))
      BY <1>1 DEF registry, DeviceOf, Serving, IsMapped
    <2>3. DeviceOf(u) \in Devices
      BY DriveFacts, Parameters DEF DeviceOf
    <2>4. Trusted(u)
      BY <1>1, <2>1, <2>2, <2>3 DEF Trusted, HistoryType
    <2>5. ~ InHandler(DeviceOf(u))
      BY <1>1 DEF InHandler
    <2>6. /\ \A b, e \in command[u] : b = e
          /\ Serving(u) => command[u] = {}
          /\ command[u] # {} \/ Serving(u) =>
                "inProgress" \in registers[RegisterOf(DeviceOf(u))]
      BY <1>1, <2>4, <2>5 DEF UnitInv
    <2>7. CASE u = n
      <3>1. command[u] = {} /\ ~ Serving(u) /\ u \in Units
        BY <1>1, <1>2, <2>6, <2>7
      <3>2. command'[u] \subseteq {c}
        BY <1>1, <2>7, <3>1 DEF CommandType
      <3>3. InHandler(DeviceOf(u))'
        <4>1. cpu' # Outside /\ cpu'.device = d
          BY <1>1 DEF Outside
        <4> QED BY <1>2, <2>2, <2>7, <4>1 DEF InHandler
      <3> QED BY <2>2, <3>1, <3>2, <3>3
    <2>8. CASE u # n
      <3>1. command'[u] = command[u]
        BY <1>1, <2>8 DEF CommandType
      <3> QED BY <2>2, <2>6, <3>1
    <2> QED BY <2>7, <2>8
  <1> QED BY <1>3, <1>4, <1>5, <1>6, <1>7, <1>8, <1>9

(* Commands that are taken or forgotten, devices that leave, and new causes *)
(* keep UnitInv; a unit that is served now was served or had a command.     *)
LEMMA UnitsKept ==
    ASSUME DriveType, UnitInv, UNCHANGED <<driveData, registers>>, Running' => Running,
           \A s \in Occupied : mapped'[driveData[s].id] \in {mapped[driveData[s].id], None},
           \A u \in Units :
              /\ command'[u] \subseteq command[u]
              /\ Trusted(u) /\ Serving(u)' =>
                    Serving(u) \/ (command[u] # {} /\ command'[u] = {}),
           \A d \in Devices : /\ "inherited" \in causes[d] => "inherited" \in causes'[d]
                              /\ InHandler(d) => InHandler(d)'
    PROVE  UnitInv'
  <1> SUFFICES ASSUME NEW u \in {Manager} \cup Occupied, Trusted(u)'
               PROVE  /\ \A c, e \in command'[u] : c = e
                      /\ Serving(u)' => command'[u] = {}
                      /\ Running' /\ (command'[u] # {} \/ Serving(u)')
                                  /\ ~ InHandler(DeviceOf(u))' =>
                            "inProgress" \in registers'[RegisterOf(DeviceOf(u))']
    BY DEF UnitInv, Occupied, RegisterOf, DeviceOf
  <1>1. u \in Units /\ DeviceOf(u) \in Devices /\ (DeviceOf(u) = Manager \/ DeviceOf(u) \in Ids)
    BY DriveFacts, Parameters DEF DeviceOf
  <1>2. DeviceOf(u)' = DeviceOf(u)
    BY DEF DeviceOf
  <1>3. IsMapped(DeviceOf(u)) /\ RegisterOf(DeviceOf(u))' = RegisterOf(DeviceOf(u))
    BY <1>1, <1>2, DriveFacts, Parameters DEF Trusted, IsMapped, RegisterOf, DeviceOf
  <1>4. Trusted(u)
    BY <1>1, <1>2, <1>3 DEF Trusted
  <1>5. /\ \A c, e \in command[u] : c = e
        /\ Serving(u) => command[u] = {}
        /\ Running /\ (command[u] # {} \/ Serving(u)) /\ ~ InHandler(DeviceOf(u)) =>
              "inProgress" \in registers[RegisterOf(DeviceOf(u))]
    BY <1>4 DEF UnitInv
  <1> QED BY <1>1, <1>2, <1>3, <1>4, <1>5

(* The other steps of the program and its handler, and those of the main    *)
(* thread.                                                                  *)
LEMMA AccessIInv ==
    ASSUME IInv, \/ \E d \in Devices : Access(d) \/ Locate(d)
                 \/ Announce
                 \/ PostWake
    PROVE  IInv'
  <1> USE DEF IInv, Types
  <1>1. /\ UNCHANGED <<files, mapped, registers, readOnly, driveData, command, thread, initial>>
        /\ WakeType' /\ accesses' \in 0 .. MaxAccesses
    <2>1. ASSUME NEW d \in Devices, Access(d) \/ Locate(d)
          PROVE  /\ UNCHANGED <<files, mapped, registers, readOnly, driveData, command, thread,
                                initial>>
                 /\ WakeType' /\ accesses' \in 0 .. MaxAccesses
      BY <2>1, Parameters DEF Access, Accesses, Locate, WakeType, HistoryType, registry
    <2>2. CASE Announce
      BY <2>2 DEF Announce, WakeType, HistoryType, registry, waking
    <2>3. CASE PostWake
      BY <2>3 DEF PostWake, WakeType, HistoryType, registry
    <2> QED BY <2>1, <2>2, <2>3
  <1>2. /\ causes' \in [Devices -> SUBSET Causes]
        /\ \A d \in Devices : "inherited" \in causes[d] => "inherited" \in causes'[d]
    <2>1. CASE \E d \in Devices : Access(d) \/ Locate(d)
      BY <2>1 DEF Access, Locate, HistoryType
    <2>2. CASE Announce
      BY <2>2 DEF Announce, HistoryType
    <2>3. CASE PostWake
      BY <2>3 DEF PostWake, HistoryType, Causes
    <2> QED BY <2>1, <2>2, <2>3
  <1>3. CpuType' /\ StatusType'
        /\ (cpu' = cpu \/ (cpu # Outside /\ cpu' # Outside /\ cpu'.device = cpu.device))
    <2>1. CASE \E d \in Devices : Access(d) \/ Locate(d)
      BY <2>1 DEF Access, Locate, CpuType, StatusType
    <2>2. CASE Announce
      <3>1. cpu # Outside /\ cpu.device \in Devices
        BY <2>2, CpuFacts DEF Announce
      <3>2. /\ cpu' = [step |-> "update", device |-> cpu.device, bits |-> {"inProgress"}]
            /\ StatusType'
        BY <2>2 DEF Announce, StatusType, Bits
      <3>3. CpuType' /\ cpu' # Outside /\ cpu'.device = cpu.device
        BY <3>1, <3>2 DEF CpuType, Outside
      <3> QED BY <3>1, <3>2, <3>3
    <2>3. CASE PostWake
      BY <2>3 DEF PostWake, CpuType, StatusType
    <2> QED BY <2>1, <2>2, <2>3
  <1>4. FilesType' /\ RegistryType' /\ DriveType' /\ CommandType' /\ HistoryType' /\ ThreadType'
    BY <1>1, <1>2 DEF FilesType, RegistryType, DriveType, CommandType, HistoryType, ThreadType
  <1>5. DeviceInv' /\ GeometryInv' /\ ThreadInv'
    BY <1>1, DrivesLeftAlone
  <1>6. CpuInv'
    <2>1. initial # <<>> => cpu' = Outside
      <3>1. CASE \E d \in Devices : Access(d) \/ Locate(d)
        BY <3>1 DEF Access, Locate, Accesses, Running, CpuInv
      <3>2. CASE Announce
        BY <3>2, CpuFacts DEF Announce, CpuInv
      <3>3. CASE PostWake
        BY <3>3 DEF PostWake, CpuInv
      <3> QED BY <3>1, <3>2, <3>3
    <2>2. /\ initial' # <<>> => cpu' = Outside
          /\ \A u \in Units : initial' # <<>> => command'[u] = {}
      BY <1>1, <2>1 DEF CpuInv
    <2>3. ASSUME cpu' # Outside, cpu'.device # Manager
          PROVE  mapped'[cpu'.device] # None /\ \E s \in Occupied' : driveData'[s].id = cpu'.device
      <3>1. cpu # Outside /\ cpu'.device = cpu.device
        BY <1>3, <2>3
      <3>2. mapped[cpu.device] # None /\ \E s \in Occupied : driveData[s].id = cpu.device
        BY <2>3, <3>1 DEF CpuInv, HasDrive
      <3> QED BY <1>1, <3>1, <3>2 DEF Occupied
    <2> QED BY <2>2, <2>3 DEF CpuInv, HasDrive
  <1>7. UnitInv'
    <2>1. \A d \in Devices : InHandler(d) => InHandler(d)'
      BY <1>3 DEF InHandler
    <2>2. \A u \in Units : Serving(u)' <=> Serving(u)
      BY <1>1 DEF Serving
    <2>3. Running' <=> Running
      BY <1>1 DEF Running
    <2> QED BY <1>1, <1>2, <2>1, <2>2, <2>3, UnitsKept
  <1> QED BY <1>1, <1>3, <1>4, <1>5, <1>6, <1>7

(* The status register shows the transaction that the handler announced.    *)
LEMMA UpdateRegisterIInv ==
    ASSUME IInv, UpdateRegister
    PROVE  IInv'
  <1> USE DEF IInv, Types
  <1> DEFINE d == cpu.device
  <1>1. /\ cpu # Outside /\ d \in Devices
        /\ registers' = [registers EXCEPT ![RegisterOf(d)] = {"inProgress"}]
        /\ cpu' = Outside
        /\ wakerTodo' = wakerTodo \cup {d}
        /\ UNCHANGED <<files, mapped, readOnly, driveData, command, status, posting, semaphore,
                       thread, initial, causes, accesses>>
    BY CpuFacts DEF UpdateRegister
  <1>2. PICK n \in {Manager} \cup Occupied : DeviceOf(n) = d /\ IsMapped(d)
    BY <1>1, UnitFacts DEF CpuInv, Devices, IsMapped, DeviceOf
  <1>3. RegisterOf(d) \in Registers
    BY <1>2, RegisterFacts
  <1>4. FilesType' /\ RegistryType' /\ DriveType' /\ CommandType' /\ StatusType' /\ HistoryType'
        /\ ThreadType'
    BY <1>1 DEF FilesType, RegistryType, DriveType, CommandType, StatusType, HistoryType,
                ThreadType, Bits
  <1>5. WakeType' /\ CpuType'
    BY <1>1 DEF WakeType, CpuType, Outside
  <1>6. DeviceInv' /\ GeometryInv' /\ ThreadInv'
    BY <1>1, DrivesLeftAlone
  <1>7. CpuInv'
    BY <1>1 DEF CpuInv
  <1>8. UnitInv'
    <2>1. SUFFICES ASSUME NEW u \in {Manager} \cup Occupied, Trusted(u)
                   PROVE  /\ \A c, e \in command[u] : c = e
                          /\ Serving(u) => command[u] = {}
                          /\ Running /\ (command[u] # {} \/ Serving(u)) =>
                                "inProgress" \in registers'[RegisterOf(DeviceOf(u))]
      BY <1>1 DEF UnitInv, Occupied, RegisterOf, DeviceOf, Serving, Running, Trusted, IsMapped
    <2>2. CASE u = n
      BY <1>1, <1>2, <1>3, <2>1, <2>2 DEF UnitInv, RegistryType
    <2>3. CASE u # n
      <3>1. /\ DeviceOf(u) # d /\ RegisterOf(DeviceOf(u)) # RegisterOf(d)
            /\ RegisterOf(DeviceOf(u)) \in Registers
        BY <1>2, <2>1, <2>3, RegisterFacts DEF Trusted
      <3>2. registers'[RegisterOf(DeviceOf(u))] = registers[RegisterOf(DeviceOf(u))]
        BY <1>1, <3>1 DEF RegistryType
      <3>3. ~ InHandler(DeviceOf(u))
        BY <3>1 DEF InHandler
      <3> QED BY <2>1, <3>2, <3>3 DEF UnitInv
    <2> QED BY <2>2, <2>3
  <1> QED BY <1>4, <1>5, <1>6, <1>7, <1>8
-----------------------------------------------------------------------------
(* The manager's thread, in general. *)

(* A step to where the thread works on no drive, but for a completion.      *)
LEMMA ThreadAtRest ==
    ASSUME DriveType, DeviceInv, GeometryInv, UNCHANGED <<mapped, readOnly, driveData>>,
           \A f \in Files, g \in Geometries : IsDriveOf(f, g) => IsDriveOf(f, g)',
           thread.step \notin {"publish", "forget"},
           thread'.step \notin {"request", "publish", "forget", "read", "write"},
           thread'.step \in {"complete", "update"} /\ thread'.unit # Manager =>
                thread'.unit \in Occupied,
           thread'.step = "boot" => initial' # <<>>
    PROVE  DeviceInv' /\ GeometryInv' /\ ThreadInv'
  <1>1. Occupied' = Occupied
    BY DEF Occupied
  <1>2. DeviceInv'
    BY <1>1 DEF DeviceInv, HasDrive
  <1>3. GeometryInv'
    <2>1. SUFFICES ASSUME NEW s \in Occupied
                   PROVE  /\ IsDriveOf(driveData[s].file, driveData[s].geometry)'
                          /\ mapped[driveData[s].id] # None =>
                                readOnly[mapped[driveData[s].id]] = driveData[s].geometry
      BY <1>1 DEF GeometryInv
    <2>2. driveData[s].file \in Files /\ driveData[s].geometry \in Geometries
      BY DriveFacts
    <2>3. IsDriveOf(driveData[s].file, driveData[s].geometry)
      BY DEF GeometryInv
    <2>4. \A f \in Files, g \in Geometries : IsDriveOf(f, g) =>
              files'[f].kind = "drive" /\ files'[f].geometry = g
      BY DEF IsDriveOf
    <2> QED BY <2>2, <2>3, <2>4 DEF GeometryInv, IsDriveOf
  <1>4. ThreadInv'
    BY <1>1 DEF ThreadInv
  <1> QED BY <1>2, <1>3, <1>4

(* During the boot there are no commands.                                   *)
LEMMA BootUnits ==
    ASSUME DriveType, CpuInv, initial # <<>>, UNCHANGED command,
           \A u \in Units : ~ Running' \/ ~ Serving(u)'
    PROVE  UnitInv'
  <1>1. \A u \in {Manager} \cup Occupied' : u \in Units
    BY Parameters DEF Occupied
  <1>2. \A u \in Units : command'[u] = {}
    BY DEF CpuInv
  <1> QED BY <1>1, <1>2 DEF UnitInv

LEMMA FinishFacts ==
    ASSUME ThreadType, NEW r \in {"success", "failure"}, Finish(Manager, r)
    PROVE  /\ ThreadType'
           /\ thread'.step \in {"complete", "waiting", "boot", "dead"}
           /\ thread'.step = "complete" => thread'.unit = Manager
           /\ thread'.step = "boot" => initial' # <<>>
           /\ initial = <<>> => initial' = <<>> /\ thread'.step = "complete"
           /\ initial # <<>> => ~ Running' \/ thread'.step = "waiting"
  <1>1. initial \in Seq(Files)
    BY ThreadFacts
  <1>2. CASE initial = <<>>
    <2>1. thread' = [step |-> "complete", unit |-> Manager, result |-> r] /\ initial' = <<>>
      BY <1>2 DEF Finish
    <2>2. thread' \in Completing
      BY <2>1, Parameters DEF Completing
    <2> QED BY <1>1, <1>2, <2>1, <2>2 DEF ThreadType
  <1>3. CASE initial # <<>>
    <2>1. Len(initial) \in Nat /\ Tail(initial) \in Seq(Files)
          /\ (Len(initial) # 1 => Tail(initial) # <<>>)
      <3>1. /\ Tail(initial) \in Seq(Files) /\ Len(initial) \in Nat
            /\ Len(Tail(initial)) = Len(initial) - 1
        BY <1>1, <1>3, HeadTailProperties
      <3>2. Tail(initial) = <<>> => Len(Tail(initial)) = 0
        BY <3>1, EmptySeq
      <3>3. Len(initial) # 1 => Len(initial) - 1 # 0
        BY <3>1
      <3> QED BY <3>1, <3>2, <3>3, Zenon
    <2>2. /\ initial' = IF r = "success" THEN Tail(initial) ELSE initial
          /\ thread' = IF r = "failure" THEN [step |-> "dead"]
                       ELSE IF Len(initial) = 1 THEN Waiting ELSE [step |-> "boot"]
      BY <1>3 DEF Finish
    <2>3. /\ initial' \in Seq(Files) /\ thread' \in Pausing
          /\ thread'.step \in {"waiting", "boot", "dead"}
          /\ thread'.step = "boot" => initial' # <<>>
      BY <1>1, <2>1, <2>2 DEF Pausing, Waiting
    <2>4. ~ Running' \/ thread'.step = "waiting"
      BY <2>3 DEF Running
    <2> QED BY <1>3, <2>3, <2>4 DEF ThreadType
  <1> QED BY <1>2, <1>3

LEMMA FinishUnits ==
    ASSUME DriveType, ThreadType, ThreadInv, CpuInv, UnitInv,
           NEW r \in {"success", "failure"}, Finish(Manager, r),
           UNCHANGED <<mapped, driveData, registers, command, causes, cpu>>,
           thread.step \in {"insertNew", "insertExisting", "remove", "request", "publish",
                            "forget", "boot"}
    PROVE  UnitInv'
  <1>1. CASE initial = <<>>
    <2>1. thread.step # "boot" /\ Running /\ Serving(Manager)
      BY <1>1 DEF ThreadInv, Running, Serving
    <2>2. \A u \in Units : Serving(u)' => Serving(u)
      BY <1>1, <2>1, FinishFacts DEF Serving
    <2>3. \A d \in Devices : InHandler(d) => InHandler(d)'
      BY DEF InHandler
    <2> QED BY <2>1, <2>2, <2>3, UnitsKept
  <1>2. CASE initial # <<>>
    <2>2. \A u \in Units : ~ Running' \/ ~ Serving(u)'
      BY <1>2, FinishFacts DEF Serving
    <2> QED BY <1>2, <2>2, BootUnits
  <1> QED BY <1>1, <1>2
-----------------------------------------------------------------------------
(* The thread wakes. *)

LEMMA ChosenFacts ==
    ASSUME CommandType, command[Manager] # {}
    PROVE  Chosen \in ManagerCommands /\ Chosen \in command[Manager]
  BY DEF CommandType, ManagerCommands, Chosen

LEMMA WakeIInv ==
    ASSUME IInv, IgnoreWake \/ RefuseName \/ TakeManagerCommand \/ WakeWithoutDrive
    PROVE  IInv'
  <1> USE DEF IInv, Types
  <1>1. /\ thread = Waiting /\ thread.step = "waiting" /\ semaphore' = None
        /\ UNCHANGED <<files, mapped, registers, readOnly, driveData, status, wakerTodo, posting,
                       cpu, initial, accesses>>
    <2>1. thread = Waiting
      BY DEF IgnoreWake, RefuseName, TakeManagerCommand, WakeWithoutDrive
    <2> QED BY <2>1, ThreadFacts
            DEF IgnoreWake, RefuseName, TakeManagerCommand, WakeWithoutDrive, registry
  <1>2. \/ UNCHANGED <<command, thread, causes>>
        \/ /\ command[Manager] # {}
           /\ command' = [command EXCEPT ![Manager] = @ \ {Chosen}]
           /\ \/ thread' = thread /\ causes' = [causes EXCEPT ![Manager] = @ \cup {"badPointer"}]
              \/ thread' = [step |-> Chosen] /\ causes' = causes
    BY DEF IgnoreWake, RefuseName, TakeManagerCommand, WakeWithoutDrive
  <1>3. /\ CommandType'
        /\ \A u \in Units : command'[u] \subseteq command[u]
    BY <1>2, Parameters DEF CommandType
  <1>4. /\ HistoryType'
        /\ \A d \in Devices : "inherited" \in causes[d] => "inherited" \in causes'[d]
    BY <1>1, <1>2 DEF HistoryType, Causes
  <1>5. ThreadType' /\ thread'.step \in {"waiting", "insertNew", "insertExisting", "remove"}
    <2>1. CASE thread' = thread
      BY <1>1, <2>1 DEF ThreadType
    <2>2. CASE thread' = [step |-> Chosen] /\ command[Manager] # {}
      <3>1. thread' \in Pausing /\ thread'.step \in ManagerCommands
        BY <2>2, ChosenFacts DEF Pausing
      <3> QED BY <1>1, <3>1 DEF ThreadType, ManagerCommands
    <2> QED BY <1>2, <2>1, <2>2
  <1>6. FilesType' /\ RegistryType' /\ DriveType' /\ StatusType' /\ WakeType' /\ CpuType'
    BY <1>1, Parameters DEF FilesType, RegistryType, DriveType, StatusType, WakeType, CpuType
  <1>7. DeviceInv' /\ GeometryInv' /\ ThreadInv'
    <2>1. \A f \in Files, g \in Geometries : IsDriveOf(f, g) => IsDriveOf(f, g)'
      BY <1>1 DEF IsDriveOf
    <2> QED BY <1>1, <1>5, <2>1, ThreadAtRest
  <1>8. CpuInv'
    <2>1. \A u \in Units : command[u] = {} => command'[u] = {}
      BY <1>3
    <2> QED BY <1>1, <2>1 DEF CpuInv, HasDrive, Occupied
  <1>9. UnitInv'
    <2>1. \A d \in Devices : InHandler(d) => InHandler(d)'
      BY <1>1 DEF InHandler
    <2>2. Running' => Running
      BY <1>1 DEF Running
    <2>3. \A u \in Units : Trusted(u) /\ Serving(u)' =>
                Serving(u) \/ (command[u] # {} /\ command'[u] = {})
      <3>1. SUFFICES ASSUME Trusted(Manager), Serving(Manager)'
                     PROVE  command[Manager] # {} /\ command'[Manager] = {}
        BY <1>5, Parameters DEF Serving, Units
      <3>2. thread' # thread
        BY <1>1, <3>1 DEF Serving
      <3>3. /\ command[Manager] # {} /\ command'[Manager] = command[Manager] \ {Chosen}
        BY <1>2, <3>2, Parameters DEF CommandType
      <3>4. \A c, e \in command[Manager] : c = e
        BY <3>1 DEF UnitInv
      <3> QED BY <3>3, <3>4, ChosenFacts
    <2> QED BY <1>1, <1>3, <1>4, <2>1, <2>2, <2>3, UnitsKept
  <1> QED BY <1>3, <1>4, <1>5, <1>6, <1>7, <1>8, <1>9
-----------------------------------------------------------------------------
(* Drives are inserted and removed. *)

(* A file is created: no drive and no request uses its name.                *)
LEMMA NewFile ==
    ASSUME FilesType, NEW f \in Files, files[f].kind = "absent",
           NEW file, file \in {Foreign} \cup DriveFiles, files' = [files EXCEPT ![f] = file]
    PROVE  /\ FilesType'
           /\ \A h \in Files, g \in Geometries : IsDriveOf(h, g) => IsDriveOf(h, g)'
  BY DEF FilesType, IsDriveOf

(* The thread gives up, or the boot goes on, without any change of drives.  *)
LEMMA FinishIInv ==
    ASSUME IInv, NEW r \in {"success", "failure"}, Finish(Manager, r), FilesType',
           \A h \in Files, g \in Geometries : IsDriveOf(h, g) => IsDriveOf(h, g)',
           UNCHANGED <<registry, driveData, command, status, waking, cpu, causes, accesses>>,
           thread.step \in {"insertNew", "insertExisting", "remove", "request", "boot"}
    PROVE  IInv'
  <1> USE DEF IInv, Types
  <1>1. UNCHANGED <<mapped, registers, readOnly, driveData, command, status, wakerTodo, posting,
                    semaphore, cpu, causes, accesses>>
    BY DEF registry, waking
  <1>2. /\ ThreadType' /\ (initial' # <<>> => initial # <<>>)
        /\ thread'.step \in {"complete", "waiting", "boot", "dead"}
        /\ thread'.step = "complete" => thread'.unit = Manager
        /\ thread'.step = "boot" => initial' # <<>>
    BY FinishFacts
  <1>3. RegistryType' /\ DriveType' /\ CommandType' /\ StatusType' /\ WakeType' /\ HistoryType'
        /\ CpuType'
    BY <1>1 DEF RegistryType, DriveType, CommandType, StatusType, WakeType, HistoryType, CpuType
  <1>4. DeviceInv' /\ GeometryInv' /\ ThreadInv'
    BY <1>1, <1>2, ThreadAtRest
  <1>5. CpuInv'
    BY <1>1, <1>2 DEF CpuInv, HasDrive, Occupied
  <1>6. UnitInv'
    BY <1>1, FinishUnits
  <1> QED BY <1>2, <1>3, <1>4, <1>5, <1>6

(* The thread goes on to request a device.                                  *)
LEMMA RequestIInv ==
    ASSUME IInv, NEW f \in Files, NEW g \in Geometries, FilesType',
           \A h \in Files, k \in Geometries : IsDriveOf(h, k) => IsDriveOf(h, k)',
           IsDriveOf(f, g)',
           thread' = [step |-> "request", file |-> f, geometry |-> g],
           UNCHANGED <<registry, driveData, command, status, waking, cpu, initial, causes,
                       accesses>>,
           thread.step \in {"insertNew", "insertExisting", "boot"}
    PROVE  IInv'
  <1> USE DEF IInv, Types
  <1>1. UNCHANGED <<mapped, registers, readOnly, driveData, command, status, wakerTodo, posting,
                    semaphore, cpu, causes, accesses>>
    BY DEF registry, waking
  <1>2. ThreadType'
    BY DEF ThreadType, Requesting
  <1>3. RegistryType' /\ DriveType' /\ CommandType' /\ StatusType' /\ WakeType' /\ HistoryType'
        /\ CpuType'
    BY <1>1 DEF RegistryType, DriveType, CommandType, StatusType, WakeType, HistoryType, CpuType
  <1>4. Occupied' = Occupied
    BY <1>1 DEF Occupied
  <1>5. DeviceInv' /\ ThreadInv'
    BY <1>1, <1>4 DEF DeviceInv, HasDrive, ThreadInv
  <1>6. GeometryInv'
    <2>1. SUFFICES ASSUME NEW s \in Occupied
                   PROVE  /\ IsDriveOf(driveData[s].file, driveData[s].geometry)'
                          /\ mapped[driveData[s].id] # None =>
                                readOnly[mapped[driveData[s].id]] = driveData[s].geometry
      BY <1>1, <1>4 DEF GeometryInv, IsDriveOf
    <2>2. driveData[s].file \in Files /\ driveData[s].geometry \in Geometries
      BY DriveFacts
    <2>3. IsDriveOf(driveData[s].file, driveData[s].geometry)
      BY DEF GeometryInv
    <2>4. \A h \in Files, k \in Geometries : IsDriveOf(h, k) =>
              files'[h].kind = "drive" /\ files'[h].geometry = k
      BY DEF IsDriveOf
    <2> QED BY <1>1, <2>2, <2>3, <2>4 DEF GeometryInv, IsDriveOf
  <1>7. CpuInv'
    BY <1>1 DEF CpuInv, HasDrive, Occupied
  <1>8. UnitInv'
    <2>1. CASE thread.step = "boot"
      <3>1. initial # <<>> /\ ~ Running'
        BY <2>1 DEF ThreadInv, Running
      <3> QED BY <3>1, BootUnits
    <2>2. CASE thread.step # "boot"
      <3>1. \A u \in Units : Serving(u)' => Serving(u)
        BY <2>2 DEF Serving
      <3>2. Running' => Running
        BY <2>2 DEF Running
      <3>3. \A d \in Devices : InHandler(d) => InHandler(d)'
        BY <1>1 DEF InHandler
      <3> QED BY <1>1, <3>1, <3>2, <3>3, UnitsKept
    <2> QED BY <2>1, <2>2
  <1> QED BY <1>2, <1>3, <1>5, <1>6, <1>7, <1>8

LEMMA CreateFileIInv ==
    ASSUME IInv, NEW f \in Files, NEW g \in Geometries, CreateFile(f, g)
    PROVE  IInv'
  <1> USE DEF IInv, Types
  <1>1. /\ thread.step = "insertNew"
        /\ UNCHANGED <<registry, driveData, command, status, waking, cpu, causes, accesses>>
    BY DEF CreateFile
  <1>2. CASE /\ MayCreate(f)
             /\ files' = [files EXCEPT ![f] = DriveFile(g, <<>>)]
             /\ thread' = [step |-> "request", file |-> f, geometry |-> g]
             /\ UNCHANGED initial
    <2>1. <<>> \in Contents
      <3>1. <<>> \in [1 .. 0 -> Values] /\ 0 \in 0 .. MaxPieces
        BY Parameters
      <3> QED BY <3>1 DEF Contents
    <2>2. /\ DriveFile(g, <<>>) \in DriveFiles
          /\ DriveFile(g, <<>>).kind = "drive" /\ DriveFile(g, <<>>).geometry = g
      BY <2>1, DriveFileFacts
    <2>3. /\ FilesType'
          /\ \A h \in Files, k \in Geometries : IsDriveOf(h, k) => IsDriveOf(h, k)'
      BY <1>2, <2>2, NewFile DEF MayCreate
    <2>4. IsDriveOf(f, g)'
      BY <1>2, <2>2 DEF IsDriveOf, FilesType
    <2> QED BY <1>1, <1>2, <2>3, <2>4, RequestIInv
  <1>3. CASE /\ MayCreate(f)
             /\ files' \in {files, [files EXCEPT ![f] = Foreign]}
             /\ Finish(Manager, "failure")
    <2>1. /\ FilesType'
          /\ \A h \in Files, k \in Geometries : IsDriveOf(h, k) => IsDriveOf(h, k)'
      <3>1. CASE files' = files
        BY <3>1 DEF FilesType, IsDriveOf
      <3>2. CASE files' = [files EXCEPT ![f] = Foreign]
        BY <1>3, <3>2, NewFile DEF MayCreate
      <3> QED BY <1>3, <3>1, <3>2
    <2> QED BY <1>1, <1>3, <2>1, FinishIInv
  <1>4. CASE Finish(Manager, "failure") /\ UNCHANGED files
    <2>1. /\ FilesType'
          /\ \A h \in Files, k \in Geometries : IsDriveOf(h, k) => IsDriveOf(h, k)'
      BY <1>4 DEF FilesType, IsDriveOf
    <2> QED BY <1>1, <1>4, <2>1, FinishIInv
  <1> QED BY <1>2, <1>3, <1>4 DEF CreateFile

LEMMA OpenFileIInv ==
    ASSUME IInv, NEW f \in Files, OpenFile(f)
    PROVE  IInv'
  <1> USE DEF IInv, Types
  <1>1. /\ thread.step \in {"insertExisting", "boot"}
        /\ UNCHANGED <<files, registry, driveData, command, status, waking, cpu, causes, accesses>>
    BY DEF OpenFile
  <1>2. /\ FilesType'
        /\ \A h \in Files, k \in Geometries : IsDriveOf(h, k) => IsDriveOf(h, k)'
    BY <1>1 DEF FilesType, IsDriveOf
  <1>3. CASE /\ files[f].kind = "drive"
             /\ thread' = [step |-> "request", file |-> f, geometry |-> files[f].geometry]
             /\ UNCHANGED initial
    <2>1. files[f].geometry \in Geometries /\ IsDriveOf(f, files[f].geometry)'
      BY <1>1, <1>3, FileFacts DEF IsDriveOf
    <2> QED BY <1>1, <1>2, <1>3, <2>1, RequestIInv
  <1>4. CASE Finish(Manager, "failure")
    BY <1>1, <1>2, <1>4, FinishIInv
  <1> QED BY <1>3, <1>4 DEF OpenFile

LEMMA RequestFailsIInv ==
    ASSUME IInv, RequestFails
    PROVE  IInv'
  <1>1. /\ FilesType'
        /\ \A h \in Files, k \in Geometries : IsDriveOf(h, k) => IsDriveOf(h, k)'
    BY DEF RequestFails, IInv, Types, FilesType, IsDriveOf
  <1> QED BY <1>1, FinishIInv DEF RequestFails

(* The request finds an id and a patch that no drive has.                   *)
LEMMA RequestDeviceIInv ==
    ASSUME IInv, NEW p \in Patches, RequestDevice(p)
    PROVE  IInv'
  <1> USE DEF IInv, Types
  <1>1. PICK d \in FreeIds :
            /\ mapped' = [mapped EXCEPT ![d] = p]
            /\ thread' = [step |-> "publish", file |-> thread.file,
                          geometry |-> thread.geometry, id |-> d]
    BY DEF RequestDevice
  <1>2. /\ thread.step = "request" /\ cpu = Outside /\ p \in FreePatches
        /\ readOnly' = [readOnly EXCEPT ![p] = thread.geometry]
        /\ UNCHANGED <<files, registers, driveData, command, status, wakerTodo, posting, semaphore,
                       cpu, initial, causes, accesses>>
    BY DEF RequestDevice, RegistryFree, waking
  <1>3. d \in Ids /\ mapped[d] = None /\ p \in Patches /\ p # None
        /\ \A e \in Ids : mapped[e] # p
    BY <1>2, Parameters DEF FreeIds, FreePatches
  <1>4. thread.file \in Files /\ thread.geometry \in Geometries
    BY <1>2, ThreadFacts
  <1>5. /\ thread'.step = "publish" /\ thread'.id = d /\ thread'.file = thread.file
        /\ thread'.geometry = thread.geometry
    BY <1>1
  <1>6. ThreadType'
    <2>1. thread' \in Publishing /\ initial' \in Seq(Files)
      BY <1>1, <1>2, <1>3, <1>4, ThreadFacts DEF Publishing
    <2> QED BY <2>1 DEF ThreadType
  <1>7. RegistryType'
    BY <1>1, <1>2, <1>3, <1>4 DEF RegistryType
  <1>8. FilesType' /\ DriveType' /\ CommandType' /\ StatusType' /\ WakeType' /\ HistoryType'
        /\ CpuType'
    BY <1>2 DEF FilesType, DriveType, CommandType, StatusType, WakeType, HistoryType, CpuType
  <1>9. Occupied' = Occupied
    BY <1>2 DEF Occupied
  <1>10. \A s \in Occupied :
            /\ driveData[s].id \in Ids /\ driveData[s].id # d /\ mapped[driveData[s].id] # None
            /\ mapped'[driveData[s].id] = mapped[driveData[s].id]
            /\ mapped[driveData[s].id] \in Patches /\ mapped[driveData[s].id] # p
    BY <1>1, <1>2, <1>3, DriveFacts DEF DeviceInv, RegistryType
  <1>11. DeviceInv'
    <2>1. /\ \A s, t \in Occupied : driveData[s].id = driveData[t].id => s = t
          /\ \A s \in Occupied : mapped'[driveData[s].id] # None
      BY <1>10 DEF DeviceInv
    <2>2. \A a, b \in Ids : mapped'[a] # None /\ mapped'[b] = mapped'[a] => b = a
      BY <1>1, <1>3 DEF DeviceInv, RegistryType
    <2>3. \A a \in Ids : mapped'[a] # None =>
              a = d \/ \E s \in Occupied : driveData[s].id = a
      BY <1>1, <1>2, <1>3 DEF DeviceInv, RegistryType, HasDrive
    <2> QED BY <1>2, <1>5, <1>9, <2>1, <2>2, <2>3 DEF DeviceInv, HasDrive
  <1>12. GeometryInv'
    <2>1. \A s \in Occupied : readOnly'[mapped'[driveData[s].id]] = driveData[s].geometry
      BY <1>2, <1>10 DEF GeometryInv, RegistryType
    <2> QED BY <1>2, <1>5, <1>9, <2>1 DEF GeometryInv, IsDriveOf
  <1>13. ThreadInv'
    <2>1. mapped'[d] = p /\ readOnly'[p] = thread.geometry
      BY <1>1, <1>2, <1>3 DEF RegistryType
    <2>2. ~ \E s \in Occupied' : driveData'[s].id = d
      BY <1>2, <1>9, <1>10
    <2> QED BY <1>3, <1>5, <2>1, <2>2 DEF ThreadInv, HasDrive
  <1>14. CpuInv'
    BY <1>2 DEF CpuInv
  <1>15. UnitInv'
    <2>1. \A u \in Units : Serving(u)' => Serving(u)
      BY <1>2, <1>5 DEF Serving
    <2>2. Running' => Running
      BY <1>2 DEF Running
    <2>3. \A a \in Devices : InHandler(a) => InHandler(a)'
      BY <1>2 DEF InHandler
    <2> QED BY <1>2, <1>10, <2>1, <2>2, <2>3, UnitsKept
  <1> QED BY <1>6, <1>7, <1>8, <1>11, <1>12, <1>13, <1>14, <1>15

(* The new drive takes a slot; it is trusted if it inherits nothing.        *)
LEMMA PublishIInv ==
    ASSUME IInv, Publish
    PROVE  IInv'
  <1> USE DEF IInv, Types
  <1> DEFINE d == thread.id
             drive == [file |-> thread.file, geometry |-> thread.geometry, id |-> d]
  <1>1. PICK slot \in FreeSlots :
            /\ driveData' = [driveData EXCEPT ![slot] = drive]
            /\ causes' = [causes EXCEPT ![d] =
                  IF command[slot] = {} /\ registers[mapped[d]] = {} THEN {} ELSE {"inherited"}]
    BY DEF Publish
  <1>2. /\ thread.step = "publish" /\ Finish(Manager, "success")
        /\ UNCHANGED <<files, mapped, registers, readOnly, command, status, wakerTodo, posting,
                       semaphore, cpu, accesses>>
    BY DEF Publish, registry, waking
  <1>3. /\ thread.file \in Files /\ thread.geometry \in Geometries /\ d \in Ids
        /\ d # Manager /\ slot \in Slots /\ slot \notin Occupied /\ slot # Manager
        /\ drive \in DriveRecords /\ drive # None
        /\ drive.file = thread.file /\ drive.geometry = thread.geometry /\ drive.id = d
    BY <1>2, ThreadFacts, Parameters DEF FreeSlots, DriveRecords
  <1> HIDE DEF drive
  <1>4. /\ mapped[d] # None /\ readOnly[mapped[d]] = thread.geometry
        /\ \A s \in Occupied : driveData[s].id # d
        /\ IsDriveOf(thread.file, thread.geometry)
    BY <1>2 DEF ThreadInv, GeometryInv, HasDrive
  <1>5. /\ Occupied' = Occupied \cup {slot} /\ driveData'[slot] = drive
        /\ \A s \in Occupied : driveData'[s] = driveData[s] /\ s # slot
    BY <1>1, <1>3 DEF Occupied, DriveType
  <1>6. /\ ThreadType' /\ (initial' # <<>> => initial # <<>>)
        /\ thread'.step \in {"complete", "waiting", "boot", "dead"}
        /\ thread'.step = "complete" => thread'.unit = Manager
        /\ thread'.step = "boot" => initial' # <<>>
    BY <1>2, FinishFacts
  <1>7. FilesType' /\ RegistryType' /\ CommandType' /\ StatusType' /\ WakeType' /\ CpuType'
    BY <1>2 DEF FilesType, RegistryType, CommandType, StatusType, WakeType, CpuType
  <1>8. DriveType' /\ HistoryType'
    BY <1>1, <1>2, <1>3 DEF DriveType, HistoryType, Causes
  <1>9. DeviceInv'
    <2>1. \A s, t \in Occupied' : driveData'[s].id = driveData'[t].id => s = t
      BY <1>3, <1>4, <1>5 DEF DeviceInv
    <2>2. \A s \in Occupied' : mapped[driveData'[s].id] # None
      BY <1>2, <1>3, <1>4, <1>5 DEF DeviceInv
    <2>3. \A a \in Ids : mapped[a] # None => \E s \in Occupied' : driveData'[s].id = a
      BY <1>2, <1>3, <1>5 DEF DeviceInv, HasDrive
    <2> QED BY <1>2, <2>1, <2>2, <2>3 DEF DeviceInv, HasDrive
  <1>10. GeometryInv'
    <2>1. \A s \in Occupied' :
              /\ IsDriveOf(driveData'[s].file, driveData'[s].geometry)
              /\ mapped[driveData'[s].id] # None =>
                    readOnly[mapped[driveData'[s].id]] = driveData'[s].geometry
      BY <1>3, <1>4, <1>5 DEF GeometryInv
    <2> QED BY <1>2, <1>6, <2>1 DEF GeometryInv, IsDriveOf
  <1>11. ThreadInv'
    BY <1>6 DEF ThreadInv
  <1>12. CpuInv'
    <2>1. HasDrive(cpu.device) => \E s \in Occupied' : driveData'[s].id = cpu.device
      BY <1>5 DEF HasDrive
    <2> QED BY <1>2, <1>6, <2>1 DEF CpuInv, HasDrive
  <1>13. UnitInv'
    <2>1. CASE initial # <<>>
      <3>2. \A u \in Units : ~ Running' \/ ~ Serving(u)'
        BY <1>2, <2>1, FinishFacts DEF Serving
      <3> QED BY <1>2, <2>1, <3>2, BootUnits
    <2>2. CASE initial = <<>>
      <3>1. Running /\ Serving(Manager) /\ \A u \in Units : Serving(u)' => u = Manager
        BY <1>2, <1>6, <2>2 DEF Running, Serving
      <3>2. ASSUME NEW u \in {Manager} \cup Occupied, Trusted(u)'
            PROVE  /\ \A c, e \in command[u] : c = e
                   /\ Serving(u)' => command[u] = {}
                   /\ (command[u] # {} \/ Serving(u)') /\ ~ InHandler(DeviceOf(u)) =>
                          "inProgress" \in registers[RegisterOf(DeviceOf(u))]
                   /\ DeviceOf(u)' = DeviceOf(u)
        <4>1. u \in Units /\ DeviceOf(u) \in Devices /\ DeviceOf(u) # d /\ DeviceOf(u)' = DeviceOf(u)
          BY <1>3, <1>4, <1>5, DriveFacts, Parameters DEF DeviceOf
        <4>2. Trusted(u)
          BY <1>1, <1>2, <3>2, <4>1 DEF Trusted, IsMapped, HistoryType
        <4> QED BY <3>1, <4>1, <4>2 DEF UnitInv
      <3>3. Trusted(slot)' => command[slot] = {} /\ ~ Serving(slot)'
        <4>1. DeviceOf(slot)' = d
          BY <1>3, <1>5 DEF DeviceOf
        <4>2. Trusted(slot)' => "inherited" \notin causes'[d]
          BY <4>1 DEF Trusted
        <4>3. "inherited" \notin causes'[d] => command[slot] = {}
          BY <1>1, <1>3, Parameters DEF HistoryType
        <4>4. ~ Serving(slot)'
          BY <1>3, <3>1, Parameters
        <4> QED BY <4>2, <4>3, <4>4
      <3>4. \A a \in Devices : InHandler(a)' <=> InHandler(a)
        BY <1>2 DEF InHandler
      <3>5. SUFFICES ASSUME NEW u \in {Manager} \cup Occupied', Trusted(u)'
                     PROVE  /\ \A c, e \in command[u] : c = e
                            /\ Serving(u)' => command[u] = {}
                            /\ (command[u] # {} \/ Serving(u)') /\ ~ InHandler(DeviceOf(u))' =>
                                   "inProgress" \in registers[RegisterOf(DeviceOf(u))']
        BY <1>2 DEF UnitInv
      <3>6. CASE u = slot
        BY <3>3, <3>5, <3>6
      <3>7. CASE u # slot
        <4>1. u \in {Manager} \cup Occupied
          BY <1>5, <3>7
        <4>2. InHandler(DeviceOf(u))' <=> InHandler(DeviceOf(u))
          BY <1>2, <3>2, <3>5, <4>1 DEF InHandler
        <4>3. RegisterOf(DeviceOf(u))' = RegisterOf(DeviceOf(u))
          BY <1>2, <3>2, <3>5, <4>1 DEF RegisterOf
        <4> QED BY <3>2, <3>5, <4>1, <4>2, <4>3
      <3> QED BY <3>6, <3>7
    <2> QED BY <2>1, <2>2
  <1> QED BY <1>6, <1>7, <1>8, <1>9, <1>10, <1>11, <1>12, <1>13

(* A removal first takes the device away, and its drive later.              *)
LEMMA RemoveDeviceIInv ==
    ASSUME IInv, NEW d \in Devices, RemoveDevice(d)
    PROVE  IInv'
  <1> USE DEF IInv, Types
  <1>1. /\ thread.step = "remove"
        /\ UNCHANGED <<files, registers, readOnly, driveData, command, status, wakerTodo, posting,
                       semaphore, cpu, causes, accesses>>
    BY DEF RemoveDevice, waking
  <1>2. CASE Finish(Manager, "failure") /\ UNCHANGED mapped
    <2>1. /\ FilesType'
          /\ \A h \in Files, k \in Geometries : IsDriveOf(h, k) => IsDriveOf(h, k)'
      BY <1>1 DEF FilesType, IsDriveOf
    <2> QED BY <1>1, <1>2, <2>1, FinishIInv DEF registry, waking
  <1>3. CASE /\ SlotOf(d) # {} /\ RegistryFree
             /\ mapped' = [mapped EXCEPT ![d] = None]
             /\ thread' = [step |-> "forget", unit |-> UnitOf(d)] /\ UNCHANGED initial
    <2>1. d \in Ids
      BY <1>3, DriveFacts DEF SlotOf
    <2> DEFINE n == UnitOf(d)
    <2>2. /\ n \in Occupied /\ n \in Slots /\ driveData[n].id = d
          /\ thread'.step = "forget" /\ thread'.unit = n
      BY <1>3, <2>1, UnitFacts, DriveFacts
    <2> HIDE DEF n
    <2>3. ThreadType'
      <3>1. thread' \in Forgetting /\ initial' \in Seq(Files)
        BY <1>3, <2>2, ThreadFacts DEF Forgetting, n
      <3> QED BY <3>1 DEF ThreadType
    <2>4. RegistryType'
      BY <1>1, <1>3 DEF RegistryType
    <2>5. FilesType' /\ DriveType' /\ CommandType' /\ StatusType' /\ WakeType' /\ HistoryType'
          /\ CpuType'
      BY <1>1 DEF FilesType, DriveType, CommandType, StatusType, WakeType, HistoryType, CpuType
    <2>6. Occupied' = Occupied
      BY <1>1 DEF Occupied
    <2>7. /\ mapped'[d] = None
          /\ \A a \in Ids : a # d => mapped'[a] = mapped[a]
      BY <1>3, <2>1 DEF RegistryType
    <2>8. \A s \in Occupied : /\ driveData[s].id \in Ids
                              /\ s # n => driveData[s].id # d
      BY <2>2, DriveFacts DEF DeviceInv
    <2>9. DeviceInv'
      <3>1. \A s, t \in Occupied : driveData[s].id = driveData[t].id => s = t
        BY DEF DeviceInv
      <3>2. \A s \in Occupied : mapped'[driveData[s].id] # None \/ s = n
        BY <1>1, <2>7, <2>8 DEF DeviceInv
      <3>3. \A a, b \in Ids : mapped'[a] # None /\ mapped'[b] = mapped'[a] => b = a
        BY <2>7 DEF DeviceInv
      <3>4. \A a \in Ids : mapped'[a] # None => \E s \in Occupied : driveData[s].id = a
        BY <1>1, <2>7 DEF DeviceInv, HasDrive
      <3> QED BY <1>1, <2>2, <2>6, <3>1, <3>2, <3>3, <3>4 DEF DeviceInv, HasDrive
    <2>10. GeometryInv'
      <3>1. \A s \in Occupied : mapped'[driveData[s].id] # None =>
                readOnly[mapped'[driveData[s].id]] = driveData[s].geometry
        BY <2>7, <2>8 DEF GeometryInv
      <3> QED BY <1>1, <2>2, <2>6, <3>1 DEF GeometryInv, IsDriveOf
    <2>11. ThreadInv'
      BY <1>1, <2>2, <2>6, <2>7 DEF ThreadInv
    <2>12. CpuInv'
      BY <1>1, <1>3 DEF CpuInv, RegistryFree
    <2>13. UnitInv'
      <3>1. \A u \in Units : Serving(u)' => Serving(u)
        BY <1>1, <2>2 DEF Serving
      <3>2. Running' => Running
        BY <1>1, <1>3 DEF Running
      <3>3. \A a \in Devices : InHandler(a) => InHandler(a)'
        BY <1>1 DEF InHandler
      <3>4. \A s \in Occupied : mapped'[driveData[s].id] \in {mapped[driveData[s].id], None}
        BY <2>7, <2>8
      <3> QED BY <1>1, <3>1, <3>2, <3>3, <3>4, UnitsKept
    <2> QED BY <2>3, <2>4, <2>5, <2>9, <2>10, <2>11, <2>12, <2>13
  <1> QED BY <1>2, <1>3 DEF RemoveDevice

LEMMA ForgetIInv ==
    ASSUME IInv, Forget
    PROVE  IInv'
  <1> USE DEF IInv, Types
  <1> DEFINE n == thread.unit
  <1>1. /\ thread.step = "forget" /\ n \in Occupied /\ n \in Slots
        /\ mapped[driveData[n].id] = None
        /\ driveData' = [driveData EXCEPT ![n] = None] /\ Finish(Manager, "success")
        /\ UNCHANGED <<files, mapped, registers, readOnly, command, status, wakerTodo, posting,
                       semaphore, cpu, causes, accesses>>
    BY ThreadFacts DEF Forget, ThreadInv, registry, waking
  <1> HIDE DEF n
  <1>2. /\ Occupied' = Occupied \ {n}
        /\ \A s \in Occupied' : driveData'[s] = driveData[s]
    BY <1>1 DEF Occupied, DriveType
  <1>3. /\ ThreadType' /\ (initial' # <<>> => initial # <<>>)
        /\ thread'.step \in {"complete", "waiting", "boot", "dead"}
        /\ thread'.step = "complete" => thread'.unit = Manager
        /\ thread'.step = "boot" => initial' # <<>>
    BY <1>1, FinishFacts
  <1>4. FilesType' /\ RegistryType' /\ CommandType' /\ StatusType' /\ WakeType' /\ HistoryType'
        /\ CpuType'
    BY <1>1 DEF FilesType, RegistryType, CommandType, StatusType, WakeType, HistoryType, CpuType
  <1>5. DriveType'
    BY <1>1 DEF DriveType
  <1>6. \A a \in Ids : mapped[a] # None /\ HasDrive(a) =>
            \E s \in Occupied' : driveData'[s].id = a
    BY <1>1, <1>2 DEF HasDrive
  <1>7. DeviceInv'
    <2>1. \A s, t \in Occupied' : driveData'[s].id = driveData'[t].id => s = t
      BY <1>2 DEF DeviceInv
    <2>2. \A s \in Occupied' : mapped[driveData'[s].id] # None
      BY <1>1, <1>2 DEF DeviceInv, n
    <2>3. \A a \in Ids : mapped[a] # None => \E s \in Occupied' : driveData'[s].id = a
      BY <1>1, <1>6 DEF DeviceInv
    <2> QED BY <1>1, <2>1, <2>2, <2>3 DEF DeviceInv, HasDrive
  <1>8. GeometryInv'
    <2>1. \A s \in Occupied' :
              /\ IsDriveOf(driveData'[s].file, driveData'[s].geometry)
              /\ mapped[driveData'[s].id] # None =>
                    readOnly[mapped[driveData'[s].id]] = driveData'[s].geometry
      BY <1>2 DEF GeometryInv
    <2> QED BY <1>1, <1>3, <2>1 DEF GeometryInv, IsDriveOf
  <1>9. ThreadInv'
    BY <1>3 DEF ThreadInv
  <1>10. CpuInv'
    <2>1. cpu # Outside /\ cpu.device # Manager =>
              mapped[cpu.device] # None /\ \E s \in Occupied' : driveData'[s].id = cpu.device
      BY <1>6, CpuFacts DEF CpuInv, Devices
    <2> QED BY <1>1, <1>3, <2>1 DEF CpuInv, HasDrive
  <1>11. UnitInv'
    <2>1. CASE initial # <<>>
      <3>1. \A u \in Units : ~ Running' \/ ~ Serving(u)'
        BY <1>1, <2>1, FinishFacts DEF Serving
      <3> QED BY <1>1, <2>1, <3>1, BootUnits
    <2>2. CASE initial = <<>>
      <3>1. Running /\ Serving(Manager) /\ \A u \in Units : Serving(u)' => u = Manager
        BY <1>1, <1>3, <2>2 DEF Running, Serving
      <3>2. SUFFICES ASSUME NEW u \in {Manager} \cup Occupied', Trusted(u)'
                     PROVE  /\ \A c, e \in command[u] : c = e
                            /\ Serving(u)' => command[u] = {}
                            /\ (command[u] # {} \/ Serving(u)') /\ ~ InHandler(DeviceOf(u))' =>
                                   "inProgress" \in registers[RegisterOf(DeviceOf(u))']
        BY <1>1 DEF UnitInv
      <3>3. u \in {Manager} \cup Occupied /\ u \in Units
        BY <1>2, Parameters DEF Occupied
      <3>4. DeviceOf(u)' = DeviceOf(u)
        BY <1>2 DEF DeviceOf
      <3>5. /\ Trusted(u) /\ (InHandler(DeviceOf(u))' <=> InHandler(DeviceOf(u)))
            /\ RegisterOf(DeviceOf(u))' = RegisterOf(DeviceOf(u))
        BY <1>1, <3>2, <3>4 DEF Trusted, IsMapped, InHandler, RegisterOf
      <3> QED BY <3>1, <3>3, <3>5 DEF UnitInv
    <2> QED BY <2>1, <2>2
  <1> QED BY <1>3, <1>4, <1>5, <1>7, <1>8, <1>9, <1>10, <1>11
-----------------------------------------------------------------------------
(* Transfers. *)

LEMMA SectorInFile ==
    ASSUME NEW g \in Geometries, NEW sector \in Nat, sector < g.sectors
    PROVE  sector * g.pieces \in Nat /\ sector * g.pieces + g.pieces <= MaxPieces
  <1> DEFINE p == g.pieces
             n == g.sectors
  <1>1. p \in Nat /\ n \in Nat /\ p * n <= MaxPieces /\ MaxPieces \in Nat /\ sector + 1 <= n
    BY GeometryFacts, Parameters
  <1> HIDE DEF p, n
  <1>2. PICK k \in Nat : n = (sector + 1) + k
    <2>1. n - (sector + 1) \in Nat /\ n = (sector + 1) + (n - (sector + 1))
      BY <1>1
    <2> QED BY <2>1
  <1>3. p * n = (sector * p + p) + k * p
    BY <1>1, <1>2
  <1>4. k * p \in Nat /\ sector * p \in Nat
    BY <1>1
  <1>5. sector * p + p <= p * n
    BY <1>1, <1>3, <1>4
  <1> QED BY <1>1, <1>4, <1>5 DEF p

(* A step of a transfer leaves the drives where they are.                   *)
LEMMA TransferIInv ==
    ASSUME IInv, ThreadType', FilesType', CommandType',
           \A h \in Files, k \in Geometries : IsDriveOf(h, k) => IsDriveOf(h, k)',
           UNCHANGED <<mapped, registers, readOnly, driveData, wakerTodo, posting, cpu, initial,
                       accesses>>,
           semaphore' \in Devices \cup {None},
           StatusType', HistoryType',
           \A d \in Devices : "inherited" \in causes[d] => "inherited" \in causes'[d],
           thread.step \in {"waiting", "read", "write", "complete"},
           thread'.step \in {"read", "write", "complete", "update"},
           thread'.unit # Manager => thread'.unit \in Occupied,
           thread'.step \in {"read", "write"} =>
               /\ thread'.first + thread'.pieces <= MaxPieces /\ thread'.done <= thread'.pieces
               /\ IsDriveOf(thread'.file, driveData[thread'.unit].geometry),
           \A u \in Units :
              /\ command'[u] \subseteq command[u]
              /\ Trusted(u) /\ Serving(u)' =>
                    Serving(u) \/ (command[u] # {} /\ command'[u] = {})
    PROVE  IInv'
  <1> USE DEF IInv, Types
  <1>1. RegistryType' /\ DriveType' /\ WakeType' /\ CpuType'
    BY DEF RegistryType, DriveType, WakeType, CpuType
  <1>2. Occupied' = Occupied
    BY DEF Occupied
  <1>3. DeviceInv'
    BY <1>2 DEF DeviceInv, HasDrive
  <1>4. \A h \in Files, k \in Geometries : IsDriveOf(h, k) =>
            files'[h].kind = "drive" /\ files'[h].geometry = k
    BY DEF IsDriveOf
  <1>5. GeometryInv'
    <2>1. SUFFICES ASSUME NEW s \in Occupied
                   PROVE  /\ IsDriveOf(driveData[s].file, driveData[s].geometry)'
                          /\ mapped[driveData[s].id] # None =>
                                readOnly[mapped[driveData[s].id]] = driveData[s].geometry
      BY <1>2 DEF GeometryInv
    <2>2. driveData[s].file \in Files /\ driveData[s].geometry \in Geometries
      BY DriveFacts
    <2>3. IsDriveOf(driveData[s].file, driveData[s].geometry)
      BY DEF GeometryInv
    <2> QED BY <1>4, <2>2, <2>3 DEF GeometryInv, IsDriveOf
  <1>6. ThreadInv'
    <2>1. ASSUME thread'.step \in {"read", "write"}
          PROVE  /\ files'[thread'.file].kind = "drive"
                 /\ files'[thread'.file].geometry = driveData[thread'.unit].geometry
      <3>1. PICK f \in Files : f = thread'.file
        BY <2>1 DEF ThreadType, Pausing, Requesting, Publishing, Forgetting, Transferring,
                    Completing, Updating, ManagerCommands
      <3>2. PICK n \in Occupied : n = thread'.unit
        <4>1. thread'.unit \in Slots
          BY <2>1 DEF ThreadType, Pausing, Requesting, Publishing, Forgetting, Transferring,
                      Completing, Updating, ManagerCommands
        <4> QED BY <4>1, Parameters
      <3>3. IsDriveOf(f, driveData[n].geometry)
        BY <2>1, <3>1, <3>2
      <3>4. driveData[n].geometry \in Geometries
        BY DriveFacts
      <3> QED BY <1>4, <3>1, <3>2, <3>3, <3>4
    <2> QED BY <1>2, <2>1 DEF ThreadInv, IsDriveOf
  <1>7. CpuInv'
    <2>1. \A u \in Units : command[u] = {} => command'[u] = {}
      OBVIOUS
    <2> QED BY <2>1 DEF CpuInv, HasDrive, Occupied
  <1>8. UnitInv'
    <2>1. \A d \in Devices : InHandler(d) => InHandler(d)'
      BY DEF InHandler
    <2>2. Running' => Running
      BY DEF Running
    <2> QED BY <2>1, <2>2, UnitsKept
  <1> QED BY <1>1, <1>3, <1>5, <1>6, <1>7, <1>8

LEMMA TakeDriveCommandIInv ==
    ASSUME IInv, NEW sector \in 0 .. MaxPieces, NEW address \in 0 .. MemorySize,
           TakeDriveCommand(sector, address)
    PROVE  IInv'
  <1> USE DEF IInv, Types
  <1> DEFINE n == UnitOf(semaphore)
             g == readOnly[mapped[semaphore]]
             taken == IF "read" \in command[n] THEN "read" ELSE "write"
  <1>1. /\ thread = Waiting /\ thread.step = "waiting" /\ semaphore \in Ids
        /\ command' = [command EXCEPT ![n] = @ \ {taken}] /\ command[n] # {}
        /\ n # None /\ semaphore' = None
        /\ thread' = IF ~ IsSector(sector, g)
                     THEN [step |-> "complete", unit |-> n, result |-> "failure"]
                     ELSE [step |-> taken, unit |-> n, file |-> driveData[n].file,
                           first |-> sector * g.pieces, pieces |-> g.pieces,
                           address |-> address, done |-> 0, copied |-> None]
        /\ UNCHANGED <<files, mapped, registers, readOnly, driveData, status, wakerTodo, posting,
                       cpu, initial, causes, accesses>>
    BY ThreadFacts DEF TakeDriveCommand, registry
  <1>2. /\ n \in Occupied /\ n \in Slots /\ n \in Units /\ n # Manager
        /\ driveData[n].id = semaphore /\ driveData[n].file \in Files
        /\ mapped[semaphore] # None /\ g = driveData[n].geometry /\ g \in Geometries
        /\ IsDriveOf(driveData[n].file, g)
    <2>1. n \in Occupied /\ driveData[n].id = semaphore
      BY <1>1, UnitFacts
    <2>2. mapped[semaphore] # None
      BY <1>1, <2>1 DEF DeviceInv
    <2> QED BY <2>1, <2>2, DriveFacts, Parameters DEF GeometryInv
  <1> HIDE DEF n, g
  <1>3. taken \in DriveCommands /\ taken \in command[n]
    BY <1>1, <1>2 DEF CommandType, DriveCommands
  <1> HIDE DEF taken
  <1>4. CommandType' /\ \A u \in Units : command'[u] \subseteq command[u]
    BY <1>1, <1>2, Parameters DEF CommandType
  <1>5. ASSUME IsSector(sector, g)
        PROVE  /\ thread' \in Transferring /\ thread'.unit = n
               /\ thread'.first + thread'.pieces <= MaxPieces /\ thread'.done <= thread'.pieces
               /\ IsDriveOf(thread'.file, driveData[thread'.unit].geometry)
    <2>1. /\ sector * g.pieces \in Nat /\ sector * g.pieces + g.pieces <= MaxPieces
          /\ g.pieces \in Nat \ {0}
      BY <1>2, <1>5, SectorInFile, GeometryFacts, Parameters DEF IsSector
    <2>2. thread' = [step |-> taken, unit |-> n, file |-> driveData[n].file,
                     first |-> sector * g.pieces, pieces |-> g.pieces,
                     address |-> address, done |-> 0, copied |-> None]
      BY <1>1, <1>5
    <2>3. PICK first \in Nat : first = sector * g.pieces
      BY <2>1
    <2>4. thread' \in Transferring
      BY <1>2, <1>3, <2>1, <2>2, <2>3 DEF Transferring
    <2> QED BY <1>2, <2>1, <2>2, <2>3, <2>4
  <1>6. ASSUME ~ IsSector(sector, g)
        PROVE  thread' \in Completing /\ thread'.unit = n
    BY <1>1, <1>2, <1>6 DEF Completing
  <1>7. /\ ThreadType' /\ thread'.unit = n
        /\ thread'.step \in {"read", "write", "complete"}
        /\ thread'.step \in {"read", "write"} =>
               /\ thread'.first + thread'.pieces <= MaxPieces /\ thread'.done <= thread'.pieces
               /\ IsDriveOf(thread'.file, driveData[thread'.unit].geometry)
    <2>1. CASE IsSector(sector, g)
      <3>1. thread'.step \in {"read", "write"} /\ ThreadType'
        BY <1>1, <1>5, <2>1, ThreadFacts DEF Transferring, DriveCommands, ThreadType
      <3> QED BY <1>5, <2>1, <3>1
    <2>2. CASE ~ IsSector(sector, g)
      <3>1. thread'.step = "complete" /\ ThreadType'
        BY <1>1, <1>6, <2>2, ThreadFacts DEF Completing, ThreadType
      <3> QED BY <1>6, <2>2, <3>1
    <2> QED BY <2>1, <2>2
  <1>8. \A u \in Units : Trusted(u) /\ Serving(u)' =>
            Serving(u) \/ (command[u] # {} /\ command'[u] = {})
    <2>1. SUFFICES ASSUME Trusted(n) PROVE command'[n] = {}
      BY <1>1, <1>2, <1>7, Parameters DEF Serving, Units
    <2>2. \A c, e \in command[n] : c = e
      BY <1>2, <2>1 DEF UnitInv
    <2> QED BY <1>1, <1>2, <1>3, <2>2 DEF CommandType
  <1>9. FilesType' /\ StatusType' /\ HistoryType'
        /\ \A h \in Files, k \in Geometries : IsDriveOf(h, k) => IsDriveOf(h, k)'
    BY <1>1 DEF FilesType, StatusType, HistoryType, IsDriveOf
  <1> QED BY <1>1, <1>2, <1>4, <1>7, <1>8, <1>9, TransferIInv

(* A piece more has been copied.                                            *)
LEMMA CopiedFacts ==
    ASSUME ThreadType, ThreadInv, Copying, NEW v \in Values, Copied(v), UNCHANGED initial
    PROVE  /\ thread \in Transferring /\ thread' \in Transferring /\ ThreadType'
           /\ thread'.step = thread.step /\ thread'.unit = thread.unit
           /\ thread'.file = thread.file
           /\ thread'.first = thread.first /\ thread'.pieces = thread.pieces
           /\ thread'.address = thread.address
           /\ thread'.done = thread.done + 1 /\ thread'.done <= thread'.pieces
           /\ thread'.copied = [place |-> thread.address + thread.done, value |-> v]
           /\ Position \in 0 .. MaxPieces - 1
  <1>1. thread.step \in {"read", "write"} /\ thread \in Transferring
    BY ThreadFacts DEF Copying
  <1>2. /\ thread.done \in Nat /\ thread.pieces \in Nat /\ thread.done < thread.pieces
        /\ thread.first \in Nat /\ thread.address \in Nat
        /\ thread.first + thread.pieces <= MaxPieces
    BY <1>1, Parameters DEF Transferring, Copying, ThreadInv
  <1>3. PICK done \in Nat : done = thread.done + 1
    BY <1>2
  <1>4. PICK place \in Nat : place = thread.address + thread.done
    BY <1>2
  <1>5. thread' = [thread EXCEPT !.done = done, !.copied = [place |-> place, value |-> v]]
    BY <1>3, <1>4 DEF Copied
  <1>6. [place |-> place, value |-> v] \in {None} \cup [place : Nat, value : Values]
    OBVIOUS
  <1>7. thread' \in Transferring
    BY <1>1, <1>3, <1>5, <1>6 DEF Transferring
  <1>8. /\ thread'.step = thread.step /\ thread'.unit = thread.unit
        /\ thread'.file = thread.file
        /\ thread'.first = thread.first /\ thread'.pieces = thread.pieces
        /\ thread'.address = thread.address /\ thread'.done = done
        /\ thread'.copied = [place |-> place, value |-> v]
    BY <1>1, <1>5 DEF Transferring
  <1>9. ThreadType'
    BY <1>7, ThreadFacts DEF ThreadType
  <1>10. done <= thread.pieces /\ Position \in 0 .. MaxPieces - 1
    BY <1>2, <1>3, Parameters DEF Position
  <1> QED BY <1>1, <1>3, <1>4, <1>7, <1>8, <1>9, <1>10

LEMMA CopiedIInv ==
    ASSUME IInv, Copying, NEW v \in Values, Copied(v), FilesType',
           \A h \in Files, k \in Geometries : IsDriveOf(h, k) => IsDriveOf(h, k)',
           UNCHANGED <<registry, driveData, command, status, waking, initial, cpu, causes,
                       accesses>>
    PROVE  IInv'
  <1> USE DEF IInv, Types
  <1>1. /\ ThreadType' /\ thread'.step = thread.step /\ thread'.unit = thread.unit
        /\ thread'.file = thread.file /\ thread'.first = thread.first
        /\ thread'.pieces = thread.pieces /\ thread'.done <= thread'.pieces
        /\ thread.step \in {"read", "write"}
    BY CopiedFacts DEF Copying
  <1>2. UNCHANGED <<mapped, registers, readOnly, driveData, command, status, wakerTodo, posting,
                    semaphore, cpu, initial, causes, accesses>>
    BY DEF registry, waking
  <1>3. CommandType' /\ StatusType' /\ HistoryType'
    BY <1>2 DEF CommandType, StatusType, HistoryType
  <1>4. /\ thread'.unit # Manager => thread'.unit \in Occupied
        /\ thread'.first + thread'.pieces <= MaxPieces
        /\ IsDriveOf(thread'.file, driveData[thread'.unit].geometry)
    BY <1>1 DEF ThreadInv
  <1>5. \A u \in Units : /\ command'[u] \subseteq command[u]
                         /\ Serving(u)' => Serving(u)
    BY <1>1, <1>2 DEF Serving
  <1>6. semaphore' \in Devices \cup {None}
    BY <1>2 DEF WakeType
  <1> QED BY <1>1, <1>2, <1>3, <1>4, <1>5, <1>6, TransferIInv

LEMMA ReadPieceValue ==
    ASSUME FilesType, ThreadType, ThreadInv, GeometryInv, Copying
    PROVE  /\ PieceRead \in Values
           /\ thread.file \in Files /\ files[thread.file].kind = "drive" /\ Data \in Contents
           /\ files[thread.file].geometry \in Geometries
  <1>1. thread.step \in {"read", "write"} /\ thread.file \in Files /\ thread.done \in Nat
        /\ thread.first \in Nat
    BY ThreadFacts DEF Copying, Transferring
  <1>2. files[thread.file].kind = "drive"
    BY <1>1 DEF ThreadInv, IsDriveOf
  <1>3. Data \in Contents /\ files[thread.file].geometry \in Geometries
    BY <1>1, <1>2, FileFacts DEF Data
  <1>4. Data \in [1 .. Len(Data) -> Values] /\ Len(Data) \in Nat
    BY <1>3, ContentsFacts, Parameters
  <1>5. Position \in Nat
    BY <1>1 DEF Position
  <1>6. PieceRead \in Values
    BY <1>4, <1>5, Parameters DEF PieceRead
  <1> QED BY <1>1, <1>2, <1>3, <1>6

LEMMA ReadPieceIInv ==
    ASSUME IInv, ReadPiece
    PROVE  IInv'
  <1>1. /\ FilesType'
        /\ \A h \in Files, k \in Geometries : IsDriveOf(h, k) => IsDriveOf(h, k)'
    BY DEF ReadPiece, IInv, Types, FilesType, IsDriveOf
  <1> QED BY <1>1, ReadPieceValue, CopiedIInv DEF ReadPiece, IInv, Types

(* Writing prolongs a file with zeros, if need be, and keeps its header.    *)
Written(data, position, value) ==
    [i \in 1 .. (IF position < Len(data) THEN Len(data) ELSE position + 1) |->
        IF i = position + 1 THEN value ELSE IF i <= Len(data) THEN data[i] ELSE Zero]

LEMMA WrittenFacts ==
    ASSUME NEW c \in Contents, NEW position \in 0 .. MaxPieces - 1, NEW v \in Values
    PROVE  /\ Written(c, position, v) \in Contents
           /\ Len(Written(c, position, v)) =
                 IF position < Len(c) THEN Len(c) ELSE position + 1
  <1> DEFINE m == Len(c)
             n == IF position < m THEN m ELSE position + 1
  <1>1. c \in [1 .. m -> Values] /\ m \in 0 .. MaxPieces
    BY ContentsFacts
  <1>2. Written(c, position, v) =
            [i \in 1 .. n |-> IF i = position + 1 THEN v ELSE IF i <= m THEN c[i] ELSE Zero]
    BY DEF Written
  <1> HIDE DEF m
  <1>3. n \in 0 .. MaxPieces
    BY <1>1, Parameters
  <1> HIDE DEF n
  <1>4. ASSUME NEW i \in 1 .. n
        PROVE  (IF i = position + 1 THEN v ELSE IF i <= m THEN c[i] ELSE Zero) \in Values
    <2>1. i <= m => c[i] \in Values
      BY <1>1, <1>3, Parameters
    <2> QED BY <2>1, Parameters
  <1>5. Written(c, position, v) \in [1 .. n -> Values]
    BY <1>2, <1>4, Zenon
  <1>6. n \in Nat /\ Len(Written(c, position, v)) = n
    BY <1>3, <1>5, Parameters
  <1> QED BY <1>3, <1>5, <1>6 DEF Contents, n, m

LEMMA WritePieceFile ==
    ASSUME FilesType, ThreadType, ThreadInv, GeometryInv, Copying, NEW v \in Values,
           WritePiece(v)
    PROVE  files' = [files EXCEPT ![thread.file] =
                        DriveFile(files[thread.file].geometry, Written(Data, Position, v))]
  <1>1. /\ thread.file \in Files /\ Data \in Contents
        /\ files[thread.file] = DriveFile(files[thread.file].geometry, Data)
    BY ReadPieceValue, FileFacts DEF Data
  <1>2. files' = [files EXCEPT ![thread.file].data = Written(Data, Position, v)]
    BY DEF WritePiece, Written, Data
  <1> DEFINE w == Written(Data, Position, v)
             file == files[thread.file]
  <1>3. [file EXCEPT !.data = w] = DriveFile(file.geometry, w)
    <2>1. PICK g, c : g = file.geometry /\ c = Data
      OBVIOUS
    <2>2. file = [kind |-> "drive", geometry |-> g, data |-> c]
      BY <1>1, <2>1 DEF DriveFile
    <2> HIDE DEF w, file
    <2> QED BY <2>1, <2>2 DEF DriveFile
  <1>4. files' = [files EXCEPT ![thread.file] = [file EXCEPT !.data = w]]
    BY <1>2
  <1> QED BY <1>3, <1>4

LEMMA WritePieceIInv ==
    ASSUME IInv, NEW v \in Values, WritePiece(v)
    PROVE  IInv'
  <1> USE DEF IInv, Types
  <1> DEFINE f == thread.file
             c == Written(Data, Position, v)
  <1>1. /\ Copying /\ Copied(v)
        /\ UNCHANGED <<registry, driveData, command, status, waking, initial, cpu, causes,
                       accesses>>
    BY DEF WritePiece
  <1>2. /\ f \in Files /\ files[f].kind = "drive" /\ Data \in Contents
        /\ files[f].geometry \in Geometries /\ Position \in 0 .. MaxPieces - 1
    BY <1>1, ReadPieceValue, CopiedFacts
  <1>3. c \in Contents
    BY <1>2, WrittenFacts
  <1>4. files' = [files EXCEPT ![f] = DriveFile(files[f].geometry, c)]
    BY <1>1, WritePieceFile
  <1> HIDE DEF f, c
  <1>5. /\ DriveFile(files[f].geometry, c) \in DriveFiles
        /\ DriveFile(files[f].geometry, c).kind = "drive"
        /\ DriveFile(files[f].geometry, c).geometry = files[f].geometry
    BY <1>2, <1>3, DriveFileFacts
  <1>6. /\ FilesType'
        /\ \A h \in Files, k \in Geometries : IsDriveOf(h, k) => IsDriveOf(h, k)'
    BY <1>2, <1>4, <1>5 DEF FilesType, IsDriveOf
  <1> QED BY <1>1, <1>6, CopiedIInv

LEMMA EndTransferIInv ==
    ASSUME IInv, TransferEnds \/ TransferFails
    PROVE  IInv'
  <1> USE DEF IInv, Types
  <1>1. PICK r \in {"success", "failure"} :
            thread.step \in {"read", "write"} /\ EndTransfer(r)
    BY DEF TransferEnds, TransferFails, Copying
  <1>2. /\ thread.unit \in Slots /\ thread.unit \in Units /\ thread.unit # Manager
        /\ thread.unit \in Occupied
    BY <1>1, ThreadFacts, Parameters DEF Transferring, ThreadInv
  <1>3. /\ thread' = [step |-> "complete", unit |-> thread.unit, result |-> r]
        /\ UNCHANGED <<files, mapped, registers, readOnly, driveData, command, status, wakerTodo,
                       posting, semaphore, cpu, initial, causes, accesses>>
    BY <1>1 DEF EndTransfer, registry, waking
  <1>4. thread' \in Completing /\ thread'.step = "complete" /\ thread'.unit = thread.unit
    BY <1>2, <1>3 DEF Completing
  <1>5. FilesType' /\ CommandType' /\ StatusType' /\ HistoryType' /\ ThreadType'
    BY <1>3, <1>4, ThreadFacts
       DEF FilesType, CommandType, StatusType, HistoryType, ThreadType
  <1>6. \A h \in Files, k \in Geometries : IsDriveOf(h, k) => IsDriveOf(h, k)'
    BY <1>3 DEF IsDriveOf
  <1>7. \A u \in Units : /\ command'[u] \subseteq command[u]
                         /\ Serving(u)' => Serving(u)
    BY <1>1, <1>2, <1>3, <1>4 DEF Serving
  <1>8. semaphore' \in Devices \cup {None}
    BY <1>3 DEF WakeType
  <1> QED BY <1>1, <1>2, <1>3, <1>4, <1>5, <1>6, <1>7, <1>8, TransferIInv

LEMMA CompleteIInv ==
    ASSUME IInv, Complete
    PROVE  IInv'
  <1> USE DEF IInv, Types
  <1> DEFINE u == thread.unit
             bits == CompletedStatus(u, thread.result)
  <1>1. /\ thread.step = "complete" /\ u \in Units
        /\ u # Manager => u \in Occupied
        /\ status' = [status EXCEPT ![u] = bits]
        /\ thread' = [step |-> "update", unit |-> u, bits |-> bits]
        /\ causes' = IF cpu.step \in {"announce", "update"} /\ cpu.device = DeviceOf(u)
                     THEN [causes EXCEPT ![DeviceOf(u)] = @ \cup {"overtaken"}] ELSE causes
        /\ UNCHANGED <<files, mapped, registers, readOnly, driveData, command, wakerTodo,
                       posting, semaphore, cpu, initial, accesses>>
    BY ThreadFacts DEF Complete, registry, waking, ThreadInv
  <1>2. bits \in SUBSET Bits
    BY <1>1 DEF CompletedStatus, StatusType, Bits
  <1> HIDE DEF u, bits
  <1>3. thread' \in Updating /\ thread'.step = "update" /\ thread'.unit = u
    BY <1>1, <1>2 DEF Updating
  <1>4. FilesType' /\ CommandType' /\ StatusType' /\ ThreadType'
    BY <1>1, <1>2, <1>3, ThreadFacts DEF FilesType, CommandType, StatusType, ThreadType
  <1>5. HistoryType' /\ \A d \in Devices : "inherited" \in causes[d] => "inherited" \in causes'[d]
    BY <1>1 DEF HistoryType, Causes
  <1>6. \A h \in Files, k \in Geometries : IsDriveOf(h, k) => IsDriveOf(h, k)'
    BY <1>1 DEF IsDriveOf
  <1>7. \A n \in Units : /\ command'[n] \subseteq command[n]
                         /\ Serving(n)' => Serving(n)
    BY <1>1, <1>3 DEF Serving, u
  <1>8. semaphore' \in Devices \cup {None}
    BY <1>1 DEF WakeType
  <1> QED BY <1>1, <1>3, <1>4, <1>5, <1>6, <1>7, <1>8, TransferIInv

(* The register shows the end of a transaction only when no command of the  *)
(* unit is left.                                                            *)
LEMMA ThreadUpdatesRegisterIInv ==
    ASSUME IInv, ThreadUpdatesRegister
    PROVE  IInv'
  <1> USE DEF IInv, Types
  <1> DEFINE n == thread.unit
  <1>1. /\ thread.step = "update" /\ n \in {Manager} \cup Occupied /\ thread.bits \subseteq Bits
        /\ registers' = [registers EXCEPT ![RegisterOf(DeviceOf(n))] = thread.bits]
        /\ thread' = Waiting
        /\ UNCHANGED <<files, mapped, readOnly, driveData, command, status, wakerTodo, posting,
                       semaphore, cpu, initial, causes, accesses>>
    BY ThreadFacts DEF ThreadUpdatesRegister, waking, ThreadInv
  <1> HIDE DEF n
  <1>2. IsMapped(DeviceOf(n))
    BY <1>1, DriveFacts DEF DeviceInv, IsMapped, DeviceOf
  <1>3. RegistryType'
    BY <1>1 DEF RegistryType
  <1>4. ThreadType' /\ thread'.step = "waiting"
    BY <1>1, ThreadFacts DEF ThreadType, Pausing, Waiting
  <1>5. FilesType' /\ DriveType' /\ CommandType' /\ StatusType' /\ WakeType' /\ HistoryType'
        /\ CpuType'
    BY <1>1 DEF FilesType, DriveType, CommandType, StatusType, WakeType, HistoryType, CpuType
  <1>6. DeviceInv' /\ GeometryInv' /\ ThreadInv'
    <2>1. \A h \in Files, k \in Geometries : IsDriveOf(h, k) => IsDriveOf(h, k)'
      BY <1>1 DEF IsDriveOf
    <2> QED BY <1>1, <1>4, <2>1, ThreadAtRest
  <1>7. CpuInv'
    BY <1>1 DEF CpuInv, HasDrive, Occupied
  <1>8. UnitInv'
    <2>1. /\ Occupied' = Occupied /\ \A u \in Units : ~ Serving(u)'
          /\ Running' => Running
      BY <1>1, <1>4 DEF Occupied, Serving, Running
    <2>2. SUFFICES ASSUME NEW u \in {Manager} \cup Occupied, Trusted(u)
                   PROVE  /\ \A c, e \in command[u] : c = e
                          /\ Running /\ command[u] # {} /\ ~ InHandler(DeviceOf(u)) =>
                                 "inProgress" \in registers'[RegisterOf(DeviceOf(u))]
                          /\ u \in Units
      BY <1>1, <2>1 DEF UnitInv, Trusted, IsMapped, DeviceOf, RegisterOf, InHandler
    <2>3. u \in Units
      BY Parameters DEF Occupied
    <2>4. /\ \A c, e \in command[u] : c = e
          /\ Serving(u) => command[u] = {}
          /\ Running /\ command[u] # {} /\ ~ InHandler(DeviceOf(u)) =>
                "inProgress" \in registers[RegisterOf(DeviceOf(u))]
      BY <2>2 DEF UnitInv
    <2>5. CASE u = n
      <3>1. Serving(u)
        BY <1>1, <2>5 DEF Serving, n
      <3> QED BY <2>3, <2>4, <3>1
    <2>6. CASE u # n
      <3>1. /\ RegisterOf(DeviceOf(u)) # RegisterOf(DeviceOf(n))
            /\ RegisterOf(DeviceOf(u)) \in Registers
        BY <1>1, <1>2, <2>2, <2>6, RegisterFacts DEF Trusted
      <3>2. registers'[RegisterOf(DeviceOf(u))] = registers[RegisterOf(DeviceOf(u))]
        BY <1>1, <3>1 DEF RegistryType
      <3> QED BY <2>3, <2>4, <3>2
    <2> QED BY <2>5, <2>6
  <1> QED BY <1>3, <1>4, <1>5, <1>6, <1>7, <1>8
-----------------------------------------------------------------------------
LEMMA NextIInv == IInv /\ [Next]_vars => IInv'
  <1> SUFFICES ASSUME IInv, [Next]_vars PROVE IInv'
    OBVIOUS
  <1>1. CASE Program
    BY <1>1, InitiateIInv, AccessIInv DEF Program
  <1>2. CASE Handler
    BY <1>2, AccessIInv, UpdateRegisterIInv DEF Handler
  <1>3. CASE Waker
    BY <1>3, AccessIInv DEF Waker
  <1>4. CASE Thread
    BY <1>4, WakeIInv, OpenFileIInv, CreateFileIInv, RequestDeviceIInv, RequestFailsIInv,
       PublishIInv, RemoveDeviceIInv, ForgetIInv, TakeDriveCommandIInv, ReadPieceIInv,
       WritePieceIInv, EndTransferIInv, CompleteIInv, ThreadUpdatesRegisterIInv DEF Thread
  <1>5. CASE UNCHANGED vars
    <2>1. UNCHANGED <<files, mapped, registers, readOnly, driveData, command, status, wakerTodo,
                      posting, semaphore, cpu, thread, initial, causes, accesses>>
      BY <1>5 DEF vars, registry, waking
    <2>2. Types'
      BY <2>1 DEF IInv, Types, FilesType, RegistryType, DriveType, CommandType, StatusType,
                  WakeType, HistoryType, CpuType, ThreadType
    <2>3. DeviceInv' /\ GeometryInv' /\ ThreadInv'
      BY <2>1, DrivesLeftAlone DEF IInv
    <2>4. CpuInv'
      BY <2>1 DEF IInv, CpuInv, HasDrive, Occupied
    <2>5. UnitInv'
      BY <2>1 DEF IInv, UnitInv, Occupied, Trusted, IsMapped, DeviceOf, Serving, Running,
                  InHandler, RegisterOf
    <2> QED BY <2>2, <2>3, <2>4, <2>5 DEF IInv
  <1> QED BY <1>1, <1>2, <1>3, <1>4, <1>5 DEF Next

LEMMA SpecIInv == Spec => []IInv
  BY InitIInv, NextIInv, PTL DEF Spec

(* The variables of the storage manager, of the registry and of the host's  *)
(* files keep their types: no file grows longer than its drive, whatever    *)
(* sectors a program asks for.                                              *)
THEOREM TypeCorrect == Spec => []TypeOK
  <1>1. IInv => TypeOK
    <2> SUFFICES ASSUME IInv PROVE TypeOK
      OBVIOUS
    <2> QED BY DEF IInv, Types, FilesType, RegistryType, DriveType, CommandType, StatusType,
                   WakeType, HistoryType, ManagerCommands, DriveCommands, TypeOK
  <1> QED BY <1>1, SpecIInv, PTL

(* st_insertNewDrive, st_insertExistingDriveFile and st_removeDrive: slots, *)
(* registry, registers and files agree about the drives, for every number   *)
(* of slots and ids and every history of insertions and removals, also of   *)
(* those that fail half-way.                                                *)
THEOREM DrivesExactHolds == Spec => []DrivesExact
  <1>1. IInv => DrivesExact
    <2> SUFFICES ASSUME IInv PROVE DrivesExact
      OBVIOUS
    <2> USE DEF IInv, Types
    <2>1. ASSUME NEW s \in Occupied
          PROVE  /\ SlotOf(driveData[s].id) = {s}
                 /\ files[driveData[s].file].kind = "drive"
                 /\ files[driveData[s].file].geometry = driveData[s].geometry
                 /\ \/ mapped[driveData[s].id] # None
                       /\ readOnly[mapped[driveData[s].id]] = driveData[s].geometry
                    \/ thread.step = "forget" /\ thread.unit = s
      BY DEF SlotOf, DeviceInv, GeometryInv, IsDriveOf
    <2>2. ASSUME NEW d \in Ids, mapped[d] # None
          PROVE  /\ SlotOf(d) # {} \/ (thread.step = "publish" /\ thread.id = d)
                 /\ \A e \in Ids : mapped[e] = mapped[d] => e = d
      BY <2>2 DEF SlotOf, DeviceInv, HasDrive
    <2> QED BY <2>1, <2>2 DEF DrivesExact
  <1> QED BY <1>1, SpecIInv, PTL

(* st_handleWrite and the manager's thread share flags and status without a *)
(* lock; still, a program that waits for the bit of a transaction to clear  *)
(* is not deceived, by any number of drives, unless the drive inherited the *)
(* slot or the registers of a removed one.                                  *)
THEOREM ClearMeansDoneHolds == Spec => []ClearMeansDone
  <1>1. IInv => ClearMeansDone
    <2> SUFFICES ASSUME IInv, Running, NEW d \in Devices, IsMapped(d), UnitOf(d) # None,
                        "inherited" \notin causes[d], cpu = Outside \/ cpu.device # d,
                        "inProgress" \notin registers[RegisterOf(d)]
                 PROVE  command[UnitOf(d)] = {} /\ ~ Serving(UnitOf(d))
      BY DEF ClearMeansDone
    <2> USE DEF IInv, Types
    <2>1. UnitOf(d) \in {Manager} \cup Occupied /\ DeviceOf(UnitOf(d)) = d
      BY UnitFacts DEF Devices, DeviceOf
    <2>2. Trusted(UnitOf(d)) /\ ~ InHandler(DeviceOf(UnitOf(d)))
      BY <2>1 DEF Trusted, InHandler
    <2> QED BY <2>1, <2>2 DEF UnitInv
  <1> QED BY <1>1, SpecIInv, PTL
-----------------------------------------------------------------------------
(* Storage implements Disk. *)

DiskUnchanged == UNCHANGED <<DiskContent, DiskTransfer, DiskCopied, DiskOutcome>>

(* The thread neither transfers nor ends a transfer.                        *)
OffDisk == /\ thread.step \notin {"read", "write"}
           /\ thread.step = "complete" => thread.unit = Manager

LEMMA OffDiskStutters ==
    ASSUME OffDisk, OffDisk', DiskContent' = DiskContent
    PROVE  DiskUnchanged
  BY DEF OffDisk, DiskUnchanged, DiskTransfer, DiskCopied, DiskOutcome

LEMMA OffDiskFacts ==
    ASSUME OffDisk
    PROVE  /\ DiskTransfer = Drives!NoTransfer /\ DiskCopied = Drives!NoPiece
           /\ DiskOutcome = "none"
  BY DEF OffDisk, DiskTransfer, DiskCopied, DiskOutcome, Drives!NoTransfer, Drives!NoPiece

LEMMA ContentKept ==
    ASSUME UNCHANGED files
    PROVE  DiskContent' = DiskContent
  BY DEF DiskContent

LEMMA ContentOf ==
    ASSUME NEW f \in Files, NEW i \in 0 .. MaxPieces - 1
    PROVE  DiskContent[f][i] = IF files[f].kind = "drive" /\ i < Len(files[f].data)
                               THEN files[f].data[i + 1] ELSE Zero
  BY DEF DiskContent

(* A new file is empty.                                                     *)
LEMMA NewFileContent ==
    ASSUME FilesType, NEW f \in Files, files[f].kind = "absent",
           NEW g \in Geometries, NEW file, file \in {Foreign, DriveFile(g, <<>>)},
           files' = [files EXCEPT ![f] = file]
    PROVE  DiskContent' = DiskContent
  <1>1. file.kind = "drive" => file.data = <<>>
    BY DEF Foreign, DriveFile
  <1>2. \A h \in Files : files'[h] = IF h = f THEN file ELSE files[h]
    BY DEF FilesType
  <1>3. ASSUME NEW h \in Files, NEW i \in 0 .. MaxPieces - 1
        PROVE  (IF files'[h].kind = "drive" /\ i < Len(files'[h].data)
                THEN files'[h].data[i + 1] ELSE Zero)
               = (IF files[h].kind = "drive" /\ i < Len(files[h].data)
                  THEN files[h].data[i + 1] ELSE Zero)
    <2>1. CASE h = f
      <3>1. ~ (files'[h].kind = "drive" /\ i < Len(files'[h].data))
        BY <1>1, <1>2, <2>1, Parameters
      <3>2. files[h].kind # "drive"
        BY <2>1
      <3> QED BY <3>1, <3>2
    <2>2. CASE h # f
      BY <1>2, <2>2
    <2> QED BY <2>1, <2>2
  <1> QED BY <1>3 DEF DiskContent

LEMMA ManagerStutters ==
    ASSUME IInv,
           \/ IgnoreWake \/ RefuseName \/ TakeManagerCommand \/ WakeWithoutDrive
           \/ \E f \in Files : OpenFile(f) \/ \E g \in Geometries : CreateFile(f, g)
           \/ \E p \in Patches : RequestDevice(p)
           \/ RequestFails \/ Publish \/ Forget \/ ThreadUpdatesRegister
           \/ \E d \in Devices : RemoveDevice(d)
    PROVE  DiskUnchanged
  <1> USE DEF IInv, Types
  <1>1. OffDisk
    BY ThreadFacts DEF OffDisk, IgnoreWake, RefuseName, TakeManagerCommand, WakeWithoutDrive,
       OpenFile, CreateFile, RequestDevice, RequestFails, Publish, Forget, RemoveDevice,
       ThreadUpdatesRegister
  <1>2. CASE \/ IgnoreWake \/ RefuseName \/ TakeManagerCommand \/ WakeWithoutDrive
             \/ ThreadUpdatesRegister
    <2>1. UNCHANGED files
      BY <1>2 DEF IgnoreWake, RefuseName, TakeManagerCommand, WakeWithoutDrive,
                  ThreadUpdatesRegister
    <2>2. thread'.step \in {"waiting", "insertNew", "insertExisting", "remove"}
      <3>1. CASE TakeManagerCommand
        BY <3>1, ChosenFacts DEF TakeManagerCommand, ManagerCommands
      <3>2. CASE IgnoreWake \/ RefuseName \/ WakeWithoutDrive
        BY <3>2, ThreadFacts DEF IgnoreWake, RefuseName, WakeWithoutDrive
      <3>3. CASE ThreadUpdatesRegister
        BY <3>3 DEF ThreadUpdatesRegister, Waiting
      <3> QED BY <1>2, <3>1, <3>2, <3>3
    <2> QED BY <1>1, <2>1, <2>2, ContentKept, OffDiskStutters DEF OffDisk
  <1>3. ASSUME NEW r \in {"success", "failure"}, Finish(Manager, r)
        PROVE  OffDisk'
    BY <1>3, FinishFacts DEF OffDisk
  <1>4. ASSUME NEW f \in Files, OpenFile(f) PROVE DiskUnchanged
    <2>1. OffDisk'
      BY <1>3, <1>4 DEF OpenFile, OffDisk
    <2> QED BY <1>1, <1>4, <2>1, ContentKept, OffDiskStutters DEF OpenFile
  <1>5. ASSUME NEW f \in Files, NEW g \in Geometries, CreateFile(f, g) PROVE DiskUnchanged
    <2>1. OffDisk'
      BY <1>3, <1>5 DEF CreateFile, OffDisk
    <2>2. CASE UNCHANGED files
      BY <1>1, <2>1, <2>2, ContentKept, OffDiskStutters
    <2>3. CASE files[f].kind = "absent"
               /\ \E file \in {Foreign, DriveFile(g, <<>>)} : files' = [files EXCEPT ![f] = file]
      BY <1>1, <2>1, <2>3, NewFileContent, OffDiskStutters
    <2> QED BY <1>5, <2>2, <2>3 DEF CreateFile, MayCreate
  <1>6. CASE \/ \E p \in Patches : RequestDevice(p)
             \/ RequestFails \/ Publish \/ Forget \/ \E d \in Devices : RemoveDevice(d)
    <2>1. UNCHANGED files
      BY <1>6 DEF RequestDevice, RequestFails, Publish, Forget, RemoveDevice
    <2>2. OffDisk'
      <3>1. CASE \E p \in Patches : RequestDevice(p)
        BY <3>1 DEF RequestDevice, OffDisk
      <3>2. CASE RequestFails \/ Publish \/ Forget
        BY <1>3, <3>2 DEF RequestFails, Publish, Forget
      <3>3. CASE \E d \in Devices : RemoveDevice(d)
        BY <1>3, <3>3 DEF RemoveDevice, OffDisk
      <3> QED BY <1>6, <3>1, <3>2, <3>3
    <2> QED BY <1>1, <2>1, <2>2, ContentKept, OffDiskStutters
  <1> QED BY <1>2, <1>4, <1>5, <1>6

LEMMA TakeDriveCommandBegins ==
    ASSUME IInv, IInv', NEW sector \in 0 .. MaxPieces, NEW address \in 0 .. MemorySize,
           TakeDriveCommand(sector, address)
    PROVE  Drives!Next
  <1> USE DEF IInv, Types
  <1>1. /\ OffDisk /\ UNCHANGED files
        /\ thread'.step \in {"read", "write", "complete"}
        /\ thread'.step = "complete" => thread'.result = "failure" /\ thread'.unit \in Slots
        /\ thread'.step # "complete" => thread'.done = 0
    <2>1. thread.step = "waiting" /\ semaphore \in Ids /\ UnitOf(semaphore) # None
      BY ThreadFacts DEF TakeDriveCommand
    <2>2. UnitOf(semaphore) \in Slots
      BY <2>1, UnitFacts, DriveFacts
    <2> QED BY <2>1, <2>2 DEF TakeDriveCommand, OffDisk
  <1>2. /\ DiskTransfer = Drives!NoTransfer /\ DiskCopied = Drives!NoPiece
        /\ DiskOutcome = "none" /\ DiskContent' = DiskContent
    BY <1>1, OffDiskFacts, ContentKept
  <1>3. CASE thread'.step = "complete"
    <2>1. /\ DiskTransfer' = Drives!NoTransfer /\ DiskCopied' = Drives!NoPiece
          /\ DiskOutcome' = "failure"
      BY <1>1, <1>3, Parameters DEF DiskTransfer, DiskCopied, DiskOutcome, Drives!NoTransfer,
                                    Drives!NoPiece
    <2>2. ~ DiskTransfer.running
      BY <1>2 DEF Drives!NoTransfer
    <2> QED BY <1>2, <2>1, <2>2 DEF Drives!Next, Drives!Fail
  <1>4. CASE thread'.step \in {"read", "write"}
    <2>1. PICK t : t = thread'
      OBVIOUS
    <2>2. /\ t.file \in Files /\ t.first \in 0 .. MaxPieces - 1 /\ t.pieces \in 1 .. MaxPieces
          /\ t.address \in 0 .. MemorySize
      <3>1. t \in Transferring
        BY <1>4, <2>1 DEF ThreadType, Pausing, Requesting, Publishing, Forgetting, Transferring,
                          Completing, Updating, ManagerCommands
      <3>2. t.first + t.pieces <= MaxPieces
        BY <1>4, <2>1 DEF ThreadInv
      <3>3. t.first \in Nat /\ t.pieces \in Nat \ {0} /\ t.file \in Files
            /\ t.address \in 0 .. MemorySize
        BY <3>1 DEF Transferring
      <3> QED BY <3>2, <3>3, Parameters
    <2>3. DiskCopied' = DiskCopied /\ DiskOutcome' = DiskOutcome
      BY <1>1, <1>2, <1>4 DEF DiskCopied, DiskOutcome, Drives!NoPiece
    <2>4. PICK isRead \in BOOLEAN :
              DiskTransfer' = [running |-> TRUE, file |-> t.file, isRead |-> isRead,
                               first |-> t.first, count |-> t.pieces, address |-> t.address,
                               done |-> 0]
      <3>1. CASE t.step = "read"
        BY <1>1, <1>4, <2>1, <3>1 DEF DiskTransfer
      <3>2. CASE t.step = "write"
        <4>1. (t.step = "read") = FALSE
          BY <3>2
        <4> QED BY <1>1, <1>4, <2>1, <3>2, <4>1 DEF DiskTransfer
      <3> QED BY <1>4, <2>1, <3>1, <3>2
    <2>5. Drives!Begin(t.file, isRead, t.first, t.pieces, t.address)
      BY <1>2, <2>3, <2>4 DEF Drives!Begin
    <2> QED BY <2>2, <2>5 DEF Drives!Next
  <1> QED BY <1>1, <1>3, <1>4

(* What the abstract transfer looks like while the thread transfers.        *)
LEMMA TransferRuns ==
    ASSUME thread.step \in {"read", "write"}
    PROVE  /\ DiskTransfer = [running |-> TRUE, file |-> thread.file,
                             isRead |-> thread.step = "read", first |-> thread.first,
                             count |-> thread.pieces, address |-> thread.address,
                             done |-> thread.done]
           /\ DiskTransfer.running /\ (DiskTransfer.isRead <=> thread.step = "read")
           /\ DiskTransfer.file = thread.file /\ DiskTransfer.first = thread.first
           /\ DiskTransfer.count = thread.pieces /\ DiskTransfer.address = thread.address
           /\ DiskTransfer.done = thread.done /\ DiskOutcome = "none"
  BY DEF DiskTransfer, DiskOutcome

LEMMA CopyImplements ==
    ASSUME IInv, Copying, InMemory, NEW v \in Values, Copied(v), UNCHANGED initial,
           v = DiskContent'[thread.file][Position],
           \/ thread.step = "read" /\ DiskContent' = DiskContent
           \/ thread.step = "write"
              /\ DiskContent' = [DiskContent EXCEPT ![thread.file][Position] = v]
    PROVE  Drives!Next
  <1> USE DEF IInv, Types
  <1>1. /\ thread.step \in {"read", "write"} /\ thread'.step = thread.step
        /\ thread'.file = thread.file /\ thread'.first = thread.first
        /\ thread'.pieces = thread.pieces /\ thread'.address = thread.address
        /\ thread'.done = thread.done + 1
        /\ thread'.copied = [place |-> thread.address + thread.done, value |-> v]
        /\ thread.done \in Nat
    BY CopiedFacts, ThreadFacts DEF Copying, Transferring
  <1>2. DiskTransfer' = [DiskTransfer EXCEPT !.done = @ + 1]
    <2>1. PICK t : t = TRUE
      OBVIOUS
    <2>2. PICK isRead : isRead = (thread.step = "read")
      OBVIOUS
    <2>3. PICK f, b, c, a, d : f = thread.file /\ b = thread.first /\ c = thread.pieces
                               /\ a = thread.address /\ d = thread.done
      OBVIOUS
    <2>4. DiskTransfer = [running |-> t, file |-> f, isRead |-> isRead, first |-> b,
                          count |-> c, address |-> a, done |-> d]
      BY <1>1, <2>1, <2>2, <2>3 DEF DiskTransfer
    <2>5. DiskTransfer' = [running |-> t, file |-> f, isRead |-> isRead, first |-> b,
                           count |-> c, address |-> a, done |-> d + 1]
      BY <1>1, <2>1, <2>2, <2>3 DEF DiskTransfer
    <2>6. PICK n : n = d + 1
      OBVIOUS
    <2>7. DiskTransfer.done = d
      BY <2>4
    <2>8. [DiskTransfer EXCEPT !.done = @ + 1] = [DiskTransfer EXCEPT !.done = n]
      BY <2>6, <2>7, Zenon
    <2>9. DiskTransfer' = [DiskTransfer EXCEPT !.done = n]
      BY <2>4, <2>5, <2>6
    <2> QED BY <2>8, <2>9, Zenon
  <1>3. DiskCopied' = [place |-> DiskTransfer.address + DiskTransfer.done, value |-> v]
    <2>1. thread'.done > 0
      BY <1>1
    <2> QED BY <1>1, <2>1, TransferRuns DEF DiskCopied
  <1>4. /\ DiskTransfer.running /\ DiskTransfer.done < DiskTransfer.count
        /\ DiskTransfer.address + DiskTransfer.done < MemorySize
        /\ DiskTransfer.first + DiskTransfer.done = Position
        /\ DiskTransfer.file = thread.file
        /\ (DiskTransfer.isRead <=> thread.step = "read")
    BY <1>1, TransferRuns DEF Copying, InMemory, Position
  <1>5. DiskOutcome' = DiskOutcome
    BY <1>1 DEF DiskOutcome
  <1>6. \/ DiskTransfer.isRead /\ UNCHANGED DiskContent
        \/ ~ DiskTransfer.isRead
           /\ \E w \in Values :
                 DiskContent' = [DiskContent EXCEPT
                     ![DiskTransfer.file][DiskTransfer.first + DiskTransfer.done] = w]
    <2>1. CASE thread.step = "read" /\ DiskContent' = DiskContent
      BY <1>4, <2>1
    <2>2. CASE /\ thread.step = "write"
               /\ DiskContent' = [DiskContent EXCEPT ![thread.file][Position] = v]
      <3>1. ~ DiskTransfer.isRead
        BY <1>4, <2>2
      <3>2. DiskContent' = [DiskContent EXCEPT
                     ![DiskTransfer.file][DiskTransfer.first + DiskTransfer.done] = v]
        BY <1>4, <2>2
      <3> QED BY <3>1, <3>2
    <2> QED BY <2>1, <2>2
  <1>7. DiskCopied' = [place |-> DiskTransfer.address + DiskTransfer.done,
                       value |-> DiskContent'[DiskTransfer.file]
                                     [DiskTransfer.first + DiskTransfer.done]]
    BY <1>3, <1>4
  <1>8. Drives!Copy
    BY <1>2, <1>4, <1>5, <1>6, <1>7, Zenon DEF Drives!Copy
  <1> QED BY <1>8 DEF Drives!Next

LEMMA ReadPieceImplements ==
    ASSUME IInv, ReadPiece
    PROVE  Drives!Next
  <1> USE DEF IInv, Types
  <1>1. Copying /\ InMemory /\ Copied(PieceRead) /\ UNCHANGED <<files, initial>>
        /\ thread.step = "read"
    BY DEF ReadPiece, CanRead
  <1>2. DiskContent' = DiskContent
    BY <1>1, ContentKept
  <1>3. /\ PieceRead \in Values /\ thread.file \in Files
        /\ files[thread.file].kind = "drive" /\ Position \in 0 .. MaxPieces - 1
    BY <1>1, ReadPieceValue, CopiedFacts
  <1>4. DiskContent[thread.file][Position] = PieceRead
    BY <1>3, ContentOf DEF PieceRead, Data
  <1> QED BY <1>1, <1>2, <1>3, <1>4, CopyImplements

LEMMA WritePieceImplements ==
    ASSUME IInv, NEW v \in Values, WritePiece(v)
    PROVE  Drives!Next
  <1> USE DEF IInv, Types
  <1> DEFINE f == thread.file
             c == Data
             p == Position
             w == Written(c, p, v)
  <1>1. Copying /\ InMemory /\ Copied(v) /\ UNCHANGED initial /\ thread.step = "write"
    BY DEF WritePiece, CanWrite
  <1>2. /\ f \in Files /\ files[f].kind = "drive" /\ c \in Contents
        /\ files[f].geometry \in Geometries /\ p \in 0 .. MaxPieces - 1 /\ c = files[f].data
    BY <1>1, ReadPieceValue, CopiedFacts DEF Data
  <1>3. files' = [files EXCEPT ![f] = DriveFile(files[f].geometry, w)]
    BY <1>1, WritePieceFile
  <1> HIDE DEF f, c, p, w
  <1>4. /\ w \in Contents /\ Len(w) = IF p < Len(c) THEN Len(c) ELSE p + 1
        /\ Len(w) \in Nat /\ Len(c) \in Nat
    <2>1. w \in Contents /\ Len(w) = IF p < Len(c) THEN Len(c) ELSE p + 1
      BY <1>2, WrittenFacts DEF w
    <2>2. Len(w) \in 0 .. MaxPieces /\ Len(c) \in 0 .. MaxPieces
      BY <1>2, <2>1, ContentsFacts
    <2> QED BY <2>1, <2>2, Parameters
  <1>5. \A i \in 1 .. Len(w) : w[i] = IF i = p + 1 THEN v ELSE IF i <= Len(c) THEN c[i] ELSE Zero
    <2>1. DEFINE m == IF p < Len(c) THEN Len(c) ELSE p + 1
    <2>2. w = [i \in 1 .. m |-> IF i = p + 1 THEN v ELSE IF i <= Len(c) THEN c[i] ELSE Zero]
      BY DEF w, Written
    <2>3. Len(w) = m
      BY <1>4
    <2> HIDE DEF m
    <2> QED BY <2>2, <2>3
  <1>6. \A h \in Files : files'[h] = IF h = f THEN DriveFile(files[f].geometry, w) ELSE files[h]
    BY <1>2, <1>3 DEF FilesType
  <1>7. ASSUME NEW i \in 0 .. MaxPieces - 1
        PROVE  (IF i < Len(w) THEN w[i + 1] ELSE Zero)
               = IF i = p THEN v ELSE IF i < Len(c) THEN c[i + 1] ELSE Zero
    <2>1. i \in Nat /\ p \in Nat /\ i + 1 \in Nat
      BY <1>2, Parameters
    <2>2. CASE i < Len(w)
      <3>1. w[i + 1] = IF i + 1 = p + 1 THEN v ELSE IF i + 1 <= Len(c) THEN c[i + 1] ELSE Zero
        BY <1>4, <1>5, <2>1, <2>2
      <3> QED BY <1>4, <2>1, <2>2, <3>1
    <2>3. CASE ~ (i < Len(w))
      BY <1>4, <2>1, <2>3
    <2> QED BY <2>2, <2>3
  <1>8. ASSUME NEW h \in Files, NEW i \in 0 .. MaxPieces - 1
        PROVE  (IF files'[h].kind = "drive" /\ i < Len(files'[h].data)
                THEN files'[h].data[i + 1] ELSE Zero)
               = IF h = f /\ i = p THEN v ELSE DiskContent[h][i]
    <2>1. DiskContent[h][i] = IF files[h].kind = "drive" /\ i < Len(files[h].data)
                              THEN files[h].data[i + 1] ELSE Zero
      BY ContentOf
    <2>2. CASE h = f
      <3>1. files'[h].kind = "drive" /\ files'[h].data = w
        BY <1>6, <2>2 DEF DriveFile
      <3> QED BY <1>2, <1>7, <2>1, <2>2, <3>1
    <2>3. CASE h # f
      BY <1>6, <2>1, <2>3
    <2> QED BY <2>2, <2>3
  <1>9. DiskContent' = [h \in Files |-> [i \in 0 .. MaxPieces - 1 |->
                            IF h = f /\ i = p THEN v ELSE DiskContent[h][i]]]
    BY <1>8 DEF DiskContent
  <1>10. /\ DiskContent = [h \in Files |-> DiskContent[h]]
         /\ \A h \in Files : DiskContent[h] = [i \in 0 .. MaxPieces - 1 |-> DiskContent[h][i]]
    BY DEF DiskContent
  <1>11. DiskContent' = [DiskContent EXCEPT ![f][p] = v] /\ DiskContent'[f][p] = v
    BY <1>2, <1>9, <1>10
  <1> QED BY <1>1, <1>11, CopyImplements DEF f, p

LEMMA EndTransferImplements ==
    ASSUME IInv, TransferEnds \/ TransferFails
    PROVE  Drives!Next
  <1> USE DEF IInv, Types
  <1>1. thread.step \in {"read", "write"} /\ thread.unit \in Slots /\ UNCHANGED files
    BY ThreadFacts DEF TransferEnds, TransferFails, EndTransfer, Copying, Transferring
  <1>2. DiskContent' = DiskContent
    BY <1>1, ContentKept
  <1>3. ASSUME NEW r \in {"success", "failure"}, EndTransfer(r)
        PROVE  /\ DiskTransfer' = Drives!NoTransfer /\ DiskCopied' = Drives!NoPiece
               /\ DiskOutcome' = r
    <2>1. thread' = [step |-> "complete", unit |-> thread.unit, result |-> r]
      BY <1>3 DEF EndTransfer
    <2>2. thread'.step = "complete" /\ thread'.unit # Manager /\ thread'.result = r
      BY <1>1, <2>1, Parameters
    <2> QED BY <2>2 DEF DiskTransfer, DiskCopied, DiskOutcome, Drives!NoTransfer, Drives!NoPiece
  <1>4. CASE TransferEnds
    <2>1. DiskTransfer.running /\ DiskTransfer.done = DiskTransfer.count
      BY <1>1, <1>4, TransferRuns DEF TransferEnds
    <2> QED BY <1>2, <1>3, <1>4, <2>1 DEF TransferEnds, Drives!Succeed, Drives!Next
  <1>5. CASE TransferFails
    <2>1. DiskTransfer.running => DiskTransfer.done < DiskTransfer.count
      BY <1>1, <1>5, TransferRuns DEF TransferFails, Copying
    <2> QED BY <1>2, <1>3, <1>5, <2>1 DEF TransferFails, Drives!Fail, Drives!Next
  <1> QED BY <1>4, <1>5

LEMMA CompleteImplements ==
    ASSUME IInv, Complete
    PROVE  Drives!Next \/ DiskUnchanged
  <1> USE DEF IInv, Types
  <1>1. /\ thread.step = "complete" /\ thread'.step = "update" /\ UNCHANGED files
        /\ thread.result \in {"success", "failure"}
    BY ThreadFacts DEF Complete
  <1>2. /\ DiskContent' = DiskContent /\ DiskTransfer' = DiskTransfer /\ DiskCopied' = DiskCopied
        /\ DiskOutcome' = "none"
    BY <1>1, ContentKept DEF DiskTransfer, DiskCopied, DiskOutcome
  <1>3. CASE thread.unit = Manager
    BY <1>1, <1>2, <1>3 DEF DiskOutcome, DiskUnchanged
  <1>4. CASE thread.unit # Manager
    <2>1. DiskOutcome # "none"
      BY <1>1, <1>4 DEF DiskOutcome
    <2> QED BY <1>2, <2>1 DEF Drives!Acknowledge, Drives!Next
  <1> QED BY <1>3, <1>4

LEMMA StepImplementsDisk ==
    ASSUME IInv, IInv', [Next]_vars
    PROVE  [Drives!Next]_(Drives!vars)
  <1>1. DiskUnchanged => UNCHANGED Drives!vars
    BY DEF DiskUnchanged, Drives!vars
  <1>2. ASSUME UNCHANGED <<files, thread>> PROVE DiskUnchanged
    BY <1>2 DEF DiskUnchanged, DiskContent, DiskTransfer, DiskCopied, DiskOutcome
  <1>3. CASE Program \/ Handler \/ Waker \/ UNCHANGED vars
    <2>1. UNCHANGED <<files, thread>>
      BY <1>3 DEF Program, Handler, Waker, vars, Initiate, Access, Announce, UpdateRegister,
                  Locate, PostWake
    <2> QED BY <1>1, <1>2, <2>1
  <1>4. CASE Thread
    BY <1>1, <1>4, ManagerStutters, TakeDriveCommandBegins, ReadPieceImplements,
       WritePieceImplements, EndTransferImplements, CompleteImplements DEF Thread
  <1> QED BY <1>3, <1>4 DEF Next

LEMMA InitImplementsDisk == Init => Drives!Init
  <1> SUFFICES ASSUME Init PROVE Drives!Init
    OBVIOUS
  <1>1. IInv
    BY InitIInv
  <1>2. thread.step \in {"waiting", "boot"}
    BY DEF Init, Waiting
  <1>3. /\ DiskTransfer = Drives!NoTransfer /\ DiskCopied = Drives!NoPiece
        /\ DiskOutcome = "none"
    BY <1>2, OffDiskFacts DEF OffDisk
  <1>4. ASSUME NEW f \in Files, NEW i \in 0 .. MaxPieces - 1
        PROVE  (IF files[f].kind = "drive" /\ i < Len(files[f].data)
                THEN files[f].data[i + 1] ELSE Zero) \in Values
    <2>1. CASE files[f].kind = "drive" /\ i < Len(files[f].data)
      <3>1. files[f].data \in Contents
        BY <1>1, <2>1, FileFacts DEF IInv, Types
      <3>2. /\ files[f].data \in [1 .. Len(files[f].data) -> Values]
            /\ Len(files[f].data) \in 0 .. MaxPieces
        BY <3>1, ContentsFacts
      <3>3. i + 1 \in 1 .. Len(files[f].data)
        BY <2>1, <3>2, Parameters
      <3> QED BY <2>1, <3>2, <3>3
    <2>2. CASE ~ (files[f].kind = "drive" /\ i < Len(files[f].data))
      BY <2>2, Parameters
    <2> QED BY <2>1, <2>2
  <1>5. DiskContent \in [Files -> [0 .. MaxPieces - 1 -> Values]]
    BY <1>4 DEF DiskContent
  <1> QED BY <1>3, <1>5 DEF Drives!Init

(* For every geometry, file and history of commands, the drives are the     *)
(* abstract Disk: a transfer (st_handleDiskReadWriteWake) copies the sector *)
(* that is asked for, piece by piece and to the end where it reports        *)
(* success, and nothing else changes what a drive holds.                    *)
THEOREM ImplementsDisk == Spec => DiskSpec
  <1>1. IInv /\ IInv' /\ [Next]_vars => [Drives!Next]_(Drives!vars)
    BY StepImplementsDisk
  <1> QED BY <1>1, InitImplementsDisk, SpecIInv, PTL DEF Spec, DiskSpec, Drives!Spec
==============================================================================
