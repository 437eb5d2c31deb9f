--------------------------- MODULE DeviceRegistry ---------------------------
(***************************************************************************)
(* The device registry of the motherboard (src/src/motherboard.c): which   *)
(* devices exist, where their data lies in the device-data region, and the *)
(* registry table that shows them to the guest program.                    *)
(*                                                                         *)
(* At boot the managers request their devices one after the other, waiting *)
(* for each other.  From then on only the storage manager changes the      *)
(* registry, inserting and removing drives.  The processor looks devices   *)
(* up under deviceRegistryMutex, but stores to device data and reads the   *)
(* registry table without it, so the table is written one field at a time. *)
(*                                                                         *)
(* Addresses count bytes from the start of the device-data region.  The    *)
(* size and location fields of a table entry are one field here.  A guest  *)
(* that follows the documented protocol scans the table at power on and    *)
(* rereads an entry when a motherboard event names it.                     *)
(***************************************************************************)
EXTENDS Integers, Sequences, FiniteSets, SequencesExt

CONSTANTS
    MaxNumDevices,  \* entries of the table
    DataSize,       \* bytes of the device-data region
    Boot,           \* the devices requested at boot, in order: [size, canWrite, drive]
    DriveSize,      \* size of a drive's data
    DriveCanWrite,  \* the offsets of a drive's data a store may touch
    MaxDrives,      \* DARDRIVE_MAX_DRIVE_COUNT
    AccessSize,     \* how many bytes an access has: 1, 2 or 4
    Null,           \* the null pointer
    NoThread, Manager   \* holders of the mutex between steps

Id == 0 .. MaxNumDevices - 1
Address == 0 .. DataSize - 1

(* What mb_device_t says of a device that the properties tell apart. *)
Device == [start : Address, size : 1 .. DataSize, canWrite : SUBSET Address]

ASSUME RegistryAssumption ==
    /\ MaxNumDevices \in Nat /\ DataSize \in Nat \ {0}
    /\ Boot \in Seq([size : 1 .. DataSize, canWrite : SUBSET Address, drive : BOOLEAN])
    /\ Boot # <<>>
    /\ DriveSize \in 1 .. DataSize /\ DriveCanWrite \subseteq Address
    /\ MaxDrives \in Nat
    /\ AccessSize \subseteq Nat \ {0}
    /\ ~Boot[1].drive

(* 6 devices that stay and 16 drives need fewer than 32 entries. *)
ASSUME TableAssumption ==
    Cardinality({b \in 1 .. Len(Boot) : ~Boot[b].drive}) + MaxDrives < MaxNumDevices

(* The drives at boot are drives like those inserted later, and mb_init     *)
(* gives up when one of them finds no slot.                                 *)
ASSUME BootDrivesAssumption ==
    /\ \A b \in 1 .. Len(Boot) :
          Boot[b].drive => Boot[b].size = DriveSize /\ Boot[b].canWrite = DriveCanWrite
    /\ Cardinality({b \in 1 .. Len(Boot) : Boot[b].drive}) <= MaxDrives

ASSUME NullAssumption == Null \notin Device

VARIABLES
    deviceMappingData,   \* per id: the device, or Null
    memoryChain,         \* firstDeviceInMem and the nextInMem links
    entryType,           \* per table entry: its type field
    entryLocation,       \* per table entry: its size and location fields
    deviceRegistryMutex,
    powerState,
    booted,              \* how many boot devices were requested
    drives,              \* ids in the driveData of the storage manager
    step, id,            \* the manager thread: where it is, on which device
    cpuStep, cpuAddress, \* the processor's store to device data
    events,              \* ids named by motherboard events not yet handled
    guestStep, guestId, guestType, \* the guest's handler of an event
    known                \* per id: the location the guest believes in, or Null

registry == <<deviceMappingData, memoryChain>>
table == <<entryType, entryLocation>>
manager == <<booted, drives, step, id>>
processor == <<cpuStep, cpuAddress>>
guest == <<guestStep, guestId, guestType, known>>
vars == <<registry, table, deviceRegistryMutex, powerState, manager, processor,
          events, guest>>

EntryType == {"device", "empty", "end", "unwritten"}

TypeOK ==
    /\ deviceMappingData \in [Id -> Device \cup {Null}]
    /\ memoryChain \in Seq(Id)
    /\ entryType \in [Id -> EntryType]
    /\ entryLocation \in [Id -> Address \cup {Null}]
    /\ deviceRegistryMutex \in {NoThread, Manager}
    /\ powerState \in BOOLEAN
    /\ booted \in 0 .. Len(Boot)
    /\ drives \subseteq Id
    /\ step \in {"idle", "type", "location", "end", "added", "mark", "removed"}
    /\ id \in Id
    /\ cpuStep \in {"idle", "checked", "stored"}
    /\ cpuAddress \in Address
    /\ events \subseteq Id
    /\ guestStep \in {"idle", "type", "location"}
    /\ guestId \in Id
    /\ guestType \in EntryType
    /\ known \in [Id -> Address \cup {Null}]

Init ==
    /\ deviceMappingData = [i \in Id |-> Null]
    /\ memoryChain = <<>>
    /\ entryType = [i \in Id |-> "unwritten"]
    /\ entryLocation = [i \in Id |-> Null]
    /\ deviceRegistryMutex = NoThread
    /\ powerState = FALSE
    /\ booted = 0
    /\ drives = {}
    /\ step = "idle" /\ id = 0
    /\ cpuStep = "idle" /\ cpuAddress = 0
    /\ events = {}
    /\ guestStep = "idle" /\ guestId = 0 /\ guestType = "unwritten"
    /\ known = [i \in Id |-> Null]
-----------------------------------------------------------------------------
(* Devices and their place in memory. *)

Mapped == {i \in Id : deviceMappingData[i] # Null}
Start(i) == deviceMappingData[i].start
End(i) == deviceMappingData[i].start + deviceMappingData[i].size   \* first byte behind it

(* The device id that dmi_requestNewDevice gives out next. *)
FirstFreeId == CHOOSE i \in Id \ Mapped : \A j \in Id \ Mapped : i <= j

(* Faulty form: the end of the region is not tested. *)
FitsBehindUnbounded(size) ==
    {k \in DOMAIN memoryChain :
        k = Len(memoryChain) \/ End(memoryChain[k]) + size - 1 < Start(memoryChain[k])}

(* Faulty form: every place is compared with the end of the region. *)
FitsBehindAnywhere(size) ==
    {k \in DOMAIN memoryChain : End(memoryChain[k]) + size - 1 < DataSize}

(* The places in the chain behind which a device of that size would go: the *)
(* loop compares with the place's own start unless it is the last one.      *)
FitsBehind(size) ==
    {k \in DOMAIN memoryChain :
        End(memoryChain[k]) + size - 1 <
            IF k = Len(memoryChain) THEN DataSize ELSE Start(memoryChain[k])}

(* Faulty form: off by one. *)
FitsInFrontOfAny(size) == memoryChain = <<>> \/ size - 1 <= Start(memoryChain[1])
FitsInFront(size) == memoryChain = <<>> \/ size - 1 < Start(memoryChain[1])

CanPlace(size) == FitsInFront(size) \/ FitsBehind(size) # {}

(* The place a new device takes: 0 is the front of the chain. *)
PlaceFor(size) ==
    IF FitsInFront(size) THEN 0
    ELSE CHOOSE k \in FitsBehind(size) : \A j \in FitsBehind(size) : k <= j

PositionOf(i) == CHOOSE k \in DOMAIN memoryChain : memoryChain[k] = i

StartAt(place) == IF place = 0 THEN 0 ELSE End(memoryChain[place])

IsAtEndOfTable(i) == \A j \in Mapped : j <= i
-----------------------------------------------------------------------------
(* dmi_requestNewDevice: under the mutex the device gets an id and a patch  *)
(* of memory; then its table entry is written field by field, the end       *)
(* marker is moved, and, the mutex released, the interrupt is raised.       *)

Granted(size) == Mapped # Id /\ CanPlace(size)

Request(size, canWrite) ==
    /\ step = "idle"
    /\ deviceRegistryMutex = NoThread
    /\ IF Granted(size)
       THEN LET i == FirstFreeId
                place == PlaceFor(size)
            IN  /\ deviceMappingData' = [deviceMappingData EXCEPT ![i] =
                       [start |-> StartAt(place), size |-> size, canWrite |-> canWrite]]
                /\ memoryChain' = InsertAt(memoryChain, place + 1, i)
                /\ id' = i
                /\ step' = "type"
                /\ deviceRegistryMutex' = Manager
       ELSE UNCHANGED <<registry, id, step, deviceRegistryMutex>>
    /\ UNCHANGED <<table, powerState, processor, events, guest>>

RequestBootDevice ==
    /\ ~powerState /\ booted < Len(Boot)
    /\ LET b == Boot[booted + 1] IN
          /\ Request(b.size, b.canWrite)
          /\ booted' = booted + 1
          /\ drives' = IF b.drive /\ Granted(b.size) THEN drives \cup {id'} ELSE drives

(* A drive needs a slot in driveData, which holds MaxDrives. *)
InsertDrive ==
    /\ powerState
    /\ Cardinality(drives) < MaxDrives
    /\ Request(DriveSize, DriveCanWrite)
    /\ drives' = IF Granted(DriveSize) THEN drives \cup {id'} ELSE drives
    /\ UNCHANGED booted

WriteType ==
    /\ step = "type"
    /\ entryType' = [entryType EXCEPT ![id] = "device"]
    /\ step' = "location"
    /\ UNCHANGED <<registry, entryLocation, deviceRegistryMutex, powerState, booted, drives,
                   id, processor, events, guest>>

WriteLocation ==
    /\ step = "location"
    /\ entryLocation' = [entryLocation EXCEPT ![id] = Start(id)]
    /\ step' = "end"
    /\ UNCHANGED <<registry, entryType, deviceRegistryMutex, powerState, booted, drives,
                   id, processor, events, guest>>

(* Faulty form: the marker is written behind every new device. *)
WriteEndMarkerAlways ==
    /\ step = "end"
    /\ entryType' = [entryType EXCEPT ![id + 1] = "end"]
    /\ deviceRegistryMutex' = NoThread
    /\ step' = "added"
    /\ UNCHANGED <<registry, entryLocation, powerState, booted, drives, id,
                   processor, events, guest>>

(* There is always a next entry: see TableAssumption. *)
WriteEndMarker ==
    /\ step = "end"
    /\ entryType' = IF IsAtEndOfTable(id) THEN [entryType EXCEPT ![id + 1] = "end"]
                                          ELSE entryType
    /\ deviceRegistryMutex' = NoThread
    /\ step' = "added"
    /\ UNCHANGED <<registry, entryLocation, powerState, booted, drives, id,
                   processor, events, guest>>

(* Faulty form: the interrupt is raised while the power is off only. *)
SignalAddedAtBoot ==
    /\ step = "added"
    /\ events' = IF powerState THEN events ELSE events \cup {id}
    /\ step' = "idle" /\ id' = 0
    /\ UNCHANGED <<registry, table, deviceRegistryMutex, powerState, booted, drives,
                   processor, guest>>

SignalAdded ==
    /\ step = "added"
    /\ events' = IF powerState THEN events \cup {id} ELSE events
    /\ step' = "idle" /\ id' = 0
    /\ UNCHANGED <<registry, table, deviceRegistryMutex, powerState, booted, drives,
                   processor, guest>>
-----------------------------------------------------------------------------
(* dmi_removeDevice, called by st_removeDrive.  The device that is first in *)
(* memory leaves without a trace in the table and without an interrupt.     *)

RemoveDrive(i) ==
    /\ powerState
    /\ i \in drives
    /\ step = "idle"
    /\ deviceRegistryMutex = NoThread
    /\ deviceMappingData' = [deviceMappingData EXCEPT ![i] = Null]
    /\ memoryChain' = RemoveAt(memoryChain, PositionOf(i))
    /\ drives' = drives \ {i}
    /\ id' = i
    /\ IF memoryChain[1] = i
       THEN UNCHANGED <<step, deviceRegistryMutex>>
       ELSE step' = "mark" /\ deviceRegistryMutex' = Manager
    /\ UNCHANGED <<table, powerState, booted, processor, events, guest>>

MarkRemoved ==
    /\ step = "mark"
    /\ entryType' = [entryType EXCEPT ![id] = IF IsAtEndOfTable(id) THEN "end" ELSE "empty"]
    /\ step' = "removed"
    /\ UNCHANGED <<registry, entryLocation, deviceRegistryMutex, powerState, booted, drives,
                   id, processor, events, guest>>

SignalRemoved ==
    /\ step = "removed"
    /\ events' = events \cup {id}
    /\ deviceRegistryMutex' = NoThread
    /\ step' = "idle" /\ id' = 0
    /\ UNCHANGED <<registry, table, powerState, booted, drives,
                   processor, guest>>
-----------------------------------------------------------------------------
(* The processor's accesses.  FindDevice is the walk along the chain shared *)
(* by mb_readFromDeviceData, mb_canWriteToDeviceData and                    *)
(* mb_writeToDeviceData: the first device that holds all n bytes, unless a  *)
(* device behind the address comes first.                                   *)

Holds(i, a, n) == Start(i) <= a /\ a + n <= End(i)

(* Faulty form: only the first byte of the access is looked at. *)
FindDeviceOfFirstByte(a, n) ==
    IF \E i \in Mapped : Holds(i, a, 1) THEN CHOOSE i \in Mapped : Holds(i, a, 1) ELSE Null

FindDevice(a, n) ==
    LET stops == {k \in DOMAIN memoryChain :
                     Holds(memoryChain[k], a, n) \/ a < Start(memoryChain[k])}
        first == CHOOSE k \in stops : \A j \in stops : k <= j
    IN  IF stops # {} /\ Holds(memoryChain[first], a, n) THEN memoryChain[first] ELSE Null

(* Faulty form: the write map is indexed with the address in the region. *)
CheckStoreByAddress(a) ==
    /\ powerState
    /\ cpuStep = "idle"
    /\ deviceRegistryMutex = NoThread
    /\ FindDevice(a, 1) # Null
    /\ a % DriveSize \in deviceMappingData[FindDevice(a, 1)].canWrite
    /\ cpuStep' = "checked"
    /\ cpuAddress' = a
    /\ UNCHANGED <<registry, table, deviceRegistryMutex, powerState, manager, events, guest>>

(* mb_canWriteToDeviceData lets the store through. *)
CheckStore(a) ==
    /\ powerState
    /\ cpuStep = "idle"
    /\ deviceRegistryMutex = NoThread
    /\ FindDevice(a, 1) # Null
    /\ a - Start(FindDevice(a, 1)) \in deviceMappingData[FindDevice(a, 1)].canWrite
    /\ cpuStep' = "checked"
    /\ cpuAddress' = a
    /\ UNCHANGED <<registry, table, deviceRegistryMutex, powerState, manager, events, guest>>

(* The copy into memory, without the mutex. *)
Store ==
    /\ cpuStep = "checked"
    /\ cpuStep' = "stored"
    /\ UNCHANGED <<registry, table, deviceRegistryMutex, powerState, manager, cpuAddress,
                   events, guest>>

(* mb_writeToDeviceData hands it to the device found then, if there is one. *)
HandleStore ==
    /\ cpuStep = "stored"
    /\ deviceRegistryMutex = NoThread
    /\ cpuStep' = "idle" /\ cpuAddress' = 0
    /\ UNCHANGED <<registry, table, deviceRegistryMutex, powerState, manager, events, guest>>
-----------------------------------------------------------------------------
(* The guest program reads the table as it is documented. *)

Listed == {i \in Id : /\ entryType[i] = "device"
                      /\ \A j \in Id : j < i => entryType[j] # "end"}

Scan == [i \in Id |-> IF i \in Listed THEN entryLocation[i] ELSE Null]

(* mb_init is over; the guest's first scan meets no change, since changes   *)
(* are made on its commands only.                                           *)
PowerOn ==
    /\ ~powerState /\ booted = Len(Boot) /\ step = "idle"
    /\ powerState' = TRUE
    /\ known' = Scan
    /\ UNCHANGED <<registry, table, deviceRegistryMutex, manager, processor, events,
                   guestStep, guestId, guestType>>

TakeEvent ==
    /\ guestStep = "idle"
    /\ \E i \in events : guestId' = i /\ events' = events \ {i}
    /\ guestStep' = "type"
    /\ UNCHANGED <<registry, table, deviceRegistryMutex, powerState, manager, processor,
                   guestType, known>>

ReadType ==
    /\ guestStep = "type"
    /\ guestType' = entryType[guestId]
    /\ guestStep' = "location"
    /\ UNCHANGED <<registry, table, deviceRegistryMutex, powerState, manager, processor,
                   events, guestId, known>>

ReadLocation ==
    /\ guestStep = "location"
    /\ known' = [known EXCEPT ![guestId] =
                    IF guestType = "device" THEN entryLocation[guestId] ELSE Null]
    /\ guestStep' = "idle" /\ guestId' = 0 /\ guestType' = "unwritten"
    /\ UNCHANGED <<registry, table, deviceRegistryMutex, powerState, manager, processor,
                   events>>
-----------------------------------------------------------------------------
Next ==
    \/ RequestBootDevice \/ InsertDrive
    \/ WriteType \/ WriteLocation \/ WriteEndMarker \/ SignalAdded
    \/ \E i \in Id : RemoveDrive(i)
    \/ MarkRemoved \/ SignalRemoved
    \/ \E a \in Address : CheckStore(a)
    \/ Store \/ HandleStore
    \/ PowerOn \/ TakeEvent \/ ReadType \/ ReadLocation

Spec == Init /\ [][Next]_vars
-----------------------------------------------------------------------------
(* The chain links exactly the devices of the mapping, in the order of      *)
(* their addresses, and no two devices share a byte; all of them lie in the *)
(* device-data region.                                                      *)
MemoryPartitioned ==
    /\ {memoryChain[k] : k \in DOMAIN memoryChain} = Mapped
    /\ \A j, k \in DOMAIN memoryChain : j < k => End(memoryChain[j]) <= Start(memoryChain[k])
    /\ \A i \in Mapped : End(i) <= DataSize

(* An access is given to the device whose data it lies in, and one that     *)
(* crosses a border to none, however drives came and went before.           *)
LookupExact ==
    \A a \in Address, n \in AccessSize :
        FindDevice(a, n) = IF \E i \in Mapped : Holds(i, a, n)
                           THEN CHOOSE i \in Mapped : Holds(i, a, n)
                           ELSE Null

(* When no change is under way, scanning the table up to its end marker     *)
(* finds every device, where it is, and nothing else.                       *)
TableTruthful ==
    step = "idle" /\ booted > 0 =>
        /\ \E e \in Id : entryType[e] = "end" /\ \A j \in 0 .. e : entryType[j] # "unwritten"
        /\ Scan = [i \in Id |-> IF i \in Mapped THEN Start(i) ELSE Null]

(* A guest that has handled every motherboard event knows the devices, even *)
(* though it reads entries while they are rewritten.                        *)
GuestInformed ==
    powerState /\ step = "idle" /\ guestStep = "idle" /\ events = {} =>
        known = [i \in Id |-> IF i \in Mapped THEN Start(i) ELSE Null]

(* A store that was checked before its device was removed and another took  *)
(* its place still touches no register that is read-only.                   *)
StoreStaysWritable ==
    cpuStep = "checked" =>
        \A i \in Mapped : Holds(i, cpuAddress, 1) =>
            cpuAddress - Start(i) \in deviceMappingData[i].canWrite

(* The motherboard's own device stays the first in memory, so the branches  *)
(* that only the removal of the first device, or a gap in front of it, can  *)
(* reach are never taken.                                                   *)
MotherboardFirst == booted > 0 => memoryChain[1] = 0 /\ Start(0) = 0

FreePatch(size) ==
    \E a \in Address : a + size <= DataSize
                       /\ \A i \in Mapped : a + size <= Start(i) \/ End(i) <= a

(* "Find next available patch of memory" (motherboard.c): a request for a   *)
(* drive fails only when no patch of memory, or no id, is left.             *)
FailsOnlyWhenFull ==
    powerState /\ step = "idle" /\ ~Granted(DriveSize) => Mapped = Id \/ ~FreePatch(DriveSize)
=============================================================================
