---------------------- MODULE DeviceRegistryTableProofs ----------------------
(***************************************************************************)
(* More theorems about DeviceRegistry: the table the guest program reads,  *)
(* what the guest makes of it, and the stores of the processor.            *)
(***************************************************************************)
EXTENDS DeviceRegistryProofs

BootDevices(n) == {b \in 1 .. n : ~Boot[b].drive}
BootDrives(n) == {b \in 1 .. n : Boot[b].drive}

(* There are never more devices than requests of boot devices and slots for *)
(* drives.                                                                  *)
CountInv ==
    /\ Cardinality(Mapped \ drives) <= Cardinality(BootDevices(booted))
    /\ Cardinality(drives) <= MaxDrives
    /\ ~powerState => Cardinality(drives) <= Cardinality(BootDrives(booted))

Adding == step \in {"type", "location", "end"}

(* A device that is being added has the first id that was free.             *)
FillInv == Adding => id \in Mapped /\ 0 .. id - 1 \subseteq Mapped

(* The entries of devices and of unused ids, but for those the manager is   *)
(* about to write.                                                          *)
EntryInv ==
    /\ \A i \in Mapped :
          /\ entryType[i] = "device" \/ (i = id /\ step = "type")
          /\ entryLocation[i] = Start(i) \/ (i = id /\ step \in {"type", "location"})
    /\ \A i \in Id \ Mapped : entryType[i] = "device" <=> i = id /\ step = "mark"
    /\ step = "mark" => id \in Id \ Mapped

(* End markers lie behind all devices, and there is one in the written part *)
(* of the table, unless the last device's entry took its place just now.    *)
Written(i) == \A j \in 0 .. i : entryType[j] # "unwritten" \/ (j = id /\ step = "type")
Marked == \E e \in Id : entryType[e] = "end" /\ Written(e)
MarkerInv ==
    booted > 0 =>
        /\ \A i \in Mapped, j \in Id :
              entryType[j] = "end" => i < j \/ (i = id /\ j = id /\ step = "type")
        /\ Marked \/ (Adding /\ IsAtEndOfTable(id) /\ Written(id))

(* What the guest knows of a device is right, or about to be read again.    *)
Current(i) == IF i \in Mapped THEN Start(i) ELSE Null
Handling(i) == guestStep # "idle" /\ guestId = i
GuestInv ==
    IF powerState
    THEN \A i \in Id :
            \/ step # "idle" /\ id = i
            \/ i \in events
            \/ Handling(i) /\ (guestStep = "type" \/ (guestType = "device" <=> i \in Mapped))
            \/ ~Handling(i) /\ known[i] = Current(i)
    ELSE guestStep = "idle" /\ events = {} /\ step \notin {"mark", "removed"}

(* Behind the last device that stays, the drives lie side by side: one that *)
(* takes the place of another has its registers where the other had them.   *)
IsPlace(base, a) == \E k \in Nat : a = base + k * DriveSize
PlacesInv(base) ==
    /\ \E i \in Mapped \ drives : End(i) = base
    /\ \A i \in Mapped : End(i) <= base \/ (i \in drives /\ IsPlace(base, Start(i)))
CheckedInv(base) ==
    cpuStep = "checked" =>
        /\ powerState
        /\ IF cpuAddress < base
           THEN \A i \in Mapped : Holds(i, cpuAddress, 1) =>
                    cpuAddress - Start(i) \in deviceMappingData[i].canWrite
           ELSE \E k \in Nat : /\ cpuAddress - (base + k * DriveSize) \in DriveCanWrite
                               /\ cpuAddress - (base + k * DriveSize) \in 0 .. DriveSize - 1
DriveSlots ==
    \A i \in drives : /\ deviceMappingData[i].size = DriveSize
                      /\ deviceMappingData[i].canWrite = DriveCanWrite
StoreInv ==
    /\ DriveSlots
    /\ IF booted = 0 THEN cpuStep # "checked"
                     ELSE \E base \in Nat : PlacesInv(base) /\ CheckedInv(base)

-----------------------------------------------------------------------------
(* The parameters. *)

LEMMA TableParameters ==
    /\ MaxNumDevices \in Nat /\ MaxDrives \in Nat
    /\ \A n \in Nat : /\ IsFiniteSet(BootDevices(n)) /\ Cardinality(BootDevices(n)) \in Nat
                      /\ IsFiniteSet(BootDrives(n)) /\ Cardinality(BootDrives(n)) \in Nat
    /\ Cardinality(BootDevices(Len(Boot))) + MaxDrives < MaxNumDevices
    /\ Cardinality(BootDrives(Len(Boot))) <= MaxDrives
    /\ \A b \in 1 .. Len(Boot) :
          Boot[b].drive => Boot[b].size = DriveSize /\ Boot[b].canWrite = DriveCanWrite
  <1>1. ASSUME NEW n \in Nat
        PROVE  /\ IsFiniteSet(BootDevices(n)) /\ Cardinality(BootDevices(n)) \in Nat
               /\ IsFiniteSet(BootDrives(n)) /\ Cardinality(BootDrives(n)) \in Nat
    <2>1. IsFiniteSet(1 .. n)
      BY FS_Interval
    <2>2. BootDevices(n) \subseteq 1 .. n /\ BootDrives(n) \subseteq 1 .. n
      BY DEF BootDevices, BootDrives
    <2>3. IsFiniteSet(BootDevices(n)) /\ IsFiniteSet(BootDrives(n))
      BY <2>1, <2>2, FS_Subset
    <2> QED BY <2>3, FS_CardinalityType
  <1> QED BY <1>1, RegistryAssumption, TableAssumption, BootDrivesAssumption
          DEF RegistryAssumption, TableAssumption, BootDrivesAssumption, BootDevices, BootDrives

(* One more request adds one device or one drive to those at boot. *)
LEMMA OneMoreBooted ==
    ASSUME NEW n \in 0 .. Len(Boot) - 1
    PROVE  IF Boot[n + 1].drive
           THEN /\ Cardinality(BootDrives(n + 1)) = Cardinality(BootDrives(n)) + 1
                /\ Cardinality(BootDevices(n + 1)) = Cardinality(BootDevices(n))
           ELSE /\ Cardinality(BootDevices(n + 1)) = Cardinality(BootDevices(n)) + 1
                /\ Cardinality(BootDrives(n + 1)) = Cardinality(BootDrives(n))
  <1>0. n \in Nat
    BY ParameterFacts
  <1>1. IsFiniteSet(BootDevices(n)) /\ IsFiniteSet(BootDrives(n))
    BY <1>0, TableParameters
  <1>2. 1 .. n + 1 = (1 .. n) \cup {n + 1} /\ n + 1 \notin 1 .. n
    BY <1>0
  <1>3. CASE Boot[n + 1].drive
    <2>1. BootDrives(n + 1) = BootDrives(n) \cup {n + 1} /\ n + 1 \notin BootDrives(n)
      BY <1>2, <1>3 DEF BootDrives
    <2>2. BootDevices(n + 1) = BootDevices(n)
      BY <1>2, <1>3 DEF BootDevices
    <2> QED BY <1>0, <1>1, <1>3, <2>1, <2>2, FS_AddElement
  <1>4. CASE ~Boot[n + 1].drive
    <2>1. BootDevices(n + 1) = BootDevices(n) \cup {n + 1} /\ n + 1 \notin BootDevices(n)
      BY <1>2, <1>4 DEF BootDevices
    <2>2. BootDrives(n + 1) = BootDrives(n)
      BY <1>2, <1>4 DEF BootDrives
    <2> QED BY <1>1, <1>4, <2>1, <2>2, FS_AddElement
  <1> QED BY <1>3, <1>4

LEMMA BootSetsGrow ==
    ASSUME NEW n \in 0 .. Len(Boot)
    PROVE  /\ Cardinality(BootDevices(n)) <= Cardinality(BootDevices(Len(Boot)))
           /\ Cardinality(BootDrives(n)) <= Cardinality(BootDrives(Len(Boot)))
  <1>0. Len(Boot) \in Nat
    BY ParameterFacts
  <1>1. IsFiniteSet(BootDevices(Len(Boot))) /\ IsFiniteSet(BootDrives(Len(Boot)))
    BY <1>0, TableParameters
  <1>2. /\ BootDevices(n) \subseteq BootDevices(Len(Boot))
        /\ BootDrives(n) \subseteq BootDrives(Len(Boot))
    BY <1>0 DEF BootDevices, BootDrives
  <1> QED BY <1>1, <1>2, FS_Subset
-----------------------------------------------------------------------------
(* What the steps that change the registry do. *)

LEMMA RequestStep ==
    ASSUME IInv, RequestBootDevice \/ InsertDrive
    PROVE  /\ step = "idle" /\ booted' > 0
           /\ UNCHANGED <<table, powerState, processor, events, guest>>
           /\ \/ /\ UNCHANGED <<registry, id, step, drives>> /\ Mapped' = Mapped /\ booted > 0
              \/ /\ id' \in Id \ Mapped /\ Mapped' = Mapped \cup {id'}
                 /\ step' = "type"
                 /\ \A i \in Id \ Mapped : id' <= i
                 /\ \A i \in Mapped : deviceMappingData'[i] = deviceMappingData[i]
                 /\ drives' \in {drives, drives \cup {id'}}
  <1>1. PICK size \in 1 .. DataSize, canWrite \in SUBSET Address :
            /\ Request(size, canWrite)
            /\ drives' \in {drives, drives \cup {id'}}
            /\ ~Granted(size) => drives' = drives
            /\ booted' > 0
            /\ Granted(size) \/ booted > 0
    <2>1. CASE RequestBootDevice
      <3> DEFINE b == Boot[booted + 1]
      <3>1. /\ booted \in 0 .. Len(Boot) - 1 /\ booted' = booted + 1 /\ Request(b.size, b.canWrite)
            /\ drives' = IF b.drive /\ Granted(b.size) THEN drives \cup {id'} ELSE drives
        BY <2>1, ParameterFacts DEF RequestBootDevice, IInv, TypeOK
      <3>2. b.size \in 1 .. DataSize /\ b.canWrite \in SUBSET Address
        BY <3>1, ParameterFacts
      <3>3. ASSUME booted = 0 PROVE Granted(b.size)
        <4>1. Mapped = {}
          BY <3>3 DEF IInv, BootState
        <4>2. DOMAIN memoryChain = {}
          BY <4>1 DEF IInv, MemoryPartitioned
        <4>3. memoryChain = <<>>
          BY <4>2, LenProperties, EmptySeq, ChainFacts DEF IInv
        <4> QED BY <4>1, <4>3, ParameterFacts DEF Granted, CanPlace, FitsInFront
      <3> HIDE DEF b
      <3>4. booted' > 0 /\ (booted = 0 \/ booted > 0)
        BY <3>1
      <3> QED BY <3>1, <3>2, <3>3, <3>4
    <2>2. CASE InsertDrive
      <3>1. /\ Request(DriveSize, DriveCanWrite) /\ booted' = booted /\ powerState
            /\ drives' = IF Granted(DriveSize) THEN drives \cup {id'} ELSE drives
        BY <2>2 DEF InsertDrive
      <3>2. booted # 0 /\ booted \in Nat
        BY <3>1, ParameterFacts DEF IInv, BootState, TypeOK
      <3> QED BY <3>1, <3>2, ParameterFacts
    <2> QED BY <2>1, <2>2
  <1>2. step = "idle" /\ UNCHANGED <<table, powerState, processor, events, guest>>
    BY <1>1 DEF Request
  <1>3. CASE Granted(size)
    <2>1. /\ id' \in Id \ Mapped /\ Mapped' = Mapped \cup {id'}
          /\ id' = FirstFreeId /\ step' = "type"
          /\ \A i \in Mapped : deviceMappingData'[i] = deviceMappingData[i]
      BY <1>1, <1>3, RequestFacts
    <2>2. \A i \in Id \ Mapped : FirstFreeId <= i
      BY <1>3, FirstFreeIdFacts DEF IInv, Granted
    <2> QED BY <1>1, <1>2, <2>1, <2>2
  <1>4. CASE ~Granted(size)
    <2>1. UNCHANGED <<registry, id, step>> /\ Mapped' = Mapped
      BY <1>1, <1>4, RequestFacts
    <2> QED BY <1>1, <1>2, <1>4, <2>1
  <1> QED BY <1>3, <1>4

(* The branch for the first device in memory is not taken. *)
LEMMA RemoveStep ==
    ASSUME IInv, NEW i \in Id, RemoveDrive(i)
    PROVE  /\ i \in drives /\ i \in Mapped /\ i # 0
           /\ powerState /\ booted # 0 /\ step = "idle"
           /\ id' = i /\ step' = "mark"
           /\ Mapped' = Mapped \ {i} /\ drives' = drives \ {i}
           /\ \A j \in Mapped \ {i} : deviceMappingData'[j] = deviceMappingData[j]
           /\ UNCHANGED <<table, powerState, booted, processor, events, guest>>
  <1>1. i \in drives /\ powerState /\ step = "idle"
    BY DEF RemoveDrive
  <1>2. i \in Mapped /\ booted # 0 /\ 0 \notin drives /\ memoryChain[1] = 0
    BY <1>1, ParameterFacts DEF IInv, BootState, MotherboardFirst, TypeOK
  <1>3. /\ Mapped' = Mapped \ {i}
        /\ \A j \in Mapped \ {i} : deviceMappingData'[j] = deviceMappingData[j]
    BY <1>2, RemoveKeepsOrder DEF RemoveDrive, IInv
  <1> QED BY <1>1, <1>2, <1>3 DEF RemoveDrive
-----------------------------------------------------------------------------
(* The number of devices. *)

LEMMA MappedFinite ==
    ASSUME TypeOK
    PROVE  /\ IsFiniteSet(Mapped) /\ Cardinality(Mapped) \in Nat
           /\ IsFiniteSet(drives) /\ Cardinality(drives) \in Nat
           /\ IsFiniteSet(Mapped \ drives) /\ Cardinality(Mapped \ drives) \in Nat
  <1>1. IsFiniteSet(Id)
    <2>1. 0 \in Int /\ MaxNumDevices - 1 \in Int
      BY ParameterFacts
    <2> QED BY <2>1, FS_Interval DEF Id
  <1>2. Mapped \subseteq Id /\ drives \subseteq Id /\ Mapped \ drives \subseteq Id
    BY DEF Mapped, TypeOK
  <1>3. IsFiniteSet(Mapped) /\ IsFiniteSet(drives) /\ IsFiniteSet(Mapped \ drives)
    BY <1>1, <1>2, FS_Subset
  <1> QED BY <1>3, FS_CardinalityType

LEMMA BootRequestCount ==
    ASSUME IInv, CountInv, RequestBootDevice
    PROVE  CountInv'
  <1> DEFINE b == Boot[booted + 1]
  <1>1. /\ booted \in 0 .. Len(Boot) - 1 /\ booted' = booted + 1 /\ Request(b.size, b.canWrite)
        /\ drives' = IF b.drive /\ Granted(b.size) THEN drives \cup {id'} ELSE drives
        /\ ~powerState /\ powerState' = powerState
    BY ParameterFacts DEF RequestBootDevice, Request, IInv, TypeOK
  <1>2. b.size \in 1 .. DataSize /\ b.canWrite \in SUBSET Address
    BY <1>1, ParameterFacts
  <1>3. /\ Granted(b.size) => id' \in Id \ Mapped /\ Mapped' = Mapped \cup {id'}
        /\ ~Granted(b.size) => Mapped' = Mapped
    BY <1>1, <1>2, RequestFacts
  <1> DEFINE Stay == BootDevices(booted)
             Drives == BootDrives(booted)
             MoreStay == BootDevices(booted + 1)
             MoreDrives == BootDrives(booted + 1)
  <1>4. IF b.drive
        THEN /\ Cardinality(MoreDrives) = Cardinality(Drives) + 1
             /\ Cardinality(MoreStay) = Cardinality(Stay)
        ELSE /\ Cardinality(MoreStay) = Cardinality(Stay) + 1
             /\ Cardinality(MoreDrives) = Cardinality(Drives)
    BY <1>1, OneMoreBooted
  <1>5. /\ Cardinality(Stay) \in Nat /\ Cardinality(Drives) \in Nat
        /\ Cardinality(MoreDrives) \in Nat /\ Cardinality(MoreDrives) <= MaxDrives
        /\ MaxDrives \in Nat
    <2>1. booted + 1 \in 0 .. Len(Boot) /\ booted \in Nat /\ booted + 1 \in Nat /\ Len(Boot) \in Nat
      BY <1>1, ParameterFacts
    <2>2. Cardinality(BootDrives(Len(Boot))) \in Nat
      BY <2>1, TableParameters
    <2>3. Cardinality(MoreDrives) <= Cardinality(BootDrives(Len(Boot)))
      BY <2>1, BootSetsGrow
    <2>4. Cardinality(BootDrives(Len(Boot))) <= MaxDrives /\ MaxDrives \in Nat
      BY TableParameters
    <2>5. /\ Cardinality(Stay) \in Nat /\ Cardinality(Drives) \in Nat
          /\ Cardinality(MoreDrives) \in Nat
      BY <2>1, TableParameters
    <2> QED BY <2>2, <2>3, <2>4, <2>5
  <1>6. /\ Cardinality(Mapped \ drives) <= Cardinality(Stay)
        /\ Cardinality(drives) <= Cardinality(Drives)
    BY <1>1 DEF CountInv
  <1>7. /\ IsFiniteSet(drives) /\ Cardinality(drives) \in Nat
        /\ IsFiniteSet(Mapped \ drives) /\ Cardinality(Mapped \ drives) \in Nat
        /\ drives \subseteq Mapped
    BY MappedFinite DEF IInv
  <1>8. /\ BootDevices(booted)' = MoreStay /\ BootDrives(booted)' = MoreDrives
    BY <1>1 DEF BootDevices, BootDrives
  <1>9. SUFFICES /\ Cardinality(Mapped' \ drives') <= Cardinality(MoreStay)
                 /\ Cardinality(drives') <= Cardinality(MoreDrives)
                 /\ Cardinality(drives') <= MaxDrives
    BY <1>8 DEF CountInv
  <1> HIDE DEF b, Stay, Drives, MoreStay, MoreDrives
  <1>10. CASE ~Granted(b.size)
    <2>1. Mapped' = Mapped /\ drives' = drives
      BY <1>1, <1>3, <1>10
    <2> QED BY <2>1, <1>4, <1>5, <1>6, <1>7
  <1>11. CASE Granted(b.size) /\ b.drive
    <2>1. /\ drives' = drives \cup {id'} /\ id' \notin drives
          /\ Mapped' \ drives' = Mapped \ drives
      BY <1>1, <1>3, <1>7, <1>11
    <2>2. Cardinality(drives \cup {id'}) = Cardinality(drives) + 1
      BY <1>7, <2>1, FS_AddElement
    <2>3. Cardinality(drives') <= Cardinality(MoreDrives)
      BY <1>4, <1>5, <1>6, <1>7, <1>11, <2>1, <2>2
    <2>4. Cardinality(drives') <= MaxDrives
      BY <1>5, <1>7, <2>1, <2>2, <2>3
    <2> QED BY <1>4, <1>6, <1>11, <2>1, <2>3, <2>4
  <1>12. CASE Granted(b.size) /\ ~b.drive
    <2>1. /\ drives' = drives
          /\ Mapped' \ drives' = (Mapped \ drives) \cup {id'} /\ id' \notin Mapped \ drives
      BY <1>1, <1>3, <1>7, <1>12
    <2>2. Cardinality((Mapped \ drives) \cup {id'}) = Cardinality(Mapped \ drives) + 1
      BY <1>7, <2>1, FS_AddElement
    <2>3. Cardinality(Mapped' \ drives') <= Cardinality(MoreStay)
      <3>1. Cardinality(MoreStay) = Cardinality(Stay) + 1
        BY <1>4, <1>12
      <3>2. Cardinality(Mapped' \ drives') = Cardinality(Mapped \ drives) + 1
        BY <2>1, <2>2
      <3> QED BY <1>5, <1>6, <1>7, <3>1, <3>2
    <2>4. Cardinality(drives') <= Cardinality(MoreDrives)
      BY <1>4, <1>6, <1>12, <2>1
    <2> QED BY <1>5, <1>7, <2>1, <2>3, <2>4
  <1> QED BY <1>10, <1>11, <1>12

LEMMA InsertDriveCount ==
    ASSUME IInv, CountInv, InsertDrive
    PROVE  CountInv'
  <1>1. /\ booted' = booted /\ powerState /\ powerState' = powerState
        /\ Cardinality(drives) < MaxDrives
        /\ drives' = IF Granted(DriveSize) THEN drives \cup {id'} ELSE drives
    BY DEF InsertDrive, Request
  <1>2. /\ Granted(DriveSize) => id' \in Id \ Mapped /\ Mapped' = Mapped \cup {id'}
        /\ ~Granted(DriveSize) => Mapped' = Mapped
    BY RequestFacts, ParameterFacts DEF InsertDrive
  <1>3. IsFiniteSet(drives) /\ Cardinality(drives) \in Nat /\ drives \subseteq Mapped
    BY MappedFinite DEF IInv
  <1>4. Cardinality(drives \cup {id'}) \in {Cardinality(drives), Cardinality(drives) + 1}
    BY <1>3, FS_AddElement
  <1>5. Cardinality(drives') <= MaxDrives
    <2>1. Cardinality(drives') \in {Cardinality(drives), Cardinality(drives) + 1}
      BY <1>1, <1>4
    <2>2. MaxDrives \in Nat
      BY TableParameters
    <2> QED BY <1>1, <1>3, <2>1, <2>2
  <1>6. Mapped' \ drives' = Mapped \ drives
    BY <1>1, <1>2, <1>3
  <1>7. BootDevices(booted)' = BootDevices(booted)
    BY <1>1 DEF BootDevices
  <1> QED BY <1>1, <1>5, <1>6, <1>7 DEF CountInv

LEMMA RemoveDriveCount ==
    ASSUME IInv, CountInv, NEW i \in Id, RemoveDrive(i)
    PROVE  CountInv'
  <1>1. /\ booted' = booted /\ powerState /\ powerState' = powerState
        /\ i \in drives /\ Mapped' = Mapped \ {i} /\ drives' = drives \ {i}
    BY RemoveStep
  <1>2. IsFiniteSet(drives) /\ Cardinality(drives) \in Nat
    BY MappedFinite DEF IInv
  <1>3. Cardinality(drives \ {i}) = Cardinality(drives) - 1
    BY <1>1, <1>2, FS_RemoveElement
  <1>4. Cardinality(drives') <= MaxDrives
    BY <1>1, <1>2, <1>3, TableParameters DEF CountInv
  <1>5. Mapped' \ drives' = Mapped \ drives
    BY <1>1
  <1>6. BootDevices(booted)' = BootDevices(booted)
    BY <1>1 DEF BootDevices
  <1> QED BY <1>1, <1>4, <1>5, <1>6 DEF CountInv

(* TableAssumption: behind the last of the devices there is an unused entry. *)
LEMMA RoomForMarker ==
    ASSUME IInv, CountInv, FillInv, Adding
    PROVE  id + 1 \in Id
  <1>1. /\ IsFiniteSet(Mapped) /\ Cardinality(Mapped) \in Nat
        /\ IsFiniteSet(drives) /\ Cardinality(drives) \in Nat
        /\ IsFiniteSet(Mapped \ drives) /\ Cardinality(Mapped \ drives) \in Nat
        /\ drives \subseteq Mapped
    BY MappedFinite DEF IInv
  <1>2. Cardinality(Mapped) = Cardinality(Mapped \ drives) + Cardinality(drives)
    <2>1. /\ Mapped = (Mapped \ drives) \cup drives
          /\ (Mapped \ drives) \cap drives = {}
      BY <1>1
    <2>2. Cardinality((Mapped \ drives) \cup drives) =
              Cardinality(Mapped \ drives) + Cardinality(drives)
                  - Cardinality((Mapped \ drives) \cap drives)
      BY <1>1, FS_Union
    <2>3. Cardinality((Mapped \ drives) \cap drives) = 0
      BY <2>1, FS_EmptySet
    <2> QED BY <1>1, <2>1, <2>2, <2>3
  <1>3. Cardinality(Mapped) < MaxNumDevices
    <2>1. booted \in 0 .. Len(Boot) /\ Len(Boot) \in Nat
      BY ParameterFacts DEF IInv, TypeOK
    <2>2. /\ Cardinality(BootDevices(booted)) \in Nat
          /\ Cardinality(BootDevices(Len(Boot))) \in Nat
      BY <2>1, TableParameters
    <2>3. /\ Cardinality(BootDevices(booted)) <= Cardinality(BootDevices(Len(Boot)))
          /\ Cardinality(BootDevices(Len(Boot))) + MaxDrives < MaxNumDevices
          /\ MaxDrives \in Nat /\ MaxNumDevices \in Nat
      BY <2>1, BootSetsGrow, TableParameters
    <2>4. /\ Cardinality(Mapped \ drives) <= Cardinality(BootDevices(booted))
          /\ Cardinality(drives) <= MaxDrives
      BY DEF CountInv
    <2> QED BY <1>1, <1>2, <2>2, <2>3, <2>4
  <1>4. id \in Nat /\ 0 .. id \subseteq Mapped
    <2>1. id \in Nat
      BY ParameterFacts DEF IInv, TypeOK, Id
    <2>2. id \in Mapped /\ 0 .. id - 1 \subseteq Mapped
      BY DEF FillInv
    <2>3. 0 .. id = (0 .. id - 1) \cup {id}
      BY <2>1
    <2> QED BY <2>1, <2>2, <2>3
  <1>5. Cardinality(0 .. id) = id + 1
    <2>1. Cardinality(0 .. id) = IF 0 > id THEN 0 ELSE id - 0 + 1
      BY <1>4, FS_Interval
    <2> QED BY <1>4, <2>1
  <1>6. Cardinality(0 .. id) <= Cardinality(Mapped)
    BY <1>1, <1>4, FS_Subset
  <1> QED BY <1>1, <1>3, <1>4, <1>5, <1>6, ParameterFacts DEF Id
-----------------------------------------------------------------------------
(* The table. *)

TableInv == CountInv /\ FillInv /\ EntryInv /\ MarkerInv

(* The registry's part of TypeOK, and the table's. *)
LEMMA TableTypes ==
    ASSUME TypeOK
    PROVE  /\ entryType \in [Id -> EntryType] /\ entryLocation \in [Id -> Address \cup {Null}]
           /\ id \in Id /\ Id \subseteq Nat /\ Mapped \subseteq Id
           /\ booted \in Nat
  <1>1. booted \in Nat
    BY ParameterFacts DEF TypeOK
  <1> QED BY <1>1, ParameterFacts DEF TypeOK, Mapped, Id

LEMMA IdPrefix ==
    ASSUME NEW i \in Id
    PROVE  i \in Nat /\ 0 .. i \subseteq Id
  <1>1. MaxNumDevices \in Nat
    BY ParameterFacts
  <1> QED BY <1>1 DEF Id

LEMMA RequestTable ==
    ASSUME IInv, TableInv, RequestBootDevice \/ InsertDrive
    PROVE  FillInv' /\ EntryInv' /\ MarkerInv'
  <1>1. /\ entryType \in [Id -> EntryType] /\ Id \subseteq Nat /\ Mapped \subseteq Id
        /\ booted \in Nat
    BY TableTypes DEF IInv
  <1>2. step = "idle" /\ UNCHANGED <<entryType, entryLocation>>
    BY RequestStep DEF table
  <1>3. booted > 0 => Marked
    BY <1>2 DEF TableInv, MarkerInv, Adding
  <1>4. CASE UNCHANGED <<registry, id, step, drives>> /\ Mapped' = Mapped /\ booted > 0
    <2>1. UNCHANGED <<deviceMappingData, id, step>>
      BY <1>4 DEF registry
    <2>2. FillInv' /\ EntryInv'
      BY <1>2, <1>4, <2>1 DEF TableInv, FillInv, EntryInv, Adding, Start
    <2>3. MarkerInv'
      BY <1>2, <1>4, <2>1
         DEF TableInv, MarkerInv, Marked, Written, Adding, IsAtEndOfTable
    <2> QED BY <2>2, <2>3
  <1>5. CASE /\ id' \in Id \ Mapped /\ Mapped' = Mapped \cup {id'}
             /\ step' = "type"
             /\ \A i \in Id \ Mapped : id' <= i
             /\ \A i \in Mapped : deviceMappingData'[i] = deviceMappingData[i]
    <2>1. id' \in Nat /\ 0 .. id' \subseteq Id
      BY <1>5, IdPrefix
    <2>2. FillInv'
      <3>1. \A j \in Id : j \notin Mapped => id' <= j
        BY <1>5
      <3>2. \A j \in 0 .. id' - 1 : j \in Id /\ ~(id' <= j)
        <4>1. PICK n : n = id'
          OBVIOUS
        <4>2. n \in Nat
          BY <2>1, <4>1
        <4>3. \A j \in 0 .. n - 1 : j \in 0 .. n /\ ~(n <= j)
          BY <4>2
        <4>4. 0 .. n \subseteq Id
          BY <2>1, <4>1
        <4> QED BY <4>1, <4>3, <4>4
      <3>3. 0 .. id' - 1 \subseteq Mapped
        BY <3>1, <3>2
      <3> QED BY <1>5, <3>3 DEF FillInv
    <2>3. EntryInv'
      <3>1. ASSUME NEW i \in Mapped
            PROVE  entryType'[i] = "device" /\ entryLocation'[i] = Start(i)'
        BY <1>2, <1>5 DEF TableInv, EntryInv, Start
      <3>2. ASSUME NEW i \in Id \ Mapped PROVE entryType'[i] # "device"
        BY <1>2 DEF TableInv, EntryInv
      <3> QED BY <1>5, <3>1, <3>2 DEF EntryInv
    <2>4. ASSUME NEW i \in Mapped', NEW j \in Id, entryType'[j] = "end"
          PROVE  i < j \/ (i = id' /\ j = id' /\ step' = "type")
      <3>1. booted = 0 => Mapped = {}
        BY DEF IInv, BootState
      <3>2. booted = 0 => id' = 0
        BY <1>1, <1>5, <3>1, ParameterFacts
      <3>3. ASSUME booted > 0, NEW k \in Mapped PROVE k < j
        BY <1>2, <2>4, <3>3 DEF TableInv, MarkerInv
      <3>4. CASE i \in Mapped
        <4>1. booted > 0
          BY <1>1, <3>1, <3>4
        <4> QED BY <3>3, <3>4, <4>1
      <3>5. CASE i = id'
        <4>1. j < id' => j \in Mapped
          BY <1>1, <1>5
        <4>2. j \in Nat /\ id' \in Nat
          BY <1>1, <1>5
        <4>3. ~(j < id')
          BY <1>1, <3>2, <3>3, <4>1, <4>2
        <4> QED BY <1>5, <3>5, <4>2, <4>3
      <3> QED BY <1>5, <3>4, <3>5
    <2>5. booted > 0 => Marked'
      BY <1>2, <1>3, <1>5 DEF Marked, Written
    <2>6. booted = 0 => (Adding /\ IsAtEndOfTable(id) /\ Written(id))'
      <3> SUFFICES ASSUME booted = 0 PROVE (Adding /\ IsAtEndOfTable(id) /\ Written(id))'
        OBVIOUS
      <3>1. Mapped = {}
        BY DEF IInv, BootState
      <3>2. id' = 0
        BY <1>1, <1>5, <3>1, ParameterFacts
      <3> QED BY <1>5, <3>1, <3>2 DEF Adding, IsAtEndOfTable, Written
    <2>7. booted = 0 \/ booted > 0
      BY <1>1
    <2>8. MarkerInv'
      BY <2>4, <2>5, <2>6, <2>7 DEF MarkerInv
    <2> QED BY <2>2, <2>3, <2>8
  <1> QED BY <1>4, <1>5, RequestStep

LEMMA WriteTypeTable ==
    ASSUME IInv, TableInv, WriteType
    PROVE  FillInv' /\ EntryInv' /\ MarkerInv'
  <1>1. /\ entryType \in [Id -> EntryType] /\ id \in Id /\ Id \subseteq Nat /\ Mapped \subseteq Id
    BY TableTypes DEF IInv
  <1>2. /\ step = "type" /\ step' = "location" /\ id' = id /\ booted' = booted
        /\ deviceMappingData' = deviceMappingData /\ Mapped' = Mapped
        /\ entryLocation' = entryLocation
        /\ entryType'[id] = "device"
        /\ \A i \in Id \ {id} : entryType'[i] = entryType[i]
    BY <1>1 DEF WriteType, registry, Mapped
  <1>3. FillInv'
    BY <1>2 DEF TableInv, FillInv, Adding
  <1>4. id \in Mapped
    BY <1>2 DEF TableInv, FillInv, Adding
  <1>5. EntryInv'
    BY <1>1, <1>2, <1>4 DEF TableInv, EntryInv, Start
  <1>6. MarkerInv'
    <2> SUFFICES ASSUME booted > 0
                 PROVE  /\ \A i \in Mapped, j \in Id : entryType'[j] = "end" => i < j
                        /\ Marked' \/ (Adding /\ IsAtEndOfTable(id) /\ Written(id))'
      BY <1>2 DEF MarkerInv
    <2>1. ASSUME NEW i \in Mapped, NEW j \in Id, entryType'[j] = "end" PROVE i < j
      BY <1>2, <2>1 DEF TableInv, MarkerInv
    <2>2. ASSUME NEW e \in Id, Written(e)
          PROVE  \A j \in 0 .. e : entryType'[j] # "unwritten"
      <3>1. 0 .. e \subseteq Id
        BY IdPrefix
      <3> QED BY <1>2, <2>2, <3>1 DEF Written
    <2>3. IsAtEndOfTable(id)' <=> IsAtEndOfTable(id)
      BY <1>2 DEF IsAtEndOfTable
    <2>4. CASE Marked
      <3>1. PICK e \in Id : entryType[e] = "end" /\ Written(e)
        BY <2>4 DEF Marked
      <3>2. CASE e = id
        <4>1. \A i \in Mapped : i <= id
          BY <1>1, <3>1, <3>2 DEF TableInv, MarkerInv
        <4>2. Written(id)'
          BY <1>1, <1>2, <2>2, <3>1, <3>2 DEF Written
        <4> QED BY <1>2, <2>1, <2>3, <4>1, <4>2 DEF Adding, IsAtEndOfTable
      <3>3. CASE e # id
        BY <1>2, <2>1, <2>2, <3>1, <3>3 DEF Marked, Written
      <3> QED BY <3>2, <3>3
    <2>5. CASE IsAtEndOfTable(id) /\ Written(id)
      <3>1. Written(id)'
        BY <1>1, <1>2, <2>2, <2>5 DEF Written
      <3> QED BY <1>2, <2>1, <2>3, <2>5, <3>1 DEF Adding
    <2> QED BY <2>1, <2>4, <2>5 DEF TableInv, MarkerInv
  <1> QED BY <1>3, <1>5, <1>6

LEMMA WriteLocationTable ==
    ASSUME IInv, TableInv, WriteLocation
    PROVE  FillInv' /\ EntryInv' /\ MarkerInv'
  <1>1. /\ entryLocation \in [Id -> Address \cup {Null}] /\ id \in Id /\ Mapped \subseteq Id
    BY TableTypes DEF IInv
  <1>2. /\ step = "location" /\ step' = "end" /\ id' = id /\ booted' = booted
        /\ deviceMappingData' = deviceMappingData /\ Mapped' = Mapped
        /\ entryType' = entryType
        /\ entryLocation'[id] = Start(id)
        /\ \A i \in Id \ {id} : entryLocation'[i] = entryLocation[i]
    BY <1>1 DEF WriteLocation, registry, Mapped
  <1>3. FillInv'
    BY <1>2 DEF TableInv, FillInv, Adding
  <1>4. EntryInv'
    BY <1>1, <1>2 DEF TableInv, EntryInv, Start
  <1>5. MarkerInv'
    BY <1>2 DEF TableInv, MarkerInv, Marked, Written, Adding, IsAtEndOfTable
  <1> QED BY <1>3, <1>4, <1>5

LEMMA WriteEndMarkerTable ==
    ASSUME IInv, TableInv, WriteEndMarker
    PROVE  FillInv' /\ EntryInv' /\ MarkerInv'
  <1>1. /\ entryType \in [Id -> EntryType] /\ id \in Id /\ Id \subseteq Nat /\ Mapped \subseteq Id
    BY TableTypes DEF IInv
  <1>2. /\ step = "end" /\ step' = "added" /\ id' = id /\ booted' = booted
        /\ deviceMappingData' = deviceMappingData /\ Mapped' = Mapped
        /\ entryLocation' = entryLocation
        /\ entryType' = IF IsAtEndOfTable(id) THEN [entryType EXCEPT ![id + 1] = "end"]
                                              ELSE entryType
    BY DEF WriteEndMarker, registry, Mapped
  <1>3. id + 1 \in Id /\ id \in Mapped
    BY <1>2, RoomForMarker DEF TableInv, FillInv, Adding
  <1>4. FillInv'
    BY <1>2 DEF FillInv, Adding
  <1>5. CASE ~IsAtEndOfTable(id)
    <2>1. entryType' = entryType
      BY <1>2, <1>5
    <2>2. EntryInv'
      BY <1>2, <2>1 DEF TableInv, EntryInv, Start
    <2>3. MarkerInv'
      BY <1>2, <1>5, <2>1 DEF TableInv, MarkerInv, Marked, Written
    <2> QED BY <1>4, <2>2, <2>3
  <1>6. CASE IsAtEndOfTable(id)
    <2>1. /\ entryType'[id + 1] = "end"
          /\ \A i \in Id \ {id + 1} : entryType'[i] = entryType[i]
      BY <1>1, <1>2, <1>3, <1>6
    <2>2. \A i \in Mapped : i <= id
      BY <1>6 DEF IsAtEndOfTable
    <2>3. id + 1 \notin Mapped
      BY <1>1, <2>2
    <2>4. EntryInv'
      BY <1>2, <1>3, <2>1, <2>3 DEF TableInv, EntryInv, Start
    <2>5. MarkerInv'
      <3> SUFFICES ASSUME booted > 0
                   PROVE  /\ \A i \in Mapped, j \in Id : entryType'[j] = "end" => i < j
                          /\ Marked'
        BY <1>2 DEF MarkerInv
      <3>1. ASSUME NEW i \in Mapped, NEW j \in Id, entryType'[j] = "end" PROVE i < j
        <4>1. CASE j = id + 1
          BY <1>1, <2>2, <4>1
        <4>2. CASE j # id + 1
          BY <1>2, <2>1, <3>1, <4>2 DEF TableInv, MarkerInv
        <4> QED BY <4>1, <4>2
      <3>2. \A j \in 0 .. id : entryType[j] # "unwritten"
        <4>1. CASE Marked
          <5>1. PICK e \in Id : entryType[e] = "end" /\ Written(e)
            BY <4>1 DEF Marked
          <5>2. id < e
            BY <1>2, <1>3, <5>1 DEF TableInv, MarkerInv
          <5>3. 0 .. id \subseteq 0 .. e
            BY <1>1, <5>2
          <5> QED BY <1>2, <5>1, <5>3 DEF Written
        <4>2. CASE Written(id)
          BY <1>2, <4>2 DEF Written
        <4> QED BY <4>1, <4>2 DEF TableInv, MarkerInv
      <3>3. \A j \in 0 .. id + 1 : entryType'[j] # "unwritten"
        <4>1. 0 .. id + 1 = (0 .. id) \cup {id + 1} /\ 0 .. id \subseteq Id
          BY <1>1, IdPrefix
        <4> QED BY <2>1, <3>2, <4>1
      <3> QED BY <1>3, <2>1, <3>1, <3>3 DEF Marked, Written
    <2> QED BY <1>4, <2>4, <2>5
  <1> QED BY <1>5, <1>6

LEMMA RemoveDriveTable ==
    ASSUME IInv, TableInv, NEW i \in Id, RemoveDrive(i)
    PROVE  FillInv' /\ EntryInv' /\ MarkerInv'
  <1>1. /\ i \in Mapped /\ step = "idle" /\ id' = i /\ step' = "mark" /\ booted' = booted
        /\ Mapped' = Mapped \ {i}
        /\ \A j \in Mapped \ {i} : deviceMappingData'[j] = deviceMappingData[j]
        /\ entryType' = entryType /\ entryLocation' = entryLocation
    BY RemoveStep DEF table
  <1>2. FillInv'
    BY <1>1 DEF FillInv, Adding
  <1>3. EntryInv'
    <2>1. ASSUME NEW j \in Mapped
          PROVE  entryType'[j] = "device" /\ entryLocation'[j] = Start(j)
      BY <1>1 DEF TableInv, EntryInv
    <2>2. ASSUME NEW j \in Id \ Mapped PROVE entryType'[j] # "device"
      BY <1>1 DEF TableInv, EntryInv
    <2>3. \A j \in Mapped \ {i} : Start(j)' = Start(j)
      BY <1>1 DEF Start
    <2> QED BY <1>1, <2>1, <2>2, <2>3 DEF EntryInv
  <1>4. MarkerInv'
    BY <1>1 DEF TableInv, MarkerInv, Marked, Written, Adding
  <1> QED BY <1>2, <1>3, <1>4

LEMMA MarkRemovedTable ==
    ASSUME IInv, TableInv, MarkRemoved
    PROVE  FillInv' /\ EntryInv' /\ MarkerInv'
  <1>1. /\ entryType \in [Id -> EntryType] /\ id \in Id /\ Id \subseteq Nat /\ Mapped \subseteq Id
    BY TableTypes DEF IInv
  <1>2. /\ step = "mark" /\ step' = "removed" /\ id' = id /\ booted' = booted
        /\ deviceMappingData' = deviceMappingData /\ Mapped' = Mapped
        /\ entryLocation' = entryLocation
        /\ entryType'[id] = IF IsAtEndOfTable(id) THEN "end" ELSE "empty"
        /\ \A i \in Id \ {id} : entryType'[i] = entryType[i]
    BY <1>1 DEF MarkRemoved, registry, Mapped
  <1>3. FillInv'
    BY <1>2 DEF FillInv, Adding
  <1>4. id \in Id \ Mapped /\ entryType[id] = "device"
    BY <1>2 DEF TableInv, EntryInv
  <1>5. EntryInv'
    <2>1. ASSUME NEW i \in Mapped
          PROVE  entryType'[i] = "device" /\ entryLocation'[i] = Start(i)
      <3>1. i # id /\ i \in Id
        BY <1>1, <1>4
      <3> QED BY <1>2, <3>1 DEF TableInv, EntryInv
    <2>2. ASSUME NEW i \in Id \ Mapped PROVE entryType'[i] # "device"
      BY <1>2 DEF TableInv, EntryInv
    <2>3. \A i \in Mapped : Start(i)' = Start(i)
      BY <1>2 DEF Start
    <2> QED BY <1>2, <2>1, <2>2, <2>3 DEF EntryInv
  <1>6. MarkerInv'
    <2> SUFFICES ASSUME booted > 0
                 PROVE  /\ \A i \in Mapped, j \in Id : entryType'[j] = "end" => i < j
                        /\ Marked'
      BY <1>2 DEF MarkerInv
    <2>1. ASSUME NEW i \in Mapped, NEW j \in Id, entryType'[j] = "end" PROVE i < j
      <3>1. CASE j = id
        <4>1. i <= id /\ i # id
          BY <1>2, <1>4, <2>1, <3>1 DEF IsAtEndOfTable
        <4> QED BY <1>1, <3>1, <4>1
      <3>2. CASE j # id
        BY <1>2, <2>1, <3>2 DEF TableInv, MarkerInv
      <3> QED BY <3>1, <3>2
    <2>2. PICK e \in Id : entryType[e] = "end" /\ Written(e)
      BY <1>2 DEF TableInv, MarkerInv, Marked, Adding
    <2>3. Written(e)'
      <3>1. 0 .. e \subseteq Id
        BY IdPrefix
      <3> QED BY <1>2, <2>2, <3>1 DEF Written
    <2> QED BY <1>2, <1>4, <2>1, <2>2, <2>3 DEF Marked
  <1> QED BY <1>3, <1>5, <1>6

(* All other steps leave registry and table alone; some of them end the     *)
(* manager's work on a device.                                              *)
LEMMA SameTable ==
    ASSUME TableInv, UNCHANGED <<registry, table, booted>>,
           UNCHANGED <<step, id>> \/ (step \in {"added", "removed"} /\ step' = "idle")
    PROVE  FillInv' /\ EntryInv' /\ MarkerInv'
  <1>1. UNCHANGED <<deviceMappingData, entryType, entryLocation, booted>> /\ Mapped' = Mapped
    BY DEF registry, table, Mapped
  <1>2. CASE UNCHANGED <<step, id>>
    <2>1. FillInv'
      BY <1>1, <1>2 DEF TableInv, FillInv, Adding
    <2>2. EntryInv'
      BY <1>1, <1>2 DEF TableInv, EntryInv, Start
    <2>3. MarkerInv'
      BY <1>1, <1>2 DEF TableInv, MarkerInv, Marked, Written, Adding, IsAtEndOfTable
    <2> QED BY <2>1, <2>2, <2>3
  <1>3. CASE step \in {"added", "removed"} /\ step' = "idle"
    <2>1. FillInv'
      BY <1>3 DEF FillInv, Adding
    <2>2. EntryInv'
      BY <1>1, <1>3 DEF TableInv, EntryInv, Start
    <2>3. MarkerInv'
      BY <1>1, <1>3 DEF TableInv, MarkerInv, Marked, Written, Adding
    <2> QED BY <2>1, <2>2, <2>3
  <1> QED BY <1>2, <1>3

LEMMA NextTableInv == IInv /\ TableInv /\ [Next]_vars => TableInv'
  <1> SUFFICES ASSUME IInv, TableInv, [Next]_vars PROVE TableInv'
    OBVIOUS
  <1>1. CASE RequestBootDevice \/ InsertDrive
    <2>1. CountInv'
      BY <1>1, BootRequestCount, InsertDriveCount DEF TableInv
    <2>2. FillInv' /\ EntryInv' /\ MarkerInv'
      BY <1>1, RequestTable
    <2> QED BY <2>1, <2>2 DEF TableInv
  <1>2. CASE \E i \in Id : RemoveDrive(i)
    <2>1. CountInv'
      BY <1>2, RemoveDriveCount DEF TableInv
    <2>2. FillInv' /\ EntryInv' /\ MarkerInv'
      BY <1>2, RemoveDriveTable
    <2> QED BY <2>1, <2>2 DEF TableInv
  <1>3. ASSUME UNCHANGED <<registry, booted, drives>>, powerState => powerState'
        PROVE  CountInv'
    <2>1. Mapped' = Mapped /\ booted' = booted /\ drives' = drives
      BY <1>3 DEF Mapped, registry
    <2>2. BootDevices(booted)' = BootDevices(booted) /\ BootDrives(booted)' = BootDrives(booted)
      BY <2>1 DEF BootDevices, BootDrives
    <2> QED BY <1>3, <2>1, <2>2 DEF TableInv, CountInv
  <1>4. CASE WriteType
    BY <1>3, <1>4, WriteTypeTable DEF WriteType, TableInv
  <1>5. CASE WriteLocation
    BY <1>3, <1>5, WriteLocationTable DEF WriteLocation, TableInv
  <1>6. CASE WriteEndMarker
    BY <1>3, <1>6, WriteEndMarkerTable DEF WriteEndMarker, TableInv
  <1>7. CASE MarkRemoved
    BY <1>3, <1>7, MarkRemovedTable DEF MarkRemoved, TableInv
  <1>8. CASE SignalAdded \/ SignalRemoved
    <2>1. /\ UNCHANGED <<registry, table, booted, drives, powerState>>
          /\ step \in {"added", "removed"} /\ step' = "idle"
      BY <1>8 DEF SignalAdded, SignalRemoved
    <2> QED BY <1>3, <2>1, SameTable DEF TableInv
  <1>9. CASE \/ \E a \in Address : CheckStore(a)
             \/ Store \/ HandleStore
             \/ PowerOn \/ TakeEvent \/ ReadType \/ ReadLocation
             \/ UNCHANGED vars
    <2>1. UNCHANGED <<registry, table, manager>> /\ (powerState => powerState')
      BY <1>9 DEF CheckStore, Store, HandleStore, PowerOn, TakeEvent, ReadType, ReadLocation, vars
    <2> QED BY <1>3, <2>1, SameTable DEF TableInv, manager
  <1> QED BY <1>1, <1>2, <1>4, <1>5, <1>6, <1>7, <1>8, <1>9 DEF Next

LEMMA InitTableInv == Init => TableInv
  <1> SUFFICES ASSUME Init PROVE TableInv
    OBVIOUS
  <1>1. Mapped = {} /\ drives = {} /\ booted = 0 /\ step = "idle" /\ ~powerState
    BY DEF Init, Mapped
  <1>2. CountInv
    <2>1. 0 \in Nat /\ Mapped \ drives = {} /\ drives = {} /\ booted = 0
      BY <1>1
    <2>2. Cardinality({}) = 0
      BY FS_EmptySet
    <2>3. /\ Cardinality(BootDevices(0)) \in Nat /\ Cardinality(BootDrives(0)) \in Nat
          /\ MaxDrives \in Nat
      BY <2>1, TableParameters
    <2> QED BY <2>1, <2>2, <2>3 DEF CountInv
  <1>3. FillInv /\ EntryInv /\ MarkerInv
    BY <1>1 DEF Init, FillInv, EntryInv, MarkerInv, Adding
  <1> QED BY <1>2, <1>3 DEF TableInv

LEMMA SpecTableInv == Spec => []TableInv
  BY InitTableInv, NextTableInv, SpecIInv, PTL DEF Spec

(* What scanning the table finds when the manager is idle.                  *)
LEMMA ScanExact ==
    ASSUME IInv, TableInv, step = "idle", booted > 0
    PROVE  Scan = [i \in Id |-> Current(i)]
  <1>1. Mapped \subseteq Id /\ Id \subseteq Nat
    BY TableTypes DEF IInv
  <1>2. ASSUME NEW i \in Id
        PROVE  (IF i \in Listed THEN entryLocation[i] ELSE Null) = Current(i)
    <2>1. CASE i \in Mapped
      <3>1. entryType[i] = "device" /\ entryLocation[i] = Start(i)
        BY <2>1 DEF TableInv, EntryInv
      <3>2. ASSUME NEW j \in Id, j < i PROVE entryType[j] # "end"
        <4>1. entryType[j] = "end" => i < j
          BY <2>1 DEF TableInv, MarkerInv
        <4> QED BY <1>1, <3>2, <4>1
      <3> QED BY <2>1, <3>1, <3>2 DEF Listed, Current
    <2>2. CASE i \notin Mapped
      BY <2>2 DEF TableInv, EntryInv, Listed, Current
    <2> QED BY <2>1, <2>2
  <1> QED BY <1>2 DEF Scan

(* Between two changes the registry table tells the guest program the truth *)
(* about every device: the fields are written one at a time, and no order   *)
(* of insertions and removals leaves an entry behind, loses one, or puts    *)
(* one behind the end marker.                                               *)
THEOREM TableTruthfulHolds == Spec => []TableTruthful
  <1>1. IInv /\ TableInv => TableTruthful
    <2> SUFFICES ASSUME IInv, TableInv, step = "idle", booted > 0
                 PROVE  /\ \E e \in Id : entryType[e] = "end"
                               /\ \A j \in 0 .. e : entryType[j] # "unwritten"
                        /\ Scan = [i \in Id |-> IF i \in Mapped THEN Start(i) ELSE Null]
      BY DEF TableTruthful
    <2>1. \E e \in Id : entryType[e] = "end" /\ \A j \in 0 .. e : entryType[j] # "unwritten"
      BY DEF TableInv, MarkerInv, Marked, Written, Adding
    <2> QED BY <2>1, ScanExact DEF Current
  <1> QED BY <1>1, SpecIInv, SpecTableInv, PTL
-----------------------------------------------------------------------------
(* The guest program. *)

LEMMA RegistryChangeGuest ==
    ASSUME IInv, GuestInv, RequestBootDevice \/ InsertDrive \/ \E i \in Id : RemoveDrive(i)
    PROVE  GuestInv'
  <1>1. UNCHANGED <<powerState, events, guestStep, guestId, guestType, known>> /\ step = "idle"
    BY RequestStep, RemoveStep DEF guest
  <1>2. \/ UNCHANGED <<registry, id, step>> /\ Mapped' = Mapped
        \/ /\ step' # "idle"
           /\ \A i \in Id \ {id'} :
                 (i \in Mapped' <=> i \in Mapped) /\ Current(i)' = Current(i)
    <2>1. CASE RequestBootDevice \/ InsertDrive
      <3>1. CASE UNCHANGED <<registry, id, step, drives>> /\ Mapped' = Mapped
        BY <3>1
      <3>2. CASE /\ Mapped' = Mapped \cup {id'} /\ step' = "type"
                 /\ \A i \in Mapped : deviceMappingData'[i] = deviceMappingData[i]
        BY <3>2 DEF Current, Start
      <3> QED BY <2>1, <3>1, <3>2, RequestStep
    <2>2. CASE \E i \in Id : RemoveDrive(i)
      <3>1. PICK i \in Id : RemoveDrive(i)
        BY <2>2
      <3>2. /\ id' = i /\ step' = "mark" /\ Mapped' = Mapped \ {i}
            /\ \A j \in Mapped \ {i} : deviceMappingData'[j] = deviceMappingData[j]
        BY <3>1, RemoveStep
      <3> QED BY <3>2 DEF Current, Start
    <2> QED BY <2>1, <2>2
  <1>3. ~powerState => step' \notin {"mark", "removed"}
    BY <1>1, RequestStep DEF RemoveDrive
  <1>4. CASE UNCHANGED <<registry, id, step>> /\ Mapped' = Mapped
    BY <1>1, <1>3, <1>4 DEF GuestInv, Handling, Current, Start, registry
  <1>5. CASE /\ step' # "idle"
             /\ \A i \in Id \ {id'} :
                   (i \in Mapped' <=> i \in Mapped) /\ Current(i)' = Current(i)
    <2>1. CASE ~powerState
      BY <1>1, <1>3, <2>1 DEF GuestInv
    <2>2. CASE powerState
      <3>1. ASSUME NEW i \in Id \ {id'}
            PROVE  \/ i \in events'
                   \/ /\ Handling(i)'
                      /\ guestStep' = "type" \/ (guestType' = "device" <=> i \in Mapped')
                   \/ ~Handling(i)' /\ known'[i] = Current(i)'
        BY <1>1, <1>5, <2>2, <3>1 DEF GuestInv, Handling
      <3> QED BY <1>1, <1>5, <2>2, <3>1 DEF GuestInv
    <2> QED BY <2>1, <2>2
  <1> QED BY <1>2, <1>4, <1>5

(* The steps between: until the interrupt the device is one that changes.   *)
LEMMA TableStepGuest ==
    ASSUME GuestInv,
           \/ WriteType \/ WriteLocation \/ WriteEndMarker \/ SignalAdded
           \/ MarkRemoved \/ SignalRemoved
    PROVE  GuestInv'
  <1>1. /\ UNCHANGED <<powerState, guestStep, guestId, guestType, known>>
        /\ Mapped' = Mapped
        /\ \A i \in Id : Current(i)' = Current(i)
    <2>1. UNCHANGED <<deviceMappingData, powerState, guestStep, guestId, guestType, known>>
      BY DEF WriteType, WriteLocation, WriteEndMarker, SignalAdded, MarkRemoved, SignalRemoved,
             registry, guest
    <2>2. Mapped' = Mapped
      BY <2>1 DEF Mapped
    <2> QED BY <2>1, <2>2 DEF Current, Start
  <1>2. step # "idle" /\ (step' \in {"mark", "removed"} => step \in {"mark", "removed"})
    BY DEF WriteType, WriteLocation, WriteEndMarker, SignalAdded, MarkRemoved, SignalRemoved
  <1>3. \/ step' # "idle" /\ id' = id /\ events' = events
        \/ step' = "idle" /\ events' = events \cup {id}
        \/ ~powerState /\ step' = "idle" /\ events' = events
    BY DEF WriteType, WriteLocation, WriteEndMarker, SignalAdded, MarkRemoved, SignalRemoved
  <1>4. CASE ~powerState
    <2>1. events = {} /\ guestStep = "idle" /\ step \notin {"mark", "removed"}
      BY <1>4 DEF GuestInv
    <2>2. step # "removed" /\ (step = "added" => events' = events)
      BY <1>4, <2>1 DEF WriteType, WriteLocation, WriteEndMarker, SignalAdded,
                              MarkRemoved, SignalRemoved
    <2>3. events' = events
      BY <2>1, <2>2 DEF WriteType, WriteLocation, WriteEndMarker, SignalAdded,
                              MarkRemoved, SignalRemoved
    <2> QED BY <1>1, <1>2, <1>4, <2>1, <2>3 DEF GuestInv
  <1>5. CASE powerState
    <2>1. ASSUME NEW i \in Id
          PROVE  \/ step' # "idle" /\ id' = i
                 \/ i \in events'
                 \/ /\ Handling(i)'
                    /\ guestStep' = "type" \/ (guestType' = "device" <=> i \in Mapped')
                 \/ ~Handling(i)' /\ known'[i] = Current(i)'
      <3>1. \/ id = i
            \/ i \in events
            \/ Handling(i) /\ (guestStep = "type" \/ (guestType = "device" <=> i \in Mapped))
            \/ ~Handling(i) /\ known[i] = Current(i)
        BY <1>5 DEF GuestInv
      <3>2. Handling(i)' <=> Handling(i)
        BY <1>1 DEF Handling
      <3> QED BY <1>1, <1>3, <1>5, <3>1, <3>2
    <2> QED BY <1>1, <1>5, <2>1 DEF GuestInv
  <1> QED BY <1>4, <1>5

LEMMA GuestStepGuest ==
    ASSUME IInv, TableInv, GuestInv, PowerOn \/ TakeEvent \/ ReadType \/ ReadLocation
    PROVE  GuestInv'
  <1>1. /\ UNCHANGED <<step, id>> /\ Mapped' = Mapped
        /\ \A i \in Id : Current(i)' = Current(i)
    <2>1. UNCHANGED <<deviceMappingData, step, id>>
      BY DEF PowerOn, TakeEvent, ReadType, ReadLocation, registry, manager
    <2>2. Mapped' = Mapped
      BY <2>1 DEF Mapped
    <2> QED BY <2>1, <2>2 DEF Current, Start
  <1>2. /\ known \in [Id -> Address \cup {Null}] /\ guestId \in Id /\ events \in SUBSET Id
        /\ guestStep \in {"idle", "type", "location"}
    BY DEF IInv, TypeOK
  <1>3. CASE PowerOn
    <2>1. /\ step = "idle" /\ guestStep = "idle" /\ guestStep' = "idle" /\ powerState' = TRUE
          /\ known' = Scan
      BY <1>3 DEF PowerOn, GuestInv
    <2>2. booted > 0
      <3>1. booted = Len(Boot) /\ Len(Boot) \in Nat \ {0}
        BY <1>3, ParameterFacts DEF PowerOn
      <3> QED BY <3>1
    <2>3. Scan = [i \in Id |-> Current(i)]
      BY <2>1, <2>2, ScanExact
    <2>4. \A i \in Id : ~Handling(i)' /\ known'[i] = Current(i)'
      BY <1>1, <2>1, <2>3 DEF Handling
    <2> QED BY <2>1, <2>4 DEF GuestInv
  <1>4. CASE TakeEvent
    <2>1. /\ guestStep = "idle" /\ guestId' \in events /\ events' = events \ {guestId'}
          /\ guestStep' = "type" /\ UNCHANGED <<powerState, guestType, known>>
      BY <1>4 DEF TakeEvent
    <2>2. powerState
      BY <2>1 DEF GuestInv
    <2> QED BY <1>1, <2>1, <2>2 DEF GuestInv, Handling
  <1>5. CASE ReadType
    <2>1. /\ guestStep = "type" /\ guestStep' = "location" /\ guestType' = entryType[guestId]
          /\ UNCHANGED <<powerState, events, guestId, known>>
      BY <1>5 DEF ReadType
    <2>2. powerState
      BY <2>1 DEF GuestInv
    <2>3. (step # "idle" /\ id = guestId) \/ (guestType' = "device" <=> guestId \in Mapped)
      BY <1>2, <2>1 DEF TableInv, EntryInv
    <2> QED BY <1>1, <2>1, <2>2, <2>3 DEF GuestInv, Handling
  <1>6. CASE ReadLocation
    <2>1. /\ guestStep = "location" /\ guestStep' = "idle"
          /\ known' = [known EXCEPT ![guestId] =
                          IF guestType = "device" THEN entryLocation[guestId] ELSE Null]
          /\ UNCHANGED <<powerState, events>>
      BY <1>6 DEF ReadLocation
    <2>2. powerState
      BY <2>1 DEF GuestInv
    <2>3. ASSUME NEW i \in Id
          PROVE  \/ step # "idle" /\ id = i
                 \/ i \in events
                 \/ known'[i] = Current(i)
      <3>1. CASE i = guestId
        <4>1. \/ step # "idle" /\ id = i
              \/ i \in events
              \/ guestType = "device" <=> i \in Mapped
          BY <2>1, <2>2, <3>1 DEF GuestInv, Handling
        <4>2. known'[i] = IF guestType = "device" THEN entryLocation[i] ELSE Null
          BY <1>2, <2>1, <3>1
        <4>3. i \in Mapped => entryLocation[i] = Start(i) \/ (step # "idle" /\ id = i)
          BY DEF TableInv, EntryInv
        <4> QED BY <4>1, <4>2, <4>3 DEF Current
      <3>2. CASE i # guestId
        BY <1>2, <2>1, <2>2, <3>2 DEF GuestInv, Handling
      <3> QED BY <3>1, <3>2
    <2>4. \A i \in Id : ~Handling(i)'
      BY <2>1 DEF Handling
    <2> QED BY <1>1, <2>1, <2>2, <2>3, <2>4 DEF GuestInv
  <1> QED BY <1>3, <1>4, <1>5, <1>6

LEMMA NextGuestInv == IInv /\ TableInv /\ GuestInv /\ [Next]_vars => GuestInv'
  <1> SUFFICES ASSUME IInv, TableInv, GuestInv, [Next]_vars PROVE GuestInv'
    OBVIOUS
  <1>1. CASE (\E a \in Address : CheckStore(a)) \/ Store \/ HandleStore \/ UNCHANGED vars
    <2>1. UNCHANGED <<deviceMappingData, step, id, powerState, events,
                      guestStep, guestId, guestType, known>>
      BY <1>1 DEF CheckStore, Store, HandleStore, vars, registry, manager, guest
    <2>2. Mapped' = Mapped
      BY <2>1 DEF Mapped
    <2> QED BY <2>1, <2>2 DEF GuestInv, Handling, Current, Start
  <1> QED BY <1>1, RegistryChangeGuest, TableStepGuest, GuestStepGuest DEF Next

LEMMA SpecGuestInv == Spec => []GuestInv
  <1>1. Init => GuestInv
    BY DEF Init, GuestInv
  <1> QED BY <1>1, NextGuestInv, SpecIInv, SpecTableInv, PTL DEF Spec

(* A guest that rereads an entry for every motherboard event, even while    *)
(* the entry is being rewritten, ends up knowing exactly the devices there  *)
(* are: the interrupt comes after the last write, so the event of a change  *)
(* it saw half of is still to come.                                         *)
THEOREM GuestInformedHolds == Spec => []GuestInformed
  <1>1. IInv /\ GuestInv => GuestInformed
    <2> SUFFICES ASSUME IInv, GuestInv, powerState, step = "idle", guestStep = "idle", events = {}
                 PROVE  known = [i \in Id |-> IF i \in Mapped THEN Start(i) ELSE Null]
      BY DEF GuestInformed
    <2>1. known \in [Id -> Address \cup {Null}]
      BY DEF IInv, TypeOK
    <2>2. \A i \in Id : known[i] = IF i \in Mapped THEN Start(i) ELSE Null
      BY DEF GuestInv, Handling, Current
    <2> QED BY <2>1, <2>2
  <1> QED BY <1>1, SpecIInv, SpecGuestInv, PTL
-----------------------------------------------------------------------------
(* The stores of the processor. *)

LEMMA NextPlace ==
    ASSUME NEW k \in Nat
    PROVE  k * DriveSize \in Nat /\ (k + 1) * DriveSize = k * DriveSize + DriveSize
  <1>1. DriveSize \in Nat
    BY ParameterFacts
  <1> QED BY <1>1

(* An address lies at most in one of the places of a drive. *)
LEMMA PlaceUnique ==
    ASSUME NEW k \in Nat, NEW m \in Nat, NEW a \in Int,
           a - k * DriveSize \in 0 .. DriveSize - 1,
           a - m * DriveSize \in 0 .. DriveSize - 1
    PROVE  k = m
  <1>1. ASSUME NEW x \in Nat, NEW y \in Nat, x < y
        PROVE  x * DriveSize + DriveSize <= y * DriveSize
    <2>1. PICK n \in Nat : y = x + 1 + n
      <3>1. y - (x + 1) \in Nat /\ y = x + 1 + (y - (x + 1))
        BY <1>1
      <3> QED BY <3>1
    <2>2. DriveSize \in Nat
      BY ParameterFacts
    <2>3. n * DriveSize \in Nat
      BY <2>2
    <2>4. y * DriveSize = x * DriveSize + DriveSize + n * DriveSize
      BY <2>1, <2>2
    <2> QED BY <2>2, <2>3, <2>4
  <1>2. DriveSize \in Nat \ {0} /\ k * DriveSize \in Nat /\ m * DriveSize \in Nat
    BY NextPlace, ParameterFacts
  <1>3. ~(k < m)
    <2> SUFFICES ASSUME k < m PROVE FALSE
      OBVIOUS
    <2>1. k * DriveSize + DriveSize <= m * DriveSize
      BY <1>1
    <2> QED BY <1>2, <2>1
  <1>4. ~(m < k)
    <2> SUFFICES ASSUME m < k PROVE FALSE
      OBVIOUS
    <2>1. m * DriveSize + DriveSize <= k * DriveSize
      BY <1>1
    <2> QED BY <1>2, <2>1
  <1> QED BY <1>3, <1>4

(* A new device goes behind the last one, the motherboard's being in front. *)
LEMMA RequestPlace ==
    ASSUME IInv, booted # 0, NEW size \in 1 .. DataSize, NEW canWrite \in SUBSET Address,
           Request(size, canWrite), Granted(size)
    PROVE  \E last \in Mapped :
              /\ deviceMappingData'[id'] =
                     [start |-> End(last), size |-> size, canWrite |-> canWrite]
              /\ \A i \in Mapped : End(i) <= End(last)
  <1> DEFINE n == Len(memoryChain)
  <1>1. /\ TypeOK /\ MemoryPartitioned /\ CanPlace(size) /\ Mapped # Id
        /\ memoryChain[1] = 0 /\ Start(0) = 0 /\ 0 \in Mapped
    <2>1. booted > 0
      BY TableTypes DEF IInv
    <2> QED BY <2>1 DEF IInv, Granted, BootState, MotherboardFirst
  <1>2. /\ n \in Nat
        /\ \A k \in 1 .. n : memoryChain[k] \in Mapped
        /\ DOMAIN memoryChain = 1 .. n
    BY <1>1, ChainFacts
  <1>3. memoryChain # <<>>
    BY <1>1, <1>2, EmptySeq DEF MemoryPartitioned
  <1>4. StartAt(PlaceFor(size)) = End(memoryChain[n]) /\ n \in 1 .. n
    <2>1. ~(memoryChain # <<>> => size <= Start(memoryChain[1]))
      BY <1>1, <1>3, ParameterFacts
    <2>2. /\ PlaceFor(size) = n
          /\ StartAt(PlaceFor(size)) = End(memoryChain[n])
      BY <1>1, <2>1, PlaceFacts
    <2>3. n # 0
      BY <1>2, <1>3, EmptySeq, ChainFacts, <1>1
    <2> QED BY <1>2, <2>2, <2>3
  <1>5. deviceMappingData'[id'] =
            [start |-> StartAt(PlaceFor(size)), size |-> size, canWrite |-> canWrite]
    <2>1. FirstFreeId \in Id
      BY <1>1, FirstFreeIdFacts
    <2> QED BY <1>1, <2>1 DEF Request, TypeOK
  <1> HIDE DEF n
  <1>6. ASSUME NEW i \in Mapped PROVE End(i) <= End(memoryChain[n])
    <2>1. PICK k \in 1 .. n : memoryChain[k] = i
      BY <1>1, <1>2 DEF MemoryPartitioned
    <2>2. k = n \/ k < n
      BY <1>2
    <2>3. k < n => End(i) <= Start(memoryChain[n])
      BY <1>1, <1>2, <1>4, <2>1 DEF MemoryPartitioned
    <2>4. /\ End(i) \in Nat /\ Start(memoryChain[n]) \in Nat /\ End(memoryChain[n]) \in Nat
          /\ Start(memoryChain[n]) < End(memoryChain[n])
      BY <1>1, <1>2, <1>4, MappedFacts
    <2> QED BY <2>1, <2>2, <2>3, <2>4
  <1> QED BY <1>2, <1>4, <1>5, <1>6

(* A device that stays, requested at boot: the drives' base moves behind it. *)
LEMMA StayGranted ==
    ASSUME IInv, StoreInv, ~powerState, ~powerState',
           NEW size \in 1 .. DataSize, NEW canWrite \in SUBSET Address,
           Request(size, canWrite), Granted(size), drives' = drives, booted' # 0
    PROVE  StoreInv'
  <1>1. /\ id' \in Id \ Mapped /\ Mapped' = Mapped \cup {id'}
        /\ \A i \in Mapped : deviceMappingData'[i] = deviceMappingData[i]
        /\ drives \subseteq Mapped
    BY RequestFacts DEF IInv
  <1>2. DriveSlots'
    <2>1. \A i \in drives : i \in Mapped /\ deviceMappingData'[i] = deviceMappingData[i]
      BY <1>1
    <2> QED BY <2>1 DEF StoreInv, DriveSlots
  <1>3. cpuStep' # "checked"
    <2>1. cpuStep # "checked"
      BY DEF StoreInv, CheckedInv
    <2> QED BY <2>1 DEF Request, processor
  <1>4. TypeOK /\ \A i \in Mapped : End(i) \in Nat /\ End(i)' = End(i)
    <2>1. \A i \in Mapped : End(i) \in Nat
      BY MappedFacts DEF IInv
    <2> QED BY <1>1, <2>1 DEF End, IInv
  <1>5. PICK start \in Nat :
            /\ deviceMappingData'[id'] = [start |-> start, size |-> size, canWrite |-> canWrite]
            /\ \A i \in Mapped : End(i) <= start
    <2>1. CASE booted # 0
      <3>1. PICK last \in Mapped :
                /\ deviceMappingData'[id'] =
                       [start |-> End(last), size |-> size, canWrite |-> canWrite]
                /\ \A i \in Mapped : End(i) <= End(last)
        BY <2>1, RequestPlace
      <3> QED BY <1>4, <3>1
    <2>2. CASE booted = 0
      <3>1. Mapped = {}
        BY <2>2 DEF IInv, BootState
      <3>2. memoryChain = <<>>
        <4>1. DOMAIN memoryChain = {}
          BY <3>1 DEF IInv, MemoryPartitioned
        <4> QED BY <4>1, LenProperties, EmptySeq, ChainFacts DEF IInv
      <3>3. StartAt(PlaceFor(size)) = 0
        BY <3>2 DEF FitsInFront, PlaceFor, StartAt
      <3>4. FirstFreeId \in Id
        BY FirstFreeIdFacts DEF IInv, Granted
      <3>5. deviceMappingData'[id'] = [start |-> 0, size |-> size, canWrite |-> canWrite]
        BY <3>3, <3>4 DEF Request, IInv, TypeOK
      <3> QED BY <3>1, <3>5
    <2> QED BY <2>1, <2>2
  <1>6. PICK base \in Nat : base = start + size
    BY ParameterFacts
  <1>7. End(id)' = base
    BY <1>5, <1>6 DEF End
  <1>8. id' \in Mapped' \ drives'
    BY <1>1
  <1>9. \A i \in Mapped' : End(i)' <= base
    <2>1. \A i \in Mapped : End(i)' <= base
      BY <1>4, <1>5, <1>6, ParameterFacts
    <2> QED BY <1>1, <1>6, <1>7, <2>1
  <1>10. PlacesInv(base)'
    BY <1>7, <1>8, <1>9 DEF PlacesInv
  <1>11. CheckedInv(base)'
    BY <1>3 DEF CheckedInv
  <1> QED BY <1>2, <1>10, <1>11 DEF StoreInv, DriveSlots

(* A drive goes to the place behind the last one. *)
LEMMA DriveGranted ==
    ASSUME IInv, StoreInv, booted # 0, booted' # 0, powerState' = powerState,
           Request(DriveSize, DriveCanWrite), Granted(DriveSize), drives' = drives \cup {id'}
    PROVE  StoreInv'
  <1>0. DriveSize \in 1 .. DataSize /\ DriveCanWrite \in SUBSET Address /\ DriveSize \in Nat
    BY ParameterFacts
  <1>1. /\ id' \in Id \ Mapped /\ Mapped' = Mapped \cup {id'}
        /\ \A i \in Mapped : deviceMappingData'[i] = deviceMappingData[i]
        /\ drives \subseteq Mapped
    BY <1>0, RequestFacts DEF IInv
  <1>2. PICK last \in Mapped :
            /\ deviceMappingData'[id'] =
                   [start |-> End(last), size |-> DriveSize, canWrite |-> DriveCanWrite]
            /\ \A i \in Mapped : End(i) <= End(last)
    BY <1>0, RequestPlace
  <1>3. DriveSlots'
    <2>1. \A i \in drives : i \in Mapped /\ deviceMappingData'[i] = deviceMappingData[i]
      BY <1>1
    <2>2. \A i \in drives : /\ deviceMappingData'[i].size = DriveSize
                            /\ deviceMappingData'[i].canWrite = DriveCanWrite
      BY <2>1 DEF StoreInv, DriveSlots
    <2>3. /\ deviceMappingData'[id'].size = DriveSize
          /\ deviceMappingData'[id'].canWrite = DriveCanWrite
      BY <1>2
    <2> QED BY <2>2, <2>3 DEF DriveSlots
  <1>4. PICK base \in Nat : PlacesInv(base) /\ CheckedInv(base)
    BY DEF StoreInv
  <1>5. \A i \in Mapped : /\ Start(i) \in Nat /\ End(i) \in Nat /\ Start(i) < End(i)
                          /\ Start(i)' = Start(i) /\ End(i)' = End(i)
    <2>1. \A i \in Mapped : Start(i) \in Nat /\ End(i) \in Nat /\ Start(i) < End(i)
      BY MappedFacts DEF IInv
    <2> QED BY <1>1, <2>1 DEF Start, End
  <1>6. base <= End(last)
    BY <1>2, <1>4, <1>5 DEF PlacesInv
  <1>7. IsPlace(base, End(last))
    <2>1. CASE End(last) <= base
      <3>1. End(last) = base + 0 * DriveSize
        BY <1>0, <1>2, <1>4, <1>5, <1>6, <2>1
      <3>2. 0 \in Nat
        OBVIOUS
      <3> QED BY <3>1, <3>2 DEF IsPlace
    <2>2. CASE ~(End(last) <= base)
      <3>1. last \in drives /\ IsPlace(base, Start(last))
        BY <1>4, <2>2 DEF PlacesInv
      <3>2. PICK k \in Nat : Start(last) = base + k * DriveSize
        BY <3>1 DEF IsPlace
      <3>3. End(last) = Start(last) + DriveSize
        BY <3>1 DEF StoreInv, DriveSlots, Start, End
      <3>4. End(last) = base + (k + 1) * DriveSize
        BY <1>0, <1>4, <3>2, <3>3, NextPlace
      <3>5. k + 1 \in Nat
        OBVIOUS
      <3> QED BY <3>4, <3>5 DEF IsPlace
    <2> QED BY <2>1, <2>2
  <1>8. Start(id)' = End(last)
    BY <1>2 DEF Start
  <1>9. PlacesInv(base)'
    <2>1. \E i \in Mapped' \ drives' : End(i)' = base
      <3>1. PICK i \in Mapped \ drives : End(i) = base
        BY <1>4 DEF PlacesInv
      <3>2. i \in Mapped' \ drives'
        BY <1>1, <3>1
      <3> QED BY <1>5, <3>1, <3>2
    <2>2. ASSUME NEW i \in Mapped'
          PROVE  End(i)' <= base \/ (i \in drives' /\ IsPlace(base, Start(i)'))
      <3>1. CASE i \in Mapped
        <4>1. Start(i)' = Start(i) /\ End(i)' = End(i)
          BY <1>5, <3>1
        <4>2. End(i) <= base \/ (i \in drives /\ IsPlace(base, Start(i)))
          BY <1>4, <3>1 DEF PlacesInv
        <4> QED BY <4>1, <4>2
      <3>2. CASE i = id'
        BY <1>7, <1>8, <3>2
      <3> QED BY <1>1, <3>1, <3>2
    <2> QED BY <2>1, <2>2 DEF PlacesInv, IsPlace
  <1>10. CheckedInv(base)'
    <2>1. cpuStep' = cpuStep /\ cpuAddress' = cpuAddress
      BY DEF Request, processor
    <2>2. CASE cpuAddress < base
      <3>1. ~Holds(id, cpuAddress, 1)'
        <4>1. cpuAddress \in Nat
          BY ParameterFacts DEF IInv, TypeOK, Address
        <4>2. ~(Start(id)' <= cpuAddress)
          BY <1>2, <1>4, <1>5, <1>6, <1>8, <2>2, <4>1
        <4> QED BY <2>1, <4>2 DEF Holds, Start
      <3>2. ASSUME NEW i \in Mapped
            PROVE  /\ Holds(i, cpuAddress, 1)' <=> Holds(i, cpuAddress, 1)
                   /\ cpuAddress' - Start(i)' = cpuAddress - Start(i)
                   /\ deviceMappingData'[i].canWrite = deviceMappingData[i].canWrite
        BY <1>1, <1>5, <2>1 DEF Holds
      <3>3. cpuStep = "checked" =>
                \A i \in Mapped : Holds(i, cpuAddress, 1) =>
                    cpuAddress - Start(i) \in deviceMappingData[i].canWrite
        BY <1>4, <2>2 DEF CheckedInv
      <3>4. cpuStep = "checked" => powerState
        BY <1>4 DEF CheckedInv
      <3> QED BY <1>1, <2>1, <2>2, <3>1, <3>2, <3>3, <3>4 DEF CheckedInv
    <2>3. CASE ~(cpuAddress < base)
      BY <1>4, <2>1, <2>3 DEF CheckedInv
    <2> QED BY <2>2, <2>3
  <1> QED BY <1>3, <1>4, <1>9, <1>10 DEF StoreInv, DriveSlots
-----------------------------------------------------------------------------
(* The places and the checked store only depend on these.                   *)
LEMMA SameStore ==
    ASSUME StoreInv, UNCHANGED <<registry, drives>>, booted' = 0 <=> booted = 0,
           UNCHANGED processor \/ cpuStep' # "checked", powerState => powerState'
    PROVE  StoreInv'
  <1>1. /\ UNCHANGED <<deviceMappingData, drives>> /\ Mapped' = Mapped
        /\ (cpuStep' = cpuStep /\ cpuAddress' = cpuAddress) \/ cpuStep' # "checked"
    BY DEF registry, processor, Mapped
  <1>2. DriveSlots'
    BY <1>1 DEF StoreInv, DriveSlots
  <1>3. CASE booted = 0
    BY <1>1, <1>2, <1>3 DEF StoreInv, DriveSlots
  <1>4. CASE booted # 0
    <2>1. PICK base \in Nat : PlacesInv(base) /\ CheckedInv(base)
      BY <1>4 DEF StoreInv
    <2>2. PlacesInv(base)'
      BY <1>1, <2>1 DEF PlacesInv, IsPlace, Start, End
    <2>3. CheckedInv(base)'
      BY <1>1, <2>1 DEF CheckedInv, Holds, Start, End
    <2> QED BY <1>1, <1>2, <1>4, <2>1, <2>2, <2>3 DEF StoreInv, DriveSlots
  <1> QED BY <1>3, <1>4

LEMMA RequestStore ==
    ASSUME IInv, StoreInv, RequestBootDevice \/ InsertDrive
    PROVE  StoreInv'
  <1>1. CASE RequestBootDevice
    <2> DEFINE b == Boot[booted + 1]
    <2>1. /\ booted \in 0 .. Len(Boot) - 1 /\ booted' = booted + 1 /\ Request(b.size, b.canWrite)
          /\ drives' = IF b.drive /\ Granted(b.size) THEN drives \cup {id'} ELSE drives
          /\ ~powerState /\ powerState' = powerState
      BY <1>1, ParameterFacts DEF RequestBootDevice, Request, IInv, TypeOK
    <2>2. b.size \in 1 .. DataSize /\ b.canWrite \in SUBSET Address
      BY <2>1, ParameterFacts
    <2>3. booted' # 0
      BY <2>1
    <2>4. b.drive => b.size = DriveSize /\ b.canWrite = DriveCanWrite /\ booted # 0
      <3>1. booted + 1 \in 1 .. Len(Boot)
        BY <2>1, ParameterFacts
      <3>2. b.drive => b.size = DriveSize /\ b.canWrite = DriveCanWrite
        BY <3>1, TableParameters
      <3>3. booted = 0 => ~b.drive
        BY ParameterFacts
      <3> QED BY <3>2, <3>3
    <2> HIDE DEF b
    <2>5. CASE Granted(b.size) /\ b.drive
      BY <2>1, <2>3, <2>4, <2>5, DriveGranted
    <2>6. CASE Granted(b.size) /\ ~b.drive
      BY <2>1, <2>2, <2>3, <2>6, StayGranted
    <2>7. CASE ~Granted(b.size)
      <3>1. UNCHANGED <<registry, drives, processor>> /\ step' = step
        BY <2>1, <2>7 DEF Request
      <3>2. booted # 0
        BY <1>1, <2>1, <3>1, RequestStep
      <3> QED BY <2>1, <2>3, <3>1, <3>2, SameStore
    <2> QED BY <2>5, <2>6, <2>7
  <1>2. CASE InsertDrive
    <2>1. /\ Request(DriveSize, DriveCanWrite) /\ booted' = booted /\ powerState
          /\ powerState' = powerState
          /\ drives' = IF Granted(DriveSize) THEN drives \cup {id'} ELSE drives
      BY <1>2 DEF InsertDrive, Request
    <2>2. booted # 0
      BY <2>1 DEF IInv, BootState
    <2>3. CASE Granted(DriveSize)
      BY <2>1, <2>2, <2>3, DriveGranted
    <2>4. CASE ~Granted(DriveSize)
      <3>1. UNCHANGED <<registry, booted, drives, processor, powerState>>
        BY <2>1, <2>4 DEF Request
      <3> QED BY <3>1, SameStore
    <2> QED BY <2>3, <2>4
  <1> QED BY <1>1, <1>2

LEMMA RemoveDriveStore ==
    ASSUME IInv, StoreInv, NEW i \in Id, RemoveDrive(i)
    PROVE  StoreInv'
  <1>1. /\ i \in drives /\ Mapped' = Mapped \ {i} /\ drives' = drives \ {i}
        /\ \A j \in Mapped \ {i} : deviceMappingData'[j] = deviceMappingData[j]
        /\ UNCHANGED <<cpuStep, cpuAddress, powerState, booted>> /\ booted # 0
        /\ drives \subseteq Mapped
    BY RemoveStep DEF processor, IInv
  <1>2. \A j \in Mapped \ {i} : Start(j)' = Start(j) /\ End(j)' = End(j)
    BY <1>1 DEF Start, End
  <1>3. DriveSlots'
    BY <1>1 DEF StoreInv, DriveSlots
  <1>4. PICK base \in Nat : PlacesInv(base) /\ CheckedInv(base)
    BY <1>1 DEF StoreInv
  <1>5. PlacesInv(base)'
    <2>1. \E j \in Mapped' \ drives' : End(j)' = base
      <3>1. PICK j \in Mapped \ drives : End(j) = base
        BY <1>4 DEF PlacesInv
      <3>2. j \in Mapped' \ drives' /\ j \in Mapped \ {i}
        BY <1>1, <3>1
      <3> QED BY <1>2, <3>1, <3>2
    <2>2. ASSUME NEW j \in Mapped'
          PROVE  End(j)' <= base \/ (j \in drives' /\ IsPlace(base, Start(j)'))
      <3>1. j \in Mapped \ {i}
        BY <1>1
      <3>2. End(j) <= base \/ (j \in drives /\ IsPlace(base, Start(j)))
        BY <1>4, <3>1 DEF PlacesInv
      <3> QED BY <1>1, <1>2, <3>1, <3>2
    <2> QED BY <2>1, <2>2 DEF PlacesInv, IsPlace
  <1>6. CheckedInv(base)'
    <2>1. ASSUME NEW j \in Mapped'
          PROVE  /\ j \in Mapped
                 /\ Holds(j, cpuAddress, 1)' <=> Holds(j, cpuAddress, 1)
                 /\ cpuAddress' - Start(j)' = cpuAddress - Start(j)
                 /\ deviceMappingData'[j].canWrite = deviceMappingData[j].canWrite
      BY <1>1, <1>2 DEF Holds
    <2> QED BY <1>1, <1>4, <2>1 DEF CheckedInv
  <1> QED BY <1>1, <1>3, <1>4, <1>5, <1>6 DEF StoreInv, DriveSlots

LEMMA CheckStoreStore ==
    ASSUME IInv, StoreInv, NEW a \in Address, CheckStore(a)
    PROVE  StoreInv'
  <1>1. /\ powerState /\ powerState' = powerState
        /\ UNCHANGED <<deviceMappingData, booted, drives>> /\ Mapped' = Mapped
        /\ cpuStep' = "checked" /\ cpuAddress' = a
    BY DEF CheckStore, registry, manager, Mapped
  <1>2. PICK f \in Mapped : Holds(f, a, 1) /\ a - Start(f) \in deviceMappingData[f].canWrite
    <2>1. /\ FindDevice(a, 1) # Null
          /\ a - Start(FindDevice(a, 1)) \in deviceMappingData[FindDevice(a, 1)].canWrite
      BY DEF CheckStore
    <2>2. FindDevice(a, 1) = IF \E i \in Mapped : Holds(i, a, 1)
                             THEN CHOOSE i \in Mapped : Holds(i, a, 1)
                             ELSE Null
      BY LookupFinds DEF IInv
    <2> QED BY <2>1, <2>2
  <1>3. booted # 0
    BY <1>1 DEF IInv, BootState
  <1>4. PICK base \in Nat : PlacesInv(base)
    BY <1>3 DEF StoreInv
  <1>5. PlacesInv(base)'
    BY <1>1, <1>4 DEF PlacesInv, IsPlace, Start, End
  <1>6. DriveSlots'
    BY <1>1 DEF StoreInv, DriveSlots
  <1>7. CASE a < base
    <2>1. \A i \in Mapped : Holds(i, a, 1) => a - Start(i) \in deviceMappingData[i].canWrite
      BY <1>2, HolderUnique DEF IInv
    <2>2. CheckedInv(base)'
      BY <1>1, <1>7, <2>1 DEF CheckedInv, Holds, Start, End
    <2> QED BY <1>1, <1>3, <1>4, <1>5, <1>6, <2>2 DEF StoreInv, DriveSlots
  <1>8. CASE ~(a < base)
    <2>1. /\ a \in Nat /\ Start(f) \in Nat /\ End(f) \in Nat /\ DriveSize \in Nat
          /\ Start(f) <= a /\ a + 1 <= End(f)
      BY <1>2, MappedFacts, ParameterFacts DEF IInv, Holds, Address
    <2>2. f \in drives /\ IsPlace(base, Start(f))
      <3>1. ~(End(f) <= base)
        BY <1>4, <1>8, <2>1
      <3> QED BY <1>4, <3>1 DEF PlacesInv
    <2>3. PICK k \in Nat : Start(f) = base + k * DriveSize
      BY <2>2 DEF IsPlace
    <2>4. End(f) = Start(f) + DriveSize /\ deviceMappingData[f].canWrite = DriveCanWrite
      BY <2>2 DEF StoreInv, DriveSlots, Start, End
    <2>5. a - (base + k * DriveSize) \in DriveCanWrite
      BY <1>2, <2>3, <2>4
    <2>6. a - (base + k * DriveSize) \in 0 .. DriveSize - 1
      <3>1. a - Start(f) \in 0 .. DriveSize - 1
        BY <2>1, <2>4
      <3> QED BY <2>3, <3>1
    <2>7. CheckedInv(base)'
      BY <1>1, <1>8, <2>5, <2>6 DEF CheckedInv
    <2> QED BY <1>1, <1>3, <1>4, <1>5, <1>6, <2>7 DEF StoreInv, DriveSlots
  <1> QED BY <1>7, <1>8

LEMMA NextStoreInv == IInv /\ StoreInv /\ [Next]_vars => StoreInv'
  <1> SUFFICES ASSUME IInv, StoreInv, [Next]_vars PROVE StoreInv'
    OBVIOUS
  <1>1. CASE \/ WriteType \/ WriteLocation \/ WriteEndMarker \/ SignalAdded
             \/ MarkRemoved \/ SignalRemoved
             \/ Store \/ HandleStore
             \/ PowerOn \/ TakeEvent \/ ReadType \/ ReadLocation
             \/ UNCHANGED vars
    <2>1. /\ UNCHANGED <<registry, booted, drives>> /\ (powerState => powerState')
          /\ UNCHANGED processor \/ cpuStep' # "checked"
      BY <1>1 DEF WriteType, WriteLocation, WriteEndMarker, SignalAdded, MarkRemoved,
                  SignalRemoved, Store, HandleStore, PowerOn, TakeEvent, ReadType, ReadLocation,
                  vars, manager
    <2> QED BY <2>1, SameStore
  <1> QED BY <1>1, RequestStore, RemoveDriveStore, CheckStoreStore DEF Next

LEMMA SpecStoreInv == Spec => []StoreInv
  <1>1. Init => StoreInv
    BY DEF Init, StoreInv, DriveSlots
  <1> QED BY <1>1, NextStoreInv, SpecIInv, PTL DEF Spec

(* Between the processor's check of a store and the store itself a drive    *)
(* may go and another come: the store, made without the mutex, still        *)
(* touches no register that is read-only, since a drive can only come to    *)
(* where a drive was, register by register.                                 *)
THEOREM StoreStaysWritableHolds == Spec => []StoreStaysWritable
  <1>1. IInv /\ StoreInv => StoreStaysWritable
    <2> SUFFICES ASSUME IInv, StoreInv, cpuStep = "checked", NEW i \in Mapped,
                        Holds(i, cpuAddress, 1)
                 PROVE  cpuAddress - Start(i) \in deviceMappingData[i].canWrite
      BY DEF StoreStaysWritable
    <2>1. PICK base \in Nat : PlacesInv(base) /\ CheckedInv(base)
      BY DEF StoreInv
    <2>2. CASE cpuAddress < base
      BY <2>1, <2>2 DEF CheckedInv
    <2>3. CASE ~(cpuAddress < base)
      <3>1. /\ cpuAddress \in Nat /\ Start(i) \in Nat /\ End(i) \in Nat /\ DriveSize \in Nat
            /\ Start(i) <= cpuAddress /\ cpuAddress + 1 <= End(i)
        <4>1. cpuAddress \in Nat
          BY ParameterFacts DEF IInv, TypeOK, Address
        <4> QED BY <4>1, MappedFacts, ParameterFacts DEF IInv, Holds
      <3>2. i \in drives /\ IsPlace(base, Start(i))
        <4>1. ~(End(i) <= base)
          BY <2>1, <2>3, <3>1
        <4> QED BY <2>1, <4>1 DEF PlacesInv
      <3>3. PICK m \in Nat : Start(i) = base + m * DriveSize
        BY <3>2 DEF IsPlace
      <3>4. End(i) = Start(i) + DriveSize /\ deviceMappingData[i].canWrite = DriveCanWrite
        BY <3>2 DEF StoreInv, DriveSlots, Start, End
      <3>5. PICK k \in Nat : /\ cpuAddress - (base + k * DriveSize) \in DriveCanWrite
                             /\ cpuAddress - (base + k * DriveSize) \in 0 .. DriveSize - 1
        BY <2>1, <2>3 DEF CheckedInv
      <3>6. k = m
        <4>1. PICK n \in Int : n = cpuAddress - base
          BY <3>1
        <4>2. k * DriveSize \in Nat /\ m * DriveSize \in Nat
          BY NextPlace
        <4>3. n - k * DriveSize \in 0 .. DriveSize - 1
          <5>1. n - k * DriveSize = cpuAddress - (base + k * DriveSize)
            BY <3>1, <4>1, <4>2
          <5> QED BY <3>5, <5>1
        <4>4. n - m * DriveSize \in 0 .. DriveSize - 1
          <5>1. n - m * DriveSize = cpuAddress - Start(i)
            BY <3>1, <3>3, <4>1, <4>2
          <5>2. cpuAddress - Start(i) \in 0 .. DriveSize - 1
            BY <3>1, <3>4
          <5> QED BY <5>1, <5>2
        <4> QED BY <4>3, <4>4, PlaceUnique
      <3> QED BY <3>3, <3>4, <3>5, <3>6
    <2> QED BY <2>2, <2>3
  <1> QED BY <1>1, SpecIInv, SpecStoreInv, PTL
=============================================================================
