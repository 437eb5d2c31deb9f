------------------------ MODULE DeviceRegistryProofs ------------------------
(***************************************************************************)
(* Theorems about DeviceRegistry, for every number of devices, every size  *)
(* of the device-data region, every list of boot devices and any history   *)
(* of drive insertions and removals.                                       *)
(***************************************************************************)
EXTENDS DeviceRegistry, SequenceTheorems, FiniteSetTheorems, WellFoundedInduction, TLAPS

(* The boot devices and the drives keep their part of the memory.           *)
BootState ==
    IF booted = 0 THEN Mapped = {} /\ drives = {} /\ step = "idle" /\ ~powerState
    ELSE 0 \in Mapped /\ 0 \notin drives /\ MotherboardFirst

(* The inductive invariant.  A device whose entry is being written, and a   *)
(* drive of the storage manager, is a device of the mapping: without the    *)
(* second a removal would unlink a device that is not in the chain.         *)
IInv ==
    /\ TypeOK
    /\ MemoryPartitioned
    /\ BootState
    /\ step \in {"type", "location"} => id \in Mapped
    /\ drives \subseteq Mapped

-----------------------------------------------------------------------------
(* Numbers, and sequences with an element inserted or removed. *)

LEMMA LeastElement ==
    ASSUME NEW T \in SUBSET Nat, T # {}
    PROVE  \E m \in T : \A k \in T : m <= k
  <1> DEFINE LessThan == {p \in Nat \X Nat : p[1] < p[2]}
  <1>1. IsWellFoundedOn(LessThan, Nat)
    BY NatLessThanWellFounded DEF OpToRel
  <1>2. PICK m \in T : \A k \in T : <<k, m>> \notin LessThan
    BY <1>1, WFMin, Zenon
  <1>3. ASSUME NEW k \in T PROVE m <= k
    <2>1. k \in Nat /\ m \in Nat /\ ~(k < m)
      <3>1. <<k, m>> \in LessThan <=> k < m
        <4> DEFINE p == <<k, m>>
        <4>1. p \in Nat \X Nat /\ p[1] = k /\ p[2] = m
          OBVIOUS
        <4> HIDE DEF p
        <4>2. p \in LessThan <=> k < m
          BY <4>1
        <4> QED BY <4>2 DEF p
      <3> QED BY <3>1, <1>2
    <2> QED BY <2>1
  <1> QED BY <1>3

LEMMA PieceProperties ==
    ASSUME NEW S, NEW s \in Seq(S), NEW m \in 1 .. Len(s) + 1, NEW n \in m - 1 .. Len(s)
    PROVE  /\ SubSeq(s, m, n) \in Seq(S)
           /\ Len(SubSeq(s, m, n)) = n - m + 1
           /\ \A k \in 1 .. n - m + 1 : SubSeq(s, m, n)[k] = s[m + k - 1]
  <1>0. Len(s) \in Nat
    BY LenProperties
  <1>1. m \in Int /\ n \in Int /\ m <= n + 1
    BY <1>0
  <1>2. \A k \in m .. n : s[k] \in S
    BY <1>0, ElementOfSeq
  <1>3. /\ SubSeq(s, m, n) \in Seq(S)
        /\ Len(SubSeq(s, m, n)) = IF m <= n THEN n - m + 1 ELSE 0
        /\ \A k \in 1 .. n - m + 1 : SubSeq(s, m, n)[k] = s[m + k - 1]
    BY <1>1, <1>2, SubSeqProperties
  <1> QED BY <1>1, <1>3

LEMMA InsertAtProperties ==
    ASSUME NEW S, NEW s \in Seq(S), NEW e \in S, NEW i \in 1 .. Len(s) + 1
    PROVE  /\ InsertAt(s, i, e) \in Seq(S)
           /\ Len(InsertAt(s, i, e)) = Len(s) + 1
           /\ \A k \in 1 .. Len(s) + 1 :
                 InsertAt(s, i, e)[k] = IF k < i THEN s[k] ELSE IF k = i THEN e ELSE s[k - 1]
  <1> DEFINE a == SubSeq(s, 1, i - 1)
             b == <<e>>
             c == SubSeq(s, i, Len(s))
  <1>0. Len(s) \in Nat
    BY LenProperties
  <1>1. a \in Seq(S) /\ Len(a) = i - 1 /\ \A k \in 1 .. i - 1 : a[k] = s[k]
    BY <1>0, PieceProperties
  <1>2. c \in Seq(S) /\ Len(c) = Len(s) - i + 1 /\ \A k \in 1 .. Len(c) : c[k] = s[i + k - 1]
    BY <1>0, PieceProperties
  <1>3. b \in Seq(S) /\ Len(b) = 1 /\ b[1] = e
    OBVIOUS
  <1> HIDE DEF a, b, c
  <1> DEFINE ab == a \o b
  <1>4. ab \in Seq(S) /\ Len(ab) = i /\ \A k \in 1 .. i : ab[k] = IF k < i THEN s[k] ELSE e
    <2>1. /\ ab \in Seq(S)
          /\ Len(ab) = Len(a) + Len(b)
          /\ \A k \in 1 .. Len(a) + Len(b) :
                ab[k] = IF k <= Len(a) THEN a[k] ELSE b[k - Len(a)]
      BY <1>1, <1>3, ConcatProperties
    <2> QED BY <2>1, <1>1, <1>3
  <1> HIDE DEF ab
  <1> DEFINE r == ab \o c
  <1>5. /\ r \in Seq(S)
        /\ Len(r) = Len(ab) + Len(c)
        /\ \A k \in 1 .. Len(ab) + Len(c) :
              r[k] = IF k <= Len(ab) THEN ab[k] ELSE c[k - Len(ab)]
    BY <1>2, <1>4, ConcatProperties
  <1>6. r = InsertAt(s, i, e)
    BY DEF InsertAt, ab, a, b, c
  <1> HIDE DEF r
  <1>7. ASSUME NEW k \in 1 .. Len(s) + 1
        PROVE  r[k] = IF k < i THEN s[k] ELSE IF k = i THEN e ELSE s[k - 1]
    <2>1. CASE k <= i
      BY <2>1, <1>0, <1>2, <1>4, <1>5
    <2>2. CASE k > i
      <3>1. k - i \in 1 .. Len(c) /\ i + (k - i) - 1 = k - 1
        BY <2>2, <1>0, <1>2
      <3>2. c[k - i] = s[k - 1]
        BY <3>1, <1>2
      <3> QED BY <2>2, <3>1, <3>2, <1>0, <1>2, <1>4, <1>5
    <2> QED BY <2>1, <2>2, <1>0
  <1> QED BY <1>0, <1>2, <1>4, <1>5, <1>6, <1>7

LEMMA RemoveAtProperties ==
    ASSUME NEW S, NEW s \in Seq(S), NEW i \in 1 .. Len(s)
    PROVE  /\ RemoveAt(s, i) \in Seq(S)
           /\ Len(RemoveAt(s, i)) = Len(s) - 1
           /\ \A k \in 1 .. Len(s) - 1 : RemoveAt(s, i)[k] = IF k < i THEN s[k] ELSE s[k + 1]
  <1> DEFINE a == SubSeq(s, 1, i - 1)
             c == SubSeq(s, i + 1, Len(s))
  <1>0. Len(s) \in Nat
    BY LenProperties
  <1>1. a \in Seq(S) /\ Len(a) = i - 1 /\ \A k \in 1 .. i - 1 : a[k] = s[k]
    BY <1>0, PieceProperties
  <1>2. c \in Seq(S) /\ Len(c) = Len(s) - i /\ \A k \in 1 .. Len(c) : c[k] = s[i + 1 + k - 1]
    BY <1>0, PieceProperties
  <1> HIDE DEF a, c
  <1> DEFINE r == a \o c
  <1>3. /\ r \in Seq(S)
        /\ Len(r) = Len(a) + Len(c)
        /\ \A k \in 1 .. Len(a) + Len(c) : r[k] = IF k <= Len(a) THEN a[k] ELSE c[k - Len(a)]
    BY <1>1, <1>2, ConcatProperties
  <1>4. r = RemoveAt(s, i)
    BY DEF RemoveAt, a, c
  <1> HIDE DEF r
  <1>5. ASSUME NEW k \in 1 .. Len(s) - 1
        PROVE  r[k] = IF k < i THEN s[k] ELSE s[k + 1]
    <2>0. r[k] = IF k <= i - 1 THEN a[k] ELSE c[k - (i - 1)]
      <3>1. k \in 1 .. Len(a) + Len(c)
        BY <1>0, <1>1, <1>2
      <3> QED BY <3>1, <1>1, <1>3
    <2>1. CASE k < i
      BY <2>0, <2>1, <1>0, <1>1
    <2>2. CASE k >= i
      <3>1. k - (i - 1) \in 1 .. Len(c) /\ i + 1 + (k - (i - 1)) - 1 = k + 1
        BY <2>2, <1>0, <1>2
      <3>2. c[k - (i - 1)] = s[k + 1]
        BY <3>1, <1>2
      <3> QED BY <2>0, <2>2, <3>2, <1>0
    <2> QED BY <2>1, <2>2, <1>0
  <1> QED BY <1>0, <1>1, <1>2, <1>3, <1>4, <1>5
-----------------------------------------------------------------------------
(* The parameters. *)

LEMMA ParameterFacts ==
    /\ DataSize \in Nat \ {0} /\ 0 \in Address
    /\ MaxNumDevices \in Nat \ {0} /\ 0 \in Id
    /\ DriveSize \in 1 .. DataSize /\ DriveCanWrite \in SUBSET Address
    /\ Len(Boot) \in Nat \ {0}
    /\ \A b \in 1 .. Len(Boot) : /\ Boot[b].size \in 1 .. DataSize
                                 /\ Boot[b].canWrite \in SUBSET Address
                                 /\ Boot[b].drive \in BOOLEAN
    /\ ~Boot[1].drive
  <1> DEFINE B == [size : 1 .. DataSize, canWrite : SUBSET Address, drive : BOOLEAN]
             Stay == {b \in 1 .. Len(Boot) : ~Boot[b].drive}
  <1>1. /\ Boot \in Seq(B) /\ Boot # <<>> /\ ~Boot[1].drive
        /\ DataSize \in Nat \ {0} /\ DriveSize \in 1 .. DataSize /\ DriveCanWrite \in SUBSET Address
        /\ MaxNumDevices \in Nat /\ MaxDrives \in Nat
    BY RegistryAssumption DEF RegistryAssumption
  <1>2. Len(Boot) \in Nat \ {0}
    BY <1>1, EmptySeq
  <1>3. \A b \in 1 .. Len(Boot) : Boot[b] \in B
    BY <1>1, ElementOfSeq
  <1>4. Cardinality(Stay) \in Nat
    <2>1. IsFiniteSet(1 .. Len(Boot))
      BY <1>2, FS_Interval
    <2>2. IsFiniteSet(Stay)
      BY <2>1, FS_Subset
    <2> QED BY <2>2, FS_CardinalityType
  <1>5. Cardinality(Stay) + MaxDrives < MaxNumDevices
    BY TableAssumption DEF TableAssumption
  <1> HIDE DEF Stay
  <1>6. MaxNumDevices > 0
    BY <1>1, <1>4, <1>5
  <1> QED BY <1>1, <1>2, <1>3, <1>6 DEF Address, Id

-----------------------------------------------------------------------------
(* A device and its neighbours. *)

LEMMA MappedFacts ==
    ASSUME TypeOK, NEW i \in Mapped
    PROVE  /\ i \in Id
           /\ deviceMappingData[i] \in Device
           /\ Start(i) \in Address /\ Start(i) \in Nat /\ End(i) \in Nat
           /\ Start(i) < End(i)
  <1>1. i \in Id /\ deviceMappingData[i] \in Device
    BY DEF TypeOK, Mapped
  <1>2. deviceMappingData[i].start \in Address /\ deviceMappingData[i].size \in 1 .. DataSize
    BY <1>1 DEF Device
  <1>3. deviceMappingData[i].start \in Nat /\ deviceMappingData[i].size \in Nat \ {0}
    BY <1>2, ParameterFacts DEF Address
  <1> QED BY <1>1, <1>2, <1>3 DEF Start, End

LEMMA ChainFacts ==
    ASSUME TypeOK, MemoryPartitioned
    PROVE  /\ memoryChain \in Seq(Id) /\ Len(memoryChain) \in Nat
           /\ DOMAIN memoryChain = 1 .. Len(memoryChain)
           /\ \A k \in 1 .. Len(memoryChain) : memoryChain[k] \in Mapped
           /\ \A j, k \in 1 .. Len(memoryChain) : memoryChain[j] = memoryChain[k] => j = k
  <1>1. /\ memoryChain \in Seq(Id) /\ Len(memoryChain) \in Nat
        /\ DOMAIN memoryChain = 1 .. Len(memoryChain)
    BY LenProperties DEF TypeOK
  <1>2. \A k \in 1 .. Len(memoryChain) : memoryChain[k] \in Mapped
    BY <1>1 DEF MemoryPartitioned
  <1>3. ASSUME NEW j \in 1 .. Len(memoryChain), NEW k \in 1 .. Len(memoryChain), j < k
        PROVE  memoryChain[j] # memoryChain[k]
    <2>1. End(memoryChain[j]) <= Start(memoryChain[k])
      BY <1>1, <1>3 DEF MemoryPartitioned
    <2>2. /\ Start(memoryChain[j]) \in Nat /\ End(memoryChain[j]) \in Nat
          /\ Start(memoryChain[j]) < End(memoryChain[j])
      BY <1>2, MappedFacts
    <2> QED BY <2>1, <2>2
  <1> QED BY <1>1, <1>2, <1>3

(* The smallest unused id. *)
LEMMA FirstFreeIdFacts ==
    ASSUME TypeOK, Mapped # Id
    PROVE  FirstFreeId \in Id \ Mapped /\ \A j \in Id \ Mapped : FirstFreeId <= j
  <1>1. Id \ Mapped # {} /\ Id \ Mapped \in SUBSET Nat
    BY ParameterFacts DEF Mapped, Id
  <1>2. \E i \in Id \ Mapped : \A j \in Id \ Mapped : i <= j
    BY <1>1, LeastElement, Zenon
  <1> QED BY <1>2 DEF FirstFreeId

(* A new device goes in front of all others or behind all others: between   *)
(* two devices the loop compares with the wrong one of the two.             *)
LEMMA PlaceFacts ==
    ASSUME TypeOK, MemoryPartitioned, NEW size \in 1 .. DataSize, CanPlace(size)
    PROVE  /\ StartAt(PlaceFor(size)) \in Nat
           /\ StartAt(PlaceFor(size)) + size <= DataSize
           /\ \/ /\ PlaceFor(size) = 0 /\ StartAt(0) = 0 /\ FitsInFront(size)
                 /\ memoryChain # <<>> => size <= Start(memoryChain[1])
              \/ /\ PlaceFor(size) = Len(memoryChain) /\ memoryChain # <<>>
                 /\ ~FitsInFront(size)
                 /\ StartAt(PlaceFor(size)) = End(memoryChain[Len(memoryChain)])
  <1>1. memoryChain # <<>> => Len(memoryChain) >= 1
    BY ChainFacts, EmptySeq
  <1>2. CASE FitsInFront(size)
    <2>1. PlaceFor(size) = 0 /\ StartAt(0) = 0
      BY <1>2 DEF PlaceFor, StartAt
    <2>2. memoryChain # <<>> => /\ size <= Start(memoryChain[1])
                                /\ Start(memoryChain[1]) < DataSize
      <3>1. memoryChain # <<>> => Start(memoryChain[1]) \in Address /\ Start(memoryChain[1]) \in Nat
        BY <1>1, ChainFacts, MappedFacts
      <3> QED BY <1>2, <3>1, ParameterFacts DEF FitsInFront, Address
    <2> QED BY <1>2, <2>1, <2>2, ParameterFacts
  <1>3. CASE ~FitsInFront(size)
    <2>1. FitsBehind(size) # {} /\ memoryChain # <<>>
      BY <1>3 DEF CanPlace, FitsInFront
    <2>2. ASSUME NEW k \in FitsBehind(size)
          PROVE  k = Len(memoryChain)
      <3>1. k \in 1 .. Len(memoryChain)
        BY ChainFacts DEF FitsBehind
      <3>2. /\ Start(memoryChain[k]) \in Nat /\ End(memoryChain[k]) \in Nat
            /\ Start(memoryChain[k]) < End(memoryChain[k])
        BY <3>1, ChainFacts, MappedFacts
      <3> QED BY <3>1, <3>2 DEF FitsBehind
    <2>3. /\ PlaceFor(size) = Len(memoryChain)
          /\ PlaceFor(size) \in FitsBehind(size)
      <3>1. FitsBehind(size) = {Len(memoryChain)} /\ Len(memoryChain) \in Nat
        BY <2>1, <2>2, ChainFacts
      <3>2. PlaceFor(size) = CHOOSE k \in {Len(memoryChain)} : \A j \in {Len(memoryChain)} : k <= j
        BY <1>3, <3>1 DEF PlaceFor
      <3> QED BY <3>1, <3>2
    <2>4. End(memoryChain[Len(memoryChain)]) + size - 1 < DataSize
      BY <2>3 DEF FitsBehind
    <2>5. StartAt(PlaceFor(size)) = End(memoryChain[Len(memoryChain)])
      BY <1>1, <2>1, <2>3, ChainFacts DEF StartAt
    <2>6. End(memoryChain[Len(memoryChain)]) \in Nat
      BY <1>1, <2>1, ChainFacts, MappedFacts
    <2> QED BY <1>3, <2>1, <2>3, <2>4, <2>5, <2>6, ParameterFacts
  <1> QED BY <1>2, <1>3
-----------------------------------------------------------------------------
(* What an insertion and a removal do to the registry. *)

(* The registry's part of TypeOK. *)
RegistryType ==
    /\ deviceMappingData \in [Id -> Device \cup {Null}]
    /\ memoryChain \in Seq(Id)

LEMMA InsertKeepsOrder ==
    ASSUME TypeOK, MemoryPartitioned, Mapped # Id,
           NEW size \in 1 .. DataSize, NEW canWrite \in SUBSET Address, CanPlace(size),
           NEW new, new = FirstFreeId,
           NEW p, p = PlaceFor(size),
           NEW start, start = StartAt(p),
           deviceMappingData' = [deviceMappingData EXCEPT ![new] =
               [start |-> start, size |-> size, canWrite |-> canWrite]],
           memoryChain' = InsertAt(memoryChain, p + 1, new)
    PROVE  /\ RegistryType' /\ MemoryPartitioned'
           /\ new \in Id \ Mapped
           /\ Mapped' = Mapped \cup {new}
           /\ \A i \in Mapped : deviceMappingData'[i] = deviceMappingData[i]
           /\ memoryChain = <<>> => memoryChain'[1] = new /\ Start(new)' = 0
           /\ memoryChain # <<>> /\ ~FitsInFront(size) => memoryChain'[1] = memoryChain[1]
  <1> DEFINE n == Len(memoryChain)
             device == [start |-> start, size |-> size, canWrite |-> canWrite]
  <1>1. new \in Id /\ new \notin Mapped
    BY FirstFreeIdFacts
  <1>2. /\ memoryChain \in Seq(Id) /\ n \in Nat
        /\ DOMAIN memoryChain = 1 .. n
        /\ \A k \in 1 .. n : memoryChain[k] \in Mapped
    BY ChainFacts
  <1>3. memoryChain # <<>> <=> n > 0
    BY <1>2, EmptySeq
  <1>4. /\ start \in Nat /\ start + size <= DataSize
        /\ \/ /\ p = 0 /\ start = 0 /\ FitsInFront(size)
              /\ n > 0 => size <= Start(memoryChain[1])
           \/ /\ p = n /\ n > 0 /\ ~FitsInFront(size)
              /\ start = End(memoryChain[n])
    BY <1>2, <1>3, PlaceFacts
  <1>5. p + 1 \in 1 .. n + 1
    BY <1>2, <1>4
  <1>6. device \in Device
    BY <1>4, ParameterFacts DEF Device, Address
  <1>7. /\ deviceMappingData' \in [Id -> Device \cup {Null}]
        /\ deviceMappingData'[new] = device
        /\ \A i \in Id \ {new} : deviceMappingData'[i] = deviceMappingData[i]
    BY <1>1, <1>6 DEF TypeOK
  <1>8. Mapped' = Mapped \cup {new}
    BY <1>1, <1>6, <1>7, NullAssumption DEF NullAssumption, Mapped
  <1>9. \A i \in Mapped : /\ deviceMappingData'[i] = deviceMappingData[i]
                          /\ Start(i)' = Start(i) /\ End(i)' = End(i)
    BY <1>1, <1>7 DEF Mapped, Start, End
  <1>10. Start(new)' = start /\ End(new)' = start + size
    BY <1>7 DEF Start, End
  <1>11. /\ memoryChain' \in Seq(Id)
         /\ Len(memoryChain') = n + 1
         /\ DOMAIN memoryChain' = 1 .. n + 1
         /\ \A k \in 1 .. n + 1 : memoryChain'[k] =
                IF k < p + 1 THEN memoryChain[k] ELSE IF k = p + 1 THEN new ELSE memoryChain[k - 1]
    <2>1. /\ InsertAt(memoryChain, p + 1, new) \in Seq(Id)
          /\ Len(InsertAt(memoryChain, p + 1, new)) = n + 1
          /\ \A k \in 1 .. n + 1 : InsertAt(memoryChain, p + 1, new)[k] =
                IF k < p + 1 THEN memoryChain[k] ELSE IF k = p + 1 THEN new ELSE memoryChain[k - 1]
      <3> DEFINE s == memoryChain
                 i == p + 1
      <3>1. s \in Seq(Id) /\ i \in 1 .. Len(s) + 1 /\ new \in Id
        BY <1>1, <1>2, <1>5
      <3> HIDE DEF s, i
      <3>2. /\ InsertAt(s, i, new) \in Seq(Id)
            /\ Len(InsertAt(s, i, new)) = Len(s) + 1
            /\ \A k \in 1 .. Len(s) + 1 : InsertAt(s, i, new)[k] =
                  IF k < i THEN s[k] ELSE IF k = i THEN new ELSE s[k - 1]
        BY <3>1, InsertAtProperties
      <3> QED BY <3>2 DEF s, i
    <2> QED BY <2>1, LenProperties
  <1> HIDE DEF n, device
  <1>12. {memoryChain'[k] : k \in DOMAIN memoryChain'} = Mapped'
    <2>1. ASSUME NEW k \in 1 .. n + 1 PROVE memoryChain'[k] \in Mapped \cup {new}
      <3>1. CASE k < p + 1
        <4>1. k \in 1 .. n /\ memoryChain'[k] = memoryChain[k]
          BY <1>2, <1>5, <1>11, <3>1
        <4> QED BY <1>2, <4>1
      <3>2. CASE k = p + 1
        BY <1>11, <3>2
      <3>3. CASE k > p + 1
        <4>1. k - 1 \in 1 .. n /\ memoryChain'[k] = memoryChain[k - 1]
          BY <1>2, <1>5, <1>11, <3>3
        <4> QED BY <1>2, <4>1
      <3> QED BY <1>2, <1>5, <3>1, <3>2, <3>3
    <2>2. ASSUME NEW i \in Mapped PROVE \E k \in 1 .. n + 1 : memoryChain'[k] = i
      <3>1. PICK k \in 1 .. n : memoryChain[k] = i
        BY <1>2 DEF MemoryPartitioned
      <3>2. CASE k < p + 1
        <4>1. k \in 1 .. n + 1 /\ memoryChain'[k] = i
          BY <1>2, <1>11, <3>1, <3>2
        <4> QED BY <4>1
      <3>3. CASE ~(k < p + 1)
        <4>1. k + 1 \in 1 .. n + 1 /\ memoryChain'[k + 1] = i
          BY <1>2, <1>5, <1>11, <3>1, <3>3
        <4> QED BY <4>1
      <3> QED BY <3>2, <3>3
    <2>3. memoryChain'[p + 1] = new
      BY <1>2, <1>5, <1>11
    <2> QED BY <1>5, <1>8, <1>11, <2>1, <2>2, <2>3
  <1>13. ASSUME NEW j \in 1 .. n + 1, NEW k \in 1 .. n + 1, j < k
         PROVE  End(memoryChain[j])' <= Start(memoryChain[k])'
    <2>1. CASE p = 0
      <3>1. k - 1 \in 1 .. n /\ memoryChain'[k] = memoryChain[k - 1]
        <4>1. k \in 1 .. n + 1 /\ k - 1 \in 1 .. n /\ ~(k < p + 1) /\ k # p + 1
          BY <1>2, <1>13, <2>1
        <4> QED BY <1>11, <4>1
      <3>2. Start(memoryChain[k])' = Start(memoryChain[k - 1])
        BY <1>2, <1>9, <3>1 DEF Start, End
      <3>3. CASE j = 1
        <4>1. End(memoryChain[j])' = start + size
          BY <1>2, <1>10, <1>11, <2>1, <3>3 DEF End
        <4>2. start + size <= Start(memoryChain[1])
          BY <1>2, <1>4, <2>1, <3>1
        <4>3. Start(memoryChain[1]) <= Start(memoryChain[k - 1])
          <5>1. 1 \in 1 .. n
            BY <1>2, <3>1
          <5>2. /\ Start(memoryChain[1]) \in Nat /\ End(memoryChain[1]) \in Nat
                /\ Start(memoryChain[k - 1]) \in Nat
                /\ Start(memoryChain[1]) < End(memoryChain[1])
            BY <1>2, <3>1, <5>1, MappedFacts
          <5>3. 1 < k - 1 => End(memoryChain[1]) <= Start(memoryChain[k - 1])
            BY <1>2, <3>1, <5>1 DEF MemoryPartitioned
          <5> QED BY <3>1, <5>2, <5>3
        <4>4. Start(memoryChain[1]) \in Nat /\ Start(memoryChain[k - 1]) \in Nat
          BY <1>2, <3>1, MappedFacts
        <4> QED BY <1>4, <3>2, <4>1, <4>2, <4>3, <4>4
      <3>4. CASE j # 1
        <4>1. j - 1 \in 1 .. n /\ memoryChain'[j] = memoryChain[j - 1] /\ j - 1 < k - 1
          <5>1. j \in 1 .. n + 1 /\ j - 1 \in 1 .. n /\ ~(j < p + 1) /\ j # p + 1 /\ j - 1 < k - 1
            BY <1>2, <1>13, <2>1, <3>4
          <5> QED BY <1>11, <5>1
        <4>2. End(memoryChain[j])' = End(memoryChain[j - 1])
          BY <1>2, <1>9, <4>1 DEF Start, End
        <4>3. End(memoryChain[j - 1]) <= Start(memoryChain[k - 1])
          BY <1>2, <3>1, <4>1 DEF MemoryPartitioned
        <4> QED BY <3>2, <4>2, <4>3
      <3> QED BY <3>3, <3>4
    <2>2. CASE p = n /\ n > 0 /\ start = End(memoryChain[n])
      <3>1. j \in 1 .. n /\ memoryChain'[j] = memoryChain[j]
        BY <1>2, <1>11, <1>13, <2>2
      <3>2. End(memoryChain[j])' = End(memoryChain[j])
        BY <1>2, <1>9, <3>1 DEF Start, End
      <3>3. CASE k = n + 1
        <4>1. Start(memoryChain[k])' = End(memoryChain[n])
          <5>1. memoryChain'[k] = new
            BY <1>2, <1>11, <2>2, <3>3
          <5> QED BY <1>10, <2>2, <5>1 DEF Start
        <4>2. End(memoryChain[j]) <= End(memoryChain[n])
          <5>1. /\ End(memoryChain[j]) \in Nat /\ Start(memoryChain[n]) \in Nat
                /\ End(memoryChain[n]) \in Nat
                /\ Start(memoryChain[n]) < End(memoryChain[n])
            <6>1. n \in 1 .. n
              BY <1>2, <2>2
            <6> QED BY <1>2, <3>1, <6>1, MappedFacts
          <5>2. j < n => End(memoryChain[j]) <= Start(memoryChain[n])
            BY <1>2, <3>1, <2>2 DEF MemoryPartitioned
          <5> QED BY <1>2, <3>1, <5>1, <5>2
        <4> QED BY <3>2, <4>1, <4>2
      <3>4. CASE k # n + 1
        <4>1. k \in 1 .. n /\ memoryChain'[k] = memoryChain[k]
          BY <1>2, <1>11, <2>2, <3>4
        <4>2. Start(memoryChain[k])' = Start(memoryChain[k])
          BY <1>2, <1>9, <4>1 DEF Start, End
        <4>3. End(memoryChain[j]) <= Start(memoryChain[k])
          BY <1>2, <1>13, <3>1, <4>1 DEF MemoryPartitioned
        <4> QED BY <3>2, <4>2, <4>3
      <3> QED BY <3>3, <3>4
    <2> QED BY <1>4, <2>1, <2>2
  <1>14. \A i \in Mapped' : End(i)' <= DataSize
    BY <1>4, <1>8, <1>9, <1>10 DEF MemoryPartitioned
  <1>15. MemoryPartitioned'
    <2>1. (\A j, k \in DOMAIN memoryChain : j < k =>
               End(memoryChain[j]) <= Start(memoryChain[k]))'
      BY <1>11, <1>13
    <2> QED BY <1>12, <1>14, <2>1 DEF MemoryPartitioned
  <1>16. memoryChain = <<>> => memoryChain'[1] = new /\ Start(new)' = 0
    <2> SUFFICES ASSUME memoryChain = <<>> PROVE memoryChain'[1] = new /\ Start(new)' = 0
      OBVIOUS
    <2>1. n = 0 /\ p = 0 /\ start = 0
      BY <1>2, <1>3, <1>4
    <2> QED BY <1>10, <1>11, <2>1
  <1>17. memoryChain # <<>> /\ ~FitsInFront(size) => memoryChain'[1] = memoryChain[1]
    <2> SUFFICES ASSUME memoryChain # <<>>, ~FitsInFront(size)
                 PROVE  memoryChain'[1] = memoryChain[1]
      OBVIOUS
    <2>1. p = n /\ n > 0
      BY <1>4
    <2> QED BY <1>2, <1>11, <2>1
  <1> QED BY <1>1, <1>7, <1>8, <1>9, <1>11, <1>15, <1>16, <1>17 DEF RegistryType

LEMMA RemoveKeepsOrder ==
    ASSUME TypeOK, MemoryPartitioned, NEW i \in Mapped,
           deviceMappingData' = [deviceMappingData EXCEPT ![i] = Null],
           memoryChain' = RemoveAt(memoryChain, PositionOf(i))
    PROVE  /\ RegistryType' /\ MemoryPartitioned'
           /\ Mapped' = Mapped \ {i}
           /\ \A j \in Mapped \ {i} : deviceMappingData'[j] = deviceMappingData[j]
           /\ memoryChain[1] # i => memoryChain'[1] = memoryChain[1]
  <1> DEFINE n == Len(memoryChain)
             p == PositionOf(i)
             From(k) == IF k < p THEN k ELSE k + 1
  <1>1. /\ memoryChain \in Seq(Id) /\ n \in Nat
        /\ DOMAIN memoryChain = 1 .. n
        /\ \A k \in 1 .. n : memoryChain[k] \in Mapped
        /\ \A j, k \in 1 .. n : memoryChain[j] = memoryChain[k] => j = k
    BY ChainFacts
  <1>2. p \in 1 .. n /\ memoryChain[p] = i
    <2>1. \E k \in 1 .. n : memoryChain[k] = i
      BY <1>1 DEF MemoryPartitioned
    <2> QED BY <1>1, <2>1 DEF PositionOf
  <1>3. /\ memoryChain' \in Seq(Id)
        /\ DOMAIN memoryChain' = 1 .. n - 1
        /\ \A k \in 1 .. n - 1 : From(k) \in 1 .. n \ {p} /\ memoryChain'[k] = memoryChain[From(k)]
    <2>1. /\ memoryChain' \in Seq(Id)
          /\ Len(memoryChain') = n - 1
          /\ \A k \in 1 .. n - 1 : memoryChain'[k] =
                IF k < p THEN memoryChain[k] ELSE memoryChain[k + 1]
      <3> HIDE DEF p
      <3> QED BY <1>1, <1>2, RemoveAtProperties DEF p
    <2>2. DOMAIN memoryChain' = 1 .. n - 1
      BY <2>1, LenProperties
    <2> HIDE DEF p
    <2> QED BY <1>1, <1>2, <2>1, <2>2
  <1> HIDE DEF p, n
  <1>4. /\ Mapped' = Mapped \ {i}
        /\ \A j \in Mapped \ {i} : deviceMappingData'[j] = deviceMappingData[j]
        /\ deviceMappingData' \in [Id -> Device \cup {Null}]
    BY DEF TypeOK, Mapped
  <1>5. {memoryChain'[k] : k \in DOMAIN memoryChain'} = Mapped'
    <2>1. ASSUME NEW k \in 1 .. n - 1 PROVE memoryChain'[k] \in Mapped \ {i}
      <3>1. From(k) \in 1 .. n /\ From(k) # p /\ memoryChain'[k] = memoryChain[From(k)]
        BY <1>3
      <3> HIDE DEF From
      <3> QED BY <3>1, <1>1, <1>2
    <2>2. ASSUME NEW j \in Mapped \ {i} PROVE \E k \in 1 .. n - 1 : memoryChain'[k] = j
      <3>1. PICK m \in 1 .. n : memoryChain[m] = j
        BY <1>1 DEF MemoryPartitioned
      <3>2. CASE m < p
        <4>1. m \in 1 .. n - 1 /\ memoryChain'[m] = j
          BY <1>1, <1>2, <1>3, <3>1, <3>2
        <4> QED BY <4>1
      <3>3. CASE m > p
        <4>1. m - 1 \in 1 .. n - 1 /\ memoryChain'[m - 1] = j
          BY <1>1, <1>2, <1>3, <3>1, <3>3
        <4> QED BY <4>1
      <3>4. m # p
        BY <1>2, <3>1
      <3> QED BY <1>1, <1>2, <3>2, <3>3, <3>4
    <2> QED BY <1>3, <1>4, <2>1, <2>2
  <1>6. ASSUME NEW j \in 1 .. n - 1, NEW k \in 1 .. n - 1, j < k
        PROVE  End(memoryChain[j])' <= Start(memoryChain[k])'
    <2>1. From(j) \in 1 .. n /\ From(k) \in 1 .. n /\ From(j) < From(k)
      BY <1>1, <1>2, <1>3, <1>6
    <2>2. /\ memoryChain'[j] = memoryChain[From(j)] /\ memoryChain'[j] \in Mapped \ {i}
          /\ memoryChain'[k] = memoryChain[From(k)] /\ memoryChain'[k] \in Mapped \ {i}
      BY <1>3, <1>4, <1>5
    <2> HIDE DEF From
    <2>3. /\ End(memoryChain[j])' = End(memoryChain[From(j)])
          /\ Start(memoryChain[k])' = Start(memoryChain[From(k)])
      BY <1>4, <2>2 DEF Start, End
    <2>4. End(memoryChain[From(j)]) <= Start(memoryChain[From(k)])
      BY <1>1, <2>1 DEF MemoryPartitioned
    <2> QED BY <2>3, <2>4
  <1>7. \A j \in Mapped' : End(j)' <= DataSize
    BY <1>4 DEF MemoryPartitioned, End
  <1>8. MemoryPartitioned'
    <2>1. (\A j, k \in DOMAIN memoryChain : j < k =>
               End(memoryChain[j]) <= Start(memoryChain[k]))'
      BY <1>3, <1>6
    <2> QED BY <1>5, <1>7, <2>1 DEF MemoryPartitioned
  <1>9. memoryChain[1] # i => memoryChain'[1] = memoryChain[1]
    <2> SUFFICES ASSUME memoryChain[1] # i PROVE memoryChain'[1] = memoryChain[1]
      OBVIOUS
    <2>1. 1 < p /\ 1 \in 1 .. n - 1
      BY <1>1, <1>2
    <2> QED BY <1>3, <2>1
  <1> QED BY <1>3, <1>4, <1>8, <1>9 DEF RegistryType
-----------------------------------------------------------------------------
(* The inductive invariant. *)

LEMMA InitIInv == Init => IInv
  <1> SUFFICES ASSUME Init PROVE IInv
    OBVIOUS
  <1> USE DEF Init
  <1>1. Mapped = {}
    BY DEF Mapped
  <1>2. RegistryType /\ DOMAIN memoryChain = {}
    BY DEF RegistryType
  <1>3. TypeOK
    <2>1. 0 \in Id /\ 0 \in Address /\ booted \in 0 .. Len(Boot)
      BY ParameterFacts
    <2>2. entryType \in [Id -> EntryType] /\ guestType \in EntryType
      BY DEF EntryType
    <2> QED BY <1>2, <2>1, <2>2 DEF TypeOK, RegistryType
  <1>4. MemoryPartitioned
    BY <1>1, <1>2 DEF MemoryPartitioned
  <1> QED BY <1>1, <1>3, <1>4 DEF IInv, BootState

(* A step that leaves the registry alone keeps it in order. *)
LEMMA SameRegistryIInv ==
    ASSUME IInv, UNCHANGED <<registry, booted, drives>>, TypeOK',
           step' \in {"type", "location"} => id' \in Mapped,
           step = "idle" => step' = "idle",
           powerState' = powerState \/ booted # 0
    PROVE  IInv'
  <1> USE DEF registry
  <1>1. Mapped' = Mapped
    BY DEF Mapped
  <1>2. MemoryPartitioned'
    BY <1>1 DEF IInv, MemoryPartitioned, Start, End
  <1>3. BootState'
    BY <1>1 DEF IInv, BootState, MotherboardFirst, Start
  <1> QED BY <1>1, <1>2, <1>3 DEF IInv

(* What a request does, granted or not. *)
LEMMA RequestFacts ==
    ASSUME IInv, NEW size \in 1 .. DataSize, NEW canWrite \in SUBSET Address,
           Request(size, canWrite)
    PROVE  /\ RegistryType' /\ MemoryPartitioned'
           /\ \/ /\ ~Granted(size) /\ UNCHANGED <<registry, id, step, deviceRegistryMutex>>
                 /\ Mapped' = Mapped
              \/ /\ Granted(size)
                 /\ id' \in Id \ Mapped /\ Mapped' = Mapped \cup {id'}
                 /\ id' = FirstFreeId
                 /\ step' = "type" /\ deviceRegistryMutex' = Manager
                 /\ \A i \in Mapped : deviceMappingData'[i] = deviceMappingData[i]
                 /\ memoryChain = <<>> => memoryChain'[1] = id' /\ deviceMappingData'[id'].start = 0
                 /\ memoryChain # <<>> /\ ~FitsInFront(size) => memoryChain'[1] = memoryChain[1]
  <1>1. CASE Granted(size)
    <2> DEFINE new == FirstFreeId
               p == PlaceFor(size)
               start == StartAt(p)
    <2>1. /\ deviceMappingData' = [deviceMappingData EXCEPT ![new] =
                 [start |-> start, size |-> size, canWrite |-> canWrite]]
          /\ memoryChain' = InsertAt(memoryChain, p + 1, new)
          /\ id' = new /\ step' = "type" /\ deviceRegistryMutex' = Manager
      BY <1>1 DEF Request
    <2>2. Mapped # Id /\ CanPlace(size) /\ TypeOK /\ MemoryPartitioned
      BY <1>1 DEF Granted, IInv
    (* Names for what the state before the step says. *)
    <2>3. PICK i : i = new
      OBVIOUS
    <2>4. PICK place : place = p
      OBVIOUS
    <2>5. PICK first : first = StartAt(place)
      OBVIOUS
    <2>6. /\ deviceMappingData' = [deviceMappingData EXCEPT ![i] =
                 [start |-> first, size |-> size, canWrite |-> canWrite]]
          /\ memoryChain' = InsertAt(memoryChain, place + 1, i)
      BY <2>1, <2>3, <2>4, <2>5
    <2>7. /\ RegistryType' /\ MemoryPartitioned'
          /\ i \in Id \ Mapped
          /\ Mapped' = Mapped \cup {i}
          /\ \A j \in Mapped : deviceMappingData'[j] = deviceMappingData[j]
          /\ memoryChain = <<>> => memoryChain'[1] = i /\ Start(i)' = 0
          /\ memoryChain # <<>> /\ ~FitsInFront(size) => memoryChain'[1] = memoryChain[1]
      <3> HIDE DEF new, p
      <3> QED BY <2>2, <2>3, <2>4, <2>5, <2>6, InsertKeepsOrder DEF new, p
    <2> QED BY <1>1, <2>1, <2>3, <2>7 DEF Start
  <1>2. CASE ~Granted(size)
    <2>1. UNCHANGED <<registry, id, step, deviceRegistryMutex>>
      BY <1>2 DEF Request
    <2>2. Mapped' = Mapped
      BY <2>1 DEF registry, Mapped
    <2>3. RegistryType' /\ MemoryPartitioned'
      BY <2>1, <2>2 DEF registry, IInv, TypeOK, RegistryType, MemoryPartitioned, Start, End
    <2> QED BY <1>2, <2>1, <2>2, <2>3
  <1> QED BY <1>1, <1>2

(* In front of a device that starts at 0 there is no place. *)
LEMMA MotherboardInFront ==
    ASSUME TypeOK, MemoryPartitioned, 0 \in Mapped, memoryChain[1] = 0,
           deviceMappingData[0].start = 0, NEW size \in 1 .. DataSize
    PROVE  memoryChain # <<>> /\ ~FitsInFront(size)
  <1>1. memoryChain # <<>>
    BY DEF MemoryPartitioned
  <1>2. ~(size - 1 < Start(memoryChain[1]))
    BY ParameterFacts DEF Start
  <1> QED BY <1>1, <1>2 DEF FitsInFront

(* The boot devices are requested in order, and the first of them gets id 0 *)
(* and the front of the memory.                                             *)
LEMMA RequestBootDeviceIInv == IInv /\ RequestBootDevice => IInv'
  <1> SUFFICES ASSUME IInv, RequestBootDevice PROVE IInv'
    OBVIOUS
  <1> DEFINE b == Boot[booted + 1]
  <1>1. /\ booted \in 0 .. Len(Boot) /\ booted < Len(Boot) /\ booted' = booted + 1
        /\ Request(b.size, b.canWrite)
        /\ drives' = IF b.drive /\ Granted(b.size) THEN drives \cup {id'} ELSE drives
    BY DEF RequestBootDevice, IInv, TypeOK
  <1>2. booted + 1 \in 1 .. Len(Boot)
    BY <1>1, ParameterFacts
  <1>3. b.size \in 1 .. DataSize /\ b.canWrite \in SUBSET Address
    BY <1>2, ParameterFacts
  <1>4. booted = 0 => ~b.drive
    BY ParameterFacts
  <1>5. /\ step = "idle"
        /\ UNCHANGED <<table, powerState, processor, events, guest>>
    BY <1>1 DEF Request
  <1> HIDE DEF b
  <1>6. /\ RegistryType' /\ MemoryPartitioned'
        /\ \/ /\ ~Granted(b.size) /\ UNCHANGED <<registry, id, step, deviceRegistryMutex>>
              /\ Mapped' = Mapped
           \/ /\ Granted(b.size)
              /\ id' \in Id \ Mapped /\ Mapped' = Mapped \cup {id'}
              /\ id' = FirstFreeId
              /\ step' = "type" /\ deviceRegistryMutex' = Manager
              /\ \A i \in Mapped : deviceMappingData'[i] = deviceMappingData[i]
              /\ memoryChain = <<>> => memoryChain'[1] = id' /\ deviceMappingData'[id'].start = 0
              /\ memoryChain # <<>> /\ ~FitsInFront(b.size) => memoryChain'[1] = memoryChain[1]
    BY <1>1, <1>3, RequestFacts
  <1>7. drives \subseteq Mapped /\ Mapped \subseteq Id /\ drives' \subseteq Mapped'
    BY <1>1, <1>6 DEF IInv, Mapped
  <1>8. TypeOK'
    <2>1. drives' \subseteq Id
      BY <1>1, <1>6, <1>7
    <2>2. booted' \in 0 .. Len(Boot)
      BY <1>1, <1>2
    <2>3. /\ step' \in {"idle", "type"} /\ id' \in Id
          /\ deviceRegistryMutex' \in {NoThread, Manager}
      BY <1>5, <1>6 DEF IInv, TypeOK
    <2> QED BY <1>5, <1>6, <2>1, <2>2, <2>3
            DEF IInv, TypeOK, RegistryType, table, processor, guest
  <1>9. BootState'
    <2>1. booted' # 0
      BY <1>1
    <2>2. CASE booted = 0
      <3>1. Mapped = {} /\ drives = {} /\ memoryChain = <<>>
        <4>1. Mapped = {} /\ drives = {}
          BY <2>2 DEF IInv, BootState
        <4>2. DOMAIN memoryChain = {}
          BY <4>1 DEF IInv, MemoryPartitioned
        <4> QED BY <4>1, <4>2, LenProperties, EmptySeq, ChainFacts DEF IInv
      <3>2. Granted(b.size)
        BY <3>1, ParameterFacts DEF Granted, CanPlace, FitsInFront
      <3>3. FirstFreeId = 0
        <4>1. 0 \in Id \ Mapped /\ Mapped # Id
          BY <3>1, ParameterFacts
        <4>2. FirstFreeId \in Id /\ FirstFreeId <= 0
          BY <4>1, FirstFreeIdFacts DEF IInv
        <4> QED BY <4>2, ParameterFacts DEF Id
      <3>4. /\ 0 \in Mapped' /\ drives' = {}
            /\ memoryChain'[1] = 0 /\ deviceMappingData'[0].start = 0
        BY <1>1, <1>4, <1>6, <2>2, <3>1, <3>2, <3>3
      <3> QED BY <2>1, <3>4 DEF BootState, MotherboardFirst, Start
    <2>3. CASE booted # 0
      <3>1. /\ 0 \in Mapped /\ 0 \notin drives
            /\ memoryChain[1] = 0 /\ deviceMappingData[0].start = 0
        BY <1>1, <2>3 DEF IInv, BootState, MotherboardFirst, Start
      <3>2. memoryChain # <<>> /\ ~FitsInFront(b.size)
        BY <1>3, <3>1, MotherboardInFront DEF IInv
      <3>3. /\ 0 \in Mapped' /\ 0 \notin drives'
            /\ memoryChain'[1] = 0 /\ deviceMappingData'[0].start = 0
        BY <1>1, <1>6, <3>1, <3>2 DEF registry
      <3> QED BY <2>1, <3>3 DEF BootState, MotherboardFirst, Start
    <2> QED BY <2>2, <2>3
  <1>10. step' \in {"type", "location"} => id' \in Mapped'
    BY <1>5, <1>6
  <1> QED BY <1>6, <1>7, <1>8, <1>9, <1>10 DEF IInv

(* Drives come after the boot devices, so never in front of all others.     *)
LEMMA InsertDriveIInv == IInv /\ InsertDrive => IInv'
  <1> SUFFICES ASSUME IInv, InsertDrive PROVE IInv'
    OBVIOUS
  <1>1. /\ Request(DriveSize, DriveCanWrite)
        /\ drives' = IF Granted(DriveSize) THEN drives \cup {id'} ELSE drives
        /\ booted' = booted
    BY DEF InsertDrive
  <1>2. /\ step = "idle"
        /\ UNCHANGED <<table, powerState, processor, events, guest>>
    BY <1>1 DEF Request
  <1>3. /\ RegistryType' /\ MemoryPartitioned'
        /\ \/ /\ ~Granted(DriveSize) /\ UNCHANGED <<registry, id, step, deviceRegistryMutex>>
              /\ Mapped' = Mapped
           \/ /\ Granted(DriveSize)
              /\ id' \in Id \ Mapped /\ Mapped' = Mapped \cup {id'}
              /\ step' = "type" /\ deviceRegistryMutex' = Manager
              /\ \A i \in Mapped : deviceMappingData'[i] = deviceMappingData[i]
              /\ memoryChain # <<>> /\ ~FitsInFront(DriveSize) => memoryChain'[1] = memoryChain[1]
    BY <1>1, ParameterFacts, RequestFacts
  <1>4. drives \subseteq Mapped /\ Mapped \subseteq Id /\ drives' \subseteq Mapped'
    BY <1>1, <1>3 DEF IInv, Mapped
  <1>5. TypeOK'
    <2>1. drives' \subseteq Id
      BY <1>1, <1>3, <1>4
    <2>2. /\ step' \in {"idle", "type"} /\ id' \in Id
          /\ deviceRegistryMutex' \in {NoThread, Manager}
      BY <1>2, <1>3 DEF IInv, TypeOK
    <2> QED BY <1>1, <1>2, <1>3, <2>1, <2>2
            DEF IInv, TypeOK, RegistryType, table, processor, guest
  <1>6. BootState'
    <2>1. CASE booted = 0
      BY <2>1 DEF IInv, BootState, InsertDrive
    <2>2. CASE booted # 0
      <3>1. /\ 0 \in Mapped /\ 0 \notin drives
            /\ memoryChain[1] = 0 /\ deviceMappingData[0].start = 0
        BY <2>2 DEF IInv, BootState, MotherboardFirst, Start, TypeOK
      <3>2. memoryChain # <<>> /\ ~FitsInFront(DriveSize)
        BY <3>1, MotherboardInFront, ParameterFacts DEF IInv
      <3>3. /\ 0 \in Mapped' /\ 0 \notin drives'
            /\ memoryChain'[1] = 0 /\ deviceMappingData'[0].start = 0
        BY <1>1, <1>3, <3>1, <3>2 DEF registry
      <3> QED BY <1>1, <2>2, <3>3 DEF BootState, MotherboardFirst, Start
    <2> QED BY <2>1, <2>2
  <1> QED BY <1>2, <1>3, <1>4, <1>5, <1>6 DEF IInv

(* A drive is a device of the mapping, and not the first in memory. *)
LEMMA RemoveDriveIInv == ASSUME IInv, NEW i \in Id, RemoveDrive(i) PROVE IInv'
  <1>1. /\ powerState /\ i \in drives /\ step = "idle"
        /\ deviceMappingData' = [deviceMappingData EXCEPT ![i] = Null]
        /\ memoryChain' = RemoveAt(memoryChain, PositionOf(i))
        /\ drives' = drives \ {i} /\ booted' = booted
        /\ UNCHANGED <<table, powerState, processor, events, guest>>
    BY DEF RemoveDrive
  <1>2. i \in Mapped /\ TypeOK /\ MemoryPartitioned
    BY <1>1 DEF IInv
  <1>3. /\ RegistryType' /\ MemoryPartitioned'
        /\ Mapped' = Mapped \ {i}
        /\ \A j \in Mapped \ {i} : deviceMappingData'[j] = deviceMappingData[j]
        /\ memoryChain[1] # i => memoryChain'[1] = memoryChain[1]
    BY <1>1, <1>2, RemoveKeepsOrder
  <1>4. /\ step' \in {"idle", "mark"} /\ id' \in Id
        /\ deviceRegistryMutex' \in {NoThread, Manager}
    BY <1>1, <1>2 DEF RemoveDrive, TypeOK
  <1>5. TypeOK'
    <2>1. drives' \subseteq Id
      BY <1>1, <1>2 DEF TypeOK
    <2> QED BY <1>1, <1>2, <1>3, <1>4, <2>1
            DEF TypeOK, RegistryType, table, processor, guest
  <1>6. BootState'
    <2>1. /\ booted # 0 /\ 0 \in Mapped /\ 0 \notin drives
          /\ memoryChain[1] = 0 /\ deviceMappingData[0].start = 0
      BY <1>1, <1>2 DEF IInv, BootState, MotherboardFirst, Start, TypeOK
    <2>2. /\ 0 \in Mapped' /\ 0 \notin drives'
          /\ memoryChain'[1] = 0 /\ deviceMappingData'[0].start = 0
      BY <1>1, <1>3, <2>1
    <2> QED BY <1>1, <2>1, <2>2 DEF BootState, MotherboardFirst, Start
  <1>7. drives' \subseteq Mapped'
    BY <1>1, <1>3 DEF IInv
  <1> QED BY <1>3, <1>4, <1>5, <1>6, <1>7 DEF IInv

(* The table is written entry by entry, the registry stays as it is. *)
LEMMA TableStepIInv ==
    ASSUME IInv, \/ WriteType \/ WriteLocation \/ WriteEndMarker \/ SignalAdded
                 \/ MarkRemoved \/ SignalRemoved
    PROVE  IInv'
  <1> USE DEF IInv, registry, table, processor, guest
  <1>0. 0 \in Id
    BY ParameterFacts
  <1>1. CASE WriteType
    <2>1. TypeOK' /\ Mapped' = Mapped
      BY <1>1 DEF WriteType, TypeOK, EntryType, Mapped
    <2> QED BY <1>1, <2>1, SameRegistryIInv DEF WriteType
  <1>2. CASE WriteLocation
    <2>1. Start(id) \in Address
      BY <1>2, MappedFacts DEF WriteLocation
    <2>2. TypeOK'
      BY <1>2, <2>1 DEF WriteLocation, TypeOK
    <2> QED BY <1>2, <2>2, SameRegistryIInv DEF WriteLocation
  <1>3. CASE WriteEndMarker
    <2>1. entryType' \in [Id -> EntryType]
      BY <1>3 DEF WriteEndMarker, TypeOK, EntryType
    <2>2. TypeOK'
      BY <1>3, <2>1 DEF WriteEndMarker, TypeOK
    <2> QED BY <1>3, <2>2, SameRegistryIInv DEF WriteEndMarker
  <1>4. CASE SignalAdded
    <2>1. TypeOK'
      BY <1>0, <1>4 DEF SignalAdded, TypeOK
    <2> QED BY <1>4, <2>1, SameRegistryIInv DEF SignalAdded
  <1>5. CASE MarkRemoved
    <2>1. entryType' \in [Id -> EntryType]
      BY <1>5 DEF MarkRemoved, TypeOK, EntryType
    <2>2. TypeOK'
      BY <1>5, <2>1 DEF MarkRemoved, TypeOK
    <2> QED BY <1>5, <2>2, SameRegistryIInv DEF MarkRemoved
  <1>6. CASE SignalRemoved
    <2>1. TypeOK'
      BY <1>0, <1>6 DEF SignalRemoved, TypeOK
    <2> QED BY <1>6, <2>1, SameRegistryIInv DEF SignalRemoved
  <1> QED BY <1>1, <1>2, <1>3, <1>4, <1>5, <1>6

(* The processor and the guest program read the registry and the table. *)
LEMMA ReaderStepIInv ==
    ASSUME IInv, \/ \E a \in Address : CheckStore(a)
                 \/ Store \/ HandleStore
                 \/ PowerOn \/ TakeEvent \/ ReadType \/ ReadLocation
    PROVE  IInv'
  <1> USE DEF IInv, registry, table, processor, guest, manager
  <1>0. 0 \in Id /\ 0 \in Address
    BY ParameterFacts
  <1>1. UNCHANGED <<registry, table, deviceRegistryMutex, manager>> /\ Mapped' = Mapped
    BY DEF CheckStore, Store, HandleStore, PowerOn, TakeEvent, ReadType, ReadLocation, Mapped
  <1>2. TypeOK'
    <2>1. CASE \E a \in Address : CheckStore(a)
      BY <2>1 DEF CheckStore, TypeOK
    <2>2. CASE Store \/ HandleStore
      BY <1>0, <2>2 DEF Store, HandleStore, TypeOK
    <2>3. CASE PowerOn
      <3>1. known' \in [Id -> Address \cup {Null}]
        BY <2>3 DEF PowerOn, Scan, TypeOK
      <3> QED BY <2>3, <3>1 DEF PowerOn, TypeOK
    <2>4. CASE TakeEvent
      BY <2>4 DEF TakeEvent, TypeOK
    <2>5. CASE ReadType
      BY <2>5 DEF ReadType, TypeOK
    <2>6. CASE ReadLocation
      <3>1. known' \in [Id -> Address \cup {Null}]
        BY <2>6 DEF ReadLocation, TypeOK
      <3> QED BY <1>0, <2>6, <3>1 DEF ReadLocation, TypeOK, EntryType
    <2> QED BY <2>1, <2>2, <2>3, <2>4, <2>5, <2>6
  <1>3. powerState' = powerState \/ booted # 0
    BY ParameterFacts
       DEF CheckStore, Store, HandleStore, PowerOn, TakeEvent, ReadType, ReadLocation
  <1> QED BY <1>1, <1>2, <1>3, SameRegistryIInv

LEMMA NextIInv == IInv /\ [Next]_vars => IInv'
  <1> SUFFICES ASSUME IInv, [Next]_vars PROVE IInv'
    OBVIOUS
  <1>1. CASE UNCHANGED vars
    <2>1. TypeOK' /\ Mapped' = Mapped
      BY <1>1 DEF vars, registry, table, manager, processor, guest, IInv, TypeOK, Mapped
    <2> QED BY <1>1, <2>1, SameRegistryIInv DEF vars, registry, manager, IInv
  <1> QED BY <1>1, RequestBootDeviceIInv, InsertDriveIInv, RemoveDriveIInv, TableStepIInv,
             ReaderStepIInv DEF Next

LEMMA SpecIInv == Spec => []IInv
  BY InitIInv, NextIInv, PTL DEF Spec
-----------------------------------------------------------------------------
(* However many devices there are, and however drives come and go: the      *)
(* registry's parts, the table and what the guest knows keep their types.   *)
THEOREM TypeCorrect == Spec => []TypeOK
  BY SpecIInv, PTL DEF IInv

(* dmi_requestNewDevice and dmi_removeDevice keep the chain of devices      *)
(* sorted by address, without overlap and inside the device-data region,    *)
(* and linking exactly the devices of the mapping.                          *)
THEOREM MemoryPartitionedHolds == Spec => []MemoryPartitioned
  BY SpecIInv, PTL DEF IInv

(* The motherboard's own device is the first in memory for good, so no      *)
(* device is ever put in front of it.                                       *)
THEOREM MotherboardFirstHolds == Spec => []MotherboardFirst
  <1>1. IInv => MotherboardFirst
    <2> SUFFICES ASSUME IInv, booted # 0 PROVE MotherboardFirst
      BY DEF IInv, TypeOK, MotherboardFirst
    <2> QED BY DEF IInv, BootState
  <1> QED BY <1>1, SpecIInv, PTL
-----------------------------------------------------------------------------
(* Two devices never hold the same byte. *)
LEMMA HolderUnique ==
    ASSUME TypeOK, MemoryPartitioned, NEW a \in Address, NEW n \in Nat \ {0},
           NEW i \in Mapped, NEW j \in Mapped, Holds(i, a, n), Holds(j, a, n)
    PROVE  i = j
  <1>1. PICK k \in 1 .. Len(memoryChain), m \in 1 .. Len(memoryChain) :
            memoryChain[k] = i /\ memoryChain[m] = j
    BY ChainFacts DEF MemoryPartitioned
  <1>2. /\ k < m => End(i) <= Start(j)
        /\ m < k => End(j) <= Start(i)
    BY <1>1, ChainFacts DEF MemoryPartitioned
  <1>3. Start(i) \in Nat /\ End(i) \in Nat /\ Start(j) \in Nat /\ End(j) \in Nat /\ a \in Nat
    BY MappedFacts DEF Address
  <1>4. ~(k < m) /\ ~(m < k)
    BY <1>2, <1>3 DEF Holds
  <1> QED BY <1>1, <1>4, ChainFacts

LEMMA LookupFinds ==
    ASSUME TypeOK, MemoryPartitioned, NEW a \in Address, NEW n \in Nat \ {0}
    PROVE  FindDevice(a, n) = IF \E i \in Mapped : Holds(i, a, n)
                              THEN CHOOSE i \in Mapped : Holds(i, a, n)
                              ELSE Null
  <1> DEFINE stops == {k \in DOMAIN memoryChain :
                          Holds(memoryChain[k], a, n) \/ a < Start(memoryChain[k])}
             first == CHOOSE k \in stops : \A j \in stops : k <= j
  <1>1. FindDevice(a, n) = IF stops # {} /\ Holds(memoryChain[first], a, n)
                           THEN memoryChain[first] ELSE Null
    BY DEF FindDevice
  <1>2. stops \subseteq 1 .. Len(memoryChain)
    BY ChainFacts
  <1>3. stops # {} => first \in stops /\ \A j \in stops : first <= j
    <2>1. stops \in SUBSET Nat
      BY <1>2, ChainFacts
    <2> HIDE DEF stops
    <2>2. stops # {} => \E k \in stops : \A j \in stops : k <= j
      BY <2>1, LeastElement
    <2> QED BY <2>2
  <1>4. CASE \E i \in Mapped : Holds(i, a, n)
    <2>1. PICK i \in Mapped : Holds(i, a, n)
      BY <1>4
    <2>2. PICK m \in 1 .. Len(memoryChain) : memoryChain[m] = i
      BY ChainFacts DEF MemoryPartitioned
    <2>3. m \in stops
      BY <2>1, <2>2, ChainFacts
    <2>4. first \in 1 .. Len(memoryChain) /\ first \in stops /\ first <= m
      BY <1>2, <1>3, <2>3
    <2>5. memoryChain[first] \in Mapped
      BY <2>4, ChainFacts
    <2>6. ~(a < Start(memoryChain[first]))
      <3> HIDE DEF first
      <3>1. first < m => End(memoryChain[first]) <= Start(i)
        BY <2>2, <2>4, ChainFacts DEF MemoryPartitioned
      <3>2. /\ Start(i) \in Nat /\ a \in Nat
            /\ Start(memoryChain[first]) \in Nat /\ End(memoryChain[first]) \in Nat
            /\ Start(memoryChain[first]) < End(memoryChain[first])
        BY <2>5, MappedFacts DEF Address
      <3>3. Start(i) <= a
        BY <2>1 DEF Holds
      <3>4. first = m \/ first < m
        BY <2>4, ChainFacts
      <3> QED BY <2>2, <3>1, <3>2, <3>3, <3>4
    <2>7. Holds(memoryChain[first], a, n)
      BY <2>4, <2>6
    <2>8. memoryChain[first] = i
      BY <2>1, <2>5, <2>7, HolderUnique
    <2>9. (CHOOSE j \in Mapped : Holds(j, a, n)) = i
      BY <2>1, HolderUnique
    <2> HIDE DEF stops, first
    <2> QED BY <1>1, <1>4, <2>3, <2>7, <2>8, <2>9
  <1>5. CASE ~\E i \in Mapped : Holds(i, a, n)
    <2>1. stops # {} => memoryChain[first] \in Mapped
      <3> HIDE DEF first
      <3> QED BY <1>2, <1>3, ChainFacts
    <2> HIDE DEF stops, first
    <2> QED BY <1>1, <1>5, <2>1
  <1> QED BY <1>4, <1>5

(* An access of one, two or four bytes is given to the device all its bytes *)
(* lie in and to no other, whatever devices came and went: the walk along   *)
(* the chain stops neither too early nor too late.                          *)
THEOREM LookupExactHolds == Spec => []LookupExact
  <1>1. AccessSize \subseteq Nat \ {0}
    BY RegistryAssumption DEF RegistryAssumption
  <1>2. IInv => LookupExact
    BY <1>1, LookupFinds DEF IInv, LookupExact
  <1> QED BY <1>2, SpecIInv, PTL
=============================================================================
