---------------------------- MODULE DerialProofs ----------------------------
(***************************************************************************)
(* Theorems about Derial, for every size of the buffer.                    *)
(***************************************************************************)
EXTENDS Derial, SequenceTheorems, TLAPS

(* TypeOK in parts. *)
BufferType ==
    /\ outboundBuffer \in [0 .. BufferSize - 1 -> 0 .. MaxAccesses]
    /\ outboundBufferHead \in 0 .. BufferSize
CountType ==
    /\ inboundRegister \in 0 .. MaxTyped
    /\ accesses \in 0 .. MaxAccesses /\ sent \in 0 .. accesses
BitsType == bits \subseteq Bits /\ statusRegister \subseteq Bits
WakeType == wakerTodo \subseteq {Derial, Dboard} /\ semaphore \in {None, Derial, Dboard}
FlagType ==
    /\ shouldFlush \in BOOLEAN /\ autoFlush \in BOOLEAN
    /\ unread \in BOOLEAN /\ hasty \in BOOLEAN /\ overwritten \in BOOLEAN
    /\ raced \in BOOLEAN /\ overlapped \in BOOLEAN /\ lost \in BOOLEAN
Appending == [step : {"append"}, index : 0 .. BufferSize - 1, open : SUBSET {"byte", "head"}]
CpuType == cpu \in [step : {"outside", "read", "leave", "flush"}]
                   \cup Appending
                   \cup [step : {"update"}, bits : SUBSET Bits, flush : BOOLEAN]
MainType == main \in [step : {"outside", "ready"}]
                     \cup [step : {"miss"}, replaced : BOOLEAN]
                     \cup [step : {"update"}, bits : SUBSET Bits]
Transmitting == [step : {"transmit"}, index : 0 .. BufferSize]
ManagerType == manager \in [step : {"waiting", "reset", "clear"}]
                           \cup Transmitting
                           \cup [step : {"update"}, bits : SUBSET Bits]
SequenceType == printed \in Seq(0 .. MaxAccesses) /\ accepted \in Seq(0 .. MaxAccesses)

(* While a byte is stored nobody flushes, and the bytes before it are the   *)
(* ones that were accepted.                                                 *)
AppendInv ==
    ~ hasty /\ cpu.step = "append" =>
        /\ ~ shouldFlush /\ ~ Flushing
        /\ outboundBufferHead = IF "head" \in cpu.open THEN cpu.index ELSE cpu.index + 1
        /\ "byte" \notin cpu.open => outboundBuffer[cpu.index] = sent
        /\ printed \o Stretch(outboundBuffer, 0, cpu.index) = accepted
        /\ "bufNotEmpty" \in bits <=> cpu.index > 0
        /\ "bufFull" \notin bits

(* A flush goes through the buffer from front to end and empties it.        *)
FlushInv ==
    ~ hasty => /\ manager.step = "transmit" => manager.index <= outboundBufferHead
               /\ manager.step = "clear" => outboundBufferHead = 0

(* A thread that is about to write the register has the bits of the moment, *)
(* unless the main thread is between its two changes of them.               *)
RegisterInv ==
    ~ overlapped =>
        /\ Updating(cpu) => ~ Updating(main) /\ ~ Updating(manager)
        /\ Updating(main) => ~ Updating(manager)
        /\ main.step # "ready" =>
              /\ Updating(cpu) => cpu.bits = bits
              /\ Updating(main) => main.bits = bits
              /\ Updating(manager) => manager.bits = bits

(* The main thread takes note of a new byte without the program reading.    *)
InputInv ==
    ~ raced =>
        /\ main.step \in {"miss", "ready"} => unread /\ cpu.step # "read"
        /\ main.step = "miss" => ("inboundReady" \in bits <=> main.replaced)
        /\ cpu.step = "read" => ~ unread

(* The inductive invariant. *)
IInv ==
    /\ BufferType /\ CountType /\ BitsType /\ WakeType /\ FlagType
    /\ CpuType /\ MainType /\ ManagerType /\ SequenceType
    /\ AppendInv /\ FlushInv /\ OutboundExact /\ BufferBits
    /\ RegisterInv /\ RegisterExact
    /\ InputInv /\ InputAccounted

-----------------------------------------------------------------------------
(* What the proofs need to know of stretches of the buffer. *)

LEMMA StretchType ==
    ASSUME NEW S, NEW b, NEW k \in Nat, NEW h \in Nat, k <= h,
           \A i \in k .. h - 1 : b[i] \in S
    PROVE  /\ Stretch(b, k, h) \in Seq(S)
           /\ Len(Stretch(b, k, h)) = h - k
           /\ \A i \in 1 .. h - k : Stretch(b, k, h)[i] = b[k + i - 1]
  <1>1. \A i \in 1 .. h - k : k + i - 1 \in k .. h - 1
    OBVIOUS
  <1>2. h - k \in Nat
    OBVIOUS
  <1> QED BY <1>1, <1>2 DEF Stretch

LEMMA StretchEmpty ==
    ASSUME NEW b, NEW k \in Nat, NEW h \in Nat, k >= h
    PROVE  Stretch(b, k, h) = <<>>
  <1>1. 1 .. h - k = {}
    OBVIOUS
  <1> QED BY <1>1 DEF Stretch

LEMMA OneElement ==
    ASSUME NEW S, NEW e \in S
    PROVE  <<e>> \in Seq(S) /\ Len(<<e>>) = 1 /\ <<e>>[1] = e
  OBVIOUS

(* To transmit the first byte moves it from the stretch to what is printed. *)
LEMMA StretchFirst ==
    ASSUME NEW S, NEW b, NEW p \in Seq(S), NEW k \in Nat, NEW h \in Nat, k < h,
           \A i \in k .. h - 1 : b[i] \in S
    PROVE  Append(p, b[k]) \o Stretch(b, k + 1, h) = p \o Stretch(b, k, h)
  <1> DEFINE s == Stretch(b, k, h)
             t == Stretch(b, k + 1, h)
  <1>1. /\ s \in Seq(S) /\ Len(s) = h - k
        /\ \A i \in 1 .. h - k : s[i] = b[k + i - 1]
    <2>1. k <= h
      OBVIOUS
    <2> QED BY <2>1, StretchType
  <1>2. /\ t \in Seq(S) /\ Len(t) = h - (k + 1)
        /\ \A i \in 1 .. h - (k + 1) : t[i] = b[(k + 1) + i - 1]
    <2>1. \A i \in 1 .. h - (k + 1) : (k + 1) + i - 1 \in k .. h - 1
      OBVIOUS
    <2>2. h - (k + 1) \in Nat
      OBVIOUS
    <2> QED BY <2>1, <2>2 DEF Stretch
  <1>3. b[k] \in S
    OBVIOUS
  <1> HIDE DEF s, t
  <1>4. /\ <<b[k]>> \in Seq(S) /\ <<b[k]>> \o t \in Seq(S)
        /\ Len(<<b[k]>> \o t) = h - k
    BY <1>2, <1>3
  <1>5. ASSUME NEW i \in 1 .. h - k PROVE (<<b[k]>> \o t)[i] = s[i]
    <2>1. CASE i = 1
      BY <1>1, <1>2, <1>3, <2>1
    <2>2. CASE i # 1
      <3>1. i - 1 \in 1 .. h - (k + 1) /\ (k + 1) + (i - 1) - 1 = k + i - 1
        BY <2>2
      <3>2. (<<b[k]>> \o t)[i] = t[i - 1]
        BY <1>2, <1>3, <2>2
      <3> QED BY <1>1, <1>2, <3>1, <3>2
    <2> QED BY <2>1, <2>2
  <1>6. <<b[k]>> \o t = s
    BY <1>1, <1>4, <1>5, SeqEqual
  <1>7. (p \o <<b[k]>>) \o t = p \o (<<b[k]>> \o t)
    BY <1>2, <1>4, ConcatAssociative
  <1>8. Append(p, b[k]) = p \o <<b[k]>>
    BY <1>3, AppendIsConcat
  <1> QED BY <1>6, <1>7, <1>8 DEF s, t

(* To accept a byte prolongs the stretch by it. *)
LEMMA StretchLast ==
    ASSUME NEW S, NEW b, NEW p \in Seq(S), NEW h \in Nat,
           \A i \in 0 .. h : b[i] \in S
    PROVE  p \o Stretch(b, 0, h + 1) = Append(p \o Stretch(b, 0, h), b[h])
  <1> DEFINE s == Stretch(b, 0, h)
             t == Stretch(b, 0, h + 1)
             e == <<b[h]>>
  <1>1. /\ s \in Seq(S) /\ Len(s) = h - 0
        /\ \A i \in 1 .. h - 0 : s[i] = b[0 + i - 1]
    <2>1. 0 \in Nat /\ 0 <= h /\ \A i \in 0 .. h - 1 : b[i] \in S
      OBVIOUS
    <2> QED BY <2>1, StretchType
  <1>2. /\ t \in Seq(S) /\ Len(t) = (h + 1) - 0
        /\ \A i \in 1 .. (h + 1) - 0 : t[i] = b[0 + i - 1]
    <2>1. h + 1 \in Nat /\ 0 \in Nat /\ 0 <= h + 1
          /\ \A i \in 0 .. (h + 1) - 1 : b[i] \in S
      OBVIOUS
    <2> QED BY <2>1, StretchType
  <1>3. b[h] \in S
    OBVIOUS
  <1> HIDE DEF s, t
  <1>4. e \in Seq(S) /\ s \o e \in Seq(S) /\ Len(s \o e) = h + 1
    BY <1>1, <1>3
  <1>5. \A i \in 1 .. h + 1 : (s \o e)[i] = t[i]
    BY <1>1, <1>2, <1>3
  <1>6. s \o e = t
    BY <1>2, <1>4, <1>5, SeqEqual
  <1> HIDE DEF e
  <1>7. (p \o s) \o e = p \o (s \o e) /\ p \o s \in Seq(S)
    BY <1>1, <1>4, ConcatAssociative, SMTT(20)
  <1>8. Append(p \o s, b[h]) = (p \o s) \o e
    BY <1>3, <1>7, AppendIsConcat DEF e
  <1> QED BY <1>6, <1>7, <1>8 DEF s, t

USE DerialAssumption DEF DerialAssumption

(* What a thread's step says of its other fields. *)
LEMMA CpuFacts ==
    ASSUME CpuType
    PROVE  /\ cpu.step \in {"outside", "read", "leave", "flush", "append", "update"}
           /\ cpu.step = "append" => cpu \in Appending
           /\ cpu.step = "update" => cpu.bits \in SUBSET Bits
           /\ cpu = Outside => cpu.step = "outside"
  BY DEF CpuType, Appending, Outside
LEMMA MainFacts ==
    ASSUME MainType
    PROVE  /\ main.step \in {"outside", "ready", "miss", "update"}
           /\ main.step = "miss" => main.replaced \in BOOLEAN
           /\ main.step = "update" => main.bits \in SUBSET Bits
           /\ main = Outside => main.step = "outside"
  BY DEF MainType, Outside
LEMMA ManagerFacts ==
    ASSUME ManagerType
    PROVE  /\ manager.step \in {"waiting", "reset", "clear", "transmit", "update"}
           /\ manager.step = "transmit" => manager \in Transmitting
           /\ manager.step = "update" => manager.bits \in SUBSET Bits
           /\ manager = Waiting => manager.step = "waiting"
  BY DEF ManagerType, Transmitting, Waiting

(* The lemmas on stretches for the buffer. *)
LEMMA BufferFirst ==
    ASSUME BufferType, SequenceType, NEW k \in Nat, k < outboundBufferHead
    PROVE  Append(printed, outboundBuffer[k])
                 \o Stretch(outboundBuffer, k + 1, outboundBufferHead)
              = printed \o Stretch(outboundBuffer, k, outboundBufferHead)
  <1>1. outboundBufferHead \in Nat /\ printed \in Seq(0 .. MaxAccesses)
    BY DEF BufferType, SequenceType
  <1>2. \A i \in k .. outboundBufferHead - 1 : outboundBuffer[i] \in 0 .. MaxAccesses
    BY DEF BufferType
  <1>3. PICK S, b : S = 0 .. MaxAccesses /\ b = outboundBuffer
    OBVIOUS
  <1> DEFINE h == outboundBufferHead
  <1>4. printed \in Seq(S) /\ k < h /\ h \in Nat /\ \A i \in k .. h - 1 : b[i] \in S
    BY <1>1, <1>2, <1>3
  <1> HIDE DEF h
  <1>5. Append(printed, b[k]) \o Stretch(b, k + 1, h) = printed \o Stretch(b, k, h)
    BY <1>4, StretchFirst
  <1> QED BY <1>3, <1>5 DEF h

LEMMA BufferLast ==
    ASSUME BufferType, SequenceType, NEW k \in 0 .. BufferSize - 1
    PROVE  printed \o Stretch(outboundBuffer, 0, k + 1)
              = Append(printed \o Stretch(outboundBuffer, 0, k), outboundBuffer[k])
  <1>1. k \in Nat /\ printed \in Seq(0 .. MaxAccesses)
    BY DEF SequenceType
  <1>2. \A i \in 0 .. k : outboundBuffer[i] \in 0 .. MaxAccesses
    BY DEF BufferType
  <1>3. PICK S : S = 0 .. MaxAccesses
    OBVIOUS
  <1>4. printed \in Seq(S) /\ \A i \in 0 .. k : outboundBuffer[i] \in S
    BY <1>1, <1>2, <1>3
  <1> QED BY <1>1, <1>4, StretchLast
LEMMA BufferKept ==
    ASSUME BufferType, NEW k \in 0 .. BufferSize - 1, NEW e
    PROVE  Stretch([outboundBuffer EXCEPT ![k] = e], 0, k) = Stretch(outboundBuffer, 0, k)
  <1>1. \A i \in 1 .. k - 0 :
            [outboundBuffer EXCEPT ![k] = e][0 + i - 1] = outboundBuffer[0 + i - 1]
    BY DEF BufferType
  <1> QED BY <1>1 DEF Stretch

LEMMA InitIInv == Init => IInv
  <1> SUFFICES ASSUME Init PROVE IInv
    OBVIOUS
  <1> USE DEF Init, Outside, Waiting
  <1>1. BufferType /\ CountType
    BY DEF BufferType, CountType
  <1>2. BitsType /\ WakeType
    BY DEF BitsType, WakeType
  <1>3. FlagType
    BY DEF FlagType
  <1>4. CpuType /\ MainType /\ ManagerType
    BY DEF CpuType, MainType, ManagerType
  <1>5. SequenceType
    BY DEF SequenceType
  <1>6. AppendInv /\ FlushInv
    BY DEF AppendInv, FlushInv
  <1>7. OutboundExact
    <2>1. Stretch(outboundBuffer, 0, outboundBufferHead) = <<>>
      BY StretchEmpty
    <2>2. Remaining = <<>>
      BY <2>1 DEF Remaining
    <2> QED BY <2>2 DEF OutboundExact
  <1>8. BufferBits
    BY DEF BufferBits
  <1>9. RegisterInv /\ RegisterExact
    BY DEF RegisterInv, RegisterExact, Updating
  <1>10. InputInv /\ InputAccounted
    BY DEF InputInv, InputAccounted
  <1> QED BY <1>1, <1>2, <1>3, <1>4, <1>5, <1>6, <1>7, <1>8, <1>9, <1>10 DEF IInv

LEMMA ThreadFacts ==
    ASSUME IInv
    PROVE  /\ cpu.step \in {"outside", "read", "leave", "flush", "append", "update"}
           /\ cpu.step = "append" => cpu \in Appending
           /\ cpu = Outside => cpu.step = "outside"
           /\ cpu.step = "update" => cpu.bits \in SUBSET Bits
           /\ main.step \in {"outside", "ready", "miss", "update"}
           /\ main = Outside => main.step = "outside"
           /\ main.step = "update" => main.bits \in SUBSET Bits
           /\ manager.step \in {"waiting", "reset", "clear", "transmit", "update"}
           /\ manager.step = "transmit" => manager \in Transmitting
           /\ manager = Waiting => manager.step = "waiting"
           /\ manager.step = "update" => manager.bits \in SUBSET Bits
  BY CpuFacts, MainFacts, ManagerFacts DEF IInv

(* The program accesses the device. *)
LEMMA ProgramIInv ==
    ASSUME IInv,
           \/ SendInVain
           \/ Send
           \/ Configure
           \/ ReadInbound
           \/ AccessOther
           \/ RequestFlush
    PROVE  IInv'
  <1> USE ThreadFacts DEF IInv, Access, NoRoom, buffer, status, flags, counts, wakes, threads,
                          histories, SendInVain, Send, Configure, ReadInbound, AccessOther,
                          RequestFlush
  <1>1. BufferType'
    BY DEF BufferType
  <1>2. CountType'
    BY DEF CountType
  <1>3. BitsType'
    BY DEF BitsType
  <1>4. WakeType'
    BY DEF WakeType
  <1>5. FlagType'
    <2>1. CASE SendInVain
      BY <2>1 DEF FlagType
    <2>2. CASE Send
      BY <2>2 DEF FlagType
    <2>3. CASE Configure
      BY <2>3 DEF FlagType
    <2>4. CASE ReadInbound
      BY <2>4 DEF FlagType
    <2>5. CASE AccessOther
      BY <2>5 DEF FlagType
    <2>6. CASE RequestFlush
      BY <2>6 DEF FlagType
    <2> QED BY <2>1, <2>2, <2>3, <2>4, <2>5, <2>6
  <1>6. CpuType'
    <2>1. CASE SendInVain \/ Configure \/ ReadInbound \/ AccessOther \/ RequestFlush
      BY <2>1 DEF CpuType
    <2>2. CASE Send
      BY <2>2 DEF CpuType, Appending, Outside, BufferType, BitsType, Bits
    <2> QED BY <2>1, <2>2
  <1>7. MainType'
    BY DEF MainType
  <1>8. ManagerType'
    BY DEF ManagerType
  <1>9. SequenceType'
    BY DEF SequenceType
  <1>10. AppendInv'
    <2>1. CASE SendInVain \/ Configure \/ ReadInbound \/ AccessOther \/ RequestFlush
      BY <2>1 DEF AppendInv
    <2>2. CASE Send
      <3>1. cpu.step = "outside"
        BY <2>2
      <3>2. SUFFICES ASSUME ~ hasty' PROVE AppendInv'
        BY DEF AppendInv
      <3>3. ~ hasty /\ ~ shouldFlush /\ ~ Flushing
        BY <2>2, <3>2 DEF Flushing
      <3>4. printed \o Stretch(outboundBuffer, 0, outboundBufferHead) = accepted
        BY <3>1, <3>3 DEF OutboundExact, Remaining, Flushing
      <3>5. /\ "bufNotEmpty" \in bits <=> outboundBufferHead > 0
            /\ "bufFull" \notin bits
        BY <2>2, <3>1, <3>3 DEF BufferBits, Flushing
      <3>6. ~ shouldFlush' /\ ~ Flushing'
        BY <2>2, <3>3 DEF Flushing
      <3> QED BY <2>2, <3>4, <3>5, <3>6 DEF AppendInv
    <2> QED BY <2>1, <2>2
  <1>11. FlushInv'
    BY DEF FlushInv
  <1>12. OutboundExact'
    BY DEF OutboundExact, Remaining
  <1>13. BufferBits'
    BY DEF BufferBits
  <1>14. RegisterInv'
    BY DEF RegisterInv, Updating
  <1>15. RegisterExact'
    BY DEF RegisterExact, Updating
  <1>16. InputInv'
    <2>1. CASE SendInVain
      BY <2>1 DEF InputInv
    <2>2. CASE Send
      BY <2>2 DEF InputInv
    <2>3. CASE Configure
      BY <2>3 DEF InputInv
    <2>4. CASE ReadInbound
      BY <2>4 DEF InputInv
    <2>5. CASE AccessOther
      BY <2>5 DEF InputInv
    <2>6. CASE RequestFlush
      BY <2>6 DEF InputInv
    <2> QED BY <2>1, <2>2, <2>3, <2>4, <2>5, <2>6
  <1>17. InputAccounted'
    <2>1. CASE SendInVain
      BY <2>1 DEF InputAccounted
    <2>2. CASE Send
      BY <2>2 DEF InputAccounted
    <2>3. CASE Configure
      BY <2>3 DEF InputAccounted
    <2>4. CASE ReadInbound
      BY <2>4 DEF InputAccounted
    <2>5. CASE AccessOther
      BY <2>5 DEF InputAccounted
    <2>6. CASE RequestFlush
      BY <2>6 DEF InputAccounted
    <2> QED BY <2>1, <2>2, <2>3, <2>4, <2>5, <2>6
  <1> QED BY <1>1, <1>2, <1>3, <1>4, <1>5, <1>6, <1>7, <1>8, <1>9, <1>10, <1>11, <1>12, <1>13,
             <1>14, <1>15, <1>16, <1>17

(* The handlers on the processor. *)
LEMMA HandlerIInv ==
    ASSUME IInv,
           \/ StoreByte
           \/ StoreHead
           \/ NoteStored
           \/ CpuUpdatesStatus
           \/ NoteRead
           \/ Leave
    PROVE  IInv'
  <1> USE ThreadFacts DEF IInv, NoRoom, NoteOverlap, Updating, buffer, status, flags, counts,
                          wakes, threads, histories, StoreByte, StoreHead, NoteStored,
                          CpuUpdatesStatus, NoteRead, Leave
  <1>1. BufferType'
    <2>1. CASE StoreByte
      BY <2>1 DEF BufferType, CountType, CpuType, Appending
    <2>2. CASE StoreHead
      BY <2>2 DEF BufferType, CountType, CpuType, Appending
    <2>3. CASE NoteStored \/ CpuUpdatesStatus \/ NoteRead \/ Leave
      BY <2>3 DEF BufferType
    <2> QED BY <2>1, <2>2, <2>3
  <1>2. CountType'
    BY DEF CountType
  <1>3. BitsType'
    <2>1. CASE StoreByte \/ StoreHead \/ NoteRead \/ Leave
      BY <2>1 DEF BitsType
    <2>2. CASE NoteStored \/ CpuUpdatesStatus
      BY <2>2 DEF BitsType, Bits
    <2> QED BY <2>1, <2>2
  <1>4. WakeType'
    BY DEF WakeType
  <1>5. FlagType'
    <2>1. CASE StoreByte
      BY <2>1 DEF FlagType
    <2>2. CASE StoreHead
      BY <2>2 DEF FlagType
    <2>3. CASE NoteStored
      BY <2>3 DEF FlagType
    <2>4. CASE CpuUpdatesStatus
      BY <2>4 DEF FlagType
    <2>5. CASE NoteRead
      BY <2>5 DEF FlagType
    <2>6. CASE Leave
      BY <2>6 DEF FlagType
    <2> QED BY <2>1, <2>2, <2>3, <2>4, <2>5, <2>6
  <1>6. CpuType'
    <2>1. CASE StoreByte
      BY <2>1 DEF CpuType, Appending, Outside, BufferType, BitsType, Bits
    <2>2. CASE StoreHead
      BY <2>2 DEF CpuType, Appending, Outside, BufferType, BitsType, Bits
    <2>3. CASE NoteStored
      BY <2>3 DEF CpuType, Appending, Outside, BufferType, BitsType, Bits
    <2>4. CASE CpuUpdatesStatus
      BY <2>4 DEF CpuType
    <2>5. CASE NoteRead
      BY <2>5 DEF CpuType, Appending, Outside, BufferType, BitsType, Bits
    <2>6. CASE Leave
      BY <2>6 DEF CpuType, Appending, Outside, BufferType, BitsType, Bits
    <2> QED BY <2>1, <2>2, <2>3, <2>4, <2>5, <2>6
  <1>7. MainType'
    BY DEF MainType
  <1>8. ManagerType'
    BY DEF ManagerType
  <1>9. SequenceType'
    <2>1. CASE StoreByte \/ StoreHead \/ CpuUpdatesStatus \/ NoteRead \/ Leave
      BY <2>1 DEF SequenceType
    <2>2. CASE NoteStored
      BY <2>2 DEF SequenceType, CountType
    <2> QED BY <2>1, <2>2
  <1>10. AppendInv'
    <2>1. CASE StoreByte
      <3>1. cpu.index \in 0 .. BufferSize - 1
        BY <2>1 DEF Appending
      <3>2. outboundBuffer'[cpu.index] = sent
        BY <2>1, <3>1 DEF BufferType
      <3>3. Stretch(outboundBuffer', 0, cpu.index) = Stretch(outboundBuffer, 0, cpu.index)
        BY <2>1, <3>1, BufferKept
      <3>4. /\ cpu'.step = "append" /\ cpu'.index = cpu.index
            /\ "head" \in cpu'.open <=> "head" \in cpu.open
        BY <2>1 DEF Appending
      <3> QED BY <2>1, <3>2, <3>3, <3>4 DEF AppendInv, Flushing
    <2>2. CASE StoreHead
      BY <2>2 DEF AppendInv, Flushing, Outside, Waiting, MissedBits
    <2>3. CASE NoteStored \/ CpuUpdatesStatus \/ NoteRead
      BY <2>3 DEF AppendInv
    <2>4. CASE Leave
      BY <2>4 DEF AppendInv, Flushing, Outside, Waiting, MissedBits
    <2> QED BY <2>1, <2>2, <2>3, <2>4
  <1>11. FlushInv'
    <2>1. CASE StoreByte \/ NoteStored \/ CpuUpdatesStatus \/ NoteRead \/ Leave
      BY <2>1 DEF FlushInv
    <2>2. CASE StoreHead
      BY <2>2 DEF FlushInv, BufferType, AppendInv, Flushing, Transmitting, Waiting
    <2> QED BY <2>1, <2>2
  <1>12. OutboundExact'
    <2>1. CASE StoreByte
      BY <2>1 DEF OutboundExact, Remaining
    <2>2. CASE StoreHead
      BY <2>2 DEF OutboundExact, Remaining
    <2>3. CASE NoteStored
      <3>1. SUFFICES ASSUME ~ hasty', cpu'.step # "append"
                     PROVE  printed' \o Remaining' = accepted'
        BY DEF OutboundExact
      <3>2. /\ cpu.index \in 0 .. BufferSize - 1 /\ ~ Flushing
            /\ outboundBufferHead = cpu.index + 1
            /\ outboundBuffer[cpu.index] = sent
            /\ printed \o Stretch(outboundBuffer, 0, cpu.index) = accepted
        BY <2>3, <3>1 DEF AppendInv, Appending
      <3>3. Remaining' = Stretch(outboundBuffer, 0, cpu.index + 1)
        BY <2>3, <3>2 DEF Remaining, Flushing
      <3>4. printed \o Stretch(outboundBuffer, 0, cpu.index + 1) = Append(accepted, sent)
        BY <3>2, BufferLast
      <3> QED BY <2>3, <3>3, <3>4
    <2>4. CASE CpuUpdatesStatus
      BY <2>4 DEF OutboundExact, Remaining, Outside, Waiting
    <2>5. CASE NoteRead
      BY <2>5 DEF OutboundExact, Remaining
    <2>6. CASE Leave
      BY <2>6 DEF OutboundExact, Remaining
    <2> QED BY <2>1, <2>2, <2>3, <2>4, <2>5, <2>6
  <1>13. BufferBits'
    <2>1. CASE StoreByte
      BY <2>1 DEF BufferBits
    <2>2. CASE StoreHead
      BY <2>2 DEF BufferBits
    <2>3. CASE NoteStored
      <3>1. SUFFICES ASSUME ~ hasty PROVE BufferBits'
        BY <2>3 DEF BufferBits
      <3>2. cpu.index \in 0 .. BufferSize - 1 /\ outboundBufferHead = cpu.index + 1
        BY <2>3, <3>1 DEF AppendInv, Appending
      <3>3. "bufNotEmpty" \in bits' /\ outboundBufferHead > 0
        BY <2>3, <3>2
      <3>4. "bufFull" \notin bits
        BY <2>3, <3>1 DEF AppendInv
      <3>5. "bufFull" \in bits' <=> outboundBufferHead = BufferSize
        BY <2>3, <3>4
      <3> QED BY <2>3, <3>3, <3>5 DEF BufferBits
    <2>4. CASE CpuUpdatesStatus
      BY <2>4 DEF BufferBits, AppendInv, FlushInv, BufferType, Outside, Waiting, MissedBits,
                  FlushedBits
    <2>5. CASE NoteRead
      BY <2>5 DEF BufferBits
    <2>6. CASE Leave
      BY <2>6 DEF BufferBits
    <2> QED BY <2>1, <2>2, <2>3, <2>4, <2>5, <2>6
  <1>14. RegisterInv'
    <2>1. CASE StoreByte
      BY <2>1 DEF RegisterInv, Updating
    <2>2. CASE StoreHead
      BY <2>2 DEF RegisterInv, Updating
    <2>3. CASE NoteStored
      BY <2>3 DEF RegisterInv, Updating
    <2>4. CASE CpuUpdatesStatus
      BY <2>4 DEF RegisterInv, Updating
    <2>5. CASE NoteRead
      BY <2>5 DEF RegisterInv, Updating
    <2>6. CASE Leave
      BY <2>6 DEF RegisterInv, RegisterExact, Updating, Outside, Waiting
    <2> QED BY <2>1, <2>2, <2>3, <2>4, <2>5, <2>6
  <1>15. RegisterExact'
    <2>1. CASE StoreByte \/ StoreHead \/ NoteStored \/ NoteRead \/ Leave
      BY <2>1 DEF RegisterExact, Updating
    <2>2. CASE CpuUpdatesStatus
      BY <2>2 DEF RegisterInv, RegisterExact, Updating, Outside, Waiting
    <2> QED BY <2>1, <2>2
  <1>16. InputInv'
    <2>1. CASE StoreByte
      BY <2>1 DEF InputInv
    <2>2. CASE StoreHead
      BY <2>2 DEF InputInv
    <2>3. CASE NoteStored
      BY <2>3 DEF InputInv
    <2>4. CASE CpuUpdatesStatus
      BY <2>4 DEF InputInv
    <2>5. CASE NoteRead
      BY <2>5 DEF InputInv
    <2>6. CASE Leave
      BY <2>6 DEF InputInv, InputAccounted, Outside, FlagType, MissedBits, FlushedBits
    <2> QED BY <2>1, <2>2, <2>3, <2>4, <2>5, <2>6
  <1>17. InputAccounted'
    <2>1. CASE StoreByte \/ StoreHead \/ NoteStored \/ Leave
      BY <2>1 DEF InputAccounted
    <2>2. CASE CpuUpdatesStatus \/ NoteRead
      BY <2>2 DEF InputInv, InputAccounted, Outside, FlagType, MissedBits, FlushedBits
    <2> QED BY <2>1, <2>2
  <1> QED BY <1>1, <1>2, <1>3, <1>4, <1>5, <1>6, <1>7, <1>8, <1>9, <1>10, <1>11, <1>12, <1>13,
             <1>14, <1>15, <1>16, <1>17

(* The main thread. *)
LEMMA MainIInv ==
    ASSUME IInv,
           \/ Type
           \/ NoteMissed
           \/ NoteReady
           \/ MainUpdatesStatus
           \/ (\E d \in {Derial, Dboard} : Wake(d))
    PROVE  IInv'
  <1> USE ThreadFacts DEF IInv, NoteOverlap, Updating, buffer, status, flags, counts, wakes,
                          threads, histories, Type, NoteMissed, NoteReady, MainUpdatesStatus,
                          Wake
  <1>1. BufferType'
    BY DEF BufferType
  <1>2. CountType'
    BY DEF CountType
  <1>3. BitsType'
    <2>1. CASE Type \/ (\E d \in {Derial, Dboard} : Wake(d))
      BY <2>1 DEF BitsType
    <2>2. CASE NoteMissed \/ NoteReady \/ MainUpdatesStatus
      BY <2>2 DEF BitsType, Bits, MissedBits, FlushedBits
    <2> QED BY <2>1, <2>2
  <1>4. WakeType'
    BY DEF WakeType
  <1>5. FlagType'
    <2>1. CASE Type
      BY <2>1 DEF FlagType
    <2>2. CASE NoteMissed
      BY <2>2 DEF FlagType
    <2>3. CASE NoteReady
      BY <2>3 DEF FlagType
    <2>4. CASE MainUpdatesStatus
      BY <2>4 DEF FlagType
    <2>5. CASE \E d \in {Derial, Dboard} : Wake(d)
      BY <2>5 DEF FlagType
    <2> QED BY <2>1, <2>2, <2>3, <2>4, <2>5
  <1>6. CpuType'
    BY DEF CpuType
  <1>7. MainType'
    <2>1. CASE Type
      BY <2>1 DEF MainType, Outside, BitsType, FlagType, Bits
    <2>2. CASE NoteMissed \/ (\E d \in {Derial, Dboard} : Wake(d))
      BY <2>2 DEF MainType
    <2>3. CASE NoteReady
      BY <2>3 DEF MainType, Outside, BitsType, FlagType, Bits
    <2>4. CASE MainUpdatesStatus
      BY <2>4 DEF MainType, Outside, BitsType, FlagType, Bits
    <2> QED BY <2>1, <2>2, <2>3, <2>4
  <1>8. ManagerType'
    BY DEF ManagerType
  <1>9. SequenceType'
    BY DEF SequenceType
  <1>10. AppendInv'
    <2>1. CASE Type
      BY <2>1 DEF AppendInv, Flushing, Outside, Waiting, MissedBits
    <2>2. CASE NoteMissed
      BY <2>2 DEF AppendInv, Flushing, Outside, Waiting, MissedBits
    <2>3. CASE NoteReady
      BY <2>3 DEF AppendInv, Flushing, Outside, Waiting, MissedBits
    <2>4. CASE MainUpdatesStatus
      BY <2>4 DEF AppendInv, Flushing, Outside, Waiting, MissedBits
    <2>5. CASE (\E d \in {Derial, Dboard} : Wake(d))
      BY <2>5 DEF AppendInv, Flushing, Outside, Waiting, MissedBits
    <2> QED BY <2>1, <2>2, <2>3, <2>4, <2>5
  <1>11. FlushInv'
    BY DEF FlushInv
  <1>12. OutboundExact'
    <2>1. CASE Type \/ NoteMissed \/ NoteReady \/ MainUpdatesStatus
      BY <2>1 DEF OutboundExact, Remaining
    <2>2. CASE (\E d \in {Derial, Dboard} : Wake(d))
      <3>1. UNCHANGED <<outboundBuffer, outboundBufferHead, printed, accepted, hasty, cpu,
                         manager>>
        BY <2>2
      <3> QED BY <3>1 DEF OutboundExact, Remaining
    <2> QED BY <2>1, <2>2
  <1>13. BufferBits'
    <2>1. CASE Type \/ NoteReady
                \/ MainUpdatesStatus \/ (\E d \in {Derial, Dboard} : Wake(d))
      BY <2>1 DEF BufferBits
    <2>2. CASE NoteMissed
      BY <2>2 DEF BufferBits, AppendInv, FlushInv, BufferType, Outside, Waiting, MissedBits,
                  FlushedBits
    <2> QED BY <2>1, <2>2
  <1>14. RegisterInv'
    <2>1. CASE Type
      BY <2>1 DEF RegisterInv, Updating
    <2>2. CASE NoteMissed
      BY <2>2 DEF RegisterInv, Updating
    <2>3. CASE NoteReady
      BY <2>3 DEF RegisterInv, Updating
    <2>4. CASE MainUpdatesStatus
      BY <2>4 DEF RegisterInv, RegisterExact, Updating, Outside, Waiting
    <2>5. CASE (\E d \in {Derial, Dboard} : Wake(d))
      BY <2>5 DEF RegisterInv, Updating
    <2> QED BY <2>1, <2>2, <2>3, <2>4, <2>5
  <1>15. RegisterExact'
    <2>1. CASE Type \/ NoteMissed \/ NoteReady \/ (\E d \in {Derial, Dboard} : Wake(d))
      BY <2>1 DEF RegisterExact, Updating
    <2>2. CASE MainUpdatesStatus
      BY <2>2 DEF RegisterInv, RegisterExact, Updating, Outside, Waiting
    <2> QED BY <2>1, <2>2
  <1>16. InputInv'
    <2>1. CASE Type
      BY <2>1 DEF InputInv, InputAccounted, Outside, FlagType, MissedBits, FlushedBits
    <2>2. CASE NoteMissed \/ NoteReady \/ (\E d \in {Derial, Dboard} : Wake(d))
      BY <2>2 DEF InputInv
    <2>3. CASE MainUpdatesStatus
      BY <2>3 DEF InputInv, InputAccounted, Outside, FlagType, MissedBits, FlushedBits
    <2> QED BY <2>1, <2>2, <2>3
  <1>17. InputAccounted'
    <2>1. CASE Type
      BY <2>1 DEF InputAccounted
    <2>2. CASE NoteMissed
      <3>1. ~ raced => (main.replaced => "inboundReady" \in bits)
        BY <2>2 DEF InputInv
      <3>2. "inboundReady" \in bits => MissedBits # {}
        BY DEF MissedBits
      <3>3. ~ raced => ~ lost'
        BY <2>2, <3>1, <3>2, Zenon DEF InputAccounted
      <3>4. main'.step = "ready"
        BY <2>2
      <3> QED BY <2>2, <3>3, <3>4 DEF InputAccounted
    <2>3. CASE NoteReady \/ MainUpdatesStatus
      BY <2>3 DEF InputInv, InputAccounted, Outside, FlagType, MissedBits, FlushedBits
    <2>4. CASE (\E d \in {Derial, Dboard} : Wake(d))
      BY <2>4 DEF InputAccounted
    <2> QED BY <2>1, <2>2, <2>3, <2>4
  <1> QED BY <1>1, <1>2, <1>3, <1>4, <1>5, <1>6, <1>7, <1>8, <1>9, <1>10, <1>11, <1>12, <1>13,
             <1>14, <1>15, <1>16, <1>17

(* The manager's thread. *)
LEMMA ManagerIInv ==
    ASSUME IInv,
           \/ WakeInVain
           \/ BeginFlush
           \/ Transmit
           \/ EndOfBuffer
           \/ ResetHead
           \/ ClearBits
           \/ ManagerUpdatesStatus
    PROVE  IInv'
  <1> USE ThreadFacts DEF IInv, NoteOverlap, Updating, buffer, status, flags, counts, wakes,
                          threads, histories, WakeInVain, BeginFlush, Transmit, EndOfBuffer,
                          ResetHead, ClearBits, ManagerUpdatesStatus
  <1>1. BufferType'
    BY DEF BufferType
  <1>2. CountType'
    BY DEF CountType
  <1>3. BitsType'
    <2>1. CASE WakeInVain \/ BeginFlush \/ Transmit \/ EndOfBuffer \/ ResetHead \/ ClearBits
      BY <2>1 DEF BitsType
    <2>2. CASE ManagerUpdatesStatus
      BY <2>2 DEF BitsType, Bits
    <2> QED BY <2>1, <2>2
  <1>4. WakeType'
    BY DEF WakeType
  <1>5. FlagType'
    <2>1. CASE WakeInVain
      BY <2>1 DEF FlagType
    <2>2. CASE BeginFlush
      BY <2>2 DEF FlagType
    <2>3. CASE Transmit
      BY <2>3 DEF FlagType
    <2>4. CASE EndOfBuffer
      BY <2>4 DEF FlagType
    <2>5. CASE ResetHead
      BY <2>5 DEF FlagType
    <2>6. CASE ClearBits
      BY <2>6 DEF FlagType
    <2>7. CASE ManagerUpdatesStatus
      BY <2>7 DEF FlagType
    <2> QED BY <2>1, <2>2, <2>3, <2>4, <2>5, <2>6, <2>7
  <1>6. CpuType'
    BY DEF CpuType
  <1>7. MainType'
    BY DEF MainType
  <1>8. ManagerType'
    <2>1. CASE WakeInVain \/ EndOfBuffer \/ ResetHead
      BY <2>1 DEF ManagerType
    <2>2. CASE BeginFlush
      BY <2>2 DEF ManagerType, Waiting, Transmitting, BufferType
    <2>3. CASE Transmit
      BY <2>3 DEF ManagerType, Waiting, Transmitting, BufferType
    <2>4. CASE ClearBits
      BY <2>4 DEF ManagerType, Waiting, BitsType, Bits
    <2>5. CASE ManagerUpdatesStatus
      BY <2>5 DEF ManagerType, Waiting, Transmitting, BufferType
    <2> QED BY <2>1, <2>2, <2>3, <2>4, <2>5
  <1>9. SequenceType'
    <2>1. CASE WakeInVain \/ BeginFlush \/ EndOfBuffer
                \/ ResetHead \/ ClearBits \/ ManagerUpdatesStatus
      BY <2>1 DEF SequenceType
    <2>2. CASE Transmit
      BY <2>2 DEF SequenceType, BufferType, ManagerType, Transmitting
    <2> QED BY <2>1, <2>2
  <1>10. AppendInv'
    <2>1. CASE WakeInVain
      BY <2>1 DEF AppendInv, Flushing, Outside, Waiting, MissedBits
    <2>2. CASE BeginFlush
      BY <2>2 DEF AppendInv
    <2>3. CASE Transmit
      BY <2>3 DEF AppendInv, Flushing, Outside, Waiting, MissedBits
    <2>4. CASE EndOfBuffer
      BY <2>4 DEF AppendInv, Flushing, Outside, Waiting, MissedBits
    <2>5. CASE ResetHead
      BY <2>5 DEF AppendInv, Flushing, Outside, Waiting, MissedBits
    <2>6. CASE ClearBits
      BY <2>6 DEF AppendInv, Flushing, Outside, Waiting, MissedBits
    <2>7. CASE ManagerUpdatesStatus
      BY <2>7 DEF AppendInv, Flushing, Outside, Waiting, MissedBits
    <2> QED BY <2>1, <2>2, <2>3, <2>4, <2>5, <2>6, <2>7
  <1>11. FlushInv'
    <2>1. CASE WakeInVain \/ EndOfBuffer \/ ResetHead \/ ClearBits
      BY <2>1 DEF FlushInv
    <2>2. CASE BeginFlush \/ ManagerUpdatesStatus
      BY <2>2 DEF FlushInv, BufferType, AppendInv, Flushing, Transmitting, Waiting
    <2>3. CASE Transmit
      <3>1. manager.index \in Nat /\ manager'.index = manager.index + 1
        BY <2>3 DEF Transmitting
      <3> QED BY <2>3, <3>1 DEF FlushInv, BufferType
    <2> QED BY <2>1, <2>2, <2>3
  <1>12. OutboundExact'
    <2>1. CASE WakeInVain
      BY <2>1 DEF OutboundExact, Remaining
    <2>2. CASE BeginFlush
      <3>1. SUFFICES ASSUME ~ hasty', cpu'.step # "append"
                     PROVE  printed' \o Remaining' = accepted'
        BY DEF OutboundExact
      <3>2. Remaining' = Remaining
        BY <2>2 DEF Remaining
      <3> QED BY <2>2, <3>1, <3>2 DEF OutboundExact
    <2>3. CASE Transmit
      <3>1. SUFFICES ASSUME ~ hasty', cpu'.step # "append"
                     PROVE  printed' \o Remaining' = accepted'
        BY DEF OutboundExact
      <3>2. manager.index \in Nat /\ manager.index < outboundBufferHead
        BY <2>3 DEF Transmitting
      <3>3. /\ Remaining = Stretch(outboundBuffer, manager.index, outboundBufferHead)
            /\ Remaining' = Stretch(outboundBuffer, manager.index + 1, outboundBufferHead)
        BY <2>3 DEF Remaining, Transmitting
      <3>4. printed' \o Remaining' = printed \o Remaining
        BY <2>3, <3>2, <3>3, BufferFirst
      <3> QED BY <2>3, <3>1, <3>4 DEF OutboundExact
    <2>4. CASE EndOfBuffer
      <3>1. SUFFICES ASSUME ~ hasty', cpu'.step # "append"
                     PROVE  printed' \o Remaining' = accepted'
        BY DEF OutboundExact
      <3>2. /\ manager.index \in Nat /\ outboundBufferHead \in Nat
            /\ manager.index >= outboundBufferHead
        BY <2>4 DEF Transmitting, BufferType
      <3>3. Remaining = <<>> /\ Remaining' = <<>>
        BY <2>4, <3>2, StretchEmpty DEF Remaining
      <3> QED BY <2>4, <3>1, <3>3 DEF OutboundExact
    <2>5. CASE ResetHead
      <3>1. SUFFICES ASSUME ~ hasty', cpu'.step # "append"
                     PROVE  printed' \o Remaining' = accepted'
        BY DEF OutboundExact
      <3>2. Remaining = <<>>
        BY <2>5 DEF Remaining
      <3>3. Remaining' = Stretch(outboundBuffer, 0, 0)
        BY <2>5 DEF Remaining
      <3>4. Remaining' = <<>>
        BY <3>3, StretchEmpty
      <3> QED BY <2>5, <3>1, <3>2, <3>4 DEF OutboundExact
    <2>6. CASE ClearBits
      BY <2>6 DEF OutboundExact, Remaining
    <2>7. CASE ManagerUpdatesStatus
      BY <2>7 DEF OutboundExact, Remaining, Outside, Waiting
    <2> QED BY <2>1, <2>2, <2>3, <2>4, <2>5, <2>6, <2>7
  <1>13. BufferBits'
    <2>1. CASE WakeInVain \/ BeginFlush \/ Transmit \/ EndOfBuffer \/ ResetHead
      BY <2>1 DEF BufferBits
    <2>2. CASE ClearBits \/ ManagerUpdatesStatus
      BY <2>2 DEF BufferBits, AppendInv, FlushInv, BufferType, Outside, Waiting, MissedBits,
                  FlushedBits
    <2> QED BY <2>1, <2>2
  <1>14. RegisterInv'
    <2>1. CASE WakeInVain
      BY <2>1 DEF RegisterInv, Updating
    <2>2. CASE BeginFlush
      BY <2>2 DEF RegisterInv, Updating
    <2>3. CASE Transmit
      BY <2>3 DEF RegisterInv, Updating
    <2>4. CASE EndOfBuffer
      BY <2>4 DEF RegisterInv, Updating
    <2>5. CASE ResetHead
      BY <2>5 DEF RegisterInv, Updating
    <2>6. CASE ClearBits
      BY <2>6 DEF RegisterInv, Updating
    <2>7. CASE ManagerUpdatesStatus
      BY <2>7 DEF RegisterInv, RegisterExact, Updating, Outside, Waiting
    <2> QED BY <2>1, <2>2, <2>3, <2>4, <2>5, <2>6, <2>7
  <1>15. RegisterExact'
    <2>1. CASE WakeInVain \/ BeginFlush \/ Transmit \/ EndOfBuffer \/ ResetHead \/ ClearBits
      BY <2>1 DEF RegisterExact, Updating
    <2>2. CASE ManagerUpdatesStatus
      BY <2>2 DEF RegisterInv, RegisterExact, Updating, Outside, Waiting
    <2> QED BY <2>1, <2>2
  <1>16. InputInv'
    <2>1. CASE WakeInVain \/ BeginFlush \/ Transmit
                \/ EndOfBuffer \/ ResetHead \/ ManagerUpdatesStatus
      BY <2>1 DEF InputInv
    <2>2. CASE ClearBits
      BY <2>2 DEF InputInv, InputAccounted, Outside, FlagType, MissedBits, FlushedBits
    <2> QED BY <2>1, <2>2
  <1>17. InputAccounted'
    <2>1. CASE WakeInVain \/ BeginFlush \/ Transmit
                \/ EndOfBuffer \/ ResetHead \/ ManagerUpdatesStatus
      BY <2>1 DEF InputAccounted
    <2>2. CASE ClearBits
      BY <2>2 DEF InputInv, InputAccounted, Outside, FlagType, MissedBits, FlushedBits
    <2> QED BY <2>1, <2>2
  <1> QED BY <1>1, <1>2, <1>3, <1>4, <1>5, <1>6, <1>7, <1>8, <1>9, <1>10, <1>11, <1>12, <1>13,
             <1>14, <1>15, <1>16, <1>17

LEMMA NextIInv == IInv /\ [Next]_vars => IInv'
  <1>1. ASSUME IInv, UNCHANGED vars PROVE IInv'
    <2> USE <1>1 DEF IInv, vars, buffer, status, flags, counts, wakes, threads, histories
    <2>1. BufferType' /\ CountType' /\ BitsType' /\ WakeType' /\ FlagType'
      BY DEF BufferType, CountType, BitsType, WakeType, FlagType
    <2>2. CpuType' /\ MainType' /\ ManagerType' /\ SequenceType'
      BY DEF CpuType, MainType, ManagerType, SequenceType
    <2>3. AppendInv' /\ FlushInv' /\ OutboundExact' /\ BufferBits'
      BY DEF AppendInv, FlushInv, OutboundExact, Remaining, BufferBits, Flushing
    <2>4. RegisterInv' /\ RegisterExact' /\ InputInv' /\ InputAccounted'
      BY DEF RegisterInv, RegisterExact, InputInv, InputAccounted, Updating
    <2> QED BY <2>1, <2>2, <2>3, <2>4
  <1> QED BY <1>1, ProgramIInv, HandlerIInv, MainIInv, ManagerIInv
          DEF Next, Program, Handler, MainThread, Manager

LEMMA SpecIInv == Spec => []IInv
  BY InitIInv, NextIInv, PTL DEF Spec
-----------------------------------------------------------------------------
(* The device's variables keep their types: the head stays in the buffer,   *)
(* whatever the two halves of its increment meet.                           *)
THEOREM TypeCorrect == Spec => []TypeOK
  <1>1. IInv => TypeOK
    BY DEF IInv, BufferType, CountType, BitsType, WakeType, FlagType, CpuType, MainType,
           ManagerType,
           Appending, Transmitting, TypeOK
  <1> QED BY <1>1, SpecIInv, PTL

(* pr_handleWrite and pr_derialHandleReadWrite: for every size of the       *)
(* buffer, what the program stores is transmitted once and in order, unless *)
(* it stored a byte while a flush was due or under way.                     *)
THEOREM OutboundExactHolds == Spec => []OutboundExact
  <1>1. IInv => OutboundExact
    BY DEF IInv
  <1> QED BY <1>1, SpecIInv, PTL

(* pr_derialUpdateStatus: the bits about the buffer and the status register *)
(* are right again when the threads have left, under the same condition, and *)
(* unless two updates of the register overlapped.                           *)
THEOREM StatusTruthfulHolds == Spec => []StatusTruthful
  <1>1. IInv => StatusTruthful
    BY DEF IInv, StatusTruthful
  <1> QED BY <1>1, SpecIInv, PTL

(* pr_derialHandleTermIn: no byte is replaced silently unless the program   *)
(* read while it came in.                                                   *)
THEOREM InputAccountedHolds == Spec => []InputAccounted
  <1>1. IInv => InputAccounted
    BY DEF IInv
  <1> QED BY <1>1, SpecIInv, PTL
=============================================================================
