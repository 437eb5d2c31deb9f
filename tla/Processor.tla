----------------------------- MODULE Processor -----------------------------
(***************************************************************************)
(* The instructions of the processor (dgc32.c): moves, loads, stores,      *)
(* swaps, arithmetic, comparisons, branches and the stack.  A byte has     *)
(* ByteBits bits, a word four bytes; the memory map is the code's.  The    *)
(* program is not read from the memory: every instruction with every       *)
(* operand may come next, and programCounter is its address.  Interrupts   *)
(* are only raised here (InterruptUnit delivers them), the device data     *)
(* accepts or refuses a store as it likes (DeviceRegistry says which), and *)
(* the results of floats are not modelled: they are arbitrary.             *)
(***************************************************************************)
EXTENDS Integers, Sequences

CONSTANTS
    ByteBits,       \* bits of a byte: 8 in the code
    RomEnd, DregStart, DdatStart, DdatEnd,   \* memory map
    Threshold,      \* STACK_OVERFLOW_THRESHOLD
    Selected,       \* bound: registers that an instruction names
    Words, Halves, Bytes,                    \* bound: immediate operands
    Codes,          \* bound: conditions of a branch
    Targets,        \* bound: addresses to branch to
    Starts,         \* initial contents of the registers
    MaxSteps,       \* bound: instructions of a run
    Isolated        \* bound: only what uses or moves the stack makes up a sequence

(* The values of n bytes. *)
Span(n) == 2 ^ (n * ByteBits)

ByteSize == 2 ^ ByteBits
WordBits == 4 * ByteBits
WordSize == 2 ^ WordBits
Top == WordSize - 1
SignBit == WordSize \div 2

Registers == {"G0", "G1", "OA", "SB", "SS", "SP", "IL", "FL"}
Size(r) == IF r \in {"SS", "SP"} THEN 2 ELSE IF r = "FL" THEN 1 ELSE 4

ASSUME ProcessorAssumption ==
    /\ ByteBits \in Nat /\ ByteBits >= 4
    /\ RomEnd \in Nat /\ DregStart \in Nat /\ DdatStart \in Nat /\ DdatEnd \in Nat
    /\ RomEnd + 1 < DregStart /\ DregStart < DdatStart /\ DdatStart <= DdatEnd
    /\ DdatEnd < Top
    /\ Threshold \in Nat /\ Threshold >= 8
    /\ {"G0", "SP", "FL"} \subseteq Selected /\ Selected \subseteq Registers
    /\ Words \cup Targets \subseteq 0 .. Top
    /\ Halves \subseteq 0 .. Span(2) - 1 /\ Bytes \subseteq 0 .. ByteSize - 1
    /\ Codes \subseteq 0 .. 15
    /\ \A s \in Starts : s \in [Registers -> 0 .. Top]
                         /\ \A r \in Registers : s[r] < Span(Size(r))
    /\ MaxSteps \in Nat \ {0} /\ Isolated \in BOOLEAN

VARIABLES
    register,        \* the exposed registers
    memory,          \* the bytes written so far
    programCounter,
    regsel,          \* the register that the last operand byte names
    raised,          \* critical interrupts that the last instruction raised
    crashed,         \* the emulator has dereferenced a null pointer
    steps,           \* bound: instructions so far
    last,            \* history: the last instruction and its operands
    frames,          \* history: what the program believes is on the stack
    causes,          \* history: why the stack may hold something else
    warnings,        \* history: warnings since SP entered the critical space
    placed           \* history: the program put SP there without pushing

processor == <<register, memory, programCounter, regsel, raised, crashed>>
histories == <<frames, causes, warnings, placed>>
vars == <<processor, steps, last, histories>>

(* Memory comes from malloc, with any contents: byte a holds a mod ByteSize here. *)
Byte(m, a) == IF a \in DOMAIN m THEN m[a] ELSE a % ByteSize

(* The value of at most four bytes, the lowest first. *)
Assemble(m, a, n) ==
    LET part(k) == IF k < n THEN Span(k) * Byte(m, a + k) ELSE 0
    IN  part(0) + part(1) + part(2) + part(3)

Least(m, n) == IF m < n THEN m ELSE n

(* The values that n bytes may have: what lies past the top is not memory. *)
Reads(a, n) ==
    LET inside == Least(n, WordSize - a)
    IN  {Assemble(memory, a, inside) + Span(inside) * junk :
            junk \in IF inside < n THEN {0, 1} ELSE {0}}

Written(a, n, v) ==
    [i \in DOMAIN memory \cup (a .. a + n - 1) |->
        IF i \in a .. a + n - 1 THEN (v \div Span(i - a)) % ByteSize ELSE memory[i]]

(* MEMBOUND_CAN_READ: the second sum is one of words. *)
CanRead(a, n) ==
    \/ a >= DregStart /\ a + n - 1 <= Top
    \/ (a + n - 1) % WordSize <= RomEnd

(* Faulty form: the end of the range is computed in a word. *)
CanWriteNarrow(a, n) == a >= DdatStart /\ (a + n - 1) % WordSize <= Top

CanWrite(a, n) == a >= DdatStart /\ a + n - 1 <= Top

(* Device data: outside it mb_canWriteToDeviceData has nothing to say. *)
Accepts(a, n) ==
    IF a > DdatEnd THEN {TRUE} ELSE IF a + n - 1 > DdatEnd THEN {FALSE} ELSE BOOLEAN

(* Faulty form: the value is not cut to the register's width. *)
PutWhole(regs, r, v) == [regs EXCEPT ![r] = v]

Put(regs, r, v) == [regs EXCEPT ![r] = v % Span(Size(r))]

Extend(v, n) ==
    IF (v \div (Span(n) \div 2)) % 2 = 1
    THEN (v % Span(n)) + (WordSize - Span(n)) ELSE v

(* applyOffset: programCounter is still the instruction's own address here. *)
Offset(mode, base) ==
    CASE mode = "ABS" -> base
      [] mode = "PC" -> (base + programCounter) % WordSize
      [] mode = "OA" -> (base + register["OA"]) % WordSize
      [] mode = "PC_M_OA" -> (base - register["OA"] + programCounter) % WordSize

Modes == {"ABS", "PC", "OA"}

Flags(z, n, c, v) ==
    LET bit(b) == IF b THEN 1 ELSE 0 IN 8 * bit(z) + 4 * bit(n) + 2 * bit(c) + bit(v)

(* checkCondition: the codes that hold of the flags; 15 is no code. *)
Conditions(flags) ==
    LET bit(k) == (flags \div k) % 2 = 1
        z == bit(8)  n == bit(4)  c == bit(2)  v == bit(1)
    IN  {code \in 0 .. 14 :
            CASE code = 0 -> TRUE
              [] code = 1 -> z             [] code = 2 -> ~z
              [] code = 3 -> c /\ ~z       [] code = 4 -> c
              [] code = 5 -> ~c \/ z       [] code = 6 -> ~c
              [] code = 7 -> ~z /\ n = v   [] code = 8 -> n = v
              [] code = 9 -> z \/ n # v    [] code = 10 -> n # v
              [] code = 11 -> n            [] code = 12 -> ~n
              [] code = 13 -> v            [] code = 14 -> ~v}

Unknown(code) == IF code \in 0 .. 14 THEN {} ELSE {"invalidInstruction"}

Negated(b) == (WordSize - b) % WordSize

Outcome(v, c, o) == [value |-> v, carry |-> c, overflow |-> o]

(* Faulty form: the carry of a sum with zero is forgotten. *)
SumWithoutZero(a, b) ==
    LET sum == (a + b) % WordSize
        c == sum < a
    IN  Outcome(sum, c, c # ((a % SignBit) + (b % SignBit) >= SignBit))

Sum(a, b) ==
    LET sum == (a + b) % WordSize
        c == sum < a \/ b = 0
    IN  Outcome(sum, c, c # ((a % SignBit) + (b % SignBit) >= SignBit))

Signed(v) == IF v < SignBit THEN v ELSE v - WordSize

(* The product modulo a word, b read as signed so that TLC can compute it. *)
Product(a, b) ==
    LET p == (a * Signed(b)) % WordSize IN Outcome(p, FALSE, a # 0 /\ p \div a # b)

ShiftLeft(a, b) ==
    LET n == b % WordBits
    IN  Outcome((a % (2 ^ (WordBits - n))) * 2 ^ n,
                n > 0 /\ (a \div (2 ^ (WordBits - n))) % 2 = 1, FALSE)

ShiftRight(a, b) ==
    LET n == b % WordBits
    IN  Outcome(a \div (2 ^ n), n > 0 /\ (a \div (2 ^ (n - 1))) % 2 = 1, FALSE)

(* The bits that two words share: a & b.  The code's a | b and a ^ b follow from it. *)
Shared(a, b) ==
    LET upTo[k \in 0 .. WordBits] ==
            IF k = 0 THEN 0
            ELSE upTo[k - 1] + 2 ^ (k - 1) * ((a \div 2 ^ (k - 1)) % 2)
                                           * ((b \div 2 ^ (k - 1)) % 2)
    IN  upTo[WordBits]

TurnedLeft(o) ==
    Outcome((2 * o.value + (IF o.carry THEN 1 ELSE 0)) % WordSize, o.value >= SignBit, FALSE)

TurnedRight(o) ==
    Outcome((o.value \div 2) + (IF o.carry THEN SignBit ELSE 0), o.value % 2 = 1, FALSE)

(* The loops of doMath: n turns, one by one. *)
RotateLeft(a, c, n) ==
    LET after[k \in 0 .. n] ==
            IF k = 0 THEN Outcome(a, c, FALSE) ELSE TurnedLeft(after[k - 1])
    IN  after[n]

RotateRight(a, c, n) ==
    LET after[k \in 0 .. n] ==
            IF k = 0 THEN Outcome(a, c, FALSE) ELSE TurnedRight(after[k - 1])
    IN  after[n]

Carry == (register["FL"] \div 2) % 2 = 1

(* doMath on integers.  A division by zero has no outcome. *)
Calculated(op, a, b) ==
    CASE op = "ADD" -> Sum(a, b)
      [] op = "SUB" -> Sum(a, Negated(b))
      [] op = "MUL" -> Product(a, b)
      [] op = "DIV" -> Outcome(a \div b, FALSE, FALSE)
      [] op = "MOD" -> Outcome(a - (a \div b) * b, FALSE, FALSE)
      [] op = "AND" -> Outcome(Shared(a, b), FALSE, FALSE)
      [] op = "OR"  -> Outcome(a + b - Shared(a, b), FALSE, FALSE)
      [] op = "XOR" -> Outcome(a + b - 2 * Shared(a, b), FALSE, FALSE)
      [] op = "BSLT" -> ShiftLeft(a, b)
      [] op = "BSRT" -> ShiftRight(a, b)
      [] op = "BSLC" -> RotateLeft(a, Carry, b % WordBits)
      [] op = "BSRC" -> RotateRight(a, Carry, b % WordBits)

FlagsOf(o) == Flags(o.value = 0, o.value >= SignBit, o.carry, o.overflow)

(* doCompare on integers: the flags of a - b. *)
Compared(a, b) == FlagsOf(Sum(a, Negated(b)))

(* What a float may leave in the flags: no carry, and never both Z and N. *)
FloatFlags(overflows) ==
    LET bit(f, k) == (f \div k) % 2 = 1
    IN  {f \in 0 .. 15 : ~bit(f, 2) /\ ~(bit(f, 8) /\ bit(f, 4)) /\ bit(f, 1) \in overflows}

Init ==
    /\ register \in Starts
    /\ memory = << >>
    /\ programCounter = DdatEnd + 1
    /\ regsel = "G0"
    /\ raised = {} /\ crashed = FALSE /\ steps = 0
    /\ last = [op |-> "none"]
    /\ frames = << >> /\ causes = {} /\ warnings = 0
    /\ placed = (register["SP"] + Threshold >= register["SS"])
-----------------------------------------------------------------------------
(* Every instruction: the bytes fetched and the registers named by the operand. *)

Fetch(length) == programCounter' = (programCounter + length) % WordSize

(* An instruction that uses the stack, or moves it: sequences of these are explored. *)
Step(length, r) ==
    /\ steps' = steps + 1 /\ Fetch(length) /\ regsel' = r

(* Any other: when Isolated, a run by itself. *)
Counted == IF Isolated THEN steps = 0 /\ steps' = MaxSteps ELSE steps' = steps + 1

Alone(length, r) == Counted /\ Fetch(length) /\ regsel' = r

Quiet == raised' = {} /\ crashed' = crashed

Other == last' = [op |-> "other"]

(* Immediates with the length of form 2 (W, H, C); S: signed ones as well. *)
Unextended ==
    {[value |-> v, length |-> 6] : v \in Words}
        \cup {[value |-> v, length |-> 4] : v \in Halves}
        \cup {[value |-> v, length |-> 3] : v \in Bytes}

Extended ==
    {[value |-> Extend(v, 2), length |-> 4] : v \in Halves}
        \cup {[value |-> Extend(v, 1), length |-> 3] : v \in Bytes}

Immediates == Unextended \cup Extended

FromRegisters(length) == {[value |-> register[r], length |-> length] : r \in Selected}
-----------------------------------------------------------------------------
(* Moves. *)

MoveRegister ==
    \E r \in Selected, from \in FromRegisters(2) :
        /\ Step(from.length, r)
        /\ register' = Put(register, r, from.value)
        /\ Quiet /\ Other
        /\ UNCHANGED memory

MoveImmediate ==
    \E r \in Selected, im \in Immediates :
        /\ Alone(im.length, r)
        /\ register' = Put(register, r, im.value)
        /\ Quiet /\ Other
        /\ UNCHANGED memory

GetAddress ==
    \E r \in Selected, mode \in {"PC", "PC_M_OA"},
       base \in FromRegisters(2) \cup {[value |-> v, length |-> 6] : v \in Words} :
        /\ Alone(base.length, r)
        /\ register' = Put(register, r, Offset(mode, base.value))
        /\ Quiet /\ Other
        /\ UNCHANGED memory

(* FL_TO_INT, INT_TO_FL, INT_SIG_TO_FL: some word of the small set. *)
Convert ==
    \E r \in Selected, v \in Words :
        /\ Alone(2, r)
        /\ register' = Put(register, r, v)
        /\ Quiet /\ Other
        /\ UNCHANGED memory
-----------------------------------------------------------------------------
(* Loads, swaps and stores of n bytes, at the address in a register or given, *)
(* in one of the modes.                                                       *)

Pointers == FromRegisters(2) \cup {[value |-> v, length |-> 6] : v \in Words}

(* transferMemToReg: a refused load leaves the register alone. *)
Loaded(r, a, n) ==
    IF CanRead(a, n) THEN {Put(register, r, v) : v \in Reads(a, n)} ELSE {register}

(* doSigExt: a halfword in a halfword stays, a byte in one is sought in a null   *)
(* pointer, FL is left alone.                                                    *)
SignExtended(regs, r, n) ==
    IF Size(r) = 4 THEN [regs EXCEPT ![r] = Extend(regs[r], n)] ELSE regs

SignCrashes(r, n) == Size(r) = 2 /\ n = 1

Violation(allowed) == IF allowed THEN {} ELSE {"memoryViolation"}

Load ==
    \E r \in Selected, p \in Pointers, mode \in Modes, n \in {1, 2, 4}, signed \in BOOLEAN :
        LET a == Offset(mode, p.value) IN
        /\ signed => n < 4
        /\ Alone(p.length, r)
        /\ \E regs \in Loaded(r, a, n) :
              register' = IF signed THEN SignExtended(regs, r, n) ELSE regs
        /\ raised' = Violation(CanRead(a, n))
        /\ crashed' = (signed /\ SignCrashes(r, n))
        /\ last' = [op |-> "load", address |-> a, bytes |-> n, signed |-> signed]
        /\ UNCHANGED memory

(* The register's old value is stored once the new one is loaded.  (A signed byte  *)
(* swapped with a halfword crashes as the load does.)                              *)
Swap ==
    \E r \in Selected, p \in Pointers, mode \in Modes, n \in {1, 2, 4}, signed \in BOOLEAN :
        LET a == Offset(mode, p.value) IN
        /\ signed => n < 4
        /\ ~(signed /\ SignCrashes(r, n))
        /\ Alone(p.length, r)
        /\ \E regs \in Loaded(r, a, n) :
              register' = IF signed THEN SignExtended(regs, r, n) ELSE regs
        /\ \E accepted \in Accepts(a, n) :
              /\ memory' = IF CanWrite(a, n) /\ accepted
                           THEN Written(a, n, register[r]) ELSE memory
              /\ last' = [op |-> "swap", address |-> a, bytes |-> n, signed |-> signed,
                          register |-> r, accepted |-> accepted]
        /\ raised' = Violation(CanRead(a, n) /\ CanWrite(a, n))
        /\ crashed' = FALSE

Store ==
    \E r \in Selected, p \in Pointers, mode \in Modes, n \in {1, 2, 4} :
        LET a == Offset(mode, p.value) IN
        /\ Alone(p.length, r)
        /\ \E accepted \in Accepts(a, n) :
              memory' = IF CanWrite(a, n) /\ accepted
                        THEN Written(a, n, register[r]) ELSE memory
        /\ raised' = Violation(CanWrite(a, n))
        /\ last' = [op |-> "store", address |-> a, bytes |-> n, signed |-> FALSE]
        /\ UNCHANGED <<register, crashed>>
-----------------------------------------------------------------------------
(* Arithmetic: the destination is written before the flags. *)

Operands(op) ==
    CASE op \in {"ADD", "SUB", "MUL", "DIV", "MOD"} -> FromRegisters(3) \cup Immediates
      [] op \in {"AND", "OR", "XOR"} -> FromRegisters(3) \cup Unextended
      [] op \in {"BSLT", "BSLC", "BSRT", "BSRC"} ->
            FromRegisters(3) \cup {[value |-> v, length |-> 3] : v \in Bytes}

Compute(op, d, a, b, length) ==
    /\ Alone(length, d)
    /\ IF op \in {"DIV", "MOD"} /\ b = 0
       THEN raised' = {"divisionByZero"} /\ UNCHANGED register
       ELSE LET o == Calculated(op, a, b)
            IN  /\ register' = Put(Put(register, d, o.value), "FL", FlagsOf(o))
                /\ raised' = {}
    /\ last' = [op |-> op, a |-> a, b |-> b, carry |-> Carry, d |-> d]
    /\ UNCHANGED <<memory, crashed>>

Arithmetic(ops) ==
    \E op \in ops : \E d, s \in Selected, b \in Operands(op) :
        Compute(op, d, register[s], b.value, b.length)

AddSubtract == Arithmetic({"ADD", "SUB"})
MultiplyDivide == Arithmetic({"MUL", "DIV", "MOD"})
Logic == Arithmetic({"AND", "OR", "XOR"})
Shift == Arithmetic({"BSLT", "BSLC", "BSRT", "BSRC"})

(* OP_NOT_REG rotates by nothing. *)
NotRegister == \E d, s \in Selected : Compute("BSRC", d, register[s], 0, 2)

(* The immediates of SUB, MUL and DIV are not fetched: three bytes, an old operand. *)
FloatArithmetic ==
    \E op \in {"ADD", "SUB", "MUL", "DIV"}, d \in Selected, b, v \in Words, im \in BOOLEAN :
        /\ Alone(IF im /\ op = "ADD" THEN 6 ELSE 3, d)
        /\ IF op = "DIV" /\ b = 0
           THEN raised' = {"divisionByZero"} /\ UNCHANGED register
           ELSE /\ \E f \in FloatFlags(IF op = "SUB" THEN BOOLEAN ELSE {FALSE}) :
                      register' = Put(Put(register, d, v), "FL", f)
                /\ raised' = {}
        /\ Other
        /\ UNCHANGED <<memory, crashed>>
-----------------------------------------------------------------------------
(* Comparisons and branches. *)

Compare ==
    \E s \in Selected, b \in FromRegisters(2) \cup Immediates :
        /\ Alone(b.length, s)
        /\ register' = Put(register, "FL", Compared(register[s], b.value))
        /\ last' = [op |-> "compare", a |-> register[s], b |-> b.value]
        /\ Quiet
        /\ UNCHANGED memory

FloatCompare ==
    \E s \in Selected, length \in {2, 6}, f \in FloatFlags(BOOLEAN) :
        /\ Alone(length, s)
        /\ register' = Put(register, "FL", f)
        /\ Quiet /\ Other
        /\ UNCHANGED memory

(* The truth of the condition goes to a register, even of one that does not exist. *)
Eval ==
    \E d, s \in Selected, code \in Codes,
       b \in FromRegisters(3) \cup {[i EXCEPT !.length = @ + 1] : i \in Immediates} :
        LET flags == Compared(register[s], b.value)
            truth == IF code \in Conditions(flags) THEN 1 ELSE 0
        IN  /\ Alone(b.length, d)
            /\ register' = Put(Put(register, "FL", flags), d, truth)
            /\ raised' = Unknown(code)
            /\ last' = [op |-> "eval", a |-> register[s], b |-> b.value, code |-> code,
                        truth |-> truth = 1]
            /\ UNCHANGED <<memory, crashed>>

FloatEval ==
    \E d \in Selected, code \in Codes, length \in {3, 7}, f \in FloatFlags(BOOLEAN) :
        /\ Alone(length, d)
        /\ register' = Put(Put(register, "FL", f), d, IF code \in Conditions(f) THEN 1 ELSE 0)
        /\ raised' = Unknown(code) /\ Other
        /\ UNCHANGED <<memory, crashed>>

(* The code of a branch to an immediate is where other operands name a register. *)
CodeRegister(code) ==
    IF code = 15 THEN "FL" ELSE IF code \in {12, 13} THEN "SP" ELSE "G0"

(* Targets in a register: a relative mode offsets the register's number, so that *)
(* another register is read, or what lies beyond the table of the registers.     *)
RegisterTargets(regs, r, mode) ==
    IF Offset(mode, 0) = 0 THEN {regs[r]} ELSE {regs[q] : q \in Selected} \cup Targets

Branch ==
    \E code \in Codes \cap Conditions(register["FL"]), mode \in Modes :
        /\ Counted
        /\ \/ \E r \in Selected : /\ programCounter' \in RegisterTargets(register, r, mode)
                                  /\ regsel' = r
           \/ \E target \in Targets : /\ programCounter' = Offset(mode, target)
                                    /\ regsel' = CodeRegister(code)
        /\ Quiet /\ Other
        /\ UNCHANGED <<register, memory>>

(* A condition that is false, or unknown: nothing is pushed either. *)
BranchNotTaken ==
    \E code \in Codes \ Conditions(register["FL"]), length \in {2, 6}, r \in Selected :
        /\ Alone(length, IF length = 2 THEN r ELSE CodeRegister(code))
        /\ raised' = Unknown(code) /\ Other
        /\ UNCHANGED <<register, memory, crashed>>
-----------------------------------------------------------------------------
(* The stack.  Its bounds are checked without wrapping, unlike its address. *)

StackAddress == (register["SB"] + register["SP"]) % WordSize

StackWritable(n) ==
    StackAddress >= DdatStart /\ register["SB"] + register["SP"] + n - 1 <= Top

StackReadable(n) ==
    LET a == (StackAddress - n) % WordSize IN
    \/ a >= DregStart /\ register["SB"] + register["SP"] - 1 <= Top
    \/ (a + n - 1) % WordSize <= RomEnd

Critical(regs) == regs["SP"] + Threshold >= regs["SS"]

Moved(regs, n) == Put(regs, "SP", regs["SP"] + n)

(* Faulty form: the warning comes with every push into the critical space. *)
WarnsAlways(regs) == IF Critical(regs) THEN {"criticalStack"} ELSE {}

Warns(regs) == IF ~Critical(register) /\ Critical(regs) THEN {"criticalStack"} ELSE {}

(* push32 and its like: the registers, the memory and the interrupts after it. *)
Pushed(v, n) ==
    IF StackWritable(n)
    THEN LET regs == Moved(register, n)
         IN  [register |-> regs, memory |-> Written(StackAddress, n, v), raised |-> Warns(regs)]
    ELSE [register |-> register, memory |-> memory, raised |-> {"memoryViolation"}]

Frame(n, v) == [op |-> "push", bytes |-> n, value |-> v]

Push ==
    \E r \in Selected :
        LET p == Pushed(register[r], Size(r)) IN
        /\ Step(2, r)
        /\ register' = p.register /\ memory' = p.memory /\ raised' = p.raised
        /\ last' = IF StackWritable(Size(r)) THEN Frame(Size(r), register[r])
                   ELSE [op |-> "other"]
        /\ UNCHANGED crashed

(* Faulty form: the stack pointer moves before the read. *)
TopOfStackMoved(n) == (StackAddress - 2 * n) % WordSize

TopOfStack(n) == (StackAddress - n) % WordSize

(* An empty pop and a violation leave everything as it is. *)
PopFails(n) ==
    /\ register["SP"] < n \/ ~StackReadable(n)
    /\ raised' = IF register["SP"] < n THEN {"emptyPop"} ELSE {"memoryViolation"}
    /\ Other
    /\ UNCHANGED register

PopInto(op, r, length) ==
    /\ Step(length, r)
    /\ \/ PopFails(Size(r))
       \/ /\ register["SP"] >= Size(r) /\ StackReadable(Size(r))
          /\ \E v \in Reads(TopOfStack(Size(r)), Size(r)) :
                /\ register' = Put(Moved(register, -Size(r)), r, v)
                /\ last' = [op |-> op, bytes |-> Size(r), value |-> v, register |-> r]
          /\ raised' = {}
    /\ UNCHANGED <<memory, crashed>>

Pop == \E r \in Selected : PopInto("pop", r, 2)

(* OP_PEEK pops, into the register of the operand fetched last. *)
Peek == PopInto("peek", regsel, 1)

Return ==
    /\ steps' = steps + 1
    /\ \/ PopFails(4) /\ Fetch(1)
       \/ /\ register["SP"] >= 4 /\ StackReadable(4)
          /\ \E v \in Reads(TopOfStack(4), 4) :
                /\ programCounter' = v
                /\ last' = [op |-> "pop", bytes |-> 4, value |-> v, register |-> "PC"]
          /\ register' = Moved(register, -4)
          /\ raised' = {}
    /\ UNCHANGED <<memory, crashed, regsel>>

(* BRNC_P: a refused push does not keep the branch from being taken. *)
BranchProtected ==
    \E code \in Codes \cap Conditions(register["FL"]), mode \in Modes, length \in {2, 6} :
        LET back == (programCounter + length) % WordSize
            p == Pushed(back, 4)
        IN  /\ steps' = steps + 1
            /\ register' = p.register /\ memory' = p.memory /\ raised' = p.raised
            /\ IF length = 2
               THEN \E r \in Selected : /\ programCounter' \in RegisterTargets(p.register, r, mode)
                                        /\ regsel' = r
               ELSE \E target \in Targets : /\ programCounter' = Offset(mode, target)
                                          /\ regsel' = CodeRegister(code)
            /\ last' = Frame(4, back)
            /\ UNCHANGED crashed

(* OP_DEBUG outside user tests. *)
Debug ==
    /\ \E r \in Selected : Alone(2, r)
    /\ raised' = {"invalidInstruction"} /\ Other
    /\ UNCHANGED <<register, memory, crashed>>

(* An opcode without a case. *)
Undefined ==
    /\ Alone(1, regsel)
    /\ Quiet /\ Other
    /\ UNCHANGED <<register, memory>>

Instruction ==
    \/ MoveRegister \/ MoveImmediate \/ GetAddress \/ Convert
    \/ Load \/ Swap \/ Store
    \/ AddSubtract \/ MultiplyDivide \/ Logic \/ Shift \/ NotRegister \/ FloatArithmetic
    \/ Compare \/ FloatCompare \/ Eval \/ FloatEval \/ Branch
    \/ Push \/ Pop \/ Peek \/ Return \/ BranchProtected \/ BranchNotTaken
    \/ Debug \/ Undefined

(* The histories that the properties need. *)
Why ==
    LET onStack == last'.op \in {"push", "pop"}
        moved == \E r \in {"SP", "SB"} : register'[r] # register[r]
        onto == register["SB"] .. register["SB"] + register["SP"] - 1
    IN  {w \in {"denied", "peeked", "moved", "wrapped", "unbalanced", "overwritten"} :
            CASE w = "denied" -> last'.op = "push" /\ "memoryViolation" \in raised'
              [] w = "peeked" -> last'.op = "peek"
              [] w = "moved" -> \/ ~onStack /\ moved
                                \/ last'.op = "pop" /\ last'.register \in {"SP", "SB"}
              [] w = "wrapped" -> last'.op = "push" /\ register'["SP"] < register["SP"]
              [] w = "unbalanced" -> /\ last'.op = "pop"
                                     /\ (frames = << >> \/ Head(frames).bytes # last'.bytes)
              [] w = "overwritten" ->
                    /\ last'.op \in {"store", "swap"}
                    /\ \E a \in last'.address .. last'.address + last'.bytes - 1 : a \in onto}

Observe ==
    /\ frames' = CASE last'.op = "push" -> <<last'>> \o frames
                   [] last'.op = "pop" /\ frames # << >> -> Tail(frames)
                   [] OTHER -> frames
    /\ causes' = causes \cup Why
    /\ warnings' = IF "criticalStack" \in raised' THEN warnings + 1
                   ELSE IF Critical(register') THEN warnings ELSE 0
    /\ placed' = (Critical(register') /\ (placed \/ (~Critical(register) /\ last'.op # "push")))

Next ==
    /\ steps < MaxSteps /\ ~crashed
    /\ Instruction
    /\ Observe

Spec == Init /\ [][Next]_vars
-----------------------------------------------------------------------------
(***************************************************************************)
(* Type invariant: a register never holds more than its width, whatever    *)
(* was moved, loaded, computed or popped into it (regSize, dgc32.c:214).   *)
(***************************************************************************)
TypeOK ==
    /\ \A r \in Registers : register[r] \in 0 .. Span(Size(r)) - 1
    /\ \A a \in DOMAIN memory : a \in 0 .. Top /\ memory[a] \in 0 .. ByteSize - 1
    /\ programCounter \in 0 .. Top /\ regsel \in Selected
    /\ raised \subseteq {"criticalStack", "emptyPop", "memoryViolation", "invalidInstruction",
                         "divisionByZero"}
    /\ crashed \in BOOLEAN /\ steps \in 0 .. MaxSteps
    /\ causes \subseteq {"denied", "peeked", "moved", "wrapped", "unbalanced", "overwritten"}
    /\ Len(frames) <= MaxSteps /\ warnings \in Nat /\ placed \in BOOLEAN

(* What the codes 1 to 10 mean of two words. *)
Relations(a, b) ==
    LET s == Signed(a)  t == Signed(b)
    IN  {code \in 0 .. 10 :
            CASE code = 0 -> TRUE   [] code = 1 -> a = b   [] code = 2 -> a # b
              [] code = 3 -> a > b  [] code = 4 -> a >= b  [] code = 5 -> a <= b
              [] code = 6 -> a < b  [] code = 7 -> s > t   [] code = 8 -> s >= t
              [] code = 9 -> s <= t [] code = 10 -> s < t}

SignedCodes == 7 .. 10

(* Zero and the least word are their own negations: the overflow of the sum is wrong. *)
SelfNegated(b) == Negated(b) = b

(* The signed codes for which the overflow decides: an equal pair has GT and LE right. *)
Misled(a, b) == IF ~SelfNegated(b) THEN {} ELSE IF a = b THEN {8, 10} ELSE SignedCodes

(* The codes that hold are those that are true, but for the misled ones. *)
ComparisonExact ==
    last.op = "compare" =>
        LET held == Conditions(register["FL"])
            true == Relations(last.a, last.b)
        IN  \A code \in 0 .. 10 :
                (code \in held) = ((code \in true) # (code \in Misled(last.a, last.b)))

EvalExact ==
    (last.op = "eval" /\ last.code \in 0 .. 10) =>
        last.truth = ((last.code \in Relations(last.a, last.b))
                         # (last.code \in Misled(last.a, last.b)))

(* The carry of a sum is the bit it loses, but a sum with zero carries; of a        *)
(* difference it says that nothing was borrowed.  Overflow: the signed result is    *)
(* not the sum or the difference, but where the carry or the negation is wrong.     *)
SumExact ==
    LET flags == register["FL"]
        carried == (flags \div 2) % 2 = 1
        overflowed == flags % 2 = 1
        Fits(v) == v \in -SignBit .. SignBit - 1
        s == Signed(last.a)
        t == Signed(last.b)
    IN  /\ last.op = "ADD" => /\ carried = (last.a + last.b > Top \/ last.b = 0)
                              /\ last.b # 0 => overflowed = ~Fits(s + t)
        /\ last.op = "SUB" => /\ carried = (last.a >= last.b)
                              /\ ~SelfNegated(last.b) => overflowed = ~Fits(s - t)
        /\ last.op = "MUL" => overflowed = (last.b > 0 /\ last.a > Top \div last.b)

(* A rotation turns the word and its carry, WordBits + 1 bits, as one. *)
RotationExact ==
    LET n == last.b % WordBits
        bits == WordBits + 1
        carried == (register["FL"] \div 2) % 2
        whole(i) == IF i = WordBits THEN (IF last.carry THEN 1 ELSE 0)
                    ELSE (last.a \div (2 ^ i)) % 2
        shift == IF last.op = "BSLC" THEN bits - n ELSE n
        turned(i) == whole((i + shift) % bits)
    IN  (last.op \in {"BSLC", "BSRC"} /\ last.d # "FL") =>
            /\ carried = turned(WordBits)
            /\ Size(last.d) = 4 =>
                 \A i \in 0 .. WordBits - 1 :
                    (register[last.d] \div (2 ^ i)) % 2 = turned(i)

(***************************************************************************)
(* The flags tell the truth (doMath, doCompare, checkCondition): every     *)
(* condition after a comparison, carry and overflow after a calculation,   *)
(* and the carry that takes part in a rotation.  They do not when the      *)
(* second operand is zero or the least word: then the four signed          *)
(* conditions are all wrong, in comparisons with zero among others.        *)
(***************************************************************************)
FlagsExact == ComparisonExact /\ EvalExact /\ SumExact /\ RotationExact

(***************************************************************************)
(* The program is warned exactly once when its pushes and protected        *)
(* branches take the stack pointer into the critical space                 *)
(* (doStackUtils, protectedPush32), and early enough for one more word to  *)
(* be pushed; it is not warned when it puts the pointer there itself, or   *)
(* makes the stack too small for its threshold.                            *)
(***************************************************************************)
StackWarning ==
    /\ warnings = (IF Critical(register) /\ ~placed THEN 1 ELSE 0)
    /\ "criticalStack" \in raised => register["SP"] + 4 <= register["SS"]

(***************************************************************************)
(* What a program pops is what it pushed, and a return goes to the         *)
(* instruction after its call.  That ends when a protected branch could    *)
(* not push and was taken all the same, when the program peeks (OP_PEEK    *)
(* pops), moves the stack, wraps its pointer, pops another width or stores *)
(* into the stack.                                                         *)
(***************************************************************************)
CallsReturn ==
    [][(last'.op = "pop" /\ steps' = steps + 1 /\ causes' = {}) =>
          /\ last'.value = Head(frames).value
          /\ last'.register = "PC" => programCounter' = Head(frames).value]_vars

Readable(a) == a \in 0 .. RomEnd \/ a \in DregStart .. Top

(* The violations: a range is refused when a byte of it is, but for the reads past *)
(* the top, some of which the word-sized sum lets through.                          *)
ViolationsExact ==
    LET range == last'.address .. last'.address + last'.bytes - 1
        refused == "memoryViolation" \in raised'
        writable == range \subseteq DdatStart .. Top
    IN  /\ last'.op = "store" => (refused <=> ~ writable)
        /\ last'.op = "load" /\ (\A a \in range : a <= Top) =>
               (refused <=> \E a \in range : ~Readable(a))
        /\ last'.op = "swap" /\ (\A a \in range : a <= Top) =>
               (refused <=> ~ writable \/ \E a \in range : ~Readable(a))

(* A swap that nobody refuses exchanges the register and the memory. *)
Exchanged ==
    (last'.op = "swap" /\ raised' = {} /\ last'.accepted) =>
        LET r == last'.register
            n == last'.bytes
            v == Assemble(memory, last'.address, n)
        IN  /\ Assemble(memory', last'.address, n) = register[r] % Span(n)
            /\ register'[r] = (IF last'.signed /\ Size(r) = 4 THEN Extend(v, n) ELSE v)
                                  % Span(Size(r))

(* A refused access changes nothing, but a signed load extends the old value and a *)
(* swap may have loaded.                                                           *)
RefusalsHarmless ==
    (last'.op \in {"load", "store"} /\ "memoryViolation" \in raised') =>
        memory' = memory /\ (last'.signed \/ register' = register)

(***************************************************************************)
(* Memory is written only from the device data to the top, by stores,      *)
(* swaps, pushes and calls alike (MEMBOUND_CAN_WRITE), a range is refused  *)
(* exactly when one of its bytes is, a swap exchanges, and an access that  *)
(* is refused changes nothing.                                             *)
(***************************************************************************)
MemoryExact ==
    [][/\ \A a \in DOMAIN memory' : memory'[a] # Byte(memory, a) => a \in DdatStart .. Top
       /\ ViolationsExact /\ Exchanged /\ RefusalsHarmless]_vars
=============================================================================
