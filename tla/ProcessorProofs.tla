-------------------------- MODULE ProcessorProofs --------------------------
EXTENDS Processor, FiniteSetTheorems, TLAPS

(* A set with 0 and every successor has every number: else adding one would map *)
(* its numbers up to the missing one into themselves without 0, one to one.     *)
LEMMA SetInduction ==
    ASSUME NEW S, 0 \in S, \A k \in Nat : k \in S => k + 1 \in S,
           NEW n \in Nat
    PROVE  n \in S
  <1> SUFFICES ASSUME n \notin S PROVE FALSE
    OBVIOUS
  <1> DEFINE T == S \cap (0 .. n)
             U == T \ {0}
             f == [k \in T |-> k + 1]
  <1>1. IsFiniteSet(T) /\ Cardinality(T) \in Nat
    <2>1. IsFiniteSet(0 .. n)
      BY FS_Interval
    <2>2. T \in SUBSET (0 .. n)
      OBVIOUS
    <2> QED BY <2>1, <2>2, FS_Subset, FS_CardinalityType
  <1>2. f \in Injection(T, U)
    <2>1. f \in [T -> U]
      <3>1. ASSUME NEW k \in T PROVE k + 1 \in U
        OBVIOUS
      <3> QED BY <3>1
    <2>2. \A j, k \in T : f[j] = f[k] => j = k
      OBVIOUS
    <2> HIDE DEF f, T, U
    <2> QED BY <2>1, <2>2 DEF Injection, IsInjective
  <1>3. IsFiniteSet(U) /\ Cardinality(U) = Cardinality(T) - 1
    <2>1. 0 \in T
      OBVIOUS
    <2> HIDE DEF T
    <2> QED BY <1>1, <2>1, FS_RemoveElement
  <1>4. Cardinality(T) <= Cardinality(U)
    <2> HIDE DEF f, T, U
    <2> QED BY <1>2, <1>3, FS_Injection
  <1> QED BY <1>1, <1>3, <1>4

LEMMA Division ==
    ASSUME NEW v \in Int, NEW n \in Nat \ {0}
    PROVE  \E q \in Int, r \in 0 .. n - 1 : q = v \div n /\ r = v % n /\ v = q * n + r
  <1> DEFINE q == v \div n
             r == v % n
             e == q * n
  <1>1. q \in Int /\ r \in 0 .. n - 1 /\ q = v \div n /\ r = v % n
    OBVIOUS
  <1>2. r = v - e
    OBVIOUS
  <1>3. e \in Int
    BY <1>1
  <1> HIDE DEF q, r, e
  <1>4. v = e + r
    BY <1>1, <1>2, <1>3
  <1>5. v = q * n + r
    BY <1>4 DEF e
  <1> QED BY <1>1, <1>5

(* Quotient and remainder are the only ones. *)
LEMMA Quotient ==
    ASSUME NEW q \in Int, NEW n \in Nat \ {0}, NEW r \in 0 .. n - 1, NEW v, v = q * n + r
    PROVE  v % n = r /\ v \div n = q
  <1> DEFINE w == v \div n
             s == v % n
  <1>1. v \in Int /\ w \in Int /\ s \in 0 .. n - 1 /\ v = w * n + s
    OBVIOUS
  <1> HIDE DEF w, s
  <1>2. (q - w) * n = s - r
    BY <1>1
  <1>3. CASE q > w
    <2>1. q - w >= 1
       BY <1>1, <1>3
    <2>2. (q - w) * n >= n
       BY <2>1, <1>1
    <2> QED BY <2>2, <1>1, <1>2
  <1>4. CASE q < w
    <2>1. q - w <= -1
       BY <1>1, <1>4
    <2>2. (q - w) * n <= -n
       BY <2>1, <1>1
    <2> QED BY <2>2, <1>1, <1>2
  <1>5. CASE q = w
    BY <1>1, <1>2, <1>5 DEF w, s
  <1> QED BY <1>1, <1>3, <1>4, <1>5

LEMMA SmallModulo ==
    ASSUME NEW m \in Nat, NEW x \in 0 .. m - 1
    PROVE  x % m = x
  OBVIOUS

(* A subset of 1 .. n + 1 is one of 1 .. n, with or without n + 1. *)
LEMMA PowerDoubles ==
    ASSUME NEW n \in Nat
    PROVE  2 ^ n \in Nat \ {0} /\ 2 ^ (n + 1) = 2 * 2 ^ n
  <1> DEFINE A == SUBSET (1 .. n)
             B == {T \cup {n + 1} : T \in A}
             f == [T \in A |-> T \cup {n + 1}]
  <1>1. /\ IsFiniteSet(1 .. n) /\ Cardinality(1 .. n) = n
        /\ IsFiniteSet(1 .. n + 1) /\ Cardinality(1 .. n + 1) = n + 1
    BY FS_Interval
  <1>2. IsFiniteSet(A) /\ Cardinality(A) = 2 ^ n
    BY <1>1, FS_SUBSET
  <1>3. Cardinality(SUBSET (1 .. n + 1)) = 2 ^ (n + 1)
    BY <1>1, FS_SUBSET
  <1>4. 2 ^ n \in Nat \ {0}
    <2>1. {} \in A
      OBVIOUS
    <2> HIDE DEF A
    <2>2. Cardinality(A) \in Nat /\ Cardinality(A) # 0
      BY <2>1, <1>2, FS_CardinalityType, FS_EmptySet
    <2> QED BY <1>2, <2>2
  <1>5. f \in Bijection(A, B)
    <2>1. \A T \in A : n + 1 \notin T
      OBVIOUS
    <2>2. \A T, U \in A : T \cup {n + 1} = U \cup {n + 1} => T = U
      BY <2>1
    <2>3. f \in Injection(A, B)
      <3>1. \A T, U \in A : f[T] = f[U] => T = U
        BY <2>2
      <3>2. f \in [A -> B]
        OBVIOUS
      <3> HIDE DEF f, A, B
      <3> QED BY <3>1, <3>2 DEF Injection, IsInjective
    <2>4. f \in Surjection(A, B)
      <3>1. \A U \in B : \E T \in A : f[T] = U
        OBVIOUS
      <3>2. f \in [A -> B]
        OBVIOUS
      <3> HIDE DEF f, A, B
      <3> QED BY <3>1, <3>2 DEF Surjection
    <2> QED BY <2>3, <2>4 DEF Bijection
  <1>6. IsFiniteSet(B) /\ Cardinality(B) = 2 ^ n
    <2>1. ExistsBijection(A, B)
      BY <1>5 DEF ExistsBijection
    <2> HIDE DEF A, B
    <2> QED BY <1>2, <2>1, FS_Bijection
  <1>7. SUBSET (1 .. n + 1) = A \cup B /\ A \cap B = {}
    <2>1. ASSUME NEW T \in SUBSET (1 .. n + 1) PROVE T \in A \cup B
      <3>1. CASE n + 1 \in T
        <4>1. T \ {n + 1} \in A
          OBVIOUS
        <4>2. T = (T \ {n + 1}) \cup {n + 1}
          BY <3>1
        <4> QED BY <4>1, <4>2
      <3>2. CASE n + 1 \notin T
        <4>1. \A i \in T : i \in 1 .. n
          BY <3>2
        <4> QED BY <4>1
      <3> QED BY <3>1, <3>2
    <2>2. ASSUME NEW T \in A PROVE T \in SUBSET (1 .. n + 1) /\ n + 1 \notin T
                                   /\ T \cup {n + 1} \in SUBSET (1 .. n + 1)
      OBVIOUS
    <2> HIDE DEF A
    <2>3. SUBSET (1 .. n + 1) \subseteq A \cup B
      BY <2>1
    <2> QED BY <2>2, <2>3
  <1>8. Cardinality(A \cup B) = 2 ^ n + 2 ^ n
    <2> HIDE DEF A, B
    <2>1. Cardinality(A \cup B) = Cardinality(A) + Cardinality(B) - Cardinality(A \cap B)
      BY <1>2, <1>6, FS_Union
    <2>2. Cardinality(A \cap B) = 0
      BY <1>7, FS_EmptySet
    <2> QED BY <1>2, <1>4, <1>6, <2>1, <2>2
  <1>9. 2 ^ (n + 1) = 2 ^ n + 2 ^ n
    BY <1>3, <1>7, <1>8
  <1> QED BY <1>4, <1>9
LEMMA PowerAdds ==
    ASSUME NEW m \in Nat, NEW n \in Nat
    PROVE  2 ^ (m + n) = 2 ^ m * 2 ^ n
  <1> DEFINE S == {k \in Nat : 2 ^ (m + k) = 2 ^ m * 2 ^ k}
  <1>1. 0 \in S
    <2>1. m + 0 = m /\ 2 ^ 0 = 1 /\ 2 ^ m \in Nat
      BY PowerDoubles
    <2> QED BY <2>1
  <1>2. ASSUME NEW k \in Nat, k \in S PROVE k + 1 \in S
    <2>1. m + k \in Nat /\ (m + k) + 1 = m + (k + 1)
      OBVIOUS
    <2>2. 2 ^ (m + (k + 1)) = 2 * 2 ^ (m + k)
      BY <2>1, PowerDoubles
    <2>3. 2 ^ (k + 1) = 2 * 2 ^ k /\ 2 ^ k \in Nat /\ 2 ^ m \in Nat
      BY PowerDoubles
    <2>4. 2 * (2 ^ m * 2 ^ k) = 2 ^ m * (2 * 2 ^ k)
      BY <2>3
    <2> QED BY <1>2, <2>2, <2>3, <2>4
  <1> HIDE DEF S
  <1>3. n \in S
    BY <1>1, <1>2, SetInduction
  <1> QED BY <1>3 DEF S

(* More bytes, more values. *)
LEMMA SpanGrows ==
    ASSUME NEW n \in Nat
    PROVE  Span(n) \in Nat \ {0} /\ Span(n + 1) = ByteSize * Span(n)
  <1>1. n * ByteBits \in Nat /\ ByteBits \in Nat /\ (n + 1) * ByteBits = ByteBits + n * ByteBits
    BY ProcessorAssumption
  <1> QED BY <1>1, PowerDoubles, PowerAdds DEF Span, ByteSize

LEMMA ByteLarge == ByteSize \in Nat /\ ByteSize >= 16 /\ ByteSize % 2 = 0
  <1>1. 2 ^ 0 = 1 /\ 2 ^ (0 + 1) = 2 * 2 ^ 0 /\ 2 ^ (1 + 1) = 2 * 2 ^ 1 /\ 2 ^ (2 + 1) = 2 * 2 ^ 2
        /\ 2 ^ (3 + 1) = 2 * 2 ^ 3
    BY PowerDoubles
  <1>2. 2 ^ 4 = 16
    BY <1>1
  <1>3. ByteBits - 4 \in Nat /\ ByteBits - 1 \in Nat /\ 4 + (ByteBits - 4) = ByteBits
        /\ (ByteBits - 1) + 1 = ByteBits
    BY ProcessorAssumption
  <1>4. 2 ^ (4 + (ByteBits - 4)) = 2 ^ 4 * 2 ^ (ByteBits - 4)
    BY <1>3, PowerAdds
  <1>5. 2 ^ (ByteBits - 4) \in Nat \ {0}
    BY <1>3, PowerDoubles
  <1>6. 2 ^ ((ByteBits - 1) + 1) = 2 * 2 ^ (ByteBits - 1) /\ 2 ^ (ByteBits - 1) \in Nat
    BY <1>3, PowerDoubles
  <1> QED BY <1>2, <1>3, <1>4, <1>5, <1>6 DEF ByteSize

(* Bytes, halfwords and words. *)
LEMMA Spans ==
    /\ Span(0) = 1 /\ Span(1) = ByteSize /\ Span(2) \in Nat /\ Span(3) \in Nat
    /\ Span(2) = ByteSize * ByteSize /\ Span(3) = ByteSize * Span(2)
    /\ Span(4) = ByteSize * Span(3) /\ Span(4) = WordSize
  <1>1. Span(0) = 1
    <2>1. 0 * ByteBits = 0 /\ 2 ^ 0 = 1
      BY ProcessorAssumption
    <2> QED BY <2>1 DEF Span
  <1>2. Span(4) = WordSize
    BY DEF Span, WordSize, WordBits
  <1>3. Span(0 + 1) = ByteSize * Span(0) /\ Span(1 + 1) = ByteSize * Span(1)
        /\ Span(2 + 1) = ByteSize * Span(2) /\ Span(3 + 1) = ByteSize * Span(3)
        /\ Span(2) \in Nat /\ Span(3) \in Nat
    BY SpanGrows
  <1> QED BY <1>1, <1>2, <1>3, ByteLarge

LEMMA SpanOrder ==
    /\ ByteSize \in Nat /\ Span(2) \in Nat /\ Span(3) \in Nat /\ WordSize \in Nat
    /\ 16 <= ByteSize /\ 16 * ByteSize <= Span(2) /\ 16 * Span(2) <= Span(3)
    /\ 16 * Span(3) <= WordSize
  BY Spans, ByteLarge

LEMMA WordHalved == SignBit \in Nat \ {0} /\ WordSize = 2 * SignBit /\ WordSize \in Nat
  <1>1. WordBits \in Nat /\ WordBits - 1 \in Nat /\ (WordBits - 1) + 1 = WordBits
    BY ProcessorAssumption DEF WordBits
  <1>2. 2 ^ ((WordBits - 1) + 1) = 2 * 2 ^ (WordBits - 1) /\ 2 ^ (WordBits - 1) \in Nat \ {0}
    BY <1>1, PowerDoubles
  <1> DEFINE h == 2 ^ (WordBits - 1)
  <1>3. WordSize = 2 * h /\ h \in Nat \ {0}
    BY <1>1, <1>2 DEF WordSize
  <1> HIDE DEF h
  <1>4. WordSize \div 2 = h
    BY <1>3
  <1> QED BY <1>3, <1>4 DEF SignBit

LEMMA Sizes ==
    ASSUME NEW r \in Registers
    PROVE  /\ Size(r) \in {1, 2, 4} /\ Span(Size(r)) \in Nat
           /\ ByteSize <= Span(Size(r)) /\ Span(Size(r)) <= WordSize
           /\ (Size(r) = 4 => Span(Size(r)) = WordSize)
  BY Spans, SpanOrder DEF Size, Registers
-----------------------------------------------------------------------------
(* The recursive functions exist, so that they are what their equations say. *)

Outcomes == [value : 0 .. Top, carry : BOOLEAN, overflow : BOOLEAN]

LEMMA TurnedTyped ==
    ASSUME NEW o \in Outcomes
    PROVE  TurnedLeft(o) \in Outcomes /\ TurnedRight(o) \in Outcomes
  <1>1. o.value \in 0 .. Top /\ o.carry \in BOOLEAN
    BY DEF Outcomes
  <1>2. (2 * o.value + (IF o.carry THEN 1 ELSE 0)) % WordSize \in 0 .. Top
    BY <1>1, WordHalved DEF Top
  <1>3. (o.value \div 2) + (IF o.carry THEN SignBit ELSE 0) \in 0 .. Top
    BY <1>1, WordHalved DEF Top
  <1> QED BY <1>2, <1>3 DEF TurnedLeft, TurnedRight, Outcome, Outcomes

LEMMA LeftExists ==
    ASSUME NEW o, NEW n \in Nat
    PROVE  \E f : f = [k \in 0 .. n |-> IF k = 0 THEN o ELSE TurnedLeft(f[k - 1])]
  <1> DEFINE S == {m \in Nat : \E f : f = [k \in 0 .. m |-> IF k = 0 THEN o
                                                        ELSE TurnedLeft(f[k - 1])]}
  <1>1. 0 \in S
    <2> DEFINE f == [k \in 0 .. 0 |-> o]
    <2>1. f = [k \in 0 .. 0 |-> IF k = 0 THEN o ELSE TurnedLeft(f[k - 1])]
      OBVIOUS
    <2> QED BY <2>1
  <1>2. ASSUME NEW m \in Nat, m \in S PROVE m + 1 \in S
    <2>1. PICK f : f = [k \in 0 .. m |-> IF k = 0 THEN o ELSE TurnedLeft(f[k - 1])]
      BY <1>2
    <2> DEFINE g == [k \in 0 .. m + 1 |-> IF k = m + 1 THEN TurnedLeft(f[m]) ELSE f[k]]
    <2>2. ASSUME NEW k \in 0 .. m + 1
          PROVE  g[k] = IF k = 0 THEN o ELSE TurnedLeft(g[k - 1])
      BY <2>1
    <2>3. g = [k \in 0 .. m + 1 |-> IF k = 0 THEN o ELSE TurnedLeft(g[k - 1])]
      BY <2>2
    <2> HIDE DEF g
    <2> QED BY <2>3
  <1> HIDE DEF S
  <1>3. n \in S
    BY <1>1, <1>2, SetInduction
  <1> QED BY <1>3 DEF S

LEMMA LeftTurns ==
    ASSUME NEW a \in 0 .. Top, NEW c \in BOOLEAN, NEW n \in Nat
    PROVE  \E f : /\ RotateLeft(a, c, n) = f[n]
                  /\ f \in [0 .. n -> Outcomes]
                  /\ f[0] = Outcome(a, c, FALSE)
                  /\ \A k \in 1 .. n : f[k] = TurnedLeft(f[k - 1])
  <1> DEFINE o == Outcome(a, c, FALSE)
  <1>1. PICK f : /\ f = [k \in 0 .. n |-> IF k = 0 THEN o ELSE TurnedLeft(f[k - 1])]
                 /\ RotateLeft(a, c, n) = f[n]
    <2>1. \E f : f = [k \in 0 .. n |-> IF k = 0 THEN o ELSE TurnedLeft(f[k - 1])]
      BY LeftExists
    <2> QED BY <2>1 DEF RotateLeft
  <1>2. o \in Outcomes
    BY DEF Outcome, Outcomes
  <1> HIDE DEF o
  <1>3. f[0] = o /\ \A k \in 1 .. n : f[k] = TurnedLeft(f[k - 1])
    BY <1>1
  <1> DEFINE S == {k \in Nat : k <= n => f[k] \in Outcomes}
  <1>4. 0 \in S
    BY <1>2, <1>3
  <1>5. ASSUME NEW k \in Nat, k \in S PROVE k + 1 \in S
    <2>1. k + 1 <= n => f[k + 1] = TurnedLeft(f[k]) /\ f[k] \in Outcomes
      BY <1>3, <1>5
    <2> QED BY <2>1, TurnedTyped
  <1>6. ASSUME NEW k \in 0 .. n PROVE f[k] \in Outcomes
    <2> HIDE DEF S
    <2>1. k \in S
      BY <1>4, <1>5, SetInduction
    <2> QED BY <2>1 DEF S
  <1>7. DOMAIN f = 0 .. n /\ f = [k \in 0 .. n |-> f[k]]
    BY <1>1
  <1>8. f \in [0 .. n -> Outcomes]
    BY <1>6, <1>7
  <1> QED BY <1>1, <1>3, <1>8 DEF o
LEMMA RightExists ==
    ASSUME NEW o, NEW n \in Nat
    PROVE  \E f : f = [k \in 0 .. n |-> IF k = 0 THEN o ELSE TurnedRight(f[k - 1])]
  <1> DEFINE S == {m \in Nat : \E f : f = [k \in 0 .. m |-> IF k = 0 THEN o
                                                        ELSE TurnedRight(f[k - 1])]}
  <1>1. 0 \in S
    <2> DEFINE f == [k \in 0 .. 0 |-> o]
    <2>1. f = [k \in 0 .. 0 |-> IF k = 0 THEN o ELSE TurnedRight(f[k - 1])]
      OBVIOUS
    <2> QED BY <2>1
  <1>2. ASSUME NEW m \in Nat, m \in S PROVE m + 1 \in S
    <2>1. PICK f : f = [k \in 0 .. m |-> IF k = 0 THEN o ELSE TurnedRight(f[k - 1])]
      BY <1>2
    <2> DEFINE g == [k \in 0 .. m + 1 |-> IF k = m + 1 THEN TurnedRight(f[m]) ELSE f[k]]
    <2>2. ASSUME NEW k \in 0 .. m + 1
          PROVE  g[k] = IF k = 0 THEN o ELSE TurnedRight(g[k - 1])
      BY <2>1
    <2>3. g = [k \in 0 .. m + 1 |-> IF k = 0 THEN o ELSE TurnedRight(g[k - 1])]
      BY <2>2
    <2> HIDE DEF g
    <2> QED BY <2>3
  <1> HIDE DEF S
  <1>3. n \in S
    BY <1>1, <1>2, SetInduction
  <1> QED BY <1>3 DEF S

LEMMA RightTurns ==
    ASSUME NEW a \in 0 .. Top, NEW c \in BOOLEAN, NEW n \in Nat
    PROVE  \E f : /\ RotateRight(a, c, n) = f[n]
                  /\ f \in [0 .. n -> Outcomes]
                  /\ f[0] = Outcome(a, c, FALSE)
                  /\ \A k \in 1 .. n : f[k] = TurnedRight(f[k - 1])
  <1> DEFINE o == Outcome(a, c, FALSE)
  <1>1. PICK f : /\ f = [k \in 0 .. n |-> IF k = 0 THEN o ELSE TurnedRight(f[k - 1])]
                 /\ RotateRight(a, c, n) = f[n]
    <2>1. \E f : f = [k \in 0 .. n |-> IF k = 0 THEN o ELSE TurnedRight(f[k - 1])]
      BY RightExists
    <2> QED BY <2>1 DEF RotateRight
  <1>2. o \in Outcomes
    BY DEF Outcome, Outcomes
  <1> HIDE DEF o
  <1>3. f[0] = o /\ \A k \in 1 .. n : f[k] = TurnedRight(f[k - 1])
    BY <1>1
  <1> DEFINE S == {k \in Nat : k <= n => f[k] \in Outcomes}
  <1>4. 0 \in S
    BY <1>2, <1>3
  <1>5. ASSUME NEW k \in Nat, k \in S PROVE k + 1 \in S
    <2>1. k + 1 <= n => f[k + 1] = TurnedRight(f[k]) /\ f[k] \in Outcomes
      BY <1>3, <1>5
    <2> QED BY <2>1, TurnedTyped
  <1>6. ASSUME NEW k \in 0 .. n PROVE f[k] \in Outcomes
    <2> HIDE DEF S
    <2>1. k \in S
      BY <1>4, <1>5, SetInduction
    <2> QED BY <2>1 DEF S
  <1>7. DOMAIN f = 0 .. n /\ f = [k \in 0 .. n |-> f[k]]
    BY <1>1
  <1>8. f \in [0 .. n -> Outcomes]
    BY <1>6, <1>7
  <1> QED BY <1>1, <1>3, <1>8 DEF o

LEMMA SharedBuilt ==
    ASSUME NEW a \in 0 .. Top, NEW b \in 0 .. Top
    PROVE  \E f \in [0 .. WordBits -> Int] :
              /\ f[0] = 0
              /\ \A k \in 1 .. WordBits :
                    f[k] = f[k - 1] + 2 ^ (k - 1) * ((a \div 2 ^ (k - 1)) % 2)
                                                  * ((b \div 2 ^ (k - 1)) % 2)
              /\ Shared(a, b) = f[WordBits]
  <1> DEFINE part(k) == 2 ^ (k - 1) * ((a \div 2 ^ (k - 1)) % 2) * ((b \div 2 ^ (k - 1)) % 2)
             S == {m \in Nat : \E f : f = [k \in 0 .. m |-> IF k = 0 THEN 0
                                                        ELSE f[k - 1] + part(k)]}
  <1>1. ASSUME NEW k \in Nat \ {0} PROVE part(k) \in Int
    <2> DEFINE p == 2 ^ (k - 1)
    <2>1. p \in Nat \ {0}
      BY PowerDoubles
    <2>2. a \in Nat /\ b \in Nat
      BY WordHalved DEF Top
    <2> HIDE DEF p
    <2>3. (a \div p) % 2 \in Int /\ (b \div p) % 2 \in Int
      BY <2>1, <2>2
    <2>4. p * ((a \div p) % 2) * ((b \div p) % 2) \in Int
      BY <2>1, <2>3
    <2> QED BY <2>4 DEF p
  <1>2. 0 \in S
    <2> HIDE DEF part
    <2> DEFINE f == [k \in 0 .. 0 |-> 0]
    <2>1. f = [k \in 0 .. 0 |-> IF k = 0 THEN 0 ELSE f[k - 1] + part(k)]
      OBVIOUS
    <2> QED BY <2>1
  <1>3. ASSUME NEW m \in Nat, m \in S PROVE m + 1 \in S
    <2> HIDE DEF part
    <2>1. PICK f : f = [k \in 0 .. m |-> IF k = 0 THEN 0 ELSE f[k - 1] + part(k)]
      BY <1>3
    <2> DEFINE g == [k \in 0 .. m + 1 |-> IF k = m + 1 THEN f[m] + part(k) ELSE f[k]]
    <2>2. ASSUME NEW k \in 0 .. m + 1
          PROVE  g[k] = IF k = 0 THEN 0 ELSE g[k - 1] + part(k)
      BY <2>1
    <2>3. g = [k \in 0 .. m + 1 |-> IF k = 0 THEN 0 ELSE g[k - 1] + part(k)]
      BY <2>2
    <2> HIDE DEF g
    <2> QED BY <2>3
  <1>4. WordBits \in Nat
    BY ProcessorAssumption DEF WordBits
  <1>5. \E f : f = [k \in 0 .. WordBits |-> IF k = 0 THEN 0 ELSE f[k - 1] + part(k)]
    <2> HIDE DEF S
    <2>1. WordBits \in S
      BY <1>2, <1>3, <1>4, SetInduction
    <2> QED BY <2>1 DEF S
  <1>6. PICK f : /\ f = [k \in 0 .. WordBits |-> IF k = 0 THEN 0 ELSE f[k - 1] + part(k)]
                 /\ Shared(a, b) = f[WordBits]
    BY <1>5 DEF Shared
  <1> HIDE DEF part, S
  <1> DEFINE V == {k \in Nat : k <= WordBits => f[k] \in Int}
  <1>7. 0 \in V
    BY <1>4, <1>6
  <1>8. ASSUME NEW k \in Nat, k \in V PROVE k + 1 \in V
    <2>1. k + 1 <= WordBits => f[k + 1] = f[k] + part(k + 1) /\ f[k] \in Int
      BY <1>4, <1>6, <1>8
    <2> QED BY <2>1, <1>1
  <1> HIDE DEF V
  <1>9. ASSUME NEW k \in 0 .. WordBits PROVE f[k] \in Int
    <2>1. k \in Nat /\ k <= WordBits
      BY <1>4
    <2>2. k \in V
      BY <1>7, <1>8, <2>1, SetInduction
    <2> QED BY <2>1, <2>2 DEF V
  <1>10. DOMAIN f = 0 .. WordBits /\ f = [k \in 0 .. WordBits |-> f[k]]
    BY <1>6
  <1>11. f \in [0 .. WordBits -> Int]
    BY <1>9, <1>10
  <1>12. f[0] = 0 /\ \A k \in 1 .. WordBits : f[k] = f[k - 1] + part(k)
    BY <1>4, <1>6
  <1> QED BY <1>6, <1>11, <1>12 DEF part

LEMMA SharedTyped ==
    ASSUME NEW a \in 0 .. Top, NEW b \in 0 .. Top
    PROVE  Shared(a, b) \in Int
  <1>1. WordBits \in 0 .. WordBits
    BY ProcessorAssumption DEF WordBits
  <1> QED BY <1>1, SharedBuilt

-----------------------------------------------------------------------------
(* Types of what the instructions are built from. *)

RegistersTyped(regs) ==
    /\ regs \in [Registers -> Nat]
    /\ \A r \in Registers : regs[r] < Span(Size(r))

MemoryTyped(m) == \A a \in DOMAIN m : a \in 0 .. Top /\ m[a] \in 0 .. ByteSize - 1

Operand == [value : 0 .. Top, length : Nat]

LEMMA InWord ==
    ASSUME NEW regs, RegistersTyped(regs), NEW r \in Registers
    PROVE  regs[r] \in 0 .. Top
  BY Sizes, WordHalved DEF RegistersTyped, Top

LEMMA PutTyped ==
    ASSUME NEW regs, RegistersTyped(regs), NEW r \in Registers, NEW v \in Int
    PROVE  RegistersTyped(Put(regs, r, v))
  <1>1. Span(Size(r)) \in Nat \ {0}
    BY Sizes, SpanOrder
  <1>2. v % Span(Size(r)) \in Nat /\ v % Span(Size(r)) < Span(Size(r))
    BY <1>1
  <1> QED BY <1>2 DEF Put, RegistersTyped

LEMMA ExtendTyped ==
    ASSUME NEW v \in 0 .. Top, NEW n \in {1, 2}
    PROVE  Extend(v, n) \in 0 .. Top
  <1>1. Span(n) \in Nat \ {0} /\ Span(n) <= WordSize /\ WordSize \in Nat
    BY Spans, SpanOrder
  <1>2. v % Span(n) \in 0 .. Span(n) - 1
    BY <1>1, WordHalved DEF Top
  <1> QED BY <1>1, <1>2 DEF Extend, Top

LEMMA OffsetTyped ==
    ASSUME RegistersTyped(register), programCounter \in 0 .. Top,
           NEW base \in 0 .. Top, NEW mode \in Modes \cup {"PC_M_OA"}
    PROVE  Offset(mode, base) \in 0 .. Top
  <1>1. register["OA"] \in 0 .. Top
    BY InWord DEF Registers
  <1> QED BY <1>1, WordHalved DEF Offset, Modes, Top

LEMMA FromRegistersTyped ==
    ASSUME RegistersTyped(register), NEW length \in Nat
    PROVE  FromRegisters(length) \subseteq Operand
  <1>1. \A r \in Selected : register[r] \in 0 .. Top
    BY InWord, ProcessorAssumption
  <1> QED BY <1>1 DEF FromRegisters, Operand

LEMMA ImmediatesTyped == Immediates \subseteq Operand /\ Unextended \subseteq Immediates
  <1>1. Words \subseteq 0 .. Top /\ Halves \subseteq 0 .. Top /\ Bytes \subseteq 0 .. Top
    BY ProcessorAssumption, SpanOrder DEF Top
  <1>2. Unextended \subseteq Operand
    BY <1>1 DEF Unextended, Operand
  <1>3. Extended \subseteq Operand
    <2>1. \A v \in Halves : Extend(v, 2) \in 0 .. Top
      BY <1>1, ExtendTyped
    <2>2. \A v \in Bytes : Extend(v, 1) \in 0 .. Top
      BY <1>1, ExtendTyped
    <2> QED BY <2>1, <2>2 DEF Extended, Operand
  <1> QED BY <1>2, <1>3 DEF Immediates

LEMMA PointersTyped ==
    ASSUME RegistersTyped(register)
    PROVE  Pointers \subseteq Operand
  <1>1. Words \subseteq 0 .. Top
    BY ProcessorAssumption
  <1>2. FromRegisters(2) \subseteq Operand
    BY FromRegistersTyped
  <1> QED BY <1>1, <1>2 DEF Pointers, Operand

LEMMA FetchTyped ==
    ASSUME programCounter \in 0 .. Top, NEW length \in Nat
    PROVE  (programCounter + length) % WordSize \in 0 .. Top
  BY WordHalved DEF Top

LEMMA FlagsTyped ==
    ASSUME NEW z \in BOOLEAN, NEW n \in BOOLEAN, NEW c \in BOOLEAN, NEW v \in BOOLEAN
    PROVE  Flags(z, n, c, v) \in 0 .. 15
  BY DEF Flags

LEMMA ByteTyped ==
    ASSUME NEW m, MemoryTyped(m), NEW a \in Int
    PROVE  Byte(m, a) \in 0 .. ByteSize - 1
  BY ByteLarge DEF Byte, MemoryTyped

(* n bytes make a number below Span(n). *)
LEMMA AssembleTyped ==
    ASSUME NEW m, MemoryTyped(m), NEW a \in Int, NEW n \in 0 .. 4
    PROVE  Assemble(m, a, n) \in 0 .. Span(n) - 1
  <1>1. \A k \in 0 .. 3 : Byte(m, a + k) \in 0 .. ByteSize - 1
    BY ByteTyped
  <1> DEFINE b0 == Byte(m, a + 0)
             b1 == Byte(m, a + 1)
             b2 == Byte(m, a + 2)
             b3 == Byte(m, a + 3)
             t2 == Span(2) * b2
             t3 == Span(3) * b3
             t1 == ByteSize * b1
  <1>2. b0 \in 0 .. ByteSize - 1 /\ b1 \in 0 .. ByteSize - 1 /\ b2 \in 0 .. ByteSize - 1
        /\ b3 \in 0 .. ByteSize - 1
    BY <1>1
  <1>3. Assemble(m, a, n) = (IF 0 < n THEN b0 ELSE 0) + (IF 1 < n THEN t1 ELSE 0)
                             + (IF 2 < n THEN t2 ELSE 0) + (IF 3 < n THEN t3 ELSE 0)
    <2>1. Span(0) * b0 = b0
      BY <1>2, Spans
    <2> QED BY <2>1, Spans DEF Assemble
  <1> HIDE DEF b0, b1, b2, b3
  <1>4. t1 \in Nat /\ t1 + ByteSize <= Span(2)
    BY <1>2, Spans, ByteLarge
  <1>5. t2 \in Nat /\ t2 + Span(2) <= Span(3)
    BY <1>2, Spans, ByteLarge
  <1>6. t3 \in Nat /\ t3 + Span(3) <= Span(4)
    BY <1>2, Spans, ByteLarge
  <1> HIDE DEF t1, t2, t3
  <1> QED BY <1>2, <1>3, <1>4, <1>5, <1>6, Spans, SpanOrder

LEMMA ReadsTyped ==
    ASSUME MemoryTyped(memory), NEW a \in 0 .. Top, NEW n \in {1, 2, 4}
    PROVE  Reads(a, n) \subseteq 0 .. Top
  <1> DEFINE inside == Least(n, WordSize - a)
  <1>1. inside \in 0 .. 4 /\ (inside < n => inside \in 0 .. 3) /\ a \in Int
    BY WordHalved DEF Least, Top
  <1>2. Assemble(memory, a, inside) \in 0 .. Span(inside) - 1
    <2> HIDE DEF inside
    <2> QED BY <1>1, AssembleTyped
  <1>3. \A v \in Reads(a, n) : \E junk \in {0, 1} : /\ inside < n \/ junk = 0
                                 /\ v = Assemble(memory, a, inside) + Span(inside) * junk
    BY DEF Reads
  <1> HIDE DEF inside
  <1>4. Span(inside) \in Nat /\ Span(inside) <= WordSize
        /\ (inside < n => 2 * Span(inside) <= WordSize)
    BY <1>1, Spans, SpanOrder
  <1> QED BY <1>2, <1>3, <1>4, WordHalved DEF Top

LEMMA WrittenTyped ==
    ASSUME MemoryTyped(memory), NEW a \in 0 .. Top, NEW n \in {1, 2, 4}, NEW v \in Nat,
           a + n - 1 <= Top
    PROVE  MemoryTyped(Written(a, n, v))
  <1>1. ASSUME NEW i \in a .. a + n - 1
        PROVE  i \in 0 .. Top /\ (v \div Span(i - a)) % ByteSize \in 0 .. ByteSize - 1
    <2>1. i - a \in 0 .. 3 /\ i \in 0 .. Top
      BY WordHalved DEF Top
    <2>2. Span(i - a) \in Nat \ {0}
      BY <2>1, SpanGrows
    <2>3. v \div Span(i - a) \in Int
      BY <2>2
    <2> QED BY <2>1, <2>3, ByteLarge
  <1> DEFINE w == Written(a, n, v)
  <1>2. DOMAIN w = DOMAIN memory \cup (a .. a + n - 1)
    BY DEF Written
  <1>3. \A i \in DOMAIN w : w[i] = IF i \in a .. a + n - 1
                                THEN (v \div Span(i - a)) % ByteSize ELSE memory[i]
    BY DEF Written
  <1> HIDE DEF w
  <1>4. MemoryTyped(w)
    BY <1>1, <1>2, <1>3 DEF MemoryTyped
  <1> QED BY <1>4 DEF w

Calculations == {"ADD", "SUB", "MUL", "DIV", "MOD", "AND", "OR", "XOR",
                 "BSLT", "BSRT", "BSLC", "BSRC"}

LEMMA CalculatedTyped ==
    ASSUME RegistersTyped(register), NEW op \in Calculations,
           NEW a \in 0 .. Top, NEW b \in 0 .. Top, op \in {"DIV", "MOD"} => b # 0
    PROVE  /\ Calculated(op, a, b).value \in Int
           /\ Calculated(op, a, b).carry \in BOOLEAN
           /\ Calculated(op, a, b).overflow \in BOOLEAN
  <1>1. /\ a \in Nat /\ b \in Nat /\ WordSize \in Nat \ {0} /\ SignBit \in Nat \ {0}
        /\ a < WordSize /\ b < WordSize
    BY WordHalved DEF Top
  <1>2. WordBits \in Nat \ {0} /\ b % WordBits \in 0 .. WordBits - 1
    BY <1>1, ProcessorAssumption DEF WordBits
  <1>3. Negated(b) \in Nat
    BY <1>1 DEF Negated
  <1>4. CASE op \in {"ADD", "SUB"}
    <2>1. ASSUME NEW c \in Nat
          PROVE  /\ Sum(a, c).value \in Int /\ Sum(a, c).carry \in BOOLEAN
                 /\ Sum(a, c).overflow \in BOOLEAN
      BY <1>1 DEF Sum, Outcome
    <2> QED BY <1>1, <1>3, <1>4, <2>1 DEF Calculated
  <1>5. CASE op = "MUL"
    <2>1. Signed(b) \in Int
      BY <1>1 DEF Signed
    <2>2. (a * Signed(b)) % WordSize \in Int
      BY <1>1, <2>1
    <2> QED BY <1>5, <2>2 DEF Calculated, Product, Outcome
  <1>6. CASE op \in {"DIV", "MOD"}
    <2>1. a \div b \in Int
      BY <1>1, <1>6
    <2>2. a - (a \div b) * b \in Int
      BY <1>1, <2>1
    <2> QED BY <1>6, <2>1, <2>2 DEF Calculated, Outcome
  <1>7. CASE op \in {"AND", "OR", "XOR"}
    <2>1. Shared(a, b) \in Int
      BY SharedTyped
    <2>2. a + b - Shared(a, b) \in Int /\ a + b - 2 * Shared(a, b) \in Int
      BY <1>1, <2>1
    <2> QED BY <1>7, <2>1, <2>2 DEF Calculated, Outcome
  <1>8. CASE op \in {"BSLT", "BSRT"}
    <2> DEFINE n == b % WordBits
    <2>1. n \in Nat /\ WordBits - n \in Nat
      BY <1>2
    <2>2. 2 ^ n \in Nat \ {0} /\ 2 ^ (WordBits - n) \in Nat \ {0}
      BY <2>1, PowerDoubles
    <2>3. (a % (2 ^ (WordBits - n))) * 2 ^ n \in Int /\ a \div (2 ^ n) \in Int
      BY <1>1, <2>2
    <2> HIDE DEF n
    <2> QED BY <1>8, <2>3 DEF Calculated, ShiftLeft, ShiftRight, Outcome, n
  <1>9. CASE op \in {"BSLC", "BSRC"}
    <2> DEFINE n == b % WordBits
    <2>0. n \in Nat
      BY <1>2
    <2>1. Carry \in BOOLEAN
      BY DEF Carry
    <2> HIDE DEF n
    <2>2. RotateLeft(a, Carry, n) \in Outcomes
      <3>1. PICK f : RotateLeft(a, Carry, n) = f[n] /\ f \in [0 .. n -> Outcomes]
        BY <2>0, <2>1, LeftTurns
      <3> QED BY <3>1, <2>0
    <2>3. RotateRight(a, Carry, n) \in Outcomes
      <3>1. PICK f : RotateRight(a, Carry, n) = f[n] /\ f \in [0 .. n -> Outcomes]
        BY <2>0, <2>1, RightTurns
      <3> QED BY <3>1, <2>0
    <2>4. \A o \in Outcomes : o.value \in Int /\ o.carry \in BOOLEAN /\ o.overflow \in BOOLEAN
      BY WordHalved DEF Outcomes, Top
    <2> QED BY <1>9, <2>2, <2>3, <2>4 DEF Calculated, n
  <1> QED BY <1>4, <1>5, <1>6, <1>7, <1>8, <1>9 DEF Calculations

LEMMA FlagsOfTyped ==
    ASSUME NEW o, o.value \in Int, o.carry \in BOOLEAN, o.overflow \in BOOLEAN
    PROVE  FlagsOf(o) \in 0 .. 15
  <1>1. (o.value = 0) \in BOOLEAN /\ (o.value >= SignBit) \in BOOLEAN
    OBVIOUS
  <1> QED BY <1>1, FlagsTyped DEF FlagsOf

LEMMA ComparedTyped ==
    ASSUME NEW a \in 0 .. Top, NEW b \in 0 .. Top
    PROVE  Compared(a, b) \in 0 .. 15
  <1>1. /\ a \in Nat /\ b \in Nat /\ WordSize \in Nat \ {0} /\ SignBit \in Nat \ {0}
    BY WordHalved DEF Top
  <1>2. Negated(b) \in Nat
    BY <1>1 DEF Negated
  <1> DEFINE o == Sum(a, Negated(b))
  <1>3. o.value \in Int /\ o.carry \in BOOLEAN /\ o.overflow \in BOOLEAN
    BY <1>1, <1>2 DEF Sum, Outcome
  <1> HIDE DEF o
  <1> QED BY <1>3, FlagsOfTyped DEF Compared, o

LEMMA FloatFlagsTyped ==
    ASSUME NEW overflows
    PROVE  FloatFlags(overflows) \subseteq 0 .. 15
  BY DEF FloatFlags
-----------------------------------------------------------------------------
(* TypeOK is inductive with the registers as functions and with frames that hold  *)
(* no more than was pushed.                                                       *)

Interrupts ==
    {"criticalStack", "emptyPop", "memoryViolation", "invalidInstruction", "divisionByZero"}

Frames == [op : {"push"}, bytes : {1, 2, 4}, value : Nat]

TypeInv ==
    /\ RegistersTyped(register) /\ MemoryTyped(memory)
    /\ programCounter \in 0 .. Top /\ regsel \in Selected
    /\ raised \subseteq Interrupts /\ crashed \in BOOLEAN /\ steps \in 0 .. MaxSteps
    /\ causes \subseteq {"denied", "peeked", "moved", "wrapped", "unbalanced", "overwritten"}
    /\ frames \in Seq(Frames) /\ Len(frames) <= steps
    /\ warnings \in Nat /\ placed \in BOOLEAN

Ready == TypeInv /\ steps < MaxSteps

(* What every instruction leaves. *)
Typed ==
    /\ RegistersTyped(register') /\ MemoryTyped(memory')
    /\ programCounter' \in 0 .. Top /\ regsel' \in Selected
    /\ raised' \subseteq Interrupts /\ crashed' \in BOOLEAN
    /\ steps' \in steps + 1 .. MaxSteps
    /\ last'.op = "push" => last' \in Frames

LEMMA CountedTyped ==
    ASSUME Ready, Counted \/ steps' = steps + 1
    PROVE  steps' \in steps + 1 .. MaxSteps
  BY ProcessorAssumption DEF Ready, TypeInv, Counted

LEMMA StepTyped ==
    ASSUME Ready, NEW length \in Nat, NEW r \in Selected,
           Alone(length, r) \/ Step(length, r)
    PROVE  /\ steps' \in steps + 1 .. MaxSteps
           /\ programCounter' \in 0 .. Top /\ regsel' \in Selected
  BY CountedTyped, FetchTyped DEF Ready, TypeInv, Alone, Step, Fetch

(* An operand that is read out of the registers, or comes with the instruction. *)
LEMMA OperandTyped ==
    ASSUME Ready
    PROVE  /\ \A o \in FromRegisters(2) \cup FromRegisters(3) \cup Immediates \cup Pointers :
                  o.value \in 0 .. Top /\ o.length \in Nat
           /\ \A v \in Words \cup Bytes : v \in 0 .. Top
  <1>1. RegistersTyped(register)
    BY DEF Ready, TypeInv
  <1>2. /\ FromRegisters(2) \subseteq Operand /\ FromRegisters(3) \subseteq Operand
        /\ Immediates \subseteq Operand /\ Pointers \subseteq Operand
    BY <1>1, FromRegistersTyped, ImmediatesTyped, PointersTyped
  <1>3. \A v \in Words \cup Bytes : v \in 0 .. Top
    <2>1. Words \subseteq 0 .. Top /\ Bytes \subseteq 0 .. ByteSize - 1
      BY ProcessorAssumption
    <2>2. ByteSize - 1 <= Top
      BY SpanOrder DEF Top
    <2>3. Bytes \subseteq 0 .. Top
      BY <2>1, <2>2, SpanOrder DEF Top
    <2> QED BY <2>1, <2>3
  <1> QED BY <1>2, <1>3 DEF Operand

LEMMA SelectedTyped ==
    ASSUME Ready
    PROVE  /\ RegistersTyped(register) /\ MemoryTyped(memory) /\ programCounter \in 0 .. Top
           /\ \A r \in Selected : r \in Registers /\ register[r] \in 0 .. Top
           /\ regsel \in Selected /\ raised \subseteq Interrupts /\ crashed \in BOOLEAN
  <1>1. RegistersTyped(register) /\ Selected \subseteq Registers
    BY ProcessorAssumption DEF Ready, TypeInv
  <1> QED BY <1>1, InWord DEF Ready, TypeInv

LEMMA OtherTyped ==
    ASSUME Other
    PROVE  last'.op = "other" /\ last'.op # "push"
  BY DEF Other

LEMMA MoveRegisterTyped == ASSUME Ready, MoveRegister PROVE Typed
  <1>1. PICK r \in Selected, from \in FromRegisters(2) :
            /\ Step(from.length, r)
            /\ register' = Put(register, r, from.value)
            /\ Quiet /\ Other
            /\ UNCHANGED memory
    BY DEF MoveRegister
  <1>2. from.value \in 0 .. Top /\ from.length \in Nat
    BY OperandTyped
  <1>3. RegistersTyped(register')
    BY <1>1, <1>2, PutTyped, SelectedTyped, WordHalved DEF Top
  <1> QED BY <1>1, <1>2, <1>3, StepTyped, SelectedTyped, OtherTyped DEF Typed, Quiet, Interrupts

LEMMA MoveImmediateTyped == ASSUME Ready, MoveImmediate PROVE Typed
  <1>1. PICK r \in Selected, im \in Immediates :
            /\ Alone(im.length, r)
            /\ register' = Put(register, r, im.value)
            /\ Quiet /\ Other
            /\ UNCHANGED memory
    BY DEF MoveImmediate
  <1>2. im.value \in 0 .. Top /\ im.length \in Nat
    BY OperandTyped
  <1>3. RegistersTyped(register')
    BY <1>1, <1>2, PutTyped, SelectedTyped, WordHalved DEF Top
  <1> QED BY <1>1, <1>2, <1>3, StepTyped, SelectedTyped, OtherTyped DEF Typed, Quiet, Interrupts

LEMMA GetAddressTyped == ASSUME Ready, GetAddress PROVE Typed
  <1>1. PICK r \in Selected, mode \in {"PC", "PC_M_OA"}, base \in Pointers :
            /\ Alone(base.length, r)
            /\ register' = Put(register, r, Offset(mode, base.value))
            /\ Quiet /\ Other
            /\ UNCHANGED memory
    BY DEF GetAddress, Pointers
  <1>2. base.value \in 0 .. Top /\ base.length \in Nat
    BY OperandTyped
  <1>3. Offset(mode, base.value) \in 0 .. Top
    BY <1>2, OffsetTyped, SelectedTyped DEF Modes
  <1>4. RegistersTyped(register')
    BY <1>1, <1>3, PutTyped, SelectedTyped, WordHalved DEF Top
  <1> QED BY <1>1, <1>2, <1>4, StepTyped, SelectedTyped, OtherTyped DEF Typed, Quiet, Interrupts

LEMMA ConvertTyped == ASSUME Ready, Convert PROVE Typed
  <1>1. PICK r \in Selected, v \in Words :
            /\ Alone(2, r)
            /\ register' = Put(register, r, v)
            /\ Quiet /\ Other
            /\ UNCHANGED memory
    BY DEF Convert
  <1>2. v \in 0 .. Top
    BY OperandTyped
  <1>3. RegistersTyped(register')
    BY <1>1, <1>2, PutTyped, SelectedTyped, WordHalved DEF Top
  <1> QED BY <1>1, <1>3, StepTyped, SelectedTyped, OtherTyped DEF Typed, Quiet, Interrupts

LEMMA LoadedTyped ==
    ASSUME Ready, NEW r \in Selected, NEW a \in 0 .. Top, NEW n \in {1, 2, 4},
           NEW signed \in BOOLEAN, signed => n < 4, NEW regs \in Loaded(r, a, n)
    PROVE  RegistersTyped(IF signed THEN SignExtended(regs, r, n) ELSE regs)
  <1>1. RegistersTyped(regs)
    <2>1. \A v \in Reads(a, n) : v \in Int
      BY ReadsTyped, SelectedTyped, WordHalved DEF Top
    <2> QED BY <2>1, PutTyped, SelectedTyped DEF Loaded
  <1>2. CASE signed /\ Size(r) = 4
    <2>1. Extend(regs[r], n) \in 0 .. Top
      BY <1>1, <1>2, InWord, ExtendTyped, SelectedTyped
    <2>2. RegistersTyped([regs EXCEPT ![r] = Extend(regs[r], n)])
      BY <1>1, <1>2, <2>1, Sizes, SelectedTyped, WordHalved DEF RegistersTyped, Top
    <2> QED BY <1>2, <2>2 DEF SignExtended
  <1>3. CASE ~ (signed /\ Size(r) = 4)
    BY <1>1, <1>3 DEF SignExtended
  <1> QED BY <1>2, <1>3

LEMMA LoadTyped == ASSUME Ready, Load PROVE Typed
  <1>1. PICK r \in Selected, p \in Pointers, mode \in Modes, n \in {1, 2, 4},
             signed \in BOOLEAN :
            LET a == Offset(mode, p.value) IN
            /\ signed => n < 4
            /\ Alone(p.length, r)
            /\ \E regs \in Loaded(r, a, n) :
                  register' = IF signed THEN SignExtended(regs, r, n) ELSE regs
            /\ raised' = Violation(CanRead(a, n))
            /\ crashed' = (signed /\ SignCrashes(r, n))
            /\ last' = [op |-> "load", address |-> a, bytes |-> n, signed |-> signed]
            /\ UNCHANGED memory
    BY DEF Load
  <1> DEFINE a == Offset(mode, p.value)
  <1>2. a \in 0 .. Top /\ p.length \in Nat
    BY OperandTyped, OffsetTyped, SelectedTyped
  <1> HIDE DEF a
  <1>3. RegistersTyped(register')
    <2>1. PICK regs \in Loaded(r, a, n) :
              register' = IF signed THEN SignExtended(regs, r, n) ELSE regs
      BY <1>1 DEF a
    <2> QED BY <1>1, <1>2, <2>1, LoadedTyped
  <1>4. raised' \subseteq Interrupts /\ crashed' \in BOOLEAN /\ last'.op # "push"
        /\ memory' = memory
    BY <1>1 DEF Violation, Interrupts
  <1>5. steps' \in steps + 1 .. MaxSteps /\ programCounter' \in 0 .. Top /\ regsel' \in Selected
    BY <1>1, <1>2, StepTyped
  <1> QED BY <1>3, <1>4, <1>5, SelectedTyped DEF Typed

LEMMA CanWriteTop ==
    ASSUME NEW a \in 0 .. Top, NEW n \in {1, 2, 4}, CanWrite(a, n), NEW v \in Nat,
           MemoryTyped(memory)
    PROVE  MemoryTyped(Written(a, n, v))
  BY WrittenTyped DEF CanWrite

LEMMA SwapTyped == ASSUME Ready, Swap PROVE Typed
  <1>1. PICK r \in Selected, p \in Pointers, mode \in Modes, n \in {1, 2, 4},
             signed \in BOOLEAN :
            LET a == Offset(mode, p.value) IN
            /\ signed => n < 4
            /\ Alone(p.length, r)
            /\ \E regs \in Loaded(r, a, n) :
                  register' = IF signed THEN SignExtended(regs, r, n) ELSE regs
            /\ \E accepted \in Accepts(a, n) :
                  /\ memory' = IF CanWrite(a, n) /\ accepted
                               THEN Written(a, n, register[r]) ELSE memory
                  /\ last' = [op |-> "swap", address |-> a, bytes |-> n, signed |-> signed,
                              register |-> r, accepted |-> accepted]
            /\ raised' = Violation(CanRead(a, n) /\ CanWrite(a, n))
            /\ crashed' = FALSE
    BY DEF Swap
  <1> DEFINE a == Offset(mode, p.value)
  <1>2. a \in 0 .. Top /\ p.length \in Nat
    BY OperandTyped, OffsetTyped, SelectedTyped
  <1> HIDE DEF a
  <1>3. RegistersTyped(register')
    <2>1. PICK regs \in Loaded(r, a, n) :
              register' = IF signed THEN SignExtended(regs, r, n) ELSE regs
      BY <1>1 DEF a
    <2> QED BY <1>1, <1>2, <2>1, LoadedTyped
  <1>4. raised' \subseteq Interrupts /\ crashed' \in BOOLEAN /\ last'.op # "push"
    <2>1. raised' = Violation(CanRead(a, n) /\ CanWrite(a, n)) /\ crashed' = FALSE
      BY <1>1 DEF a
    <2>2. raised' \subseteq Interrupts
      BY <2>1 DEF Violation, Interrupts
    <2>3. PICK accepted : last' = [op |-> "swap", address |-> a, bytes |-> n,
                                   signed |-> signed, register |-> r, accepted |-> accepted]
      BY <1>1 DEF a
    <2>4. last'.op = "swap"
      BY <2>3
    <2> QED BY <2>1, <2>2, <2>4
  <1>5. MemoryTyped(memory')
    <2>1. \/ memory' = memory
          \/ CanWrite(a, n) /\ memory' = Written(a, n, register[r])
      BY <1>1 DEF a
    <2>2. register[r] \in Nat
      BY SelectedTyped DEF RegistersTyped
    <2> QED BY <1>2, <2>1, <2>2, CanWriteTop, SelectedTyped
  <1>6. steps' \in steps + 1 .. MaxSteps /\ programCounter' \in 0 .. Top /\ regsel' \in Selected
    BY <1>1, <1>2, StepTyped
  <1> QED BY <1>3, <1>4, <1>5, <1>6 DEF Typed

LEMMA StoreTyped == ASSUME Ready, Store PROVE Typed
  <1>1. PICK r \in Selected, p \in Pointers, mode \in Modes, n \in {1, 2, 4} :
            LET a == Offset(mode, p.value) IN
            /\ Alone(p.length, r)
            /\ \E accepted \in Accepts(a, n) :
                  memory' = IF CanWrite(a, n) /\ accepted
                            THEN Written(a, n, register[r]) ELSE memory
            /\ raised' = Violation(CanWrite(a, n))
            /\ last' = [op |-> "store", address |-> a, bytes |-> n, signed |-> FALSE]
            /\ UNCHANGED <<register, crashed>>
    BY DEF Store
  <1> DEFINE a == Offset(mode, p.value)
  <1>2. a \in 0 .. Top /\ p.length \in Nat
    BY OperandTyped, OffsetTyped, SelectedTyped
  <1> HIDE DEF a
  <1>3. raised' \subseteq Interrupts /\ last'.op # "push" /\ UNCHANGED <<register, crashed>>
    BY <1>1 DEF Violation, Interrupts
  <1>4. MemoryTyped(memory')
    <2>1. \/ memory' = memory
          \/ CanWrite(a, n) /\ memory' = Written(a, n, register[r])
      BY <1>1 DEF a
    <2>2. register[r] \in Nat
      BY SelectedTyped DEF RegistersTyped
    <2> QED BY <1>2, <2>1, <2>2, CanWriteTop, SelectedTyped
  <1>5. steps' \in steps + 1 .. MaxSteps /\ programCounter' \in 0 .. Top /\ regsel' \in Selected
    BY <1>1, <1>2, StepTyped
  <1> QED BY <1>3, <1>4, <1>5, SelectedTyped DEF Typed

LEMMA ComputeTyped ==
    ASSUME Ready, NEW op \in Calculations, NEW d \in Selected, NEW a \in 0 .. Top,
           NEW b \in 0 .. Top, NEW length \in Nat, Compute(op, d, a, b, length)
    PROVE  Typed
  <1>1. RegistersTyped(register') /\ raised' \subseteq Interrupts
    <2>1. CASE op \in {"DIV", "MOD"} /\ b = 0
      BY <2>1, SelectedTyped DEF Compute, Interrupts
    <2>2. CASE ~ (op \in {"DIV", "MOD"} /\ b = 0)
      <3> DEFINE o == Calculated(op, a, b)
      <3>1. o.value \in Int /\ o.carry \in BOOLEAN /\ o.overflow \in BOOLEAN
        BY <2>2, CalculatedTyped, SelectedTyped
      <3>2. register' = Put(Put(register, d, o.value), "FL", FlagsOf(o)) /\ raised' = {}
        BY <2>2 DEF Compute
      <3> HIDE DEF o
      <3>3. RegistersTyped(Put(register, d, o.value))
        BY <3>1, PutTyped, SelectedTyped
      <3>4. FlagsOf(o) \in Int /\ "FL" \in Registers
        BY <3>1, FlagsOfTyped DEF Registers
      <3>5. RegistersTyped(register')
        BY <3>2, <3>3, <3>4, PutTyped
      <3> QED BY <3>2, <3>5
    <2> QED BY <2>1, <2>2
  <1>2. last'.op = op /\ op # "push" /\ UNCHANGED <<memory, crashed>>
    BY DEF Compute, Calculations
  <1>3. steps' \in steps + 1 .. MaxSteps /\ programCounter' \in 0 .. Top /\ regsel' \in Selected
    BY StepTyped DEF Compute
  <1> QED BY <1>1, <1>2, <1>3, SelectedTyped DEF Typed

LEMMA OperandsTyped ==
    ASSUME Ready, NEW op \in Calculations, NEW b \in Operands(op)
    PROVE  b.value \in 0 .. Top /\ b.length \in Nat
  <1>1. \/ b \in FromRegisters(3) \/ b \in Immediates
        \/ \E v \in Bytes : b = [value |-> v, length |-> 3]
    BY ImmediatesTyped DEF Operands, Calculations
  <1> QED BY <1>1, OperandTyped

(* The instructions of doMath, of any of its operations. *)
LEMMA ArithmeticTyped ==
    ASSUME Ready, NEW ops, ops \subseteq Calculations, Arithmetic(ops)
    PROVE  Typed
  <1>0. PICK op \in ops : \E d, s \in Selected, b \in Operands(op) :
            Compute(op, d, register[s], b.value, b.length)
    BY DEF Arithmetic
  <1>1. PICK d, s \in Selected, b \in Operands(op) :
            Compute(op, d, register[s], b.value, b.length)
    BY <1>0
  <1>2. op \in Calculations /\ register[s] \in 0 .. Top
    BY SelectedTyped
  <1>3. b.value \in 0 .. Top /\ b.length \in Nat
    BY <1>2, OperandsTyped
  <1> QED BY <1>1, <1>2, <1>3, ComputeTyped

LEMMA NotRegisterTyped == ASSUME Ready, NotRegister PROVE Typed
  <1>1. PICK d, s \in Selected : Compute("BSRC", d, register[s], 0, 2)
    BY DEF NotRegister
  <1>2. register[s] \in 0 .. Top /\ 0 \in 0 .. Top
    BY SelectedTyped, WordHalved DEF Top
  <1> QED BY <1>1, <1>2, ComputeTyped DEF Calculations

(* A result and its flags. *)
LEMMA TwiceTyped ==
    ASSUME Ready, NEW d \in Selected, NEW v \in Nat, NEW f \in 0 .. 15
    PROVE  /\ RegistersTyped(Put(Put(register, d, v), "FL", f))
           /\ RegistersTyped(Put(Put(register, "FL", f), d, v))
           /\ RegistersTyped(Put(register, "FL", f))
  <1>1. "FL" \in Registers /\ d \in Registers /\ v \in Int /\ f \in Int
    BY SelectedTyped DEF Registers
  <1>2. RegistersTyped(Put(register, d, v)) /\ RegistersTyped(Put(register, "FL", f))
    BY <1>1, PutTyped, SelectedTyped
  <1> QED BY <1>1, <1>2, PutTyped

LEMMA FloatArithmeticTyped == ASSUME Ready, FloatArithmetic PROVE Typed
  <1>1. PICK op \in {"ADD", "SUB", "MUL", "DIV"}, d \in Selected, b, v \in Words,
             im \in BOOLEAN :
            /\ Alone(IF im /\ op = "ADD" THEN 6 ELSE 3, d)
            /\ IF op = "DIV" /\ b = 0
               THEN raised' = {"divisionByZero"} /\ UNCHANGED register
               ELSE /\ \E f \in FloatFlags(IF op = "SUB" THEN BOOLEAN ELSE {FALSE}) :
                          register' = Put(Put(register, d, v), "FL", f)
                    /\ raised' = {}
            /\ Other
            /\ UNCHANGED <<memory, crashed>>
    BY DEF FloatArithmetic
  <1>2. v \in Nat
    BY OperandTyped, WordHalved DEF Top
  <1>3. RegistersTyped(register') /\ raised' \subseteq Interrupts
    BY <1>1, <1>2, TwiceTyped, FloatFlagsTyped, SelectedTyped DEF Interrupts
  <1>4. steps' \in steps + 1 .. MaxSteps /\ programCounter' \in 0 .. Top /\ regsel' \in Selected
    BY <1>1, StepTyped
  <1> QED BY <1>1, <1>3, <1>4, OtherTyped, SelectedTyped DEF Typed

LEMMA CompareTyped == ASSUME Ready, Compare PROVE Typed
  <1>1. PICK s \in Selected, b \in FromRegisters(2) \cup Immediates :
            /\ Alone(b.length, s)
            /\ register' = Put(register, "FL", Compared(register[s], b.value))
            /\ last' = [op |-> "compare", a |-> register[s], b |-> b.value]
            /\ Quiet
            /\ UNCHANGED memory
    BY DEF Compare
  <1>2. b.value \in 0 .. Top /\ b.length \in Nat /\ register[s] \in 0 .. Top
    BY OperandTyped, SelectedTyped
  <1>3. RegistersTyped(register')
    BY <1>1, <1>2, ComparedTyped, TwiceTyped
  <1>4. last'.op # "push" /\ raised' \subseteq Interrupts /\ UNCHANGED <<memory, crashed>>
    BY <1>1 DEF Quiet, Interrupts
  <1> QED BY <1>1, <1>2, <1>3, <1>4, StepTyped, SelectedTyped DEF Typed

LEMMA FloatCompareTyped == ASSUME Ready, FloatCompare PROVE Typed
  <1>1. PICK s \in Selected, length \in {2, 6}, f \in FloatFlags(BOOLEAN) :
            /\ Alone(length, s)
            /\ register' = Put(register, "FL", f)
            /\ Quiet /\ Other
            /\ UNCHANGED memory
    BY DEF FloatCompare
  <1>2. RegistersTyped(register')
    BY <1>1, TwiceTyped, FloatFlagsTyped
  <1> QED BY <1>1, <1>2, StepTyped, SelectedTyped, OtherTyped DEF Typed, Quiet, Interrupts

LEMMA UnknownTyped == \A code : Unknown(code) \subseteq Interrupts
  BY DEF Unknown, Interrupts

LEMMA EvalTyped == ASSUME Ready, Eval PROVE Typed
  <1>1. PICK d, s \in Selected, code \in Codes,
             b \in FromRegisters(3) \cup {[i EXCEPT !.length = @ + 1] : i \in Immediates} :
            LET flags == Compared(register[s], b.value)
                truth == IF code \in Conditions(flags) THEN 1 ELSE 0
            IN  /\ Alone(b.length, d)
                /\ register' = Put(Put(register, "FL", flags), d, truth)
                /\ raised' = Unknown(code)
                /\ last' = [op |-> "eval", a |-> register[s], b |-> b.value, code |-> code,
                            truth |-> truth = 1]
                /\ UNCHANGED <<memory, crashed>>
    BY DEF Eval
  <1>2. b.value \in 0 .. Top /\ b.length \in Nat /\ register[s] \in 0 .. Top
    <2>1. \A i \in Immediates : i \in Operand
      BY ImmediatesTyped
    <2>2. b \in Operand
      BY <2>1, FromRegistersTyped, SelectedTyped DEF Operand
    <2> QED BY <2>2, SelectedTyped DEF Operand
  <1> DEFINE flags == Compared(register[s], b.value)
             truth == IF code \in Conditions(flags) THEN 1 ELSE 0
  <1>3. flags \in 0 .. 15
    BY <1>2, ComparedTyped
  <1>4. truth \in Nat
    OBVIOUS
  <1>5. register' = Put(Put(register, "FL", flags), d, truth)
    BY <1>1
  <1>6. last' = [op |-> "eval", a |-> register[s], b |-> b.value, code |-> code,
                 truth |-> truth = 1]
    BY <1>1
  <1> HIDE DEF flags, truth
  <1>7. RegistersTyped(register')
    BY <1>3, <1>4, <1>5, TwiceTyped
  <1>8. last'.op # "push"
    BY <1>6
  <1> QED BY <1>1, <1>2, <1>7, <1>8, UnknownTyped, StepTyped, SelectedTyped DEF Typed

LEMMA FloatEvalTyped == ASSUME Ready, FloatEval PROVE Typed
  <1>1. PICK d \in Selected, code \in Codes, length \in {3, 7}, f \in FloatFlags(BOOLEAN) :
            /\ Alone(length, d)
            /\ register' = Put(Put(register, "FL", f), d, IF code \in Conditions(f) THEN 1 ELSE 0)
            /\ raised' = Unknown(code) /\ Other
            /\ UNCHANGED <<memory, crashed>>
    BY DEF FloatEval
  <1>2. RegistersTyped(register')
    BY <1>1, TwiceTyped, FloatFlagsTyped
  <1> QED BY <1>1, <1>2, UnknownTyped, StepTyped, SelectedTyped, OtherTyped DEF Typed

LEMMA CodeRegisterTyped == \A code : CodeRegister(code) \in Selected
  BY ProcessorAssumption DEF CodeRegister

LEMMA RegisterTargetsTyped ==
    ASSUME NEW regs, RegistersTyped(regs), NEW r \in Selected, NEW mode
    PROVE  RegisterTargets(regs, r, mode) \subseteq 0 .. Top
  <1>1. \A q \in Selected : regs[q] \in 0 .. Top
    BY InWord, ProcessorAssumption
  <1>2. Targets \subseteq 0 .. Top
    BY ProcessorAssumption
  <1> QED BY <1>1, <1>2 DEF RegisterTargets

LEMMA BranchTyped == ASSUME Ready, Branch PROVE Typed
  <1>1. PICK code \in Codes \cap Conditions(register["FL"]), mode \in Modes :
            /\ Counted
            /\ \/ \E r \in Selected : /\ programCounter' \in RegisterTargets(register, r, mode)
                                      /\ regsel' = r
               \/ \E target \in Targets : /\ programCounter' = Offset(mode, target)
                                          /\ regsel' = CodeRegister(code)
            /\ Quiet /\ Other
            /\ UNCHANGED <<register, memory>>
    BY DEF Branch
  <1>2. programCounter' \in 0 .. Top /\ regsel' \in Selected
    <2>1. \A target \in Targets : Offset(mode, target) \in 0 .. Top
      BY OffsetTyped, SelectedTyped, ProcessorAssumption
    <2> QED BY <1>1, <2>1, RegisterTargetsTyped, CodeRegisterTyped, SelectedTyped
  <1>3. steps' \in steps + 1 .. MaxSteps
    BY <1>1, CountedTyped
  <1> QED BY <1>1, <1>2, <1>3, SelectedTyped, OtherTyped DEF Typed, Quiet, Interrupts

LEMMA BranchNotTakenTyped == ASSUME Ready, BranchNotTaken PROVE Typed
  <1>1. PICK code \in Codes \ Conditions(register["FL"]), length \in {2, 6}, r \in Selected :
            /\ Alone(length, IF length = 2 THEN r ELSE CodeRegister(code))
            /\ raised' = Unknown(code) /\ Other
            /\ UNCHANGED <<register, memory, crashed>>
    BY DEF BranchNotTaken
  <1>2. length \in Nat /\ (IF length = 2 THEN r ELSE CodeRegister(code)) \in Selected
    BY CodeRegisterTyped
  <1>3. steps' \in steps + 1 .. MaxSteps /\ programCounter' \in 0 .. Top /\ regsel' \in Selected
    BY <1>1, <1>2, StepTyped
  <1> QED BY <1>1, <1>3, UnknownTyped, SelectedTyped, OtherTyped DEF Typed

LEMMA DebugTyped == ASSUME Ready, Debug PROVE Typed
  <1>1. PICK r \in Selected : Alone(2, r)
    BY DEF Debug
  <1>2. raised' = {"invalidInstruction"} /\ Other /\ UNCHANGED <<register, memory, crashed>>
    BY DEF Debug
  <1> QED BY <1>1, <1>2, StepTyped, SelectedTyped, OtherTyped DEF Typed, Interrupts

LEMMA UndefinedTyped == ASSUME Ready, Undefined PROVE Typed
  BY StepTyped, SelectedTyped, OtherTyped DEF Undefined, Typed, Quiet, Interrupts

LEMMA StackAddressTyped ==
    ASSUME Ready
    PROVE  /\ StackAddress \in 0 .. Top
           /\ \A n \in {1, 2, 4} : TopOfStack(n) \in 0 .. Top
           /\ \A n \in {1, 2, 4} : StackWritable(n) =>
                 /\ StackAddress = register["SB"] + register["SP"]
                 /\ StackAddress + n - 1 <= Top /\ StackAddress >= DdatStart
  <1>1. register["SB"] \in 0 .. Top /\ register["SP"] \in 0 .. Top
    BY SelectedTyped, InWord DEF Registers
  <1>2. StackAddress \in 0 .. Top
    BY <1>1, WordHalved DEF StackAddress, Top
  <1>3. ASSUME NEW n \in {1, 2, 4} PROVE TopOfStack(n) \in 0 .. Top
    BY <1>2, WordHalved DEF TopOfStack, Top
  <1>4. ASSUME NEW n \in {1, 2, 4}, StackWritable(n)
        PROVE  /\ StackAddress = register["SB"] + register["SP"]
               /\ StackAddress + n - 1 <= Top /\ StackAddress >= DdatStart
    BY <1>1, <1>4, WordHalved DEF StackWritable, StackAddress, Top
  <1> QED BY <1>2, <1>3, <1>4

LEMMA MovedTyped ==
    ASSUME NEW regs, RegistersTyped(regs), NEW n \in Int
    PROVE  RegistersTyped(Moved(regs, n))
  <1>1. "SP" \in Registers /\ regs["SP"] + n \in Int
    BY DEF Registers, RegistersTyped
  <1> QED BY <1>1, PutTyped DEF Moved

LEMMA PushedTyped ==
    ASSUME Ready, NEW v \in 0 .. Top, NEW n \in {1, 2, 4}
    PROVE  /\ RegistersTyped(Pushed(v, n).register) /\ MemoryTyped(Pushed(v, n).memory)
           /\ Pushed(v, n).raised \subseteq Interrupts
  <1>1. CASE StackWritable(n)
    <2>1. MemoryTyped(Written(StackAddress, n, v))
      BY <1>1, StackAddressTyped, WrittenTyped, SelectedTyped, WordHalved DEF Top
    <2>2. RegistersTyped(Moved(register, n))
      BY MovedTyped, SelectedTyped
    <2> QED BY <1>1, <2>1, <2>2 DEF Pushed, Warns, Interrupts
  <1>2. CASE ~ StackWritable(n)
    BY <1>2, SelectedTyped DEF Pushed, Interrupts
  <1> QED BY <1>1, <1>2

LEMMA FrameTyped ==
    ASSUME NEW n \in {1, 2, 4}, NEW v \in 0 .. Top
    PROVE  Frame(n, v) \in Frames
  BY WordHalved DEF Frame, Frames, Top

LEMMA PushTyped == ASSUME Ready, Push PROVE Typed
  <1>1. PICK r \in Selected :
        LET p == Pushed(register[r], Size(r)) IN
        /\ Step(2, r)
        /\ register' = p.register /\ memory' = p.memory /\ raised' = p.raised
        /\ last' = IF StackWritable(Size(r)) THEN Frame(Size(r), register[r])
                   ELSE [op |-> "other"]
        /\ UNCHANGED crashed
    BY DEF Push
  <1>2. Size(r) \in {1, 2, 4} /\ register[r] \in 0 .. Top
    BY Sizes, SelectedTyped
  <1>3. last'.op = "push" => last' \in Frames
    BY <1>1, <1>2, FrameTyped
  <1> QED BY <1>1, <1>2, <1>3, PushedTyped, StepTyped, SelectedTyped DEF Typed

LEMMA PopFailsTyped ==
    ASSUME Ready, NEW n, PopFails(n)
    PROVE  RegistersTyped(register') /\ raised' \subseteq Interrupts /\ last'.op # "push"
  BY SelectedTyped, OtherTyped DEF PopFails, Interrupts

LEMMA PopIntoTyped ==
    ASSUME Ready, NEW op \in {"pop", "peek"}, NEW r \in Selected, NEW length \in Nat,
           PopInto(op, r, length)
    PROVE  Typed
  <1>1. Size(r) \in {1, 2, 4} /\ r \in Registers
    BY Sizes, SelectedTyped
  <1>2. RegistersTyped(register') /\ raised' \subseteq Interrupts /\ last'.op # "push"
    <2>1. CASE PopFails(Size(r))
      BY <2>1, PopFailsTyped
    <2>2. CASE /\ \E v \in Reads(TopOfStack(Size(r)), Size(r)) :
                  /\ register' = Put(Moved(register, -Size(r)), r, v)
                  /\ last' = [op |-> op, bytes |-> Size(r), value |-> v, register |-> r]
               /\ raised' = {}
      <3>1. PICK v \in Reads(TopOfStack(Size(r)), Size(r)) :
                  /\ register' = Put(Moved(register, -Size(r)), r, v)
                  /\ last' = [op |-> op, bytes |-> Size(r), value |-> v, register |-> r]
        BY <2>2
      <3>2. v \in Int
        BY <1>1, ReadsTyped, StackAddressTyped, SelectedTyped, WordHalved DEF Top
      <3>3. RegistersTyped(Moved(register, -Size(r)))
        BY <1>1, MovedTyped, SelectedTyped
      <3>4. RegistersTyped(register')
        BY <1>1, <3>1, <3>2, <3>3, PutTyped
      <3>5. last'.op # "push"
        BY <3>1
      <3> QED BY <2>2, <3>4, <3>5
    <2> QED BY <2>1, <2>2 DEF PopInto
  <1>3. steps' \in steps + 1 .. MaxSteps /\ programCounter' \in 0 .. Top /\ regsel' \in Selected
    BY StepTyped DEF PopInto
  <1> QED BY <1>2, <1>3, SelectedTyped DEF Typed, PopInto

LEMMA PopTyped == ASSUME Ready, Pop PROVE Typed
  BY PopIntoTyped DEF Pop

LEMMA PeekTyped == ASSUME Ready, Peek PROVE Typed
  BY PopIntoTyped, SelectedTyped DEF Peek

LEMMA ReturnTyped == ASSUME Ready, Return PROVE Typed
  <1>1. /\ RegistersTyped(register') /\ raised' \subseteq Interrupts /\ last'.op # "push"
        /\ programCounter' \in 0 .. Top
    <2>1. CASE PopFails(4) /\ Fetch(1)
      BY <2>1, PopFailsTyped, FetchTyped, SelectedTyped DEF Fetch
    <2>2. CASE /\ \E v \in Reads(TopOfStack(4), 4) :
                  /\ programCounter' = v
                  /\ last' = [op |-> "pop", bytes |-> 4, value |-> v, register |-> "PC"]
               /\ register' = Moved(register, -4)
               /\ raised' = {}
      <3>1. PICK v \in Reads(TopOfStack(4), 4) :
                  /\ programCounter' = v
                  /\ last' = [op |-> "pop", bytes |-> 4, value |-> v, register |-> "PC"]
        BY <2>2
      <3>2. v \in 0 .. Top
        BY ReadsTyped, StackAddressTyped, SelectedTyped
      <3>3. RegistersTyped(register')
        BY <2>2, MovedTyped, SelectedTyped
      <3> QED BY <2>2, <3>1, <3>2, <3>3
    <2> QED BY <2>1, <2>2 DEF Return
  <1>2. steps' \in steps + 1 .. MaxSteps
    BY CountedTyped DEF Return
  <1> QED BY <1>1, <1>2, SelectedTyped DEF Typed, Return

LEMMA BranchProtectedTyped == ASSUME Ready, BranchProtected PROVE Typed
  <1>1. PICK code \in Codes \cap Conditions(register["FL"]), mode \in Modes, length \in {2, 6} :
        LET back == (programCounter + length) % WordSize
            p == Pushed(back, 4)
        IN  /\ steps' = steps + 1
            /\ register' = p.register /\ memory' = p.memory /\ raised' = p.raised
            /\ IF length = 2
               THEN \E r \in Selected : /\ programCounter' \in RegisterTargets(p.register, r, mode)
                                        /\ regsel' = r
               ELSE \E target \in Targets : /\ programCounter' = Offset(mode, target)
                                          /\ regsel' = CodeRegister(code)
            /\ last' = Frame(4, back)
            /\ UNCHANGED crashed
    BY DEF BranchProtected
  <1> DEFINE back == (programCounter + length) % WordSize
             p == Pushed(back, 4)
  <1>2. back \in 0 .. Top
    BY FetchTyped, SelectedTyped
  <1>3. /\ RegistersTyped(p.register) /\ MemoryTyped(p.memory) /\ p.raised \subseteq Interrupts
        /\ last' \in Frames
    BY <1>1, <1>2, PushedTyped, FrameTyped
  <1>4. /\ register' = p.register /\ memory' = p.memory /\ raised' = p.raised
        /\ crashed' = crashed /\ steps' = steps + 1
    BY <1>1
  <1>5. \/ \E r \in Selected : /\ programCounter' \in RegisterTargets(p.register, r, mode)
                               /\ regsel' = r
        \/ \E target \in Targets : /\ programCounter' = Offset(mode, target)
                                   /\ regsel' = CodeRegister(code)
    BY <1>1
  <1> HIDE DEF back, p
  <1>6. programCounter' \in 0 .. Top /\ regsel' \in Selected
    <2>1. \A target \in Targets : Offset(mode, target) \in 0 .. Top
      BY OffsetTyped, SelectedTyped, ProcessorAssumption
    <2> QED BY <1>3, <1>5, <2>1, RegisterTargetsTyped, CodeRegisterTyped
  <1> QED BY <1>3, <1>4, <1>6, CountedTyped, SelectedTyped DEF Typed

LEMMA InstructionTyped == ASSUME Ready, Instruction PROVE Typed
  <1>1. CASE AddSubtract \/ MultiplyDivide \/ Logic \/ Shift
    BY <1>1, ArithmeticTyped DEF AddSubtract, MultiplyDivide, Logic, Shift, Calculations
  <1> QED BY <1>1, MoveRegisterTyped, MoveImmediateTyped, GetAddressTyped, ConvertTyped,
             LoadTyped, SwapTyped, StoreTyped, NotRegisterTyped, FloatArithmeticTyped,
             CompareTyped, FloatCompareTyped, EvalTyped, FloatEvalTyped, BranchTyped,
             PushTyped, PopTyped, PeekTyped, ReturnTyped, BranchProtectedTyped,
             BranchNotTakenTyped, DebugTyped, UndefinedTyped DEF Instruction

LEMMA ObserveTyped ==
    ASSUME Ready, Typed, Observe
    PROVE  /\ causes' \subseteq {"denied", "peeked", "moved", "wrapped", "unbalanced",
                                "overwritten"}
           /\ frames' \in Seq(Frames) /\ Len(frames') <= Len(frames) + 1
           /\ warnings' \in Nat /\ placed' \in BOOLEAN
  <1>1. frames \in Seq(Frames) /\ warnings \in Nat
    BY DEF Ready, TypeInv
  <1>2. frames' \in Seq(Frames) /\ Len(frames') <= Len(frames) + 1
    <2>1. CASE last'.op = "push"
      <3>1. frames' = <<last'>> \o frames
        BY <2>1 DEF Observe
      <3>2. last' \in Frames
        BY <2>1 DEF Typed
      <3> QED BY <1>1, <3>1, <3>2
    <2>2. CASE last'.op = "pop" /\ frames # << >>
      <3>1. frames' = Tail(frames)
        BY <2>2 DEF Observe
      <3> QED BY <1>1, <2>2, <3>1
    <2>3. CASE last'.op # "push" /\ ~ (last'.op = "pop" /\ frames # << >>)
      <3>1. frames' = frames
        BY <2>3 DEF Observe
      <3> QED BY <1>1, <3>1
    <2> QED BY <2>1, <2>2, <2>3
  <1>3. Why \subseteq {"denied", "peeked", "moved", "wrapped", "unbalanced", "overwritten"}
    BY DEF Why
  <1> QED BY <1>1, <1>2, <1>3 DEF Observe, Ready, TypeInv

LEMMA TypeInvInit == Init => TypeInv
  <1> SUFFICES ASSUME Init PROVE TypeInv
    OBVIOUS
  <1>1. /\ register \in Starts /\ memory = << >> /\ programCounter = DdatEnd + 1
        /\ regsel = "G0" /\ raised = {} /\ crashed \in BOOLEAN /\ steps = 0
        /\ frames = << >> /\ causes = {} /\ warnings = 0 /\ placed \in BOOLEAN
    <2>1. crashed = FALSE
      BY DEF Init
    <2>2. crashed \in BOOLEAN
      BY <2>1
    <2>3. placed \in BOOLEAN
      <3> DEFINE full == register["SP"] + Threshold >= register["SS"]
      <3>1. placed = full
        BY DEF Init
      <3>2. full \in BOOLEAN
        OBVIOUS
      <3> HIDE DEF full
      <3> QED BY <3>1, <3>2
    <2> QED BY <2>2, <2>3 DEF Init
  <1>2. RegistersTyped(register)
    <2>1. register \in [Registers -> 0 .. Top] /\ \A r \in Registers : register[r] < Span(Size(r))
      BY <1>1, ProcessorAssumption
    <2> QED BY <2>1, WordHalved DEF RegistersTyped, Top
  <1>3. MemoryTyped(memory)
    BY <1>1 DEF MemoryTyped
  <1>4. programCounter \in 0 .. Top /\ regsel \in Selected /\ MaxSteps \in Nat
    BY <1>1, ProcessorAssumption, WordHalved DEF Top
  <1>5. frames \in Seq(Frames) /\ Len(frames) = 0
    BY <1>1
  <1>6. /\ raised \subseteq Interrupts
        /\ causes \subseteq {"denied", "peeked", "moved", "wrapped", "unbalanced", "overwritten"}
    BY <1>1
  <1>7. steps \in 0 .. MaxSteps /\ Len(frames) <= steps /\ warnings \in Nat
    BY <1>1, <1>5, ProcessorAssumption
  <1> QED BY <1>1, <1>2, <1>3, <1>4, <1>5, <1>6, <1>7 DEF TypeInv

LEMMA TypeInvNext == TypeInv /\ [Next]_vars => TypeInv'
  <1>1. ASSUME TypeInv, Next PROVE TypeInv'
    <2>1. Ready
      BY <1>1, ProcessorAssumption DEF Ready, Next, TypeInv
    <2>2. Typed
      BY <1>1, <2>1, InstructionTyped DEF Next
    <2>3. Observe
      BY <1>1 DEF Next
    <2>4. steps \in Nat /\ Len(frames) <= steps /\ Len(frames) \in Nat
      BY <1>1 DEF TypeInv
    <2>5. /\ causes' \subseteq {"denied", "peeked", "moved", "wrapped", "unbalanced",
                                "overwritten"}
          /\ frames' \in Seq(Frames) /\ Len(frames') <= Len(frames) + 1
          /\ warnings' \in Nat /\ placed' \in BOOLEAN
      BY <2>1, <2>2, <2>3, ObserveTyped
    <2>6. steps' \in 0 .. MaxSteps /\ Len(frames') <= steps'
      BY <2>2, <2>4, <2>5, ProcessorAssumption DEF Typed
    <2> QED BY <2>2, <2>5, <2>6 DEF Typed, TypeInv, RegistersTyped, MemoryTyped
  <1>2. ASSUME TypeInv, UNCHANGED vars PROVE TypeInv'
    BY <1>2 DEF vars, processor, histories, TypeInv, RegistersTyped, MemoryTyped
  <1> QED BY <1>1, <1>2

LEMMA TypeAlways == Spec => []TypeInv
  BY TypeInvInit, TypeInvNext, PTL DEF Spec

LEMMA TypeInvTypeOK == TypeInv => TypeOK
  <1> SUFFICES ASSUME TypeInv PROVE TypeOK
    OBVIOUS
  <1>1. \A r \in Registers : register[r] \in 0 .. Span(Size(r)) - 1
    BY Sizes DEF TypeInv, RegistersTyped
  <1>2. Len(frames) <= MaxSteps
    BY ProcessorAssumption DEF TypeInv
  <1> QED BY <1>1, <1>2 DEF TypeInv, TypeOK, Interrupts, MemoryTyped

(***************************************************************************)
(* A register never holds more than its width, a byte of the memory and an *)
(* address never more than theirs: for every width of a byte, every memory *)
(* map and operands, and for programs of any instructions (regSize and the *)
(* masks of dgc32.c).                                                      *)
(***************************************************************************)
THEOREM TypeCorrect == Spec => []TypeOK
  BY TypeAlways, TypeInvTypeOK, PTL
-----------------------------------------------------------------------------
(* Every instruction pushes, pops or leaves the stack alone. *)

PushShape ==
    \E n \in {1, 2, 4}, v \in 0 .. Top :
        /\ last' = Frame(n, v) /\ v < Span(n)
        /\ register' = Pushed(v, n).register /\ memory' = Pushed(v, n).memory
        /\ raised' = Pushed(v, n).raised

PopShape ==
    \E n \in {1, 2, 4}, r \in Registers \cup {"PC"} :
        /\ register["SP"] >= n /\ StackReadable(n)
        /\ \E v \in Reads(TopOfStack(n), n) :
              /\ last' = [op |-> "pop", bytes |-> n, value |-> v, register |-> r]
              /\ register' = IF r = "PC" THEN Moved(register, -n)
                             ELSE Put(Moved(register, -n), r, v)
              /\ r = "PC" => programCounter' = v
        /\ raised' = {} /\ memory' = memory

RestShape ==
    /\ last'.op \notin {"push", "pop"} /\ "criticalStack" \notin raised'
    /\ \/ memory' = memory
       \/ /\ last'.op \in {"store", "swap"}
          /\ \E a \in 0 .. Top, n \in {1, 2, 4}, w \in Nat :
                /\ last'.address = a /\ last'.bytes = n
                /\ CanWrite(a, n) /\ memory' = Written(a, n, w)

LEMMA OtherRest ==
    ASSUME Other, memory' = memory, "criticalStack" \notin raised'
    PROVE  RestShape
  BY DEF RestShape, Other

LEMMA MovesRest ==
    ASSUME MoveRegister \/ MoveImmediate \/ GetAddress \/ Convert
    PROVE  RestShape
  <1>1. Other /\ memory' = memory /\ raised' = {}
    BY DEF MoveRegister, MoveImmediate, GetAddress, Convert, Quiet
  <1> QED BY <1>1, OtherRest

LEMMA LoadRest == ASSUME Load PROVE RestShape
  <1>1. PICK r \in Selected, p \in Pointers, mode \in Modes, n \in {1, 2, 4},
             signed \in BOOLEAN :
            /\ raised' = Violation(CanRead(Offset(mode, p.value), n))
            /\ last' = [op |-> "load", address |-> Offset(mode, p.value), bytes |-> n,
                        signed |-> signed]
            /\ memory' = memory
    BY DEF Load
  <1>2. last'.op = "load"
    BY <1>1
  <1>3. "criticalStack" \notin raised'
    BY <1>1 DEF Violation
  <1> QED BY <1>1, <1>2, <1>3 DEF RestShape

LEMMA SwapRest == ASSUME Ready, Swap PROVE RestShape
  <1>1. PICK r \in Selected, p \in Pointers, mode \in Modes, n \in {1, 2, 4},
             signed \in BOOLEAN :
            LET a == Offset(mode, p.value) IN
            /\ \E accepted \in Accepts(a, n) :
                  /\ memory' = IF CanWrite(a, n) /\ accepted
                               THEN Written(a, n, register[r]) ELSE memory
                  /\ last' = [op |-> "swap", address |-> a, bytes |-> n, signed |-> signed,
                              register |-> r, accepted |-> accepted]
            /\ raised' = Violation(CanRead(a, n) /\ CanWrite(a, n))
    BY DEF Swap
  <1> DEFINE a == Offset(mode, p.value)
  <1>2. a \in 0 .. Top /\ register[r] \in Nat
    BY OperandTyped, OffsetTyped, SelectedTyped, WordHalved DEF Top
  <1>3. PICK accepted \in Accepts(a, n) :
                  /\ memory' = IF CanWrite(a, n) /\ accepted
                               THEN Written(a, n, register[r]) ELSE memory
                  /\ last' = [op |-> "swap", address |-> a, bytes |-> n, signed |-> signed,
                              register |-> r, accepted |-> accepted]
    BY <1>1
  <1> HIDE DEF a
  <1>4. last'.op = "swap" /\ last'.address = a /\ last'.bytes = n
    BY <1>3
  <1>5. "criticalStack" \notin raised'
    BY <1>1 DEF Violation
  <1>6. memory' = memory \/ (CanWrite(a, n) /\ memory' = Written(a, n, register[r]))
    BY <1>3
  <1> QED BY <1>2, <1>4, <1>5, <1>6 DEF RestShape

LEMMA StoreRest == ASSUME Ready, Store PROVE RestShape
  <1>1. PICK r \in Selected, p \in Pointers, mode \in Modes, n \in {1, 2, 4} :
            LET a == Offset(mode, p.value) IN
            /\ \E accepted \in Accepts(a, n) :
                  memory' = IF CanWrite(a, n) /\ accepted
                            THEN Written(a, n, register[r]) ELSE memory
            /\ raised' = Violation(CanWrite(a, n))
            /\ last' = [op |-> "store", address |-> a, bytes |-> n, signed |-> FALSE]
    BY DEF Store
  <1> DEFINE a == Offset(mode, p.value)
  <1>2. a \in 0 .. Top /\ register[r] \in Nat
    BY OperandTyped, OffsetTyped, SelectedTyped, WordHalved DEF Top
  <1>3. last'.op = "store" /\ last'.address = a /\ last'.bytes = n
    BY <1>1
  <1>4. "criticalStack" \notin raised'
    BY <1>1 DEF Violation
  <1>5. memory' = memory \/ (CanWrite(a, n) /\ memory' = Written(a, n, register[r]))
    BY <1>1
  <1> HIDE DEF a
  <1> QED BY <1>2, <1>3, <1>4, <1>5 DEF RestShape

LEMMA ComputeRest ==
    ASSUME NEW op \in Calculations, NEW d, NEW a, NEW b, NEW length,
           Compute(op, d, a, b, length)
    PROVE  RestShape
  <1>1. last' = [op |-> op, a |-> a, b |-> b, carry |-> Carry, d |-> d] /\ memory' = memory
        /\ raised' \in {{}, {"divisionByZero"}}
    BY DEF Compute
  <1>2. last'.op = op
    BY <1>1
  <1>3. op \notin {"push", "pop"}
    BY DEF Calculations
  <1>4. "criticalStack" \notin raised'
    BY <1>1
  <1> QED BY <1>1, <1>2, <1>3, <1>4 DEF RestShape

LEMMA ArithmeticRest ==
    ASSUME AddSubtract \/ MultiplyDivide \/ Logic \/ Shift \/ NotRegister
    PROVE  RestShape
  <1>1. ASSUME NEW ops, ops \subseteq Calculations, Arithmetic(ops) PROVE RestShape
    <2>1. PICK op \in ops : \E d, s \in Selected, b \in Operands(op) :
            Compute(op, d, register[s], b.value, b.length)
      BY <1>1 DEF Arithmetic
    <2>2. op \in Calculations
      BY <1>1
    <2> QED BY <2>1, <2>2, ComputeRest
  <1>2. CASE AddSubtract \/ MultiplyDivide \/ Logic \/ Shift
    BY <1>1, <1>2 DEF AddSubtract, MultiplyDivide, Logic, Shift, Calculations
  <1>3. CASE NotRegister
    <2>1. PICK d, s \in Selected : Compute("BSRC", d, register[s], 0, 2)
      BY <1>3 DEF NotRegister
    <2> QED BY <2>1, ComputeRest DEF Calculations
  <1> QED BY <1>2, <1>3

LEMMA ComparisonsRest ==
    ASSUME FloatArithmetic \/ Compare \/ FloatCompare \/ Eval \/ FloatEval
    PROVE  RestShape
  <1>1. CASE FloatArithmetic
    <2>1. Other /\ memory' = memory /\ raised' \in {{}, {"divisionByZero"}}
      BY <1>1 DEF FloatArithmetic
    <2> QED BY <2>1, OtherRest
  <1>2. CASE Compare
    <2>1. memory' = memory /\ raised' = {}
      BY <1>2 DEF Compare, Quiet
    <2>2. last'.op = "compare"
      BY <1>2 DEF Compare
    <2> QED BY <2>1, <2>2 DEF RestShape
  <1>3. CASE FloatCompare
    <2>1. Other /\ memory' = memory /\ raised' = {}
      BY <1>3 DEF FloatCompare, Quiet
    <2> QED BY <2>1, OtherRest
  <1>4. CASE Eval
    <2>1. memory' = memory /\ "criticalStack" \notin raised'
      BY <1>4 DEF Eval, Unknown
    <2>2. PICK d, s \in Selected, code \in Codes,
             b \in FromRegisters(3) \cup {[i EXCEPT !.length = @ + 1] : i \in Immediates} :
            LET flags == Compared(register[s], b.value)
                truth == IF code \in Conditions(flags) THEN 1 ELSE 0
            IN  last' = [op |-> "eval", a |-> register[s], b |-> b.value, code |-> code,
                         truth |-> truth = 1]
      BY <1>4 DEF Eval
    <2>3. last'.op = "eval"
      BY <2>2
    <2> QED BY <2>1, <2>3 DEF RestShape
  <1>5. CASE FloatEval
    <2>1. Other /\ memory' = memory /\ "criticalStack" \notin raised'
      BY <1>5 DEF FloatEval, Unknown
    <2> QED BY <2>1, OtherRest
  <1> QED BY <1>1, <1>2, <1>3, <1>4, <1>5

LEMMA BranchesRest ==
    ASSUME Branch \/ BranchNotTaken \/ Debug \/ Undefined
    PROVE  RestShape
  <1>1. Other /\ memory' = memory /\ "criticalStack" \notin raised'
    BY DEF Branch, BranchNotTaken, Debug, Undefined, Quiet, Unknown
  <1> QED BY <1>1, OtherRest

(* A push, or a protected branch. *)
LEMMA PushesShape ==
    ASSUME Ready, Push \/ BranchProtected
    PROVE  PushShape \/ RestShape
  <1>1. CASE Push
    <2>1. PICK r \in Selected :
            /\ register' = Pushed(register[r], Size(r)).register
            /\ memory' = Pushed(register[r], Size(r)).memory
            /\ raised' = Pushed(register[r], Size(r)).raised
            /\ last' = IF StackWritable(Size(r)) THEN Frame(Size(r), register[r])
                       ELSE [op |-> "other"]
      BY <1>1 DEF Push
    <2>2. Size(r) \in {1, 2, 4} /\ register[r] \in 0 .. Top /\ register[r] < Span(Size(r))
      BY Sizes, SelectedTyped DEF RegistersTyped
    <2>3. CASE StackWritable(Size(r))
      BY <2>1, <2>2, <2>3 DEF PushShape
    <2>4. CASE ~ StackWritable(Size(r))
      <3>1. memory' = memory /\ raised' = {"memoryViolation"} /\ last' = [op |-> "other"]
        BY <2>1, <2>4 DEF Pushed
      <3> QED BY <3>1, OtherRest DEF Other
    <2> QED BY <2>3, <2>4
  <1>2. CASE BranchProtected
    <2>1. PICK length \in {2, 6} :
            LET back == (programCounter + length) % WordSize
                p == Pushed(back, 4)
            IN  /\ register' = p.register /\ memory' = p.memory /\ raised' = p.raised
                /\ last' = Frame(4, back)
      BY <1>2 DEF BranchProtected
    <2> DEFINE back == (programCounter + length) % WordSize
    <2>2. back \in 0 .. Top /\ back < Span(4)
      BY FetchTyped, SelectedTyped, Spans, WordHalved DEF Top
    <2>3. /\ register' = Pushed(back, 4).register /\ memory' = Pushed(back, 4).memory
          /\ raised' = Pushed(back, 4).raised /\ last' = Frame(4, back)
      BY <2>1
    <2> HIDE DEF back
    <2> QED BY <2>2, <2>3 DEF PushShape
  <1> QED BY <1>1, <1>2

LEMMA PopFailsRest ==
    ASSUME NEW n, PopFails(n), memory' = memory
    PROVE  RestShape
  <1>1. Other /\ "criticalStack" \notin raised'
    BY DEF PopFails
  <1> QED BY <1>1, OtherRest

LEMMA PopsShape ==
    ASSUME Ready, Pop \/ Peek \/ Return
    PROVE  PopShape \/ RestShape
  <1>1. ASSUME NEW op \in {"pop", "peek"}, NEW r \in Selected, NEW length, PopInto(op, r, length)
        PROVE  PopShape \/ RestShape
    <2>1. Size(r) \in {1, 2, 4} /\ r \in Registers /\ memory' = memory
      BY <1>1, Sizes, SelectedTyped DEF PopInto
    <2>2. CASE PopFails(Size(r))
      BY <2>1, <2>2, PopFailsRest
    <2>3. CASE ~ PopFails(Size(r))
      <3> DEFINE n == Size(r)
      <3>1. PICK v \in Reads(TopOfStack(n), n) :
                  /\ register' = Put(Moved(register, -n), r, v)
                  /\ last' = [op |-> op, bytes |-> n, value |-> v, register |-> r]
        BY <1>1, <2>3 DEF PopInto
      <3>2. register["SP"] >= n /\ StackReadable(n) /\ raised' = {}
        BY <1>1, <2>3 DEF PopInto
      <3>3. CASE op = "pop"
        <4>1. r # "PC"
          BY <2>1 DEF Registers
        <4> HIDE DEF n
        <4> QED BY <2>1, <3>1, <3>2, <3>3, <4>1 DEF PopShape, n
      <3>4. CASE op = "peek"
        <4>1. last'.op = "peek"
          BY <3>1, <3>4
        <4> QED BY <2>1, <3>2, <4>1 DEF RestShape
      <3> QED BY <3>3, <3>4
    <2> QED BY <2>2, <2>3
  <1>2. CASE Pop \/ Peek
    BY <1>1, <1>2, SelectedTyped DEF Pop, Peek
  <1>3. CASE Return
    <2>1. memory' = memory
      BY <1>3 DEF Return
    <2>2. CASE PopFails(4)
      BY <2>1, <2>2, PopFailsRest
    <2>3. CASE ~ PopFails(4)
      <3>1. PICK v \in Reads(TopOfStack(4), 4) :
                  /\ programCounter' = v
                  /\ last' = [op |-> "pop", bytes |-> 4, value |-> v, register |-> "PC"]
        BY <1>3, <2>3 DEF Return
      <3>2. /\ register["SP"] >= 4 /\ StackReadable(4) /\ raised' = {}
            /\ register' = Moved(register, -4)
        BY <1>3, <2>3 DEF Return
      <3> QED BY <2>1, <3>1, <3>2 DEF PopShape
    <2> QED BY <2>2, <2>3
  <1> QED BY <1>2, <1>3

LEMMA InstructionShape ==
    ASSUME Ready, Instruction
    PROVE  PushShape \/ PopShape \/ RestShape
  BY MovesRest, LoadRest, SwapRest, StoreRest, ArithmeticRest, ComparisonsRest, BranchesRest,
     PushesShape, PopsShape DEF Instruction
-----------------------------------------------------------------------------
(* The stack's warning. *)

(* The stack is not put where it already was not critical. *)
WarnInv == StackWarning /\ (placed => Critical(register))

LEMMA StackRegisters ==
    ASSUME Ready
    PROVE  /\ register["SP"] \in Nat /\ register["SP"] < Span(2)
           /\ register["SB"] \in 0 .. Top /\ register["SS"] \in Nat
           /\ Span(2) \in Nat /\ Span(2) >= 16
  <1>1. Size("SP") = 2 /\ {"SP", "SB", "SS"} \subseteq Registers
    BY DEF Size, Registers
  <1> QED BY <1>1, SelectedTyped, InWord, SpanOrder DEF RegistersTyped

(* A push, unless it is refused, moves the pointer up and nothing else. *)
LEMMA PushMoves ==
    ASSUME Ready, PushShape
    PROVE  \/ register' = register /\ raised' = {"memoryViolation"}
           \/ /\ register'["SP"] <= register["SP"] + 4 /\ register'["SS"] = register["SS"]
              /\ register'["SP"] \in Nat /\ raised' = Warns(register')
  <1>1. PICK n \in {1, 2, 4}, v \in 0 .. Top :
            /\ register' = Pushed(v, n).register
            /\ raised' = Pushed(v, n).raised
    BY DEF PushShape
  <1>2. CASE StackWritable(n)
    <2>1. register' = Moved(register, n) /\ raised' = Warns(register')
      BY <1>1, <1>2 DEF Pushed
    <2>2. /\ register'["SP"] = (register["SP"] + n) % Span(2)
          /\ register'["SS"] = register["SS"]
      BY <2>1, SelectedTyped DEF Moved, Put, RegistersTyped, Registers, Size
    <2>3. (register["SP"] + n) % Span(2) \in Nat
          /\ (register["SP"] + n) % Span(2) <= register["SP"] + n
      BY StackRegisters
    <2> QED BY <2>1, <2>2, <2>3, StackRegisters
  <1>3. CASE ~ StackWritable(n)
    BY <1>1, <1>3 DEF Pushed
  <1> QED BY <1>2, <1>3

LEMMA WarnNext ==
    ASSUME Ready, WarnInv, Instruction, Observe
    PROVE  WarnInv'
  <1>1. /\ warnings = (IF Critical(register) /\ ~placed THEN 1 ELSE 0)
        /\ placed => Critical(register)
    BY DEF WarnInv, StackWarning
  <1>2. /\ warnings' = IF "criticalStack" \in raised' THEN warnings + 1
                       ELSE IF Critical(register') THEN warnings ELSE 0
        /\ placed' = (Critical(register') /\ (placed \/ (~Critical(register) /\ last'.op # "push")))
    BY DEF Observe
  <1>3. CASE PushShape
    <2>1. last'.op = "push"
      BY <1>3 DEF PushShape, Frame
    <2>2. CASE register' = register /\ raised' = {"memoryViolation"}
      BY <1>1, <1>2, <2>1, <2>2 DEF WarnInv, StackWarning
    <2>3. CASE /\ register'["SP"] <= register["SP"] + 4 /\ register'["SS"] = register["SS"]
               /\ register'["SP"] \in Nat /\ raised' = Warns(register')
      <3>1. "criticalStack" \in raised' <=> ~ Critical(register) /\ Critical(register')
        BY <2>3 DEF Warns
      <3>2. "criticalStack" \in raised' => register'["SP"] + 4 <= register'["SS"]
        BY <2>3, <3>1, StackRegisters, ProcessorAssumption DEF Critical
      <3>3. /\ warnings' = (IF Critical(register') /\ ~placed' THEN 1 ELSE 0)
            /\ placed' => Critical(register')
        <4>1. CASE "criticalStack" \in raised'
          <5>1. warnings = 0 /\ warnings' = warnings + 1
            BY <1>1, <1>2, <3>1, <4>1
          <5>2. Critical(register') /\ ~ placed'
            BY <1>1, <1>2, <2>1, <3>1, <4>1
          <5> QED BY <5>1, <5>2
        <4>2. CASE "criticalStack" \notin raised'
          <5>1. warnings' = IF Critical(register') THEN warnings ELSE 0
            BY <1>2, <4>2
          <5>2. Critical(register') => Critical(register)
            BY <3>1, <4>2
          <5>3. placed' = (Critical(register') /\ placed)
            BY <1>2, <2>1
          <5> QED BY <1>1, <5>1, <5>2, <5>3
        <4> QED BY <4>1, <4>2
      <3> QED BY <3>2, <3>3 DEF WarnInv, StackWarning
    <2> QED BY <1>3, <2>2, <2>3, PushMoves
  <1>4. CASE PopShape \/ RestShape
    <2>1. last'.op # "push" /\ "criticalStack" \notin raised'
      BY <1>4 DEF PopShape, RestShape
    <2>2. /\ warnings' = (IF Critical(register') /\ ~placed' THEN 1 ELSE 0)
          /\ placed' => Critical(register')
      BY <1>1, <1>2, <2>1
    <2> QED BY <2>1, <2>2 DEF WarnInv, StackWarning
  <1> QED BY <1>3, <1>4, InstructionShape

LEMMA ReadyNext == TypeInv /\ Next => Ready /\ Instruction /\ Observe
  BY ProcessorAssumption DEF Ready, Next, TypeInv

(***************************************************************************)
(* A program that pushes its way into the critical space is warned exactly *)
(* once, and with room for a word (doStackUtils, protectedPush32), whatever*)
(* else it does with its registers and for every threshold from eight on.  *)
(***************************************************************************)
THEOREM StackWarningHolds == Spec => []StackWarning
  <1>1. Init => WarnInv
    <2> SUFFICES ASSUME Init PROVE WarnInv
      OBVIOUS
    <2>1. placed = Critical(register)
      BY DEF Init, Critical
    <2>2. warnings = 0 /\ raised = {}
      BY DEF Init
    <2> HIDE DEF Critical
    <2> QED BY <2>1, <2>2 DEF WarnInv, StackWarning
  <1>2. TypeInv /\ WarnInv /\ [Next]_vars => WarnInv'
    <2>1. CASE Next
      BY <2>1, ReadyNext, WarnNext
    <2>2. CASE UNCHANGED vars
      BY <2>2 DEF vars, processor, histories, WarnInv, StackWarning, Critical
    <2> QED BY <2>1, <2>2
  <1>3. WarnInv => StackWarning
    BY DEF WarnInv
  <1> QED BY <1>1, <1>2, <1>3, TypeAlways, PTL DEF Spec
-----------------------------------------------------------------------------
(* The flags. *)

Bit(v, k) == (v \div k) % 2 = 1

LEMMA FlagBits ==
    ASSUME NEW z \in BOOLEAN, NEW n \in BOOLEAN, NEW c \in BOOLEAN, NEW v \in BOOLEAN
    PROVE  /\ Bit(Flags(z, n, c, v), 8) <=> z
           /\ Bit(Flags(z, n, c, v), 4) <=> n
           /\ Bit(Flags(z, n, c, v), 2) <=> c
           /\ Bit(Flags(z, n, c, v), 1) <=> v
           /\ Flags(z, n, c, v) % 2 = 1 <=> v
  <1> DEFINE bit(b) == IF b THEN 1 ELSE 0
             f == 8 * bit(z) + 4 * bit(n) + 2 * bit(c) + bit(v)
  <1>1. /\ bit(z) \in {0, 1} /\ bit(n) \in {0, 1} /\ bit(c) \in {0, 1} /\ bit(v) \in {0, 1}
        /\ (z <=> bit(z) = 1) /\ (n <=> bit(n) = 1) /\ (c <=> bit(c) = 1) /\ (v <=> bit(v) = 1)
    OBVIOUS
  <1>2. Flags(z, n, c, v) = f
    BY DEF Flags
  <1> HIDE DEF bit
  <1>3. /\ f \div 8 = bit(z) /\ f \div 4 = 2 * bit(z) + bit(n)
        /\ f \div 2 = 4 * bit(z) + 2 * bit(n) + bit(c) /\ f \div 1 = f
    BY <1>1
  <1>4. /\ (f \div 8) % 2 = bit(z) /\ (f \div 4) % 2 = bit(n) /\ (f \div 2) % 2 = bit(c)
        /\ (f \div 1) % 2 = bit(v) /\ f % 2 = bit(v)
    BY <1>1, <1>3
  <1> HIDE DEF f
  <1> QED BY <1>1, <1>2, <1>4 DEF Bit

(* A sum, without the words' width. *)
LEMMA SumFacts ==
    ASSUME NEW a \in 0 .. Top, NEW b \in 0 .. Top
    PROVE  /\ Sum(a, b).value = (IF a + b > Top THEN a + b - WordSize ELSE a + b)
           /\ Sum(a, b).carry <=> a + b > Top \/ b = 0
           /\ Sum(a, b).overflow <=>
                 ~ (Sum(a, b).carry <=> (a % SignBit) + (b % SignBit) >= SignBit)
           /\ Sum(a, b).carry \in BOOLEAN /\ Sum(a, b).overflow \in BOOLEAN
  <1>1. /\ a \in Nat /\ b \in Nat /\ WordSize \in Nat \ {0} /\ Top = WordSize - 1
        /\ a < WordSize /\ b < WordSize
    BY WordHalved DEF Top
  <1>2. (a + b) % WordSize = IF a + b > Top THEN a + b - WordSize ELSE a + b
    BY <1>1
  <1>3. (a + b) % WordSize < a <=> a + b > Top
    BY <1>1, <1>2
  <1> DEFINE carry == (a + b) % WordSize < a \/ b = 0
             crossed == (a % SignBit) + (b % SignBit) >= SignBit
  <1>4. Sum(a, b) = Outcome((a + b) % WordSize, carry, carry # crossed)
    BY DEF Sum
  <1>5. carry <=> a + b > Top \/ b = 0
    BY <1>3
  <1>6. carry \in BOOLEAN /\ crossed \in BOOLEAN
    OBVIOUS
  <1> HIDE DEF carry
  <1>7. /\ Sum(a, b).value = (a + b) % WordSize /\ Sum(a, b).carry = carry
        /\ Sum(a, b).overflow = (carry # crossed)
    BY <1>4 DEF Outcome
  <1>8. (carry # crossed) <=> ~ (carry <=> crossed)
    BY <1>6
  <1> HIDE DEF crossed
  <1>9. (carry # crossed) \in BOOLEAN
    OBVIOUS
  <1> QED BY <1>2, <1>5, <1>6, <1>7, <1>8, <1>9 DEF crossed

LEMMA LowBits ==
    ASSUME NEW a \in 0 .. Top
    PROVE  /\ a % SignBit = IF a < SignBit THEN a ELSE a - SignBit
           /\ Signed(a) = IF a < SignBit THEN a ELSE a - 2 * SignBit
           /\ a \in Nat /\ a < 2 * SignBit /\ SignBit \in Nat \ {0}
           /\ Top = 2 * SignBit - 1 /\ WordSize = 2 * SignBit
  <1>1. a \in Nat /\ a < 2 * SignBit /\ SignBit \in Nat \ {0} /\ Top = 2 * SignBit - 1
        /\ WordSize = 2 * SignBit
    BY WordHalved DEF Top
  <1>2. a % SignBit = IF a < SignBit THEN a ELSE a - SignBit
    BY <1>1
  <1> QED BY <1>1, <1>2 DEF Signed

LEMMA NegatedFacts ==
    ASSUME NEW b \in 0 .. Top
    PROVE  /\ Negated(b) = (IF b = 0 THEN 0 ELSE WordSize - b) /\ Negated(b) \in 0 .. Top
           /\ SelfNegated(b) <=> b = 0 \/ b = SignBit
  <1>1. b \in Nat /\ b < WordSize /\ WordSize \in Nat \ {0} /\ Top = WordSize - 1
        /\ WordSize = 2 * SignBit
    BY WordHalved DEF Top
  <1>2. (WordSize - b) % WordSize = IF b = 0 THEN 0 ELSE WordSize - b
    BY <1>1
  <1> QED BY <1>1, <1>2, WordHalved DEF Negated, SelfNegated

(* What a - b says of a and b. *)
LEMMA DifferenceFacts ==
    ASSUME NEW a \in 0 .. Top, NEW b \in 0 .. Top
    PROVE  LET o == Sum(a, Negated(b)) IN
           /\ o.value = 0 <=> a = b
           /\ o.carry <=> a >= b
           /\ ~SelfNegated(b) =>
                 (o.overflow <=> ~(Signed(a) - Signed(b) \in - SignBit .. SignBit - 1))
           /\ ((o.value >= SignBit) <=> o.overflow) <=>
                 ~ ((Signed(a) >= Signed(b)) <=> SelfNegated(b))
           /\ o.value \in Int /\ o.carry \in BOOLEAN /\ o.overflow \in BOOLEAN
  <1> DEFINE c == Negated(b)
             o == Sum(a, c)
             h == SignBit
  <1>1. c = (IF b = 0 THEN 0 ELSE 2 * h - b) /\ c \in 0 .. Top
        /\ (SelfNegated(b) <=> b = 0 \/ b = h)
    BY NegatedFacts, LowBits
  <1>2. /\ a \in Nat /\ a < 2 * h /\ b \in Nat /\ b < 2 * h /\ h \in Nat \ {0}
        /\ Top = 2 * h - 1
        /\ Signed(a) = (IF a < h THEN a ELSE a - 2 * h)
        /\ Signed(b) = (IF b < h THEN b ELSE b - 2 * h)
        /\ a % h = (IF a < h THEN a ELSE a - h)
        /\ WordSize = 2 * h
    BY LowBits
  <1> HIDE DEF c
  <1>3. c % h = (IF c < h THEN c ELSE c - h)
    BY <1>1, LowBits
  <1>4. /\ o.value = (IF a + c > Top THEN a + c - WordSize ELSE a + c)
        /\ o.carry <=> a + c > Top \/ c = 0
        /\ o.overflow <=> ~ (o.carry <=> (a % h) + (c % h) >= h)
        /\ o.carry \in BOOLEAN /\ o.overflow \in BOOLEAN
    BY <1>1, SumFacts
  <1> HIDE DEF o, h
  <1>5. o.value = (IF a + c > Top THEN a + c - 2 * h ELSE a + c)
    BY <1>2, <1>4
  <1>6. o.value = 0 <=> a = b
    BY <1>1, <1>2, <1>5
  <1>7. o.carry <=> a >= b
    BY <1>1, <1>2, <1>4
  <1>8. ASSUME ~ SelfNegated(b)
        PROVE  o.overflow <=> ~(Signed(a) - Signed(b) \in - h .. h - 1)
    BY <1>1, <1>2, <1>3, <1>4, <1>7, <1>8
  <1>9. ((o.value >= h) <=> o.overflow) <=> ~ ((Signed(a) >= Signed(b)) <=> SelfNegated(b))
    <2>1. CASE b = 0
      BY <1>1, <1>2, <1>3, <1>4, <1>5, <1>7, <2>1
    <2>2. CASE b = h
      BY <1>1, <1>2, <1>3, <1>4, <1>5, <1>7, <2>2
    <2>3. CASE b # 0 /\ b # h
      BY <1>1, <1>2, <1>3, <1>4, <1>5, <1>7, <2>3
    <2> QED BY <2>1, <2>2, <2>3
  <1>10. o.value \in Int
    BY <1>1, <1>2, <1>5
  <1> QED BY <1>4, <1>6, <1>7, <1>8, <1>9, <1>10 DEF o, c, h

(* The first eleven conditions. *)
LEMMA ConditionsMean ==
    ASSUME NEW flags \in 0 .. 15
    PROVE  /\ 0 \in Conditions(flags)
           /\ 1 \in Conditions(flags) <=> Bit(flags, 8)
           /\ 2 \in Conditions(flags) <=> ~Bit(flags, 8)
           /\ 3 \in Conditions(flags) <=> Bit(flags, 2) /\ ~Bit(flags, 8)
           /\ 4 \in Conditions(flags) <=> Bit(flags, 2)
           /\ 5 \in Conditions(flags) <=> ~Bit(flags, 2) \/ Bit(flags, 8)
           /\ 6 \in Conditions(flags) <=> ~Bit(flags, 2)
           /\ 7 \in Conditions(flags) <=> ~Bit(flags, 8) /\ (Bit(flags, 4) <=> Bit(flags, 1))
           /\ 8 \in Conditions(flags) <=> (Bit(flags, 4) <=> Bit(flags, 1))
           /\ 9 \in Conditions(flags) <=> Bit(flags, 8) \/ ~ (Bit(flags, 4) <=> Bit(flags, 1))
           /\ 10 \in Conditions(flags) <=> ~ (Bit(flags, 4) <=> Bit(flags, 1))
  BY DEF Conditions, Bit

LEMMA RelationsMean ==
    ASSUME NEW a \in 0 .. Top, NEW b \in 0 .. Top
    PROVE  /\ 0 \in Relations(a, b)
           /\ 1 \in Relations(a, b) <=> a = b
           /\ 2 \in Relations(a, b) <=> a # b
           /\ 3 \in Relations(a, b) <=> a > b
           /\ 4 \in Relations(a, b) <=> a >= b
           /\ 5 \in Relations(a, b) <=> a <= b
           /\ 6 \in Relations(a, b) <=> a < b
           /\ 7 \in Relations(a, b) <=> Signed(a) > Signed(b)
           /\ 8 \in Relations(a, b) <=> Signed(a) >= Signed(b)
           /\ 9 \in Relations(a, b) <=> Signed(a) <= Signed(b)
           /\ 10 \in Relations(a, b) <=> Signed(a) < Signed(b)
  BY DEF Relations

LEMMA MisledMean ==
    ASSUME NEW a, NEW b, NEW code \in 0 .. 10
    PROVE  code \in Misled(a, b) <=>
              /\ SelfNegated(b)
              /\ IF a = b THEN code \in {8, 10} ELSE code \in {7, 8, 9, 10}
  BY DEF Misled, SignedCodes

(* The conditions after a comparison, or an evaluation. *)
LEMMA ComparedMeans ==
    ASSUME NEW a \in 0 .. Top, NEW b \in 0 .. Top, NEW code \in 0 .. 10
    PROVE  code \in Conditions(Compared(a, b)) <=>
              ~ (code \in Relations(a, b) <=> code \in Misled(a, b))
  <1> DEFINE o == Sum(a, Negated(b))
             flags == Compared(a, b)
             s == Signed(a)
             t == Signed(b)
  <1>1. /\ o.value = 0 <=> a = b
        /\ o.carry <=> a >= b
        /\ ((o.value >= SignBit) <=> o.overflow) <=> ~ ((s >= t) <=> SelfNegated(b))
        /\ o.value \in Int /\ o.carry \in BOOLEAN /\ o.overflow \in BOOLEAN
    BY DifferenceFacts
  <1>2. /\ flags = Flags(o.value = 0, o.value >= SignBit, o.carry, o.overflow)
        /\ flags \in 0 .. 15
    BY ComparedTyped DEF Compared, FlagsOf
  <1>3. /\ Bit(flags, 8) <=> o.value = 0
        /\ Bit(flags, 4) <=> o.value >= SignBit
        /\ Bit(flags, 2) <=> o.carry
        /\ Bit(flags, 1) <=> o.overflow
    <2>1. (o.value = 0) \in BOOLEAN /\ (o.value >= SignBit) \in BOOLEAN
      OBVIOUS
    <2> HIDE DEF o, flags
    <2> QED BY <1>1, <1>2, <2>1, FlagBits
  <1>4. a \in Nat /\ b \in Nat /\ s \in Int /\ t \in Int /\ (a = b <=> s = t)
    BY LowBits
  <1> HIDE DEF o, flags, s, t
  <1>5. /\ Bit(flags, 8) <=> a = b
        /\ Bit(flags, 2) <=> a >= b
        /\ (Bit(flags, 4) <=> Bit(flags, 1)) <=> ~ ((s >= t) <=> SelfNegated(b))
    BY <1>1, <1>3
  <1>6. /\ 0 \in Conditions(flags)
        /\ 1 \in Conditions(flags) <=> Bit(flags, 8)
        /\ 2 \in Conditions(flags) <=> ~Bit(flags, 8)
        /\ 3 \in Conditions(flags) <=> Bit(flags, 2) /\ ~Bit(flags, 8)
        /\ 4 \in Conditions(flags) <=> Bit(flags, 2)
        /\ 5 \in Conditions(flags) <=> ~Bit(flags, 2) \/ Bit(flags, 8)
        /\ 6 \in Conditions(flags) <=> ~Bit(flags, 2)
        /\ 7 \in Conditions(flags) <=> ~Bit(flags, 8) /\ (Bit(flags, 4) <=> Bit(flags, 1))
        /\ 8 \in Conditions(flags) <=> (Bit(flags, 4) <=> Bit(flags, 1))
        /\ 9 \in Conditions(flags) <=> Bit(flags, 8) \/ ~ (Bit(flags, 4) <=> Bit(flags, 1))
        /\ 10 \in Conditions(flags) <=> ~ (Bit(flags, 4) <=> Bit(flags, 1))
    BY <1>2, ConditionsMean
  <1>7. /\ 0 \in Relations(a, b)
        /\ 1 \in Relations(a, b) <=> a = b
        /\ 2 \in Relations(a, b) <=> a # b
        /\ 3 \in Relations(a, b) <=> a > b
        /\ 4 \in Relations(a, b) <=> a >= b
        /\ 5 \in Relations(a, b) <=> a <= b
        /\ 6 \in Relations(a, b) <=> a < b
        /\ 7 \in Relations(a, b) <=> s > t
        /\ 8 \in Relations(a, b) <=> s >= t
        /\ 9 \in Relations(a, b) <=> s <= t
        /\ 10 \in Relations(a, b) <=> s < t
    BY RelationsMean DEF s, t
  <1>8. CASE code \in 0 .. 6
    <2>1. code \notin Misled(a, b)
      BY <1>8, MisledMean
    <2>2. code \in Conditions(flags) <=> code \in Relations(a, b)
      BY <1>4, <1>5, <1>6, <1>7, <1>8
    <2> QED BY <2>1, <2>2 DEF flags
  <1>9. CASE code \in 7 .. 10
    <2>1. code \in Misled(a, b) <=> /\ SelfNegated(b)
                                    /\ IF a = b THEN code \in {8, 10} ELSE TRUE
      BY <1>9, MisledMean
    <2>2. CASE code = 7
      BY <1>4, <1>5, <1>6, <1>7, <2>1, <2>2 DEF flags
    <2>3. CASE code = 8
      BY <1>4, <1>5, <1>6, <1>7, <2>1, <2>3 DEF flags
    <2>4. CASE code = 9
      BY <1>4, <1>5, <1>6, <1>7, <2>1, <2>4 DEF flags
    <2>5. CASE code = 10
      BY <1>4, <1>5, <1>6, <1>7, <2>1, <2>5 DEF flags
    <2> QED BY <1>9, <2>2, <2>3, <2>4, <2>5
  <1> QED BY <1>8, <1>9

LEMMA FlagsPut ==
    ASSUME NEW regs, RegistersTyped(regs), NEW f \in 0 .. 15
    PROVE  Put(regs, "FL", f)["FL"] = f
  <1>1. f % Span(1) = f
    BY Spans, ByteLarge
  <1> QED BY <1>1 DEF Put, RegistersTyped, Registers, Size

(* The instructions that FlagsExact says nothing of. *)
LEMMA FlagsSilent ==
    ASSUME last'.op \notin {"compare", "eval", "ADD", "SUB", "MUL", "BSLC", "BSRC"}
    PROVE  FlagsExact'
  BY DEF FlagsExact, ComparisonExact, EvalExact, SumExact, RotationExact

LEMMA CompareExact == ASSUME Ready, Compare PROVE FlagsExact'
  <1>1. PICK s \in Selected, b \in FromRegisters(2) \cup Immediates :
            /\ register' = Put(register, "FL", Compared(register[s], b.value))
            /\ last' = [op |-> "compare", a |-> register[s], b |-> b.value]
    BY DEF Compare
  <1>2. b.value \in 0 .. Top /\ register[s] \in 0 .. Top
    BY OperandTyped, SelectedTyped
  <1>3. register'["FL"] = Compared(register[s], b.value)
    BY <1>1, <1>2, ComparedTyped, FlagsPut, SelectedTyped
  <1>4. last'.op = "compare" /\ last'.a = register[s] /\ last'.b = b.value
    BY <1>1
  <1>5. ASSUME NEW code \in 0 .. 10
        PROVE  (code \in Conditions(register'["FL"]))
                   = ((code \in Relations(last'.a, last'.b)) # (code \in Misled(last'.a, last'.b)))
    <2>1. code \in Conditions(Compared(register[s], b.value)) <=>
              ~ (code \in Relations(register[s], b.value) <=> code \in Misled(register[s], b.value))
      BY <1>2, ComparedMeans
    <2> QED BY <1>3, <1>4, <2>1
  <1>6. ComparisonExact'
    BY <1>5 DEF ComparisonExact
  <1> QED BY <1>4, <1>6 DEF FlagsExact, EvalExact, SumExact, RotationExact

LEMMA EvalIsExact == ASSUME Ready, Eval PROVE FlagsExact'
  <1>1. PICK d, s \in Selected, code \in Codes,
             b \in FromRegisters(3) \cup {[i EXCEPT !.length = @ + 1] : i \in Immediates} :
            LET flags == Compared(register[s], b.value)
                truth == IF code \in Conditions(flags) THEN 1 ELSE 0
            IN  last' = [op |-> "eval", a |-> register[s], b |-> b.value, code |-> code,
                         truth |-> truth = 1]
    BY DEF Eval
  <1>2. b.value \in 0 .. Top /\ register[s] \in 0 .. Top
    <2>1. \A i \in Immediates : i \in Operand
      BY ImmediatesTyped
    <2>2. b \in Operand
      BY <2>1, FromRegistersTyped, SelectedTyped DEF Operand
    <2> QED BY <2>2, SelectedTyped DEF Operand
  <1> DEFINE held == code \in Conditions(Compared(register[s], b.value))
  <1>3. PICK t \in BOOLEAN : (t <=> held) /\ last' = [op |-> "eval", a |-> register[s],
                               b |-> b.value, code |-> code, truth |-> t]
    <2> DEFINE t == (IF held THEN 1 ELSE 0) = 1
    <2>1. last' = [op |-> "eval", a |-> register[s], b |-> b.value, code |-> code, truth |-> t]
      BY <1>1
    <2>2. t \in BOOLEAN /\ (t <=> held)
      OBVIOUS
    <2> HIDE DEF t, held
    <2> QED BY <2>1, <2>2
  <1>4. /\ last'.op = "eval" /\ last'.a = register[s] /\ last'.b = b.value
        /\ last'.code = code /\ last'.truth = t
    BY <1>3
  <1>5. ASSUME code \in 0 .. 10
        PROVE  t = ((code \in Relations(register[s], b.value))
                       # (code \in Misled(register[s], b.value)))
    <2>1. held <=> ~ (code \in Relations(register[s], b.value)
                          <=> code \in Misled(register[s], b.value))
      BY <1>2, <1>5, ComparedMeans
    <2> HIDE DEF held
    <2> QED BY <1>3, <2>1
  <1>6. EvalExact'
    BY <1>4, <1>5 DEF EvalExact
  <1> QED BY <1>4, <1>6 DEF FlagsExact, ComparisonExact, SumExact, RotationExact

(* The overflow of a product, from which the word that was lost shows. *)
LEMMA ProductFacts ==
    ASSUME NEW a \in 0 .. Top, NEW b \in 0 .. Top
    PROVE  Product(a, b).overflow <=> b > 0 /\ a > Top \div b
  <1> DEFINE W == WordSize
             p == (a * Signed(b)) % W
             r == (a * b) % W
             q == (a * b) \div W
  <1>1. a \in Nat /\ b \in Nat /\ W \in Nat \ {0} /\ a < W /\ b < W /\ Top = W - 1
    BY WordHalved DEF Top
  <1> HIDE DEF W
  <1>2. a * b \in Nat /\ q \in Int /\ r \in 0 .. W - 1 /\ a * b = q * W + r
    BY <1>1
  <1> HIDE DEF q, r
  <1>3. p = r
    <2>1. CASE Signed(b) = b
      BY <1>2, <2>1 DEF r
    <2>2. CASE Signed(b) = b - W
      <3>1. a * (b - W) = a * b - a * W
        BY <1>1
      <3>2. a * (b - W) = (q - a) * W + r
        BY <1>1, <1>2, <3>1
      <3>3. q - a \in Int
        BY <1>1, <1>2
      <3>4. (a * (b - W)) % W = r
        BY <1>1, <1>2, <3>2, <3>3, Quotient
      <3> QED BY <2>2, <3>4
    <2> QED BY <2>1, <2>2 DEF Signed, W
  <1>4. Product(a, b).overflow <=> a # 0 /\ r \div a # b
    <2>1. Product(a, b) = Outcome(r, FALSE, a # 0 /\ r \div a # b)
      BY <1>3 DEF Product, W
    <2> DEFINE over == a # 0 /\ r \div a # b
    <2>2. over \in BOOLEAN
      OBVIOUS
    <2> HIDE DEF over
    <2>3. Product(a, b).overflow = over
      BY <2>1 DEF Outcome, over
    <2> QED BY <2>2, <2>3 DEF over
  <1>5. CASE a = 0 \/ b = 0
    <2>1. CASE a = 0
      <3>1. b > 0 => Top \div b >= 0
        BY <1>1
      <3> QED BY <1>1, <1>4, <2>1, <3>1
    <2>2. CASE a # 0 /\ b = 0
      <3>1. a * b = 0
        BY <1>1, <2>2
      <3>2. r = 0
        BY <1>1, <3>1 DEF r
      <3>3. r \div a = 0
        BY <1>1, <2>2, <3>2
      <3> QED BY <1>4, <2>2, <3>3
    <2> QED BY <1>5, <2>1, <2>2
  <1>6. CASE a # 0 /\ b # 0
    <2> DEFINE k == Top \div b
               m == Top % b
    <2>1. k \in Int /\ m \in 0 .. b - 1 /\ Top = k * b + m
      BY <1>1, <1>6
    <2> HIDE DEF k, m
    <2>2. CASE a * b <= Top
      <3>1. r = a * b
        BY <1>1, <1>2, <2>2 DEF r
      <3>2. r \div a = b
        <4>1. r = b * a + 0
          BY <1>1, <3>1
        <4> QED BY <1>1, <1>6, <4>1, Quotient
      <3>3. ~ (a > k)
        <4>1. SUFFICES ASSUME a > k PROVE FALSE
          OBVIOUS
        <4>2. a - (k + 1) \in Nat
          BY <1>1, <2>1, <4>1
        <4>3. (a - (k + 1)) * b >= 0
          BY <1>1, <4>2
        <4>4. a * b = (a - (k + 1)) * b + k * b + b
          BY <1>1, <2>1
        <4> QED BY <1>1, <2>1, <2>2, <4>3, <4>4
      <3> QED BY <1>4, <1>6, <3>2, <3>3 DEF k
    <2>3. CASE a * b > Top
      <3>1. q >= 1
        <4>1. SUFFICES ASSUME q <= 0 PROVE FALSE
          BY <1>2
        <4>2. q * W <= 0
          BY <1>1, <1>2, <4>1
        <4> QED BY <1>1, <1>2, <2>3, <4>2
      <3>2. r < a * b
        <4>1. q * W >= W
          BY <1>1, <1>2, <3>1
        <4> QED BY <1>1, <1>2, <4>1
      <3>3. r \div a # b
        <4> DEFINE j == r \div a
                   l == r % a
        <4>1. j \in Int /\ l \in 0 .. a - 1 /\ r = j * a + l
          BY <1>1, <1>2, <1>6
        <4> HIDE DEF j, l
        <4>2. j # b
          <5>1. SUFFICES ASSUME j = b PROVE FALSE
            OBVIOUS
          <5>2. r = b * a + l
            BY <4>1, <5>1
          <5>3. b * a = a * b
            BY <1>1
          <5> QED BY <1>1, <1>2, <3>2, <4>1, <5>2, <5>3
        <4> QED BY <4>2 DEF j
      <3>4. a > k
        <4>1. SUFFICES ASSUME a <= k PROVE FALSE
          BY <1>1, <2>1
        <4>2. (k - a) * b >= 0
          BY <1>1, <2>1, <4>1
        <4>3. k * b = (k - a) * b + a * b
          BY <1>1, <2>1
        <4> QED BY <1>1, <1>2, <2>1, <2>3, <4>2, <4>3
      <3> QED BY <1>1, <1>4, <1>6, <3>3, <3>4 DEF k
    <2> QED BY <1>1, <1>2, <2>2, <2>3
  <1> QED BY <1>5, <1>6

(* The flags that a calculation leaves are its outcome's. *)
LEMMA ComputeFlags ==
    ASSUME Ready, NEW op \in Calculations, NEW d \in Selected, NEW a \in 0 .. Top,
           NEW b \in 0 .. Top, NEW length, Compute(op, d, a, b, length), op \notin {"DIV", "MOD"}
    PROVE  /\ (register'["FL"] \div 2) % 2 = 1 <=> Calculated(op, a, b).carry
           /\ register'["FL"] % 2 = 1 <=> Calculated(op, a, b).overflow
           /\ register' = Put(Put(register, d, Calculated(op, a, b).value), "FL",
                              FlagsOf(Calculated(op, a, b)))
           /\ FlagsOf(Calculated(op, a, b)) \in 0 .. 15
           /\ last'.op = op /\ last'.a = a /\ last'.b = b /\ last'.carry = Carry /\ last'.d = d
  <1> DEFINE o == Calculated(op, a, b)
  <1>1. o.value \in Int /\ o.carry \in BOOLEAN /\ o.overflow \in BOOLEAN
    BY CalculatedTyped, SelectedTyped
  <1>2. register' = Put(Put(register, d, o.value), "FL", FlagsOf(o))
    BY DEF Compute
  <1>3. last' = [op |-> op, a |-> a, b |-> b, carry |-> Carry, d |-> d]
    BY DEF Compute
  <1>4. last'.op = op /\ last'.a = a /\ last'.b = b /\ last'.carry = Carry /\ last'.d = d
    BY <1>3
  <1> HIDE DEF o
  <1>5. FlagsOf(o) \in 0 .. 15
    BY <1>1, FlagsOfTyped
  <1>6. register'["FL"] = FlagsOf(o)
    BY <1>1, <1>2, <1>5, FlagsPut, PutTyped, SelectedTyped
  <1>7. /\ Bit(FlagsOf(o), 2) <=> o.carry
        /\ FlagsOf(o) % 2 = 1 <=> o.overflow
    <2>1. (o.value = 0) \in BOOLEAN /\ (o.value >= SignBit) \in BOOLEAN
      OBVIOUS
    <2>2. FlagsOf(o) = Flags(o.value = 0, o.value >= SignBit, o.carry, o.overflow)
      BY DEF FlagsOf
    <2> DEFINE f == FlagsOf(o)
    <2>3. /\ Bit(f, 2) <=> o.carry
          /\ f % 2 = 1 <=> o.overflow
      <3> HIDE DEF f
      <3>1. f = Flags(o.value = 0, o.value >= SignBit, o.carry, o.overflow)
        BY <2>2 DEF f
      <3>2. PICK z \in BOOLEAN, n \in BOOLEAN : f = Flags(z, n, o.carry, o.overflow)
        BY <2>1, <3>1
      <3>3. Bit(f, 2) <=> o.carry
        BY <1>1, <3>2, FlagBits
      <3>4. f % 2 = 1 <=> o.overflow
        BY <1>1, <3>2, FlagBits
      <3> QED BY <3>3, <3>4
    <2> QED BY <2>3
  <1>8. /\ (FlagsOf(o) \div 2) % 2 = 1 <=> o.carry
        /\ FlagsOf(o) % 2 = 1 <=> o.overflow
    BY <1>7 DEF Bit
  <1> QED BY <1>2, <1>4, <1>5, <1>6, <1>8 DEF o

LEMMA SumIsExact ==
    ASSUME Ready, NEW op \in {"ADD", "SUB", "MUL"}, NEW d \in Selected, NEW a \in 0 .. Top,
           NEW b \in 0 .. Top, NEW length, Compute(op, d, a, b, length)
    PROVE  FlagsExact'
  <1>1. /\ (register'["FL"] \div 2) % 2 = 1 <=> Calculated(op, a, b).carry
        /\ register'["FL"] % 2 = 1 <=> Calculated(op, a, b).overflow
        /\ last'.op = op /\ last'.a = a /\ last'.b = b
    BY ComputeFlags DEF Calculations
  <1>2. CASE op = "ADD"
    <2>1. Calculated(op, a, b) = Sum(a, b)
      BY <1>2 DEF Calculated
    <2> DEFINE h == SignBit
               s == Signed(a)
               t == Signed(b)
    <2>2. /\ a \in Nat /\ a < 2 * h /\ b \in Nat /\ b < 2 * h /\ h \in Nat \ {0}
          /\ Top = 2 * h - 1
          /\ s = (IF a < h THEN a ELSE a - 2 * h)
          /\ t = (IF b < h THEN b ELSE b - 2 * h)
          /\ a % h = (IF a < h THEN a ELSE a - h)
          /\ b % h = (IF b < h THEN b ELSE b - h)
      BY LowBits
    <2>3. /\ Sum(a, b).carry <=> a + b > Top \/ b = 0
          /\ Sum(a, b).overflow <=> ~ (Sum(a, b).carry <=> (a % h) + (b % h) >= h)
      BY SumFacts
    <2> HIDE DEF h, s, t
    <2>4. (register'["FL"] \div 2) % 2 = 1 <=> a + b > Top \/ b = 0
      BY <1>1, <2>1, <2>3
    <2>5. ASSUME b # 0 PROVE register'["FL"] % 2 = 1 <=> ~ (s + t \in - h .. h - 1)
      <3>1. Sum(a, b).overflow <=> ~ (s + t \in - h .. h - 1)
        BY <2>2, <2>3, <2>5
      <3> QED BY <1>1, <2>1, <3>1
    <2>6. SumExact'
      BY <1>1, <1>2, <2>4, <2>5 DEF SumExact, s, t, h
    <2> QED BY <1>1, <1>2, <2>6 DEF FlagsExact, ComparisonExact, EvalExact, RotationExact
  <1>3. CASE op = "SUB"
    <2>1. Calculated(op, a, b) = Sum(a, Negated(b))
      BY <1>3 DEF Calculated
    <2>2. /\ Sum(a, Negated(b)).carry <=> a >= b
          /\ ~SelfNegated(b) => (Sum(a, Negated(b)).overflow
                 <=> ~(Signed(a) - Signed(b) \in - SignBit .. SignBit - 1))
      BY DifferenceFacts
    <2>3. (register'["FL"] \div 2) % 2 = 1 <=> a >= b
      BY <1>1, <2>1, <2>2
    <2>4. ~SelfNegated(b) => (register'["FL"] % 2 = 1
                 <=> ~(Signed(a) - Signed(b) \in - SignBit .. SignBit - 1))
      BY <1>1, <2>1, <2>2
    <2>5. SumExact'
      BY <1>1, <1>3, <2>3, <2>4 DEF SumExact
    <2> QED BY <1>1, <1>3, <2>5 DEF FlagsExact, ComparisonExact, EvalExact, RotationExact
  <1>4. CASE op = "MUL"
    <2>1. Calculated(op, a, b) = Product(a, b)
      BY <1>4 DEF Calculated
    <2>2. register'["FL"] % 2 = 1 <=> b > 0 /\ a > Top \div b
      BY <1>1, <2>1, ProductFacts
    <2>3. SumExact'
      BY <1>1, <1>4, <2>2 DEF SumExact
    <2> QED BY <1>1, <1>4, <2>3 DEF FlagsExact, ComparisonExact, EvalExact, RotationExact
  <1> QED BY <1>2, <1>3, <1>4
-----------------------------------------------------------------------------
(* Rotations: a turn moves every bit, and the carry, to the next place. *)

LEMMA QuotientTwice ==
    ASSUME NEW v \in Int, NEW m \in Nat \ {0}, NEW n \in Nat \ {0}
    PROVE  /\ (v \div m) \div n = v \div (m * n)
           /\ v % (m * n) = (v % m) + m * ((v \div m) % n)
  <1> DEFINE x == v \div m
             r == v % m
             y == x \div n
             s == x % n
  <1>1. x \in Int /\ r \in 0 .. m - 1 /\ v = x * m + r
    OBVIOUS
  <1> HIDE DEF x, r
  <1>2. y \in Int /\ s \in 0 .. n - 1 /\ x = y * n + s
    BY <1>1
  <1> HIDE DEF y, s
  <1>3. v = y * (m * n) + (s * m + r)
    <2>1. x * m = (y * n) * m + s * m
      BY <1>1, <1>2
    <2>2. (y * n) * m = y * (m * n)
      BY <1>2
    <2>3. s * m \in Int /\ y * (m * n) \in Int
      BY <1>2
    <2> QED BY <1>1, <2>1, <2>2, <2>3
  <1>4. s * m + r \in 0 .. m * n - 1
    <2>1. (n - 1 - s) * m >= 0 /\ s * m >= 0
      BY <1>2
    <2>2. m * n = (n - 1 - s) * m + s * m + m
      BY <1>2
    <2>3. s * m \in Int /\ (n - 1 - s) * m \in Int /\ m * n \in Int
      BY <1>2
    <2> QED BY <1>1, <2>1, <2>2, <2>3
  <1>5. m * n \in Nat \ {0}
    OBVIOUS
  <1>6. v \div (m * n) = y /\ v % (m * n) = s * m + r
    <2> DEFINE w == m * n
               z == s * m + r
    <2>1. w \in Nat \ {0} /\ z \in 0 .. w - 1 /\ v = y * w + z
      BY <1>3, <1>4, <1>5
    <2> HIDE DEF w, z
    <2>2. v \div w = y /\ v % w = z
      BY <1>2, <2>1, Quotient
    <2> QED BY <2>2 DEF w, z
  <1>7. s * m + r = r + m * s
    BY <1>1, <1>2
  <1> QED BY <1>6, <1>7 DEF y, s, x, r

(* A bit is left alone by what is added above it. *)
LEMMA HigherBits ==
    ASSUME NEW v \in Int, NEW k \in Int, NEW m \in Nat \ {0}
    PROVE  ((v + k * (2 * m)) \div m) % 2 = (v \div m) % 2
  <1> DEFINE x == v \div m
             r == v % m
             w == v + k * (2 * m)
  <1>1. x \in Int /\ r \in 0 .. m - 1 /\ v = x * m + r
    OBVIOUS
  <1> HIDE DEF x, r
  <1>2. w = (x + 2 * k) * m + r /\ x + 2 * k \in Int
    BY <1>1
  <1> HIDE DEF w
  <1>3. w \div m = x + 2 * k
    BY <1>1, <1>2, Quotient
  <1>4. (x + 2 * k) % 2 = x % 2
    BY <1>1
  <1> QED BY <1>3, <1>4 DEF w, x

(* The word, and its carry as the bit above it. *)
BitOf(o, i) == IF i = WordBits THEN (IF o.carry THEN 1 ELSE 0) ELSE (o.value \div 2 ^ i) % 2

LEMMA WordPowers ==
    /\ WordBits \in Nat /\ WordBits >= 16
    /\ 2 ^ WordBits = WordSize /\ 2 ^ (WordBits - 1) = SignBit /\ 2 ^ 0 = 1
    /\ \A i \in Nat : 2 ^ i \in Nat \ {0} /\ 2 ^ (i + 1) = 2 * 2 ^ i
    /\ \A i \in 0 .. WordBits - 1 :
          \E k \in Nat : WordSize = k * (2 * 2 ^ i)
    /\ \A i \in 0 .. WordBits - 2 :
          \E k \in Nat : SignBit = k * (2 * 2 ^ i)
  <1>1. WordBits \in Nat /\ WordBits >= 16
    BY ProcessorAssumption DEF WordBits
  <1>2. 2 ^ 0 = 1 /\ 2 ^ WordBits = WordSize
    BY DEF WordSize
  <1>3. \A i \in Nat : 2 ^ i \in Nat \ {0} /\ 2 ^ (i + 1) = 2 * 2 ^ i
    BY PowerDoubles
  <1>4. 2 ^ (WordBits - 1) = SignBit
    <2>1. WordBits - 1 \in Nat /\ (WordBits - 1) + 1 = WordBits
      BY <1>1
    <2>2. 2 ^ (WordBits - 1) \in Nat /\ 2 ^ ((WordBits - 1) + 1) = 2 * 2 ^ (WordBits - 1)
      BY <1>3, <2>1
    <2> DEFINE h == 2 ^ (WordBits - 1)
    <2>3. WordSize = 2 * h /\ h \in Nat
      BY <1>2, <2>1, <2>2
    <2> HIDE DEF h
    <2>4. SignBit = h
      BY <2>3, WordHalved
    <2> QED BY <2>4 DEF h
  <1>5. ASSUME NEW j \in Nat, NEW i \in 0 .. j - 1
        PROVE  \E k \in Nat : 2 ^ j = k * (2 * 2 ^ i)
    <2>1. i + 1 \in Nat /\ j - (i + 1) \in Nat /\ (j - (i + 1)) + (i + 1) = j /\ i \in Nat
      OBVIOUS
    <2>2. 2 ^ ((j - (i + 1)) + (i + 1)) = 2 ^ (j - (i + 1)) * 2 ^ (i + 1)
      BY <2>1, PowerAdds
    <2>3. 2 ^ (i + 1) = 2 * 2 ^ i /\ 2 ^ (j - (i + 1)) \in Nat
      BY <1>3, <2>1
    <2> QED BY <2>1, <2>2, <2>3
  <1>6. \A i \in 0 .. WordBits - 1 : \E k \in Nat : WordSize = k * (2 * 2 ^ i)
    BY <1>1, <1>2, <1>5
  <1>7. \A i \in 0 .. WordBits - 2 : \E k \in Nat : SignBit = k * (2 * 2 ^ i)
    <2>1. WordBits - 1 \in Nat
      BY <1>1
    <2>2. ASSUME NEW i \in 0 .. WordBits - 2 PROVE i \in 0 .. (WordBits - 1) - 1
      BY <1>1
    <2> QED BY <1>4, <1>5, <2>1, <2>2
  <1> QED BY <1>1, <1>2, <1>3, <1>4, <1>6, <1>7

LEMMA LeftBits ==
    ASSUME NEW o \in Outcomes, NEW i \in 0 .. WordBits
    PROVE  BitOf(TurnedLeft(o), i) = IF i = 0 THEN BitOf(o, WordBits) ELSE BitOf(o, i - 1)
  <1> DEFINE v == o.value
             c == IF o.carry THEN 1 ELSE 0
             x == 2 * v + c
             w == x % WordSize
             t == TurnedLeft(o)
  <1>1. v \in Nat /\ v < WordSize /\ c \in {0, 1} /\ (c = 1 <=> o.carry) /\ WordSize \in Nat \ {0}
        /\ WordSize = 2 * SignBit /\ SignBit \in Nat \ {0} /\ o.carry \in BOOLEAN
    BY WordHalved DEF Outcomes, Top
  <1>2. t.value = w /\ (t.carry <=> v >= SignBit)
    BY DEF TurnedLeft, Outcome
  <1>3. BitOf(o, WordBits) = c
    BY DEF BitOf
  <1> HIDE DEF c, t, v, x, w
  <1>0. x \in Nat /\ x = 2 * v + c /\ w \in 0 .. WordSize - 1
        /\ x \div WordSize \in Int /\ x = (x \div WordSize) * WordSize + w
    <2>1. x \in Nat /\ x = 2 * v + c
      BY <1>1 DEF x
    <2>2. PICK q \in Int, r \in 0 .. WordSize - 1 :
              q = x \div WordSize /\ r = x % WordSize /\ x = q * WordSize + r
      <3>1. WordSize \in Nat \ {0} /\ x \in Int
        BY <1>1, <2>1
      <3> QED BY <3>1, Division, Zenon
    <2>3. w = r
      BY <2>2 DEF w
    <2> QED BY <2>1, <2>2, <2>3
  <1>4. CASE i = 0
    <2>1. 0 # WordBits /\ 2 ^ 0 = 1
      BY WordPowers
    <2>2. w \in Int /\ w % 2 = c
      <3> DEFINE q == x \div WordSize
      <3>1. q \in Int /\ x = q * (2 * SignBit) + w
        BY <1>0, <1>1
      <3> HIDE DEF q
      <3> DEFINE e == q * SignBit
      <3>2. q * (2 * SignBit) = 2 * e /\ e \in Int
        BY <1>1, <3>1
      <3> HIDE DEF e
      <3>3. w = 2 * (v - e) + c /\ v - e \in Int
        BY <1>0, <1>1, <3>1, <3>2
      <3> QED BY <1>0, <1>1, <3>3
    <2>3. BitOf(t, i) = (w \div 2 ^ 0) % 2
      BY <1>2, <1>4, <2>1 DEF BitOf
    <2>4. w \div 1 = w
      BY <2>2
    <2> QED BY <1>3, <1>4, <2>1, <2>2, <2>3, <2>4 DEF t
  <1>5. CASE i = WordBits
    <2>1. i - 1 # WordBits /\ i # 0 /\ 2 ^ (i - 1) = SignBit
      BY <1>5, WordPowers
    <2>2. BitOf(o, i - 1) = (v \div SignBit) % 2
      BY <2>1 DEF BitOf, v
    <2>3. v \div SignBit = IF v >= SignBit THEN 1 ELSE 0
      BY <1>1
    <2>4. BitOf(t, i) = IF v >= SignBit THEN 1 ELSE 0
      BY <1>2, <1>5 DEF BitOf
    <2> QED BY <2>1, <2>2, <2>3, <2>4 DEF t
  <1>6. CASE i \in 1 .. WordBits - 1
    <2> DEFINE m == 2 ^ i
               l == 2 ^ (i - 1)
    <2>1. /\ i \in Nat /\ i # WordBits /\ i - 1 # WordBits /\ i # 0 /\ i \in 0 .. WordBits - 1
          /\ i - 1 \in Nat /\ (i - 1) + 1 = i
      BY <1>6, WordPowers
    <2>2. m \in Nat \ {0} /\ l \in Nat \ {0}
      BY <2>1, WordPowers
    <2>3. m = 2 * l
      <3>1. 2 ^ ((i - 1) + 1) = 2 * 2 ^ (i - 1)
        BY <2>1, WordPowers
      <3> QED BY <2>1, <3>1
    <2>4. PICK k \in Nat : WordSize = k * (2 * m)
      BY <2>1, WordPowers
    <2>5. BitOf(t, i) = (w \div m) % 2 /\ BitOf(o, i - 1) = (v \div l) % 2
      BY <1>2, <2>1 DEF BitOf, v
    <2>6. (w \div m) % 2 = (x \div m) % 2
      <3> DEFINE q == x \div WordSize
                 j == q * k
      <3>1. q \in Int /\ w \in Int /\ x = q * WordSize + w
        BY <1>0
      <3> HIDE DEF q, m
      <3>2. q * WordSize = j * (2 * m) /\ j \in Int
        BY <2>2, <2>4, <3>1
      <3> HIDE DEF j
      <3>3. x = w + j * (2 * m)
        BY <2>2, <3>1, <3>2
      <3>4. ((w + j * (2 * m)) \div m) % 2 = (w \div m) % 2
        BY <2>2, <3>1, <3>2, HigherBits
      <3> QED BY <3>3, <3>4
    <2>7. x \div m = v \div l
      <3>1. x \in Int /\ x \div 2 = v
        BY <1>0, <1>1
      <3> HIDE DEF l, m
      <3>2. \A n \in Nat \ {0} : (x \div n) \div l = x \div (n * l)
        BY <2>2, <3>1, QuotientTwice
      <3>3. (x \div 2) \div l = x \div (2 * l)
        BY <3>2
      <3> QED BY <2>3, <3>1, <3>3
    <2> HIDE DEF l, m
    <2> QED BY <2>1, <2>5, <2>6, <2>7 DEF t
  <1> QED BY <1>4, <1>5, <1>6, WordPowers

LEMMA RightBits ==
    ASSUME NEW o \in Outcomes, NEW i \in 0 .. WordBits
    PROVE  BitOf(TurnedRight(o), i) = IF i = WordBits THEN BitOf(o, 0) ELSE BitOf(o, i + 1)
  <1> DEFINE v == o.value
             c == IF o.carry THEN 1 ELSE 0
             u == v \div 2
             w == u + (IF o.carry THEN SignBit ELSE 0)
             t == TurnedRight(o)
  <1>1. v \in Nat /\ v < WordSize /\ c \in {0, 1} /\ (c = 1 <=> o.carry) /\ WordSize \in Nat \ {0}
        /\ WordSize = 2 * SignBit /\ SignBit \in Nat \ {0} /\ o.carry \in BOOLEAN
    BY WordHalved DEF Outcomes, Top
  <1>2. t.value = w /\ (t.carry <=> v % 2 = 1)
    BY DEF TurnedRight, Outcome
  <1>3. BitOf(o, WordBits) = c
    BY DEF BitOf
  <1>4. w = u + c * SignBit /\ u \in Nat /\ u < SignBit
    BY <1>1
  <1> HIDE DEF c, t, w
  <1>5. CASE i = WordBits
    <2>1. 0 # WordBits /\ 2 ^ 0 = 1 /\ v \div 1 = v /\ v % 2 \in {0, 1}
      BY <1>1, WordPowers
    <2>2. BitOf(o, 0) = (v \div 2 ^ 0) % 2
      BY <2>1 DEF BitOf
    <2>3. BitOf(t, i) = IF t.carry THEN 1 ELSE 0
      BY <1>5 DEF BitOf
    <2> QED BY <1>2, <1>5, <2>1, <2>2, <2>3 DEF t
  <1>6. CASE i = WordBits - 1
    <2>1. i # WordBits /\ i + 1 = WordBits /\ 2 ^ i = SignBit
      BY <1>6, WordPowers
    <2>2. BitOf(t, i) = (w \div SignBit) % 2
      BY <1>2, <2>1 DEF BitOf
    <2>3. w \div SignBit = c
      <3> HIDE DEF u
      <3>1. u \in 0 .. SignBit - 1 /\ c \in Int
        BY <1>1, <1>4
      <3>2. w = c * SignBit + u
        BY <1>1, <1>4
      <3> QED BY <1>1, <3>1, <3>2, Quotient
    <2> QED BY <1>1, <1>3, <2>1, <2>2, <2>3 DEF t
  <1>7. CASE i \in 0 .. WordBits - 2
    <2> DEFINE m == 2 ^ i
               l == 2 ^ (i + 1)
    <2>1. i \in Nat /\ i # WordBits /\ i + 1 # WordBits /\ i + 1 \in Nat
      BY <1>7, WordPowers
    <2>2. m \in Nat \ {0} /\ l = 2 * m
      BY <2>1, WordPowers
    <2>3. PICK k \in Nat : SignBit = k * (2 * m)
      BY <1>7, WordPowers
    <2>4. BitOf(t, i) = (w \div m) % 2 /\ BitOf(o, i + 1) = (v \div l) % 2
      BY <1>2, <2>1 DEF BitOf
    <2> HIDE DEF m, l
    <2>5. (w \div m) % 2 = (u \div m) % 2
      <3> DEFINE j == c * k
      <3>1. c * SignBit = j * (2 * m) /\ j \in Int
        BY <1>1, <2>2, <2>3
      <3> HIDE DEF u, j
      <3>2. w = u + j * (2 * m) /\ u \in Int
        BY <1>1, <1>4, <2>2, <3>1
      <3>3. ((u + j * (2 * m)) \div m) % 2 = (u \div m) % 2
        BY <2>2, <3>1, <3>2, HigherBits
      <3> QED BY <3>2, <3>3
    <2>6. u \div m = v \div l
      <3>1. v \in Int /\ 2 \in Nat \ {0} /\ m \in Nat \ {0}
        BY <1>1, <2>2
      <3>2. (v \div 2) \div m = v \div (2 * m)
        BY <3>1, QuotientTwice, Zenon
      <3> QED BY <1>1, <2>2, <3>2
    <2> QED BY <2>1, <2>4, <2>5, <2>6 DEF t
  <1> QED BY <1>5, <1>6, <1>7, WordPowers

LEMMA BitTyped ==
    ASSUME NEW o \in Outcomes, NEW i \in 0 .. WordBits
    PROVE  BitOf(o, i) \in {0, 1}
  <1>1. o.value \in Nat
    BY WordHalved DEF Outcomes, Top
  <1>2. i \in Nat /\ 2 ^ i \in Nat \ {0}
    BY WordPowers
  <1> DEFINE m == 2 ^ i
  <1> HIDE DEF m
  <1>3. (o.value \div m) % 2 \in {0, 1}
    <2>1. o.value \div m \in Int
      BY <1>1, <1>2 DEF m
    <2> QED BY <2>1
  <1> QED BY <1>3 DEF BitOf, m

(* After n turns, every bit is n places on. *)
LEMMA LeftRotation ==
    ASSUME NEW a \in 0 .. Top, NEW c \in BOOLEAN, NEW n \in 0 .. WordBits - 1,
           NEW i \in 0 .. WordBits
    PROVE  /\ RotateLeft(a, c, n) \in Outcomes
           /\ BitOf(RotateLeft(a, c, n), i)
                 = BitOf(Outcome(a, c, FALSE), IF i >= n THEN i - n ELSE i + WordBits + 1 - n)
  <1>1. WordBits \in Nat /\ n \in Nat
    BY WordPowers
  <1>2. PICK f : /\ RotateLeft(a, c, n) = f[n]
                 /\ f \in [0 .. n -> Outcomes]
                 /\ f[0] = Outcome(a, c, FALSE)
                 /\ \A k \in 1 .. n : f[k] = TurnedLeft(f[k - 1])
    BY <1>1, LeftTurns
  <1> DEFINE from(k, j) == IF j >= k THEN j - k ELSE j + WordBits + 1 - k
             S == {k \in Nat : k <= n =>
                     \A j \in 0 .. WordBits : BitOf(f[k], j) = BitOf(f[0], from(k, j))}
  <1>3. 0 \in S
    <2>1. \A j \in 0 .. WordBits : from(0, j) = j
      BY <1>1
    <2> HIDE DEF from
    <2> QED BY <2>1
  <1>4. ASSUME NEW k \in Nat, k \in S PROVE k + 1 \in S
    <2>1. SUFFICES ASSUME k + 1 <= n, NEW j \in 0 .. WordBits
                   PROVE  BitOf(f[k + 1], j) = BitOf(f[0], from(k + 1, j))
      BY <1>4
    <2>2. f[k + 1] = TurnedLeft(f[k]) /\ f[k] \in Outcomes /\ k <= n
      <3>1. k + 1 \in 1 .. n /\ (k + 1) - 1 = k /\ k \in 0 .. n
        BY <1>1, <2>1
      <3> QED BY <1>2, <3>1
    <2>3. BitOf(f[k + 1], j) = IF j = 0 THEN BitOf(f[k], WordBits) ELSE BitOf(f[k], j - 1)
      BY <2>2, LeftBits
    <2>4. \A l \in 0 .. WordBits : BitOf(f[k], l) = BitOf(f[0], from(k, l))
      BY <1>4, <2>2
    <2>5. CASE j = 0
      <3>1. from(k, WordBits) = from(k + 1, j)
        BY <1>1, <2>1, <2>5
      <3>2. WordBits \in 0 .. WordBits
        BY <1>1
      <3> HIDE DEF from
      <3> QED BY <2>3, <2>4, <2>5, <3>1, <3>2
    <2>6. CASE j # 0
      <3>1. from(k, j - 1) = from(k + 1, j) /\ j - 1 \in 0 .. WordBits
        BY <1>1, <2>1, <2>6
      <3> HIDE DEF from
      <3> QED BY <2>3, <2>4, <2>6, <3>1
    <2> QED BY <2>5, <2>6
  <1>5. n \in S
    <2> HIDE DEF S
    <2> QED BY <1>1, <1>3, <1>4, SetInduction
  <1>6. BitOf(f[n], i) = BitOf(f[0], from(n, i))
    BY <1>1, <1>5
  <1>7. f[n] \in Outcomes
    BY <1>1, <1>2
  <1> QED BY <1>2, <1>6, <1>7

LEMMA RightRotation ==
    ASSUME NEW a \in 0 .. Top, NEW c \in BOOLEAN, NEW n \in 0 .. WordBits - 1,
           NEW i \in 0 .. WordBits
    PROVE  /\ RotateRight(a, c, n) \in Outcomes
           /\ BitOf(RotateRight(a, c, n), i)
                 = BitOf(Outcome(a, c, FALSE),
                         IF i + n <= WordBits THEN i + n ELSE i + n - WordBits - 1)
  <1>1. WordBits \in Nat /\ n \in Nat
    BY WordPowers
  <1>2. PICK f : /\ RotateRight(a, c, n) = f[n]
                 /\ f \in [0 .. n -> Outcomes]
                 /\ f[0] = Outcome(a, c, FALSE)
                 /\ \A k \in 1 .. n : f[k] = TurnedRight(f[k - 1])
    BY <1>1, RightTurns
  <1> DEFINE from(k, j) == IF j + k <= WordBits THEN j + k ELSE j + k - WordBits - 1
             S == {k \in Nat : k <= n =>
                     \A j \in 0 .. WordBits : BitOf(f[k], j) = BitOf(f[0], from(k, j))}
  <1>3. 0 \in S
    <2>1. \A j \in 0 .. WordBits : from(0, j) = j
      BY <1>1
    <2> HIDE DEF from
    <2> QED BY <2>1
  <1>4. ASSUME NEW k \in Nat, k \in S PROVE k + 1 \in S
    <2>1. SUFFICES ASSUME k + 1 <= n, NEW j \in 0 .. WordBits
                   PROVE  BitOf(f[k + 1], j) = BitOf(f[0], from(k + 1, j))
      BY <1>4
    <2>2. f[k + 1] = TurnedRight(f[k]) /\ f[k] \in Outcomes /\ k <= n
      <3>1. k + 1 \in 1 .. n /\ (k + 1) - 1 = k /\ k \in 0 .. n
        BY <1>1, <2>1
      <3> QED BY <1>2, <3>1
    <2>3. BitOf(f[k + 1], j) = IF j = WordBits THEN BitOf(f[k], 0) ELSE BitOf(f[k], j + 1)
      BY <2>2, RightBits
    <2>4. \A l \in 0 .. WordBits : BitOf(f[k], l) = BitOf(f[0], from(k, l))
      BY <1>4, <2>2
    <2>5. CASE j = WordBits
      <3>1. from(k, 0) = from(k + 1, j)
        BY <1>1, <2>1, <2>5
      <3>2. 0 \in 0 .. WordBits
        BY <1>1
      <3> HIDE DEF from
      <3> QED BY <2>3, <2>4, <2>5, <3>1, <3>2
    <2>6. CASE j # WordBits
      <3>1. from(k, j + 1) = from(k + 1, j) /\ j + 1 \in 0 .. WordBits
        BY <1>1, <2>1, <2>6
      <3> HIDE DEF from
      <3> QED BY <2>3, <2>4, <2>6, <3>1
    <2> QED BY <2>5, <2>6
  <1>5. n \in S
    <2> HIDE DEF S
    <2> QED BY <1>1, <1>3, <1>4, SetInduction
  <1>6. BitOf(f[n], i) = BitOf(f[0], from(n, i))
    BY <1>1, <1>5
  <1>7. f[n] \in Outcomes
    BY <1>1, <1>2
  <1> QED BY <1>2, <1>6, <1>7

(* Where a bit comes from. *)
Source(op, n, i) ==
    IF op = "BSLC" THEN (IF i >= n THEN i - n ELSE i + WordBits + 1 - n)
    ELSE (IF i + n <= WordBits THEN i + n ELSE i + n - WordBits - 1)

LEMMA SourceModulo ==
    ASSUME NEW op \in {"BSLC", "BSRC"}, NEW n \in 0 .. WordBits - 1, NEW i \in 0 .. WordBits
    PROVE  /\ (i + (IF op = "BSLC" THEN WordBits + 1 - n ELSE n)) % (WordBits + 1)
                 = Source(op, n, i)
           /\ Source(op, n, i) \in 0 .. WordBits
  <1> DEFINE bits == WordBits + 1
             s == Source(op, n, i)
             x == i + (IF op = "BSLC" THEN bits - n ELSE n)
  <1>1. WordBits \in Nat
    BY WordPowers
  <1>2. bits \in Nat \ {0} /\ s \in 0 .. bits - 1 /\ (x = s \/ x = bits + s)
    BY <1>1 DEF Source
  <1> HIDE DEF bits, s, x
  <1>3. x % bits = s
    <2>1. CASE x = s
      <3>1. x = 0 * bits + s
        BY <1>2, <2>1
      <3> QED BY <1>2, <2>1
    <2>2. CASE x = bits + s
      <3>1. (bits + s) % bits = s
        BY <1>2
      <3> QED BY <2>2, <3>1
    <2> QED BY <1>2, <2>1, <2>2
  <1> QED BY <1>1, <1>2, <1>3 DEF bits, s, x

LEMMA RotationIsExact ==
    ASSUME Ready, NEW op \in {"BSLC", "BSRC"}, NEW d \in Selected, NEW a \in 0 .. Top,
           NEW b \in 0 .. Top, NEW length, Compute(op, d, a, b, length)
    PROVE  FlagsExact'
  <1> DEFINE n == b % WordBits
             o == Calculated(op, a, b)
             start == Outcome(a, Carry, FALSE)
  <1>1. WordBits \in Nat /\ n \in 0 .. WordBits - 1
    <2>1. WordBits \in Nat \ {0} /\ b \in Nat
      BY WordPowers, WordHalved DEF Top
    <2> QED BY <2>1
  <1>2. Carry \in BOOLEAN
    BY DEF Carry
  <1>3. /\ o \in Outcomes
        /\ \A i \in 0 .. WordBits : BitOf(o, i) = BitOf(start, Source(op, n, i))
    <2> HIDE DEF n
    <2>1. CASE op = "BSLC"
      <3>1. o = RotateLeft(a, Carry, n)
        BY <2>1 DEF Calculated, n
      <3>2. ASSUME NEW i \in 0 .. WordBits
            PROVE  o \in Outcomes /\ BitOf(o, i) = BitOf(start, Source(op, n, i))
        <4> HIDE DEF o
        <4> QED BY <1>1, <1>2, <2>1, <3>1, LeftRotation DEF Source
      <3>3. 0 \in 0 .. WordBits
        BY <1>1
      <3> QED BY <3>2, <3>3
    <2>2. CASE op = "BSRC"
      <3>1. o = RotateRight(a, Carry, n)
        BY <2>2 DEF Calculated, n
      <3>2. ASSUME NEW i \in 0 .. WordBits
            PROVE  o \in Outcomes /\ BitOf(o, i) = BitOf(start, Source(op, n, i))
        <4> HIDE DEF o
        <4> QED BY <1>1, <1>2, <2>2, <3>1, RightRotation DEF Source
      <3>3. 0 \in 0 .. WordBits
        BY <1>1
      <3> QED BY <3>2, <3>3
    <2> QED BY <2>1, <2>2
  <1>4. /\ (register'["FL"] \div 2) % 2 = 1 <=> o.carry
        /\ register' = Put(Put(register, d, o.value), "FL", FlagsOf(o))
        /\ FlagsOf(o) \in 0 .. 15
        /\ last'.op = op /\ last'.a = a /\ last'.b = b /\ last'.carry = Carry /\ last'.d = d
    BY ComputeFlags DEF Calculations
  <1> HIDE DEF o
  <1>5. (register'["FL"] \div 2) % 2 = BitOf(o, WordBits)
    <2>1. register'["FL"] = FlagsOf(o)
      <3>1. o.value \in Int
        BY <1>3, WordHalved DEF Outcomes, Top
      <3> QED BY <1>4, <3>1, FlagsPut, PutTyped, SelectedTyped
    <2>2. (register'["FL"] \div 2) % 2 \in {0, 1}
      BY <1>4, <2>1
    <2> QED BY <1>4, <2>2 DEF BitOf
  <1>6. ASSUME d # "FL", Size(d) = 4 PROVE register'[d] = o.value
    <2>1. o.value \in 0 .. Top /\ d \in Registers
      BY <1>3, SelectedTyped DEF Outcomes
    <2>2. register'[d] = o.value % WordSize
      BY <1>4, <1>6, <2>1, Sizes, SelectedTyped DEF Put, RegistersTyped
    <2> QED BY <2>1, <2>2, WordHalved DEF Top
  <1>7. last'.op = op /\ last'.a = a /\ last'.b = b /\ last'.carry = Carry /\ last'.d = d
    BY <1>4
  <1> DEFINE bits == WordBits + 1
             whole(i) == IF i = WordBits THEN (IF last'.carry THEN 1 ELSE 0)
                         ELSE (last'.a \div (2 ^ i)) % 2
             shift == IF last'.op = "BSLC" THEN bits - (last'.b % WordBits)
                      ELSE last'.b % WordBits
             turned(i) == whole((i + shift) % bits)
  <1>8. ASSUME NEW i \in 0 .. WordBits PROVE turned(i) = BitOf(o, i)
    <2>1. \A j \in 0 .. WordBits : whole(j) = BitOf(start, j)
      BY <1>7 DEF BitOf, Outcome
    <2>2. shift = IF op = "BSLC" THEN bits - n ELSE n
      <3>1. last'.b % WordBits = n /\ last'.op = op
        BY <1>7
      <3> HIDE DEF n, bits
      <3> QED BY <3>1, Zenon
    <2> HIDE DEF whole, start, n, shift
    <2>3. (i + shift) % bits = Source(op, n, i) /\ Source(op, n, i) \in 0 .. WordBits
      BY <1>1, <2>2, SourceModulo
    <2> HIDE DEF bits
    <2>4. turned(i) = whole(Source(op, n, i))
      BY <2>3
    <2> QED BY <1>3, <2>1, <2>3, <2>4
  <1>9. (register'["FL"] \div 2) % 2 = turned(WordBits)
    <2>1. WordBits \in 0 .. WordBits
      BY <1>1
    <2> HIDE DEF turned
    <2> QED BY <1>5, <1>8, <2>1
  <1>10. ASSUME d # "FL", Size(d) = 4, NEW i \in 0 .. WordBits - 1
         PROVE  (register'[d] \div (2 ^ i)) % 2 = turned(i)
    <2>1. i \in 0 .. WordBits /\ i # WordBits
      BY <1>1
    <2> HIDE DEF turned
    <2> QED BY <1>6, <1>8, <1>10, <2>1 DEF BitOf
  <1>11. RotationExact'
    <2>1. SUFFICES ASSUME d # "FL"
                   PROVE  /\ (register'["FL"] \div 2) % 2 = turned(WordBits)
                          /\ Size(d) = 4 => \A i \in 0 .. WordBits - 1 :
                                (register'[d] \div (2 ^ i)) % 2 = turned(i)
      BY <1>7, Zenon DEF RotationExact
    <2> HIDE DEF turned
    <2> QED BY <2>1, <1>9, <1>10
  <1> QED BY <1>7, <1>11 DEF FlagsExact, ComparisonExact, EvalExact, SumExact

-----------------------------------------------------------------------------
(* The bitwise instructions.  A number built from bits, from the lowest up, *)
(* has these bits. *)

LEMMA BitsBuilt ==
    ASSUME NEW f, NEW g \in [0 .. WordBits - 1 -> {0, 1}], f[0] = 0,
           \A k \in 1 .. WordBits : f[k] = f[k - 1] + 2 ^ (k - 1) * g[k - 1]
    PROVE  /\ f[WordBits] \in 0 .. Top
           /\ \A i \in 0 .. WordBits - 1 : (f[WordBits] \div 2 ^ i) % 2 = g[i]
  <1> DEFINE S == {k \in Nat : k <= WordBits =>
                     /\ f[k] \in 0 .. 2 ^ k - 1
                     /\ \A i \in 0 .. k - 1 : (f[k] \div 2 ^ i) % 2 = g[i]}
  <1>1. WordBits \in Nat /\ 2 ^ WordBits = WordSize /\ 2 ^ 0 = 1
    BY WordPowers
  <1>2. 0 \in S
    BY <1>1
  <1>3. ASSUME NEW k \in Nat, k \in S PROVE k + 1 \in S
    <2> SUFFICES ASSUME k + 1 <= WordBits
                 PROVE  /\ f[k + 1] \in 0 .. 2 ^ (k + 1) - 1
                        /\ \A i \in 0 .. k : (f[k + 1] \div 2 ^ i) % 2 = g[i]
      OBVIOUS
    <2> DEFINE p == 2 ^ k
               v == f[k]
               w == f[k + 1]
    <2>1. p \in Nat \ {0} /\ 2 ^ (k + 1) = 2 * p
      BY PowerDoubles
    <2>2. g[k] \in {0, 1}
      BY <1>1
    <2>3. k + 1 \in 1 .. WordBits /\ (k + 1) - 1 = k
      BY <1>1
    <2>4. w = v + p * g[k]
      BY <2>3
    <2>5. v \in 0 .. p - 1 /\ \A i \in 0 .. k - 1 : (v \div 2 ^ i) % 2 = g[i]
      BY <1>1, <1>3
    <2> HIDE DEF S, p, v, w
    <2>6. w = g[k] * p + v
      BY <2>1, <2>2, <2>4, <2>5
    <2>7. w \in 0 .. 2 * p - 1
      BY <2>1, <2>2, <2>5, <2>6
    <2>8. (w \div p) % 2 = g[k]
      <3>1. g[k] \in Int
        BY <2>2
      <3>2. p \in Nat \ {0} /\ v \in 0 .. p - 1
        BY <2>1, <2>5
      <3>3. w \div p = g[k]
        BY <2>6, <3>1, <3>2, Quotient, Zenon
      <3> QED BY <2>2, <3>3
    <2>9. ASSUME NEW i \in 0 .. k - 1 PROVE (w \div 2 ^ i) % 2 = g[i]
      <3> DEFINE m == 2 ^ i
                 n == 2 ^ (k - i - 1)
      <3>1. i \in Nat /\ i + 1 \in Nat /\ k - i - 1 \in Nat /\ (i + 1) + (k - i - 1) = k
        OBVIOUS
      <3>2. m \in Nat \ {0} /\ 2 ^ (i + 1) = 2 * m /\ n \in Nat \ {0}
        BY <3>1, PowerDoubles
      <3>3. p = 2 ^ (i + 1) * n
        BY <3>1, PowerAdds DEF p
      <3> HIDE DEF m, n
      <3> DEFINE h == g[k] * n
      <3>4. h \in Int /\ w = v + h * (2 * m)
        <4>1. v \in Int /\ p \in Int /\ p = n * (2 * m)
          BY <2>1, <2>5, <3>2, <3>3
        <4>2. CASE g[k] = 0
          BY <2>6, <3>2, <4>1, <4>2
        <4>3. CASE g[k] = 1
          BY <2>6, <3>2, <4>1, <4>3
        <4> QED BY <2>2, <4>2, <4>3
      <3> HIDE DEF h
      <3>5. v \in Int
        BY <2>1, <2>5
      <3>6. ((v + h * (2 * m)) \div m) % 2 = (v \div m) % 2
        BY <3>2, <3>4, <3>5, HigherBits
      <3>7. (v \div m) % 2 = g[i]
        BY <2>5 DEF m
      <3> QED BY <3>4, <3>6, <3>7 DEF m
    <2>10. ASSUME NEW i \in 0 .. k PROVE (w \div 2 ^ i) % 2 = g[i]
      <3>1. CASE i = k
        BY <2>8, <3>1 DEF p
      <3>2. CASE i # k
        <4>1. i \in 0 .. k - 1
          BY <3>2
        <4> QED BY <2>9, <4>1
      <3> QED BY <3>1, <3>2
    <2> QED BY <2>1, <2>7, <2>10 DEF w
  <1> HIDE DEF S
  <1>4. WordBits \in S
    BY <1>1, <1>2, <1>3, SetInduction
  <1> QED BY <1>1, <1>4 DEF S, Top

(* A word is built from its own bits. *)
LEMMA BitsOf ==
    ASSUME NEW a \in 0 .. Top
    PROVE  /\ a % 2 ^ WordBits = a /\ a % 2 ^ 0 = 0
           /\ \A k \in 1 .. WordBits :
                 /\ (a \div 2 ^ (k - 1)) % 2 \in {0, 1}
                 /\ a % 2 ^ k \in Int
                 /\ a % 2 ^ k = (a % 2 ^ (k - 1)) + 2 ^ (k - 1) * ((a \div 2 ^ (k - 1)) % 2)
  <1>1. a \in Int /\ a \in 0 .. WordSize - 1 /\ WordSize \in Nat
    BY WordHalved DEF Top
  <1>2. WordBits \in Nat /\ 2 ^ WordBits = WordSize /\ 2 ^ 0 = 1
    BY WordPowers
  <1>3. a % WordSize = a
    BY <1>1, SmallModulo
  <1>4. a % 1 = 0
    BY <1>1
  <1>5. ASSUME NEW k \in 1 .. WordBits
        PROVE  /\ (a \div 2 ^ (k - 1)) % 2 \in {0, 1}
               /\ a % 2 ^ k \in Int
               /\ a % 2 ^ k = (a % 2 ^ (k - 1)) + 2 ^ (k - 1) * ((a \div 2 ^ (k - 1)) % 2)
    <2> DEFINE p == 2 ^ (k - 1)
    <2>1. k - 1 \in Nat /\ (k - 1) + 1 = k
      BY <1>2
    <2>2. p \in Nat \ {0} /\ 2 ^ ((k - 1) + 1) = 2 * p
      BY <2>1, PowerDoubles
    <2>3. 2 ^ k = 2 * p
      BY <2>1, <2>2
    <2> HIDE DEF p
    <2>4. a \div p \in Int /\ a % (2 * p) \in Int
      BY <1>1, <2>2
    <2>5. (a \div p) % 2 \in {0, 1}
      BY <2>4
    <2>6. a % (p * 2) = (a % p) + p * ((a \div p) % 2)
      <3>1. a \in Int /\ p \in Nat \ {0} /\ 2 \in Nat \ {0}
        BY <1>1, <2>2
      <3> QED BY <3>1, QuotientTwice, Zenon
    <2>7. p * 2 = 2 * p
      BY <2>2
    <2> QED BY <2>3, <2>4, <2>5, <2>6, <2>7 DEF p
  <1> QED BY <1>2, <1>3, <1>4, <1>5

(* The bit that an instruction makes of two. *)
Joined(op, x, y) ==
    CASE op = "AND" -> IF x = 1 /\ y = 1 THEN 1 ELSE 0
      [] op = "OR"  -> IF x = 1 \/ y = 1 THEN 1 ELSE 0
      [] op = "XOR" -> IF x = y THEN 0 ELSE 1

(***************************************************************************)
(* AND, OR and XOR (doMath) give a word whose every bit is that of their   *)
(* operands' bits: the sums that stand for a | b and a ^ b in the model    *)
(* are the code's bitwise operators, for words of any width.               *)
(***************************************************************************)
THEOREM LogicIsBitwise ==
    ASSUME NEW op \in {"AND", "OR", "XOR"}, NEW a \in 0 .. Top, NEW b \in 0 .. Top
    PROVE  /\ Calculated(op, a, b).value \in 0 .. Top
           /\ \A i \in 0 .. WordBits - 1 :
                 (Calculated(op, a, b).value \div 2 ^ i) % 2
                    = Joined(op, (a \div 2 ^ i) % 2, (b \div 2 ^ i) % 2)
  <1>1. PICK f \in [0 .. WordBits -> Int] :
           /\ f[0] = 0
           /\ \A k \in 1 .. WordBits :
                 f[k] = f[k - 1] + 2 ^ (k - 1) * ((a \div 2 ^ (k - 1)) % 2)
                                               * ((b \div 2 ^ (k - 1)) % 2)
           /\ Shared(a, b) = f[WordBits]
    BY SharedBuilt
  <1>2. WordBits \in Nat /\ WordBits >= 16
    BY WordPowers
  <1> DEFINE x == [i \in 0 .. WordBits - 1 |-> (a \div 2 ^ i) % 2]
             y == [i \in 0 .. WordBits - 1 |-> (b \div 2 ^ i) % 2]
             A == [k \in 0 .. WordBits |-> a % 2 ^ k]
             B == [k \in 0 .. WordBits |-> b % 2 ^ k]
             g == [i \in 0 .. WordBits - 1 |-> Joined(op, x[i], y[i])]
             h == [k \in 0 .. WordBits |-> CASE op = "AND" -> f[k]
                                             [] op = "OR"  -> A[k] + B[k] - f[k]
                                             [] op = "XOR" -> A[k] + B[k] - 2 * f[k]]
  <1>3. /\ A[0] = 0 /\ A[WordBits] = a /\ B[0] = 0 /\ B[WordBits] = b
        /\ \A k \in 1 .. WordBits :
              /\ x[k - 1] \in {0, 1} /\ y[k - 1] \in {0, 1}
              /\ A[k] = A[k - 1] + 2 ^ (k - 1) * x[k - 1]
              /\ B[k] = B[k - 1] + 2 ^ (k - 1) * y[k - 1]
    <2>1. /\ a % 2 ^ WordBits = a /\ a % 2 ^ 0 = 0 /\ b % 2 ^ WordBits = b /\ b % 2 ^ 0 = 0
          /\ 0 \in 0 .. WordBits /\ WordBits \in 0 .. WordBits
      BY <1>2, BitsOf
    <2>2. A[0] = 0 /\ A[WordBits] = a /\ B[0] = 0 /\ B[WordBits] = b
      BY <2>1
    <2>3. ASSUME NEW k \in 1 .. WordBits
          PROVE  /\ x[k - 1] \in {0, 1} /\ y[k - 1] \in {0, 1}
                 /\ A[k] = A[k - 1] + 2 ^ (k - 1) * x[k - 1]
                 /\ B[k] = B[k - 1] + 2 ^ (k - 1) * y[k - 1]
      <3>1. k \in 0 .. WordBits /\ k - 1 \in 0 .. WordBits /\ k - 1 \in 0 .. WordBits - 1
        BY <1>2
      <3>2. /\ x[k - 1] = (a \div 2 ^ (k - 1)) % 2 /\ y[k - 1] = (b \div 2 ^ (k - 1)) % 2
            /\ A[k] = a % 2 ^ k /\ A[k - 1] = a % 2 ^ (k - 1)
            /\ B[k] = b % 2 ^ k /\ B[k - 1] = b % 2 ^ (k - 1)
        BY <3>1, Zenon
      <3> HIDE DEF x, y, A, B
      <3>3. /\ (a \div 2 ^ (k - 1)) % 2 \in {0, 1}
            /\ a % 2 ^ k = (a % 2 ^ (k - 1)) + 2 ^ (k - 1) * ((a \div 2 ^ (k - 1)) % 2)
            /\ (b \div 2 ^ (k - 1)) % 2 \in {0, 1}
            /\ b % 2 ^ k = (b % 2 ^ (k - 1)) + 2 ^ (k - 1) * ((b \div 2 ^ (k - 1)) % 2)
        BY BitsOf, Zenon
      <3> QED BY <3>2, <3>3, Zenon
    <2> HIDE DEF x, y, A, B
    <2> QED BY <2>2, <2>3
  <1>4. ASSUME NEW k \in 0 .. WordBits PROVE A[k] \in Int /\ B[k] \in Int
    <2>1. CASE k = 0
      BY <1>3, <2>1
    <2>2. CASE k # 0
      <3>1. k \in 1 .. WordBits
        BY <1>2, <2>2
      <3> QED BY <3>1, BitsOf
    <2> QED BY <2>1, <2>2
  <1>5. \A k \in 1 .. WordBits : f[k] = f[k - 1] + 2 ^ (k - 1) * x[k - 1] * y[k - 1]
    BY <1>1, <1>2
  <1> HIDE DEF x, y, A, B
  <1>6. g \in [0 .. WordBits - 1 -> {0, 1}]
    BY DEF Joined
  <1>7. h[0] = 0
    BY <1>1, <1>2, <1>3
  <1>8. ASSUME NEW k \in 1 .. WordBits
        PROVE  h[k] = h[k - 1] + 2 ^ (k - 1) * g[k - 1]
    <2> DEFINE p == 2 ^ (k - 1)
               i == k - 1
    <2>1. i \in 0 .. WordBits - 1 /\ i \in 0 .. WordBits /\ k \in 0 .. WordBits
      BY <1>2
    <2>2. p \in Nat
      BY <2>1, PowerDoubles
    <2>3. x[i] \in {0, 1} /\ y[i] \in {0, 1}
      BY <1>3
    <2>4. A[k] = A[i] + p * x[i] /\ B[k] = B[i] + p * y[i] /\ f[k] = f[i] + p * x[i] * y[i]
      BY <1>3, <1>5
    <2>5. A[i] \in Int /\ B[i] \in Int /\ f[i] \in Int
      BY <1>1, <1>4, <2>1
    <2>6. g[i] = Joined(op, x[i], y[i])
      BY <2>1
    <2> HIDE DEF p, i, g
    <2>7. CASE op = "AND"
      <3>1. h[k] = f[k] /\ h[i] = f[i]
        BY <2>1, <2>7
      <3>2. g[i] = x[i] * y[i]
        BY <2>3, <2>6, <2>7 DEF Joined
      <3> HIDE DEF h
      <3>3. h[k] = h[i] + p * g[i]
        <4>1. CASE x[i] = 0
          BY <2>2, <2>3, <2>4, <2>5, <3>1, <3>2, <4>1
        <4>2. CASE x[i] = 1
          BY <2>2, <2>3, <2>4, <2>5, <3>1, <3>2, <4>2
        <4> QED BY <2>3, <4>1, <4>2
      <3> QED BY <3>3 DEF p, i
    <2>8. CASE op = "OR"
      <3>1. h[k] = A[k] + B[k] - f[k] /\ h[i] = A[i] + B[i] - f[i]
        BY <2>1, <2>8
      <3>2. g[i] = x[i] + y[i] - x[i] * y[i]
        BY <2>3, <2>6, <2>8 DEF Joined
      <3> HIDE DEF h
      <3>3. h[k] = h[i] + p * g[i]
        <4>1. CASE x[i] = 0
          BY <2>2, <2>3, <2>4, <2>5, <3>1, <3>2, <4>1
        <4>2. CASE x[i] = 1
          BY <2>2, <2>3, <2>4, <2>5, <3>1, <3>2, <4>2
        <4> QED BY <2>3, <4>1, <4>2
      <3> QED BY <3>3 DEF p, i
    <2>9. CASE op = "XOR"
      <3>1. h[k] = A[k] + B[k] - 2 * f[k] /\ h[i] = A[i] + B[i] - 2 * f[i]
        BY <2>1, <2>9
      <3>2. g[i] = x[i] + y[i] - 2 * (x[i] * y[i])
        BY <2>3, <2>6, <2>9 DEF Joined
      <3> HIDE DEF h
      <3>3. h[k] = h[i] + p * g[i]
        <4>1. CASE x[i] = 0
          <5>1. CASE y[i] = 0
            BY <2>2, <2>4, <2>5, <3>1, <3>2, <4>1, <5>1
          <5>2. CASE y[i] = 1
            BY <2>2, <2>4, <2>5, <3>1, <3>2, <4>1, <5>2
          <5> QED BY <2>3, <5>1, <5>2
        <4>2. CASE x[i] = 1
          <5>1. CASE y[i] = 0
            BY <2>2, <2>4, <2>5, <3>1, <3>2, <4>2, <5>1
          <5>2. CASE y[i] = 1
            BY <2>2, <2>4, <2>5, <3>1, <3>2, <4>2, <5>2
          <5> QED BY <2>3, <5>1, <5>2
        <4> QED BY <2>3, <4>1, <4>2
      <3> QED BY <3>3 DEF p, i
    <2> QED BY <2>7, <2>8, <2>9
  <1>9. Calculated(op, a, b).value = h[WordBits]
    <2>1. WordBits \in 0 .. WordBits
      BY <1>2
    <2>2. CASE op = "AND"
      BY <1>1, <2>1, <2>2 DEF Calculated, Outcome
    <2>3. CASE op = "OR"
      BY <1>1, <1>3, <2>1, <2>3 DEF Calculated, Outcome
    <2>4. CASE op = "XOR"
      BY <1>1, <1>3, <2>1, <2>4 DEF Calculated, Outcome
    <2> QED BY <2>2, <2>3, <2>4
  <1>10. \A i \in 0 .. WordBits - 1 :
            g[i] = Joined(op, (a \div 2 ^ i) % 2, (b \div 2 ^ i) % 2)
    BY DEF x, y
  <1> HIDE DEF g, h
  <1>11. /\ h[WordBits] \in 0 .. Top
         /\ \A i \in 0 .. WordBits - 1 : (h[WordBits] \div 2 ^ i) % 2 = g[i]
    BY <1>6, <1>7, <1>8, BitsBuilt
  <1> QED BY <1>9, <1>10, <1>11

LEMMA SwapNamed == ASSUME Swap PROVE last'.op = "swap"
  <1>1. PICK r \in Selected, p \in Pointers, mode \in Modes, n \in {1, 2, 4},
             signed \in BOOLEAN :
            LET a == Offset(mode, p.value) IN
            \E accepted \in Accepts(a, n) :
                /\ memory' = IF CanWrite(a, n) /\ accepted
                             THEN Written(a, n, register[r]) ELSE memory
                /\ last' = [op |-> "swap", address |-> a, bytes |-> n, signed |-> signed,
                            register |-> r, accepted |-> accepted]
    BY DEF Swap
  <1> QED BY <1>1

(* The instructions that neither compare, calculate nor access the memory by address. *)
LEMMA PlainNamed ==
    ASSUME \/ MoveRegister \/ MoveImmediate \/ GetAddress \/ Convert
           \/ FloatArithmetic \/ FloatCompare \/ FloatEval \/ Branch \/ BranchNotTaken
           \/ Debug \/ Undefined \/ Push \/ Pop \/ Peek \/ Return \/ BranchProtected
    PROVE  last'.op \in {"other", "push", "pop", "peek"}
  <1>1. CASE Other
    BY <1>1 DEF Other
  <1>2. CASE Push \/ BranchProtected
    BY <1>2 DEF Push, BranchProtected, Frame
  <1>3. ASSUME NEW op \in {"pop", "peek"}, NEW r, NEW length, PopInto(op, r, length)
        PROVE  last'.op \in {"other", "pop", "peek"}
    BY <1>3 DEF PopInto, PopFails, Other
  <1>4. CASE Pop \/ Peek
    BY <1>3, <1>4 DEF Pop, Peek
  <1>5. CASE Return
    BY <1>5 DEF Return, PopFails, Other
  <1>6. CASE \/ MoveRegister \/ MoveImmediate \/ GetAddress \/ Convert \/ FloatArithmetic
             \/ FloatCompare \/ FloatEval \/ Branch \/ BranchNotTaken \/ Debug \/ Undefined
    <2>1. Other
      BY <1>6 DEF MoveRegister, MoveImmediate, GetAddress, Convert, FloatArithmetic,
         FloatCompare, FloatEval, Branch, BranchNotTaken, Debug, Undefined
    <2> QED BY <1>1, <2>1
  <1> QED BY <1>2, <1>4, <1>5, <1>6

LEMMA ComparisonNamed ==
    ASSUME Compare \/ Eval
    PROVE  last'.op \in {"compare", "eval"}
  <1>1. CASE Compare
    BY <1>1 DEF Compare
  <1>2. CASE Eval
    BY <1>2 DEF Eval
  <1> QED BY <1>1, <1>2

LEMMA ArithmeticNamed ==
    ASSUME AddSubtract \/ MultiplyDivide \/ Logic \/ Shift \/ NotRegister
    PROVE  last'.op \in Calculations
  <1>1. ASSUME NEW op, NEW d, NEW a, NEW b, NEW length, Compute(op, d, a, b, length)
        PROVE  last'.op = op
    BY <1>1 DEF Compute
  <1>2. ASSUME NEW ops, ops \subseteq Calculations, Arithmetic(ops)
        PROVE  last'.op \in Calculations
    BY <1>1, <1>2 DEF Arithmetic
  <1>3. CASE AddSubtract \/ MultiplyDivide \/ Logic \/ Shift
    BY <1>2, <1>3 DEF AddSubtract, MultiplyDivide, Logic, Shift, Calculations
  <1>4. CASE NotRegister
    BY <1>1, <1>4 DEF NotRegister, Calculations
  <1> QED BY <1>3, <1>4

LEMMA SilentInstructions ==
    ASSUME Instruction,
           ~ (Compare \/ Eval \/ AddSubtract \/ MultiplyDivide \/ Logic \/ Shift \/ NotRegister)
    PROVE  FlagsExact'
  <1>1. CASE Load \/ Store
    BY <1>1, FlagsSilent DEF Load, Store
  <1>2. CASE Swap
    BY <1>2, SwapNamed, FlagsSilent
  <1> QED BY <1>1, <1>2, PlainNamed, FlagsSilent DEF Instruction

(* The instructions of doMath on integers. *)
LEMMA ComputeExact ==
    ASSUME Ready, NEW op \in Calculations, NEW d \in Selected, NEW a \in 0 .. Top,
           NEW b \in 0 .. Top, NEW length, Compute(op, d, a, b, length)
    PROVE  FlagsExact'
  <1>1. CASE op \in {"ADD", "SUB", "MUL"}
    BY <1>1, SumIsExact
  <1>2. CASE op \in {"BSLC", "BSRC"}
    BY <1>2, RotationIsExact
  <1>3. CASE op \notin {"ADD", "SUB", "MUL", "BSLC", "BSRC"}
    <2>1. last'.op = op
      BY DEF Compute
    <2>2. op \notin {"compare", "eval"}
      BY DEF Calculations
    <2> QED BY <1>3, <2>1, <2>2, FlagsSilent
  <1> QED BY <1>1, <1>2, <1>3

LEMMA ArithmeticExact ==
    ASSUME Ready, AddSubtract \/ MultiplyDivide \/ Logic \/ Shift \/ NotRegister
    PROVE  FlagsExact'
  <1>1. ASSUME NEW ops, ops \subseteq Calculations, Arithmetic(ops) PROVE FlagsExact'
    <2>1. PICK op \in ops : \E d, s \in Selected, b \in Operands(op) :
              Compute(op, d, register[s], b.value, b.length)
      BY <1>1 DEF Arithmetic
    <2>2. PICK d, s \in Selected, b \in Operands(op) :
              Compute(op, d, register[s], b.value, b.length)
      BY <2>1
    <2>3. op \in Calculations /\ register[s] \in 0 .. Top
      BY <1>1, SelectedTyped
    <2>4. b.value \in 0 .. Top
      BY <2>3, OperandsTyped
    <2> QED BY <2>2, <2>3, <2>4, ComputeExact
  <1>2. CASE AddSubtract \/ MultiplyDivide \/ Logic \/ Shift
    BY <1>1, <1>2 DEF AddSubtract, MultiplyDivide, Logic, Shift, Calculations
  <1>3. CASE NotRegister
    <2>1. PICK d, s \in Selected : Compute("BSRC", d, register[s], 0, 2)
      BY <1>3 DEF NotRegister
    <2>2. register[s] \in 0 .. Top /\ 0 \in 0 .. Top
      BY SelectedTyped, WordHalved DEF Top
    <2> QED BY <2>1, <2>2, ComputeExact DEF Calculations
  <1> QED BY <1>2, <1>3

(***************************************************************************)
(* The flags after a comparison, a condition that is evaluated, a sum, a   *)
(* difference, a product or a rotation say what FlagsExact says of them    *)
(* (doMath, doCompare, checkCondition), the four signed conditions wrong   *)
(* exactly when the second operand is its own negation: for every two      *)
(* words of any width, whatever registers they come from and go to.        *)
(***************************************************************************)
THEOREM FlagsExactHolds == Spec => []FlagsExact
  <1>1. Init => FlagsExact
    <2> SUFFICES ASSUME Init PROVE FlagsExact
      OBVIOUS
    <2>1. last.op = "none"
      BY DEF Init
    <2> QED BY <2>1 DEF FlagsExact, ComparisonExact, EvalExact, SumExact, RotationExact
  <1>2. TypeInv /\ FlagsExact /\ [Next]_vars => FlagsExact'
    <2>1. ASSUME TypeInv, Next PROVE FlagsExact'
      <3>1. Ready /\ Instruction
        BY <2>1, ReadyNext
      <3> QED BY <3>1, SilentInstructions, CompareExact, EvalIsExact, ArithmeticExact
              DEF Instruction
    <2>2. ASSUME FlagsExact, UNCHANGED vars PROVE FlagsExact'
      <3>1. register' = register /\ last' = last
        BY <2>2 DEF vars, processor
      <3>2. ComparisonExact /\ EvalExact /\ SumExact /\ RotationExact
        BY <2>2 DEF FlagsExact
      <3>3. ComparisonExact' /\ EvalExact'
        BY <3>1, <3>2 DEF ComparisonExact, EvalExact
      <3>4. SumExact'
        BY <3>1, <3>2 DEF SumExact
      <3>5. RotationExact'
        BY <3>1, <3>2 DEF RotationExact
      <3> QED BY <3>3, <3>4, <3>5 DEF FlagsExact
    <2> QED BY <2>1, <2>2
  <1> QED BY <1>1, <1>2, TypeAlways, PTL DEF Spec
-----------------------------------------------------------------------------
(* The memory. *)

(* What is written of a value is the part of it that fits. *)
LEMMA AssembleWritten ==
    ASSUME NEW a \in 0 .. Top, NEW n \in {1, 2, 4}, NEW v \in Nat
    PROVE  Assemble(Written(a, n, v), a, n) = v % Span(n)
  <1> DEFINE w == Written(a, n, v)
             digit(k) == (v \div Span(k)) % ByteSize
  <1>1. ASSUME NEW k \in 0 .. n - 1 PROVE Byte(w, a + k) = digit(k)
    <2>1. a + k \in a .. a + n - 1 /\ (a + k) - a = k
      BY WordHalved DEF Top
    <2> QED BY <2>1 DEF Byte, Written
  <1>2. v % Span(1) = digit(0) /\ digit(0) \in Int
    <2>1. v \div 1 = v
      OBVIOUS
    <2> QED BY <2>1, Spans, ByteLarge
  <1>3. ASSUME NEW k \in 1 .. 3
        PROVE  /\ v % Span(k + 1) = (v % Span(k)) + Span(k) * digit(k)
               /\ v % Span(k) \in Int /\ Span(k) * digit(k) \in Int
    <2>1. Span(k) \in Nat \ {0} /\ Span(k + 1) = ByteSize * Span(k)
      BY SpanGrows
    <2>2. ByteSize \in Nat \ {0} /\ ByteSize * Span(k) = Span(k) * ByteSize
      BY <2>1, ByteLarge
    <2>3. v % (Span(k) * ByteSize) = (v % Span(k)) + Span(k) * digit(k)
      <3>1. v \in Int
        OBVIOUS
      <3>2. ByteSize \in Nat \ {0} /\ Span(k) \in Nat \ {0}
        BY <2>1, <2>2
      <3> QED BY <3>1, <3>2, QuotientTwice, Zenon
    <2>4. digit(k) \in Int
      <3>1. v \div Span(k) \in Int
        BY <2>1
      <3> QED BY <2>2, <3>1
    <2> HIDE DEF digit
    <2> QED BY <2>1, <2>2, <2>3, <2>4
  <1> HIDE DEF w, digit
  <1>4. Assemble(w, a, n) = (IF 0 < n THEN Span(0) * digit(0) ELSE 0)
                             + (IF 1 < n THEN Span(1) * digit(1) ELSE 0)
                             + (IF 2 < n THEN Span(2) * digit(2) ELSE 0)
                             + (IF 3 < n THEN Span(3) * digit(3) ELSE 0)
    BY <1>1 DEF Assemble
  <1>5. Span(0) * digit(0) = digit(0)
    BY <1>2, Spans
  <1>6. v % Span(1 + 1) = (v % Span(1)) + Span(1) * digit(1)
    BY <1>3
  <1>7. /\ v % Span(2 + 1) = (v % Span(2)) + Span(2) * digit(2)
        /\ v % Span(3 + 1) = (v % Span(3)) + Span(3) * digit(3)
    BY <1>3
  <1>8. \A k \in 1 .. 3 : Span(k) * digit(k) \in Int
    BY <1>3
  <1> DEFINE t1 == Span(1) * digit(1)
             t2 == Span(2) * digit(2)
             t3 == Span(3) * digit(3)
  <1>9. t1 \in Int /\ t2 \in Int /\ t3 \in Int
    BY <1>8
  <1>10. /\ v % Span(2) = digit(0) + t1 /\ v % Span(3) = digit(0) + t1 + t2
         /\ v % Span(4) = digit(0) + t1 + t2 + t3
    BY <1>2, <1>6, <1>7, <1>9
  <1>11. Assemble(w, a, n) = (IF 0 < n THEN digit(0) ELSE 0) + (IF 1 < n THEN t1 ELSE 0)
                             + (IF 2 < n THEN t2 ELSE 0) + (IF 3 < n THEN t3 ELSE 0)
    BY <1>4, <1>5
  <1> HIDE DEF t1, t2, t3
  <1>12. Assemble(w, a, n) = v % Span(n)
    BY <1>2, <1>9, <1>10, <1>11
  <1> QED BY <1>12 DEF w

(* A read that ends below the top has one value. *)
LEMMA ReadsOne ==
    ASSUME NEW a \in 0 .. Top, NEW n \in {1, 2, 4}, a + n - 1 <= Top, MemoryTyped(memory)
    PROVE  Reads(a, n) = {Assemble(memory, a, n)} /\ Assemble(memory, a, n) \in 0 .. Span(n) - 1
  <1>1. Least(n, WordSize - a) = n
    BY WordHalved DEF Least, Top
  <1>2. Assemble(memory, a, n) \in 0 .. Span(n) - 1
    BY AssembleTyped, WordHalved DEF Top
  <1>3. Span(n) * 0 = 0
    BY SpanGrows
  <1> DEFINE v == Assemble(memory, a, n)
  <1>4. Reads(a, n) = {v + Span(n) * junk : junk \in {0}}
    BY <1>1 DEF Reads
  <1>5. Span(n) \in Nat
    BY SpanGrows
  <1> HIDE DEF v
  <1>6. Reads(a, n) = {v}
    BY <1>2, <1>3, <1>4 DEF v
  <1> QED BY <1>2, <1>6 DEF v

(* A range is readable, or writable, when all of it is: between the ROM and the *)
(* device registers lies a byte that is not.                                    *)
LEMMA RangesAllowed ==
    ASSUME NEW a \in 0 .. Top, NEW n \in {1, 2, 4}
    PROVE  /\ CanWrite(a, n) <=> a .. a + n - 1 \subseteq DdatStart .. Top
           /\ a + n - 1 <= Top =>
                 (CanRead(a, n) <=> \A x \in a .. a + n - 1 : Readable(x))
  <1>1. a \in a .. a + n - 1 /\ a + n - 1 \in a .. a + n - 1 /\ Top \in Nat
    BY WordHalved DEF Top
  <1>2. CanWrite(a, n) <=> a .. a + n - 1 \subseteq DdatStart .. Top
    BY <1>1, ProcessorAssumption DEF CanWrite
  <1>3. ASSUME a + n - 1 <= Top
        PROVE  CanRead(a, n) <=> \A x \in a .. a + n - 1 : Readable(x)
    <2>1. (a + n - 1) % WordSize = a + n - 1
      BY <1>3, WordHalved DEF Top
    <2>2. RomEnd + 1 \notin 0 .. RomEnd /\ RomEnd + 1 \notin DregStart .. Top
      BY ProcessorAssumption
    <2>3. a <= RomEnd /\ a + n - 1 > RomEnd => RomEnd + 1 \in a .. a + n - 1
      BY ProcessorAssumption, <1>1
    <2> QED BY <1>1, <1>3, <2>1, <2>2, <2>3, ProcessorAssumption DEF CanRead, Readable
  <1> QED BY <1>2, <1>3

(* What MemoryExact says of a step, but for where the memory is written. *)
AccessExact == ViolationsExact /\ Exchanged /\ RefusalsHarmless

LEMMA NoAccess ==
    ASSUME Instruction, ~ (Load \/ Store \/ Swap)
    PROVE  AccessExact
  <1>1. last'.op \notin {"load", "store", "swap"}
    <2>1. last'.op \in {"other", "push", "pop", "peek"} \cup {"compare", "eval"} \cup Calculations
      BY PlainNamed, ComparisonNamed, ArithmeticNamed DEF Instruction
    <2> QED BY <2>1 DEF Calculations
  <1> QED BY <1>1 DEF AccessExact, ViolationsExact, Exchanged, RefusalsHarmless

LEMMA LoadExact == ASSUME Ready, Load PROVE AccessExact
  <1>1. PICK r \in Selected, p \in Pointers, mode \in Modes, n \in {1, 2, 4},
             signed \in BOOLEAN :
            LET a == Offset(mode, p.value) IN
            /\ signed => n < 4
            /\ Alone(p.length, r)
            /\ \E regs \in Loaded(r, a, n) :
                  register' = IF signed THEN SignExtended(regs, r, n) ELSE regs
            /\ raised' = Violation(CanRead(a, n))
            /\ crashed' = (signed /\ SignCrashes(r, n))
            /\ last' = [op |-> "load", address |-> a, bytes |-> n, signed |-> signed]
            /\ UNCHANGED memory
    BY DEF Load
  <1> DEFINE a == Offset(mode, p.value)
  <1>2. a \in 0 .. Top
    BY OperandTyped, OffsetTyped, SelectedTyped
  <1>3. /\ raised' = Violation(CanRead(a, n)) /\ memory' = memory
        /\ last' = [op |-> "load", address |-> a, bytes |-> n, signed |-> signed]
    BY <1>1
  <1>4. PICK regs \in Loaded(r, a, n) :
            register' = IF signed THEN SignExtended(regs, r, n) ELSE regs
    BY <1>1
  <1> HIDE DEF a
  <1>5. /\ last'.op = "load" /\ last'.address = a /\ last'.bytes = n /\ last'.signed = signed
        /\ "memoryViolation" \in raised' <=> ~ CanRead(a, n)
    BY <1>3 DEF Violation
  <1>6. ViolationsExact
    <2>1. a + n - 1 \in a .. a + n - 1
      BY <1>2, WordHalved DEF Top
    <2> QED BY <1>2, <1>5, <2>1, RangesAllowed DEF ViolationsExact
  <1>7. RefusalsHarmless
    <2>1. ~ CanRead(a, n) /\ ~ signed => register' = register
      BY <1>4 DEF Loaded
    <2> QED BY <1>3, <1>5, <2>1 DEF RefusalsHarmless
  <1> QED BY <1>5, <1>6, <1>7 DEF AccessExact, Exchanged

LEMMA StoreExact == ASSUME Ready, Store PROVE AccessExact
  <1>1. PICK r \in Selected, p \in Pointers, mode \in Modes, n \in {1, 2, 4} :
            LET a == Offset(mode, p.value) IN
            /\ Alone(p.length, r)
            /\ \E accepted \in Accepts(a, n) :
                  memory' = IF CanWrite(a, n) /\ accepted
                            THEN Written(a, n, register[r]) ELSE memory
            /\ raised' = Violation(CanWrite(a, n))
            /\ last' = [op |-> "store", address |-> a, bytes |-> n, signed |-> FALSE]
            /\ UNCHANGED <<register, crashed>>
    BY DEF Store
  <1> DEFINE a == Offset(mode, p.value)
  <1>2. a \in 0 .. Top
    BY OperandTyped, OffsetTyped, SelectedTyped
  <1>3. /\ raised' = Violation(CanWrite(a, n)) /\ register' = register
        /\ last' = [op |-> "store", address |-> a, bytes |-> n, signed |-> FALSE]
        /\ ~ CanWrite(a, n) => memory' = memory
    BY <1>1
  <1> HIDE DEF a
  <1>4. /\ last'.op = "store" /\ last'.address = a /\ last'.bytes = n
        /\ "memoryViolation" \in raised' <=> ~ CanWrite(a, n)
    BY <1>3 DEF Violation
  <1>5. ViolationsExact
    BY <1>2, <1>4, RangesAllowed DEF ViolationsExact
  <1>6. RefusalsHarmless
    BY <1>3, <1>4 DEF RefusalsHarmless
  <1> QED BY <1>4, <1>5, <1>6 DEF AccessExact, Exchanged

(* A word stays a word, and a value that fits stays what it is. *)
LEMMA PutWord ==
    ASSUME NEW regs, RegistersTyped(regs), NEW r \in Registers, NEW v \in 0 .. Top
    PROVE  /\ Put(regs, r, v)[r] = v % Span(Size(r))
           /\ v < Span(Size(r)) => Put(regs, r, v)[r] = v
           /\ Size(r) = 4 => v < Span(Size(r))
  <1>1. Put(regs, r, v)[r] = v % Span(Size(r))
    BY DEF Put, RegistersTyped
  <1>2. Span(Size(r)) \in Nat \ {0} /\ (Size(r) = 4 => Span(Size(r)) = WordSize)
    BY Sizes, SpanOrder
  <1> DEFINE s == Span(Size(r))
  <1>3. v < s => v % s = v
    BY <1>2, WordHalved DEF Top
  <1> QED BY <1>1, <1>2, <1>3, WordHalved DEF Top

LEMMA SwapExact == ASSUME Ready, Swap PROVE AccessExact
  <1>1. PICK r \in Selected, p \in Pointers, mode \in Modes, n \in {1, 2, 4},
             signed \in BOOLEAN :
            LET a == Offset(mode, p.value) IN
            /\ signed => n < 4
            /\ ~(signed /\ SignCrashes(r, n))
            /\ Alone(p.length, r)
            /\ \E regs \in Loaded(r, a, n) :
                  register' = IF signed THEN SignExtended(regs, r, n) ELSE regs
            /\ \E accepted \in Accepts(a, n) :
                  /\ memory' = IF CanWrite(a, n) /\ accepted
                               THEN Written(a, n, register[r]) ELSE memory
                  /\ last' = [op |-> "swap", address |-> a, bytes |-> n, signed |-> signed,
                              register |-> r, accepted |-> accepted]
            /\ raised' = Violation(CanRead(a, n) /\ CanWrite(a, n))
            /\ crashed' = FALSE
    BY DEF Swap
  <1> DEFINE a == Offset(mode, p.value)
  <1>2. a \in 0 .. Top
    BY OperandTyped, OffsetTyped, SelectedTyped
  <1>3. PICK accepted \in Accepts(a, n) :
            /\ memory' = IF CanWrite(a, n) /\ accepted
                         THEN Written(a, n, register[r]) ELSE memory
            /\ last' = [op |-> "swap", address |-> a, bytes |-> n, signed |-> signed,
                        register |-> r, accepted |-> accepted]
    BY <1>1
  <1>4. PICK regs \in Loaded(r, a, n) :
            register' = IF signed THEN SignExtended(regs, r, n) ELSE regs
    BY <1>1
  <1>5. (signed => n < 4) /\ raised' = Violation(CanRead(a, n) /\ CanWrite(a, n))
    BY <1>1
  <1> HIDE DEF a
  <1>6. /\ last'.op = "swap" /\ last'.address = a /\ last'.bytes = n /\ last'.signed = signed
        /\ last'.register = r /\ last'.accepted = accepted
    BY <1>3
  <1>7. /\ "memoryViolation" \in raised' <=> ~ (CanRead(a, n) /\ CanWrite(a, n))
        /\ raised' = {} => CanRead(a, n) /\ CanWrite(a, n)
    BY <1>5 DEF Violation
  <1>8. ViolationsExact
    <2>1. a + n - 1 \in a .. a + n - 1
      BY <1>2, WordHalved DEF Top
    <2> QED BY <1>2, <1>6, <1>7, <2>1, RangesAllowed DEF ViolationsExact
  <1>9. ASSUME raised' = {}, accepted
        PROVE  /\ Assemble(memory', a, n) = register[r] % Span(n)
               /\ register'[r] = (IF signed /\ Size(r) = 4
                                  THEN Extend(Assemble(memory, a, n), n)
                                  ELSE Assemble(memory, a, n)) % Span(Size(r))
    <2>1. CanRead(a, n) /\ CanWrite(a, n)
      BY <1>7, <1>9
    <2>2. Assemble(memory', a, n) = register[r] % Span(n)
      <3>1. memory' = Written(a, n, register[r]) /\ register[r] \in Nat
        BY <1>3, <1>9, <2>1, SelectedTyped, WordHalved DEF Top
      <3> QED BY <1>2, <3>1, AssembleWritten
    <2> DEFINE v == Assemble(memory, a, n)
               s == Span(Size(r))
    <2>3. v \in 0 .. Top /\ regs = Put(register, r, v)
      <3>1. a + n - 1 <= Top
        BY <2>1 DEF CanWrite
      <3>2. regs = Put(register, r, v)
        BY <1>2, <1>4, <2>1, <3>1, ReadsOne, SelectedTyped DEF Loaded
      <3>3. v \in 0 .. Top
        BY <1>2, <3>1, ReadsOne, ReadsTyped, SelectedTyped
      <3> QED BY <3>2, <3>3
    <2> HIDE DEF v
    <2>4. r \in Registers /\ RegistersTyped(register) /\ RegistersTyped(regs)
      BY <2>3, SelectedTyped, PutTyped, WordHalved DEF Top
    <2>5. regs[r] = v % s
      BY <2>3, <2>4, PutWord
    <2>6. CASE signed /\ Size(r) = 4
      <3>1. regs[r] = v
        BY <2>3, <2>4, <2>6, PutWord
      <3>2. register' = [regs EXCEPT ![r] = Extend(v, n)]
        BY <1>4, <2>6, <3>1 DEF SignExtended
      <3>3. register'[r] = Extend(v, n)
        BY <2>4, <3>2 DEF RegistersTyped
      <3>4. Extend(v, n) \in 0 .. Top
        BY <1>5, <2>3, <2>6, ExtendTyped
      <3>5. Extend(v, n) % s = Extend(v, n)
        <4> DEFINE e == Extend(v, n)
        <4>1. e \in 0 .. Top /\ s = WordSize
          BY <2>4, <2>6, <3>4, Sizes
        <4> HIDE DEF e, s
        <4>2. e % s = e
          BY <4>1, WordHalved DEF Top
        <4> QED BY <4>2 DEF e
      <3> QED BY <2>2, <2>6, <3>3, <3>5 DEF v
    <2>7. CASE ~ (signed /\ Size(r) = 4)
      <3>1. register' = regs
        BY <1>4, <2>7 DEF SignExtended
      <3> QED BY <2>2, <2>5, <2>7, <3>1 DEF v
    <2> QED BY <2>6, <2>7
  <1>10. Exchanged
    BY <1>6, <1>9 DEF Exchanged
  <1> QED BY <1>6, <1>8, <1>10 DEF AccessExact, RefusalsHarmless

(* Memory is written by pushes, stores and swaps: from the device data on. *)
LEMMA WrittenWhere ==
    ASSUME Ready, Instruction, NEW x \in DOMAIN memory', memory'[x] # Byte(memory, x)
    PROVE  x \in DdatStart .. Top
  <1>1. ASSUME NEW a \in 0 .. Top, NEW n \in {1, 2, 4}, NEW v, CanWrite(a, n),
               memory' = Written(a, n, v)
        PROVE  x \in DdatStart .. Top
    <2>1. CASE x \in a .. a + n - 1
      BY <1>1, <2>1, RangesAllowed
    <2>2. CASE x \notin a .. a + n - 1
      <3>1. x \in DOMAIN memory /\ memory'[x] = memory[x]
        BY <1>1, <2>2 DEF Written
      <3> QED BY <3>1 DEF Byte
    <2> QED BY <2>1, <2>2
  <1>2. memory' # memory
    BY DEF Byte
  <1>3. CASE PushShape
    <2>1. PICK n \in {1, 2, 4}, v \in 0 .. Top : memory' = Pushed(v, n).memory
      BY <1>3 DEF PushShape
    <2>2. StackWritable(n) /\ memory' = Written(StackAddress, n, v)
      BY <1>2, <2>1 DEF Pushed
    <2>3. StackAddress \in 0 .. Top /\ CanWrite(StackAddress, n)
      BY <2>2, StackAddressTyped DEF CanWrite
    <2> QED BY <1>1, <2>2, <2>3
  <1>4. CASE RestShape
    BY <1>1, <1>2, <1>4 DEF RestShape
  <1>5. CASE PopShape
    BY <1>2, <1>5 DEF PopShape
  <1> QED BY <1>3, <1>4, <1>5, InstructionShape

(***************************************************************************)
(* The memory below the device data is never written, an access by address *)
(* is refused exactly when a byte of it is not to be read or written, what *)
(* is refused changes nothing, and a swap exchanges (MEMBOUND_CAN_READ,    *)
(* MEMBOUND_CAN_WRITE): for every memory map that leaves a byte between    *)
(* the ROM and the device registers.                                       *)
(***************************************************************************)
THEOREM MemoryExactHolds == Spec => MemoryExact
  <1> DEFINE Exact == /\ \A a \in DOMAIN memory' :
                           memory'[a] # Byte(memory, a) => a \in DdatStart .. Top
                      /\ ViolationsExact /\ Exchanged /\ RefusalsHarmless
  <1>1. TypeInv /\ [Next]_vars => [Exact]_vars
    <2>1. ASSUME TypeInv, Next PROVE Exact
      <3>1. Ready /\ Instruction
        BY <2>1, ReadyNext
      <3>2. AccessExact
        BY <3>1, NoAccess, LoadExact, StoreExact, SwapExact
      <3>3. \A a \in DOMAIN memory' : memory'[a] # Byte(memory, a) => a \in DdatStart .. Top
        BY <3>1, WrittenWhere
      <3> QED BY <3>2, <3>3 DEF AccessExact
    <2> QED BY <2>1
  <1>2. Spec => [][Exact]_vars
    BY <1>1, TypeAlways, PTL DEF Spec
  <1> QED BY <1>2 DEF MemoryExact
-----------------------------------------------------------------------------
(* The stack. *)

(* Where the frames lie: one below the other, from the stack pointer down, each in *)
(* the device data or above it and with the value that was pushed.                 *)
Lies(off) ==
    /\ off \in [1 .. Len(frames) -> Nat]
    /\ frames # << >> => off[1] + frames[1].bytes = register["SP"]
    /\ \A i \in 1 .. Len(frames) - 1 : off[i + 1] + frames[i + 1].bytes = off[i]
    /\ \A i, j \in 1 .. Len(frames) : i < j => off[j] + frames[j].bytes <= off[i]
    /\ \A i \in 1 .. Len(frames) :
          /\ off[i] + frames[i].bytes <= register["SP"]
          /\ register["SB"] + off[i] + frames[i].bytes - 1 <= Top
          /\ Assemble(memory, register["SB"] + off[i], frames[i].bytes) = frames[i].value

StackInv == causes = {} => \E off : Lies(off)

LEMMA WhyNot ==
    ASSUME Observe, causes' = {}
    PROVE  /\ causes = {}
           /\ last'.op = "push" => /\ "memoryViolation" \notin raised'
                                   /\ ~ (register'["SP"] < register["SP"])
           /\ last'.op = "pop" => /\ last'.register \notin {"SP", "SB"}
                                  /\ frames # << >> /\ Head(frames).bytes = last'.bytes
           /\ last'.op \notin {"push", "pop"} => /\ register'["SP"] = register["SP"]
                                                 /\ register'["SB"] = register["SB"]
           /\ last'.op \in {"store", "swap"} =>
                 \A a \in last'.address .. last'.address + last'.bytes - 1 :
                    a \notin register["SB"] .. register["SB"] + register["SP"] - 1
  <1>1. causes = {} /\ Why = {}
    BY DEF Observe
  <1>2. "denied" \notin Why /\ "moved" \notin Why /\ "wrapped" \notin Why
        /\ "unbalanced" \notin Why /\ "overwritten" \notin Why
    BY <1>1
  <1>3. last'.op = "push" => "memoryViolation" \notin raised'
    BY <1>2 DEF Why
  <1>4. last'.op = "push" => ~ (register'["SP"] < register["SP"])
    BY <1>2 DEF Why
  <1>5. last'.op = "pop" => frames # << >> /\ Head(frames).bytes = last'.bytes
    BY <1>2 DEF Why
  <1>6. /\ last'.op = "pop" => last'.register \notin {"SP", "SB"}
        /\ last'.op \notin {"push", "pop"} => /\ register'["SP"] = register["SP"]
                                              /\ register'["SB"] = register["SB"]
    BY <1>2 DEF Why
  <1>7. last'.op \in {"store", "swap"} =>
            \A a \in last'.address .. last'.address + last'.bytes - 1 :
                a \notin register["SB"] .. register["SB"] + register["SP"] - 1
    BY <1>2 DEF Why
  <1> QED BY <1>1, <1>3, <1>4, <1>5, <1>6, <1>7

(* A range that nobody writes keeps its value. *)
LEMMA AssembleElsewhere ==
    ASSUME NEW m1, NEW m2, NEW b \in Int, NEW n \in Nat,
           \A x \in b .. b + n - 1 : Byte(m1, x) = Byte(m2, x)
    PROVE  Assemble(m1, b, n) = Assemble(m2, b, n)
  <1>1. \A k \in 0 .. n - 1 : Byte(m1, b + k) = Byte(m2, b + k)
    OBVIOUS
  <1> QED BY <1>1 DEF Assemble

LEMMA WrittenElsewhere ==
    ASSUME NEW a \in Int, NEW l \in Nat, NEW v, NEW b \in Int, NEW n \in Nat,
           \A x \in a .. a + l - 1 : x \notin b .. b + n - 1
    PROVE  Assemble(Written(a, l, v), b, n) = Assemble(memory, b, n)
  <1>1. ASSUME NEW x \in b .. b + n - 1 PROVE Byte(Written(a, l, v), x) = Byte(memory, x)
    BY <1>1 DEF Byte, Written
  <1> QED BY <1>1, AssembleElsewhere

LEMMA FramesTyped ==
    ASSUME Ready, NEW i \in 1 .. Len(frames)
    PROVE  frames[i].bytes \in {1, 2, 4} /\ frames[i].value \in Nat /\ Len(frames) \in Nat
  <1>1. frames \in Seq(Frames) /\ frames[i] \in Frames
    BY DEF Ready, TypeInv
  <1> QED BY <1>1 DEF Frames

LEMMA PushLies ==
    ASSUME Ready, PushShape, Observe, causes' = {}, NEW off, Lies(off)
    PROVE  \E new : Lies(new)'
  <1>1. PICK n \in {1, 2, 4}, v \in 0 .. Top :
            /\ last' = Frame(n, v) /\ v < Span(n)
            /\ register' = Pushed(v, n).register /\ memory' = Pushed(v, n).memory
            /\ raised' = Pushed(v, n).raised
    BY DEF PushShape
  <1>2. last'.op = "push"
    BY <1>1 DEF Frame
  <1> DEFINE sp == register["SP"]
             sb == register["SB"]
             len == Len(frames)
  <1>3. StackWritable(n) /\ register' = Moved(register, n)
        /\ memory' = Written(StackAddress, n, v)
    BY <1>1, <1>2, WhyNot DEF Pushed
  <1>4. /\ StackAddress = sb + sp /\ sb + sp + n - 1 <= Top /\ sb \in 0 .. Top /\ sp \in Nat
        /\ sp < Span(2) /\ Span(2) \in Nat
    BY <1>3, StackAddressTyped, StackRegisters
  <1>5. register'["SB"] = sb /\ register'["SP"] = (sp + n) % Span(2)
    BY <1>3, SelectedTyped DEF Moved, Put, RegistersTyped, Registers, Size
  <1>6. register'["SP"] = sp + n
    <2>1. (sp + n) % Span(2) >= sp
      BY <1>2, <1>4, <1>5, WhyNot
    <2>2. Span(2) >= 16
      BY StackRegisters
    <2>3. CASE sp + n < Span(2)
      <3>1. Span(2) \in Nat /\ sp + n \in 0 .. Span(2) - 1
        BY <1>4, <2>3
      <3> QED BY <1>5, <3>1, SmallModulo
    <2>4. CASE sp + n >= Span(2)
      <3> DEFINE m == Span(2)
                 w == sp + n
                 s == w - m
      <3>1. /\ w = 1 * m + s /\ s \in 0 .. m - 1 /\ m \in Nat \ {0} /\ 1 \in Int
        BY <1>4, <2>2, <2>4
      <3> HIDE DEF m, w, s
      <3>2. w % m = s
        BY <3>1, Quotient
      <3> USE DEF m, w, s
      <3> QED BY <1>4, <2>1, <2>2, <3>2
    <2> QED BY <1>4, <2>3, <2>4
  <1>7. frames \in Seq(Frames) /\ len \in Nat /\ frames' = <<Frame(n, v)>> \o frames
    BY <1>1, <1>2 DEF Ready, TypeInv, Observe
  <1>8. /\ Len(frames') = len + 1 /\ frames'[1] = Frame(n, v)
        /\ \A i \in 1 .. len : frames'[i + 1] = frames[i]
    BY <1>7
  <1>9. Frame(n, v).bytes = n /\ Frame(n, v).value = v
    BY DEF Frame
  <1>10. /\ off \in [1 .. len -> Nat]
         /\ frames # << >> => off[1] + frames[1].bytes = sp
         /\ \A i \in 1 .. len - 1 : off[i + 1] + frames[i + 1].bytes = off[i]
         /\ \A i, j \in 1 .. len : i < j => off[j] + frames[j].bytes <= off[i]
         /\ \A i \in 1 .. len : /\ off[i] + frames[i].bytes <= sp
                                /\ sb + off[i] + frames[i].bytes - 1 <= Top
                                /\ Assemble(memory, sb + off[i], frames[i].bytes)
                                      = frames[i].value
    BY DEF Lies
  <1>11. PICK new : /\ new \in [1 .. len + 1 -> Nat]
                    /\ new[1] = sp /\ \A i \in 1 .. len : new[i + 1] = off[i]
    <2> DEFINE f == [i \in 1 .. len + 1 |-> IF i = 1 THEN sp ELSE off[i - 1]]
    <2>1. sp \in Nat /\ len \in Nat /\ off \in [1 .. len -> Nat]
      BY <1>4, <1>7, <1>10
    <2> HIDE DEF sp, len
    <2>2. ASSUME NEW i \in 1 .. len + 1
          PROVE  (IF i = 1 THEN sp ELSE off[i - 1]) \in Nat
      BY <2>1
    <2>3. f \in [1 .. len + 1 -> Nat]
      BY <2>2
    <2>4. f[1] = sp
      BY <2>1
    <2>5. ASSUME NEW i \in 1 .. len PROVE f[i + 1] = off[i]
      <3>1. i + 1 \in 1 .. len + 1 /\ i + 1 # 1 /\ (i + 1) - 1 = i
        BY <2>1
      <3> QED BY <3>1
    <2> QED BY <2>3, <2>4, <2>5
  <1>12. ASSUME NEW i \in 1 .. len + 1 PROVE i = 1 \/ \E k \in 1 .. len : i = k + 1
    <2>1. CASE i > 1
      <3>1. i - 1 \in 1 .. len /\ i = (i - 1) + 1
        BY <1>7, <2>1
      <3> QED BY <3>1
    <2> QED BY <2>1
  <1> HIDE DEF sp, sb, len
  <1>13. ASSUME NEW i \in 1 .. len
         PROVE  /\ frames[i].bytes \in {1, 2, 4} /\ off[i] \in Nat
                /\ frames'[i + 1] = frames[i] /\ new[i + 1] = off[i]
    BY <1>8, <1>10, <1>11, FramesTyped DEF len
  <1>14. new[1] + frames'[1].bytes = register'["SP"]
    BY <1>6, <1>8, <1>9, <1>11
  <1>15. ASSUME NEW i \in 1 .. len
         PROVE  new[i + 1] + frames'[i + 1].bytes = new[i]
    <2>1. CASE i = 1
      <3>1. frames # << >>
        BY <1>7, <1>15 DEF len
      <3> QED BY <1>10, <1>11, <1>13, <2>1, <3>1
    <2>2. CASE i # 1
      <3>1. i - 1 \in 1 .. len - 1 /\ i - 1 \in 1 .. len /\ (i - 1) + 1 = i
        BY <1>7, <2>2
      <3>2. off[(i - 1) + 1] + frames[(i - 1) + 1].bytes = off[i - 1]
        BY <1>10, <3>1
      <3>3. new[(i - 1) + 1] = off[i - 1]
        BY <1>13, <3>1
      <3> QED BY <1>13, <3>1, <3>2, <3>3
    <2> QED BY <2>1, <2>2
  <1>16. ASSUME NEW i \in 1 .. len + 1, NEW j \in 1 .. len + 1, i < j
         PROVE  new[j] + frames'[j].bytes <= new[i]
    <2>1. PICK k \in 1 .. len : j = k + 1
      BY <1>7, <1>12, <1>16
    <2>2. CASE i = 1
      BY <1>10, <1>11, <1>13, <2>1, <2>2
    <2>3. CASE i # 1
      <3>1. PICK h \in 1 .. len : i = h + 1
        BY <1>12, <2>3
      <3>2. h < k
        BY <1>16, <2>1, <3>1
      <3>3. off[k] + frames[k].bytes <= off[h]
        BY <1>10, <3>2
      <3> QED BY <1>13, <2>1, <3>1, <3>3
    <2> QED BY <2>2, <2>3
  <1>17. ASSUME NEW i \in 1 .. len + 1
         PROVE  /\ new[i] + frames'[i].bytes <= register'["SP"]
                /\ sb + new[i] + frames'[i].bytes - 1 <= Top
                /\ Assemble(memory', sb + new[i], frames'[i].bytes) = frames'[i].value
    <2>1. CASE i = 1
      <3>1. Assemble(memory', sb + sp, n) = v % Span(n)
        BY <1>3, <1>4, StackAddressTyped, AssembleWritten, WordHalved DEF Top
      <3>2. v % Span(n) = v
        <4> DEFINE m == Span(n)
        <4>1. m \in Nat \ {0} /\ v \in 0 .. m - 1
          BY <1>1, SpanGrows, WordHalved DEF Top
        <4> HIDE DEF m
        <4>2. v % m = v
          BY <4>1
        <4> QED BY <4>2 DEF m
      <3> QED BY <1>4, <1>6, <1>8, <1>9, <1>11, <2>1, <3>1, <3>2
    <2>2. CASE i # 1
      <3>1. PICK k \in 1 .. len : i = k + 1
        BY <1>12, <2>2
      <3>2. /\ off[k] + frames[k].bytes <= sp
            /\ sb + off[k] + frames[k].bytes - 1 <= Top
            /\ Assemble(memory, sb + off[k], frames[k].bytes) = frames[k].value
        BY <1>10
      <3>3. Assemble(memory', sb + off[k], frames[k].bytes)
              = Assemble(memory, sb + off[k], frames[k].bytes)
        <4>1. /\ frames[k].bytes \in Nat /\ off[k] \in Nat /\ sb + off[k] \in Int
              /\ sb + sp \in Int /\ n \in Nat
          BY <1>4, <1>13
        <4>2. ASSUME NEW x \in sb + sp .. sb + sp + n - 1
              PROVE  x \notin sb + off[k] .. sb + off[k] + frames[k].bytes - 1
          BY <1>4, <3>2, <4>1
        <4>3. Assemble(Written(sb + sp, n, v), sb + off[k], frames[k].bytes)
                = Assemble(memory, sb + off[k], frames[k].bytes)
          BY <4>1, <4>2, WrittenElsewhere
        <4>4. memory' = Written(sb + sp, n, v)
          BY <1>3, <1>4
        <4> QED BY <4>3, <4>4
      <3> QED BY <1>4, <1>6, <1>13, <3>1, <3>2, <3>3
    <2> QED BY <2>1, <2>2
  <1>18. Lies(new)'
    <2>1. /\ new \in [1 .. Len(frames') -> Nat]
          /\ frames' # << >> => new[1] + frames'[1].bytes = register'["SP"]
      BY <1>8, <1>11, <1>14
    <2>2. \A i \in 1 .. Len(frames') - 1 : new[i + 1] + frames'[i + 1].bytes = new[i]
      <3>1. Len(frames') - 1 = len
        BY <1>7, <1>8
      <3> QED BY <1>15, <3>1
    <2>3. \A i, j \in 1 .. Len(frames') : i < j => new[j] + frames'[j].bytes <= new[i]
      BY <1>8, <1>16
    <2>4. \A i \in 1 .. Len(frames') :
             /\ new[i] + frames'[i].bytes <= register'["SP"]
             /\ register'["SB"] + new[i] + frames'[i].bytes - 1 <= Top
             /\ Assemble(memory', register'["SB"] + new[i], frames'[i].bytes) = frames'[i].value
      BY <1>5, <1>8, <1>17
    <2> QED BY <2>1, <2>2, <2>3, <2>4 DEF Lies
  <1> QED BY <1>18

(* A pop reads the frame on top, and leaves the others where they are. *)
LEMMA PopReads ==
    ASSUME Ready, Observe, causes' = {}, NEW off, Lies(off), NEW n \in {1, 2, 4},
           NEW v \in Reads(TopOfStack(n), n), last'.op = "pop", last'.bytes = n
    PROVE  /\ frames # << >> /\ Head(frames) = frames[1] /\ Len(frames) \in Nat \ {0}
           /\ frames[1].bytes = n /\ v = frames[1].value
           /\ off[1] \in Nat /\ register["SP"] = off[1] + n
  <1>1. /\ frames # << >> /\ frames \in Seq(Frames) /\ Head(frames).bytes = n
    BY WhyNot DEF Ready, TypeInv
  <1>2. Head(frames) = frames[1] /\ Len(frames) \in Nat \ {0} /\ 1 \in 1 .. Len(frames)
    BY <1>1
  <1> DEFINE sp == register["SP"]
             sb == register["SB"]
             x == sb + off[1]
  <1>3. /\ off[1] \in Nat /\ off[1] + n = sp /\ sb + off[1] + n - 1 <= Top
        /\ Assemble(memory, sb + off[1], n) = frames[1].value
    BY <1>1, <1>2 DEF Lies
  <1>4. sb \in 0 .. Top /\ sp \in Nat
    BY StackRegisters
  <1>5. TopOfStack(n) = x
    <2>1. TopOfStack(n) = (((x + n) % WordSize) - n) % WordSize
      <3>1. sb + sp = x + n
        BY <1>3, <1>4
      <3> QED BY <3>1 DEF TopOfStack, StackAddress
    <2>2. x \in Nat /\ x + n - 1 <= Top
      BY <1>3, <1>4
    <2> HIDE DEF x
    <2>3. CASE x + n < WordSize
      <3>1. (x + n) % WordSize = x + n /\ (x + n) - n = x /\ x % WordSize = x
        BY <2>2, <2>3, WordHalved
      <3> QED BY <2>1, <3>1
    <2>4. CASE x + n >= WordSize
      <3> DEFINE w == WordSize
                 y == w - n
      <3>1. x = y /\ w \in Nat \ {0} /\ x + n = w /\ y \in 0 .. w - 1
        BY <2>2, <2>4, WordHalved DEF Top
      <3>2. w % w = 0
        <4>1. w = 1 * w + 0 /\ 0 \in 0 .. w - 1
          BY <3>1
        <4> HIDE DEF w
        <4> QED BY <3>1, <4>1
      <3>3. (0 - n) % w = y
        <4> HIDE DEF w, y
        <4>1. 0 - n = (-1) * w + y /\ -1 \in Int
          BY <3>1 DEF y
        <4>2. y \in 0 .. w - 1
          BY <3>1
        <4> QED BY <3>1, <4>1, <4>2, Quotient
      <3> QED BY <2>1, <3>1, <3>2, <3>3
    <2> QED BY <2>2, <2>3, <2>4, WordHalved
  <1>6. v = frames[1].value
    <2>1. x \in 0 .. Top /\ x + n - 1 <= Top
      BY <1>3, <1>4, WordHalved DEF Top
    <2>2. v \in Reads(x, n) /\ Assemble(memory, x, n) = frames[1].value
      BY <1>3, <1>5
    <2> HIDE DEF x
    <2> QED BY <2>1, <2>2, ReadsOne, SelectedTyped
  <1> QED BY <1>1, <1>2, <1>3, <1>6

LEMMA PopLies ==
    ASSUME Ready, PopShape, Observe, causes' = {}, NEW off, Lies(off)
    PROVE  /\ \E new : Lies(new)'
           /\ last'.value = Head(frames).value
           /\ last'.register = "PC" => programCounter' = Head(frames).value
  <1>1. PICK n \in {1, 2, 4}, r \in Registers \cup {"PC"} :
            /\ register["SP"] >= n
            /\ \E v \in Reads(TopOfStack(n), n) :
                  /\ last' = [op |-> "pop", bytes |-> n, value |-> v, register |-> r]
                  /\ register' = IF r = "PC" THEN Moved(register, -n)
                                 ELSE Put(Moved(register, -n), r, v)
                  /\ r = "PC" => programCounter' = v
            /\ memory' = memory
    BY DEF PopShape
  <1>2. PICK v \in Reads(TopOfStack(n), n) :
            /\ last' = [op |-> "pop", bytes |-> n, value |-> v, register |-> r]
            /\ register' = IF r = "PC" THEN Moved(register, -n)
                           ELSE Put(Moved(register, -n), r, v)
            /\ r = "PC" => programCounter' = v
    BY <1>1
  <1>3. last'.op = "pop" /\ last'.bytes = n /\ last'.value = v /\ last'.register = r
    BY <1>2
  <1> DEFINE sp == register["SP"]
             sb == register["SB"]
             len == Len(frames)
  <1>4. /\ frames # << >> /\ Head(frames) = frames[1] /\ len \in Nat \ {0}
        /\ frames[1].bytes = n /\ v = frames[1].value
        /\ off[1] \in Nat /\ sp = off[1] + n
    BY <1>3, PopReads
  <1>5. r # "SP" /\ r # "SB"
    BY <1>3, WhyNot
  <1>6. register'["SP"] = off[1] /\ register'["SB"] = sb
    <2>1. /\ Moved(register, -n)["SP"] = (sp + (-n)) % Span(2)
          /\ Moved(register, -n)["SB"] = sb
      BY SelectedTyped DEF Moved, Put, RegistersTyped, Registers, Size
    <2>2. RegistersTyped(Moved(register, -n))
      BY MovedTyped, SelectedTyped
    <2>3. sp + (-n) = off[1] /\ off[1] \in 0 .. Span(2) - 1 /\ Span(2) \in Nat
      <3>1. sp < Span(2) /\ Span(2) \in Nat
        BY StackRegisters
      <3> HIDE DEF sp
      <3> QED BY <1>4, <3>1
    <2>4. off[1] % Span(2) = off[1]
      BY <2>3, SmallModulo
    <2>5. register'["SP"] = Moved(register, -n)["SP"] /\ register'["SB"] = Moved(register, -n)["SB"]
      BY <1>2, <1>5, <2>2 DEF Put, RegistersTyped, Registers
    <2> QED BY <2>1, <2>3, <2>4, <2>5
  <1>7. frames \in Seq(Frames) /\ frames' = Tail(frames)
    BY <1>3, <1>4 DEF Ready, TypeInv, Observe
  <1>8. /\ Len(frames') = len - 1 /\ len - 1 \in Nat
        /\ \A i \in 1 .. len - 1 : frames'[i] = frames[i + 1]
    BY <1>4, <1>7
  <1>9. /\ off \in [1 .. len -> Nat]
        /\ \A i \in 1 .. len - 1 : off[i + 1] + frames[i + 1].bytes = off[i]
        /\ \A i, j \in 1 .. len : i < j => off[j] + frames[j].bytes <= off[i]
        /\ \A i \in 1 .. len : /\ sb + off[i] + frames[i].bytes - 1 <= Top
                               /\ Assemble(memory, sb + off[i], frames[i].bytes)
                                     = frames[i].value
    BY DEF Lies
  <1> HIDE DEF sp, sb, len
  <1>10. PICK new : /\ new \in [1 .. len - 1 -> Nat]
                    /\ \A i \in 1 .. len - 1 : new[i] = off[i + 1]
    <2> DEFINE f == [i \in 1 .. len - 1 |-> off[i + 1]]
    <2>1. ASSUME NEW i \in 1 .. len - 1 PROVE off[i + 1] \in Nat
      <3>1. i + 1 \in 1 .. len
        BY <1>4
      <3> QED BY <1>9, <3>1
    <2>2. f \in [1 .. len - 1 -> Nat] /\ \A i \in 1 .. len - 1 : f[i] = off[i + 1]
      BY <2>1
    <2> QED BY <2>2
  <1>11. ASSUME NEW i \in 1 .. len - 1
         PROVE  /\ i + 1 \in 1 .. len /\ new[i] = off[i + 1] /\ frames'[i] = frames[i + 1]
                /\ new[i] + frames'[i].bytes = off[i]
    <2>1. new[i] = off[i + 1] /\ frames'[i] = frames[i + 1]
      BY <1>8, <1>10
    <2>2. off[i + 1] + frames[i + 1].bytes = off[i]
      BY <1>9
    <2>3. i + 1 \in 1 .. len
      BY <1>4
    <2> QED BY <2>1, <2>2, <2>3
  <1>12. frames' # << >> => new[1] + frames'[1].bytes = off[1]
    <2>1. ASSUME frames' # << >> PROVE 1 \in 1 .. len - 1
      <3>1. frames' \in Seq(Frames)
        BY <1>4, <1>7
      <3>2. Len(frames') # 0
        BY <2>1, <3>1
      <3>3. len - 1 \in Nat /\ len - 1 # 0
        BY <1>8, <3>2
      <3> QED BY <1>4, <3>3
    <2> QED BY <1>11, <2>1
  <1>13. ASSUME NEW i \in 1 .. len - 1, NEW j \in 1 .. len - 1, i < j
         PROVE  new[j] + frames'[j].bytes <= new[i]
    <2>1. i + 1 < j + 1 /\ i + 1 \in 1 .. len /\ j + 1 \in 1 .. len
      BY <1>11, <1>13
    <2>2. off[j + 1] + frames[j + 1].bytes <= off[i + 1]
      BY <1>9, <2>1
    <2> QED BY <1>11, <2>2
  <1>14. ASSUME NEW i \in 1 .. len - 1
         PROVE  /\ new[i] + frames'[i].bytes <= off[1]
                /\ sb + new[i] + frames'[i].bytes - 1 <= Top
                /\ Assemble(memory', sb + new[i], frames'[i].bytes) = frames'[i].value
    <2>1. i + 1 \in 1 .. len /\ 1 \in 1 .. len /\ 1 < i + 1
      BY <1>4, <1>11
    <2>2. off[i + 1] + frames[i + 1].bytes <= off[1]
      BY <1>9, <2>1
    <2>3. /\ sb + off[i + 1] + frames[i + 1].bytes - 1 <= Top
          /\ Assemble(memory, sb + off[i + 1], frames[i + 1].bytes) = frames[i + 1].value
      BY <1>9, <2>1
    <2> QED BY <1>1, <1>11, <2>2, <2>3
  <1>15. Lies(new)'
    <2>1. /\ new \in [1 .. Len(frames') -> Nat]
          /\ frames' # << >> => new[1] + frames'[1].bytes = register'["SP"]
      BY <1>6, <1>8, <1>10, <1>12
    <2>2. ASSUME NEW i \in 1 .. Len(frames') - 1
          PROVE  new[i + 1] + frames'[i + 1].bytes = new[i]
      <3>1. i \in 1 .. len - 1 /\ i + 1 \in 1 .. len - 1
        BY <1>8
      <3> QED BY <1>11, <3>1
    <2>3. \A i, j \in 1 .. Len(frames') : i < j => new[j] + frames'[j].bytes <= new[i]
      BY <1>8, <1>13
    <2>4. \A i \in 1 .. Len(frames') :
             /\ new[i] + frames'[i].bytes <= register'["SP"]
             /\ register'["SB"] + new[i] + frames'[i].bytes - 1 <= Top
             /\ Assemble(memory', register'["SB"] + new[i], frames'[i].bytes) = frames'[i].value
      BY <1>6, <1>8, <1>14
    <2> QED BY <2>1, <2>2, <2>3, <2>4 DEF Lies
  <1> QED BY <1>2, <1>3, <1>4, <1>15

(* What leaves the stack alone leaves the frames alone. *)
LEMMA RestLies ==
    ASSUME Ready, RestShape, Observe, causes' = {}, NEW off, Lies(off)
    PROVE  Lies(off)'
  <1> DEFINE sp == register["SP"]
             sb == register["SB"]
  <1>1. last'.op \notin {"push", "pop"}
    BY DEF RestShape
  <1>2. frames' = frames
    BY <1>1 DEF Observe
  <1>3. register'["SP"] = sp /\ register'["SB"] = sb
    BY <1>1, WhyNot
  <1>4. ASSUME NEW i \in 1 .. Len(frames)
        PROVE  Assemble(memory', sb + off[i], frames[i].bytes)
                 = Assemble(memory, sb + off[i], frames[i].bytes)
    <2>1. /\ frames[i].bytes \in {1, 2, 4} /\ off[i] \in Nat /\ sb \in Nat /\ sp \in Nat
          /\ off[i] + frames[i].bytes <= sp /\ sb + off[i] \in Int
      BY FramesTyped, StackRegisters, WordHalved DEF Lies, Top
    <2>2. CASE memory' = memory
      BY <2>2
    <2>3. CASE memory' # memory
      <3>1. PICK a \in 0 .. Top, n \in {1, 2, 4}, w \in Nat :
                /\ last'.op \in {"store", "swap"}
                /\ last'.address = a /\ last'.bytes = n /\ memory' = Written(a, n, w)
        BY <2>3 DEF RestShape
      <3>2. \A x \in a .. a + n - 1 : x \notin sb .. sb + sp - 1
        BY <3>1, WhyNot
      <3> HIDE DEF sb, sp
      <3>3. ASSUME NEW x \in a .. a + n - 1
            PROVE  x \notin sb + off[i] .. sb + off[i] + frames[i].bytes - 1
        <4>1. x \notin sb .. sb + sp - 1 /\ x \in Int
          BY <3>2
        <4> DEFINE o == off[i]
                   l == frames[i].bytes
        <4>2. o \in Nat /\ l \in Nat /\ o + l <= sp /\ sb \in Nat /\ sp \in Nat
          BY <2>1
        <4> HIDE DEF o, l
        <4>3. x \notin sb + o .. sb + o + l - 1
          BY <4>1, <4>2
        <4> QED BY <4>3 DEF o, l
      <3>4. a \in Int
        BY WordHalved DEF Top
      <3>5. /\ sb + off[i] \in Int /\ frames[i].bytes \in Nat /\ n \in Nat
            /\ \A x \in a .. a + n - 1 : x \notin sb + off[i] .. sb + off[i] + frames[i].bytes - 1
        BY <2>1, <3>3
      <3>6. Assemble(Written(a, n, w), sb + off[i], frames[i].bytes)
              = Assemble(memory, sb + off[i], frames[i].bytes)
        BY <3>4, <3>5, WrittenElsewhere
      <3> QED BY <3>1, <3>6
    <2> QED BY <2>2, <2>3
  <1> QED BY <1>2, <1>3, <1>4 DEF Lies

(* As long as nothing has happened that ends it, the stack holds what was pushed. *)
LEMMA StackNext ==
    ASSUME Ready, Instruction, Observe, StackInv
    PROVE  /\ StackInv'
           /\ last'.op = "pop" /\ causes' = {} =>
                 /\ last'.value = Head(frames).value
                 /\ last'.register = "PC" => programCounter' = Head(frames).value
  <1> SUFFICES ASSUME causes' = {}
               PROVE  /\ \E new : Lies(new)'
                      /\ last'.op = "pop" =>
                            /\ last'.value = Head(frames).value
                            /\ last'.register = "PC" => programCounter' = Head(frames).value
    BY DEF StackInv
  <1>1. PICK off : Lies(off)
    BY WhyNot DEF StackInv
  <1>2. CASE PushShape
    <2>1. last'.op # "pop"
      BY <1>2 DEF PushShape, Frame
    <2> QED BY <1>1, <1>2, <2>1, PushLies
  <1>3. CASE PopShape
    BY <1>1, <1>3, PopLies
  <1>4. CASE RestShape
    <2>1. last'.op # "pop"
      BY <1>4 DEF RestShape
    <2>2. Lies(off)'
      BY <1>1, <1>4, RestLies
    <2> QED BY <2>1, <2>2
  <1> QED BY <1>2, <1>3, <1>4, InstructionShape

(***************************************************************************)
(* What a program pops is what it pushed and a return goes behind its      *)
(* call, through any number of frames and whatever it computes, loads and  *)
(* stores in between, until it does one of the things that "causes" lists  *)
(* (push32, pop32, OP_RET, BRNC_P).                                        *)
(***************************************************************************)
THEOREM CallsReturnHolds == Spec => CallsReturn
  <1> DEFINE Returns ==
                 (last'.op = "pop" /\ steps' = steps + 1 /\ causes' = {}) =>
                    /\ last'.value = Head(frames).value
                    /\ last'.register = "PC" => programCounter' = Head(frames).value
  <1>1. Init => StackInv
    <2> SUFFICES ASSUME Init PROVE \E off : Lies(off)
      BY DEF StackInv
    <2> DEFINE none == [i \in 1 .. 0 |-> 0]
    <2>1. frames = << >> /\ Len(frames) = 0
      BY DEF Init
    <2>2. none \in [1 .. 0 -> Nat] /\ 1 .. 0 = {} /\ 1 .. 0 - 1 = {}
      OBVIOUS
    <2> HIDE DEF none
    <2>3. Lies(none)
      BY <2>1, <2>2 DEF Lies
    <2> QED BY <2>3
  <1>2. TypeInv /\ StackInv /\ [Next]_vars => StackInv' /\ [Returns]_vars
    <2>1. CASE Next
      BY <2>1, ReadyNext, StackNext
    <2>2. CASE UNCHANGED vars
      BY <2>2 DEF vars, processor, histories, StackInv, Lies
    <2> QED BY <2>1, <2>2
  <1>3. Spec => [][Returns]_vars
    BY <1>1, <1>2, TypeAlways, PTL DEF Spec
  <1> QED BY <1>3 DEF CallsReturn
=============================================================================
