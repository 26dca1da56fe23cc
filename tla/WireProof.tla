------------------------------ MODULE WireProof ------------------------------
(***************************************************************************)
(* Machine-checked proofs about Wire: its types, and that the camera makes   *)
(* of the bytes exactly what the host meant by them.  On the way they show   *)
(* that the register of crc.go computes a cyclic redundancy check of every   *)
(* message, that a message is what its chunks make up, that headers and      *)
(* envelopes open to what was put into them, and that the parsers read in    *)
(* every payload of the camera what the camera put into it; so a method      *)
(* returns the camera's answer.                                             *)
(***************************************************************************)
EXTENDS Wire, FiniteSetTheorems, SequenceTheorems, WellFoundedInduction, TLAPS

------------------------------------------------------------------------------
(* Induction and recursion, in the form the provers take them.              *)

\* Induction over the natural numbers, for a set of them.
LEMMA SetInduction ==
  ASSUME NEW S, 0 \in S, \A n \in S \cap Nat : n + 1 \in S
  PROVE  Nat \subseteq S
<1> DEFINE T == {1 .. n : n \in Nat \ S}
<1>1. SUFFICES ASSUME Nat \ S # {} PROVE FALSE
  OBVIOUS
<1>2. T \subseteq FiniteSubsetsOf(Nat)
  <2>1. \A n \in Nat : IsFiniteSet(1 .. n)
    BY FS_Interval
  <2>2. QED
    BY <2>1 DEF FiniteSubsetsOf
<1>3. T # {}
  BY <1>1
<1>4. PICK x \in T : \A y \in T : ~ (<<y, x>> \in StrictSubsetOrdering(Nat))
  <2> HIDE DEF T
  <2>1. IsWellFoundedOn(StrictSubsetOrdering(Nat), FiniteSubsetsOf(Nat))
    BY FS_StrictSubsetOrderingWellFounded
  <2>2. QED
    BY <1>2, <1>3, <2>1, WFMin
<1>5. PICK n \in Nat \ S : x = 1 .. n
  OBVIOUS
<1>6. n # 0 /\ n - 1 \in Nat \ S
  <2>1. n # 0
    OBVIOUS
  <2>2. n - 1 \in Nat /\ (n - 1) + 1 = n
    BY <2>1
  <2>3. QED
    BY <2>1, <2>2
<1>7. <<1 .. n - 1, 1 .. n>> \in StrictSubsetOrdering(Nat)
  <2>1. 1 .. n - 1 \subseteq 1 .. n /\ n \in 1 .. n /\ n \notin 1 .. n - 1
    BY <1>6
  <2>2. QED
    BY <2>1 DEF StrictSubsetOrdering
<1>8. QED
  BY <1>4, <1>5, <1>6, <1>7

\* A definition by recursion along 0 .. n has what it defines.
Steps(n, S) == [1 .. n -> [S -> S]]
Unfolds(n, S, first, Step) ==
  \E f \in [0 .. n -> S] : f[0] = first /\ \A i \in 1 .. n : f[i] = Step[i][f[i - 1]]

\* Functions S -> S applied one after another to a first value give a function on 0 .. n.
LEMMA Recursion ==
  ASSUME NEW n \in Nat, NEW S, NEW first \in S, NEW Step \in Steps(n, S)
  PROVE  Unfolds(n, S, first, Step)
<1> USE DEF Steps
<1> DEFINE Upto(k) == \E f \in [0 .. k -> S] :
             f[0] = first /\ \A i \in 1 .. k : f[i] = Step[i][f[i - 1]]
           Ks == {k \in Nat : k <= n => Upto(k)}
<1>1. 0 \in Ks
  <2>1. [i \in {0} |-> first] \in [0 .. 0 -> S] /\ \A i \in 1 .. 0 : FALSE
    OBVIOUS
  <2>2. QED
    BY <2>1
<1>2. ASSUME NEW k \in Ks PROVE k + 1 \in Ks
  <2>1. SUFFICES ASSUME k + 1 <= n PROVE Upto(k + 1)
    <3> HIDE DEF Upto
    <3>1. QED
      OBVIOUS
  <2>2. PICK f \in [0 .. k -> S] : f[0] = first /\ \A i \in 1 .. k : f[i] = Step[i][f[i - 1]]
    BY <2>1
  <2> DEFINE g == [i \in 0 .. k + 1 |-> IF i <= k THEN f[i] ELSE Step[i][f[k]]]
  <2>3. k \in 0 .. k /\ f[k] \in S /\ k + 1 \in 1 .. n
    BY <2>1
  <2>4. g \in [0 .. k + 1 -> S]
    BY <2>3
  <2>5. g[0] = first
    BY <2>2
  <2>6. ASSUME NEW i \in 1 .. k + 1 PROVE g[i] = Step[i][g[i - 1]]
    <3>1. i - 1 \in 0 .. k /\ g[i - 1] = f[i - 1]
      OBVIOUS
    <3>2. CASE i \in 1 .. k
      BY <2>2, <3>1, <3>2
    <3>3. CASE i = k + 1
      BY <3>1, <3>3
    <3>4. QED
      BY <3>2, <3>3
  <2>7. QED
    BY <2>4, <2>5, <2>6
<1>3. Upto(n)
  <2>1. Nat \subseteq Ks
    <3> HIDE DEF Ks
    <3>1. QED
      BY <1>1, <1>2, SetInduction
  <2>2. QED
    BY <2>1
<1>4. QED
  BY <1>3 DEF Unfolds

\* A register of 16 bits.
Registers16 == SUBSET (0 .. 15)

------------------------------------------------------------------------------
(* CRC-16/Modbus is a cyclic redundancy check (crc.go:3-18).                *)

\* A register shifted is a register.
LEMMA ShiftBitType == \A r \in Registers16 : ShiftBit(r) \in Registers16
  BY DEF ShiftBit, SymDiff, Polynomial, Registers16

\* The register after a byte is that of eight shifts, and a register.
LEMMA ShiftByteType ==
  ASSUME NEW r \in Registers16, NEW byte \in Byte
  PROVE  /\ SymDiff(r, Bits(byte, 8)) \in Registers16
         /\ ShiftByte(r, byte) = FourShifts(FourShifts(SymDiff(r, Bits(byte, 8))))
         /\ ShiftByte(r, byte) \in Registers16
<1> DEFINE s == SymDiff(r, Bits(byte, 8))
<1>1. s \in Registers16
  <2>1. Bits(byte, 8) \subseteq 0 .. 15
    BY DEF Bits
  <2>2. QED
    BY <2>1 DEF SymDiff, Registers16
<1>2. ShiftByte(r, byte) = FourShifts(FourShifts(s))
  BY <1>1 DEF ShiftByte, EightShifts, Registers16
<1>3. FourShifts(FourShifts(s)) \in Registers16
  BY <1>1, ShiftBitType DEF FourShifts
<1>4. QED
  BY <1>1, <1>2, <1>3

\* The registers along a message are what their recursive definition says.
LEMMA RegistersDefined ==
  ASSUME NEW b \in Seq(Byte)
  PROVE  /\ Registers(b) \in [0 .. Len(b) -> Registers16]
         /\ Registers(b)[0] = 0 .. 15
         /\ \A i \in 1 .. Len(b) : Registers(b)[i] = ShiftByte(Registers(b)[i - 1], b[i])
<1> DEFINE Def(f) == [i \in 0 .. Len(b) |-> IF i = 0 THEN 0 .. 15 ELSE ShiftByte(f[i - 1], b[i])]
           Step == [i \in 1 .. Len(b) |-> [r \in Registers16 |-> ShiftByte(r, b[i])]]
<1>1. Len(b) \in Nat /\ \A i \in 1 .. Len(b) : b[i] \in Byte
  OBVIOUS
<1>2. Step \in [1 .. Len(b) -> [Registers16 -> Registers16]]
  BY <1>1, ShiftByteType
<1>3. 0 .. 15 \in Registers16
  BY DEF Registers16
<1>4. PICK f \in [0 .. Len(b) -> Registers16] :
        f[0] = 0 .. 15 /\ \A i \in 1 .. Len(b) : f[i] = Step[i][f[i - 1]]
  <2>1. Step \in Steps(Len(b), Registers16)
    BY <1>2 DEF Steps
  <2> HIDE DEF Step
  <2>2. Unfolds(Len(b), Registers16, 0 .. 15, Step)
    BY <1>1, <1>3, <2>1, Recursion
  <2>3. QED
    BY <2>2 DEF Unfolds
<1>5. f = Def(f)
  <2>1. ASSUME NEW i \in 0 .. Len(b) PROVE f[i] = Def(f)[i]
    <3>1. CASE i = 0
       BY <3>1, <1>4
    <3>2. CASE i # 0
       <4>1. i \in 1 .. Len(b) /\ i - 1 \in 0 .. Len(b) /\ f[i - 1] \in Registers16
         BY <3>2, <1>1
       <4>2. f[i] = Step[i][f[i - 1]]
         <5> HIDE DEF Step
         <5>1. QED
           BY <1>4, <3>2
       <4>3. QED
         BY <4>1, <4>2
    <3>3. QED
      BY <3>1, <3>2
  <2>2. QED
    BY <2>1
<1>6. Registers(b) = CHOOSE g : g = Def(g)
  BY DEF Registers
<1>7. Registers(b) = Def(Registers(b))
  <2> HIDE DEF Def
  <2>1. QED
    BY <1>5, <1>6
<1> HIDE DEF Step
<1>8. Registers(b) \in [0 .. Len(b) -> Registers16]
  <2> DEFINE r == Registers(b)
             Ks == {k \in Nat : k <= Len(b) => r[k] \in Registers16}
  <2> HIDE DEF r
  <2>0. \A i \in 0 .. Len(b) : r[i] = IF i = 0 THEN 0 .. 15 ELSE ShiftByte(r[i - 1], b[i])
    BY <1>7 DEF r
  <2>1. 0 \in Ks
    BY <1>1, <1>3, <2>0
  <2>2. ASSUME NEW k \in Ks PROVE k + 1 \in Ks
    <3>1. SUFFICES ASSUME k + 1 <= Len(b) PROVE r[k + 1] \in Registers16
      OBVIOUS
    <3>2. r[k] \in Registers16 /\ b[k + 1] \in Byte /\ (k + 1) - 1 = k /\ k + 1 \in 0 .. Len(b)
      BY <3>1, <1>1
    <3>3. r[k + 1] = ShiftByte(r[k], b[k + 1])
      BY <3>2, <2>0
    <3>4. QED
      BY <3>2, <3>3, ShiftByteType
  <2>3. Nat \subseteq Ks
    <3> HIDE DEF Ks
    <3>1. QED
      BY <2>1, <2>2, SetInduction
  <2>4. \A k \in 0 .. Len(b) : r[k] \in Registers16
    BY <2>3, <1>1
  <2>5. QED
    BY <2>4, <1>7 DEF r
<1>9. \A i \in 0 .. Len(b) :
        Registers(b)[i] = IF i = 0 THEN 0 .. 15 ELSE ShiftByte(Registers(b)[i - 1], b[i])
  BY <1>7
<1>10. 0 \in 0 .. Len(b) /\ \A i \in 1 .. Len(b) : i \in 0 .. Len(b) /\ i # 0
  BY <1>1
<1>11. QED
  BY <1>8, <1>9, <1>10

\* Polynomial p, whose powers above high are gone, is what the register r still has to
\* be added to: the message c, and r turned around at power high.
Matches(p, r, high, c) ==
  /\ p \subseteq 0 .. high
  /\ \A e \in 0 .. high : e \in p <=> ~ (e \in c <=> high - e \in r)

\* One power of p for one shift of r.
LEMMA BitStep ==
  ASSUME NEW high \in Nat, high >= 16, NEW p, NEW r \in Registers16, NEW c,
         high \notin c, Matches(p, r, high, c)
  PROVE  /\ Matches(Clear(p, high), ShiftBit(r), high - 1, c)
         /\ ShiftBit(r) \in Registers16
<1> DEFINE shifted == {i - 1 : i \in r \ {0}}
<1>1. high \in p <=> 0 \in r
  BY DEF Matches
<1>2. r \subseteq 0 .. 15
  BY DEF Registers16
<1>3. \A e \in 0 .. high - 1 : (high - 1) - e \in shifted <=> high - e \in r
  BY <1>2
<1>4. \A e \in 0 .. high - 1 : e \in p <=> ~ (e \in c <=> high - e \in r)
  BY DEF Matches
<1>5. p \subseteq 0 .. high
  BY DEF Matches
<1>6. CASE 0 \in r
  <2> DEFINE q == SymDiff(p, {high, high - 1, high - 14, high - 16})
  <2>1. Clear(p, high) = q /\ ShiftBit(r) = SymDiff(shifted, {0, 13, 15})
    BY <1>1, <1>6 DEF Clear, ShiftBit, Polynomial
  <2>2. q \subseteq 0 .. high - 1
    BY <1>1, <1>5, <1>6 DEF SymDiff
  <2>3. ASSUME NEW e \in 0 .. high - 1
        PROVE  e \in q <=> ~ (e \in c <=> (high - 1) - e \in SymDiff(shifted, {0, 13, 15}))
    <3>1. e \in {high, high - 1, high - 14, high - 16} <=> (high - 1) - e \in {0, 13, 15}
      OBVIOUS
    <3> HIDE DEF shifted
    <3>2. QED
      BY <1>3, <1>4, <3>1 DEF SymDiff
  <2>4. QED
    BY <2>1, <2>2, <2>3, ShiftBitType DEF Matches
<1>7. CASE 0 \notin r
  <2>1. Clear(p, high) = p /\ ShiftBit(r) = shifted
    BY <1>1, <1>7 DEF Clear, ShiftBit
  <2>2. p \subseteq 0 .. high - 1
    BY <1>1, <1>5, <1>7
  <2>3. \A e \in 0 .. high - 1 : e \in p <=> ~ (e \in c <=> (high - 1) - e \in shifted)
    BY <1>3, <1>4
  <2>4. QED
    BY <2>1, <2>2, <2>3, ShiftBitType DEF Matches
<1>8. QED
  BY <1>6, <1>7

\* Four powers of p for four shifts of r.
LEMMA FourBits ==
  ASSUME NEW high \in Nat, high >= 19, NEW p, NEW r \in Registers16, NEW c,
         \A e \in high - 3 .. high : e \notin c, Matches(p, r, high, c)
  PROVE  /\ Matches(ClearFour(p, high), FourShifts(r), high - 4, c)
         /\ FourShifts(r) \in Registers16
<1> DEFINE p1 == Clear(p, high)            r1 == ShiftBit(r)
           p2 == Clear(p1, high - 1)       r2 == ShiftBit(r1)
           p3 == Clear(p2, high - 2)       r3 == ShiftBit(r2)
<1> HIDE DEF p1, r1, p2, r2, p3, r3
<1>1. Matches(p1, r1, high - 1, c) /\ r1 \in Registers16
  BY BitStep DEF p1, r1
<1>2. Matches(p2, r2, (high - 1) - 1, c) /\ r2 \in Registers16
  BY <1>1, BitStep DEF p2, r2
<1>3. Matches(p3, r3, (high - 2) - 1, c) /\ r3 \in Registers16
  <2>1. (high - 1) - 1 = high - 2
    OBVIOUS
  <2>2. QED
    BY <1>2, <2>1, BitStep DEF p3, r3
<1>4. /\ Matches(Clear(p3, high - 3), ShiftBit(r3), (high - 3) - 1, c)
      /\ ShiftBit(r3) \in Registers16
  <2>1. (high - 2) - 1 = high - 3
    OBVIOUS
  <2>2. QED
    BY <1>3, <2>1, BitStep
<1>5. (high - 3) - 1 = high - 4
  OBVIOUS
<1>6. ClearFour(p, high) = Clear(p3, high - 3) /\ FourShifts(r) = ShiftBit(r3)
  BY DEF ClearFour, FourShifts, p1, r1, p2, r2, p3, r3
<1>7. QED
  BY <1>4, <1>5, <1>6

\* Eight powers of p for eight shifts of r.
LEMMA EightBits ==
  ASSUME NEW high \in Nat, high >= 23, NEW p, NEW r \in Registers16, NEW c,
         \A e \in high - 7 .. high : e \notin c, Matches(p, r, high, c)
  PROVE  Matches(ClearEight(high)[p], FourShifts(FourShifts(r)), high - 8, c)
<1>1. /\ Matches(ClearFour(p, high), FourShifts(r), high - 4, c)
      /\ FourShifts(r) \in Registers16
  BY FourBits
<1>2. Matches(ClearFour(ClearFour(p, high), high - 4), FourShifts(FourShifts(r)), (high - 4) - 4, c)
  BY <1>1, FourBits
<1>3. p \in SUBSET Nat
  BY DEF Matches
<1>4. ClearEight(high)[p] = ClearFour(ClearFour(p, high), high - 4)
  BY <1>3 DEF ClearEight
<1>5. (high - 4) - 4 = high - 8
  OBVIOUS
<1>6. QED
  BY <1>2, <1>4, <1>5

\* The bits of byte i of b are the coefficients from the power where its division starts.
LEMMA ByteCoefficients ==
  ASSUME NEW b \in Seq(Byte), NEW i \in 1 .. Len(b), NEW k \in 0 .. 7
  PROVE  Top(b) - 8 * (i - 1) - k \in Coefficients(b) <=> k \in Bits(b[i], 8)
<1> DEFINE e == Top(b) - 8 * (i - 1) - k
<1>1. Len(b) \in Nat /\ i \in Nat /\ k \in Nat
  OBVIOUS
<1>2. e \in 16 .. Top(b)
  BY <1>1 DEF Top
<1>3. Top(b) - e = 8 * (i - 1) + k
  BY <1>1 DEF Top
<1>4. (Top(b) - e) \div 8 + 1 = i /\ (Top(b) - e) % 8 = k
  BY <1>1, <1>3
<1>5. e \in Coefficients(b) <=> Bit(b[i], k)
  <2> HIDE DEF e
  <2>1. QED
    BY <1>2, <1>4 DEF Coefficients
<1>6. k \in Bits(b[i], 8) <=> Bit(b[i], k)
  BY DEF Bits
<1>7. QED
  BY <1>5, <1>6

\* The message has no coefficient below the 16 zeros appended to it.
LEMMA CoefficientsType ==
  ASSUME NEW b \in Seq(Byte)
  PROVE  Coefficients(b) \subseteq 16 .. Top(b)
  BY DEF Coefficients

\* A byte goes into the register as the division comes to its coefficients.
LEMMA ByteStep ==
  ASSUME NEW b \in Seq(Byte), NEW i \in 1 .. Len(b), NEW p, NEW r \in Registers16,
         Matches(p, r, Top(b) - 8 * (i - 1), Coefficients(b))
  PROVE  Matches(ClearEight(Top(b) - 8 * (i - 1))[p], ShiftByte(r, b[i]),
                 Top(b) - 8 * i, Coefficients(b))
<1> DEFINE high == Top(b) - 8 * (i - 1)
           c == Coefficients(b) \ (high - 7 .. high)
           s == SymDiff(r, Bits(b[i], 8))
<1>1. /\ Len(b) \in Nat /\ i \in Nat /\ b[i] \in Byte
      /\ high \in Nat /\ high >= 23 /\ high - 8 = Top(b) - 8 * i
  BY DEF Top
<1>2. s \in Registers16 /\ ShiftByte(r, b[i]) = FourShifts(FourShifts(s))
  BY <1>1, ShiftByteType
<1>3. Matches(p, s, high, c)
  <2>1. \A e \in 0 .. high : e \in p <=> ~ (e \in Coefficients(b) <=> high - e \in r)
    BY DEF Matches
  <2>2. ASSUME NEW e \in 0 .. high
        PROVE  e \in p <=> ~ (e \in c <=> high - e \in s)
    <3>1. CASE e \in high - 7 .. high
      <4> HIDE DEF high
      <4>1. high - e \in 0 .. 7 /\ high - (high - e) = e
        BY <1>1, <3>1
      <4>2. e \in Coefficients(b) <=> high - e \in Bits(b[i], 8)
        BY <4>1, ByteCoefficients DEF high
      <4>3. QED
        BY <2>1, <3>1, <4>2 DEF SymDiff
    <3>2. CASE e \notin high - 7 .. high
      <4>1. high - e \notin Bits(b[i], 8)
        BY SMTT(60), <1>1, <3>2 DEF Bits
      <4> HIDE DEF high
      <4>2. QED
        BY <2>1, <3>2, <4>1 DEF SymDiff
    <3>3. QED
      BY <3>1, <3>2
  <2>3. p \subseteq 0 .. high
    BY DEF Matches
  <2> HIDE DEF high, c, s
  <2>4. QED
    BY <2>2, <2>3 DEF Matches
<1>4. Matches(ClearEight(high)[p], FourShifts(FourShifts(s)), high - 8, c)
  <2> HIDE DEF high, s
  <2>1. \A e \in high - 7 .. high : e \notin c
    OBVIOUS
  <2> HIDE DEF c
  <2>2. QED
    BY <1>1, <1>2, <1>3, <2>1, EightBits
<1>5. Matches(ClearEight(high)[p], FourShifts(FourShifts(s)), high - 8, Coefficients(b))
  <2>1. \A e \in 0 .. high - 8 : e \in c <=> e \in Coefficients(b)
    BY <1>1
  <2> HIDE DEF high, c, s
  <2>2. QED
    BY <1>4, <2>1 DEF Matches
<1>6. QED
  BY <1>1, <1>2, <1>5

\* A division leaves a polynomial.
LEMMA ClearType ==
  /\ \A p \in SUBSET Nat, high \in Nat : high >= 16 => Clear(p, high) \in SUBSET Nat
  /\ \A p \in SUBSET Nat, high \in Nat : high >= 23 => ClearEight(high)[p] \in SUBSET Nat
<1>1. ASSUME NEW p \in SUBSET Nat, NEW high \in Nat, high >= 16
      PROVE  Clear(p, high) \in SUBSET Nat
  <2>1. {high, high - 1, high - 14, high - 16} \subseteq Nat
    BY <1>1
  <2>2. QED
    BY <2>1 DEF Clear, SymDiff
<1>2. ASSUME NEW p \in SUBSET Nat, NEW high \in Nat, high >= 19
      PROVE  ClearFour(p, high) \in SUBSET Nat
  <2>1. high - 1 \in Nat /\ high - 2 \in Nat /\ high - 3 \in Nat
    BY <1>2
  <2>2. high - 1 >= 16 /\ high - 2 >= 16 /\ high - 3 >= 16
    BY <1>2
  <2>3. Clear(p, high) \in SUBSET Nat
    BY <1>1, <1>2
  <2>4. Clear(Clear(p, high), high - 1) \in SUBSET Nat
    BY <1>1, <2>1, <2>2, <2>3
  <2>5. Clear(Clear(Clear(p, high), high - 1), high - 2) \in SUBSET Nat
    BY <1>1, <2>1, <2>2, <2>4
  <2>6. QED
    BY <1>1, <2>1, <2>2, <2>5 DEF ClearFour
<1>3. ASSUME NEW p \in SUBSET Nat, NEW high \in Nat, high >= 23
      PROVE  ClearEight(high)[p] \in SUBSET Nat
  <2>1. high - 4 \in Nat /\ high - 4 >= 19
    BY <1>3
  <2>2. ClearFour(p, high) \in SUBSET Nat
    BY <1>2, <1>3
  <2>3. ClearEight(high)[p] = ClearFour(ClearFour(p, high), high - 4)
    BY DEF ClearEight
  <2>4. QED
    BY <1>2, <2>1, <2>2, <2>3
<1>4. QED
  BY <1>1, <1>3

\* The remainders along a message are what their recursive definition says.
LEMMA DivisionDefined ==
  ASSUME NEW b \in Seq(Byte)
  PROVE  /\ Division(b)[0] = SymDiff(Coefficients(b), Top(b) - 15 .. Top(b))
         /\ \A i \in 1 .. Len(b) :
              Division(b)[i] = ClearEight(Top(b) - 8 * (i - 1))[Division(b)[i - 1]]
<1> DEFINE first == SymDiff(Coefficients(b), Top(b) - 15 .. Top(b))
           Def(f) == [i \in 0 .. Len(b) |->
                        IF i = 0 THEN first ELSE ClearEight(Top(b) - 8 * (i - 1))[f[i - 1]]]
           Step == [i \in 1 .. Len(b) |->
                      [p \in SUBSET Nat |-> ClearEight(Top(b) - 8 * (i - 1))[p]]]
<1>1. Len(b) \in Nat /\ Top(b) \in Nat /\ Top(b) >= 15
  BY DEF Top
<1>2. Step \in Steps(Len(b), SUBSET Nat)
  <2>1. ASSUME NEW i \in 1 .. Len(b), NEW p \in SUBSET Nat
        PROVE  ClearEight(Top(b) - 8 * (i - 1))[p] \in SUBSET Nat
    <3>1. Top(b) - 8 * (i - 1) \in Nat /\ Top(b) - 8 * (i - 1) >= 23
      BY <1>1 DEF Top
    <3>2. QED
      BY <3>1, ClearType
  <2>2. QED
    BY <2>1 DEF Steps
<1>3. first \in SUBSET Nat
  BY <1>1, CoefficientsType DEF SymDiff
<1>4. PICK f \in [0 .. Len(b) -> SUBSET Nat] :
        f[0] = first /\ \A i \in 1 .. Len(b) : f[i] = Step[i][f[i - 1]]
  <2> HIDE DEF Step, first
  <2>1. Unfolds(Len(b), SUBSET Nat, first, Step)
    BY <1>1, <1>2, <1>3, Recursion
  <2>2. QED
    BY <2>1 DEF Unfolds
<1>5. f = Def(f)
  <2>1. ASSUME NEW i \in 0 .. Len(b) PROVE f[i] = Def(f)[i]
    <3>1. CASE i = 0
      BY <3>1, <1>4
    <3>2. CASE i # 0
      <4>1. i \in 1 .. Len(b) /\ i - 1 \in 0 .. Len(b) /\ f[i - 1] \in SUBSET Nat
        BY <3>2, <1>1
      <4>2. f[i] = Step[i][f[i - 1]]
        <5> HIDE DEF Step
        <5>1. QED
          BY <1>4, <3>2
      <4>3. QED
        BY <4>1, <4>2, <3>2
    <3>3. QED
      BY <3>1, <3>2
  <2>2. QED
    BY <2>1
<1>6. Division(b) = CHOOSE g : g = Def(g)
  BY DEF Division
<1>7. Division(b) = Def(Division(b))
  <2> HIDE DEF Def
  <2>1. QED
    BY <1>5, <1>6
<1> HIDE DEF Step, first
<1>8. \A i \in 0 .. Len(b) :
        Division(b)[i] = IF i = 0 THEN first
                         ELSE ClearEight(Top(b) - 8 * (i - 1))[Division(b)[i - 1]]
  BY <1>7
<1>9. 0 \in 0 .. Len(b) /\ \A i \in 1 .. Len(b) : i \in 0 .. Len(b) /\ i # 0
  BY <1>1
<1>10. QED
  BY <1>8, <1>9 DEF first

\* The register that the code leaves behind is the remainder of the division by the
\* polynomial, read backwards, whatever the message and however long (crc.go:3-18).
THEOREM CrcIsRemainder ==
  \A b \in Seq(Byte) : CRC16Modbus(b) = CrcRemainder(b)
<1> SUFFICES ASSUME NEW b \in Seq(Byte) PROVE CRC16Modbus(b) = CrcRemainder(b)
  OBVIOUS
<1> DEFINE crc == Registers(b)
           rest == Division(b)
           Ks == {k \in Nat : k <= Len(b) =>
                    Matches(rest[k], crc[k], Top(b) - 8 * k, Coefficients(b))}
<1>1. Len(b) \in Nat /\ Top(b) \in Nat /\ Top(b) >= 15
  BY DEF Top
<1>2. \A k \in 0 .. Len(b) : crc[k] \in Registers16
  BY RegistersDefined
<1>3. Matches(rest[0], crc[0], Top(b), Coefficients(b))
  <2>1. rest[0] = SymDiff(Coefficients(b), Top(b) - 15 .. Top(b)) /\ crc[0] = 0 .. 15
    BY DivisionDefined, RegistersDefined
  <2> HIDE DEF rest, crc
  <2>2. rest[0] \subseteq 0 .. Top(b)
    BY <1>1, <2>1, CoefficientsType DEF SymDiff
  <2>3. ASSUME NEW e \in 0 .. Top(b)
        PROVE  e \in Top(b) - 15 .. Top(b) <=> Top(b) - e \in 0 .. 15
    <3> DEFINE top == Top(b)
    <3>1. top \in Nat /\ top >= 15 /\ e \in 0 .. top
      BY <1>1
    <3> HIDE DEF top
    <3>2. e \in top - 15 .. top <=> top - e \in 0 .. 15
      BY <3>1
    <3>3. QED
      BY <3>2 DEF top
  <2>4. \A e \in 0 .. Top(b) : e \in rest[0] <=> ~ (e \in Coefficients(b) <=> Top(b) - e \in crc[0])
    BY <2>1, <2>3 DEF SymDiff
  <2>5. QED
    BY <2>2, <2>4 DEF Matches
<1>4. 0 \in Ks
  <2>1. Top(b) - 8 * 0 = Top(b)
    BY <1>1
  <2>2. QED
    BY <1>3, <2>1
<1>5. ASSUME NEW k \in Ks PROVE k + 1 \in Ks
  <2>1. SUFFICES ASSUME k + 1 <= Len(b)
                 PROVE  Matches(rest[k + 1], crc[k + 1], Top(b) - 8 * (k + 1), Coefficients(b))
    OBVIOUS
  <2>2. k + 1 \in 1 .. Len(b) /\ (k + 1) - 1 = k /\ k \in 0 .. Len(b)
    BY <1>1, <2>1
  <2>3. crc[k + 1] = ShiftByte(crc[k], b[k + 1])
    BY <2>2, RegistersDefined
  <2>4. rest[k + 1] = ClearEight(Top(b) - 8 * k)[rest[k]]
    BY <2>2, DivisionDefined
  <2>5. Matches(rest[k], crc[k], Top(b) - 8 * k, Coefficients(b)) /\ crc[k] \in Registers16
    BY <1>2, <2>1, <2>2
  <2> HIDE DEF rest, crc
  <2>6. QED
    BY <2>2, <2>3, <2>4, <2>5, ByteStep
<1>6. Matches(rest[Len(b)], crc[Len(b)], 15, Coefficients(b))
  <2>1. Nat \subseteq Ks
    <3> HIDE DEF Ks
    <3>1. QED
      BY <1>4, <1>5, SetInduction
  <2>2. Top(b) - 8 * Len(b) = 15
    BY <1>1 DEF Top
  <2>3. QED
    BY <1>1, <2>1, <2>2
<1>7. {15 - e : e \in rest[Len(b)]} = crc[Len(b)]
  <2> DEFINE p == rest[Len(b)]
             r == crc[Len(b)]
  <2>1. r \subseteq 0 .. 15
    BY <1>1, <1>2 DEF Registers16
  <2> HIDE DEF p, r
  <2>2. p \subseteq 0 .. 15 /\ \A e \in 0 .. 15 : e \in p <=> 15 - e \in r
    BY <1>6, CoefficientsType DEF Matches, p, r
  <2>3. {15 - e : e \in p} = r
    <3>1. ASSUME NEW i \in r PROVE i \in {15 - e : e \in p}
      <4>1. 15 - i \in p /\ 15 - (15 - i) = i
        BY SMTT(60), <2>1, <2>2
      <4>2. QED
        BY <4>1
    <3>2. QED
      BY <2>2, <3>1
  <2>4. QED
    BY <2>3 DEF p, r
<1>8. QED
  BY <1>7 DEF CRC16Modbus, CrcRemainder

------------------------------------------------------------------------------
(* Bytes and numbers.                                                       *)

\* What a byte is, for the provers to use without the interval.
LEMMA ByteDef == \A n : n \in Byte <=> n \in Nat /\ n < 256
  BY DEF Byte

\* A number of 16 bits.
Short(n) == n \in Nat /\ n < 65536

\* The weight of one bit.
LEMMA WeightType ==
  ASSUME NEW bits, NEW i, NEW w \in Nat
  PROVE  /\ Weight(bits, i, w) \in Nat
         /\ Weight(bits, i, w) <= w
         /\ i \notin bits => Weight(bits, i, w) = 0
  BY DEF Weight

\* The weight of four bits.
LEMMA FourType ==
  ASSUME NEW bits, NEW i \in Nat, NEW w \in Nat
  PROVE  /\ FourWeights(bits, i, w) \in Nat
         /\ FourWeights(bits, i, w) <= 15 * w
         /\ bits \cap i .. i + 3 = {} => FourWeights(bits, i, w) = 0
<1>1. Weight(bits, i, w) \in Nat /\ Weight(bits, i, w) <= w
  BY WeightType
<1>2. Weight(bits, i + 1, 2 * w) \in Nat /\ Weight(bits, i + 1, 2 * w) <= 2 * w
  BY DEF Weight
<1>3. Weight(bits, i + 2, 4 * w) \in Nat /\ Weight(bits, i + 2, 4 * w) <= 4 * w
  BY DEF Weight
<1>4. Weight(bits, i + 3, 8 * w) \in Nat /\ Weight(bits, i + 3, 8 * w) <= 8 * w
  BY DEF Weight
<1>5. FourWeights(bits, i, w) \in Nat /\ FourWeights(bits, i, w) <= 15 * w
  BY <1>1, <1>2, <1>3, <1>4 DEF FourWeights
<1>6. ASSUME bits \cap i .. i + 3 = {} PROVE FourWeights(bits, i, w) = 0
  <2>1. i \notin bits /\ i + 1 \notin bits /\ i + 2 \notin bits /\ i + 3 \notin bits
    BY <1>6
  <2>2. QED
    BY <2>1 DEF FourWeights, Weight
<1>7. QED
  BY <1>5, <1>6

\* The number of a register has 16 bits, and of its low half 8.
LEMMA NumberOfType ==
  ASSUME NEW bits
  PROVE  /\ Short(NumberOf(bits))
         /\ bits \subseteq 0 .. 7 => NumberOf(bits) \in Byte
<1>1. FourWeights(bits, 0, 1) \in Nat /\ FourWeights(bits, 0, 1) <= 15
  BY FourType
<1>2. FourWeights(bits, 4, 16) \in Nat /\ FourWeights(bits, 4, 16) <= 240
  BY FourType
<1>3. FourWeights(bits, 8, 256) \in Nat /\ FourWeights(bits, 8, 256) <= 3840
  BY FourType
<1>4. FourWeights(bits, 12, 4096) \in Nat /\ FourWeights(bits, 12, 4096) <= 61440
  BY FourType
<1>5. Short(NumberOf(bits))
  BY <1>1, <1>2, <1>3, <1>4 DEF NumberOf, Short
<1>6. ASSUME bits \subseteq 0 .. 7 PROVE NumberOf(bits) \in Byte
  <2>1. bits \cap 8 .. 8 + 3 = {} /\ bits \cap 12 .. 12 + 3 = {}
    BY <1>6
  <2>2. FourWeights(bits, 8, 256) = 0 /\ FourWeights(bits, 12, 4096) = 0
    BY <2>1, FourType
  <2>3. NumberOf(bits) \in Nat /\ NumberOf(bits) < 256
    BY <1>1, <1>2, <2>2 DEF NumberOf
  <2>4. QED
    BY <2>3, ByteDef
<1>7. QED
  BY <1>5, <1>6

------------------------------------------------------------------------------
(* Headers (header.go:61-111, 162-188).                                     *)

\* A number is put together from its two low bytes, if it has no more.
LEMMA Halves ==
  ASSUME NEW n \in Nat
  PROVE  /\ Low(n) \in Byte /\ High(n) \in Byte
         /\ Short(n) => Low(n) + 256 * High(n) = n
         /\ n < 256 => Low(n) = n
<1>1. n % 256 \in Nat /\ n % 256 < 256 /\ n \div 256 \in Nat
  OBVIOUS
<1>2. (n \div 256) % 256 \in Nat /\ (n \div 256) % 256 < 256
  BY <1>1
<1>3. ASSUME Short(n) PROVE (n % 256) + 256 * ((n \div 256) % 256) = n
  BY <1>3 DEF Short
<1>4. n < 256 => n % 256 = n
  OBVIOUS
<1>5. QED
  BY <1>1, <1>2, <1>3, <1>4, ByteDef DEF Low, High

\* The constants of the formats are bytes.
LEMMA SmallBytes == \A n \in 0 .. 128 : n \in Byte
  BY ByteDef

\* Where a Header16 header has what.
LEMMA HeaderBytes ==
  ASSUME NEW h, h.length \in Nat, h.code \in Nat, h.seq \in Byte
  PROVE  LET b == EncodeHeader(h)
         IN /\ b \in Seq(Byte) /\ Len(b) = 16
            /\ b[1] = Low(h.length) /\ b[2] = High(h.length) /\ b[5] = 4
            /\ b[8] = Low(h.code) /\ b[11] = h.seq
<1> DEFINE a == Low(h.length)   c == High(h.length)   d == Low(h.code)   s == h.seq
<1>1. a \in Byte /\ c \in Byte /\ d \in Byte /\ s \in Byte
  BY Halves
<1>2. 0 \in Byte /\ 4 \in Byte /\ 2 \in Byte /\ 128 \in Byte
  BY SmallBytes
<1>3. EncodeHeader(h) = <<a, c, 0, 0, 4, 0, 0, d, 0, 2, s, 0, 0, 128, 0, 0>>
  BY DEF EncodeHeader, headerMode, ContentTypeProtobuf, headerIsLast
<1> HIDE DEF a, c, d, s
<1>4. <<a, c, 0, 0, 4, 0, 0, d, 0, 2, s, 0, 0, 128, 0, 0>> \in Seq(Byte)
  BY <1>1, <1>2
<1>5. QED
  BY <1>3, <1>4 DEF a, c, d, s

\* Where a Go2 header has what.
LEMMA Go2HeaderBytes ==
  ASSUME NEW h, h.length \in Nat, h.code \in Nat, h.seq \in Byte
  PROVE  LET b == EncodeGo2Header(h)
         IN /\ b \in Seq(Byte) /\ Len(b) = 16
            /\ Short(16 + h.length) => U16(b, 0) = 16 + h.length /\ b[3] = 0 /\ b[4] = 0
            /\ b[5] = 4 /\ b[6] = 0
            /\ b[8] = Low(h.code) /\ b[9] = High(h.code) /\ b[11] = h.seq
<1> DEFINE total == Word(16 + h.length)
           b1 == Low(total.lo)   b2 == High(total.lo)   b3 == Low(total.hi)   b4 == High(total.hi)
           b8 == Low(h.code)     b9 == High(h.code)     b11 == h.seq
<1>1. total.lo \in Nat /\ total.hi \in Nat
  BY DEF Word
<1>2. /\ b1 \in Byte /\ b2 \in Byte /\ b3 \in Byte /\ b4 \in Byte
      /\ b8 \in Byte /\ b9 \in Byte /\ b11 \in Byte
  BY <1>1, Halves
<1>3. 0 \in Byte /\ 4 \in Byte /\ 2 \in Byte /\ 128 \in Byte
  BY SmallBytes
<1>4. EncodeGo2Header(h) = <<b1, b2, b3, b4, 4, 0, 0, b8, b9, 2, b11, 0, 0, 128, 0, 0>>
  BY DEF EncodeGo2Header, Go2Header, HeaderSize, headerMode, ContentTypeProtobuf, headerIsLast
<1>5. Short(16 + h.length) => b1 + 256 * b2 = 16 + h.length
  <2>1. Short(16 + h.length) => total.lo = 16 + h.length
    BY DEF Word, Short
  <2>2. QED
    BY <2>1, Halves
<1>8. Short(16 + h.length) => b3 = 0 /\ b4 = 0
  <2>1. Short(16 + h.length) => total.hi = 0
    BY DEF Word, Short
  <2>2. Low(0) = 0 /\ High(0) = 0
    BY DEF Low, High
  <2>3. QED
    BY <2>1, <2>2
<1> HIDE DEF b1, b2, b3, b4, b8, b9, b11
<1>6. <<b1, b2, b3, b4, 4, 0, 0, b8, b9, 2, b11, 0, 0, 128, 0, 0>> \in Seq(Byte)
  BY <1>2, <1>3
<1>7. QED
  BY <1>4, <1>5, <1>6, <1>8 DEF b8, b9, b11, U16, At

\* A part of a sequence has elements of the same set, even if it begins after its end.
LEMMA SubSeqType ==
  ASSUME NEW S, NEW s \in Seq(S), NEW m \in Nat \ {0}, NEW n \in Int, n <= Len(s)
  PROVE  SubSeq(s, m, n) \in Seq(S)
<1>1. \A i \in m .. n : s[i] \in S
  OBVIOUS
<1>2. QED
  BY <1>1, SubSeqProperties

\* The parts of a concatenation.
LEMMA Parts ==
  ASSUME NEW S, NEW s \in Seq(S), NEW t \in Seq(S)
  PROVE  /\ s \o t \in Seq(S) /\ Len(s \o t) = Len(s) + Len(t)
         /\ SubSeq(s \o t, 1, Len(s)) = s
         /\ SubSeq(s \o t, Len(s) + 1, Len(s) + Len(t)) = t
         /\ \A i \in 1 .. Len(s) : (s \o t)[i] = s[i]
         /\ \A i \in 1 .. Len(t) : (s \o t)[Len(s) + i] = t[i]
<1> DEFINE st == s \o t
<1>1. /\ st \in Seq(S) /\ Len(st) = Len(s) + Len(t)
      /\ \A i \in 1 .. Len(s) + Len(t) : st[i] = IF i <= Len(s) THEN s[i] ELSE t[i - Len(s)]
  BY ConcatProperties
<1>2. Len(s) \in Nat /\ Len(t) \in Nat
  OBVIOUS
<1> HIDE DEF st
<1>3. \A i \in 1 .. Len(s) : st[i] = s[i]
  BY <1>1, <1>2
<1>4. \A i \in 1 .. Len(t) : st[Len(s) + i] = t[i]
  BY SMTT(60), <1>1, <1>2
<1>5. SubSeq(st, 1, Len(s)) = s
  <2> DEFINE u == SubSeq(st, 1, Len(s))
  <2>1. u \in Seq(S) /\ Len(u) = Len(s) /\ \A i \in 1 .. Len(s) : u[i] = st[i]
    BY <1>1, <1>2
  <2> HIDE DEF u
  <2>2. u = s
    BY <1>3, <2>1, SeqEqual
  <2>3. QED
    BY <2>2 DEF u
<1>6. SubSeq(st, Len(s) + 1, Len(s) + Len(t)) = t
  <2> DEFINE u == SubSeq(st, Len(s) + 1, Len(s) + Len(t))
  <2>1. u \in Seq(S) /\ Len(u) = Len(t) /\ \A i \in 1 .. Len(t) : u[i] = st[Len(s) + i]
    BY <1>1, <1>2
  <2> HIDE DEF u
  <2>2. u = t
    BY <1>4, <2>1, SeqEqual
  <2>3. QED
    BY <2>2 DEF u
<1>7. QED
  BY <1>1, <1>3, <1>4, <1>5, <1>6 DEF st

------------------------------------------------------------------------------
(* What the camera reads in a packet and in a message.                      *)

\* A check has 16 bits.
LEMMA CrcType ==
  ASSUME NEW b
  PROVE  Short(CRC16Modbus(b))
  BY NumberOfType DEF CRC16Modbus

\* An envelope opens to what was put into it, and its check is right.
LEMMA EnvelopeBytes ==
  ASSUME NEW type \in Byte, NEW subtype \in Byte, NEW data \in Seq(Byte)
  PROVE  LET b == EncodeGo2BlePacket(type, subtype, data)
         IN /\ b \in Seq(Byte) /\ Len(b) = 7 + Len(data)
            /\ b[1] = 255 /\ b[3] = subtype /\ b[5] = High(Len(data))
            /\ \A i \in 1 .. Len(data) : b[5 + i] = data[i]
            /\ Short(Len(data)) =>
                 /\ U16(b, 3) = Len(data)
                 /\ SubSeq(b, 6, 5 + Len(data)) = data
                 /\ U16(b, 5 + Len(data)) = CRC16Modbus(SubSeq(b, 1, 5 + Len(data)))
<1> DEFINE n == Len(data)
           l == Low(n)   h == High(n)
           head == <<255, type, subtype, l, h>>
           body == head \o data
           crc == CRC16Modbus(body)
           x == Low(crc)   y == High(crc)
           check == <<x, y>>
           b == body \o check
<1>1. EncodeGo2BlePacket(type, subtype, data) = b
  BY DEF EncodeGo2BlePacket, Go2BLEMarker, LE16
<1>2. n \in Nat /\ l \in Byte /\ h \in Byte /\ (Short(n) => l + 256 * h = n)
  BY Halves
<1>3. x \in Byte /\ y \in Byte /\ x + 256 * y = crc
  <2> HIDE DEF body
  <2>1. crc \in Nat /\ Short(crc)
    BY CrcType DEF Short
  <2> HIDE DEF crc
  <2>2. QED
    BY <2>1, Halves
<1>4. 255 \in Byte
  BY ByteDef
<1> HIDE DEF l, h, x, y
<1>5. /\ head \in Seq(Byte) /\ Len(head) = 5
      /\ head[1] = 255 /\ head[3] = subtype /\ head[4] = l /\ head[5] = h
  <2>1. l \in Byte /\ h \in Byte
    BY <1>2
  <2>2. QED
    BY <1>4, <2>1
<1>6. check \in Seq(Byte) /\ Len(check) = 2 /\ check[1] = x /\ check[2] = y
  <2>1. x \in Byte /\ y \in Byte
    BY <1>3
  <2>2. QED
    BY <2>1
<1> HIDE DEF head, check
<1>7. /\ body \in Seq(Byte) /\ Len(body) = 5 + n
      /\ body[1] = 255 /\ body[3] = subtype /\ body[4] = l /\ body[5] = h
      /\ SubSeq(body, 6, 5 + n) = data
      /\ \A i \in 1 .. n : body[5 + i] = data[i]
  <2>1. /\ body \in Seq(Byte) /\ Len(body) = Len(head) + Len(data)
        /\ SubSeq(body, Len(head) + 1, Len(head) + Len(data)) = data
        /\ \A i \in 1 .. Len(head) : body[i] = head[i]
        /\ \A i \in 1 .. Len(data) : body[Len(head) + i] = data[i]
    <3>1. head \in Seq(Byte)
      BY <1>5
    <3>2. QED
      BY <3>1, Parts
  <2>2. Len(head) + 1 = 6 /\ Len(head) + Len(data) = 5 + n
    BY <1>5
  <2>3. 1 \in 1 .. Len(head) /\ 3 \in 1 .. Len(head) /\ 4 \in 1 .. Len(head) /\ 5 \in 1 .. Len(head)
    BY <1>5
  <2> HIDE DEF body
  <2>4. QED
    BY <1>5, <2>1, <2>2, <2>3
<1> HIDE DEF body
<1>9. /\ b \in Seq(Byte) /\ Len(b) = 7 + n
      /\ b[1] = 255 /\ b[3] = subtype /\ b[4] = l /\ b[5] = h
      /\ \A i \in 1 .. n : b[5 + i] = data[i]
      /\ SubSeq(b, 1, 5 + n) = body
      /\ b[6 + n] = x /\ b[7 + n] = y
  <2>1. /\ b \in Seq(Byte) /\ Len(b) = 7 + n
        /\ SubSeq(b, 1, 5 + n) = body
        /\ \A i \in 1 .. 5 + n : b[i] = body[i]
        /\ \A i \in 1 .. 2 : b[5 + n + i] = check[i]
    <3>1. /\ b \in Seq(Byte) /\ Len(b) = Len(body) + Len(check)
          /\ SubSeq(b, 1, Len(body)) = body
          /\ \A i \in 1 .. Len(body) : b[i] = body[i]
          /\ \A i \in 1 .. Len(check) : b[Len(body) + i] = check[i]
      <4>1. body \in Seq(Byte) /\ check \in Seq(Byte)
        BY <1>6, <1>7
      <4>2. QED
        BY <4>1, Parts
    <3> HIDE DEF b
    <3>2. Len(body) + Len(check) = 7 + n
      BY <1>2, <1>6, <1>7
    <3>3. QED
      BY <1>6, <1>7, <3>1, <3>2
  <2>2. /\ 5 + n + 1 = 6 + n /\ 5 + n + 2 = 7 + n
        /\ 1 \in 1 .. 5 + n /\ 3 \in 1 .. 5 + n /\ 4 \in 1 .. 5 + n /\ 5 \in 1 .. 5 + n
    BY <1>2
  <2> HIDE DEF b
  <2>3. \A i \in 1 .. n : b[5 + i] = data[i]
    <3>1. \A i \in 1 .. n : 5 + i \in 1 .. 5 + n
      BY <1>2
    <3>2. QED
      BY <1>7, <2>1, <3>1
  <2>4. QED
    BY <1>6, <1>7, <2>1, <2>2, <2>3
<1>10. SubSeq(b, 6, 5 + n) = data
  <2> DEFINE u == SubSeq(b, 6, 5 + n)
  <2>1. u \in Seq(Byte) /\ Len(u) = n /\ \A i \in 1 .. n : u[i] = b[5 + i]
    <3> HIDE DEF b
    <3>1. QED
      BY <1>2, <1>9
  <2> HIDE DEF u, b
  <2>2. u = data
    BY <1>9, <2>1, SeqEqual
  <2>3. QED
    BY <2>2 DEF u
<1> HIDE DEF b
<1>11. Short(n) => U16(b, 3) = n
  BY <1>2, <1>9 DEF U16, At
<1>12. U16(b, 5 + n) = crc
  <2>1. 5 + n + 1 = 6 + n /\ (5 + n + 1) + 1 = 7 + n
    BY <1>2
  <2>2. QED
    BY <1>3, <1>9, <2>1 DEF U16, At
<1>13. QED
  BY <1>1, <1>9, <1>10, <1>11, <1>12 DEF h

\* A Go2 message as the documented layout has it.
LEMMA Go2MessageBytes ==
  ASSUME NEW code \in Nat, NEW n \in Byte, NEW payload \in Seq(Byte), Short(16 + Len(payload))
  PROVE  LET m == EncodeGo2Message(code, n, payload)
         IN /\ m \in Seq(Byte) /\ Len(m) = 16 + Len(payload)
            /\ SubSeq(m, 17, 16 + Len(payload)) = payload
            /\ U16(m, 0) = 16 + Len(payload) /\ m[3] = 0 /\ m[4] = 0 /\ m[5] = 4 /\ m[6] = 0
            /\ m[8] = Low(code) /\ m[9] = High(code) /\ m[11] = n
<1> DEFINE size == Len(payload)
           h == HeaderFor(code, n, payload)
           head == EncodeGo2Header(h)
           m == head \o payload
<1>1. size \in Nat
  OBVIOUS
<1>2. h.length = size /\ h.code = code /\ h.seq = n
  BY <1>1 DEF HeaderFor, Short
<1> HIDE DEF h
<1>3. /\ head \in Seq(Byte) /\ Len(head) = 16 /\ U16(head, 0) = 16 + size
      /\ head[3] = 0 /\ head[4] = 0 /\ head[5] = 4 /\ head[6] = 0
      /\ head[8] = Low(code) /\ head[9] = High(code) /\ head[11] = n
  BY <1>1, <1>2, Go2HeaderBytes
<1> HIDE DEF head
<1>4. /\ m \in Seq(Byte) /\ Len(m) = 16 + size
      /\ SubSeq(m, 17, 16 + size) = payload
      /\ \A i \in 1 .. 16 : m[i] = head[i]
  <2>1. /\ m \in Seq(Byte) /\ Len(m) = Len(head) + Len(payload)
        /\ SubSeq(m, Len(head) + 1, Len(head) + Len(payload)) = payload
        /\ \A i \in 1 .. Len(head) : m[i] = head[i]
    <3>1. head \in Seq(Byte)
      BY <1>3
    <3>2. QED
      BY <3>1, Parts
  <2>2. Len(head) + 1 = 17 /\ Len(head) + Len(payload) = 16 + size
    BY <1>3
  <2> HIDE DEF m
  <2>3. QED
    BY <1>3, <2>1, <2>2
<1> HIDE DEF m
<1>5. U16(m, 0) = 16 + size
  BY <1>3, <1>4 DEF U16, At
<1>6. EncodeGo2Message(code, n, payload) = m
  BY DEF EncodeGo2Message, m, head, h
<1>7. QED
  BY <1>3, <1>4, <1>5, <1>6

\* So the camera reads in it what the host meant.
LEMMA Go2MessageReads ==
  ASSUME NEW code \in Nat, Short(code), NEW n \in Byte, NEW payload \in Seq(Byte),
         Short(16 + Len(payload))
  PROVE  LET m == EncodeGo2Message(code, n, payload)
         IN /\ m \in Seq(Byte) /\ Len(m) = 16 + Len(payload)
            /\ ReadMessage(m, U16(m, 0) - 16, U16(m, 7)) =
                 [says |-> "command", code |-> code, seq |-> n, ask |-> Meaning(code, payload)]
<1> DEFINE m == EncodeGo2Message(code, n, payload)
           size == Len(payload)
<1>1. /\ m \in Seq(Byte) /\ Len(m) = 16 + size
      /\ SubSeq(m, 17, 16 + size) = payload
      /\ U16(m, 0) = 16 + size
      /\ m[8] = Low(code) /\ m[9] = High(code) /\ m[11] = n
  BY Go2MessageBytes
<1> HIDE DEF m
<1>2. U16(m, 7) = code
  <2>1. Low(code) + 256 * High(code) = code
    BY Halves
  <2>2. QED
    BY <1>1, <2>1 DEF U16, At
<1>3. (16 + size) - 16 = size
  OBVIOUS
<1>4. QED
  BY <1>1, <1>2, <1>3 DEF ReadMessage, m

\* Where a Header16 message has what.
LEMMA MessageBytes ==
  ASSUME NEW code \in Nat, NEW n \in Byte, NEW payload \in Seq(Byte), Short(Len(payload))
  PROVE  LET m == EncodeMessage(code, n, payload)
         IN /\ m \in Seq(Byte) /\ Len(m) = 16 + Len(payload)
            /\ SubSeq(m, 17, 16 + Len(payload)) = payload
            /\ U16(m, 0) = Len(payload) /\ m[5] = 4 /\ m[8] = Low(code) /\ m[11] = n
<1> DEFINE size == Len(payload)
           h == HeaderFor(code, n, payload)
           head == EncodeHeader(h)
           m == head \o payload
<1>1. size \in Nat
  OBVIOUS
<1>2. h.length = size /\ h.code = code /\ h.seq = n
  BY <1>1 DEF HeaderFor, Short
<1> HIDE DEF h
<1>3. /\ head \in Seq(Byte) /\ Len(head) = 16 /\ head[1] = Low(size) /\ head[2] = High(size)
      /\ head[5] = 4 /\ head[8] = Low(code) /\ head[11] = n
  BY <1>1, <1>2, HeaderBytes
<1> HIDE DEF head
<1>4. /\ m \in Seq(Byte) /\ Len(m) = 16 + size
      /\ SubSeq(m, 17, 16 + size) = payload
      /\ \A i \in 1 .. 16 : m[i] = head[i]
  <2>1. /\ m \in Seq(Byte) /\ Len(m) = Len(head) + Len(payload)
        /\ SubSeq(m, Len(head) + 1, Len(head) + Len(payload)) = payload
        /\ \A i \in 1 .. Len(head) : m[i] = head[i]
    <3>1. head \in Seq(Byte)
      BY <1>3
    <3>2. QED
      BY <3>1, Parts
  <2>2. Len(head) + 1 = 17 /\ Len(head) + Len(payload) = 16 + size
    BY <1>3
  <2> HIDE DEF m
  <2>3. QED
    BY <1>3, <2>1, <2>2
<1> HIDE DEF m
<1>5. U16(m, 0) = size /\ m[5] = 4 /\ m[8] = Low(code) /\ m[11] = n
  <2>1. m[1] = Low(size) /\ m[2] = High(size) /\ m[5] = 4 /\ m[8] = Low(code) /\ m[11] = n
    BY SMTT(60), <1>3, <1>4
  <2>2. Low(size) + 256 * High(size) = size
    BY <1>1, Halves
  <2>3. QED
    BY <2>1, <2>2 DEF U16, At
<1>6. EncodeMessage(code, n, payload) = m
  BY DEF EncodeMessage, m, head, h
<1>7. QED
  BY <1>4, <1>5, <1>6

\* A Header16 message likewise, but of a code only the low byte.
THEOREM MessageReads ==
  ASSUME NEW code \in Nat, NEW n \in Byte, NEW payload \in Seq(Byte), Short(Len(payload))
  PROVE  LET m == EncodeMessage(code, n, payload)
         IN /\ m \in Seq(Byte) /\ Len(m) = 16 + Len(payload)
            /\ U16(m, 0) = Len(payload)
            /\ code < 256 => ReadMessage(m, U16(m, 0), m[8]) =
                 [says |-> "command", code |-> code, seq |-> n, ask |-> Meaning(code, payload)]
            /\ ReadMessage(m, U16(m, 0), m[8]).says = "command"
<1> DEFINE m == EncodeMessage(code, n, payload)   size == Len(payload)
<1>1. /\ m \in Seq(Byte) /\ Len(m) = 16 + size
      /\ SubSeq(m, 17, 16 + size) = payload
      /\ U16(m, 0) = size /\ m[8] = Low(code) /\ m[11] = n
  BY MessageBytes
<1>2. code < 256 => Low(code) = code
  BY Halves
<1> HIDE DEF m
<1>3. QED
  BY <1>1, <1>2 DEF ReadMessage, m

\* What the camera reads in the packet of a command is the command.
THEOREM PacketReads ==
  ASSUME NEW code \in Nat, Short(code), NEW n \in Byte, NEW payload \in Seq(Byte),
         Short(16 + Len(payload))
  PROVE  LET b == EncodeGo2BlePacket(Go2BLETypeMessage, Go2BLESubtypeMessage,
                                     EncodeGo2Message(code, n, payload))
         IN /\ b \in Seq(Byte) /\ Len(b) = 23 + Len(payload)
            /\ ReadPacket(b) =
                 [says |-> "command", code |-> code, seq |-> n, ask |-> Meaning(code, payload)]
<1> DEFINE data == EncodeGo2Message(code, n, payload)
           b == EncodeGo2BlePacket(7, 64, data)
<1>1. data \in Seq(Byte) /\ Len(data) = 16 + Len(payload)
  BY Go2MessageReads
<1>2. Short(Len(data))
  BY <1>1
<1>3. ReadMessage(data, U16(data, 0) - 16, U16(data, 7)) =
        [says |-> "command", code |-> code, seq |-> n, ask |-> Meaning(code, payload)]
  BY Go2MessageReads
<1> HIDE DEF data
<1>4. 7 \in Byte /\ 64 \in Byte
  BY SmallBytes
<1>5. /\ b \in Seq(Byte) /\ Len(b) = 7 + Len(data) /\ b[3] = 64
      /\ U16(b, 3) = Len(data)
      /\ SubSeq(b, 6, 5 + Len(data)) = data
      /\ U16(b, 5 + Len(data)) = CRC16Modbus(SubSeq(b, 1, 5 + Len(data)))
  <2>1. data \in Seq(Byte)
    BY <1>1
  <2>2. QED
    BY <2>1, <1>2, <1>4, EnvelopeBytes
<1> HIDE DEF b
<1>6. CrcRemainder(SubSeq(b, 1, 5 + Len(data))) = U16(b, 5 + Len(data))
  <2>1. SubSeq(b, 1, 5 + Len(data)) \in Seq(Byte)
    BY <1>1, <1>5
  <2>2. QED
    BY <1>5, <2>1, CrcIsRemainder
<1>7. ReadPacket(b) = ReadMessage(data, U16(data, 0) - 16, U16(data, 7))
  <2>1. Len(b) = Len(data) + 7
    BY <1>1, <1>5
  <2>2. b[3] # 65
    BY <1>5
  <2>3. /\ Len(b) = U16(b, 3) + 7
        /\ CrcRemainder(SubSeq(b, 1, 5 + U16(b, 3))) = U16(b, 5 + U16(b, 3))
        /\ SubSeq(b, 6, 5 + U16(b, 3)) = data
    BY ZenonT(60), <1>5, <1>6, <2>1
  <2>4. QED
    BY ZenonT(60), <2>2, <2>3 DEF ReadPacket
<1>8. Len(b) = 23 + Len(payload)
  BY <1>1, <1>5
<1>9. QED
  BY <1>3, <1>5, <1>7, <1>8 DEF b, data, Go2BLETypeMessage, Go2BLESubtypeMessage

\* What the camera reads in a sync response is a sync.
LEMMA SyncReads ==
  /\ SyncResponse \in Seq(Byte) /\ Len(SyncResponse) = 14
  /\ ReadPacket(SyncResponse) = [says |-> "sync"]
<1> DEFINE data == Zeros(7)
           b == EncodeGo2BlePacket(7, 65, data)
<1>1. data \in Seq(Byte) /\ Len(data) = 7
  <2>1. 0 \in Byte
    BY SmallBytes
  <2>2. QED
    BY <2>1 DEF Zeros
<1> HIDE DEF data
<1>2. 7 \in Byte /\ 65 \in Byte
  BY SmallBytes
<1>3. /\ b \in Seq(Byte) /\ Len(b) = 7 + Len(data) /\ b[3] = 65
      /\ U16(b, 3) = Len(data)
      /\ U16(b, 5 + Len(data)) = CRC16Modbus(SubSeq(b, 1, 5 + Len(data)))
  <2>1. Short(Len(data))
    BY <1>1 DEF Short
  <2>2. QED
    <3>1. data \in Seq(Byte)
      BY <1>1
    <3>2. QED
      BY <3>1, <1>2, <2>1, EnvelopeBytes
<1> HIDE DEF b
<1>4. CrcRemainder(SubSeq(b, 1, 5 + Len(data))) = U16(b, 5 + Len(data))
  <2>1. SubSeq(b, 1, 5 + Len(data)) \in Seq(Byte)
    <3>1. b \in Seq(Byte)
      BY <1>3
    <3>2. 5 + Len(data) \in Int /\ 5 + Len(data) <= Len(b)
      BY <1>1, <1>3
    <3>3. QED
      BY <3>1, <3>2, SubSeqType
  <2>2. QED
    BY <1>3, <2>1, CrcIsRemainder
<1>5. ReadPacket(b) = [says |-> "sync"]
  BY <1>1, <1>3, <1>4 DEF ReadPacket
<1>6. Len(b) = 14
  BY <1>1, <1>3
<1>7. QED
  BY <1>3, <1>5, <1>6 DEF b, data, Go2BLETypeMessage, Go2BLESubtypeSync, SyncResponse

------------------------------------------------------------------------------
(* What the check of a message tells of damage.                             *)

\* A register is known by what one shift makes of it.
LEMMA ShiftBitInjective ==
  ASSUME NEW r \in Registers16, NEW s \in Registers16, ShiftBit(r) = ShiftBit(s)
  PROVE  r = s
<1>1. ASSUME NEW t \in Registers16
      PROVE  /\ 15 \in ShiftBit(t) <=> 0 \in t
             /\ \A i \in 1 .. 15 :
                  i \in t <=> ~ (i - 1 \in ShiftBit(t) <=> (0 \in t /\ i - 1 \in {0, 13, 15}))
  BY <1>1 DEF ShiftBit, SymDiff, Polynomial, Registers16
<1>2. \A i \in 0 .. 15 : i \in r <=> i \in s
  BY <1>1
<1>3. QED
  BY <1>2 DEF Registers16

\* So it is by what eight shifts make of it.
LEMMA EightShiftsInjective ==
  ASSUME NEW r \in Registers16, NEW s \in Registers16,
         FourShifts(FourShifts(r)) = FourShifts(FourShifts(s))
  PROVE  r = s
<1>1. ASSUME NEW t \in Registers16, NEW u \in Registers16, FourShifts(t) = FourShifts(u)
      PROVE  t = u
  BY <1>1, ShiftBitType, ShiftBitInjective DEF FourShifts
<1>2. FourShifts(r) \in Registers16 /\ FourShifts(s) \in Registers16
  BY ShiftBitType DEF FourShifts
<1>3. QED
  BY <1>1, <1>2

\* Four bits are known by their weight.
LEMMA FourWeightsInjective ==
  ASSUME NEW r, NEW s, NEW i \in Nat, NEW w \in Nat \ {0},
         FourWeights(r, i, w) = FourWeights(s, i, w)
  PROVE  \A k \in i .. i + 3 : k \in r <=> k \in s
  BY DEF FourWeights, Weight

\* A register is known by its number.
LEMMA NumberOfInjective ==
  ASSUME NEW r \in Registers16, NEW s \in Registers16, NumberOf(r) = NumberOf(s)
  PROVE  r = s
<1>1. ASSUME NEW t
      PROVE  /\ FourWeights(t, 0, 1) \in 0 .. 15
             /\ FourWeights(t, 4, 16) = 16 * FourWeights(t, 4, 1)
             /\ FourWeights(t, 8, 256) = 256 * FourWeights(t, 8, 1)
             /\ FourWeights(t, 12, 4096) = 4096 * FourWeights(t, 12, 1)
             /\ FourWeights(t, 4, 1) \in 0 .. 15 /\ FourWeights(t, 8, 1) \in 0 .. 15
             /\ FourWeights(t, 12, 1) \in 0 .. 15
  BY DEF FourWeights, Weight
<1>3. /\ FourWeights(r, 0, 1) = FourWeights(s, 0, 1) /\ FourWeights(r, 4, 1) = FourWeights(s, 4, 1)
      /\ FourWeights(r, 8, 1) = FourWeights(s, 8, 1)
      /\ FourWeights(r, 12, 1) = FourWeights(s, 12, 1)
  <2> DEFINE a1 == FourWeights(r, 0, 1)   b1 == FourWeights(r, 4, 1)
             c1 == FourWeights(r, 8, 1)   d1 == FourWeights(r, 12, 1)
             a2 == FourWeights(s, 0, 1)   b2 == FourWeights(s, 4, 1)
             c2 == FourWeights(s, 8, 1)   d2 == FourWeights(s, 12, 1)
  <2>1. /\ a1 \in 0 .. 15 /\ b1 \in 0 .. 15 /\ c1 \in 0 .. 15 /\ d1 \in 0 .. 15
        /\ a2 \in 0 .. 15 /\ b2 \in 0 .. 15 /\ c2 \in 0 .. 15 /\ d2 \in 0 .. 15
    BY <1>1
  <2>2. NumberOf(r) \in Nat /\ NumberOf(r) = a1 + 16 * b1 + 256 * c1 + 4096 * d1
    BY <1>1, NumberOfType DEF NumberOf, Short
  <2>3. NumberOf(r) = a2 + 16 * b2 + 256 * c2 + 4096 * d2
    BY <1>1 DEF NumberOf
  <2> HIDE DEF a1, b1, c1, d1, a2, b2, c2, d2
  <2>4. a1 = a2 /\ b1 = b2 /\ c1 = c2 /\ d1 = d2
    BY <2>1, <2>2, <2>3
  <2>5. QED
    BY <2>4 DEF a1, b1, c1, d1, a2, b2, c2, d2
<1>4. /\ \A k \in 0 .. 0 + 3 : k \in r <=> k \in s
      /\ \A k \in 4 .. 4 + 3 : k \in r <=> k \in s
      /\ \A k \in 8 .. 8 + 3 : k \in r <=> k \in s
      /\ \A k \in 12 .. 12 + 3 : k \in r <=> k \in s
  BY <1>3, FourWeightsInjective
<1>5. \A k \in 0 .. 15 : k \in r <=> k \in s
  BY <1>4
<1>6. QED
  BY <1>5 DEF Registers16

\* A byte is the number of its bits.
LEMMA BitsNumber ==
  ASSUME NEW x \in Byte
  PROVE  Bits(x, 8) \in Registers16 /\ NumberOf(Bits(x, 8)) = x
<1> DEFINE bits == Bits(x, 8)
<1>1. bits \subseteq 0 .. 7
  BY DEF Bits
<1>2. \A i \in 0 .. 7 : i \in bits <=> Bit(x, i)
  BY DEF Bits
<1>3. x \in Nat /\ x < 256
  BY ByteDef
<1>4. /\ (0 \in bits <=> x % 2 = 1)  /\ (1 \in bits <=> (x \div 2) % 2 = 1)
      /\ (2 \in bits <=> (x \div 4) % 2 = 1)  /\ (3 \in bits <=> (x \div 8) % 2 = 1)
      /\ (4 \in bits <=> (x \div 16) % 2 = 1)  /\ (5 \in bits <=> (x \div 32) % 2 = 1)
      /\ (6 \in bits <=> (x \div 64) % 2 = 1)  /\ (7 \in bits <=> (x \div 128) % 2 = 1)
  <2>1. /\ PowerOf2[0 + 1] = 1 /\ PowerOf2[1 + 1] = 2 /\ PowerOf2[2 + 1] = 4 /\ PowerOf2[3 + 1] = 8
        /\ PowerOf2[4 + 1] = 16 /\ PowerOf2[5 + 1] = 32 /\ PowerOf2[6 + 1] = 64
        /\ PowerOf2[7 + 1] = 128
    BY DEF PowerOf2
  <2>2. x \div 1 = x
    BY <1>3
  <2> HIDE DEF bits
  <2>3. \A i \in 0 .. 7 : i \in bits <=> (x \div PowerOf2[i + 1]) % 2 = 1
    BY <1>2 DEF Bit
  <2>4. /\ 0 \in bits <=> (x \div PowerOf2[0 + 1]) % 2 = 1
        /\ 1 \in bits <=> (x \div PowerOf2[1 + 1]) % 2 = 1
        /\ 2 \in bits <=> (x \div PowerOf2[2 + 1]) % 2 = 1
        /\ 3 \in bits <=> (x \div PowerOf2[3 + 1]) % 2 = 1
        /\ 4 \in bits <=> (x \div PowerOf2[4 + 1]) % 2 = 1
        /\ 5 \in bits <=> (x \div PowerOf2[5 + 1]) % 2 = 1
        /\ 6 \in bits <=> (x \div PowerOf2[6 + 1]) % 2 = 1
        /\ 7 \in bits <=> (x \div PowerOf2[7 + 1]) % 2 = 1
    BY <2>3
  <2>5. QED
    BY <2>1, <2>2, <2>4
<1> HIDE DEF bits
<1>5. /\ FourWeights(bits, 8, 256) = 0 /\ FourWeights(bits, 12, 4096) = 0
  BY <1>1 DEF FourWeights, Weight
<1>6. ASSUME NEW y \in Nat
      PROVE  y \div 2 \in Nat /\ y % 2 \in 0 .. 1 /\ (y % 2) + 2 * (y \div 2) = y
  <2>1. y \div 2 \in Nat /\ y % 2 \in 0 .. 1
    OBVIOUS
  <2>2. (y % 2) + 2 * (y \div 2) = y
    OBVIOUS
  <2>3. QED
    BY <2>1, <2>2
<1>7. FourWeights(bits, 0, 1) + FourWeights(bits, 4, 16) = x
  <2> DEFINE x1 == x \div 2   x2 == x \div 4   x3 == x \div 8   x4 == x \div 16
             x5 == x \div 32  x6 == x \div 64  x7 == x \div 128
  <2>1. /\ x1 \in Nat /\ x2 \in Nat /\ x3 \in Nat /\ x4 \in Nat /\ x5 \in Nat /\ x6 \in Nat
        /\ x7 \in 0 .. 1
    BY <1>3
  <2>2. x1 \div 2 = x2 /\ x2 \div 2 = x3 /\ x3 \div 2 = x4
    BY <1>3
  <2>3. x4 \div 2 = x5 /\ x5 \div 2 = x6 /\ x6 \div 2 = x7 /\ x \div 2 = x1
    BY <1>3
  <2>4. /\ (0 \in bits <=> x % 2 = 1)  /\ (1 \in bits <=> x1 % 2 = 1)
        /\ (2 \in bits <=> x2 % 2 = 1)  /\ (3 \in bits <=> x3 % 2 = 1)
        /\ (4 \in bits <=> x4 % 2 = 1)  /\ (5 \in bits <=> x5 % 2 = 1)
        /\ (6 \in bits <=> x6 % 2 = 1)  /\ (7 \in bits <=> x7 % 2 = 1)
    BY <1>4
  <2> HIDE DEF x1, x2, x3, x4, x5, x6, x7
  <2>5. x7 % 2 = x7
    BY <2>1
  <2> DEFINE d0 == x % 2    d1 == x1 % 2   d2 == x2 % 2   d3 == x3 % 2
             d4 == x4 % 2   d5 == x5 % 2   d6 == x6 % 2   d7 == x7 % 2
  <2>6. /\ d0 + 2 * x1 = x /\ d1 + 2 * x2 = x1 /\ d2 + 2 * x3 = x2 /\ d3 + 2 * x4 = x3
        /\ d4 + 2 * x5 = x4 /\ d5 + 2 * x6 = x5 /\ d6 + 2 * x7 = x6
    BY <1>3, <1>6, <2>1, <2>2, <2>3
  <2>7. /\ d0 \in 0 .. 1 /\ d1 \in 0 .. 1 /\ d2 \in 0 .. 1 /\ d3 \in 0 .. 1
        /\ d4 \in 0 .. 1 /\ d5 \in 0 .. 1 /\ d6 \in 0 .. 1 /\ d7 \in 0 .. 1
    BY <1>3, <1>6, <2>1
  <2>8. x7 = d7
    BY <2>5
  <2>9. /\ (0 \in bits <=> d0 = 1)  /\ (1 \in bits <=> d1 = 1)  /\ (2 \in bits <=> d2 = 1)
        /\ (3 \in bits <=> d3 = 1)  /\ (4 \in bits <=> d4 = 1)  /\ (5 \in bits <=> d5 = 1)
        /\ (6 \in bits <=> d6 = 1)  /\ (7 \in bits <=> d7 = 1)
    BY <2>4
  <2> HIDE DEF d0, d1, d2, d3, d4, d5, d6, d7
  <2>10. FourWeights(bits, 0, 1) = d0 + 2 * d1 + 4 * d2 + 8 * d3
    BY <2>7, <2>9 DEF FourWeights, Weight
  <2>11. FourWeights(bits, 4, 16) = 16 * d4 + 32 * d5 + 64 * d6 + 128 * d7
    BY <2>7, <2>9 DEF FourWeights, Weight
  <2>12. d0 + 2 * d1 + 4 * d2 + 8 * d3 + (16 * d4 + 32 * d5 + 64 * d6 + 128 * d7) = x
    BY <1>3, <2>1, <2>6, <2>7, <2>8
  <2>13. QED
    BY <2>10, <2>11, <2>12
<1>8. NumberOf(bits) = x
  BY <1>3, <1>5, <1>7 DEF NumberOf
<1>9. QED
  BY <1>1, <1>8 DEF bits, Registers16

\* One byte more keeps registers apart, and another byte drives them apart.
LEMMA ShiftByteInjective ==
  ASSUME NEW r \in Registers16, NEW s \in Registers16, NEW x \in Byte, NEW y \in Byte
  PROVE  /\ ShiftByte(r, x) = ShiftByte(s, x) => r = s
         /\ ShiftByte(r, x) = ShiftByte(r, y) => x = y
<1>1. ASSUME NEW t \in Registers16, NEW u \in Registers16, NEW v \in Byte, NEW w \in Byte,
             ShiftByte(t, v) = ShiftByte(u, w)
      PROVE  SymDiff(t, Bits(v, 8)) = SymDiff(u, Bits(w, 8))
  BY <1>1, ShiftByteType, EightShiftsInjective
<1>2. ASSUME ShiftByte(r, x) = ShiftByte(s, x) PROVE r = s
  <2>1. SymDiff(r, Bits(x, 8)) = SymDiff(s, Bits(x, 8))
    BY <1>1, <1>2
  <2>2. QED
    BY <2>1 DEF SymDiff
<1>3. ASSUME ShiftByte(r, x) = ShiftByte(r, y) PROVE x = y
  <2>1. SymDiff(r, Bits(x, 8)) = SymDiff(r, Bits(y, 8))
    BY <1>1, <1>3
  <2>2. Bits(x, 8) = Bits(y, 8)
    BY <2>1 DEF SymDiff
  <2>3. QED
    BY <2>2, BitsNumber
<1>4. QED
  BY <1>2, <1>3

\* Two messages of one length that differ in one byte.
DifferAt(b, c, i) ==
  /\ Len(b) = Len(c)
  /\ i \in 1 .. Len(b)
  /\ b[i] # c[i]
  /\ \A j \in 1 .. Len(b) : j # i => b[j] = c[j]

\* The check of a message tells whatever is done to one byte of it (crc.go:3-18).
THEOREM OneByteIsNoticed ==
  ASSUME NEW b \in Seq(Byte), NEW c \in Seq(Byte), NEW i, DifferAt(b, c, i)
  PROVE  CRC16Modbus(b) # CRC16Modbus(c)
<1> DEFINE n == Len(b)   r == Registers(b)   s == Registers(c)
<1>1. /\ n \in Nat /\ i \in 1 .. n /\ Len(c) = n
      /\ \A j \in 1 .. n : b[j] \in Byte /\ c[j] \in Byte
      /\ b[i] # c[i] /\ \A j \in 1 .. n : j # i => b[j] = c[j]
  BY DEF DifferAt
<1>2. /\ r \in [0 .. n -> Registers16] /\ s \in [0 .. n -> Registers16]
      /\ r[0] = s[0]
      /\ \A j \in 1 .. n : r[j] = ShiftByte(r[j - 1], b[j]) /\ s[j] = ShiftByte(s[j - 1], c[j])
  BY <1>1, RegistersDefined
<1> HIDE DEF n, r, s
<1> DEFINE Ks == {k \in Nat : k <= n => (r[k] = s[k] <=> k < i)}
<1>3. 0 \in Ks
  BY <1>1, <1>2
<1>4. ASSUME NEW k \in Ks PROVE k + 1 \in Ks
  <2>1. SUFFICES ASSUME k + 1 <= n PROVE r[k + 1] = s[k + 1] <=> k + 1 < i
    OBVIOUS
  <2>2. /\ k \in 0 .. n /\ k + 1 \in 1 .. n /\ (k + 1) - 1 = k
        /\ r[k] = s[k] <=> k < i
    BY <1>1, <2>1
  <2>3. /\ r[k] \in Registers16 /\ s[k] \in Registers16
        /\ r[k + 1] = ShiftByte(r[k], b[k + 1]) /\ s[k + 1] = ShiftByte(s[k], c[k + 1])
        /\ b[k + 1] \in Byte /\ c[k + 1] \in Byte
    BY <1>1, <1>2, <2>2
  <2>4. CASE k + 1 = i
    BY <1>1, <2>2, <2>3, <2>4, ShiftByteInjective
  <2>5. CASE k + 1 # i
    <3>1. b[k + 1] = c[k + 1]
      BY <1>1, <2>2, <2>5
    <3>2. r[k + 1] = s[k + 1] <=> r[k] = s[k]
      BY <2>3, <3>1, ShiftByteInjective
    <3>3. k < i <=> k + 1 < i
      BY <1>1, <2>2, <2>5
    <3>4. QED
      BY <2>2, <3>2, <3>3
  <2>6. QED
    BY <2>4, <2>5
<1>5. r[n] # s[n]
  <2>1. Nat \subseteq Ks
    <3> HIDE DEF Ks
    <3>1. QED
      BY <1>3, <1>4, SetInduction
  <2>2. QED
    BY <1>1, <2>1
<1>6. QED
  <2>1. r[n] \in Registers16 /\ s[n] \in Registers16
    BY <1>1, <1>2
  <2>2. NumberOf(r[n]) # NumberOf(s[n])
    BY <1>5, <2>1, NumberOfInjective
  <2>3. QED
    BY <1>1, <2>2 DEF CRC16Modbus, n, r, s

------------------------------------------------------------------------------
(* What the host can tell of a damaged packet.                              *)

\* What the host may rely on in a packet of data.
LEMMA Envelope ==
  ASSUME NEW type \in Byte, NEW subtype \in Byte, NEW data \in Seq(Byte), Short(Len(data))
  PROVE  LET p == EncodeGo2BlePacket(type, subtype, data)
         IN /\ p \in Seq(Byte) /\ Len(p) = 7 + Len(data) /\ CrcOffset(p) = 5 + Len(data)
            /\ ValidEnvelope(p) /\ Subtype(p) = subtype /\ InnerData(p) = data
<1> DEFINE p == EncodeGo2BlePacket(type, subtype, data)
<1>1. /\ p \in Seq(Byte) /\ Len(p) = 7 + Len(data)
      /\ p[1] = 255 /\ p[3] = subtype
      /\ U16(p, 3) = Len(data)
      /\ SubSeq(p, 6, 5 + Len(data)) = data
      /\ U16(p, 5 + Len(data)) = CRC16Modbus(SubSeq(p, 1, 5 + Len(data)))
  BY EnvelopeBytes
<1> HIDE DEF p
<1>2. CrcOffset(p) = 5 + Len(data)
  BY <1>1 DEF CrcOffset, Go2BLEHeaderSize
<1>3. Len(data) \in Nat
  OBVIOUS
<1>4. ValidEnvelope(p)
  BY <1>1, <1>2, <1>3 DEF ValidEnvelope, Go2BLEOverhead, Go2BLEMarker, At
<1>5. Subtype(p) = subtype /\ InnerData(p) = data
  BY <1>1, <1>2 DEF Subtype, InnerData, At, Go2BLEHeaderSize
<1>6. QED
  BY <1>1, <1>2, <1>4, <1>5 DEF p

\* A packet that comes short is no envelope any more (go2blepacket.go:134-144).
THEOREM CutsAreNoticed ==
  ASSUME NEW type \in Byte, NEW subtype \in Byte, NEW data \in Seq(Byte), Short(Len(data)),
         NEW n \in 0 .. 6 + Len(data)
  PROVE  ~ ValidEnvelope(SubSeq(EncodeGo2BlePacket(type, subtype, data), 1, n))
<1> DEFINE p == EncodeGo2BlePacket(type, subtype, data)
           q == SubSeq(p, 1, n)
<1>1. p \in Seq(Byte) /\ Len(p) = 7 + Len(data) /\ CrcOffset(p) = 5 + Len(data)
  BY Envelope
<1> HIDE DEF p
<1>2. Len(data) \in Nat
  OBVIOUS
<1>3. Len(q) = n /\ \A i \in 1 .. n : q[i] = p[i]
  BY <1>1, <1>2
<1> HIDE DEF q
<1>4. ASSUME ValidEnvelope(q) PROVE FALSE
  <2>1. n >= 7 /\ n >= CrcOffset(q) + 2
    BY <1>3, <1>4 DEF ValidEnvelope, Go2BLEOverhead
  <2>2. q[4] = p[4] /\ q[5] = p[5]
    BY <1>3, <2>1
  <2>3. CrcOffset(q) = CrcOffset(p)
    BY <2>2 DEF CrcOffset, U16, At
  <2>4. QED
    BY <1>1, <1>2, <2>1, <2>3
<1>5. QED
  BY <1>4 DEF p, q

\* Whatever is done to one byte of a packet, it is no envelope any more, unless the byte is
\* of the length and the length is now less than what came (go2blepacket.go:118-149).
THEOREM FlipsAreNoticed ==
  ASSUME NEW type \in Byte, NEW subtype \in Byte, NEW data \in Seq(Byte), Short(Len(data)),
         NEW q \in Seq(Byte), NEW i,
         DifferAt(EncodeGo2BlePacket(type, subtype, data), q, i),
         ValidEnvelope(q)
  PROVE  i \in {4, 5} /\ Len(q) > CrcOffset(q) + 2
<1> DEFINE p == EncodeGo2BlePacket(type, subtype, data)
           n == Len(data)
<1>1. /\ p \in Seq(Byte) /\ Len(p) = 7 + n /\ CrcOffset(p) = 5 + n
      /\ ValidEnvelope(p)
  BY Envelope
<1>2. n \in Nat
  OBVIOUS
<1>3. DifferAt(p, q, i)
  OBVIOUS
<1> HIDE DEF p
<1>4. /\ Len(q) = 7 + n /\ i \in 1 .. 7 + n /\ p[i] # q[i]
      /\ \A j \in 1 .. 7 + n : j # i => p[j] = q[j]
  BY <1>1, <1>3 DEF DifferAt
<1>5. /\ \A j \in 1 .. 7 + n : p[j] \in Nat /\ q[j] \in Nat
  BY <1>1, <1>4, ByteDef
<1> HIDE DEF n
<1>6. ASSUME i \notin {4, 5} PROVE FALSE
  <2>1. CrcOffset(q) = 5 + n
    <3>1. p[4] = q[4] /\ p[5] = q[5]
      BY <1>2, <1>4, <1>6
    <3>2. QED
      BY <1>1, <3>1 DEF CrcOffset, U16, At
  <2> DEFINE b == SubSeq(p, 1, 5 + n)   c == SubSeq(q, 1, 5 + n)
  <2>2. /\ b \in Seq(Byte) /\ Len(b) = 5 + n /\ \A j \in 1 .. 5 + n : b[j] = p[j]
        /\ c \in Seq(Byte) /\ Len(c) = 5 + n /\ \A j \in 1 .. 5 + n : c[j] = q[j]
    BY <1>1, <1>2, <1>4
  <2>3. /\ p[6 + n] + 256 * p[7 + n] = CRC16Modbus(b)
        /\ q[6 + n] + 256 * q[7 + n] = CRC16Modbus(c)
    <3>1. (5 + n) + 1 = 6 + n /\ (5 + n + 1) + 1 = 7 + n
      BY <1>2
    <3>2. U16(p, 5 + n) = CRC16Modbus(b) /\ U16(q, 5 + n) = CRC16Modbus(c)
      BY <1>1, <2>1 DEF ValidEnvelope
    <3> HIDE DEF b, c
    <3>3. QED
      BY <3>1, <3>2 DEF U16, At
  <2> HIDE DEF b, c
  <2>4. CASE i \in 1 .. 5 + n
    <3>1. DifferAt(b, c, i)
      BY <1>2, <1>4, <2>2, <2>4 DEF DifferAt
    <3>2. CRC16Modbus(b) # CRC16Modbus(c)
      BY <2>2, <3>1, OneByteIsNoticed
    <3>3. p[6 + n] = q[6 + n] /\ p[7 + n] = q[7 + n]
      BY <1>2, <1>4, <2>4
    <3>4. QED
      BY <2>3, <3>2, <3>3
  <2>5. CASE i \notin 1 .. 5 + n
    <3>1. b = c
      <4>1. \A j \in 1 .. 5 + n : b[j] = c[j]
        BY <1>2, <1>4, <2>2, <2>5
      <4>2. QED
        BY <2>2, <4>1, SeqEqual
    <3>2. p[6 + n] + 256 * p[7 + n] = q[6 + n] + 256 * q[7 + n]
      <4> DEFINE x == CRC16Modbus(b)
      <4>1. p[6 + n] + 256 * p[7 + n] = x /\ q[6 + n] + 256 * q[7 + n] = x /\ x \in Nat
        BY <2>3, <3>1, CrcType DEF Short
      <4> HIDE DEF x
      <4>2. QED
        BY <1>2, <1>5, <4>1
    <3>3. i = 6 + n \/ i = 7 + n
      BY <1>2, <1>4, <2>5
    <3>4. /\ i = 6 + n => p[7 + n] = q[7 + n]
          /\ i = 7 + n => p[6 + n] = q[6 + n]
      BY <1>2, <1>4
    <3>5. QED
      BY <1>2, <1>4, <1>5, <3>2, <3>3, <3>4
  <2>6. QED
    BY <2>4, <2>5
<1>7. ASSUME i \in {4, 5} PROVE Len(q) > CrcOffset(q) + 2
  <2>1. Len(q) >= CrcOffset(q) + 2
    BY DEF ValidEnvelope
  <2>2. p[4] + 256 * p[5] # q[4] + 256 * q[5]
    <3>1. p[4] \in Nat /\ p[5] \in Nat /\ q[4] \in Nat /\ q[5] \in Nat
      BY <1>2, <1>5
    <3>2. i = 4 => p[5] = q[5]
      BY <1>2, <1>4
    <3>3. i = 5 => p[4] = q[4]
      BY <1>2, <1>4
    <3>4. CASE i = 4
      <4>1. p[4] # q[4] /\ p[5] = q[5]
        BY <1>4, <3>2, <3>4
      <4>2. QED
        BY <3>1, <4>1
    <3>5. CASE i = 5
      <4>1. p[5] # q[5] /\ p[4] = q[4]
        BY <1>4, <3>3, <3>5
      <4>2. QED
        BY <3>1, <4>1
    <3>6. QED
      BY <1>7, <3>4, <3>5
  <2> DEFINE x == p[4] + 256 * p[5]   y == q[4] + 256 * q[5]
  <2>3. CrcOffset(p) = 5 + x /\ CrcOffset(q) = 5 + y
    BY DEF CrcOffset, U16, At, Go2BLEHeaderSize
  <2>4. x \in Nat /\ y \in Nat
    <3>1. p[4] \in Nat /\ p[5] \in Nat /\ q[4] \in Nat /\ q[5] \in Nat
      BY <1>2, <1>5
    <3> DEFINE p4 == p[4]  p5 == p[5]  q4 == q[4]  q5 == q[5]
    <3>2. p4 \in Nat /\ p5 \in Nat /\ q4 \in Nat /\ q5 \in Nat
      BY <3>1
    <3> HIDE DEF p4, p5, q4, q5
    <3>3. p4 + 256 * p5 \in Nat /\ q4 + 256 * q5 \in Nat
      BY <3>2
    <3>4. QED
      BY <3>3 DEF p4, p5, q4, q5
  <2>5. x # y
    BY <2>2
  <2> HIDE DEF x, y
  <2>6. QED
    BY <1>1, <1>2, <1>4, <2>1, <2>3, <2>4, <2>5
<1>8. QED
  BY <1>6, <1>7

------------------------------------------------------------------------------
(* Chunks (chunker.go:9-32).                                                *)

\* How much of a message its first k chunks hold.
ReachedBy(msg, k) == IF 20 * k > Len(msg) THEN Len(msg) ELSE 20 * k

\* The chunks of a message are of 1 to 20 bytes, and put together in their order they
\* are the message; all but the last leave something of it out.
THEOREM Chunks ==
  ASSUME NEW msg \in Seq(Byte), msg # <<>>
  PROVE  LET chunks == ChunkForBLE(msg, BLEMaxPacketSize)
         IN /\ chunks \in Seq(Seq(Byte)) /\ Len(chunks) \in Nat \ {0}
            /\ \A i \in 1 .. Len(chunks) : Len(chunks[i]) \in 1 .. 20
            /\ SubSeq(msg, 1, ReachedBy(msg, 0)) = <<>>
            /\ \A k \in 0 .. Len(chunks) - 1 :
                 /\ SubSeq(msg, 1, ReachedBy(msg, k)) \o chunks[k + 1] =
                      SubSeq(msg, 1, ReachedBy(msg, k + 1))
                 /\ k + 1 < Len(chunks) => ReachedBy(msg, k + 1) < Len(msg)
                 /\ k + 1 = Len(chunks) => ReachedBy(msg, k + 1) = Len(msg)
                 /\ 20 * k < Len(msg)
<1> DEFINE size == Len(msg)
           count == (size + 19) \div 20
           chunk(i) == SubSeq(msg, 20 * (i - 1) + 1, ReachedBy(msg, i))
           chunks == [i \in 1 .. count |-> chunk(i)]
<1>1. size \in Nat \ {0}
  OBVIOUS
<1>2. ChunkForBLE(msg, BLEMaxPacketSize) = chunks
  <2>1. size + 20 - 1 = size + 19 /\ ~ (20 <= 0)
    BY <1>1
  <2>2. \A i \in Int : i * 20 = 20 * i /\ (i - 1) * 20 + 1 = 20 * (i - 1) + 1
    OBVIOUS
  <2>3. QED
    BY SMTT(60), <1>1, <2>1, <2>2 DEF ChunkForBLE, BLEMaxPacketSize, ReachedBy
<1> HIDE DEF size
<1>3. count \in Nat \ {0} /\ 20 * (count - 1) < size /\ size <= 20 * count
  BY <1>1
<1> HIDE DEF count
<1>4. \A i \in Nat : ReachedBy(msg, i) \in 0 .. size /\ ReachedBy(msg, i) <= 20 * i
                     /\ (20 * i <= size => ReachedBy(msg, i) = 20 * i)
                     /\ (20 * i >= size => ReachedBy(msg, i) = size)
  BY <1>1 DEF ReachedBy, size
<1>5. ASSUME NEW k \in 0 .. count - 1
      PROVE  /\ 20 * k < size /\ k \in Nat /\ k + 1 \in Nat /\ 20 * (k + 1) = 20 * k + 20
             /\ k + 1 < count => 20 * (k + 1) < size
             /\ k + 1 = count => 20 * (k + 1) >= size
  <2>1. k \in Nat /\ k <= count - 1
    BY <1>3
  <2>2. k + 1 < count => k + 1 <= count - 1
    BY <1>3, <2>1
  <2>3. QED
    BY <1>1, <1>3, <2>1, <2>2
<1>6. ASSUME NEW k \in 0 .. count - 1
      PROVE  /\ ReachedBy(msg, k) = 20 * k
             /\ ReachedBy(msg, k + 1) \in Nat /\ ReachedBy(msg, k + 1) <= size
             /\ 20 * k < ReachedBy(msg, k + 1) /\ ReachedBy(msg, k + 1) <= 20 * k + 20
             /\ k + 1 < count => ReachedBy(msg, k + 1) < size
             /\ k + 1 = count => ReachedBy(msg, k + 1) = size
  <2>1. ReachedBy(msg, k) = IF 20 * k > size THEN size ELSE 20 * k
    BY DEF ReachedBy, size
  <2>2. ReachedBy(msg, k + 1) = IF 20 * (k + 1) > size THEN size ELSE 20 * (k + 1)
    BY DEF ReachedBy, size
  <2>3. QED
    BY <1>1, <1>5, <2>1, <2>2
<1>7. ASSUME NEW i \in 1 .. count
      PROVE  chunk(i) \in Seq(Byte) /\ Len(chunk(i)) \in 1 .. 20
  <2>1. i - 1 \in 0 .. count - 1 /\ (i - 1) + 1 = i
    BY <1>3
  <2>2. /\ ReachedBy(msg, i) \in Nat /\ ReachedBy(msg, i) <= size
        /\ 20 * (i - 1) < ReachedBy(msg, i) /\ ReachedBy(msg, i) <= 20 * (i - 1) + 20
    BY <1>6, <2>1
  <2>3. i - 1 \in Nat /\ 20 * (i - 1) \in Nat
    BY <2>1
  <2>4. chunk(i) \in Seq(Byte)
    BY <2>2, <2>3, SubSeqType DEF size
  <2>5. Len(chunk(i)) = ReachedBy(msg, i) - 20 * (i - 1)
    BY <2>2, <2>3
  <2> DEFINE n == ReachedBy(msg, i)
             j == 20 * (i - 1)
  <2> HIDE DEF n, j
  <2>6. n - j \in 1 .. 20
    <3>1. n \in Nat /\ j \in Nat /\ j < n /\ n <= j + 20
      BY <2>2, <2>3 DEF n, j
    <3>2. QED
      BY <3>1
  <2>7. QED
    BY <2>4, <2>5, <2>6 DEF n, j
<1>8. SubSeq(msg, 1, ReachedBy(msg, 0)) = <<>>
  BY <1>1 DEF ReachedBy, size
<1>9. ASSUME NEW k \in 0 .. count - 1
      PROVE  SubSeq(msg, 1, ReachedBy(msg, k)) \o chunk(k + 1) =
               SubSeq(msg, 1, ReachedBy(msg, k + 1))
  <2> DEFINE n == ReachedBy(msg, k + 1)
             j == 20 * k
  <2>1. ReachedBy(msg, k) = j /\ n \in Nat /\ n <= size /\ j < n /\ j \in Nat
    BY <1>5, <1>6
  <2>2. chunk(k + 1) = SubSeq(msg, j + 1, n)
    <3>1. (k + 1) - 1 = k
      OBVIOUS
    <3>2. QED
      BY <3>1
  <2> HIDE DEF n, j
  <2>3. SubSeq(msg, 1, j) \o SubSeq(msg, j + 1, n) = SubSeq(msg, 1, n)
    <3>1. 1 \in 1 .. Len(msg) + 1 /\ j \in 1 - 1 .. Len(msg) /\ n \in j .. Len(msg)
      BY <1>1, <2>1 DEF size
    <3>2. QED
      BY <3>1, ConcatAdjacentSubSeq
  <2>4. QED
    BY <2>1, <2>2, <2>3 DEF n
<1> HIDE DEF chunk
<1>10. chunks \in Seq(Seq(Byte)) /\ Len(chunks) = count
  BY <1>3, <1>7
<1>11. \A k \in 0 .. count - 1 : chunks[k + 1] = chunk(k + 1)
  BY <1>3
<1>12. \A i \in 1 .. count : chunks[i] = chunk(i)
  OBVIOUS
<1> HIDE DEF chunks
<1>13. QED
  BY <1>2, <1>3, <1>5, <1>6, <1>7, <1>8, <1>9, <1>10, <1>11, <1>12 DEF size

------------------------------------------------------------------------------
(* The inductive invariant.                                                 *)

\* What a camera can be told: to sync, or the command of a call.
Said == {[says |-> "sync"]} \cup {Command(c.op, c.seq) : c \in Calls}

\* On a GO 3 each write is a packet, if the link carries it: what the camera has
\* understood, and what it is about to read in the packets on the air, is what the host
\* meant, in this order.  Without a call only sync responses were sent.
PacketsInOrder ==
  /\ heard = <<>>
  /\ meant \in Seq(Said) /\ understood \in Seq(Said)
  /\ Len(meant) = Len(understood) + Len(air)
  /\ \A i \in 1 .. Len(understood) : understood[i] = meant[i]
  /\ \A j \in 1 .. Len(air) :
       Len(air[j]) >= Go2BLEOverhead /\ ReadPacket(air[j]) = meant[Len(understood) + j]
  /\ call = None => \A i \in 1 .. Len(meant) : meant[i] = [says |-> "sync"]

\* The first k chunks of the message have come in.
Underway(msg, k) ==
  LET chunks == ChunkForBLE(msg, BLEMaxPacketSize)
  IN /\ air = SubSeq(chunks, k + 1, Len(chunks))
     /\ k < Len(chunks) => heard = SubSeq(msg, 1, ReachedBy(msg, k)) /\ understood = <<>>
     /\ k = Len(chunks) => heard = <<>> /\ understood = <<ReadMessage(msg, U16(msg, 0), msg[8])>>

\* On an X3 there is one message, of which some first chunks have come in.
ChunksInOrder ==
  /\ call = None => air = <<>> /\ heard = <<>> /\ understood = <<>> /\ meant = <<>>
  /\ call # None =>
       /\ meant = <<Command(call.op, call.seq)>>
       /\ \E k \in 0 .. Len(ChunksOf(call.op, call.seq)) : Underway(MessageOf(call.op, call.seq), k)

\* The inductive invariant.
IInv ==
  /\ TypeOK
  /\ call # None => InRange(call.op)
  /\ format = "go2" /\ PacketFits => PacketsInOrder
  /\ format = "header16" => ChunksInOrder

\* The operations of either format.
AllOperations == Asked \cup {GetBatteryInfo("go2"), GetBatteryInfo("header16"), GetStorageInfo}

\* What an operation sends fits its message, and means what was asked for.
LEMMA OperationType ==
  ASSUME NEW op \in AllOperations
  PROVE  /\ op.code \in Nat /\ Short(op.code)
         /\ op.payload \in Seq(Byte) /\ Short(16 + Len(op.payload)) /\ Short(Len(op.payload))
         /\ InRange(op) => Meaning(op.code, op.payload) = op.ask
<1>1. CASE op \in Asked
  <2>1. /\ op.code \in Nat /\ op.code < 65536
        /\ op.payload \in Seq(Byte) /\ Len(op.payload) < 65520
    BY <1>1, OperationAssumption
  <2>2. Len(op.payload) \in Nat
    BY <2>1
  <2>3. Short(op.code) /\ Short(16 + Len(op.payload)) /\ Short(Len(op.payload))
    BY SMT, <2>1, <2>2 DEF Short
  <2>4. QED
    BY <1>1, <2>1, <2>3, AskedAssumption
<1>2. CASE op \in {GetBatteryInfo("go2"), GetBatteryInfo("header16"), GetStorageInfo}
  <2>1. op.code \in {25, 18, 16} /\ op.payload = <<>> /\ op.ask = <<<<>>>>
    BY <1>2 DEF GetBatteryInfo, GetStorageInfo, Query, Operation
  <2>2. Short(op.code) /\ Short(16 + Len(op.payload)) /\ Short(Len(op.payload)) /\ op.code \in Nat
    BY SMT, <2>1 DEF Short
  <2>3. Meaning(op.code, op.payload) = <<op.payload>>
    BY <2>1 DEF Meaning
  <2>4. QED
    BY <2>1, <2>2, <2>3
<1>3. QED
  BY <1>1, <1>2 DEF AllOperations

\* The camera reads the command in its packet, and in its message if the code fits.
LEMMA WritesType ==
  ASSUME NEW op \in AllOperations, NEW n \in Numbers
  PROVE  /\ PacketOf(op, n) \in Seq(Byte) /\ Len(PacketOf(op, n)) = 23 + Len(op.payload)
         /\ InRange(op) => ReadPacket(PacketOf(op, n)) = Command(op, n)
         /\ MessageOf(op, n) \in Seq(Byte) /\ MessageOf(op, n) # <<>>
         /\ Len(MessageOf(op, n)) = 16 + Len(op.payload)
         /\ Len(op.payload) \in Nat
         /\ U16(MessageOf(op, n), 0) = Len(op.payload)
         /\ InRange(op) /\ op.code < 256 =>
              ReadMessage(MessageOf(op, n), U16(MessageOf(op, n), 0), MessageOf(op, n)[8])
                = Command(op, n)
<1>1. n \in Byte
  BY WireAssumption, ByteDef
<1>2. /\ op.code \in Nat /\ Short(op.code)
      /\ op.payload \in Seq(Byte) /\ Short(16 + Len(op.payload)) /\ Short(Len(op.payload))
      /\ InRange(op) => Meaning(op.code, op.payload) = op.ask
  BY OperationType
<1>3. /\ PacketOf(op, n) \in Seq(Byte) /\ Len(PacketOf(op, n)) = 23 + Len(op.payload)
      /\ ReadPacket(PacketOf(op, n)) =
           [says |-> "command", code |-> op.code, seq |-> n, ask |-> Meaning(op.code, op.payload)]
  BY <1>1, <1>2, PacketReads DEF PacketOf
<1>4. /\ MessageOf(op, n) \in Seq(Byte) /\ Len(MessageOf(op, n)) = 16 + Len(op.payload)
      /\ U16(MessageOf(op, n), 0) = Len(op.payload)
      /\ op.code < 256 =>
           ReadMessage(MessageOf(op, n), U16(MessageOf(op, n), 0), MessageOf(op, n)[8]) =
             [says |-> "command", code |-> op.code, seq |-> n, ask |-> Meaning(op.code, op.payload)]
  BY <1>1, <1>2, MessageReads DEF MessageOf
<1>5. Len(op.payload) \in Nat
  BY <1>2
<1>6. MessageOf(op, n) # <<>>
  BY <1>4, <1>5
<1>7. QED
  BY <1>2, <1>3, <1>4, <1>5, <1>6 DEF Command

------------------------------------------------------------------------------
(* The payloads of the camera.                                              *)

\* A number that two bytes hold as a varint.
TwoBytes(n) == n \in Nat /\ n < 16384

\* No more than n bytes.
Within(s, n) == s \in Seq(Byte) /\ Len(s) <= n

\* Bytes put after bytes.
LEMMA ConcatType ==
  \A s, t \in Seq(Byte) : s \o t \in Seq(Byte)
  BY Parts

LEMMA ConcatWithin ==
  ASSUME NEW s, NEW t, NEW m \in Nat, NEW n \in Nat, Within(s, m), Within(t, n)
  PROVE  Within(s \o t, m + n)
<1>1. s \in Seq(Byte) /\ t \in Seq(Byte) /\ Len(s) <= m /\ Len(t) <= n
  BY DEF Within
<1>2. s \o t \in Seq(Byte) /\ Len(s \o t) = Len(s) + Len(t)
  BY <1>1, Parts
<1>3. Len(s) \in Nat /\ Len(t) \in Nat
  BY <1>1
<1>4. QED
  BY <1>1, <1>2, <1>3 DEF Within

\* Short sequences of bytes.
LEMMA ByteSeqs ==
  /\ Within(<<>>, 0)
  /\ \A a \in Byte : Within(<<a>>, 1)
  /\ \A a, b \in Byte : Within(<<a, b>>, 2)
  /\ \A n \in Nat : Within(LE16(n), 2)
<1>1. \A a, b \in Byte : Within(<<a, b>>, 2)
  BY DEF Within
<1>2. ASSUME NEW n \in Nat PROVE Within(LE16(n), 2)
  <2>1. Low(n) \in Byte /\ High(n) \in Byte
    BY Halves
  <2>2. QED
    BY <1>1, <2>1 DEF LE16
<1>3. Within(<<>>, 0) /\ \A a \in Byte : Within(<<a>>, 1)
  BY DEF Within
<1>4. QED
  BY <1>1, <1>2, <1>3

\* A varint of up to two bytes.
LEMMA VarintType ==
  ASSUME NEW n, TwoBytes(n)
  PROVE  Within(PutVarint(n), 2)
<1>1. n \in Nat
  BY DEF TwoBytes
<1>2. CASE n < 128
  <2>1. n \in Byte
    BY <1>1, <1>2, ByteDef
  <2>2. <<n>> \in Seq(Byte) /\ Len(<<n>>) = 1
    BY <2>1
  <2>3. QED
    BY <1>2, <2>2 DEF PutVarint, Within
<1>3. CASE ~ (n < 128)
  <2>1. 128 + (n % 128) \in Byte
    <3>1. n % 128 \in Nat /\ n % 128 < 128
      BY <1>1
    <3>2. QED
      BY <3>1, ByteDef
  <2>2. n \div 128 \in Byte
    <3>1. n \div 128 \in Nat /\ n \div 128 < 128
      BY SMT, <1>1 DEF TwoBytes
    <3>2. QED
      BY <3>1, ByteDef
  <2>3. PutVarint(n) = <<128 + (n % 128), n \div 128>>
    BY <1>3 DEF PutVarint
  <2>4. QED
    BY <2>1, <2>2, <2>3, ByteSeqs
<1>4. QED
  BY <1>2, <1>3

\* A field with a number.
LEMMA FieldType ==
  ASSUME NEW num \in 1 .. 31, NEW n, TwoBytes(n)
  PROVE  Within(Field(num, n), 3)
<1>1. 8 * num \in Byte
  BY ByteDef
<1>2. Within(<<8 * num>>, 1)
  BY <1>1, ByteSeqs
<1>3. Within(PutVarint(n), 2)
  BY VarintType
<1>4. Within(<<8 * num>> \o PutVarint(n), 1 + 2)
  BY <1>2, <1>3, ConcatWithin
<1>5. Within(<<8 * num>> \o PutVarint(n), 3) /\ Within(<<>>, 3)
  <2>1. 1 + 2 = 3
    OBVIOUS
  <2>2. Within(<<>>, 3)
    BY DEF Within
  <2>3. QED
    BY <1>4, <2>1, <2>2
<1>6. QED
  BY <1>5 DEF Field

\* A field with a string.
LEMMA TextType ==
  ASSUME NEW num \in 1 .. 31, NEW b \in Seq(Byte), TwoBytes(Len(b))
  PROVE  Within(Text(num, b), 3 + Len(b))
<1>1. 8 * num + 2 \in Byte
  BY ByteDef
<1>2. Within(<<8 * num + 2>>, 1) /\ Within(PutVarint(Len(b)), 2) /\ Within(b, Len(b))
  BY <1>1, ByteSeqs, VarintType DEF Within
<1>3. Len(b) \in Nat /\ 1 + 2 = 3 /\ 3 \in Nat
  OBVIOUS
<1>4. Within(<<8 * num + 2>> \o PutVarint(Len(b)), 3)
  <2>1. Within(<<8 * num + 2>> \o PutVarint(Len(b)), 1 + 2)
    BY <1>2, ConcatWithin
  <2>2. QED
    BY <1>3, <2>1
<1>5. Within((<<8 * num + 2>> \o PutVarint(Len(b))) \o b, 3 + Len(b))
  BY <1>2, <1>3, <1>4, ConcatWithin
<1>6. Within(<<>>, 3 + Len(b))
  BY <1>3 DEF Within
<1>7. QED
  BY <1>5, <1>6 DEF Text, Message

\* The fields with the constants of the camera.
LEMMA SmallFields ==
  \A num \in 1 .. 31, n \in 0 .. 18 : Within(Field(num, n), 3)
<1>1. \A n \in 0 .. 18 : TwoBytes(n)
  BY SMT DEF TwoBytes
<1>2. QED
  BY <1>1, FieldType

\* A bound may be raised.
LEMMA WithinMore ==
  ASSUME NEW s, NEW m \in Nat, NEW n \in Nat, m <= n, Within(s, m)
  PROVE  Within(s, n)
<1>1. Len(s) \in Nat
  BY DEF Within
<1>2. QED
  BY <1>1 DEF Within

\* The payload of a battery state.
LEMMA BatteryType ==
  ASSUME NEW b \in Batteries
  PROVE  Within(BatteryPayload(b), 6)
<1>1. b.level \in Byte /\ b.voltage \in Nat
  BY BatteryAssumption DEF BatteryStates
<1>2. Within(Field(1, b.level) \o Field(2, IF b.charging THEN 1 ELSE 0), 3 + 3)
  <2>1. TwoBytes(b.level)
    BY SMT, <1>1, ByteDef DEF TwoBytes
  <2>2. Within(Field(1, b.level), 3)
    BY <2>1, FieldType
  <2>3. Within(Field(2, IF b.charging THEN 1 ELSE 0), 3)
    <3>1. Within(Field(2, 0), 3) /\ Within(Field(2, 1), 3)
      BY SmallFields
    <3>2. QED
      BY <3>1
  <2>4. QED
    BY <2>2, <2>3, ConcatWithin
<1>3. Within(<<b.level>> \o LE16(b.voltage), 1 + 2)
  BY <1>1, ConcatWithin, ByteSeqs
<1>4. 3 + 3 = 6 /\ 1 + 2 <= 6 /\ 1 + 2 \in Nat /\ 6 \in Nat
  OBVIOUS
<1>5. Within(<<b.level>> \o LE16(b.voltage), 6)
  BY <1>3, <1>4, WithinMore
<1>6. QED
  BY <1>2, <1>4, <1>5 DEF BatteryPayload

\* A uint32.
LEMMA WordType ==
  ASSUME NEW w, w.hi \in Nat, w.lo \in Nat
  PROVE  Within(LE32(w), 4)
<1>1. Low(w.lo) \in Byte /\ High(w.lo) \in Byte /\ Low(w.hi) \in Byte /\ High(w.hi) \in Byte
  BY Halves
<1>2. ASSUME NEW a \in Byte, NEW b \in Byte, NEW c \in Byte, NEW d \in Byte
      PROVE  Within(<<a, b, c, d>>, 4)
  BY DEF Within
<1>3. QED
  BY <1>1, <1>2 DEF LE32

\* The numbers of a storage state.
LEMMA StoreType ==
  ASSUME NEW s \in Stores, NEW w \in {s.total, s.free, s.files}
  PROVE  /\ w \in Words /\ w.hi \in Nat /\ w.lo \in Nat /\ w.hi < 65536 /\ w.lo < 65536
         /\ "go2" \in Formats => TwoBytes(w.lo) /\ w.hi = 0
<1>1. s \in [total : Words, free : Words, files : Words, formatted : BOOLEAN]
  BY StoreAssumption DEF StorageStates
<1>2. w \in Words /\ w.hi \in Nat /\ w.lo \in Nat
  BY <1>1 DEF Words
<1>3. w.hi < 65536 /\ w.lo < 65536 /\ ("go2" \in Formats => w.lo < 16384 /\ w.hi = 0)
  BY StoreAssumption
<1>4. QED
  BY <1>2, <1>3 DEF TwoBytes

\* The payload of a storage state.
LEMMA StorageType ==
  ASSUME NEW s \in Stores, format \in Formats
  PROVE  Within(StoragePayload(s), 16)
<1>2. Within(LE32(s.total), 4) /\ Within(LE32(s.free), 4) /\ Within(LE32(s.files), 4)
  BY StoreType, WordType
<1>3. Within(<<IF s.formatted THEN 1 ELSE 0>>, 1)
  <2>1. (IF s.formatted THEN 1 ELSE 0) \in Byte
    BY SmallBytes
  <2>2. QED
    BY <2>1, ByteSeqs
<1>4. "go2" \in Formats => /\ Within(Field(4, s.free.lo), 3)
                           /\ Within(Field(5, s.files.lo), 3)
                           /\ Within(Field(6, s.total.lo), 3)
  BY StoreType, FieldType
<1>5. Within(Field(1, 4), 3)
  BY SmallFields
<1>6. Within(<<26, 2, 32, 5>>, 4)
  <2>1. 26 \in Byte /\ 2 \in Byte /\ 32 \in Byte /\ 5 \in Byte
    BY SmallBytes
  <2>2. ASSUME NEW a \in Byte, NEW b \in Byte, NEW c \in Byte, NEW d \in Byte
        PROVE  Within(<<a, b, c, d>>, 4)
    BY DEF Within
  <2>3. QED
    BY <2>1, <2>2
<1>7. Within(LE32(s.total) \o LE32(s.free) \o LE32(s.files) \o <<IF s.formatted THEN 1 ELSE 0>>,
             ((4 + 4) + 4) + 1)
  <2>1. Within(LE32(s.total) \o LE32(s.free), 4 + 4)
    BY <1>2, ConcatWithin
  <2>2. Within((LE32(s.total) \o LE32(s.free)) \o LE32(s.files), (4 + 4) + 4)
    BY <1>2, <2>1, ConcatWithin
  <2>3. QED
    BY <1>3, <2>2, ConcatWithin
<1>8. ASSUME "go2" \in Formats
      PROVE  Within(Field(1, 4) \o <<26, 2, 32, 5>> \o Field(4, s.free.lo) \o Field(5, s.files.lo)
                      \o Field(6, s.total.lo), (((3 + 4) + 3) + 3) + 3)
  <2>1. Within(Field(1, 4) \o <<26, 2, 32, 5>>, 3 + 4)
    BY <1>5, <1>6, ConcatWithin
  <2>2. Within((Field(1, 4) \o <<26, 2, 32, 5>>) \o Field(4, s.free.lo), (3 + 4) + 3)
    BY <1>4, <1>8, <2>1, ConcatWithin
  <2>3. Within(((Field(1, 4) \o <<26, 2, 32, 5>>) \o Field(4, s.free.lo)) \o Field(5, s.files.lo),
               ((3 + 4) + 3) + 3)
    BY <1>4, <1>8, <2>2, ConcatWithin
  <2>4. QED
    BY <1>4, <1>8, <2>3, ConcatWithin
<1>9. /\ (((3 + 4) + 3) + 3) + 3 = 16 /\ ((4 + 4) + 4) + 1 <= 16
      /\ ((4 + 4) + 4) + 1 \in Nat /\ 16 \in Nat
  OBVIOUS
<1>10. Within(LE32(s.total) \o LE32(s.free) \o LE32(s.files) \o <<IF s.formatted THEN 1 ELSE 0>>, 16)
  BY <1>7, <1>9, WithinMore
<1>11. QED
  BY <1>8, <1>9, <1>10 DEF StoragePayload

\* The payload of a device info.
LEMMA InfoType ==
  ASSUME NEW i \in Infos
  PROVE  /\ Within(InfoPayload(i), 489)
         /\ i.firmware \in Seq(Byte) /\ i.serial \in Seq(Byte)
         /\ Len(i.firmware) \in Byte /\ Len(i.serial) \in Byte
<1>1. /\ i.firmware \in Seq(Byte) /\ i.serial \in Seq(Byte)
      /\ Len(i.firmware) < 256 /\ Len(i.serial) < 256
      /\ Len(i.firmware) + Len(i.serial) <= 487
  <2>1. i \in [firmware : Seq(Byte), serial : Seq(Byte)]
    BY InfoAssumption DEF DeviceInfos
  <2>2. QED
    BY <2>1, InfoAssumption
<1> DEFINE m == Len(i.firmware)   n == Len(i.serial)
<1>2. m \in Byte /\ n \in Byte /\ m \in Nat /\ n \in Nat
  BY <1>1, ByteDef
<1>3. Within(<<m>>, 1) /\ Within(<<n>>, 1) /\ Within(i.firmware, m) /\ Within(i.serial, n)
  BY <1>1, <1>2, ByteSeqs DEF Within
<1>4. Within(<<m>> \o i.firmware \o <<n>> \o i.serial, ((1 + m) + 1) + n)
  <2> HIDE DEF m, n
  <2>0. 1 + m \in Nat /\ (1 + m) + 1 \in Nat
    BY <1>2
  <2>1. Within(<<m>> \o i.firmware, 1 + m)
    BY <1>2, <1>3, ConcatWithin
  <2>2. Within((<<m>> \o i.firmware) \o <<n>>, (1 + m) + 1)
    BY <2>0, <1>2, <1>3, <2>1, ConcatWithin
  <2>3. QED
    BY <2>0, <1>2, <1>3, <2>2, ConcatWithin
<1>5. ((1 + m) + 1) + n \in Nat /\ ((1 + m) + 1) + n <= 489 /\ 489 \in Nat
  <2>1. m + n <= 487
    BY <1>1
  <2> HIDE DEF m, n
  <2>2. QED
    BY <1>2, <2>1
<1>6. Within(<<m>> \o i.firmware \o <<n>> \o i.serial, 489)
  <2> HIDE DEF m, n
  <2>1. QED
    BY <1>4, <1>5, WithinMore
<1>7. QED
  BY <1>1, <1>2, <1>6 DEF InfoPayload

\* What the camera has to say is bytes, no more than one notification holds.
LEMMA RepliesType ==
  ASSUME NEW op, NEW reply \in Replies(op), format \in Formats
  PROVE  Within(reply.payload, 489)
<1>0. ASSUME NEW s, NEW n \in {0, 2, 3, 6, 16, 489}, Within(s, n)
      PROVE  Within(s, 489)
  BY <1>0, WithinMore
<1>1. Within(<<>>, 489) /\ Within(<<10, 0>>, 489)
  <2>1. 10 \in Byte /\ 0 \in Byte
    BY SmallBytes
  <2>2. QED
    BY <1>0, <2>1, ByteSeqs
<1>2. CASE op.reads = "battery"
  <2>1. PICK b \in Batteries : reply.payload = BatteryPayload(b)
    BY <1>2 DEF Replies
  <2>2. QED
    BY <1>0, <2>1, BatteryType
<1>3. CASE op.reads = "storage"
  <2>1. PICK s \in Stores : reply.payload = StoragePayload(s)
    BY <1>3 DEF Replies
  <2>2. QED
    BY <1>0, <2>1, StorageType
<1>4. CASE op.reads = "info"
  <2>1. PICK i \in Infos : reply.payload = InfoPayload(i)
    BY <1>4 DEF Replies
  <2>2. QED
    BY <2>1, InfoType
<1>5. CASE op.reads = "wifi mode"
  <2>1. Within(Field(1, 0), 489) /\ Within(Field(1, 2), 489)
    <3>1. Within(Field(1, 0), 3) /\ Within(Field(1, 2), 3)
      BY SmallFields
    <3>2. QED
      BY <1>0, <3>1
  <2>2. Replies(op) = {[value |-> n, payload |-> Field(1, n)] : n \in {0, 2}}
    BY <1>5 DEF Replies
  <2>3. QED
    BY <2>1, <2>2
<1>6. CASE op.reads \in {"bytes", "whole"}
  <2>1. Replies(op) = {[value |-> <<10, 0>>, payload |-> <<10, 0>>]}
    BY <1>6 DEF Replies
  <2>2. reply.payload = <<10, 0>>
    BY <2>1
  <2>3. QED
    BY <1>1, <2>2
<1>7. CASE op.reads \notin {"battery", "storage", "info", "wifi mode", "bytes", "whole"}
  <2>1. Replies(op) = {[value |-> None, payload |-> <<>>]}
    BY <1>7 DEF Replies
  <2>2. reply.payload = <<>>
    BY <2>1
  <2>3. QED
    BY <1>1, <2>2
<1>8. QED
  BY <1>2, <1>3, <1>4, <1>5, <1>6, <1>7

\* The payload of a refusal.
RefusalPayload(refusal) == Field(1, 18) \o Text(2, refusal.text)
LEMMA RefusalType ==
  ASSUME NEW refusal \in Refusals
  PROVE  Within(RefusalPayload(refusal), 490)
<1> DEFINE n == Len(refusal.text)
<1>1. refusal.text \in Seq(Byte) /\ n \in Nat /\ n <= 484
  BY RefusalAssumption
<1>2. TwoBytes(n)
  BY <1>1 DEF TwoBytes
<1>3. Within(Text(2, refusal.text), 3 + n)
  <2>1. 2 \in 1 .. 31 /\ refusal.text \in Seq(Byte)
    BY <1>1
  <2>2. QED
    BY <1>2, <2>1, TextType
<1>4. Within(Field(1, 18), 3)
  BY SmallFields
<1> HIDE DEF n
<1>5. 3 + n \in Nat /\ 3 + (3 + n) \in Nat /\ 3 + (3 + n) <= 490 /\ 490 \in Nat /\ 3 \in Nat
  BY <1>1, <1>2 DEF TwoBytes
<1>6. Within(RefusalPayload(refusal), 3 + (3 + n))
  BY <1>3, <1>4, <1>5, ConcatWithin DEF RefusalPayload
<1>7. QED
  BY <1>5, <1>6, WithinMore

\* A packet that the camera sends is bytes.
LEMMA CameraPacketType ==
  ASSUME NEW code \in Nat, NEW seq \in Byte, NEW payload \in Seq(Byte)
  PROVE  CameraPacket(code, seq, payload) \in Seq(Byte)
<1> DEFINE h == HeaderFor(code, seq, payload)
<1>1. h.length \in Nat /\ h.code = code /\ h.seq = seq
  BY DEF HeaderFor
<1> HIDE DEF h
<1>2. EncodeHeader(h) \in Seq(Byte) /\ EncodeGo2Header(h) \in Seq(Byte)
  BY <1>1, HeaderBytes, Go2HeaderBytes
<1>3. /\ EncodeMessage(code, seq, payload) \in Seq(Byte)
      /\ EncodeGo2Message(code, seq, payload) \in Seq(Byte)
  BY <1>2, ConcatType DEF EncodeMessage, EncodeGo2Message, h
<1>4. 6 \in Byte /\ 64 \in Byte
  BY SmallBytes
<1>5. EncodeGo2BlePacket(6, 64, EncodeGo2Message(code, seq, payload)) \in Seq(Byte)
  BY <1>3, <1>4, EnvelopeBytes
<1>6. QED
  BY <1>3, <1>5 DEF CameraPacket, Go2BLETypeResponse, Go2BLESubtypeMessage

------------------------------------------------------------------------------
(* Types.                                                                   *)

\* The invariant holds at first.
LEMMA InitHolds == Init => IInv
<1> SUFFICES ASSUME Init PROVE IInv
  OBVIOUS
<1>1. TypeOK
  BY WireAssumption DEF Init, TypeOK, NotifCap
<1>2. PacketsInOrder
  BY DEF Init, PacketsInOrder
<1>3. ChunksInOrder
  BY DEF Init, ChunksInOrder
<1>4. QED
  BY <1>1, <1>2, <1>3 DEF IInv, Init

\* Only a call makes the camera read a command.
LEMMA Answerable ==
  ASSUME IInv, \E i \in DOMAIN understood : understood[i].says = "command"
  PROVE  call # None
<1> SUFFICES ASSUME call = None PROVE FALSE
  OBVIOUS
<1>1. PICK i \in DOMAIN understood : understood[i].says = "command"
  OBVIOUS
<1>2. CASE format = "go2"
  <2>1. /\ understood \in Seq(Said)
        /\ Len(meant) = Len(understood) + Len(air)
        /\ \A j \in 1 .. Len(understood) : understood[j] = meant[j]
        /\ \A j \in 1 .. Len(meant) : meant[j] = [says |-> "sync"]
    BY <1>2 DEF IInv, PacketsInOrder, PacketFits
  <2>2. air \in Seq(Seq(Byte))
    BY DEF IInv, TypeOK
  <2>3. i \in 1 .. Len(understood) /\ i \in 1 .. Len(meant)
    BY <1>1, <2>1, <2>2
  <2>4. understood[i] = [says |-> "sync"]
    BY <2>1, <2>3
  <2>5. QED
    BY <1>1, <2>4
<1>3. CASE format = "header16"
  BY <1>1, <1>3 DEF IInv, ChunksInOrder
<1>4. format \in {"go2", "header16"}
  BY WireAssumption DEF IInv, TypeOK
<1>5. QED
  BY <1>2, <1>3, <1>4

\* A format has some of all operations.
LEMMA OperationsIncluded ==
  ASSUME NEW op \in Operations
  PROVE  op \in AllOperations
<1>1. GetBatteryInfo(format) \in {GetBatteryInfo("go2"), GetBatteryInfo("header16")}
  BY DEF GetBatteryInfo
<1>2. QED
  BY <1>1 DEF Operations, AllOperations

\* What a call consists of.
LEMMA CallType ==
  ASSUME TypeOK, call # None
  PROVE  /\ call \in [op : AllOperations, seq : Numbers, open : BOOLEAN]
         /\ call.op \in AllOperations /\ call.seq \in Numbers /\ call.seq \in Byte
<1>1. call \in [op : AllOperations, seq : Numbers, open : BOOLEAN]
  BY DEF TypeOK, Calls, AllOperations
<1>2. \A n \in Numbers : n \in Byte
  BY WireAssumption, ByteDef
<1>3. QED
  BY <1>1, <1>2

\* What a command writes is bytes.
LEMMA WritesAreBytes ==
  ASSUME NEW op \in AllOperations, NEW n \in Numbers
  PROVE  Writes(op, n) \in Seq(Seq(Byte))
<1>1. PacketOf(op, n) \in Seq(Byte)
  BY WritesType
<1>2. ChunksOf(op, n) \in Seq(Seq(Byte))
  BY WritesType, Chunks DEF ChunksOf
<1>3. QED
  BY <1>1, <1>2 DEF Writes

\* What arrives of writes is bytes, and all of them if the link carries each.
LEMMA CarriedType ==
  ASSUME NEW writes \in Seq(Seq(Byte)), NEW arriving \in Carried(writes)
  PROVE  /\ arriving \in Seq(Seq(Byte))
         /\ (\A i \in 1 .. Len(writes) : Len(writes[i]) <= MaxWrite) => arriving = writes
<1> DEFINE trimmed == [i \in 1 .. Len(writes) |-> Trimmed(writes[i])]
<1>1. arriving = writes \/ arriving = trimmed
  BY DEF Carried
<1>2. MaxWrite \in Nat
  BY LinkAssumption DEF BLEMaxPacketSize, Go2BLEMaxInnerSize, Go2BLEOverhead
<1>3. ASSUME NEW b \in Seq(Byte)
      PROVE  Trimmed(b) \in Seq(Byte) /\ (Len(b) <= MaxWrite => Trimmed(b) = b)
  <2>1. Len(b) > MaxWrite => SubSeq(b, 1, MaxWrite) \in Seq(Byte)
    BY <1>2, SubSeqType
  <2>2. QED
    BY <1>2, <2>1 DEF Trimmed
<1>4. \A i \in 1 .. Len(writes) : writes[i] \in Seq(Byte)
  OBVIOUS
<1>5. trimmed \in Seq(Seq(Byte))
  BY <1>3, <1>4
<1>6. ASSUME \A i \in 1 .. Len(writes) : Len(writes[i]) <= MaxWrite PROVE trimmed = writes
  BY <1>3, <1>4, <1>6
<1>7. QED
  BY <1>1, <1>5, <1>6

\* The chunks of an X3 message fit every link, and so does a packet that PacketFits says
\* does.
LEMMA FittingWrites ==
  ASSUME NEW op \in AllOperations, NEW n \in Numbers,
         \/ format = "header16"
         \/ format = "go2" /\ HeaderSize + Len(op.payload) + Go2BLEOverhead <= MaxWrite
  PROVE  /\ Fits(op, n)
         /\ \A arriving \in Carried(Writes(op, n)) : arriving = Writes(op, n)
<1>1. Writes(op, n) \in Seq(Seq(Byte))
  BY WritesAreBytes
<1>2. CASE format = "header16"
  <2>1. Writes(op, n) = ChunkForBLE(MessageOf(op, n), BLEMaxPacketSize)
    BY <1>2 DEF Writes, ChunksOf
  <2>2. \A i \in 1 .. Len(Writes(op, n)) : Len(Writes(op, n)[i]) \in 1 .. 20
    <3>1. MessageOf(op, n) \in Seq(Byte) /\ MessageOf(op, n) # <<>>
      BY WritesType
    <3>2. QED
      BY <2>1, <3>1, Chunks
  <2>3. \A k \in 1 .. 20 : k <= MaxWrite
    BY LinkAssumption DEF BLEMaxPacketSize, Go2BLEMaxInnerSize, Go2BLEOverhead
  <2>4. \A i \in 1 .. Len(Writes(op, n)) : Len(Writes(op, n)[i]) <= MaxWrite
    BY <2>2, <2>3
  <2>5. QED
    BY <1>1, <2>4, CarriedType DEF Fits
<1>3. CASE format = "go2" /\ HeaderSize + Len(op.payload) + Go2BLEOverhead <= MaxWrite
  <2>1. Len(PacketOf(op, n)) = 23 + Len(op.payload) /\ Len(op.payload) \in Nat
    BY WritesType
  <2>2. Len(PacketOf(op, n)) <= MaxWrite
    <3>1. HeaderSize + Len(op.payload) + Go2BLEOverhead = 23 + Len(op.payload)
      BY <2>1 DEF HeaderSize, Go2BLEOverhead
    <3>2. QED
      BY <1>3, <2>1, <3>1
  <2>3. Writes(op, n) = <<PacketOf(op, n)>>
    BY <1>3 DEF Writes
  <2>4. \A i \in 1 .. Len(Writes(op, n)) : Len(Writes(op, n)[i]) <= MaxWrite
    BY <2>2, <2>3
  <2>5. QED
    BY <1>1, <2>4, CarriedType DEF Fits
<1>4. QED
  BY <1>2, <1>3

\* What a step that sends a packet leaves well typed.
LEMMA SendsType ==
  ASSUME TypeOK, NEW bytes \in Seq(Byte), NEW state \in Stores \cup {None},
         CameraSends(bytes, state)
  PROVE  inbound' \in Packet
  BY DEF CameraSends, Packet

\* What a valid envelope holds is bytes.
LEMMA InnerDataType ==
  ASSUME NEW b \in Seq(Byte), ValidEnvelope(b)
  PROVE  InnerData(b) \in Seq(Byte)
<1>1. Len(b) >= 7 /\ Len(b) >= CrcOffset(b) + 2
  BY DEF ValidEnvelope, Go2BLEOverhead
<1>2. b[4] \in Nat /\ b[5] \in Nat
  BY <1>1, ByteDef
<1>3. CrcOffset(b) \in Nat
  BY <1>2 DEF CrcOffset, U16, At, Go2BLEHeaderSize
<1>4. CrcOffset(b) <= Len(b)
  BY <1>1, <1>3
<1>5. SubSeq(b, 6, CrcOffset(b)) \in Seq(Byte)
  BY <1>3, <1>4, SubSeqType
<1>6. QED
  BY <1>5 DEF InnerData, Go2BLEHeaderSize

\* A notification handler leaves the variables within their types, whatever the packet is.
LEMMA HandleType ==
  ASSUME TypeOK, Handle
  PROVE  TypeOK'
<1> DEFINE b == inbound.bytes
<1>1. b \in Seq(Byte) /\ inbound' = None
  BY DEF TypeOK, Packet, Handle
<1>2. UNCHANGED <<format, call, heard, pushed, harmed>>
  BY DEF Handle, cameraVars
<1>3. ASSUME NEW d \in Seq(Byte), Route(d) \/ HandleInner(d)
      PROVE  (respCh # None => respCh \in Seq(Byte))' /\ notified' \in 0 .. NotifCap
  <2>1. CASE Route(d)
    BY <1>3, <2>1 DEF Route, TypeOK
  <2>2. ASSUME Notify PROVE notified' \in 0 .. NotifCap
    BY <2>2 DEF Notify, TypeOK, NotifCap
  <2>3. CASE HandleInner(d)
    <3>1. Route(d) \/ (Notify /\ UNCHANGED respCh)
      BY <2>3 DEF HandleInner
    <3>2. QED
      BY <2>1, <2>2, <3>1 DEF TypeOK
  <2>4. QED
    BY <1>3, <2>1, <2>3
<1>4. CASE format = "go2" /\ ValidEnvelope(b) /\ Subtype(b) = Go2BLESubtypeSync
  <2>1. air' = Append(air, SyncResponse) /\ UNCHANGED <<respCh, notified>>
    BY <1>4 DEF Handle, HandleGo2
  <2>2. air' \in Seq(Seq(Byte))
    BY <2>1, SyncReads DEF TypeOK
  <2>3. QED
    BY <1>1, <1>2, <2>1, <2>2 DEF TypeOK
<1>5. CASE format = "go2" /\ ~ (ValidEnvelope(b) /\ Subtype(b) = Go2BLESubtypeSync)
  <2>1. HandleInner(IF ValidEnvelope(b) THEN InnerData(b) ELSE b) /\ air' = air
    BY <1>5 DEF Handle, HandleGo2
  <2>2. (IF ValidEnvelope(b) THEN InnerData(b) ELSE b) \in Seq(Byte)
    BY <1>1, InnerDataType
  <2>3. QED
    BY <1>1, <1>2, <1>3, <2>1, <2>2 DEF TypeOK
<1>6. CASE format # "go2"
  <2>1. HandleHeader16(b) /\ air' = air
    BY <1>6 DEF Handle, HandleHeader16
  <2>2. Route(b) \/ (Notify /\ UNCHANGED respCh)
    BY <2>1 DEF HandleHeader16
  <2>3. (respCh # None => respCh \in Seq(Byte))' /\ notified' \in 0 .. NotifCap
    <3>1. CASE Route(b)
      BY <1>1, <1>3, <3>1
    <3>2. CASE Notify /\ UNCHANGED respCh
      BY <3>2 DEF TypeOK, Notify, NotifCap
    <3>3. QED
      BY <2>2, <3>1, <3>2
  <2>4. QED
    BY <1>1, <1>2, <2>1, <2>3 DEF TypeOK
<1>7. QED
  BY <1>4, <1>5, <1>6

\* What the radio makes of a packet is bytes.
LEMMA RadioType ==
  ASSUME TypeOK, Radio
  PROVE  inbound' \in Packet /\ harmed' \in 0 .. Harms
<1>0. inbound # None /\ inbound \in Packet /\ inbound.bytes \in Seq(Byte)
  BY DEF TypeOK, Packet, Radio
<1>1. ASSUME NEW d \in {"flipped", "cut"}, NEW bytes \in Seq(Byte),
             inbound' = [inbound EXCEPT !.damage = d, !.bytes = bytes],
             harmed < Harms, harmed' = harmed + 1
      PROVE  inbound' \in Packet /\ harmed' \in 0 .. Harms
  <2>1. inbound' \in Packet
    BY <1>0, <1>1 DEF Packet
  <2>2. harmed' \in 0 .. Harms
    BY <1>1, WireAssumption DEF TypeOK
  <2>3. QED
    BY <2>1, <2>2
<1>2. ASSUME NEW i \in DOMAIN inbound.bytes, NEW bit \in Flippable, RadioFlips(i, bit)
      PROVE  inbound' \in Packet /\ harmed' \in 0 .. Harms
  <2> DEFINE old == inbound.bytes
             byte == NumberOf(SymDiff(Bits(old[i], 8), {bit}))
             new == [old EXCEPT ![i] = byte]
  <2>1. byte \in Byte
    <3>1. bit \in 0 .. 7 /\ Bits(old[i], 8) \subseteq 0 .. 7
      BY WireAssumption DEF Bits
    <3>2. SymDiff(Bits(old[i], 8), {bit}) \subseteq 0 .. 7
      BY <3>1 DEF SymDiff
    <3>3. QED
      BY <3>2, NumberOfType
  <2> HIDE DEF byte
  <2>2. new \in Seq(Byte)
    BY <1>0, <1>2, <2>1
  <2>3. inbound' = [inbound EXCEPT !.damage = "flipped", !.bytes = new]
    BY <1>0, <1>2 DEF RadioFlips, Packet, byte
  <2>4. QED
    BY <1>1, <1>2, <2>2, <2>3 DEF RadioFlips
<1>3. ASSUME NEW n \in 0 .. Len(inbound.bytes) - 1, RadioCuts(n)
      PROVE  inbound' \in Packet /\ harmed' \in 0 .. Harms
  <2> DEFINE new == SubSeq(inbound.bytes, 1, n)
  <2>1. new \in Seq(Byte)
    <3>1. n \in Int /\ n <= Len(inbound.bytes)
      BY <1>0, <1>3
    <3>2. QED
      BY <1>0, <3>1, SubSeqType
  <2>2. inbound' = [inbound EXCEPT !.damage = "cut", !.bytes = new]
    BY <1>0, <1>3 DEF RadioCuts, Packet
  <2>3. QED
    BY <1>1, <1>3, <2>1, <2>2 DEF RadioCuts
<1>4. QED
  BY <1>2, <1>3 DEF Radio

\* What no step changes.
Lasting ==
  /\ format' = format
  /\ call # None => call' # None /\ call'.op = call.op /\ call'.seq = call.seq
  /\ answered # None => answered' = answered

\* A step goes on so, and so does a stutter.
LEMMA LastingStep ==
  ASSUME TypeOK, [Next]_vars
  PROVE  Lasting
<1> USE DEF hostVars, cameraVars
<1>1. format' = format
  BY DEF Next, Host, Camera, Radio, SendCommand, WriteRefused, Decline, Receive, Timeout, Return,
         Handle, ReadCache, CameraHears, CameraAnswers, CameraRefuses, CameraPushes,
         CameraSyncs, RadioFlips, RadioCuts, vars
<1>2. answered # None => answered' = answered
  BY DEF Next, Host, Camera, Radio, SendCommand, WriteRefused, Decline, Receive, Timeout, Return,
         Handle, ReadCache, CameraHears, CameraAnswers, CameraRefuses, CameraPushes,
         CameraSyncs, RadioFlips, RadioCuts, vars
<1>3. call # None => UNCHANGED call \/ call' = [call EXCEPT !.open = FALSE]
  BY DEF Next, Host, Camera, Radio, SendCommand, WriteRefused, Decline, Receive, Timeout, Return,
         Handle, ReadCache, CameraHears, CameraAnswers, CameraRefuses, CameraPushes,
         CameraSyncs, RadioFlips, RadioCuts, vars
<1>4. ASSUME call # None PROVE call' # None /\ call'.op = call.op /\ call'.seq = call.seq
  <2>1. call \in Calls
    BY <1>4 DEF TypeOK
  <2>2. CASE UNCHANGED call
    BY <1>4, <2>2
  <2>3. CASE call' = [call EXCEPT !.open = FALSE]
    <3>1. call' \in Calls /\ call'.op = call.op /\ call'.seq = call.seq
      BY <2>1, <2>3 DEF Calls
    <3>2. QED
      BY <3>1, NoneAssumption
  <2>4. QED
    BY <1>3, <1>4, <2>2, <2>3
<1>5. QED
  BY <1>1, <1>2, <1>4 DEF Lasting

\* No step leaves a variable with a value of another type, whatever bytes the radio made
\* of a packet.
LEMMA TypeStep ==
  ASSUME IInv, Next
  PROVE  TypeOK'
<1> USE DEF hostVars, cameraVars
<1>0. TypeOK
  BY DEF IInv
<1>1. ASSUME NEW op \in Operations, NEW n \in Numbers, SendCommand(op, n) PROVE TypeOK'
  <2>1. op \in AllOperations
    BY OperationsIncluded
  <2>2. call' \in Calls
    BY <1>1, <2>1 DEF SendCommand, Calls, AllOperations
  <2>3. air' \in Seq(Seq(Byte))
    <3>1. PICK arriving \in Carried(Writes(op, n)) : air' = air \o arriving
      BY <1>1 DEF SendCommand
    <3>2. Writes(op, n) \in Seq(Seq(Byte))
      BY <2>1, WritesAreBytes
    <3>3. arriving \in Seq(Seq(Byte))
      BY <3>2, CarriedType
    <3>4. QED
      BY <1>0, <3>1, <3>3 DEF TypeOK
  <2>4. QED
    BY <1>0, <1>1, <2>2, <2>3 DEF SendCommand, TypeOK
<1>2. ASSUME NEW op \in Operations, Decline(op) PROVE TypeOK'
  BY <1>0, <1>2 DEF Decline, TypeOK
<1>3. ASSUME NEW res, call # None, Return(res) PROVE TypeOK'
  <2>1. call' \in Calls
    BY <1>0, <1>3 DEF Return, Calls, TypeOK
  <2>2. QED
    BY <1>0, <1>3, <2>1 DEF Return, TypeOK
<1>4. ASSUME Receive PROVE TypeOK'
  BY <1>3, <1>4 DEF Receive
<1>5. ASSUME Timeout PROVE TypeOK'
  BY <1>3, <1>5 DEF Timeout
<1>6. ASSUME Handle PROVE TypeOK'
  BY <1>0, <1>6, HandleType
<1>7. ASSUME ReadCache PROVE TypeOK'
  BY <1>0, <1>7 DEF ReadCache, TypeOK
<1>8. ASSUME CameraHears PROVE TypeOK'
  <2>1. air' \in Seq(Seq(Byte)) /\ Head(air) \in Seq(Byte)
    BY <1>0, <1>8 DEF CameraHears, TypeOK
  <2>2. heard' \in Seq(Byte)
    <3>1. <<>> \in Seq(Byte)
      OBVIOUS
    <3>2. heard \o Head(air) \in Seq(Byte)
      BY <1>0, <2>1, ConcatType DEF TypeOK
    <3>3. QED
      BY <1>8, <3>1, <3>2 DEF CameraHears
  <2>3. QED
    BY <1>0, <1>8, <2>1, <2>2 DEF CameraHears, TypeOK
<1>9. ASSUME NEW bytes \in Seq(Byte), NEW state \in Stores \cup {None},
             CameraSends(bytes, state), UNCHANGED <<format, hostVars, air, heard, harmed>>,
             pushed' \in 0 .. Pushes
      PROVE  TypeOK'
  <2>1. inbound' \in Packet
    BY <1>0, <1>9, SendsType
  <2>2. QED
    BY <1>0, <1>9, <2>1 DEF TypeOK
<1>10. ASSUME call # None, NEW reply \in Replies(call.op), CameraAnswers(reply) PROVE TypeOK'
  <2>1. 200 \in Nat /\ call.seq \in Byte /\ reply.payload \in Seq(Byte)
    BY <1>0, <1>10, CallType, RepliesType DEF TypeOK, Within
  <2>2. CameraPacket(200, call.seq, reply.payload) \in Seq(Byte)
    BY <2>1, CameraPacketType
  <2>3. pushed' \in 0 .. Pushes
    BY <1>0, <1>10 DEF CameraAnswers, TypeOK
  <2>4. QED
    BY <1>9, <1>10, <2>2, <2>3 DEF CameraAnswers
<1>11. ASSUME NEW refusal \in Refusals, CameraRefuses(refusal) PROVE TypeOK'
  <2>1. call # None
    BY <1>11, Answerable DEF CameraRefuses
  <2>2. refusal.code \in Nat /\ call.seq \in Byte
    BY <1>0, <2>1, CallType, RefusalAssumption
  <2>3. Field(1, 18) \o Text(2, refusal.text) \in Seq(Byte)
    BY RefusalType DEF RefusalPayload, Within
  <2>4. CameraPacket(refusal.code, call.seq, Field(1, 18) \o Text(2, refusal.text)) \in Seq(Byte)
    BY <2>2, <2>3, CameraPacketType
  <2>5. pushed' \in 0 .. Pushes
    BY <1>0, <1>11 DEF CameraRefuses, TypeOK
  <2>6. QED
    BY <1>9, <1>11, <2>4, <2>5 DEF CameraRefuses
<1>12. ASSUME pushed < Pushes, pushed' = pushed + 1 PROVE pushed' \in 0 .. Pushes
  BY <1>0, <1>12, WireAssumption DEF TypeOK
<1>13. ASSUME NEW s \in Stores, CameraPushes(s) PROVE TypeOK'
  <2>1. StorageState \in Nat /\ 255 \in Byte
    BY ByteDef DEF StorageState
  <2>2. CameraPacket(StorageState, 255, StoragePayload(s)) \in Seq(Byte)
    <3>1. StoragePayload(s) \in Seq(Byte)
      BY <1>0, StorageType DEF TypeOK, Within
    <3>2. QED
      BY <2>1, <3>1, CameraPacketType
  <2>3. QED
    BY <1>9, <1>12, <1>13, <2>2 DEF CameraPushes
<1>14. ASSUME CameraSyncs PROVE TypeOK'
  <2>1. 171 \in Byte /\ 186 \in Byte /\ 6 \in Byte /\ 65 \in Byte
    BY ByteDef
  <2>2. <<171, 186, 171>> \in Seq(Byte)
    BY <2>1
  <2>3. EncodeGo2BlePacket(Go2BLETypeResponse, Go2BLESubtypeSync, <<171, 186, 171>>) \in Seq(Byte)
    <3> DEFINE data == <<171, 186, 171>>
    <3>1. data \in Seq(Byte)
      BY <2>2
    <3> HIDE DEF data
    <3>2. EncodeGo2BlePacket(6, 65, data) \in Seq(Byte)
      BY <2>1, <3>1, EnvelopeBytes
    <3>3. QED
      BY <3>2 DEF data, Go2BLETypeResponse, Go2BLESubtypeSync
  <2>4. QED
    BY <1>9, <1>12, <1>14, <2>3 DEF CameraSyncs
<1>15. ASSUME Radio PROVE TypeOK'
  <2>1. inbound' \in Packet /\ harmed' \in 0 .. Harms
    BY <1>0, <1>15, RadioType
  <2>2. UNCHANGED <<format, hostVars, air, heard, pushed>>
    BY <1>15 DEF Radio, RadioFlips, RadioCuts
  <2>3. QED
    BY <1>0, <2>1, <2>2 DEF TypeOK
<1>16. ASSUME NEW op \in Operations, NEW n \in Numbers, WriteRefused(op, n) PROVE TypeOK'
  <2>1. op \in AllOperations
    BY OperationsIncluded
  <2>2. call' \in Calls
    BY <1>16, <2>1 DEF WriteRefused, Calls, AllOperations
  <2>3. QED
    BY <1>0, <1>16, <2>2 DEF WriteRefused, TypeOK
<1>17. QED
  BY <1>1, <1>2, <1>4, <1>5, <1>6, <1>7, <1>8, <1>10, <1>11, <1>13, <1>14, <1>15, <1>16
     DEF Next, Host, Camera

------------------------------------------------------------------------------
(* The steps of a GO 3 session.                                             *)

\* Nothing new is said: the packets and the sync responses stay in their order.
LEMMA PacketsQuietStep ==
  ASSUME PacketsInOrder, UNCHANGED <<air, heard, understood, meant>>,
         call' = None => call = None
  PROVE  PacketsInOrder'
  BY DEF PacketsInOrder

\* One more packet on the air.
LEMMA PacketsGrow ==
  ASSUME PacketsInOrder, air \in Seq(Seq(Byte)), NEW b \in Seq(Byte), NEW m \in Said,
         air' = Append(air, b), meant' = Append(meant, m),
         Len(b) >= Go2BLEOverhead, ReadPacket(b) = m,
         UNCHANGED <<heard, understood>>,
         call' = None => call = None /\ m = [says |-> "sync"]
  PROVE  PacketsInOrder'
<1> USE DEF PacketsInOrder
<1>1. meant' \in Seq(Said) /\ Len(meant') = Len(meant) + 1 /\ Len(air') = Len(air) + 1
  <2>1. meant \in Seq(Said) /\ m \in Said /\ meant' = Append(meant, m)
    OBVIOUS
  <2>2. air \in Seq(Seq(Byte)) /\ b \in Seq(Byte) /\ air' = Append(air, b)
    OBVIOUS
  <2> HIDE DEF PacketsInOrder
  <2>3. QED
    BY <2>1, <2>2
<1>2. Len(understood) \in Nat /\ Len(air) \in Nat /\ Len(meant) = Len(understood) + Len(air)
  OBVIOUS
<1>3. \A i \in 1 .. Len(meant) : meant'[i] = meant[i]
  OBVIOUS
<1>4. meant'[Len(meant) + 1] = m
  OBVIOUS
<1>5. ASSUME NEW j \in 1 .. Len(air')
      PROVE  Len(air'[j]) >= Go2BLEOverhead /\ ReadPacket(air'[j]) = meant'[Len(understood) + j]
  <2>1. CASE j = Len(air) + 1
    <3>1. air'[j] = b /\ Len(understood) + j = Len(meant) + 1
      BY <1>2, <2>1
    <3>2. QED
      BY <1>4, <3>1
  <2>2. CASE j # Len(air) + 1
    <3>1. j \in 1 .. Len(air) /\ air'[j] = air[j] /\ Len(understood) + j \in 1 .. Len(meant)
      BY <1>1, <1>2, <2>2
    <3>2. QED
      BY <1>3, <3>1
  <2>3. QED
    BY <2>1, <2>2
<1>6. \A i \in 1 .. Len(understood') : understood'[i] = meant'[i]
  BY <1>2, <1>3
<1>7. ASSUME call' = None, NEW i \in 1 .. Len(meant') PROVE meant'[i] = [says |-> "sync"]
  BY <1>1, <1>3, <1>4, <1>7
<1>8. QED
  BY SMTT(60), <1>1, <1>2, <1>5, <1>6, <1>7

\* A packet the camera can make something of is whole.
LEMMA SaidIsWhole ==
  ASSUME format = "go2", NEW b \in Seq(Byte), Len(b) >= Go2BLEOverhead, ReadPacket(b) \in Said
  PROVE  Whole(b)
<1>1. ReadPacket(b) # [says |-> "noise"]
  BY DEF Said, Command
<1>2. Len(b) = U16(b, 3) + 7
  BY <1>1 DEF ReadPacket
<1>3. U16(b, 3) \in Nat
  <2>1. Len(b) \in Nat /\ Len(b) >= 7
    BY DEF Go2BLEOverhead
  <2>2. b[4] \in Byte /\ b[5] \in Byte
    BY <2>1
  <2>3. QED
    BY <2>2, ByteDef DEF U16, At
<1>4. QED
  BY <1>2, <1>3 DEF Whole, Go2BLEOverhead

\* The packet of a call fits the link after a step only if it did before.
LEMMA FittedBefore ==
  ASSUME TypeOK, Next, PacketFits'
  PROVE  format' = format /\ PacketFits
<1>1. Lasting
  BY LastingStep
<1>2. QED
  BY <1>1 DEF Lasting, PacketFits

\* No step of a GO 3 session breaks the order of its packets, as long as they fit the
\* link.
LEMMA PacketsStep ==
  ASSUME IInv, Next, format = "go2", PacketFits'
  PROVE  PacketsInOrder'
<1>0. TypeOK /\ PacketsInOrder /\ air \in Seq(Seq(Byte)) /\ format' = "go2"
  BY FittedBefore DEF IInv, TypeOK
<1>1. ASSUME NEW op \in Operations, NEW n \in Numbers, SendCommand(op, n) PROVE PacketsInOrder'
  <2>1. op \in AllOperations
    BY OperationsIncluded
  <2>2. /\ PacketOf(op, n) \in Seq(Byte) /\ ReadPacket(PacketOf(op, n)) = Command(op, n)
        /\ Len(PacketOf(op, n)) >= Go2BLEOverhead
    BY <1>1, <2>1, WritesType DEF SendCommand, Go2BLEOverhead
  <2>3. call' \in Calls /\ call'.op = op /\ call'.seq = n
    BY <1>1, <2>1 DEF SendCommand, Calls, AllOperations
  <2>4. Command(op, n) \in Said
    BY <2>3 DEF Said
  <2>5. call' # None
    BY <2>3, NoneAssumption
  <2>6. HeaderSize + Len(op.payload) + Go2BLEOverhead <= MaxWrite
    BY <1>0, <2>3, <2>5 DEF PacketFits
  <2>7. air' = Append(air, PacketOf(op, n))
    <3>1. PICK arriving \in Carried(Writes(op, n)) : air' = air \o arriving
      BY <1>1 DEF SendCommand
    <3>2. arriving = Writes(op, n)
      BY <2>1, <2>6, FittingWrites
    <3>3. air' = air \o <<PacketOf(op, n)>>
      BY <3>1, <3>2 DEF Writes
    <3>4. QED
      BY <1>0, <2>2, <3>3
  <2>8. meant' = Append(meant, Command(op, n)) /\ UNCHANGED <<heard, understood>>
    BY <1>1 DEF SendCommand, cameraVars
  <2>9. QED
    BY <1>0, <2>2, <2>4, <2>5, <2>7, <2>8, PacketsGrow
<1>2. ASSUME call # None, NEW res, Return(res) PROVE PacketsInOrder'
  <2>1. UNCHANGED <<air, heard, understood, meant>>
    BY <1>2 DEF Return, cameraVars
  <2>2. call' # None
    BY <1>0, <1>2, NoneAssumption DEF Return, TypeOK, Calls
  <2>3. QED
    BY <1>0, <2>1, <2>2, PacketsQuietStep
<1>3. ASSUME Receive PROVE PacketsInOrder'
  BY <1>2, <1>3 DEF Receive
<1>4. ASSUME Timeout PROVE PacketsInOrder'
  BY <1>2, <1>4 DEF Timeout
<1>5. ASSUME Handle PROVE PacketsInOrder'
  <2>1. UNCHANGED <<call, heard, understood>>
    BY <1>5 DEF Handle, cameraVars
  <2>2. \/ UNCHANGED <<air, meant>>
        \/ air' = Append(air, SyncResponse) /\ meant' = Append(meant, [says |-> "sync"])
    BY <1>5 DEF Handle, HandleGo2
  <2>3. CASE UNCHANGED <<air, meant>>
    BY <1>0, <2>1, <2>3, PacketsQuietStep
  <2>4. CASE air' = Append(air, SyncResponse) /\ meant' = Append(meant, [says |-> "sync"])
    <3>1. [says |-> "sync"] \in Said
      BY DEF Said
    <3>2. Len(SyncResponse) >= Go2BLEOverhead
      BY SyncReads DEF Go2BLEOverhead
    <3>3. QED
      BY <1>0, <2>1, <2>4, <3>1, <3>2, SyncReads, PacketsGrow
  <2>5. QED
    BY <2>2, <2>3, <2>4
<1>6. ASSUME CameraHears PROVE PacketsInOrder'
  <2> USE DEF PacketsInOrder
  <2> DEFINE b == Head(air)
  <2>1. air # <<>> /\ air' = Tail(air) /\ UNCHANGED <<meant, call>>
    BY <1>6 DEF CameraHears, hostVars
  <2>2. b = air[1] /\ b \in Seq(Byte)
    BY <1>0, <2>1
  <2>3. heard \o b = b
    BY <1>0, <2>2
  <2>4. Len(air) \in Nat /\ Len(air) >= 1 /\ Len(understood) \in Nat
    BY <1>0, <2>1
  <2>5. /\ ReadPacket(b) = meant[Len(understood) + 1] /\ Len(understood) + 1 \in 1 .. Len(meant)
        /\ Len(b) >= Go2BLEOverhead
    BY <1>0, <2>2, <2>4
  <2>6. ReadPacket(b) \in Said
    BY <1>0, <2>5
  <2> HIDE DEF b
  <2>7. heard' = <<>> /\ understood' = Append(understood, ReadPacket(b))
    <3>1. Whole(b)
      BY <2>2, <2>5, <2>6, SaidIsWhole
    <3>2. QED
      BY <1>6, <2>3, <3>1 DEF CameraHears, Reading, b
  <2>8. /\ understood' \in Seq(Said) /\ Len(understood') = Len(understood) + 1
        /\ understood'[Len(understood) + 1] = ReadPacket(b)
        /\ \A i \in 1 .. Len(understood) : understood'[i] = understood[i]
    BY <1>0, <2>6, <2>7
  <2>9. \A i \in 1 .. Len(understood') : understood'[i] = meant[i]
    <3>1. \A i \in 1 .. Len(understood) : understood[i] = meant[i]
      BY <1>0
    <3> HIDE DEF PacketsInOrder
    <3>2. QED
      BY <2>4, <2>5, <2>8, <3>1
  <2>10. Len(air') = Len(air) - 1 /\ \A j \in 1 .. Len(air') : air'[j] = air[j + 1]
    BY <1>0, <2>1
  <2>11. ASSUME NEW j \in 1 .. Len(air')
         PROVE  /\ Len(air'[j]) >= Go2BLEOverhead
                /\ ReadPacket(air'[j]) = meant[Len(understood') + j]
    <3>1. j + 1 \in 1 .. Len(air) /\ Len(understood') + j = Len(understood) + (j + 1)
      BY <2>4, <2>8, <2>10
    <3>2. QED
      BY <1>0, <2>10, <3>1
  <2>12. Len(meant) = Len(understood') + Len(air')
    BY <1>0, <2>4, <2>8, <2>10
  <2>13. QED
    BY <1>0, <2>1, <2>7, <2>8, <2>9, <2>11, <2>12
<1>7. CASE UNCHANGED <<call, air, heard, understood, meant>>
  BY <1>0, <1>7, PacketsQuietStep
<1>8. ASSUME NEW op \in Operations, NEW n \in Numbers, WriteRefused(op, n)
      PROVE  PacketsInOrder'
  <2>1. op \in AllOperations
    BY OperationsIncluded
  <2>2. call' \in Calls
    BY <1>8, <2>1 DEF WriteRefused, Calls, AllOperations
  <2>3. call' # None
    BY <2>2, NoneAssumption
  <2>4. UNCHANGED <<air, heard, understood, meant>>
    BY <1>8 DEF WriteRefused, cameraVars
  <2>5. QED
    BY <1>0, <2>3, <2>4, PacketsQuietStep
<1>9. QED
  BY <1>1, <1>3, <1>4, <1>5, <1>6, <1>7, <1>8
     DEF Next, Host, Camera, Radio, Decline, ReadCache, CameraAnswers, CameraRefuses,
         CameraPushes, CameraSyncs, RadioFlips, RadioCuts, hostVars, cameraVars

------------------------------------------------------------------------------
(* The steps of an X3 session.                                              *)

\* One more chunk comes in: the message is whole with the last and no sooner.
LEMMA NextChunk ==
  ASSUME format = "header16", NEW msg \in Seq(Byte), Len(msg) = 16 + U16(msg, 0),
         U16(msg, 0) \in Nat,
         NEW k \in 0 .. Len(ChunkForBLE(msg, BLEMaxPacketSize)), Underway(msg, k), CameraHears
  PROVE  k + 1 \in 0 .. Len(ChunkForBLE(msg, BLEMaxPacketSize)) /\ Underway(msg, k + 1)'
<1> DEFINE chunks == ChunkForBLE(msg, BLEMaxPacketSize)
           n == Len(chunks)
           got == heard \o Head(air)
           upto == ReachedBy(msg, k + 1)
<1>0. msg # <<>>
  OBVIOUS
<1>1. /\ chunks \in Seq(Seq(Byte)) /\ n \in Nat \ {0}
      /\ \A j \in 0 .. n - 1 :
           /\ SubSeq(msg, 1, ReachedBy(msg, j)) \o chunks[j + 1] =
                SubSeq(msg, 1, ReachedBy(msg, j + 1))
           /\ j + 1 < n => ReachedBy(msg, j + 1) < Len(msg)
           /\ j + 1 = n => ReachedBy(msg, j + 1) = Len(msg)
           /\ 20 * j < Len(msg)
  BY <1>0, Chunks
<1>2. /\ air # <<>> /\ air' = Tail(air)
      /\ IF Whole(got) THEN heard' = <<>> /\ understood' = Append(understood, Reading(got))
         ELSE heard' = got /\ UNCHANGED understood
  BY DEF CameraHears
<1>3. /\ air = SubSeq(chunks, k + 1, n)
      /\ k < n => heard = SubSeq(msg, 1, ReachedBy(msg, k)) /\ understood = <<>>
  BY DEF Underway
<1> HIDE DEF chunks
<1>4. k \in 0 .. n - 1
  <2>1. k # n
    BY <1>1, <1>2, <1>3
  <2>2. k \in 0 .. n
    BY DEF chunks
  <2>3. QED
    BY <1>1, <2>1, <2>2
<1>5. Head(air) = chunks[k + 1] /\ air' = SubSeq(chunks, (k + 1) + 1, n)
  <2>1. k + 1 \in 1 .. Len(chunks) /\ n \in k + 1 .. Len(chunks)
    BY <1>1, <1>4
  <2>2. QED
    BY <1>1, <1>2, <1>3, <2>1, HeadTailOfSubSeq
<1>6. got = SubSeq(msg, 1, upto)
  <2>1. SubSeq(msg, 1, ReachedBy(msg, k)) \o chunks[k + 1] = SubSeq(msg, 1, upto)
    <3>1. QED
      BY <1>1, <1>4
  <2>2. heard = SubSeq(msg, 1, ReachedBy(msg, k))
    <3>1. k < n
      BY <1>1, <1>4
    <3>2. QED
      BY <1>3, <3>1
  <2> HIDE DEF upto
  <2>3. QED
    BY <2>1, <2>2, <1>5
<1>7. upto \in Nat /\ upto <= Len(msg)
  BY <1>4 DEF ReachedBy
<1>8. Len(got) = upto /\ \A i \in 1 .. upto : got[i] = msg[i]
  <2> HIDE DEF got, upto
  <2>1. QED
    BY <1>6, <1>7
<1> HIDE DEF got, upto
<1>9. CASE k + 1 < n
  <2>1. upto < Len(msg)
    BY <1>1, <1>4, <1>9 DEF upto
  <2>2. ~ Whole(got)
    <3>1. SUFFICES ASSUME Len(got) >= 16 PROVE ~ (Len(got) >= 16 + U16(got, 0))
      BY DEF Whole
    <3>2. U16(got, 0) = U16(msg, 0)
      BY <1>7, <1>8, <3>1 DEF U16, At
    <3>3. QED
      BY <1>7, <1>8, <2>1, <3>2
  <2>3. heard' = SubSeq(msg, 1, upto) /\ understood' = <<>>
    BY <1>2, <1>3, <1>4, <1>6, <2>2
  <2>4. QED
    BY <1>1, <1>4, <1>5, <1>9, <2>3 DEF Underway, chunks, upto
<1>10. CASE k + 1 = n
  <2>1. upto = Len(msg)
    BY <1>1, <1>4, <1>10 DEF upto
  <2>2. got = msg
    BY <1>6, <2>1
  <2>3. Whole(got)
    BY <2>2 DEF Whole
  <2>4. Reading(got) = ReadMessage(msg, U16(msg, 0), msg[8])
    BY <2>2 DEF Reading
  <2>5. heard' = <<>> /\ understood' = <<ReadMessage(msg, U16(msg, 0), msg[8])>>
    BY <1>2, <1>3, <1>4, <2>3, <2>4
  <2>6. QED
    BY <1>1, <1>4, <1>5, <1>10, <2>5 DEF Underway, chunks
<1>11. QED
  BY <1>1, <1>4, <1>9, <1>10

\* No step of an X3 session breaks the order of its chunks.
LEMMA ChunksStep ==
  ASSUME IInv, Next, format = "header16"
  PROVE  ChunksInOrder'
<1>0. TypeOK /\ ChunksInOrder
  BY DEF IInv
<1>1. ASSUME NEW op \in Operations, NEW n \in Numbers, SendCommand(op, n) PROVE ChunksInOrder'
  <2>1. op \in AllOperations
    BY OperationsIncluded
  <2>2. MessageOf(op, n) \in Seq(Byte) /\ MessageOf(op, n) # <<>>
    BY <2>1, WritesType
  <2>3. call = None /\ air = <<>> /\ heard = <<>> /\ understood = <<>> /\ meant = <<>>
    BY <1>0, <1>1 DEF SendCommand, ChunksInOrder
  <2>4. call' \in Calls /\ call'.op = op /\ call'.seq = n /\ call' # None
    <3>1. call' \in Calls /\ call'.op = op /\ call'.seq = n
      BY <1>1, <2>1 DEF SendCommand, Calls, AllOperations
    <3>2. QED
      BY <3>1, NoneAssumption
  <2>5. ChunksOf(op, n) \in Seq(Seq(Byte)) /\ Len(ChunksOf(op, n)) \in Nat
    BY <2>2, Chunks DEF ChunksOf
  <2>6. /\ air' = ChunksOf(op, n) /\ meant' = <<Command(op, n)>>
        /\ heard' = <<>> /\ understood' = <<>>
    <3>1. air' = <<>> \o ChunksOf(op, n) /\ meant' = Append(<<>>, Command(op, n))
          /\ UNCHANGED <<heard, understood>>
      <4>1. PICK arriving \in Carried(Writes(op, n)) : air' = air \o arriving
        BY <1>1 DEF SendCommand
      <4>2. arriving = ChunksOf(op, n)
        BY <2>1, FittingWrites DEF Writes
      <4>3. QED
        BY <1>1, <2>3, <4>1, <4>2 DEF SendCommand, cameraVars
    <3>2. QED
      BY <2>3, <2>5, <3>1
  <2>7. Underway(MessageOf(op, n), 0)'
    <3>1. air' = ChunkForBLE(MessageOf(op, n), BLEMaxPacketSize)
      BY <2>6 DEF ChunksOf
    <3> DEFINE msg == MessageOf(op, n)
               chunks == ChunkForBLE(msg, BLEMaxPacketSize)
    <3>2. /\ chunks \in Seq(Seq(Byte)) /\ Len(chunks) \in Nat \ {0}
          /\ SubSeq(msg, 1, ReachedBy(msg, 0)) = <<>>
      BY <2>2, Chunks
    <3> HIDE DEF chunks
    <3>3. air' = SubSeq(chunks, 0 + 1, Len(chunks))
      BY <3>1, <3>2 DEF chunks
    <3>4. 0 < Len(chunks) /\ 0 # Len(chunks)
      BY <3>2
    <3>5. QED
      BY <2>6, <3>2, <3>3, <3>4 DEF Underway, chunks
  <2>8. 0 \in 0 .. Len(ChunksOf(op, n))
    BY <2>5
  <2>9. QED
    BY <2>4, <2>6, <2>7, <2>8 DEF ChunksInOrder
<1>2. ASSUME UNCHANGED <<air, heard, understood, meant>>, call = None <=> call' = None,
             call # None => call'.op = call.op /\ call'.seq = call.seq
      PROVE  ChunksInOrder'
  <2>1. \A msg, k : Underway(msg, k)' <=> Underway(msg, k)
    BY <1>2 DEF Underway
  <2>2. QED
    BY <1>0, <1>2, <2>1 DEF ChunksInOrder
<1>3. ASSUME call # None, NEW res, Return(res) PROVE ChunksInOrder'
  <2>1. UNCHANGED <<air, heard, understood, meant>>
    BY <1>3 DEF Return, cameraVars
  <2>2. call' # None /\ call'.op = call.op /\ call'.seq = call.seq
    BY <1>0, <1>3, NoneAssumption DEF Return, TypeOK, Calls
  <2>3. QED
    BY <1>2, <1>3, <2>1, <2>2
<1>4. ASSUME Receive PROVE ChunksInOrder'
  BY <1>3, <1>4 DEF Receive
<1>5. ASSUME Timeout PROVE ChunksInOrder'
  BY <1>3, <1>5 DEF Timeout
<1>6. ASSUME Handle PROVE ChunksInOrder'
  BY <1>2, <1>6 DEF Handle, HandleHeader16, cameraVars
<1>7. ASSUME CameraHears PROVE ChunksInOrder'
  <2>1. UNCHANGED <<call, meant>> /\ air # <<>>
    BY <1>7 DEF CameraHears, hostVars
  <2>2. call # None
    BY <1>0, <2>1 DEF ChunksInOrder
  <2>3. call.op \in AllOperations /\ call.seq \in Numbers
    BY <1>0, <2>2, CallType
  <2>4. PICK msg \in Seq(Byte) : /\ msg = MessageOf(call.op, call.seq)
                                 /\ Len(msg) = 16 + U16(msg, 0) /\ U16(msg, 0) \in Nat
    BY <2>3, WritesType
  <2>5. PICK k \in 0 .. Len(ChunkForBLE(msg, BLEMaxPacketSize)) : Underway(msg, k)
    BY <1>0, <2>2, <2>4 DEF ChunksInOrder, ChunksOf
  <2>6. meant = <<Command(call.op, call.seq)>>
    BY <1>0, <2>2 DEF ChunksInOrder
  <2>7. format = "header16" /\ CameraHears
    BY <1>7
  <2>8. k + 1 \in 0 .. Len(ChunkForBLE(msg, BLEMaxPacketSize)) /\ Underway(msg, k + 1)'
    BY <2>7, <2>4, <2>5, NextChunk
  <2>9. (msg = MessageOf(call.op, call.seq))'
    BY <2>1, <2>4
  <2>10. (\E j \in 0 .. Len(ChunksOf(call.op, call.seq)) :
            Underway(MessageOf(call.op, call.seq), j))'
    BY <2>8, <2>9 DEF ChunksOf
  <2>11. (call # None)' /\ (meant = <<Command(call.op, call.seq)>>)'
    BY <2>1, <2>2, <2>6
  <2>12. QED
    BY <2>10, <2>11 DEF ChunksInOrder
<1>8. CASE UNCHANGED <<call, air, heard, understood, meant>>
  BY <1>2, <1>8
<1>9. ASSUME NEW op \in Operations, NEW n \in Numbers PROVE ~ WriteRefused(op, n)
  BY OperationsIncluded, FittingWrites DEF WriteRefused
<1>10. QED
  BY <1>1, <1>4, <1>5, <1>6, <1>7, <1>8, <1>9
     DEF Next, Host, Camera, Radio, Decline, ReadCache, CameraAnswers, CameraRefuses,
         CameraPushes, CameraSyncs, RadioFlips, RadioCuts, hostVars, cameraVars

------------------------------------------------------------------------------
(* The theorems.                                                            *)

\* Only operations in range are called.
LEMMA InRangeStep ==
  ASSUME call # None => InRange(call.op), TypeOK, Next
  PROVE  (call # None => InRange(call.op))'
<1>1. ASSUME NEW op \in Operations, NEW n \in Numbers, SendCommand(op, n) \/ WriteRefused(op, n)
      PROVE  (call # None => InRange(call.op))'
  <2>1. InRange(op) /\ call'.op = op
    <3>1. CASE SendCommand(op, n)
      BY <3>1 DEF SendCommand
    <3>2. CASE WriteRefused(op, n)
      BY <3>2 DEF WriteRefused
    <3>3. QED
      BY <1>1, <3>1, <3>2
  <2>2. InRange(op)'
    BY <2>1
  <2>3. QED
    BY <2>1
<1>2. ASSUME UNCHANGED call PROVE (call # None => InRange(call.op))'
  BY <1>2
<1>3. ASSUME call # None, NEW res, Return(res) PROVE (call # None => InRange(call.op))'
  <2>1. call'.op = call.op
    BY <1>3 DEF Return, TypeOK, Calls
  <2>2. InRange(call.op)
    BY <1>3
  <2>3. QED
    BY <2>1, <2>2
<1>4. CASE Receive
  BY <1>3, <1>4 DEF Receive
<1>5. CASE Timeout
  BY <1>3, <1>5 DEF Timeout
<1>6. QED
  BY <1>1, <1>2, <1>4, <1>5
     DEF Next, Host, Camera, Radio, Decline, Handle, ReadCache, CameraHears, CameraAnswers,
         CameraRefuses, CameraPushes, CameraSyncs, RadioFlips, RadioCuts, hostVars

\* A step keeps the invariant.
LEMMA StepKeeps ==
  ASSUME IInv, Next
  PROVE  IInv'
<1>1. TypeOK'
  BY TypeStep
<1>2. (call # None => InRange(call.op))'
  BY InRangeStep DEF IInv
<1>3. format' = format
  BY LastingStep DEF Lasting, IInv
<1>4. QED
  BY <1>1, <1>2, <1>3, PacketsStep, ChunksStep DEF IInv

\* A step keeps the invariant, and so does a stutter.
LEMMA InductiveStep == IInv /\ [Next]_vars => IInv'
<1> SUFFICES ASSUME IInv, [Next]_vars PROVE IInv'
  OBVIOUS
<1>1. CASE Next
  BY <1>1, StepKeeps
<1>2. CASE UNCHANGED vars
  <2>1. TypeOK'
    BY <1>2 DEF IInv, TypeOK, vars, hostVars, cameraVars
  <2>2. PacketsInOrder => PacketsInOrder'
    BY <1>2 DEF PacketsInOrder, vars, hostVars, cameraVars
  <2>3. ChunksInOrder => ChunksInOrder'
    BY <1>2 DEF ChunksInOrder, Underway, vars, hostVars, cameraVars
  <2>4. format' = format /\ call' = call /\ (PacketFits' <=> PacketFits)
    BY <1>2 DEF vars, hostVars, PacketFits
  <2>5. QED
    BY <2>1, <2>2, <2>3, <2>4 DEF IInv
<1>3. QED
  BY <1>1, <1>2

\* Every reachable state satisfies the inductive invariant.
THEOREM Inductive == Spec => []IInv
BY InitHolds, InductiveStep, PTL DEF Spec

\* Every variable keeps to its type, whatever bytes the radio makes of a packet
\* (device.go:262-389).
THEOREM TypeCorrect == Spec => []TypeOK
<1>1. IInv => TypeOK
  BY DEF IInv
<1>2. QED
  BY <1>1, Inductive, PTL

\* The invariant says of a GO 3 what HeardAsSent says.
LEMMA PacketsHeard ==
  ASSUME IInv, format = "go2"
  PROVE  HeardAsSent
<1>1. ChunksFit
  BY DEF ChunksFit
<1> SUFFICES ASSUME PacketFits PROVE HeardAsSent
  BY <1>1 DEF HeardAsSent
<1>2. PacketsInOrder /\ air \in Seq(Seq(Byte))
  BY DEF IInv, TypeOK
<1>3. Len(understood) <= Len(meant) /\ meant \in Seq(Said) /\ understood \in Seq(Said)
  BY <1>2 DEF PacketsInOrder
<1>4. SubSeq(understood, 1, Len(understood)) = SubSeq(meant, 1, Len(understood))
  BY <1>2, <1>3 DEF PacketsInOrder
<1>5. ASSUME air = <<>> PROVE heard = <<>> /\ understood = meant
  <2>1. Len(understood) = Len(meant)
    BY <1>2, <1>3, <1>5 DEF PacketsInOrder
  <2>2. QED
    BY <1>2, <1>3, <2>1 DEF PacketsInOrder
<1>6. QED
  BY <1>1, <1>3, <1>4, <1>5 DEF HeardAsSent, IsPrefix

\* The invariant says of an X3 what HeardAsSent says.
LEMMA ChunksHeard ==
  ASSUME IInv, format = "header16"
  PROVE  HeardAsSent
<1>1. TypeOK /\ ChunksInOrder
  BY DEF IInv
<1>2. CASE call = None
  <2>1. air = <<>> /\ heard = <<>> /\ understood = <<>> /\ meant = <<>>
    BY <1>1, <1>2 DEF ChunksInOrder
  <2>2. IsPrefix(understood, meant)
    BY <2>1 DEF IsPrefix
  <2>3. QED
    BY <2>1, <2>2 DEF HeardAsSent, ChunksFit
<1>3. CASE call # None
  <2>1. PICK msg \in Seq(Byte), chunks \in Seq(Seq(Byte)) :
          /\ msg = MessageOf(call.op, call.seq) /\ msg # <<>>
          /\ chunks = ChunkForBLE(msg, BLEMaxPacketSize) /\ chunks = ChunksOf(call.op, call.seq)
          /\ \A i \in 1 .. Len(chunks) : Len(chunks[i]) \in 1 .. 20
    <3>1. MessageOf(call.op, call.seq) \in Seq(Byte) /\ MessageOf(call.op, call.seq) # <<>>
      BY <1>1, <1>3, CallType, WritesType
    <3>2. QED
      BY <3>1, Chunks DEF ChunksOf
  <2>2. PICK k \in 0 .. Len(chunks) :
          /\ air = SubSeq(chunks, k + 1, Len(chunks))
          /\ k < Len(chunks) => understood = <<>>
          /\ k = Len(chunks) => /\ heard = <<>>
                                /\ understood = <<ReadMessage(msg, U16(msg, 0), msg[8])>>
    BY <1>1, <1>3, <2>1 DEF ChunksInOrder, Underway
  <2>3. meant = <<Command(call.op, call.seq)>>
    BY <1>1, <1>3 DEF ChunksInOrder
  <2>4. \A i \in 1 .. Len(air) : Len(air[i]) \in 1 .. 20
    <3>1. SUFFICES ASSUME NEW i \in 1 .. Len(air) PROVE Len(air[i]) \in 1 .. 20
      OBVIOUS
    <3>2. /\ k \in Nat /\ k <= Len(chunks) /\ Len(chunks) \in Nat
          /\ air = SubSeq(chunks, k + 1, Len(chunks))
      BY <2>2
    <3>3. Len(air) = Len(chunks) - k
      BY <3>2
    <3>4. i \in Nat /\ 1 <= i /\ i <= Len(chunks) - k
      BY <3>2, <3>3
    <3>5. air[i] = chunks[(k + 1) + i - 1]
      BY <3>2, <3>4
    <3>6. air[i] = chunks[k + i] /\ k + i \in 1 .. Len(chunks)
      BY <3>2, <3>4, <3>5
    <3>7. QED
      BY <2>1, <3>6
  <2>5. ChunksFit
    <3>1. DOMAIN air = 1 .. Len(air) /\ BLEMaxPacketSize = 20
      BY <1>1 DEF TypeOK, BLEMaxPacketSize
    <3>2. QED
      BY <2>4, <3>1 DEF ChunksFit
  <2>6. ASSUME CodeFits, k = Len(chunks) PROVE heard = <<>> /\ understood = meant
    <3>1. InRange(call.op) /\ call.op.code < 256
      BY <1>3, <2>6 DEF CodeFits, IInv
    <3>2. ReadMessage(msg, U16(msg, 0), msg[8]) = Command(call.op, call.seq)
      BY <1>1, <1>3, <2>1, <3>1, CallType, WritesType
    <3>3. QED
      BY <2>2, <2>3, <2>6, <3>2
  <2>7. ASSUME k # Len(chunks) PROVE air # <<>> /\ understood = <<>>
    <3>1. k < Len(chunks)
      BY <2>2, <2>7
    <3>2. Len(air) = Len(chunks) - k
      BY <2>2, <3>1
    <3>3. Len(air) # 0
      BY <3>1, <3>2
    <3>4. air # <<>>
      BY <3>3
    <3>5. QED
      BY <2>2, <3>1, <3>4
  <2>8. \A s : Len(<<s>>) = 1 /\ IsPrefix(<<s>>, <<s>>) /\ IsPrefix(<<>>, <<s>>)
    BY DEF IsPrefix
  <2>9. QED
    BY <2>3, <2>5, <2>6, <2>7, <2>8 DEF HeardAsSent
<1>4. QED
  BY <1>2, <1>3

\* The camera makes of the writes exactly the commands and sync responses the host meant,
\* in their order: of the chunks of every X3 message, each of 1 to 20 bytes, and of a
\* GO 3 packet if the link carries it in one piece, for the code writes it in one
\* whatever its size (device.go:391-487, chunker.go:9-32).
THEOREM CommandsHeardAsSent == Spec => []HeardAsSent
<1>1. IInv => HeardAsSent
  <2> SUFFICES ASSUME IInv PROVE HeardAsSent
    OBVIOUS
  <2>1. format \in {"go2", "header16"}
    BY WireAssumption DEF IInv, TypeOK
  <2>2. QED
    BY <2>1, PacketsHeard, ChunksHeard
<1>2. QED
  BY <1>1, Inductive, PTL

------------------------------------------------------------------------------
(* Damage.                                                                  *)

\* What a camera of the Go2 format sends: a message of less than 1024 bytes, or a sync.
MessagePacket(p) ==
  \E code \in Nat, n \in Byte, payload \in Seq(Byte) :
    /\ 16 + Len(payload) < 1024
    /\ p = EncodeGo2BlePacket(6, 64, EncodeGo2Message(code, n, payload))
SyncPacket(p) == p = EncodeGo2BlePacket(6, 65, <<171, 186, 171>>)

\* What the radio made of a packet.
Proper(p, q) == \E n \in 0 .. Len(p) - 1 : q = SubSeq(p, 1, n)
Damaged(p, q, damage) ==
  /\ damage = "none" => q = p
  /\ damage = "flipped" => \E i \in 1 .. Len(p) : DifferAt(p, q, i)
  /\ damage = "cut" => Proper(p, q)

\* Whatever comes in was a packet of the camera's once.
CameraSent ==
  format = "go2" /\ inbound # None =>
    \E p : (MessagePacket(p) \/ SyncPacket(p)) /\ Damaged(p, inbound.bytes, inbound.damage)

\* The one damage no check of the host's tells: a byte of the length turned over, so that
\* a part of the data stands where the check is looked for, and it is the check of what
\* precedes it.
Collides ==
  /\ format = "go2" /\ inbound # None /\ inbound.damage = "flipped"
  /\ ValidEnvelope(inbound.bytes)
  /\ Len(inbound.bytes) > CrcOffset(inbound.bytes) + 2

\* A packet of the camera's is an envelope of less than 1024 bytes, which holds no sign of
\* a message of its own before its sixteenth byte.
LEMMA SentPacket ==
  ASSUME NEW p, MessagePacket(p) \/ SyncPacket(p)
  PROVE  /\ \E subtype \in {64, 65}, data \in Seq(Byte) :
              Short(Len(data)) /\ p = EncodeGo2BlePacket(6, subtype, data)
         /\ p \in Seq(Byte)
         /\ Len(p) \in Nat /\ Len(p) >= 10 /\ p[5] # 4
         /\ Len(p) >= 16 => p[8] = 0 /\ p[9] = 0 /\ p[11] = 0
<1>0. 6 \in Byte /\ 64 \in Byte /\ 65 \in Byte
  BY SmallBytes
<1>1. CASE MessagePacket(p)
  <2>1. PICK code \in Nat, n \in Byte, payload \in Seq(Byte) :
          /\ 16 + Len(payload) < 1024
          /\ p = EncodeGo2BlePacket(6, 64, EncodeGo2Message(code, n, payload))
    BY <1>1 DEF MessagePacket
  <2> DEFINE m == EncodeGo2Message(code, n, payload)
  <2>2. Len(payload) \in Nat
    BY <2>1
  <2>3. Short(16 + Len(payload))
    BY <2>1, <2>2 DEF Short
  <2>4. /\ m \in Seq(Byte) /\ Len(m) = 16 + Len(payload)
        /\ m[3] = 0 /\ m[4] = 0 /\ m[6] = 0
    BY <2>3, Go2MessageBytes
  <2>5. p = EncodeGo2BlePacket(6, 64, m)
    BY <2>1
  <2> HIDE DEF m
  <2>6. /\ p \in Seq(Byte) /\ Len(p) = 7 + Len(m) /\ p[5] = High(Len(m))
        /\ \A i \in 1 .. Len(m) : p[5 + i] = m[i]
    <3>1. m \in Seq(Byte)
      BY <2>4
    <3> DEFINE b == EncodeGo2BlePacket(6, 64, m)
    <3>2. /\ b \in Seq(Byte) /\ Len(b) = 7 + Len(m) /\ b[5] = High(Len(m))
          /\ \A i \in 1 .. Len(m) : b[5 + i] = m[i]
      BY <1>0, <3>1, EnvelopeBytes
    <3>3. p = b
      BY <2>5
    <3> HIDE DEF b
    <3>4. QED
      BY <3>2, <3>3
  <2>7. p[8] = 0 /\ p[9] = 0 /\ p[11] = 0
    <3>1. 3 \in 1 .. Len(m) /\ 4 \in 1 .. Len(m) /\ 6 \in 1 .. Len(m)
      BY <2>2, <2>4
    <3>2. p[5 + 3] = m[3] /\ p[5 + 4] = m[4] /\ p[5 + 6] = m[6]
      BY <2>6, <3>1
    <3>3. QED
      BY <2>4, <3>2
  <2>8. High(Len(m)) # 4
    <3> DEFINE k == Len(m)
    <3>1. k \in Nat /\ k < 1024
      BY <2>1, <2>2, <2>4
    <3> HIDE DEF k
    <3>2. (k \div 256) % 256 # 4
      BY <3>1
    <3>3. QED
      BY <3>2 DEF High, k
  <2>9. Short(Len(m))
    BY <2>3, <2>4
  <2>10. Len(p) \in Nat /\ Len(p) >= 10
    BY <2>2, <2>4, <2>6
  <2>11. QED
    BY <2>4, <2>5, <2>6, <2>7, <2>8, <2>9, <2>10
<1>2. CASE SyncPacket(p)
  <2> DEFINE data == <<171, 186, 171>>
  <2>1. data \in Seq(Byte) /\ Len(data) = 3
    <3>1. 171 \in Byte /\ 186 \in Byte
      BY ByteDef
    <3>2. QED
      BY <3>1
  <2>2. p = EncodeGo2BlePacket(6, 65, data)
    BY <1>2 DEF SyncPacket
  <2> HIDE DEF data
  <2>3. p \in Seq(Byte) /\ Len(p) = 7 + Len(data) /\ p[5] = High(Len(data))
    <3>1. data \in Seq(Byte)
      BY <2>1
    <3> DEFINE b == EncodeGo2BlePacket(6, 65, data)
    <3>2. b \in Seq(Byte) /\ Len(b) = 7 + Len(data) /\ b[5] = High(Len(data))
      BY <1>0, <3>1, EnvelopeBytes
    <3>3. p = b
      BY <2>2
    <3> HIDE DEF b
    <3>4. QED
      BY <3>2, <3>3
  <2>4. High(3) # 4 /\ Short(3)
    BY DEF High, Short
  <2>5. Short(Len(data)) /\ p[5] # 4 /\ Len(p) = 10
    BY <2>1, <2>3, <2>4
  <2>6. data \in Seq(Byte)
    BY <2>1
  <2>7. \E subtype \in {64, 65}, d \in Seq(Byte) :
          Short(Len(d)) /\ p = EncodeGo2BlePacket(6, subtype, d)
    BY <2>2, <2>5, <2>6
  <2>8. Len(p) \in Nat /\ Len(p) >= 10 /\ ~ (Len(p) >= 16)
    <3> DEFINE k == Len(p)
    <3>1. k = 10
      BY <2>5
    <3> HIDE DEF k
    <3>2. k \in Nat /\ k >= 10 /\ ~ (k >= 16)
      BY <3>1
    <3>3. QED
      BY <3>2 DEF k
  <2>9. QED
    BY <2>3, <2>5, <2>7, <2>8
<1>3. QED
  BY <1>1, <1>2

\* A damaged packet that does not collide is no envelope, and if it can be taken for a
\* message without one, the message has number 0 and code 0.
LEMMA DamageShows ==
  ASSUME NEW p, MessagePacket(p) \/ SyncPacket(p), NEW q \in Seq(Byte),
         NEW damage \in {"flipped", "cut"}, Damaged(p, q, damage)
  PROVE  /\ ValidEnvelope(q) => damage = "flipped" /\ Len(q) > CrcOffset(q) + 2
         /\ ValidHeader(q) => q[8] = 0 /\ q[9] = 0 /\ q[11] = 0
<1>1. PICK subtype \in {64, 65}, data \in Seq(Byte) :
        Short(Len(data)) /\ p = EncodeGo2BlePacket(6, subtype, data)
  BY SentPacket
<1>2. /\ p \in Seq(Byte) /\ Len(p) \in Nat /\ p[5] # 4
      /\ Len(p) >= 16 => p[8] = 0 /\ p[9] = 0 /\ p[11] = 0
  BY SentPacket
<1>3. 6 \in Byte /\ subtype \in Byte
  <2>1. 6 \in Byte /\ 64 \in Byte /\ 65 \in Byte
    BY SmallBytes
  <2>2. subtype = 64 \/ subtype = 65
    BY <1>1
  <2>3. QED
    BY <2>1, <2>2
<1>4. CASE damage = "flipped"
  <2>1. PICK i : DifferAt(p, q, i)
    BY <1>4 DEF Damaged
  <2>2. ValidEnvelope(q) => Len(q) > CrcOffset(q) + 2
    BY <1>1, <1>3, <2>1, FlipsAreNoticed
  <2>3. /\ Len(q) = Len(p) /\ i \in 1 .. Len(p)
        /\ \A j \in 1 .. Len(p) : j # i => p[j] = q[j]
    BY <2>1 DEF DifferAt
  <2>4. ASSUME ValidHeader(q) PROVE q[8] = 0 /\ q[9] = 0 /\ q[11] = 0
    <3>1. Len(q) >= 16 /\ q[5] = 4
      BY <2>4 DEF ValidHeader, HeaderSize, headerMode, At
    <3>2. 5 \in 1 .. Len(p) /\ 8 \in 1 .. Len(p) /\ 9 \in 1 .. Len(p) /\ 11 \in 1 .. Len(p)
      BY <1>2, <2>3, <3>1
    <3>3. i = 5
      BY <1>2, <2>3, <3>1, <3>2
    <3>4. QED
      BY <1>2, <2>3, <3>1, <3>2, <3>3
  <2>5. QED
    BY <1>4, <2>2, <2>4
<1>5. CASE damage = "cut"
  <2>1. PICK n \in 0 .. Len(p) - 1 : q = SubSeq(p, 1, n)
    BY <1>5 DEF Damaged, Proper
  <2>2. Len(p) = 7 + Len(data)
    BY <1>1, <1>3, Envelope
  <2>3. ~ ValidEnvelope(q)
    <3>1. n \in 0 .. 6 + Len(data)
      BY <2>1, <2>2
    <3>2. QED
      BY <1>1, <1>3, <2>1, <3>1, CutsAreNoticed
  <2>4. ~ ValidHeader(q)
    <3>1. SUFFICES ASSUME ValidHeader(q) PROVE FALSE
      OBVIOUS
    <3>2. Len(q) >= 16 /\ q[5] = 4
      BY <3>1 DEF ValidHeader, HeaderSize, headerMode, At
    <3>3. Len(q) = n /\ \A j \in 1 .. n : q[j] = p[j]
      BY <1>2, <2>1
    <3>4. QED
      BY <1>2, <3>2, <3>3
  <2>5. QED
    BY <2>3, <2>4
<1>6. QED
  BY <1>4, <1>5

\* A register with one bit turned over is another one.
LEMMA FlipDiffers ==
  ASSUME NEW x \in Byte, NEW bit \in 0 .. 7
  PROVE  NumberOf(SymDiff(Bits(x, 8), {bit})) # x
<1> DEFINE r == Bits(x, 8)   s == SymDiff(r, {bit})
<1>1. r \in Registers16 /\ NumberOf(r) = x
  BY BitsNumber
<1>2. s \in Registers16 /\ s # r
  BY <1>1 DEF SymDiff, Registers16
<1>3. QED
  BY <1>1, <1>2, NumberOfInjective

\* What a camera of the Go2 format sends of its own or in answer is such a packet.
LEMMA MessageIsSent ==
  ASSUME format = "go2", NEW code \in Nat, NEW n \in Byte, NEW payload, Within(payload, 490)
  PROVE  MessagePacket(CameraPacket(code, n, payload))
<1>1. payload \in Seq(Byte) /\ Len(payload) <= 490
  BY DEF Within
<1>2. 16 + Len(payload) < 1024
  BY <1>1
<1>3. CameraPacket(code, n, payload) = EncodeGo2BlePacket(6, 64, EncodeGo2Message(code, n, payload))
  BY DEF CameraPacket, Go2BLETypeResponse, Go2BLESubtypeMessage
<1>4. QED
  BY <1>1, <1>2, <1>3 DEF MessagePacket

\* A packet on its way was sent by the camera.
LEMMA CameraSentStep ==
  ASSUME IInv, CameraSent, Next
  PROVE  CameraSent'
<1> USE DEF hostVars, cameraVars
<1>0. TypeOK /\ format' = format
  BY LastingStep DEF IInv, Lasting
<1> SUFFICES ASSUME format = "go2" PROVE CameraSent'
  BY <1>0 DEF CameraSent
<1>1. ASSUME UNCHANGED inbound PROVE CameraSent'
  BY <1>0, <1>1 DEF CameraSent
<1>2. ASSUME NEW p, MessagePacket(p) \/ SyncPacket(p), NEW state, CameraSends(p, state)
      PROVE  CameraSent'
  <2>1. inbound'.bytes = p /\ inbound'.damage = "none"
    BY <1>2 DEF CameraSends
  <2>2. Damaged(p, inbound'.bytes, inbound'.damage)
    BY <2>1 DEF Damaged
  <2>3. QED
    BY <1>2, <2>2 DEF CameraSent
<1>3. ASSUME call # None, NEW reply \in Replies(call.op), CameraAnswers(reply) PROVE CameraSent'
  <2>1. 200 \in Nat /\ call.seq \in Byte /\ Within(reply.payload, 490)
    <3>1. Within(reply.payload, 489)
      BY <1>0, <1>3, RepliesType DEF TypeOK
    <3>2. QED
      BY <1>0, <1>3, <3>1, CallType, WithinMore
  <2>2. QED
    BY <1>2, <1>3, <2>1, MessageIsSent DEF CameraAnswers
<1>4. ASSUME NEW refusal \in Refusals, CameraRefuses(refusal) PROVE CameraSent'
  <2>1. call # None
    BY <1>4, Answerable DEF CameraRefuses
  <2>2. refusal.code \in Nat /\ call.seq \in Byte
    BY <1>0, <2>1, CallType, RefusalAssumption
  <2>3. QED
    BY <1>2, <1>4, <2>2, RefusalType, MessageIsSent DEF CameraRefuses, RefusalPayload
<1>5. ASSUME NEW s \in Stores, CameraPushes(s) PROVE CameraSent'
  <2>1. StorageState \in Nat /\ 255 \in Byte
    BY ByteDef DEF StorageState
  <2>2. Within(StoragePayload(s), 490)
    BY <1>0, StorageType, WithinMore DEF TypeOK
  <2>3. QED
    BY <1>2, <1>5, <2>1, <2>2, MessageIsSent DEF CameraPushes
<1>6. ASSUME CameraSyncs PROVE CameraSent'
  BY <1>2, <1>6 DEF CameraSyncs, SyncPacket, Go2BLETypeResponse, Go2BLESubtypeSync
<1>7. ASSUME inbound # None, inbound.damage = "none"
      PROVE  \E p \in Seq(Byte) : (MessagePacket(p) \/ SyncPacket(p)) /\ inbound.bytes = p
  BY <1>7, SentPacket DEF CameraSent, Damaged
<1>8. ASSUME inbound # None, NEW i \in DOMAIN inbound.bytes, NEW bit \in Flippable,
             RadioFlips(i, bit)
      PROVE  CameraSent'
  <2>1. PICK p \in Seq(Byte) : (MessagePacket(p) \/ SyncPacket(p)) /\ inbound.bytes = p
    BY <1>7, <1>8 DEF RadioFlips
  <2> DEFINE byte == NumberOf(SymDiff(Bits(p[i], 8), {bit}))
             q == [p EXCEPT ![i] = byte]
  <2>2. i \in 1 .. Len(p) /\ p[i] \in Byte
    BY <1>8, <2>1
  <2>3. byte # p[i]
    <3>1. bit \in 0 .. 7
      BY WireAssumption
    <3>2. QED
      BY <2>2, <3>1, FlipDiffers
  <2>4. inbound'.bytes = q /\ inbound'.damage = "flipped"
    BY <1>0, <1>8, <2>1 DEF RadioFlips, TypeOK, Packet
  <2> HIDE DEF byte
  <2>5. DifferAt(p, q, i)
    BY <2>2, <2>3 DEF DifferAt
  <2> HIDE DEF q
  <2>6. Damaged(p, inbound'.bytes, inbound'.damage)
    BY <2>2, <2>4, <2>5 DEF Damaged
  <2>7. QED
    BY <2>1, <2>6 DEF CameraSent
<1>9. ASSUME inbound # None, NEW n \in 0 .. Len(inbound.bytes) - 1, RadioCuts(n)
      PROVE  CameraSent'
  <2>1. PICK p \in Seq(Byte) : (MessagePacket(p) \/ SyncPacket(p)) /\ inbound.bytes = p
    BY <1>7, <1>9 DEF RadioCuts
  <2>2. inbound'.bytes = SubSeq(p, 1, n) /\ inbound'.damage = "cut"
    BY <1>0, <1>9, <2>1 DEF RadioCuts, TypeOK, Packet
  <2>3. Damaged(p, inbound'.bytes, inbound'.damage)
    BY <1>9, <2>1, <2>2 DEF Damaged, Proper
  <2>4. QED
    BY <2>1, <2>3 DEF CameraSent
<1>10. ASSUME Handle PROVE CameraSent'
  BY <1>10 DEF Handle, CameraSent
<1>11. QED
  BY <1>1, <1>3, <1>4, <1>5, <1>6, <1>8, <1>9, <1>10
     DEF Next, Host, Camera, Radio, SendCommand, WriteRefused, Decline, Receive, Timeout, Return,
         ReadCache, CameraHears


\* A handler heeds no damaged packet that does not collide.
LEMMA UnheededHandle ==
  ASSUME TypeOK, CameraSent, ~ Collides, Handle, format = "go2", inbound.damage # "none"
  PROVE  UNCHANGED <<respCh, cachedStorageInfo, air>>
<1> DEFINE q == inbound.bytes
<1>1. q \in Seq(Byte) /\ inbound.damage \in {"flipped", "cut"} /\ inbound # None
  BY DEF TypeOK, Packet, Handle
<1>2. PICK p : (MessagePacket(p) \/ SyncPacket(p)) /\ Damaged(p, q, inbound.damage)
  BY <1>1 DEF CameraSent
<1>3. /\ ValidEnvelope(q) => inbound.damage = "flipped" /\ Len(q) > CrcOffset(q) + 2
      /\ ValidHeader(q) => q[8] = 0 /\ q[9] = 0 /\ q[11] = 0
  BY <1>1, <1>2, DamageShows
<1>4. ~ ValidEnvelope(q)
  BY <1>1, <1>3 DEF Collides
<1>5. HandleInner(q) /\ UNCHANGED air
  BY <1>4 DEF Handle, HandleGo2
<1> HIDE DEF q
<1>6. CASE ~ ValidHeader(q)
  BY <1>5, <1>6 DEF HandleInner
<1>7. CASE ValidHeader(q)
  <2>1. DecodeGo2Header(q).seq = 0 /\ DecodeGo2Header(q).code = 0
    BY <1>3, <1>7 DEF DecodeGo2Header, U16, At
  <2>2. ~ Awaited(0)
    BY CallType, WireAssumption DEF Awaited
  <2>3. StorageState # 0
    BY DEF StorageState
  <2>4. QED
    BY <1>5, <1>7, <2>1, <2>2, <2>3 DEF HandleInner
<1>8. QED
  BY <1>5, <1>6, <1>7

\* Only a handler takes a packet in.
LEMMA OnlyHandleTakes ==
  ASSUME IInv, Next, inbound # None, inbound' = None
  PROVE  Handle
<1>1. ~ Radio
  BY RadioType, NoneAssumption DEF IInv
<1>2. QED
  BY <1>1 DEF Next, Host, Camera, SendCommand, WriteRefused, Decline, Receive, Timeout, Return,
              ReadCache, CameraHears, CameraAnswers, CameraRefuses, CameraPushes, CameraSyncs,
              CameraSends

\* No packet damaged by a bit or cut short answers a call, changes the cached state or is
\* taken for a sync, neither as an envelope nor by way of the second try as a message
\* without one; but for a length turned over that meets the check of a shorter packet
\* (device.go:262-327).
THEOREM DamageIsUnheeded == Spec /\ [](~ Collides) => DamageUnheeded
<1> DEFINE Unheeded == format = "go2" /\ inbound # None /\ inbound' = None /\ inbound.damage # "none"
                         => UNCHANGED <<respCh, cachedStorageInfo, air>>
<1>1. Init => CameraSent
  BY DEF Init, CameraSent
<1>2. IInv /\ CameraSent /\ [Next]_vars => CameraSent'
  <2>1. UNCHANGED vars => (CameraSent => CameraSent')
    BY DEF vars, CameraSent
  <2>2. QED
    BY <2>1, CameraSentStep
<1>3. IInv /\ CameraSent /\ ~ Collides /\ [Next]_vars => [Unheeded]_vars
  <2>1. SUFFICES ASSUME IInv, CameraSent, ~ Collides, Next,
                        format = "go2", inbound # None, inbound' = None, inbound.damage # "none"
                 PROVE  UNCHANGED <<respCh, cachedStorageInfo, air>>
    OBVIOUS
  <2>2. Handle
    BY <2>1, OnlyHandleTakes
  <2>3. QED
    BY <2>1, <2>2, UnheededHandle DEF IInv
<1>4. QED
  BY <1>1, <1>2, <1>3, Inductive, PTL DEF Spec, DamageUnheeded

------------------------------------------------------------------------------
(* Recursion forwards, from a position to a later one.                      *)

\* A set of natural numbers has its least member.
LEMMA MinIsLeast ==
  ASSUME NEW S \in SUBSET Nat, S # {}
  PROVE  Min(S) \in S /\ \A x \in S : Min(S) <= x
<1> DEFINE Ks == {k \in Nat : \A m \in 0 .. k : m \notin S}
<1>1. ASSUME ~ \E x \in S : \A y \in S : x <= y PROVE FALSE
  <2>1. 0 \in Ks
    BY <1>1
  <2>2. ASSUME NEW k \in Ks PROVE k + 1 \in Ks
    <3>1. \A m \in 0 .. k + 1 : m \in 0 .. k \/ m = k + 1
      OBVIOUS
    <3>2. k + 1 \notin S
      <4>1. SUFFICES ASSUME k + 1 \in S PROVE FALSE
        OBVIOUS
      <4>2. \A y \in S : k + 1 <= y
        OBVIOUS
      <4>3. QED
        BY <1>1, <4>1, <4>2
    <3>3. QED
      BY <3>1, <3>2
  <2>3. Nat \subseteq Ks
    <3> HIDE DEF Ks
    <3>1. QED
      BY <2>1, <2>2, SetInduction
  <2>4. PICK x \in S : TRUE
    OBVIOUS
  <2>5. x \in Ks /\ x \in 0 .. x
    BY <2>3
  <2>6. QED
    BY <2>4, <2>5
<1>2. QED
  BY <1>1 DEF Min

\* A bounded one has its greatest.
LEMMA MaxIsGreatest ==
  ASSUME NEW n \in Nat, NEW S \in SUBSET (1 .. n), S # {}
  PROVE  Max(S) \in S
<1> DEFINE T == {n - x : x \in S}
<1>0. \A x \in S : x \in Nat /\ n - x \in Nat
  OBVIOUS
<1>1. T \in SUBSET Nat /\ T # {}
  BY <1>0
<1>2. Min(T) \in T /\ \A t \in T : Min(T) <= t
  <2> HIDE DEF T
  <2>1. QED
    BY <1>1, MinIsLeast
<1>3. PICK x \in S : Min(T) = n - x
  BY <1>2
<1>4. \A y \in S : x >= y
  <2>1. SUFFICES ASSUME NEW y \in S PROVE x >= y
    OBVIOUS
  <2>2. n - y \in T
    OBVIOUS
  <2>3. n - x <= n - y
    BY <1>2, <1>3, <2>2
  <2>4. QED
    BY <1>0, <2>3
<1>5. QED
  BY <1>4 DEF Max

\* A function on positions, each of which in R leads on to a later one.
Leads(S, last, R, Onward, Step) ==
  \E f \in [Nat -> S] : \A i \in Nat : f[i] = IF i \in R THEN Step[i][f[Onward[i]]] ELSE last

\* There is such a function if R is bounded.
LEMMA ForwardRecursion ==
  ASSUME NEW n \in Nat, NEW S, NEW last \in S, NEW R \in SUBSET (0 .. n),
         NEW Onward \in [R -> Nat], \A i \in R : Onward[i] > i, NEW Step \in [R -> [S -> S]]
  PROVE  Leads(S, last, R, Onward, Step)
<1> DEFINE Right(f, i) == f[i] = IF i \in R THEN Step[i][f[Onward[i]]] ELSE last
           From(k) == \E f \in [Nat -> S] : \A i \in Nat : i > n - k => Right(f, i)
           Ks == {k \in Nat : k <= n + 1 => From(k)}
<1>1. 0 \in Ks
  <2> DEFINE f == [i \in Nat |-> last]
  <2>1. \A i \in Nat : i > n - 0 => f[i] = last /\ i \notin R
    OBVIOUS
  <2>2. f \in [Nat -> S]
    OBVIOUS
  <2>3. QED
    BY <2>1, <2>2
<1>2. ASSUME NEW k \in Ks PROVE k + 1 \in Ks
  <2>1. SUFFICES ASSUME k + 1 <= n + 1 PROVE From(k + 1)
    <3> HIDE DEF From
    <3>1. QED
      OBVIOUS
  <2>2. PICK f \in [Nat -> S] : \A i \in Nat : i > n - k => Right(f, i)
    BY <2>1
  <2> DEFINE j == n - k
             v == IF j \in R THEN Step[j][f[Onward[j]]] ELSE last
             g == [f EXCEPT ![j] = v]
  <2>3. j \in Nat /\ v \in S
    BY <2>1
  <2>4. g \in [Nat -> S]
    BY <2>3
  <2>5. ASSUME NEW i \in Nat, i > n - (k + 1) PROVE Right(g, i)
    <3>1. i \in R => Onward[i] \in Nat /\ Onward[i] > i
      OBVIOUS
    <3>2. i \in R => g[Onward[i]] = f[Onward[i]]
      BY <2>3, <2>5, <3>1
    <3>3. CASE i = j
      BY <2>3, <3>2, <3>3
    <3>4. CASE i # j
      <4>1. i > n - k
        BY <2>5, <3>4
      <4>2. Right(f, i)
        BY <2>2, <4>1
      <4>3. g[i] = f[i]
        BY <3>4
      <4> HIDE DEF g
      <4>4. QED
        BY <3>2, <4>2, <4>3
    <3>5. QED
      BY <3>3, <3>4
  <2>6. QED
    BY <2>4, <2>5
<1>3. From(n + 1)
  <2>1. Nat \subseteq Ks
    <3> HIDE DEF Ks
    <3>1. QED
      BY <1>1, <1>2, SetInduction
  <2>2. QED
    BY <2>1
<1>4. \A i \in Nat : i > n - (n + 1)
  OBVIOUS
<1>5. QED
  BY <1>3, <1>4 DEF Leads

\* Sequence s stands in pb from position i on.
Here(pb, i, s) ==
  /\ i \in Nat \ {0} /\ i + Len(s) <= Len(pb) + 1
  /\ \A k \in 1 .. Len(s) : pb[i + k - 1] = s[k]

\* So do its parts, one behind the other.
LEMMA HereSplits ==
  ASSUME NEW pb \in Seq(Byte), NEW i, NEW s \in Seq(Byte), NEW t \in Seq(Byte), Here(pb, i, s \o t)
  PROVE  Here(pb, i, s) /\ Here(pb, i + Len(s), t)
<1> DEFINE m == Len(s)   n == Len(t)   st == s \o t
<1>1. m \in Nat /\ n \in Nat
  OBVIOUS
<1>2. /\ Len(st) = m + n
      /\ \A k \in 1 .. m : st[k] = s[k]
      /\ \A k \in 1 .. n : st[m + k] = t[k]
  BY Parts
<1>3. /\ i \in Nat \ {0} /\ i + Len(st) <= Len(pb) + 1
      /\ \A k \in 1 .. Len(st) : pb[i + k - 1] = st[k]
  BY DEF Here
<1>4. Len(pb) \in Nat
  OBVIOUS
<1> HIDE DEF st, m, n
<1>5. i \in Nat \ {0} /\ i + m <= Len(pb) + 1 /\ (i + m) + n <= Len(pb) + 1
  BY <1>1, <1>2, <1>3, <1>4
<1>6. \A k \in 1 .. m : pb[i + k - 1] = s[k]
  BY <1>1, <1>2, <1>3
<1>7. ASSUME NEW k \in 1 .. n PROVE pb[(i + m) + k - 1] = t[k]
  <2>1. m + k \in 1 .. Len(st) /\ i + (m + k) - 1 = (i + m) + k - 1
    BY <1>1, <1>2, <1>3
  <2>2. QED
    BY <1>2, <1>3, <2>1
<1>8. QED
  BY <1>1, <1>5, <1>6, <1>7 DEF Here, m, n

\* What a varint reads back to, one or two bytes long, and where the next one begins.
LEMMA VarintReads ==
  ASSUME NEW pb \in Seq(Byte), NEW i, NEW n, TwoBytes(n), Here(pb, i, PutVarint(n))
  PROVE  Varint(pb, i) = [value |-> n, next |-> i + Len(PutVarint(n))]
<1> DEFINE ends == {j \in i .. Len(pb) : pb[j] < 128}
           last == IF ends = {} THEN Len(pb) ELSE Min(ends)
           Def(f) == [j \in i .. last + 1 |->
                        IF j > last THEN 0 ELSE (pb[j] % 128) + 128 * f[j + 1]]
           value == CHOOSE f : f = Def(f)
<1>1. Varint(pb, i) = [value |-> value[i], next |-> last + 1]
  BY DEF Varint
<1>2. n \in Nat /\ n < 16384 /\ Len(pb) \in Nat
  BY DEF TwoBytes
<1>3. ends \in SUBSET Nat
  BY DEF Here
<1>4. CASE n < 128
  <2>1. PutVarint(n) = <<n>> /\ Len(PutVarint(n)) = 1
    BY <1>4 DEF PutVarint
  <2>2. i \in Nat \ {0} /\ i <= Len(pb) /\ pb[i] = n
    BY <1>2, <2>1 DEF Here
  <2>3. i \in ends /\ \A j \in ends : i <= j
    BY <1>2, <1>4, <2>2
  <2> HIDE DEF ends
  <2>4. last = i
    <3> DEFINE m == Min(ends)
    <3>1. m \in ends /\ m <= i
      BY <1>3, <2>3, MinIsLeast
    <3>2. m \in Nat /\ i <= m
      BY <1>3, <2>3, <3>1
    <3>3. ends # {}
      BY <2>3
    <3> HIDE DEF m
    <3>4. m = i
      BY <2>2, <3>1, <3>2
    <3>5. QED
      BY <3>3, <3>4 DEF m
  <2> HIDE DEF last
  <2>5. \E f : f = Def(f)
    <3> DEFINE g == [j \in i .. last + 1 |-> IF j > last THEN 0 ELSE n]
    <3>1. ASSUME NEW j \in i .. last + 1 PROVE g[j] = Def(g)[j]
      <4>1. CASE j = i
        <5>1. i + 1 \in i .. last + 1 /\ g[i + 1] = 0 /\ n % 128 = n
          BY <1>2, <1>4, <2>2, <2>4
        <5>2. QED
          BY <1>2, <2>2, <2>4, <4>1, <5>1
      <4>2. CASE j # i
        BY <2>2, <2>4, <4>2
      <4>3. QED
        BY <4>1, <4>2
    <3>2. g = Def(g)
      BY <3>1
    <3>3. QED
      BY <3>2
  <2>6. value = Def(value)
    <3> HIDE DEF Def
    <3>1. QED
      BY <2>5
  <2> HIDE DEF value
  <2>7. value[i + 1] = 0
    BY <2>2, <2>4, <2>6
  <2>8. value[i] = (n % 128) + 128 * 0
    BY <2>2, <2>4, <2>6, <2>7
  <2>9. value[i] = n
    BY <1>2, <1>4, <2>8
  <2>10. QED
    BY <1>1, <2>1, <2>4, <2>9
<1>5. CASE ~ (n < 128)
  <2> DEFINE x == 128 + (n % 128)   y == n \div 128
  <2>0. /\ x \in Nat /\ x >= 128 /\ y \in Nat /\ y < 128
        /\ (x % 128) + 128 * y = n /\ y % 128 = y
    BY <1>2, <1>5
  <2>1. PutVarint(n) = <<x, y>> /\ Len(PutVarint(n)) = 2
    BY <1>5 DEF PutVarint
  <2> HIDE DEF x, y
  <2>2. i \in Nat \ {0} /\ i + 1 <= Len(pb) /\ pb[i] = x /\ pb[i + 1] = y
    <3>1. i \in Nat \ {0} /\ i + 2 <= Len(pb) + 1 /\ \A k \in 1 .. 2 : pb[i + k - 1] = <<x, y>>[k]
      BY <2>1 DEF Here
    <3>2. pb[i + 1 - 1] = x /\ pb[i + 2 - 1] = y
      BY <3>1
    <3>3. i + 1 - 1 = i /\ i + 2 - 1 = i + 1
      BY <3>1
    <3>4. QED
      BY <1>2, <3>1, <3>2, <3>3
  <2>3. i + 1 \in ends /\ \A j \in ends : i + 1 <= j
    <3>1. i \notin ends
      BY <2>0, <2>2
    <3>2. QED
      BY <1>2, <2>0, <2>2, <3>1
  <2> HIDE DEF ends
  <2>4. last = i + 1
    <3> DEFINE m == Min(ends)
    <3>1. m \in ends /\ m <= i + 1
      BY <1>3, <2>3, MinIsLeast
    <3>2. m \in Nat /\ i + 1 <= m
      BY <1>3, <2>3, <3>1
    <3>3. ends # {}
      BY <2>3
    <3> HIDE DEF m
    <3>4. m = i + 1
      BY <2>2, <3>1, <3>2
    <3>5. QED
      BY <3>3, <3>4 DEF m
  <2> HIDE DEF last
  <2>5. \E f : f = Def(f)
    <3> DEFINE g == [j \in i .. last + 1 |-> IF j > last THEN 0 ELSE IF j = last THEN y ELSE n]
    <3>1. ASSUME NEW j \in i .. last + 1 PROVE g[j] = Def(g)[j]
      <4>1. /\ i \in i .. last + 1 /\ i + 1 \in i .. last + 1 /\ (i + 1) + 1 \in i .. last + 1
            /\ g[i] = n /\ g[i + 1] = y /\ g[(i + 1) + 1] = 0
        BY <2>2, <2>4
      <4>2. j = i \/ j = i + 1 \/ j = (i + 1) + 1
        BY <2>2, <2>4
      <4> HIDE DEF g
      <4>3. Def(g)[i] = (x % 128) + 128 * y
        BY <2>2, <2>4, <4>1
      <4>4. Def(g)[i + 1] = y
        BY <2>0, <2>2, <2>4, <4>1
      <4>5. Def(g)[(i + 1) + 1] = 0
        BY <2>2, <2>4, <4>1
      <4> HIDE DEF Def
      <4>6. QED
        BY <2>0, <4>1, <4>2, <4>3, <4>4, <4>5
    <3>2. g = Def(g)
      BY <3>1
    <3>3. QED
      BY <3>2
  <2>6. value = Def(value)
    <3> HIDE DEF Def
    <3>1. QED
      BY <2>5
  <2> HIDE DEF value
  <2>7. value[(i + 1) + 1] = 0
    BY <2>2, <2>4, <2>6
  <2>8. value[i + 1] = y
    <3>1. value[i + 1] = (y % 128) + 128 * 0
      BY <2>2, <2>4, <2>6, <2>7
    <3>2. QED
      BY <2>0, <3>1
  <2>9. value[i] = n
    <3>1. value[i] = (x % 128) + 128 * y
      BY <2>2, <2>4, <2>6, <2>8
    <3>2. QED
      BY <2>0, <3>1
  <2>10. (i + 1) + 1 = i + 2
    BY <2>2
  <2>11. QED
    BY <1>1, <2>1, <2>4, <2>9, <2>10
<1>6. QED
  BY <1>4, <1>5

\* Wherever a varint is read, the next position is not before it.
LEMMA VarintMovesOn ==
  ASSUME NEW pb \in Seq(Byte), NEW i \in 1 .. Len(pb) + 1
  PROVE  Varint(pb, i).next \in Nat /\ Varint(pb, i).next >= i
<1> DEFINE ends == {j \in i .. Len(pb) : pb[j] < 128}
           last == IF ends = {} THEN Len(pb) ELSE Min(ends)
<1>1. Varint(pb, i).next = last + 1
  BY DEF Varint
<1>2. Len(pb) \in Nat /\ i \in Nat /\ i <= Len(pb) + 1
  OBVIOUS
<1>3. ends \in SUBSET Nat /\ \A j \in ends : j >= i
  BY <1>2
<1> HIDE DEF ends
<1>4. ends # {} => Min(ends) \in Nat /\ Min(ends) >= i
  BY <1>3, MinIsLeast
<1>5. QED
  BY <1>1, <1>2, <1>4

------------------------------------------------------------------------------
(* The fields a parser sees.                                                *)

\* A field of a number.
Numbered == [num : Nat, value : Nat]
Opt(num, n) == IF n = 0 THEN {} ELSE {[num |-> num, value |-> n]}

\* The fields seen are those of R.
Seen(fields, R) == fields \in Seq(Numbered) /\ Range(fields) = R

\* What a parser that stops at once has seen, and one that goes on.
LEMMA NothingSeen == Seen(<<>>, {})
  BY DEF Seen, Range

LEMMA OneMoreSeen ==
  ASSUME NEW fields, NEW R, Seen(fields, R), NEW r \in Numbered
  PROVE  Seen(<<r>> \o fields, {r} \cup R)
<1> DEFINE one == <<r>>
           more == one \o fields
<1>1. one \in Seq(Numbered) /\ Len(one) = 1 /\ one[1] = r
  OBVIOUS
<1>2. fields \in Seq(Numbered) /\ Range(fields) = R
  BY DEF Seen
<1> HIDE DEF one
<1>3. /\ more \in Seq(Numbered) /\ Len(more) = 1 + Len(fields)
      /\ \A k \in 1 .. 1 : more[k] = one[k]
      /\ \A k \in 1 .. Len(fields) : more[1 + k] = fields[k]
  <2>1. /\ more \in Seq(Numbered) /\ Len(more) = Len(one) + Len(fields)
        /\ \A k \in 1 .. Len(one) : more[k] = one[k]
        /\ \A k \in 1 .. Len(fields) : more[Len(one) + k] = fields[k]
    <3>1. one \in Seq(Numbered) /\ fields \in Seq(Numbered)
      BY <1>1, <1>2
    <3>2. QED
      BY <3>1, Parts
  <2> HIDE DEF more
  <2>2. QED
    BY <1>1, <2>1
<1> HIDE DEF more
<1>4. Range(more) = {r} \cup R
  <2>1. DOMAIN more = 1 .. 1 + Len(fields) /\ DOMAIN fields = 1 .. Len(fields)
        /\ Len(fields) \in Nat
    BY <1>2, <1>3
  <2>2. ASSUME NEW x \in Range(more) PROVE x \in {r} \cup R
    <3>1. PICK k \in 1 .. 1 + Len(fields) : x = more[k]
      BY <2>1, <2>2 DEF Range
    <3>2. CASE k = 1
      BY <1>1, <1>3, <3>1, <3>2
    <3>3. CASE k # 1
      <4>1. k - 1 \in 1 .. Len(fields) /\ 1 + (k - 1) = k
        BY <2>1, <3>1, <3>3
      <4>2. x = fields[k - 1]
        BY <1>3, <3>1, <4>1
      <4>3. QED
        BY <1>2, <2>1, <4>1, <4>2 DEF Range
    <3>4. QED
      BY <3>2, <3>3
  <2>3. r \in Range(more)
    <3>1. 1 \in DOMAIN more /\ more[1] = r
      BY <1>1, <1>3, <2>1
    <3>2. QED
      BY <3>1 DEF Range
  <2>4. ASSUME NEW x \in R PROVE x \in Range(more)
    <3>1. PICK k \in 1 .. Len(fields) : x = fields[k]
      BY <1>2, <2>1, <2>4 DEF Range
    <3>2. 1 + k \in DOMAIN more /\ more[1 + k] = x
      BY <1>3, <2>1, <3>1
    <3>3. QED
      BY <3>2 DEF Range
  <2>5. QED
    BY <2>2, <2>3, <2>4
<1>5. QED
  BY <1>3, <1>4 DEF Seen, more, one

\* The fields R give field num the value v, its default 0 if there is none.
Says(R, num, v) ==
  /\ \A r \in R : r.num = num => r.value = v
  /\ v = 0 \/ \E r \in R : r.num = num

\* A field says its number of itself, ...
LEMMA SaysItself ==
  ASSUME NEW R, NEW num, NEW n, \A r \in R : r.num # num
  PROVE  Says(Opt(num, n) \cup R, num, n)
<1>1. \A r \in Opt(num, n) : r.num = num /\ r.value = n
  BY DEF Opt
<1>2. n # 0 => \E r \in Opt(num, n) : r.num = num
  BY DEF Opt
<1>3. QED
  BY <1>1, <1>2 DEF Says

\* ... and nothing of others.
LEMMA SaysOfOthers ==
  ASSUME NEW R, NEW num, NEW n, NEW m, m # num, NEW v, Says(R, m, v)
  PROVE  Says(Opt(num, n) \cup R, m, v)
<1>1. \A r \in Opt(num, n) : r.num # m
  BY DEF Opt
<1>2. QED
  BY <1>1 DEF Says

\* The value of a field is the one seen, or the default.
LEMMA FieldSeen ==
  ASSUME NEW fields, NEW R, Seen(fields, R), NEW num, NEW v, Says(R, num, v)
  PROVE  FieldOf(fields, num, 0) = v
<1> DEFINE found == {k \in DOMAIN fields : fields[k].num = num}
<1>0. /\ \A r \in R : r.num = num => r.value = v
      /\ v = 0 \/ \E r \in R : r.num = num
  BY DEF Says
<1>1. fields \in Seq(Numbered) /\ Range(fields) = R
  BY DEF Seen
<1>2. /\ found \in SUBSET (1 .. Len(fields)) /\ Len(fields) \in Nat
      /\ \A k \in found : fields[k] \in R /\ fields[k].num = num
      /\ \A r \in R : r.num = num => \E k \in found : TRUE
  BY <1>1 DEF Range
<1>3. FieldOf(fields, num, 0) = IF found = {} THEN 0 ELSE fields[Max(found)].value
  BY DEF FieldOf
<1> HIDE DEF found
<1>4. CASE found = {}
  BY <1>0, <1>2, <1>3, <1>4
<1>5. CASE found # {}
  <2>1. Max(found) \in found
    BY <1>0, <1>2, <1>5, MaxIsGreatest
  <2>2. QED
    BY <1>0, <1>2, <1>3, <1>5, <2>1
<1>6. QED
  BY <1>4, <1>5

\* The recursion of the parsers: what they see from position i on, if they read at R.
SeenFrom(pb, R, f) ==
  [i \in Nat |->
     IF i \notin R THEN <<>>
     ELSE IF WireType(pb[i]) = 2 THEN f[i + 2 + pb[i + 1]]
     ELSE LET v == Varint(pb, i + 1)
          IN <<[num |-> FieldNum(pb[i]), value |-> v.value]>> \o f[v.next]]

\* There is a function that is so defined, for every field a parser reads leads on.
LEMMA SeenFromExists ==
  ASSUME NEW pb \in Seq(Byte), NEW R \in SUBSET (0 .. Len(pb)),
         \A i \in R : WireType(pb[i]) = 2 => i < Len(pb)
  PROVE  \E f : f = SeenFrom(pb, R, f)
<1> DEFINE n == Len(pb)
           Item == [i \in R |-> [num |-> FieldNum(pb[i]), value |-> Varint(pb, i + 1).value]]
           S == Seq({Item[i] : i \in R})
           Skips(i) == WireType(pb[i]) = 2
           Onward == [i \in R |-> IF Skips(i) THEN i + 2 + pb[i + 1] ELSE Varint(pb, i + 1).next]
           Step == [i \in R |-> [t \in S |-> IF Skips(i) THEN t ELSE <<Item[i]>> \o t]]
<1>1. n \in Nat /\ \A i \in R : i \in 0 .. n /\ i \in Nat
  OBVIOUS
<1>2. Onward \in [R -> Nat] /\ \A i \in R : Onward[i] > i
  <2>1. SUFFICES ASSUME NEW i \in R PROVE Onward[i] \in Nat /\ Onward[i] > i
    OBVIOUS
  <2>2. CASE Skips(i)
    <3>1. i + 1 \in 1 .. n
      BY <1>1, <2>2
    <3>2. pb[i + 1] \in Nat
      BY <3>1, ByteDef
    <3>3. QED
      BY <1>1, <2>2, <3>2
  <2>3. CASE ~ Skips(i)
    <3>1. i + 1 \in 1 .. n + 1
      BY <1>1
    <3>2. Varint(pb, i + 1).next \in Nat /\ Varint(pb, i + 1).next >= i + 1
      BY <3>1, VarintMovesOn
    <3>3. QED
      BY <1>1, <2>3, <3>2
  <2>4. QED
    BY <2>2, <2>3
<1>3. Step \in [R -> [S -> S]]
  <2>1. ASSUME NEW i \in R, NEW t \in S PROVE <<Item[i]>> \o t \in S
    <3> HIDE DEF Item
    <3>1. <<Item[i]>> \in S
      OBVIOUS
    <3>2. QED
      BY <3>1
  <2> HIDE DEF S, Item
  <2>2. QED
    BY <2>1
<1>4. <<>> \in S
  OBVIOUS
<1>5. PICK f \in [Nat -> S] :
        \A i \in Nat : f[i] = IF i \in R THEN Step[i][f[Onward[i]]] ELSE <<>>
  <2> HIDE DEF n, S, Onward, Step
  <2>1. n \in Nat /\ R \in SUBSET (0 .. n)
    BY <1>1
  <2>2. /\ Onward \in [R -> Nat] /\ \A i \in R : Onward[i] > i
        /\ Step \in [R -> [S -> S]] /\ <<>> \in S
    BY <1>2, <1>3, <1>4
  <2>3. Leads(S, <<>>, R, Onward, Step)
    BY <2>1, <2>2, ForwardRecursion
  <2>4. QED
    BY <2>3 DEF Leads
<1>6. ASSUME NEW i \in Nat PROVE f[i] = SeenFrom(pb, R, f)[i]
  <2>1. CASE i \notin R
    BY <1>5, <2>1 DEF SeenFrom
  <2>2. CASE i \in R
    <3>1. f[Onward[i]] \in S
      BY <1>2, <1>5, <2>2
    <3>2. f[i] = IF Skips(i) THEN f[Onward[i]] ELSE <<Item[i]>> \o f[Onward[i]]
      <4> HIDE DEF S, Item, Onward
      <4>1. QED
        BY <1>5, <2>2, <3>1
    <3>3. QED
      BY <2>2, <3>2 DEF SeenFrom
  <2>3. QED
    BY <2>1, <2>2
<1>7. f = SeenFrom(pb, R, f)
  <2>1. DOMAIN f = Nat /\ f = [i \in Nat |-> f[i]]
    BY <1>5
  <2>2. QED
    BY <1>6, <2>1 DEF SeenFrom
<1>8. QED
  BY <1>7

\* A field that stands where the parser reads is seen, unless it is left out, and so is
\* what follows it.
LEMMA FieldIsSeen ==
  ASSUME NEW pb \in Seq(Byte), NEW R, NEW f, f = SeenFrom(pb, R, f),
         NEW i, NEW num \in 1 .. 31, NEW n, TwoBytes(n), Here(pb, i, Field(num, n)),
         n # 0 => i \in R, NEW others, Seen(f[i + Len(Field(num, n))], others)
  PROVE  Seen(f[i], Opt(num, n) \cup others)
<1>1. i \in Nat
  BY DEF Here
<1>2. CASE n = 0
  <2>1. Field(num, n) = <<>> /\ Opt(num, n) = {}
    BY <1>2 DEF Field, Opt
  <2>2. i + Len(Field(num, n)) = i
    BY <1>1, <2>1
  <2>3. QED
    BY <2>1, <2>2
<1>3. CASE n # 0
  <2> DEFINE tag == <<8 * num>>   put == PutVarint(n)
             r == [num |-> num, value |-> n]
  <2>1. Field(num, n) = tag \o put /\ Opt(num, n) = {r}
    BY <1>3 DEF Field, Opt
  <2>2. tag \in Seq(Byte) /\ put \in Seq(Byte) /\ Len(tag) = 1 /\ tag[1] = 8 * num
    <3>1. 8 * num \in Byte
      BY ByteDef
    <3>2. QED
      BY <3>1, VarintType DEF Within
  <2> HIDE DEF tag, put
  <2>3. Here(pb, i, tag) /\ Here(pb, i + 1, put)
    BY <2>1, <2>2, HereSplits
  <2>4. pb[i] = 8 * num
    <3>1. 1 \in 1 .. Len(tag) /\ i + 1 - 1 = i
      BY <1>1, <2>2
    <3>2. QED
      BY <2>2, <2>3, <3>1 DEF Here
  <2>5. WireType(pb[i]) # 2 /\ FieldNum(pb[i]) = num
    BY <2>4 DEF WireType, FieldNum
  <2>6. Varint(pb, i + 1) = [value |-> n, next |-> (i + 1) + Len(put)]
    BY <2>3, VarintReads DEF put
  <2>7. (i + 1) + Len(put) = i + Len(Field(num, n))
    <3>1. tag \in Seq(Byte) /\ put \in Seq(Byte)
      BY <2>2
    <3>2. Len(tag \o put) = Len(tag) + Len(put)
      BY <3>1, Parts
    <3>3. Len(put) \in Nat
      BY <3>1
    <3>4. QED
      BY <1>1, <2>1, <2>2, <3>2, <3>3
  <2>8. f[i] = <<r>> \o f[i + Len(Field(num, n))]
    <3>1. f[i] = SeenFrom(pb, R, f)[i]
      OBVIOUS
    <3>2. SeenFrom(pb, R, f)[i] =
            LET v == Varint(pb, i + 1)
            IN <<[num |-> FieldNum(pb[i]), value |-> v.value]>> \o f[v.next]
      BY <1>1, <1>3, <2>5 DEF SeenFrom
    <3>3. QED
      BY <2>5, <2>6, <2>7, <3>1, <3>2
  <2>9. r \in Numbered
    BY DEF Numbered, TwoBytes
  <2> HIDE DEF r
  <2>10. Seen(<<r>> \o f[i + Len(Field(num, n))], {r} \cup others)
    BY <2>9, OneMoreSeen
  <2>11. QED
    BY <2>1, <2>8, <2>10
<1>4. QED
  BY <1>2, <1>3

\* Where a field stands, if it does, its tag is read and its number follows.
LEMMA FieldStands ==
  ASSUME NEW pb \in Seq(Byte), NEW i, NEW num \in 1 .. 31, NEW n, TwoBytes(n), n # 0,
         Here(pb, i, Field(num, n))
  PROVE  i \in Nat /\ i < Len(pb) /\ pb[i] = 8 * num /\ WireType(pb[i]) = 0
<1> DEFINE put == PutVarint(n)   tag == <<8 * num>>
<1>1. put \in Seq(Byte) /\ Len(put) >= 1
  <2>1. Len(put) \in {1, 2}
    BY DEF PutVarint
  <2>2. QED
    BY <2>1, VarintType DEF Within
<1>2. Field(num, n) = tag \o put
  BY DEF Field
<1>3. tag \in Seq(Byte) /\ Len(tag) = 1 /\ tag[1] = 8 * num
  <2>1. 8 * num \in Byte
    BY ByteDef
  <2>2. QED
    BY <2>1
<1> HIDE DEF put, tag
<1>4. Here(pb, i, tag) /\ Here(pb, i + 1, put)
  BY <1>1, <1>2, <1>3, HereSplits
<1>5. i \in Nat /\ i < Len(pb)
  <2>1. Len(pb) \in Nat /\ Len(put) \in Nat
    BY <1>1
  <2>2. i \in Nat \ {0} /\ (i + 1) + Len(put) <= Len(pb) + 1
    BY <1>4 DEF Here
  <2>3. QED
    BY <1>1, <2>1, <2>2
<1>6. pb[i] = 8 * num
  <2>1. pb[i + 1 - 1] = tag[1]
    BY <1>3, <1>4 DEF Here
  <2>2. i + 1 - 1 = i
    BY <1>5
  <2>3. QED
    BY <1>3, <2>1, <2>2
<1>7. WireType(pb[i]) = 0
  BY <1>6 DEF WireType
<1>8. QED
  BY <1>5, <1>6, <1>7

\* A sequence stands at its own beginning.
LEMMA HereItself ==
  ASSUME NEW pb \in Seq(Byte)
  PROVE  Here(pb, 1, pb)
<1>1. Len(pb) \in Nat
  OBVIOUS
<1>2. \A k \in 1 .. Len(pb) : 1 + k - 1 = k
  BY <1>1
<1>3. QED
  BY <1>1, <1>2 DEF Here

\* GetBatteryInfo of a GO 3 returns what the camera put into its message
\* (camera_status.go:76-121).
LEMMA Go3BatteryParsed ==
  ASSUME NEW b \in Batteries
  PROVE  ParseGo3Battery(Field(1, b.level) \o Field(2, IF b.charging THEN 1 ELSE 0))
           = [b EXCEPT !.voltage = 0]
<1> DEFINE c == IF b.charging THEN 1 ELSE 0
           s == Field(1, b.level)   t == Field(2, c)
           pb == s \o t
           reads(i) == i < Len(pb) /\ WireType(pb[i]) = 0
           R == {i \in 0 .. Len(pb) : reads(i)}
<1>1. b \in [level : Byte, charging : BOOLEAN, voltage : Nat]
  BY BatteryAssumption DEF BatteryStates
<1>2. TwoBytes(b.level) /\ TwoBytes(c) /\ b.level < 256 /\ b.level \in Nat
  BY <1>1, ByteDef DEF TwoBytes
<1>3. s \in Seq(Byte) /\ t \in Seq(Byte) /\ Len(s) \in Nat /\ Len(t) \in Nat
  <2>1. s \in Seq(Byte) /\ t \in Seq(Byte)
    BY <1>2, FieldType DEF Within
  <2>2. QED
    BY <2>1
<1>3a. s = Field(1, b.level) /\ t = Field(2, c) /\ 1 \in 1 .. 31 /\ 2 \in 1 .. 31
  OBVIOUS
<1> HIDE DEF s, t
<1>4. pb \in Seq(Byte) /\ Len(pb) = Len(s) + Len(t)
  BY <1>3, Parts
<1>5. Here(pb, 1, s) /\ Here(pb, 1 + Len(s), t)
  BY <1>3, <1>4, HereItself, HereSplits
<1> HIDE DEF pb
<1> DEFINE from == CHOOSE f : f = [i \in Nat |->
             IF ~ reads(i) THEN <<>>
             ELSE IF WireType(pb[i]) = 2 THEN f[i + 2 + pb[i + 1]]
             ELSE LET v == Varint(pb, i + 1)
                  IN <<[num |-> FieldNum(pb[i]), value |-> v.value]>> \o f[v.next]]
<1>6. NumberFields(pb, LAMBDA i : i < Len(pb) /\ WireType(pb[i]) = 0) = from[1]
  BY DEF NumberFields
<1>7. from = SeenFrom(pb, R, from)
  <2>1. PICK f : f = SeenFrom(pb, R, f)
    <3>1. \A i \in R : WireType(pb[i]) = 2 => i < Len(pb)
      OBVIOUS
    <3>2. R \in SUBSET (0 .. Len(pb))
      OBVIOUS
    <3> HIDE DEF R
    <3>3. QED
      BY <1>4, <3>1, <3>2, SeenFromExists
  <2>2. \A i \in Nat : i \in R <=> reads(i)
    BY <1>4
  <2>3. \A g : SeenFrom(pb, R, g) = [i \in Nat |->
             IF ~ reads(i) THEN <<>>
             ELSE IF WireType(pb[i]) = 2 THEN g[i + 2 + pb[i + 1]]
             ELSE LET v == Varint(pb, i + 1)
                  IN <<[num |-> FieldNum(pb[i]), value |-> v.value]>> \o g[v.next]]
    BY <2>2 DEF SeenFrom
  <2>4. QED
    BY <2>1, <2>3
<1> HIDE DEF from
<1> DEFINE p2 == 1 + Len(s)   p3 == p2 + Len(t)
<1>8. p2 \in Nat /\ p3 = Len(pb) + 1 /\ p3 \in Nat
  BY <1>3, <1>4
<1>9. Seen(from[p3], {})
  <2>1. p3 \notin R
    BY <1>8
  <2>2. SeenFrom(pb, R, from)[p3] = <<>>
    BY <1>8, <2>1 DEF SeenFrom
  <2>3. QED
    BY <1>7, <2>2, NothingSeen
<1>10. /\ b.level # 0 => 1 \in R
       /\ c # 0 => p2 \in R
  <2>1. ASSUME b.level # 0 PROVE 1 \in R
    <3>1. 1 < Len(pb) /\ WireType(pb[1]) = 0
      BY <1>2, <1>3a, <1>4, <1>5, <2>1, FieldStands
    <3>2. QED
      BY <1>4, <1>3, <3>1
  <2>2. ASSUME c # 0 PROVE p2 \in R
    <3>1. p2 < Len(pb) /\ WireType(pb[p2]) = 0
      BY <1>2, <1>3a, <1>4, <1>5, <2>2, FieldStands
    <3>2. QED
      BY <1>4, <1>3, <1>8, <3>1
  <2>3. QED
    BY <2>1, <2>2
<1> HIDE DEF p2, p3, R, c
<1>11. Seen(from[p2], Opt(2, c) \cup {})
  <2>1. pb \in Seq(Byte) /\ Here(pb, p2, Field(2, c)) /\ Seen(from[p2 + Len(Field(2, c))], {})
    BY <1>3a, <1>4, <1>5, <1>9 DEF p2, p3
  <2>2. QED
    BY <1>2, <1>3a, <1>7, <1>10, <2>1, FieldIsSeen
<1>12. Seen(from[1], Opt(1, b.level) \cup (Opt(2, c) \cup {}))
  <2>1. /\ pb \in Seq(Byte) /\ Here(pb, 1, Field(1, b.level))
        /\ Seen(from[1 + Len(Field(1, b.level))], Opt(2, c) \cup {})
    BY <1>3a, <1>4, <1>5, <1>11 DEF p2
  <2>2. QED
    BY <1>2, <1>3a, <1>7, <1>10, <2>1, FieldIsSeen
<1> DEFINE later == Opt(2, c) \cup {}   all == Opt(1, b.level) \cup later
<1>13. FieldOf(from[1], 1, 0) = b.level /\ FieldOf(from[1], 2, 0) = c
  <2>1. \A r \in {} : r.num # 1 /\ r.num # 2
    OBVIOUS
  <2>2. Says(later, 2, c)
    BY <2>1, SaysItself
  <2>3. \A r \in later : r.num # 1
    BY DEF Opt
  <2> HIDE DEF later
  <2>4. Says(all, 1, b.level)
    BY <2>3, SaysItself
  <2>5. Says(all, 2, c)
    <3>1. 2 # 1
      OBVIOUS
    <3>2. QED
      BY <2>2, <3>1, SaysOfOthers
  <2>6. Seen(from[1], all)
    BY <1>12 DEF later
  <2> HIDE DEF all
  <2>7. QED
    BY <2>4, <2>5, <2>6, FieldSeen
<1>14. b.level % 256 = b.level /\ (c # 0 <=> b.charging)
  BY <1>1, <1>2 DEF c
<1>15. ParseGo3Battery(pb) = [level |-> b.level, charging |-> b.charging, voltage |-> 0]
  BY <1>1, <1>6, <1>13, <1>14 DEF ParseGo3Battery
<1>16. QED
  BY <1>1, <1>15 DEF pb, s, t, c

\* The cached state of a GO 3 is what the camera put into its push: two-byte numbers, and
\* a field of bytes that is skipped (camera_status.go:269-335).
LEMMA Go3StorageParsed ==
  ASSUME NEW s \in Stores, "go2" \in Formats, format = "go2"
  PROVE  ParseGo3Storage(StoragePayload(s)) = s
<1> DEFINE a == Field(1, 4)   m == <<26, 2, 32, 5>>
           free == s.free.lo   files == s.files.lo   total == s.total.lo
           x4 == Field(4, free)   x5 == Field(5, files)   x6 == Field(6, total)
           q0 == a \o m   q1 == q0 \o x4   q2 == q1 \o x5   pb == q2 \o x6
           reads(i) == /\ i <= Len(pb)
                       /\ \/ WireType(pb[i]) = 0
                          \/ WireType(pb[i]) = 2 /\ i < Len(pb)
           R == {i \in 0 .. Len(pb) : reads(i)}
<1>1. /\ s = [total |-> [hi |-> 0, lo |-> total], free |-> [hi |-> 0, lo |-> free],
              files |-> [hi |-> 0, lo |-> files], formatted |-> FALSE]
      /\ TwoBytes(total) /\ TwoBytes(free) /\ TwoBytes(files)
  <2>1. s \in [total : Words, free : Words, files : Words, formatted : BOOLEAN]
    BY StoreAssumption DEF StorageStates
  <2>2. /\ TwoBytes(total) /\ TwoBytes(free) /\ TwoBytes(files)
        /\ s.total.hi = 0 /\ s.free.hi = 0 /\ s.files.hi = 0
    BY StoreType
  <2>3. s.formatted = FALSE
    BY <2>1, StoreAssumption
  <2>4. \A w \in Words : w = [hi |-> w.hi, lo |-> w.lo]
    BY DEF Words
  <2>5. /\ s.total = [hi |-> 0, lo |-> total] /\ s.free = [hi |-> 0, lo |-> free]
        /\ s.files = [hi |-> 0, lo |-> files]
    BY <2>1, <2>2, <2>4
  <2>6. s = [total |-> s.total, free |-> s.free, files |-> s.files, formatted |-> s.formatted]
    BY <2>1
  <2>7. QED
    BY <2>2, <2>3, <2>5, <2>6
<1>2. pb = StoragePayload(s)
  BY DEF StoragePayload
<1>3. TwoBytes(4) /\ Len(a) = 2 /\ a \in Seq(Byte)
  <2> DEFINE tag == <<8>>   four == <<4>>
  <2>1. TwoBytes(4)
    BY DEF TwoBytes
  <2>2. a = tag \o four
    <3>1. 8 * 1 = 8 /\ 4 # 0 /\ 4 < 128
      OBVIOUS
    <3>2. QED
      BY <3>1 DEF Field, PutVarint
  <2>3. tag \in Seq(Byte) /\ four \in Seq(Byte) /\ Len(tag) = 1 /\ Len(four) = 1
    BY SmallBytes
  <2> HIDE DEF tag, four, a
  <2>4. tag \o four \in Seq(Byte) /\ Len(tag \o four) = Len(tag) + Len(four)
    BY <2>3, Parts
  <2>5. QED
    BY <2>1, <2>2, <2>3, <2>4
<1>4. m \in Seq(Byte) /\ Len(m) = 4 /\ m[1] = 26 /\ m[2] = 2
  BY SmallBytes
<1>5. x4 \in Seq(Byte) /\ x5 \in Seq(Byte) /\ x6 \in Seq(Byte)
  BY <1>1, FieldType DEF Within
<1>6. /\ a = Field(1, 4) /\ x4 = Field(4, free) /\ x5 = Field(5, files) /\ x6 = Field(6, total)
      /\ 1 \in 1 .. 31 /\ 4 \in 1 .. 31 /\ 5 \in 1 .. 31 /\ 6 \in 1 .. 31
  OBVIOUS
<1> HIDE DEF a, m, x4, x5, x6, free, files, total
<1>7. q0 \in Seq(Byte) /\ Len(q0) = Len(a) + Len(m)
  BY <1>3, <1>4, Parts
<1>7a. Len(q0) = 6
  BY <1>3, <1>4, <1>7
<1> HIDE DEF q0
<1>8. q1 \in Seq(Byte) /\ Len(q1) = Len(q0) + Len(x4)
  BY <1>5, <1>7, Parts
<1> HIDE DEF q1
<1>9. q2 \in Seq(Byte) /\ Len(q2) = Len(q1) + Len(x5)
  BY <1>5, <1>8, Parts
<1> HIDE DEF q2
<1>10. pb \in Seq(Byte) /\ Len(pb) = Len(q2) + Len(x6)
  BY <1>5, <1>9, Parts
<1>11. Here(pb, 1, q2) /\ Here(pb, 1 + Len(q2), x6)
  BY <1>5, <1>9, <1>10, HereItself, HereSplits
<1> HIDE DEF pb
<1>12. Here(pb, 1, q1) /\ Here(pb, 1 + Len(q1), x5)
  BY <1>5, <1>8, <1>10, <1>11, HereSplits DEF q2
<1>13. Here(pb, 1, q0) /\ Here(pb, 1 + Len(q0), x4)
  BY <1>5, <1>7, <1>10, <1>12, HereSplits DEF q1
<1>14. Here(pb, 1, a) /\ Here(pb, 1 + Len(a), m)
  <2>1. a \in Seq(Byte) /\ m \in Seq(Byte) /\ pb \in Seq(Byte)
    BY <1>3, <1>4, <1>10
  <2>2. Here(pb, 1, a \o m)
    BY <1>13 DEF q0
  <2>3. QED
    BY <2>1, <2>2, HereSplits
<1> DEFINE p2 == 1 + Len(a)   p4 == 1 + Len(q0)   p5 == 1 + Len(q1)   p6 == 1 + Len(q2)
           end == 1 + Len(pb)
<1>15. /\ p2 = 3 /\ p4 = 7 /\ p5 = p4 + Len(x4) /\ p6 = p5 + Len(x5) /\ end = p6 + Len(x6)
       /\ p2 \in Nat /\ p4 \in Nat /\ p5 \in Nat /\ p6 \in Nat /\ end \in Nat
       /\ p2 + 2 + 2 = p4
  <2>1. /\ Len(x4) \in Nat /\ Len(x5) \in Nat /\ Len(x6) \in Nat
        /\ Len(q1) \in Nat /\ Len(q2) \in Nat /\ Len(pb) \in Nat
    BY <1>5, <1>8, <1>9, <1>10
  <2>2. QED
    BY <2>1, <1>3, <1>7a, <1>8, <1>9, <1>10
<1>16. Here(pb, p2, m) /\ Here(pb, p4, x4) /\ Here(pb, p5, x5) /\ Here(pb, p6, x6)
  BY <1>11, <1>12, <1>13, <1>14
<1> DEFINE from == CHOOSE f : f = [i \in Nat |->
             IF ~ reads(i) THEN <<>>
             ELSE IF WireType(pb[i]) = 2 THEN f[i + 2 + pb[i + 1]]
             ELSE LET v == Varint(pb, i + 1)
                  IN <<[num |-> FieldNum(pb[i]), value |-> v.value]>> \o f[v.next]]
<1>17. ParseGo3Storage(pb) =
         [total |-> Word(FieldOf(from[1], 6, 0)), free |-> Word(FieldOf(from[1], 4, 0)),
          files |-> Word(FieldOf(from[1], 5, 0)), formatted |-> FALSE]
  BY DEF ParseGo3Storage, NumberFields
<1>18. from = SeenFrom(pb, R, from)
  <2>1. PICK f : f = SeenFrom(pb, R, f)
    <3>1. \A i \in R : WireType(pb[i]) = 2 => i < Len(pb)
      OBVIOUS
    <3>2. R \in SUBSET (0 .. Len(pb))
      OBVIOUS
    <3> HIDE DEF R
    <3>3. QED
      BY <1>10, <3>1, <3>2, SeenFromExists
  <2>2. \A i \in Nat : i \in R <=> reads(i)
    BY <1>10
  <2>3. \A g : SeenFrom(pb, R, g) = [i \in Nat |->
             IF ~ reads(i) THEN <<>>
             ELSE IF WireType(pb[i]) = 2 THEN g[i + 2 + pb[i + 1]]
             ELSE LET v == Varint(pb, i + 1)
                  IN <<[num |-> FieldNum(pb[i]), value |-> v.value]>> \o g[v.next]]
    BY <2>2 DEF SeenFrom
  <2>4. QED
    BY <2>1, <2>3
<1> HIDE DEF from
<1>19. Seen(from[end], {})
  <2>1. end \notin R
    BY <1>10
  <2>2. SeenFrom(pb, R, from)[end] = <<>>
    BY <1>15, <2>1 DEF SeenFrom
  <2>3. QED
    BY <1>18, <2>2, NothingSeen
<1>20. \A i \in Nat : i < Len(pb) /\ WireType(pb[i]) = 0 => i \in R
  BY <1>10
<1>21. p2 \in R /\ WireType(pb[p2]) = 2 /\ pb[p2 + 1] = 2
  <2>1. p2 + 4 <= Len(pb) + 1 /\ pb[p2 + 1 - 1] = 26 /\ pb[p2 + 2 - 1] = 2
    BY <1>4, <1>16 DEF Here
  <2>2. p2 + 1 - 1 = p2 /\ p2 + 2 - 1 = p2 + 1 /\ Len(pb) \in Nat
    BY <1>15, <1>10
  <2>3. p2 < Len(pb) /\ p2 <= Len(pb) /\ p2 \in 0 .. Len(pb)
    BY <1>15, <2>1, <2>2
  <2>4. WireType(pb[p2]) = 2
    BY <2>1, <2>2 DEF WireType
  <2>5. QED
    BY <2>1, <2>2, <2>3, <2>4
<1> HIDE DEF R, p2, p4, p5, p6, end
<1> DEFINE r6 == Opt(6, total) \cup {}   r5 == Opt(5, files) \cup r6
           r4 == Opt(4, free) \cup r5    r1 == Opt(1, 4) \cup r4
<1>22. Seen(from[p6], r6)
  <2>1. total # 0 => p6 \in R
    BY <1>1, <1>6, <1>10, <1>16, <1>20, FieldStands
  <2>2. Here(pb, p6, Field(6, total)) /\ Seen(from[p6 + Len(Field(6, total))], {})
    BY <1>6, <1>15, <1>16, <1>19
  <2>3. QED
    BY <1>1, <1>6, <1>10, <1>18, <2>1, <2>2, FieldIsSeen
<1> HIDE DEF r6
<1>23. Seen(from[p5], r5)
  <2>1. files # 0 => p5 \in R
    BY <1>1, <1>6, <1>10, <1>16, <1>20, FieldStands
  <2>2. Here(pb, p5, Field(5, files)) /\ Seen(from[p5 + Len(Field(5, files))], r6)
    BY <1>6, <1>15, <1>16, <1>22
  <2>3. QED
    BY <1>1, <1>6, <1>10, <1>18, <2>1, <2>2, FieldIsSeen
<1> HIDE DEF r5
<1>24. Seen(from[p4], r4)
  <2>1. free # 0 => p4 \in R
    BY <1>1, <1>6, <1>10, <1>16, <1>20, FieldStands
  <2>2. Here(pb, p4, Field(4, free)) /\ Seen(from[p4 + Len(Field(4, free))], r5)
    BY <1>6, <1>15, <1>16, <1>23
  <2>3. QED
    BY <1>1, <1>6, <1>10, <1>18, <2>1, <2>2, FieldIsSeen
<1> HIDE DEF r4
<1>25. from[p2] = from[p4]
  <2>1. SeenFrom(pb, R, from)[p2] = from[p2 + 2 + pb[p2 + 1]]
    BY <1>15, <1>21 DEF SeenFrom
  <2>2. QED
    BY <1>15, <1>18, <1>21, <2>1
<1>26. Seen(from[1], r1)
  <2>1. 1 \in R
    <3>1. 4 # 0 /\ Here(pb, 1, Field(1, 4))
      BY <1>6, <1>14
    <3>2. 1 \in Nat /\ 1 < Len(pb) /\ WireType(pb[1]) = 0
      BY <1>3, <1>6, <1>10, <3>1, FieldStands
    <3>3. QED
      BY <1>20, <3>2
  <2>2. Here(pb, 1, Field(1, 4)) /\ Seen(from[1 + Len(Field(1, 4))], r4)
    BY <1>6, <1>14, <1>24, <1>25 DEF p2
  <2>3. QED
    BY <1>3, <1>6, <1>10, <1>18, <2>1, <2>2, FieldIsSeen
<1>27. 1 # 4 /\ 1 # 5 /\ 1 # 6 /\ 4 # 5 /\ 4 # 6 /\ 5 # 6
  OBVIOUS
<1>28. Says(r6, 6, total) /\ \A r \in r6 : r.num # 4 /\ r.num # 5
  <2>1. \A r \in {} : r.num # 6
    OBVIOUS
  <2>2. Says(r6, 6, total)
    BY <2>1, SaysItself DEF r6
  <2>3. QED
    BY <2>2 DEF Opt, r6
<1>29. Says(r5, 5, files) /\ Says(r5, 6, total) /\ \A r \in r5 : r.num # 4
  <2>1. Says(r5, 5, files)
    BY <1>28, SaysItself DEF r5
  <2>2. Says(r5, 6, total)
    BY <1>27, <1>28, SaysOfOthers DEF r5
  <2>3. QED
    BY <1>28, <2>1, <2>2 DEF Opt, r5
<1>30. Says(r4, 4, free) /\ Says(r4, 5, files) /\ Says(r4, 6, total)
  <2>1. Says(r4, 4, free)
    BY <1>29, SaysItself DEF r4
  <2>2. Says(r4, 5, files) /\ Says(r4, 6, total)
    BY <1>27, <1>29, SaysOfOthers DEF r4
  <2>3. QED
    BY <2>1, <2>2
<1>31. Says(r1, 4, free) /\ Says(r1, 5, files) /\ Says(r1, 6, total)
  BY <1>27, <1>30, SaysOfOthers DEF r1
<1> HIDE DEF r1
<1>32. FieldOf(from[1], 4, 0) = free /\ FieldOf(from[1], 5, 0) = files
         /\ FieldOf(from[1], 6, 0) = total
  BY <1>26, <1>31, FieldSeen
<1>33. \A n : TwoBytes(n) => Word(n) = [hi |-> 0, lo |-> n]
  <2>1. SUFFICES ASSUME NEW n, TwoBytes(n) PROVE n \div 65536 = 0 /\ n % 65536 = n
    BY DEF Word
  <2>2. n \in Nat /\ n < 65536
    BY <2>1 DEF TwoBytes
  <2>3. QED
    BY <2>2
<1>34. ParseGo3Storage(pb) = s
  BY <1>1, <1>17, <1>32, <1>33
<1>35. QED
  BY <1>2, <1>34 DEF pb, q2, q1, q0, a, m, x4, x5, x6, free, files, total

\* What stands somewhere is a part.
LEMMA HereIsPart ==
  ASSUME NEW pb \in Seq(Byte), NEW i, NEW s \in Seq(Byte), Here(pb, i, s)
  PROVE  SubSeq(pb, i, i + Len(s) - 1) = s
<1> DEFINE n == Len(s)   last == i + n - 1   part == SubSeq(pb, i, last)
<1>1. /\ i \in Nat \ {0} /\ n \in Nat /\ i + n <= Len(pb) + 1 /\ Len(pb) \in Nat
      /\ \A k \in 1 .. n : pb[i + k - 1] = s[k]
  BY DEF Here
<1>2. last \in Int /\ last <= Len(pb) /\ last - i + 1 = n
  BY <1>1
<1>3. /\ \A k \in i .. last : pb[k] \in Byte
  BY <1>1, <1>2
<1> HIDE DEF n, last
<1>4. /\ part \in Seq(Byte) /\ Len(part) = (IF i <= last THEN last - i + 1 ELSE 0)
      /\ \A k \in 1 .. last - i + 1 : part[k] = pb[i + k - 1]
  BY <1>1, <1>2, <1>3, SubSeqProperties
<1>5. Len(part) = n
  BY <1>1, <1>2, <1>4
<1> HIDE DEF part
<1>6. \A k \in 1 .. n : part[k] = s[k]
  BY <1>1, <1>2, <1>4
<1>7. part = s
  BY <1>4, <1>5, <1>6 DEF n
<1>8. QED
  BY <1>7 DEF part, last, n

\* A number of one byte and one of two.
LEMMA Battery16Parsed ==
  ASSUME NEW b \in Batteries
  PROVE  ParseBattery16(<<b.level>> \o LE16(b.voltage)) = [b EXCEPT !.charging = FALSE]
<1> DEFINE one == <<b.level>>   two == LE16(b.voltage)   v == b.voltage   pb == one \o two
<1>1. b \in [level : Byte, charging : BOOLEAN, voltage : Nat] /\ Short(v)
  BY BatteryAssumption DEF BatteryStates, Short
<1>2. /\ one \in Seq(Byte) /\ Len(one) = 1 /\ one[1] = b.level
      /\ two \in Seq(Byte) /\ Len(two) = 2 /\ two[1] = Low(v) /\ two[2] = High(v)
      /\ Low(v) + 256 * High(v) = v
  <2>1. /\ Low(v) \in Byte /\ High(v) \in Byte /\ b.level \in Byte
        /\ Low(v) + 256 * High(v) = v
    BY <1>1, Halves
  <2>2. QED
    BY <2>1 DEF LE16
<1> HIDE DEF one, two
<1>3. /\ Len(pb) = Len(one) + Len(two)
      /\ \A i \in 1 .. Len(one) : pb[i] = one[i]
      /\ \A i \in 1 .. Len(two) : pb[Len(one) + i] = two[i]
  <2>1. one \in Seq(Byte) /\ two \in Seq(Byte)
    BY <1>2
  <2>2. QED
    BY <2>1, Parts
<1> HIDE DEF pb
<1>4. Len(pb) = 3 /\ pb[1] = b.level /\ pb[1 + 1] = Low(v) /\ pb[1 + 2] = High(v)
  BY <1>2, <1>3
<1>5. Len(pb) = 3 /\ pb[1] = b.level /\ pb[2] = Low(v) /\ pb[3] = High(v)
  BY <1>4
<1>6. ParseBattery16(pb) = [level |-> b.level, charging |-> FALSE, voltage |-> v]
  <2>1. At(pb, 0) = b.level /\ U16(pb, 1) = v /\ Len(pb) >= 1 /\ Len(pb) >= 3
    <3>1. 0 + 1 = 1 /\ 1 + 1 = 2 /\ (1 + 1) + 1 = 3
      OBVIOUS
    <3>2. QED
      BY <1>2, <1>5, <3>1 DEF U16, At
  <2>2. QED
    BY <2>1 DEF ParseBattery16
<1>7. [b EXCEPT !.charging = FALSE] = [level |-> b.level, charging |-> FALSE, voltage |-> v]
  <2>1. b \in [level : Byte, charging : BOOLEAN, voltage : Nat]
    BY <1>1
  <2>2. ASSUME NEW r \in [level : Byte, charging : BOOLEAN, voltage : Nat], NEW no
        PROVE  [r EXCEPT !.charging = no]
                 = [level |-> r.level, charging |-> no, voltage |-> r.voltage]
    OBVIOUS
  <2>3. QED
    BY <2>1, <2>2
<1>8. QED
  BY <1>6, <1>7 DEF pb, one, two

\* A uint32 where it stands.
LEMMA WordHere ==
  ASSUME NEW pb \in Seq(Byte), NEW i \in Nat, NEW w \in Words, Short(w.hi), Short(w.lo),
         Here(pb, i + 1, LE32(w))
  PROVE  U32(pb, i) = w
<1> DEFINE le == LE32(w)
<1>1. w.hi \in Nat /\ w.lo \in Nat /\ w = [hi |-> w.hi, lo |-> w.lo]
  BY DEF Words
<1>2. le = <<Low(w.lo), High(w.lo), Low(w.hi), High(w.hi)>>
  BY DEF LE32
<1>3. /\ Len(le) = 4 /\ le[1] = Low(w.lo) /\ le[2] = High(w.lo) /\ le[3] = Low(w.hi)
      /\ le[4] = High(w.hi)
  BY <1>2
<1> HIDE DEF le
<1>4. \A k \in 1 .. 4 : pb[(i + 1) + k - 1] = le[k]
  BY <1>3 DEF Here, le
<1>5. pb[(i + 1) + 1 - 1] = le[1] /\ pb[(i + 1) + 2 - 1] = le[2]
        /\ pb[(i + 1) + 3 - 1] = le[3] /\ pb[(i + 1) + 4 - 1] = le[4]
  BY <1>4
<1>6. /\ (i + 1) + 1 - 1 = i + 1 /\ (i + 1) + 2 - 1 = (i + 1) + 1
      /\ (i + 1) + 3 - 1 = (i + 2) + 1 /\ (i + 1) + 4 - 1 = ((i + 2) + 1) + 1
  OBVIOUS
<1>7. /\ pb[i + 1] = Low(w.lo) /\ pb[(i + 1) + 1] = High(w.lo)
      /\ pb[(i + 2) + 1] = Low(w.hi) /\ pb[((i + 2) + 1) + 1] = High(w.hi)
  BY <1>3, <1>5, <1>6
<1>8. Low(w.lo) + 256 * High(w.lo) = w.lo /\ Low(w.hi) + 256 * High(w.hi) = w.hi
  BY <1>1, Halves
<1>9. U16(pb, i) = w.lo /\ U16(pb, i + 2) = w.hi
  BY <1>7, <1>8 DEF U16, At
<1>10. QED
  BY <1>1, <1>9 DEF U32

\* Three numbers and a flag.
LEMMA Storage16Parsed ==
  ASSUME NEW s \in Stores, format # "go2"
  PROVE  ParseStorage16(StoragePayload(s)) = s
<1> DEFINE flag == IF s.formatted THEN 1 ELSE 0   end == <<flag>>
           t == LE32(s.total)   f == LE32(s.free)   n == LE32(s.files)
           q0 == t \o f   q1 == q0 \o n   pb == q1 \o end
<1>1. /\ s \in [total : Words, free : Words, files : Words, formatted : BOOLEAN]
      /\ \A w \in {s.total, s.free, s.files} : w \in Words /\ Short(w.hi) /\ Short(w.lo)
  <2>1. \A w \in {s.total, s.free, s.files} : w \in Words /\ Short(w.hi) /\ Short(w.lo)
    BY StoreType DEF Short
  <2>2. QED
    BY <2>1, StoreAssumption DEF StorageStates
<1>2. StoragePayload(s) = pb
  BY DEF StoragePayload
<1>3. ASSUME NEW w \in {s.total, s.free, s.files} PROVE LE32(w) \in Seq(Byte) /\ Len(LE32(w)) = 4
  <2>1. Within(LE32(w), 4)
    BY <1>1, WordType DEF Words
  <2>2. Len(LE32(w)) = 4
    BY DEF LE32
  <2>3. QED
    BY <2>1, <2>2 DEF Within
<1>4. /\ t \in Seq(Byte) /\ f \in Seq(Byte) /\ n \in Seq(Byte)
      /\ Len(t) = 4 /\ Len(f) = 4 /\ Len(n) = 4
  BY <1>3
<1>5. end \in Seq(Byte) /\ Len(end) = 1 /\ end[1] = flag
  <2>1. flag \in Byte
    BY SmallBytes
  <2> HIDE DEF flag
  <2>2. QED
    BY <2>1
<1>5a. t = LE32(s.total) /\ f = LE32(s.free) /\ n = LE32(s.files)
  OBVIOUS
<1> HIDE DEF t, f, n, end, flag
<1>6. q0 \in Seq(Byte) /\ Len(q0) = Len(t) + Len(f)
  BY <1>4, Parts
<1> HIDE DEF q0
<1>7. q1 \in Seq(Byte) /\ Len(q1) = Len(q0) + Len(n)
  BY <1>4, <1>6, Parts
<1> HIDE DEF q1
<1>8. pb \in Seq(Byte) /\ Len(pb) = Len(q1) + Len(end)
  BY <1>5, <1>7, Parts
<1>9. Here(pb, 1, q1) /\ Here(pb, 1 + Len(q1), end)
  BY <1>5, <1>7, <1>8, HereItself, HereSplits
<1> HIDE DEF pb
<1>10. Here(pb, 1, q0) /\ Here(pb, 1 + Len(q0), n)
  <2>1. Here(pb, 1, q0 \o n)
    BY <1>9 DEF q1
  <2>2. QED
    BY <1>4, <1>6, <1>8, <2>1, HereSplits
<1>11. Here(pb, 1, t) /\ Here(pb, 1 + Len(t), f)
  <2>1. Here(pb, 1, t \o f)
    BY <1>10 DEF q0
  <2>2. QED
    BY <1>4, <1>8, <2>1, HereSplits
<1>12. /\ Len(pb) = 13
       /\ 1 = 0 + 1 /\ 1 + Len(t) = 4 + 1 /\ 1 + Len(q0) = 8 + 1 /\ 1 + Len(q1) = 12 + 1
  BY <1>4, <1>5, <1>6, <1>7, <1>8
<1>13. U32(pb, 0) = s.total /\ U32(pb, 4) = s.free /\ U32(pb, 8) = s.files
  <2>1. /\ Here(pb, 0 + 1, LE32(s.total)) /\ Here(pb, 4 + 1, LE32(s.free))
        /\ Here(pb, 8 + 1, LE32(s.files))
    BY <1>5a, <1>10, <1>11, <1>12
  <2>2. QED
    BY <1>1, <1>8, <2>1, WordHere
<1>14. At(pb, 12) = flag
  <2>1. Here(pb, 13, end)
    BY <1>9, <1>12
  <2>2. pb[13 + 1 - 1] = end[1]
    BY <1>5, <2>1 DEF Here
  <2>3. 13 + 1 - 1 = 12 + 1
    OBVIOUS
  <2>4. QED
    BY <1>5, <2>2, <2>3 DEF At
<1>15. ParseStorage16(pb) = [total |-> s.total, free |-> s.free, files |-> s.files,
                             formatted |-> flag # 0]
  <2>1. /\ 13 >= 4 * 1 /\ 13 >= 4 * 2 /\ 13 >= 4 * 3 /\ 13 >= 13
        /\ 4 * 1 - 4 = 0 /\ 4 * 2 - 4 = 4 /\ 4 * 3 - 4 = 8
    OBVIOUS
  <2>2. QED
    BY <1>12, <1>13, <1>14, <2>1 DEF ParseStorage16
<1>16. (flag # 0) = s.formatted
  BY <1>1 DEF flag
<1>17. QED
  BY <1>1, <1>2, <1>15, <1>16

\* Two strings, each behind its length.
LEMMA InfoParsed ==
  ASSUME NEW i \in Infos
  PROVE  ParseInfo(InfoPayload(i)) = i
<1> DEFINE fw == i.firmware   serial == i.serial   m == Len(fw)   n == Len(serial)
           one == <<m>>   two == <<n>>
           q0 == one \o fw   q1 == q0 \o two   pb == q1 \o serial
<1>1. /\ fw \in Seq(Byte) /\ serial \in Seq(Byte) /\ m \in Byte /\ n \in Byte
      /\ i = [firmware |-> fw, serial |-> serial]
  <2>1. i \in [firmware : Seq(Byte), serial : Seq(Byte)]
    BY InfoAssumption DEF DeviceInfos
  <2>2. QED
    BY <2>1, InfoType
<1>2. m \in Nat /\ n \in Nat /\ Len(fw) = m /\ Len(serial) = n
  BY <1>1
<1>3. pb = InfoPayload(i)
  BY DEF InfoPayload
<1> HIDE DEF fw, serial, m, n
<1>4. one \in Seq(Byte) /\ two \in Seq(Byte) /\ Len(one) = 1 /\ Len(two) = 1
        /\ one[1] = m /\ two[1] = n
  BY <1>1
<1> HIDE DEF one, two
<1>5. q0 \in Seq(Byte) /\ Len(q0) = Len(one) + Len(fw)
  BY <1>1, <1>4, Parts
<1> HIDE DEF q0
<1>6. q1 \in Seq(Byte) /\ Len(q1) = Len(q0) + Len(two)
  BY <1>4, <1>5, Parts
<1> HIDE DEF q1
<1>7. pb \in Seq(Byte) /\ Len(pb) = Len(q1) + Len(serial)
  BY <1>1, <1>6, Parts
<1>8. Here(pb, 1, q1) /\ Here(pb, 1 + Len(q1), serial)
  BY <1>1, <1>6, <1>7, HereItself, HereSplits
<1> HIDE DEF pb
<1>9. Here(pb, 1, q0) /\ Here(pb, 1 + Len(q0), two)
  <2>1. Here(pb, 1, q0 \o two)
    BY <1>8 DEF q1
  <2>2. QED
    BY <1>4, <1>5, <1>7, <2>1, HereSplits
<1>10. Here(pb, 1, one) /\ Here(pb, 1 + Len(one), fw)
  <2>1. Here(pb, 1, one \o fw)
    BY <1>9 DEF q0
  <2>2. QED
    BY <1>1, <1>4, <1>7, <2>1, HereSplits
<1>11. /\ Len(pb) = 2 + m + n /\ 1 + Len(one) = 2 /\ 1 + Len(q0) = 2 + m /\ 1 + Len(q1) = 3 + m
  BY <1>2, <1>4, <1>5, <1>6, <1>7
<1>12. pb[1] = m /\ pb[2 + m] = n
  <2>1. pb[1 + 1 - 1] = one[1]
    BY <1>4, <1>10 DEF Here
  <2>2. pb[(2 + m) + 1 - 1] = two[1]
    BY <1>4, <1>9, <1>11 DEF Here
  <2>3. 1 + 1 - 1 = 1 /\ (2 + m) + 1 - 1 = 2 + m
    BY <1>2
  <2>4. QED
    BY <1>4, <2>1, <2>2, <2>3
<1>13. SubSeq(pb, 2, 1 + m) = fw /\ SubSeq(pb, 3 + m, 2 + m + n) = serial
  <2>1. Here(pb, 2, fw) /\ Here(pb, 3 + m, serial)
    BY <1>8, <1>10, <1>11
  <2>2. SubSeq(pb, 2, 2 + Len(fw) - 1) = fw /\ SubSeq(pb, 3 + m, (3 + m) + Len(serial) - 1) = serial
    BY <1>1, <1>7, <2>1, HereIsPart
  <2>3. 2 + Len(fw) - 1 = 1 + m /\ (3 + m) + Len(serial) - 1 = 2 + m + n
    BY <1>2
  <2>4. QED
    BY <2>2, <2>3
<1>14. ParseInfo(pb) = [firmware |-> fw, serial |-> serial]
  <2>1. /\ 0 + 1 = 1 /\ 0 + 1 + m = 1 + m /\ 0 + 2 = 2 /\ (1 + m) + 1 = 2 + m
        /\ (1 + m) + 2 = 3 + m /\ (1 + m) + 1 + n = 2 + m + n
        /\ 0 < 2 + m + n /\ 1 + m <= 2 + m + n /\ 1 + m < 2 + m + n /\ 2 + m + n <= 2 + m + n
    BY <1>2
  <2> DEFINE size(k) == At(pb, k)
             there(k) == k < Len(pb) /\ k + 1 + size(k) <= Len(pb)
             text(k) == IF there(k) THEN SubSeq(pb, k + 2, k + 1 + size(k)) ELSE <<>>
             second == IF there(0) THEN 1 + size(0) ELSE 1
  <2>2. size(0) = m /\ size(1 + m) = n
    BY <1>12, <2>1 DEF At
  <2>3. there(0) /\ second = 1 + m /\ there(1 + m)
    BY <1>11, <2>1, <2>2
  <2>4. text(0) = fw /\ text(second) = serial
    BY <1>13, <2>1, <2>2, <2>3
  <2>5. ParseInfo(pb) = [firmware |-> text(0), serial |-> text(second)]
    BY DEF ParseInfo
  <2>6. QED
    BY <2>4, <2>5
<1>15. QED
  BY <1>1, <1>3, <1>14

\* What is read as a varint is a number, wherever it is read.
LEMMA VarintIsNumber ==
  ASSUME NEW pb \in Seq(Byte), NEW i \in 1 .. Len(pb) + 1
  PROVE  Varint(pb, i).value \in Nat
<1> DEFINE ends == {j \in i .. Len(pb) : pb[j] < 128}
           last == IF ends = {} THEN Len(pb) ELSE Min(ends)
           Def(f) == [j \in i .. last + 1 |->
                        IF j > last THEN 0 ELSE (pb[j] % 128) + 128 * f[j + 1]]
           value == CHOOSE f : f = Def(f)
<1>1. Varint(pb, i).value = value[i]
  BY DEF Varint
<1>2. Len(pb) \in Nat /\ i \in Nat \ {0} /\ i <= Len(pb) + 1
  OBVIOUS
<1>3. last \in Nat /\ i <= last + 1 /\ last <= Len(pb)
  <2>1. ends \in SUBSET Nat /\ \A j \in ends : j >= i /\ j <= Len(pb)
    BY <1>2
  <2> HIDE DEF ends
  <2>2. ends # {} => Min(ends) \in ends
    BY <2>1, MinIsLeast
  <2>3. ends # {} => Min(ends) \in Nat /\ Min(ends) >= i /\ Min(ends) <= Len(pb)
    BY <2>1, <2>2
  <2> DEFINE least == Min(ends)
  <2>4. CASE ends = {}
    BY <1>2, <2>4
  <2>5. CASE ends # {}
    <3>1. last = least /\ least \in Nat /\ least >= i /\ least <= Len(pb)
      BY <2>3, <2>5
    <3> HIDE DEF least, last
    <3>2. QED
      BY <1>2, <3>1
  <2>6. QED
    BY <2>4, <2>5
<1> HIDE DEF last
<1>4. \A j \in i .. last : pb[j] % 128 \in Nat
  <2>1. SUFFICES ASSUME NEW j \in i .. last PROVE pb[j] % 128 \in Nat
    OBVIOUS
  <2>2. j \in 1 .. Len(pb)
    BY <1>2, <1>3
  <2>3. pb[j] \in Nat
    BY <2>2, ByteDef
  <2>4. QED
    BY <2>3
<1>5. \E f : f = Def(f)
  <2> DEFINE R == i .. last
             Onward == [j \in R |-> j + 1]
             Step == [j \in R |-> [x \in Nat |-> (pb[j] % 128) + 128 * x]]
  <2>1. /\ R \in SUBSET (0 .. last) /\ Onward \in [R -> Nat] /\ \A j \in R : Onward[j] > j
        /\ 0 \in Nat
    BY <1>2, <1>3
  <2>2. Step \in [R -> [Nat -> Nat]]
    BY <1>4
  <2>3. Leads(Nat, 0, R, Onward, Step)
    <3> HIDE DEF R, Onward, Step
    <3>1. QED
      BY <1>3, <2>1, <2>2, ForwardRecursion
  <2>4. PICK f \in [Nat -> Nat] :
          \A j \in Nat : f[j] = IF j \in R THEN Step[j][f[Onward[j]]] ELSE 0
    BY <2>3 DEF Leads
  <2> DEFINE g == [j \in i .. last + 1 |-> f[j]]
  <2>5. ASSUME NEW j \in i .. last + 1 PROVE g[j] = Def(g)[j]
    <3>1. CASE j > last
      <4>1. j \in Nat /\ j \notin R
        BY <1>2, <1>3, <3>1
      <4>2. QED
        BY <2>4, <3>1, <4>1
    <3>2. CASE ~ (j > last)
      <4>1. j \in Nat /\ j \in R /\ j + 1 \in i .. last + 1 /\ j + 1 \in Nat
        BY <1>2, <1>3, <3>2
      <4>2. f[j] = Step[j][f[j + 1]] /\ f[j + 1] \in Nat
        BY <2>4, <4>1
      <4>3. f[j] = (pb[j] % 128) + 128 * f[j + 1]
        BY <4>1, <4>2
      <4>4. g[j] = f[j] /\ g[j + 1] = f[j + 1]
        BY <4>1
      <4> HIDE DEF g
      <4>5. QED
        BY <3>2, <4>3, <4>4
    <3>3. QED
      BY <3>1, <3>2
  <2>6. g = Def(g)
    BY <2>5
  <2>7. QED
    BY <2>6
<1>6. value = Def(value)
  <2> HIDE DEF Def
  <2>1. QED
    BY <1>5
<1> HIDE DEF value
<1> DEFINE Ks == {k \in Nat : k <= last + 1 - i => value[last + 1 - k] \in Nat}
<1>7. 0 \in Ks
  <2>1. last + 1 \in i .. last + 1 /\ last + 1 > last /\ last + 1 - 0 = last + 1
    BY <1>2, <1>3
  <2>2. value[last + 1] = 0
    BY <1>6, <2>1
  <2>3. QED
    BY <2>1, <2>2
<1>8. ASSUME NEW k \in Ks PROVE k + 1 \in Ks
  <2>1. SUFFICES ASSUME k + 1 <= last + 1 - i PROVE value[last + 1 - (k + 1)] \in Nat
    OBVIOUS
  <2> DEFINE j == last + 1 - (k + 1)
  <2>2. /\ j \in i .. last + 1 /\ ~ (j > last) /\ j \in i .. last
        /\ j + 1 = last + 1 - k /\ k <= last + 1 - i
    BY <1>2, <1>3, <2>1
  <2>3. value[j + 1] \in Nat
    BY <2>2
  <2>4. value[j] = (pb[j] % 128) + 128 * value[j + 1]
    BY <1>6, <2>2
  <2>5. pb[j] % 128 \in Nat
    BY <1>4, <2>2
  <2> HIDE DEF j
  <2>6. value[j] \in Nat
    BY <2>3, <2>4, <2>5
  <2>7. QED
    BY <2>6 DEF j
<1>9. last + 1 - i \in Ks
  <2>1. Nat \subseteq Ks
    <3> HIDE DEF Ks
    <3>1. QED
      BY <1>7, <1>8, SetInduction
  <2>2. last + 1 - i \in Nat
    BY <1>2, <1>3
  <2>3. QED
    BY <2>1, <2>2
<1>10. last + 1 - (last + 1 - i) = i /\ last + 1 - i <= last + 1 - i
  BY <1>2, <1>3
<1>11. value[i] \in Nat
  BY <1>9, <1>10
<1>12. QED
  BY <1>1, <1>11

\* The recursion of the library's decoder: what it reads from position i on.
FieldAt(pb, i) ==
  LET v == Varint(pb, i + 1)
  IN [num |-> FieldNum(pb[i]),
      value |-> IF WireType(pb[i]) = 2 THEN SubSeq(pb, v.next, (v.next + v.value) - 1) ELSE v.value]
AfterField(pb, i) ==
  LET v == Varint(pb, i + 1) IN IF WireType(pb[i]) = 2 THEN v.next + v.value ELSE v.next
ReadFrom(pb, f) ==
  [i \in Nat |-> IF i > Len(pb) THEN <<>> ELSE <<FieldAt(pb, i)>> \o f[AfterField(pb, i)]]

\* There is one.
LEMMA ReadFromExists ==
  ASSUME NEW pb \in Seq(Byte)
  PROVE  \E f : f = ReadFrom(pb, f)
<1> DEFINE n == Len(pb)   R == 0 .. n
           Item == [i \in R |-> FieldAt(pb, i)]
           S == Seq({Item[i] : i \in R})
           Onward == [i \in R |-> AfterField(pb, i)]
           Step == [i \in R |-> [t \in S |-> <<Item[i]>> \o t]]
<1>1. n \in Nat /\ R \in SUBSET (0 .. n) /\ <<>> \in S
  OBVIOUS
<1>2. Onward \in [R -> Nat] /\ \A i \in R : Onward[i] > i
  <2>1. SUFFICES ASSUME NEW i \in R PROVE Onward[i] \in Nat /\ Onward[i] > i
    OBVIOUS
  <2> DEFINE next == Varint(pb, i + 1).next   value == Varint(pb, i + 1).value
  <2>2. i + 1 \in 1 .. n + 1 /\ i \in Nat
    BY <1>1
  <2>3. next \in Nat /\ next >= i + 1 /\ value \in Nat
    BY <2>2, VarintMovesOn, VarintIsNumber
  <2>4. Onward[i] = next + value \/ Onward[i] = next
    BY DEF AfterField
  <2> HIDE DEF next, value, Onward
  <2>5. QED
    BY <2>2, <2>3, <2>4
<1>3. Step \in [R -> [S -> S]]
  <2>1. ASSUME NEW i \in R, NEW t \in S PROVE <<Item[i]>> \o t \in S
    <3> HIDE DEF Item
    <3>1. <<Item[i]>> \in S
      OBVIOUS
    <3>2. QED
      BY <3>1
  <2> HIDE DEF S, Item
  <2>2. QED
    BY <2>1
<1>4. PICK f \in [Nat -> S] :
        \A i \in Nat : f[i] = IF i \in R THEN Step[i][f[Onward[i]]] ELSE <<>>
  <2> HIDE DEF n, S, Onward, Step, R
  <2>1. Leads(S, <<>>, R, Onward, Step)
    BY <1>1, <1>2, <1>3, ForwardRecursion
  <2>2. QED
    BY <2>1 DEF Leads
<1>5. ASSUME NEW i \in Nat PROVE f[i] = ReadFrom(pb, f)[i]
  <2>1. CASE i \notin R
    <3>1. i > n
      BY <1>1, <2>1
    <3>2. QED
      BY <1>4, <2>1, <3>1 DEF ReadFrom
  <2>2. CASE i \in R
    <3>1. f[Onward[i]] \in S
      BY <1>2, <1>4, <2>2
    <3>2. f[i] = <<Item[i]>> \o f[Onward[i]]
      <4> HIDE DEF S, Item, Onward
      <4>1. QED
        BY <1>4, <2>2, <3>1
    <3>3. ~ (i > n)
      BY <1>1, <2>2
    <3>4. QED
      BY <2>2, <3>2, <3>3 DEF ReadFrom
  <2>3. QED
    BY <2>1, <2>2
<1>6. f = ReadFrom(pb, f)
  <2>1. f = [i \in Nat |-> f[i]]
    BY <1>4
  <2>2. QED
    BY <1>5, <2>1 DEF ReadFrom
<1>7. QED
  BY <1>6

\* So what the decoder reads follows the recursion.
LEMMA FieldsRead ==
  ASSUME NEW pb \in Seq(Byte)
  PROVE  \E f : f = ReadFrom(pb, f) /\ Fields(pb) = f[1]
<1> DEFINE Def(f) == [i \in Nat |->
                IF i > Len(pb) THEN <<>>
                ELSE LET v == Varint(pb, i + 1)
                         after == IF WireType(pb[i]) = 2 THEN v.next + v.value ELSE v.next
                         value == IF WireType(pb[i]) = 2 THEN SubSeq(pb, v.next, after - 1)
                                  ELSE v.value
                     IN <<[num |-> FieldNum(pb[i]), value |-> value]>> \o f[after]]
           from == CHOOSE f : f = Def(f)
<1>1. Fields(pb) = from[1]
  BY DEF Fields
<1>2. \A f : Def(f) = ReadFrom(pb, f)
  <2>1. SUFFICES ASSUME NEW f PROVE Def(f) = ReadFrom(pb, f)
    OBVIOUS
  <2>2. ASSUME NEW i \in Nat PROVE Def(f)[i] = ReadFrom(pb, f)[i]
    <3>1. CASE WireType(pb[i]) = 2
      <4> DEFINE v == Varint(pb, i + 1)   after == v.next + v.value
                 part == SubSeq(pb, v.next, after - 1)
      <4>1. Def(f)[i] = IF i > Len(pb) THEN <<>>
                        ELSE <<[num |-> FieldNum(pb[i]), value |-> part]>> \o f[after]
        BY <3>1
      <4>2. FieldAt(pb, i) = [num |-> FieldNum(pb[i]), value |-> part]
        BY <3>1 DEF FieldAt
      <4>3. AfterField(pb, i) = after
        BY <3>1 DEF AfterField
      <4>4. ReadFrom(pb, f)[i] =
              IF i > Len(pb) THEN <<>> ELSE <<FieldAt(pb, i)>> \o f[AfterField(pb, i)]
        BY DEF ReadFrom
      <4> HIDE DEF Def, v, part, after
      <4>5. QED
        BY <4>1, <4>2, <4>3, <4>4
    <3>2. CASE WireType(pb[i]) # 2
      BY <3>2 DEF ReadFrom, FieldAt, AfterField
    <3>3. QED
      BY <3>1, <3>2
  <2>3. QED
    BY <2>2 DEF ReadFrom
<1>3. \E f : f = Def(f)
  BY <1>2, ReadFromExists
<1>4. from = Def(from)
  <2> HIDE DEF Def
  <2>1. QED
    BY <1>3
<1> HIDE DEF from, Def
<1>5. QED
  BY <1>1, <1>2, <1>4

\* The answer to a query of the mode.
LEMMA WifiModeParsed ==
  ASSUME NEW n \in {0, 2}
  PROVE  VarintField(Field(1, n), 1) = n
<1> DEFINE pb == Field(1, n)
<1>1. TwoBytes(n) /\ 1 \in 1 .. 31
  BY DEF TwoBytes
<1>2. pb \in Seq(Byte) /\ Here(pb, 1, pb)
  BY <1>1, FieldType, HereItself DEF Within
<1>3. PICK f : f = ReadFrom(pb, f) /\ Fields(pb) = f[1]
  <2> HIDE DEF pb
  <2>1. QED
    BY <1>2, FieldsRead
<1>4. CASE n = 0
  <2>1. pb = <<>>
    BY <1>4 DEF Field
  <2>2. f[1] = <<>>
    <3>1. ReadFrom(pb, f)[1] = <<>>
      BY <2>1 DEF ReadFrom
    <3>2. QED
      BY <1>3, <3>1
  <2>3. FieldOf(<<>>, 1, 0) = 0
    BY DEF FieldOf
  <2>4. QED
    BY <1>3, <1>4, <2>2, <2>3 DEF VarintField
<1>5. CASE n = 2
  <2> DEFINE tag == <<8>>   put == PutVarint(2)
  <2>1. pb = tag \o put
    <3>1. 8 * 1 = 8
      OBVIOUS
    <3>2. QED
      BY <1>5, <3>1 DEF Field
  <2>2. tag \in Seq(Byte) /\ Len(tag) = 1 /\ tag[1] = 8
    BY SmallBytes
  <2>3. put \in Seq(Byte) /\ Len(put) = 1 /\ TwoBytes(2)
    <3>1. put = <<2>>
      BY DEF PutVarint
    <3>2. TwoBytes(2)
      BY DEF TwoBytes
    <3>3. <<2>> \in Seq(Byte) /\ Len(<<2>>) = 1
      BY SmallBytes
    <3> HIDE DEF put
    <3>4. QED
      BY <3>1, <3>2, <3>3
  <2> HIDE DEF pb, tag, put
  <2>4. Here(pb, 1, tag) /\ Here(pb, 1 + 1, put) /\ Len(pb) = 1 + 1
    <3>1. Here(pb, 1, tag \o put)
      BY <1>2, <2>1
    <3>2. Here(pb, 1, tag) /\ Here(pb, 1 + Len(tag), put)
      BY <1>2, <2>2, <2>3, <3>1, HereSplits
    <3>3. Len(tag \o put) = Len(tag) + Len(put)
      BY <2>2, <2>3, Parts
    <3>4. QED
      BY <2>1, <2>2, <2>3, <3>2, <3>3
  <2>5. pb[1] = 8
    <3>1. pb[1 + 1 - 1] = tag[1]
      BY <2>2, <2>4 DEF Here
    <3>2. 1 + 1 - 1 = 1
      OBVIOUS
    <3>3. QED
      BY <2>2, <3>1, <3>2
  <2>6. WireType(pb[1]) # 2 /\ FieldNum(pb[1]) = 1
    BY <2>5 DEF WireType, FieldNum
  <2>7. Varint(pb, 1 + 1) = [value |-> 2, next |-> (1 + 1) + Len(put)]
    BY <1>2, <2>3, <2>4, VarintReads DEF put
  <2>8. Varint(pb, 1 + 1).value = 2 /\ Varint(pb, 1 + 1).next = 3
    BY <2>3, <2>7
  <2>9. f[1] = <<[num |-> 1, value |-> 2]>> \o f[3]
    <3>1. ReadFrom(pb, f)[1] = <<FieldAt(pb, 1)>> \o f[AfterField(pb, 1)]
      BY <2>4 DEF ReadFrom
    <3>2. FieldAt(pb, 1) = [num |-> 1, value |-> 2] /\ AfterField(pb, 1) = 3
      BY <2>6, <2>8 DEF FieldAt, AfterField
    <3>3. QED
      BY <1>3, <3>1, <3>2
  <2>10. f[3] = <<>>
    <3>1. ReadFrom(pb, f)[3] = <<>>
      BY <2>4 DEF ReadFrom
    <3>2. QED
      BY <1>3, <3>1
  <2> DEFINE r == [num |-> 1, value |-> 2]   one == <<r>>
  <2>11. Seen(f[1], {r} \cup {})
    <3>1. r \in Numbered
      BY DEF Numbered
    <3>2. f[1] = one \o <<>> /\ Seen(<<>>, {})
      BY <2>9, <2>10, NothingSeen
    <3> HIDE DEF r
    <3>3. QED
      BY <3>1, <3>2, OneMoreSeen
  <2>12. Says({r} \cup {}, 1, 2)
    BY DEF Says
  <2> HIDE DEF r
  <2>13. FieldOf(f[1], 1, 0) = 2
    BY <2>11, <2>12, FieldSeen
  <2>14. QED
    BY <1>3, <1>5, <2>13 DEF VarintField, pb
<1>6. QED
  BY <1>4, <1>5

\* A byte where it stands.
LEMMA ByteHere ==
  ASSUME NEW pb \in Seq(Byte), NEW i, NEW s \in Seq(Byte), Len(s) = 1, Here(pb, i, s)
  PROVE  pb[i] = s[1]
<1>1. i \in Nat /\ pb[i + 1 - 1] = s[1]
  BY DEF Here
<1>2. i + 1 - 1 = i
  BY <1>1
<1>3. QED
  BY <1>1, <1>2

\* The text of a refusal is found if it is short.  A longer one is not, for the number of
\* the error passes for the tag of a string and the text's own tag for its length
\* (camera_status.go:45-74).
LEMMA ReasonGiven ==
  ASSUME NEW refusal \in Refusals, Len(refusal.text) < 17
  PROVE  LET pb == RefusalPayload(refusal)
         IN (IF Len(pb) > 2 THEN extractProtoString(pb) ELSE <<>>) = refusal.text
<1> DEFINE text == refusal.text   size == Len(text)   pb == RefusalPayload(refusal)
           eight == <<8>>   number == <<18>>   a == Field(1, 18)
           put == PutVarint(size)   tag == <<18>>   head == tag \o put   m == head \o text
<1>1. text \in Seq(Byte) /\ size \in Nat /\ size < 17 /\ Len(text) = size
  BY RefusalAssumption
<1>2. eight \in Seq(Byte) /\ Len(eight) = 1 /\ eight[1] = 8
  BY SmallBytes
<1>3. number \in Seq(Byte) /\ Len(number) = 1 /\ number[1] = 18
  BY SmallBytes
<1>4. tag \in Seq(Byte) /\ Len(tag) = 1 /\ tag[1] = 18
  BY SmallBytes
<1>5. a = eight \o number
  <2>1. 8 * 1 = 8 /\ 18 # 0 /\ 18 < 128
    OBVIOUS
  <2>2. QED
    BY <2>1 DEF Field, PutVarint
<1>6. put \in Seq(Byte) /\ Len(put) = 1 /\ put[1] = size
  <2>1. size \in Byte /\ size < 128
    BY <1>1, ByteDef
  <2>2. put = <<size>>
    BY <2>1 DEF PutVarint
  <2>3. <<size>> \in Seq(Byte) /\ Len(<<size>>) = 1 /\ <<size>>[1] = size
    BY <2>1
  <2> HIDE DEF put
  <2>4. QED
    BY <2>2, <2>3
<1>7. text # <<>> => Text(2, text) = m
  <2>1. 8 * 2 + 2 = 18
    OBVIOUS
  <2>2. QED
    BY <2>1 DEF Text, Message
<1>8. pb = a \o Text(2, text)
  BY DEF RefusalPayload
<1> HIDE DEF text, size, pb, eight, number, a, put, tag
<1>9. a \in Seq(Byte) /\ Len(a) = 2
  BY <1>2, <1>3, <1>5, Parts
<1>10. CASE text = <<>>
  <2>1. Text(2, text) = <<>>
    BY <1>10 DEF Text
  <2>2. Len(pb) = 2
    <3>1. a \o <<>> = a
      BY <1>9
    <3>2. QED
      BY <1>8, <1>9, <2>1, <3>1
  <2>3. QED
    BY <1>10, <2>2 DEF pb, text
<1>11. CASE text # <<>>
  <2>1. head \in Seq(Byte) /\ Len(head) = 2
    BY <1>4, <1>6, Parts
  <2>1a. Here(head, 1, head)
    BY <2>1, HereItself
  <2> HIDE DEF head
  <2>2. m \in Seq(Byte) /\ Len(m) = 2 + size
    <3>1. text \in Seq(Byte) /\ head \in Seq(Byte)
      BY <1>1, <2>1
    <3>2. m \in Seq(Byte) /\ Len(m) = Len(head) + Len(text)
      BY <3>1, Parts
    <3> HIDE DEF m
    <3>3. QED
      BY <1>1, <2>1, <3>2
  <2> HIDE DEF m
  <2>3. pb \in Seq(Byte) /\ Len(pb) = 4 + size
    <3>1. pb = a \o m
      BY <1>7, <1>8, <1>11
    <3>2. a \o m \in Seq(Byte) /\ Len(a \o m) = Len(a) + Len(m)
      BY <1>9, <2>2, Parts
    <3>3. QED
      BY <1>1, <1>9, <2>2, <3>1, <3>2
  <2>4. Here(pb, 1, a) /\ Here(pb, 1 + Len(a), m)
    <3>1. Here(pb, 1, a \o m)
      BY <1>7, <1>8, <1>11, <2>3, HereItself
    <3>2. QED
      BY <1>9, <2>2, <2>3, <3>1, HereSplits
  <2>5. Here(pb, 1, eight) /\ Here(pb, 1 + Len(eight), number)
    <3>1. Here(pb, 1, eight \o number)
      BY <1>5, <2>4
    <3>2. QED
      BY <1>2, <1>3, <2>3, <3>1, HereSplits
  <2>6. Here(pb, 3, head) /\ Here(pb, 3 + Len(head), text)
    <3>1. Here(pb, 3, head \o text)
      <4>1. 1 + Len(a) = 3
        BY <1>9
      <4>2. QED
        BY <2>4, <4>1 DEF m
    <3>2. QED
      BY <1>1, <2>1, <2>3, <3>1, HereSplits
  <2>7. Here(pb, 3, tag) /\ Here(pb, 3 + Len(tag), put)
    <3>1. Here(pb, 3, tag \o put)
      BY <2>6 DEF head
    <3>2. QED
      BY <1>4, <1>6, <2>3, <3>1, HereSplits
  <2>8. 1 + Len(eight) = 2 /\ 3 + Len(tag) = 4 /\ 3 + Len(head) = 5
    BY <1>2, <1>4, <2>1
  <2>9. pb[1] = 8 /\ pb[2] = 18 /\ pb[3] = 18 /\ pb[4] = size
    <3>1. /\ Here(pb, 1, eight) /\ Here(pb, 2, number) /\ Here(pb, 3, tag) /\ Here(pb, 4, put)
      BY <2>5, <2>7, <2>8
    <3>2. QED
      BY <1>2, <1>3, <1>4, <1>6, <2>3, <3>1, ByteHere
  <2>10. SubSeq(pb, 5, 4 + size) = text
    <3>1. SubSeq(pb, 5, 5 + Len(text) - 1) = text
      BY <1>1, <2>3, <2>6, <2>8, HereIsPart
    <3>2. 5 + Len(text) - 1 = 4 + size
      BY <1>1
    <3>3. QED
      BY <3>1, <3>2
  <2> DEFINE tags == {i \in 1 .. Len(pb) - 1 : pb[i] = 18 /\ i + 1 + pb[i + 1] <= Len(pb)}
  <2>11. 3 \in tags /\ \A i \in tags : i >= 3 /\ i \in Nat
    <3>1. 3 \in 1 .. Len(pb) - 1 /\ 3 + 1 + pb[3 + 1] <= Len(pb)
      <4>1. 3 + 1 = 4
        OBVIOUS
      <4>2. QED
        BY <1>1, <2>3, <2>9, <4>1
    <3>2. 1 \notin tags
      BY <2>9
    <3>3. 2 \notin tags
      <4>1. 2 + 1 = 3 /\ ~ (2 + 1 + 18 <= 4 + size)
        BY <1>1
      <4>2. QED
        BY <2>3, <2>9, <4>1
    <3>4. \A i \in tags : i \in Nat /\ i # 0
      OBVIOUS
    <3>5. 3 \in tags
      BY <2>9, <3>1
    <3> HIDE DEF tags
    <3>6. QED
      BY <3>2, <3>3, <3>4, <3>5
  <2>12. extractProtoString(pb) =
           IF tags = {} THEN pb
           ELSE SubSeq(pb, Min(tags) + 2, Min(tags) + 1 + pb[Min(tags) + 1])
    BY DEF extractProtoString
  <2> HIDE DEF tags
  <2>13. tags # {} /\ Min(tags) = 3
    <3>1. tags \in SUBSET Nat /\ tags # {}
      BY <2>11
    <3>2. Min(tags) \in tags /\ Min(tags) <= 3
      BY <2>11, <3>1, MinIsLeast
    <3>3. Min(tags) >= 3 /\ Min(tags) \in Nat
      BY <2>11, <3>2
    <3> DEFINE least == Min(tags)
    <3>4. least <= 3 /\ least >= 3 /\ least \in Nat
      BY <3>2, <3>3
    <3> HIDE DEF least
    <3>5. least = 3
      BY <3>4
    <3>6. QED
      BY <3>1, <3>5 DEF least
  <2>14. extractProtoString(pb) = text
    <3>1. 3 + 2 = 5 /\ 3 + 1 = 4
      OBVIOUS
    <3>2. QED
      BY <2>9, <2>10, <2>12, <2>13, <3>1
  <2>15. Len(pb) > 2
    <3>1. size \in Nat
      BY <1>1
    <3>2. QED
      BY <2>3, <3>1
  <2>16. QED
    BY <2>14, <2>15 DEF pb, text
<1>12. QED
  BY <1>10, <1>11

------------------------------------------------------------------------------
(* What the host reads in an answer.                                        *)

\* In a message of a GO 2 or GO 3.
LEMMA Go2MessageDecodes ==
  ASSUME NEW code \in Nat, Short(code), NEW n \in Byte, NEW payload \in Seq(Byte),
         Short(16 + Len(payload))
  PROVE  LET m == EncodeGo2Message(code, n, payload)
         IN /\ ValidHeader(m)
            /\ DecodeGo2Header(m) = [length |-> Len(payload), code |-> code, seq |-> n]
            /\ Len(m) = 16 + Len(payload) /\ SubSeq(m, 17, 16 + Len(payload)) = payload
<1> DEFINE m == EncodeGo2Message(code, n, payload)   size == Len(payload)
<1>1. /\ m \in Seq(Byte) /\ Len(m) = 16 + size
      /\ SubSeq(m, 17, 16 + size) = payload
      /\ U16(m, 0) = 16 + size /\ m[3] = 0 /\ m[4] = 0 /\ m[5] = 4
      /\ m[8] = Low(code) /\ m[9] = High(code) /\ m[11] = n
  BY Go2MessageBytes
<1>2. size \in Nat /\ 16 + size < 65536
  BY DEF Short
<1> HIDE DEF m, size
<1>3. ValidHeader(m)
  BY <1>1, <1>2 DEF ValidHeader, HeaderSize, headerMode, At
<1>4. U32(m, 0) = [hi |-> 0, lo |-> 16 + size]
  <2>1. U16(m, 0 + 2) = 0
    BY <1>1 DEF U16, At
  <2>2. QED
    BY <1>1, <2>1 DEF U32
<1>5. ~ (16 + size < 16) /\ ((16 + size) - 16) % 65536 = size
  BY <1>2
<1>6. U16(m, 7) = code
  <2>1. Low(code) + 256 * High(code) = code
    BY Halves
  <2>2. QED
    BY <1>1, <2>1 DEF U16, At
<1>7. At(m, 10) = n
  BY <1>1 DEF At
<1>8. DecodeGo2Header(m) = [length |-> size, code |-> code, seq |-> n]
  BY <1>4, <1>5, <1>6, <1>7 DEF DecodeGo2Header, HeaderSize
<1>9. QED
  BY <1>1, <1>3, <1>8 DEF m, size

\* In one of an X3, of which the low byte of the code is there.
LEMMA MessageDecodes ==
  ASSUME NEW code \in Nat, NEW n \in Byte, NEW payload \in Seq(Byte), Short(Len(payload))
  PROVE  LET m == EncodeMessage(code, n, payload)
         IN /\ ValidHeader(m)
            /\ DecodeHeader(m) = [length |-> Len(payload), code |-> Low(code), seq |-> n]
            /\ Len(m) = 16 + Len(payload) /\ SubSeq(m, 17, 16 + Len(payload)) = payload
<1> DEFINE m == EncodeMessage(code, n, payload)   size == Len(payload)
<1>1. /\ m \in Seq(Byte) /\ Len(m) = 16 + size
      /\ SubSeq(m, 17, 16 + size) = payload
      /\ U16(m, 0) = size /\ m[5] = 4 /\ m[8] = Low(code) /\ m[11] = n
  BY MessageBytes
<1>2. size \in Nat
  OBVIOUS
<1> HIDE DEF m, size
<1>3. ValidHeader(m)
  BY <1>1, <1>2 DEF ValidHeader, HeaderSize, headerMode, At
<1>4. DecodeHeader(m) = [length |-> size, code |-> Low(code), seq |-> n]
  BY <1>1 DEF DecodeHeader, At
<1>5. QED
  BY <1>1, <1>3, <1>4 DEF m, size

\* The front part of a message that has its header reads like it, but is found short.
LEMMA FrontDecodes ==
  ASSUME NEW m \in Seq(Byte), NEW k \in 0 .. Len(m) - 1, ValidHeader(SubSeq(m, 1, k))
  PROVE  LET q == SubSeq(m, 1, k)
         IN /\ k >= 16 /\ ValidHeader(m) /\ DecodeHeader(q) = DecodeHeader(m)
            /\ Len(m) = 16 + DecodeHeader(m).length => ~ ValidMessage(q, DecodeHeader(q))
<1> DEFINE q == SubSeq(m, 1, k)
<1>1. Len(m) \in Nat /\ k \in Nat /\ k < Len(m)
  OBVIOUS
<1>2. Len(q) = k /\ \A j \in 1 .. k : q[j] = m[j]
  BY <1>1
<1>2a. ValidHeader(q)
  OBVIOUS
<1> HIDE DEF q
<1>3. k >= 16 /\ q[5] = 4
  BY <1>2, <1>2a DEF ValidHeader, HeaderSize, headerMode, At
<1>4. q[1] = m[1] /\ q[2] = m[2] /\ q[5] = m[5] /\ q[8] = m[8] /\ q[11] = m[11]
  BY <1>1, <1>2, <1>3
<1>5. ValidHeader(m)
  BY <1>1, <1>3, <1>4 DEF ValidHeader, HeaderSize, headerMode, At
<1>6. DecodeHeader(q) = DecodeHeader(m)
  BY <1>4 DEF DecodeHeader, U16, At
<1>7. ASSUME Len(m) = 16 + DecodeHeader(m).length PROVE ~ ValidMessage(q, DecodeHeader(q))
  <2>1. ~ (Len(q) >= 16 + DecodeHeader(q).length)
    BY <1>1, <1>2, <1>6, <1>7
  <2>2. QED
    BY <2>1 DEF ValidMessage, HeaderSize
<1>8. QED
  BY <1>3, <1>5, <1>6, <1>7 DEF q

------------------------------------------------------------------------------
(* What a method makes of an answer.                                        *)

\* The operations of a format that read a battery or a storage read it in that format.
LEMMA OperationReads ==
  ASSUME NEW op \in Operations, format \in {"go2", "header16"}
  PROVE  /\ op.reads \in {"nothing", "silent", "whole", "status", "bytes", "info", "wifi mode",
                          "battery", "storage"}
         /\ op.reads = "storage" => format # "go2"
<1>1. CASE op \in Asked
  <2>1. op.reads \in {"nothing", "silent", "whole", "status", "bytes", "info", "wifi mode"}
    BY <1>1, ReadsAssumption
  <2>2. QED
    BY <2>1
<1>2. CASE op = GetBatteryInfo(format)
  <2>1. op.reads = "battery"
    BY <1>2 DEF GetBatteryInfo, Query, Operation
  <2>2. QED
    BY <2>1
<1>3. CASE format = "header16" /\ op = GetStorageInfo
  <2>1. op.reads = "storage" /\ format # "go2"
    BY <1>3 DEF GetStorageInfo, Query, Operation
  <2>2. QED
    BY <2>1
<1>4. QED
  BY <1>1, <1>2, <1>3 DEF Operations

\* What a method reads in the camera's payload is what the camera put into it
\* (camera_status.go:76-335, wifi_config.go:95-163).
THEOREM RepliesAreParsed ==
  ASSUME NEW op \in Operations, format \in Formats, NEW reply \in Replies(op),
         op.reads \in {"battery", "storage", "info", "wifi mode", "bytes"}
  PROVE  Parse(op, format, reply.payload) = reply.value
<1>1. format \in {"go2", "header16"} /\ (format = "go2" => "go2" \in Formats)
  BY WireAssumption
<1>2. CASE op.reads = "battery"
  <2>1. PICK b \in Batteries : reply = [value |-> Sayable(b), payload |-> BatteryPayload(b)]
    BY <1>2 DEF Replies
  <2>2. CASE format = "go2"
    <3>1. Parse(op, format, reply.payload) = ParseGo3Battery(BatteryPayload(b))
      BY <1>2, <2>1, <2>2 DEF Parse
    <3>2. ParseGo3Battery(BatteryPayload(b)) = [b EXCEPT !.voltage = 0]
      BY <2>2, Go3BatteryParsed DEF BatteryPayload
    <3>3. QED
      BY <2>1, <2>2, <3>1, <3>2 DEF Sayable
  <2>3. CASE format # "go2"
    <3>1. Parse(op, format, reply.payload) = ParseBattery16(BatteryPayload(b))
      BY <1>2, <2>1, <2>3 DEF Parse
    <3>2. ParseBattery16(BatteryPayload(b)) = [b EXCEPT !.charging = FALSE]
      BY <2>3, Battery16Parsed DEF BatteryPayload
    <3>3. QED
      BY <2>1, <2>3, <3>1, <3>2 DEF Sayable
  <2>4. QED
    BY <2>2, <2>3
<1>3. CASE op.reads = "storage"
  <2>1. PICK s \in Stores : reply = [value |-> s, payload |-> StoragePayload(s)]
    BY <1>3 DEF Replies
  <2>2. format # "go2"
    BY <1>1, <1>3, OperationReads
  <2>3. Parse(op, format, reply.payload) = ParseStorage16(StoragePayload(s))
    BY <1>3, <2>1 DEF Parse
  <2>4. QED
    BY <2>1, <2>2, <2>3, Storage16Parsed
<1>4. CASE op.reads = "info"
  <2>1. PICK i \in Infos : reply = [value |-> i, payload |-> InfoPayload(i)]
    BY <1>4 DEF Replies
  <2>2. Parse(op, format, reply.payload) = ParseInfo(InfoPayload(i))
    BY <1>4, <2>1 DEF Parse
  <2>3. QED
    BY <2>1, <2>2, InfoParsed
<1>5. CASE op.reads = "wifi mode"
  <2>1. PICK n \in {0, 2} : reply = [value |-> n, payload |-> Field(1, n)]
    BY <1>5 DEF Replies
  <2>2. Parse(op, format, reply.payload) = VarintField(Field(1, n), 1)
    BY <1>5, <2>1 DEF Parse
  <2>3. QED
    BY <2>1, <2>2, WifiModeParsed
<1>6. CASE op.reads = "bytes"
  <2>1. Replies(op) = {[value |-> <<10, 0>>, payload |-> <<10, 0>>]}
    BY <1>6 DEF Replies
  <2>2. Parse(op, format, reply.payload) = reply.payload
    BY <1>6 DEF Parse
  <2>3. reply = [value |-> <<10, 0>>, payload |-> <<10, 0>>]
    BY <2>1
  <2>4. reply.value = reply.payload
    BY <2>3
  <2>5. QED
    BY <2>2, <2>4
<1>7. QED
  BY <1>2, <1>3, <1>4, <1>5, <1>6

\* What else there is to say has no value, or is what it says.
LEMMA PlainReplies ==
  ASSUME NEW op, NEW reply \in Replies(op)
  PROVE  /\ op.reads = "status" => reply.value = None
         /\ op.reads = "whole" => reply.value = reply.payload
<1>1. ASSUME op.reads = "status" PROVE reply.value = None
  <2>1. Replies(op) = {[value |-> None, payload |-> <<>>]}
    BY <1>1 DEF Replies
  <2>2. QED
    BY <2>1
<1>2. ASSUME op.reads = "whole" PROVE reply.value = reply.payload
  <2>1. Replies(op) = {[value |-> <<10, 0>>, payload |-> <<10, 0>>]}
    BY <1>2 DEF Replies
  <2>2. QED
    BY <2>1
<1>3. QED
  BY <1>1, <1>2

\* The values are of the kinds there are.
LEMMA ValuesType ==
  ASSUME NEW op, NEW reply \in Replies(op)
  PROVE  reply.value \in Values
<1>1. CASE op.reads = "battery"
  <2>1. PICK b \in Batteries : reply.value = Sayable(b)
    BY <1>1 DEF Replies
  <2>2. b \in BatteryStates
    BY BatteryAssumption
  <2>3. Sayable(b) \in BatteryStates
    BY <2>2 DEF Sayable, BatteryStates
  <2>4. QED
    BY <2>1, <2>3 DEF Values
<1>2. CASE op.reads = "storage"
  <2>1. PICK s \in Stores : reply.value = s
    BY <1>2 DEF Replies
  <2>2. QED
    BY <2>1, StoreAssumption DEF Values
<1>3. CASE op.reads = "info"
  <2>1. PICK i \in Infos : reply.value = i
    BY <1>3 DEF Replies
  <2>2. QED
    BY <2>1, InfoAssumption DEF Values
<1>4. CASE op.reads = "wifi mode"
  <2>1. PICK n \in {0, 2} : reply = [value |-> n, payload |-> Field(1, n)]
    BY <1>4 DEF Replies
  <2>2. reply.value \in Nat
    BY <2>1
  <2>3. QED
    BY <2>2 DEF Values
<1>5. CASE op.reads \in {"bytes", "whole"}
  <2>1. Replies(op) = {[value |-> <<10, 0>>, payload |-> <<10, 0>>]}
    BY <1>5 DEF Replies
  <2>2. <<10, 0>> \in Seq(Byte)
    BY SmallBytes
  <2>3. reply.value = <<10, 0>>
    BY <2>1
  <2>4. QED
    BY <2>2, <2>3 DEF Values
<1>6. CASE op.reads \notin {"battery", "storage", "info", "wifi mode", "bytes", "whole"}
  <2>1. Replies(op) = {[value |-> None, payload |-> <<>>]}
    BY <1>6 DEF Replies
  <2>2. reply.value = None
    BY <2>1
  <2>3. QED
    BY <2>2 DEF Values
<1>7. QED
  BY <1>1, <1>2, <1>3, <1>4, <1>5, <1>6

------------------------------------------------------------------------------
(* What comes back is the camera's answer to the call, and its pushes.      *)

\* The camera's answer to an operation has this payload.
Carries(op, payload) ==
  \/ \E reply \in Replies(op) :
       /\ payload = reply.payload
       /\ answered = [code |-> 200, value |-> reply.value, text |-> <<>>]
  \/ /\ format = "go2"
     /\ \E refusal \in Refusals :
          /\ payload = RefusalPayload(refusal)
          /\ answered = [code |-> refusal.code, value |-> None, text |-> refusal.text]

\* A packet as the camera sent it, with the storage state it carries.
AnswerSent(p) ==
  /\ call # None
  /\ \E payload : Carries(call.op, payload) /\ p = CameraPacket(answered.code, call.seq, payload)
PushSent(p, s) == s \in Stores /\ p = CameraPacket(StorageState, 255, StoragePayload(s))
SentAs(p, state) ==
  \/ state = None /\ AnswerSent(p)
  \/ PushSent(p, state)
  \/ state = None /\ format = "go2" /\ SyncPacket(p)

\* What is on its way is such a packet, or what the radio made of it.
Transit(p, packet) ==
  /\ SentAs(p, packet.state)
  /\ packet.damage = "none" => packet.bytes = p
  /\ packet.damage = "cut" => Proper(p, packet.bytes)
InboundInv == inbound # None => \E p : Transit(p, inbound)

\* The message in a call's channel is the answer to that call, or of a format without a
\* check its front part.
MessageFor(code, n, payload) ==
  IF format = "go2" THEN EncodeGo2Message(code, n, payload) ELSE EncodeMessage(code, n, payload)
Answer(payload) == MessageFor(answered.code, call.seq, payload)
Holds(a) ==
  \/ spoilt = "none" /\ respCh = a
  \/ spoilt = "cut" /\ format # "go2" /\ ValidHeader(respCh) /\ Proper(a, respCh)
RespInv ==
  respCh # None /\ spoilt # "flipped" =>
    call # None /\ \E payload : Carries(call.op, payload) /\ Holds(Answer(payload))

\* A call is of an operation of its format, and open as long as it has no result.
CallInv == call # None => call.op \in Operations /\ (call.open => result = None)

\* A method that looks for an answer returns with one, or after its time.
Tells(op) == op.reads \notin {"nothing", "silent"}
AnswerTold ==
  result # None /\ call # None /\ spoilt # "flipped" /\ Tells(call.op) =>
    result.error \in {"timeout", "not written"} \/ answered # None

AnswerInv ==
  /\ InboundInv /\ RespInv /\ CallInv /\ AnswerTold
  /\ StorageAsTold /\ AsAnswered

\* An answer is one of those there are, with a payload that fits.
LEMMA CarriesType ==
  ASSUME format \in Formats, NEW op, NEW payload, Carries(op, payload)
  PROVE  /\ answered \in Answers /\ answered # None
         /\ answered.code \in {200, 400, 500, 501}
         /\ Within(payload, 490)
<1>1. ASSUME NEW reply \in Replies(op), payload = reply.payload,
             answered = [code |-> 200, value |-> reply.value, text |-> <<>>]
      PROVE  answered \in Answers /\ Within(payload, 490)
  <2>1. Within(reply.payload, 490)
    BY RepliesType, WithinMore
  <2>2. reply.value \in Values
    BY ValuesType
  <2>3. answered \in Answers
    BY <1>1, <2>2 DEF Answers
  <2>4. QED
    BY <1>1, <2>1, <2>3
<1>2. ASSUME NEW refusal \in Refusals, payload = RefusalPayload(refusal),
             answered = [code |-> refusal.code, value |-> None, text |-> refusal.text]
      PROVE  answered \in Answers /\ Within(payload, 490)
  <2>1. refusal.code \in {400, 500, 501} /\ refusal.text \in Seq(Byte)
    BY RefusalAssumption
  <2>2. None \in Values
    BY DEF Values
  <2>3. answered \in Answers
    BY <1>2, <2>1, <2>2 DEF Answers
  <2>4. QED
    BY <1>2, <2>3, RefusalType
<1>3. answered \in Answers /\ Within(payload, 490)
  BY <1>1, <1>2 DEF Carries
<1>4. answered # None
  BY <1>3, NoneAssumption
<1>5. answered.code \in {200, 400, 500, 501}
  BY <1>3 DEF Answers
<1>6. QED
  BY <1>3, <1>4, <1>5

\* What the camera may say depends on its format alone.
LEMMA RepliesStay ==
  ASSUME format' = format, NEW op, NEW reply \in Replies(op)
  PROVE  reply \in Replies(op)'
<1>1. CASE op.reads = "battery"
  <2>1. PICK b \in Batteries : reply = [value |-> Sayable(b), payload |-> BatteryPayload(b)]
    BY <1>1 DEF Replies
  <2>2. Sayable(b)' = Sayable(b) /\ BatteryPayload(b)' = BatteryPayload(b)
    BY DEF Sayable, BatteryPayload
  <2>3. reply = [value |-> Sayable(b)', payload |-> BatteryPayload(b)']
    BY <2>1, <2>2
  <2>4. QED
    BY <1>1, <2>3 DEF Replies
<1>2. CASE op.reads = "storage"
  <2>1. PICK s \in Stores : reply = [value |-> s, payload |-> StoragePayload(s)]
    BY <1>2 DEF Replies
  <2>2. StoragePayload(s)' = StoragePayload(s)
    BY DEF StoragePayload
  <2>3. reply = [value |-> s, payload |-> StoragePayload(s)']
    BY <2>1, <2>2
  <2>4. QED
    BY <1>2, <2>3 DEF Replies
<1>3. CASE op.reads \notin {"battery", "storage"}
  BY <1>3 DEF Replies
<1>4. QED
  BY <1>1, <1>2, <1>3

\* An answer once given stays the call's.
LEMMA CarriesStays ==
  ASSUME TypeOK, Lasting, call # None, NEW payload, Carries(call.op, payload)
  PROVE  /\ Carries(call.op, payload)'
         /\ UNCHANGED <<format, answered>>
         /\ Answer(payload)' = Answer(payload)
<1>1. answered # None
  BY CarriesType DEF TypeOK
<1>2. UNCHANGED <<format, answered>> /\ call'.op = call.op /\ call'.seq = call.seq
  BY <1>1 DEF Lasting
<1>3. ASSUME NEW reply \in Replies(call.op) PROVE reply \in Replies(call.op)'
  <2>1. \A op : \A r \in Replies(op) : r \in Replies(op)'
    BY <1>2, RepliesStay
  <2>2. QED
    BY <1>2, <2>1
<1>4. Carries(call.op, payload)'
  BY <1>2, <1>3 DEF Carries
<1>5. Answer(payload)' = Answer(payload)
  BY <1>2 DEF Answer, MessageFor
<1>6. QED
  BY <1>2, <1>4, <1>5

\* What was sent stays what was sent.
LEMMA SentStays ==
  ASSUME TypeOK, Lasting, NEW p, NEW state, SentAs(p, state)
  PROVE  SentAs(p, state)'
<1>1. format' = format
  BY DEF Lasting
<1>2. ASSUME AnswerSent(p) PROVE AnswerSent(p)'
  <2>1. PICK payload : Carries(call.op, payload)
                       /\ p = CameraPacket(answered.code, call.seq, payload)
    BY <1>2 DEF AnswerSent
  <2>2. call # None /\ call' # None /\ call'.seq = call.seq
    BY <1>2 DEF AnswerSent, Lasting
  <2>3. Carries(call.op, payload)' /\ answered' = answered
    BY <2>1, <2>2, CarriesStays
  <2>4. CameraPacket(answered.code, call.seq, payload)'
          = CameraPacket(answered.code, call.seq, payload)
    BY <1>1, <2>2, <2>3 DEF CameraPacket
  <2>5. QED
    BY <2>1, <2>2, <2>3, <2>4 DEF AnswerSent
<1>3. ASSUME PushSent(p, state) PROVE PushSent(p, state)'
  <2>1. CameraPacket(StorageState, 255, StoragePayload(state))'
          = CameraPacket(StorageState, 255, StoragePayload(state))
    BY <1>1 DEF CameraPacket, StoragePayload
  <2>2. QED
    BY <1>3, <2>1 DEF PushSent
<1>4. QED
  BY <1>1, <1>2, <1>3 DEF SentAs

\* What is on its way is a packet the camera sent, or what the radio made of one.
LEMMA InboundStep ==
  ASSUME IInv, InboundInv, [Next]_vars
  PROVE  InboundInv'
<1> USE DEF hostVars, cameraVars
<1>0. TypeOK /\ Lasting
  BY LastingStep DEF IInv
<1>1. ASSUME UNCHANGED inbound PROVE InboundInv'
  <2> SUFFICES ASSUME inbound # None PROVE \E p : Transit(p, inbound)'
    BY <1>1 DEF InboundInv
  <2>1. PICK p : Transit(p, inbound)
    BY DEF InboundInv
  <2>2. SentAs(p, inbound.state)'
    BY <1>0, <1>1, <2>1, SentStays DEF Transit
  <2>3. QED
    BY <1>1, <2>1, <2>2 DEF Transit
<1>2. ASSUME NEW p, NEW state, CameraSends(p, state), SentAs(p, state)' PROVE InboundInv'
  <2>1. inbound' = [bytes |-> p, damage |-> "none", state |-> state]
    BY <1>2 DEF CameraSends
  <2>2. inbound'.bytes = p /\ inbound'.damage = "none" /\ inbound'.state = state
    BY <2>1
  <2>3. Transit(p, inbound)'
    BY <1>2, <2>2 DEF Transit
  <2>4. QED
    BY <2>3 DEF InboundInv
<1>3. ASSUME call # None, NEW reply \in Replies(call.op), CameraAnswers(reply) PROVE InboundInv'
  <2>1. PICK p : p = CameraPacket(200, call.seq, reply.payload)
    OBVIOUS
  <2>2. /\ answered' = [code |-> 200, value |-> reply.value, text |-> <<>>]
        /\ call' = call /\ format' = format /\ CameraSends(p, None)
    BY <1>3, <2>1 DEF CameraAnswers
  <2>3. reply \in Replies(call.op)'
    <3>1. \A op : \A r \in Replies(op) : r \in Replies(op)'
      BY <2>2, RepliesStay
    <3>2. QED
      BY <1>3, <2>2, <3>1
  <2>4. Carries(call.op, reply.payload)'
    BY <2>2, <2>3 DEF Carries
  <2>5. p = CameraPacket(answered.code, call.seq, reply.payload)'
    BY <2>1, <2>2 DEF CameraPacket
  <2>6. SentAs(p, None)'
    BY <1>3, <2>2, <2>4, <2>5 DEF AnswerSent, SentAs
  <2>7. QED
    BY <1>2, <2>2, <2>6
<1>4. ASSUME NEW refusal \in Refusals, CameraRefuses(refusal) PROVE InboundInv'
  <2>0. call # None
    BY <1>4, Answerable DEF CameraRefuses
  <2>1. PICK p : p = CameraPacket(refusal.code, call.seq, RefusalPayload(refusal))
    OBVIOUS
  <2>2. /\ answered' = [code |-> refusal.code, value |-> None, text |-> refusal.text]
        /\ format = "go2" /\ call' = call /\ format' = format /\ CameraSends(p, None)
    BY <1>4, <2>1 DEF CameraRefuses, RefusalPayload
  <2>3. Carries(call.op, RefusalPayload(refusal))'
    BY <2>2 DEF Carries
  <2>4. p = CameraPacket(answered.code, call.seq, RefusalPayload(refusal))'
    BY <2>1, <2>2 DEF CameraPacket
  <2>5. SentAs(p, None)'
    BY <2>0, <2>2, <2>3, <2>4 DEF AnswerSent, SentAs
  <2>6. QED
    BY <1>2, <2>2, <2>5
<1>5. ASSUME NEW s \in Stores, CameraPushes(s) PROVE InboundInv'
  <2>1. PICK p : p = CameraPacket(StorageState, 255, StoragePayload(s))
    OBVIOUS
  <2>2. format' = format /\ CameraSends(p, s)
    BY <1>5, <2>1 DEF CameraPushes
  <2>3. p = CameraPacket(StorageState, 255, StoragePayload(s))'
    BY <2>1, <2>2 DEF CameraPacket, StoragePayload
  <2>4. SentAs(p, s)'
    BY <1>5, <2>3 DEF PushSent, SentAs
  <2>5. QED
    BY <1>2, <2>2, <2>4
<1>6. ASSUME CameraSyncs PROVE InboundInv'
  <2>1. PICK p : p = EncodeGo2BlePacket(6, 65, <<171, 186, 171>>)
    OBVIOUS
  <2>2. format' = "go2" /\ CameraSends(p, None)
    BY <1>6, <2>1 DEF CameraSyncs, Go2BLETypeResponse, Go2BLESubtypeSync
  <2>3. SentAs(p, None)'
    BY <2>1, <2>2 DEF SentAs, SyncPacket
  <2>4. QED
    BY <1>2, <2>2, <2>3
<1>7. ASSUME inbound # None, NEW i \in DOMAIN inbound.bytes, NEW bit \in Flippable,
             RadioFlips(i, bit)
      PROVE  InboundInv'
  <2>1. PICK p : Transit(p, inbound)
    BY <1>7 DEF InboundInv
  <2>2. inbound'.damage = "flipped" /\ inbound'.state = inbound.state
    BY <1>0, <1>7 DEF RadioFlips, TypeOK, Packet
  <2>3. SentAs(p, inbound.state)'
    BY <1>0, <2>1, <2>2, SentStays DEF Transit
  <2>4. QED
    BY <2>2, <2>3 DEF Transit, InboundInv
<1>8. ASSUME inbound # None, NEW n \in 0 .. Len(inbound.bytes) - 1, RadioCuts(n)
      PROVE  InboundInv'
  <2>1. PICK p : Transit(p, inbound)
    BY <1>8 DEF InboundInv
  <2>2. /\ inbound'.damage = "cut" /\ inbound'.state = inbound.state
        /\ inbound'.bytes = SubSeq(inbound.bytes, 1, n)
    BY <1>0, <1>8 DEF RadioCuts, TypeOK, Packet
  <2>3. inbound.bytes = p
    BY <1>8, <2>1 DEF RadioCuts, Transit
  <2>4. Proper(p, inbound'.bytes)
    BY <1>8, <2>2, <2>3 DEF Proper
  <2>5. SentAs(p, inbound.state)'
    BY <1>0, <2>1, <2>2, SentStays DEF Transit
  <2>6. QED
    BY <2>2, <2>4, <2>5 DEF Transit, InboundInv
<1>9. ASSUME Handle PROVE InboundInv'
  BY <1>9 DEF Handle, InboundInv
<1>10. QED
  BY <1>1, <1>3, <1>4, <1>5, <1>6, <1>7, <1>8, <1>9
     DEF Next, Host, Camera, Radio, SendCommand, WriteRefused, Decline, Receive, Timeout, Return,
         ReadCache, CameraHears, vars

\* A handler lets a message into an empty channel alone, and one with the number of the
\* open call.
MessageOn(b) == IF format = "go2" /\ ValidEnvelope(b) THEN InnerData(b) ELSE b
LetsIn(m) ==
  /\ respCh = None /\ respCh' = m /\ spoilt' = inbound.damage
  /\ call # None /\ call.open
  /\ ValidHeader(m)
  /\ call.seq = HeaderOf(m).seq
LEMMA HandleTakes ==
  ASSUME Handle
  PROVE  \/ UNCHANGED <<respCh, spoilt>>
         \/ /\ LetsIn(MessageOn(inbound.bytes))
            /\ format = "go2" /\ ValidEnvelope(inbound.bytes) =>
                 Subtype(inbound.bytes) # Go2BLESubtypeSync
<1> DEFINE b == inbound.bytes
<1>1. ASSUME NEW m, HandleInner(m), format = "go2"
      PROVE  UNCHANGED <<respCh, spoilt>> \/ LetsIn(m)
  BY <1>1 DEF HandleInner, Route, Awaited, LetsIn, HeaderOf
<1>2. CASE format = "go2"
  <2>1. CASE ValidEnvelope(b) /\ Subtype(b) = Go2BLESubtypeSync
    BY <1>2, <2>1 DEF Handle, HandleGo2
  <2>2. CASE ~ (ValidEnvelope(b) /\ Subtype(b) = Go2BLESubtypeSync)
    <3>1. HandleInner(IF ValidEnvelope(b) THEN InnerData(b) ELSE b)
      BY <1>2, <2>2 DEF Handle, HandleGo2
    <3>2. HandleInner(MessageOn(b))
      BY <1>2, <3>1 DEF MessageOn
    <3>3. QED
      BY <1>1, <1>2, <2>2, <3>2
  <2>3. QED
    BY <2>1, <2>2
<1>3. CASE format # "go2"
  BY <1>3 DEF Handle, HandleHeader16, Route, Awaited, LetsIn, HeaderOf, MessageOn
<1>4. QED
  BY <1>2, <1>3

\* What the host reads in a message.
LEMMA MessageForReads ==
  ASSUME format \in Formats, NEW code \in Nat, Short(code), NEW n \in Byte,
         NEW payload, Within(payload, 490)
  PROVE  LET m == MessageFor(code, n, payload)
             h == HeaderOf(m)
         IN /\ m \in Seq(Byte) /\ Len(m) \in Nat /\ h.length \in Nat
            /\ ValidMessage(m, h) /\ MessagePayload(m, h) = payload
            /\ h.seq = n /\ Len(m) = 16 + h.length
            /\ format = "go2" => h.code = code
<1> DEFINE m == MessageFor(code, n, payload)   h == HeaderOf(m)
<1>1. payload \in Seq(Byte) /\ Len(payload) \in Nat /\ Len(payload) <= 490
  BY DEF Within
<1>2. Short(16 + Len(payload)) /\ Short(Len(payload))
  BY <1>1 DEF Short
<1>3. CASE format = "go2"
  <2>1. m = EncodeGo2Message(code, n, payload) /\ h = DecodeGo2Header(m)
    BY <1>3 DEF MessageFor, HeaderOf
  <2>2. /\ ValidHeader(m)
        /\ h = [length |-> Len(payload), code |-> code, seq |-> n]
        /\ Len(m) = 16 + Len(payload) /\ SubSeq(m, 17, 16 + Len(payload)) = payload
    BY <1>1, <1>2, <2>1, Go2MessageDecodes
  <2>3. m \in Seq(Byte)
    BY <1>1, <1>2, <2>1, Go2MessageBytes
  <2> HIDE DEF m, h
  <2>4. h.length = Len(payload) /\ h.code = code /\ h.seq = n
    BY <2>2
  <2>5. ValidMessage(m, h) /\ MessagePayload(m, h) = payload
    BY <1>1, <2>2, <2>4 DEF ValidMessage, MessagePayload, HeaderSize
  <2>6. QED
    BY <1>1, <2>2, <2>3, <2>4, <2>5 DEF m, h
<1>4. CASE format # "go2"
  <2>1. m = EncodeMessage(code, n, payload) /\ h = DecodeHeader(m)
    BY <1>4 DEF MessageFor, HeaderOf
  <2>2. /\ ValidHeader(m)
        /\ h = [length |-> Len(payload), code |-> Low(code), seq |-> n]
        /\ Len(m) = 16 + Len(payload) /\ SubSeq(m, 17, 16 + Len(payload)) = payload
    BY <1>1, <1>2, <2>1, MessageDecodes
  <2>3. m \in Seq(Byte)
    BY <1>1, <1>2, <2>1, MessageBytes
  <2> HIDE DEF m, h
  <2>4. h.length = Len(payload) /\ h.seq = n
    BY <2>2
  <2>5. ValidMessage(m, h) /\ MessagePayload(m, h) = payload
    BY <1>1, <2>2, <2>4 DEF ValidMessage, MessagePayload, HeaderSize
  <2>6. QED
    BY <1>1, <1>4, <2>2, <2>3, <2>4, <2>5 DEF m, h
<1>5. QED
  BY <1>3, <1>4

\* The same of a packet of it.
LEMMA PacketHolds ==
  ASSUME format \in Formats, NEW code \in Nat, Short(code), NEW n \in Byte,
         NEW payload, Within(payload, 490)
  PROVE  LET p == CameraPacket(code, n, payload)
         IN /\ MessageOn(p) = MessageFor(code, n, payload)
            /\ format = "go2" => ValidEnvelope(p) /\ Subtype(p) = Go2BLESubtypeMessage
            /\ format # "go2" => p = MessageFor(code, n, payload)
<1> DEFINE p == CameraPacket(code, n, payload)   m == MessageFor(code, n, payload)
<1>1. CASE format = "go2"
  <2>1. p = EncodeGo2BlePacket(6, 64, m)
    BY <1>1 DEF CameraPacket, MessageFor, Go2BLETypeResponse, Go2BLESubtypeMessage
  <2>2. m \in Seq(Byte) /\ Short(Len(m))
    <3>1. payload \in Seq(Byte) /\ Len(payload) \in Nat /\ Len(payload) <= 490
      BY DEF Within
    <3>2. Short(16 + Len(payload))
      BY <3>1 DEF Short
    <3>3. m \in Seq(Byte) /\ Len(m) = 16 + Len(payload)
      BY <1>1, <3>1, <3>2, Go2MessageBytes DEF MessageFor
    <3>4. QED
      BY <3>2, <3>3
  <2> HIDE DEF m
  <2>3. ValidEnvelope(p) /\ Subtype(p) = 64 /\ InnerData(p) = m
    <3>1. 6 \in Byte /\ 64 \in Byte
      BY SmallBytes
    <3>2. QED
      BY <2>1, <2>2, <3>1, Envelope
  <2>4. MessageOn(p) = m
    BY <1>1, <2>3 DEF MessageOn
  <2>5. QED
    BY <1>1, <2>3, <2>4 DEF Go2BLESubtypeMessage, m
<1>2. CASE format # "go2"
  BY <1>2 DEF CameraPacket, MessageFor, MessageOn
<1>3. QED
  BY <1>1, <1>2

\* An answer is of the call that is under way.
LEMMA AnswerReads ==
  ASSUME TypeOK, call # None, NEW payload, Carries(call.op, payload)
  PROVE  LET m == Answer(payload)
             h == HeaderOf(m)
             p == CameraPacket(answered.code, call.seq, payload)
         IN /\ m \in Seq(Byte) /\ Len(m) \in Nat /\ h.length \in Nat
            /\ ValidMessage(m, h) /\ MessagePayload(m, h) = payload
            /\ h.seq = call.seq /\ Len(m) = 16 + h.length
            /\ format = "go2" => h.code = answered.code
            /\ MessageOn(p) = m
            /\ format = "go2" => ValidEnvelope(p) /\ Subtype(p) = Go2BLESubtypeMessage
            /\ format # "go2" => p = m
<1>1. format \in Formats
  BY DEF TypeOK
<1>2. answered.code \in {200, 400, 500, 501} /\ Within(payload, 490)
  BY <1>1, CarriesType
<1>3. answered.code \in Nat /\ Short(answered.code)
  BY <1>2 DEF Short
<1>4. call.seq \in Byte
  BY CallType
<1>5. Answer(payload) = MessageFor(answered.code, call.seq, payload)
  BY DEF Answer, MessageFor
<1>6. QED
  BY <1>1, <1>2, <1>3, <1>4, <1>5, MessageForReads, PacketHolds

\* A push is of no call.
LEMMA PushReads ==
  ASSUME TypeOK, NEW s, NEW p, PushSent(p, s)
  PROVE  LET m == MessageOn(p)
             h == HeaderOf(m)
         IN /\ m \in Seq(Byte) /\ Len(m) \in Nat /\ h.length \in Nat
            /\ ValidMessage(m, h) /\ MessagePayload(m, h) = StoragePayload(s)
            /\ h.seq = 255 /\ Len(m) = 16 + h.length
            /\ format = "go2" => h.code = StorageState
            /\ format = "go2" => ValidEnvelope(p) /\ Subtype(p) = Go2BLESubtypeMessage
            /\ format # "go2" => p = m
            /\ 255 \notin Numbers
<1>1. format \in Formats /\ s \in Stores /\ p = CameraPacket(StorageState, 255, StoragePayload(s))
  BY DEF TypeOK, PushSent
<1>2. StorageState \in Nat /\ Short(StorageState) /\ 255 \in Byte
  BY ByteDef DEF StorageState, Short
<1>3. Within(StoragePayload(s), 490)
  BY <1>1, StorageType, WithinMore
<1>4. 255 \notin Numbers
  BY WireAssumption
<1> DEFINE payload == StoragePayload(s)
<1>5. Within(payload, 490) /\ p = CameraPacket(StorageState, 255, payload)
  BY <1>1, <1>3
<1> HIDE DEF payload
<1>6. MessageOn(p) = MessageFor(StorageState, 255, payload)
  BY <1>1, <1>2, <1>5, PacketHolds
<1>7. /\ format = "go2" => ValidEnvelope(p) /\ Subtype(p) = Go2BLESubtypeMessage
      /\ format # "go2" => p = MessageOn(p)
  BY <1>1, <1>2, <1>5, PacketHolds
<1>8. QED
  BY <1>1, <1>2, <1>4, <1>5, <1>6, <1>7, MessageForReads DEF payload

\* A sync is taken for one.
LEMMA SyncHolds ==
  ASSUME NEW p, SyncPacket(p)
  PROVE  ValidEnvelope(p) /\ Subtype(p) = Go2BLESubtypeSync
<1> DEFINE data == <<171, 186, 171>>
<1>1. data \in Seq(Byte) /\ Len(data) = 3 /\ Short(Len(data)) /\ 6 \in Byte /\ 65 \in Byte
  BY ByteDef DEF Short
<1>2. p = EncodeGo2BlePacket(6, 65, data)
  BY DEF SyncPacket
<1> HIDE DEF data
<1>3. ValidEnvelope(p) /\ Subtype(p) = 65
  <2>1. LET r == EncodeGo2BlePacket(6, 65, data) IN ValidEnvelope(r) /\ Subtype(r) = 65
    BY <1>1, Envelope
  <2>2. QED
    BY <1>2, <2>1
<1>4. QED
  BY <1>3 DEF Go2BLESubtypeSync

\* An intact packet of the camera's is let in as the answer it is.
LEMMA IntactLetIn ==
  ASSUME TypeOK, NEW p, SentAs(p, inbound.state), LetsIn(MessageOn(p)),
         format = "go2" /\ ValidEnvelope(p) => Subtype(p) # Go2BLESubtypeSync
  PROVE  \E payload : Carries(call.op, payload) /\ MessageOn(p) = Answer(payload)
<1>1. CASE AnswerSent(p)
  <2>1. PICK payload : Carries(call.op, payload)
                       /\ p = CameraPacket(answered.code, call.seq, payload)
    BY <1>1 DEF AnswerSent
  <2>2. MessageOn(p) = Answer(payload)
    BY <1>1, <2>1, AnswerReads DEF AnswerSent
  <2>3. QED
    BY <2>1, <2>2
<1>2. CASE PushSent(p, inbound.state)
  <2>1. HeaderOf(MessageOn(p)).seq = 255 /\ 255 \notin Numbers
    BY <1>2, PushReads
  <2>2. call.seq \in Numbers
    BY CallType DEF LetsIn
  <2>3. QED
    BY <2>1, <2>2 DEF LetsIn
<1>3. CASE format = "go2" /\ SyncPacket(p)
  BY <1>3, SyncHolds
<1>4. QED
  BY <1>1, <1>2, <1>3 DEF SentAs

\* So is the front part of one in a format without a check.
LEMMA CutLetIn ==
  ASSUME TypeOK, format # "go2", NEW p, SentAs(p, inbound.state), NEW q, Proper(p, q), LetsIn(q)
  PROVE  \E payload : Carries(call.op, payload) /\ Proper(Answer(payload), q)
<1>1. ASSUME p \in Seq(Byte)
      PROVE  HeaderOf(q) = HeaderOf(p)
  <2>1. PICK k \in 0 .. Len(p) - 1 : q = SubSeq(p, 1, k)
    BY DEF Proper
  <2>2. ValidHeader(SubSeq(p, 1, k))
    BY <2>1 DEF LetsIn
  <2>3. DecodeHeader(q) = DecodeHeader(p)
    BY <1>1, <2>1, <2>2, FrontDecodes
  <2>4. QED
    BY <2>3 DEF HeaderOf
<1>2. CASE AnswerSent(p)
  <2>1. PICK payload : Carries(call.op, payload)
                       /\ p = CameraPacket(answered.code, call.seq, payload)
    BY <1>2 DEF AnswerSent
  <2>2. p = Answer(payload)
    BY <1>2, <2>1, AnswerReads DEF AnswerSent
  <2>3. QED
    BY <2>1, <2>2
<1>3. CASE PushSent(p, inbound.state)
  <2>1. p = MessageOn(p) /\ p \in Seq(Byte) /\ HeaderOf(p).seq = 255 /\ 255 \notin Numbers
    BY <1>3, PushReads
  <2>2. call.seq \in Numbers
    BY CallType DEF LetsIn
  <2>3. HeaderOf(q).seq = 255
    BY <1>1, <2>1
  <2>4. QED
    BY <2>1, <2>2, <2>3 DEF LetsIn
<1>4. QED
  BY <1>2, <1>3 DEF SentAs

\* What a handler lets in is the camera's answer to the call.
LEMMA HandleResp ==
  ASSUME IInv, CameraSent, ~ Collides, InboundInv, Handle, ~ UNCHANGED <<respCh, spoilt>>
  PROVE  /\ call # None /\ call.open
         /\ spoilt' # "flipped" => \E payload : Carries(call.op, payload) /\ Holds(Answer(payload))'
<1> DEFINE b == inbound.bytes
<1>0. /\ TypeOK /\ inbound # None /\ inbound.damage \in {"none", "flipped", "cut"}
      /\ b \in Seq(Byte) /\ format' = format /\ UNCHANGED <<call, answered>>
  BY DEF IInv, TypeOK, Packet, Handle, cameraVars
<1>1. /\ LetsIn(MessageOn(b))
      /\ format = "go2" /\ ValidEnvelope(b) => Subtype(b) # Go2BLESubtypeSync
  BY HandleTakes
<1>2. /\ call # None /\ call.open /\ spoilt' = inbound.damage
      /\ respCh' = MessageOn(b) /\ respCh = None
  BY <1>1 DEF LetsIn
<1>3. PICK p : Transit(p, inbound)
  BY <1>0 DEF InboundInv
<1>4. CASE inbound.damage = "none"
  <2>1. b = p /\ SentAs(p, inbound.state)
    BY <1>3, <1>4 DEF Transit
  <2>2. PICK payload : Carries(call.op, payload) /\ MessageOn(b) = Answer(payload)
    BY <1>0, <1>1, <2>1, IntactLetIn
  <2>3. respCh' = Answer(payload) /\ spoilt' = "none"
    BY <1>2, <1>4, <2>2
  <2>4. Answer(payload)' = Answer(payload)
    BY <1>0 DEF Answer, MessageFor
  <2>5. Holds(Answer(payload))'
    BY <2>3, <2>4 DEF Holds
  <2>6. QED
    BY <1>2, <2>2, <2>5
<1>5. CASE inbound.damage = "cut" /\ format = "go2"
  <2>1. respCh' = respCh
    BY <1>0, <1>5, UnheededHandle
  <2>2. TypeOK'
    BY <1>0, HandleType
  <2>3. MessageOn(b) \in Seq(Byte)
    BY <1>0, InnerDataType DEF MessageOn
  <2>4. QED
    BY <1>2, <2>1, <2>3, NoneAssumption
<1>6. CASE inbound.damage = "cut" /\ format # "go2"
  <2>1. Proper(p, b) /\ SentAs(p, inbound.state) /\ MessageOn(b) = b
    BY <1>3, <1>6 DEF Transit, MessageOn
  <2>2. PICK payload : Carries(call.op, payload) /\ Proper(Answer(payload), b)
    BY <1>0, <1>1, <1>6, <2>1, CutLetIn
  <2>3. respCh' = b /\ spoilt' = "cut" /\ ValidHeader(b)
    BY <1>1, <1>2, <1>6, <2>1 DEF LetsIn
  <2>4. Answer(payload)' = Answer(payload)
    BY <1>0 DEF Answer, MessageFor
  <2>5. Holds(Answer(payload))'
    BY <1>0, <1>6, <2>2, <2>3, <2>4 DEF Holds
  <2>6. QED
    BY <1>2, <2>2, <2>5
<1>7. QED
  BY <1>0, <1>2, <1>4, <1>5, <1>6

\* Every step keeps the answer in the channel.
LEMMA RespStep ==
  ASSUME IInv, CameraSent, ~ Collides, InboundInv, RespInv, [Next]_vars
  PROVE  RespInv'
<1>0. TypeOK /\ Lasting
  BY LastingStep DEF IInv
<1>1. CASE UNCHANGED <<respCh, spoilt>>
  <2> SUFFICES ASSUME respCh # None, spoilt # "flipped"
               PROVE  (/\ call # None
                       /\ \E payload : Carries(call.op, payload) /\ Holds(Answer(payload)))'
    BY <1>1 DEF RespInv
  <2>1. PICK payload : call # None /\ Carries(call.op, payload) /\ Holds(Answer(payload))
    BY DEF RespInv
  <2>2. /\ Carries(call.op, payload)' /\ Answer(payload)' = Answer(payload)
        /\ format' = format /\ call' # None
    BY <1>0, <2>1, CarriesStays DEF Lasting
  <2>3. Holds(Answer(payload))'
    BY <1>1, <2>1, <2>2 DEF Holds
  <2>4. QED
    BY <2>2, <2>3
<1>2. CASE Handle /\ ~ UNCHANGED <<respCh, spoilt>>
  <2>1. call # None
    BY <1>2, HandleResp
  <2>2. call' # None
    BY <1>0, <2>1 DEF Lasting
  <2> SUFFICES ASSUME spoilt' # "flipped"
               PROVE  (\E payload : Carries(call.op, payload) /\ Holds(Answer(payload)))'
    BY <2>2 DEF RespInv
  <2>3. PICK payload : Carries(call.op, payload) /\ Holds(Answer(payload))'
    BY <1>2, HandleResp
  <2>4. Carries(call.op, payload)'
    BY <1>0, <2>1, <2>3, CarriesStays
  <2>5. QED
    BY <2>3, <2>4
<1>3. Handle \/ UNCHANGED <<respCh, spoilt>>
  BY DEF Next, Host, Camera, Radio, SendCommand, WriteRefused, Decline, Receive, Timeout, Return,
         ReadCache, CameraHears, CameraAnswers, CameraRefuses, CameraPushes, CameraSyncs,
         RadioFlips, RadioCuts, vars, hostVars
<1>4. QED
  BY <1>1, <1>2, <1>3

\* What AsAnswered says of a result.
RightlyRead(op, res) ==
  /\ Checked(op) =>
       /\ res.error = None =>
            spoilt = "none" /\ answered.code = 200 /\ res.value = answered.value
       /\ res.error = "refused" =>
            answered.code # 200 /\ (answered.code # 501 => res.text = answered.text)
       /\ res.error = "undecodable" => spoilt = "cut"
  /\ op.reads = "whole" /\ res.error = None /\ spoilt = "none" =>
       LET h == HeaderOf(res.value)
       IN /\ format = "go2" => h.code = answered.code
          /\ answered.code = 200 => MessagePayload(res.value, h) = answered.value

\* In the next state it is what AsAnswered says there.
LEMMA RightlyReadIs ==
  ASSUME UNCHANGED <<format, spoilt, answered>>, NEW op, NEW res, call' # None => call'.op = op,
         result' = res, call' # None => RightlyRead(op, res)
  PROVE  AsAnswered'
<1> SUFFICES ASSUME call' # None PROVE AsAnswered'
  BY DEF AsAnswered
<1>1. call'.op = op /\ result' = res
  OBVIOUS
<1>2. HeaderOf(result.value)' = HeaderOf(res.value)
  BY <1>1 DEF HeaderOf
<1>3. QED
  BY <1>1, <1>2 DEF RightlyRead, AsAnswered

\* The texts of refusals in which the length behind the tag is the one that
\* extractProtoString finds: the number before it is 18, which is the tag too, and the
\* tag that follows counts as a length that fits a longer text (camera_status.go:58-74).
RefusalsAreShort == \A refusal \in Refusals : Len(refusal.text) < 17

\* Errors are none of the values, and a result has what it was made of.
LEMMA PlainErrors ==
  /\ None # "refused" /\ None # "undecodable" /\ None # "timeout"
  /\ \A v : Succeeded(v).error = None /\ Succeeded(v).value = v
  /\ \A e, t : Failed(e, t).error = e /\ Failed(e, t).text = t
<1>1. {"refused", "undecodable", "timeout"} \subseteq Errors
  BY DEF Errors
<1>2. QED
  BY <1>1, NoneAssumption DEF Succeeded, Failed

\* Nor is the error of a write that the stack refused.
LEMMA UnwrittenError == None # "not written"
<1>1. "not written" \in Errors
  BY DEF Errors
<1>2. QED
  BY <1>1, NoneAssumption

\* A whole answer is read as what it says.
LEMMA WholeIsRead ==
  ASSUME RefusalsAreShort, TypeOK, call # None, call.op \in Operations, spoilt = "none",
         NEW payload, Carries(call.op, payload), respCh = Answer(payload), Receive
  PROVE  RightlyRead(call.op, result')
<1> DEFINE op == call.op   h == HeaderOf(respCh)
<1>1. /\ ValidMessage(respCh, h) /\ MessagePayload(respCh, h) = payload
      /\ format = "go2" => h.code = answered.code
  BY AnswerReads
<1>2. result' = IF op.reads = "nothing" THEN Succeeded(None)
                ELSE IF op.reads = "whole" THEN Succeeded(respCh)
                ELSE IF ~ ValidMessage(respCh, h) THEN Failed("undecodable", <<>>)
                ELSE IF Refused(h) THEN Failed("refused", Reason(h, MessagePayload(respCh, h)))
                ELSE IF op.reads = "status" THEN Succeeded(None)
                ELSE Succeeded(Parse(op, format, MessagePayload(respCh, h)))
  BY DEF Receive, Return
<1>3. op \in Operations /\ format \in {"go2", "header16"} /\ format \in Formats
  BY WireAssumption DEF TypeOK
<1> HIDE DEF h, op
<1>4. CASE op.reads \in {"nothing", "silent"}
  <2>1. ~ Checked(op) /\ op.reads # "whole"
    BY <1>4 DEF Checked
  <2>2. QED
    BY <2>1 DEF RightlyRead, op
<1>5. ASSUME NEW reply \in Replies(op), payload = reply.payload,
             answered = [code |-> 200, value |-> reply.value, text |-> <<>>]
      PROVE  RightlyRead(op, result')
  <2>1. answered.code = 200 /\ answered.value = reply.value
    BY <1>5
  <2>2. ~ Refused(h)
    BY <1>1, <2>1 DEF Refused
  <2>3. CASE op.reads = "whole"
    <3>1. result' = Succeeded(respCh)
      BY <1>2, <2>3
    <3>2. result'.value = respCh
      BY <3>1, PlainErrors
    <3>3. ~ Checked(op)
      BY <2>3 DEF Checked
    <3>4. MessagePayload(respCh, h) = answered.value
      BY <1>1, <1>5, <2>1, <2>3, PlainReplies
    <3>5. QED
      BY <1>1, <3>2, <3>3, <3>4 DEF RightlyRead, h
  <2>4. CASE op.reads = "status"
    <3>1. result' = Succeeded(None) /\ reply.value = None
      BY <1>1, <1>2, <2>2, <2>4, PlainReplies
    <3>2. result'.error = None /\ result'.value = None
      BY <3>1, PlainErrors
    <3>3. QED
      BY <2>1, <2>4, <3>1, <3>2, PlainErrors DEF RightlyRead
  <2>5. CASE op.reads \in {"battery", "storage", "info", "wifi mode", "bytes"}
    <3>1. Parse(op, format, reply.payload) = reply.value
      BY <1>3, <2>5, RepliesAreParsed
    <3>2. result' = Succeeded(Parse(op, format, payload))
      BY <1>1, <1>2, <2>2, <2>5
    <3>3. result'.error = None /\ result'.value = reply.value
      BY <1>5, <3>1, <3>2, PlainErrors
    <3>4. op.reads # "whole"
      BY <2>5
    <3>5. QED
      BY <2>1, <3>3, <3>4, PlainErrors DEF RightlyRead
  <2>6. QED
    BY <1>3, <1>4, <2>3, <2>4, <2>5, OperationReads DEF op
<1>6. ASSUME format = "go2", NEW refusal \in Refusals, payload = RefusalPayload(refusal),
             answered = [code |-> refusal.code, value |-> None, text |-> refusal.text]
      PROVE  RightlyRead(op, result')
  <2>1. answered.code = refusal.code /\ answered.text = refusal.text
    BY <1>6
  <2>2. h.code = refusal.code /\ refusal.code \in {400, 500, 501}
    BY <1>1, <1>6, <2>1, RefusalAssumption
  <2>3. Refused(h)
    BY <1>6, <2>2 DEF Refused
  <2>4. CASE op.reads = "whole"
    <3>1. result' = Succeeded(respCh)
      BY <1>2, <2>4
    <3>2. result'.value = respCh
      BY <3>1, PlainErrors
    <3>3. ~ Checked(op) /\ answered.code # 200
      BY <2>1, <2>2, <2>4 DEF Checked
    <3>4. QED
      BY <1>1, <3>2, <3>3 DEF RightlyRead, h
  <2>5. CASE op.reads \notin {"nothing", "silent", "whole"}
    <3>1. result' = Failed("refused", Reason(h, payload))
      BY <1>1, <1>2, <2>3, <2>5
    <3>2. result'.error = "refused" /\ result'.text = Reason(h, payload)
      BY <3>1, PlainErrors
    <3>3. ASSUME refusal.code # 501 PROVE Reason(h, payload) = refusal.text
      <4>1. h.code \in {400, 500}
        BY <2>2, <3>3
      <4>2. Len(refusal.text) < 17
        BY DEF RefusalsAreShort
      <4>3. QED
        BY <1>6, <4>1, <4>2, ReasonGiven DEF Reason
    <3>4. QED
      BY <2>1, <2>2, <2>5, <3>2, <3>3, PlainErrors DEF RightlyRead
  <2>6. QED
    BY <1>4, <2>4, <2>5 DEF op
<1>7. Carries(op, payload)
  BY DEF op
<1>8. QED
  BY <1>5, <1>6, <1>7 DEF Carries, op

\* The front part of one is found to be that.
LEMMA CutIsFound ==
  ASSUME TypeOK, call # None, call.op \in Operations, spoilt = "cut", format # "go2",
         NEW payload, Carries(call.op, payload), ValidHeader(respCh),
         Proper(Answer(payload), respCh), Receive
  PROVE  RightlyRead(call.op, result')
<1> DEFINE op == call.op   a == Answer(payload)
<1>1. a \in Seq(Byte) /\ Len(a) = 16 + HeaderOf(a).length
  BY AnswerReads
<1>2. HeaderOf(a) = DecodeHeader(a) /\ HeaderOf(respCh) = DecodeHeader(respCh)
  BY DEF HeaderOf
<1>3. PICK k \in 0 .. Len(a) - 1 : respCh = SubSeq(a, 1, k)
  BY DEF Proper
<1> HIDE DEF a
<1>4. ~ ValidMessage(respCh, HeaderOf(respCh))
  <2>1. ValidHeader(SubSeq(a, 1, k))
    BY <1>3
  <2>2. ~ ValidMessage(SubSeq(a, 1, k), DecodeHeader(SubSeq(a, 1, k)))
    BY <1>1, <1>2, <2>1, FrontDecodes
  <2>3. QED
    BY <1>2, <1>3, <2>2
<1>5. ASSUME op.reads \notin {"nothing", "whole"} PROVE result' = Failed("undecodable", <<>>)
  BY <1>4, <1>5 DEF Receive, Return
<1> HIDE DEF op
<1>6. CASE op.reads \in {"nothing", "silent", "whole"}
  <2>1. ~ Checked(op)
    BY <1>6 DEF Checked
  <2>2. QED
    BY <2>1 DEF RightlyRead, op
<1>7. CASE op.reads \notin {"nothing", "silent", "whole"}
  <2>1. result'.error = "undecodable"
    BY <1>5, <1>7, PlainErrors
  <2>2. QED
    BY <1>7, <2>1, PlainErrors DEF RightlyRead, op
<1>8. QED
  BY <1>6, <1>7

\* A method returns what the camera answered.
LEMMA ReceiveStep ==
  ASSUME RefusalsAreShort, TypeOK, RespInv, CallInv, Receive
  PROVE  AsAnswered' /\ AnswerTold'
<1>1. /\ call # None /\ respCh # None /\ call.op \in Operations
      /\ UNCHANGED <<format, spoilt, answered>>
  BY DEF Receive, Return, CallInv, cameraVars
<1>2. call'.op = call.op
  BY LastingStep, <1>1 DEF Next, Host, Lasting
<1>3. CASE spoilt = "flipped"
  BY <1>1, <1>3 DEF AsAnswered, AnswerTold
<1>4. CASE spoilt # "flipped"
  <2>1. PICK payload : Carries(call.op, payload) /\ Holds(Answer(payload))
    BY <1>1, <1>4 DEF RespInv
  <2>2. RightlyRead(call.op, result')
    BY <1>1, <2>1, WholeIsRead, CutIsFound DEF Holds
  <2>3. PICK op, res : op = call.op /\ res = result'
    OBVIOUS
  <2>4. AsAnswered'
    BY <1>1, <1>2, <2>2, <2>3, RightlyReadIs
  <2>5. answered' # None
    BY <1>1, <2>1, CarriesType DEF TypeOK
  <2>6. QED
    BY <2>4, <2>5 DEF AnswerTold
<1>5. QED
  BY <1>3, <1>4

\* What a handler lets in finds its call open, and thus without a result.
LEMMA OpenIsPending ==
  ASSUME CallInv, Handle, ~ UNCHANGED spoilt
  PROVE  result' = None
<1>1. call # None /\ call.open /\ result' = result
  BY HandleTakes DEF LetsIn, Handle
<1>2. QED
  BY <1>1 DEF CallInv

\* A result stays what it is.
LEMMA ResultStays ==
  ASSUME TypeOK, CallInv, AnswerTold, AsAnswered, Lasting,
         result' = None \/ UNCHANGED <<result, spoilt>>,
         call' # None => call # None \/ result' = None
  PROVE  AsAnswered' /\ AnswerTold'
<1>1. CASE result' = None
  BY <1>1 DEF AsAnswered, AnswerTold
<1>2. CASE UNCHANGED <<result, spoilt>> /\ result # None /\ call' # None /\ spoilt # "flipped"
  <2>1. call # None /\ call'.op = call.op /\ format' = format
    BY <1>2 DEF Lasting
  <2>2. PICK op, res : op = call.op /\ res = result'
    OBVIOUS
  <2>3. RightlyRead(op, res)
    BY <1>2, <2>1, <2>2 DEF AsAnswered, RightlyRead
  <2>4. CASE answered # None
    <3>1. answered' = answered
      BY <2>4 DEF Lasting
    <3>2. AsAnswered'
      BY <1>2, <2>1, <2>2, <2>3, <3>1, RightlyReadIs
    <3>3. AnswerTold'
      BY <2>4, <3>1 DEF AnswerTold
    <3>4. QED
      BY <3>2, <3>3
  <2>5. CASE ~ Tells(call.op)
    <3>1. ~ Checked(call'.op) /\ call'.op.reads # "whole" /\ ~ Tells(call'.op)
      BY <2>1, <2>5 DEF Tells, Checked
    <3>2. QED
      BY <3>1 DEF AsAnswered, AnswerTold
  <2>6. CASE result.error \in {"timeout", "not written"}
    <3>1. result'.error \in {"timeout", "not written"} /\ result'.error # None
      BY <1>2, <2>6, PlainErrors, UnwrittenError
    <3>2. QED
      BY <3>1 DEF AsAnswered, AnswerTold
  <2>7. QED
    BY <1>2, <2>1, <2>4, <2>5, <2>6 DEF AnswerTold
<1>3. CASE call' = None
  BY <1>3 DEF AsAnswered, AnswerTold
<1>4. CASE UNCHANGED <<result, spoilt>> /\ (result = None \/ spoilt = "flipped")
  BY <1>4 DEF AsAnswered, AnswerTold
<1>5. QED
  BY <1>1, <1>2, <1>3, <1>4

\* Every step leaves a method with the camera's answer.
LEMMA ResultStep ==
  ASSUME RefusalsAreShort, IInv, RespInv, CallInv, AnswerTold, AsAnswered, [Next]_vars
  PROVE  AsAnswered' /\ AnswerTold'
<1> USE DEF hostVars, cameraVars
<1>0. TypeOK /\ Lasting
  BY LastingStep DEF IInv
<1>1. CASE Receive
  BY <1>0, <1>1, ReceiveStep
<1>2. ASSUME result'.error \in {"timeout", "not written"} PROVE AsAnswered' /\ AnswerTold'
  BY <1>2, PlainErrors, UnwrittenError DEF AsAnswered, AnswerTold
<1>3. CASE Timeout
  BY <1>2, <1>3, PlainErrors DEF Timeout, Return
<1>4. ASSUME NEW op \in Operations, NEW n \in Numbers, SendCommand(op, n)
      PROVE  AsAnswered' /\ AnswerTold'
  <2>1. call'.op = op /\ (op.reads # "silent" => result' = None)
    BY <1>4 DEF SendCommand
  <2>2. CASE op.reads = "silent"
    BY <2>1, <2>2 DEF AsAnswered, AnswerTold, Checked, Tells
  <2>3. CASE op.reads # "silent"
    BY <2>1, <2>3 DEF AsAnswered, AnswerTold
  <2>4. QED
    BY <2>2, <2>3
<1>5. ASSUME call' = None PROVE AsAnswered' /\ AnswerTold'
  BY <1>5 DEF AsAnswered, AnswerTold
<1>6. ASSUME NEW op \in Operations, Decline(op) PROVE call' = None
  BY <1>6 DEF Decline
<1>7. CASE ReadCache
  BY <1>5, <1>7 DEF ReadCache
<1>8. CASE Handle
  <2>1. UNCHANGED <<call, result>>
    BY <1>8 DEF Handle
  <2>2. result' = None \/ UNCHANGED spoilt
    BY <1>8, OpenIsPending
  <2>3. QED
    BY <1>0, <2>1, <2>2, ResultStays
<1>9. ASSUME UNCHANGED <<call, result, spoilt>> PROVE AsAnswered' /\ AnswerTold'
  BY <1>0, <1>9, ResultStays
<1>10. ASSUME NEW op \in Operations, NEW n \in Numbers, WriteRefused(op, n)
       PROVE  AsAnswered' /\ AnswerTold'
  BY <1>2, <1>10, PlainErrors DEF WriteRefused
<1>11. QED
  BY <1>1, <1>3, <1>4, <1>5, <1>6, <1>7, <1>8, <1>9, <1>10
     DEF Next, Host, Camera, Radio, CameraHears, CameraAnswers, CameraRefuses, CameraPushes,
         CameraSyncs, RadioFlips, RadioCuts, vars

\* Every step leaves an open call without a result.
LEMMA CallStep ==
  ASSUME IInv, CallInv, [Next]_vars
  PROVE  CallInv'
<1> USE DEF hostVars, cameraVars
<1>0. TypeOK /\ Lasting /\ format' = format
  BY LastingStep DEF IInv, Lasting
<1>1. \A op : op \in Operations => op \in Operations'
  BY <1>0 DEF Operations
<1>2. ASSUME UNCHANGED <<call, result>> PROVE CallInv'
  BY <1>1, <1>2 DEF CallInv
<1>3. ASSUME call # None, NEW res, Return(res) PROVE CallInv'
  <2>1. call \in Calls /\ call' = [call EXCEPT !.open = FALSE]
    BY <1>0, <1>3 DEF Return, TypeOK
  <2>2. call'.op = call.op /\ ~ call'.open
    BY <2>1 DEF Calls
  <2>3. call.op \in Operations
    BY <1>3 DEF CallInv
  <2>4. QED
    BY <1>1, <2>2, <2>3 DEF CallInv
<1>4. ASSUME NEW op \in Operations, NEW n \in Numbers, SendCommand(op, n) \/ WriteRefused(op, n)
      PROVE  CallInv'
  <2>1. call'.op = op /\ (call'.open => result' = None)
    <3>1. CASE SendCommand(op, n)
      BY <3>1 DEF SendCommand
    <3>2. CASE WriteRefused(op, n)
      BY <3>2 DEF WriteRefused
    <3>3. QED
      BY <1>4, <3>1, <3>2
  <2>2. QED
    BY <1>1, <2>1 DEF CallInv
<1>5. ASSUME call' = None PROVE CallInv'
  BY <1>5 DEF CallInv
<1>6. QED
  BY <1>2, <1>3, <1>4, <1>5
     DEF Next, Host, Camera, Radio, Decline, Receive, Timeout, Handle, ReadCache, CameraHears,
         CameraAnswers, CameraRefuses, CameraPushes, CameraSyncs, RadioFlips, RadioCuts, vars

\* Every step leaves in the cache what the camera pushed last.
LEMMA StorageStep ==
  ASSUME IInv, CameraSent, ~ Collides, InboundInv, StorageAsTold, [Next]_vars
  PROVE  StorageAsTold'
<1>0. TypeOK /\ format' = format
  BY LastingStep DEF IInv, Lasting
<1>1. Handle \/ UNCHANGED <<cachedStorageInfo, told>>
  BY DEF Next, Host, Camera, Radio, SendCommand, WriteRefused, Decline, Receive, Timeout, Return,
         ReadCache, CameraHears, CameraAnswers, CameraRefuses, CameraPushes, CameraSyncs,
         RadioFlips, RadioCuts, vars, hostVars
<1>2. CASE UNCHANGED <<cachedStorageInfo, told>>
  BY <1>0, <1>2 DEF StorageAsTold
<1> SUFFICES ASSUME Handle, format = "go2" PROVE cachedStorageInfo' = told'
  BY <1>0, <1>1, <1>2 DEF StorageAsTold
<1> DEFINE b == inbound.bytes
<1>3. cachedStorageInfo = told /\ inbound # None
  BY DEF StorageAsTold, Handle
<1>4. told' = IF inbound.damage = "none" /\ inbound.state # None THEN inbound.state ELSE told
  BY DEF Handle
<1>5. CASE inbound.damage # "none"
  <2>1. cachedStorageInfo' = cachedStorageInfo
    BY <1>0, <1>5, UnheededHandle
  <2>2. QED
    BY <1>3, <1>4, <1>5, <2>1
<1>6. CASE inbound.damage = "none"
  <2>1. b \in Seq(Byte) /\ SentAs(b, inbound.state)
    BY <1>0, <1>3, <1>6 DEF InboundInv, Transit, TypeOK, Packet
  <2>2. ASSUME ValidEnvelope(b), Subtype(b) = Go2BLESubtypeMessage
        PROVE  HandleInner(MessageOn(b))
    <3>1. Subtype(b) # Go2BLESubtypeSync
      BY <2>2 DEF Go2BLESubtypeMessage, Go2BLESubtypeSync
    <3>2. QED
      BY <2>2, <3>1 DEF Handle, HandleGo2, MessageOn
  <2>3. CASE inbound.state = None /\ AnswerSent(b)
    <3>1. PICK payload : Carries(call.op, payload)
                         /\ b = CameraPacket(answered.code, call.seq, payload)
      BY <2>3 DEF AnswerSent
    <3>2. /\ ValidEnvelope(b) /\ Subtype(b) = Go2BLESubtypeMessage /\ MessageOn(b) = Answer(payload)
          /\ HeaderOf(Answer(payload)).code = answered.code
      BY <1>0, <2>3, <3>1, AnswerReads DEF AnswerSent
    <3>3. answered.code \in {200, 400, 500, 501}
      BY <1>0, <3>1, CarriesType DEF TypeOK
    <3>4. DecodeGo2Header(MessageOn(b)).code # StorageState
      BY <3>2, <3>3 DEF StorageState, HeaderOf
    <3>5. cachedStorageInfo' = cachedStorageInfo
      BY <2>2, <3>2, <3>4 DEF HandleInner, Route
    <3>6. QED
      BY <1>3, <1>4, <2>3, <3>5
  <2>4. CASE PushSent(b, inbound.state)
    <3> DEFINE s == inbound.state   m == MessageOn(b)   h == DecodeGo2Header(m)
    <3>1. s \in Stores /\ s # None
      BY <2>4, NoneAssumption DEF PushSent
    <3>2. /\ m \in Seq(Byte) /\ Len(m) \in Nat /\ h.length \in Nat
          /\ ValidMessage(m, h) /\ MessagePayload(m, h) = StoragePayload(s)
          /\ h.seq = 255 /\ Len(m) = 16 + h.length /\ h.code = StorageState
          /\ ValidEnvelope(b) /\ Subtype(b) = Go2BLESubtypeMessage /\ 255 \notin Numbers
      BY <1>0, <2>4, PushReads DEF HeaderOf
    <3>3. ~ Awaited(h.seq)
      BY <1>0, <3>2, CallType DEF Awaited
    <3>4. HandleInner(m)
      BY <2>2, <3>2
    <3> HIDE DEF m, h
    <3>5. ~ (HeaderSize + h.length < Len(m))
      BY <3>2 DEF HeaderSize
    <3>6. SubSeq(m, HeaderSize + 1, Len(m)) = StoragePayload(s)
      BY <3>2 DEF MessagePayload, HeaderSize
    <3>7. cachedStorageInfo' = ParseGo3Storage(StoragePayload(s))
      BY <3>2, <3>3, <3>4, <3>5, <3>6 DEF HandleInner, ValidMessage, m, h
    <3>8. ParseGo3Storage(StoragePayload(s)) = s
      BY <1>0, <3>1, Go3StorageParsed DEF TypeOK
    <3>9. QED
      BY <1>4, <1>6, <3>1, <3>7, <3>8
  <2>5. CASE inbound.state = None /\ SyncPacket(b)
    <3>1. cachedStorageInfo' = cachedStorageInfo
      BY <2>5, SyncHolds DEF Handle, HandleGo2
    <3>2. QED
      BY <1>3, <1>4, <2>5, <3>1
  <2>6. QED
    BY <2>1, <2>3, <2>4, <2>5 DEF SentAs
<1>7. QED
  BY <1>5, <1>6

\* At first nothing was said.
LEMMA AnswerInit == Init => AnswerInv
BY DEF Init, AnswerInv, InboundInv, RespInv, CallInv, AnswerTold, StorageAsTold, AsAnswered

\* A method returns the value the camera answered with, an error and its text if it
\* refused, and no part of an answer cut short; the cache holds what was pushed last; but
\* for a length turned over that meets the check of a shorter packet, and for refusals
\* with a long text (device.go:262-389, camera_status.go:21-152, 184-335).
THEOREM AnswersAreUnderstood ==
  ASSUME RefusalsAreShort
  PROVE  Spec /\ [](~ Collides) => []AnswerUnderstood
<1>1. Init => CameraSent
  BY DEF Init, CameraSent
<1>2. IInv /\ CameraSent /\ [Next]_vars => CameraSent'
  <2>1. UNCHANGED vars => (CameraSent => CameraSent')
    BY DEF vars, CameraSent
  <2>2. QED
    BY <2>1, CameraSentStep
<1>3. IInv /\ CameraSent /\ ~ Collides /\ AnswerInv /\ [Next]_vars => AnswerInv'
  BY InboundStep, RespStep, CallStep, ResultStep, StorageStep DEF AnswerInv
<1>4. AnswerInv => AnswerUnderstood
  BY DEF AnswerInv, AnswerUnderstood
<1>5. QED
  BY <1>1, <1>2, <1>3, <1>4, AnswerInit, Inductive, PTL DEF Spec

==============================================================================
