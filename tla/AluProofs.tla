------------------------------ MODULE AluProofs ------------------------------
(***************************************************************************)
(* The control unit, the ALU control and the ALU of the pipeline compute   *)
(* what the handlers of the emulator compute, on words of every width.     *)
(***************************************************************************)
EXTENDS Execute, WellFoundedInduction, TLAPS

(***************************************************************************)
(* Powers of two.                                                          *)
(***************************************************************************)
LEMMA Least ==
  ASSUME NEW S, S \subseteq Nat, S # {}
  PROVE  \E x \in S : \A y \in S : ~(y < x)
<1>1. PICK x \in S : \A y \in S : <<y, x>> \notin OpToRel(<, Nat)
  BY NatLessThanWellFounded, WFMin, Zenon
<1> QED BY <1>1, Zenon DEF OpToRel

Power == [n \in 0 .. WordBits |-> 2^n]

LEMMA PowerSteps ==
  /\ WordBits \in Nat /\ WordBits >= 1
  /\ Power[0] = 1
  /\ \A n \in 0 .. (WordBits - 1) : Power[n + 1] = 2 * Power[n]
  /\ Power[WordBits] = WordMod
<1>1. WordBits \in Nat /\ WordBits >= 1
  BY WordBitsAssumption, LuiShiftAssumption
<1>2. ASSUME NEW n \in 0 .. (WordBits - 1)
      PROVE  Power[n + 1] = 2 * Power[n]
  <2>1. n \in 0 .. WordBits /\ n + 1 \in 0 .. WordBits
    BY <1>1
  <2>2. Power[n] = 2^n /\ Power[n + 1] = 2^(n + 1)
    BY <2>1 DEF Power
  <2> QED BY <2>2, PowersAssumption
<1>3. 0 \in 0 .. WordBits /\ WordBits \in 0 .. WordBits
  BY <1>1
<1>4. Power[0] = 1 /\ Power[WordBits] = WordMod
  BY <1>3, WordBitsAssumption, PowersAssumption DEF Power
<1> QED BY <1>1, <1>2, <1>4

LEMMA PowerPositive == \A n \in 0 .. WordBits : Power[n] \in Nat \ {0}
<1> DEFINE bad == {n \in 0 .. WordBits : Power[n] \notin Nat \ {0}}
<1> SUFFICES ASSUME bad # {} PROVE FALSE
  OBVIOUS
<1>1. PICK n \in bad : \A m \in bad : ~(m < n)
  <2>1. bad \subseteq Nat
    BY PowerSteps
  <2> HIDE DEF bad
  <2> QED BY <2>1, Least
<1>2. n # 0
  BY PowerSteps
<1>3. n - 1 \in 0 .. (WordBits - 1) /\ n - 1 \in 0 .. WordBits /\ (n - 1) + 1 = n
  BY <1>2, PowerSteps
<1>4. Power[n - 1] \in Nat \ {0}
  BY <1>1, <1>3, PowerSteps
<1>5. Power[n] = 2 * Power[n - 1]
  BY <1>3, PowerSteps
<1> QED BY <1>4, <1>5

(* A word is split by a shift into the bits that stay and those that go.   *)
LEMMA PowerProduct == \A n \in 0 .. WordBits : Power[n] * Power[WordBits - n] = WordMod
<1> DEFINE bad == {n \in 0 .. WordBits : Power[n] * Power[WordBits - n] # WordMod}
<1> SUFFICES ASSUME bad # {} PROVE FALSE
  OBVIOUS
<1>1. PICK n \in bad : \A m \in bad : ~(m < n)
  <2>1. bad \subseteq Nat
    BY PowerSteps
  <2> HIDE DEF bad
  <2> QED BY <2>1, Least
<1>2. n # 0
  <2>1. Power[WordBits] \in Nat
    BY PowerPositive, PowerSteps
  <2> QED BY <2>1, PowerSteps
<1>3. /\ n - 1 \in 0 .. (WordBits - 1) /\ n - 1 \in 0 .. WordBits /\ (n - 1) + 1 = n
      /\ WordBits - n \in 0 .. (WordBits - 1) /\ WordBits - (n - 1) = (WordBits - n) + 1
      /\ WordBits - n \in 0 .. WordBits
  BY <1>2, PowerSteps
<1>4. Power[n - 1] * Power[WordBits - (n - 1)] = WordMod
  BY <1>1, <1>3, PowerSteps
<1>5. Power[n] = 2 * Power[n - 1] /\ Power[WordBits - (n - 1)] = 2 * Power[WordBits - n]
  BY <1>3, PowerSteps
<1>6. Power[n - 1] \in Nat /\ Power[WordBits - n] \in Nat
  BY <1>3, PowerPositive
<1>7. ASSUME NEW p \in Nat, NEW q \in Nat PROVE (2 * p) * q = p * (2 * q)
  OBVIOUS
<1> QED BY <1>1, <1>4, <1>5, <1>6, <1>7

(***************************************************************************)
(* Division.                                                               *)
(***************************************************************************)
LEMMA DivShift ==
  ASSUME NEW x \in Int, NEW k \in Int, NEW m \in Nat \ {0}
  PROVE  /\ (x - m * k) \div m = (x \div m) - k
         /\ (x - m * k) % m = x % m
<1> DEFINE d == x \div m
           r == x % m
           z == x - m * k
           e == z \div m
           s == z % m
<1>1. z \in Int /\ m > 0 /\ m * k \in Int
  OBVIOUS
<1>2. d \in Int /\ r \in 0 .. (m - 1) /\ x = m * d + r
  OBVIOUS
<1> HIDE DEF z
<1>3. e \in Int /\ s \in 0 .. (m - 1) /\ z = m * e + s
  BY <1>1
<1> HIDE DEF d, r, e, s
<1>4. m * ((d - k) - e) = s - r
  <2>1. m * d + r - m * k = m * e + s
    BY <1>2, <1>3 DEF z
  <2>2. m * ((d - k) - e) = m * d - m * k - m * e
    BY <1>2, <1>3
  <2>3. m * d \in Int /\ m * e \in Int
    BY <1>2, <1>3
  <2> QED BY <1>1, <1>2, <1>3, <2>1, <2>2, <2>3
<1> DEFINE t == (d - k) - e
<1>5. t \in Int
  BY <1>2, <1>3
<1> HIDE DEF t
<1>6. m * t = s - r
  BY <1>4 DEF t
<1>7. t = 0
  <2>1. ASSUME t >= 1 PROVE FALSE
    <3>1. m * t >= m
      BY <1>5, <2>1
    <3> QED BY <1>2, <1>3, <1>6, <3>1
  <2>2. ASSUME t <= -1 PROVE FALSE
    <3>1. m * t <= -m
      BY <1>5, <2>2
    <3> QED BY <1>2, <1>3, <1>6, <3>1
  <2> QED BY <1>5, <2>1, <2>2
<1>8. e = d - k /\ s = r
  BY <1>2, <1>3, <1>6, <1>7 DEF t
<1> QED BY <1>8 DEF d, r, e, s, z

LEMMA WordModPositive == WordMod \in Nat \ {0}
BY PowerSteps, PowerPositive

LEMMA SmallMod ==
  ASSUME NEW m \in Nat \ {0}, NEW x \in 0 .. (m - 1) PROVE x % m = x
OBVIOUS

(* The signed value of a word differs from it by none or one WordMod.      *)
LEMMA SignedValue ==
  ASSUME NEW x \in Word
  PROVE  \E k \in {0, 1} : Signed(x) = x - WordMod * k
BY WordModPositive DEF Signed, Word

LEMMA SignedType == ASSUME NEW x \in Word PROVE Signed(x) \in Int /\ x \in Int
BY WordModPositive DEF Signed, Word

LEMMA AddAgrees ==
  ASSUME NEW x \in Word, NEW y \in Word
  PROVE  /\ ToWord(Signed(x) + Signed(y)) = Plus(x, y)
         /\ ToWord(Signed(x) - Signed(y)) = Minus(x, y)
<1>1. PICK k \in {0, 1} : Signed(x) = x - WordMod * k
  BY SignedValue
<1>2. PICK m \in {0, 1} : Signed(y) = y - WordMod * m
  BY SignedValue
<1>3. x \in Int /\ y \in Int /\ WordMod \in Nat \ {0}
  BY SignedType, WordModPositive
<1>4. Signed(x) + Signed(y) = (x + y) - WordMod * (k + m)
  BY <1>1, <1>2, <1>3
<1>5. Signed(x) - Signed(y) = (x - y) - WordMod * (k - m)
  BY <1>1, <1>2, <1>3
<1>6. x + y \in Int /\ x - y \in Int /\ k + m \in Int /\ k - m \in Int
  BY <1>3
<1>7. ((x + y) - WordMod * (k + m)) % WordMod = (x + y) % WordMod
  BY <1>3, <1>6, DivShift
<1>8. ((x - y) - WordMod * (k - m)) % WordMod = (x - y) % WordMod
  BY <1>3, <1>6, DivShift
<1> QED BY <1>4, <1>5, <1>7, <1>8 DEF ToWord, Plus, Minus

LEMMA LuiAgrees ==
  ASSUME NEW y \in Word
  PROVE  ToWord(Signed(y) * 2^LUI_SHIFT) = ShiftLeft(y, LUI_SHIFT)
<1> DEFINE p == Power[LUI_SHIFT]
<1>1. LUI_SHIFT \in 0 .. WordBits /\ LUI_SHIFT % WordBits = LUI_SHIFT
  BY LuiShiftAssumption, PowerSteps
<1>2. p = 2^LUI_SHIFT /\ p \in Nat
  BY <1>1, PowerPositive DEF Power
<1> HIDE DEF p
<1>3. PICK k \in {0, 1} : Signed(y) = y - WordMod * k
  BY SignedValue
<1>4. y \in Int /\ WordMod \in Nat \ {0}
  BY SignedType, WordModPositive
<1>5. (y - WordMod * k) * p = y * p - WordMod * (k * p)
  BY <1>2, <1>4
<1>6. y * p \in Int /\ k * p \in Int
  BY <1>2, <1>4
<1>7. ToWord(Signed(y) * p) = ToWord(y * p)
  <2> DEFINE z == y * p
             m == k * p
  <2>1. z \in Int /\ m \in Int
    BY <1>6
  <2>2. Signed(y) * p = z - WordMod * m
    BY <1>3, <1>5
  <2> HIDE DEF z, m
  <2>3. (z - WordMod * m) % WordMod = z % WordMod
    BY <1>4, <2>1, DivShift
  <2>4. ToWord(Signed(y) * p) = ToWord(z)
    BY <2>2, <2>3 DEF ToWord
  <2> QED BY <2>4 DEF z
<1> QED BY <1>1, <1>2, <1>7 DEF ShiftLeft

(* Half of the words are negative, and of a shifted word.                  *)
LEMMA Halves ==
  ASSUME NEW k \in 0 .. (WordBits - 1)
  PROVE  \E p \in Nat \ {0}, h \in Nat \ {0} :
           /\ p = 2^k /\ 2^(WordBits - k) = 2 * h
           /\ WordMod = p * (2 * h) /\ WordMod \div 2 = p * h
<1> DEFINE p == Power[k]
           h == Power[WordBits - k - 1]
<1>1. /\ k \in 0 .. WordBits /\ WordBits - k \in 0 .. WordBits
      /\ WordBits - k - 1 \in 0 .. (WordBits - 1) /\ WordBits - k - 1 \in 0 .. WordBits
      /\ (WordBits - k - 1) + 1 = WordBits - k
  BY PowerSteps
<1>2. p = 2^k /\ 2^(WordBits - k) = Power[WordBits - k]
  BY <1>1 DEF Power
<1>3. Power[WordBits - k] = 2 * h
  BY <1>1, PowerSteps
<1>4. p \in Nat \ {0} /\ h \in Nat \ {0}
  BY <1>1, PowerPositive
<1>5. WordMod = p * (2 * h)
  BY <1>1, <1>3, PowerProduct
<1> HIDE DEF p, h
<1>6. p * (2 * h) = 2 * (p * h) /\ p * h \in Nat
  BY <1>4
<1>7. WordMod \div 2 = p * h
  BY <1>5, <1>6
<1> QED BY <1>2, <1>3, <1>4, <1>5, <1>7

(* The bits that sra shifts in are those that sign_extend_number adds.     *)
LEMMA SraAgrees ==
  ASSUME NEW x \in Word, NEW k \in 0 .. (WordBits - 1)
  PROVE  ToWord(Signed(x) \div 2^k) = sign_extend_number(x \div 2^k, 2^(WordBits - k))
<1>1. PICK p \in Nat \ {0}, h \in Nat \ {0} :
        /\ p = 2^k /\ 2^(WordBits - k) = 2 * h
        /\ WordMod = p * (2 * h) /\ WordMod \div 2 = p * h
  BY Halves
<1> DEFINE d == x \div p
<1>2. /\ x \in Nat /\ x < WordMod
      /\ d \in Nat /\ p * d <= x /\ x < p * (d + 1) /\ d <= x
  <2>1. x \in Nat /\ x < WordMod
    BY WordModPositive DEF Word
  <2> DEFINE r == x % p
  <2>2. d \in Int /\ r \in 0 .. (p - 1) /\ x = p * d + r
    BY <2>1
  <2> HIDE DEF d, r
  <2>3. d >= 0
    <3> SUFFICES ASSUME d <= -1 PROVE FALSE
      BY <2>2
    <3>1. p * d <= -p
      BY <2>2
    <3> QED BY <2>1, <2>2, <3>1
  <2>4. p * (d + 1) = p * d + p /\ d <= p * d
    BY <2>2, <2>3
  <2> QED BY <2>1, <2>2, <2>3, <2>4
<1>3. (2 * h) \div 2 = h
  BY <1>1
<1>4. sign_extend_number(d, 2 * h) = IF d >= h THEN (d + WordMod - 2 * h) % WordMod ELSE d
  BY <1>3 DEF sign_extend_number
<1>5. Signed(x) = IF x >= p * h THEN x - p * (2 * h) ELSE x
  BY <1>1 DEF Signed
<1>6. (x - p * (2 * h)) \div p = d - 2 * h
  <2> DEFINE z == 2 * h
  <2>1. z \in Int /\ x \in Int
    BY <1>2
  <2> HIDE DEF z
  <2>2. (x - p * z) \div p = d - z
    BY <2>1, DivShift
  <2> QED BY <2>2 DEF z
<1>7. WordMod \in Nat \ {0}
  BY WordModPositive
<1> HIDE DEF d
<1>8. CASE x >= p * h
  <2>1. d >= h
    <3> SUFFICES ASSUME d + 1 <= h PROVE FALSE
      BY <1>2
    <3>1. p * (d + 1) <= p * h
      BY <1>2
    <3> QED BY <1>2, <1>8, <3>1
  <2>2. ((d + WordMod - 2 * h) - WordMod * 1) % WordMod = (d + WordMod - 2 * h) % WordMod
    <3> DEFINE z == d + WordMod - 2 * h
               one == 1
    <3>1. z \in Int /\ one \in Int
      BY <1>2, <1>7
    <3> HIDE DEF z, one
    <3>2. (z - WordMod * one) % WordMod = z % WordMod
      BY <1>7, <3>1, DivShift
    <3> QED BY <3>2 DEF z, one
  <2>3. (d + WordMod - 2 * h) - WordMod * 1 = d - 2 * h
    BY <1>2, <1>7
  <2> QED BY <1>1, <1>4, <1>5, <1>6, <1>8, <2>1, <2>2, <2>3 DEF ToWord, d
<1>9. CASE x < p * h
  <2>1. d < h
    <3> SUFFICES ASSUME h <= d PROVE FALSE
      BY <1>2
    <3>1. p * h <= p * d
      BY <1>2
    <3> QED BY <1>2, <1>9, <3>1
  <2>2. d % WordMod = d
    BY <1>2, <1>7
  <2>3. Signed(x) = x
    BY <1>2, <1>5, <1>9
  <2>4. Signed(x) \div 2^k = d
    BY <1>1, <2>3 DEF d
  <2>5. sign_extend_number(x \div 2^k, 2^(WordBits - k)) = d
    BY <1>1, <1>2, <1>4, <2>1 DEF d
  <2> QED BY <2>2, <2>4, <2>5 DEF ToWord
<1> QED BY <1>1, <1>2, <1>8, <1>9

(***************************************************************************)
(* The operations.                                                         *)
(***************************************************************************)
BaseRtype == RtypeFn \ (MultiplyFn \union {"other"})
BaseItype == ItypeFn \ {"other"}

LEMMA AmountType ==
  ASSUME NEW y \in Word PROVE y % WordBits \in 0 .. (WordBits - 1)
<1>1. y \in Int /\ WordBits \in Nat \ {0}
  BY SignedType, PowerSteps
<1> QED BY <1>1

LEMMA SharedAgree ==
  ASSUME NEW x \in Word, NEW y \in Word, NEW op \in {"rtype", "itype"},
         NEW f \in BaseRtype
  PROVE  execute_alu(x, y, f) = Arith(op, f, x, y)
<1> USE DEF execute_alu, Arith
<1>1. CASE f \in {"sll", "slt", "xor", "srl", "or", "and", "mul"}
  BY <1>1
<1>2. CASE f = "add"
  BY <1>2, AddAgrees
<1>3. CASE f = "sub"
  BY <1>3, AddAgrees
<1>4. CASE f = "sra"
  <2> DEFINE k == y % WordBits
  <2>1. k \in 0 .. (WordBits - 1)
    BY AmountType
  <2>2. execute_alu(x, y, f) = sign_extend_number(x \div 2^k, 2^(WordBits - k))
    BY <1>4, <2>1, Zenon DEF ShiftRight
  <2> QED BY <1>4, <2>1, SraAgrees DEF ShiftRight
<1> QED BY <1>1, <1>2, <1>3, <1>4 DEF BaseRtype, RtypeFn, MultiplyFn

(* The ALU control of an operation of the base set is the operation.       *)
LEMMA ControlIsOperation ==
  ASSUME NEW f \in BaseRtype
  PROVE  /\ gen_alu_control(<<0, 1, 0>>, f) = f
         /\ gen_alu_control(<<0, 1, 1>>, f) = f
BY DEF BaseRtype, RtypeFn, MultiplyFn, gen_alu_control, AluControl

LEMMA BaseItypeIsBase == BaseItype \subseteq BaseRtype
BY DEF BaseItype, BaseRtype, ItypeFn, RtypeFn, MultiplyFn

LEMMA LuiOfAlu ==
  ASSUME NEW x, NEW y \in Word, NEW f
  PROVE  execute_alu(x, y, "lui") = Arith("lui", f, 0, y)
BY LuiAgrees DEF execute_alu, Arith

(* The difference of two words is 0 exactly if they are equal.             *)
LEMMA SubIsZero ==
  ASSUME NEW x \in Word, NEW y \in Word
  PROVE  execute_alu(x, y, "sub") = 0 <=> x = y
<1>1. execute_alu(x, y, "sub") = Minus(x, y)
  BY DEF execute_alu
<1> DEFINE m == WordMod
<1>2. m \in Nat \ {0} /\ x \in 0 .. (m - 1) /\ y \in 0 .. (m - 1)
  BY WordModPositive DEF Word
<1> HIDE DEF m
<1>3. (x - y) % m = 0 <=> x = y
  <2>1. CASE x >= y
    BY <1>2, <2>1
  <2>2. CASE x < y
    <3> DEFINE z == x - y + m
               one == 1
    <3>1. z \in 1 .. (m - 1) /\ z - m * one = x - y
      BY <1>2, <2>2
    <3>2. z \in Int /\ one \in Int /\ m \in Nat \ {0}
      BY <1>2
    <3> HIDE DEF z, one
    <3>3. (z - m * one) % m = z % m
      BY <3>2, DivShift
    <3>4. z % m = z
      BY <1>2, <3>1
    <3> QED BY <1>2, <2>2, <3>1, <3>3, <3>4
  <2> QED BY <1>2, <2>1, <2>2
<1> QED BY <1>1, <1>3 DEF Minus, m

(* The ALU satisfies what the theorems about the pipeline assume of one.   *)
THEOREM AluImplementsArith == AluImplements(execute_alu, Arith)
<1> SUFFICES ASSUME NEW x \in Word, NEW y \in Word
             PROVE  /\ \A f \in BaseRtype :
                         execute_alu(x, y, gen_alu_control(<<0, 1, 0>>, f))
                           = Arith("rtype", f, x, y)
                    /\ \A f \in BaseItype :
                         execute_alu(x, y, gen_alu_control(<<0, 1, 1>>, f))
                           = Arith("itype", f, x, y)
                    /\ \A f \in Funct : execute_alu(0, y, "lui") = Arith("lui", f, 0, y)
                    /\ execute_alu(x, y, "add") = Plus(x, y)
                    /\ execute_alu(x, y, "sub") = 0 <=> x = y
  BY DEF AluImplements, BaseRtype, BaseItype, MultiplyFn
<1>1. \A f \in BaseRtype : execute_alu(x, y, gen_alu_control(<<0, 1, 0>>, f))
                             = Arith("rtype", f, x, y)
  BY SharedAgree, ControlIsOperation
<1>2. \A f \in BaseItype : execute_alu(x, y, gen_alu_control(<<0, 1, 1>>, f))
                             = Arith("itype", f, x, y)
  BY SharedAgree, ControlIsOperation, BaseItypeIsBase
<1>3. \A f \in Funct : execute_alu(0, y, "lui") = Arith("lui", f, 0, y)
  BY LuiOfAlu
<1>4. execute_alu(x, y, "add") = Plus(x, y)
  BY DEF execute_alu
<1> QED BY <1>1, <1>2, <1>3, <1>4, SubIsZero

(***************************************************************************)
(* The execute stage.                                                      *)
(***************************************************************************)
OperandsOK == a \in Word /\ b \in Word /\ memory \in MemoryType

LEMMA OperandsCorrect == ESpec => []OperandsOK
<1>1. EInit => OperandsOK
  BY WordModPositive, ByteModAssumption DEF EInit, OperandsOK, Word, MemoryType, Byte
<1>2. OperandsOK /\ [Operands]_<<a, b, memory>> => OperandsOK'
  BY DEF OperandsOK, Operands
<1> QED BY <1>1, <1>2, PTL DEF ESpec

LEMMA ControlOfFormat ==
  ASSUME NEW o, NEW f, NEW i, i = Instr(o, f)
  PROVE  /\ i.fn = f
         /\ o = "rtype" => gen_control(i).alu_op = <<0, 1, 0>>
         /\ o = "itype" => gen_control(i).alu_op = <<0, 1, 1>>
         /\ o \in {"load", "store"} => gen_control(i).alu_op = <<0, 0, 0>>
         /\ o = "branch" => gen_control(i).alu_op = <<0, 0, 1>>
         /\ o = "lui" => gen_control(i).alu_op = <<1, 0, 0>>
<1>1. i.op = o /\ i.fn = f
  BY DEF Instr
<1>2. CASE o = "rtype"
  BY <1>1, <1>2, Zenon DEF gen_control, NoControl
<1>3. CASE o = "itype"
  BY <1>1, <1>3, Zenon DEF gen_control, NoControl
<1>4. CASE o = "load"
  BY <1>1, <1>4, Zenon DEF gen_control, NoControl
<1>5. CASE o = "store"
  BY <1>1, <1>5, Zenon DEF gen_control, NoControl
<1>6. CASE o = "branch"
  BY <1>1, <1>6, Zenon DEF gen_control, NoControl
<1>7. CASE o = "lui"
  BY <1>1, <1>7, Zenon DEF gen_control, NoControl
<1> QED BY <1>1, <1>2, <1>3, <1>4, <1>5, <1>6, <1>7

(* What stage_execute computes for an R-type instruction is what the       *)
(* handler of the emulator computes, on words of every width.              *)
THEOREM RtypeCorrect == ESpec => []RtypeAgrees
<1>1. OperandsOK => RtypeAgrees
  <2> SUFFICES ASSUME OperandsOK, NEW f \in BaseRtype
               PROVE  Executed(Instr("rtype", f)) = Arith("rtype", f, a, b)
    BY DEF RtypeAgrees, BaseRtype
  <2>1. Executed(Instr("rtype", f)) = execute_alu(a, b, gen_alu_control(<<0, 1, 0>>, f))
    BY ControlOfFormat DEF Executed
  <2> QED BY <2>1, SharedAgree, ControlIsOperation DEF OperandsOK
<1> QED BY <1>1, OperandsCorrect, PTL

(* So it is with an immediate, for lui, and for the address of an access.  *)
THEOREM ImmediatesCorrect == ESpec => []ImmediatesAgree
<1>1. OperandsOK => ImmediatesAgree
  <2> SUFFICES ASSUME OperandsOK PROVE ImmediatesAgree
    OBVIOUS
  <2>1. ASSUME NEW f \in BaseItype
        PROVE  Executed(Instr("itype", f)) = Arith("itype", f, a, b)
    <3>1. Executed(Instr("itype", f)) = execute_alu(a, b, gen_alu_control(<<0, 1, 1>>, f))
      BY ControlOfFormat DEF Executed
    <3> QED BY <3>1, SharedAgree, ControlIsOperation, BaseItypeIsBase DEF OperandsOK
  <2>2. Executed(Instr("lui", "other")) = Arith("lui", "other", 0, b)
    <3>1. Executed(Instr("lui", "other"))
            = execute_alu(a, b, gen_alu_control(<<1, 0, 0>>, "other"))
      BY ControlOfFormat DEF Executed
    <3>2. gen_alu_control(<<1, 0, 0>>, "other") = "lui"
      BY DEF gen_alu_control
    <3> QED BY <3>1, <3>2, LuiOfAlu DEF OperandsOK
  <2>3. ASSUME NEW o \in {"load", "store"}, NEW f
        PROVE  Executed(Instr(o, f)) = Plus(a, b)
    <3>1. Executed(Instr(o, f)) = execute_alu(a, b, gen_alu_control(<<0, 0, 0>>, f))
      BY ControlOfFormat DEF Executed
    <3>2. gen_alu_control(<<0, 0, 0>>, f) = "add"
      BY DEF gen_alu_control
    <3> QED BY <3>1, <3>2 DEF execute_alu
  <2> QED BY <2>1, <2>2, <2>3 DEF ImmediatesAgree, BaseItype
<1> QED BY <1>1, OperandsCorrect, PTL

(* A branch is decided as the emulator decides it.                         *)
THEOREM BranchesCorrect == ESpec => []BranchesAgree
<1>1. OperandsOK => BranchesAgree
  <2> SUFFICES ASSUME OperandsOK, NEW f \in BranchFn
               PROVE  Executed(Instr("branch", f)) = 0 <=> a = b
    BY DEF BranchesAgree
  <2>1. Executed(Instr("branch", f)) = execute_alu(a, b, gen_alu_control(<<0, 0, 1>>, f))
    BY ControlOfFormat DEF Executed
  <2>2. gen_alu_control(<<0, 0, 1>>, f) = "sub"
    BY DEF gen_alu_control
  <2> QED BY <2>1, <2>2, SubIsZero DEF OperandsOK
<1> QED BY <1>1, OperandsCorrect, PTL

(***************************************************************************)
(* The memory.  Store takes a word apart into digits, load puts the digits *)
(* of a part of it together again.                                         *)
(***************************************************************************)
LEMMA Modulus == /\ ByteMod \in Nat /\ ByteMod >= 2
                 /\ HalfMod \in Nat /\ HalfMod >= 4 /\ HalfMod >= ByteMod
                 /\ WordMod \in Nat /\ WordMod >= 16 /\ WordMod >= HalfMod
<1>1. ByteMod \in Nat /\ ByteMod >= 2
  BY ByteModAssumption
<1>2. ASSUME NEW n \in Nat, n >= 2 PROVE n * n \in Nat /\ n * n >= 4 /\ n * n >= n
  BY <1>2
<1>3. HalfMod \in Nat /\ HalfMod >= 4 /\ HalfMod >= ByteMod
  BY <1>1, <1>2 DEF HalfMod
<1>4. ASSUME NEW n \in Nat, n >= 4 PROVE n * n \in Nat /\ n * n >= 16 /\ n * n >= n
  BY <1>4
<1> QED BY <1>1, <1>3, <1>4 DEF WordMod

LEMMA EvenRoot ==
  ASSUME NEW n \in Nat, NEW h \in Nat, n * n = 2 * h
  PROVE  \E g \in Nat : n = 2 * g
<1> DEFINE g == n \div 2
<1>1. g \in Nat /\ (n = 2 * g \/ n = 2 * g + 1)
  OBVIOUS
<1> HIDE DEF g
<1>2. n # 2 * g + 1
  <2> SUFFICES ASSUME n = 2 * g + 1 PROVE FALSE
    OBVIOUS
  <2>1. n * n = 2 * (2 * (g * g) + 2 * g) + 1
    BY <1>1
  <2>2. g * g \in Nat
    BY <1>1
  <2> QED BY <1>1, <2>1, <2>2
<1> QED BY <1>1, <1>2

(* A word has an even number of values, and so has a byte.                 *)
LEMMA ModuliEven ==
  \E g \in Nat, h \in Nat, w \in Nat :
    ByteMod = 2 * g /\ HalfMod = 2 * h /\ WordMod = 2 * w
<1>1. PICK w \in Nat : WordMod = 2 * w
  <2>1. WordBits - 1 \in 0 .. (WordBits - 1) /\ (WordBits - 1) + 1 = WordBits
        /\ WordBits - 1 \in 0 .. WordBits
    BY PowerSteps
  <2>2. Power[WordBits] = 2 * Power[WordBits - 1]
    BY <2>1, PowerSteps
  <2> QED BY <2>1, <2>2, PowerSteps, PowerPositive
<1>2. PICK h \in Nat : HalfMod = 2 * h
  BY <1>1, Modulus, EvenRoot DEF WordMod
<1>3. PICK g \in Nat : ByteMod = 2 * g
  BY <1>2, Modulus, EvenRoot DEF HalfMod
<1> QED BY <1>1, <1>2, <1>3

(* sign_extend_number is right for the widths of lb and lh.                *)
LEMMA Extended ==
  ASSUME NEW mod \in {ByteMod, HalfMod}, NEW f \in 0 .. (mod - 1),
         NEW x \in Nat, x % mod = f
  PROVE  SignExtends(sign_extend_number(f, mod), x, mod)
<1>1. PICK h \in Nat : mod = 2 * h
  BY ModuliEven
<1>2. PICK w \in Nat : WordMod = 2 * w
  BY ModuliEven
<1>3. /\ mod \in Nat \ {0} /\ mod <= WordMod /\ WordMod \in Nat \ {0}
      /\ mod \div 2 = h /\ WordMod \div 2 = w /\ h <= w /\ h >= 1
  BY <1>1, <1>2, Modulus
<1> DEFINE v == sign_extend_number(f, mod)
<1>4. CASE f < h
  <2>1. v = f /\ Signed(v) = f
    BY <1>3, <1>4 DEF sign_extend_number, Signed
  <2>2. f % mod = f
    BY <1>3
  <2> QED BY <1>1, <1>3, <1>4, <2>1, <2>2 DEF SignExtends
<1>5. CASE f >= h
  <2> DEFINE z == f + WordMod - mod
  <2>1. z \in 0 .. (WordMod - 1) /\ z >= w
    BY <1>1, <1>2, <1>3, <1>5
  <2>2. v = z % WordMod
    BY <1>3, <1>5 DEF sign_extend_number
  <2>3. z % WordMod = z
    BY <1>3, <2>1, SmallMod
  <2>4. Signed(v) = f - mod
    BY <1>3, <2>1, <2>2, <2>3 DEF Signed
  <2>5. (f - mod) % mod = f
    <3> DEFINE one == 1
    <3>1. one \in Int /\ f \in Int /\ f - mod * one = f - mod
      BY <1>3
    <3> HIDE DEF one
    <3>2. (f - mod * one) % mod = f % mod
      BY <1>3, <3>1, DivShift
    <3> QED BY <1>3, <3>1, <3>2, SmallMod
  <2> HIDE DEF z, v
  <2>6. f - mod \in (-h) .. (h - 1)
    BY <1>1, <1>3, <1>5
  <2> QED BY <1>3, <2>4, <2>5, <2>6 DEF SignExtends, v
<1> QED BY <1>3, <1>4, <1>5

(* The value of a number in digits.                                        *)
LEMMA DivOf ==
  ASSUME NEW m \in Nat \ {0}, NEW q \in Int, NEW r \in 0 .. (m - 1), NEW x,
         x = m * q + r
  PROVE  x \div m = q /\ x % m = r
<1>1. x \in Int /\ m * q \in Int
  OBVIOUS
<1>2. x - m * q = r
  OBVIOUS
<1>3. (x - m * q) \div m = (x \div m) - q /\ (x - m * q) % m = x % m
  BY <1>1, DivShift
<1>4. r \div m = 0 /\ r % m = r
  OBVIOUS
<1>5. x \div m \in Int
  BY <1>1
<1> QED BY <1>2, <1>3, <1>4, <1>5

LEMMA DivDiv ==
  ASSUME NEW x \in Nat, NEW m \in Nat \ {0}, NEW n \in Nat \ {0}
  PROVE  x \div (m * n) = (x \div m) \div n /\ x \div m \in Nat
<1> DEFINE q == x \div m
           r == x % m
           e == q \div n
           s == q % n
<1>1. q \in Int /\ r \in 0 .. (m - 1) /\ x = m * q + r
  OBVIOUS
<1> HIDE DEF q, r
<1>2. e \in Int /\ s \in 0 .. (n - 1) /\ q = n * e + s
  BY <1>1
<1> HIDE DEF e, s
<1>3. q >= 0
  <2> SUFFICES ASSUME q <= -1 PROVE FALSE
    BY <1>1
  <2>1. m * q <= -m
    BY <1>1
  <2> QED BY <1>1, <2>1
<1> DEFINE t == m * s + r
           M == m * n
<1>4. M \in Nat \ {0} /\ t \in 0 .. (M - 1)
  <2>1. m * s \in Nat /\ m * s <= m * (n - 1) /\ m * (n - 1) = m * n - m /\ m * n \in Nat
    BY <1>2
  <2>2. m * n >= m
    OBVIOUS
  <2> QED BY <1>1, <2>1, <2>2
<1>5. x = M * e + t
  <2>1. m * q = m * (n * e) + m * s
    BY <1>1, <1>2
  <2>2. m * (n * e) = (m * n) * e
    BY <1>2
  <2>3. (m * n) * e \in Int /\ m * s \in Int
    BY <1>2
  <2> QED BY <1>1, <2>1, <2>2, <2>3
<1> HIDE DEF M, t
<1>6. x \div M = e
  BY <1>2, <1>4, <1>5, DivOf
<1> QED BY <1>1, <1>3, <1>6 DEF M, e, q

Digit(x, i) == CASE i = 0 -> x % ByteMod
                 [] i = 1 -> (x \div ByteMod) % ByteMod
                 [] i = 2 -> (x \div HalfMod) % ByteMod
                 [] i = 3 -> (x \div (HalfMod * ByteMod)) % ByteMod

LEMMA DigitType ==
  ASSUME NEW x \in Nat, NEW i \in 0 .. 3 PROVE Digit(x, i) \in 0 .. (ByteMod - 1)
<1>1. ByteMod \in Nat \ {0} /\ HalfMod \in Nat \ {0}
  BY Modulus
<1>2. ASSUME NEW y \in Nat PROVE y % ByteMod \in 0 .. (ByteMod - 1)
  BY <1>1, <1>2
<1>3. HalfMod * ByteMod \in Nat \ {0}
  BY <1>1
<1>4. /\ x \div ByteMod \in Nat /\ x \div HalfMod \in Nat
      /\ x \div (HalfMod * ByteMod) \in Nat
  BY <1>1, <1>3, DivDiv
<1> QED BY <1>2, <1>4 DEF Digit

LEMMA TwoDigits ==
  ASSUME NEW x \in Nat
  PROVE  /\ x % HalfMod = ((x \div ByteMod) % ByteMod) * ByteMod + (x % ByteMod)
         /\ x % HalfMod \in 0 .. (HalfMod - 1)
         /\ x = HalfMod * (x \div HalfMod) + (x % HalfMod)
<1> DEFINE m == ByteMod
           q == x \div m
           r == x % m
           e == q \div m
           s == q % m
<1>1. m \in Nat \ {0} /\ HalfMod = m * m /\ HalfMod \in Nat \ {0}
  BY Modulus DEF HalfMod
<1> HIDE DEF m
<1>2. q \in Nat
  BY <1>1, DivDiv
<1>3. r \in 0 .. (m - 1) /\ x = m * q + r
  BY <1>1
<1> HIDE DEF q, r
<1>4. e \in Int /\ s \in 0 .. (m - 1) /\ q = m * e + s
  BY <1>1, <1>2
<1> HIDE DEF e, s
<1> DEFINE t == s * m + r
<1>5. t \in 0 .. (HalfMod - 1)
  <2>1. s * m \in Nat /\ s * m <= (m - 1) * m /\ (m - 1) * m = m * m - m
    BY <1>1, <1>4
  <2> QED BY <1>1, <1>3, <2>1
<1>6. x = HalfMod * e + t
  <2>1. m * q = m * (m * e) + m * s
    BY <1>1, <1>2, <1>4
  <2>2. m * (m * e) = HalfMod * e /\ m * s = s * m
    BY <1>1, <1>4
  <2>3. HalfMod * e \in Int /\ s * m \in Int
    BY <1>1, <1>4
  <2> QED BY <1>1, <1>3, <2>1, <2>2, <2>3
<1>7. x % HalfMod = t
  <2>1. HalfMod \in Nat \ {0} /\ e \in Int
    BY <1>1, <1>4
  <2> HIDE DEF t
  <2> QED BY <1>5, <1>6, <2>1, DivOf
<1>8. x % HalfMod \in 0 .. (HalfMod - 1) /\ x = HalfMod * (x \div HalfMod) + (x % HalfMod)
  BY <1>1
<1> QED BY <1>7, <1>8 DEF s, q, r, m

LEMMA PairOf ==
  ASSUME NEW x \in Nat, NEW i \in 0 .. 2
  PROVE  /\ x \div Values(i) \in Nat
         /\ (x \div Values(i)) % HalfMod = Digit(x, i + 1) * ByteMod + Digit(x, i)
         /\ (x \div Values(i)) % HalfMod \in 0 .. (HalfMod - 1)
<1>1. ByteMod \in Nat \ {0} /\ HalfMod \in Nat \ {0} /\ HalfMod = ByteMod * ByteMod
  BY Modulus DEF HalfMod
<1>2. x \div 1 = x
  OBVIOUS
<1>3. /\ x \div ByteMod \in Nat /\ x \div HalfMod \in Nat
      /\ x \div HalfMod = (x \div ByteMod) \div ByteMod
      /\ x \div (HalfMod * ByteMod) = (x \div HalfMod) \div ByteMod
  BY <1>1, DivDiv
<1>4. CASE i = 0
  BY <1>2, <1>4, TwoDigits DEF Digit, Values
<1>5. CASE i = 1
  BY <1>3, <1>5, TwoDigits DEF Digit, Values
<1>6. CASE i = 2
  BY <1>3, <1>6, TwoDigits DEF Digit, Values
<1> QED BY <1>4, <1>5, <1>6

LEMMA WordOf ==
  ASSUME NEW x \in Word
  PROVE  x = (Digit(x, 3) * ByteMod + Digit(x, 2)) * HalfMod
               + (Digit(x, 1) * ByteMod + Digit(x, 0))
<1>1. x \in Nat /\ x < WordMod
  BY Modulus DEF Word
<1> DEFINE q == x \div HalfMod
           m == HalfMod
<1>2. m \in Nat \ {0} /\ WordMod = m * m
  BY Modulus DEF WordMod
<1>3. q \in Nat /\ x = m * q + (x % m) /\ x % m \in 0 .. (m - 1)
  BY <1>1, PairOf, TwoDigits, <1>2, DivDiv
<1>4. q % m = Digit(x, 3) * ByteMod + Digit(x, 2)
  BY <1>1, PairOf DEF Values
<1>5. x % m = Digit(x, 1) * ByteMod + Digit(x, 0)
  <2>1. (x \div Values(0)) % HalfMod = Digit(x, 0 + 1) * ByteMod + Digit(x, 0)
    BY <1>1, PairOf
  <2>2. x \div Values(0) = x
    BY <1>1 DEF Values
  <2> QED BY <2>1, <2>2
<1> HIDE DEF m, q
<1>6. q <= m - 1
  <2> SUFFICES ASSUME q >= m PROVE FALSE
    BY <1>2, <1>3
  <2>1. m * q >= m * m
    BY <1>2, <1>3
  <2> QED BY <1>1, <1>2, <1>3, <2>1
<1>7. q % m = q
  BY <1>2, <1>3, <1>6, SmallMod
<1>8. m * q = q * m
  BY <1>2, <1>3
<1> QED BY <1>3, <1>4, <1>5, <1>7, <1>8 DEF m

(* Four cells from any address on are distinct.                            *)
LEMMA CellsApart ==
  ASSUME MEMORY_SPACE >= 4, NEW address \in Nat
  PROVE  /\ \A i \in 0 .. 3 : At(address, i) \in Cell
         /\ \A i, j \in 0 .. 3 : At(address, i) = At(address, j) => i = j
<1> DEFINE m == MEMORY_SPACE
           q == address \div m
           r == address % m
<1>1. m \in Nat \ {0} /\ m >= 4
  BY MemorySpaceAssumption
<1>2. q \in Int /\ r \in 0 .. (m - 1) /\ address = m * q + r
  BY <1>1
<1> HIDE DEF m, q, r
<1>3. ASSUME NEW i \in 0 .. 3
      PROVE  (address + i) % m = IF r + i < m THEN r + i ELSE r + i - m
  <2>1. CASE r + i < m
    <3> DEFINE t == r + i
               x == address + i
    <3>1. t \in 0 .. (m - 1) /\ x = m * q + t
      <4>1. m * q \in Int
        BY <1>1, <1>2
      <4> QED BY <1>1, <1>2, <2>1, <4>1
    <3> HIDE DEF t, x
    <3>2. x % m = t
      BY <1>1, <1>2, <3>1, DivOf
    <3> QED BY <2>1, <3>2 DEF t, x
  <2>2. CASE ~(r + i < m)
    <3> DEFINE t == r + i - m
               x == address + i
               e == q + 1
    <3>1. t \in 0 .. (m - 1) /\ e \in Int /\ x = m * e + t
      <4>1. m * q \in Int /\ m * (q + 1) = m * q + m
        BY <1>1, <1>2
      <4> QED BY <1>1, <1>2, <2>2, <4>1
    <3> HIDE DEF t, x, e
    <3>2. x % m = t
      BY <1>1, <3>1, DivOf
    <3> QED BY <2>2, <3>2 DEF t, x
  <2> QED BY <2>1, <2>2
<1>4. ASSUME NEW i \in 0 .. 3
      PROVE  At(address, i) = IF r + i < m THEN r + i ELSE r + i - m
  BY <1>3 DEF At, m
<1>5. ASSUME NEW i \in 0 .. 3 PROVE At(address, i) \in 0 .. (m - 1)
  BY <1>1, <1>2, <1>4
<1> QED BY <1>1, <1>2, <1>4, <1>5 DEF Cell, m

(* A store puts a digit in each of its cells and leaves the others.        *)
LEMMA Stored ==
  ASSUME MEMORY_SPACE >= 4, NEW m \in MemoryType, NEW address \in Nat,
         NEW n \in {1, 2, 4}, NEW value
  PROVE  LET after == store(m, address, n, value)
         IN /\ \A i \in 0 .. (n - 1) : after[At(address, i)] = Digit(value, i)
            /\ \A c \in Cell :
                 after[c] # m[c] => \E i \in 0 .. (n - 1) : c = At(address, i)
<1> DEFINE after == store(m, address, n, value)
           Here(c, i) == i < n /\ c = At(address, i)
<1>1. ASSUME NEW c \in Cell
      PROVE  after[c] = IF Here(c, 3) THEN Digit(value, 3)
                        ELSE IF Here(c, 2) THEN Digit(value, 2)
                        ELSE IF Here(c, 1) THEN Digit(value, 1)
                        ELSE IF Here(c, 0) THEN Digit(value, 0)
                        ELSE m[c]
  BY DEF store, Digit
<1> HIDE DEF after
<1>2. ASSUME NEW i \in 0 .. (n - 1) PROVE after[At(address, i)] = Digit(value, i)
  <2>1. i \in 0 .. 3 /\ i < n
    OBVIOUS
  <2>2. At(address, i) \in Cell /\ Here(At(address, i), i)
    BY <2>1, CellsApart
  <2>3. \A j \in 0 .. 3 : Here(At(address, i), j) => i = j
    BY <2>1, CellsApart
  <2> HIDE DEF Here
  <2>4. i = 0 \/ i = 1 \/ i = 2 \/ i = 3
    BY <2>1
  <2> QED BY <1>1, <2>2, <2>3, <2>4
<1>3. ASSUME NEW c \in Cell, after[c] # m[c]
      PROVE  \E i \in 0 .. (n - 1) : c = At(address, i)
  <2>1. \E i \in 0 .. 3 : Here(c, i)
    BY <1>1, <1>3
  <2> QED BY <2>1
<1> QED BY <1>2, <1>3 DEF after

LEMMA Extension ==
  ASSUME NEW x \in Word PROVE SignExtends(x, x, WordMod)
<1>1. PICK w \in Nat : WordMod = 2 * w
  BY ModuliEven
<1>2. WordMod \in Nat \ {0} /\ x \in 0 .. (WordMod - 1) /\ WordMod \div 2 = w
  BY <1>1, Modulus DEF Word
<1>3. x % WordMod = x
  BY <1>2, SmallMod
<1>4. Signed(x) \in (-w) .. (w - 1)
  BY <1>1, <1>2 DEF Signed
<1>5. Signed(x) % WordMod = x % WordMod
  <2>1. PICK k \in {0, 1} : Signed(x) = x - WordMod * k
    BY SignedValue
  <2>2. x \in Int /\ k \in Int
    BY <1>2
  <2>3. (x - WordMod * k) % WordMod = x % WordMod
    BY <1>2, <2>2, DivShift
  <2> QED BY <2>1, <2>3
<1> QED BY <1>2, <1>4, <1>5 DEF SignExtends

(* A load within the bytes of a store.                                     *)
LEMMA LoadsDigits ==
  ASSUME NEW m, NEW x \in Word, NEW address \in Nat, NEW n \in 1 .. 4, NEW k \in 0 .. 3,
         NEW l \in {"lb", "lh", "lw"}, k + Size(l) <= n,
         \A i \in 0 .. (n - 1) : m[At(address, i)] = Digit(x, i)
  PROVE  SignExtends(LoadValue(m, address + k, l), x \div Values(k), Values(Size(l)))
<1>1. \A i \in 0 .. 3 : At(address + k, i) = At(address, k + i)
  <2>1. \A i \in 0 .. 3 : (address + k) + i = address + (k + i)
    OBVIOUS
  <2> QED BY <2>1 DEF At
<1>2. ASSUME NEW i \in 0 .. 3, k + i < n
      PROVE  m[At(address + k, i)] = Digit(x, k + i)
  <2>1. k + i \in 0 .. (n - 1)
    BY <1>2
  <2> QED BY <1>1, <2>1
<1>3. x \in Nat /\ x \in Word
  BY Modulus DEF Word
<1>4. ByteMod \in Nat \ {0} /\ HalfMod \in Nat \ {0} /\ HalfMod * ByteMod \in Nat \ {0}
  BY Modulus
<1>5. x \div Values(k) \in Nat /\ (x \div Values(k)) % ByteMod = Digit(x, k)
  <2>1. x \div 1 = x
    BY <1>3
  <2> QED BY <1>3, <1>4, <2>1, DivDiv DEF Values, Digit
<1>6. CASE l = "lb"
  <2>1. k + 0 = k /\ k + 0 < n
    BY <1>6 DEF Size
  <2>2. LoadValue(m, address + k, l) = sign_extend_number(Digit(x, k), ByteMod)
    BY <1>2, <1>6, <2>1 DEF LoadValue, load
  <2>3. SignExtends(sign_extend_number(Digit(x, k), ByteMod), x \div Values(k), ByteMod)
    BY <1>3, <1>5, DigitType, Extended
  <2> QED BY <1>6, <2>2, <2>3 DEF Size, Values
<1>7. CASE l = "lh"
  <2>1. k + 0 = k /\ k + 0 < n /\ k + 1 < n /\ k \in 0 .. 2
    BY <1>7 DEF Size
  <2> DEFINE f == Digit(x, k + 1) * ByteMod + Digit(x, k)
  <2>2. LoadValue(m, address + k, l) = sign_extend_number(f, HalfMod)
    BY <1>2, <1>7, <2>1 DEF LoadValue, load
  <2>3. f \in 0 .. (HalfMod - 1) /\ (x \div Values(k)) % HalfMod = f
    BY <1>3, <2>1, PairOf
  <2> HIDE DEF f
  <2>4. SignExtends(sign_extend_number(f, HalfMod), x \div Values(k), HalfMod)
    BY <1>5, <2>3, Extended
  <2> QED BY <1>7, <2>2, <2>4 DEF Size, Values
<1>8. CASE l = "lw"
  <2>1. k = 0 /\ n = 4
    BY <1>8 DEF Size
  <2>2. /\ m[At(address + k, 0)] = Digit(x, 0) /\ m[At(address + k, 1)] = Digit(x, 1)
        /\ m[At(address + k, 2)] = Digit(x, 2) /\ m[At(address + k, 3)] = Digit(x, 3)
    BY <1>2, <2>1
  <2>3. LoadValue(m, address + k, l) = x
    BY <1>8, <2>2, WordOf DEF LoadValue, load
  <2>4. x \div Values(k) = x /\ Values(Size(l)) = WordMod
    BY <1>3, <1>8, <2>1 DEF Values, Size
  <2> QED BY <2>3, <2>4, Extension
<1> QED BY <1>6, <1>7, <1>8

(* The memory returns what was stored: in every memory of four cells or    *)
(* more, for words of every width, a load within the bytes of a store      *)
(* reads its digits with their sign, and the store touches no other cell.  *)
THEOREM MemoryReturns == ASSUME MEMORY_SPACE >= 4 PROVE ESpec => []LoadsReadStores
<1>1. OperandsOK => LoadsReadStores
  <2> SUFFICES ASSUME OperandsOK, NEW s \in {"sb", "sh", "sw"}
               PROVE  LET after == StoreValue(memory, b, s, a)
                      IN /\ \A l \in {"lb", "lh", "lw"}, k \in 0 .. 3 :
                              k + Size(l) <= Size(s) =>
                                SignExtends(LoadValue(after, b + k, l),
                                            a \div Values(k), Values(Size(l)))
                         /\ \A c \in Cell :
                              after[c] # memory[c] =>
                                \E i \in 0 .. (Size(s) - 1) : c = At(b, i)
    BY DEF LoadsReadStores
  <2>1. a \in Word /\ b \in Nat /\ memory \in MemoryType /\ Size(s) \in {1, 2, 4} /\ Size(s) \in 1 .. 4
    BY Modulus DEF OperandsOK, Word, Size
  <2>2. StoreValue(memory, b, s, a) = store(memory, b, Size(s), a)
    BY DEF StoreValue, Size
  <2>3. /\ \A i \in 0 .. (Size(s) - 1) : StoreValue(memory, b, s, a)[At(b, i)] = Digit(a, i)
        /\ \A c \in Cell : StoreValue(memory, b, s, a)[c] # memory[c] =>
                             \E i \in 0 .. (Size(s) - 1) : c = At(b, i)
    BY <2>1, <2>2, Stored
  <2> QED BY <2>1, <2>3, LoadsDigits
<1> QED BY <1>1, OperandsCorrect, PTL
=============================================================================
