--------------------------------- MODULE Alu ---------------------------------
(***************************************************************************)
(* The arithmetic of the simulator, twice: execute_alu is the ALU of the   *)
(* pipeline (stage_helpers.h), Arith what the handlers of the emulator     *)
(* compute (emulator.c).                                                   *)
(*                                                                         *)
(* A shift by the width of a word or more is undefined in C; the x86 build *)
(* takes the amount modulo the width, and so do the definitions here.      *)
(***************************************************************************)
EXTENDS Memory, Control

CONSTANTS
  WordBits,    (* Width of a word: 32 in the code.                          *)
  LUI_SHIFT,   (* Position of the immediate of lui: 12 in the code.         *)
  BitAnd(_, _), BitOr(_, _), BitXor(_, _)   (* The operators &, | and ^.    *)

ASSUME WordBitsAssumption == WordBits \in Nat /\ 2^WordBits = WordMod
ASSUME LuiShiftAssumption == LUI_SHIFT \in 0 .. (WordBits - 1)

(* What powers are, up to that of the width.                               *)
ASSUME PowersAssumption ==
  /\ 2^0 = 1
  /\ \A n \in 0 .. (WordBits - 1) : 2^(n + 1) = 2 * 2^n

Signed(a) == IF a >= WordMod \div 2 THEN a - WordMod ELSE a
ToWord(a) == a % WordMod

ShiftLeft(a, n)  == ToWord(a * 2^(n % WordBits))
ShiftRight(a, n) == a \div 2^(n % WordBits)

execute_alu(inp1, inp2, alu_control) ==
  CASE alu_control = "and" -> BitAnd(inp1, inp2)
    [] alu_control = "or"  -> BitOr(inp1, inp2)
    [] alu_control = "add" -> Plus(inp1, inp2)
    [] alu_control = "xor" -> BitXor(inp1, inp2)
    [] alu_control = "sll" -> ShiftLeft(inp1, inp2)
    [] alu_control = "srl" -> ShiftRight(inp1, inp2)
    [] alu_control = "sub" -> Minus(inp1, inp2)
    [] alu_control = "slt" -> IF Signed(inp1) < Signed(inp2) THEN 1 ELSE 0
    [] alu_control = "lui" -> ShiftLeft(inp2, LUI_SHIFT)
    [] alu_control = "sra" ->
         sign_extend_number(ShiftRight(inp1, inp2), 2^(WordBits - (inp2 % WordBits)))
    [] alu_control = "mul" -> ToWord(Signed(inp1) * Signed(inp2))

(* Division of C: the quotient is truncated towards zero.                  *)
Abs(a) == IF a < 0 THEN -a ELSE a
Quotient(a, b) ==
  IF (a < 0) = (b < 0) THEN Abs(a) \div Abs(b) ELSE -(Abs(a) \div Abs(b))

Arith(op, fn, a, b) ==
  IF op = "lui" THEN ToWord(Signed(b) * 2^LUI_SHIFT)
  ELSE
  CASE fn = "add"  -> ToWord(Signed(a) + Signed(b))
    [] fn = "sub"  -> ToWord(Signed(a) - Signed(b))
    [] fn = "mul"  -> ToWord(Signed(a) * Signed(b))
    [] fn = "sll"  -> ShiftLeft(a, b)
    [] fn = "mulh" -> ToWord((Signed(a) * Signed(b)) \div WordMod)
    [] fn = "slt"  -> IF Signed(a) < Signed(b) THEN 1 ELSE 0
    [] fn = "xor"  -> BitXor(a, b)
    [] fn = "div"  -> ToWord(Quotient(Signed(a), Signed(b)))
    [] fn = "srl"  -> ShiftRight(a, b)
    [] fn = "sra"  -> ToWord(Signed(a) \div 2^(b % WordBits))
    [] fn = "or"   -> BitOr(a, b)
    [] fn = "rem"  -> ToWord(Signed(a) - Signed(b) * Quotient(Signed(a), Signed(b)))
    [] fn = "and"  -> BitAnd(a, b)
=============================================================================
