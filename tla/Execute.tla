------------------------------- MODULE Execute -------------------------------
(***************************************************************************)
(* The execute stage on its own: any two operands at the inputs of the     *)
(* ALU, any instruction that it may execute with them, and any memory      *)
(* behind it.                                                              *)
(***************************************************************************)
EXTENDS Alu

VARIABLES
  a, b,    (* The operands at the inputs of the ALU.                          *)
  memory   (* The memory that a store or a load would find.                   *)

Operands == a' \in Word /\ b' \in Word /\ memory' \in MemoryType

EInit == a = 0 /\ b = 0 /\ memory = [c \in Cell |-> 0]
ESpec == EInit /\ [][Operands]_<<a, b, memory>>

Instr(o, f) == [op |-> o, fn |-> f, rd |-> 1, rs1 |-> 1, rs2 |-> 1, imm |-> b]

(* What stage_execute computes for an instruction with these operands.     *)
Executed(i) == execute_alu(a, b, gen_alu_control(gen_control(i).alu_op, i.fn))

MultiplyFn == {"mulh", "div", "rem"}

(* Every R-type operation of the base set and mul means in the pipeline    *)
(* what it means in the emulator: signs, widths and shift amounts.         *)
RtypeAgrees ==
  \A f \in RtypeFn \ (MultiplyFn \union {"other"}) :
    Executed(Instr("rtype", f)) = Arith("rtype", f, a, b)

(* So does every operation with an immediate, and lui; a load or a store   *)
(* adds its offset, whatever its funct3 selects in other formats.          *)
ImmediatesAgree ==
  /\ \A f \in ItypeFn \ {"other"} :
       Executed(Instr("itype", f)) = Arith("itype", f, a, b)
  /\ Executed(Instr("lui", "other")) = Arith("lui", "other", 0, b)
  /\ \A f \in LoadFn : Executed(Instr("load", f)) = Plus(a, b)
  /\ \A f \in StoreFn : Executed(Instr("store", f)) = Plus(a, b)

(* gen_branch decides on the ALU result alone: it is 0 exactly if the      *)
(* operands are equal, which the subtraction modulo the word preserves.    *)
BranchesAgree ==
  \A f \in BranchFn : (Executed(Instr("branch", f)) = 0) <=> (a = b)

(* Number of bytes of an access, and of values of so many bytes.           *)
Size(f) == CASE f \in {"lb", "sb"} -> 1 [] f \in {"lh", "sh"} -> 2 [] f \in {"lw", "sw"} -> 4

Values(bytes) == CASE bytes = 0 -> 1
                   [] bytes = 1 -> ByteMod
                   [] bytes = 2 -> HalfMod
                   [] bytes = 3 -> HalfMod * ByteMod
                   [] bytes = 4 -> WordMod

(* The word v is the number of mod values, in two's complement, that the   *)
(* low digits of x stand for.                                              *)
SignExtends(v, x, mod) == /\ Signed(v) \in -(mod \div 2) .. (mod \div 2 - 1)
                          /\ Signed(v) % mod = x % mod

(* stage_mem and the handlers of the emulator share load, store and        *)
(* sign_extend_number, so that comparing one with the other cannot see a   *)
(* slip there.  A load of any width, at any place within the bytes of a    *)
(* store, reads these digits of the stored value with their sign, and the  *)
(* store has touched no cell besides.                                      *)
LoadsReadStores ==
  \A s \in {"sb", "sh", "sw"} :
    LET after == StoreValue(memory, b, s, a)
    IN /\ \A l \in {"lb", "lh", "lw"}, k \in 0 .. 3 :
            k + Size(l) <= Size(s) /\ b + k \in Word =>
              SignExtends(LoadValue(after, b + k, l), a \div Values(k), Values(Size(l)))
       /\ \A c \in Cell :
            after[c] # memory[c] => \E i \in 0 .. (Size(s) - 1) : c = At(b, i)

(* The comment of gen_alu_control: bit 25 is used for recognizing multiply *)
(* instructions.                                                           *)
MultiplyRecognized ==
  \A f \in MultiplyFn :
    (f # "mulh" => b # 0 /\ ~(a = WordMod \div 2 /\ b = WordMod - 1)) =>
      Executed(Instr("rtype", f)) = Arith("rtype", f, a, b)
=============================================================================
