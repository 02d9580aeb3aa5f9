------------------------------ MODULE Encoding -------------------------------
(***************************************************************************)
(* Instructions as the bits of a word: the fields of the union Instruction *)
(* (types.h), parse_instruction and the offset functions (utils.c), gen_imm*)
(* and the funct bits of the decode stage, and the three places that tell  *)
(* from these bits what an instruction does: the handlers of the emulator, *)
(* the ALU control of the pipeline and the disassembler.  The other        *)
(* modules work on instruction(w), the record a word stands for.           *)
(*                                                                         *)
(* A word is its opcode, the low 7 bits, and the 25 bits above, as in the  *)
(* first struct of the union; a shift is a division or a multiplication.   *)
(***************************************************************************)
EXTENDS Control

Rest == {r \in Nat : r < 8192 * 4096}

MachineWord == [opcode : 0 .. 127, rest : Rest]

(***************************************************************************)
(* The fields of the union.  Every format names pieces of the same bits.   *)
(***************************************************************************)
RD(w)     == w.rest % 32
FUNCT3(w) == (w.rest \div 32) % 8
RS1(w)    == (w.rest \div 256) % 32
RS2(w)    == (w.rest \div 8192) % 32
FUNCT7(w) == w.rest \div (8192 * 32)
IMM12(w)  == w.rest \div 8192
IMM20(w)  == w.rest \div 32

(* The formats by opcode, "zero" for an opcode that no switch knows.       *)
OP(w) ==
  CASE w.opcode = 51  -> "rtype"      (* 0x33 *)
    [] w.opcode = 19  -> "itype"      (* 0x13 *)
    [] w.opcode = 3   -> "load"       (* 0x03 *)
    [] w.opcode = 35  -> "store"      (* 0x23 *)
    [] w.opcode = 99  -> "branch"     (* 0x63 *)
    [] w.opcode = 55  -> "lui"        (* 0x37 *)
    [] w.opcode = 111 -> "jal"        (* 0x6F *)
    [] w.opcode = 115 -> "ecall"      (* 0x73 *)
    [] OTHER          -> "zero"

Known(w) == OP(w) # "zero"

(***************************************************************************)
(* parse_instruction takes the fields off the low end of the shifted word, *)
(* one after the other, and stores each in its place in the union.  It     *)
(* clears the bits of an ecall.                                            *)
(***************************************************************************)
After(bits, n) == bits \div n   (* instruction_bits >>= k, where n is 2^k. *)

parse_instruction_ShortFunct7(w) == [w EXCEPT !.rest = w.rest % (4096 * 4096)]

parse_instruction(w) ==
  LET rd     == w.rest
      funct3 == After(rd, 32)
      rs1    == After(funct3, 8)
      rs2    == After(rs1, 32)
      funct7 == After(rs2, 32)
      head   == (rd % 32) + 32 * (funct3 % 8) + 256 * (rs1 % 32)
  IN [w EXCEPT !.rest =
        CASE OP(w) \in {"rtype", "store", "branch"} ->
               head + 8192 * (rs2 % 32) + (8192 * 32) * (funct7 % 128)
          [] OP(w) \in {"itype", "load"} -> head + 8192 * (rs2 % 4096)
          [] OP(w) \in {"lui", "jal"} -> (rd % 32) + 32 * (funct3 % (1024 * 1024))
          [] OTHER -> 0]

(***************************************************************************)
(* Immediates, as signed integers.                                         *)
(***************************************************************************)
(* The two shifts by 32 - n drop what lies above the n bits; mod is 2^n.   *)
sign_extend(field, mod) ==
  LET low == field % mod IN IF low >= mod \div 2 THEN low - mod ELSE low

get_branch_offset_SwapsBits(w) ==
  sign_extend(
    2 * (2048 * (RD(w) % 2) + 1024 * ((FUNCT7(w) \div 64) % 2)
         + 16 * (FUNCT7(w) % 64) + ((RD(w) \div 2) % 16)), 8192)

get_branch_offset(w) ==
  LET imm12   == 2048 * ((FUNCT7(w) \div 64) % 2)
      imm11   == 1024 * (RD(w) % 2)
      imm10_5 == 16 * (FUNCT7(w) % 64)
      imm4_1  == (RD(w) \div 2) % 16
  IN sign_extend(2 * (imm12 + imm11 + imm10_5 + imm4_1), 8192)

get_jump_offset(w) ==
  LET imm20    == (1024 * 512) * (IMM20(w) \div (1024 * 512))
      imm19_12 == 2048 * (IMM20(w) % 256)
      imm11    == 1024 * ((IMM20(w) \div 256) % 2)
      imm10_1  == (IMM20(w) \div 512) % 1024
  IN sign_extend(2 * (imm20 + imm19_12 + imm11 + imm10_1), 2 * 1024 * 1024)

get_store_offset(w) == sign_extend(32 * FUNCT7(w) + RD(w), 4096)

Shifts(w) == FUNCT3(w) \in {1, 5}

gen_imm(w) ==
  CASE OP(w) = "branch" -> get_branch_offset(w)
    [] OP(w) = "itype" /\ Shifts(w) ->
         IF FUNCT7(w) \in {0, 32} THEN IMM12(w) % 32 ELSE 0
    [] OP(w) = "itype" /\ ~Shifts(w) -> sign_extend(IMM12(w), 4096)
    [] OP(w) = "store" -> get_store_offset(w)
    [] OP(w) = "load"  -> sign_extend(IMM12(w), 4096)
    [] OP(w) = "jal"   -> get_jump_offset(w)
    [] OP(w) = "lui"   -> sign_extend(IMM20(w), 1024 * 1024)
    [] OTHER           -> 0

(***************************************************************************)
(* The funct bits that decode hands to execute, and gen_alu_control on     *)
(* them.  funct7_30 keeps two bits of funct7, bits 31 and 30 of the word.  *)
(***************************************************************************)
funct7_30(w) == CASE OP(w) = "rtype" -> (2 * FUNCT7(w)) \div 64
                  [] OP(w) = "itype" -> (2 * IMM12(w)) \div 2048
                  [] OTHER           -> 0

funct7_25_Bit26(w) == CASE OP(w) = "rtype" -> (FUNCT7(w) \div 2) % 2
                        [] OP(w) = "itype" -> (IMM12(w) \div 16) % 2
                        [] OTHER           -> 0

funct7_25(w) == CASE OP(w) = "rtype" -> FUNCT7(w) % 2
                  [] OP(w) = "itype" -> (IMM12(w) \div 16) % 2
                  [] OTHER           -> 0

(* R-type and I-type share the rows with a funct3 other than 0.            *)
FunctControl(f3, f30) ==
  CASE f3 = 1             -> "sll"
    [] f3 = 2             -> "slt"
    [] f3 = 4             -> "xor"
    [] f3 = 5 /\ f30 = 0  -> "srl"
    [] f3 = 5 /\ f30 = 1  -> "sra"
    [] f3 = 6             -> "or"
    [] OTHER              -> "and"

alu_control(w) ==
  LET alu_op == gen_control([op |-> OP(w)]).alu_op
      f3     == FUNCT3(w)
      f30    == funct7_30(w)
  IN CASE alu_op = <<1, 0, 0>> -> "lui"
       [] alu_op = <<0, 0, 0>> -> "add"
       [] alu_op = <<0, 0, 1>> -> "sub"
       [] alu_op = <<0, 1, 0>> /\ f3 = 0 ->
            CASE f30 = 0 -> IF funct7_25(w) = 0 THEN "add" ELSE "mul"
              [] f30 = 1 -> "sub"
              [] OTHER   -> "and"
       [] alu_op = <<0, 1, 1>> /\ f3 = 0 -> "add"
       [] OTHER -> FunctControl(f3, f30)

(***************************************************************************)
(* The emulator.  A row is an operation, its funct3 and its funct7; a      *)
(* funct3 without a row is "other", a funct7 without one "illegal": the    *)
(* handler ends the process.                                               *)
(***************************************************************************)
Lookup(rows, f3, f7) ==
  IF \E r \in rows : r[2] = f3 /\ r[3] = f7
  THEN (CHOOSE r \in rows : r[2] = f3 /\ r[3] = f7)[1]
  ELSE IF \E r \in rows : r[2] = f3 THEN "illegal" ELSE "other"

execute_rtype_rows ==
  {<<"add", 0, 0>>, <<"mul", 0, 1>>, <<"sub", 0, 32>>, <<"sll", 1, 0>>,
   <<"mulh", 1, 1>>, <<"slt", 2, 0>>, <<"xor", 4, 0>>, <<"div", 4, 1>>,
   <<"srl", 5, 0>>, <<"sra", 5, 32>>, <<"or", 6, 0>>, <<"rem", 6, 1>>,
   <<"and", 7, 0>>}

execute_itype_rows ==
  {<<"add", 0, 0>>, <<"sll", 1, 0>>, <<"slt", 2, 0>>, <<"xor", 4, 0>>,
   <<"srl", 5, 0>>, <<"sra", 5, 32>>, <<"or", 6, 0>>, <<"and", 7, 0>>}

execute_load_rows   == {<<"lb", 0, 0>>, <<"lh", 1, 0>>, <<"lw", 2, 0>>}
execute_store_rows  == {<<"sb", 0, 0>>, <<"sh", 1, 0>>, <<"sw", 2, 0>>}
execute_branch_rows == {<<"beq", 0, 0>>, <<"bne", 1, 0>>}

emulator_fn(w) ==
  CASE OP(w) = "rtype"  -> Lookup(execute_rtype_rows, FUNCT3(w), FUNCT7(w))
    [] OP(w) = "itype"  -> Lookup(execute_itype_rows, FUNCT3(w),
                                  IF Shifts(w) THEN FUNCT7(w) ELSE 0)
    [] OP(w) = "load"   -> Lookup(execute_load_rows, FUNCT3(w), 0)
    [] OP(w) = "store"  -> Lookup(execute_store_rows, FUNCT3(w), 0)
    [] OP(w) = "branch" -> Lookup(execute_branch_rows, FUNCT3(w), 0)
    [] OTHER            -> "other"

(* The immediate the handler computes with. *)
emulator_imm(w) ==
  CASE OP(w) \in {"itype", "load"} ->
         IF OP(w) = "itype" /\ Shifts(w) THEN IMM12(w) % 32
         ELSE sign_extend(IMM12(w), 4096)
    [] OP(w) = "store"  -> get_store_offset(w)
    [] OP(w) = "branch" -> get_branch_offset(w)
    [] OP(w) = "jal"    -> get_jump_offset(w)
    [] OP(w) = "lui"    -> sign_extend(IMM20(w), 1024 * 1024)
    [] OTHER            -> 0

(* The instruction that the other modules execute for this word; they take *)
(* its immediate modulo the word.                                          *)
instruction(w) ==
  LET p == parse_instruction(w)
  IN [op |-> OP(p), fn |-> emulator_fn(p), rd |-> RD(p), rs1 |-> RS1(p),
      rs2 |-> RS2(p), imm |-> emulator_imm(p)]

Represented(w) == emulator_fn(parse_instruction(w)) # "illegal"

(***************************************************************************)
(* The disassembler: the operation and the operands it prints, in the      *)
(* order of its formats.                                                   *)
(***************************************************************************)
write_rtype_rows ==
  {<<"add", 0, 0>>, <<"mul", 0, 1>>, <<"sub", 0, 32>>, <<"sll", 1, 0>>,
   <<"mulh", 1, 1>>, <<"slt", 2, 0>>, <<"xor", 4, 0>>, <<"div", 4, 1>>,
   <<"srl", 5, 0>>, <<"sra", 5, 32>>, <<"or", 6, 0>>, <<"rem", 6, 1>>,
   <<"and", 7, 0>>}

write_itype_rows ==
  {<<"add", 0, 0>>, <<"sll", 1, 0>>, <<"slt", 2, 0>>, <<"xor", 4, 0>>,
   <<"srl", 5, 0>>, <<"sra", 5, 32>>, <<"or", 6, 0>>, <<"and", 7, 0>>}

write_load_rows   == {<<"lb", 0, 0>>, <<"lh", 1, 0>>, <<"lw", 2, 0>>}
write_store_rows  == {<<"sb", 0, 0>>, <<"sh", 1, 0>>, <<"sw", 2, 0>>}
write_branch_rows == {<<"beq", 0, 0>>, <<"bne", 1, 0>>}

(* handle_invalid_instruction prints the word and returns.                 *)
Line(name, operands) ==
  IF name \in {"illegal", "other"} THEN <<"Invalid Instruction">>
  ELSE <<name, operands>>

write_itype_except_load_RawShift(w) ==
  Line(Lookup(write_itype_rows, FUNCT3(w), IF Shifts(w) THEN FUNCT7(w) ELSE 0),
       <<RD(w), RS1(w), sign_extend(IMM12(w), 4096)>>)

write_itype_except_load(w) ==
  Line(Lookup(write_itype_rows, FUNCT3(w), IF Shifts(w) THEN FUNCT7(w) ELSE 0),
       <<RD(w), RS1(w),
         sign_extend(IF Shifts(w) THEN IMM12(w) % 32 ELSE IMM12(w), 4096)>>)

decode_instruction(w) ==
  CASE OP(w) = "rtype"  -> Line(Lookup(write_rtype_rows, FUNCT3(w), FUNCT7(w)),
                                <<RD(w), RS1(w), RS2(w)>>)
    [] OP(w) = "itype"  -> write_itype_except_load(w)
    [] OP(w) = "load"   -> Line(Lookup(write_load_rows, FUNCT3(w), 0),
                                <<RD(w), sign_extend(IMM12(w), 4096), RS1(w)>>)
    [] OP(w) = "store"  -> Line(Lookup(write_store_rows, FUNCT3(w), 0),
                                <<RS2(w), get_store_offset(w), RS1(w)>>)
    [] OP(w) = "branch" -> Line(Lookup(write_branch_rows, FUNCT3(w), 0),
                                <<RS1(w), RS2(w), get_branch_offset(w)>>)
    [] OP(w) = "lui"    -> <<"lui", <<RD(w), IMM20(w)>>>>
    [] OP(w) = "jal"    -> <<"jal", <<RD(w), get_jump_offset(w)>>>>
    [] OP(w) = "ecall"  -> <<"ecall", <<>>>>
=============================================================================
