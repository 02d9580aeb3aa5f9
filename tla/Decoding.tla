------------------------------ MODULE Decoding -------------------------------
(***************************************************************************)
(* One word of 32 bits in the hands of parse_instruction, the decode stage,*)
(* the emulator and the disassembler.                                      *)
(***************************************************************************)
EXTENDS Encoding

VARIABLE word   (* An instruction of 32 bits.                               *)

WTypeOK == word \in MachineWord
NextWord == word' \in MachineWord
WSpec == WTypeOK /\ [][NextWord]_word

(* parse_instruction loses no bit of a word and moves none, so that the    *)
(* hazard unit may read the fields of one format in a word of another.     *)
FieldsKept ==
  Known(word) /\ OP(word) # "ecall" => parse_instruction(word) = word

(* The scattered bits of an offset are put together as the RISC-V formats  *)
(* B, J, S and I say.  Bits(w, at, mod) are the bits from the one of value *)
(* at in rest, as many as there are in mod.                                *)
Bits(w, at, mod) == (w.rest \div at) % mod

OffsetsFollowIsa ==
  LET bit31 == Bits(word, 4096 * 4096, 2)
      bits30_25 == Bits(word, 8192 * 32, 64)
  IN CASE OP(word) = "branch" ->    (* 31, 7, 30..25, 11..8 *)
            gen_imm(word) = 2048 * Bits(word, 1, 2) + 32 * bits30_25
                         + 2 * Bits(word, 2, 16) - 4096 * bit31
       [] OP(word) = "jal" ->       (* 31, 19..12, 20, 30..21 *)
            gen_imm(word) = 4096 * Bits(word, 32, 256) + 2048 * Bits(word, 8192, 2)
                         + 2 * Bits(word, 16384, 1024) - (1024 * 1024) * bit31
       [] OP(word) = "store" ->     (* 31, 30..25, 11..7 *)
            gen_imm(word) = 32 * bits30_25 + Bits(word, 1, 32) - 2048 * bit31
       [] OP(word) = "load" ->      (* 31, 30..20 *)
            gen_imm(word) = Bits(word, 8192, 2048) - 2048 * bit31
       [] OTHER -> TRUE

(* Decode and execute take from the bits of a word the immediate and the   *)
(* ALU control of the instruction that the emulator executes for it.       *)
PipelineDecodes ==
  Known(word) /\ Represented(word) =>
    LET i == instruction(word)
        p == parse_instruction(word)
    IN /\ i.op \in Opcode /\ i.fn \in Funct
       /\ gen_imm(p) = i.imm
       /\ alu_control(p) = gen_alu_control(gen_control(i).alu_op, i.fn)

(* The disassembler prints the operation and the operands that the         *)
(* emulator executes, and calls a word invalid exactly if the emulator     *)
(* does; of lui it prints the 20 bits of the immediate as they stand.      *)
Printed(w) ==
  LET i == instruction(w)
  IN CASE i.op = "rtype"  -> <<i.rd, i.rs1, i.rs2>>
       [] i.op = "itype"  -> <<i.rd, i.rs1, i.imm>>
       [] i.op = "load"   -> <<i.rd, i.imm, i.rs1>>
       [] i.op = "store"  -> <<i.rs2, i.imm, i.rs1>>
       [] i.op = "branch" -> <<i.rs1, i.rs2, i.imm>>
       [] i.op = "lui"    -> <<i.rd, i.imm % (1024 * 1024)>>
       [] i.op = "jal"    -> <<i.rd, i.imm>>
       [] i.op = "ecall"  -> <<>>

DisassemblerAgrees ==
  Known(word) =>
    LET i == instruction(word)
        name == IF i.op \in {"lui", "jal", "ecall"} THEN i.op ELSE i.fn
    IN decode_instruction(parse_instruction(word)) = Line(name, Printed(word))
=============================================================================
