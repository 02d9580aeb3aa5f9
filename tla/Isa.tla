--------------------------------- MODULE Isa ---------------------------------
(***************************************************************************)
(* The words, registers and instructions that the emulator, the pipeline   *)
(* and the cache of the simulator have in common (types.h, and the decoded *)
(* form that parse_instruction and gen_imm of the source produce).         *)
(*                                                                         *)
(* A word of the code is four bytes of eight bits.  Here a byte has        *)
(* ByteMod values, so that a word has ByteMod^4 of them and all arithmetic *)
(* wraps at that width, as it does at 2^32 in the code.                    *)
(***************************************************************************)
EXTENDS Integers

CONSTANTS
  ByteMod,      (* Number of values of a byte: 256 in the code.             *)
  NumRegs,      (* Number of registers: 32 in the code.                     *)
  MEMORY_SPACE  (* Number of bytes of data memory: 1 MByte in the code.     *)

ASSUME ByteModAssumption == ByteMod \in Nat /\ ByteMod >= 2
ASSUME NumRegsAssumption == NumRegs \in Nat /\ NumRegs >= 2
ASSUME MemorySpaceAssumption == MEMORY_SPACE \in Nat /\ MEMORY_SPACE >= 1

HalfMod == ByteMod * ByteMod
WordMod == HalfMod * HalfMod

Byte == 0 .. (ByteMod - 1)
Word == 0 .. (WordMod - 1)
Reg  == 0 .. (NumRegs - 1)
Cell == 0 .. (MEMORY_SPACE - 1)

(* Addition and subtraction on uint32_t wrap around. *)
Plus(a, b)  == (a + b) % WordMod
Minus(a, b) == (a - b) % WordMod

(***************************************************************************)
(* Instructions.  op is the format that the opcode selects, "zero" being   *)
(* the word 0, which parse_instruction rejects and which also fills the    *)
(* pipeline registers before the first instruction reaches them.  fn is    *)
(* the operation that funct3 and funct7 select, "other" standing for a     *)
(* funct3 that no switch of the source has a case for.  rd, rs1 and rs2    *)
(* are the bits 11..7, 19..15 and 24..20 of the word WHATEVER its format:  *)
(* in an I-type instruction rs2 is a piece of the immediate, and the       *)
(* hazard unit of the pipeline looks at it all the same.  imm is the       *)
(* immediate as gen_imm and the get_*_offset functions extract it.         *)
(***************************************************************************)
Opcode == {"rtype", "itype", "load", "store", "branch", "lui", "jal",
           "ecall", "zero"}

RtypeFn  == {"add", "sub", "mul", "sll", "mulh", "slt", "xor", "div", "srl",
             "sra", "or", "rem", "and", "other"}
ItypeFn  == {"add", "sll", "slt", "xor", "srl", "sra", "or", "and", "other"}
LoadFn   == {"lb", "lh", "lw", "other"}
StoreFn  == {"sb", "sh", "sw", "other"}
BranchFn == {"beq", "bne", "other"}
Funct    == RtypeFn \union LoadFn \union StoreFn \union BranchFn

Instruction == [op : Opcode, fn : Funct, rd : Reg, rs1 : Reg, rs2 : Reg,
                imm : Word]

(* 0x00000013: addi x0, x0, 0. *)
NOP == [op |-> "itype", fn |-> "add", rd |-> 0, rs1 |-> 0, rs2 |-> 0, imm |-> 0]

(* 0x00000000. *)
ZERO == [op |-> "zero", fn |-> "other", rd |-> 0, rs1 |-> 0, rs2 |-> 0, imm |-> 0]

(* The register an instruction writes, and those it reads.                 *)
Writes(i) == i.op \in {"rtype", "itype", "load", "lui", "jal"}
Sources(i) == IF i.op \in {"rtype", "store", "branch"} THEN {i.rs1, i.rs2}
              ELSE IF i.op \in {"itype", "load"} THEN {i.rs1}
              ELSE {}

(* The instruction at an address: memory outside the program is zero.      *)
InstrAt(imem, pc) == IF pc \in DOMAIN imem THEN imem[pc] ELSE ZERO
=============================================================================
