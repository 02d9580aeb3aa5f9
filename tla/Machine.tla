------------------------------- MODULE Machine -------------------------------
(***************************************************************************)
(* The machine that main() of riscv.c sets up before it hands the program  *)
(* to the emulator (option -m) or to the pipeline (option -s).             *)
(***************************************************************************)
EXTENDS Memory

CONSTANTS
  START,           (* Initial PC: 0x1000 in the code.                       *)
  INIT_REG,        (* Initial registers: 0, or 4 with option -v.            *)
  STACK_POINTER,   (* Initial R[2]: 0xEFFFF in the code.                    *)
  GLOBAL_POINTER,  (* Initial R[3]: 0x3000 in the code.                     *)
  A0,              (* The register of the ecall number: 10.                 *)
  EXIT_CALL        (* The ecall number that exits: 10.                      *)

ASSUME MachineAssumption == /\ {START, INIT_REG, STACK_POINTER,
                                GLOBAL_POINTER, EXIT_CALL} \subseteq Word
                            /\ A0 \in Reg \ {0}

InitRegs ==
  [r \in Reg |-> CASE r = 0 -> 0
                   [] r = 2 -> STACK_POINTER
                   [] r = 3 -> GLOBAL_POINTER
                   [] OTHER -> INIT_REG]

InitMemory == [c \in Cell |-> 0]

(* A program: instructions at some addresses, zero words elsewhere.        *)
IsProgram(program) ==
  DOMAIN program \subseteq Word /\ \A a \in DOMAIN program : program[a] \in Instruction
=============================================================================
