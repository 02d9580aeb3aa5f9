------------------------------- MODULE Emulator ------------------------------
(***************************************************************************)
(* The instruction-level emulator (emulator.c, and execute_emu of riscv.c):*)
(* one instruction is fetched, executed and retired per step.  It is the   *)
(* simulator's own definition of the architecture, and the abstract        *)
(* specification that the pipeline is checked against.                     *)
(***************************************************************************)
EXTENDS Machine

CONSTANTS
  ARITH(_, _, _, _),  (* ARITH(op, fn, a, b): arithmetic of the handlers.   *)
  PRINT_CALLS         (* The ecalls that print: {1, 4, 11} in the code.     *)

VARIABLES
  PC,       (* regfile->PC.                                                 *)
  R,        (* regfile->R.                                                  *)
  memory,   (* Data memory.                                                 *)
  imem,     (* The program: instructions by address.  The part of memory    *)
            (* that holds code is kept apart from the part stores write.    *)
  exit      (* How the process ended, "no" while it runs.                   *)

vars == <<PC, R, memory, imem, exit>>

Exits == {"no", "exit", "failure", "sigfpe"}

TypeOK ==
  /\ PC \in Word
  /\ R \in [Reg -> Word]
  /\ memory \in MemoryType
  /\ exit \in Exits

Init ==
  /\ PC = START
  /\ R = InitRegs
  /\ memory = InitMemory
  /\ exit = "no"

(* The handler's write to rd, and execute_emu's R[0] = 0 after it.         *)
Written(rd, value) == [R EXCEPT ![rd] = value, ![0] = 0]

Advance == PC' = Plus(PC, 4)

Stop(how) == exit' = how /\ UNCHANGED <<PC, R, memory>>

(* idiv traps on a zero divisor and on the quotient 2^31.                  *)
DivisionTraps(i) ==
  /\ i.fn \in {"div", "rem"}
  /\ \/ R[i.rs2] = 0
     \/ R[i.rs1] = WordMod \div 2 /\ R[i.rs2] = WordMod - 1

execute_rtype(i) ==
  /\ i.op = "rtype"
  /\ IF i.fn = "other" THEN Stop("failure")
     ELSE IF DivisionTraps(i) THEN Stop("sigfpe")
     ELSE /\ R' = Written(i.rd, ARITH("rtype", i.fn, R[i.rs1], R[i.rs2]))
          /\ Advance
          /\ UNCHANGED <<memory, exit>>

(* An unknown funct3 is reported but does not stop the emulator.           *)
execute_itype_except_load(i) ==
  /\ i.op = "itype"
  /\ R' = IF i.fn = "other" THEN R
          ELSE Written(i.rd, ARITH("itype", i.fn, R[i.rs1], i.imm))
  /\ Advance
  /\ UNCHANGED <<memory, exit>>

execute_load(i) ==
  /\ i.op = "load"
  /\ R' = IF i.fn = "other" THEN R
          ELSE Written(i.rd, LoadValue(memory, Plus(R[i.rs1], i.imm), i.fn))
  /\ Advance
  /\ UNCHANGED <<memory, exit>>

execute_store(i) ==
  /\ i.op = "store"
  /\ IF i.fn = "other" THEN Stop("failure")
     ELSE /\ memory' = StoreValue(memory, Plus(R[i.rs1], i.imm), i.fn, R[i.rs2])
          /\ Advance
          /\ UNCHANGED <<R, exit>>

BranchTaken(i) == IF i.fn = "beq" THEN R[i.rs1] = R[i.rs2] ELSE R[i.rs1] # R[i.rs2]

execute_branch(i) ==
  /\ i.op = "branch"
  /\ IF i.fn = "other" THEN Stop("failure")
     ELSE /\ PC' = Plus(PC, IF BranchTaken(i) THEN i.imm ELSE 4)
          /\ UNCHANGED <<R, memory, exit>>

execute_jal(i) ==
  /\ i.op = "jal"
  /\ R' = Written(i.rd, Plus(PC, 4))
  /\ PC' = Plus(PC, i.imm)
  /\ UNCHANGED <<memory, exit>>

execute_lui(i) ==
  /\ i.op = "lui"
  /\ R' = Written(i.rd, ARITH("lui", i.fn, 0, i.imm))
  /\ Advance
  /\ UNCHANGED <<memory, exit>>

execute_ecall(i) ==
  /\ i.op = "ecall"
  /\ IF R[A0] = EXIT_CALL THEN Stop("exit")
     ELSE IF R[A0] \in PRINT_CALLS
          THEN Advance /\ UNCHANGED <<R, memory, exit>>
          ELSE Stop("failure")

(* parse_instruction exits on a word with an unknown opcode.               *)
parse_failure(i) == i.op = "zero" /\ Stop("failure")

execute_instruction(i) ==
  \/ execute_rtype(i)
  \/ execute_itype_except_load(i)
  \/ execute_ecall(i)
  \/ execute_branch(i)
  \/ execute_jal(i)
  \/ execute_store(i)
  \/ execute_load(i)
  \/ execute_lui(i)
  \/ parse_failure(i)

execute_emu ==
  /\ exit = "no"
  /\ execute_instruction(InstrAt(imem, PC))
  /\ UNCHANGED imem

Next == execute_emu

Spec == Init /\ [][Next]_vars
=============================================================================
