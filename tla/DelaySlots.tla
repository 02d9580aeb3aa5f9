----------------------------- MODULE DelaySlots ------------------------------
(***************************************************************************)
(* The machine that programs see when config.h leaves PRINT_STATS          *)
(* undefined, as milestone 1 requires: a taken branch does not flush, so   *)
(* that the three instructions behind it are executed before its target,   *)
(* branches among them.  The tests of milestone 1 fill these slots with    *)
(* NOPs.  Each step executes one instruction with the meaning the handlers *)
(* of the emulator give it (emulator.c); only the next PC differs.         *)
(***************************************************************************)
EXTENDS Machine

CONSTANTS
  ARITH(_, _, _, _),  (* Arithmetic of the emulator's handlers.             *)
  PRINT_CALLS         (* The ecalls that print.                             *)

VARIABLES
  next,     (* Addresses of the four instructions to execute next.          *)
  R,        (* The registers.                                               *)
  memory,   (* Data memory.                                                 *)
  imem,     (* The program.                                                 *)
  exit      (* "exit" after the exit ecall, "no" before.                    *)

vars == <<next, R, memory, imem, exit>>

Handlers == INSTANCE Emulator WITH PC <- next[1]

Init ==
  /\ next = [k \in 1 .. 4 |-> Plus(START, 4 * (k - 1))]
  /\ R = InitRegs
  /\ memory = InitMemory
  /\ exit = "no"

(* The instruction leaves the head of the queue, and fetch adds one.       *)
Then(address) == next' = [k \in 1 .. 4 |-> IF k < 4 THEN next[k + 1] ELSE address]

(* What the instruction writes to rd. *)
Value(i) ==
  CASE i.op = "rtype" -> ARITH("rtype", i.fn, R[i.rs1], R[i.rs2])
    [] i.op = "itype" -> ARITH("itype", i.fn, R[i.rs1], i.imm)
    [] i.op = "lui"   -> ARITH("lui", i.fn, 0, i.imm)
    [] i.op = "load"  -> LoadValue(memory, Plus(R[i.rs1], i.imm), i.fn)
    [] i.op = "jal"   -> Plus(next[1], 4)

Jumps(i) == i.op = "jal" \/ (i.op = "branch" /\ Handlers!BranchTaken(i))

execute(i) ==
  /\ i.op \notin {"ecall", "zero"}
  /\ R' = IF Writes(i) THEN Handlers!Written(i.rd, Value(i)) ELSE R
  /\ memory' = IF i.op = "store"
               THEN StoreValue(memory, Plus(R[i.rs1], i.imm), i.fn, R[i.rs2])
               ELSE memory
  /\ Then(IF Jumps(i) THEN Plus(next[1], i.imm) ELSE Plus(next[4], 4))
  /\ UNCHANGED exit

execute_print(i) ==
  /\ i.op = "ecall"
  /\ R[A0] \in PRINT_CALLS
  /\ Then(Plus(next[4], 4))
  /\ UNCHANGED <<R, memory, exit>>

execute_exit(i) ==
  /\ i.op = "ecall"
  /\ R[A0] = EXIT_CALL
  /\ exit' = "exit"
  /\ UNCHANGED <<next, R, memory>>

Next ==
  /\ exit = "no"
  /\ LET i == InstrAt(imem, next[1])
     IN execute(i) \/ execute_print(i) \/ execute_exit(i)
  /\ UNCHANGED imem

Spec == Init /\ [][Next]_vars
=============================================================================
