--------------------------- MODULE PipelineDelayed ---------------------------
(***************************************************************************)
(* The pipeline of milestone 1 (PRINT_STATS undefined) against the machine *)
(* with three delay slots that it implements.                              *)
(***************************************************************************)
EXTENDS PipelineIsa, Sequences

(* The addresses of the valid instructions in flight, oldest first.  The   *)
(* instruction in MEM/WB has taken effect, except for an exit, which stays *)
(* the instruction at which the program stands.                            *)
Pending ==
  LET Slot(s, reg) == IF valid[s] THEN <<reg.instr_addr>> ELSE <<>>
  IN (IF ecall_exit THEN Slot("memwb", memwb) ELSE <<>>)
     \o Slot("exmem", exmem) \o Slot("idex", idex) \o Slot("ifid", ifid)

(* They are executed next, and then what fetch continues with: the wires   *)
(* hold the target of a branch in MEM/WB already.                          *)
absNext ==
  [k \in 1 .. 4 |->
     IF k <= Len(Pending) THEN Pending[k]
     ELSE Plus(fetch_pc(wires), 4 * (k - Len(Pending) - 1))]

Delayed == INSTANCE DelaySlots
             WITH next <- absNext, R <- absR,
                  exit <- IF ecall_exit THEN "exit" ELSE "no"

(* The comment of cycle_pipeline on milestone 1: without the flush, every  *)
(* taken branch, one in the shadow of another included, takes effect after *)
(* exactly three more instructions, which are executed in full; stalls and *)
(* forwarding are as invisible as with the flush.                          *)
ImplementsDelaySlots == Delayed!Spec
=============================================================================
