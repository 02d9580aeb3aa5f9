----------------------------- MODULE PipelineIsa -----------------------------
(***************************************************************************)
(* The pipeline against the architecture: what the five stages promise to  *)
(* a program, with the emulator (module Emulator) as the definition of     *)
(* what the program means.                                                 *)
(*                                                                         *)
(* Four history variables are kept beside the state of the pipeline; no   *)
(* step of it depends on them.                                             *)
(***************************************************************************)
EXTENDS Pipeline

CONSTANTS
  ARITH(_, _, _, _),  (* Arithmetic of the emulator's handlers.             *)
  PRINT_CALLS         (* The ecalls the emulator prints for.                *)

ASSUME EcallAssumption == PRINT_CALLS \subseteq Word \ {EXIT_CALL}

VARIABLES
  valid,    (* Which pipeline registers hold an instruction of the program  *)
            (* that is neither a bubble of a stall nor squashed.            *)
  steps,    (* Number of calls of cycle_pipeline.                           *)
  retired,  (* Number of valid instructions that have left the mem stage.   *)
  accesses  (* Number of loads and stores among them.                       *)

history == <<valid, steps, retired, accesses>>

Stage == {"ifid", "idex", "exmem", "memwb"}

Record ==
  /\ valid' = [s \in Stage |->
                 CASE s = "ifid"  -> ~flushing /\ (hazard => valid["ifid"])
                   [] s = "idex"  -> ~flushing /\ ~hazard /\ valid["ifid"]
                   [] s = "exmem" -> ~flushing /\ valid["idex"]
                   [] s = "memwb" -> valid["exmem"]]
  /\ steps' = steps + 1
  /\ retired' = retired + One(valid["exmem"])
  /\ accesses' = accesses + One(valid["exmem"] /\ exmem.instr.op \in {"load", "store"})

HInit == /\ Init
         /\ valid = [s \in Stage |-> FALSE]
         /\ steps = 0
         /\ retired = 0
         /\ accesses = 0

HNext == running /\ \/ cycle_pipeline /\ Record
                    \/ parse_failure /\ UNCHANGED history

HSpec == HInit /\ [][HNext]_<<vars, history>>

(***************************************************************************)
(* The contract.  The code keeps its promise to programs only as long as   *)
(* none of the following happens.                                          *)
(***************************************************************************)

(* Decode reads R before writeback writes it in the same cycle, and the    *)
(* value written is no longer forwarded when the reader is in execute: the *)
(* reader is three slots behind the last writer of the register.           *)
StaleRead ==
  /\ valid["ifid"]
  /\ ~hazard
  /\ \E r \in Sources(ifid.instr) \ {0} :
       /\ Forwards(memwb, r)
       /\ ~Forwards(exmem, r)
       /\ ~Forwards(idex, r)

(* A stall in the cycle that redirects fetch: pc_write survives the flush. *)
ShadowStall == hazard /\ pcsrc

(* An ecall the pipeline passes over and the emulator does not.            *)
UnknownEcall ==
  /\ valid["exmem"]
  /\ exmem.instr.op = "ecall"
  /\ stage_writeback(memwb)[A0] \notin PRINT_CALLS \union {EXIT_CALL}

(* The instructions that both implementations have in common.              *)
Supported(i) ==
  CASE i.op = "rtype"  -> i.fn \in RtypeFn \ {"mulh", "div", "rem", "other"}
    [] i.op = "itype"  -> i.fn \in ItypeFn \ {"other"}
    [] i.op = "load"   -> i.fn \in LoadFn \ {"other"}
    [] i.op = "store"  -> i.fn \in StoreFn \ {"other"}
    [] i.op = "branch" -> i.fn \in BranchFn \ {"other"}
    [] i.op = "jal"    -> i.rd = 0
    [] OTHER -> TRUE

SupportedProgram == \A a \in DOMAIN imem : Supported(imem[a])

SafeNext == HNext /\ ~StaleRead /\ ~ShadowStall /\ ~UnknownEcall

SafeInit == HInit /\ SupportedProgram
SafeSpec == SafeInit /\ [][SafeNext]_<<vars, history>>

(***************************************************************************)
(* A schedule of the program that keeps the contract, whatever its inputs  *)
(* and branches do.  Gap(a, k) is the number of slots between the          *)
(* instruction at a and the k-th after it, load-use stalls included.       *)
(***************************************************************************)
Behind(a, k) == InstrAt(imem, Plus(a, 4 * k))

LoadUse(a) == /\ Behind(a, 0).op = "load"
              /\ Behind(a, 0).rd \in {Behind(a, 1).rs1, Behind(a, 1).rs2}

Gap(a, k) == k + One(LoadUse(a)) + One(k > 1 /\ LoadUse(Plus(a, 4)))
               + One(k > 2 /\ LoadUse(Plus(a, 8)))

Sets(i, r) == Writes(i) /\ i.rd = r

WellScheduled ==
  \A a \in DOMAIN imem :
    /\ \A k \in 1 .. 3 :
         Gap(a, k) = 3 =>
           \A r \in Sources(Behind(a, k)) \ {0} :
             Sets(Behind(a, 0), r) => \E j \in 1 .. (k - 1) : Sets(Behind(a, j), r)
    /\ Behind(a, 0).op \in {"branch", "jal"} => ~LoadUse(Plus(a, 4))

(* The pipeline on such programs: what is left of the contract is about    *)
(* the text of the program and the numbers it passes to ecall.             *)
ScheduledSpec == SafeInit /\ WellScheduled
                   /\ [][HNext /\ ~UnknownEcall]_<<vars, history>>

(***************************************************************************)
(* The abstraction.  An instruction takes effect when it leaves the mem    *)
(* stage: its register write is then pending in MEM/WB, and the next       *)
(* instruction is the oldest valid one behind it.                          *)
(***************************************************************************)
absPC ==
  IF ecall_exit           THEN memwb.instr_addr
  ELSE IF valid["exmem"]  THEN exmem.instr_addr
  ELSE IF valid["idex"]   THEN idex.instr_addr
  ELSE IF valid["ifid"]   THEN ifid.instr_addr
  ELSE fetch_pc(wires)

absR == stage_writeback(memwb)

Emu == INSTANCE Emulator
         WITH PC <- absPC, R <- absR, exit <- IF ecall_exit THEN "exit" ELSE "no"

(***************************************************************************)
(* Properties.                                                             *)
(***************************************************************************)

(* Forwarding, stalls and flushes are invisible to the program: the        *)
(* instructions that leave mem are, one by one, the steps of the emulator. *)
ImplementsEmulator == Emu!Spec

(* Stalls and flushes neither lose, repeat nor reorder an instruction: the *)
(* valid instructions in flight have consecutive addresses, and the next   *)
(* fetch continues them or starts at the target of the branch in MEM/WB.   *)
ProgramOrder ==
  /\ valid["idex"] /\ valid["exmem"] => idex.instr_addr = Plus(exmem.instr_addr, 4)
  /\ valid["ifid"] /\ valid["idex"]  => ifid.instr_addr = Plus(idex.instr_addr, 4)
  /\ valid["ifid"] /\ valid["exmem"] /\ ~valid["idex"] =>
       ifid.instr_addr = Plus(exmem.instr_addr, 4)
  /\ valid["ifid"] => fetch_pc(wires) = Plus(ifid.instr_addr, 4)

(* A slot that holds no instruction of the program (a bubble, a squashed   *)
(* instruction) cannot write a register, access memory or redirect fetch.  *)
Harmless(reg) == /\ ~reg.ctl.mem_read /\ ~reg.ctl.mem_write /\ ~reg.ctl.branch
                 /\ reg.ctl.reg_write => reg.instr.rd = 0

BubblesHarmless ==
  /\ ~valid["ifid"] => ifid.instr \in {ZERO, NOP}
  /\ ~valid["idex"] => Harmless(idex)
  /\ ~valid["exmem"] => Harmless(exmem)
  /\ ~valid["memwb"] => Harmless(memwb)

(* The hazard unit stalls in time: the instruction in execute never takes  *)
(* its operand from the EX/MEM wire while the instruction there is a load, *)
(* whose ALU result is an address.                                         *)
LoadUseStalled ==
  valid["idex"] =>
    \A r \in Sources(idex.instr) : Forwards(exmem, r) => ~exmem.ctl.mem_to_reg

(* A flush clears pipeline registers and leaves the two forwarding wires   *)
(* alone: an instruction never takes an operand from the wire of a         *)
(* squashed instruction or of a bubble, and what it takes is the value     *)
(* that the register is given later, at the writeback of the one in front. *)
ForwardsFromProgram ==
  valid["idex"] =>
    \A r \in Sources(idex.instr) :
      CASE gen_forward(r, exmem, memwb) = "exmem" ->
             valid["exmem"] /\ wires.alu_result = WriteBackValue(memwb_inp)
        [] gen_forward(r, exmem, memwb) = "memwb" ->
             valid["memwb"] /\ wires.write_data = absR[r]
        [] OTHER -> TRUE

(* The operands of the instruction in execute are those of the program     *)
(* order: the registers after the instruction in mem has taken effect.     *)
AfterMem(r) == IF Forwards(exmem, r) THEN exmem.alu_result ELSE absR[r]

OperandsCurrent ==
  valid["idex"] =>
    /\ idex.instr.rs1 \in Sources(idex.instr) =>
         Operand(forward_a, idex.read_data1, wires) = AfterMem(idex.instr.rs1)
    /\ idex.instr.op \in {"rtype", "store", "branch"} =>
         Operand(forward_b, idex.read_data2, wires) = AfterMem(idex.instr.rs2)

(* The counters that main() prints explain every cycle: one per retired    *)
(* instruction, one per stall, three per taken branch and three to fill    *)
(* the pipeline, less the empty slots still in flight.                     *)
Explained ==
  retired + 3 + stats.stall + 3 * stats.branch
    - (One(~valid["ifid"]) + One(~valid["idex"]) + One(~valid["exmem"]))

CycleAccounting == steps = Explained

(* Without the contract, a stall is also counted when the instruction it   *)
(* holds is squashed in the same cycle by a taken branch: the counters     *)
(* then explain one cycle too many, there and nowhere else.                *)
SquashedStallsCounted ==
  [][Explained' - Explained = (steps' - steps)
                                + One(ShadowStall /\ steps' # steps)]_<<vars, history>>

(* Every load and store that takes effect is counted once, as a hit, as a  *)
(* miss or as an access without a cache, and no squashed or stalled one    *)
(* is; the counters agree with those of the cache.  With the latency 0 of  *)
(* config.h a hit takes as long as a miss and counts as both: then only    *)
(* the cache itself tells them apart.                                      *)
AccessesCounted ==
  IF cache_en /\ MEM_LATENCY = 0
  THEN /\ stats.hit = accesses
       /\ stats.miss = accesses
       /\ cache.hit_count + cache.miss_count = accesses
  ELSE /\ stats.hit + stats.miss + stats.mem_access = accesses
       /\ stats.hit = cache.hit_count
       /\ stats.miss = cache.miss_count

(* The cycle count that main() prints is the number of clock cycles plus   *)
(* the memory stalls that it prints, hits and misses told apart by their   *)
(* latencies.                                                              *)
CyclesReported ==
  PRINT_CACHE_STATS /\ MEM_LATENCY > 0 => stats.total_cycle = steps + mem_stalls

(* Fetch runs ahead of the instruction next to take effect by three words  *)
(* at most: only a zero word that close can end the process, so that three *)
(* words after the last instruction protect a program.                     *)
FailsNearEnd ==
  failed => \E k \in 0 .. 3 : InstrAt(imem, Plus(absPC, 4 * k)).op = "zero"

(* A well-scheduled program never breaks the contract.                     *)
ScheduleKeepsContract == WellScheduled => ~StaleRead /\ ~ShadowStall

(* The comments of stage_fetch: after a taken branch the PC is set to the  *)
(* target address of the branch.                                           *)
RedirectsToTarget == wires.pcsrc => fetch_pc(wires) = wires.pc_src1

(* jal leaves the address of the instruction after it in rd, as it does on *)
(* a RISC-V CPU and in execute_jal of the emulator.                        *)
LinksReturnAddress ==
  valid["memwb"] /\ memwb.instr.op = "jal" =>
    WriteBackValue(memwb) = Plus(memwb.instr_addr, 4)

(* A program without backward jumps.                                       *)
OnlyForward ==
  \A a \in DOMAIN imem :
    imem[a].op \in {"branch", "jal"} => imem[a].imm \in 8 .. (WordMod \div 2)
=============================================================================
