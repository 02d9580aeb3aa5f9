------------------------------ MODULE Pipeline ------------------------------
(***************************************************************************)
(* The five-stage pipeline (pipeline.c and stage_helpers.h).  One step of  *)
(* this specification is one call of cycle_pipeline by the driver's loop   *)
(* "while (1)" (riscv.c, option -e).                                       *)
(*                                                                         *)
(* The C code keeps an input and an output half of each pipeline register, *)
(* runs the five stages in the order fetch, decode, execute, mem,          *)
(* writeback on the output halves, then copies the input halves over.  The *)
(* variables below are the output halves, between two calls.  A pipeline   *)
(* register carries the decoded instruction, so that the fields the code   *)
(* copies out of it (rd, imm_val, the funct bits) are read from it here.   *)
(* The wires that are set and consumed in one call (flush_control,         *)
(* ifid_write, forward_a, forward_b) are values of that step, not state.   *)
(*                                                                         *)
(* Definitions named <operator>_<Fault> are plausible slips in the code of *)
(* that operator.  Nothing uses them: substituted for it, each shows that  *)
(* a property notices.  Other modules follow the same convention.          *)
(***************************************************************************)
EXTENDS Machine, Control, Cache

CONSTANTS
  ALU(_, _, _),          (* The ALU: operands and ALU control to result.    *)
  PRINT_STATS,           (* config.h: when defined, taken branches flush.   *)
  PRINT_CACHE_STATS,     (* config.h: changes the count of memory cycles.   *)
  cache_en               (* sim_config.cache_en: option -c.                 *)

ASSUME AluAssumption ==
  \A c \in AluControl : \A a, b \in Word : ALU(a, b, c) \in Word
ASSUME ConfigAssumption == /\ PRINT_STATS \in BOOLEAN
                           /\ PRINT_CACHE_STATS \in BOOLEAN
                           /\ cache_en \in BOOLEAN

VARIABLES
  PC,          (* regfile->PC: the address last fetched.                    *)
  R,           (* regfile->R.                                               *)
  memory,      (* Data memory.                                              *)
  imem,        (* The program: instructions by address.                     *)
  ifid,        (* Pipeline register between fetch and decode.               *)
  idex,        (* Between decode and execute.                               *)
  exmem,       (* Between execute and mem.                                  *)
  memwb,       (* Between mem and writeback.                                *)
  wires,       (* The pipeline wires that live from one cycle to the next.  *)
  cache,       (* The L1 cache.                                             *)
  stats,       (* The global counters.                                      *)
  ecall_exit,  (* Set when the exit ecall leaves the mem stage.             *)
  failed       (* parse_instruction ended the process: exit(EXIT_FAILURE).  *)

pregs == <<ifid, idex, exmem, memwb>>
vars == <<PC, R, memory, imem, pregs, wires, cache, stats, ecall_exit, failed>>

(***************************************************************************)
(* Types.                                                                  *)
(***************************************************************************)
Ifid  == [instr : Instruction, instr_addr : Word]
Idex  == [instr : Instruction, instr_addr : Word, ctl : ControlLines,
          rs1 : Reg, rs2 : Reg, read_data1 : Word, read_data2 : Word]
Exmem == [instr : Instruction, instr_addr : Word, ctl : ControlLines,
          branch_addr : Word, alu_result : Word, write_data : Word]
Memwb == [instr : Instruction, instr_addr : Word, ctl : ControlLines,
          read_data : Word, alu_result : Word]
Wires == [pcsrc : BOOLEAN, pc_src0 : Word, pc_src1 : Word, pc_write : BOOLEAN,
          write_data : Word, alu_result : Word]

(* The cycle counter is unsigned in C; a memory access may decrement it.   *)
Stats == [total_cycle : Int, stall : Nat, branch : Nat, fwd_exex : Nat,
          fwd_exmem : Nat, miss : Nat, hit : Nat, mem_access : Nat]

ZeroIfid  == [instr |-> ZERO, instr_addr |-> 0]
ZeroIdex  == [instr |-> ZERO, instr_addr |-> 0, ctl |-> NoControl,
              rs1 |-> 0, rs2 |-> 0, read_data1 |-> 0, read_data2 |-> 0]
ZeroExmem == [instr |-> ZERO, instr_addr |-> 0, ctl |-> NoControl,
              branch_addr |-> 0, alu_result |-> 0, write_data |-> 0]
ZeroMemwb == [instr |-> ZERO, instr_addr |-> 0, ctl |-> NoControl,
              read_data |-> 0, alu_result |-> 0]

(***************************************************************************)
(* Fetch.  The address mux takes the branch target when the instruction in *)
(* the mem stage of the previous cycle was a taken branch, and steps back  *)
(* by one instruction when the previous cycle stalled.                     *)
(***************************************************************************)
fetch_pc_NoStepBack(w) == IF w.pcsrc THEN w.pc_src1 ELSE w.pc_src0

fetch_pc(w) ==
  LET selected == IF w.pcsrc THEN w.pc_src1 ELSE w.pc_src0
  IN IF w.pc_write THEN Minus(selected, 4) ELSE selected

stage_fetch(w) ==
  [instr |-> InstrAt(imem, fetch_pc(w)), instr_addr |-> fetch_pc(w)]

(***************************************************************************)
(* Hazard detection: a load in execute and the instruction in decode whose *)
(* rs1 or rs2 BITS name its rd, whatever the format of that instruction    *)
(* and even if rd is x0.                                                   *)
(***************************************************************************)
detect_hazard_Rs1Only(de, fd) == de.ctl.mem_read /\ de.instr.rd = fd.instr.rs1

detect_hazard(de, fd) ==
  de.ctl.mem_read /\ de.instr.rd \in {fd.instr.rs1, fd.instr.rs2}

(***************************************************************************)
(* Decode.  A stall clears the control lines and nothing else.             *)
(***************************************************************************)
Decoded(fd, regs, ctl) ==
  LET i == fd.instr
  IN [instr      |-> i,
      instr_addr |-> fd.instr_addr,
      ctl        |-> ctl,
      rs1        |-> IF i.op \in {"lui", "jal"} THEN 0 ELSE i.rs1,
      rs2        |-> IF i.op \in {"itype", "load", "lui", "jal"} THEN 0 ELSE i.rs2,
      read_data1 |-> CASE i.op \in {"rtype", "itype", "load", "store", "branch"}
                            -> regs[i.rs1]
                       [] i.op = "jal" -> fd.instr_addr
                       [] OTHER -> 0,
      read_data2 |-> IF i.op \in {"rtype", "store", "branch"}
                     THEN regs[i.rs2] ELSE 0]

stage_decode_NoBubble(fd, flush_control, regs) ==
  Decoded(fd, regs, gen_control(fd.instr))

stage_decode(fd, flush_control, regs) ==
  Decoded(fd, regs, IF flush_control THEN NoControl ELSE gen_control(fd.instr))

(***************************************************************************)
(* Forwarding.  Each operand of execute comes from the register file as it *)
(* was read in decode, from the instruction one ahead (EX/MEM) or from the *)
(* one two ahead (MEM/WB).                                                 *)
(***************************************************************************)
Forwards(reg, rs) == reg.ctl.reg_write /\ reg.instr.rd # 0 /\ reg.instr.rd = rs

gen_forward_OldestFirst(rs, em, mw) ==
  IF Forwards(mw, rs) THEN "memwb"
  ELSE IF Forwards(em, rs) THEN "exmem" ELSE "idex"

gen_forward(rs, em, mw) ==
  IF Forwards(em, rs) THEN "exmem"
  ELSE IF Forwards(mw, rs) THEN "memwb" ELSE "idex"

Operand(forward, read_data, w) ==
  CASE forward = "memwb" -> w.write_data
    [] forward = "exmem" -> w.alu_result
    [] forward = "idex"  -> read_data

(***************************************************************************)
(* Execute.                                                                *)
(***************************************************************************)
stage_execute(de, forward_a, forward_b, w) ==
  LET alu_inp1 == Operand(forward_a, de.read_data1, w)
      alu_inp2 == Operand(forward_b, de.read_data2, w)
      alu_control == gen_alu_control(de.ctl.alu_op, de.instr.fn)
  IN [instr       |-> de.instr,
      instr_addr  |-> de.instr_addr,
      ctl         |-> de.ctl,
      branch_addr |-> Plus(de.instr_addr, de.instr.imm),
      alu_result  |-> ALU(alu_inp1,
                          IF de.ctl.alu_src THEN de.instr.imm ELSE alu_inp2,
                          alu_control),
      write_data  |-> alu_inp2]

(***************************************************************************)
(* Mem.                                                                    *)
(***************************************************************************)
gen_branch(em) ==
  /\ em.ctl.branch
  /\ \/ em.instr.op = "jal"
     \/ em.instr.fn = "beq" /\ em.alu_result = 0
     \/ em.instr.fn # "beq" /\ em.alu_result # 0

Accesses_Bubbles(em) == em.instr.op \in {"load", "store"}

Accesses(em) == em.ctl.mem_read \/ em.ctl.mem_write

stage_mem(em) ==
  [instr      |-> em.instr,
   instr_addr |-> em.instr_addr,
   ctl        |-> em.ctl,
   read_data  |-> IF em.ctl.mem_read
                  THEN LoadValue(memory, em.alu_result, em.instr.fn) ELSE 0,
   alu_result |-> em.alu_result]

mem_store(em) ==
  IF em.ctl.mem_write
  THEN StoreValue(memory, em.alu_result, em.instr.fn, em.write_data)
  ELSE memory

(* The mux of writeback, which mem evaluates as well for forwarding.       *)
WriteBackValue(mw) == IF mw.ctl.mem_to_reg THEN mw.read_data ELSE mw.alu_result

(* The cycles a memory access adds to the cycle counter.                   *)
mem_latency_CountsTwice(em) ==
  IF Accesses(em) THEN processCacheOperation(cache, em.alu_result) ELSE 0

mem_latency(em) ==
  IF ~Accesses(em) THEN 0
  ELSE IF cache_en THEN processCacheOperation(cache, em.alu_result) - 1
  ELSE IF PRINT_CACHE_STATS THEN MEM_LATENCY - 1 ELSE MEM_LATENCY

mem_cache(em) ==
  IF cache_en /\ Accesses(em) THEN operateCache(cache, em.alu_result) ELSE cache

(***************************************************************************)
(* Writeback.                                                              *)
(***************************************************************************)
stage_writeback_WritesX0(mw) ==
  IF mw.ctl.reg_write THEN [R EXCEPT ![mw.instr.rd] = WriteBackValue(mw)] ELSE R

stage_writeback(mw) ==
  IF mw.ctl.reg_write /\ mw.instr.rd # 0
  THEN [R EXCEPT ![mw.instr.rd] = WriteBackValue(mw)] ELSE R

(***************************************************************************)
(* One clock cycle.  These are the wires and the input halves of the       *)
(* pipeline registers that cycle_pipeline computes before it latches.      *)
(***************************************************************************)
hazard    == detect_hazard(idex, ifid)
forward_a == gen_forward(idex.rs1, exmem, memwb)
forward_b == gen_forward(idex.rs2, exmem, memwb)
pcsrc     == gen_branch(exmem)

ifid_inp  == IF hazard THEN ifid ELSE stage_fetch(wires)
idex_inp  == stage_decode(ifid, hazard, R)
exmem_inp == stage_execute(idex, forward_a, forward_b, wires)
memwb_inp == stage_mem(exmem)

(* What is latched when the branch in mem is taken: zero is the cleared    *)
(* pipeline register, and the address survives.                            *)
Flushed(reg, zero) == [zero EXCEPT !.instr = NOP, !.instr_addr = reg.instr_addr]

flushing_Always == pcsrc

flushing == PRINT_STATS /\ pcsrc

flush_pipeline_KeepsExmem(reg, zero) ==
  IF flushing /\ zero # ZeroExmem THEN Flushed(reg, zero) ELSE reg

flush_pipeline_KeepsIfid(reg, zero) ==
  IF flushing /\ zero # ZeroIfid THEN Flushed(reg, zero) ELSE reg

flush_pipeline(reg, zero) == IF flushing THEN Flushed(reg, zero) ELSE reg

(* The ecall in mem exits if a0 is the exit number AFTER writeback.        *)
ecall_check_BeforeWriteback(regs) == exmem.instr.op = "ecall" /\ R[A0] = EXIT_CALL

ecall_check(regs) == exmem.instr.op = "ecall" /\ regs[A0] = EXIT_CALL

(***************************************************************************)
(* The counters of the cycle.  An access counts as a miss or as a hit by   *)
(* the value of its latency.                                               *)
(***************************************************************************)
One(condition) == IF condition THEN 1 ELSE 0

LatencyIs(latency) == /\ cache_en
                      /\ Accesses(exmem)
                      /\ processCacheOperation(cache, exmem.alu_result) = latency

count_cycle ==
  [total_cycle |-> stats.total_cycle + mem_latency(exmem) + 1,
   stall       |-> stats.stall + One(hazard),
   branch      |-> stats.branch + One(flushing),
   fwd_exex    |-> stats.fwd_exex + One(forward_a = "exmem")
                                  + One(forward_b = "exmem"),
   fwd_exmem   |-> stats.fwd_exmem + One(forward_a = "memwb")
                                   + One(forward_b = "memwb"),
   miss        |-> stats.miss + One(LatencyIs(CACHE_MISS_LATENCY)),
   hit         |-> stats.hit + One(LatencyIs(CACHE_HIT_LATENCY)),
   mem_access  |-> stats.mem_access + One(~cache_en /\ Accesses(exmem))]

(* What main() prints as "#MEM stalls" at the end.                         *)
mem_stalls ==
  IF cache_en
  THEN stats.miss * MEM_LATENCY + (stats.hit + stats.miss) * (CACHE_HIT_LATENCY - 1)
  ELSE stats.mem_access * (MEM_LATENCY - 1)

(* The wires that the next cycle reads. *)
WiresWith(pc_src0, write_data) ==
  [pcsrc      |-> pcsrc,
   pc_src0    |-> pc_src0,
   pc_src1    |-> exmem.branch_addr,
   pc_write   |-> hazard,
   write_data |-> write_data,
   alu_result |-> exmem_inp.alu_result]

next_wires_TwoWords ==
  WiresWith(Plus(fetch_pc(wires), 8), WriteBackValue(memwb_inp))

next_wires ==
  WiresWith(Plus(fetch_pc(wires), 4), WriteBackValue(memwb_inp))

cycle_pipeline ==
  /\ stage_fetch(wires).instr.op # "zero"
  /\ PC'     = fetch_pc(wires)
  /\ R'      = stage_writeback(memwb)
  /\ memory' = mem_store(exmem)
  /\ cache'  = mem_cache(exmem)
  /\ ifid'   = flush_pipeline(ifid_inp, ZeroIfid)
  /\ idex'   = flush_pipeline(idex_inp, ZeroIdex)
  /\ exmem'  = flush_pipeline(exmem_inp, ZeroExmem)
  /\ memwb'  = memwb_inp
  /\ wires'  = next_wires
  /\ stats'  = count_cycle
  /\ ecall_exit' = (ecall_exit \/ ecall_check(R'))
  /\ UNCHANGED <<imem, failed>>

(* Fetching a word with an unknown opcode ends the process in the middle   *)
(* of the cycle, before any other stage of that cycle has run.             *)
parse_failure ==
  /\ stage_fetch(wires).instr.op = "zero"
  /\ failed' = TRUE
  /\ UNCHANGED <<PC, R, memory, imem, pregs, wires, cache, stats, ecall_exit>>

(***************************************************************************)
(* The state main() has built when it enters the loop.  The program is     *)
(* arbitrary.                                                              *)
(***************************************************************************)
InitWires == [pcsrc |-> FALSE, pc_src0 |-> START, pc_src1 |-> 0,
              pc_write |-> FALSE, write_data |-> 0, alu_result |-> 0]

InitStats == [total_cycle |-> 0, stall |-> 0, branch |-> 0, fwd_exex |-> 0,
              fwd_exmem |-> 0, miss |-> 0, hit |-> 0, mem_access |-> 0]

Init ==
  /\ IsProgram(imem)
  /\ PC = START
  /\ R = InitRegs
  /\ memory = InitMemory
  /\ ifid = ZeroIfid
  /\ idex = ZeroIdex
  /\ exmem = ZeroExmem
  /\ memwb = ZeroMemwb
  /\ wires = InitWires
  /\ cache = cacheSetUp
  /\ stats = InitStats
  /\ ecall_exit = FALSE
  /\ failed = FALSE

running == ~ecall_exit /\ ~failed

Next == running /\ (cycle_pipeline \/ parse_failure)

Spec == Init /\ [][Next]_vars

TypeOK ==
  /\ PC \in Word
  /\ R \in [Reg -> Word]
  /\ memory \in MemoryType
  /\ IsProgram(imem)
  /\ ifid \in Ifid
  /\ idex \in Idex
  /\ exmem \in Exmem
  /\ memwb \in Memwb
  /\ wires \in Wires
  /\ cache \in CacheType
  /\ stats \in Stats
  /\ ecall_exit \in BOOLEAN
  /\ failed \in BOOLEAN

(***************************************************************************)
(* Properties.                                                             *)
(***************************************************************************)

(* detect_hazard and stage_decode: a load-use stall lasts one cycle.  The  *)
(* instruction held in IF/ID meets the bubble of the cycle before, not the *)
(* load again, so that the pipeline cannot stall for ever.                 *)
StallLastsOneCycle == wires.pc_write => ~hazard
=============================================================================
