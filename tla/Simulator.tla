------------------------------ MODULE Simulator ------------------------------
(***************************************************************************)
(* The driver: main() of riscv.c from the moment the program is loaded.    *)
(* Option -m runs the emulator, -s the pipeline, and both run one after    *)
(* the other on the same registers and memory.  With -e each runs until    *)
(* the exit ecall; without it both loops share a counter that goes up to   *)
(* the number of lines of the program.  After the pipeline's loop the      *)
(* driver loads FLUSH.input over the words to be fetched next and calls    *)
(* cycle_pipeline once for each of its lines.                              *)
(***************************************************************************)
EXTENDS PipelineIsa, FiniteSets

CONSTANT FLUSH_LINES  (* Number of lines of FLUSH.input: 5 NOPs.            *)

(* FLUSH.input and what is in flight before it fit into the address space. *)
ASSUME FlushAssumption == /\ FLUSH_LINES \in Nat
                          /\ 4 * (FLUSH_LINES + 3) < WordMod

VARIABLES
  opt,          (* opt_exit, opt_mulator and opt_sim.                       *)
  phase,        (* Where main() is.                                         *)
  simins,       (* The counter of the loops.                                *)
  prog_numins,  (* Number of lines of the file loaded last.                 *)
  exit,         (* How the emulator ended the process, "no" if it has not.  *)
  loop,         (* History: what the pipeline's loop left behind.           *)
  executed,     (* History: number of valid instructions of the program     *)
                (* that have left the mem stage, FLUSH.input not counted.   *)
  kept          (* History: the contract has been kept so far.              *)

driver == <<opt, phase, simins, prog_numins, exit>>
record == <<loop, executed, kept>>
mainVars == <<vars, history, driver, record>>

M == INSTANCE Emulator

Options == [exit : BOOLEAN, mulator : BOOLEAN, sim : BOOLEAN]

Phase == {"emulate", "simulate", "flush", "done"}

(* The length of the program, the words that hold FLUSH.input once it is   *)
(* loaded, the counters at that moment, whether fetch was about to be      *)
(* redirected or to step back, and the words behind the exit ecall that    *)
(* are under way.                                                          *)
NoLoop == [lines |-> 0, flush |-> {}, stall |-> 0, branch |-> 0,
           redirect |-> FALSE, stepback |-> FALSE, behind |-> {}]

MainInit ==
  /\ HInit
  /\ opt \in Options
  /\ phase = "emulate"
  /\ simins = 0
  /\ prog_numins = Cardinality(DOMAIN imem)
  /\ exit = "no"
  /\ loop = NoLoop
  /\ executed = 0
  /\ kept = SupportedProgram

(***************************************************************************)
(* The emulator.                                                           *)
(***************************************************************************)
emulating == opt.mulator /\ (opt.exit \/ simins < prog_numins)

Counted == simins' = IF opt.exit THEN simins ELSE simins + 1

emulate_instruction ==
  /\ phase = "emulate"
  /\ emulating
  /\ M!execute_emu
  /\ Counted
  /\ UNCHANGED <<pregs, wires, cache, stats, ecall_exit, failed, history,
                 opt, phase, prog_numins, record>>

leave_emulator_ResetsCounter ==
  /\ phase = "emulate"
  /\ ~emulating
  /\ phase' = IF opt.sim THEN "simulate" ELSE "done"
  /\ simins' = 0
  /\ UNCHANGED <<vars, history, opt, prog_numins, exit, record>>

leave_emulator ==
  /\ phase = "emulate"
  /\ ~emulating
  /\ phase' = IF opt.sim THEN "simulate" ELSE "done"
  /\ UNCHANGED <<vars, history, opt, simins, prog_numins, exit, record>>

(***************************************************************************)
(* The pipeline.  A call of cycle_pipeline, with what is recorded of it.   *)
(***************************************************************************)
Cycle ==
  /\ cycle_pipeline
  /\ Record
  /\ executed' = executed + One(valid["exmem"] /\ exmem.instr_addr \notin loop.flush)
  /\ kept' = (kept /\ ~StaleRead /\ ~ShadowStall /\ ~UnknownEcall)
  /\ UNCHANGED <<opt, phase, prog_numins, exit, loop>>

(* Only the loop of -e looks at ecall_exit.                                *)
simulating_OneMore == IF opt.exit THEN ~ecall_exit ELSE simins <= prog_numins

simulating == IF opt.exit THEN ~ecall_exit ELSE simins < prog_numins

simulate_cycle ==
  /\ phase = "simulate"
  /\ simulating
  /\ Cycle
  /\ Counted

(* load_program writes FLUSH.input over whatever is at its start address,  *)
(* which is the wire pc_src0, not the address fetch will use.              *)
FlushWords_Late == {Plus(wires.pc_src0, 4 * k) : k \in 1 .. FLUSH_LINES}
FlushWords_AtPC == {Plus(PC, 4 * k) : k \in 0 .. (FLUSH_LINES - 1)}

FlushWords == {Plus(wires.pc_src0, 4 * k) : k \in 0 .. (FLUSH_LINES - 1)}

(* The lines of FLUSH.input. *)
FlushLine_OfProgram(k) == InstrAt(imem, Plus(START, 4 * k))

FlushLine(k) == NOP

LoadCount_KeepsCounter ==
  /\ simins' = simins
  /\ prog_numins' = FLUSH_LINES

LoadCount ==
  /\ simins' = 0
  /\ prog_numins' = FLUSH_LINES

(* The three words behind the exit ecall, but for the NOPs among them. *)
BehindExit ==
  {a \in {Plus(memwb.instr_addr, 4 * k) : k \in 1 .. 3} : InstrAt(imem, a) # NOP}

load_flush ==
  /\ phase = "simulate"
  /\ ~simulating
  /\ phase' = "flush"
  /\ LoadCount
  /\ imem' = [a \in DOMAIN imem \union FlushWords |->
                IF a \in FlushWords
                THEN FlushLine(Minus(a, wires.pc_src0) \div 4) ELSE imem[a]]
  /\ loop' = [lines    |-> prog_numins,
              flush    |-> FlushWords,
              stall    |-> stats.stall,
              branch   |-> stats.branch,
              redirect |-> wires.pcsrc,
              stepback |-> wires.pc_write,
              behind   |-> IF opt.exit THEN BehindExit ELSE {}]
  /\ UNCHANGED <<PC, R, memory, pregs, wires, cache, stats, ecall_exit, failed,
                 history, opt, exit, executed, kept>>

flush_cycle ==
  /\ phase = "flush"
  /\ simins < prog_numins
  /\ Cycle
  /\ simins' = simins + 1

(* The reports and the memory dump; the process ends.                      *)
report ==
  /\ phase = "flush"
  /\ ~(simins < prog_numins)
  /\ phase' = "done"
  /\ UNCHANGED <<vars, history, opt, simins, prog_numins, exit, record>>

fetch_failure ==
  /\ \/ phase = "simulate" /\ simulating
     \/ phase = "flush" /\ simins < prog_numins
  /\ ~failed
  /\ parse_failure
  /\ UNCHANGED <<history, driver, record>>

MainNext ==
  \/ emulate_instruction
  \/ leave_emulator
  \/ simulate_cycle
  \/ load_flush
  \/ flush_cycle
  \/ report
  \/ fetch_failure

MainSpec == MainInit /\ [][MainNext]_mainVars

(* main() is sequential: as long as it has a next step it takes it.        *)
MainFairSpec == MainSpec /\ WF_mainVars(MainNext)

(***************************************************************************)
(* Properties.                                                             *)
(***************************************************************************)
MainTypeOK ==
  /\ TypeOK
  /\ opt \in Options
  /\ phase \in Phase
  /\ simins \in 0 .. prog_numins
  /\ prog_numins \in Nat
  /\ exit \in M!Exits
  /\ loop.flush \subseteq Word
  /\ executed \in 0 .. retired
  /\ kept \in BOOLEAN

(* A step of the emulator, no effect on the program, or the overwriting of *)
(* words that the program has not reached.                                 *)
Simulates == \/ Emu!Next
             \/ UNCHANGED Emu!vars
             \/ load_flush /\ UNCHANGED <<absPC, absR, memory>>

(* Whatever the emulator has left in registers and memory, and whatever    *)
(* FLUSH.input overwrites, the pipeline goes on executing the program in   *)
(* memory as the emulator would, from the first cycle to the last one of   *)
(* the flush: loading FLUSH.input touches no instruction in flight.        *)
SimulatesEmulator ==
  [][kept' /\ ~ecall_exit /\ phase \in {"simulate", "flush"} => Simulates]_mainVars

(* The run without -e as it should end: no branch taken, and at most one   *)
(* stall from the last cycle of the loop on.                               *)
LateStalls == One(loop.stepback) + stats.stall - loop.stall

Reported == phase = "done" /\ opt.sim

(* The flush drains the pipeline: when the counters are reported, every    *)
(* instruction of the program that was fetched has been written back, if   *)
(* fetch was not redirected and at most one stall was pending or followed. *)
Drained ==
  Reported /\ ~loop.redirect /\ stats.branch = loop.branch /\ LateStalls <= 1 =>
    \A s \in Stage :
      valid[s] => CASE s = "ifid"  -> ifid.instr_addr \in loop.flush
                    [] s = "idex"  -> idex.instr_addr \in loop.flush
                    [] s = "exmem" -> exmem.instr_addr \in loop.flush
                    [] s = "memwb" -> memwb.instr_addr \in loop.flush

(* What "simulate for program instructions" comes to: the loop without -e  *)
(* counts cycles, so that each stall but one pending at its end cuts one   *)
(* instruction off the end of a program without taken branches.            *)
StallsCutTail ==
  Reported /\ ~opt.exit /\ ~opt.mulator /\ stats.branch = 0 /\ LateStalls <= 1 =>
    executed = loop.lines - loop.stall + One(loop.stepback)

(* A program whose last instructions are the exit and three more words, or *)
(* that is simulated without -e, dies in fetch only behind a taken branch: *)
(* the words of FLUSH.input are where fetch continues, and enough of them. *)
FailsOnlyRedirected == failed => stats.branch > 0

(* The flush runs on behind the exit ecall.  What it changes of registers  *)
(* and memory, which the report and the memory dump show, is the effect of *)
(* the three words behind the ecall, unless one of them takes a branch;    *)
(* nothing further down has an effect, and nothing at all has one if the   *)
(* three words are NOPs.                                                   *)
ExitKeepsState ==
  [][opt.exit /\ phase = "flush" =>
       \/ UNCHANGED <<absR, memory>>
       \/ exmem.instr_addr \in loop.behind
       \/ loop.behind # {} /\ stats.branch > loop.branch]_mainVars

(* With -m and -s the counter of the loops is shared: without -e the       *)
(* emulator leaves it at the length of the program, and the pipeline that  *)
(* follows executes FLUSH.input and not one instruction of the program, so *)
(* that the program takes effect once.                                     *)
EmulatedOnce ==
  [][opt.mulator /\ ~opt.exit /\ phase # "emulate"
       => UNCHANGED <<absR, memory>>]_mainVars

(* The comment at the counting loops: they simulate for as many            *)
(* instructions as the program has.                                        *)
ProgramSimulated ==
  Reported /\ ~opt.exit /\ ~opt.mulator /\ stats.branch = 0 =>
    executed >= loop.lines

(* main() ends: always without -e, and with it for every program without   *)
(* backward jumps.  Neither a stall nor a redirect nor the order of the    *)
(* loops can keep it going for ever.                                       *)
Ended == phase = "done" \/ failed \/ exit # "no"

MainEnds == (~opt.exit \/ OnlyForward) => <>Ended
=============================================================================
