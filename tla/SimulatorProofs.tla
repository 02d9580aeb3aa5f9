-------------------------- MODULE SimulatorProofs ---------------------------
(***************************************************************************)
(* The driver executes what is in memory as the emulator would, whatever   *)
(* the options, the program and the length of FLUSH.input: the emulator    *)
(* leaves a state the pipeline can start from, and loading FLUSH.input     *)
(* touches no instruction in flight.                                       *)
(***************************************************************************)
EXTENDS Simulator, RefinementProofs, FiniteSetTheorems

(***************************************************************************)
(* What the pipeline keeps from cycle to cycle.  No part of it depends on  *)
(* the initial values of registers and memory.                             *)
(***************************************************************************)

(* Nothing is in flight behind a redirect, and only there.                 *)
Squashed ==
  /\ wires.pcsrc => ~valid["ifid"] /\ ~valid["idex"] /\ ~valid["exmem"]
  /\ ~wires.pcsrc /\ valid["memwb"] => valid["ifid"]

Steady ==
  /\ ControlInv /\ BubblesHarmless /\ ControlsMatch /\ LoadUseStalled
  /\ FetchAhead /\ ProgramOrder /\ OrderBehind /\ GapAfterLoad /\ BubbleEcall
  /\ LuiReadsZero /\ Squashed

(* What holds of every run, and what the contract adds to it.              *)
Sound == Steady /\ TypeOK /\ HTypeOK /\ InFlight /\ ZeroRegister

Kept == Sound /\ ReadCurrent /\ ResultCurrent /\ SupportedProgram

LEMMA KeptSimulates == Kept => Simulation
BY DEF Kept, Sound, Steady, Simulation, Datapath

LEMMA NextSquashed ==
  ASSUME PRINT_STATS
  PROVE  /\ BubblesHarmless /\ FetchAhead /\ Squashed /\ [HCall]_<<vars, history>>
         => Squashed'
<1> SUFFICES ASSUME BubblesHarmless, FetchAhead, Squashed, [HCall]_<<vars, history>>
             PROVE  Squashed'
  OBVIOUS
<1>1. CASE cycle_pipeline /\ Record
  <2>1. wires'.pcsrc <=> flushing
    BY <1>1 DEF cycle_pipeline, next_wires, WiresWith, flushing
  <2>2. hazard => valid["ifid"]
    BY DEF BubblesHarmless, Harmless, FetchAhead, hazard, detect_hazard
  <2> QED BY <1>1, <2>1, <2>2, CycleValid DEF Squashed
<1>2. CASE UNCHANGED <<wires, history>>
  BY <1>2 DEF Squashed, history
<1> QED BY <1>1, <1>2 DEF HCall, parse_failure, vars

LEMMA NextSound ==
  ASSUME PRINT_STATS, Sound, [HCall]_<<vars, history>>
  PROVE  Sound'
<1> USE DEF Sound, Steady
<1>1. TypeOK' /\ ControlInv' /\ HTypeOK'
  BY CallOf, NextType, NextControl, HNextType
<1>2. /\ BubblesHarmless' /\ ControlsMatch' /\ LoadUseStalled' /\ FetchAhead'
      /\ GapAfterLoad' /\ BubbleEcall' /\ LuiReadsZero' /\ InFlight'
  BY NextBubbles, NextControls, NextLoadUse, NextAhead, NextGap, NextEcall,
     NextLui, NextInFlight
<1>3. ProgramOrder' /\ OrderBehind' /\ Squashed' /\ ZeroRegister'
  BY NextOrder, NextOrderBehind, NextSquashed, NextZero
<1> QED BY <1>1, <1>2, <1>3

LEMMA NextKept ==
  ASSUME PRINT_STATS, Kept, [HCall]_<<vars, history>>, cycle_pipeline => SafeNext
  PROVE  Kept'
<1> USE DEF Kept
<1>1. Sound'
  BY NextSound
<1>2. ResultCurrent'
  BY <1>1, OperandsFollow, NextResult DEF Sound, Steady
<1>3. ReadCurrent'
  <2>1. CASE cycle_pipeline
    BY <2>1, NextRead DEF Sound, Steady
  <2>2. CASE UNCHANGED <<pregs, R, history>>
    BY <2>2 DEF ReadCurrent, Forwards, pregs, history
  <2> QED BY <2>1, <2>2 DEF HCall, parse_failure, vars, history
<1>4. SupportedProgram'
  <2>1. imem' = imem
    BY DEF HCall, cycle_pipeline, parse_failure, vars
  <2> QED BY <2>1 DEF SupportedProgram
<1> QED BY <1>1, <1>2, <1>3, <1>4

(***************************************************************************)
(* Loading FLUSH.input.  What is in flight is at the four addresses in     *)
(* front of pc_src0.                                                       *)
(***************************************************************************)
LEMMA WordArithmetic == WordMod \in Nat /\ WordMod >= 16 /\ Word = 0 .. (WordMod - 1)
BY Widths DEF Word

LEMMA Apart ==
  ASSUME NEW a \in Word, NEW d \in {4, 8, 12, 16}, NEW k \in 0 .. (FLUSH_LINES - 1)
  PROVE  a # Plus(Plus(a, d), 4 * k)
<1> DEFINE e == d + 4 * k
<1>1. FLUSH_LINES \in Nat /\ 4 * (FLUSH_LINES + 3) < WordMod /\ k \in Nat
  BY FlushAssumption
<1>2. e \in Nat /\ 0 < e /\ e < WordMod
  BY <1>1, WordArithmetic
<1>3. a \in Nat /\ a < WordMod
  BY WordArithmetic
<1>4. (a + d) % WordMod = IF a + d < WordMod THEN a + d ELSE a + d - WordMod
  BY <1>3, WordArithmetic
<1>5. Plus(Plus(a, d), 4 * k) = (a + e) % WordMod
  <2>1. CASE a + d < WordMod
    BY <1>1, <1>3, <1>4, <2>1, WordArithmetic DEF Plus
  <2>2. CASE ~(a + d < WordMod)
    <3>1. Plus(Plus(a, d), 4 * k) = (a + e - WordMod) % WordMod
      BY <1>1, <1>3, <1>4, <2>2, WordArithmetic DEF Plus
    <3> HIDE DEF e
    <3>2. (a + e - WordMod) % WordMod = (a + e) % WordMod
      BY <1>2, <1>3, WordArithmetic
    <3> QED BY <3>1, <3>2
  <2> QED BY <2>1, <2>2
<1> HIDE DEF e
<1>6. (a + e) % WordMod = IF a + e < WordMod THEN a + e ELSE a + e - WordMod
  BY <1>2, <1>3, WordArithmetic
<1> QED BY <1>2, <1>3, <1>5, <1>6, WordArithmetic

LEMMA StepForth == ASSUME NEW a \in Word PROVE Plus(Minus(a, 4), 4) = a
<1>1. a \in Int /\ 0 <= a /\ a < WordMod
  BY WordArithmetic
<1> QED BY <1>1, WordArithmetic DEF Plus, Minus

(* A valid instruction in flight is not overwritten.                       *)
LEMMA FlushAhead ==
  ASSUME Sound
  PROVE  /\ valid["ifid"] => ifid.instr_addr \notin FlushWords
         /\ valid["idex"] => idex.instr_addr \notin FlushWords
         /\ valid["exmem"] => exmem.instr_addr \notin FlushWords
<1> USE DEF Sound
<1>1. /\ ifid.instr_addr \in Word /\ idex.instr_addr \in Word
      /\ exmem.instr_addr \in Word /\ wires.pc_src0 \in Word
      /\ wires.pc_write \in BOOLEAN
  BY DEF TypeOK, Ifid, Idex, Exmem, Wires
<1>2. ASSUME NEW a \in Word, NEW d \in {4, 8, 12, 16}, wires.pc_src0 = Plus(a, d)
      PROVE  a \notin FlushWords
  BY <1>2, Apart DEF FlushWords
<1>3. ASSUME NEW a \in Word
      PROVE  /\ Plus(Plus(a, 4), 4) = Plus(a, 8)
             /\ Plus(Plus(a, 8), 4) = Plus(a, 12)
             /\ Plus(Plus(a, 12), 4) = Plus(a, 16)
  BY WordArithmetic DEF Plus
<1>4. CASE wires.pcsrc
  BY <1>4 DEF Steady, Squashed
<1>5. CASE ~wires.pcsrc
  <2>1. wires.pc_src0 = fetch_pc(wires) \/ wires.pc_src0 = Plus(fetch_pc(wires), 4)
    <3>1. Plus(Minus(wires.pc_src0, 4), 4) = wires.pc_src0
      BY <1>1, StepForth
    <3> QED BY <1>5, <3>1 DEF fetch_pc
  <2>2. valid["ifid"] => fetch_pc(wires) = Plus(ifid.instr_addr, 4)
    BY DEF Steady, ProgramOrder
  <2>3. valid["idex"] =>
          valid["ifid"] /\ ifid.instr_addr = Plus(idex.instr_addr, 4)
    BY DEF Steady, ProgramOrder, FetchAhead
  <2>4. valid["exmem"] =>
          /\ valid["ifid"]
          /\ \/ ifid.instr_addr = Plus(exmem.instr_addr, 4)
             \/ ifid.instr_addr = Plus(Plus(exmem.instr_addr, 4), 4)
    BY <2>3 DEF Steady, ProgramOrder, FetchAhead
  <2>5. valid["ifid"] => ifid.instr_addr \notin FlushWords
    BY <1>1, <1>2, <1>3, <2>1, <2>2
  <2>6. valid["idex"] => idex.instr_addr \notin FlushWords
    BY <1>1, <1>2, <1>3, <2>1, <2>2, <2>3
  <2>7. valid["exmem"] => exmem.instr_addr \notin FlushWords
    BY <1>1, <1>2, <1>3, <2>1, <2>2, <2>4
  <2> QED BY <2>5, <2>6, <2>7
<1> QED BY <1>4, <1>5

LEMMA FlushKeeps ==
  ASSUME Sound, load_flush
  PROVE  Sound' /\ (Kept => Kept')
<1> USE DEF Sound
<1>1. /\ UNCHANGED <<PC, R, memory, pregs, wires, cache, stats, ecall_exit, failed,
                     history>>
      /\ imem' = [a \in DOMAIN imem \union FlushWords |->
                    IF a \in FlushWords THEN NOP ELSE imem[a]]
  BY DEF load_flush, FlushLine
<1>2. FlushWords \subseteq Word
  <2>1. wires.pc_src0 \in Int
    BY WordArithmetic DEF TypeOK, Wires
  <2> QED BY <2>1, ModInWord, FlushAssumption DEF FlushWords, Plus
<1>3. Steady'
  <2>1. ControlInv' /\ BubblesHarmless' /\ ControlsMatch' /\ LoadUseStalled'
    BY <1>1 DEF Steady, ControlInv, StallMadeBubble, WiresCoherent, WriteBackValue,
       BubblesHarmless, Harmless, ControlsMatch, LinesOf, LoadUseStalled, Forwards,
       pregs, history
  <2>2. FetchAhead' /\ ProgramOrder' /\ OrderBehind' /\ GapAfterLoad' /\ Squashed'
    BY <1>1 DEF Steady, FetchAhead, ProgramOrder, OrderBehind, GapAfterLoad, Squashed,
       fetch_pc, pregs, history
  <2>3. BubbleEcall' /\ LuiReadsZero'
    BY <1>1 DEF Steady, BubbleEcall, Announces, LuiReadsZero, pregs, history
  <2> QED BY <2>1, <2>2, <2>3 DEF Steady
<1>4. ZeroRegister' /\ HTypeOK'
  BY <1>1 DEF ZeroRegister, HTypeOK, history
<1>5. IsProgram(imem')
  BY <1>1, <1>2, ZeroWords DEF TypeOK, IsProgram
<1>6. TypeOK'
  BY <1>1, <1>5 DEF TypeOK, pregs
<1>7. InFlight'
  <2>1. ASSUME NEW a, a \notin FlushWords PROVE InstrAt(imem', a) = InstrAt(imem, a)
    BY <1>1, <2>1 DEF InstrAt
  <2> QED BY <1>1, <2>1, FlushAhead DEF InFlight, Fetched, pregs, history
<1>8. Kept => ReadCurrent' /\ ResultCurrent' /\ SupportedProgram'
  <2>1. ReadCurrent => ReadCurrent'
    BY <1>1 DEF ReadCurrent, Forwards, pregs, history
  <2>2. ResultCurrent => ResultCurrent'
    BY <1>1 DEF ResultCurrent, absR, stage_writeback, WriteBackValue, pregs, history
  <2>3. SupportedProgram => SupportedProgram'
    BY <1>1 DEF SupportedProgram, Supported, NOP, ItypeFn
  <2> QED BY <2>1, <2>2, <2>3 DEF Kept
<1> QED BY <1>3, <1>4, <1>6, <1>7, <1>8 DEF Kept

(***************************************************************************)
(* The emulator's loop leaves registers and memory that a pipeline can     *)
(* start from.                                                             *)
(***************************************************************************)
LEMMA EmulatorWords ==
  /\ \A a, b : M!Plus(a, b) = Plus(a, b)
  /\ \A program, a : M!InstrAt(program, a) = InstrAt(program, a)
  /\ M!WordMod = WordMod /\ M!HalfMod = HalfMod /\ M!Cell = Cell
BY DEF M!Plus, Plus, M!WordMod, WordMod, M!HalfMod, HalfMod, M!Cell, Cell,
       M!InstrAt, InstrAt, M!ZERO, ZERO

LEMMA EmulatorMemory ==
  /\ \A m, a, fn : M!LoadValue(m, a, fn) = LoadValue(m, a, fn)
  /\ \A m, a, fn, v : M!StoreValue(m, a, fn, v) = StoreValue(m, a, fn, v)
<1>1. \A a, i : M!At(a, i) = At(a, i)
  BY DEF M!At, At
<1>2. \A m, a, n : M!load(m, a, n) = load(m, a, n)
  BY <1>1, EmulatorWords DEF M!load, load
<1>3. \A m, a, n, v : M!store(m, a, n, v) = store(m, a, n, v)
  BY DEF M!store, store, M!HalfMod, HalfMod, M!Cell, Cell, M!At, At
<1>4. \A f, m : M!sign_extend_number(f, m) = sign_extend_number(f, m)
  BY EmulatorWords DEF M!sign_extend_number, sign_extend_number
<1>5. \A m, a, fn : M!LoadValue(m, a, fn) = LoadValue(m, a, fn)
  BY <1>2, <1>4, EmulatorWords DEF M!LoadValue, LoadValue
<1>6. \A m, a, fn, v : M!StoreValue(m, a, fn, v) = StoreValue(m, a, fn, v)
  BY <1>3 DEF M!StoreValue, StoreValue
<1> QED BY <1>5, <1>6

(* What the handlers write to rd is a word: for the supported instructions *)
(* because the ALU computes it as well, in general because a register has  *)
(* the width of a word.                                                    *)
ArithOnWords ==
  \A op \in {"rtype", "itype", "lui"}, fn \in Funct, a, b \in Word :
    ARITH(op, fn, a, b) \in Word

ResultInWord(i) ==
  \A a, b \in Word :
    /\ i.op = "rtype" /\ i.fn # "other" => ARITH("rtype", i.fn, a, b) \in Word
    /\ i.op = "itype" /\ i.fn # "other" => ARITH("itype", i.fn, a, b) \in Word
    /\ i.op = "lui" => ARITH("lui", i.fn, 0, b) \in Word

LEMMA AnyResult ==
  ASSUME ArithOnWords, NEW i \in Instruction
  PROVE  ResultInWord(i)
BY SmallWords DEF ArithOnWords, ResultInWord, Instruction

LEMMA SupportedResult ==
  ASSUME AluImplementsHandlers, NEW i \in Instruction, Supported(i)
  PROVE  ResultInWord(i)
<1> SUFFICES ASSUME NEW a \in Word, NEW b \in Word
             PROVE  /\ i.op = "rtype" => ARITH("rtype", i.fn, a, b) \in Word
                    /\ i.op = "itype" => ARITH("itype", i.fn, a, b) \in Word
                    /\ i.op = "lui" => ARITH("lui", i.fn, 0, b) \in Word
  BY DEF ResultInWord
<1>1. CASE i.op = "rtype"
  <2>1. ARITH("rtype", i.fn, a, b) = ALU(a, b, gen_alu_control(<<0, 1, 0>>, i.fn))
    BY <1>1 DEF AluImplementsHandlers, AluImplements, Supported
  <2>2. gen_alu_control(<<0, 1, 0>>, i.fn) \in AluControl
    BY GenAluControlType
  <2> QED BY <1>1, <2>1, <2>2, AluAssumption
<1>2. CASE i.op = "itype"
  <2>1. ARITH("itype", i.fn, a, b) = ALU(a, b, gen_alu_control(<<0, 1, 1>>, i.fn))
    BY <1>2 DEF AluImplementsHandlers, AluImplements, Supported
  <2>2. gen_alu_control(<<0, 1, 1>>, i.fn) \in AluControl
    BY GenAluControlType
  <2> QED BY <1>2, <2>1, <2>2, AluAssumption
<1>3. CASE i.op = "lui"
  <2>1. ARITH("lui", i.fn, 0, b) = ALU(0, b, "lui")
    BY DEF AluImplementsHandlers, AluImplements, Instruction
  <2> QED BY <1>3, <2>1, SmallWords, AluAssumption DEF AluControl
<1> QED BY <1>1, <1>2, <1>3

LEMMA EmulatorType ==
  ASSUME TypeOK, ZeroRegister, M!execute_emu, ResultInWord(InstrAt(imem, PC))
  PROVE  /\ PC' \in Word /\ R' \in [Reg -> Word] /\ memory' \in MemoryType
         /\ ZeroRegister'
<1> DEFINE i == InstrAt(imem, PC)
<1>1. /\ PC \in Word /\ R \in [Reg -> Word] /\ memory \in MemoryType
      /\ 0 \in Reg /\ 0 \in Word /\ 4 \in Word /\ R[0] = 0
  BY SmallWords, NumRegsAssumption DEF TypeOK, ZeroRegister, Reg
<1>2. i \in Instruction /\ ResultInWord(i)
  BY <1>1, InstrAtType DEF TypeOK
<1>3. M!execute_instruction(i)
  BY EmulatorWords DEF M!execute_emu
<1> HIDE DEF i
<1>4. /\ i.rd \in Reg /\ i.rs1 \in Reg /\ i.rs2 \in Reg /\ i.imm \in Word
      /\ i.fn \in Funct /\ R[i.rs1] \in Word /\ R[i.rs2] \in Word
  BY <1>1, <1>2 DEF Instruction
<1>5. M!Advance => PC' \in Word
  BY <1>1, EmulatorWords, PlusInWord DEF M!Advance
<1>6. ASSUME NEW v \in Word, R' = M!Written(i.rd, v)
      PROVE  R' \in [Reg -> Word] /\ ZeroRegister'
  BY <1>1, <1>4, <1>6 DEF M!Written, ZeroRegister
<1>7. ASSUME NEW how, M!Stop(how)
      PROVE  UNCHANGED <<PC, R, memory>>
  BY <1>7 DEF M!Stop
<1>8. UNCHANGED R => R' \in [Reg -> Word] /\ ZeroRegister'
  BY <1>1 DEF ZeroRegister
<1>9. CASE M!execute_rtype(i)
  <2>1. i.fn # "other" => ARITH("rtype", i.fn, R[i.rs1], R[i.rs2]) \in Word
    BY <1>2, <1>4, <1>9 DEF M!execute_rtype, ResultInWord
  <2> QED BY <1>1, <1>5, <1>6, <1>7, <1>8, <1>9, <2>1 DEF M!execute_rtype
<1>10. CASE M!execute_itype_except_load(i)
  <2>1. i.fn # "other" => ARITH("itype", i.fn, R[i.rs1], i.imm) \in Word
    BY <1>2, <1>4, <1>10 DEF M!execute_itype_except_load, ResultInWord
  <2> QED BY <1>1, <1>5, <1>6, <1>8, <1>10, <2>1 DEF M!execute_itype_except_load
<1>11. CASE M!execute_ecall(i)
  BY <1>1, <1>5, <1>7, <1>8, <1>11 DEF M!execute_ecall
<1>12. CASE M!execute_branch(i)
  <2>1. Plus(PC, i.imm) \in Word /\ Plus(PC, 4) \in Word
    BY <1>1, <1>4, PlusInWord
  <2> QED BY <1>1, <1>7, <1>8, <1>12, <2>1, EmulatorWords DEF M!execute_branch
<1>13. CASE M!execute_jal(i)
  <2>1. M!Plus(PC, i.imm) \in Word /\ M!Plus(PC, 4) \in Word
    BY <1>1, <1>4, PlusInWord, EmulatorWords
  <2> QED BY <1>1, <1>6, <1>13, <2>1 DEF M!execute_jal
<1>14. CASE M!execute_store(i)
  <2>1. StoreValue(memory, Plus(R[i.rs1], i.imm), i.fn, R[i.rs2]) \in MemoryType
    BY <1>1, <1>4, PlusInWord, StoreValueType
  <2>2. M!StoreValue(memory, M!Plus(R[i.rs1], i.imm), i.fn, R[i.rs2]) \in MemoryType
    BY <2>1, EmulatorWords, EmulatorMemory
  <2> QED BY <1>1, <1>5, <1>7, <1>8, <1>14, <2>2 DEF M!execute_store
<1>15. CASE M!execute_load(i)
  <2>1. LoadValue(memory, Plus(R[i.rs1], i.imm), i.fn) \in Word
    BY <1>1, <1>4, PlusInWord, LoadValueInWord
  <2>2. M!LoadValue(memory, M!Plus(R[i.rs1], i.imm), i.fn) \in Word
    BY <2>1, EmulatorWords, EmulatorMemory
  <2> QED BY <1>1, <1>5, <1>6, <1>8, <1>15, <2>2 DEF M!execute_load
<1>16. CASE M!execute_lui(i)
  <2>1. ARITH("lui", i.fn, 0, i.imm) \in Word
    BY <1>2, <1>4, <1>16 DEF M!execute_lui, ResultInWord
  <2> QED BY <1>1, <1>5, <1>6, <1>16, <2>1 DEF M!execute_lui
<1>17. CASE M!parse_failure(i)
  BY <1>1, <1>7, <1>8, <1>17 DEF M!parse_failure
<1> QED BY <1>3, <1>9, <1>10, <1>11, <1>12, <1>13, <1>14, <1>15, <1>16, <1>17
     DEF M!execute_instruction

(***************************************************************************)
(* The driver.  While the emulator runs nothing is in the pipeline, and    *)
(* main() takes no step after fetch has ended the process.                 *)
(***************************************************************************)
Dead == /\ stage_fetch(wires).instr.op = "zero"
        /\ \/ phase = "simulate" /\ simulating
           \/ phase = "flush" /\ simins < prog_numins

Idle == \A s \in Stage : ~valid[s]

Started == /\ phase = "emulate" => Idle
           /\ failed => Dead

MainInv == Started /\ (kept /\ ~ecall_exit => Kept)

DriverInv == Started /\ Sound

LEMMA InitMain == MainInit => MainInv /\ DriverInv
<1> SUFFICES ASSUME MainInit PROVE MainInv /\ DriverInv
  OBVIOUS
<1> USE DEF MainInit, HInit
<1>1. Started
  BY DEF Started, Idle, Init
<1>2. Sound
  <2>1. TypeOK /\ ControlInv /\ HTypeOK /\ BubblesHarmless /\ ControlsMatch
    BY InitType, InitControl, HInitType, InitBubbles, InitControls
  <2>2. /\ LoadUseStalled /\ FetchAhead /\ ProgramOrder /\ OrderBehind /\ GapAfterLoad
        /\ Squashed
    BY <1>1 DEF Stage, LoadUseStalled, FetchAhead, ProgramOrder, OrderBehind,
       GapAfterLoad, Squashed
  <2> QED BY <2>1, <2>2, InitSimulation DEF Sound, Steady
<1>3. ReadCurrent /\ ResultCurrent
  BY DEF ReadCurrent, ResultCurrent, Stage
<1> QED BY <1>1, <1>2, <1>3 DEF MainInv, DriverInv, Kept

(* A cycle within the contract is a step of SafeSpec.                      *)
LEMMA CycleIsSafe ==
  ASSUME ~failed, ~ecall_exit, Cycle
  PROVE  kept' => kept /\ SafeNext
BY DEF Cycle, HNext, running, SafeNext

LEMMA CycleIsCall == Cycle => [HCall]_<<vars, history>>
BY DEF Cycle, HCall

(* After the end of the process no step of main() is left.                 *)
LEMMA FailedIsDead == ASSUME Dead, failed PROVE ~MainNext
<1> USE DEF Dead
<1>1. ~emulate_instruction /\ ~leave_emulator
  BY DEF emulate_instruction, leave_emulator
<1>2. ~load_flush /\ ~report /\ ~fetch_failure
  BY DEF load_flush, report, fetch_failure
<1>3. ~Cycle
  BY DEF Cycle, cycle_pipeline
<1>4. ~simulate_cycle /\ ~flush_cycle
  BY <1>3 DEF simulate_cycle, flush_cycle
<1> QED BY <1>1, <1>2, <1>4 DEF MainNext

(* What leaves the state of the pipeline alone keeps what holds of it.     *)
LEMMA StutterKeeps ==
  ASSUME UNCHANGED <<vars, history>>
  PROVE  (Sound => Sound') /\ (Kept => Kept')
<1> USE DEF vars, history, pregs
<1>1. TypeOK => TypeOK'
  BY DEF TypeOK
<1>2. (SupportedProgram => SupportedProgram') /\ (HTypeOK => HTypeOK')
  BY DEF SupportedProgram, HTypeOK
<1>3. /\ ControlInv => ControlInv'
      /\ BubblesHarmless => BubblesHarmless'
      /\ BubbleEcall => BubbleEcall'
  BY DEF ControlInv, StallMadeBubble, WiresCoherent, WriteBackValue, BubblesHarmless,
     Harmless, BubbleEcall, Announces
<1>4. /\ ControlsMatch => ControlsMatch'
      /\ LoadUseStalled => LoadUseStalled'
      /\ FetchAhead => FetchAhead'
      /\ GapAfterLoad => GapAfterLoad'
      /\ LuiReadsZero => LuiReadsZero'
  BY DEF ControlsMatch, LinesOf, LoadUseStalled, Forwards, FetchAhead, GapAfterLoad,
     LuiReadsZero
<1>5. /\ ProgramOrder => ProgramOrder'
      /\ OrderBehind => OrderBehind'
      /\ Squashed => Squashed'
      /\ InFlight => InFlight'
      /\ ZeroRegister => ZeroRegister'
  BY DEF ProgramOrder, fetch_pc, OrderBehind, Squashed, InFlight, Fetched, ZeroRegister
<1>6. ReadCurrent => ReadCurrent'
  BY DEF ReadCurrent, Forwards
<1>7. ResultCurrent => ResultCurrent'
  BY DEF ResultCurrent, absR, WriteBackValue, stage_writeback
<1>8. Sound => Sound'
  BY <1>1, <1>2, <1>3, <1>4, <1>5 DEF Sound, Steady
<1> QED BY <1>2, <1>6, <1>7, <1>8 DEF Kept

(* So does a step of the emulator, with nothing in the pipeline.           *)
LEMMA EmulatorKeeps ==
  ASSUME emulate_instruction, Idle, Sound, ResultInWord(InstrAt(imem, PC))
  PROVE  Sound' /\ (Kept => Kept')
<1> USE DEF Sound
<1>1. /\ UNCHANGED <<pregs, wires, cache, stats, ecall_exit, failed, history, imem>>
      /\ M!execute_emu
  BY DEF emulate_instruction, record, M!execute_emu
<1>2. \A s \in Stage : ~valid'[s]
  BY <1>1 DEF Idle, history
<1>3. /\ PC' \in Word /\ R' \in [Reg -> Word] /\ memory' \in MemoryType
      /\ ZeroRegister'
  BY <1>1, EmulatorType
<1>4. TypeOK' /\ HTypeOK'
  BY <1>1, <1>3 DEF TypeOK, HTypeOK, pregs, history, IsProgram
<1>5. ControlInv' /\ BubblesHarmless' /\ BubbleEcall'
  BY <1>1 DEF Steady, ControlInv, StallMadeBubble, WiresCoherent, WriteBackValue,
     BubblesHarmless, Harmless, BubbleEcall, Announces, pregs, history
<1>6. /\ ControlsMatch' /\ LoadUseStalled' /\ FetchAhead' /\ ProgramOrder'
      /\ OrderBehind' /\ GapAfterLoad' /\ LuiReadsZero' /\ Squashed'
  BY <1>1 DEF Steady, ControlsMatch, LinesOf, LoadUseStalled, Forwards, FetchAhead,
     ProgramOrder, OrderBehind, GapAfterLoad, LuiReadsZero, Squashed, fetch_pc,
     pregs, history
<1>7. ReadCurrent' /\ ResultCurrent' /\ InFlight'
  BY <1>2 DEF ReadCurrent, ResultCurrent, InFlight, Fetched, Stage
<1>8. SupportedProgram => SupportedProgram'
  BY <1>1 DEF SupportedProgram
<1> QED BY <1>3, <1>4, <1>5, <1>6, <1>7, <1>8 DEF Steady, Kept

LEMMA NextStarted == Started /\ [MainNext]_mainVars => Started'
<1> SUFFICES ASSUME Started, [MainNext]_mainVars PROVE Started'
  OBVIOUS
<1>1. CASE UNCHANGED mainVars
  <2>1. UNCHANGED <<vars, history, phase, opt, simins, prog_numins>>
    BY <1>1 DEF mainVars, driver, record
  <2>2. Dead' = Dead
    BY <2>1 DEF Dead, stage_fetch, fetch_pc, simulating, vars
  <2> QED BY <2>1, <2>2 DEF Started, Idle, vars, history
<1>2. CASE MainNext
  <2>1. ~failed
    BY <1>2, FailedIsDead DEF Started
  <2>2. CASE emulate_instruction
    BY <2>1, <2>2 DEF Started, Idle, emulate_instruction, history
  <2>3. CASE leave_emulator \/ load_flush \/ report
    BY <2>1, <2>3 DEF Started, leave_emulator, load_flush, report, vars
  <2>4. CASE simulate_cycle \/ flush_cycle
    BY <2>1, <2>4 DEF Started, simulate_cycle, flush_cycle, Cycle, cycle_pipeline
  <2>5. CASE fetch_failure
    BY <2>5 DEF Started, Dead, fetch_failure, parse_failure, stage_fetch, simulating,
       driver
  <2> QED BY <1>2, <2>2, <2>3, <2>4, <2>5 DEF MainNext
<1> QED BY <1>1, <1>2

(* The handlers of the emulator write words whatever the program.          *)
LEMMA NextDriver ==
  ASSUME PRINT_STATS, ArithOnWords
  PROVE  DriverInv /\ [MainNext]_mainVars => DriverInv'
<1> SUFFICES ASSUME Sound, Started, [MainNext]_mainVars PROVE Sound'
  BY NextStarted DEF DriverInv
<1>1. CASE UNCHANGED mainVars
  BY <1>1, StutterKeeps DEF mainVars
<1>2. CASE emulate_instruction
  <2>1. Idle
    BY <1>2 DEF emulate_instruction, Started
  <2>2. InstrAt(imem, PC) \in Instruction
    BY InstrAtType DEF Sound, TypeOK
  <2> QED BY <1>2, <2>1, <2>2, AnyResult, EmulatorKeeps
<1>3. CASE leave_emulator \/ report
  BY <1>3, StutterKeeps DEF leave_emulator, report
<1>4. CASE simulate_cycle \/ flush_cycle
  BY <1>4, CycleIsCall, NextSound DEF simulate_cycle, flush_cycle
<1>5. CASE load_flush
  BY <1>5, FlushKeeps
<1>6. CASE fetch_failure
  BY <1>6, NextSound DEF fetch_failure, HCall
<1> QED BY <1>1, <1>2, <1>3, <1>4, <1>5, <1>6 DEF MainNext

LEMMA NextMain ==
  ASSUME PRINT_STATS, AluImplementsHandlers
  PROVE  MainInv /\ [MainNext]_mainVars => MainInv'
<1> SUFFICES ASSUME MainInv, [MainNext]_mainVars, kept', ~ecall_exit' PROVE Kept'
  BY NextStarted DEF MainInv
<1>1. CASE UNCHANGED mainVars
  <2>1. UNCHANGED <<vars, history, kept>>
    BY <1>1 DEF mainVars, record
  <2> QED BY <2>1, StutterKeeps DEF MainInv, vars
<1>2. CASE MainNext
  <2>1. ~failed
    BY <1>2, FailedIsDead DEF MainInv, Started
  <2>2. CASE emulate_instruction
    <3>1. Idle /\ Kept
      BY <2>2 DEF emulate_instruction, MainInv, Started, record
    <3>2. InstrAt(imem, PC) \in Instruction /\ Supported(InstrAt(imem, PC))
      <4>1. Supported(ZERO)
        BY DEF Supported, ZERO
      <4> QED BY <3>1, <4>1, InstrAtType
              DEF Kept, Sound, TypeOK, SupportedProgram, InstrAt
    <3> QED BY <2>2, <3>1, <3>2, SupportedResult, EmulatorKeeps DEF Kept
  <2>3. CASE leave_emulator \/ report
    <3>1. UNCHANGED <<vars, history, kept>>
      BY <2>3 DEF leave_emulator, report, record
    <3> QED BY <3>1, StutterKeeps DEF MainInv, vars
  <2>4. CASE simulate_cycle \/ flush_cycle
    <3>1. Cycle
      BY <2>4 DEF simulate_cycle, flush_cycle
    <3>2. ~ecall_exit
      BY <3>1 DEF Cycle, cycle_pipeline
    <3> QED BY <2>1, <3>1, <3>2, CycleIsSafe, CycleIsCall, NextKept DEF MainInv
  <2>5. CASE load_flush
    <3>1. UNCHANGED <<ecall_exit, kept>>
      BY <2>5 DEF load_flush
    <3> QED BY <2>5, <3>1, FlushKeeps DEF MainInv, Kept
  <2>6. CASE fetch_failure
    <3>1. /\ parse_failure
          /\ UNCHANGED <<history, kept, ecall_exit>>
      BY <2>6 DEF fetch_failure, record, parse_failure
    <3>2. HCall /\ ~cycle_pipeline
      BY <3>1 DEF HCall, parse_failure, cycle_pipeline
    <3> QED BY <3>1, <3>2, NextKept DEF MainInv
  <2> QED BY <1>2, <2>2, <2>3, <2>4, <2>5, <2>6 DEF MainNext
<1> QED BY <1>1, <1>2

LEMMA MainCorrect ==
  ASSUME PRINT_STATS, AluImplementsHandlers
  PROVE  MainSpec => []MainInv
<1> QED BY InitMain, NextMain, PTL DEF MainSpec

LEMMA MainStep ==
  ASSUME PRINT_STATS, AluImplementsHandlers, MainInv, [MainNext]_mainVars,
         kept', ~ecall_exit, phase \in {"simulate", "flush"}
  PROVE  Simulates \/ UNCHANGED mainVars
<1>1. CASE UNCHANGED <<vars, history>>
  BY <1>1 DEF Simulates, vars, Emu!vars, absPC, absR, stage_writeback,
     WriteBackValue, fetch_pc, pregs, history
<1>2. CASE (simulate_cycle \/ flush_cycle) /\ ~failed
  <2>1. Cycle
    BY <1>2 DEF simulate_cycle, flush_cycle
  <2>2. Kept /\ SafeNext
    BY <1>2, <2>1, CycleIsSafe DEF MainInv
  <2>3. [Emu!Next]_Emu!vars
    BY <2>2, KeptSimulates, StepRefines
  <2> QED BY <2>3 DEF Simulates
<1>3. CASE load_flush
  <2>1. UNCHANGED <<R, memory, pregs, wires, ecall_exit, valid>>
    BY <1>3 DEF load_flush, history
  <2>2. UNCHANGED <<absPC, absR, memory>>
    BY <2>1 DEF absPC, absR, stage_writeback, WriteBackValue, fetch_pc, pregs
  <2> QED BY <1>3, <2>2 DEF Simulates
<1>4. CASE fetch_failure
  <2>1. UNCHANGED <<R, memory, imem, pregs, wires, ecall_exit, valid>>
    BY <1>4 DEF fetch_failure, parse_failure, history
  <2> QED BY <2>1 DEF Simulates, Emu!vars, absPC, absR, stage_writeback,
          WriteBackValue, fetch_pc, pregs
<1>5. CASE report
  BY <1>1, <1>5 DEF report
<1>6. CASE MainNext
  BY <1>2, <1>3, <1>4, <1>5, <1>6, FailedIsDead DEF MainInv, Started, MainNext,
     emulate_instruction, leave_emulator
<1> QED BY <1>1, <1>6 DEF mainVars

(* Under every combination of options, for every program and every length  *)
(* of FLUSH.input: as long as the contract is kept, each cycle of the loop *)
(* and of the flush is a step of the emulator on the program in memory, or *)
(* none, whatever the emulator's own loop has left behind.                 *)
THEOREM DriverSimulates ==
  ASSUME PRINT_STATS, AluImplementsHandlers
  PROVE  MainSpec => SimulatesEmulator
<1>1. /\ MainInv /\ [MainNext]_mainVars
      => [kept' /\ ~ecall_exit /\ phase \in {"simulate", "flush"}
            => Simulates]_mainVars
  BY MainStep
<1> QED BY <1>1, MainCorrect, PTL DEF MainSpec, SimulatesEmulator

(***************************************************************************)
(* Types.  From here on nothing depends on the contract.                   *)
(***************************************************************************)
LEMMA DriverCorrect ==
  ASSUME PRINT_STATS, ArithOnWords
  PROVE  MainSpec => []DriverInv
<1> QED BY InitMain, NextDriver, PTL DEF MainSpec

LEMMA ProgramLength == TypeOK => Cardinality(DOMAIN imem) \in Nat
<1> SUFFICES ASSUME TypeOK PROVE Cardinality(DOMAIN imem) \in Nat
  OBVIOUS
<1>1. IsFiniteSet(Word)
  BY WordArithmetic, FS_Interval
<1>2. DOMAIN imem \subseteq Word
  BY DEF TypeOK, IsProgram
<1> QED BY <1>1, <1>2, FS_Subset, FS_CardinalityType

LEMMA EmulatorExits == exit \in M!Exits /\ M!execute_emu => exit' \in M!Exits
BY DEF M!execute_emu, M!execute_instruction, M!execute_rtype,
   M!execute_itype_except_load, M!execute_ecall, M!execute_branch, M!execute_jal,
   M!execute_store, M!execute_load, M!execute_lui, M!parse_failure, M!Stop, M!Exits

LEMMA InitMainType == MainInit => MainTypeOK
<1> SUFFICES ASSUME MainInit PROVE MainTypeOK
  OBVIOUS
<1>1. TypeOK
  BY InitMain DEF DriverInv, Sound
<1>2. prog_numins \in Nat
  BY <1>1, ProgramLength DEF MainInit
<1>3. kept \in BOOLEAN
  BY DEF MainInit, SupportedProgram
<1> QED BY <1>1, <1>2, <1>3
        DEF MainInit, HInit, MainTypeOK, Phase, M!Exits, NoLoop

LEMMA NextMainType ==
  MainTypeOK /\ HTypeOK /\ TypeOK' /\ [MainNext]_mainVars => MainTypeOK'
<1> SUFFICES ASSUME MainTypeOK, HTypeOK, TypeOK', [MainNext]_mainVars
             PROVE  MainTypeOK'
  OBVIOUS
<1> USE DEF MainTypeOK
<1>1. CASE UNCHANGED mainVars
  BY <1>1 DEF mainVars, driver, record, history
<1>2. CASE emulate_instruction
  <2>1. exit' \in M!Exits
    BY <1>2, EmulatorExits DEF emulate_instruction
  <2>2. simins' \in 0 .. prog_numins
    BY <1>2 DEF emulate_instruction, emulating, Counted
  <2> QED BY <1>2, <2>1, <2>2 DEF emulate_instruction, record, history
<1>3. CASE leave_emulator \/ report
  BY <1>3 DEF leave_emulator, report, Phase, record, history
<1>4. CASE simulate_cycle \/ flush_cycle
  <2>1. Cycle /\ simins' \in 0 .. prog_numins
    BY <1>4 DEF simulate_cycle, flush_cycle, simulating, Counted
  <2>2. executed' \in 0 .. retired'
    BY <2>1, OneType DEF Cycle, Record, HTypeOK, One
  <2> QED BY <2>1, <2>2 DEF Cycle
<1>5. CASE load_flush
  <2>1. loop'.flush \subseteq Word
    <3>1. wires.pc_src0 \in Int
      BY WordArithmetic DEF TypeOK, Wires
    <3>2. FlushWords \subseteq Word
      BY <3>1, ModInWord, FlushAssumption DEF FlushWords, Plus
    <3> QED BY <1>5, <3>2 DEF load_flush
  <2> QED BY <1>5, <2>1, FlushAssumption DEF load_flush, LoadCount, Phase, history
<1>6. CASE fetch_failure
  BY <1>6 DEF fetch_failure, driver, record, history
<1> QED BY <1>1, <1>2, <1>3, <1>4, <1>5, <1>6 DEF MainNext

(* The driver never leaves its types: its counter stays within the length  *)
(* of the file it has loaded last, and it counts no more instructions of   *)
(* the program than have left mem.                                         *)
THEOREM DriverTypeCorrect ==
  ASSUME PRINT_STATS, ArithOnWords
  PROVE  MainSpec => []MainTypeOK
<1>1. DriverInv => TypeOK /\ HTypeOK
  BY DEF DriverInv, Sound
<1> QED BY <1>1, DriverCorrect, InitMainType, NextMainType, PTL DEF MainSpec

(***************************************************************************)
(* The exit.  When the loop of -e ends, the exit ecall is in MEM/WB, itself *)
(* or announced by the bubble of its stall, and what is in flight behind   *)
(* it are the three words behind it.                                       *)
(***************************************************************************)
Window == {Plus(memwb.instr_addr, 4 * k) : k \in 1 .. 3}

InWindow(s, reg) ==
  valid[s] => reg.instr.op = "ecall" \/ reg.instr_addr \in Window

ExitWindow ==
  opt.exit /\ ecall_exit /\ phase = "simulate" =>
    /\ ~wires.pcsrc
    /\ wires.pc_write => fetch_pc(wires) \in Window
    /\ InWindow("ifid", ifid) /\ InWindow("idex", idex) /\ InWindow("exmem", exmem)

(* With -m and without -e the pipeline is empty until the flush: the       *)
(* emulator has left the counter of the loops at its limit.                *)
EmptyLoop ==
  opt.mulator /\ ~opt.exit /\ phase \in {"emulate", "simulate"} =>
    /\ Idle /\ ~wires.pcsrc /\ ~wires.pc_write
    /\ phase = "simulate" => simins = prog_numins

(* In the flush that follows either, until a branch is taken, nothing but  *)
(* NOPs, ecalls, bubbles and the words behind the exit is in flight, and   *)
(* fetch goes through FLUSH.input, after the word that a stall still owes. *)
Idling(s, reg) ==
  valid[s] => \/ reg.instr = NOP \/ reg.instr.op = "ecall"
              \/ reg.instr_addr \in loop.behind

FetchesNops ==
  \A k \in 0 .. (prog_numins - simins - 1) :
    \/ InstrAt(imem, Plus(fetch_pc(wires), 4 * k)) = NOP
    \/ k = 0 /\ fetch_pc(wires) \in loop.behind

Overrun == (opt.exit \/ opt.mulator) /\ phase = "flush"

OnlyNops ==
  Overrun /\ stats.branch = loop.branch =>
    /\ ~wires.pcsrc
    /\ Idling("ifid", ifid) /\ Idling("idex", idex) /\ Idling("exmem", exmem)
    /\ FetchesNops

(* Nothing but one of the words behind the exit takes a branch.            *)
NopsStay ==
  /\ Overrun /\ loop.behind = {} => stats.branch = loop.branch
  /\ ~opt.exit => loop.behind = {}

(* Until FLUSH.input is loaded nothing is recorded of it.                  *)
Loaded == phase = "flush" \/ (phase = "done" /\ opt.sim)

ExitInv == /\ ExitWindow /\ EmptyLoop
           /\ OnlyNops /\ NopsStay
           /\ loop.branch \in 0 .. stats.branch
           /\ phase = "emulate" => ~ecall_exit
           /\ phase \in {"simulate", "flush"} => opt.sim
           /\ Loaded => prog_numins = FLUSH_LINES
           /\ ~Loaded => loop = NoLoop

(* What a branch, a load or a store is not.                                *)
LEMMA EcallLines ==
  ASSUME NEW i, i.op = "ecall" \/ i = NOP
  PROVE  /\ ~gen_control(i).branch /\ ~gen_control(i).mem_write
         /\ ~gen_control(i).mem_read
         /\ gen_control(i).reg_write => i.rd = 0
BY DEF gen_control, NoControl, NOP

LEMMA ExitCycle ==
  ASSUME Sound, Cycle, exmem.instr.op = "ecall"
  PROVE  /\ ~wires'.pcsrc
         /\ wires'.pc_write => fetch_pc(wires') \in Window'
         /\ InWindow("ifid", ifid)' /\ InWindow("idex", idex)' /\ InWindow("exmem", exmem)'
<1> USE DEF Sound, Steady
<1>1. ~pcsrc
  <2>1. CASE valid["exmem"]
    BY <2>1, EcallLines DEF ControlsMatch, LinesOf, pcsrc, gen_branch
  <2>2. CASE ~valid["exmem"]
    BY <2>2 DEF BubblesHarmless, Harmless, pcsrc, gen_branch
  <2> QED BY <2>1, <2>2
<1>2. cycle_pipeline /\ Record /\ ~flushing
  BY <1>1 DEF Cycle, flushing
<1>3. /\ valid'["ifid"] <=> (hazard => valid["ifid"])
      /\ valid'["idex"] <=> ~hazard /\ valid["ifid"]
      /\ valid'["exmem"] <=> valid["idex"]
  BY <1>2, CycleValid
<1>4. /\ wires'.pc_write = hazard /\ (hazard => valid["idex"] /\ idex.instr.op = "load")
      /\ hazard => fetch_pc(wires') = fetch_pc(wires)
  BY <1>1, <1>2, NextFetch, HazardIsPair DEF Pair
<1>5. /\ idex'.instr_addr = ifid.instr_addr /\ idex'.instr = ifid.instr
      /\ exmem'.instr_addr = idex.instr_addr /\ exmem'.instr = idex.instr
      /\ memwb'.instr_addr = exmem.instr_addr
      /\ ifid'.instr_addr = IF hazard THEN ifid.instr_addr ELSE fetch_pc(wires)
      /\ hazard => ifid'.instr = ifid.instr
  BY <1>2, Moves DEF stage_fetch
<1> DEFINE e == exmem.instr_addr
<1>6. /\ e \in Word
      /\ \A d \in {4, 8} : Plus(Plus(e, d), 4) = Plus(e, d + 4)
  BY PlusPlus DEF TypeOK, Exmem
<1>7. /\ valid["idex"] => idex.instr.op = "ecall" \/ idex.instr_addr = Plus(e, 4)
      /\ valid["ifid"] => \/ ifid.instr.op = "ecall"
                           \/ ifid.instr_addr \in {Plus(e, 4), Plus(e, 8)}
      /\ fetch_pc(wires) \in {Plus(e, 8), Plus(e, 12)}
  <2>1. CASE valid["exmem"]
    <3>1. valid["ifid"]
      BY <2>1 DEF FetchAhead
    <3>2. valid["idex"]
      BY <2>1 DEF GapAfterLoad, ControlsMatch, LinesOf, gen_control, NoControl
    <3> QED BY <1>6, <2>1, <3>1, <3>2 DEF ProgramOrder
  <2>2. CASE ~valid["exmem"]
    <3>1. /\ valid["idex"] /\ valid["ifid"]
          /\ idex.instr.op = "ecall" /\ idex.instr_addr = e
      BY <2>2 DEF BubbleEcall, Announces, FetchAhead
    <3> QED BY <1>6, <3>1 DEF ProgramOrder
  <2> QED BY <2>1, <2>2
<1> HIDE DEF e
<1>8. Window' = {Plus(e, 4 * k) : k \in 1 .. 3}
  BY <1>5 DEF Window, e
<1>9. Plus(e, 4) \in Window' /\ Plus(e, 8) \in Window' /\ Plus(e, 12) \in Window'
  <2>1. 4 = 4 * 1 /\ 8 = 4 * 2 /\ 12 = 4 * 3 /\ 1 \in 1 .. 3 /\ 2 \in 1 .. 3 /\ 3 \in 1 .. 3
    OBVIOUS
  <2> QED BY <1>8, <2>1
<1>10. InWindow("exmem", exmem)' /\ InWindow("idex", idex)' /\ InWindow("ifid", ifid)'
  BY <1>3, <1>5, <1>7, <1>9 DEF InWindow
<1>11. wires'.pc_write => fetch_pc(wires') \in Window'
  BY <1>4, <1>7, <1>9
<1> QED BY <1>1, <1>2, <1>10, <1>11, NextFetch

LEMMA ModShift ==
  ASSUME NEW y \in 0 .. (3 * WordMod - 1)
  PROVE  (y - WordMod) % WordMod = y % WordMod
<1>1. y \in Int /\ 0 <= y
  BY WordArithmetic
<1>2. CASE y < WordMod
  BY <1>1, <1>2, WordArithmetic
<1>3. CASE WordMod <= y /\ y < 2 * WordMod
  BY <1>1, <1>3, WordArithmetic
<1>4. CASE 2 * WordMod <= y
  BY <1>1, <1>4, WordArithmetic
<1> QED BY <1>1, <1>2, <1>3, <1>4, WordArithmetic

LEMMA PlusForth ==
  ASSUME NEW a \in Word, NEW n \in -4 .. WordMod
  PROVE  Plus(Plus(a, 4), n) = Plus(a, n + 4)
<1>1. a \in Int /\ 0 <= a /\ a < WordMod
  BY WordArithmetic
<1>2. CASE a + 4 < WordMod
  <2>1. Plus(a, 4) = a + 4
    BY <1>1, <1>2, WordArithmetic DEF Plus
  <2> QED BY <1>1, <2>1 DEF Plus
<1>3. CASE ~(a + 4 < WordMod)
  <2> DEFINE y == a + (n + 4)
  <2>1. Plus(a, 4) = a + 4 - WordMod
    BY <1>1, <1>3, WordArithmetic DEF Plus
  <2>2. y \in 0 .. (3 * WordMod - 1) /\ a + 4 - WordMod + n = y - WordMod
    BY <1>1, WordArithmetic
  <2>3. Plus(Plus(a, 4), n) = (y - WordMod) % WordMod /\ Plus(a, n + 4) = y % WordMod
    BY <2>1, <2>2 DEF Plus
  <2> HIDE DEF y
  <2> QED BY <2>2, <2>3, ModShift
<1> QED BY <1>2, <1>3

LEMMA CycleCounts ==
  ASSUME PRINT_STATS, Sound, Cycle
  PROVE  /\ stats.stall \in Nat /\ stats'.stall = stats.stall + One(hazard)
         /\ stats.branch \in Nat /\ stats'.branch = stats.branch + One(flushing)
         /\ wires'.pcsrc <=> flushing
         /\ UNCHANGED <<loop, opt, phase, prog_numins>>
BY DEF Sound, TypeOK, Stats, Cycle, cycle_pipeline, count_cycle, next_wires, WiresWith,
   flushing

LEMMA NopCycle ==
  ASSUME Sound, Cycle, ~wires.pcsrc,
         Idling("ifid", ifid), Idling("idex", idex), Idling("exmem", exmem),
         stage_fetch(wires).instr = NOP \/ fetch_pc(wires) \in loop.behind
  PROVE  /\ UNCHANGED <<absR, memory>> \/ exmem.instr_addr \in loop.behind
         /\ pcsrc => exmem.instr_addr \in loop.behind
         /\ ~pcsrc => /\ ~wires'.pcsrc
                      /\ fetch_pc(wires') = IF hazard THEN fetch_pc(wires)
                                            ELSE Plus(fetch_pc(wires), 4)
                      /\ Idling("ifid", ifid)' /\ Idling("idex", idex)'
                      /\ Idling("exmem", exmem)'
<1> USE DEF Sound, Steady
<1>1. \/ /\ ~exmem.ctl.branch /\ ~exmem.ctl.mem_write
         /\ exmem.ctl.reg_write => exmem.instr.rd = 0
      \/ exmem.instr_addr \in loop.behind
  <2>1. CASE valid["exmem"]
    BY <2>1, EcallLines DEF ControlsMatch, LinesOf, Idling
  <2>2. CASE ~valid["exmem"]
    BY <2>2 DEF BubblesHarmless, Harmless
  <2> QED BY <2>1, <2>2
<1>2. pcsrc => exmem.instr_addr \in loop.behind
  BY <1>1 DEF pcsrc, gen_branch
<1>3. cycle_pipeline /\ Record /\ loop' = loop
  BY DEF Cycle
<1>4. UNCHANGED <<absR, memory>> \/ exmem.instr_addr \in loop.behind
  <2>1. /\ memory' = mem_store(exmem)
        /\ R' = stage_writeback(memwb) /\ memwb'.ctl = exmem.ctl
        /\ memwb'.instr = exmem.instr
    BY <1>3 DEF cycle_pipeline, memwb_inp, stage_mem
  <2> QED BY <1>1, <2>1 DEF absR, stage_writeback, mem_store
<1>5. ASSUME ~pcsrc
      PROVE  Idling("ifid", ifid)' /\ Idling("idex", idex)' /\ Idling("exmem", exmem)'
  <2>1. ~flushing
    BY <1>5 DEF flushing
  <2>2. /\ valid'["ifid"] => (hazard => valid["ifid"])
        /\ valid'["idex"] => valid["ifid"]
        /\ valid'["exmem"] => valid["idex"]
    BY <1>3, CycleValid
  <2>3. /\ ifid' = IF hazard THEN ifid ELSE stage_fetch(wires)
        /\ idex'.instr = ifid.instr /\ idex'.instr_addr = ifid.instr_addr
        /\ exmem'.instr = idex.instr /\ exmem'.instr_addr = idex.instr_addr
    BY <1>3, <2>1, Moves
  <2>4. stage_fetch(wires).instr_addr = fetch_pc(wires)
    BY DEF stage_fetch
  <2> QED BY <1>3, <2>2, <2>3, <2>4 DEF Idling
<1> QED BY <1>2, <1>3, <1>4, <1>5, NextFetch

LEMMA LoadedBehind ==
  ASSUME load_flush, opt.exit, NEW a \in Window
  PROVE  /\ InstrAt(imem, a) = NOP \/ a \in loop'.behind
         /\ InstrAt(imem', a) = NOP \/ a \in loop'.behind
<1>1. /\ loop'.behind = BehindExit
      /\ imem' = [x \in DOMAIN imem \union FlushWords |->
                    IF x \in FlushWords THEN NOP ELSE imem[x]]
  BY DEF load_flush, FlushLine
<1>2. InstrAt(imem, a) = NOP \/ a \in loop'.behind
  BY <1>1 DEF BehindExit, Window
<1>3. InstrAt(imem', a) = NOP \/ InstrAt(imem', a) = InstrAt(imem, a)
  BY <1>1 DEF InstrAt
<1> QED BY <1>2, <1>3

LEMMA FlushLoaded ==
  ASSUME load_flush, NEW k \in 0 .. (FLUSH_LINES - 1)
  PROVE  InstrAt(imem', Plus(wires.pc_src0, 4 * k)) = NOP
BY DEF load_flush, FlushLine, FlushWords, InstrAt

LEMMA NopsLoaded ==
  ASSUME Sound, ExitInv, load_flush PROVE OnlyNops'
<1> SUFFICES ASSUME opt.exit \/ opt.mulator PROVE OnlyNops'
  BY DEF OnlyNops, Overrun, load_flush
<1> USE DEF Sound, ExitInv
<1>1. /\ UNCHANGED <<pregs, wires, history, opt>> /\ phase = "simulate"
      /\ simins' = 0 /\ prog_numins' = FLUSH_LINES
  BY DEF load_flush, LoadCount
<1>2. wires.pc_src0 \in Word /\ fetch_pc(wires) \in Word
  BY FetchPcType DEF TypeOK, Wires
<1>3. CASE opt.exit
  <2>1. /\ ~wires.pcsrc
        /\ wires.pc_write => fetch_pc(wires) \in Window
        /\ InWindow("ifid", ifid) /\ InWindow("idex", idex) /\ InWindow("exmem", exmem)
    BY <1>1, <1>3 DEF load_flush, simulating, ExitWindow
  <2>2. \A a \in Window : InstrAt(imem, a) = NOP \/ a \in loop'.behind
    BY <1>3, LoadedBehind
  <2>3. Idling("ifid", ifid)' /\ Idling("idex", idex)' /\ Idling("exmem", exmem)'
    BY <1>1, <2>1, <2>2 DEF Idling, InWindow, InFlight, Fetched, pregs, history
  <2>4. ASSUME NEW k \in 0 .. (FLUSH_LINES - 1)
        PROVE  \/ InstrAt(imem', Plus(fetch_pc(wires), 4 * k)) = NOP
               \/ k = 0 /\ fetch_pc(wires) \in loop'.behind
    <3>1. CASE ~wires.pc_write
      BY <2>1, <3>1, FlushLoaded DEF fetch_pc
    <3>2. CASE wires.pc_write /\ k = 0
      <4>1. Plus(fetch_pc(wires), 4 * k) = fetch_pc(wires)
        BY <1>2, <3>2, PlusZero
      <4> QED BY <1>3, <2>1, <3>2, <4>1, LoadedBehind
    <3>3. CASE wires.pc_write /\ k # 0
      <4>1. Plus(fetch_pc(wires), 4) = wires.pc_src0
        BY <1>2, <2>1, <3>3, StepForth DEF fetch_pc
      <4>2. k - 1 \in 0 .. (FLUSH_LINES - 1) /\ 4 * (k - 1) + 4 = 4 * k
        BY <3>3, FlushAssumption
      <4>3. 4 * (k - 1) \in -4 .. WordMod
        BY <4>2, FlushAssumption, WordArithmetic
      <4>4. Plus(fetch_pc(wires), 4 * k) = Plus(wires.pc_src0, 4 * (k - 1))
        BY <1>2, <4>1, <4>2, <4>3, PlusForth
      <4> QED BY <4>2, <4>4, FlushLoaded
    <3> QED BY <3>1, <3>2, <3>3
  <2>5. FetchesNops'
    BY <1>1, <2>4, FlushAssumption DEF FetchesNops
  <2> QED BY <1>1, <2>1, <2>3, <2>5 DEF OnlyNops
<1>4. CASE ~opt.exit
  <2>1. Idle /\ ~wires.pcsrc /\ ~wires.pc_write
    BY <1>1, <1>4 DEF EmptyLoop
  <2>2. Idling("ifid", ifid)' /\ Idling("idex", idex)' /\ Idling("exmem", exmem)'
    BY <1>1, <2>1 DEF Idle, Idling, Stage, history
  <2>3. fetch_pc(wires') = wires.pc_src0
    BY <1>1, <2>1 DEF fetch_pc
  <2>4. FetchesNops'
    BY <1>1, <2>3, FlushLoaded, FlushAssumption DEF FetchesNops
  <2> QED BY <1>1, <2>1, <2>2, <2>4 DEF OnlyNops
<1> QED BY <1>3, <1>4

LEMMA FlushNop ==
  ASSUME Sound, MainTypeOK, ExitInv, flush_cycle, opt.exit \/ opt.mulator,
         stats.branch = loop.branch
  PROVE  /\ ~wires.pcsrc
         /\ Idling("ifid", ifid) /\ Idling("idex", idex) /\ Idling("exmem", exmem)
         /\ stage_fetch(wires).instr = NOP \/ fetch_pc(wires) \in loop.behind
<1>1. /\ phase = "flush"
      /\ simins \in Nat /\ prog_numins \in Nat /\ simins < prog_numins
  BY DEF flush_cycle, MainTypeOK
<1>2. 0 \in 0 .. (prog_numins - simins - 1) /\ 4 * 0 = 0
  BY <1>1
<1>3. OnlyNops /\ Overrun
  BY <1>1 DEF ExitInv, Overrun
<1>4. InstrAt(imem, Plus(fetch_pc(wires), 0)) = NOP \/ fetch_pc(wires) \in loop.behind
  BY <1>2, <1>3 DEF OnlyNops, FetchesNops
<1>5. fetch_pc(wires) \in Word
  BY FetchPcType DEF Sound, TypeOK
<1>6. stage_fetch(wires).instr = NOP \/ fetch_pc(wires) \in loop.behind
  BY <1>4, <1>5, PlusZero DEF stage_fetch
<1> QED BY <1>3, <1>6 DEF OnlyNops

(* A cycle of the flush: a branch is taken by a word behind the exit, or   *)
(* the next cycle finds what this one found.                               *)
LEMMA NopsGoOn ==
  ASSUME PRINT_STATS, Sound, MainTypeOK, ExitInv, flush_cycle PROVE OnlyNops' /\ NopsStay'
<1>1. /\ UNCHANGED <<opt, loop, imem, prog_numins, phase>>
      /\ phase = "flush" /\ simins' = simins + 1 /\ Cycle
      /\ simins \in Nat /\ prog_numins \in Nat /\ simins < prog_numins
      /\ prog_numins = FLUSH_LINES /\ 4 * FLUSH_LINES < WordMod
  BY FlushAssumption, WordArithmetic
     DEF flush_cycle, Cycle, cycle_pipeline, MainTypeOK, ExitInv, Loaded
<1>2. /\ stats.branch \in Nat /\ loop.branch \in Nat /\ loop.branch <= stats.branch
      /\ stats'.branch = IF pcsrc THEN stats.branch + 1 ELSE stats.branch
  BY <1>1, CycleCounts DEF ExitInv, One, flushing
<1>3. ASSUME Overrun, stats.branch = loop.branch
      PROVE  /\ ~wires.pcsrc
             /\ Idling("ifid", ifid) /\ Idling("idex", idex) /\ Idling("exmem", exmem)
             /\ stage_fetch(wires).instr = NOP \/ fetch_pc(wires) \in loop.behind
  BY <1>3, FlushNop DEF Overrun
<1>4. ASSUME Overrun', stats'.branch = loop'.branch
      PROVE  /\ Overrun /\ stats.branch = loop.branch /\ ~pcsrc
  BY <1>1, <1>2, <1>4 DEF Overrun
<1>5. ASSUME Overrun', stats'.branch = loop'.branch
      PROVE  FetchesNops'
  <2>1. FetchesNops
    BY <1>4, <1>5 DEF ExitInv, OnlyNops
  <2>2. SUFFICES ASSUME NEW k \in 0 .. (prog_numins - simins - 2)
                 PROVE  \/ InstrAt(imem, Plus(fetch_pc(wires'), 4 * k)) = NOP
                        \/ k = 0 /\ fetch_pc(wires') \in loop.behind
    BY <1>1 DEF FetchesNops
  <2>3. fetch_pc(wires') = IF hazard THEN fetch_pc(wires) ELSE Plus(fetch_pc(wires), 4)
    BY <1>1, <1>3, <1>4, <1>5, NopCycle
  <2>4. CASE hazard
    <3>1. k \in 0 .. (prog_numins - simins - 1)
      BY <1>1
    <3> QED BY <2>1, <2>3, <2>4, <3>1 DEF FetchesNops
  <2>5. CASE ~hazard
    <3>1. /\ k \in Int /\ k + 1 \in 0 .. (prog_numins - simins - 1) /\ k + 1 # 0
          /\ 4 * (k + 1) = 4 * k + 4
      BY <1>1
    <3>2. InstrAt(imem, Plus(fetch_pc(wires), 4 * k + 4)) = NOP
      BY <2>1, <3>1 DEF FetchesNops
    <3>3. 4 * k \in -4 .. WordMod
      BY <1>1, WordArithmetic
    <3>4. fetch_pc(wires) \in Word
      BY FetchPcType DEF Sound, TypeOK
    <3> QED BY <2>3, <2>5, <3>2, <3>3, <3>4, PlusForth
  <2> QED BY <2>4, <2>5
<1>6. OnlyNops'
  BY <1>1, <1>3, <1>4, <1>5, NopCycle DEF OnlyNops
<1>7. NopsStay'
  <2>1. SUFFICES ASSUME Overrun, loop.behind = {} PROVE ~pcsrc /\ stats.branch = loop.branch
    BY <1>1, <1>2 DEF ExitInv, NopsStay, Overrun
  <2>2. stats.branch = loop.branch
    BY <2>1 DEF ExitInv, NopsStay
  <2> QED BY <1>1, <1>3, <2>1, <2>2, NopCycle
<1> QED BY <1>6, <1>7

LEMMA NextExit ==
  ASSUME PRINT_STATS
  PROVE  Sound /\ Started /\ MainTypeOK /\ ExitInv /\ [MainNext]_mainVars => ExitInv'
<1> SUFFICES ASSUME Sound, Started, MainTypeOK, ExitInv, [MainNext]_mainVars
             PROVE  ExitInv'
  OBVIOUS
<1>1. CASE UNCHANGED <<pregs, wires, imem, stats, ecall_exit, history, driver, loop>>
  BY <1>1 DEF ExitInv, ExitWindow, EmptyLoop, Idle, OnlyNops, NopsStay, Overrun, Window,
     InWindow, Idling, FetchesNops, Loaded, fetch_pc, pregs, history, driver
<1>2. CASE emulate_instruction
  BY <1>2 DEF emulate_instruction, record, ExitInv, ExitWindow, EmptyLoop, Idle,
     OnlyNops, NopsStay, Overrun, Loaded, history
<1>3. CASE leave_emulator
  <2>1. /\ UNCHANGED <<wires, stats, history, ecall_exit, opt, simins, prog_numins, loop>>
        /\ phase = "emulate" /\ phase' = IF opt.sim THEN "simulate" ELSE "done"
    BY <1>3 DEF leave_emulator, record, vars
  <2>2. EmptyLoop'
    <3>1. opt.mulator /\ ~opt.exit => simins = prog_numins
      BY <1>3 DEF leave_emulator, emulating, MainTypeOK
    <3> QED BY <2>1, <3>1 DEF ExitInv, EmptyLoop, Idle, history
  <2> QED BY <2>1, <2>2
          DEF ExitInv, ExitWindow, OnlyNops, NopsStay, Overrun, Loaded, NoLoop
<1>4. CASE simulate_cycle
  <2>1. /\ Cycle /\ phase = "simulate" /\ UNCHANGED <<phase, opt, loop, prog_numins>>
        /\ opt.exit => ~ecall_exit
        /\ ~opt.exit => simins < prog_numins
    BY <1>4 DEF simulate_cycle, simulating, Cycle
  <2>2. opt.exit /\ ecall_exit' => exmem.instr.op = "ecall"
    BY <2>1 DEF Cycle, cycle_pipeline, ecall_check
  <2>3. ExitWindow'
    BY <2>1, <2>2, ExitCycle DEF ExitWindow
  <2>4. EmptyLoop'
    BY <2>1 DEF ExitInv, EmptyLoop, MainTypeOK
  <2>5. loop'.branch \in 0 .. stats'.branch
    BY <2>1, CycleCounts DEF ExitInv, One
  <2> QED BY <2>1, <2>3, <2>4, <2>5 DEF ExitInv, OnlyNops, NopsStay, Overrun, Loaded
<1>5. CASE load_flush
  <2>1. /\ phase = "simulate" /\ phase' = "flush" /\ opt' = opt /\ stats' = stats
        /\ prog_numins' = FLUSH_LINES
        /\ loop'.branch = stats.branch /\ stats.branch \in Nat
        /\ ~opt.exit => loop'.behind = {}
    BY <1>5 DEF load_flush, LoadCount, Sound, TypeOK, Stats
  <2>2. NopsStay' /\ loop'.branch \in 0 .. stats'.branch
    BY <2>1 DEF NopsStay
  <2> QED BY <1>5, <2>1, <2>2, NopsLoaded DEF ExitInv, ExitWindow, EmptyLoop, Loaded
<1>6. CASE flush_cycle
  <2>1. Cycle /\ phase = "flush" /\ UNCHANGED <<phase, opt, prog_numins, loop>>
    BY <1>6 DEF flush_cycle, Cycle
  <2>2. loop'.branch \in 0 .. stats'.branch
    BY <2>1, CycleCounts DEF ExitInv, One
  <2> QED BY <1>6, <2>1, <2>2, NopsGoOn DEF ExitInv, ExitWindow, EmptyLoop, Loaded
<1>7. CASE report
  BY <1>7 DEF report, vars, record, ExitInv, ExitWindow, EmptyLoop, OnlyNops, NopsStay,
     Overrun, Loaded
<1>8. CASE fetch_failure
  BY <1>1, <1>8 DEF fetch_failure, parse_failure, record, driver
<1> QED BY <1>1, <1>2, <1>3, <1>4, <1>5, <1>6, <1>7, <1>8
        DEF MainNext, mainVars, vars, record

LEMMA ExitCorrect ==
  ASSUME PRINT_STATS, ArithOnWords PROVE MainSpec => []ExitInv
<1>1. MainInit => ExitInv
  BY DEF MainInit, HInit, Init, InitWires, InitStats, NoLoop, ExitInv, ExitWindow,
     EmptyLoop, Idle, OnlyNops, NopsStay, Overrun, Loaded
<1>2. DriverInv => Sound /\ Started
  BY DEF DriverInv
<1> QED BY <1>1, <1>2, NextExit, DriverCorrect, DriverTypeCorrect, PTL DEF MainSpec

(* What a cycle of either flush changes. *)
LEMMA FlushChanges ==
  ASSUME PRINT_STATS, Sound, MainTypeOK, ExitInv, flush_cycle,
         opt.exit \/ opt.mulator
  PROVE  \/ UNCHANGED <<absR, memory>>
         \/ exmem.instr_addr \in loop.behind
         \/ loop.behind # {} /\ stats.branch > loop.branch
<1>1. Cycle /\ phase = "flush"
  BY DEF flush_cycle
<1>2. CASE stats.branch = loop.branch
  BY <1>1, <1>2, FlushNop, NopCycle
<1>3. CASE stats.branch # loop.branch
  <2>1. stats.branch > loop.branch
    BY <1>3 DEF ExitInv, Sound, TypeOK, Stats
  <2> QED BY <1>1, <1>3, <2>1 DEF ExitInv, NopsStay, Overrun
<1> QED BY <1>2, <1>3

LEMMA StateStays ==
  ASSUME UNCHANGED <<vars, history>> \/ load_flush \/ report \/ fetch_failure
  PROVE  UNCHANGED <<absR, memory>>
<1>1. UNCHANGED <<R, memory, memwb>>
  BY DEF load_flush, report, fetch_failure, parse_failure, vars, pregs
<1> QED BY <1>1 DEF absR, stage_writeback, WriteBackValue

(* The flush that follows the exit ecall executes what stands behind it,   *)
(* and no more than that: for every program, even one that breaks the      *)
(* contract, a change of registers or memory comes from one of the three   *)
(* words behind the ecall, unless one of them takes a branch; three NOPs   *)
(* there keep what the exit left.                                          *)
THEOREM ExitStateKept ==
  ASSUME PRINT_STATS, ArithOnWords PROVE MainSpec => ExitKeepsState
<1>1. ASSUME Sound, MainTypeOK, ExitInv, [MainNext]_mainVars, opt.exit, phase = "flush"
      PROVE  \/ UNCHANGED <<absR, memory>>
             \/ exmem.instr_addr \in loop.behind
             \/ loop.behind # {} /\ stats.branch > loop.branch
  <2>1. ~emulate_instruction /\ ~leave_emulator /\ ~simulate_cycle
    BY <1>1 DEF emulate_instruction, leave_emulator, simulate_cycle
  <2> QED BY <1>1, <2>1, FlushChanges, StateStays DEF MainNext, mainVars
<1>2. DriverInv => Sound
  BY DEF DriverInv
<1>3. /\ Sound /\ MainTypeOK /\ ExitInv /\ [MainNext]_mainVars
      => [opt.exit /\ phase = "flush" =>
            \/ UNCHANGED <<absR, memory>>
            \/ exmem.instr_addr \in loop.behind
            \/ loop.behind # {} /\ stats.branch > loop.branch]_mainVars
  BY <1>1
<1> QED BY <1>2, <1>3, DriverCorrect, DriverTypeCorrect, ExitCorrect, PTL
        DEF MainSpec, ExitKeepsState

(* With -m and without -e the program takes effect once: the emulator's    *)
(* loop leaves nothing to the pipeline's, which shares its counter, and    *)
(* the flush that follows changes neither registers nor memory.            *)
THEOREM ProgramRunsOnce ==
  ASSUME PRINT_STATS, ArithOnWords PROVE MainSpec => EmulatedOnce
<1>1. ASSUME Sound, MainTypeOK, ExitInv, [MainNext]_mainVars,
             opt.mulator, ~opt.exit, phase # "emulate"
      PROVE  UNCHANGED <<absR, memory>>
  <2>1. loop.behind = {}
    BY <1>1 DEF ExitInv, NopsStay
  <2>2. ~emulate_instruction /\ ~leave_emulator
    BY <1>1 DEF emulate_instruction, leave_emulator
  <2>3. ~simulate_cycle
    BY <1>1 DEF ExitInv, EmptyLoop, simulate_cycle, simulating, MainTypeOK
  <2> QED BY <1>1, <2>1, <2>2, <2>3, FlushChanges, StateStays DEF MainNext, mainVars
<1>2. DriverInv => Sound
  BY DEF DriverInv
<1>3. /\ Sound /\ MainTypeOK /\ ExitInv /\ [MainNext]_mainVars
      => [opt.mulator /\ ~opt.exit /\ phase # "emulate"
            => UNCHANGED <<absR, memory>>]_mainVars
  BY <1>1
<1> QED BY <1>2, <1>3, DriverCorrect, DriverTypeCorrect, ExitCorrect, PTL
        DEF MainSpec, EmulatedOnce

(***************************************************************************)
(* The drain.  Until a branch is taken, fetch goes through FLUSH.input one *)
(* word per cycle that does not stall, after the word that a stall in the  *)
(* last cycle of the loop still owes.                                      *)
(***************************************************************************)
FlushFetched == simins - (stats.stall - loop.stall) - One(loop.stepback)

Unredirected == ~loop.redirect /\ stats.branch = loop.branch

LoadInv ==
  /\ loop.lines \in Nat
  /\ loop.stall \in 0 .. stats.stall
  /\ wires.pcsrc => stats.branch > 0
  /\ Loaded => /\ loop.redirect => loop.branch > 0
               /\ FlushFetched \in -1 .. simins
  /\ phase = "done" /\ opt.sim => simins = prog_numins

FlushAt(b) ==
  /\ ~wires.pcsrc
  /\ loop.flush = {Plus(b, 4 * k) : k \in 0 .. (FLUSH_LINES - 1)}
  /\ fetch_pc(wires) = Plus(b, 4 * FlushFetched)

FlushInv == Loaded /\ Unredirected => \E b \in Word : FlushAt(b)

LEMMA PlusOn ==
  ASSUME NEW b \in Word, NEW n \in -4 .. WordMod
  PROVE  Plus(Plus(b, n), 4) = Plus(b, n + 4)
<1> DEFINE x == b + n
<1>1. x \in -4 .. (2 * WordMod - 1)
  BY WordArithmetic
<1>2. Plus(b, n) = x % WordMod /\ Plus(b, n + 4) = (x + 4) % WordMod
  BY WordArithmetic DEF Plus
<1> HIDE DEF x
<1>3. CASE x < 0
  <2>1. x % WordMod = x + WordMod
    BY <1>1, <1>3, WordArithmetic
  <2>2. x + WordMod + 4 - WordMod = x + 4 /\ x + 4 \in 0 .. 3
    BY <1>1, <1>3, WordArithmetic
  <2>3. (x + WordMod + 4) % WordMod = x + 4 /\ (x + 4) % WordMod = x + 4
    BY <1>1, <2>2, WordArithmetic
  <2> QED BY <1>2, <2>1, <2>3 DEF Plus
<1>4. CASE 0 <= x /\ x < WordMod
  <2>1. x % WordMod = x
    BY <1>1, <1>4, WordArithmetic
  <2> QED BY <1>2, <2>1 DEF Plus
<1>5. CASE WordMod <= x
  <2> DEFINE y == x + 4
  <2>1. x % WordMod = x - WordMod
    BY <1>1, <1>5, WordArithmetic
  <2>2. y \in 0 .. (3 * WordMod - 1) /\ x - WordMod + 4 = y - WordMod
    BY <1>1, <1>5, WordArithmetic
  <2>3. Plus(Plus(b, n), 4) = (y - WordMod) % WordMod /\ Plus(b, n + 4) = y % WordMod
    BY <1>2, <2>1, <2>2 DEF Plus
  <2> HIDE DEF y
  <2> QED BY <2>2, <2>3, ModShift
<1> QED BY <1>1, <1>3, <1>4, <1>5, WordArithmetic

LEMMA FlushRange == 4 * FLUSH_LINES \in 0 .. WordMod /\ FLUSH_LINES \in Nat
BY FlushAssumption, WordArithmetic

(* What is one word in front of a word of the program or of FLUSH.input.   *)
LEMMA WordBefore ==
  ASSUME NEW b \in Word, NEW n \in Nat \ {0}, 4 * n <= WordMod, NEW a \in Word,
         Plus(a, 4) = Plus(b, 4 * n)
  PROVE  a = Plus(b, 4 * (n - 1))
<1>1. 4 * (n - 1) \in 0 .. WordMod /\ 4 * (n - 1) + 4 = 4 * n
  BY WordArithmetic
<1>2. Plus(b, 4 * (n - 1)) \in Word
  <2>1. b + 4 * (n - 1) \in Int
    BY WordArithmetic
  <2> QED BY <2>1, ModInWord DEF Plus
<1>3. Plus(Plus(b, 4 * (n - 1)), 4) = Plus(b, 4 * n)
  <2>1. 4 * (n - 1) \in -4 .. WordMod
    BY <1>1, WordArithmetic
  <2> QED BY <1>1, <2>1, PlusOn
<1> QED BY <1>2, <1>3, StepBack

LEMMA NextLoad ==
  ASSUME PRINT_STATS
  PROVE  Sound /\ MainTypeOK /\ ExitInv /\ LoadInv /\ [MainNext]_mainVars => LoadInv'
<1> SUFFICES ASSUME Sound, MainTypeOK, ExitInv, LoadInv, [MainNext]_mainVars
             PROVE  LoadInv'
  OBVIOUS
<1>1. /\ stats.stall \in Nat /\ stats.branch \in Nat
      /\ simins \in Nat /\ prog_numins \in Nat
  BY DEF Sound, TypeOK, Stats, MainTypeOK
<1>2. CASE UNCHANGED <<wires, stats, driver, loop>>
  BY <1>2 DEF LoadInv, Loaded, FlushFetched, driver
<1>3. CASE emulate_instruction
  BY <1>3 DEF emulate_instruction, record, LoadInv, Loaded
<1>4. CASE leave_emulator
  BY <1>4 DEF leave_emulator, record, vars, LoadInv, Loaded
<1>5. CASE simulate_cycle
  <2>1. Cycle /\ phase = "simulate"
    BY <1>5 DEF simulate_cycle
  <2> QED BY <1>1, <2>1, CycleCounts DEF LoadInv, Loaded, One
<1>6. CASE load_flush
  <2>1. /\ UNCHANGED <<wires, stats>> /\ phase' = "flush" /\ simins' = 0
        /\ loop'.stall = stats.stall /\ loop'.branch = stats.branch
        /\ loop'.redirect = wires.pcsrc /\ loop'.lines = prog_numins
    BY <1>6 DEF load_flush, LoadCount
  <2>2. FlushFetched' \in -1 .. 0
    BY <1>1, <2>1 DEF FlushFetched, One
  <2> QED BY <1>1, <2>1, <2>2 DEF LoadInv
<1>7. CASE flush_cycle
  <2>1. Cycle /\ phase = "flush" /\ simins' = simins + 1
    BY <1>7 DEF flush_cycle
  <2>2. FlushFetched' = FlushFetched + 1 - One(hazard) /\ FlushFetched \in -1 .. simins
    BY <1>1, <2>1, CycleCounts DEF FlushFetched, LoadInv, Loaded, One
  <2> QED BY <1>1, <2>1, <2>2, CycleCounts DEF LoadInv, Loaded, One
<1>8. CASE report
  <2>1. simins = prog_numins
    BY <1>1, <1>8 DEF report, MainTypeOK
  <2> QED BY <1>8, <2>1
          DEF report, vars, record, LoadInv, ExitInv, Loaded, FlushFetched
<1>9. CASE fetch_failure
  BY <1>2, <1>9 DEF fetch_failure, parse_failure, record
<1> QED BY <1>2, <1>3, <1>4, <1>5, <1>6, <1>7, <1>8, <1>9
        DEF MainNext, mainVars, vars, record

LEMMA LoadFlushAt ==
  ASSUME Sound, load_flush, ~loop'.redirect PROVE \E b \in Word : FlushAt(b)'
<1> PICK b \in Word : b = wires.pc_src0
  BY DEF Sound, TypeOK, Wires
<1>1. /\ wires' = wires /\ stats' = stats /\ ~wires.pcsrc
      /\ loop'.stall = stats.stall /\ loop'.stepback = wires.pc_write
      /\ loop'.flush = FlushWords /\ simins' = 0
  BY DEF load_flush, LoadCount
<1>2. b \in Int /\ stats.stall \in Int
  BY WordArithmetic DEF Sound, TypeOK, Stats
<1>3. FlushFetched' = IF wires.pc_write THEN -1 ELSE 0
  BY <1>1, <1>2 DEF FlushFetched, One
<1>4. fetch_pc(wires') = Plus(b, 4 * FlushFetched')
  <2>1. CASE wires.pc_write
    <3>1. fetch_pc(wires') = (b - 4) % WordMod
      BY <1>1, <2>1 DEF fetch_pc, Minus
    <3>2. Plus(b, 4 * FlushFetched') = (b + -4) % WordMod
      BY <1>3, <2>1 DEF Plus
    <3>3. b + -4 = b - 4
      BY <1>2
    <3> QED BY <3>1, <3>2, <3>3
  <2>2. CASE ~wires.pc_write
    <3>1. 4 * FlushFetched' = 0
      BY <1>3, <2>2
    <3> QED BY <1>1, <1>2, <2>2, <3>1, PlusZero DEF fetch_pc
  <2> QED BY <2>1, <2>2
<1> QED BY <1>1, <1>4 DEF FlushAt, FlushWords

LEMMA NextFlush ==
  ASSUME PRINT_STATS
  PROVE  /\ Sound /\ MainTypeOK /\ ExitInv /\ LoadInv /\ FlushInv
         /\ [MainNext]_mainVars
         => FlushInv'
<1> SUFFICES ASSUME Sound, MainTypeOK, ExitInv, LoadInv, FlushInv, [MainNext]_mainVars,
                    Loaded', Unredirected'
             PROVE  \E b \in Word : FlushAt(b)'
  BY DEF FlushInv
<1>1. CASE UNCHANGED <<wires, stats, simins, loop>> /\ Loaded
  <2>1. UNCHANGED <<Unredirected, FlushFetched, wires, loop, fetch_pc(wires)>>
    BY <1>1 DEF Unredirected, FlushFetched, fetch_pc
  <2>2. PICK b \in Word : FlushAt(b)
    BY <1>1, <2>1 DEF FlushInv
  <2> QED BY <2>1, <2>2 DEF FlushAt
<1>2. CASE emulate_instruction \/ leave_emulator \/ simulate_cycle
  <2>1. ~Loaded'
    BY <1>2 DEF emulate_instruction, leave_emulator, simulate_cycle, Cycle, Loaded
  <2> QED BY <2>1
<1>3. CASE load_flush
  BY <1>3, LoadFlushAt DEF Unredirected
<1>4. CASE flush_cycle
  <2>1. /\ Cycle /\ cycle_pipeline /\ Loaded /\ TypeOK /\ simins' = simins + 1
        /\ simins \in Nat /\ simins < FLUSH_LINES
    BY <1>4 DEF flush_cycle, Cycle, Loaded, MainTypeOK, Sound, ExitInv
  <2>2. ~flushing /\ Unredirected
    BY <2>1, CycleCounts DEF Unredirected, ExitInv, One
  <2>3. PICK b \in Word : FlushAt(b)
    BY <2>1, <2>2 DEF FlushInv
  <2>4. ~pcsrc
    BY <2>2 DEF flushing
  <2>5. /\ FlushFetched \in -1 .. simins
        /\ FlushFetched' = FlushFetched + 1 - One(hazard)
    BY <2>1, CycleCounts DEF FlushFetched, LoadInv, One
  <2>6. fetch_pc(wires') = Plus(b, 4 * FlushFetched')
    <3>1. CASE hazard
      BY <2>1, <2>3, <2>4, <2>5, <3>1, NextFetch DEF FlushAt, One
    <3>2. CASE ~hazard
      <4>1. /\ 4 * FlushFetched \in -4 .. WordMod
            /\ 4 * FlushFetched' = 4 * FlushFetched + 4
        BY <2>1, <2>5, <3>2, FlushRange, WordArithmetic DEF One
      <4>2. Plus(Plus(b, 4 * FlushFetched), 4) = Plus(b, 4 * FlushFetched + 4)
        BY <4>1, PlusOn
      <4> QED BY <2>1, <2>3, <2>4, <3>2, <4>1, <4>2, NextFetch DEF FlushAt
    <3> QED BY <3>1, <3>2
  <2>7. FlushAt(b)'
    BY <2>1, <2>3, <2>4, <2>6, NextFetch, CycleCounts DEF FlushAt
  <2> QED BY <2>7
<1>5. CASE report \/ fetch_failure
  <2>1. UNCHANGED <<wires, stats, simins, loop>> /\ Loaded
    BY <1>5 DEF report, fetch_failure, parse_failure, vars, driver, record, Loaded
  <2> QED BY <1>1, <2>1
<1>6. CASE UNCHANGED mainVars
  <2>1. UNCHANGED <<wires, stats, simins, loop>> /\ Loaded
    BY <1>6 DEF mainVars, vars, driver, record, Loaded
  <2> QED BY <1>1, <2>1
<1> QED BY <1>2, <1>3, <1>4, <1>5, <1>6 DEF MainNext

LEMMA FlushCorrect ==
  ASSUME PRINT_STATS, ArithOnWords
  PROVE  MainSpec => []LoadInv /\ []FlushInv
<1>1. MainInit => LoadInv /\ FlushInv
  BY DEF MainInit, HInit, Init, InitWires, InitStats, NoLoop, LoadInv, FlushInv, Loaded
<1>2. DriverInv => Sound
  BY DEF DriverInv
<1> QED BY <1>1, <1>2, NextLoad, NextFlush, DriverCorrect, DriverTypeCorrect,
          ExitCorrect, PTL DEF MainSpec

(* Four words of FLUSH.input behind it, and an instruction has been        *)
(* written back.                                                           *)
LEMMA FourBehind ==
  ASSUME Sound, NEW b \in Word, FlushAt(b), FlushFetched \in 4 .. FLUSH_LINES
  PROVE  /\ valid["ifid"] => ifid.instr_addr \in loop.flush
         /\ valid["idex"] => idex.instr_addr \in loop.flush
         /\ valid["exmem"] => exmem.instr_addr \in loop.flush
         /\ valid["memwb"] => memwb.instr_addr \in loop.flush
<1> USE DEF Sound, Steady
<1> DEFINE n == FlushFetched
           NthWord(k) == Plus(b, 4 * k)
<1>1. /\ ifid.instr_addr \in Word /\ idex.instr_addr \in Word
      /\ exmem.instr_addr \in Word /\ memwb.instr_addr \in Word
  BY DEF TypeOK, Ifid, Idex, Exmem, Memwb
<1>2. /\ n \in Int /\ n \in 1 .. FLUSH_LINES /\ n - 1 \in 1 .. FLUSH_LINES
      /\ n - 2 \in 1 .. FLUSH_LINES /\ n - 3 \in 1 .. FLUSH_LINES
      /\ \A d \in 1 .. 4 : n - d \in 0 .. (FLUSH_LINES - 1)
      /\ n - 1 - 1 = n - 2 /\ n - 2 - 1 = n - 3 /\ n - 3 - 1 = n - 4
  BY FlushRange
<1>3. /\ fetch_pc(wires) = NthWord(n) /\ ~wires.pcsrc
      /\ \A d \in 1 .. 4 : NthWord(n - d) \in loop.flush
  BY <1>2 DEF FlushAt
<1> HIDE DEF n
<1>4. ASSUME NEW a \in Word
      PROVE  /\ Plus(a, 4) = NthWord(n) => a = NthWord(n - 1)
             /\ Plus(a, 4) = NthWord(n - 1) => a = NthWord(n - 2)
             /\ Plus(a, 4) = NthWord(n - 2) => a = NthWord(n - 3)
             /\ Plus(a, 4) = NthWord(n - 3) => a = NthWord(n - 4)
  <2>1. \A k \in 1 .. FLUSH_LINES : k \in Nat \ {0} /\ 4 * k <= WordMod
    BY FlushRange, WordArithmetic
  <2> QED BY <1>2, <2>1, WordBefore
<1> HIDE DEF NthWord
<1>5. valid["ifid"] => ifid.instr_addr = NthWord(n - 1)
  BY <1>1, <1>3, <1>4 DEF ProgramOrder
<1>6. valid["idex"] => valid["ifid"] /\ idex.instr_addr = NthWord(n - 2)
  BY <1>1, <1>4, <1>5 DEF ProgramOrder, FetchAhead
<1>7. valid["exmem"] =>
        exmem.instr_addr = IF valid["idex"] THEN NthWord(n - 3) ELSE NthWord(n - 2)
  BY <1>1, <1>4, <1>5, <1>6 DEF ProgramOrder, FetchAhead
<1>8. valid["memwb"] => memwb.instr_addr \in {NthWord(n - 3), NthWord(n - 4)}
  BY <1>1, <1>3, <1>4, <1>6, <1>7 DEF Squashed, OrderBehind
<1> QED BY <1>3, <1>5, <1>6, <1>7, <1>8

(* The five words of FLUSH.input drain the pipeline: the fifth makes up    *)
(* for one stall.                                                          *)
THEOREM FlushDrains ==
  ASSUME PRINT_STATS, ArithOnWords, FLUSH_LINES >= 5
  PROVE  MainSpec => []Drained
<1>1. ASSUME Sound, MainTypeOK, ExitInv, LoadInv, FlushInv PROVE Drained
  <2> SUFFICES ASSUME Reported, ~loop.redirect, stats.branch = loop.branch,
                      LateStalls <= 1
               PROVE  /\ valid["ifid"] => ifid.instr_addr \in loop.flush
                      /\ valid["idex"] => idex.instr_addr \in loop.flush
                      /\ valid["exmem"] => exmem.instr_addr \in loop.flush
                      /\ valid["memwb"] => memwb.instr_addr \in loop.flush
    BY DEF Drained, Stage
  <2>1. PICK b \in Word : FlushAt(b)
    BY <1>1 DEF FlushInv, Unredirected, Loaded, Reported
  <2>2. FlushFetched \in 4 .. FLUSH_LINES
    BY <1>1, FlushRange DEF FlushFetched, LateStalls, LoadInv, ExitInv, Loaded, Reported,
       One, Sound, TypeOK, Stats
  <2> QED BY <1>1, <2>1, <2>2, FourBehind
<1>2. DriverInv => Sound
  BY DEF DriverInv
<1> QED BY <1>1, <1>2, DriverCorrect, DriverTypeCorrect, ExitCorrect, FlushCorrect, PTL

(***************************************************************************)
(* The counting loop.  Each of its cycles fetches an instruction unless it *)
(* stalls; what has been fetched is in flight or executed.  The flush      *)
(* completes what is in flight, and adds the one word that a stall in the  *)
(* last cycle of the loop owes.                                            *)
(***************************************************************************)
OfProgram(s, reg) == valid[s] /\ reg.instr_addr \notin loop.flush

Unfinished == One(OfProgram("ifid", ifid)) + One(OfProgram("idex", idex))
                + One(OfProgram("exmem", exmem))

CountInv ==
  ~opt.exit /\ ~opt.mulator /\ stats.branch = 0 =>
    executed + Unfinished =
      IF Loaded
      THEN loop.lines - loop.stall + One(loop.stepback) - One(FlushFetched < 0)
      ELSE simins - stats.stall

LEMMA CycleCompletes ==
  ASSUME Sound, MainTypeOK, Cycle, ~flushing
  PROVE  executed' + Unfinished' =
           executed + Unfinished + One(~hazard /\ fetch_pc(wires) \notin loop.flush)
<1> DEFINE i == OfProgram("ifid", ifid)
           d == OfProgram("idex", idex)
           e == OfProgram("exmem", exmem)
           f == fetch_pc(wires) \notin loop.flush
<1>1. cycle_pipeline /\ Record /\ loop' = loop
  BY DEF Cycle
<1>2. /\ valid'["ifid"] <=> (hazard => valid["ifid"])
      /\ valid'["idex"] <=> ~hazard /\ valid["ifid"]
      /\ valid'["exmem"] <=> valid["idex"]
  BY <1>1, CycleValid
<1>3. hazard => valid["ifid"]
  BY DEF Sound, Steady, BubblesHarmless, Harmless, FetchAhead, hazard, detect_hazard
<1>4. /\ OfProgram("ifid", ifid)' <=> IF hazard THEN i ELSE f
      /\ OfProgram("idex", idex)' <=> ~hazard /\ i
      /\ OfProgram("exmem", exmem)' <=> d
  BY <1>1, <1>2, <1>3, Moves DEF OfProgram, stage_fetch
<1>5. executed' = executed + One(e) /\ executed \in Nat
  BY DEF Cycle, OfProgram, MainTypeOK, Sound, HTypeOK
<1> HIDE DEF i, d, e, f
<1>6. Unfinished' = One(IF hazard THEN i ELSE f) + One(~hazard /\ i) + One(d)
  BY <1>4 DEF Unfinished, One
<1>7. Unfinished = One(i) + One(d) + One(e)
  BY DEF Unfinished, i, d, e
<1>8. executed' + Unfinished' = executed + Unfinished + One(~hazard /\ f)
  BY <1>5, <1>6, <1>7 DEF One
<1> QED BY <1>8 DEF f

(* In the flush the word that is fetched belongs to the program only while *)
(* fetch is one word in front of FLUSH.input.                              *)
LEMMA FlushFetches ==
  ASSUME NEW b \in Word, FlushAt(b), FlushFetched \in -1 .. (FLUSH_LINES - 1)
  PROVE  fetch_pc(wires) \notin loop.flush <=> FlushFetched < 0
<1>1. CASE FlushFetched < 0
  <2>1. 4 * FlushFetched = -4 /\ 0 \in -4 .. WordMod /\ -4 \in -4 .. WordMod
    BY <1>1, WordArithmetic
  <2>2. b + -4 \in Int
    BY WordArithmetic
  <2>3. PICK a \in Word : a = Plus(b, -4)
    BY <2>2, ModInWord DEF Plus
  <2>4. Plus(a, 4) = b
    BY <2>1, <2>3, PlusOn, PlusZero
  <2>5. a \notin {Plus(b, 4 * k) : k \in 0 .. (FLUSH_LINES - 1)}
    BY <2>4, Apart
  <2> QED BY <1>1, <2>1, <2>3, <2>5 DEF FlushAt
<1>2. CASE ~(FlushFetched < 0)
  <2>1. FlushFetched \in 0 .. (FLUSH_LINES - 1)
    BY <1>2, FlushRange
  <2> QED BY <1>2, <2>1 DEF FlushAt
<1> QED BY <1>1, <1>2

LEMMA NextCount ==
  ASSUME PRINT_STATS
  PROVE  /\ Sound /\ MainTypeOK /\ ExitInv /\ LoadInv /\ FlushInv /\ CountInv
         /\ [MainNext]_mainVars
         => CountInv'
<1> SUFFICES ASSUME Sound, MainTypeOK, ExitInv, LoadInv, FlushInv, CountInv,
                    [MainNext]_mainVars,
                    ~opt'.exit, ~opt'.mulator, stats'.branch = 0
             PROVE  executed' + Unfinished' =
                      IF Loaded'
                      THEN loop'.lines - loop'.stall + One(loop'.stepback)
                             - One(FlushFetched' < 0)
                      ELSE simins' - stats'.stall
  BY DEF CountInv
<1>1. /\ stats.stall \in Nat /\ stats.branch \in Nat /\ simins \in Nat
      /\ prog_numins \in Nat /\ executed \in Nat
  BY DEF Sound, TypeOK, HTypeOK, Stats, MainTypeOK
<1>2. Unfinished \in 0 .. 3
  BY DEF Unfinished, One
<1>3. CASE UNCHANGED <<pregs, stats, history, opt, simins, loop, executed, Loaded>>
  BY <1>3 DEF CountInv, Unfinished, OfProgram, FlushFetched, pregs, history
<1>4. CASE emulate_instruction
  BY <1>4 DEF emulate_instruction, emulating
<1>5. CASE leave_emulator
  <2>1. Loaded' = Loaded
    BY <1>5 DEF leave_emulator, Loaded
  <2> QED BY <1>3, <1>5, <2>1 DEF leave_emulator, vars, record
<1>6. CASE simulate_cycle
  <2>1. /\ Cycle /\ ~opt.exit /\ ~opt.mulator /\ simins' = simins + 1
        /\ ~Loaded /\ ~Loaded'
    BY <1>6 DEF simulate_cycle, Counted, Cycle, Loaded
  <2>2. ~flushing /\ stats.branch = 0 /\ stats'.stall = stats.stall + One(hazard)
    BY <1>1, <2>1, CycleCounts DEF One
  <2>3. fetch_pc(wires) \notin loop.flush
    BY <2>1 DEF ExitInv, NoLoop
  <2>4. executed' + Unfinished' = executed + Unfinished + One(~hazard)
    BY <2>1, <2>2, <2>3, CycleCompletes DEF One
  <2>5. executed + Unfinished = simins - stats.stall
    BY <2>1, <2>2 DEF CountInv
  <2>6. One(~hazard) = 1 - One(hazard) /\ One(hazard) \in {0, 1}
    BY DEF One
  <2> QED BY <1>1, <2>1, <2>2, <2>4, <2>5, <2>6
<1>7. CASE load_flush
  <2>1. /\ UNCHANGED <<pregs, wires, stats, history, opt, executed>>
        /\ ~opt.exit /\ ~opt.mulator /\ ~Loaded /\ Loaded'
        /\ loop'.flush = FlushWords /\ loop'.stall = stats.stall
        /\ loop'.stepback = wires.pc_write /\ loop'.lines = prog_numins
        /\ simins = prog_numins /\ simins' = 0
    BY <1>1, <1>7 DEF load_flush, LoadCount, simulating, Loaded, MainTypeOK
  <2>2. /\ valid["ifid"] => ifid.instr_addr \notin loop'.flush
        /\ valid["idex"] => idex.instr_addr \notin loop'.flush
        /\ valid["exmem"] => exmem.instr_addr \notin loop'.flush
        /\ loop.flush = {}
    BY <2>1, FlushAhead DEF ExitInv, NoLoop
  <2>3. Unfinished' = Unfinished
    BY <2>1, <2>2 DEF Unfinished, OfProgram, pregs, history
  <2>4. executed + Unfinished = simins - stats.stall
    BY <2>1 DEF CountInv
  <2>5. FlushFetched' = -One(wires.pc_write)
    BY <1>1, <2>1 DEF FlushFetched, One
  <2> QED BY <1>1, <1>2, <2>1, <2>3, <2>4, <2>5 DEF One
<1>8. CASE flush_cycle
  <2>1. /\ Cycle /\ Loaded /\ Loaded' /\ UNCHANGED <<opt, loop>>
        /\ simins' = simins + 1 /\ simins < FLUSH_LINES
    BY <1>8 DEF flush_cycle, Cycle, Loaded, ExitInv
  <2>2. ~flushing /\ stats.branch = 0 /\ stats'.stall = stats.stall + One(hazard)
    BY <1>1, <2>1, CycleCounts DEF One
  <2>3. Unredirected
    BY <2>1, <2>2 DEF ExitInv, LoadInv, Unredirected
  <2>4. PICK b \in Word : FlushAt(b)
    BY <2>1, <2>3 DEF FlushInv
  <2>5. /\ FlushFetched \in -1 .. (FLUSH_LINES - 1)
        /\ FlushFetched' = FlushFetched + 1 - One(hazard)
    BY <1>1, <2>1, <2>2, FlushRange DEF FlushFetched, LoadInv, One
  <2>6. executed' + Unfinished' = executed + Unfinished
                                    + One(~hazard /\ FlushFetched < 0)
    BY <2>1, <2>2, <2>4, <2>5, CycleCompletes, FlushFetches
  <2>7. One(~hazard /\ FlushFetched < 0) = One(FlushFetched < 0) - One(FlushFetched' < 0)
    BY <2>5 DEF One
  <2>8. executed + Unfinished =
          loop.lines - loop.stall + One(loop.stepback) - One(FlushFetched < 0)
    BY <2>1, <2>2 DEF CountInv
  <2>9. loop.lines \in Nat /\ loop.stall \in Nat /\ One(loop.stepback) \in {0, 1}
    BY <1>1 DEF LoadInv, One
  <2>10. One(FlushFetched < 0) \in {0, 1} /\ One(FlushFetched' < 0) \in {0, 1}
    BY DEF One
  <2> HIDE DEF Unfinished, FlushFetched
  <2> QED BY <1>1, <2>1, <2>6, <2>7, <2>8, <2>9, <2>10
<1>9. CASE report
  <2>1. Loaded' = Loaded
    BY <1>9 DEF report, Loaded, ExitInv
  <2> QED BY <1>3, <1>9, <2>1 DEF report, vars, record
<1>10. CASE fetch_failure
  BY <1>3, <1>10 DEF fetch_failure, parse_failure, driver, record, Loaded
<1>11. CASE UNCHANGED mainVars
  BY <1>3, <1>11 DEF mainVars, vars, driver, record, Loaded
<1> QED BY <1>4, <1>5, <1>6, <1>7, <1>8, <1>9, <1>10, <1>11 DEF MainNext

(* The counter of the loop counts cycles where its comment speaks of       *)
(* instructions: what a program without taken branches has executed when   *)
(* main() reports is its length less its stalls, for every program.        *)
THEOREM TailCut ==
  ASSUME PRINT_STATS, ArithOnWords, FLUSH_LINES >= 5
  PROVE  MainSpec => []StallsCutTail
<1>1. MainInit => CountInv
  BY DEF MainInit, HInit, Init, InitStats, Stage, CountInv, Loaded, Unfinished, OfProgram,
     One
<1>2. ASSUME MainTypeOK, Sound, ExitInv, LoadInv, FlushInv, CountInv
      PROVE  StallsCutTail
  <2> SUFFICES ASSUME Reported, ~opt.exit, ~opt.mulator, stats.branch = 0,
                      LateStalls <= 1
               PROVE  executed = loop.lines - loop.stall + One(loop.stepback)
    BY DEF StallsCutTail
  <2>1. Loaded /\ Unredirected
    BY <1>2 DEF Reported, Loaded, ExitInv, LoadInv, Unredirected
  <2>2. PICK b \in Word : FlushAt(b)
    BY <1>2, <2>1 DEF FlushInv
  <2>3. FlushFetched \in 4 .. FLUSH_LINES
    BY <1>2, <2>1, FlushRange DEF FlushFetched, LateStalls, LoadInv, ExitInv, Reported,
       One, Sound, TypeOK, Stats
  <2>4. Unfinished = 0
    BY <1>2, <2>2, <2>3, FourBehind DEF Unfinished, OfProgram, One
  <2>5. One(FlushFetched < 0) = 0
    BY <2>3, FlushRange DEF One
  <2>6. executed \in Nat /\ loop.lines \in Nat /\ loop.stall \in Nat
        /\ One(loop.stepback) \in {0, 1}
    BY <1>2 DEF MainTypeOK, Sound, HTypeOK, TypeOK, Stats, LoadInv, One
  <2>7. executed + Unfinished =
          loop.lines - loop.stall + One(loop.stepback) - One(FlushFetched < 0)
    BY <1>2, <2>1 DEF CountInv
  <2> QED BY <2>4, <2>5, <2>6, <2>7
<1>3. DriverInv => Sound
  BY DEF DriverInv
<1> QED BY <1>1, <1>2, <1>3, NextCount, DriverCorrect, DriverTypeCorrect, ExitCorrect,
          FlushCorrect, PTL DEF MainSpec

(***************************************************************************)
(* The end of the program.  What load_program makes of a file: as many     *)
(* words from START on as it has lines.  None is the word that             *)
(* parse_instruction rejects, and for option -e the last five are the exit *)
(* number for a0, the ecall, and three words more.                         *)
(***************************************************************************)
ProgramLine(k) == InstrAt(imem, Plus(START, 4 * k))

SetsExit(i) == /\ i.op = "itype" /\ i.fn = "add"
               /\ i.rd = A0 /\ i.rs1 = 0 /\ i.imm = EXIT_CALL

FileProgram ==
  /\ 4 * prog_numins <= WordMod
  /\ \A k \in 0 .. (prog_numins - 1) : ProgramLine(k).op # "zero"
  /\ opt.exit => /\ prog_numins >= 5
                 /\ SetsExit(ProgramLine(prog_numins - 5))
                 /\ ProgramLine(prog_numins - 4).op = "ecall"

(* How many instructions of the program have been fetched to take effect.  *)
Begun == executed + Unfinished

(* Until a branch is taken, fetch goes through the program line by line.   *)
Straight ==
  ~Loaded /\ stats.branch = 0 =>
    /\ ~wires.pcsrc
    /\ fetch_pc(wires) = Plus(START, 4 * Begun)
    /\ Begun <= prog_numins
    /\ wires.pc_write => Begun < prog_numins

(* The exit ecall ends the loop of -e in the cycle in which it leaves mem: *)
(* the instruction in front of it has set a0.                              *)
ExitAhead ==
  ~Loaded /\ opt.exit /\ stats.branch = 0 =>
    /\ ~ecall_exit => executed <= prog_numins - 4
    /\ executed = prog_numins - 4 => absR[A0] = EXIT_CALL

ExitValue ==
  /\ valid["idex"] /\ SetsExit(idex.instr) => idex.read_data1 = 0 /\ idex.rs1 = 0
  /\ valid["exmem"] /\ SetsExit(exmem.instr) => exmem.alu_result = EXIT_CALL

(* The word that a stall still owes when FLUSH.input is loaded is one of   *)
(* the program's, all others are FLUSH.input.                              *)
FlushTail ==
  Loaded /\ stats.branch = 0 =>
    /\ FlushFetched < 0 => stage_fetch(wires).instr.op # "zero"
    /\ \A a \in loop.flush : InstrAt(imem, a) = NOP

(* The emulator's loop leaves nothing for the one that counts with it.     *)
Counters ==
  /\ phase = "emulate" => executed = 0
  /\ phase = "simulate" /\ opt.mulator /\ ~opt.exit => simins = prog_numins

EndInv == /\ ~Loaded => FileProgram
          /\ Straight /\ ExitAhead /\ FlushTail /\ Counters

LEMMA NextExitValue ==
  ASSUME AluImplementsHandlers
  PROVE  Sound /\ ExitValue /\ [HCall]_<<vars, history>> => ExitValue'
<1> SUFFICES ASSUME Sound, ExitValue, [HCall]_<<vars, history>> PROVE ExitValue'
  OBVIOUS
<1>1. CASE cycle_pipeline /\ Record
  <2>1. CASE flushing
    BY <1>1, <2>1, CycleValid DEF ExitValue
  <2>2. CASE ~flushing
    <3>1. /\ valid'["idex"] => valid["ifid"]
          /\ valid'["exmem"] => valid["idex"]
          /\ idex'.instr = ifid.instr /\ exmem'.instr = idex.instr
          /\ idex' = idex_inp /\ exmem' = exmem_inp
      BY <1>1, <2>2, CycleValid, Moves DEF cycle_pipeline, flush_pipeline
    <3>2. SetsExit(ifid.instr) => idex'.read_data1 = 0 /\ idex'.rs1 = 0
      BY <3>1 DEF Sound, ZeroRegister, SetsExit, idex_inp, stage_decode, Decoded
    <3>3. ASSUME valid["idex"], SetsExit(idex.instr)
          PROVE  exmem'.alu_result = EXIT_CALL
      <4>1. idex.read_data1 = 0 /\ idex.rs1 = 0
        BY <3>3 DEF ExitValue
      <4>2. forward_a = "idex"
        BY <4>1 DEF forward_a, gen_forward, Forwards
      <4>3. /\ idex.ctl.alu_src /\ idex.instr.imm = EXIT_CALL
            /\ idex.ctl.alu_op = <<0, 1, 1>> /\ idex.instr.fn = "add"
        <5>1. idex.ctl = gen_control(idex.instr)
          BY <3>3 DEF Sound, Steady, ControlsMatch, LinesOf
        <5> QED BY <3>3, <5>1 DEF SetsExit, gen_control, NoControl
      <4>5. gen_alu_control(<<0, 1, 1>>, "add") = "add"
        BY DEF gen_alu_control, AluControl
      <4>4. ALU(0, EXIT_CALL, "add") = EXIT_CALL
        <5>1. EXIT_CALL \in Word /\ 0 \in Word
          BY MachineAssumption, SmallWords
        <5>2. Plus(0, EXIT_CALL) = Plus(EXIT_CALL, 0)
          BY <5>1, WordArithmetic DEF Plus
        <5> QED BY <5>1, <5>2, PlusZero DEF AluImplementsHandlers, AluImplements
      <4> QED BY <3>1, <4>1, <4>2, <4>3, <4>4, <4>5
               DEF exmem_inp, stage_execute, Operand
    <3> QED BY <3>1, <3>2, <3>3 DEF ExitValue
  <2> QED BY <2>1, <2>2
<1>2. CASE UNCHANGED <<pregs, history>>
  BY <1>2 DEF ExitValue, pregs, history
<1> QED BY <1>1, <1>2 DEF HCall, parse_failure, vars

LEMMA NextValue ==
  ASSUME AluImplementsHandlers
  PROVE  Sound /\ ExitValue /\ [MainNext]_mainVars => ExitValue'
<1>1. CASE Cycle
  BY <1>1, CycleIsCall, NextExitValue
<1>2. CASE UNCHANGED <<pregs, history>>
  BY <1>2 DEF ExitValue, pregs, history
<1>3. [MainNext]_mainVars => Cycle \/ UNCHANGED <<pregs, history>>
  BY DEF MainNext, emulate_instruction, leave_emulator, simulate_cycle, load_flush,
     flush_cycle, report, fetch_failure, parse_failure, mainVars, vars
<1> QED BY <1>1, <1>2, <1>3

(* The instruction in mem is the next line to be executed.                 *)
LEMMA LineInMem ==
  ASSUME Sound, MainTypeOK, ExitInv, EndInv, ~Loaded, stats.branch = 0, valid["exmem"]
  PROVE  exmem.instr = ProgramLine(executed)
<1> USE DEF Sound, Steady
<1> DEFINE n == Begun
           NthLine(k) == Plus(START, 4 * k)
<1>1. /\ ifid.instr_addr \in Word /\ idex.instr_addr \in Word
      /\ exmem.instr_addr \in Word /\ executed \in Nat
  BY DEF TypeOK, Ifid, Idex, Exmem, MainTypeOK, HTypeOK
<1>2. loop.flush = {} /\ valid["ifid"]
  BY DEF ExitInv, NoLoop, FetchAhead
<1>3. n = executed + 2 + One(valid["idex"])
  BY <1>1, <1>2 DEF Begun, Unfinished, OfProgram, One
<1>4. n \in Nat /\ 4 * n <= WordMod /\ fetch_pc(wires) = NthLine(n)
  <2>1. n \in Nat
    BY <1>1, <1>3 DEF One
  <2> QED BY <2>1, WordArithmetic DEF EndInv, Straight, FileProgram, MainTypeOK
<1> HIDE DEF n
<1>5. ASSUME NEW a \in Word, NEW k \in 1 .. n, Plus(a, 4) = NthLine(k)
      PROVE  a = NthLine(k - 1)
  <2>1. k \in Nat \ {0} /\ 4 * k <= WordMod
    BY <1>4, WordArithmetic
  <2> QED BY <1>5, <2>1, MachineAssumption, WordBefore
<1> HIDE DEF NthLine
<1>6. ifid.instr_addr = NthLine(n - 1)
  <2>1. n \in 1 .. n
    BY <1>1, <1>3, <1>4 DEF One
  <2> QED BY <1>1, <1>2, <1>4, <1>5, <2>1 DEF ProgramOrder
<1>7. exmem.instr_addr = NthLine(executed)
  <2>1. CASE valid["idex"]
    <3>1. /\ n - 1 \in 1 .. n /\ n - 2 \in 1 .. n
          /\ n - 1 - 1 = n - 2 /\ n - 2 - 1 = executed
      BY <1>1, <1>3, <1>4, <2>1 DEF One
    <3>2. idex.instr_addr = NthLine(n - 2)
      BY <1>1, <1>2, <1>5, <1>6, <2>1, <3>1 DEF ProgramOrder
    <3> QED BY <1>1, <1>5, <2>1, <3>1, <3>2 DEF ProgramOrder
  <2>2. CASE ~valid["idex"]
    <3>1. n - 1 \in 1 .. n /\ n - 1 - 1 = executed
      BY <1>1, <1>3, <1>4, <2>2 DEF One
    <3> QED BY <1>1, <1>2, <1>5, <1>6, <2>2, <3>1 DEF ProgramOrder
  <2> QED BY <2>1, <2>2
<1> QED BY <1>7 DEF NthLine, ProgramLine, InFlight, Fetched

(* A cycle of the loop of -e.                                              *)
LEMMA NextExitAhead ==
  ASSUME PRINT_STATS, Sound, MainTypeOK, ExitInv, EndInv, ExitValue, simulate_cycle
  PROVE  ExitAhead'
<1> SUFFICES ASSUME opt'.exit, stats'.branch = 0
             PROVE  /\ ~ecall_exit' => executed' <= prog_numins' - 4
                    /\ executed' = prog_numins' - 4 => absR'[A0] = EXIT_CALL
  BY DEF ExitAhead
<1> DEFINE n == prog_numins
<1>1. /\ Cycle /\ cycle_pipeline /\ phase = "simulate" /\ ~Loaded
      /\ opt.exit /\ ~ecall_exit /\ prog_numins' = n /\ n \in Nat
      /\ executed \in Nat
  BY DEF simulate_cycle, simulating, Cycle, Loaded, MainTypeOK, Sound, HTypeOK
<1>2. stats.branch = 0 /\ ~flushing /\ loop.flush = {}
  BY <1>1, CycleCounts DEF One, ExitInv, NoLoop
<1>3. executed' = executed + One(valid["exmem"])
  BY <1>1, <1>2 DEF Cycle, One
<1>4. /\ n >= 5 /\ SetsExit(ProgramLine(n - 5)) /\ ProgramLine(n - 4).op = "ecall"
      /\ executed <= n - 4
      /\ executed = n - 4 => absR[A0] = EXIT_CALL
  BY <1>1, <1>2 DEF EndInv, FileProgram, ExitAhead
<1>5. R' = absR /\ memwb' = memwb_inp
  BY <1>1 DEF cycle_pipeline, absR
<1>6. CASE valid["exmem"]
  <2>1. exmem.instr = ProgramLine(executed) /\ executed' = executed + 1
    BY <1>1, <1>2, <1>3, <1>6, LineInMem DEF One
  <2>2. CASE executed = n - 4
    <3>1. ecall_exit'
      BY <1>1, <1>4, <1>5, <2>1, <2>2 DEF cycle_pipeline, ecall_check
    <3> QED BY <1>1, <2>1, <2>2, <3>1
  <2>3. CASE executed = n - 5
    <3>1. SetsExit(exmem.instr) /\ exmem.alu_result = EXIT_CALL
      BY <1>4, <1>6, <2>1, <2>3 DEF ExitValue
    <3>2. exmem.ctl.reg_write /\ ~exmem.ctl.mem_to_reg /\ exmem.instr.rd = A0
      BY <1>6, <3>1 DEF Sound, Steady, ControlsMatch, LinesOf, SetsExit, gen_control,
         NoControl
    <3>3. A0 # 0 /\ A0 \in DOMAIN R'
      <4>1. R' \in [Reg -> Word]
        BY <1>1, CycleIsCall, CallOf, NextType DEF Sound, TypeOK
      <4> QED BY <4>1, MachineAssumption
    <3>4. absR'[A0] = EXIT_CALL
      BY <1>5, <3>1, <3>2, <3>3 DEF absR, memwb_inp, stage_mem, stage_writeback,
         WriteBackValue
    <3> QED BY <1>1, <2>1, <2>3, <3>4
  <2>4. CASE executed < n - 5
    BY <1>1, <2>1, <2>4
  <2> QED BY <1>1, <1>4, <2>2, <2>3, <2>4
<1>7. CASE ~valid["exmem"]
  <2>1. executed' = executed
    BY <1>1, <1>3, <1>7 DEF One
  <2>2. absR' = absR
    BY <1>5, <1>7 DEF Sound, Steady, BubblesHarmless, Harmless, absR, memwb_inp,
       stage_mem, stage_writeback
  <2> QED BY <1>1, <1>4, <2>1, <2>2
<1> QED BY <1>6, <1>7

(* As long as the loop goes on, it has not fetched the last line.          *)
LEMMA LinesLeft ==
  ASSUME Sound, MainTypeOK, ExitInv, EndInv, CountInv,
         phase = "simulate", simulating, stats.branch = 0
  PROVE  /\ Begun \in 0 .. (prog_numins - 1)
         /\ stage_fetch(wires).instr.op # "zero"
<1>1. /\ executed \in Nat /\ Unfinished \in 0 .. 3 /\ ~Loaded
      /\ prog_numins \in Nat /\ simins \in Nat /\ stats.stall \in Nat
  BY DEF Sound, TypeOK, Stats, HTypeOK, MainTypeOK, Unfinished, One, Loaded
<1>2. Begun < prog_numins
  <2>1. CASE opt.exit
    <3>1. executed <= prog_numins - 4
      BY <1>1, <2>1 DEF simulating, EndInv, ExitAhead
    <3> QED BY <1>1, <3>1 DEF Begun
  <2>2. CASE ~opt.exit
    <3>1. simins < prog_numins /\ ~opt.mulator
      BY <1>1, <2>2 DEF simulating, EndInv, Counters
    <3>2. executed + Unfinished = simins - stats.stall
      BY <1>1, <2>2, <3>1 DEF CountInv
    <3> QED BY <1>1, <3>1, <3>2 DEF Begun
  <2> QED BY <2>1, <2>2
<1>3. Begun \in 0 .. (prog_numins - 1)
  BY <1>1, <1>2 DEF Begun
<1>4. stage_fetch(wires).instr = ProgramLine(Begun)
  BY <1>1 DEF EndInv, Straight, ProgramLine, stage_fetch
<1> QED BY <1>1, <1>3, <1>4 DEF EndInv, FileProgram

LEMMA NextStraight ==
  ASSUME PRINT_STATS, Sound, MainTypeOK, ExitInv, EndInv, CountInv, simulate_cycle
  PROVE  Straight'
<1> SUFFICES ASSUME stats'.branch = 0
             PROVE  /\ ~wires'.pcsrc
                    /\ fetch_pc(wires') = Plus(START, 4 * Begun')
                    /\ Begun' <= prog_numins'
                    /\ wires'.pc_write => Begun' < prog_numins'
  BY DEF Straight
<1>1. /\ Cycle /\ cycle_pipeline /\ phase = "simulate" /\ simulating /\ ~Loaded
      /\ prog_numins' = prog_numins /\ prog_numins \in Nat
  BY DEF simulate_cycle, Cycle, Loaded, MainTypeOK
<1>2. stats.branch = 0 /\ ~flushing /\ ~pcsrc /\ loop.flush = {}
  BY <1>1, CycleCounts DEF One, ExitInv, NoLoop, flushing
<1>3. Begun' = Begun + One(~hazard)
  BY <1>1, <1>2, CycleCompletes DEF Begun
<1>4. Begun \in 0 .. (prog_numins - 1)
  BY <1>1, <1>2, LinesLeft
<1>5. /\ ~wires'.pcsrc /\ wires'.pc_write = hazard
      /\ fetch_pc(wires') = IF hazard THEN fetch_pc(wires)
                            ELSE Plus(fetch_pc(wires), 4)
  BY <1>1, <1>2, NextFetch DEF Sound
<1>6. fetch_pc(wires) = Plus(START, 4 * Begun) /\ 4 * prog_numins <= WordMod
  BY <1>1, <1>2 DEF EndInv, Straight, FileProgram
<1> HIDE DEF Begun
<1>7. CASE hazard
  BY <1>1, <1>3, <1>4, <1>5, <1>6, <1>7 DEF One
<1>8. CASE ~hazard
  <2>1. Begun' = Begun + 1
    BY <1>3, <1>8 DEF One
  <2>2. 4 * Begun \in -4 .. WordMod /\ 4 * Begun' = 4 * Begun + 4
    BY <1>1, <1>4, <1>6, <2>1, WordArithmetic
  <2>3. Plus(Plus(START, 4 * Begun), 4) = Plus(START, 4 * Begun')
    BY <2>2, PlusOn, MachineAssumption
  <2> QED BY <1>1, <1>4, <1>5, <1>6, <1>8, <2>1, <2>3
<1> QED BY <1>7, <1>8

LEMMA TailLoaded ==
  ASSUME Sound, MainTypeOK, ExitInv, EndInv, load_flush PROVE FlushTail'
<1> SUFFICES ASSUME stats'.branch = 0
             PROVE  /\ FlushFetched' < 0 => stage_fetch(wires)'.instr.op # "zero"
                    /\ \A a \in loop'.flush : InstrAt(imem', a) = NOP
  BY DEF FlushTail
<1>1. /\ UNCHANGED <<wires, stats>> /\ ~Loaded /\ simins' = 0
      /\ loop'.flush = FlushWords /\ loop'.stall = stats.stall
      /\ loop'.stepback = wires.pc_write /\ stats.stall \in Nat
      /\ imem' = [a \in DOMAIN imem \union FlushWords |->
                    IF a \in FlushWords THEN NOP ELSE imem[a]]
  BY DEF load_flush, LoadCount, FlushLine, Loaded, Sound, TypeOK, Stats
<1>2. \A a : InstrAt(imem', a) = IF a \in FlushWords THEN NOP ELSE InstrAt(imem, a)
  BY <1>1 DEF InstrAt
<1>3. ASSUME FlushFetched' < 0 PROVE stage_fetch(wires)'.instr.op # "zero"
  <2>1. wires.pc_write
    BY <1>1, <1>3 DEF FlushFetched, One
  <2>2. /\ Begun < prog_numins /\ fetch_pc(wires) = Plus(START, 4 * Begun)
        /\ \A k \in 0 .. (prog_numins - 1) : ProgramLine(k).op # "zero"
    BY <1>1, <2>1 DEF EndInv, Straight, FileProgram
  <2>3. Begun \in 0 .. (prog_numins - 1)
    <3>1. Begun \in Nat /\ prog_numins \in Nat
      BY DEF Begun, Unfinished, One, MainTypeOK, Sound, HTypeOK
    <3> QED BY <2>2, <3>1
  <2>4. InstrAt(imem, fetch_pc(wires)).op # "zero"
    BY <2>2, <2>3 DEF ProgramLine
  <2>5. stage_fetch(wires)'.instr = InstrAt(imem', fetch_pc(wires))
    BY <1>1 DEF stage_fetch, fetch_pc
  <2> QED BY <1>2, <2>4, <2>5 DEF NOP
<1> QED BY <1>1, <1>2, <1>3

(* Where the flush fetches.                                                *)
LEMMA FlushNotZero ==
  ASSUME Sound, MainTypeOK, ExitInv, LoadInv, FlushInv, EndInv,
         phase = "flush", simins < prog_numins, stats.branch = 0
  PROVE  /\ \E b \in Word : FlushAt(b)
         /\ FlushFetched \in -1 .. (FLUSH_LINES - 1)
         /\ stage_fetch(wires).instr.op # "zero"
<1>1. /\ Loaded /\ Unredirected /\ prog_numins = FLUSH_LINES
      /\ simins \in Nat /\ FlushFetched \in -1 .. simins
  BY DEF Loaded, ExitInv, LoadInv, Unredirected, MainTypeOK
<1>2. PICK b \in Word : FlushAt(b)
  BY <1>1 DEF FlushInv
<1>3. FlushFetched \in -1 .. (FLUSH_LINES - 1)
  BY <1>1, FlushRange
<1>4. CASE FlushFetched < 0
  BY <1>1, <1>2, <1>3, <1>4 DEF EndInv, FlushTail
<1>5. CASE ~(FlushFetched < 0)
  <2>1. fetch_pc(wires) \in loop.flush
    BY <1>2, <1>3, <1>5, FlushFetches
  <2>2. stage_fetch(wires).instr = NOP
    BY <1>1, <2>1 DEF EndInv, FlushTail, stage_fetch
  <2> QED BY <1>2, <1>3, <2>2 DEF NOP
<1> QED BY <1>4, <1>5

LEMMA TailGoesOn ==
  ASSUME PRINT_STATS, Sound, MainTypeOK, ExitInv, LoadInv, FlushInv, EndInv, flush_cycle
  PROVE  FlushTail'
<1> SUFFICES ASSUME stats'.branch = 0
             PROVE  /\ FlushFetched' < 0 => stage_fetch(wires)'.instr.op # "zero"
                    /\ \A a \in loop'.flush : InstrAt(imem', a) = NOP
  BY DEF FlushTail
<1>1. /\ Cycle /\ cycle_pipeline /\ phase = "flush" /\ simins < prog_numins
      /\ simins' = simins + 1 /\ simins \in Nat /\ UNCHANGED <<loop, imem>>
  BY DEF flush_cycle, Cycle, cycle_pipeline, MainTypeOK
<1>2. /\ stats.branch = 0 /\ ~flushing /\ ~pcsrc
      /\ stats.stall \in Nat /\ stats'.stall = stats.stall + One(hazard)
  BY <1>1, CycleCounts DEF One, flushing
<1>3. FlushFetched \in -1 .. (FLUSH_LINES - 1) /\ stage_fetch(wires).instr.op # "zero"
  BY <1>1, <1>2, FlushNotZero
<1>4. FlushFetched' = FlushFetched + 1 - One(hazard)
  BY <1>1, <1>2 DEF FlushFetched, LoadInv, One
<1>5. FlushFetched' < 0 => hazard
  BY <1>3, <1>4, FlushRange DEF One
<1>6. hazard => stage_fetch(wires)' = stage_fetch(wires)
  <2>1. hazard => fetch_pc(wires') = fetch_pc(wires)
    BY <1>1, <1>2, NextFetch DEF Sound
  <2> QED BY <1>1, <2>1 DEF stage_fetch
<1>7. Loaded
  BY <1>1 DEF Loaded
<1> QED BY <1>1, <1>2, <1>3, <1>5, <1>6, <1>7 DEF EndInv, FlushTail

LEMMA NextEndInv ==
  ASSUME PRINT_STATS
  PROVE  /\ Sound /\ MainTypeOK /\ ExitInv /\ LoadInv /\ FlushInv /\ CountInv
         /\ ExitValue /\ EndInv /\ [MainNext]_mainVars
         => EndInv'
<1> SUFFICES ASSUME Sound, MainTypeOK, ExitInv, LoadInv, FlushInv, CountInv, ExitValue,
                    EndInv, [MainNext]_mainVars
             PROVE  EndInv'
  OBVIOUS
<1>1. CASE /\ UNCHANGED <<R, imem, pregs, wires, stats, ecall_exit, history>>
           /\ UNCHANGED <<opt, prog_numins, loop, executed, Loaded>>
           /\ Loaded => simins' = simins
           /\ Counters'
  BY <1>1 DEF EndInv, FileProgram, ProgramLine, Straight, Begun, Unfinished, OfProgram,
     ExitAhead, absR, stage_writeback, WriteBackValue, FlushTail, FlushFetched,
     stage_fetch, fetch_pc, pregs, history
<1>2. CASE emulate_instruction
  <2>1. /\ UNCHANGED <<pregs, wires, stats, ecall_exit, history, opt, prog_numins, loop,
                       executed, phase>>
        /\ phase = "emulate" /\ ~Loaded /\ ~Loaded' /\ executed = 0
    BY <1>2 DEF emulate_instruction, record, Loaded, EndInv, Counters
  <2>2. imem' = imem
    BY <1>2 DEF emulate_instruction, M!execute_emu, M!execute_instruction,
       M!execute_rtype, M!execute_itype_except_load, M!execute_ecall, M!execute_branch,
       M!execute_jal, M!execute_store, M!execute_load, M!execute_lui, M!parse_failure
  <2>3. FileProgram'
    BY <2>1, <2>2 DEF EndInv, FileProgram, ProgramLine
  <2>4. Straight'
    BY <2>1 DEF EndInv, Straight, Begun, Unfinished, OfProgram, pregs, history
  <2>5. ExitAhead'
    <3>1. opt.exit => prog_numins >= 5 /\ prog_numins \in Nat
      BY <2>1 DEF EndInv, FileProgram, MainTypeOK
    <3> QED BY <2>1, <3>1 DEF ExitAhead
  <2> QED BY <2>1, <2>3, <2>4, <2>5 DEF EndInv, FlushTail, Counters
<1>3. CASE leave_emulator
  <2>1. Counters'
    BY <1>3 DEF leave_emulator, emulating, EndInv, Counters, MainTypeOK, record
  <2> QED BY <1>1, <1>3, <2>1 DEF leave_emulator, vars, record, Loaded
<1>4. CASE simulate_cycle
  <2>1. /\ Cycle /\ phase = "simulate" /\ phase' = "simulate" /\ ~Loaded /\ ~Loaded'
        /\ UNCHANGED <<imem, opt, prog_numins>>
    BY <1>4 DEF simulate_cycle, Cycle, cycle_pipeline, Loaded
  <2>2. FileProgram'
    BY <2>1 DEF EndInv, FileProgram, ProgramLine
  <2>3. Counters'
    BY <1>4, <2>1 DEF simulate_cycle, simulating, EndInv, Counters, MainTypeOK
  <2> QED BY <1>4, <2>1, <2>2, <2>3, NextStraight, NextExitAhead DEF EndInv, FlushTail
<1>5. CASE load_flush
  <2>1. Loaded' /\ phase' = "flush"
    BY <1>5 DEF load_flush, Loaded
  <2> QED BY <1>5, <2>1, TailLoaded DEF EndInv, Straight, ExitAhead, Counters
<1>6. CASE flush_cycle
  <2>1. Loaded' /\ phase' = "flush"
    BY <1>6 DEF flush_cycle, Cycle, Loaded
  <2> QED BY <1>6, <2>1, TailGoesOn DEF EndInv, Straight, ExitAhead, Counters
<1>7. CASE report
  <2>1. Loaded' = Loaded /\ Counters'
    BY <1>7 DEF report, Loaded, ExitInv, Counters
  <2> QED BY <1>1, <1>7, <2>1 DEF report, vars, record
<1>8. CASE fetch_failure
  <2>1. Counters'
    BY <1>8 DEF fetch_failure, driver, record, EndInv, Counters
  <2> QED BY <1>1, <1>8, <2>1 DEF fetch_failure, parse_failure, driver, record, Loaded
<1>9. CASE UNCHANGED mainVars
  <2>1. Counters'
    BY <1>9 DEF mainVars, driver, record, EndInv, Counters
  <2> QED BY <1>1, <1>9, <2>1 DEF mainVars, vars, driver, record, Loaded
<1> QED BY <1>2, <1>3, <1>4, <1>5, <1>6, <1>7, <1>8, <1>9 DEF MainNext

LEMMA NextFails ==
  ASSUME PRINT_STATS
  PROVE  /\ Sound /\ MainTypeOK /\ ExitInv /\ LoadInv /\ FlushInv /\ CountInv /\ EndInv
         /\ FailsOnlyRedirected /\ [MainNext]_mainVars
         => FailsOnlyRedirected'
<1> SUFFICES ASSUME Sound, MainTypeOK, ExitInv, LoadInv, FlushInv, CountInv, EndInv,
                    FailsOnlyRedirected, [MainNext]_mainVars
             PROVE  FailsOnlyRedirected'
  OBVIOUS
<1>1. CASE UNCHANGED <<failed, stats>>
  BY <1>1 DEF FailsOnlyRedirected
<1>2. CASE Cycle
  <2>1. failed' = failed /\ stats'.branch >= stats.branch /\ stats.branch \in Nat
        /\ stats'.branch \in Nat
    BY <1>2, CycleCounts DEF Cycle, cycle_pipeline, One
  <2> QED BY <2>1 DEF FailsOnlyRedirected
<1>3. CASE fetch_failure
  <2>1. /\ stage_fetch(wires).instr.op = "zero" /\ stats' = stats /\ stats.branch \in Nat
        /\ \/ phase = "simulate" /\ simulating
           \/ phase = "flush" /\ simins < prog_numins
    BY <1>3 DEF fetch_failure, parse_failure, Sound, TypeOK, Stats
  <2>2. stats.branch # 0
    BY <2>1, LinesLeft, FlushNotZero
  <2> QED BY <2>1, <2>2 DEF FailsOnlyRedirected
<1>4. CASE emulate_instruction \/ leave_emulator \/ load_flush \/ report
  BY <1>1, <1>4 DEF emulate_instruction, leave_emulator, load_flush, report, vars
<1>5. CASE UNCHANGED mainVars
  BY <1>1, <1>5 DEF mainVars, vars
<1> QED BY <1>2, <1>3, <1>4, <1>5 DEF MainNext, simulate_cycle, flush_cycle

(* A program that was loaded whole, and with -e ends with the exit and     *)
(* three words more, is rejected in fetch only behind a taken branch: the  *)
(* loop stops in time, and FLUSH.input is where fetch goes on.             *)
THEOREM FailsRedirected ==
  ASSUME PRINT_STATS, ArithOnWords, AluImplementsHandlers
  PROVE  MainSpec /\ FileProgram => []FailsOnlyRedirected
<1>1. MainInit /\ FileProgram => ExitValue /\ EndInv /\ FailsOnlyRedirected /\ CountInv
  <2> SUFFICES ASSUME MainInit, FileProgram
               PROVE  ExitValue /\ EndInv /\ FailsOnlyRedirected /\ CountInv
    OBVIOUS
  <2>1. /\ phase = "emulate" /\ ~Loaded /\ executed = 0 /\ Unfinished = 0
        /\ wires = InitWires /\ ~ecall_exit /\ ~failed /\ stats.stall = 0 /\ simins = 0
        /\ valid = [s \in Stage |-> FALSE]
    BY DEF MainInit, HInit, Init, InitStats, Loaded, Unfinished, OfProgram, One, Stage
  <2>2. prog_numins \in Nat
    BY InitMainType DEF MainTypeOK
  <2>3. Straight
    <3>1. Begun = 0 /\ 4 * 0 = 0
      BY <2>1 DEF Begun
    <3>2. fetch_pc(wires) = Plus(START, 0)
      BY <2>1, PlusZero, MachineAssumption DEF InitWires, fetch_pc
    <3> QED BY <2>1, <2>2, <3>1, <3>2 DEF Straight, InitWires
  <2>4. ExitAhead
    BY <2>1, <2>2 DEF FileProgram, ExitAhead
  <2> QED BY <2>1, <2>3, <2>4 DEF EndInv, FlushTail, Counters, ExitValue,
             FailsOnlyRedirected, CountInv, Stage
<1>2. DriverInv => Sound
  BY DEF DriverInv
<1> QED BY <1>1, <1>2, NextValue, NextEndInv, NextFails, NextCount, DriverCorrect,
          DriverTypeCorrect, ExitCorrect, FlushCorrect, PTL DEF MainSpec
=============================================================================
