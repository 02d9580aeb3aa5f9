--------------------------- MODULE DelaySlotProofs ---------------------------
(***************************************************************************)
(* With PRINT_STATS undefined, as milestone 1 requires, the pipeline is    *)
(* the machine with three delay slots: within the same contract, for every *)
(* supported program and every value of the constants.  The data path is   *)
(* that of RefinementProofs; what differs is the order of instructions.    *)
(***************************************************************************)
EXTENDS PipelineDelayed, RefinementProofs

(***************************************************************************)
(* The machine's copies of the operators on words and memory.              *)
(***************************************************************************)
LEMMA DelayedWords ==
  /\ \A a, b : Delayed!Plus(a, b) = Plus(a, b)
  /\ \A program, a : Delayed!InstrAt(program, a) = InstrAt(program, a)
  /\ \A i : Delayed!Writes(i) = Writes(i)
BY DEF Delayed!Plus, Plus, Delayed!WordMod, WordMod, Delayed!HalfMod, HalfMod,
       Delayed!InstrAt, InstrAt, Delayed!ZERO, ZERO, Delayed!Writes, Writes

LEMMA DelayedMemory ==
  /\ \A m, a, fn : Delayed!LoadValue(m, a, fn) = LoadValue(m, a, fn)
  /\ \A m, a, fn, v : Delayed!StoreValue(m, a, fn, v) = StoreValue(m, a, fn, v)
<1>1. /\ Delayed!HalfMod = HalfMod /\ Delayed!WordMod = WordMod /\ Delayed!Cell = Cell
      /\ \A a, i : Delayed!At(a, i) = At(a, i)
  BY DEF Delayed!HalfMod, HalfMod, Delayed!WordMod, WordMod, Delayed!Cell, Cell,
         Delayed!At, At
<1>2. \A m, a, n : Delayed!load(m, a, n) = load(m, a, n)
  BY <1>1 DEF Delayed!load, load
<1>3. \A m, a, n, v : Delayed!store(m, a, n, v) = store(m, a, n, v)
  BY DEF Delayed!store, store, Delayed!HalfMod, HalfMod, Delayed!Cell, Cell,
         Delayed!At, At
<1>4. \A f, m : Delayed!sign_extend_number(f, m) = sign_extend_number(f, m)
  BY <1>1 DEF Delayed!sign_extend_number, sign_extend_number
<1>5. \A m, a, fn : Delayed!LoadValue(m, a, fn) = LoadValue(m, a, fn)
  BY <1>1, <1>2, <1>4 DEF Delayed!LoadValue, LoadValue
<1>6. \A m, a, fn, v : Delayed!StoreValue(m, a, fn, v) = StoreValue(m, a, fn, v)
  BY <1>3 DEF Delayed!StoreValue, StoreValue
<1> QED BY <1>5, <1>6

LEMMA DelayedHandlers ==
  /\ \A rd, v : Delayed!Handlers!Written(rd, v) = Emu!Written(rd, v)
  /\ \A i : Delayed!Handlers!BranchTaken(i) = Emu!BranchTaken(i)
BY DEF Delayed!Handlers!Written, Emu!Written, Delayed!Handlers!BranchTaken,
       Emu!BranchTaken

(***************************************************************************)
(* The instructions that wait, in each of the shapes the pipeline can      *)
(* have: bubbles stand behind a load or before the first instruction.      *)
(***************************************************************************)
After(k) == Plus(fetch_pc(wires), 4 * k)

Queue ==
  IF valid["exmem"] /\ valid["idex"]
  THEN <<exmem.instr_addr, idex.instr_addr, ifid.instr_addr, After(0)>>
  ELSE IF valid["exmem"]
  THEN <<exmem.instr_addr, ifid.instr_addr, After(0), After(1)>>
  ELSE IF valid["idex"]
  THEN <<idex.instr_addr, ifid.instr_addr, After(0), After(1)>>
  ELSE IF valid["ifid"]
  THEN <<ifid.instr_addr, After(0), After(1), After(2)>>
  ELSE <<After(0), After(1), After(2), After(3)>>

Running == ~ecall_exit /\ FetchAhead => absNext = Queue

LEMMA RunningShape == Running
<1> SUFFICES ASSUME ~ecall_exit, FetchAhead PROVE absNext = Queue
  BY DEF Running
<1> USE DEF absNext, Pending, Queue, After
<1>1. CASE valid["exmem"] /\ valid["idex"]
  BY <1>1 DEF FetchAhead
<1>2. CASE valid["exmem"] /\ ~valid["idex"]
  BY <1>2 DEF FetchAhead
<1>3. CASE ~valid["exmem"] /\ valid["idex"]
  BY <1>3 DEF FetchAhead
<1>4. CASE ~valid["exmem"] /\ ~valid["idex"] /\ valid["ifid"]
  BY <1>4
<1>5. CASE ~valid["exmem"] /\ ~valid["idex"] /\ ~valid["ifid"]
  BY <1>5
<1> QED BY <1>1, <1>2, <1>3, <1>4, <1>5

(* At the exit, the ecall in MEM/WB stays at the head of the queue.        *)
Exited ==
  ecall_exit /\ valid["ifid"] =>
    /\ valid["memwb"] /\ valid["exmem"] /\ valid["idex"] =>
         absNext = <<memwb.instr_addr, exmem.instr_addr, idex.instr_addr,
                     ifid.instr_addr>>
    /\ valid["memwb"] /\ valid["exmem"] /\ ~valid["idex"] =>
         absNext = <<memwb.instr_addr, exmem.instr_addr, ifid.instr_addr, After(0)>>
    /\ ~valid["memwb"] /\ valid["exmem"] /\ valid["idex"] =>
         absNext = <<exmem.instr_addr, idex.instr_addr, ifid.instr_addr, After(0)>>

LEMMA ExitedShape == Exited
BY DEF Exited, absNext, Pending, After

(* The queue after its head has left it. *)
Rest(address) == [k \in 1 .. 4 |-> IF k < 4 THEN absNext[k + 1] ELSE address]

LEMMA Replace ==
  ASSUME NEW a, NEW b, NEW c, NEW d, NEW e, absNext = <<a, b, c, d>>
  PROVE  Rest(e) = <<b, c, d, e>>
BY DEF Rest

(***************************************************************************)
(* One cycle.  A branch in mem finds no bubble in the two slots behind it: *)
(* only a load has one behind it.  So its target becomes the fourth        *)
(* instruction of the queue, whatever the three before it are.             *)
(***************************************************************************)
LEMMA FetchAfter ==
  ASSUME TypeOK, cycle_pipeline, ~ShadowStall
  PROVE  fetch_pc(wires') = IF pcsrc THEN exmem.branch_addr
                            ELSE IF hazard THEN After(0) ELSE After(1)
<1>1. After(0) = fetch_pc(wires) /\ After(1) = Plus(fetch_pc(wires), 4)
  <2>1. fetch_pc(wires) \in Word
    BY FetchPcType DEF TypeOK
  <2> QED BY <2>1, PlusZero DEF After
<1>2. CASE pcsrc
  BY <1>2 DEF ShadowStall, cycle_pipeline, next_wires, WiresWith, fetch_pc
<1>3. CASE ~pcsrc
  BY <1>1, <1>3, NextFetch
<1> QED BY <1>2, <1>3

(* The addresses that fetch continues with.                                *)
LEMMA Onward ==
  ASSUME TypeOK
  PROVE  /\ After(0) = fetch_pc(wires)
         /\ \A k \in 0 .. 2 : Plus(After(k), 4) = After(k + 1)
<1>1. fetch_pc(wires) \in Word
  BY FetchPcType DEF TypeOK
<1>2. /\ 4 * 0 = 0 /\ 4 * 1 = 4 /\ 4 * 2 = 8 /\ 4 * 3 = 12
      /\ 0 + 4 = 4 /\ 4 + 4 = 8 /\ 8 + 4 = 12
      /\ 0 + 1 = 1 /\ 1 + 1 = 2 /\ 2 + 1 = 3
  OBVIOUS
<1>3. /\ Plus(After(0), 4) = After(1) /\ Plus(After(1), 4) = After(2)
      /\ Plus(After(2), 4) = After(3)
  BY <1>1, <1>2, PlusPlus DEF After
<1> QED BY <1>1, <1>2, <1>3, PlusZero DEF After

LEMMA OnwardNext ==
  ASSUME TypeOK, fetch_pc(wires') = After(1)
  PROVE  After(0)' = After(1) /\ After(1)' = After(2) /\ After(2)' = After(3)
<1> DEFINE f == fetch_pc(wires)
           g == fetch_pc(wires')
<1>1. f \in Word /\ 4 \in Word
  BY FetchPcType, SmallWords DEF TypeOK
<1>2. /\ After(0) = f /\ After(1) = Plus(f, 4) /\ After(2) = Plus(f, 8)
      /\ After(3) = Plus(f, 12)
      /\ After(0)' = Plus(g, 0) /\ After(1)' = Plus(g, 4) /\ After(2)' = Plus(g, 8)
  BY Onward DEF After
<1> HIDE DEF f, g
<1>3. g = Plus(f, 4) /\ g \in Word
  BY <1>1, <1>2, PlusInWord DEF g
<1>4. Plus(g, 0) = g /\ Plus(g, 4) = Plus(f, 8)
  BY <1>1, <1>3, PlusZero, PlusPlus
<1>5. Plus(g, 8) = Plus(Plus(g, 4), 4) /\ Plus(f, 12) = Plus(Plus(f, 8), 4)
  BY <1>1, <1>3, PlusPlus
<1> QED BY <1>2, <1>3, <1>4, <1>5

Continued == IF pcsrc THEN exmem.branch_addr ELSE Plus(absNext[4], 4)

LEMMA QueueAfter ==
  ASSUME ~PRINT_STATS, Datapath, cycle_pipeline, Record, ~ecall_exit, ~ecall_exit',
         ~ShadowStall
  PROVE  absNext' = IF valid["exmem"] THEN Rest(Continued) ELSE absNext
<1> USE DEF Datapath
<1>1. ~flushing
  BY DEF flushing
<1>2. /\ valid'["ifid"] <=> (hazard => valid["ifid"])
      /\ valid'["idex"] <=> ~hazard /\ valid["ifid"]
      /\ valid'["exmem"] <=> valid["idex"]
  BY <1>1, CycleValid
<1>3. /\ absNext = Queue
      /\ FetchAhead' /\ absNext' = Queue'
  <2>1. FetchAhead'
    BY <1>2 DEF FetchAhead
  <2>2. Running /\ Running'
    BY RunningShape, PTL
  <2> QED BY <2>1, <2>2 DEF Running
<1>4. /\ idex'.instr_addr = ifid.instr_addr /\ exmem'.instr_addr = idex.instr_addr
      /\ ifid'.instr_addr = IF hazard THEN ifid.instr_addr ELSE After(0)
  BY <1>1, Moves, Onward DEF stage_fetch
<1>5. /\ After(0) = fetch_pc(wires)
      /\ Plus(After(0), 4) = After(1) /\ Plus(After(1), 4) = After(2)
  BY Onward
<1>6. /\ fetch_pc(wires') = IF pcsrc THEN exmem.branch_addr
                             ELSE IF hazard THEN After(0) ELSE After(1)
      /\ After(0)' = fetch_pc(wires')
  <2>1. fetch_pc(wires) \in Word /\ exmem.branch_addr \in Word /\ 4 \in Word
    BY FetchPcType, SmallWords DEF TypeOK, Exmem
  <2>2. After(1) \in Word
    BY <1>5, <2>1, PlusInWord
  <2>3. fetch_pc(wires') = IF pcsrc THEN exmem.branch_addr
                           ELSE IF hazard THEN After(0) ELSE After(1)
    BY FetchAfter
  <2>4. fetch_pc(wires') \in Word
    BY <1>5, <2>1, <2>2, <2>3
  <2>5. Plus(fetch_pc(wires'), 0) = fetch_pc(wires')
    BY <2>4, PlusZero
  <2> QED BY <2>3, <2>5 DEF After
<1>7. CASE valid["exmem"]
  <2>1. valid["ifid"]
    BY <1>7 DEF FetchAhead
  <2>2. CASE ~valid["idex"]
    <3>1. ~pcsrc /\ ~hazard
      <4>1. ~hazard
        BY <2>2, HazardIsPair
      <4>2. exmem.ctl.mem_read /\ exmem.ctl = gen_control(exmem.instr)
        BY <1>7, <2>2, ExecutesNext DEF GapAfterLoad
      <4>3. ~exmem.ctl.branch
        BY <4>2, ControlOf
      <4> QED BY <4>1, <4>3 DEF pcsrc, gen_branch
    <3>2. After(0)' = After(1) /\ After(1)' = After(2)
      BY <1>6, <3>1, OnwardNext
    <3>3. absNext = <<exmem.instr_addr, ifid.instr_addr, After(0), After(1)>>
      BY <1>3, <1>7, <2>2 DEF Queue
    <3>4. absNext' = <<ifid.instr_addr, After(0), After(1), After(2)>>
      BY <1>2, <1>3, <1>4, <2>1, <2>2, <3>1, <3>2 DEF Queue
    <3> QED BY <1>5, <1>7, <3>1, <3>3, <3>4, Replace DEF Continued
  <2>3. CASE valid["idex"]
    <3>1. absNext = <<exmem.instr_addr, idex.instr_addr, ifid.instr_addr, After(0)>>
      BY <1>3, <1>7, <2>3 DEF Queue
    <3>2. absNext' = <<idex.instr_addr, ifid.instr_addr, After(0), Continued>>
      <4>1. Continued = IF pcsrc THEN exmem.branch_addr ELSE After(1)
        BY <1>5, <3>1 DEF Continued
      <4>2. CASE hazard
        <5>1. ~pcsrc /\ After(0)' = After(0) /\ After(1)' = After(1)
          BY <1>5, <1>6, <4>2 DEF ShadowStall, After
        <5> QED BY <1>2, <1>3, <1>4, <2>1, <2>3, <4>1, <4>2, <5>1 DEF Queue
      <4>3. CASE ~hazard
        BY <1>2, <1>3, <1>4, <1>6, <2>1, <2>3, <4>1, <4>3 DEF Queue
      <4> QED BY <4>2, <4>3
    <3> QED BY <1>7, <3>1, <3>2, Replace
  <2> QED BY <2>2, <2>3
<1>8. CASE ~valid["exmem"]
  <2>1. ~pcsrc
    BY <1>8 DEF BubblesHarmless, Harmless, pcsrc, gen_branch
  <2>2. CASE hazard
    <3>1. valid["idex"] /\ valid["ifid"]
      BY <2>2, HazardIsPair DEF FetchAhead
    <3>2. After(0)' = After(0) /\ After(1)' = After(1)
      BY <1>5, <1>6, <2>1, <2>2 DEF After
    <3> QED BY <1>2, <1>3, <1>4, <1>8, <2>2, <3>1, <3>2 DEF Queue
  <2>3. CASE ~hazard
    <3>1. /\ fetch_pc(wires') = After(1)
          /\ After(0)' = After(1) /\ After(1)' = After(2) /\ After(2)' = After(3)
      BY <1>6, <2>1, <2>3, OnwardNext
    <3> QED BY <1>2, <1>3, <1>4, <1>8, <2>3, <3>1 DEF Queue, FetchAhead
  <2> QED BY <2>2, <2>3
<1> QED BY <1>7, <1>8

LEMMA ExitEffect ==
  ASSUME cycle_pipeline, exmem.instr.op = "ecall", exmem.ctl = gen_control(exmem.instr)
  PROVE  absR' = absR /\ memory' = memory /\ imem' = imem
<1>1. exmem.ctl = NoControl
  BY DEF gen_control
<1>2. memory' = memory /\ imem' = imem /\ R' = absR /\ memwb'.ctl = exmem.ctl
  BY <1>1 DEF cycle_pipeline, mem_store, absR, memwb_inp, stage_mem, NoControl
<1> QED BY <1>1, <1>2 DEF absR, stage_writeback, NoControl

(* The exit leaves the queue as it is, with the ecall at its head.         *)
LEMMA QueueAtExit ==
  ASSUME ~PRINT_STATS, Datapath, cycle_pipeline, Record, ~ecall_exit, ecall_exit'
  PROVE  /\ absNext' = absNext /\ absR' = absR /\ memory' = memory /\ imem' = imem
         /\ InstrAt(imem, absNext[1]).op = "ecall" /\ absR[A0] = EXIT_CALL
<1> USE DEF Datapath
<1>1. exmem.instr.op = "ecall" /\ absR[A0] = EXIT_CALL
  BY DEF cycle_pipeline, ecall_check, absR
<1>2. /\ valid'["ifid"] <=> (hazard => valid["ifid"])
      /\ valid'["idex"] <=> ~hazard /\ valid["ifid"]
      /\ valid'["exmem"] <=> valid["idex"]
      /\ valid'["memwb"] <=> valid["exmem"]
  BY CycleValid DEF flushing
<1>3. /\ idex'.instr_addr = ifid.instr_addr /\ exmem'.instr_addr = idex.instr_addr
      /\ memwb'.instr_addr = exmem.instr_addr
      /\ ifid'.instr_addr = IF hazard THEN ifid.instr_addr ELSE After(0)
  BY Moves, Onward DEF stage_fetch, flushing
<1>4. absNext = Queue /\ Exited'
  BY RunningShape, ExitedShape, PTL DEF Running
<1>5. CASE valid["exmem"]
  <2>1. exmem.ctl = gen_control(exmem.instr) /\ InstrAt(imem, exmem.instr_addr) = exmem.instr
    BY <1>5, ExecutesNext
  <2>2. valid["idex"] /\ valid["ifid"] /\ ~pcsrc
    BY <1>1, <1>5, <2>1, ControlOf DEF GapAfterLoad, FetchAhead, pcsrc, gen_branch
  <2>3. absNext = <<exmem.instr_addr, idex.instr_addr, ifid.instr_addr, After(0)>>
    BY <1>4, <1>5, <2>2 DEF Queue
  <2>4. absNext' = absNext
    <3>1. CASE hazard
      <4>1. After(0)' = After(0)
        BY <2>2, <3>1, Onward, NextFetch DEF After
      <4> QED BY <1>2, <1>3, <1>4, <1>5, <2>2, <2>3, <3>1, <4>1 DEF Exited
    <3>2. CASE ~hazard
      BY <1>2, <1>3, <1>4, <1>5, <2>2, <2>3, <3>2 DEF Exited
    <3> QED BY <3>1, <3>2
  <2>5. absR' = absR /\ memory' = memory /\ imem' = imem
    BY <1>1, <2>1, ExitEffect
  <2> QED BY <1>1, <2>1, <2>3, <2>4, <2>5
<1>6. CASE ~valid["exmem"]
  <2>1. /\ valid["idex"] /\ idex.instr = exmem.instr
        /\ idex.instr_addr = exmem.instr_addr
    BY <1>1, <1>6 DEF BubbleEcall, Announces
  <2>2. valid["ifid"] /\ ~hazard /\ ~pcsrc
    BY <1>1, <1>6, <2>1, HazardIsPair
       DEF FetchAhead, Pair, BubblesHarmless, Harmless, pcsrc, gen_branch
  <2>3. absNext = <<idex.instr_addr, ifid.instr_addr, After(0), After(1)>>
    BY <1>4, <1>6, <2>1 DEF Queue
  <2>4. After(0)' = After(1)
    BY <2>2, Onward, NextFetch, OnwardNext
  <2>5. absNext' = absNext
    BY <1>2, <1>3, <1>4, <1>6, <2>1, <2>2, <2>3, <2>4 DEF Exited
  <2>6. InstrAt(imem, idex.instr_addr) = idex.instr
    BY <2>1 DEF InFlight, Fetched
  <2> QED BY <1>1, <1>6, <2>1, <2>3, <2>5, <2>6, BubbleEffect
<1> QED BY <1>5, <1>6

(***************************************************************************)
(* The simulation.                                                         *)
(***************************************************************************)
LEMMA ExitStep ==
  ASSUME ~PRINT_STATS, Datapath, cycle_pipeline, Record, ~ecall_exit, ecall_exit'
  PROVE  Delayed!Next
<1> DEFINE i == InstrAt(imem, absNext[1])
<1>1. Delayed!execute_exit(i) /\ imem' = imem
  BY QueueAtExit DEF Delayed!execute_exit
<1> QED BY <1>1, DelayedWords DEF Delayed!Next

LEMMA DelayedInstruction ==
  ASSUME ~PRINT_STATS, AluImplementsHandlers, Datapath, ~ecall_exit, ~ecall_exit',
         ~ShadowStall, ~UnknownEcall, cycle_pipeline, Record, valid["exmem"]
  PROVE  Delayed!Next
<1> DEFINE i == exmem.instr
<1>1. /\ i \in Instruction /\ i.op # "zero" /\ InstrAt(imem, exmem.instr_addr) = i
  BY ExecutesNext
<1>2. absNext[1] = exmem.instr_addr
  <2>1. absNext = Queue
    BY RunningShape DEF Running, Datapath
  <2> QED BY <2>1 DEF Queue
<1>3. /\ imem' = imem /\ exmem.branch_addr = Plus(absNext[1], i.imm)
      /\ i.op = "ecall" => absR[A0] # EXIT_CALL
      /\ pcsrc => i.op \in {"branch", "jal"}
  BY <1>2, Effects
<1>4. absNext' = Rest(IF pcsrc THEN Plus(absNext[1], i.imm) ELSE Plus(absNext[4], 4))
  BY <1>3, QueueAfter DEF Continued
<1> USE DelayedWords, DelayedMemory, DelayedHandlers
<1>5. SUFFICES Delayed!execute(i) \/ Delayed!execute_print(i)
  BY <1>1, <1>2, <1>3 DEF Delayed!Next
<1>6. \A a : absNext' = Rest(a) => Delayed!Then(a)
  BY DEF Rest, Delayed!Then
<1>7. CASE i.op = "ecall"
  <2>1. absR' = absR /\ memory' = memory
    BY <1>7, Effects
  <2>2. absR[A0] \in PRINT_CALLS
    BY <1>3, <1>7 DEF UnknownEcall, absR
  <2>3. Delayed!Then(Plus(absNext[4], 4))
    BY <1>3, <1>4, <1>6, <1>7
  <2> QED BY <1>7, <2>1, <2>2, <2>3 DEF Delayed!execute_print
<1>8. CASE i.op # "ecall"
  <2>1. Delayed!Jumps(i) <=> pcsrc
    BY <1>3, Effects DEF Delayed!Jumps
  <2>2. Delayed!Then(IF Delayed!Jumps(i) THEN Delayed!Plus(absNext[1], i.imm)
                     ELSE Delayed!Plus(absNext[4], 4))
    BY <1>4, <1>6, <2>1
  <2>3. absR' = IF Writes(i) THEN Emu!Written(i.rd, Delayed!Value(i)) ELSE absR
    <3> USE DEF Puts, Writes, Delayed!Value
    <3>1. CASE i.op = "rtype"
      BY <3>1, Effects
    <3>2. CASE i.op = "itype"
      BY <3>2, Effects
    <3>3. CASE i.op = "load"
      BY <3>3, Effects
    <3>4. CASE i.op = "lui"
      BY <3>4, Effects
    <3>5. CASE i.op = "jal"
      BY <1>2, <3>5, Effects
    <3>6. CASE i.op \in {"store", "branch"}
      BY <3>6, Effects
    <3> QED BY <1>1, <1>8, <3>1, <3>2, <3>3, <3>4, <3>5, <3>6 DEF Instruction, Opcode
  <2>4. memory' = IF i.op = "store"
                  THEN StoreValue(memory, Plus(absR[i.rs1], i.imm), i.fn, absR[i.rs2])
                  ELSE memory
    BY <1>1, <1>8, Effects DEF Puts, Instruction, Opcode
  <2> QED BY <1>1, <1>8, <2>2, <2>3, <2>4 DEF Delayed!execute
<1> QED BY <1>7, <1>8

LEMMA DelayedBubble ==
  ASSUME ~PRINT_STATS, Datapath, ~ecall_exit, ~ecall_exit', ~ShadowStall,
         cycle_pipeline, Record, ~valid["exmem"]
  PROVE  UNCHANGED Delayed!vars
BY BubbleEffect, QueueAfter DEF Delayed!vars

LEMMA DelayedInit == SafeInit => Delayed!Init
<1> SUFFICES ASSUME SafeInit PROVE Delayed!Init
  OBVIOUS
<1> USE DEF SafeInit, HInit, Init
<1>1. absNext = [k \in 1 .. 4 |-> Plus(START, 4 * (k - 1))]
  <2>1. Pending = <<>> /\ fetch_pc(wires) = START
    BY DEF Pending, fetch_pc, InitWires, Stage
  <2> QED BY <2>1 DEF absNext
<1>2. absR = InitRegs
  BY DEF absR, stage_writeback, ZeroMemwb, NoControl
<1>3. Delayed!InitRegs = InitRegs /\ Delayed!InitMemory = InitMemory
  BY DEF Delayed!InitRegs, InitRegs, Delayed!InitMemory, InitMemory, Delayed!Reg, Reg,
     Delayed!Cell, Cell
<1> QED BY <1>1, <1>2, <1>3, DelayedWords DEF Delayed!Init

LEMMA DelayedNext ==
  ASSUME ~PRINT_STATS, AluImplementsHandlers
  PROVE  Datapath /\ [SafeNext]_<<vars, history>> => [Delayed!Next]_Delayed!vars
<1> SUFFICES ASSUME Datapath, [SafeNext]_<<vars, history>>
             PROVE  Delayed!Next \/ UNCHANGED Delayed!vars
  OBVIOUS
<1>1. CASE running /\ cycle_pipeline /\ Record /\ ~ShadowStall /\ ~UnknownEcall
  BY <1>1, ExitStep, DelayedInstruction, DelayedBubble DEF running
<1>2. CASE UNCHANGED <<pregs, wires, R, memory, imem, ecall_exit, history>>
  BY <1>2 DEF Delayed!vars, absNext, Pending, absR, stage_writeback, WriteBackValue,
     fetch_pc, pregs, history
<1> QED BY <1>1, <1>2 DEF SafeNext, HNext, parse_failure, vars

(* Without the flush the pipeline implements the machine with three delay  *)
(* slots: within the contract, every taken branch of a supported program,  *)
(* one in the shadow of another included, takes effect after exactly three *)
(* more instructions, and forwarding and stalls are invisible.             *)
THEOREM DelaySlotsImplemented ==
  ASSUME ~PRINT_STATS, AluImplementsHandlers
  PROVE  SafeSpec => ImplementsDelaySlots
<1>1. SafeSpec => SafeInit /\ [][SafeNext]_<<vars, history>>
  BY DEF SafeSpec
<1> QED BY <1>1, DelayedInit, DelayedNext, DatapathCorrect, PTL
     DEF ImplementsDelaySlots, Delayed!Spec
=============================================================================
