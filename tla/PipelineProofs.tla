--------------------------- MODULE PipelineProofs ----------------------------
(***************************************************************************)
(* The pipeline keeps its types and the coherence of its control wires,    *)
(* for every width of a word, every number of registers, every ALU, every  *)
(* configuration and every program.                                        *)
(***************************************************************************)
EXTENDS Pipeline, CacheLemmas

(***************************************************************************)
(* Words and the data memory: what load and store return for every size of *)
(* byte and memory.                                                        *)
(***************************************************************************)

(* Two digits, x above y, make a number below the product of their bases.  *)
LEMMA TwoDigits ==
  ASSUME NEW m \in Nat, NEW n \in Nat, NEW x \in 0 .. (m - 1), NEW y \in 0 .. (n - 1)
  PROVE  x * n + y \in 0 .. (m * n - 1)
<1>1. x * n + y \in Nat
  OBVIOUS
<1>2. (x + 1) * n <= m * n
  OBVIOUS
<1>3. (x + 1) * n = x * n + n
  OBVIOUS
<1> QED BY <1>1, <1>2, <1>3

(* A byte and a half word are words, and there is a word 4.                *)
LEMMA Widths ==
  /\ HalfMod \in Nat /\ ByteMod <= HalfMod
  /\ WordMod \in Nat /\ HalfMod <= WordMod
  /\ 16 <= WordMod
<1> USE ByteModAssumption
<1>1. HalfMod \in Nat /\ ByteMod <= HalfMod /\ 4 <= HalfMod
  BY DEF HalfMod
<1>2. WordMod \in Nat /\ HalfMod <= WordMod /\ 4 * HalfMod <= WordMod
  BY <1>1 DEF WordMod
<1> QED BY <1>1, <1>2

LEMMA ModInWord == ASSUME NEW a \in Int PROVE a % WordMod \in Word
BY Widths DEF Word

LEMMA PlusInWord == ASSUME NEW a \in Word, NEW b \in Word PROVE Plus(a, b) \in Word
BY ModInWord DEF Plus, Word

LEMMA MinusInWord == ASSUME NEW a \in Word, NEW b \in Word PROVE Minus(a, b) \in Word
BY ModInWord DEF Minus, Word

LEMMA SmallWords == 0 \in Word /\ 4 \in Word
BY Widths DEF Word

(* A cell index wraps into the memory.                                     *)
LEMMA AtInCell == ASSUME NEW a \in Word, NEW i \in Nat PROVE At(a, i) \in Cell
BY MemorySpaceAssumption DEF At, Cell, Word

LEMMA LoadRange ==
  ASSUME NEW m \in MemoryType, NEW a \in Word
  PROVE  /\ load(m, a, 1) \in 0 .. (ByteMod - 1)
         /\ load(m, a, 2) \in 0 .. (HalfMod - 1)
         /\ load(m, a, 4) \in 0 .. (WordMod - 1)
<1> DEFINE byte(i) == m[At(a, i)]
<1>1. \A i \in 0 .. 3 : byte(i) \in 0 .. (ByteMod - 1)
  BY AtInCell DEF MemoryType, Byte
<1>2. load(m, a, 1) = byte(0)
  BY DEF load
<1>3. load(m, a, 2) = byte(1) * ByteMod + byte(0)
  BY DEF load
<1>4. load(m, a, 4) = (byte(3) * ByteMod + byte(2)) * HalfMod
                        + (byte(1) * ByteMod + byte(0))
  BY DEF load
<1> HIDE DEF byte
<1>5. ASSUME NEW x \in 0 .. (ByteMod - 1), NEW y \in 0 .. (ByteMod - 1)
      PROVE  x * ByteMod + y \in 0 .. (HalfMod - 1)
  BY TwoDigits, ByteModAssumption DEF HalfMod
<1>6. load(m, a, 2) \in 0 .. (HalfMod - 1)
  BY <1>1, <1>3, <1>5
<1>7. load(m, a, 4) \in 0 .. (WordMod - 1)
  <2>1. /\ byte(3) * ByteMod + byte(2) \in 0 .. (HalfMod - 1)
        /\ byte(1) * ByteMod + byte(0) \in 0 .. (HalfMod - 1)
    BY <1>1, <1>5
  <2> QED BY <2>1, <1>4, TwoDigits, Widths DEF WordMod
<1> QED BY <1>1, <1>2, <1>6, <1>7

(* Sign extension of a field of a narrower width gives a word.             *)
LEMMA SignExtendInWord ==
  ASSUME NEW mod \in Nat, mod <= WordMod, NEW field \in 0 .. (mod - 1)
  PROVE  sign_extend_number(field, mod) \in Word
BY Widths, ModInWord DEF sign_extend_number, Word

LEMMA LoadValueInWord ==
  ASSUME NEW m \in MemoryType, NEW a \in Word, NEW fn
  PROVE  LoadValue(m, a, fn) \in Word
<1>1. sign_extend_number(load(m, a, 1), ByteMod) \in Word
  <2>1. ByteMod \in Nat /\ ByteMod <= WordMod
    BY Widths, ByteModAssumption
  <2>2. load(m, a, 1) \in 0 .. (ByteMod - 1)
    BY LoadRange
  <2> QED BY <2>1, <2>2, SignExtendInWord
<1>2. sign_extend_number(load(m, a, 2), HalfMod) \in Word
  <2>1. HalfMod \in Nat /\ HalfMod <= WordMod
    BY Widths
  <2>2. load(m, a, 2) \in 0 .. (HalfMod - 1)
    BY LoadRange
  <2> QED BY <2>1, <2>2, SignExtendInWord
<1>3. load(m, a, 4) \in Word
  BY LoadRange DEF Word
<1> QED BY <1>1, <1>2, <1>3, SmallWords DEF LoadValue

(* A store leaves a memory, whatever its width.                            *)
LEMMA StoreType ==
  ASSUME NEW m \in MemoryType, NEW a \in Word, NEW n \in {1, 2, 4}, NEW v \in Word
  PROVE  store(m, a, n, v) \in MemoryType
<1>1. ASSUME NEW d \in Nat, d > 0 PROVE (v \div d) % ByteMod \in Byte
  BY <1>1, ByteModAssumption DEF Byte, Word
<1>2. v % ByteMod \in Byte
  BY ByteModAssumption DEF Byte, Word
<1>3. /\ ByteMod \in Nat /\ ByteMod > 0
      /\ HalfMod \in Nat /\ HalfMod > 0
      /\ HalfMod * ByteMod \in Nat /\ HalfMod * ByteMod > 0
  BY ByteModAssumption DEF HalfMod
<1>4. /\ (v \div ByteMod) % ByteMod \in Byte
      /\ (v \div HalfMod) % ByteMod \in Byte
      /\ (v \div (HalfMod * ByteMod)) % ByteMod \in Byte
  BY <1>1, <1>3
<1> QED BY <1>2, <1>4 DEF store, MemoryType

LEMMA StoreValueType ==
  ASSUME NEW m \in MemoryType, NEW a \in Word, NEW fn, NEW v \in Word
  PROVE  StoreValue(m, a, fn, v) \in MemoryType
BY StoreType DEF StoreValue

(***************************************************************************)
(* The operators of the stages.                                            *)
(***************************************************************************)
LEMMA ZeroWords == ZERO \in Instruction /\ NOP \in Instruction
BY SmallWords, NumRegsAssumption
   DEF ZERO, NOP, Instruction, Opcode, Funct, RtypeFn, Reg

LEMMA NoControlType == NoControl \in ControlLines
BY DEF NoControl, ControlLines, AluOp

LEMMA GenControlType ==
  ASSUME NEW i \in Instruction PROVE gen_control(i) \in ControlLines
BY NoControlType DEF gen_control, NoControl, ControlLines, AluOp

LEMMA GenAluControlType ==
  ASSUME NEW alu_op, NEW fn PROVE gen_alu_control(alu_op, fn) \in AluControl
BY DEF gen_alu_control, AluControl

LEMMA InstrAtType ==
  ASSUME NEW program, IsProgram(program), NEW a \in Word
  PROVE  InstrAt(program, a) \in Instruction
BY ZeroWords DEF IsProgram, InstrAt

LEMMA FetchPcType == ASSUME NEW w \in Wires PROVE fetch_pc(w) \in Word
BY MinusInWord, SmallWords DEF fetch_pc, Wires

LEMMA DecodeType ==
  ASSUME NEW fd \in Ifid, NEW flush_control \in BOOLEAN, NEW regs \in [Reg -> Word]
  PROVE  stage_decode(fd, flush_control, regs) \in Idex
<1>1. /\ fd.instr \in Instruction /\ fd.instr_addr \in Word
      /\ fd.instr.rs1 \in Reg /\ fd.instr.rs2 \in Reg /\ 0 \in Reg
  BY NumRegsAssumption DEF Ifid, Instruction, Reg
<1>2. /\ gen_control(fd.instr) \in ControlLines
      /\ NoControl \in ControlLines
  BY <1>1, GenControlType, NoControlType
<1>3. regs[fd.instr.rs1] \in Word /\ regs[fd.instr.rs2] \in Word
  BY <1>1
<1> QED BY <1>1, <1>2, <1>3, SmallWords DEF stage_decode, Decoded, Idex

LEMMA OperandType ==
  ASSUME NEW rs, NEW em, NEW mw, NEW data \in Word, NEW w \in Wires
  PROVE  Operand(gen_forward(rs, em, mw), data, w) \in Word
BY DEF Operand, gen_forward, Wires

LEMMA ExecuteType ==
  ASSUME NEW de \in Idex, NEW em, NEW mw, NEW w \in Wires
  PROVE  stage_execute(de, gen_forward(de.rs1, em, mw),
                       gen_forward(de.rs2, em, mw), w) \in Exmem
<1> DEFINE a == Operand(gen_forward(de.rs1, em, mw), de.read_data1, w)
           b == Operand(gen_forward(de.rs2, em, mw), de.read_data2, w)
           c == gen_alu_control(de.ctl.alu_op, de.instr.fn)
           d == IF de.ctl.alu_src THEN de.instr.imm ELSE b
<1>1. a \in Word /\ b \in Word
  BY OperandType DEF Idex
<1>2. c \in AluControl
  BY GenAluControlType
<1>3. de.instr \in Instruction /\ de.instr_addr \in Word /\ de.instr.imm \in Word
  BY DEF Idex, Instruction
<1> HIDE DEF a, b, c
<1>4. d \in Word
  BY <1>1, <1>3
<1> HIDE DEF d
<1>5. ALU(a, d, c) \in Word
  BY <1>1, <1>2, <1>4, AluAssumption
<1>6. Plus(de.instr_addr, de.instr.imm) \in Word
  BY <1>3, PlusInWord
<1>7. stage_execute(de, gen_forward(de.rs1, em, mw), gen_forward(de.rs2, em, mw), w)
        = [instr       |-> de.instr,
           instr_addr  |-> de.instr_addr,
           ctl         |-> de.ctl,
           branch_addr |-> Plus(de.instr_addr, de.instr.imm),
           alu_result  |-> ALU(a, d, c),
           write_data  |-> b]
  BY DEF stage_execute, a, b, c, d
<1> QED BY <1>1, <1>3, <1>5, <1>6, <1>7 DEF Exmem, Idex

LEMMA WriteBackType ==
  ASSUME NEW mw \in Memwb PROVE WriteBackValue(mw) \in Word
BY DEF WriteBackValue, Memwb

LEMMA OneType == ASSUME NEW c PROVE One(c) \in {0, 1}
BY DEF One

(* A flushed pipeline register has the type of the register.               *)
LEMMA FlushType ==
  /\ \A reg \in Ifid : Flushed(reg, ZeroIfid) \in Ifid
  /\ \A reg \in Idex : Flushed(reg, ZeroIdex) \in Idex
  /\ \A reg \in Exmem : Flushed(reg, ZeroExmem) \in Exmem
<1>1. 0 \in Reg
  BY NumRegsAssumption DEF Reg
<1> QED BY <1>1, ZeroWords, NoControlType, SmallWords
     DEF Flushed, ZeroIfid, ZeroIdex, ZeroExmem, Ifid, Idex, Exmem

(***************************************************************************)
(* Type correctness.  The state before a cycle has the types; so have the  *)
(* input halves that the stages compute from it, and what is latched.      *)
(***************************************************************************)
LEMMA InputHalvesType ==
  ASSUME TypeOK
  PROVE  /\ hazard \in BOOLEAN
         /\ pcsrc \in BOOLEAN
         /\ ifid_inp \in Ifid
         /\ idex_inp \in Idex
         /\ exmem_inp \in Exmem
         /\ memwb_inp \in Memwb
<1> USE DEF TypeOK
<1>1. hazard \in BOOLEAN /\ pcsrc \in BOOLEAN
  BY DEF hazard, detect_hazard, pcsrc, gen_branch, Idex, Exmem, ControlLines
<1>2. ifid_inp \in Ifid
  <2>1. stage_fetch(wires) \in Ifid
    BY FetchPcType, InstrAtType DEF stage_fetch, Ifid
  <2> QED BY <2>1 DEF ifid_inp
<1>3. idex_inp \in Idex
  BY <1>1, DecodeType DEF idex_inp
<1>4. exmem_inp \in Exmem
  BY ExecuteType DEF exmem_inp, forward_a, forward_b
<1>5. memwb_inp \in Memwb
  BY LoadValueInWord, SmallWords DEF memwb_inp, stage_mem, Memwb, Exmem
<1> QED BY <1>1, <1>2, <1>3, <1>4, <1>5

LEMMA CountType ==
  ASSUME TypeOK PROVE count_cycle \in Stats
<1>1. mem_latency(exmem) \in Int
  BY LatencyType, LatencyAssumption DEF mem_latency
<1>2. stats \in Stats
  BY DEF TypeOK
<1> QED BY <1>1, <1>2, OneType DEF count_cycle, Stats

LEMMA InitType == Init => TypeOK
<1> SUFFICES ASSUME Init PROVE TypeOK
  OBVIOUS
<1> USE DEF Init
<1>1. 0 \in Reg /\ 0 \in Byte /\ 0 \in Word
  BY NumRegsAssumption, ByteModAssumption, SmallWords DEF Reg, Byte
<1>2. PC \in Word /\ R \in [Reg -> Word]
  BY <1>1, MachineAssumption DEF InitRegs
<1>3. memory \in MemoryType /\ IsProgram(imem)
  BY <1>1 DEF MemoryType, InitMemory
<1>4. ifid \in Ifid /\ idex \in Idex /\ exmem \in Exmem /\ memwb \in Memwb
  BY <1>1, ZeroWords, NoControlType
     DEF ZeroIfid, ZeroIdex, ZeroExmem, ZeroMemwb, Ifid, Idex, Exmem, Memwb
<1>5. wires \in Wires
  BY <1>1, MachineAssumption DEF InitWires, Wires
<1>6. cache \in CacheType /\ stats \in Stats
  BY SetUpType DEF InitStats, Stats
<1> QED BY <1>2, <1>3, <1>4, <1>5, <1>6 DEF TypeOK

(* A call of cycle_pipeline, whether or not the exit ecall has been seen:  *)
(* the flush of the driver goes on behind it.                              *)
Call == cycle_pipeline \/ parse_failure

LEMMA NextCalls == [Next]_vars => [Call]_vars
BY DEF Next, Call

LEMMA NextType == TypeOK /\ [Call]_vars => TypeOK'
<1> SUFFICES ASSUME TypeOK, [Call]_vars PROVE TypeOK'
  OBVIOUS
<1>1. CASE cycle_pipeline
  <2> USE <1>1 DEF cycle_pipeline
  <2>1. PC' \in Word /\ Plus(fetch_pc(wires), 4) \in Word
    BY FetchPcType, PlusInWord, SmallWords DEF TypeOK
  <2>2. R' \in [Reg -> Word]
    BY WriteBackType DEF stage_writeback, TypeOK, Memwb, Instruction
  <2>3. memory' \in MemoryType
    BY StoreValueType DEF mem_store, TypeOK, Exmem
  <2>4. cache' \in CacheType
    <3>1. exmem.alu_result \in Nat
      BY DEF TypeOK, Exmem, Word
    <3> QED BY <3>1, OperateType DEF mem_cache, TypeOK
  <2>5. ifid' \in Ifid /\ idex' \in Idex /\ exmem' \in Exmem
    BY InputHalvesType, FlushType DEF flush_pipeline
  <2>6. memwb' \in Memwb
    BY InputHalvesType
  <2>7. wires' \in Wires
    <3>1. exmem.branch_addr \in Word /\ exmem_inp.alu_result \in Word
      BY InputHalvesType DEF TypeOK, Exmem
    <3>2. WriteBackValue(memwb_inp) \in Word
      BY InputHalvesType, WriteBackType
    <3> QED BY <2>1, <3>1, <3>2, InputHalvesType DEF next_wires, WiresWith, Wires
  <2>8. stats' \in Stats
    BY CountType
  <2>9. ecall_exit' \in BOOLEAN /\ failed' \in BOOLEAN /\ IsProgram(imem')
    BY DEF TypeOK, ecall_check
  <2> QED BY <2>1, <2>2, <2>3, <2>4, <2>5, <2>6, <2>7, <2>8, <2>9 DEF TypeOK
<1>2. CASE parse_failure
  BY <1>2 DEF TypeOK, parse_failure, pregs, IsProgram
<1>3. CASE UNCHANGED vars
  BY <1>3 DEF TypeOK, vars, pregs, IsProgram
<1> QED BY <1>1, <1>2, <1>3 DEF Call

(* Type correctness: every cycle of every program leaves words, registers  *)
(* and pipeline registers of their widths.                                 *)
THEOREM TypeCorrect == Spec => []TypeOK
<1> QED BY InitType, NextType, NextCalls, PTL DEF Spec

(***************************************************************************)
(* Coherence of the control wires.  The bubble of a stall does not read    *)
(* memory, so that the hazard unit cannot see the load a second time; that *)
(* is what makes StallLastsOneCycle inductive.                             *)
(***************************************************************************)
StallMadeBubble == wires.pc_write => ~idex.ctl.mem_read

(* The forwarding wires, which a flush leaves alone, hold what the slots   *)
(* they are selected for will write.                                       *)
WiresCoherent ==
  /\ wires.write_data = WriteBackValue(memwb)
  /\ exmem.ctl.reg_write => wires.alu_result = exmem.alu_result

ControlInv == StallMadeBubble /\ WiresCoherent

LEMMA InitControl == Init => ControlInv
BY DEF Init, ControlInv, StallMadeBubble, WiresCoherent, InitWires, WriteBackValue,
       ZeroIdex, ZeroExmem, ZeroMemwb, NoControl

LEMMA NextControl == TypeOK /\ ControlInv /\ [Call]_vars => ControlInv'
<1> SUFFICES ASSUME TypeOK, ControlInv, [Call]_vars PROVE ControlInv'
  OBVIOUS
<1>1. CASE cycle_pipeline
  <2> USE <1>1 DEF cycle_pipeline
  <2>1. StallMadeBubble'
    <3> SUFFICES ASSUME hazard PROVE ~idex'.ctl.mem_read
      BY DEF StallMadeBubble, next_wires, WiresWith
    <3>1. idex_inp.ctl = NoControl
      BY DEF idex_inp, stage_decode, Decoded
    <3> QED BY <3>1 DEF flush_pipeline, Flushed, ZeroIdex, NoControl
  <2>2. wires'.write_data = WriteBackValue(memwb')
    BY DEF next_wires, WiresWith
  <2>3. exmem'.ctl.reg_write => wires'.alu_result = exmem'.alu_result
    BY DEF flush_pipeline, Flushed, ZeroExmem, NoControl, next_wires, WiresWith
  <2> QED BY <2>1, <2>2, <2>3 DEF ControlInv, WiresCoherent, WriteBackValue
<1>2. CASE parse_failure
  BY <1>2 DEF ControlInv, StallMadeBubble, WiresCoherent, WriteBackValue,
              parse_failure, pregs
<1>3. CASE UNCHANGED vars
  BY <1>3 DEF ControlInv, StallMadeBubble, WiresCoherent, WriteBackValue, vars, pregs
<1> QED BY <1>1, <1>2, <1>3 DEF Call

LEMMA ControlCorrect == Spec => []ControlInv
<1> QED BY InitType, NextType, InitControl, NextControl, NextCalls, PTL DEF Spec

(* A load-use stall lasts one cycle in every program: the pipeline is      *)
(* never held up by its own hazard unit.                                   *)
THEOREM StallsEnd == Spec => []StallLastsOneCycle
<1>1. ControlInv => StallLastsOneCycle
  BY DEF ControlInv, StallMadeBubble, StallLastsOneCycle, hazard, detect_hazard
<1> QED BY <1>1, ControlCorrect, PTL
=============================================================================
