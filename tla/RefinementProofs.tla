-------------------------- MODULE RefinementProofs ---------------------------
(***************************************************************************)
(* What the pipeline promises to every program, of any length, on words of *)
(* any width: bubbles are harmless, loads are waited for, operands are     *)
(* those of the program order, and the counters describe the run.  As long *)
(* as the contract of SafeSpec is kept, it executes every supported        *)
(* program as the emulator does, whatever the number of registers, the     *)
(* size of the memory and the cache.                                       *)
(***************************************************************************)
EXTENDS PipelineIsa, PipelineProofs


(***************************************************************************)
(* The history variables.                                                  *)
(***************************************************************************)
HTypeOK == /\ valid \in [Stage -> BOOLEAN]
           /\ steps \in Nat
           /\ retired \in Nat
           /\ accesses \in Nat

(* A step of the pipeline with its history is a step of the pipeline.      *)
LEMMA HRefines == /\ HInit => Init
                  /\ [HNext]_<<vars, history>> => [Next]_vars
BY DEF HInit, HNext, Next

HCall == \/ cycle_pipeline /\ Record
         \/ parse_failure /\ UNCHANGED history

LEMMA HCalls == [HNext]_<<vars, history>> => [HCall]_<<vars, history>>
BY DEF HNext, HCall

LEMMA CallOf == [HCall]_<<vars, history>> => [Call]_vars
BY DEF HCall, Call

(* Which slots hold an instruction of the program after a cycle.           *)
LEMMA CycleValid ==
  ASSUME Record
  PROVE  /\ valid'["ifid"]  = (~flushing /\ (hazard => valid["ifid"]))
         /\ valid'["idex"]  = (~flushing /\ ~hazard /\ valid["ifid"])
         /\ valid'["exmem"] = (~flushing /\ valid["idex"])
         /\ valid'["memwb"] = valid["exmem"]
BY DEF Record, Stage

LEMMA HInitType == HInit => HTypeOK
BY DEF HInit, HTypeOK

LEMMA HNextType == HTypeOK /\ [HCall]_<<vars, history>> => HTypeOK'
<1> SUFFICES ASSUME HTypeOK, [HCall]_<<vars, history>> PROVE HTypeOK'
  OBVIOUS
<1>1. CASE Record
  <2>1. valid' \in [Stage -> BOOLEAN]
    BY <1>1 DEF Record, HTypeOK, Stage
  <2>2. steps' \in Nat /\ retired' \in Nat /\ accesses' \in Nat
    BY <1>1, OneType DEF Record, HTypeOK
  <2> QED BY <2>1, <2>2 DEF HTypeOK
<1>2. CASE UNCHANGED history
  BY <1>2 DEF history, HTypeOK
<1> QED BY <1>1, <1>2 DEF HCall

(***************************************************************************)
(* Bubbles.                                                                *)
(***************************************************************************)
LEMMA ZeroHarmless ==
  ASSUME NEW i \in {ZERO, NOP}
  PROVE  /\ ~gen_control(i).mem_read /\ ~gen_control(i).mem_write
         /\ ~gen_control(i).branch
         /\ gen_control(i).reg_write => i.rd = 0
BY DEF ZERO, NOP, gen_control, NoControl

LEMMA InitBubbles == HInit => BubblesHarmless
BY DEF HInit, Init, BubblesHarmless, Harmless, ZeroIfid, ZeroIdex, ZeroExmem,
       ZeroMemwb, NoControl, Stage

LEMMA NextBubbles ==
  BubblesHarmless /\ [HCall]_<<vars, history>> => BubblesHarmless'
<1> SUFFICES ASSUME BubblesHarmless, [HCall]_<<vars, history>>
             PROVE  BubblesHarmless'
  OBVIOUS
<1>1. CASE cycle_pipeline /\ Record
  <2> USE <1>1 DEF cycle_pipeline
  <2>1. ~valid'["ifid"] => ifid'.instr \in {ZERO, NOP}
    BY CycleValid DEF flush_pipeline, Flushed, ZeroIfid, ifid_inp, BubblesHarmless
  <2>2. ~valid'["idex"] => Harmless(idex)'
    <3>1. CASE flushing
      BY <3>1 DEF flush_pipeline, Flushed, ZeroIdex, NoControl, Harmless
    <3>2. CASE ~flushing
      <4>1. idex' = idex_inp
        BY <3>2 DEF flush_pipeline
      <4>2. /\ idex_inp.instr = ifid.instr
            /\ idex_inp.ctl = IF hazard THEN NoControl ELSE gen_control(ifid.instr)
        BY DEF idex_inp, stage_decode, Decoded
      <4>3. CASE hazard
        BY <4>1, <4>2, <4>3 DEF Harmless, NoControl
      <4>4. CASE ~hazard
        <5> SUFFICES ASSUME ~valid["ifid"] PROVE Harmless(idex)'
          BY <3>2, <4>4, CycleValid
        <5>1. ifid.instr \in {ZERO, NOP}
          BY DEF BubblesHarmless
        <5> QED BY <4>1, <4>2, <4>4, <5>1, ZeroHarmless DEF Harmless
      <4> QED BY <4>3, <4>4
    <3> QED BY <3>1, <3>2
  <2>3. ~valid'["exmem"] => Harmless(exmem)'
    <3>1. CASE flushing
      BY <3>1 DEF flush_pipeline, Flushed, ZeroExmem, NoControl, Harmless
    <3>2. CASE ~flushing
      <4>1. exmem'.instr = idex.instr /\ exmem'.ctl = idex.ctl
        BY <3>2 DEF flush_pipeline, exmem_inp, stage_execute
      <4> QED BY <3>2, <4>1, CycleValid DEF Harmless, BubblesHarmless
    <3> QED BY <3>1, <3>2
  <2>4. ~valid'["memwb"] => Harmless(memwb)'
    <3>1. memwb'.instr = exmem.instr /\ memwb'.ctl = exmem.ctl
      BY DEF memwb_inp, stage_mem
    <3> QED BY <3>1, CycleValid DEF Harmless, BubblesHarmless
  <2> QED BY <2>1, <2>2, <2>3, <2>4 DEF BubblesHarmless
<1>2. CASE UNCHANGED <<pregs, history>>
  BY <1>2 DEF BubblesHarmless, Harmless, pregs, history
<1> QED BY <1>1, <1>2 DEF HCall, parse_failure, vars, history

(* No slot without an instruction of the program has an effect, whatever   *)
(* the program.                                                            *)
THEOREM Bubbles == HSpec => []BubblesHarmless
<1> QED BY InitBubbles, NextBubbles, HCalls, PTL DEF HSpec

(***************************************************************************)
(* Steps of the history are steps of the pipeline, so that what module     *)
(* PipelineProofs proves holds here too.                                   *)
(***************************************************************************)
LEMMA HCorrect == HSpec => []TypeOK /\ []ControlInv /\ []HTypeOK
<1> QED BY HRefines, HInitType, HNextType, TypeCorrect, ControlCorrect, HCalls, PTL
     DEF Spec, HSpec

(***************************************************************************)
(* The control lines in a slot are those of its instruction; a bubble has  *)
(* none of the combinations that no instruction has.                       *)
(***************************************************************************)
LinesOf(s, reg) == /\ valid[s] => reg.ctl = gen_control(reg.instr)
                   /\ reg.ctl.mem_to_reg => reg.ctl.mem_read
                   /\ ~(reg.ctl.branch /\ reg.ctl.mem_read)

ControlsMatch == LinesOf("idex", idex) /\ LinesOf("exmem", exmem)

LEMMA LinesExclusive ==
  ASSUME NEW i, NEW c \in {gen_control(i), NoControl}
  PROVE  /\ c.mem_to_reg => c.mem_read
         /\ ~(c.branch /\ c.mem_read)
<1>1. /\ gen_control(i).mem_to_reg => gen_control(i).mem_read
      /\ ~(gen_control(i).branch /\ gen_control(i).mem_read)
  BY DEF gen_control, NoControl
<1>2. ~NoControl.mem_to_reg /\ ~NoControl.branch
  BY DEF NoControl
<1> QED BY <1>1, <1>2

LEMMA InitControls == HInit => ControlsMatch
BY DEF HInit, Init, ControlsMatch, LinesOf, ZeroIdex, ZeroExmem, NoControl, Stage

LEMMA NextControls ==
  ControlsMatch /\ [HCall]_<<vars, history>> => ControlsMatch'
<1> SUFFICES ASSUME ControlsMatch, [HCall]_<<vars, history>> PROVE ControlsMatch'
  OBVIOUS
<1>1. CASE cycle_pipeline /\ Record
  <2> USE <1>1 DEF cycle_pipeline
  <2>1. CASE flushing
    <3>1. ~valid'["idex"] /\ ~valid'["exmem"]
      BY <2>1, CycleValid
    <3>2. idex'.ctl = NoControl /\ exmem'.ctl = NoControl
      BY <2>1 DEF flush_pipeline, Flushed, ZeroIdex, ZeroExmem
    <3> QED BY <3>1, <3>2 DEF ControlsMatch, LinesOf, NoControl
  <2>2. CASE ~flushing
    <3>1. LinesOf("idex", idex)'
      <4>1. /\ idex'.instr = ifid.instr
            /\ idex'.ctl = IF hazard THEN NoControl ELSE gen_control(ifid.instr)
        BY <2>2 DEF flush_pipeline, idex_inp, stage_decode, Decoded
      <4>2. valid'["idex"] => idex'.ctl = gen_control(idex'.instr)
        BY <4>1, CycleValid
      <4>3. idex'.ctl \in {gen_control(ifid.instr), NoControl}
        BY <4>1
      <4> QED BY <4>2, <4>3, LinesExclusive DEF LinesOf
    <3>2. LinesOf("exmem", exmem)'
      <4>1. exmem'.instr = idex.instr /\ exmem'.ctl = idex.ctl
        BY <2>2 DEF flush_pipeline, exmem_inp, stage_execute
      <4> QED BY <4>1, CycleValid DEF LinesOf, ControlsMatch
    <3> QED BY <3>1, <3>2 DEF ControlsMatch
  <2> QED BY <2>1, <2>2
<1>2. CASE UNCHANGED <<pregs, history>>
  BY <1>2 DEF ControlsMatch, LinesOf, pregs, history
<1> QED BY <1>1, <1>2 DEF HCall, parse_failure, vars, history

LEMMA ControlsCorrect == HSpec => []ControlsMatch
<1> QED BY InitControls, NextControls, HCalls, PTL DEF HSpec

(***************************************************************************)
(* Load-use hazards.                                                       *)
(***************************************************************************)
LEMMA SourcesOf == ASSUME NEW i PROVE Sources(i) \subseteq {i.rs1, i.rs2}
BY DEF Sources

LEMMA NextLoadUse ==
  ControlsMatch /\ LoadUseStalled /\ [HCall]_<<vars, history>> => LoadUseStalled'
<1> SUFFICES ASSUME ControlsMatch, LoadUseStalled, [HCall]_<<vars, history>>
             PROVE  LoadUseStalled'
  OBVIOUS
<1>1. CASE cycle_pipeline /\ Record
  <2> USE <1>1 DEF cycle_pipeline
  <2> SUFFICES ASSUME valid'["idex"], NEW r \in Sources(idex'.instr),
                      Forwards(exmem', r), exmem'.ctl.mem_to_reg
               PROVE  FALSE
    BY DEF LoadUseStalled, Forwards
  <2>1. ~flushing /\ ~hazard
    BY CycleValid
  <2>2. idex'.instr = ifid.instr
    BY <2>1 DEF flush_pipeline, idex_inp, stage_decode, Decoded
  <2>3. exmem'.instr = idex.instr /\ exmem'.ctl = idex.ctl
    BY <2>1 DEF flush_pipeline, exmem_inp, stage_execute
  <2>4. idex.ctl.mem_read
    BY <2>3 DEF ControlsMatch, LinesOf
  <2>5. idex.instr.rd \in {ifid.instr.rs1, ifid.instr.rs2}
    BY <2>2, <2>3, SourcesOf DEF Forwards
  <2> QED BY <2>1, <2>4, <2>5 DEF hazard, detect_hazard
<1>2. CASE UNCHANGED <<pregs, history>>
  BY <1>2 DEF LoadUseStalled, Forwards, pregs, history
<1> QED BY <1>1, <1>2 DEF HCall, parse_failure, vars, history

(* The hazard unit is sound: in no program does execute take the address   *)
(* of a load for the value that the load will read.                        *)
THEOREM LoadsWaitedFor == HSpec => []LoadUseStalled
<1>1. HInit => LoadUseStalled
  BY DEF HInit, LoadUseStalled, Stage
<1> QED BY <1>1, NextLoadUse, ControlsCorrect, HCalls, PTL DEF HSpec

(***************************************************************************)
(* Program order.  A slot is never valid in front of an empty IF/ID: a     *)
(* stall holds the instruction there and a flush empties all three.        *)
(***************************************************************************)
LEMMA StepBack == ASSUME NEW a \in Word PROVE Minus(Plus(a, 4), 4) = a
<1>1. WordMod \in Nat /\ WordMod >= 16
  BY Widths
<1>2. a \in Int /\ 0 <= a /\ a < WordMod
  BY <1>1 DEF Word
<1> QED BY <1>1, <1>2 DEF Minus, Plus

FetchAhead == /\ valid["idex"] => valid["ifid"]
              /\ valid["exmem"] => valid["ifid"]

LEMMA NextAhead == FetchAhead /\ [HCall]_<<vars, history>> => FetchAhead'
<1>1. FetchAhead /\ Record => FetchAhead'
  BY CycleValid DEF FetchAhead
<1> QED BY <1>1 DEF HCall, FetchAhead, history

LEMMA AheadCorrect == HSpec => []FetchAhead
<1>1. HInit => FetchAhead
  BY DEF HInit, FetchAhead, Stage
<1> QED BY <1>1, NextAhead, HCalls, PTL DEF HSpec

(* Where the instructions are after a cycle without a flush, and what is   *)
(* fetched in the next one.                                                *)
LEMMA Moves ==
  ASSUME cycle_pipeline, ~flushing
  PROVE  /\ ifid' = IF hazard THEN ifid ELSE stage_fetch(wires)
         /\ idex'.instr = ifid.instr /\ idex'.instr_addr = ifid.instr_addr
         /\ exmem'.instr = idex.instr /\ exmem'.instr_addr = idex.instr_addr
         /\ memwb'.instr = exmem.instr /\ memwb'.instr_addr = exmem.instr_addr
BY DEF cycle_pipeline, flush_pipeline, ifid_inp, idex_inp, stage_decode, Decoded,
   exmem_inp, stage_execute, memwb_inp, stage_mem

LEMMA NextFetch ==
  ASSUME TypeOK, cycle_pipeline, ~pcsrc
  PROVE  /\ ~wires'.pcsrc /\ wires'.pc_write = hazard
         /\ fetch_pc(wires') = IF hazard THEN fetch_pc(wires)
                               ELSE Plus(fetch_pc(wires), 4)
<1>1. /\ ~wires'.pcsrc /\ wires'.pc_write = hazard
      /\ wires'.pc_src0 = Plus(fetch_pc(wires), 4)
  BY DEF cycle_pipeline, next_wires, WiresWith
<1>2. fetch_pc(wires) \in Word
  BY FetchPcType DEF TypeOK
<1>3. fetch_pc(wires') = IF hazard THEN Minus(Plus(fetch_pc(wires), 4), 4)
                         ELSE Plus(fetch_pc(wires), 4)
  BY <1>1 DEF fetch_pc
<1> QED BY <1>1, <1>2, <1>3, StepBack

LEMMA NextOrder ==
  ASSUME PRINT_STATS
  PROVE  /\ TypeOK /\ FetchAhead /\ ProgramOrder
         /\ [HCall]_<<vars, history>>
         => ProgramOrder'
<1> SUFFICES ASSUME TypeOK, FetchAhead, ProgramOrder, [HCall]_<<vars, history>>
             PROVE  ProgramOrder'
  OBVIOUS
<1>1. CASE cycle_pipeline /\ Record
  <2>1. CASE flushing
    BY <1>1, <2>1, CycleValid DEF ProgramOrder
  <2>2. CASE ~flushing
    <3>1. /\ idex'.instr_addr = ifid.instr_addr
          /\ exmem'.instr_addr = idex.instr_addr
          /\ ifid'.instr_addr = IF hazard THEN ifid.instr_addr ELSE fetch_pc(wires)
      BY <1>1, <2>2, Moves DEF stage_fetch
    <3>2. fetch_pc(wires') = IF hazard THEN fetch_pc(wires) ELSE Plus(fetch_pc(wires), 4)
      BY <1>1, <2>2, NextFetch DEF flushing
    <3>3. /\ valid'["ifid"] => ifid'.instr_addr = IF hazard THEN ifid.instr_addr
                                                            ELSE fetch_pc(wires)
          /\ valid'["ifid"] => fetch_pc(wires') = Plus(ifid'.instr_addr, 4)
      BY <1>1, <2>2, <3>1, <3>2, CycleValid DEF ProgramOrder
    <3>4. valid'["idex"] /\ valid'["exmem"] =>
            idex'.instr_addr = Plus(exmem'.instr_addr, 4)
      BY <1>1, <3>1, CycleValid DEF ProgramOrder
    <3>5. valid'["ifid"] /\ valid'["idex"] =>
            ifid'.instr_addr = Plus(idex'.instr_addr, 4)
      BY <1>1, <3>1, CycleValid DEF ProgramOrder
    <3>6. valid'["ifid"] /\ valid'["exmem"] /\ ~valid'["idex"] =>
            ifid'.instr_addr = Plus(exmem'.instr_addr, 4)
      BY <1>1, <3>1, CycleValid DEF ProgramOrder, FetchAhead
    <3> QED BY <3>3, <3>4, <3>5, <3>6 DEF ProgramOrder
  <2> QED BY <2>1, <2>2
<1>2. CASE UNCHANGED <<pregs, wires, history>>
  BY <1>2 DEF ProgramOrder, fetch_pc, pregs, history
<1> QED BY <1>1, <1>2 DEF HCall, parse_failure, vars, history

(* With PRINT_STATS defined, stalls and flushes neither lose nor repeat    *)
(* nor reorder an instruction of any program.                              *)
THEOREM OrderKept == ASSUME PRINT_STATS PROVE HSpec => []ProgramOrder
<1>1. HInit => ProgramOrder
  BY DEF HInit, ProgramOrder, Stage
<1> QED BY <1>1, NextOrder, HCorrect, AheadCorrect, HCalls, PTL DEF HSpec

(***************************************************************************)
(* The counters.                                                           *)
(***************************************************************************)

(* The mem stage accesses memory for the loads and stores of the program   *)
(* and for nothing else.                                                   *)
LEMMA AccessesAreValid ==
  ASSUME ControlsMatch, BubblesHarmless
  PROVE  Accesses(exmem) <=> valid["exmem"] /\ exmem.instr.op \in {"load", "store"}
<1>1. CASE valid["exmem"]
  <2>1. exmem.ctl = gen_control(exmem.instr)
    BY <1>1 DEF ControlsMatch, LinesOf
  <2> QED BY <1>1, <2>1 DEF Accesses, gen_control, NoControl
<1>2. CASE ~valid["exmem"]
  BY <1>2 DEF BubblesHarmless, Harmless, Accesses
<1> QED BY <1>1, <1>2

(* An access is a hit or a miss of the cache, and its latency says which.  *)
LEMMA HitOrMiss ==
  ASSUME NEW c \in CacheType, NEW address \in Nat, MEM_LATENCY > 0
  PROVE  LET latency == processCacheOperation(c, address)
             after   == operateCache(c, address)
             hit     == operateStatus(c, address) = "CACHE_HIT"
         IN /\ latency = IF hit THEN CACHE_HIT_LATENCY ELSE CACHE_MISS_LATENCY
            /\ CACHE_HIT_LATENCY # CACHE_MISS_LATENCY
            /\ after.hit_count = c.hit_count + One(hit)
            /\ after.miss_count = c.miss_count + One(~hit)
<1>1. operateStatus(c, address) \in {"CACHE_MISS", "CACHE_HIT", "CACHE_EVICT"}
  BY DEF operateStatus
<1>2. CACHE_HIT_LATENCY # CACHE_MISS_LATENCY
  BY LatencyAssumption DEF CACHE_HIT_LATENCY, CACHE_MISS_LATENCY
<1>3. processCacheOperation(c, address)
        = IF operateStatus(c, address) = "CACHE_HIT"
          THEN CACHE_HIT_LATENCY ELSE CACHE_MISS_LATENCY
  BY <1>1 DEF processCacheOperation, CACHE_MISS_LATENCY, CACHE_OTHER_LATENCY
<1>4. /\ operateCache(c, address).hit_count
           = IF operateStatus(c, address) = "CACHE_HIT" THEN c.hit_count + 1
             ELSE c.hit_count
      /\ operateCache(c, address).miss_count
           = IF operateStatus(c, address) = "CACHE_HIT" THEN c.miss_count
             ELSE c.miss_count + 1
  BY DEF operateCache, CacheType
<1>5. c.hit_count \in Nat /\ c.miss_count \in Nat
  BY DEF CacheType
<1> QED BY <1>2, <1>3, <1>4, <1>5 DEF One

(* The counters of one cycle.                                              *)
LEMMA CountedOnce ==
  ASSUME TypeOK, ControlsMatch, BubblesHarmless, cache_en => MEM_LATENCY > 0,
         cycle_pipeline, Record
  PROVE  LET hit    == cache_en /\ Accesses(exmem)
                         /\ operateStatus(cache, exmem.alu_result) = "CACHE_HIT"
             miss   == cache_en /\ Accesses(exmem)
                         /\ operateStatus(cache, exmem.alu_result) # "CACHE_HIT"
             direct == ~cache_en /\ Accesses(exmem)
         IN /\ stats'.hit = stats.hit + One(hit)
            /\ stats'.miss = stats.miss + One(miss)
            /\ stats'.mem_access = stats.mem_access + One(direct)
            /\ accesses' = accesses + One(hit \/ miss \/ direct)
            /\ cache'.hit_count = cache.hit_count + One(hit)
            /\ cache'.miss_count = cache.miss_count + One(miss)
            /\ mem_latency(exmem) =
                 IF hit THEN CACHE_HIT_LATENCY - 1
                 ELSE IF miss THEN CACHE_MISS_LATENCY - 1
                 ELSE IF direct
                      THEN IF PRINT_CACHE_STATS THEN MEM_LATENCY - 1 ELSE MEM_LATENCY
                      ELSE 0
<1>1. cache \in CacheType /\ exmem.alu_result \in Nat
  BY DEF TypeOK, Exmem, Word
<1>2. /\ stats' = count_cycle
      /\ cache' = mem_cache(exmem)
      /\ accesses' = accesses + One(valid["exmem"] /\ exmem.instr.op \in {"load", "store"})
  BY DEF cycle_pipeline, Record
<1>3. accesses' = accesses + One(Accesses(exmem))
  <2>1. CASE Accesses(exmem)
    BY <1>2, <2>1, AccessesAreValid DEF One
  <2>2. CASE ~Accesses(exmem)
    BY <1>2, <2>2, AccessesAreValid DEF One
  <2> QED BY <2>1, <2>2
<1>4. cache.hit_count \in Nat /\ cache.miss_count \in Nat
  BY <1>1 DEF CacheType
<1>5. CASE cache_en /\ Accesses(exmem)
  BY <1>1, <1>2, <1>3, <1>5, HitOrMiss
     DEF count_cycle, LatencyIs, mem_cache, mem_latency, One
<1>6. CASE ~(cache_en /\ Accesses(exmem))
  BY <1>2, <1>3, <1>4, <1>6
     DEF count_cycle, LatencyIs, mem_cache, mem_latency, One
<1> QED BY <1>5, <1>6

(* Without a memory latency a hit takes as long as a miss.                 *)
LEMMA CountedAsBoth ==
  ASSUME TypeOK, ControlsMatch, BubblesHarmless, cache_en, MEM_LATENCY = 0,
         cycle_pipeline, Record
  PROVE  /\ stats'.hit = stats.hit + One(Accesses(exmem))
         /\ stats'.miss = stats.miss + One(Accesses(exmem))
         /\ accesses' = accesses + One(Accesses(exmem))
         /\ cache'.hit_count + cache'.miss_count
              = cache.hit_count + cache.miss_count + One(Accesses(exmem))
<1>1. /\ stats' = count_cycle
      /\ cache' = mem_cache(exmem)
      /\ accesses' = accesses + One(valid["exmem"] /\ exmem.instr.op \in {"load", "store"})
  BY DEF cycle_pipeline, Record
<1>2. accesses' = accesses + One(Accesses(exmem))
  <2>1. CASE Accesses(exmem)
    BY <1>1, <2>1, AccessesAreValid DEF One
  <2>2. CASE ~Accesses(exmem)
    BY <1>1, <2>2, AccessesAreValid DEF One
  <2> QED BY <2>1, <2>2
<1>3. CACHE_MISS_LATENCY = CACHE_HIT_LATENCY /\ CACHE_OTHER_LATENCY = CACHE_HIT_LATENCY
  BY DEF CACHE_HIT_LATENCY, CACHE_MISS_LATENCY, CACHE_OTHER_LATENCY
<1>4. processCacheOperation(cache, exmem.alu_result) = CACHE_HIT_LATENCY
  <2>1. operateStatus(cache, exmem.alu_result) \in {"CACHE_MISS", "CACHE_HIT", "CACHE_EVICT"}
    BY DEF operateStatus
  <2> QED BY <1>3, <2>1 DEF processCacheOperation
<1>5. cache.hit_count \in Nat /\ cache.miss_count \in Nat
  BY DEF TypeOK, CacheType
<1>6. CASE Accesses(exmem)
  <2>1. cache' = operateCache(cache, exmem.alu_result)
    BY <1>1, <1>6 DEF mem_cache
  <2>2. cache'.hit_count + cache'.miss_count = cache.hit_count + cache.miss_count + 1
    BY <1>5, <2>1 DEF operateCache, TypeOK, CacheType
  <2> QED BY <1>1, <1>2, <1>3, <1>4, <1>6, <2>2 DEF count_cycle, LatencyIs, One
<1>7. CASE ~Accesses(exmem)
  BY <1>1, <1>2, <1>5, <1>7 DEF count_cycle, LatencyIs, mem_cache, One
<1> QED BY <1>6, <1>7

LEMMA NextAccesses ==
  /\ TypeOK /\ HTypeOK /\ ControlsMatch /\ BubblesHarmless /\ AccessesCounted
  /\ [HCall]_<<vars, history>>
  => AccessesCounted'
<1> SUFFICES ASSUME TypeOK, HTypeOK, ControlsMatch, BubblesHarmless,
                    AccessesCounted, [HCall]_<<vars, history>>
             PROVE  AccessesCounted'
  OBVIOUS
<1>1. CASE cycle_pipeline /\ Record
  <2>1. /\ stats.hit \in Nat /\ stats.miss \in Nat /\ stats.mem_access \in Nat
        /\ accesses \in Nat
    BY DEF TypeOK, Stats, HTypeOK
  <2>2. CASE cache_en /\ MEM_LATENCY = 0
    BY <1>1, <2>1, <2>2, CountedAsBoth DEF AccessesCounted
  <2>3. CASE ~(cache_en /\ MEM_LATENCY = 0)
    <3>1. cache_en => MEM_LATENCY > 0
      BY <2>3, LatencyAssumption
    <3> QED BY <1>1, <2>1, <2>3, <3>1, CountedOnce DEF AccessesCounted, One
  <2> QED BY <2>2, <2>3
<1>2. CASE UNCHANGED <<stats, cache, history>>
  BY <1>2 DEF AccessesCounted, history
<1> QED BY <1>1, <1>2 DEF HCall, parse_failure, vars, history

(* Every access of every program is counted once, and the counters of the  *)
(* pipeline agree with those of the cache.                                 *)
THEOREM AccessesAddUp == HSpec => []AccessesCounted
<1>1. HInit => AccessesCounted
  BY DEF HInit, Init, InitStats, cacheSetUp, AccessesCounted
<1> QED BY <1>1, NextAccesses, HCorrect, ControlsCorrect, Bubbles, HCalls, PTL DEF HSpec

LEMMA NextCycles ==
  /\ TypeOK /\ HTypeOK /\ ControlsMatch /\ BubblesHarmless /\ CyclesReported
  /\ [HCall]_<<vars, history>>
  => CyclesReported'
<1> SUFFICES ASSUME TypeOK, HTypeOK, ControlsMatch, BubblesHarmless,
                    PRINT_CACHE_STATS, MEM_LATENCY > 0, CyclesReported,
                    [HCall]_<<vars, history>>
             PROVE  CyclesReported'
  BY DEF CyclesReported
<1>1. CASE cycle_pipeline /\ Record
  <2> DEFINE hit    == cache_en /\ Accesses(exmem)
                         /\ operateStatus(cache, exmem.alu_result) = "CACHE_HIT"
             miss   == cache_en /\ Accesses(exmem)
                         /\ operateStatus(cache, exmem.alu_result) # "CACHE_HIT"
             direct == ~cache_en /\ Accesses(exmem)
  <2>1. /\ stats.hit \in Nat /\ stats.miss \in Nat /\ stats.mem_access \in Nat
        /\ stats.total_cycle \in Int /\ steps \in Nat /\ MEM_LATENCY \in Nat
    BY LatencyAssumption DEF TypeOK, Stats, HTypeOK
  <2>2. steps' = steps + 1
        /\ stats'.total_cycle = stats.total_cycle + mem_latency(exmem) + 1
    BY <1>1 DEF Record, cycle_pipeline, count_cycle
  <2>3. /\ stats'.hit = stats.hit + One(hit)
        /\ stats'.miss = stats.miss + One(miss)
        /\ stats'.mem_access = stats.mem_access + One(direct)
        /\ mem_latency(exmem) = IF hit THEN 1
                                ELSE IF miss THEN MEM_LATENCY + 1
                                ELSE IF direct THEN MEM_LATENCY - 1 ELSE 0
    BY <1>1, <2>1, CountedOnce DEF CACHE_HIT_LATENCY, CACHE_MISS_LATENCY
  <2>4. mem_stalls' = mem_stalls + mem_latency(exmem)
    <3>1. \A n \in Nat : /\ (n + 1) * MEM_LATENCY = n * MEM_LATENCY + MEM_LATENCY
                         /\ (n + 1) * (MEM_LATENCY - 1)
                              = n * (MEM_LATENCY - 1) + (MEM_LATENCY - 1)
                         /\ n * MEM_LATENCY \in Int
                         /\ n * (MEM_LATENCY - 1) \in Int
      BY <2>1
    <3>2. CASE cache_en
      <4>1. /\ mem_stalls = stats.miss * MEM_LATENCY + (stats.hit + stats.miss)
            /\ mem_stalls' = stats'.miss * MEM_LATENCY + (stats'.hit + stats'.miss)
        BY <2>1, <2>3, <3>2 DEF mem_stalls, CACHE_HIT_LATENCY, One
      <4>2. CASE hit
        BY <2>1, <2>3, <3>1, <4>1, <4>2 DEF One
      <4>3. CASE miss
        BY <2>1, <2>3, <3>1, <4>1, <4>3 DEF One
      <4>4. CASE ~hit /\ ~miss
        BY <2>1, <2>3, <3>1, <3>2, <4>1, <4>4 DEF One
      <4> QED BY <4>2, <4>3, <4>4
    <3>3. CASE ~cache_en
      BY <2>1, <2>3, <3>1, <3>3 DEF mem_stalls, One
    <3> QED BY <3>2, <3>3
  <2>5. mem_stalls \in Int /\ mem_latency(exmem) \in Int
    BY <2>1, <2>3 DEF mem_stalls, CACHE_HIT_LATENCY
  <2>6. stats.total_cycle = steps + mem_stalls
    BY DEF CyclesReported
  <2> HIDE DEF hit, miss, direct
  <2>7. stats'.total_cycle = steps' + mem_stalls'
    BY <2>1, <2>2, <2>4, <2>5, <2>6
  <2> QED BY <2>7 DEF CyclesReported
<1>2. CASE UNCHANGED <<stats, history>>
  BY <1>2 DEF CyclesReported, mem_stalls, history
<1> QED BY <1>1, <1>2 DEF HCall, parse_failure, vars, history

(* The cycle count of every program is its number of clock cycles plus the *)
(* memory stalls that are printed beside it.                               *)
THEOREM CyclesAddUp == HSpec => []CyclesReported
<1>1. HInit => CyclesReported
  BY LatencyAssumption DEF HInit, Init, InitStats, CyclesReported, mem_stalls,
     CACHE_HIT_LATENCY
<1> QED BY <1>1, NextCycles, HCorrect, ControlsCorrect, Bubbles, HCalls, PTL DEF HSpec

(***************************************************************************)
(* The end of a program.                                                   *)
(***************************************************************************)
LEMMA PlusPlus ==
  ASSUME NEW a \in Word, NEW m \in {0, 4, 8}
  PROVE  Plus(Plus(a, m), 4) = Plus(a, m + 4)
<1>1. WordMod \in Nat /\ WordMod >= 16
  BY Widths
<1>2. a \in Int /\ 0 <= a /\ a < WordMod
  BY <1>1 DEF Word
<1> QED BY <1>1, <1>2 DEF Plus

LEMMA PlusZero == ASSUME NEW a \in Word PROVE Plus(a, 0) = a
BY Widths DEF Plus, Word

(* Fetch is at most three words ahead of the instruction to take effect.   *)
LEMMA FetchDistance ==
  ASSUME TypeOK, FetchAhead, ProgramOrder, ~ecall_exit
  PROVE  \E k \in 0 .. 3 : fetch_pc(wires) = Plus(absPC, 4 * k)
<1>1. /\ exmem.instr_addr \in Word /\ idex.instr_addr \in Word
      /\ ifid.instr_addr \in Word /\ fetch_pc(wires) \in Word
  BY FetchPcType DEF TypeOK, Exmem, Idex, Ifid
<1>2. ASSUME NEW a \in Word
      PROVE  /\ Plus(Plus(a, 4), 4) = Plus(a, 8)
             /\ Plus(Plus(a, 8), 4) = Plus(a, 12)
  BY PlusPlus
<1>3. CASE valid["exmem"] /\ valid["idex"]
  <2>1. absPC = exmem.instr_addr /\ fetch_pc(wires) = Plus(absPC, 12)
    BY <1>1, <1>2, <1>3 DEF absPC, ProgramOrder, FetchAhead
  <2> QED BY <2>1
<1>4. CASE valid["exmem"] /\ ~valid["idex"]
  <2>1. absPC = exmem.instr_addr /\ fetch_pc(wires) = Plus(absPC, 8)
    BY <1>1, <1>2, <1>4 DEF absPC, ProgramOrder, FetchAhead
  <2> QED BY <2>1
<1>5. CASE ~valid["exmem"] /\ valid["idex"]
  <2>1. absPC = idex.instr_addr /\ fetch_pc(wires) = Plus(absPC, 8)
    BY <1>1, <1>2, <1>5 DEF absPC, ProgramOrder, FetchAhead
  <2> QED BY <2>1
<1>6. CASE ~valid["exmem"] /\ ~valid["idex"] /\ valid["ifid"]
  <2>1. absPC = ifid.instr_addr /\ fetch_pc(wires) = Plus(absPC, 4)
    BY <1>6 DEF absPC, ProgramOrder
  <2> QED BY <2>1
<1>7. CASE ~valid["exmem"] /\ ~valid["idex"] /\ ~valid["ifid"]
  <2>1. absPC = fetch_pc(wires) /\ fetch_pc(wires) = Plus(absPC, 0)
    BY <1>1, <1>7, PlusZero DEF absPC
  <2> QED BY <2>1
<1> QED BY <1>3, <1>4, <1>5, <1>6, <1>7

LEMMA NextEnd ==
  /\ TypeOK /\ FetchAhead /\ ProgramOrder /\ FailsNearEnd
  /\ [HNext]_<<vars, history>>
  => FailsNearEnd'
<1> SUFFICES ASSUME TypeOK, FetchAhead, ProgramOrder, FailsNearEnd,
                    [HNext]_<<vars, history>>, failed'
             PROVE  \E k \in 0 .. 3 : InstrAt(imem', Plus(absPC', 4 * k)).op = "zero"
  BY DEF FailsNearEnd
<1>1. CASE running /\ cycle_pipeline
  BY <1>1 DEF running, cycle_pipeline
<1>2. CASE running /\ parse_failure /\ UNCHANGED history
  <2>1. InstrAt(imem, fetch_pc(wires)).op = "zero"
    BY <1>2 DEF parse_failure, stage_fetch
  <2>2. PICK k \in 0 .. 3 : fetch_pc(wires) = Plus(absPC, 4 * k)
    BY <1>2, FetchDistance DEF running
  <2>3. imem' = imem /\ absPC' = absPC
    BY <1>2 DEF parse_failure, absPC, fetch_pc, pregs, history
  <2> QED BY <2>1, <2>2, <2>3
<1>3. CASE UNCHANGED <<vars, history>>
  <2>1. imem' = imem /\ absPC' = absPC /\ failed
    BY <1>3 DEF vars, absPC, fetch_pc, pregs, history
  <2> QED BY <2>1 DEF FailsNearEnd
<1> QED BY <1>1, <1>2, <1>3 DEF HNext

(* Three words after the last instruction protect every program from the   *)
(* fetch that runs ahead of it.                                            *)
THEOREM FetchStopsNearEnd == ASSUME PRINT_STATS PROVE HSpec => []FailsNearEnd
<1>1. HInit => FailsNearEnd
  BY DEF HInit, Init, FailsNearEnd
<1> QED BY <1>1, NextEnd, HCorrect, AheadCorrect, OrderKept, HCalls, PTL DEF HSpec

(***************************************************************************)
(* The forwarding wires.                                                   *)
(***************************************************************************)
(* Writeback changes the registers that MEM/WB forwards, and no other.     *)
LEMMA WriteBackAt ==
  ASSUME TypeOK, NEW r \in Reg
  PROVE  stage_writeback(memwb)[r]
           = IF Forwards(memwb, r) THEN WriteBackValue(memwb) ELSE R[r]
<1>1. R \in [Reg -> Word] /\ memwb.instr.rd \in Reg
  BY DEF TypeOK, Memwb, Instruction
<1> QED BY <1>1 DEF stage_writeback, Forwards

LEMMA ForwardsLive ==
  /\ TypeOK /\ ControlInv /\ BubblesHarmless /\ LoadUseStalled
  => ForwardsFromProgram
<1> SUFFICES ASSUME TypeOK, WiresCoherent, BubblesHarmless, LoadUseStalled,
                    valid["idex"], NEW r \in Sources(idex.instr)
             PROVE  /\ gen_forward(r, exmem, memwb) = "exmem" =>
                         valid["exmem"] /\ wires.alu_result = WriteBackValue(memwb_inp)
                    /\ gen_forward(r, exmem, memwb) = "memwb" =>
                         valid["memwb"] /\ wires.write_data = absR[r]
  BY DEF ControlInv, ForwardsFromProgram
<1>1. r \in Reg
  BY SourcesOf DEF TypeOK, Idex, Instruction
<1>2. CASE Forwards(exmem, r)
  <2>1. valid["exmem"]
    BY <1>2 DEF BubblesHarmless, Harmless, Forwards
  <2>2. memwb_inp.ctl = exmem.ctl /\ memwb_inp.alu_result = exmem.alu_result
    BY DEF memwb_inp, stage_mem
  <2>3. wires.alu_result = WriteBackValue(memwb_inp)
    BY <1>2, <2>2 DEF LoadUseStalled, WiresCoherent, WriteBackValue, Forwards
  <2> QED BY <1>2, <2>1, <2>3 DEF gen_forward
<1>3. CASE ~Forwards(exmem, r) /\ Forwards(memwb, r)
  <2>1. valid["memwb"]
    BY <1>3 DEF BubblesHarmless, Harmless, Forwards
  <2>2. wires.write_data = absR[r]
    BY <1>1, <1>3, WriteBackAt DEF WiresCoherent, absR
  <2> QED BY <1>3, <2>1, <2>2 DEF gen_forward
<1>4. CASE ~Forwards(exmem, r) /\ ~Forwards(memwb, r)
  BY <1>4 DEF gen_forward
<1> QED BY <1>2, <1>3, <1>4

(* In every program, with and without a flush, what an instruction takes   *)
(* from a forwarding wire is what an instruction of the program in front   *)
(* of it will write to the register.                                       *)
THEOREM ForwardedFromProgram == HSpec => []ForwardsFromProgram
<1> QED BY ForwardsLive, HCorrect, Bubbles, LoadsWaitedFor, PTL

(***************************************************************************)
(* The contract of SafeSpec.                                               *)
(***************************************************************************)
LEMMA SafeRefines == SafeSpec => HSpec
<1>1. SafeInit => HInit
  BY DEF SafeInit
<1>2. [SafeNext]_<<vars, history>> => [HNext]_<<vars, history>>
  BY DEF SafeNext
<1> QED BY <1>1, <1>2, PTL DEF SafeSpec, HSpec

(***************************************************************************)
(* Operands.  What decode read from the register file is still there when  *)
(* the reader is in execute, unless one of the two instructions in front   *)
(* of it forwards the register.                                            *)
(***************************************************************************)
ReadCurrent ==
  valid["idex"] =>
    LET i == idex.instr
    IN /\ idex.rs1 = IF i.op \in {"lui", "jal"} THEN 0 ELSE i.rs1
       /\ idex.rs2 = IF i.op \in {"itype", "load", "lui", "jal"} THEN 0 ELSE i.rs2
       /\ i.rs1 \in Reg /\ i.rs2 \in Reg
       /\ /\ i.op \in {"rtype", "itype", "load", "store", "branch"}
          /\ ~Forwards(exmem, i.rs1) /\ ~Forwards(memwb, i.rs1)
          => idex.read_data1 = R[i.rs1]
       /\ /\ i.op \in {"rtype", "store", "branch"}
          /\ ~Forwards(exmem, i.rs2) /\ ~Forwards(memwb, i.rs2)
          => idex.read_data2 = R[i.rs2]

LEMMA NextRead ==
  TypeOK /\ ReadCurrent /\ [SafeNext]_<<vars, history>> => ReadCurrent'
<1> SUFFICES ASSUME TypeOK, ReadCurrent, [SafeNext]_<<vars, history>>
             PROVE  ReadCurrent'
  OBVIOUS
<1>1. CASE cycle_pipeline /\ Record /\ ~StaleRead
  <2> SUFFICES ASSUME valid'["idex"] PROVE ReadCurrent'
    BY DEF ReadCurrent
  <2>1. ~flushing /\ ~hazard /\ valid["ifid"]
    BY <1>1, CycleValid
  <2>2. idex' = Decoded(ifid, R, gen_control(ifid.instr))
    BY <1>1, <2>1 DEF cycle_pipeline, flush_pipeline, idex_inp, stage_decode
  <2>3. /\ exmem'.instr = idex.instr /\ exmem'.ctl = idex.ctl
        /\ memwb'.instr = exmem.instr /\ memwb'.ctl = exmem.ctl
        /\ R' = stage_writeback(memwb)
    BY <1>1, <2>1 DEF cycle_pipeline, flush_pipeline, exmem_inp, stage_execute,
       memwb_inp, stage_mem
  <2>4. ifid.instr.rs1 \in Reg /\ ifid.instr.rs2 \in Reg
    BY DEF TypeOK, Ifid, Instruction
  <2>5. ASSUME NEW r \in Sources(ifid.instr), r \in Reg,
               ~Forwards(exmem', r), ~Forwards(memwb', r)
        PROVE  R'[r] = R[r]
    <3>1. ~Forwards(idex, r) /\ ~Forwards(exmem, r)
      BY <2>3, <2>5 DEF Forwards
    <3>2. ~Forwards(memwb, r)
      BY <1>1, <2>1, <2>5, <3>1 DEF StaleRead, Forwards
    <3> QED BY <2>3, <2>5, <3>2, WriteBackAt
  <2>6. ifid.instr.op \in {"rtype", "itype", "load", "store", "branch"} =>
          ifid.instr.rs1 \in Sources(ifid.instr)
    BY DEF Sources
  <2>7. ifid.instr.op \in {"rtype", "store", "branch"} =>
          ifid.instr.rs2 \in Sources(ifid.instr)
    BY DEF Sources
  <2> QED BY <2>2, <2>4, <2>5, <2>6, <2>7 DEF ReadCurrent, Decoded
<1>2. CASE UNCHANGED <<pregs, R, history>>
  BY <1>2 DEF ReadCurrent, Forwards, pregs, history
<1> QED BY <1>1, <1>2 DEF SafeNext, HNext, parse_failure, vars, history

LEMMA OperandsFollow ==
  TypeOK /\ ControlInv /\ ReadCurrent => OperandsCurrent
<1> SUFFICES ASSUME TypeOK, WiresCoherent, ReadCurrent, valid["idex"]
             PROVE  OperandsCurrent
  BY DEF ControlInv, OperandsCurrent
<1>1. ASSUME NEW r \in Reg, NEW data,
             ~Forwards(exmem, r) /\ ~Forwards(memwb, r) => data = R[r]
      PROVE  Operand(gen_forward(r, exmem, memwb), data, wires) = AfterMem(r)
  <2>1. CASE Forwards(exmem, r)
    BY <2>1 DEF gen_forward, Operand, AfterMem, WiresCoherent, Forwards
  <2>2. CASE ~Forwards(exmem, r) /\ Forwards(memwb, r)
    BY <2>2, WriteBackAt DEF gen_forward, Operand, AfterMem, absR, WiresCoherent
  <2>3. CASE ~Forwards(exmem, r) /\ ~Forwards(memwb, r)
    BY <1>1, <2>3, WriteBackAt DEF gen_forward, Operand, AfterMem, absR
  <2> QED BY <2>1, <2>2, <2>3
<1>2. idex.instr.rs1 \in Sources(idex.instr) =>
        Operand(forward_a, idex.read_data1, wires) = AfterMem(idex.instr.rs1)
  <2> SUFFICES ASSUME idex.instr.rs1 \in Sources(idex.instr)
               PROVE  Operand(forward_a, idex.read_data1, wires)
                        = AfterMem(idex.instr.rs1)
    OBVIOUS
  <2>1. idex.instr.op \in {"rtype", "itype", "load", "store", "branch"}
    BY DEF Sources
  <2>2. idex.rs1 = idex.instr.rs1
    BY <2>1 DEF ReadCurrent
  <2> QED BY <1>1, <2>1, <2>2 DEF ReadCurrent, forward_a
<1>3. ASSUME idex.instr.op \in {"rtype", "store", "branch"}
      PROVE  Operand(forward_b, idex.read_data2, wires) = AfterMem(idex.instr.rs2)
  <2>1. idex.rs2 = idex.instr.rs2
    BY <1>3 DEF ReadCurrent
  <2> QED BY <1>1, <1>3, <2>1 DEF ReadCurrent, forward_b
<1> QED BY <1>2, <1>3 DEF OperandsCurrent

LEMMA SafeCorrect == SafeSpec => []TypeOK /\ []HTypeOK /\ []ControlInv /\ []ReadCurrent
<1>1. SafeInit => ReadCurrent
  BY DEF SafeInit, HInit, ReadCurrent, Stage
<1> QED BY <1>1, NextRead, HCorrect, SafeRefines, HCalls, PTL DEF SafeSpec

(* Forwarding is complete within the contract: in every program that never *)
(* reads a register three slots behind its writer, the instruction in      *)
(* execute computes with the registers of the program order.               *)
THEOREM OperandsRight == SafeSpec => []OperandsCurrent
<1> QED BY SafeCorrect, OperandsFollow, PTL

(***************************************************************************)
(* Cycle accounting.  A gap between two valid instructions is the bubble   *)
(* of a stall, which follows a load: no branch has one behind it.          *)
(***************************************************************************)
GapAfterLoad == valid["exmem"] /\ ~valid["idex"] => exmem.ctl.mem_read

LEMMA NextGap ==
  FetchAhead /\ GapAfterLoad /\ [HCall]_<<vars, history>> => GapAfterLoad'
<1> SUFFICES ASSUME FetchAhead, GapAfterLoad, [HCall]_<<vars, history>>
             PROVE  GapAfterLoad'
  OBVIOUS
<1>1. CASE cycle_pipeline /\ Record
  <2> SUFFICES ASSUME valid'["exmem"], ~valid'["idex"] PROVE exmem'.ctl.mem_read
    BY DEF GapAfterLoad
  <2>1. ~flushing /\ hazard
    BY <1>1, CycleValid DEF FetchAhead
  <2>2. exmem'.ctl = idex.ctl
    BY <1>1, <2>1 DEF cycle_pipeline, flush_pipeline, exmem_inp, stage_execute
  <2> QED BY <2>1, <2>2 DEF hazard, detect_hazard
<1>2. CASE UNCHANGED <<pregs, history>>
  BY <1>2 DEF GapAfterLoad, pregs, history
<1> QED BY <1>1, <1>2 DEF HCall, parse_failure, vars, history

(* A cycle adds one to what the counters explain, and one more if its      *)
(* stall is squashed.                                                      *)
LEMMA CycleExplained ==
  ASSUME PRINT_STATS, TypeOK, HTypeOK, BubblesHarmless, ControlsMatch, FetchAhead,
         GapAfterLoad, cycle_pipeline, Record
  PROVE  /\ steps' = steps + 1
         /\ Explained' = Explained + 1 + One(ShadowStall)
         /\ Explained \in Int
<1>0. /\ steps \in Nat /\ retired \in Nat
      /\ stats.stall \in Nat /\ stats.branch \in Nat
      /\ \A s \in {"ifid", "idex", "exmem"} : valid[s] \in BOOLEAN
  BY DEF TypeOK, HTypeOK, Stats, Stage
<1>1. /\ steps' = steps + 1
      /\ retired' = retired + One(valid["exmem"])
      /\ stats'.stall = stats.stall + One(hazard)
      /\ stats'.branch = stats.branch + One(flushing)
  BY DEF Record, cycle_pipeline, count_cycle
<1>2. CASE flushing
  <2>1. valid["exmem"] /\ valid["idex"] /\ valid["ifid"]
    BY <1>2 DEF flushing, pcsrc, gen_branch, BubblesHarmless, Harmless,
       GapAfterLoad, ControlsMatch, LinesOf, FetchAhead
  <2>2. ~valid'["exmem"] /\ ~valid'["idex"] /\ ~valid'["ifid"]
    BY <1>2, CycleValid
  <2>3. One(flushing) = 1 /\ One(hazard) = One(ShadowStall) /\ One(hazard) \in Int
    BY <1>2 DEF ShadowStall, flushing, One
  <2>4. Explained = retired + 3 + stats.stall + 3 * stats.branch
    BY <1>0, <2>1 DEF Explained, One
  <2>5. Explained' = retired' + 3 + stats'.stall + 3 * stats'.branch - 3
    BY <1>0, <1>1, <2>2, <2>3 DEF Explained, One
  <2>6. /\ retired' = retired + 1
        /\ stats'.stall = stats.stall + One(ShadowStall)
        /\ stats'.branch = stats.branch + 1
    BY <1>1, <2>1, <2>3 DEF One
  <2>7. One(ShadowStall) \in Int
    BY DEF One
  <2>8. Explained' = (retired + 1) + 3 + (stats.stall + One(ShadowStall))
                       + 3 * (stats.branch + 1) - 3
    BY <2>5, <2>6
  <2>9. ASSUME NEW r \in Nat, NEW s \in Nat, NEW b \in Nat, NEW o \in Int
        PROVE  (r + 1) + 3 + (s + o) + 3 * (b + 1) - 3 = (r + 3 + s + 3 * b) + 1 + o
    OBVIOUS
  <2>10. Explained' = Explained + 1 + One(ShadowStall)
    BY <1>0, <2>4, <2>7, <2>8, <2>9
  <2> QED BY <1>0, <1>1, <2>4, <2>10
<1>3. CASE ~flushing /\ hazard
  <2>1. /\ valid'["exmem"] = valid["idex"] /\ ~valid'["idex"]
        /\ valid'["ifid"] = valid["ifid"]
    BY <1>0, <1>3, CycleValid
  <2>2. One(flushing) = 0 /\ One(hazard) = 1 /\ One(ShadowStall) = 0
    BY <1>3 DEF ShadowStall, flushing, One
  <2> QED BY <1>0, <1>1, <2>1, <2>2 DEF Explained, One
<1>4. CASE ~flushing /\ ~hazard
  <2>1. /\ valid'["exmem"] = valid["idex"] /\ valid'["idex"] = valid["ifid"]
        /\ valid'["ifid"]
    BY <1>0, <1>4, CycleValid
  <2>2. ~ShadowStall
    BY <1>4 DEF ShadowStall
  <2> QED BY <1>0, <1>1, <1>4, <2>1, <2>2 DEF Explained, One
<1> QED BY <1>2, <1>3, <1>4

LEMMA GapsCorrect == HSpec => []GapAfterLoad
<1>1. HInit => GapAfterLoad
  BY DEF HInit, GapAfterLoad, Stage
<1> QED BY <1>1, NextGap, AheadCorrect, HCalls, PTL DEF HSpec

LEMMA CountsStep ==
  ASSUME PRINT_STATS, TypeOK, HTypeOK, BubblesHarmless, ControlsMatch, FetchAhead,
         GapAfterLoad, [HCall]_<<vars, history>>
  PROVE  Explained' - Explained = (steps' - steps) + One(ShadowStall /\ steps' # steps)
<1>1. steps \in Nat
  BY DEF HTypeOK
<1>2. CASE cycle_pipeline /\ Record
  <2>1. steps' # steps
    BY <1>1, <1>2, CycleExplained
  <2>2. One(ShadowStall /\ steps' # steps) = One(ShadowStall)
    BY <2>1 DEF One
  <2>3. One(ShadowStall) \in Int
    BY DEF One
  <2> QED BY <1>1, <1>2, <2>2, <2>3, CycleExplained
<1>3. CASE UNCHANGED <<stats, history>>
  <2>1. Explained \in Int
    BY DEF Explained, TypeOK, HTypeOK, Stats, One
  <2>2. Explained' = Explained /\ steps' = steps
    BY <1>3 DEF Explained, history
  <2> QED BY <1>1, <2>1, <2>2 DEF One
<1> QED BY <1>2, <1>3 DEF HCall, parse_failure, vars, history

(* Without the contract: in every program, the stalls squashed by a taken  *)
(* branch are all that the printed counters have in excess of the cycles.  *)
THEOREM ExcessExplained == ASSUME PRINT_STATS PROVE HSpec => SquashedStallsCounted
<1>1. /\ TypeOK /\ HTypeOK /\ BubblesHarmless /\ ControlsMatch /\ FetchAhead
      /\ GapAfterLoad /\ [HCall]_<<vars, history>>
      => [Explained' - Explained = (steps' - steps)
                                     + One(ShadowStall /\ steps' # steps)]_<<vars, history>>
  BY CountsStep
<1> QED BY <1>1, HCorrect, Bubbles, ControlsCorrect, AheadCorrect, GapsCorrect, HCalls, PTL
        DEF HSpec, SquashedStallsCounted

LEMMA NextAccounting ==
  ASSUME PRINT_STATS
  PROVE  /\ TypeOK /\ HTypeOK /\ BubblesHarmless /\ ControlsMatch /\ FetchAhead
         /\ GapAfterLoad /\ CycleAccounting /\ [SafeNext]_<<vars, history>>
         => CycleAccounting'
<1> SUFFICES ASSUME TypeOK, HTypeOK, BubblesHarmless, ControlsMatch, FetchAhead,
                    GapAfterLoad, CycleAccounting, [SafeNext]_<<vars, history>>
             PROVE  CycleAccounting'
  OBVIOUS
<1>1. CASE cycle_pipeline /\ Record /\ ~ShadowStall
  BY <1>1, CycleExplained DEF CycleAccounting, One
<1>2. CASE UNCHANGED <<stats, history>>
  BY <1>2 DEF CycleAccounting, Explained, history
<1> QED BY <1>1, <1>2 DEF SafeNext, HNext, parse_failure, vars, history

(* The counters that main() prints explain every cycle of every program    *)
(* that has no stall in the shadow of a taken branch.                      *)
THEOREM CyclesExplained == ASSUME PRINT_STATS PROVE SafeSpec => []CycleAccounting
<1>1. SafeInit => CycleAccounting
  BY DEF SafeInit, HInit, Init, InitStats, CycleAccounting, Explained, One, Stage
<1> QED BY <1>1, NextAccounting, SafeRefines, HCorrect, Bubbles, ControlsCorrect,
          AheadCorrect, GapsCorrect, PTL DEF SafeSpec

(***************************************************************************)
(* The hypothesis on the ALU: on the operations that both have, it agrees  *)
(* with the arithmetic of the emulator's handlers.  AluProofs proves that  *)
(* execute_alu satisfies it.                                               *)
(***************************************************************************)
AluImplementsHandlers == AluImplements(ALU, ARITH)

(***************************************************************************)
(* The emulator's copy of the operators on words and memory.               *)
(***************************************************************************)
LEMMA SameWords ==
  /\ \A a, b : Emu!Plus(a, b) = Plus(a, b)
  /\ \A program, a : Emu!InstrAt(program, a) = InstrAt(program, a)
BY DEF Emu!Plus, Plus, Emu!WordMod, WordMod, Emu!HalfMod, HalfMod,
       Emu!InstrAt, InstrAt, Emu!ZERO, ZERO

LEMMA SameMemory ==
  /\ \A m, a, fn : Emu!LoadValue(m, a, fn) = LoadValue(m, a, fn)
  /\ \A m, a, fn, v : Emu!StoreValue(m, a, fn, v) = StoreValue(m, a, fn, v)
<1>1. /\ Emu!HalfMod = HalfMod /\ Emu!WordMod = WordMod /\ Emu!Cell = Cell
      /\ \A a, i : Emu!At(a, i) = At(a, i)
  BY DEF Emu!HalfMod, HalfMod, Emu!WordMod, WordMod, Emu!Cell, Cell, Emu!At, At
<1>2. \A m, a, n : Emu!load(m, a, n) = load(m, a, n)
  BY <1>1 DEF Emu!load, load
<1>3. \A m, a, n, v : Emu!store(m, a, n, v) = store(m, a, n, v)
  BY DEF Emu!store, store, Emu!HalfMod, HalfMod, Emu!Cell, Cell, Emu!At, At
<1>4. \A f, m : Emu!sign_extend_number(f, m) = sign_extend_number(f, m)
  BY <1>1 DEF Emu!sign_extend_number, sign_extend_number
<1>5. \A m, a, fn : Emu!LoadValue(m, a, fn) = LoadValue(m, a, fn)
  BY <1>1, <1>2, <1>4 DEF Emu!LoadValue, LoadValue
<1>6. \A m, a, fn, v : Emu!StoreValue(m, a, fn, v) = StoreValue(m, a, fn, v)
  BY <1>3 DEF Emu!StoreValue, StoreValue
<1> QED BY <1>5, <1>6

LEMMA SameInit == Emu!InitRegs = InitRegs /\ Emu!InitMemory = InitMemory
BY DEF Emu!InitRegs, InitRegs, Emu!InitMemory, InitMemory, Emu!Reg, Reg,
       Emu!Cell, Cell

(***************************************************************************)
(* The valid slots hold instructions of the program.                       *)
(***************************************************************************)
Fetched(s, reg) ==
  valid[s] => /\ reg.instr = InstrAt(imem, reg.instr_addr)
              /\ reg.instr.op # "zero"

InFlight == /\ Fetched("ifid", ifid) /\ Fetched("idex", idex)
            /\ Fetched("exmem", exmem)

LEMMA NextInFlight == InFlight /\ [HCall]_<<vars, history>> => InFlight'
<1> SUFFICES ASSUME InFlight, [HCall]_<<vars, history>> PROVE InFlight'
  OBVIOUS
<1>1. CASE cycle_pipeline /\ Record
  <2> USE <1>1 DEF cycle_pipeline
  <2>1. CASE flushing
    BY <2>1, CycleValid DEF InFlight, Fetched
  <2>2. CASE ~flushing
    <3>1. /\ ifid' = IF hazard THEN ifid ELSE stage_fetch(wires)
          /\ idex'.instr = ifid.instr /\ idex'.instr_addr = ifid.instr_addr
          /\ exmem'.instr = idex.instr /\ exmem'.instr_addr = idex.instr_addr
      BY <2>2 DEF flush_pipeline, ifid_inp, idex_inp, stage_decode, Decoded,
         exmem_inp, stage_execute
    <3>2. Fetched("ifid", ifid)'
      <4>1. CASE hazard
        BY <2>2, <3>1, <4>1, CycleValid DEF InFlight, Fetched
      <4>2. CASE ~hazard
        <5>1. ifid'.instr = InstrAt(imem, ifid'.instr_addr)
              /\ ifid'.instr.op # "zero" /\ imem' = imem
          BY <3>1, <4>2 DEF stage_fetch
        <5> QED BY <5>1 DEF Fetched
      <4> QED BY <4>1, <4>2
    <3>3. Fetched("idex", idex)'
      BY <2>2, <3>1, CycleValid DEF InFlight, Fetched
    <3>4. Fetched("exmem", exmem)'
      BY <2>2, <3>1, CycleValid DEF InFlight, Fetched
    <3> QED BY <3>2, <3>3, <3>4 DEF InFlight
  <2> QED BY <2>1, <2>2
<1>2. CASE UNCHANGED <<pregs, imem, history>>
  BY <1>2 DEF InFlight, Fetched, pregs, history
<1> QED BY <1>1, <1>2 DEF HCall, parse_failure, vars, history

(***************************************************************************)
(* The bubble of a stall keeps the bits of its instruction, and an ecall   *)
(* is looked for in the bits: such a bubble is followed by the ecall.      *)
(***************************************************************************)
Announces(s, bubble, t, reg) ==
  ~valid[s] /\ bubble.instr.op = "ecall" =>
    /\ valid[t]
    /\ reg.instr = bubble.instr /\ reg.instr_addr = bubble.instr_addr

BubbleEcall ==
  /\ ~valid["idex"] /\ idex.instr.op = "ecall" => wires.pc_write
  /\ Announces("idex", idex, "ifid", ifid)
  /\ Announces("exmem", exmem, "idex", idex)

LEMMA NextEcall ==
  /\ BubblesHarmless /\ ControlInv /\ BubbleEcall /\ [HCall]_<<vars, history>>
  => BubbleEcall'
<1> SUFFICES ASSUME BubblesHarmless, ControlInv, BubbleEcall,
                    [HCall]_<<vars, history>>
             PROVE  BubbleEcall'
  OBVIOUS
<1>1. CASE cycle_pipeline /\ Record
  <2> USE <1>1 DEF cycle_pipeline
  <2>1. CASE flushing
    <3>1. idex'.instr = NOP /\ exmem'.instr = NOP
      BY <2>1 DEF flush_pipeline, Flushed, ZeroIdex, ZeroExmem
    <3> QED BY <3>1 DEF BubbleEcall, Announces, NOP
  <2>2. CASE ~flushing
    <3>1. /\ hazard => ifid' = ifid
          /\ idex'.instr = ifid.instr /\ idex'.instr_addr = ifid.instr_addr
          /\ exmem'.instr = idex.instr /\ exmem'.instr_addr = idex.instr_addr
          /\ wires'.pc_write = hazard
      BY <2>2 DEF flush_pipeline, ifid_inp, idex_inp, stage_decode, Decoded,
         exmem_inp, stage_execute, next_wires, WiresWith
    <3>2. ~valid'["idex"] /\ idex'.instr.op = "ecall" => hazard /\ valid["ifid"]
      <4>1. ~valid["ifid"] => ifid.instr.op # "ecall"
        BY DEF BubblesHarmless, ZERO, NOP
      <4> QED BY <2>2, <3>1, <4>1, CycleValid
    <3>3. Announces("idex", idex, "ifid", ifid)'
      BY <2>2, <3>1, <3>2, CycleValid DEF Announces
    <3>4. Announces("exmem", exmem, "idex", idex)'
      <4> SUFFICES ASSUME ~valid'["exmem"], idex.instr.op = "ecall"
                   PROVE  valid'["idex"] /\ idex'.instr = idex.instr
                            /\ idex'.instr_addr = idex.instr_addr
        BY <3>1 DEF Announces
      <4>1. ~valid["idex"]
        BY <2>2, CycleValid
      <4>2. ~hazard
        BY <4>1 DEF BubbleEcall, ControlInv, StallMadeBubble, hazard, detect_hazard
      <4> QED BY <2>2, <3>1, <4>1, <4>2, CycleValid DEF BubbleEcall, Announces
    <3> QED BY <3>1, <3>2, <3>3, <3>4 DEF BubbleEcall
  <2> QED BY <2>1, <2>2
<1>2. CASE UNCHANGED <<pregs, wires, history>>
  BY <1>2 DEF BubbleEcall, Announces, pregs, history
<1> QED BY <1>1, <1>2 DEF HCall, parse_failure, vars, history

(***************************************************************************)
(* Register x0.                                                            *)
(***************************************************************************)
ZeroRegister == R[0] = 0

LEMMA NextZero == TypeOK /\ ZeroRegister /\ [HCall]_<<vars, history>> => ZeroRegister'
<1> SUFFICES ASSUME TypeOK, ZeroRegister, [HCall]_<<vars, history>>
             PROVE  ZeroRegister'
  OBVIOUS
<1>0. 0 \in Reg
  BY NumRegsAssumption DEF Reg
<1>1. CASE cycle_pipeline
  BY <1>0, <1>1, WriteBackAt DEF cycle_pipeline, ZeroRegister, Forwards
<1>2. CASE UNCHANGED R
  BY <1>2 DEF ZeroRegister
<1> QED BY <1>1, <1>2 DEF HCall, parse_failure, vars

(***************************************************************************)
(* The operand of lui.                                                     *)
(***************************************************************************)
LuiReadsZero == valid["idex"] /\ idex.instr.op = "lui" => idex.read_data1 = 0

LEMMA NextLui == LuiReadsZero /\ [HCall]_<<vars, history>> => LuiReadsZero'
<1> SUFFICES ASSUME LuiReadsZero, [HCall]_<<vars, history>> PROVE LuiReadsZero'
  OBVIOUS
<1>1. CASE cycle_pipeline /\ Record
  <2> SUFFICES ASSUME valid'["idex"] PROVE LuiReadsZero'
    BY DEF LuiReadsZero
  <2>1. idex' = Decoded(ifid, R, gen_control(ifid.instr))
    BY <1>1, CycleValid DEF cycle_pipeline, flush_pipeline, idex_inp, stage_decode
  <2> QED BY <2>1 DEF LuiReadsZero, Decoded
<1>2. CASE UNCHANGED <<pregs, history>>
  BY <1>2 DEF LuiReadsZero, pregs, history
<1> QED BY <1>1, <1>2 DEF HCall, parse_failure, vars, history

(***************************************************************************)
(* The result that waits in EX/MEM is that of the registers the emulator   *)
(* has when it executes the instruction.                                   *)
(***************************************************************************)
ResultCurrent ==
  valid["exmem"] =>
    LET i == exmem.instr
        c == gen_alu_control(exmem.ctl.alu_op, i.fn)
    IN /\ exmem.branch_addr = Plus(exmem.instr_addr, i.imm)
       /\ i.op \in {"rtype", "branch"} =>
            exmem.alu_result = ALU(absR[i.rs1], absR[i.rs2], c)
       /\ i.op \in {"itype", "load", "store"} =>
            exmem.alu_result = ALU(absR[i.rs1], i.imm, c)
       /\ i.op = "lui" => exmem.alu_result = ALU(0, i.imm, c)
       /\ i.op = "store" => exmem.write_data = absR[i.rs2]

(* What execute takes for a source register is what the emulator has in it *)
(* after the instruction in mem.                                           *)
LEMMA AfterMemIsNext ==
  ASSUME TypeOK, TypeOK', LoadUseStalled, valid["idex"], cycle_pipeline,
         NEW r \in Sources(idex.instr), r \in Reg
  PROVE  AfterMem(r) = absR'[r]
<1>1. /\ memwb'.instr = exmem.instr /\ memwb'.ctl = exmem.ctl
      /\ memwb'.alu_result = exmem.alu_result
      /\ R' = absR
  BY DEF cycle_pipeline, memwb_inp, stage_mem, absR
<1>2. absR'[r] = IF Forwards(memwb', r) THEN WriteBackValue(memwb') ELSE R'[r]
  <2>1. R' \in [Reg -> Word] /\ memwb'.instr.rd \in Reg
    BY DEF TypeOK, Memwb, Instruction
  <2> QED BY <2>1 DEF absR, stage_writeback, Forwards
<1>3. CASE Forwards(exmem, r)
  <2>1. ~exmem.ctl.mem_to_reg
    BY <1>3 DEF LoadUseStalled
  <2> QED BY <1>1, <1>2, <1>3, <2>1 DEF AfterMem, Forwards, WriteBackValue
<1>4. CASE ~Forwards(exmem, r)
  BY <1>1, <1>2, <1>4 DEF AfterMem, Forwards
<1> QED BY <1>3, <1>4

LEMMA NextResult ==
  /\ TypeOK /\ TypeOK' /\ ControlsMatch /\ LoadUseStalled /\ ReadCurrent
  /\ LuiReadsZero /\ OperandsCurrent /\ ResultCurrent
  /\ [HCall]_<<vars, history>>
  => ResultCurrent'
<1> SUFFICES ASSUME TypeOK, TypeOK', ControlsMatch, LoadUseStalled, ReadCurrent,
                    LuiReadsZero, OperandsCurrent, ResultCurrent,
                    [HCall]_<<vars, history>>
             PROVE  ResultCurrent'
  OBVIOUS
<1>1. CASE cycle_pipeline /\ Record
  <2> SUFFICES ASSUME valid'["exmem"] PROVE ResultCurrent'
    BY DEF ResultCurrent
  <2> DEFINE i == idex.instr
             a == Operand(forward_a, idex.read_data1, wires)
             b == Operand(forward_b, idex.read_data2, wires)
             c == gen_alu_control(idex.ctl.alu_op, i.fn)
  <2>1. valid["idex"] /\ ~flushing
    BY <1>1, CycleValid
  <2>2. exmem' = stage_execute(idex, forward_a, forward_b, wires)
    BY <1>1, <2>1 DEF cycle_pipeline, flush_pipeline, exmem_inp
  <2>3. /\ exmem'.instr = i /\ exmem'.instr_addr = idex.instr_addr
        /\ exmem'.ctl = idex.ctl
        /\ exmem'.branch_addr = Plus(idex.instr_addr, i.imm)
        /\ exmem'.alu_result = ALU(a, IF idex.ctl.alu_src THEN i.imm ELSE b, c)
        /\ exmem'.write_data = b
    BY <2>2 DEF stage_execute
  <2>4. idex.ctl = gen_control(i)
    BY <2>1 DEF ControlsMatch, LinesOf
  <2>5. /\ i.op \in {"itype", "load", "store", "lui"} => idex.ctl.alu_src
        /\ i.op \in {"rtype", "branch"} => ~idex.ctl.alu_src
    BY <2>4 DEF gen_control, NoControl
  <2>6. i.op \in {"rtype", "itype", "load", "store", "branch"} => a = absR'[i.rs1]
    <3> SUFFICES ASSUME i.op \in {"rtype", "itype", "load", "store", "branch"}
                 PROVE  a = absR'[i.rs1]
      OBVIOUS
    <3>1. i.rs1 \in Sources(i) /\ i.rs1 \in Reg
      BY <2>1 DEF Sources, ReadCurrent
    <3>2. a = AfterMem(i.rs1)
      BY <2>1, <3>1 DEF OperandsCurrent
    <3> QED BY <1>1, <2>1, <3>1, <3>2, AfterMemIsNext
  <2>7. i.op \in {"rtype", "store", "branch"} => b = absR'[i.rs2]
    <3> SUFFICES ASSUME i.op \in {"rtype", "store", "branch"}
                 PROVE  b = absR'[i.rs2]
      OBVIOUS
    <3>1. i.rs2 \in Sources(i) /\ i.rs2 \in Reg
      BY <2>1 DEF Sources, ReadCurrent
    <3>2. b = AfterMem(i.rs2)
      BY <2>1 DEF OperandsCurrent
    <3> QED BY <1>1, <2>1, <3>1, <3>2, AfterMemIsNext
  <2>8. i.op = "lui" => a = 0
    BY <2>1 DEF ReadCurrent, LuiReadsZero, forward_a, gen_forward, Forwards, Operand
  <2> HIDE DEF a, b, c, i
  <2> QED BY <2>3, <2>5, <2>6, <2>7, <2>8 DEF ResultCurrent, c, i
<1>2. CASE UNCHANGED <<pregs, R, history>>
  BY <1>2 DEF ResultCurrent, absR, stage_writeback, WriteBackValue, pregs, history
<1> QED BY <1>1, <1>2 DEF HCall, parse_failure, vars, history

(***************************************************************************)
(* The inductive invariant of the simulation.  Its part Datapath holds     *)
(* with and without the flush of taken branches.                           *)
(***************************************************************************)
Datapath ==
  /\ TypeOK /\ ControlInv /\ BubblesHarmless /\ ControlsMatch
  /\ FetchAhead /\ GapAfterLoad
  /\ InFlight /\ BubbleEcall /\ ZeroRegister /\ ResultCurrent
  /\ SupportedProgram

Simulation == Datapath /\ ProgramOrder

(***************************************************************************)
(* One cycle, in terms of the abstraction.                                 *)
(***************************************************************************)

(* The registers the emulator has after a cycle.                           *)
LEMMA RegistersAfter ==
  ASSUME Datapath, cycle_pipeline
  PROVE  LET v == IF exmem.ctl.mem_to_reg
                  THEN LoadValue(memory, exmem.alu_result, exmem.instr.fn)
                  ELSE exmem.alu_result
         IN absR' = IF exmem.ctl.reg_write
                    THEN [absR EXCEPT ![exmem.instr.rd] = v, ![0] = 0]
                    ELSE absR
<1> DEFINE v == IF exmem.ctl.mem_to_reg
                THEN LoadValue(memory, exmem.alu_result, exmem.instr.fn)
                ELSE exmem.alu_result
           rd == exmem.instr.rd
<1>1. R' = absR
  BY DEF cycle_pipeline, absR
<1>2. /\ memwb'.ctl = exmem.ctl /\ memwb'.instr = exmem.instr
      /\ WriteBackValue(memwb') = v
  BY DEF cycle_pipeline, memwb_inp, stage_mem, WriteBackValue, Datapath,
     ControlsMatch, LinesOf
<1>3. absR' = IF exmem.ctl.reg_write /\ rd # 0 THEN [absR EXCEPT ![rd] = v] ELSE absR
  BY <1>1, <1>2 DEF absR, stage_writeback
<1>4. absR \in [Reg -> Word] /\ 0 \in Reg /\ rd \in Reg
  BY WriteBackType, NumRegsAssumption
     DEF Datapath, TypeOK, absR, stage_writeback, Memwb, Exmem, Instruction, Reg
<1>5. absR[0] = 0
  BY <1>4, WriteBackAt DEF Datapath, ZeroRegister, absR, Forwards
<1> HIDE DEF v, rd
<1>6. rd # 0 => [absR EXCEPT ![rd] = v] = [absR EXCEPT ![rd] = v, ![0] = 0]
  BY <1>4, <1>5
<1>7. rd = 0 => absR = [absR EXCEPT ![rd] = v, ![0] = 0]
  BY <1>4, <1>5
<1>8. absR' = IF exmem.ctl.reg_write THEN [absR EXCEPT ![rd] = v, ![0] = 0] ELSE absR
  BY <1>3, <1>6, <1>7
<1> QED BY <1>8 DEF v, rd

(* The program counter the emulator has after a cycle that does not exit.  *)
LEMMA PCAfter ==
  ASSUME PRINT_STATS, Simulation, ~ecall_exit, ~ecall_exit', ~ShadowStall,
         cycle_pipeline, Record
  PROVE  absPC' = IF ~valid["exmem"] THEN absPC
                  ELSE IF pcsrc THEN exmem.branch_addr
                  ELSE Plus(exmem.instr_addr, 4)
<1> USE DEF Simulation, Datapath
<1>1. CASE flushing
  <2>1. valid["exmem"] /\ pcsrc /\ ~hazard
    BY <1>1 DEF flushing, pcsrc, gen_branch, BubblesHarmless, Harmless, ShadowStall
  <2>2. absPC' = fetch_pc(wires')
    BY <1>1, CycleValid DEF absPC
  <2>3. wires'.pcsrc /\ ~wires'.pc_write /\ wires'.pc_src1 = exmem.branch_addr
    BY <2>1 DEF cycle_pipeline, next_wires, WiresWith
  <2> QED BY <2>1, <2>2, <2>3 DEF fetch_pc
<1>2. CASE ~flushing
  <2>0. ~pcsrc
    BY <1>2 DEF flushing
  <2>1. /\ exmem'.instr_addr = idex.instr_addr
        /\ idex'.instr_addr = ifid.instr_addr
        /\ ~hazard => ifid'.instr_addr = fetch_pc(wires)
    BY <1>2 DEF cycle_pipeline, flush_pipeline, exmem_inp, stage_execute, idex_inp,
       stage_decode, Decoded, ifid_inp, stage_fetch
  <2>2. CASE valid["idex"]
    <3>1. absPC' = idex.instr_addr
      BY <1>2, <2>1, <2>2, CycleValid DEF absPC
    <3> QED BY <2>0, <2>2, <3>1 DEF absPC, ProgramOrder
  <2>3. CASE ~valid["idex"]
    <3>1. ~hazard
      BY <2>3 DEF BubblesHarmless, Harmless, hazard, detect_hazard
    <3>2. CASE valid["ifid"]
      <4>1. absPC' = ifid.instr_addr
        BY <1>2, <2>1, <2>3, <3>1, <3>2, CycleValid DEF absPC
      <4> QED BY <2>0, <2>3, <3>2, <4>1 DEF absPC, ProgramOrder
    <3>3. CASE ~valid["ifid"]
      <4>1. absPC' = fetch_pc(wires) /\ ~valid["exmem"]
        BY <1>2, <2>1, <2>3, <3>1, <3>3, CycleValid DEF absPC, FetchAhead
      <4> QED BY <2>3, <3>3, <4>1 DEF absPC
    <3> QED BY <3>2, <3>3
  <2> QED BY <2>2, <2>3
<1> QED BY <1>1, <1>2

(* The instruction in mem is the one the emulator executes.                *)
LEMMA ExecutesNext ==
  ASSUME Datapath, ~ecall_exit, valid["exmem"]
  PROVE  /\ absPC = exmem.instr_addr
         /\ InstrAt(imem, absPC) = exmem.instr
         /\ exmem.instr \in Instruction
         /\ exmem.instr.op # "zero"
         /\ Supported(exmem.instr)
         /\ exmem.ctl = gen_control(exmem.instr)
<1>1. absPC = exmem.instr_addr
  BY DEF absPC
<1>2. InstrAt(imem, absPC) = exmem.instr /\ exmem.instr.op # "zero"
  BY <1>1 DEF Datapath, InFlight, Fetched
<1>3. exmem.instr = imem[absPC] /\ absPC \in DOMAIN imem
  BY <1>2 DEF InstrAt, ZERO
<1> QED BY <1>1, <1>2, <1>3 DEF Datapath, SupportedProgram, ControlsMatch, LinesOf,
        TypeOK, Exmem

(* A bubble that leaves mem has no effect.                                 *)
LEMMA BubbleEffect ==
  ASSUME Datapath, cycle_pipeline, ~valid["exmem"]
  PROVE  absR' = absR /\ memory' = memory /\ imem' = imem
<1>1. ~exmem.ctl.mem_write /\ (exmem.ctl.reg_write => exmem.instr.rd = 0)
  BY DEF Datapath, BubblesHarmless, Harmless
<1>2. memory' = memory /\ imem' = imem /\ R' = absR
  BY <1>1 DEF cycle_pipeline, mem_store, absR
<1>3. memwb'.ctl = exmem.ctl /\ memwb'.instr = exmem.instr
  BY DEF cycle_pipeline, memwb_inp, stage_mem
<1> QED BY <1>1, <1>2, <1>3 DEF absR, stage_writeback

(* A cycle in which a bubble leaves mem is not seen by the emulator, unless *)
(* the bubble is that of the exit ecall.                                   *)
LEMMA BubbleStep ==
  ASSUME PRINT_STATS, Simulation, ~ecall_exit, ~ShadowStall, cycle_pipeline, Record,
         ~valid["exmem"]
  PROVE  Emu!Next \/ UNCHANGED Emu!vars
<1>0. Datapath
  BY DEF Simulation
<1>1. absR' = absR /\ memory' = memory /\ imem' = imem
  BY <1>0, BubbleEffect
<1>2. CASE ~ecall_exit'
  <2>1. absPC' = absPC
    BY <1>2, PCAfter
  <2> QED BY <1>1, <1>2, <2>1 DEF Emu!vars
<1>3. CASE ecall_exit'
  <2>1. exmem.instr.op = "ecall" /\ absR[A0] = EXIT_CALL
    BY <1>3 DEF cycle_pipeline, ecall_check, absR
  <2>2. /\ valid["idex"] /\ idex.instr = exmem.instr
        /\ idex.instr_addr = exmem.instr_addr
    BY <1>0, <2>1 DEF Datapath, BubbleEcall, Announces
  <2>3. absPC = idex.instr_addr /\ absPC' = exmem.instr_addr
    BY <1>3, <2>2 DEF absPC, cycle_pipeline, memwb_inp, stage_mem
  <2>4. InstrAt(imem, absPC) = exmem.instr
    BY <1>0, <2>2, <2>3 DEF Datapath, InFlight, Fetched
  <2>5. Emu!execute_ecall(exmem.instr)
    BY <1>1, <1>3, <2>1, <2>2, <2>3, SameWords DEF Emu!execute_ecall, Emu!Stop
  <2> QED BY <1>1, <2>4, <2>5, SameWords
       DEF Emu!Next, Emu!execute_emu, Emu!execute_instruction
<1> QED BY <1>2, <1>3

(***************************************************************************)
(* The effect of the instruction that leaves mem, with the registers and   *)
(* the memory of the emulator: what the handler of its format does.        *)
(***************************************************************************)
Puts(value) == absR' = Emu!Written(exmem.instr.rd, value) /\ memory' = memory

LEMMA Effects ==
  ASSUME AluImplementsHandlers, Datapath, cycle_pipeline, ~ecall_exit, valid["exmem"]
  PROVE  LET i == exmem.instr
         IN /\ i.op = "rtype" =>
                 /\ i.fn \notin {"div", "rem", "other"}
                 /\ Puts(ARITH("rtype", i.fn, absR[i.rs1], absR[i.rs2]))
            /\ i.op = "itype" =>
                 i.fn # "other" /\ Puts(ARITH("itype", i.fn, absR[i.rs1], i.imm))
            /\ i.op = "load" =>
                 /\ i.fn # "other"
                 /\ Puts(LoadValue(memory, Plus(absR[i.rs1], i.imm), i.fn))
            /\ i.op = "store" =>
                 /\ i.fn # "other" /\ absR' = absR
                 /\ memory' = StoreValue(memory, Plus(absR[i.rs1], i.imm), i.fn,
                                         absR[i.rs2])
            /\ i.op = "branch" =>
                 /\ i.fn # "other" /\ absR' = absR /\ memory' = memory
                 /\ pcsrc <=> Emu!BranchTaken(i)
            /\ i.op = "lui" => Puts(ARITH("lui", i.fn, 0, i.imm))
            /\ i.op = "jal" => pcsrc /\ Puts(Plus(exmem.instr_addr, 4))
            /\ i.op = "ecall" => absR' = absR /\ memory' = memory
            /\ pcsrc => i.op \in {"branch", "jal"}
            /\ exmem.branch_addr = Plus(exmem.instr_addr, i.imm)
            /\ imem' = imem
            /\ ecall_exit' <=> i.op = "ecall" /\ absR[A0] = EXIT_CALL
<1> DEFINE i == exmem.instr
           c == gen_alu_control(exmem.ctl.alu_op, i.fn)
<1>1. /\ i \in Instruction /\ i.op # "zero" /\ Supported(i)
      /\ exmem.ctl = gen_control(i)
  BY ExecutesNext
<1>2. /\ i.op \in Opcode /\ i.fn \in Funct /\ i.rd \in Reg /\ i.imm \in Word
      /\ i.rs1 \in Reg /\ i.rs2 \in Reg
  BY <1>1 DEF Instruction
<1>3. absR[i.rs1] \in Word /\ absR[i.rs2] \in Word /\ 0 \in Word
  BY <1>2, WriteBackType, SmallWords
     DEF Datapath, TypeOK, absR, stage_writeback, Memwb, Instruction
<1>4. imem' = imem /\ memory' = mem_store(exmem)
  BY DEF cycle_pipeline
<1>5. absR' = IF exmem.ctl.reg_write
              THEN Emu!Written(i.rd, IF exmem.ctl.mem_to_reg
                                     THEN LoadValue(memory, exmem.alu_result, i.fn)
                                     ELSE exmem.alu_result)
              ELSE absR
  BY RegistersAfter DEF Emu!Written
<1>6. ecall_exit' <=> i.op = "ecall" /\ absR[A0] = EXIT_CALL
  BY DEF cycle_pipeline, ecall_check, absR
<1>7. exmem.branch_addr = Plus(exmem.instr_addr, i.imm)
  BY DEF Datapath, ResultCurrent
<1>8. pcsrc => i.op \in {"branch", "jal"}
  BY <1>1 DEF pcsrc, gen_branch, gen_control, NoControl
<1> USE DEF Puts
<1>9. CASE i.op = "rtype"
  <2>1. /\ exmem.ctl.reg_write /\ ~exmem.ctl.mem_to_reg /\ ~exmem.ctl.mem_write
        /\ exmem.ctl.alu_op = <<0, 1, 0>>
    BY <1>1, <1>9 DEF gen_control, NoControl
  <2>2. i.fn \in RtypeFn \ {"mulh", "div", "rem", "other"}
    BY <1>1, <1>9 DEF Supported
  <2>3. exmem.alu_result = ARITH("rtype", i.fn, absR[i.rs1], absR[i.rs2])
    BY <1>3, <1>9, <2>1, <2>2 DEF Datapath, ResultCurrent, AluImplementsHandlers, AluImplements
  <2>4. Puts(exmem.alu_result)
    BY <1>4, <1>5, <2>1 DEF mem_store
  <2> QED BY <1>4, <1>6, <1>7, <1>8, <1>9, <2>2, <2>3, <2>4
<1>10. CASE i.op = "itype"
  <2>1. /\ exmem.ctl.reg_write /\ ~exmem.ctl.mem_to_reg /\ ~exmem.ctl.mem_write
        /\ exmem.ctl.alu_op = <<0, 1, 1>>
    BY <1>1, <1>10 DEF gen_control, NoControl
  <2>2. i.fn \in ItypeFn \ {"other"}
    BY <1>1, <1>10 DEF Supported
  <2>3. exmem.alu_result = ARITH("itype", i.fn, absR[i.rs1], i.imm)
    BY <1>2, <1>3, <1>10, <2>1, <2>2 DEF Datapath, ResultCurrent, AluImplementsHandlers, AluImplements
  <2>4. Puts(exmem.alu_result)
    BY <1>4, <1>5, <2>1 DEF mem_store
  <2> QED BY <1>4, <1>6, <1>7, <1>8, <1>10, <2>2, <2>3, <2>4
<1>11. CASE i.op = "load"
  <2>1. /\ exmem.ctl.reg_write /\ exmem.ctl.mem_to_reg /\ ~exmem.ctl.mem_write
        /\ exmem.ctl.alu_op = <<0, 0, 0>>
    BY <1>1, <1>11 DEF gen_control, NoControl
  <2>2. i.fn # "other"
    BY <1>1, <1>11 DEF Supported
  <2>3. exmem.alu_result = Plus(absR[i.rs1], i.imm)
    BY <1>2, <1>3, <1>11, <2>1
       DEF Datapath, ResultCurrent, AluImplementsHandlers, AluImplements, gen_alu_control
  <2>4. Puts(LoadValue(memory, exmem.alu_result, i.fn))
    BY <1>4, <1>5, <2>1 DEF mem_store
  <2> QED BY <1>4, <1>6, <1>7, <1>8, <1>11, <2>2, <2>3, <2>4
<1>12. CASE i.op = "store"
  <2>1. /\ ~exmem.ctl.reg_write /\ exmem.ctl.mem_write
        /\ exmem.ctl.alu_op = <<0, 0, 0>>
    BY <1>1, <1>12 DEF gen_control, NoControl
  <2>2. i.fn # "other"
    BY <1>1, <1>12 DEF Supported
  <2>3. exmem.alu_result = Plus(absR[i.rs1], i.imm)
        /\ exmem.write_data = absR[i.rs2]
    BY <1>2, <1>3, <1>12, <2>1
       DEF Datapath, ResultCurrent, AluImplementsHandlers, AluImplements, gen_alu_control
  <2>4. absR' = absR
        /\ memory' = StoreValue(memory, exmem.alu_result, i.fn, exmem.write_data)
    BY <1>4, <1>5, <2>1 DEF mem_store
  <2> QED BY <1>4, <1>6, <1>7, <1>8, <1>12, <2>2, <2>3, <2>4
<1>13. CASE i.op = "branch"
  <2>1. /\ ~exmem.ctl.reg_write /\ ~exmem.ctl.mem_write
        /\ exmem.ctl.branch /\ exmem.ctl.alu_op = <<0, 0, 1>>
    BY <1>1, <1>13 DEF gen_control, NoControl
  <2>2. i.fn # "other"
    BY <1>1, <1>13 DEF Supported
  <2>3. exmem.alu_result = 0 <=> absR[i.rs1] = absR[i.rs2]
    <3>1. exmem.alu_result = ALU(absR[i.rs1], absR[i.rs2], "sub")
      BY <1>13, <2>1 DEF Datapath, ResultCurrent, gen_alu_control
    <3> QED BY <1>3, <3>1 DEF AluImplementsHandlers, AluImplements
  <2>4. absR' = absR /\ memory' = memory
    BY <1>4, <1>5, <2>1 DEF mem_store
  <2>5. pcsrc <=> Emu!BranchTaken(i)
    BY <1>13, <2>1, <2>3 DEF pcsrc, gen_branch, Emu!BranchTaken
  <2> QED BY <1>4, <1>6, <1>7, <1>13, <2>2, <2>4, <2>5
<1>14. CASE i.op = "lui"
  <2>1. /\ exmem.ctl.reg_write /\ ~exmem.ctl.mem_to_reg /\ ~exmem.ctl.mem_write
        /\ exmem.ctl.alu_op = <<1, 0, 0>>
    BY <1>1, <1>14 DEF gen_control, NoControl
  <2>2. exmem.alu_result = ARITH("lui", i.fn, 0, i.imm)
    <3>1. exmem.alu_result = ALU(0, i.imm, "lui")
      BY <1>14, <2>1 DEF Datapath, ResultCurrent, gen_alu_control
    <3> QED BY <1>2, <1>3, <3>1 DEF AluImplementsHandlers, AluImplements
  <2>3. Puts(exmem.alu_result)
    BY <1>4, <1>5, <2>1 DEF mem_store
  <2> QED BY <1>4, <1>6, <1>7, <1>8, <1>14, <2>2, <2>3
<1>15. CASE i.op = "jal"
  <2>1. exmem.ctl.reg_write /\ ~exmem.ctl.mem_write /\ exmem.ctl.branch
    BY <1>1, <1>15 DEF gen_control, NoControl
  <2>2. i.rd = 0
    BY <1>1, <1>15 DEF Supported
  <2>3. Puts(Plus(exmem.instr_addr, 4))
    BY <1>4, <1>5, <2>1, <2>2 DEF mem_store, Emu!Written
  <2>4. pcsrc
    BY <1>15, <2>1 DEF pcsrc, gen_branch
  <2> QED BY <1>4, <1>6, <1>7, <1>15, <2>3, <2>4
<1>16. CASE i.op = "ecall"
  <2>1. exmem.ctl = NoControl
    BY <1>1, <1>16 DEF gen_control
  <2>2. absR' = absR /\ memory' = memory
    BY <1>4, <1>5, <2>1 DEF mem_store, NoControl
  <2> QED BY <1>4, <1>6, <1>7, <1>8, <1>16, <2>2
<1> QED BY <1>1, <1>2, <1>9, <1>10, <1>11, <1>12, <1>13, <1>14, <1>15, <1>16
     DEF Opcode

(***************************************************************************)
(* A cycle in which an instruction leaves mem is a step of the emulator:   *)
(* of the handler of its format.                                           *)
(***************************************************************************)
LEMMA InstructionStep ==
  ASSUME PRINT_STATS, AluImplementsHandlers, Simulation, ~ecall_exit, ~ShadowStall,
         ~UnknownEcall, cycle_pipeline, Record, valid["exmem"]
  PROVE  Emu!Next
<1> DEFINE i == exmem.instr
<1>1. /\ absPC = exmem.instr_addr /\ InstrAt(imem, absPC) = i
      /\ i \in Instruction /\ i.op # "zero"
  BY ExecutesNext DEF Simulation
<1>2. /\ imem' = imem /\ exmem.branch_addr = Plus(absPC, i.imm)
      /\ ecall_exit' <=> i.op = "ecall" /\ absR[A0] = EXIT_CALL
  BY <1>1, Effects DEF Simulation
<1>3. ~ecall_exit' => absPC' = IF pcsrc THEN Plus(absPC, i.imm) ELSE Plus(absPC, 4)
  BY <1>1, <1>2, PCAfter
<1>4. SUFFICES Emu!execute_instruction(i)
  BY <1>1, <1>2, SameWords DEF Emu!Next, Emu!execute_emu
<1>5. i.op \notin {"branch", "jal", "ecall"} => absPC' = Plus(absPC, 4) /\ ~ecall_exit'
  BY <1>2, <1>3, Effects DEF Simulation
<1> USE SameWords, SameMemory DEF Emu!Advance
<1>6. CASE i.op = "rtype"
  <2>1. i.fn \notin {"div", "rem", "other"}
        /\ Puts(ARITH("rtype", i.fn, absR[i.rs1], absR[i.rs2]))
    BY <1>6, Effects DEF Simulation
  <2>2. Emu!execute_rtype(i)
    BY <1>5, <1>6, <2>1 DEF Puts, Emu!execute_rtype, Emu!DivisionTraps
  <2> QED BY <2>2 DEF Emu!execute_instruction
<1>7. CASE i.op = "itype"
  <2>1. i.fn # "other" /\ Puts(ARITH("itype", i.fn, absR[i.rs1], i.imm))
    BY <1>7, Effects DEF Simulation
  <2>2. Emu!execute_itype_except_load(i)
    BY <1>5, <1>7, <2>1 DEF Puts, Emu!execute_itype_except_load
  <2> QED BY <2>2 DEF Emu!execute_instruction
<1>8. CASE i.op = "load"
  <2>1. i.fn # "other" /\ Puts(LoadValue(memory, Plus(absR[i.rs1], i.imm), i.fn))
    BY <1>8, Effects DEF Simulation
  <2>2. Emu!execute_load(i)
    BY <1>5, <1>8, <2>1 DEF Puts, Emu!execute_load
  <2> QED BY <2>2 DEF Emu!execute_instruction
<1>9. CASE i.op = "store"
  <2>1. /\ i.fn # "other" /\ absR' = absR
        /\ memory' = StoreValue(memory, Plus(absR[i.rs1], i.imm), i.fn, absR[i.rs2])
    BY <1>9, Effects DEF Simulation
  <2>2. Emu!execute_store(i)
    BY <1>5, <1>9, <2>1 DEF Emu!execute_store
  <2> QED BY <2>2 DEF Emu!execute_instruction
<1>10. CASE i.op = "branch"
  <2>1. /\ i.fn # "other" /\ absR' = absR /\ memory' = memory
        /\ pcsrc <=> Emu!BranchTaken(i)
    BY <1>10, Effects DEF Simulation
  <2>2. /\ absPC' = Plus(absPC, IF Emu!BranchTaken(i) THEN i.imm ELSE 4)
        /\ ~ecall_exit'
    BY <1>2, <1>3, <1>10, <2>1
  <2>3. Emu!execute_branch(i)
    BY <1>10, <2>1, <2>2 DEF Emu!execute_branch
  <2> QED BY <2>3 DEF Emu!execute_instruction
<1>11. CASE i.op = "lui"
  <2>1. Puts(ARITH("lui", i.fn, 0, i.imm))
    BY <1>11, Effects DEF Simulation
  <2>2. Emu!execute_lui(i)
    BY <1>5, <1>11, <2>1 DEF Puts, Emu!execute_lui
  <2> QED BY <2>2 DEF Emu!execute_instruction
<1>12. CASE i.op = "jal"
  <2>1. pcsrc /\ Puts(Plus(absPC, 4))
    BY <1>1, <1>12, Effects DEF Simulation
  <2>2. absPC' = Plus(absPC, i.imm) /\ ~ecall_exit'
    BY <1>2, <1>3, <1>12, <2>1
  <2>3. Emu!execute_jal(i)
    BY <1>12, <2>1, <2>2 DEF Puts, Emu!execute_jal
  <2> QED BY <2>3 DEF Emu!execute_instruction
<1>13. CASE i.op = "ecall"
  <2>1. absR' = absR /\ memory' = memory /\ ~pcsrc
    BY <1>13, Effects DEF Simulation
  <2>2. CASE absR[A0] = EXIT_CALL
    <3>1. ecall_exit' /\ absPC' = absPC
      BY <1>1, <1>2, <1>13, <2>2 DEF absPC, cycle_pipeline, memwb_inp, stage_mem
    <3>2. Emu!execute_ecall(i)
      BY <1>13, <2>1, <2>2, <3>1 DEF Emu!execute_ecall, Emu!Stop
    <3> QED BY <3>2 DEF Emu!execute_instruction
  <2>3. CASE absR[A0] # EXIT_CALL
    <3>1. absR[A0] \in PRINT_CALLS
      BY <1>13, <2>3 DEF UnknownEcall, absR
    <3>2. Emu!execute_ecall(i)
      BY <1>2, <1>3, <1>13, <2>1, <2>3, <3>1 DEF Emu!execute_ecall
    <3> QED BY <3>2 DEF Emu!execute_instruction
  <2> QED BY <2>2, <2>3
<1> QED BY <1>1, <1>6, <1>7, <1>8, <1>9, <1>10, <1>11, <1>12, <1>13
     DEF Instruction, Opcode

(***************************************************************************)
(* The simulation.                                                         *)
(***************************************************************************)
LEMMA InitSimulation ==
  HInit => InFlight /\ BubbleEcall /\ ZeroRegister /\ LuiReadsZero /\ ResultCurrent
<1> SUFFICES ASSUME HInit
             PROVE  InFlight /\ BubbleEcall /\ ZeroRegister /\ LuiReadsZero
                      /\ ResultCurrent
  OBVIOUS
<1>1. /\ ~valid["ifid"] /\ ~valid["idex"] /\ ~valid["exmem"]
      /\ idex.instr.op = "zero" /\ exmem.instr.op = "zero"
  BY DEF HInit, Init, Stage, ZeroIdex, ZeroExmem, ZERO
<1>2. R[0] = 0
  BY NumRegsAssumption DEF HInit, Init, InitRegs, Reg
<1> QED BY <1>1, <1>2 DEF InFlight, Fetched, BubbleEcall, Announces, ZeroRegister,
        LuiReadsZero, ResultCurrent

LEMMA NextSupported ==
  SupportedProgram /\ [SafeNext]_<<vars, history>> => SupportedProgram'
<1> SUFFICES ASSUME [SafeNext]_<<vars, history>> PROVE imem' = imem
  BY DEF SupportedProgram
<1> QED BY DEF SafeNext, HNext, cycle_pipeline, parse_failure, vars

LEMMA DatapathCorrect == SafeSpec => []Datapath
<1>1. SafeSpec => []SupportedProgram
  <2>1. SafeInit => SupportedProgram
    BY DEF SafeInit
  <2> QED BY <2>1, NextSupported, HCalls, PTL DEF SafeSpec
<1>2. SafeSpec => /\ []InFlight /\ []BubbleEcall /\ []ZeroRegister /\ []LuiReadsZero
                  /\ []GapAfterLoad
  <2>1. HInit => GapAfterLoad
    BY DEF HInit, GapAfterLoad, Stage
  <2>2. [SafeNext]_<<vars, history>> => [HNext]_<<vars, history>>
    BY DEF SafeNext
  <2>3. SafeInit => HInit
    BY DEF SafeInit
  <2> QED BY <2>1, <2>2, <2>3, InitSimulation, NextInFlight, NextEcall, NextZero,
            NextLui, NextGap, SafeRefines, HCorrect, Bubbles, AheadCorrect, HCalls, PTL
       DEF SafeSpec
<1>3. SafeSpec => []ResultCurrent
  <2>1. [SafeNext]_<<vars, history>> => [HNext]_<<vars, history>>
    BY DEF SafeNext
  <2>2. SafeInit => HInit
    BY DEF SafeInit
  <2> QED BY <1>2, <2>1, <2>2, InitSimulation, NextResult, SafeRefines, SafeCorrect,
            ControlsCorrect, LoadsWaitedFor, OperandsRight, HCalls, PTL DEF SafeSpec
<1>4. /\ TypeOK /\ ControlInv /\ BubblesHarmless /\ ControlsMatch
      /\ FetchAhead /\ GapAfterLoad
      /\ InFlight /\ BubbleEcall /\ ZeroRegister /\ ResultCurrent
      /\ SupportedProgram
      => Datapath
  BY DEF Datapath
<1> QED BY <1>1, <1>2, <1>3, <1>4, SafeRefines, HCorrect, Bubbles, ControlsCorrect,
          AheadCorrect, PTL

LEMMA SimulationCorrect == ASSUME PRINT_STATS PROVE SafeSpec => []Simulation
<1>1. Datapath /\ ProgramOrder => Simulation
  BY DEF Simulation
<1> QED BY <1>1, DatapathCorrect, SafeRefines, OrderKept, PTL

LEMMA InitRefines == SafeInit => Emu!Init
<1> SUFFICES ASSUME SafeInit PROVE Emu!Init
  OBVIOUS
<1> USE DEF SafeInit, HInit, Init
<1>1. absPC = START
  BY DEF absPC, fetch_pc, InitWires, Stage
<1>2. absR = InitRegs
  BY DEF absR, stage_writeback, ZeroMemwb, NoControl
<1> QED BY <1>1, <1>2, SameInit DEF Emu!Init

LEMMA StepRefines ==
  ASSUME PRINT_STATS, AluImplementsHandlers
  PROVE  Simulation /\ [SafeNext]_<<vars, history>> => [Emu!Next]_Emu!vars
<1> SUFFICES ASSUME Simulation, [SafeNext]_<<vars, history>>
             PROVE  Emu!Next \/ UNCHANGED Emu!vars
  OBVIOUS
<1>1. CASE running /\ cycle_pipeline /\ Record /\ ~ShadowStall /\ ~UnknownEcall
  BY <1>1, BubbleStep, InstructionStep DEF running
<1>2. CASE parse_failure /\ UNCHANGED history
  BY <1>2 DEF parse_failure, Emu!vars, absPC, absR, stage_writeback, WriteBackValue,
     fetch_pc, pregs, history
<1>3. CASE UNCHANGED <<vars, history>>
  BY <1>3 DEF vars, Emu!vars, absPC, absR, stage_writeback, WriteBackValue,
     fetch_pc, pregs, history
<1> QED BY <1>1, <1>2, <1>3 DEF SafeNext, HNext

(* The pipeline implements the emulator: within the contract, forwarding,  *)
(* stalls and flushes are invisible to every supported program, and the    *)
(* process exits exactly where the emulator does.                          *)
THEOREM Refinement ==
  ASSUME PRINT_STATS, AluImplementsHandlers
  PROVE  SafeSpec => ImplementsEmulator
<1>1. SafeSpec => SafeInit /\ [][SafeNext]_<<vars, history>>
  BY DEF SafeSpec
<1> QED BY <1>1, InitRefines, StepRefines, SimulationCorrect, PTL
     DEF ImplementsEmulator, Emu!Spec

(***************************************************************************)
(* The schedule.  The contract of SafeSpec can be kept by looking at the   *)
(* text of a program alone: when it is well scheduled, no input and no     *)
(* branch makes the pipeline read a stale register or stall in the shadow  *)
(* of a branch, and the pipeline implements the emulator.                  *)
(***************************************************************************)

(***************************************************************************)
(* Pairs of instructions that the hazard unit keeps apart.                 *)
(***************************************************************************)
Pair(i, j) == i.op = "load" /\ i.rd \in {j.rs1, j.rs2}

LEMMA ControlOf ==
  ASSUME NEW i
  PROVE  /\ gen_control(i).reg_write <=> Writes(i)
         /\ gen_control(i).mem_read <=> i.op = "load"
         /\ gen_control(i).branch <=> i.op \in {"branch", "jal"}
BY DEF gen_control, NoControl, Writes

LEMMA HazardIsPair ==
  ASSUME BubblesHarmless, ControlsMatch
  PROVE  hazard <=> valid["idex"] /\ Pair(idex.instr, ifid.instr)
<1>1. CASE valid["idex"]
  <2>1. idex.ctl = gen_control(idex.instr)
    BY <1>1 DEF ControlsMatch, LinesOf
  <2> QED BY <1>1, <2>1, ControlOf DEF hazard, detect_hazard, Pair
<1>2. CASE ~valid["idex"]
  BY <1>2 DEF BubblesHarmless, Harmless, hazard, detect_hazard
<1> QED BY <1>1, <1>2

(***************************************************************************)
(* The slots in front of decode, the one in MEM/WB included: what is next  *)
(* to each other in the pipeline is next to each other in the program, and *)
(* a bubble stands between two instructions exactly when they are a pair.  *)
(***************************************************************************)
WritingBack ==
  valid["memwb"] => /\ memwb.instr = InstrAt(imem, memwb.instr_addr)
                    /\ memwb.instr.op # "zero"
                    /\ memwb.ctl = gen_control(memwb.instr)

OrderBehind ==
  valid["memwb"] =>
    /\ valid["exmem"] => exmem.instr_addr = Plus(memwb.instr_addr, 4)
    /\ ~valid["exmem"] /\ valid["idex"] => idex.instr_addr = Plus(memwb.instr_addr, 4)
    /\ ~valid["exmem"] /\ ~valid["idex"] => ~valid["ifid"]

PairsApart ==
  /\ valid["exmem"] =>
       /\ valid["idex"] => ~Pair(exmem.instr, idex.instr)
       /\ ~valid["idex"] /\ valid["ifid"] => Pair(exmem.instr, ifid.instr)
  /\ valid["memwb"] =>
       /\ valid["exmem"] => ~Pair(memwb.instr, exmem.instr)
       /\ ~valid["exmem"] /\ valid["idex"] => Pair(memwb.instr, idex.instr)

Slots == WritingBack /\ OrderBehind /\ PairsApart

LEMMA NextOrderBehind ==
  BubblesHarmless /\ ControlsMatch /\ FetchAhead /\ ProgramOrder /\ OrderBehind
  /\ [HCall]_<<vars, history>>
  => OrderBehind'
<1> SUFFICES ASSUME BubblesHarmless, ControlsMatch, FetchAhead, ProgramOrder,
                    OrderBehind, [HCall]_<<vars, history>>
             PROVE  OrderBehind'
  OBVIOUS
<1>1. CASE cycle_pipeline /\ Record
  <2>1. CASE flushing
    <3>1. ~valid'["ifid"] /\ ~valid'["idex"] /\ ~valid'["exmem"]
      BY <1>1, <2>1, CycleValid
    <3> QED BY <3>1 DEF OrderBehind
  <2>2. CASE ~flushing
    <3>1. /\ idex'.instr_addr = ifid.instr_addr
          /\ exmem'.instr_addr = idex.instr_addr
          /\ memwb'.instr_addr = exmem.instr_addr
      BY <1>1, <2>2, Moves
    <3>2. /\ valid'["ifid"] <=> (hazard => valid["ifid"])
          /\ valid'["idex"] <=> ~hazard /\ valid["ifid"]
          /\ valid'["exmem"] <=> valid["idex"]
          /\ valid'["memwb"] <=> valid["exmem"]
      BY <1>1, <2>2, CycleValid
    <3>3. hazard => valid["idex"]
      BY HazardIsPair
    <3> QED BY <3>1, <3>2, <3>3 DEF OrderBehind, ProgramOrder, FetchAhead
  <2> QED BY <2>1, <2>2
<1>2. CASE UNCHANGED <<pregs, history>>
  BY <1>2 DEF OrderBehind, pregs, history
<1> QED BY <1>1, <1>2 DEF HCall, parse_failure, vars, history

LEMMA NextSlots ==
  /\ BubblesHarmless /\ ControlsMatch /\ FetchAhead /\ ProgramOrder /\ InFlight
  /\ Slots /\ [HCall]_<<vars, history>>
  => Slots'
<1> SUFFICES ASSUME BubblesHarmless, ControlsMatch, FetchAhead, ProgramOrder,
                    InFlight, Slots, [HCall]_<<vars, history>>
             PROVE  Slots'
  OBVIOUS
<1>1. CASE cycle_pipeline /\ Record
  <2>1. /\ memwb'.instr = exmem.instr /\ memwb'.instr_addr = exmem.instr_addr
        /\ memwb'.ctl = exmem.ctl /\ imem' = imem
    BY <1>1 DEF cycle_pipeline, memwb_inp, stage_mem
  <2>2. WritingBack'
    BY <1>1, <2>1, CycleValid
       DEF WritingBack, InFlight, Fetched, ControlsMatch, LinesOf
  <2>3. PairsApart'
    <3>1. CASE flushing
      <4>1. ~valid'["ifid"] /\ ~valid'["idex"] /\ ~valid'["exmem"]
        BY <1>1, <3>1, CycleValid
      <4> QED BY <4>1 DEF PairsApart
    <3>2. CASE ~flushing
      <4>1. /\ hazard => ifid' = ifid
            /\ idex'.instr = ifid.instr /\ exmem'.instr = idex.instr
        BY <1>1, <3>2, Moves
      <4>2. /\ valid'["ifid"] <=> (hazard => valid["ifid"])
            /\ valid'["idex"] <=> ~hazard /\ valid["ifid"]
            /\ valid'["exmem"] <=> valid["idex"]
            /\ valid'["memwb"] <=> valid["exmem"]
        BY <1>1, <3>2, CycleValid
      <4>3. hazard <=> valid["idex"] /\ Pair(idex.instr, ifid.instr)
        BY HazardIsPair
      <4> QED BY <2>1, <4>1, <4>2, <4>3 DEF PairsApart, Slots, FetchAhead, Pair
    <3> QED BY <3>1, <3>2
  <2> QED BY <2>2, <2>3, NextOrderBehind DEF Slots
<1>2. CASE UNCHANGED <<pregs, imem, history>>
  BY <1>2 DEF Slots, WritingBack, OrderBehind, PairsApart, Pair, pregs, history
<1> QED BY <1>1, <1>2 DEF HCall, parse_failure, vars, history

LEMMA SlotsCorrect == ASSUME PRINT_STATS PROVE HSpec => []InFlight /\ []Slots
<1>1. HInit => InFlight /\ Slots
  <2> SUFFICES ASSUME HInit PROVE InFlight /\ Slots
    OBVIOUS
  <2>1. ~valid["ifid"] /\ ~valid["idex"] /\ ~valid["exmem"] /\ ~valid["memwb"]
    BY DEF HInit, Stage
  <2> QED BY <2>1 DEF InFlight, Fetched, Slots, WritingBack, OrderBehind, PairsApart
<1> QED BY <1>1, NextInFlight, NextSlots, Bubbles, ControlsCorrect, AheadCorrect,
          OrderKept, HCalls, PTL DEF HSpec

(***************************************************************************)
(* The instructions of the program at the addresses of the slots.          *)
(***************************************************************************)
LEMMA BehindAt ==
  ASSUME NEW a \in Word
  PROVE  /\ Behind(a, 0) = InstrAt(imem, a)
         /\ Behind(a, 1) = InstrAt(imem, Plus(a, 4))
         /\ Behind(a, 2) = InstrAt(imem, Plus(Plus(a, 4), 4))
         /\ Behind(a, 3) = InstrAt(imem, Plus(Plus(Plus(a, 4), 4), 4))
<1>1. /\ Plus(Plus(a, 4), 4) = Plus(a, 8)
      /\ Plus(Plus(a, 8), 4) = Plus(a, 12)
  BY PlusPlus
<1>2. /\ Plus(a, 4 * 0) = Plus(a, 0) /\ Plus(a, 4 * 1) = Plus(a, 4)
      /\ Plus(a, 4 * 2) = Plus(a, 8) /\ Plus(a, 4 * 3) = Plus(a, 12)
  OBVIOUS
<1>3. Plus(a, 0) = a
  BY PlusZero
<1> QED BY <1>1, <1>2, <1>3, Zenon DEF Behind

LEMMA LoadUseAt ==
  ASSUME NEW a \in Word
  PROVE  /\ LoadUse(a) <=> Pair(Behind(a, 0), Behind(a, 1))
         /\ LoadUse(Plus(a, 4)) <=> Pair(Behind(a, 1), Behind(a, 2))
         /\ LoadUse(Plus(a, 8)) <=> Pair(Behind(a, 2), Behind(a, 3))
<1>1. Plus(Plus(a, 4), 4) = Plus(a, 8)
  BY PlusPlus
<1>2. Plus(a, 4) \in Word /\ Plus(a, 8) \in Word
  BY <1>1, PlusInWord, SmallWords
<1>3. LoadUse(a) <=> Pair(Behind(a, 0), Behind(a, 1))
  BY DEF LoadUse, Pair
<1>4. LoadUse(Plus(a, 4)) <=> Pair(Behind(a, 1), Behind(a, 2))
  <2>1. Behind(Plus(a, 4), 0) = Behind(a, 1) /\ Behind(Plus(a, 4), 1) = Behind(a, 2)
    BY <1>2, BehindAt
  <2> QED BY <2>1 DEF LoadUse, Pair
<1>5. LoadUse(Plus(a, 8)) <=> Pair(Behind(a, 2), Behind(a, 3))
  <2>1. Behind(Plus(a, 8), 0) = Behind(a, 2) /\ Behind(Plus(a, 8), 1) = Behind(a, 3)
    BY <1>1, <1>2, BehindAt
  <2> QED BY <2>1 DEF LoadUse, Pair
<1> QED BY <1>3, <1>4, <1>5
(***************************************************************************)
(* The instruction in MEM/WB is the last writer of the register that       *)
(* decode reads, three slots behind it: the rule about gaps says that one  *)
(* of the instructions between them writes the register as well, and then  *)
(* that one forwards it.                                                   *)
(***************************************************************************)
Order == /\ TypeOK /\ BubblesHarmless /\ ControlsMatch /\ FetchAhead
         /\ ProgramOrder /\ InFlight /\ Slots

LEMMA InDomain ==
  ASSUME NEW a, InstrAt(imem, a).op # "zero" PROVE a \in DOMAIN imem
BY DEF InstrAt, ZERO

LEMMA SetsForwards ==
  ASSUME Order, NEW r, r # 0
  PROVE  /\ valid["idex"] /\ Sets(idex.instr, r) => Forwards(idex, r)
         /\ valid["exmem"] /\ Sets(exmem.instr, r) => Forwards(exmem, r)
         /\ valid["memwb"] /\ Forwards(memwb, r) => Sets(memwb.instr, r)
BY ControlOf DEF Order, ControlsMatch, LinesOf, Slots, WritingBack, Sets, Forwards

LEMMA NoStaleRead ==
  ASSUME Order, WellScheduled PROVE ~StaleRead
<1> SUFFICES ASSUME valid["ifid"], ~hazard,
                    NEW r \in Sources(ifid.instr) \ {0},
                    Forwards(memwb, r), ~Forwards(exmem, r), ~Forwards(idex, r)
             PROVE  FALSE
  BY DEF StaleRead
<1> DEFINE a == memwb.instr_addr
<1>1. valid["memwb"]
  BY DEF Order, BubblesHarmless, Harmless, Forwards
<1>2. a \in Word /\ a \in DOMAIN imem /\ memwb.instr = Behind(a, 0)
  <2>1. a \in Word /\ memwb.instr = InstrAt(imem, a) /\ memwb.instr.op # "zero"
    BY <1>1 DEF Order, TypeOK, Memwb, Slots, WritingBack
  <2> QED BY <2>1, BehindAt, InDomain
<1>3. Sets(Behind(a, 0), r)
  BY <1>1, <1>2, SetsForwards
<1>4. ASSUME NEW k \in 1 .. 3, Gap(a, k) = 3, ifid.instr = Behind(a, k)
      PROVE  \E j \in 1 .. (k - 1) : Sets(Behind(a, j), r)
  BY <1>2, <1>3, <1>4 DEF WellScheduled
<1>5. /\ valid["exmem"] => ~Sets(exmem.instr, r)
      /\ valid["idex"] => ~Sets(idex.instr, r)
  BY SetsForwards
<1>6. /\ ifid.instr = InstrAt(imem, ifid.instr_addr)
      /\ valid["idex"] => idex.instr = InstrAt(imem, idex.instr_addr)
      /\ valid["exmem"] => exmem.instr = InstrAt(imem, exmem.instr_addr)
  BY DEF Order, InFlight, Fetched
<1>7. valid["idex"] => ~Pair(idex.instr, ifid.instr)
  BY HazardIsPair DEF Order
<1> HIDE DEF a
<1>8. CASE valid["exmem"] /\ valid["idex"]
  <2>1. /\ exmem.instr_addr = Plus(a, 4) /\ idex.instr_addr = Plus(Plus(a, 4), 4)
        /\ ifid.instr_addr = Plus(Plus(Plus(a, 4), 4), 4)
    BY <1>1, <1>8 DEF a, Order, ProgramOrder, Slots, OrderBehind
  <2>2. /\ exmem.instr = Behind(a, 1) /\ idex.instr = Behind(a, 2)
        /\ ifid.instr = Behind(a, 3)
    BY <1>2, <1>6, <1>8, <2>1, BehindAt
  <2>3. ~LoadUse(a) /\ ~LoadUse(Plus(a, 4)) /\ ~LoadUse(Plus(a, 8))
    BY <1>1, <1>2, <1>7, <1>8, <2>2, LoadUseAt DEF Order, Slots, PairsApart
  <2>4. Gap(a, 3) = 3
    BY <2>3 DEF Gap, One
  <2>5. PICK j \in 1 .. (3 - 1) : Sets(Behind(a, j), r)
    BY <1>4, <2>2, <2>4
  <2>6. j = 1 \/ j = 2
    OBVIOUS
  <2> QED BY <1>5, <1>8, <2>2, <2>5, <2>6
<1>9. CASE valid["exmem"] /\ ~valid["idex"]
  <2>1. /\ exmem.instr_addr = Plus(a, 4)
        /\ ifid.instr_addr = Plus(Plus(a, 4), 4)
    BY <1>1, <1>9 DEF a, Order, ProgramOrder, Slots, OrderBehind
  <2>2. exmem.instr = Behind(a, 1) /\ ifid.instr = Behind(a, 2)
    BY <1>2, <1>6, <1>9, <2>1, BehindAt
  <2>3. ~LoadUse(a) /\ LoadUse(Plus(a, 4))
    BY <1>1, <1>2, <1>9, <2>2, LoadUseAt DEF Order, Slots, PairsApart
  <2>4. Gap(a, 2) = 3
    BY <2>3 DEF Gap, One
  <2>5. PICK j \in 1 .. (2 - 1) : Sets(Behind(a, j), r)
    BY <1>4, <2>2, <2>4
  <2>6. j = 1
    OBVIOUS
  <2> QED BY <1>5, <1>9, <2>2, <2>5, <2>6
<1>10. CASE ~valid["exmem"] /\ valid["idex"]
  <2>1. /\ idex.instr_addr = Plus(a, 4)
        /\ ifid.instr_addr = Plus(Plus(a, 4), 4)
    BY <1>1, <1>10 DEF a, Order, ProgramOrder, Slots, OrderBehind
  <2>2. idex.instr = Behind(a, 1) /\ ifid.instr = Behind(a, 2)
    BY <1>2, <1>6, <1>10, <2>1, BehindAt
  <2>3. LoadUse(a) /\ ~LoadUse(Plus(a, 4))
    BY <1>1, <1>2, <1>7, <1>10, <2>2, LoadUseAt DEF Order, Slots, PairsApart
  <2>4. Gap(a, 2) = 3
    BY <2>3 DEF Gap, One
  <2>5. PICK j \in 1 .. (2 - 1) : Sets(Behind(a, j), r)
    BY <1>4, <2>2, <2>4
  <2>6. j = 1
    OBVIOUS
  <2> QED BY <1>5, <1>10, <2>2, <2>5, <2>6
<1>11. CASE ~valid["exmem"] /\ ~valid["idex"]
  BY <1>1, <1>11 DEF Order, Slots, OrderBehind
<1> QED BY <1>8, <1>9, <1>10, <1>11

(* A branch that is taken has two instructions right behind it, and the    *)
(* rule says that they are not a pair.                                     *)
LEMMA NoShadowStall ==
  ASSUME Order, WellScheduled PROVE ~ShadowStall
<1> SUFFICES ASSUME hazard, exmem.ctl.branch PROVE FALSE
  BY DEF ShadowStall, pcsrc, gen_branch
<1> DEFINE b == exmem.instr_addr
<1>1. valid["exmem"] /\ valid["idex"] /\ valid["ifid"]
  BY HazardIsPair DEF Order, BubblesHarmless, Harmless, FetchAhead
<1>2. /\ b \in Word /\ exmem.instr = InstrAt(imem, b) /\ exmem.instr.op # "zero"
      /\ idex.instr = InstrAt(imem, Plus(b, 4))
      /\ ifid.instr = InstrAt(imem, Plus(Plus(b, 4), 4))
  BY <1>1 DEF Order, TypeOK, Exmem, InFlight, Fetched, ProgramOrder
<1>3. exmem.instr.op \in {"branch", "jal"}
  BY <1>1, ControlOf DEF Order, ControlsMatch, LinesOf
<1> HIDE DEF b
<1>4. b \in DOMAIN imem
  BY <1>2, InDomain
<1>5. Behind(b, 0).op \in {"branch", "jal"} /\ LoadUse(Plus(b, 4))
  <2>1. Pair(idex.instr, ifid.instr)
    BY HazardIsPair DEF Order
  <2> QED BY <1>2, <1>3, <2>1, BehindAt, LoadUseAt
<1> QED BY <1>4, <1>5 DEF WellScheduled

(* The rule about the text of a program is enough: whatever a              *)
(* well-scheduled program computes and wherever it branches, no register   *)
(* is read stale and no stall falls into the shadow of a branch.           *)
THEOREM ScheduleSuffices ==
  ASSUME PRINT_STATS PROVE HSpec => []ScheduleKeepsContract
<1>1. Order => ScheduleKeepsContract
  BY NoStaleRead, NoShadowStall DEF ScheduleKeepsContract
<1>2. /\ TypeOK /\ BubblesHarmless /\ ControlsMatch /\ FetchAhead
      /\ ProgramOrder /\ InFlight /\ Slots
      => Order
  BY DEF Order
<1> QED BY <1>1, <1>2, SlotsCorrect, HCorrect, Bubbles, ControlsCorrect,
          AheadCorrect, OrderKept, PTL

(***************************************************************************)
(* The refinement, from a condition on the text of the program.            *)
(***************************************************************************)
LEMMA ScheduledIsSafe == ASSUME PRINT_STATS PROVE ScheduledSpec => SafeSpec
<1>1. /\ WellScheduled /\ [HNext /\ ~UnknownEcall]_<<vars, history>>
      => WellScheduled'
  <2>1. [HNext /\ ~UnknownEcall]_<<vars, history>> => imem' = imem
    BY DEF HNext, cycle_pipeline, parse_failure, vars
  <2>2. ASSUME WellScheduled, imem' = imem PROVE WellScheduled'
    <3>1. \A a, k : Behind(a, k)' = Behind(a, k)
      BY <2>2 DEF Behind
    <3>2. \A a : LoadUse(a)' <=> LoadUse(a)
      BY <3>1, Zenon DEF LoadUse
    <3>3. \A a, k : Gap(a, k)' = Gap(a, k)
      BY <3>2 DEF Gap, One
    <3> QED BY <2>2, <3>1, <3>2, <3>3, Zenon DEF WellScheduled
  <2> QED BY <2>1, <2>2
<1>2. /\ WellScheduled /\ ScheduleKeepsContract
      /\ [HNext /\ ~UnknownEcall]_<<vars, history>>
      => [SafeNext]_<<vars, history>>
  BY DEF ScheduleKeepsContract, SafeNext
<1>3. [HNext /\ ~UnknownEcall]_<<vars, history>> => [HNext]_<<vars, history>>
  OBVIOUS
<1>4. SafeInit => HInit
  BY DEF SafeInit
<1> QED BY <1>1, <1>2, <1>3, <1>4, ScheduleSuffices, PTL
     DEF ScheduledSpec, SafeSpec, HSpec

(* Every supported and well-scheduled program runs in the pipeline as in   *)
(* the emulator: a condition that can be read off the program replaces     *)
(* the contract about its execution.                                       *)
THEOREM ScheduledRefinement ==
  ASSUME PRINT_STATS, AluImplementsHandlers
  PROVE  ScheduledSpec => ImplementsEmulator
<1> QED BY ScheduledIsSafe, Refinement
=============================================================================
