# A model of the RISC-V pipeline simulator

The repository is a cycle-accurate simulator of a RISC-V CPU in C: an
instruction-level emulator (`-m`), a five-stage pipeline with hazard detection,
forwarding and flushing (`-s`), and a set-associative cache (`-c`) that decides
how many cycles a memory access takes. This directory holds TLA+ modules of
these parts, TLC configurations that check them on small instances, and proofs
of theorems about them for TLAPS.

The question behind most of it: **does the pipeline execute a program as the
emulator does, and when does it not?**

## 1. The system

| Component | State | Operations | Speaks to |
|---|---|---|---|
| Instructions and words (`types.h`, `utils.c`) | none | `parse_instruction`, `sign_extend_number`, `get_branch_offset`, `get_jump_offset`, `get_store_offset` | called by emulator, pipeline and disassembler |
| Data memory (`emulator.c`) | `memory` | `load`, `store` | emulator, `stage_fetch`, `stage_mem` |
| Emulator (`emulator.c`, `execute_emu` of `riscv.c`) | `regfile` (R, PC), `memory` | one handler per instruction format | driver |
| Control unit and ALU (`stage_helpers.h`) | none | `gen_control`, `gen_imm`, `gen_alu_control`, `execute_alu` | decode and execute stage |
| Pipeline (`pipeline.c`, `pipeline.h`) | four pipeline registers with an input and an output half, the wires, the counters | `bootstrap`, `stage_fetch`, `stage_decode`, `stage_execute`, `stage_mem`, `stage_writeback`, `cycle_pipeline` | driver; register file, memory, cache |
| Hazard unit, forwarding unit, flush (`stage_helpers.h`) | wires | `detect_hazard`, `gen_forward`, `gen_branch`, `flush_pipeline` | called within a cycle, in a fixed order |
| Cache (`cache.c`, `cache.h`) | sets of lines with tag, block address, stamp, use counter; a clock per set; counters | `probe_cache`, `hit_cacheline`, `insert_cacheline`, `victim_cacheline`, `replace_cacheline`, `operateCache`, `processCacheOperation` | `stage_mem` |
| Driver (`riscv.c`, `config.h`) | options, `simins`, `prog_numins`, `ecall_exit` | `load_program`, the four simulation loops, the flush with `FLUSH.input`, reports, memory dump | everything; emulator and pipeline share `regfile` and `memory` |
| Disassembler (`disasm.c`) | none | `decode_instruction` and one writer per format | emulator (`-m`), traces |
| Debugging output, test scripts, reference traces, cache exploration | none | | |

Nothing runs concurrently: one cycle is one call of `cycle_pipeline`. What makes
the code hard is that **the hardware it simulates is concurrent**: up to five
instructions are in flight, and the order of the five calls in `cycle_pipeline`,
the wires that survive from one cycle to the next and the flushes decide what an
instruction sees. The behaviours that are hard to test:

- *who sees which value*: decode reads the registers before writeback writes
  them in the same cycle; forwarding covers two instructions; a stall changes
  the distances;
- *two control events in one cycle*: a load-use stall and a taken branch, an exit
  ecall and a write to its argument, a stall that repeats itself;
- *state that outlives its owner*: wires that a flush does not clear, bubbles
  that keep the bits of their instruction;
- *running ahead*: fetch rejects a word that the program would never execute;
- *accounting*: cycles are added and subtracted in several places, and hits and
  misses are told apart by their latency;
- *replacement*: a victim is found by stamps and counters and looked up again by
  its block address;
- *the driver's counting*: without `-e` the loop counts cycles and not
  instructions, and then overwrites the words that fetch would read next while
  instructions are still in flight;
- *delay slots*: with `PRINT_STATS` undefined (milestone 1) nothing is squashed,
  and a branch may be taken in the shadow of another;
- *four decoders of the same bits*: the emulator's handlers, the ALU control with
  `gen_imm`, the disassembler and `parse_instruction`, kept in step by hand.

What makes each component correct: the memory returns what was stored; the ALU
of the pipeline computes what the emulator's handlers compute; every instruction
takes effect once, in program order, with the operands of the program order;
bubbles have no effect; without the flush, every taken branch takes effect after
exactly three more instructions; the cache implements its replacement policy; the
printed counters describe the run; parsing keeps every bit, and every decoder
reads the same instruction in a word; the driver executes the program it loaded,
flushes nothing of it away, and ends.

## 2. The modules

| Module | Models | EXTENDS |
|---|---|---|
| `Isa` | bytes, words, registers, decoded instructions | |
| `Memory` | `load`, `store`, `sign_extend_number` | `Isa` |
| `Machine` | the state `main()` starts a program in | `Memory` |
| `Emulator` | `emulator.c`, one action per handler: the abstract specification | `Machine` |
| `Control` | `gen_control`, `gen_alu_control` | `Isa` |
| `Alu` | `execute_alu`, and the arithmetic of the emulator's handlers | `Memory`, `Control` |
| `Cache` | `cache.c` as functions on its data structure | |
| `CacheAccess` | the cache under any sequence of accesses | `Cache` |
| `CachePolicy` | what a cache promises: which blocks it holds, how often each was used and which is older (abstract) | |
| `Pipeline` | `cycle_pipeline` and the stages and units it calls | `Machine`, `Control`, `Cache` |
| `PipelineIsa` | the pipeline beside the emulator: history, contract, abstraction function, properties | `Pipeline`, INSTANCE `Emulator` |
| `DelaySlots` | the machine with three delay slots that milestone 1 asks for (abstract) | `Machine`, INSTANCE `Emulator` |
| `PipelineDelayed` | the pipeline without flush as that machine | `PipelineIsa`, INSTANCE `DelaySlots` |
| `Simulator` | `main()` from the loaded program to its end: composes emulator, pipeline and flush | `PipelineIsa`, INSTANCE `Emulator` |
| `Execute` | any operands at the ALU, what `stage_execute` makes of an instruction with them, and loads behind a store in any memory | `Alu` |
| `Encoding` | the bits of a word: `union Instruction`, `parse_instruction`, offsets, `gen_imm`, and the three decoders | `Control` |
| `Decoding` | any word of 32 bits, and what must hold of its decoding | `Encoding` |
| `MCPipeline`, `MCSimulator`, `MCAlu`, `MCCache` | instances for TLC | `PipelineDelayed`; `MCPipeline`, `Simulator`; `Execute`, `Decoding`; `CacheAccess`, INSTANCE `CachePolicy` |
| `CacheLemmas` | lemmas about the operators of `Cache` | `Cache` |
| `CacheProofs` | theorems about the cache, and that it implements its policy | `CacheAccess`, `CacheLemmas` |
| `PipelineProofs` | lemmas about words and `Memory`; types and wires of the pipeline | `Pipeline`, `CacheLemmas` |
| `RefinementProofs` | hazards, order, operands, counters; the pipeline implements the emulator, and the static rule on programs is enough for that | `PipelineIsa`, `PipelineProofs` |
| `DelaySlotProofs` | the pipeline without flush implements the machine with delay slots | `PipelineDelayed`, `RefinementProofs` |
| `SimulatorProofs` | the driver: from the emulator's loop to the end of the flush it executes the program in memory; what the counting loop and the flush do to it | `Simulator`, `RefinementProofs` |
| `AluProofs` | the ALU computes what the handlers of the emulator compute | `Execute` |
| `EncodingProofs` | theorems about every word of 32 bits | `Decoding` |

**Correspondence.** `PROJECT.json` maps every definition to its lines. In
outline:

- An *instruction* is a record of format `op`, operation `fn`, the raw register
  fields of the word and the immediate. `rs1` and `rs2` are the bits 19..15 and
  24..20 *whatever the format*, because `detect_hazard` compares bits: part of
  an immediate can cause a stall. Words whose funct3 no switch knows are `fn =
  "other"`; words whose funct7 the handlers reject are left out. `Encoding` works on
  the bits themselves, and its `instruction(w)` is the record that the other
  modules have for a word: opcode and the 25 bits above it, as in the first struct
  of the union, with shifts as divisions and multiplications.
- `Pipeline` keeps the output halves of the pipeline registers; the input halves
  are `ifid_inp` ... `memwb_inp`, computed in the order of the code, where the
  order matters: decode takes `R`, not `R'`; execute takes the wires of the
  *previous* mem and execute; the ecall check takes `R'`. The wires that are set
  and consumed in one cycle (`flush_control`, `ifid_write`, `forward_a`,
  `forward_b`) are values of the step. `pc_write`, `pcsrc`, `pc_src0`,
  `pc_src1`, `write_data` and `alu_result` live on and are the variable `wires`.
- `cycle_pipeline` is one action. `parse_failure` is the other: `stage_fetch`
  calls `exit(EXIT_FAILURE)` on an unknown opcode.
- `Simulator` has the program counter of `main()` as `phase`: the emulator's loop
  (`emulate_instruction`, `leave_emulator`), the pipeline's (`simulate_cycle`,
  `load_flush`), the flush (`flush_cycle`) and the report. `-e`, `-m` and `-s` are the
  variable `opt`, chosen once. `simins` is shared by the loops as it is in the code:
  with `-m -s` and without `-e` the second loop finds it at its end.
- `FLUSH.input` is loaded at the wire `pc_src0`, as in the code, and not at the
  address that fetch uses next; the two differ when a stall or a taken branch is
  pending.
- In the other modules, `config.h` and the command line are constants: `PRINT_STATS` (which, besides
  printing, decides whether a taken branch flushes), `PRINT_CACHE_STATS`,
  `MEM_LATENCY`, `CACHE_LFU`, `cache_en`. `CACHE_ENABLE` (compile time) and `-c`
  (run time) are one constant: the tests set them together.
- `pipeline.c:46` reads `pwires_p->p csrc` in this commit and does not compile;
  it is modelled as `pcsrc`, the field that `stage_mem` sets.

**Abstractions.** A byte has `ByteMod` values and a word is four of them; all
arithmetic wraps at that width as it does at 2^32. Addresses wrap at
`MEMORY_SPACE`; the code does not check them and is undefined outside. Code and
data memory are kept apart: programs that modify themselves are not modelled;
what `FLUSH.input` overwrites is. Shifts by
the word width or more, undefined in C, take the amount modulo the width as the
x86 build does; emulator and pipeline share this reading, so the model says nothing
about such shifts. `tag` and `block_addr` of a line are 0 until the line is valid
where the code leaves them uninitialised; no line is read before.

## 3. The contract

The pipeline does *not* execute every program as the emulator does. `PipelineIsa`
names the exceptions, each with a run that shows it:

- `StaleRead`: a register is written back in the cycle in which it is read
  (distance of three slots, stalls counted): the reader gets the old value. Run
  `stale_read`.
- `ShadowStall`: `detect_hazard` stalls in the cycle in which a branch is taken;
  `pc_write` survives the flush and fetch resumes one instruction before the
  target. Run `shadow_stall`. The stall is counted although it holds nothing:
  `SquashedStallsCounted` says that this is all by which the printed stalls and
  branches exceed the cycles.
- `jal` with `rd # x0` leaves its target in `rd`. Run `jal_link`.
- `mulh`, `div`, `rem` run as `sll`, `xor`, `or`. Run `multiply`.
- An ecall that is neither exit nor print ends the emulator and is nothing to
  the pipeline (`UnknownEcall`); words with an unknown funct3 are treated
  differently (`Supported`).

`SafeSpec` is the pipeline as long as none of these happens, and under it the
pipeline implements the emulator step for step. `WellScheduled` is a condition
on the text of a program alone that excludes the first two: no reader stands at
a gap of exactly three slots behind the last writer of its source, load-use
stalls counted, and no load-use pair stands in the two words right behind a
branch. That it is enough is checked by the run `pipeline_open` and proved
(`ScheduleSuffices`), so that `ScheduledSpec`, the pipeline on well-scheduled
programs, implements the emulator too.

Two more disagreements are the driver's. Without `-e`, "simulate for program
instructions" (`riscv.c:223`) is a loop over *cycles*: every load-use stall but a
pending one cuts an instruction off the end of the program (`StallsCutTail`
states the number; run `counted_cycles` shows the loss). With `-e`, the five
cycles of the flush run on behind the exit ecall: the three words behind it take
effect before registers and memory are reported, and nothing further down does unless
one of the three takes a branch. If they are NOPs, as in the programs of the
repository that exit, the state is what the exit left (`ExitKeepsState`).

The counter `simins` is shared by the emulator's loop and the pipeline's. With `-m -s`
and without `-e` the pipeline therefore executes nothing of the program, only the
flush, and the program takes effect once (`EmulatedOnce`).

## 4. The runs

| Run | Specification | Checks |
|---|---|---|
| `pipeline_data` | `MCSafeSpec`, all programs of 4 instructions over 13 on data | types; load-use stalls in time; operands current; **implements the emulator** |
| `pipeline_control` | `MCSafeSpec`, 4 instructions over 10 with branches in both directions, jumps, ecalls; cache on, latency 0 | program order; bubbles and squashed instructions harmless, on the forwarding wires too; a stall lasts one cycle; every cycle is accounted for; fetch fails only near the end; accesses counted where hits take as long as misses; **implements the emulator** |
| `pipeline_open` | `MCSpec` (no contract), 5 instructions over 8, cache on, latency 3 | hits, misses and cycles as printed; stalls squashed by a branch are counted in excess, and nothing else is; well-scheduled programs keep the contract |
| `delay_slots` | `MCSafeSpec` with `PRINT_STATS` undefined, 4 instructions over 9 with branches within three words of each other | **implements the machine with three delay slots** |
| `simulator` | `MCMainFairSpec`, 5 instructions over 6 (4 and the exit sequence with `-e`), every choice of `-e`, `-m`, `-s` | the flush drains the pipeline; what the counting loop executes; fetch fails only behind a taken branch; **emulator, loop and flush together execute the program in memory**; what the flush changes behind the exit; no program takes effect twice; `main()` ends |
| `alu` | `MCAlu`: all pairs of 4-bit operands with every memory of 6 cells of one bit; 300,000 words of 32 bits | ALU, ALU control and branch decision against the handlers; loads of every width read what a store left, with its sign; parsing keeps every bit; immediates as in the RISC-V formats; pipeline and disassembler read the instruction that the emulator executes |
| `cache` | all sequences of 7 accesses to 6 addresses, both policies side by side | no duplicate blocks; stamps strict; lines in place; every access changes the one line the policy names; **implements the policy** (`ImplementsPolicy` of the cache under test, `ImplementsLRU` of its LRU twin) |
| `stale_read`, `shadow_stall`, `jal_link`, `multiply` | the same instances without the contract | the first four disagreements of section 3, as counterexamples |
| `counted_cycles` | `MCMainSpec`, 4 instructions over 6 | a program that loses its last instruction to a stall, as a counterexample |

**Bounds.** `ByteMod` 4 gives words of 8 bits, so that sign extension of bytes and
halves, wrap-around and negative offsets all happen; `NumRegs` 4 are x0, a0, and two
registers that start as data addresses; `MEMORY_SPACE` 8 or 16 cells make partial
overlaps of byte, half and word accesses common. A body of four or five instructions
followed by the exit sequence fills every stage with arbitrary instructions at once: no
mechanism of the pipeline looks further than three slots back, and the exit sequence
itself reads a0 at distance one. `MaxSteps` (24 to 40 cycles) is longer than every
program without a backward loop and cuts off loops after two or three rounds. The
driver's programs over loads, stores, branches in both directions and exits have up to
two stalls and a redirect pending when the flush begins; with `-e` they have four
instructions and the exit sequence, without it they end behind the fifth. The words of
the run `alu` combine every single bit of each register field, and all of its bits
together, with every funct3, every funct7 that a switch knows and its neighbours, and
every opcode, two unknown ones included. Two sets of three lines and seven accesses fill
a set and evict from it repeatedly with every order of use. Four bits of ALU operands
cover all sign combinations and every shift amount; six cells hold a store of four bytes
that wraps around the end of memory, and two that it must not touch. `pipeline_control`
has the `MEM_LATENCY` 0 of `config.h`, `pipeline_open` the latency 3 that tells hits
from misses.

`CHECK_DEADLOCK FALSE` is given where a simulation really stops: at the exit
ecall, at a rejected word, or at the bound.

**Fairness.** Only `MainEnds` needs it: weak fairness of `MainNext`, because
`main()` is sequential and takes its next step as long as there is one. Nothing
else is scheduled. `main()` ends under every choice of options without `-e`, and
with it for programs without backward jumps; a program that loops for ever does
so with `-e` in the code as in the model. The bound on cycles is beyond the end of
all these programs: an instance that reached it without ending would violate
`MainEnds`.

Every property is paired with a plausible slip in the code (`PROJECT.json`,
"mutants"; the definitions named `<operator>_<Fault>`) that it detects.

## 5. The proofs

Everything below is proved by TLAPS for every value of the constants: every
width of a word, number of registers, size of memory, cache geometry and
latency, and for every program of any length. The proofs rest on the named
assumptions of the modules and on nothing else:
`ByteModAssumption`, `NumRegsAssumption`, `MemorySpaceAssumption` (`Isa`),
`MachineAssumption` (`Machine`: the initial values are words, a0 is not x0),
`AluAssumption` (`Pipeline`: the ALU maps words to words), `ConfigAssumption`,
`EcallAssumption`, `FlushAssumption` (`Simulator`: `FLUSH.input` and the three
words in flight before it fit into the address space), the three of `Cache`, and
in `Alu` `WordBitsAssumption`, `LuiShiftAssumption` and `PowersAssumption` (the
rule 2^(n+1) = 2 * 2^n below the width: the solver knows no powers).
TLC evaluates each of them on the instances it checks.

| Theorem | Of | Says |
|---|---|---|
| `TypeCorrect` | `Spec` | `TypeOK` |
| `StallsEnd` | `Spec` | a load-use stall lasts one cycle |
| `Bubbles` | `HSpec` | bubbles and squashed instructions have no effect |
| `LoadsWaitedFor` | `HSpec` | no address is forwarded in place of a loaded value |
| `ForwardedFromProgram` | `HSpec` | no operand comes from the wire of a bubble or of a squashed instruction, and each is what is written back later (`ForwardsFromProgram`) |
| `OrderKept` | `HSpec`, `PRINT_STATS` | nothing in flight is lost, repeated or reordered |
| `FetchStopsNearEnd` | `HSpec`, `PRINT_STATS` | fetch runs ahead by three words at most |
| `DelaySlotsImplemented` | `SafeSpec`, `PRINT_STATS` undefined, `AluImplementsHandlers` | **the pipeline without flush implements the machine with three delay slots** (`ImplementsDelaySlots`) |
| `AccessesAddUp` | `HSpec` | every access is counted once; with a cache and a latency of 0, once as a hit and once as a miss (`AccessesCounted`) |
| `CyclesAddUp` | `HSpec` | with `PRINT_CACHE_STATS` and a latency above 0, the printed cycles are the clock cycles and the printed memory stalls (`CyclesReported`) |
| `OperandsRight` | `SafeSpec` | operands are those of the program order |
| `CyclesExplained` | `SafeSpec`, `PRINT_STATS` | every cycle is accounted for |
| `ExcessExplained` | `HSpec`, `PRINT_STATS` | without the contract, the stalls squashed by a taken branch are all that is counted in excess (`SquashedStallsCounted`) |
| `Refinement` | `SafeSpec`, `PRINT_STATS`, `AluImplementsHandlers` | **the pipeline implements the emulator** |
| `ScheduleSuffices` | `HSpec`, `PRINT_STATS` | a well-scheduled program never breaks the contract |
| `ScheduledRefinement` | `ScheduledSpec`, `PRINT_STATS`, `AluImplementsHandlers` | **the pipeline implements the emulator for every well-scheduled program** |
| `DriverSimulates` | `MainSpec`, `PRINT_STATS`, `AluImplementsHandlers` | **emulator, loop and flush execute the program in memory** (`SimulatesEmulator`), for every choice of `-e`, `-m`, `-s` and every length of `FLUSH.input` |
| `DriverTypeCorrect` | `MainSpec`, `PRINT_STATS`, `ArithOnWords` | `MainTypeOK` |
| `ExitStateKept` | the same | what the flush changes behind the exit ecall of `-e` is the effect of the three words behind it, or follows a branch that one of them takes; nothing changes if they are NOPs (`ExitKeepsState`) |
| `ProgramRunsOnce` | the same | with `-m` and without `-e`, nothing changes registers or memory after the emulator (`EmulatedOnce`) |
| `FlushDrains` | the same, `FLUSH_LINES >= 5` | after the flush every instruction of the program has left the pipeline, unless a branch redirected fetch or more than one stall came late (`Drained`) |
| `TailCut` | the same, `FLUSH_LINES >= 5` | how many instructions the loop without `-e` executes: one fewer for every stall but a pending one (`StallsCutTail`) |
| `FailsRedirected` | `MainSpec`, `FileProgram`, `PRINT_STATS`, `ArithOnWords`, `AluImplementsHandlers` | fetch rejects a word only after a taken branch (`FailsOnlyRedirected`) |
| `BlocksUnique`, `StampsStrict`, `LinesAtHome` | `CSpec` | the sets of the cache stay in order |
| `PolicyObeyed` | `CSpec` | every access changes the one line that the policy names (`ReplacesByPolicy`) |
| `PolicyImplemented` | `CSpec` | **the cache implements its policy, LRU or LFU** (`ImplementsPolicy`) |
| `AluImplementsArith` | all words | the ALU under its ALU control computes what the handlers compute |
| `RtypeCorrect`, `ImmediatesCorrect`, `BranchesCorrect` | `ESpec` | the execute stage does, for every operation outside the multiply group and every pair of operands |
| `MemoryReturns` | `ESpec`, `MEMORY_SPACE >= 4` | a load within the bytes of a store reads them with their sign, and the store changes no other cell (`LoadsReadStores`) |
| `NoBitLost`, `OffsetsRight`, `DisassemblyRight`, `DecodesAsEmulator` | `WSpec`, every word of 32 bits | parsing, immediates, disassembler and ALU control agree with the formats and the emulator |

**Hypotheses.** None of them is an assumption on a module; each stands in the
statement of the theorem.

- `PRINT_STATS`, because without it a taken branch does not flush (and then
  `DelaySlotsImplemented` says what the pipeline does).
- `AluImplementsHandlers`: the ALU agrees with the handlers of the emulator on the
  operations both have. `Pipeline` takes both as constants; for `execute_alu` and
  `Arith`, which the instances put in their place, it is the theorem
  `AluImplementsArith`.
- `ArithOnWords`: what a handler writes to `rd` is a word, also for the operations
  on which the ALU disagrees. A C register has the width of a word whatever is
  assigned to it.
- `FLUSH_LINES >= 5`: `FLUSH.input` has five lines. With fewer the flush does not
  drain the pipeline.
- `FileProgram`: what `load_program` makes of a file. It stores one word for each
  line from `START` on and no line is the zero word; with `-e` the last five are
  `li a0`, the exit ecall and three more words, as in `vec_xprod.input`,
  `multiply.input` and `testset_1.input`. Not every file of the repository satisfies
  it: `random.input` sets a0 with `addi a0, a0, 10`, which exits only if a0 was 0
  before, and the files in `I`, `R` and `LS` have no exit at all. Every initial state
  of the run `simulator` satisfies it. Without it
  fetch may run into the zero words behind a shorter program.
- `MEMORY_SPACE >= 4`: in a memory of fewer cells than a word has bytes, a store
  overwrites its own first byte.
- The contract of section 3, in `SafeSpec`: the runs `stale_read`, `shadow_stall`,
  `jal_link` and `multiply` show that it cannot be dropped.

**The argument.** None of the properties is inductive as it stands.

- *Wires.* `ControlInv` joins two facts: each wire carries what its pipeline register
  computes (`WiresCoherent`, an invariant that is only a step of the proofs), and the
  cycle after a stall has a bubble in execute that does not read memory
  (`StallMadeBubble`): the hazard unit cannot see the same load twice. That the
  register a wire is taken from is one of the program needs `BubblesHarmless`, and that
  its value is the one written back later needs `LoadUseStalled` (`ForwardsLive`).
- *Slots.* `BubblesHarmless` is inductive because a bubble hands its cleared
  control lines on. `ControlsMatch` adds that a valid slot carries the control
  lines of its instruction, and that no lines ever combine a register write from
  memory without a read, or a branch with a read. From it follow load-use
  stalling (what forwards from EX/MEM as a load was seen by `detect_hazard` one
  cycle before) and the counting of accesses.
- *Order.* `FetchAhead`: a valid slot in decode or execute has a valid IF/ID behind
  it, since a stall holds it and a flush empties all three. With it
  `ProgramOrder` is inductive; stepping the PC back by one word after a stall
  undoes the increment modulo the word (`StepBack`).
- *Operands.* `ReadCurrent`: what decode read is still in the register file unless
  one of the two instructions in front forwards the register. It survives a
  cycle exactly because `StaleRead` is excluded.
- *Cycles.* `GapAfterLoad`: an empty slot behind a valid one is the bubble of a
  load, so that a taken branch has three valid instructions behind it and
  flushes exactly three. `CycleExplained` is the count of one cycle: it is exact unless
  a stall and a taken branch meet, and then it is one too many.
- *Refinement.* `Simulation` joins these with `InFlight` (slots hold what the
  program has at their address), `ResultCurrent` (EX/MEM holds the result over
  the registers of the emulator at that moment), `ZeroRegister` and
  `BubbleEcall`. The last is needed because the exit ecall is recognised by the
  bits of the instruction and the bubble of a stalled ecall keeps them: the
  process then exits one cycle early, at the same ecall with the same a0. What does
  not depend on the flush is `Datapath`, which the delay-slot refinement shares. A
  cycle in which a bubble leaves mem maps to a stutter (`BubbleStep`), one in
  which an instruction leaves maps to the handler of its format
  (`InstructionStep`, one case per handler).
- *Delay slots.* The abstract machine keeps the addresses of the next four
  instructions. `Queue` reads them off the slots: only a load has an empty slot
  behind it (`GapAfterLoad`), so each of the five cases of the slots has one queue,
  and a taken branch replaces its last entry.
- *Cache.* `SetOK` is preserved whichever line a loop picks: a line is filled only
  for a tag that no valid line has, with a stamp beyond all others; set and tag
  of a block determine its address (`BlockOf`).
- *Schedule.* `Slots` says what the hazard unit makes of a program, without its
  values: what is in MEM/WB is an instruction of the program with its control lines
  (`WritingBack`), the slots behind it continue the program (`OrderBehind`), and a
  bubble stands between two instructions exactly when they are a load and its user
  (`PairsApart`). With `InFlight` the distance of two slots is then the `Gap` of the
  text, and the two conjuncts of `WellScheduled` exclude the two breaches of the
  contract (`NoStaleRead`, `NoShadowStall`).
- *Driver.* `Kept` collects what the pipeline keeps from cycle to cycle without
  looking at the initial registers and memory, so that the emulator's loop only has
  to leave words and a zero in x0 (`EmulatorType`). `load_flush` changes the program
  under the instructions in flight: they stand at the four addresses in front of
  `pc_src0`, or nothing is in flight behind a redirect (`Squashed`), and with
  `FlushAssumption` these are not among the words written (`FlushAhead`). A process
  that fetch has ended takes no further step (`FailedIsDead`).
- *Driver without the contract.* The facts about the driver hold for every program,
  so they rest on the part of `Kept` that needs no contract (`Sound`; both calls of
  `HSpec` without its guard are `HCall`). When the loop of
  `-e` ends, what is in flight are the three words behind the ecall, and fetch is behind
  them or at the third once more (`ExitWindow`). In the flush there are then, until a
  branch is taken, only NOPs, ecalls, bubbles and those of the three that are not NOPs
  (`OnlyNops`), so whatever has an effect is one of these; if there are none, no branch
  is ever taken (`NopsStay`). After the emulator of `-m` without `-e` the same holds of
  an empty pipeline (`EmptyLoop`).
  `FlushInv` says where in `FLUSH.input` the slots are, counted from the address at
  which it was loaded, minus the word that a pending stall still owes: after five
  cycles everything in flight is of `FLUSH.input`. `CountInv` gives the number of
  instructions begun as cycles minus stalls, before and after loading.
- *End of the program.* Until a branch is taken, fetch is at line `Begun` of the
  program (`Straight`), so it meets a word of no known format only beyond the last
  line. Without `-e` the loop ends before that and `FLUSH.input` is then in front
  (`FlushTail`). With `-e` it is three words behind the exit ecall, and by then the
  ecall has left mem with `a0` set by the instruction in front of it (`ExitValue`,
  `ExitAhead`): the check of the ecall reads `a0` after writeback.
- *Policy.* A loop that looks for a least line finds one because the numbers have no
  infinite descent (`Least`, from the well-foundedness of `Nat`); distinct stamps
  make it the only one (`VictimIsLeast`), and distinct addresses make the lookup by
  address come back to it. That `probe_cache` compares tags and the property
  addresses is bridged by `HoldsBlock`.
- *Policy refinement.* The abstract policy speaks of blocks: which are held, how often
  each was used, and which is older. A held block is in exactly one line
  (`NoDuplicateBlocks`), so the blocks of a set are as many as its valid lines
  (a bijection, for the guard on the capacity), uses are the counters and age is the
  order of the stamps; a renewed line gets the largest stamp.
- *ALU.* Signed comparison and `sra` differ in form: the ALU fills with the sign bit of
  a width that depends on the shift, the handlers divide a signed number, and the
  two are equal by the arithmetic of quotients (`DivShift`, `SraAgrees`). `&`, `|`
  and `^` are constants, the same in both.
- *Memory.* A stored word is its four digits in base `ByteMod`, kept in cells that are
  distinct because there are at least four; a load joins neighbouring digits again, and
  its extension is the sign of the top digit because a byte has an even number of
  values.
- *Bits.* Every field is a quotient and a remainder of the 25 bits above the opcode;
  the proofs rewrite the shifted pieces as sums and leave linear arithmetic to the
  solver, one lemma per format.

The proof of `AluImplementsArith` found one slip of the model: the CASE in `Arith`
had two guards that both held for `lui`, which left its value open. TLC took the
first one and saw nothing; `Arith` now asks for `lui` first.

**Only model-checked:** `MainEnds`, which is liveness, and the properties of the
five runs that end in a counterexample, which are false. Every other property
that a run checks is the conclusion of a theorem, except that `ImplementsLRU`
speaks of a second cache beside the first: it is `PolicyImplemented` with
`CACHE_LFU` = 0.

## 6. Not modelled, and the plan

Left out, with the reason:

- printed traces, reports and the memory dump: output, which changes no state;
- the parsing of options and of the input file: `opt` and `imem` are what they
  result in;
- stores into the program, apart from `FLUSH.input`: code and data are separate in
  the model, as they are in every program of the repository;
- accesses outside memory, undefined in the code: addresses wrap;
- overflow of the counters (64-bit in the pipeline, `int` in the cache), which the
  bounds of the runs and the life of a simulation do not reach;
- `deallocate`, the test scripts, the reference traces and the recorded cache
  exploration, which hold no behaviour of the simulator.

What is left to do, in this order:

1. `OperandsRight` without the contract: which operand a reader gets in the cycle of
   a `StaleRead`, so that the disagreement is described and not only excluded.
2. `AluImplementsHandlers` as a theorem of an instance that puts `execute_alu` and
   `Arith` in place of the constants, so that `Refinement` can be stated there
   without the hypothesis.
3. The number of cycles of a program without taken branches, as a theorem: the
   driver adds the latencies of the cache to what `CycleAccounting` counts.
