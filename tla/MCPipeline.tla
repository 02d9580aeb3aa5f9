----------------------------- MODULE MCPipeline ------------------------------
(***************************************************************************)
(* Small instances of the pipeline.  Every program of BodyLength           *)
(* instructions from an alphabet is simulated, followed by an exit ecall   *)
(* and the three words that fetch runs ahead.                              *)
(***************************************************************************)
EXTENDS PipelineDelayed, Bitwise, TLC

CONSTANTS
  Alphabet,    (* The instructions a program is made of.                    *)
  BodyLength,  (* Number of instructions before the exit.                   *)
  MaxSteps     (* Bound on the number of cycles of a simulation.            *)

BitAnd(x, y) == x & y
BitOr(x, y)  == x | y
BitXor(x, y) == x ^^ y

C == INSTANCE Alu WITH WordBits <- 8, LUI_SHIFT <- 3
MCALU(a, b, control) == C!execute_alu(a, b, control)
MCARITH(op, fn, a, b) == C!Arith(op, fn, a, b)

(***************************************************************************)
(* Instructions, with the raw register bits of their formats: the low bits *)
(* of the immediate stand where the format has no register.                *)
(***************************************************************************)
Raw(imm) == imm % NumRegs

Rtype(fn, rd, rs1, rs2) ==
  [op |-> "rtype", fn |-> fn, rd |-> rd, rs1 |-> rs1, rs2 |-> rs2, imm |-> 0]
Itype(fn, rd, rs1, imm) ==
  [op |-> "itype", fn |-> fn, rd |-> rd, rs1 |-> rs1, rs2 |-> Raw(imm), imm |-> imm]
Load(fn, rd, rs1, imm) ==
  [op |-> "load", fn |-> fn, rd |-> rd, rs1 |-> rs1, rs2 |-> Raw(imm), imm |-> imm]
Store(fn, rs2, rs1, imm) ==
  [op |-> "store", fn |-> fn, rd |-> Raw(imm), rs1 |-> rs1, rs2 |-> rs2, imm |-> imm]
Branch(fn, rs1, rs2, imm) ==
  [op |-> "branch", fn |-> fn, rd |-> Raw(imm), rs1 |-> rs1, rs2 |-> rs2,
   imm |-> imm % WordMod]
Jal(rd, imm) ==
  [op |-> "jal", fn |-> "other", rd |-> rd, rs1 |-> 0, rs2 |-> Raw(imm), imm |-> imm]
Lui(rd, imm) ==
  [op |-> "lui", fn |-> "other", rd |-> rd, rs1 |-> Raw(imm), rs2 |-> 1, imm |-> imm]
Ecall == [op |-> "ecall", fn |-> "other", rd |-> 0, rs1 |-> 0, rs2 |-> 0, imm |-> 0]

(* x1 is a0; x2 and x3 start as addresses of data.                         *)
DataAlphabet ==
  {Rtype("add", 1, 2, 3), Rtype("sub", 2, 1, 1), Itype("add", 3, 2, 5),
   Load("lw", 1, 2, 0), Load("lb", 2, 3, 1), Load("lw", 0, 2, 0),
   Store("sw", 1, 3, 0), Store("sb", 2, 1, 2), Store("sh", 1, 2, 1),
   Load("lh", 3, 1, 2), Rtype("mul", 2, 3, 1), Lui(1, 9), NOP}

ControlAlphabet ==
  {Branch("beq", 1, 0, 8), Branch("bne", 1, 2, 12), Branch("bne", 3, 1, -4),
   Jal(0, 8), Load("lw", 1, 2, 0), Load("lw", 1, 1, 0), Rtype("add", 2, 1, 1),
   Itype("add", 1, 1, 1), Store("sw", 1, 2, 0), Ecall}

(* Load-use pairs next to independent instructions and to branches, at     *)
(* addresses of several blocks, so that lines are hit, filled and evicted. *)
OpenAlphabet ==
  {Load("lw", 1, 2, 0), Load("lw", 2, 1, 4), Load("lb", 3, 0, 8),
   Store("sw", 2, 0, 4), Store("sb", 1, 2, 12), Rtype("add", 3, 1, 2),
   Itype("add", 1, 3, 1), Branch("beq", 1, 0, 8)}

(* Branches and jumps within three words of each other, in both            *)
(* directions.                                                             *)
DelayAlphabet ==
  {Branch("beq", 1, 0, 12), Branch("bne", 2, 1, -4), Jal(0, 8), Jal(0, 20),
   Load("lw", 1, 2, 0), Rtype("add", 2, 1, 1), Itype("add", 1, 1, 3),
   Store("sw", 1, 2, 0), Ecall}

(* Calls. *)
CallAlphabet == {Jal(2, 8), Itype("add", 1, 2, 1), NOP}

Exit == <<Itype("add", A0, 0, EXIT_CALL), Ecall, NOP, NOP, NOP>>

Word4(k) == Plus(START, 4 * k)

Program(body) ==
  [a \in {Word4(k) : k \in 0 .. (BodyLength + 4)} |->
     LET k == Minus(a, START) \div 4
     IN IF k < BodyLength THEN body[k] ELSE Exit[k - BodyLength + 1]]

MCInit == /\ imem \in {Program(body) : body \in [0 .. (BodyLength - 1) -> Alphabet]}
          /\ HInit

Bounded == steps < MaxSteps

MCNext == Bounded /\ HNext
MCSpec == MCInit /\ [][MCNext]_<<vars, history>>

MCSafeInit == MCInit /\ SupportedProgram
MCSafeNext == Bounded /\ SafeNext
MCSafeSpec == MCSafeInit /\ [][MCSafeNext]_<<vars, history>>
=============================================================================
