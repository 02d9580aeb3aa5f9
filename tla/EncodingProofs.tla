--------------------------- MODULE EncodingProofs ----------------------------
(***************************************************************************)
(* Theorems about every word of 32 bits.                                   *)
(***************************************************************************)
EXTENDS Decoding, TLAPS

(* The fields of each format, put back in their places, are the bits.      *)
LEMMA RepackedRtype ==
  ASSUME NEW r \in Rest
  PROVE  (r % 32) + 32 * ((r \div 32) % 8) + 256 * (((r \div 32) \div 8) % 32)
           + 8192 * ((((r \div 32) \div 8) \div 32) % 32)
           + (8192 * 32) * (((((r \div 32) \div 8) \div 32) \div 32) % 128) = r
BY SMT DEF Rest

LEMMA RepackedItype ==
  ASSUME NEW r \in Rest
  PROVE  (r % 32) + 32 * ((r \div 32) % 8) + 256 * (((r \div 32) \div 8) % 32)
           + 8192 * ((((r \div 32) \div 8) \div 32) % 4096) = r
BY SMT DEF Rest

LEMMA RepackedUtype ==
  ASSUME NEW r \in Rest
  PROVE  (r % 32) + 32 * ((r \div 32) % (1024 * 1024)) = r
BY SMT DEF Rest

(* parse_instruction keeps every bit of every word but an ecall.           *)
LEMMA KeepsBits ==
  ASSUME word \in MachineWord
  PROVE  FieldsKept
<1>1. word.rest \in Rest
  BY SMT DEF MachineWord, Rest
<1>2. SUFFICES ASSUME Known(word), OP(word) # "ecall"
               PROVE  parse_instruction(word) = word
  BY SMT DEF FieldsKept
<1>3. OP(word) \in {"rtype", "store", "branch", "itype", "load", "lui", "jal"}
  BY <1>2, SMT DEF Known, OP
<1>4. parse_instruction(word) = [word EXCEPT !.rest = word.rest]
  <2>1. CASE OP(word) \in {"rtype", "store", "branch"}
    BY <1>1, <2>1, RepackedRtype, SMT DEF parse_instruction, After
  <2>2. CASE OP(word) \in {"itype", "load"}
    BY <1>1, <2>2, RepackedItype, SMT DEF parse_instruction, After
  <2>3. CASE OP(word) \in {"lui", "jal"}
    BY <1>1, <2>3, RepackedUtype, SMT DEF parse_instruction, After
  <2> QED
    BY <1>3, <2>1, <2>2, <2>3
<1> QED
  BY <1>4, SMT DEF MachineWord

(* Bit 31 of a word is the highest bit of funct7 and of the 20 bits.       *)
LEMMA SignBit ==
  ASSUME NEW w \in MachineWord
  PROVE  /\ FUNCT7(w) \in 0 .. 127
         /\ IMM20(w) \in Nat /\ IMM20(w) < 1024 * 1024
         /\ Bits(w, 4096 * 4096, 2) = FUNCT7(w) \div 64
         /\ Bits(w, 4096 * 4096, 2) = IMM20(w) \div (1024 * 512)
         /\ Bits(w, 4096 * 4096, 2) \in 0 .. 1
BY SMT DEF MachineWord, Rest, FUNCT7, IMM20, Bits

(* The bits of a jump below its sign bit.                                  *)
LEMMA JumpBits ==
  ASSUME NEW n \in Nat, n < 1024 * 1024
  PROVE  /\ n \div (1024 * 512) \in 0 .. 1
         /\ n % 256 \in 0 .. 255
         /\ (n \div 256) % 2 \in 0 .. 1
         /\ (n \div 512) % 1024 \in 0 .. 1023
BY SMT

(* The offset functions put the scattered bits of every word together as   *)
(* the formats of RISC-V say.                                              *)
LEMMA BranchOffset ==
  ASSUME NEW w \in MachineWord
  PROVE  get_branch_offset(w) = 2048 * Bits(w, 1, 2) + 32 * Bits(w, 8192 * 32, 64)
                                + 2 * Bits(w, 2, 16) - 4096 * Bits(w, 4096 * 4096, 2)
<1> DEFINE sign == FUNCT7(w) \div 64
           low  == 2048 * (RD(w) % 2) + 32 * (FUNCT7(w) % 64) + 2 * ((RD(w) \div 2) % 16)
<1>1. w.rest \in Nat
  BY SMT DEF MachineWord, Rest
<1>2. FUNCT7(w) \in 0 .. 127 /\ Bits(w, 4096 * 4096, 2) = sign /\ sign \in 0 .. 1
  BY SignBit, SMT
<1>3. RD(w) \in 0 .. 31 /\ RD(w) % 2 = Bits(w, 1, 2) /\ (RD(w) \div 2) % 16 = Bits(w, 2, 16)
  BY <1>1, SMT DEF RD, Bits
<1>4. FUNCT7(w) % 64 = Bits(w, 8192 * 32, 64)
  BY DEF FUNCT7, Bits
<1>5. low \in Nat /\ low < 4096 /\ sign % 2 = sign
  BY <1>2, <1>3, SMT
<1>6. 2 * (2048 * (sign % 2) + 1024 * (RD(w) % 2) + 16 * (FUNCT7(w) % 64)
           + ((RD(w) \div 2) % 16)) = 4096 * sign + low
  BY <1>2, <1>3, <1>5, SMT
<1>7. get_branch_offset(w) = sign_extend(4096 * sign + low, 8192)
  BY <1>6 DEF get_branch_offset
<1>8. sign_extend(4096 * sign + low, 8192) = low - 4096 * sign
  <2> HIDE DEF sign, low
  <2> QED
    BY <1>2, <1>5, SMT DEF sign_extend
<1> QED
  BY <1>2, <1>3, <1>4, <1>5, <1>7, <1>8, SMT

LEMMA JumpOffset ==
  ASSUME NEW w \in MachineWord
  PROVE  get_jump_offset(w) = 4096 * Bits(w, 32, 256) + 2048 * Bits(w, 8192, 2)
                              + 2 * Bits(w, 16384, 1024)
                              - (1024 * 1024) * Bits(w, 4096 * 4096, 2)
<1> DEFINE n == IMM20(w)
           sign == n \div (1024 * 512)
           a == n % 256
           b == (n \div 256) % 2
           c == (n \div 512) % 1024
           low  == 4096 * a + 2048 * b + 2 * c
<1>1. w.rest \in Nat
  BY SMT DEF MachineWord, Rest
<1>2. n \in Nat /\ n < 1024 * 1024 /\ Bits(w, 4096 * 4096, 2) = sign
  BY SignBit, SMT
<1>3. a = Bits(w, 32, 256) /\ b = Bits(w, 8192, 2) /\ c = Bits(w, 16384, 1024)
  BY <1>1, SMT DEF IMM20, Bits
<1>4. sign \in 0 .. 1 /\ a \in 0 .. 255 /\ b \in 0 .. 1 /\ c \in 0 .. 1023
  BY <1>2, JumpBits, SMT
<1>5. low \in Nat /\ low < 1024 * 1024
  <2> HIDE DEF a, b, c
  <2> QED
    BY <1>4, SMT
<1>6. 2 * ((1024 * 512) * sign + 2048 * a + 1024 * b + c) = (1024 * 1024) * sign + low
  <2> HIDE DEF sign, a, b, c
  <2> QED
    BY <1>4, SMT
<1>7. get_jump_offset(w) = sign_extend((1024 * 1024) * sign + low, 2 * 1024 * 1024)
  BY <1>6 DEF get_jump_offset
<1>8. sign_extend((1024 * 1024) * sign + low, 2 * 1024 * 1024)
        = low - (1024 * 1024) * sign
  <2> HIDE DEF n, sign, low
  <2>1. CASE sign = 0
    BY <1>5, <2>1, SMT DEF sign_extend
  <2>2. CASE sign = 1
    BY <1>5, <2>2, SMT DEF sign_extend
  <2> QED
    BY <1>4, <2>1, <2>2, SMT
<1>9. low = 4096 * Bits(w, 32, 256) + 2048 * Bits(w, 8192, 2) + 2 * Bits(w, 16384, 1024)
  BY <1>3
<1>10. Bits(w, 32, 256) \in Nat /\ Bits(w, 8192, 2) \in Nat /\ Bits(w, 16384, 1024) \in Nat
  BY <1>3, <1>4, SMT
<1> HIDE DEF n, sign, a, b, c, low
<1> QED
  BY <1>2, <1>4, <1>5, <1>7, <1>8, <1>9, <1>10, SMT

LEMMA StoreOffset ==
  ASSUME NEW w \in MachineWord
  PROVE  get_store_offset(w) = 32 * Bits(w, 8192 * 32, 64) + Bits(w, 1, 32)
                               - 2048 * Bits(w, 4096 * 4096, 2)
<1> DEFINE sign == FUNCT7(w) \div 64
           low  == 32 * (FUNCT7(w) % 64) + RD(w)
<1>1. w.rest \in Nat
  BY SMT DEF MachineWord, Rest
<1>2. FUNCT7(w) \in 0 .. 127 /\ Bits(w, 4096 * 4096, 2) = sign /\ sign \in 0 .. 1
  BY SignBit, SMT
<1>3. RD(w) \in 0 .. 31 /\ RD(w) = Bits(w, 1, 32) /\ FUNCT7(w) % 64 = Bits(w, 8192 * 32, 64)
  BY <1>1, SMT DEF RD, FUNCT7, Bits
<1>4. low \in Nat /\ low < 2048 /\ 32 * FUNCT7(w) + RD(w) = 2048 * sign + low
  BY <1>2, <1>3, SMT
<1>5. get_store_offset(w) = sign_extend(2048 * sign + low, 4096)
  BY <1>4 DEF get_store_offset
<1>6. sign_extend(2048 * sign + low, 4096) = low - 2048 * sign
  <2> HIDE DEF sign, low
  <2> QED
    BY <1>2, <1>4, SMT DEF sign_extend
<1> QED
  BY <1>2, <1>3, <1>4, <1>5, <1>6, SMT

LEMMA LoadOffset ==
  ASSUME NEW w \in MachineWord
  PROVE  sign_extend(IMM12(w), 4096)
           = Bits(w, 8192, 2048) - 2048 * Bits(w, 4096 * 4096, 2)
BY SMTT(60) DEF MachineWord, Rest, Bits, sign_extend, IMM12

LEMMA ReadsOffsets ==
  ASSUME word \in MachineWord
  PROVE  OffsetsFollowIsa
BY BranchOffset, JumpOffset, StoreOffset, LoadOffset, SMT
   DEF OffsetsFollowIsa, gen_imm

(* What the disassembler prints of every word is what the emulator         *)
(* executes for it.                                                        *)
LEMMA ShiftAmount ==
  ASSUME NEW n \in Nat
  PROVE  sign_extend(n % 32, 4096) = n % 32
BY SMT DEF sign_extend

LEMMA UpperBits ==
  ASSUME NEW n \in Nat, n < 1024 * 1024
  PROVE  sign_extend(n, 1024 * 1024) % (1024 * 1024) = n
BY SMT DEF sign_extend

LEMMA FieldsOfWord ==
  ASSUME NEW w \in MachineWord
  PROVE  IMM12(w) \in Nat /\ IMM20(w) \in Nat /\ IMM20(w) < 1024 * 1024
BY SMT DEF MachineWord, Rest, IMM12, IMM20

LEMMA PrintsExecuted ==
  ASSUME word \in MachineWord
  PROVE  DisassemblerAgrees
<1> SUFFICES ASSUME Known(word) PROVE DisassemblerAgrees
  BY DEF DisassemblerAgrees
<1> DEFINE p == parse_instruction(word)
<1>1. CASE OP(word) = "ecall"
  <2>1. OP(p) = "ecall"
    BY <1>1, SMT DEF parse_instruction, OP
  <2> QED
    BY <2>1, SMT DEF DisassemblerAgrees, instruction, decode_instruction, Line, Printed
<1>2. CASE OP(word) # "ecall"
  <2>1. p = word
    BY <1>2, KeepsBits DEF FieldsKept
  <2>2. OP(word) \in {"rtype", "store", "branch", "itype", "load", "lui", "jal"}
    BY <1>2, SMT DEF Known, OP
  <2>3. CASE OP(word) \in {"rtype", "load", "store", "branch"}
    <3>1. /\ write_rtype_rows = execute_rtype_rows
          /\ write_load_rows = execute_load_rows
          /\ write_store_rows = execute_store_rows
          /\ write_branch_rows = execute_branch_rows
      BY DEF write_rtype_rows, execute_rtype_rows, write_load_rows, execute_load_rows,
             write_store_rows, execute_store_rows, write_branch_rows, execute_branch_rows
    <3> QED
      BY <2>1, <2>3, <3>1, SMT
         DEF DisassemblerAgrees, instruction, decode_instruction, Printed,
             emulator_fn, emulator_imm
  <2>4. CASE OP(word) = "itype"
    BY <2>1, <2>4, ShiftAmount, FieldsOfWord, SMT
       DEF DisassemblerAgrees, instruction, decode_instruction, Printed, emulator_fn,
           emulator_imm, write_itype_except_load, write_itype_rows, execute_itype_rows
  <2>5. CASE OP(word) = "jal"
    BY <2>1, <2>5, SMT
       DEF DisassemblerAgrees, instruction, decode_instruction, Printed, emulator_fn,
           emulator_imm, Line
  <2>6. CASE OP(word) = "lui"
    BY <2>1, <2>6, UpperBits, FieldsOfWord, SMT
       DEF DisassemblerAgrees, instruction, decode_instruction, Printed, emulator_fn,
           emulator_imm, Line
  <2> QED
    BY <2>2, <2>3, <2>4, <2>5, <2>6
<1> QED
  BY <1>1, <1>2

(* A search in a table finds a row of the table, or no row has the funct3. *)
LEMMA Found ==
  ASSUME NEW rows, NEW f3, NEW f7, Lookup(rows, f3, f7) # "illegal"
  PROVE  \/ \E r \in rows : r[2] = f3 /\ r[3] = f7 /\ Lookup(rows, f3, f7) = r[1]
         \/ (\A r \in rows : r[2] # f3) /\ Lookup(rows, f3, f7) = "other"
<1>1. CASE \E r \in rows : r[2] = f3 /\ r[3] = f7
  BY <1>1 DEF Lookup
<1>2. CASE ~ \E r \in rows : r[2] = f3 /\ r[3] = f7
  BY <1>2 DEF Lookup
<1> QED
  BY <1>1, <1>2

(* The bits that the ALU control sees, of the funct7 that the tables have. *)
LEMMA FunctBits ==
  ASSUME NEW w \in MachineWord
  PROVE  /\ FUNCT3(w) \in 0 .. 7
         /\ FUNCT7(w) \in Nat
         /\ FUNCT7(w) \in {0, 1} => (2 * IMM12(w)) \div 2048 = 0
         /\ FUNCT7(w) = 32 => (2 * IMM12(w)) \div 2048 = 1
BY SMT DEF MachineWord, Rest, FUNCT3, FUNCT7, IMM12

(* What the control unit tells the ALU control of each format.             *)
LEMMA AluOps ==
  ASSUME NEW i
  PROVE  /\ i.op = "rtype" => gen_control(i).alu_op = <<0, 1, 0>>
         /\ i.op = "itype" => gen_control(i).alu_op = <<0, 1, 1>>
         /\ i.op \in {"load", "store", "jal", "ecall"} =>
              gen_control(i).alu_op = <<0, 0, 0>>
         /\ i.op = "branch" => gen_control(i).alu_op = <<0, 0, 1>>
         /\ i.op = "lui" => gen_control(i).alu_op = <<1, 0, 0>>
<1>1. CASE i.op = "rtype"
  BY <1>1, Zenon DEF gen_control, NoControl
<1>2. CASE i.op = "itype"
  BY <1>2, Zenon DEF gen_control, NoControl
<1>3. CASE i.op = "load"
  BY <1>3, Zenon DEF gen_control, NoControl
<1>4. CASE i.op = "store"
  BY <1>4, Zenon DEF gen_control, NoControl
<1>5. CASE i.op = "jal"
  BY <1>5, Zenon DEF gen_control, NoControl
<1>6. CASE i.op = "ecall"
  BY <1>6, Zenon DEF gen_control, NoControl
<1>7. CASE i.op = "branch"
  BY <1>7, Zenon DEF gen_control, NoControl
<1>8. CASE i.op = "lui"
  BY <1>8, Zenon DEF gen_control, NoControl
<1> QED
  BY <1>1, <1>2, <1>3, <1>4, <1>5, <1>6, <1>7, <1>8

LEMMA RtypeControl ==
  ASSUME NEW w \in MachineWord, OP(w) = "rtype", emulator_fn(w) # "illegal"
  PROVE  /\ emulator_fn(w) \in Funct
         /\ alu_control(w) = gen_alu_control(<<0, 1, 0>>, emulator_fn(w))
<1> DEFINE fn == emulator_fn(w)
<1>1. fn = Lookup(execute_rtype_rows, FUNCT3(w), FUNCT7(w))
  BY DEF emulator_fn
<1>2. gen_control([op |-> OP(w)]).alu_op = <<0, 1, 0>>
  BY AluOps, SMT
<1>3. \/ \E r \in execute_rtype_rows : r[2] = FUNCT3(w) /\ r[3] = FUNCT7(w) /\ fn = r[1]
      \/ (\A r \in execute_rtype_rows : r[2] # FUNCT3(w)) /\ fn = "other"
  BY <1>1, Found
<1>4. CASE \E r \in execute_rtype_rows : r[2] = FUNCT3(w) /\ r[3] = FUNCT7(w) /\ fn = r[1]
  BY <1>2, <1>4, SMT
     DEF execute_rtype_rows, alu_control, gen_alu_control, FunctControl, funct7_30,
         funct7_25, AluControl, Funct, RtypeFn
<1>5. CASE (\A r \in execute_rtype_rows : r[2] # FUNCT3(w)) /\ fn = "other"
  <2>1. FUNCT3(w) = 3
    BY <1>5, FunctBits, SMT DEF execute_rtype_rows
  <2> QED
    BY <1>2, <1>5, <2>1, SMT
       DEF alu_control, gen_alu_control, FunctControl, AluControl, Funct, RtypeFn
<1> QED
  BY <1>3, <1>4, <1>5

LEMMA ItypeControl ==
  ASSUME NEW w \in MachineWord, OP(w) = "itype", emulator_fn(w) # "illegal"
  PROVE  /\ emulator_fn(w) \in Funct
         /\ Shifts(w) => FUNCT7(w) \in {0, 32}
         /\ alu_control(w) = gen_alu_control(<<0, 1, 1>>, emulator_fn(w))
<1> DEFINE fn == emulator_fn(w)
           f7 == IF Shifts(w) THEN FUNCT7(w) ELSE 0
<1>1. fn = Lookup(execute_itype_rows, FUNCT3(w), f7)
  BY DEF emulator_fn
<1>2. gen_control([op |-> OP(w)]).alu_op = <<0, 1, 1>>
  BY AluOps, SMT
<1>3. \/ \E r \in execute_itype_rows : r[2] = FUNCT3(w) /\ r[3] = f7 /\ fn = r[1]
      \/ (\A r \in execute_itype_rows : r[2] # FUNCT3(w)) /\ fn = "other"
  BY <1>1, Found
<1>4. CASE \E r \in execute_itype_rows : r[2] = FUNCT3(w) /\ r[3] = f7 /\ fn = r[1]
  BY <1>2, <1>4, FunctBits, SMT
     DEF execute_itype_rows, alu_control, gen_alu_control, FunctControl, funct7_30,
         AluControl, Funct, RtypeFn, Shifts
<1>5. CASE (\A r \in execute_itype_rows : r[2] # FUNCT3(w)) /\ fn = "other"
  <2>1. FUNCT3(w) = 3
    BY <1>5, FunctBits, SMT DEF execute_itype_rows
  <2> QED
    BY <1>2, <1>5, <2>1, SMT
       DEF alu_control, gen_alu_control, FunctControl, AluControl, Funct, RtypeFn, Shifts
<1> QED
  BY <1>3, <1>4, <1>5

(* Of the other formats the ALU control does not look at funct bits.       *)
LEMMA OtherControl ==
  ASSUME NEW w \in MachineWord, Known(w), OP(w) \notin {"rtype", "itype"},
         emulator_fn(w) # "illegal"
  PROVE  /\ emulator_fn(w) \in Funct
         /\ alu_control(w)
              = gen_alu_control(gen_control([op |-> OP(w)]).alu_op, emulator_fn(w))
<1>1. OP(w) \in {"load", "store", "branch", "lui", "jal", "ecall"}
  BY SMT DEF Known, OP
<1>2. gen_control([op |-> OP(w)]).alu_op \in {<<0, 0, 0>>, <<0, 0, 1>>, <<1, 0, 0>>}
  <2> DEFINE i == [op |-> OP(w)]
  <2>1. i.op = OP(w)
    OBVIOUS
  <2> HIDE DEF i
  <2>2. gen_control(i).alu_op \in {<<0, 0, 0>>, <<0, 0, 1>>, <<1, 0, 0>>}
    BY <1>1, <2>1, AluOps
  <2> QED
    BY <2>2 DEF i
<1>3. emulator_fn(w) \in Funct
  BY <1>1, Found, SMT
     DEF emulator_fn, execute_load_rows, execute_store_rows, execute_branch_rows,
         Funct, LoadFn, StoreFn, BranchFn
<1> QED
  BY <1>2, <1>3, SMT DEF alu_control, gen_alu_control

(* For every word that the emulator accepts, decode and execute take the   *)
(* immediate and the ALU control of the instruction the emulator executes. *)
LEMMA DecodesExecuted ==
  ASSUME word \in MachineWord
  PROVE  PipelineDecodes
<1> DEFINE p == parse_instruction(word)
           i == instruction(word)
<1> SUFFICES ASSUME Known(word), emulator_fn(p) # "illegal"
             PROVE  /\ i.op \in Opcode /\ i.fn \in Funct
                    /\ gen_imm(p) = i.imm
                    /\ alu_control(p) = gen_alu_control(gen_control(i).alu_op, i.fn)
  BY DEF PipelineDecodes, Represented
<1>1. p \in MachineWord /\ Known(p) /\ OP(p) \in Opcode
  <2>1. CASE OP(word) = "ecall"
    <3>1. p = [word EXCEPT !.rest = 0] /\ word.opcode = 115
      BY <2>1, SMT DEF parse_instruction, OP
    <3> QED
      BY <3>1, SMT DEF MachineWord, Rest, Known, OP, Opcode
  <2>2. CASE OP(word) # "ecall"
    BY <2>2, KeepsBits, SMT DEF FieldsKept, Known, OP, Opcode
  <2> QED
    BY <2>1, <2>2
<1>2. i.op = OP(p) /\ i.fn = emulator_fn(p) /\ i.imm = emulator_imm(p)
  BY DEF instruction
<1>3. CASE OP(p) = "rtype"
  <2>1. gen_control(i).alu_op = <<0, 1, 0>>
    BY <1>2, <1>3, AluOps
  <2>2. gen_imm(p) = i.imm
    BY <1>2, <1>3, SMT DEF gen_imm, emulator_imm
  <2> QED
    BY <1>1, <1>2, <1>3, <2>1, <2>2, RtypeControl
<1>4. CASE OP(p) = "itype"
  <2>1. gen_control(i).alu_op = <<0, 1, 1>>
    BY <1>2, <1>4, AluOps
  <2>2. gen_imm(p) = i.imm
    BY <1>1, <1>2, <1>4, ItypeControl, SMT DEF gen_imm, emulator_imm
  <2> QED
    BY <1>1, <1>2, <1>4, <2>1, <2>2, ItypeControl
<1>5. CASE OP(p) \notin {"rtype", "itype"}
  <2>1. OP(p) \in {"load", "store", "branch", "lui", "jal", "ecall"}
    BY <1>1, <1>5, SMT DEF Known, OP
  <2>2. gen_imm(p) = i.imm
    BY <1>2, <2>1, SMT DEF gen_imm, emulator_imm
  <2>3. gen_control(i).alu_op = gen_control([op |-> OP(p)]).alu_op
    BY <1>2, <2>1, AluOps, SMT
  <2> QED
    BY <1>1, <1>2, <1>5, <2>2, <2>3, OtherControl
<1> QED
  BY <1>3, <1>4, <1>5

(***************************************************************************)
(* The theorems: of every word that can stand in a program.                *)
(***************************************************************************)
LEMMA WordType == WSpec => []WTypeOK
<1>1. WTypeOK /\ [NextWord]_word => WTypeOK'
  BY DEF WTypeOK, NextWord
<1> QED BY <1>1, PTL DEF WSpec

(* parse_instruction keeps every bit of every word but an ecall.           *)
THEOREM NoBitLost == WSpec => []FieldsKept
<1>1. WTypeOK => FieldsKept
  BY KeepsBits DEF WTypeOK
<1> QED BY <1>1, WordType, PTL

(* The immediates of branches, jumps, stores and loads are put together as *)
(* the formats of RISC-V say, for every word.                              *)
THEOREM OffsetsRight == WSpec => []OffsetsFollowIsa
<1>1. WTypeOK => OffsetsFollowIsa
  BY ReadsOffsets DEF WTypeOK
<1> QED BY <1>1, WordType, PTL

(* What the disassembler prints of every word is what the emulator         *)
(* executes for it.                                                        *)
THEOREM DisassemblyRight == WSpec => []DisassemblerAgrees
<1>1. WTypeOK => DisassemblerAgrees
  BY PrintsExecuted DEF WTypeOK
<1> QED BY <1>1, WordType, PTL

(* Immediate and ALU control of the pipeline are those of the instruction  *)
(* that the emulator executes, for every word that it accepts.             *)
THEOREM DecodesAsEmulator == WSpec => []PipelineDecodes
<1>1. WTypeOK => PipelineDecodes
  BY DecodesExecuted DEF WTypeOK
<1> QED BY <1>1, WordType, PTL
=============================================================================
