-------------------------------- MODULE MCAlu --------------------------------
(***************************************************************************)
(* The control unit, the ALU control and the ALU of the pipeline against   *)
(* the handlers of the emulator, for every pair of operands of a small     *)
(* word, and loads behind a store of the one at the other; the decoding of *)
(* instructions of 32 bits.                                                *)
(***************************************************************************)
EXTENDS Execute, Decoding, Bitwise

WordAnd(x, y) == x & y
WordOr(x, y)  == x | y
WordXor(x, y) == x ^^ y

(* The words are made of every single bit of each register field and of    *)
(* all of them together, of every funct3, and of the values of funct7 that *)
(* a switch knows, with their neighbours; the last opcodes are unknown.    *)
Opcodes  == {51, 19, 3, 35, 99, 55, 111, 115, 0, 103}
Fields   == {0, 1, 2, 4, 8, 16, 31}
Funct7s  == {0, 1, 2, 4, 8, 16, 32, 33, 64, 96, 127}

Nop == [opcode |-> 19, rest |-> 0]

Start == EInit /\ word = Nop

Execution == Start /\ Operands /\ UNCHANGED word

Decode ==
  /\ Start
  /\ \E opcode \in Opcodes, rd, rs1, rs2 \in Fields, f3 \in 0 .. 7, f7 \in Funct7s :
       word' = [opcode |-> opcode,
                rest   |-> rd + 32 * f3 + 256 * rs1 + 8192 * rs2 + 262144 * f7]
  /\ UNCHANGED <<a, b, memory>>

Done ==
  /\ ~Start
  /\ a' = 0 /\ b' = 0 /\ memory' = [c \in Cell |-> 0]
  /\ word' = Nop

Next == Execution \/ Decode \/ Done
Spec == Start /\ [][Next]_<<a, b, memory, word>>
=============================================================================
