------------------------------- MODULE Control -------------------------------
(***************************************************************************)
(* The control unit of the decode stage and the ALU control of the execute *)
(* stage (gen_control and gen_alu_control of stage_helpers.h): pure        *)
(* functions from an instruction to the control lines that travel with it  *)
(* through the pipeline registers.                                         *)
(***************************************************************************)
EXTENDS Isa

(* alu_op is <<alu_op2, alu_op1, alu_op0>>. *)
AluOp == {<<0, 0, 0>>, <<0, 0, 1>>, <<0, 1, 0>>, <<0, 1, 1>>, <<1, 0, 0>>}

ControlLines == [alu_op : AluOp, alu_src : BOOLEAN, branch : BOOLEAN,
                 mem_read : BOOLEAN, mem_write : BOOLEAN,
                 reg_write : BOOLEAN, mem_to_reg : BOOLEAN]

(* All lines low: a bubble, or an opcode gen_control does not know. *)
NoControl == [alu_op |-> <<0, 0, 0>>, alu_src |-> FALSE, branch |-> FALSE,
              mem_read |-> FALSE, mem_write |-> FALSE, reg_write |-> FALSE,
              mem_to_reg |-> FALSE]

gen_control(i) ==
  CASE i.op = "rtype"  -> [NoControl EXCEPT !.alu_op = <<0, 1, 0>>,
                                            !.reg_write = TRUE]
    [] i.op = "itype"  -> [NoControl EXCEPT !.alu_op = <<0, 1, 1>>,
                                            !.alu_src = TRUE, !.reg_write = TRUE]
    [] i.op = "load"   -> [NoControl EXCEPT !.alu_src = TRUE, !.mem_read = TRUE,
                                            !.reg_write = TRUE, !.mem_to_reg = TRUE]
    [] i.op = "store"  -> [NoControl EXCEPT !.alu_src = TRUE, !.mem_write = TRUE]
    [] i.op = "branch" -> [NoControl EXCEPT !.alu_op = <<0, 0, 1>>, !.branch = TRUE]
    [] i.op = "lui"    -> [NoControl EXCEPT !.alu_op = <<1, 0, 0>>,
                                            !.alu_src = TRUE, !.reg_write = TRUE]
    [] i.op = "jal"    -> [NoControl EXCEPT !.alu_src = TRUE, !.branch = TRUE,
                                            !.reg_write = TRUE]
    [] OTHER           -> NoControl

(* The operations of the ALU. *)
AluControl == {"and", "or", "add", "xor", "sll", "srl", "sub", "slt", "lui",
               "sra", "mul"}

(***************************************************************************)
(* gen_alu_control looks at bit 25 (the multiply extension) only where     *)
(* funct3 is 0: with any other funct3 the instructions of that extension   *)
(* are taken for the base instruction with the same funct3.  A funct3      *)
(* without a case leaves the initial value 0, which is AND.                *)
(***************************************************************************)
gen_alu_control_NoBit30(alu_op, fn) ==
  CASE alu_op = <<1, 0, 0>> -> "lui"
    [] alu_op = <<0, 0, 0>> -> "add"
    [] alu_op = <<0, 0, 1>> -> "sub"
    [] OTHER -> IF fn = "sra" THEN "srl"
                ELSE IF fn = "sub" THEN "add"
                ELSE IF fn \in AluControl THEN fn ELSE "and"

gen_alu_control_NoBranch(alu_op, fn) ==
  CASE alu_op = <<1, 0, 0>> -> "lui"
    [] alu_op[2] = 0 -> "add"
    [] OTHER -> IF fn \in AluControl THEN fn ELSE "and"

gen_alu_control(alu_op, fn) ==
  CASE alu_op = <<1, 0, 0>> -> "lui"
    [] alu_op = <<0, 0, 0>> -> "add"
    [] alu_op = <<0, 0, 1>> -> "sub"
    [] OTHER -> CASE fn = "mulh" -> "sll"
                  [] fn = "div"  -> "xor"
                  [] fn = "rem"  -> "or"
                  [] fn \in AluControl -> fn
                  [] OTHER -> "and"

(* An ALU agrees with the arithmetic of the emulator's handlers on the     *)
(* operations that the ALU control tells apart.                            *)
AluImplements(alu(_, _, _), arith(_, _, _, _)) ==
  \A x, y \in Word :
    /\ \A fn \in RtypeFn \ {"mulh", "div", "rem", "other"} :
         alu(x, y, gen_alu_control(<<0, 1, 0>>, fn)) = arith("rtype", fn, x, y)
    /\ \A fn \in ItypeFn \ {"other"} :
         alu(x, y, gen_alu_control(<<0, 1, 1>>, fn)) = arith("itype", fn, x, y)
    /\ \A fn \in Funct : alu(0, y, "lui") = arith("lui", fn, 0, y)
    /\ alu(x, y, "add") = Plus(x, y)
    /\ alu(x, y, "sub") = 0 <=> x = y
=============================================================================
