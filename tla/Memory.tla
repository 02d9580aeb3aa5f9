------------------------------- MODULE Memory --------------------------------
(***************************************************************************)
(* The simulated data memory: store() and load() of emulator.c with the    *)
(* sign extension their callers apply.  A memory is a function from cells  *)
(* to bytes; a word is stored little-endian in four consecutive cells.     *)
(*                                                                         *)
(* The code does not check addresses against MEMORY_SPACE: an access       *)
(* outside is undefined behaviour.  Here addresses wrap at MEMORY_SPACE,   *)
(* which is what the code does when the memory fills the address space.    *)
(***************************************************************************)
EXTENDS Isa

MemoryType == [Cell -> Byte]

At(address, i) == (address + i) % MEMORY_SPACE

(* sign_extend_number(field, n) where mod is 2^n. *)
sign_extend_number_Zero(field, mod) == field

sign_extend_number(field, mod) ==
  IF field >= mod \div 2 THEN (field + WordMod - mod) % WordMod ELSE field

load(memory, address, alignment) ==
  LET byte(i) == memory[At(address, i)]
      half    == byte(1) * ByteMod + byte(0)
  IN CASE alignment = 1 -> byte(0)
       [] alignment = 2 -> half
       [] alignment = 4 -> (byte(3) * ByteMod + byte(2)) * HalfMod + half

store_Unmasked(memory, address, alignment, value) ==
  [c \in Cell |-> IF c = At(address, 0) THEN value ELSE memory[c]]

store(memory, address, alignment, value) ==
  LET digit(i) == CASE i = 0 -> value % ByteMod
                    [] i = 1 -> (value \div ByteMod) % ByteMod
                    [] i = 2 -> (value \div HalfMod) % ByteMod
                    [] i = 3 -> (value \div (HalfMod * ByteMod)) % ByteMod
      Written(c, i) == i < alignment /\ c = At(address, i)
  IN [c \in Cell |->
        IF Written(c, 3) THEN digit(3)
        ELSE IF Written(c, 2) THEN digit(2)
        ELSE IF Written(c, 1) THEN digit(1)
        ELSE IF Written(c, 0) THEN digit(0)
        ELSE memory[c]]

(* What lb, lh and lw put in rd; a load with another funct3 reads nothing. *)
LoadValue_HalfAsByte(memory, address, fn) ==
  CASE fn = "lb" -> sign_extend_number(load(memory, address, 1), ByteMod)
    [] fn = "lh" -> sign_extend_number(load(memory, address, 2), ByteMod)
    [] fn = "lw" -> load(memory, address, 4)
    [] OTHER     -> 0

LoadValue(memory, address, fn) ==
  CASE fn = "lb" -> sign_extend_number(load(memory, address, 1), ByteMod)
    [] fn = "lh" -> sign_extend_number(load(memory, address, 2), HalfMod)
    [] fn = "lw" -> load(memory, address, 4)
    [] OTHER     -> 0

(* The memory after sb, sh or sw; another funct3 stores nothing.           *)
StoreValue(memory, address, fn, value) ==
  CASE fn = "sb" -> store(memory, address, 1, value)
    [] fn = "sh" -> store(memory, address, 2, value)
    [] fn = "sw" -> store(memory, address, 4, value)
    [] OTHER     -> memory
=============================================================================
