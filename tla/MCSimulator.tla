----------------------------- MODULE MCSimulator -----------------------------
(***************************************************************************)
(* Small instances of the driver, under every choice of -e, -m and -s.     *)
(* With -e, every program of BodyLength instructions from an alphabet that *)
(* goes on to the exit ecall and the three words that fetch runs ahead;    *)
(* without it, every program of BodyLength + 1 instructions.               *)
(***************************************************************************)
EXTENDS MCPipeline, Simulator

(* Stalls, branches and jumps that leave the body forwards and backwards,  *)
(* and exit ecalls with an instruction that takes effect behind them.      *)
DriverAlphabet ==
  {Load("lw", 1, 1, 0), Store("sw", 1, 1, 0), Itype("add", A0, 0, EXIT_CALL),
   Branch("beq", 1, 0, 8), Branch("bne", 2, 1, -8), Ecall}

Body(body) == [a \in {Word4(k) : k \in 0 .. BodyLength} |->
                 body[Minus(a, START) \div 4]]

MCMainInit ==
  /\ opt \in Options
  /\ \E body \in [0 .. BodyLength -> Alphabet] :
       imem = IF opt.exit THEN Program(body) ELSE Body(body)
  /\ MainInit

MCMainNext == Bounded /\ MainNext

MCMainSpec == MCMainInit /\ [][MCMainNext]_mainVars
MCMainFairSpec == MCMainSpec /\ WF_mainVars(MCMainNext)
=============================================================================
