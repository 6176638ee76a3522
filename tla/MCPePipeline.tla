---------------------------- MODULE MCPePipeline ----------------------------
(* Three vector and two scalar registers, vectors of two words of two bits, *)
(* and a bank of two entries, one host line.                               *)
EXTENDS PePipeline

I(op, rd, v0, v1, s0, addr) ==
  [op |-> op, rd |-> rd, v0 |-> v0, v1 |-> v1, s0 |-> s0, addr |-> addr]

MCAlu == {I("NOP", 0, 0, 0, 0, 0), I("ADD128", 1, 1, 2, 0, 0), I("SUB128", 2, 0, 1, 0, 0),
          I("MUL128", 1, 2, 1, 0, 0), I("MAC128", 1, 1, 2, 1, 0),
          I("ReLU", 2, 2, 0, 0, 0), I("ADD128", 0, 1, 1, 0, 0)}
MCMem == {I("LD128", 1, 0, 0, 0, 0), I("LD128", 2, 0, 0, 0, 1), I("ST128", 0, 1, 0, 0, 1),
          I("LD32", 1, 0, 0, 0, 0), I("ST32", 0, 0, 0, 1, 1)}
MCInsts == MCAlu \cup MCMem

MCAddrs == 0..1
MCVRegs == 0..2
MCSRegs == 0..1
MCLineStarts == {0}
MCLines == {<< <<1, 2>>, <<3, 1>> >>}

=============================================================================
