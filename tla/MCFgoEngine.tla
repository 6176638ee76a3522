----------------------------- MODULE MCFgoEngine ----------------------------
(***************************************************************************)
(* Constants of the model-checking run of FgoEngine.                       *)
(***************************************************************************)
EXTENDS FgoEngine

CONSTANTS r1, r2, alu, load, store

MCReqs == {r1, r2}
MCInsts == {alu, load, store}
MCMem == {load, store}
=============================================================================
