-------------------------------- MODULE MCSim -------------------------------
(***************************************************************************)
(* Constants of the model-checking runs of Sim.                            *)
(***************************************************************************)
EXTENDS Sim, TLC

CONSTANTS b1, b2, inside1, outside1, cgo1, fgo1

MCBanks == {b1, b2}
MCMemReqs == {inside1, outside1}
MCBankOf == (inside1 :> b1) @@ (outside1 :> Outside)
MCAllocs == {cgo1, fgo1}
MCKeyOf == (cgo1 :> <<1, "CGO">>) @@ (fgo1 :> <<1, "FGO">>)
MCNoKey == <<0, "none">>
=============================================================================
