----------------------------- MODULE MCCgoEngine ----------------------------
(***************************************************************************)
(* Constants of the model-checking runs of CgoEngine.                      *)
(***************************************************************************)
EXTENDS CgoEngine

CONSTANTS r1, r2, r3, start, query

MCReqs3 == {r1, r2, r3}
MCReqs2 == {r1, r2}
MCChunks == {0, 2}
MCAllPim == {"CGO_only", "Host_CGO_share"}
MCShare == {"Host_CGO_share"}
MCHostOnly == {"HostOnly"}
MCShareOrHost == {"Host_CGO_share", "HostOnly"}

\* Names of requests carry no meaning.
MCSymmetry == Permutations(MCReqs3)
=============================================================================
