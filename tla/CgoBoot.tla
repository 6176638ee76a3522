------------------------------- MODULE CgoBoot ------------------------------
(***************************************************************************)
(* The boot controller of a CGO engine (src/cpu/boot_fsm.rs): it reads the *)
(* AGU descriptor table, then the program, from DRAM through the portal.   *)
(* The portal's PIM requests are counted, not named: every request of a    *)
(* phase is consumed before the phase ends, whatever its address.          *)
(***************************************************************************)
EXTENDS Naturals

CONSTANTS AguChunks,      \* AGU_TABLE_CHUNKS
          ProgramChunks   \* the chunk counts AGU entry 0 may hold

ASSUME BootAssumption ==
  /\ AguChunks \in Nat
  /\ ProgramChunks \subseteq Nat

BootStates == {"IDLE", "DRAM2AGU_submit", "DRAM2AGU_stall", "ReadInsts",
               "DRAM2IMEM_submit", "DRAM2IMEM_stall", "Finished"}

\* pending counts pending_reqs; chunks is program_chunks.
BootState == [state : BootStates, pending : Nat, chunks : Nat]

NewBoot == [state |-> "IDLE", pending |-> 0, chunks |-> 0]

\* set_on refuses every start but the first.
SetOn(b) == IF b.state = "IDLE" THEN [b EXCEPT !.state = "DRAM2AGU_submit"] ELSE b

BootOutcome(b, sent, taken) == [boot |-> b, sent |-> sent, taken |-> taken]

\* Mutant: one chunk too many is waited for.
SubmitOneTooFew(b, n, next) ==
  BootOutcome([b EXCEPT !.state = next, !.pending = n + 1], n, 0)

\* submit_chunk_reads
SubmitChunkReads(b, n, next) ==
  BootOutcome([b EXCEPT !.state = next, !.pending = n], n, 0)

\* Mutant: a phase ends as soon as its requests have left for DRAM.
PhaseEndsEarly(b, req, resp, next) ==
  BootOutcome([b EXCEPT !.pending = 0, !.state = IF req = 0 THEN next ELSE @], 0, resp)

\* phase_complete takes every response there is; the phase ends when nothing
\* is pending and the portal's PIM stack is empty.
AwaitPhase(b, req, resp, next) ==
  LET left == IF resp < b.pending THEN b.pending - resp ELSE 0
  IN BootOutcome([b EXCEPT !.pending = left,
                           !.state = IF req = 0 /\ left = 0 THEN next ELSE @],
                 0, b.pending - left)

\* CPU_boot_FSM::tick; req and resp are the portal's PIM queues.
TickBoot(b, req, resp) ==
  CASE b.state \in {"IDLE", "Finished"} -> {BootOutcome(b, 0, 0)}
    [] b.state = "DRAM2AGU_submit" ->
         {SubmitChunkReads(b, AguChunks, "DRAM2AGU_stall")}
    [] b.state = "DRAM2AGU_stall" -> {AwaitPhase(b, req, resp, "ReadInsts")}
    [] b.state = "ReadInsts" ->
         {BootOutcome([b EXCEPT !.state = "DRAM2IMEM_submit", !.chunks = n], 0, 0) :
            n \in ProgramChunks}
    [] b.state = "DRAM2IMEM_submit" ->
         {SubmitChunkReads(b, b.chunks, "DRAM2IMEM_stall")}
    [] b.state = "DRAM2IMEM_stall" -> {AwaitPhase(b, req, resp, "Finished")}

=============================================================================
