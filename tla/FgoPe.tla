-------------------------------- MODULE FgoPe -------------------------------
(***************************************************************************)
(* The two-stage processing element of an FGO engine (src/PE/pe_top.rs):   *)
(* ISSUE takes the next instruction the host has pushed, once the engine   *)
(* has allowed it; EX executes it and, if it touches memory, stalls both   *)
(* stages until the DRAM has answered (PE_MEM_stop_FSM, src/PE/EX.rs).     *)
(* Registers and values are left out: which instruction is where is what   *)
(* the engine's scheduler can tell apart.                                  *)
(***************************************************************************)
EXTENDS Naturals, Sequences

CONSTANTS Insts,        \* the host requests that carry an instruction
          MemInsts      \* those that carry a load or a store

ASSUME PeAssumption == MemInsts \subseteq Insts

\* Submit, the FSM's fifth state, is left in the tick that enters it.
FsmStates == {"Idle", "Stall", "WriteBack", "Release"}

\* Either nothing or one instruction.
Slot == {<<>>} \cup {<<i>> : i \in Insts}

PeState == [imem : Seq(Insts),               \* oldest first
            fetch_next_allowed : BOOLEAN,
            finished : BOOLEAN,
            ex : Slot,                       \* issue_ex_rf
            fsm : FsmStates]

NewPe == [imem |-> <<>>, fetch_next_allowed |-> FALSE, finished |-> FALSE,
          ex |-> <<>>, fsm |-> "Idle"]

PushHostReq(pe, i) == [pe EXCEPT !.imem = Append(@, i)]

AllowNext(pe) == [pe EXCEPT !.fetch_next_allowed = TRUE]

HasBufferedInst(pe) == pe.imem # <<>>

\* EX holds an instruction that asks for the memory (eval_EX).
MemBlock(pe) == pe.ex # <<>> /\ Head(pe.ex) \in MemInsts

\* The FSM submits a request to the DRAM portal.
Submits(pe) == pe.fsm = "Idle" /\ MemBlock(pe)

\* EX does not commit in this tick (get_ops: Submit and Stall).
ExStalls(pe) == Submits(pe) \/ pe.fsm = "Stall"

\* Mutant: the FSM gives up waiting after one tick.
NextFsmImpatient(pe, resp) ==
  CASE pe.fsm = "Idle"      -> IF MemBlock(pe) THEN "Stall" ELSE "Idle"
    [] pe.fsm = "Stall"     -> "WriteBack"
    [] pe.fsm = "WriteBack" -> "Release"
    [] pe.fsm = "Release"   -> "Idle"

\* Mutant: Release is never left.
NextFsmSticky(pe, resp) ==
  CASE pe.fsm = "Idle"      -> IF MemBlock(pe) THEN "Stall" ELSE "Idle"
    [] pe.fsm = "Stall"     -> IF resp > 0 THEN "WriteBack" ELSE "Stall"
    [] OTHER                -> "Release"

\* PE_MEM_stop_FSM::advance
NextFsm(pe, resp) ==
  CASE pe.fsm = "Idle"      -> IF MemBlock(pe) THEN "Stall" ELSE "Idle"
    [] pe.fsm = "Stall"     -> IF resp > 0 THEN "WriteBack" ELSE "Stall"
    [] pe.fsm = "WriteBack" -> "Release"
    [] pe.fsm = "Release"   -> "Idle"

\* ISSUE hands its instruction to EX: neither stage is stalled.
Fetches(pe) == pe.fsm = "Idle" /\ ~MemBlock(pe)

\* Mutant: the latch keeps an instruction that has left while ISSUE waits.
NextExKept(pe) ==
  IF ~Fetches(pe) THEN pe.ex
  ELSE IF pe.fetch_next_allowed /\ pe.imem # <<>> THEN <<Head(pe.imem)>>
  ELSE <<>>

\* The latch after the tick.  While ISSUE alone is stalled it is flushed.
NextEx(pe) ==
  IF ExStalls(pe) THEN pe.ex
  ELSE IF Fetches(pe) /\ pe.fetch_next_allowed /\ pe.imem # <<>> THEN <<Head(pe.imem)>>
  ELSE <<>>

\* consume_fetch_inst
Consumed(pe) == Fetches(pe) /\ pe.fetch_next_allowed

NextImem(pe) == IF Consumed(pe) /\ pe.imem # <<>> THEN Tail(pe.imem) ELSE pe.imem

\* The instructions that commit in this tick.
Retires(pe) == IF ExStalls(pe) THEN {} ELSE {i \in Insts : pe.ex = <<i>>}

\* PE::tick.  resp is the number of responses the portal has for the PE.
TickPe(pe, resp) ==
  [imem |-> NextImem(pe),
   fetch_next_allowed |-> pe.fetch_next_allowed /\ ~Consumed(pe),
   finished |-> pe.finished \/ (~ExStalls(pe) /\ pe.ex # <<>>),
   ex |-> NextEx(pe),
   fsm |-> NextFsm(pe, resp)]

\* Requests the tick puts on the portal, and responses it takes from it.
Sent(pe) == IF Submits(pe) THEN 1 ELSE 0
Taken(pe, resp) == IF pe.fsm = "Stall" /\ resp > 0 THEN 1 ELSE 0

=============================================================================
