------------------------------- MODULE CgoCpu -------------------------------
(***************************************************************************)
(* The CGO processor (src/cpu/pipeline.rs) as its engine sees it: the      *)
(* pause/resume handshake, the MEM_block signal that puts one DRAM request *)
(* at a time into the portal, and the end of the program.  What the six    *)
(* stages compute is left out; what is kept of the pipeline is which       *)
(* memory operations sit in the AGU and MEM latches and which signal wins  *)
(* the scoreboard (priorities: prog_end 50, MEM_block 40, external_pause   *)
(* 30, the others below).                                                  *)
(*                                                                         *)
(* The module holds operators on CPU records and no variable: CgoEngine    *)
(* keeps the record and calls them where engine.rs calls the CPU.          *)
(***************************************************************************)
EXTENDS Naturals

CONSTANTS PauseCycles,   \* pause_ready_delay_cycles
          ResumeCycles,  \* resume_ready_delay_cycles
          CanFinish      \* whether the program reaches its EqualExit

ASSUME CpuAssumption ==
  /\ PauseCycles \in Nat
  /\ ResumeCycles \in Nat
  /\ CanFinish \in BOOLEAN

\* The largest value ext_signal_delay_remaining is given.
MaxDelay == PauseCycles + ResumeCycles

\* last_winner_reason of the scoreboard; "none" also stands for the jump and
\* RAW signals, which neither hold MEM nor delay the handshake.
Reasons == {"none", "external_pause", "MEM_block", "prog_end"}

\* The MEM_stop_FSM of the memory operation in MEM; "Submit" also stands for
\* an operation that is in the AGU/MEM latch and raises its signal next tick.
MemStates == {"None", "Submit", "Stall", "WriteBack", "Release"}

CpuState ==
  [ started                    : BOOLEAN,
    finished                   : BOOLEAN,
    prog_end_seen              : BOOLEAN,
    ending                     : 0..2,      \* ticks EX_stop_FSM has left
    ext_pause_requested        : BOOLEAN,
    ready4ext_sig              : BOOLEAN,
    pause_ready_delay_started  : BOOLEAN,
    ext_signal_delay_remaining : 0..MaxDelay,
    resume_delay_pending       : BOOLEAN,
    winner                     : Reasons,
    agu                        : BOOLEAN,   \* EX/AGU latch: a memory operation
    mem                        : MemStates,
    late                       : BOOLEAN ]  \* a second MEM_block, still in Submit

\* CPU::build
NewCpu ==
  [ started |-> FALSE, finished |-> FALSE, prog_end_seen |-> FALSE, ending |-> 0,
    ext_pause_requested |-> FALSE, ready4ext_sig |-> TRUE,
    pause_ready_delay_started |-> FALSE, ext_signal_delay_remaining |-> 0,
    resume_delay_pending |-> FALSE, winner |-> "none",
    agu |-> FALSE, mem |-> "None", late |-> FALSE ]

Start(c) == [c EXCEPT !.started = TRUE]

\* Held by the pause: the last decision stalled every stage from ID to WB.
Held(c) == c.winner = "external_pause"

-----------------------------------------------------------------------------
(* The handshake. *)

SignalPause(c) ==
  [c EXCEPT !.ext_pause_requested = TRUE,
            !.ready4ext_sig = FALSE,
            !.pause_ready_delay_started = FALSE,
            !.ext_signal_delay_remaining = 0,
            !.resume_delay_pending = FALSE]

\* clear_active_signal(external_pause)
ClearPause(c) ==
  [c EXCEPT !.ext_pause_requested = FALSE,
            !.winner = IF @ = "external_pause" THEN "none" ELSE @]

SignalResume(c) ==
  LET pending == ResumeCycles # 0
      r == [c EXCEPT !.pause_ready_delay_started = FALSE,
                     !.ext_signal_delay_remaining = ResumeCycles,
                     !.resume_delay_pending = pending,
                     !.ready4ext_sig = ~pending]
  IN IF pending THEN [r EXCEPT !.ext_pause_requested = TRUE] ELSE ClearPause(r)

\* Mutant: the end of the resume delay goes unnoticed.
PrepareResumeTickMissing(c) == c

PrepareResumeTick(c) ==
  IF c.resume_delay_pending /\ c.ext_signal_delay_remaining = 0
  THEN ClearPause([c EXCEPT !.resume_delay_pending = FALSE,
                            !.ready4ext_sig = TRUE])
  ELSE c

Dec(n) == IF n > 0 THEN n - 1 ELSE 0

\* Mutant: the pause counts as accepted when it is requested.
UpdateExtsigRdyEager(c) ==
  [c EXCEPT !.ext_signal_delay_remaining = Dec(@),
            !.ready4ext_sig = ~c.resume_delay_pending]

\* update_extsig_rdy, with the winner of this tick already in c.winner.
UpdateExtsigRdy(c) ==
  LET counting == c.resume_delay_pending \/ c.ext_signal_delay_remaining > 0
      accepted == c.pause_ready_delay_started \/ c.winner = "external_pause"
      delay == IF c.pause_ready_delay_started THEN 0 ELSE PauseCycles
  IN CASE counting ->
            [c EXCEPT !.ext_signal_delay_remaining = Dec(@), !.ready4ext_sig = FALSE]
       [] ~counting /\ ~c.ext_pause_requested ->
            [c EXCEPT !.ready4ext_sig = TRUE]
       [] ~counting /\ c.ext_pause_requested /\ ~accepted ->
            [c EXCEPT !.ready4ext_sig = FALSE]
       [] ~counting /\ c.ext_pause_requested /\ accepted ->
            [c EXCEPT !.pause_ready_delay_started = TRUE,
                      !.ext_signal_delay_remaining = Dec(delay),
                      !.ready4ext_sig = (delay = 0)]

-----------------------------------------------------------------------------
(* One decision of the pipeline.  An outcome is the CPU after it, how many  *)
(* requests it submitted to the portal and how many responses it took.      *)

Outcome(c, sent, taken) == [cpu |-> c, sent |-> sent, taken |-> taken]

\* The program has retired its EqualExit from EX; only MEM/WB still holds it.
Draining(c) == c.prog_end_seen /\ c.ending = 0

\* EX may find an EqualExit unless the pause froze the latches it looks at.
MayRaiseEnd(c) == CanFinish /\ ~c.prog_end_seen /\ ~Held(c)

\* prog_end wins for three ticks.  It does not hold AGU or MEM, so in the
\* first one the operation in AGU moves on and raises a signal that must wait
\* (or none, when its address and direction repeat the waiting one's).
EndTick(c) ==
  LET e == [c EXCEPT !.winner = "prog_end",
                     !.prog_end_seen = TRUE,
                     !.ending = IF c.prog_end_seen THEN @ - 1 ELSE 2,
                     !.agu = FALSE]
  IN IF ~c.agu THEN {Outcome(e, 0, 0)}
     ELSE IF c.mem = "None" THEN {Outcome([e EXCEPT !.mem = "Submit"], 0, 0)}
     ELSE {Outcome([e EXCEPT !.late = b], 0, 0) : b \in BOOLEAN}

\* The steps of MEM_stop_FSM.  Release lets the operation in AGU move to MEM,
\* while EX is held, so at most one more operation follows.
MemTick(c, resp) ==
  LET m == [c EXCEPT !.winner = "MEM_block"]
  IN CASE c.mem = "Submit" -> Outcome([m EXCEPT !.mem = "Stall"], 1, 0)
       [] c.mem = "Stall" /\ resp = 0 -> Outcome(m, 0, 0)
       [] c.mem = "Stall" /\ resp > 0 -> Outcome([m EXCEPT !.mem = "WriteBack"], 0, 1)
       [] c.mem = "WriteBack" -> Outcome([m EXCEPT !.mem = "Release"], 0, 0)
       [] c.mem = "Release" ->
            Outcome([m EXCEPT !.mem = IF c.agu THEN "Submit" ELSE "None",
                              !.agu = FALSE], 0, 0)

\* After the end of the program a left-over MEM_block still wins.  In every
\* state but Release it stalls MEM and lets WB go, which empties MEM/WB.
LeftoverTick(c, resp) ==
  LET last == [c EXCEPT !.winner = "MEM_block", !.finished = TRUE]
      main == IF c.mem = "Release" THEN MemTick(c, resp)
              ELSE [MemTick(c, resp) EXCEPT !.cpu.finished = TRUE]
  IN (IF c.mem # "None" THEN {main} ELSE {})
       \cup (IF c.late THEN {Outcome([last EXCEPT !.late = FALSE], 1, 0)} ELSE {})

\* No signal holds MEM: the pipeline moves, any instruction reaches AGU.
RunTick(c) ==
  LET r == [c EXCEPT !.winner = "none"]
  IN IF Draining(c) THEN {Outcome([r EXCEPT !.finished = TRUE], 0, 0)}
     ELSE {Outcome([r EXCEPT !.mem = IF c.agu THEN "Submit" ELSE "None",
                             !.agu = a], 0, 0) : a \in BOOLEAN}

Undisturbed(c, resp) ==
  CASE c.mem # "None" \/ c.late ->
         IF Draining(c) THEN LeftoverTick(c, resp) ELSE {MemTick(c, resp)}
    [] c.mem = "None" /\ ~c.late /\ c.ext_pause_requested ->
         {Outcome([c EXCEPT !.winner = "external_pause"], 0, 0)}
    [] c.mem = "None" /\ ~c.late /\ ~c.ext_pause_requested -> RunTick(c)

Decide(c, resp) ==
  IF c.ending > 0 THEN EndTick(c)
  ELSE Undisturbed(c, resp) \cup (IF MayRaiseEnd(c) THEN EndTick(c) ELSE {})

\* CPU::tick.  A finished CPU returns before it answers the handshake.
TickCpu(c, resp) ==
  LET d == PrepareResumeTick(c)
  IN IF d.finished THEN {Outcome(d, 0, 0)}
     ELSE {[o EXCEPT !.cpu = UpdateExtsigRdy(o.cpu)] : o \in Decide(d, resp)}

-----------------------------------------------------------------------------
(* What holds of a CPU record between two ticks.                            *)

\* The pipeline is held by the pause only while it is quiet, and a pause is
\* acknowledged only while the pipeline is held.
HandshakeSound(c) ==
  /\ c.ending > 0 \/ c.late => c.prog_end_seen
  /\ Held(c) => c.ending = 0 /\ c.mem = "None" /\ ~c.late
  /\ c.pause_ready_delay_started => Held(c) /\ c.ext_pause_requested
  /\ c.ext_pause_requested /\ c.ready4ext_sig => Held(c)
  /\ c.resume_delay_pending => ~c.pause_ready_delay_started

=============================================================================
