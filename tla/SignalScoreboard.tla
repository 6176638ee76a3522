-------------------------- MODULE SignalScoreboard --------------------------
(***************************************************************************)
(* The scoreboard that decides what every stage of the CGO processor does  *)
(* in a tick (src/cpu/signal_scoreboard.rs) and the FSMs behind its        *)
(* signals (src/cpu/ID.rs, EX.rs, AGU.rs, MEM.rs).  Stages raise signals;  *)
(* the strongest one acts, restricted to the stages it was aimed at, and   *)
(* its FSM advances; the others wait, except RAW_resolution, which its     *)
(* issuer raises again.  A signal whose key is already active is dropped:  *)
(* the one that is there stands for both.                                  *)
(***************************************************************************)
EXTENDS Naturals

Stages == {"IF", "ID", "EX", "AGU", "MEM", "WB"}
Rank == [IF |-> 1, ID |-> 2, EX |-> 3, AGU |-> 4, MEM |-> 5, WB |-> 6]
Actions == {"Normal", "Stall", "Flush"}

\* Mutant: a memory operation holds the end of the program back.
PriorityMemFirst ==
  [jump_resolution |-> 10, RAW_resolution |-> 20, external_pause |-> 30,
   MEM_block |-> 60, exception |-> 50, prog_end |-> 50]

\* signal_priority
Priority ==
  [jump_resolution |-> 10, RAW_resolution |-> 20, external_pause |-> 30,
   MEM_block |-> 40, exception |-> 50, prog_end |-> 50]

\* Steps a new FSM has before it is idle; ExternalPause_FSM never is.
Steps ==
  [jump_resolution |-> 1, RAW_resolution |-> 1, external_pause |-> 1,
   MEM_block |-> 4, exception |-> 2, prog_end |-> 3]

\* MEM_stop_FSM's states, by the steps it has left.
Phase == <<"Release", "WriteBack", "Stall", "Submit">>

\* An active signal; line and isRead are MEM_block's.
Block(line, isRead) ==
  [reason |-> "MEM_block", issuer |-> "MEM", line |-> line, isRead |-> isRead,
   left |-> Steps["MEM_block"]]
Signal(reason, issuer) ==
  [reason |-> reason, issuer |-> issuer, line |-> 0, isRead |-> FALSE,
   left |-> Steps[reason]]

SameKey(s, t) ==
  /\ s.reason = t.reason /\ s.issuer = t.issuer
  /\ s.line = t.line /\ s.isRead = t.isRead

\* Mutant: a signal is added whether or not its key is active.
SubmittedTwice(sigs, raised) == sigs \cup raised

\* submit_signal, of all signals raised in a tick
Submitted(sigs, raised) ==
  sigs \cup {r \in raised : ~\E s \in sigs : SameKey(r, s)}

Outranks(s, t) ==
  LET p == Priority[s.reason]  q == Priority[t.reason]
  IN \/ p > q
     \/ p = q /\ Rank[s.issuer] > Rank[t.issuer]
     \/ p = q /\ s.issuer = t.issuer /\ s.line > t.line
     \/ p = q /\ s.issuer = t.issuer /\ s.line = t.line /\ s.isRead /\ ~t.isRead

\* The last key of active_sig, if there is one.
Winner(sigs) == {s \in sigs : \A t \in sigs : s = t \/ Outranks(s, t)}

\* get_ops and the target stages: the RAW FSM's stall of WB never arrives.
Stalled(s) ==
  CASE s.reason = "RAW_resolution" -> {"IF", "ID", "EX"}
    [] s.reason = "external_pause" -> Stages \ {"IF"}
    [] s.reason = "MEM_block" ->
         (CASE Phase[s.left] \in {"Submit", "Stall"} -> Stages \ {"WB"}
            [] Phase[s.left] = "WriteBack" -> Stages \ {"MEM", "WB"}
            [] Phase[s.left] = "Release" -> Stages \ {"AGU", "MEM"})
    [] OTHER -> {}

Flushed(s) ==
  CASE s.reason = "jump_resolution" -> {"IF"}
    [] s.reason = "prog_end" -> {"IF", "ID"}
    [] s.reason = "exception" -> {"IF", "ID", "EX"}
    [] OTHER -> {}

\* collect_result: what every stage is told.
Decision(winner) ==
  [g \in Stages |->
     CASE \E s \in winner : g \in Stalled(s) -> "Stall"
       [] \E s \in winner : g \in Flushed(s) -> "Flush"
       [] OTHER -> "Normal"]

\* Mutant: the FSM waits for an answer once it has taken it, too.
AdvancedTwice(s, answered) ==
  IF \/ s.reason = "external_pause"
     \/ s.reason = "MEM_block" /\ Phase[s.left] \in {"Stall", "WriteBack"} /\ ~answered
  THEN s ELSE [s EXCEPT !.left = @ - 1]

\* advance_winner; answered: the response MEM_stop_FSM waits for is there.
Advanced(s, answered) ==
  IF \/ s.reason = "external_pause"
     \/ s.reason = "MEM_block" /\ Phase[s.left] = "Stall" /\ ~answered
  THEN s ELSE [s EXCEPT !.left = @ - 1]

\* handle_blocked and update_active
After(sigs, winner, answered) ==
  {s \in {Advanced(w, answered) : w \in winner} : s.left > 0}
    \cup {s \in sigs \ winner : s.reason # "RAW_resolution"}

\* clear_active_signal
Cleared(sigs, reason) == {s \in sigs : s.reason # reason}

=============================================================================
