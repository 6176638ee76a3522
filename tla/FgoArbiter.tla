------------------------------ MODULE FgoArbiter ----------------------------
(***************************************************************************)
(* What an FGO engine promises (comment at src/sim_engine/engine.rs:67):   *)
(* it admits one PE instruction or one host request, waits for its         *)
(* completion, and then gives the other source priority.  Each source is   *)
(* served first come, first served.                                        *)
(***************************************************************************)
EXTENDS Sequences

CONSTANTS Work          \* what each source may ask for, Work[side]

Sides == {"PIM", "HOST"}
Other(side) == IF side = "PIM" THEN "HOST" ELSE "PIM"

VARIABLES queue,        \* queue[side]: asked for and not admitted
          serving,      \* admitted and not answered
          last,         \* the source that was admitted last
          answered

avars == <<queue, serving, last, answered>>

ArbiterInit ==
  /\ queue = [side \in Sides |-> <<>>]
  /\ serving = {}
  /\ last = "HOST"
  /\ answered = {}

Arrive(side, r) ==
  /\ queue' = [queue EXCEPT ![side] = Append(@, r)]
  /\ UNCHANGED <<serving, last, answered>>

Answer ==
  /\ serving # {}
  /\ answered' = answered \cup serving
  /\ serving' = {}
  /\ UNCHANGED <<queue, last>>

\* Whatever was served is answered by the time the next one is admitted.
Admit(side) ==
  /\ queue[side] # <<>>
  /\ last # side \/ queue[Other(side)] = <<>>
  /\ answered' = answered \cup serving
  /\ serving' = {Head(queue[side])}
  /\ queue' = [queue EXCEPT ![side] = Tail(@)]
  /\ last' = side

Collect(r) ==
  /\ r \in answered
  /\ answered' = answered \ {r}
  /\ UNCHANGED <<queue, serving, last>>

ArbiterNext ==
  \/ \E side \in Sides : \E r \in Work[side] : Arrive(side, r)
  \/ \E side \in Sides : Admit(side)
  \/ Answer
  \/ \E r \in Work["PIM"] \cup Work["HOST"] : Collect(r)

Spec == ArbiterInit /\ [][ArbiterNext]_avars

=============================================================================
