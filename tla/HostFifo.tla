------------------------------- MODULE HostFifo -----------------------------
(***************************************************************************)
(* What an engine promises the host: requests wait in one queue, leave it  *)
(* for the memory oldest first, and each is answered once.  The memory     *)
(* itself may answer in any order.                                         *)
(***************************************************************************)
EXTENDS Naturals, Sequences

CONSTANT Reqs

VARIABLES queue,     \* accepted and not yet issued, oldest first
          memory,    \* issued and not yet answered
          answered   \* answered, for the host to take

Range(s) == {s[i] : i \in DOMAIN s}

Init == queue = <<>> /\ memory = {} /\ answered = {}

Accept(r) ==
  /\ r \notin Range(queue) \cup memory \cup answered
  /\ queue' = Append(queue, r)
  /\ UNCHANGED <<memory, answered>>

\* The n oldest requests are issued; then any of those issued is answered.
Serve ==
  \E n \in 0..Len(queue) :
    LET issued == memory \cup {queue[i] : i \in 1..n}
    IN /\ queue' = SubSeq(queue, n + 1, Len(queue))
       /\ memory' \subseteq issued
       /\ answered' = answered \cup (issued \ memory')

Take(r) ==
  /\ r \in answered
  /\ answered' = answered \ {r}
  /\ UNCHANGED <<queue, memory>>

Next == Serve \/ \E r \in Reqs : Accept(r) \/ Take(r)

Spec == Init /\ [][Next]_<<queue, memory, answered>>

=============================================================================
