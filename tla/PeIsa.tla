-------------------------------- MODULE PeIsa -------------------------------
(***************************************************************************)
(* The processing element as its programmer thinks of it: the instructions *)
(* take effect one after the other, in the order the host sent them, each  *)
(* on the registers and the memory that those before it have left.         *)
(***************************************************************************)
EXTENDS PeInst, Sequences

CONSTANTS Program,   \* the instructions the host may send
          Addrs,     \* entries of the bank
          VRegs, SRegs,
          LineStarts, Lines    \* host cache lines: first entries and contents

VARIABLES prog,      \* sent and without effect so far, oldest first
          vrf, srf, mem

isaVars == <<prog, vrf, srf, mem>>

Init ==
  /\ prog = <<>>
  /\ vrf = [r \in VRegs |-> Zeros]
  /\ srf = [r \in SRegs |-> <<0>>]
  /\ mem = [a \in Addrs |-> FM!AbsentEntry]

Send == \E i \in Program : prog' = Append(prog, i) /\ UNCHANGED <<vrf, srf, mem>>

HostWrite ==
  /\ prog = <<>>
  /\ \E first \in LineStarts, line \in Lines : mem' = FM!MirrorLine(mem, first, line)
  /\ UNCHANGED <<prog, vrf, srf>>

\* A load settles the type of host bytes when it starts looking at them.
Look == /\ prog # <<>>
        /\ mem' = Touched(mem, Head(prog))
        /\ UNCHANGED <<prog, vrf, srf>>

Operands(i) == [v0 |-> vrf[i.v0], v1 |-> vrf[i.v1], s0 |-> srf[i.s0]]

Execute ==
  /\ prog # <<>>
  /\ LET i == Head(prog)
         result == Result(i, Operands(i), mem)
     IN /\ vrf' = VrfAfter(vrf, i, result)
        /\ srf' = SrfAfter(srf, i, result)
        /\ mem' = MemAfter(mem, i, Operands(i))
  /\ prog' = Tail(prog)

Next == Send \/ HostWrite \/ Look \/ Execute

Spec == Init /\ [][Next]_isaVars

=============================================================================
