------------------------------- MODULE CpuIsa -------------------------------
(***************************************************************************)
(* The CGO processor as its programmer thinks of it (src/cpu/ISA-doc): a   *)
(* program counter and one instruction after the other, each working on    *)
(* what those before it have left.  A jump takes no step of its own: the   *)
(* counter stands at the next instruction that is not one.  What happens   *)
(* after an exception no document says; as much is stated as the code      *)
(* keeps: a rejected instruction has no effect, a few instructions behind  *)
(* the exception are lost, and none executes twice.                        *)
(***************************************************************************)
EXTENDS CpuInst

CONSTANTS PcBits, VRegs, FRegs, Addrs

VARIABLES prog,      \* the program, which never changes
          pc, vrf, frf, mem,
          trapped,   \* a load has met an entry of the other type
          ended

isaVars == <<prog, pc, vrf, frf, mem, trapped, ended>>

Pcs == 0 .. (2 ^ PcBits - 1)
Spinning == 2 ^ PcBits      \* a cycle of jumps

Fetched(p) == IF p < Len(prog) THEN prog[p + 1] ELSE Nop

\* Where execution gets from p without doing anything but jump.
Landing(p) ==
  LET hop[n \in 0..Len(prog)] ==
        IF n = 0 THEN p
        ELSE LET q == hop[n - 1]
             IN IF Fetched(q).op = "JUMP" THEN Fetched(q).imm ELSE q
      last == hop[Len(prog)]
  IN IF Fetched(last).op = "JUMP" THEN Spinning ELSE last

Following(p) == Landing((p + 1) % 2 ^ PcBits)

Init ==
  /\ pc = Landing(0)
  /\ vrf = [r \in VRegs |-> Zeros]
  /\ frf = [r \in FRegs |-> Pointer(r, 0)]
  /\ DOMAIN mem = Addrs
  /\ trapped = FALSE /\ ended = FALSE

-----------------------------------------------------------------------------

Now == Fetched(pc)

\* The instruction with its operands, as it leaves the AGU.
Ready(i) ==
  [ inst |-> i,
    result |-> CASE i.op \in AluOps -> {Alu(i.op, vrf[i.v1], vrf[i.v2])}
                 [] i.op \in Moves -> MovedPtr(i, frf[i.f], vrf[i.v1])
                 [] OTHER -> {},
    paddr |-> Translate(frf[i.f]),
    data |-> IF i.op = "ST128" THEN vrf[i.v1] ELSE frf[i.fd] ]

Effect(x) ==
  LET result == IF IsMem(x.inst) THEN Loaded(mem, x) ELSE x.result
  IN /\ vrf' = WrittenV(vrf, x.inst, result)
     /\ frf' = WrittenF(frf, x.inst, result)
     /\ mem' = IF IsMem(x.inst) THEN Stored(Touched(mem, x), x) ELSE mem

Fails(i) == i.op \in Loads /\ Loaded(mem, Ready(i)) = {}

Exits(i) == i.op = "EqualExit" /\ vrf[i.v1] = vrf[i.v2]

\* Where fetching may be when it has gone on from p by n instructions, jumps
\* taken or not.
Fetchable(p, n) ==
  LET reached[k \in 0..n] ==
        IF k = 0 THEN {p}
        ELSE UNION {{q, (q + 1) % 2 ^ PcBits}
                      \cup (IF Fetched(q).op = "JUMP" THEN {Fetched(q).imm} ELSE {})
                    : q \in reached[k - 1]}
  IN reached[n]

\* An exception loses at most n instructions from p on: execution resumes where
\* fetching has got to, and only an exit that is lost may still end the program.
Break(p, n) ==
  \/ ended' = FALSE /\ pc' \in {Landing(q) : q \in Fetchable(p, n)}
  \/ /\ ended' = TRUE /\ pc' = Spinning
     /\ \E q \in Fetchable(p, n) : Fetched(q).op = "EqualExit"

Execute ==
  /\ ~ended /\ pc \in Pcs
  /\ ~Rejects(Now, frf[Now.f], vrf[Now.v1]) /\ ~Exits(Now)
  /\ Effect(Ready(Now))
  /\ \/ pc' = Following(pc) /\ trapped' = (trapped \/ Fails(Now)) /\ UNCHANGED ended
     \/ trapped /\ trapped' = Fails(Now) /\ Break((pc + 1) % 2 ^ PcBits, 2)
  /\ UNCHANGED prog

Exit ==
  /\ ~ended /\ pc \in Pcs /\ Exits(Now)
  /\ ended' = TRUE /\ pc' = Spinning /\ trapped' \in {trapped, FALSE}
  /\ UNCHANGED <<prog, vrf, frf, mem>>

\* The AGU refuses the pointer: no effect, and what is in ID and EX is lost.
Reject ==
  /\ ~ended /\ pc \in Pcs /\ Rejects(Now, frf[Now.f], vrf[Now.v1])
  /\ trapped' \in {trapped, FALSE} /\ Break((pc + 1) % 2 ^ PcBits, 2)
  /\ UNCHANGED <<prog, vrf, frf, mem>>

\* The break behind a failed load, which the instruction in the AGU may wait
\* for: then it is lost too.  A cycle of jumps may be left anywhere.
Resume ==
  /\ trapped /\ trapped' = FALSE
  /\ \/ pc \in Pcs /\ Break(pc, 3)
     \/ pc = Spinning /\ pc' \in Pcs \cup {Spinning} /\ ended' \in BOOLEAN
  /\ UNCHANGED <<prog, vrf, frf, mem>>

Next == Execute \/ Exit \/ Reject \/ Resume

Spec == Init /\ [][Next]_isaVars

=============================================================================
