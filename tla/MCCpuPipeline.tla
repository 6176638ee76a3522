--------------------------- MODULE MCCpuPipeline ----------------------------
(* Vectors of two words of three bits; pointers of one tag bit and two      *)
(* offset bits; a bank of three entries in lines of two, which the two      *)
(* descriptors share.  The host has left bytes in the first two entries.    *)
EXTENDS CpuPipeline, TLC

MCDescriptors == (0 :> [base |-> 0, bound |-> 2]) @@ (1 :> [base |-> 1, bound |-> 2])
MCAddrs == 0..2
MCMemories == {(0 :> FM!Entry("Untyped", <<6, 1>>)) @@ (1 :> FM!Entry("Untyped", <<5, 0>>))
                 @@ (2 :> FM!AbsentEntry)}

I(op, rd, v1, v2, f, fd, imm) ==
  [op |-> op, rd |-> rd, v1 |-> v1, v2 |-> v2, f |-> f, fd |-> fd, imm |-> imm]
V(op, rd, v1, v2) == I(op, rd, v1, v2, 0, 0, 0)

Compute == {V("ADD128", 1, 1, 2), V("SUB128", 2, 0, 1)}
OtherCompute == {V("MUL128", 0, 1, 1), V("AND128", 2, 1, 1)}
Reach == {I("LD128", 1, 0, 0, 0, 0, 0), I("LD128", 2, 0, 0, 1, 0, 0),
          I("ST128", 0, 1, 0, 1, 0, 0), I("FatPtrLD", 1, 0, 0, 0, 0, 0),
          I("FatPtrLD", 1, 0, 0, 1, 0, 0), I("FatPtrST", 0, 0, 0, 1, 0, 0)}
Move == {I("FatPtrADD", 0, 1, 0, 0, 0, 1), I("FatPtrSUB", 1, 1, 0, 1, 0, 1)}
Jump == {I("JUMP", 0, 0, 0, 0, 0, 0), I("JUMP", 0, 0, 0, 0, 0, 2)}
Body == Compute \cup Reach \cup Move \cup Jump
WideBody == Body \cup OtherCompute

\* Programs that end: the exit is taken, at once or behind a bubble.
Leave == V("EqualExit", 0, 0, 0)
LeaveLater == V("EqualExit", 0, 1, 1)

\* The registers an instruction reads in the AGU.
AguReads(i) ==
  (IF IsMem(i) \/ i.op \in Moves THEN {<<"F", i.f>>} ELSE {})
    \cup (IF i.op \in Moves \cup {"ST128"} THEN {<<"V", i.v1>>} ELSE {})
    \cup (IF i.op = "FatPtrST" THEN {<<"F", i.fd>>} ELSE {})

\* The last instruction waits in the AGU for the load before it.
LosesStore(b) ==
  \E k \in 2..Len(b) :
    k = Len(b) /\ b[k - 1].op \in Loads
      /\ <<File(b[k - 1]), b[k - 1].rd>> \in AguReads(b[k])

\* A load that fails is executed again and again: who reads its register
\* later is held, or lost, by what the forwarding latch keeps of it.
LoopsOverFailure(b) ==
  /\ \E k \in DOMAIN b : b[k].op = "JUMP" /\ b[k].imm = 0
  /\ \E j, k \in DOMAIN b :
       /\ b[k].op \in Loads /\ IsMem(b[j])
       /\ b[k].op = "FatPtrLD" \/ TypeOf(b[j]) # TypeOf(b[k])

\* What follows a jump to the start is never executed.
NoTail(b) == \A k \in DOMAIN b : b[k].op = "JUMP" /\ b[k].imm = 0 => k = Len(b)

Sound(b) == ~LosesStore(b) /\ ~LoopsOverFailure(b) /\ NoTail(b)

MCPrograms ==
  {b \o <<Leave>> : b \in {c \in [1..3 -> Body] : Sound(c)}}
    \cup {b \o <<LeaveLater>> : b \in {c \in [1..2 -> WideBody] : Sound(c)}}

\* A test that fails: v1 is not 0 when it is made.
LoadV1 == I("LD128", 1, 0, 0, 0, 0, 0)
MCNotTaken == {<<LoadV1, V("EqualExit", 0, 1, 0), Nop, V("ADD128", 1, 1, 1), Leave>>}

\* A copy at the end of a program.
MCCopy == {<<LoadV1, I("ST128", 0, 1, 0, 1, 0, 0), Leave>>}

=============================================================================
