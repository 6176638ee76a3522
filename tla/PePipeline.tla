----------------------------- MODULE PePipeline -----------------------------
(***************************************************************************)
(* The processing element of an FGO engine with its data: the control of   *)
(* FgoPe, the operands latched between ISSUE and EX, the forwarding latch  *)
(* behind EX, the registers and the typed memory.  ISSUE reads registers   *)
(* in the tick in which the instruction before it may write them, and EX   *)
(* looks again at the forwarding latch; a load or a store keeps both       *)
(* stages waiting for as long as the DRAM takes.                           *)
(*                                                                         *)
(* The engine is the environment: it pushes instructions, allows the next  *)
(* one, clocks the element and moves its requests to and from the DRAM.    *)
(***************************************************************************)
EXTENDS FgoPe, PeInst, FiniteSets

CONSTANTS Addrs, VRegs, SRegs,   \* entries of the bank, register names
          LineStarts, Lines,     \* host cache lines: first entries, contents
          MaxInsts               \* bound: instructions sent in a behaviour

ASSUME PePipelineAssumption ==
  /\ 0 \in VRegs \cap SRegs
  /\ MaxInsts \in Nat
  /\ LineStarts \subseteq Nat /\ Lines \subseteq [1..LineEntries -> Bytes]
  /\ \A i \in Insts : /\ i.v0 \in VRegs /\ i.v1 \in VRegs /\ i.s0 \in SRegs
                      /\ WritesVector(i) => i.rd \in VRegs
                      /\ WritesScalar(i) => i.rd \in SRegs
                      /\ i \in MemInsts <=> i.op \in Loads \cup Stores
                      /\ i \in MemInsts => i.addr \in Addrs

VARIABLES pe,         \* FgoPe's record
          operands,   \* of the instruction in issue_ex_rf
          fwd,        \* ex_wb_forward_rf
          vrf, srf,   \* arch_rf
          mem,        \* pe_flat_mem
          pending,    \* requests the portal or the DRAM holds
          responses,  \* completed requests in the portal
          sent        \* instructions pushed so far

vars == <<pe, operands, fwd, vrf, srf, mem, pending, responses, sent>>

\* The zero register's operands, latched with an empty or absent source.
NoOperands == [v0 |-> Zeros, v1 |-> Zeros, s0 |-> <<0>>]

\* The forwarding latch: which register file, which register, what result.
NoForward == [file |-> "None", rd |-> 0, result |-> {}]

Init ==
  /\ pe = NewPe
  /\ operands = NoOperands
  /\ fwd = NoForward
  /\ vrf = [r \in VRegs |-> Zeros]
  /\ srf = [r \in SRegs |-> <<0>>]
  /\ mem = [a \in Addrs |-> FM!AbsentEntry]
  /\ pending = 0 /\ responses = 0 /\ sent = 0

-----------------------------------------------------------------------------
(* Calls of the engine between two ticks. *)

Push ==
  /\ sent < MaxInsts
  /\ \E i \in Insts : pe' = PushHostReq(pe, i)
  /\ sent' = sent + 1
  /\ UNCHANGED <<operands, fwd, vrf, srf, mem, pending, responses>>

\* The engine mirrors host writes until the first instruction arrives.
MirrorHostWrite ==
  /\ sent = 0
  /\ \E first \in LineStarts, line \in Lines : mem' = FM!MirrorLine(mem, first, line)
  /\ UNCHANGED <<pe, operands, fwd, vrf, srf, pending, responses, sent>>

Allow ==
  /\ pe' = AllowNext(pe)
  /\ UNCHANGED <<operands, fwd, vrf, srf, mem, pending, responses, sent>>

Respond ==
  /\ pending > 0
  /\ pending' = pending - 1
  /\ responses' = responses + 1
  /\ UNCHANGED <<pe, operands, fwd, vrf, srf, mem, sent>>

-----------------------------------------------------------------------------
(* PE::tick *)

\* The forwarding latch has a result for register r of a file.
Offers(file, r) == r # 0 /\ fwd.file = file /\ fwd.rd = r /\ fwd.result # {}
Offered == CHOOSE v \in fwd.result : TRUE

\* Mutant: forwarding of the zero register.
BypassVregZero(r, lit) ==
  IF fwd.file = "V" /\ fwd.rd = r /\ fwd.result # {} THEN Offered ELSE lit

\* ex_bypass_get_vreg and ex_bypass_get_sreg
BypassVreg(r, lit) == IF Offers("V", r) THEN Offered ELSE lit
BypassSreg(r, lit) == IF Offers("S", r) THEN Offered ELSE lit

\* What EX works on.
Bypassed(i) == [v0 |-> BypassVreg(i.v0, operands.v0),
                v1 |-> BypassVreg(i.v1, operands.v1),
                s0 |-> BypassSreg(i.s0, operands.s0)]

\* eval_ISSUE: it reads the registers as they are before this tick's commit.
ReadOperands(i) == [v0 |-> vrf[i.v0], v1 |-> vrf[i.v1], s0 |-> srf[i.s0]]

NextOperands ==
  IF ExStalls(pe) THEN operands
  ELSE IF NextEx(pe) = <<>> THEN NoOperands
  ELSE ReadOperands(Head(NextEx(pe)))

ForwardOf(i, result) ==
  [file |-> CASE WritesVector(i) -> "V" [] WritesScalar(i) -> "S" [] OTHER -> "None",
   rd |-> IF WritesVector(i) \/ WritesScalar(i) THEN i.rd ELSE 0,
   result |-> result]

\* eval_EX of an instruction that stalls: a load looks at its entry.
Wait(i) ==
  /\ ExStalls(pe)
  /\ mem' = Touched(mem, i)
  /\ UNCHANGED <<fwd, vrf, srf>>

\* eval_EX and arch_update of an instruction that leaves EX.
Commit(i) ==
  /\ ~ExStalls(pe)
  /\ LET result == Result(i, Bypassed(i), mem)
     IN /\ vrf' = VrfAfter(vrf, i, result)
        /\ srf' = SrfAfter(srf, i, result)
        /\ mem' = MemAfter(mem, i, Bypassed(i))
        /\ fwd' = ForwardOf(i, result)

Bubble == pe.ex = <<>> /\ UNCHANGED <<fwd, vrf, srf, mem>>

Tick ==
  /\ Bubble \/ \E i \in Insts : pe.ex = <<i>> /\ (Wait(i) \/ Commit(i))
  /\ pe' = TickPe(pe, responses)
  /\ operands' = NextOperands
  /\ pending' = pending + Sent(pe)
  /\ responses' = responses - Taken(pe, responses)
  /\ UNCHANGED sent

Next == Push \/ MirrorHostWrite \/ Allow \/ Respond \/ Tick

Spec == Init /\ [][Next]_vars

-----------------------------------------------------------------------------
(* Properties *)

Words(bits) == -(2 ^ (bits - 1)) .. (2 ^ (bits - 1) - 1)
Vectors == [1..Lanes -> Words(W)]
Scalars == {<<n>> : n \in Words(2 * W)}

EntryOK(e) ==
  \/ e = FM!AbsentEntry
  \/ e.tag = "Untyped" /\ e.val \in Bytes
  \/ e.tag = "Vector" /\ e.val \in Vectors
  \/ e.tag = "Scalar" /\ e.val \in Scalars

OperandSet == [v0 : Vectors, v1 : Vectors, s0 : Scalars]

\* Type invariant: registers, latches and memory hold values of their width,
\* whatever is added up, multiplied or decoded from the host's bytes.
TypeOK ==
  /\ pe \in PeState
  /\ operands \in OperandSet
  /\ fwd.file \in {"None", "V", "S"} /\ fwd.rd \in VRegs \cup SRegs
  /\ fwd.result \subseteq (IF fwd.file = "V" THEN Vectors ELSE Scalars)
  /\ Cardinality(fwd.result) <= 1
  /\ vrf \in [VRegs -> Vectors]
  /\ srf \in [SRegs -> Scalars]
  /\ DOMAIN mem = Addrs /\ \A a \in Addrs : EntryOK(mem[a])
  /\ pending \in 0..1 /\ responses \in 0..1 /\ pending + responses <= 1
  /\ sent \in 0..MaxInsts

\* EX never works on a stale register: what the literals latched at ISSUE
\* (ISSUE.rs:49) become after the look at the forwarding latch
\* (PE_utils.rs:5) is what the register files hold now, however long the
\* instruction has waited and whatever committed since it was issued.
OperandsCurrent ==
  \A i \in Insts : pe.ex = <<i>> => Bypassed(i) = ReadOperands(i)

\* What the forwarding latch offers is in the register files already.
ForwardCurrent ==
  /\ \A r \in VRegs : Offers("V", r) => Offered = vrf[r]
  /\ \A r \in SRegs : Offers("S", r) => Offered = srf[r]

\* Once an entry has a type no load or store gives it another (flat_memory.rs:
\* "memory type error"); host writes are no longer mirrored by the time an
\* instruction can have given an entry its type (engine.rs:611).
TypedForEver ==
  [][\A a \in Addrs : mem[a].tag \in {"Vector", "Scalar"} => mem'[a].tag = mem[a].tag]_vars

\* The pipelined element computes what the instructions mean one by one.
InOrder == INSTANCE PeIsa WITH prog <- pe.ex \o pe.imem, Program <- Insts
ExecutesInOrder == InOrder!Spec

=============================================================================
