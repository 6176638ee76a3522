-------------------------- MODULE PePipelineProofs --------------------------
(***************************************************************************)
(* The processing element's data path, for every set of instructions,      *)
(* register file, vector length and word width: EX works on the values the *)
(* registers hold when it does (what the ALU computes and what loads find  *)
(* plays no part in that), the memory keeps its types, the pipeline        *)
(* implements sequential execution, and every value keeps its width.       *)
(***************************************************************************)
EXTENDS PePipeline, DataLemmas, SequenceTheorems, TLAPS

\* The register files are functions on the register names, so that a write
\* reaches the register it is meant for.
FilesOK == vrf = [r \in VRegs |-> vrf[r]] /\ srf = [r \in SRegs |-> srf[r]]

\* The element's record has the latch that ISSUE fills.
LatchOK == "ex" \in DOMAIN pe

\* The inductive invariant.
DataInv == LatchOK /\ FilesOK /\ ForwardCurrent /\ OperandsCurrent

-----------------------------------------------------------------------------

\* A write keeps the register names.
LEMMA WriteRegDomain ==
  ASSUME NEW R, NEW rf, NEW rd, NEW result, rf = [r \in R |-> rf[r]]
  PROVE  LET new == WriteReg(rf, rd, result) IN new = [r \in R |-> new[r]]
<1>1. CASE rd = 0
  BY <1>1 DEF WriteReg
<1>2. CASE rd # 0
  <2>1. DOMAIN rf = R
    OBVIOUS
  <2> QED
    BY <1>2, <2>1 DEF WriteReg
<1> QED
  BY <1>1, <1>2

\* Only the destination changes, and only if there is a result.
LEMMA WriteRegOther ==
  ASSUME NEW R, NEW rf, NEW rd, NEW result, NEW r \in R,
         rf = [q \in R |-> rf[q]],
         rd = 0 \/ r # rd \/ result = {}
  PROVE  WriteReg(rf, rd, result)[r] = rf[r]
<1>1. DOMAIN rf = R
  OBVIOUS
<1> QED
  BY <1>1 DEF WriteReg

\* The destination holds the result.
LEMMA WriteRegSelf ==
  ASSUME NEW R, NEW rf, NEW rd \in R, NEW result, rf = [q \in R |-> rf[q]],
         rd # 0, result # {}
  PROVE  WriteReg(rf, rd, result)[rd] = CHOOSE v \in result : TRUE
<1>1. DOMAIN rf = R
  OBVIOUS
<1> QED
  BY <1>1 DEF WriteReg

\* No instruction has two destinations.
LEMMA OneFile == ASSUME NEW i PROVE ~(WritesVector(i) /\ WritesScalar(i))
BY DEF WritesScalar, WritesVector, VectorOps

-----------------------------------------------------------------------------
(* One commit, for either register file.                                    *)

\* After a commit of j the forwarding latch offers what the registers hold,
\* and a register that it does not offer is what it was before.
LEMMA CommitVector ==
  ASSUME FilesOK, NEW j, NEW result, NEW r \in VRegs,
         vrf' = VrfAfter(vrf, j, result), fwd' = ForwardOf(j, result)
  PROVE  vrf'[r] = IF Offers("V", r)' THEN Offered' ELSE vrf[r]
<1>1. CASE ~WritesVector(j)
  <2>1. fwd'.file # "V"
    BY <1>1 DEF ForwardOf
  <2>2. ~Offers("V", r)'
    BY <2>1 DEF Offers
  <2> QED
    BY <1>1, <2>2 DEF VrfAfter
<1>2. CASE WritesVector(j)
  <2>1. fwd'.file = "V" /\ fwd'.rd = j.rd /\ fwd'.result = result
    BY <1>2, OneFile DEF ForwardOf
  <2>2. vrf' = WriteReg(vrf, j.rd, result)
    BY <1>2 DEF VrfAfter
  <2>3. CASE j.rd = 0 \/ r # j.rd \/ result = {}
    <3>1. ~Offers("V", r)'
      BY <2>1, <2>3 DEF Offers
    <3>2. vrf'[r] = vrf[r]
      BY <2>2, <2>3, WriteRegOther DEF FilesOK
    <3> QED
      BY <3>1, <3>2
  <2>4. CASE j.rd # 0 /\ r = j.rd /\ result # {}
    <3>1. Offers("V", r)' /\ Offered' = CHOOSE v \in result : TRUE
      BY <2>1, <2>4 DEF Offers, Offered
    <3>2. vrf'[r] = CHOOSE v \in result : TRUE
      BY <2>2, <2>4, WriteRegSelf DEF FilesOK
    <3> QED
      BY <3>1, <3>2
  <2> QED
    BY <2>3, <2>4
<1> QED
  BY <1>1, <1>2

\* The same of the scalar file.
LEMMA CommitScalar ==
  ASSUME FilesOK, NEW j, NEW result, NEW r \in SRegs,
         srf' = SrfAfter(srf, j, result), fwd' = ForwardOf(j, result)
  PROVE  srf'[r] = IF Offers("S", r)' THEN Offered' ELSE srf[r]
<1>1. CASE ~WritesScalar(j)
  <2>1. fwd'.file # "S"
    BY <1>1 DEF ForwardOf
  <2>2. ~Offers("S", r)'
    BY <2>1 DEF Offers
  <2> QED
    BY <1>1, <2>2 DEF SrfAfter
<1>2. CASE WritesScalar(j)
  <2>1. fwd'.file = "S" /\ fwd'.rd = j.rd /\ fwd'.result = result
    BY <1>2, OneFile DEF ForwardOf
  <2>2. srf' = WriteReg(srf, j.rd, result)
    BY <1>2 DEF SrfAfter
  <2>3. CASE j.rd = 0 \/ r # j.rd \/ result = {}
    <3>1. ~Offers("S", r)'
      BY <2>1, <2>3 DEF Offers
    <3>2. srf'[r] = srf[r]
      BY <2>2, <2>3, WriteRegOther DEF FilesOK
    <3> QED
      BY <3>1, <3>2
  <2>4. CASE j.rd # 0 /\ r = j.rd /\ result # {}
    <3>1. Offers("S", r)' /\ Offered' = CHOOSE v \in result : TRUE
      BY <2>1, <2>4 DEF Offers, Offered
    <3>2. srf'[r] = CHOOSE v \in result : TRUE
      BY <2>2, <2>4, WriteRegSelf DEF FilesOK
    <3> QED
      BY <3>1, <3>2
  <2> QED
    BY <2>3, <2>4
<1> QED
  BY <1>1, <1>2

-----------------------------------------------------------------------------
(* Steps                                                                     *)

\* In a tick that lets EX go the registers change as the latch says.
LEMMA TickCommits ==
  ASSUME FilesOK, ForwardCurrent, Tick, ~ExStalls(pe)
  PROVE  /\ FilesOK'
         /\ \A r \in VRegs : vrf'[r] = IF Offers("V", r)' THEN Offered' ELSE vrf[r]
         /\ \A r \in SRegs : srf'[r] = IF Offers("S", r)' THEN Offered' ELSE srf[r]
<1>1. CASE Bubble
  <2>1. UNCHANGED <<fwd, vrf, srf>>
    BY <1>1 DEF Bubble
  <2>2. FilesOK'
    BY <2>1 DEF FilesOK
  <2>3. \A r \in VRegs : vrf'[r] = IF Offers("V", r)' THEN Offered' ELSE vrf[r]
    BY <2>1 DEF ForwardCurrent, Offers, Offered
  <2>4. \A r \in SRegs : srf'[r] = IF Offers("S", r)' THEN Offered' ELSE srf[r]
    BY <2>1 DEF ForwardCurrent, Offers, Offered
  <2> QED
    BY <2>2, <2>3, <2>4
<1>2. CASE \E i \in Insts : Commit(i)
  <2>1. PICK i \in Insts : Commit(i)
    BY <1>2
  <2>2. PICK result : /\ vrf' = VrfAfter(vrf, i, result)
                      /\ srf' = SrfAfter(srf, i, result)
                      /\ fwd' = ForwardOf(i, result)
    BY <2>1 DEF Commit
  <2>3. FilesOK'
    BY <2>2, WriteRegDomain DEF FilesOK, VrfAfter, SrfAfter
  <2> QED
    BY <2>2, <2>3, CommitVector, CommitScalar
<1> QED
  BY <1>1, <1>2 DEF Tick, Wait

\* In a tick in which EX waits nothing that the invariant is about changes.
LEMMA TickWaits ==
  ASSUME Tick, ExStalls(pe)
  PROVE  UNCHANGED <<operands, fwd, vrf, srf>> /\ pe'.ex = pe.ex
<1>1. pe.ex # <<>> \/ pe.fsm = "Stall"
  BY DEF ExStalls, Submits, MemBlock
<1>2. UNCHANGED <<fwd, vrf, srf>>
  BY DEF Tick, Bubble, Wait, Commit
<1>3. operands' = operands
  BY DEF Tick, NextOperands
<1>4. pe'.ex = pe.ex
  BY DEF Tick, TickPe, NextEx
<1> QED
  BY <1>2, <1>3, <1>4

\* The invariant speaks of the latches and the register files only.
LEMMA DataInvStutters ==
  ASSUME DataInv, LatchOK', UNCHANGED <<operands, fwd, vrf, srf>>, pe'.ex = pe.ex
  PROVE  DataInv'
<1>1. FilesOK'
  BY DEF DataInv, FilesOK
<1>2. ForwardCurrent'
  BY DEF DataInv, ForwardCurrent, Offers, Offered
<1>3. OperandsCurrent'
  BY DEF DataInv, OperandsCurrent, Bypassed, ReadOperands, BypassVreg, BypassSreg,
         Offers, Offered
<1> QED
  BY <1>1, <1>2, <1>3 DEF DataInv

\* A tick keeps the invariant.
LEMMA TickStep ==
  ASSUME DataInv, Tick
  PROVE  DataInv'
<1>0. LatchOK'
  BY DEF Tick, TickPe, LatchOK
<1>1. CASE ExStalls(pe)
  BY <1>0, <1>1, TickWaits, DataInvStutters
<1>2. CASE ~ExStalls(pe)
  <2>1. /\ FilesOK'
        /\ \A r \in VRegs : vrf'[r] = IF Offers("V", r)' THEN Offered' ELSE vrf[r]
        /\ \A r \in SRegs : srf'[r] = IF Offers("S", r)' THEN Offered' ELSE srf[r]
    BY <1>2, TickCommits DEF DataInv
  <2>2. ForwardCurrent'
    BY <2>1 DEF ForwardCurrent
  <2>3. OperandsCurrent'
    <3> SUFFICES ASSUME NEW i \in Insts, pe'.ex = <<i>>
                 PROVE  Bypassed(i)' = ReadOperands(i)'
      BY DEF OperandsCurrent
    <3>1. operands' = ReadOperands(i)
      <4>1. NextEx(pe) = <<i>>
        BY DEF Tick, TickPe
      <4>2. <<i>> # <<>> /\ Head(<<i>>) = i
        OBVIOUS
      <4> QED
        BY <1>2, <4>1, <4>2 DEF Tick, NextOperands
    <3>2. i.v0 \in VRegs /\ i.v1 \in VRegs /\ i.s0 \in SRegs
      BY PePipelineAssumption
    <3>3. operands'.v0 = vrf[i.v0] /\ operands'.v1 = vrf[i.v1] /\ operands'.s0 = srf[i.s0]
      BY <3>1 DEF ReadOperands
    <3>4. BypassVreg(i.v0, operands.v0)' = vrf'[i.v0]
      BY <2>1, <3>2, <3>3 DEF BypassVreg
    <3>5. BypassVreg(i.v1, operands.v1)' = vrf'[i.v1]
      BY <2>1, <3>2, <3>3 DEF BypassVreg
    <3>6. BypassSreg(i.s0, operands.s0)' = srf'[i.s0]
      BY <2>1, <3>2, <3>3 DEF BypassSreg
    <3> QED
      BY <3>4, <3>5, <3>6 DEF Bypassed, ReadOperands
  <2> QED
    BY <1>0, <2>1, <2>2, <2>3 DEF DataInv
<1> QED
  BY <1>1, <1>2

\* The calls between two ticks do not reach the latch behind ISSUE.
LEMMA CallsStep ==
  ASSUME DataInv, Push \/ MirrorHostWrite \/ Allow \/ Respond
  PROVE  DataInv'
<1>1. UNCHANGED <<operands, fwd, vrf, srf>>
  BY DEF Push, MirrorHostWrite, Allow, Respond
<1>2. "ex" \in DOMAIN pe' /\ pe'.ex = pe.ex
  <2>1. "ex" \in DOMAIN pe
    BY DEF DataInv, LatchOK
  <2>2. \A i : "ex" \in DOMAIN PushHostReq(pe, i) /\ PushHostReq(pe, i).ex = pe.ex
    BY <2>1 DEF PushHostReq
  <2>3. "ex" \in DOMAIN AllowNext(pe) /\ AllowNext(pe).ex = pe.ex
    BY <2>1 DEF AllowNext
  <2> QED
    BY <2>1, <2>2, <2>3 DEF Push, MirrorHostWrite, Allow, Respond
<1> QED
  BY <1>1, <1>2, DataInvStutters DEF LatchOK

\* The inductive invariant holds of every behaviour: registers and forwarding
\* latch agree (PE_utils.rs:5), and so do the operands EX works on.
THEOREM DataInvariant == Spec => []DataInv
<1>1. Init => DataInv
  BY DEF Init, DataInv, LatchOK, FilesOK, ForwardCurrent, OperandsCurrent, NoForward, NewPe, Offers
<1>2. DataInv /\ [Next]_vars => DataInv'
  <2> SUFFICES ASSUME DataInv, [Next]_vars PROVE DataInv'
    OBVIOUS
  <2>1. CASE UNCHANGED vars
    BY <2>1, DataInvStutters DEF vars, DataInv, LatchOK
  <2> QED
    BY <2>1, TickStep, CallsStep DEF Next
<1> QED
  BY <1>1, <1>2, PTL DEF Spec

\* EX never works on a stale register, whatever has committed between ISSUE
\* and EX (ISSUE.rs:49, EX.rs:147).
THEOREM OperandsAreCurrent == Spec => []OperandsCurrent
<1>1. DataInv => OperandsCurrent
  BY DEF DataInv
<1> QED
  BY <1>1, DataInvariant, PTL

-----------------------------------------------------------------------------
(* Memory                                                                    *)

\* The control of the element, as far as sequences of instructions go.
ControlOK == /\ {"ex", "imem"} \subseteq DOMAIN pe
             /\ pe.imem \in Seq(Insts) /\ pe.ex \in Slot
             /\ sent \in Nat /\ (sent = 0 => pe.imem = <<>> /\ pe.ex = <<>>)

\* The memory is a function on the bank's entries.
MemOK == mem = [a \in Addrs |-> mem[a]]

\* An entry that has a type keeps it.
KeepsTypes == \A a \in Addrs : mem[a].tag \in {"Vector", "Scalar"} => mem'[a].tag = mem[a].tag

\* A load or a store is about one of the two types.
LEMMA EntryTypes == ASSUME NEW i PROVE TypeOf(i) \in {"Vector", "Scalar"}
BY DEF TypeOf

\* A load changes the type of bytes only.
LEMMA TouchedKeeps ==
  ASSUME NEW m, m = [a \in Addrs |-> m[a]], NEW i
  PROVE  /\ Touched(m, i) = [a \in Addrs |-> Touched(m, i)[a]]
         /\ \A a \in Addrs : m[a].tag \in {"Vector", "Scalar"} =>
                               Touched(m, i)[a].tag = m[a].tag
<1>0. DOMAIN m = Addrs
  OBVIOUS
<1>1. CASE i.op \in Loads
  <2>1. Touched(m, i) = [m EXCEPT ![i.addr] = FM!Claimed(@, TypeOf(i))]
    BY <1>1 DEF Touched
  <2>2. ASSUME NEW a \in Addrs, m[a].tag \in {"Vector", "Scalar"}
        PROVE  FM!Claimed(m[a], TypeOf(i)) = m[a]
    BY <2>2 DEF FM!Claimed
  <2>3. ASSUME NEW a \in Addrs, m[a].tag \in {"Vector", "Scalar"}
        PROVE  Touched(m, i)[a] = m[a]
    BY <1>0, <2>1, <2>2, <2>3
  <2> QED
    BY <1>0, <2>1, <2>3
<1>2. CASE i.op \notin Loads
  BY <1>2 DEF Touched
<1> QED
  BY <1>1, <1>2

\* A store to an entry of the other type has no effect.
LEMMA StoredKeeps ==
  ASSUME NEW m, m = [a \in Addrs |-> m[a]], NEW i, NEW o
  PROVE  /\ Stored(m, i, o) = [a \in Addrs |-> Stored(m, i, o)[a]]
         /\ \A a \in Addrs : m[a].tag \in {"Vector", "Scalar"} =>
                               Stored(m, i, o)[a].tag = m[a].tag
<1>0. DOMAIN m = Addrs
  OBVIOUS
<1>1. CASE i.op \in Stores
  <2> DEFINE val == IF i.op = "ST128" THEN o.v0 ELSE o.s0
  <2>1. Stored(m, i, o) = [m EXCEPT ![i.addr] = FM!Written(@, TypeOf(i), val)]
    BY <1>1 DEF Stored
  <2>2. ASSUME NEW a \in Addrs, m[a].tag \in {"Vector", "Scalar"}
        PROVE  FM!Written(m[a], TypeOf(i), val).tag = m[a].tag
    BY <2>2 DEF FM!Written, FM!Entry
  <2> HIDE DEF val
  <2>3. ASSUME NEW a \in Addrs, m[a].tag \in {"Vector", "Scalar"}
        PROVE  Stored(m, i, o)[a].tag = m[a].tag
    BY <1>0, <2>1, <2>2, <2>3
  <2> QED
    BY <1>0, <2>1, <2>3
<1>2. CASE i.op \notin Stores
  BY <1>2 DEF Stored
<1> QED
  BY <1>1, <1>2

\* The host changes bytes and values, and no type.
LEMMA MirrorKeeps ==
  ASSUME NEW m, m = [a \in Addrs |-> m[a]], NEW first, NEW line
  PROVE  /\ FM!MirrorLine(m, first, line) = [a \in Addrs |-> FM!MirrorLine(m, first, line)[a]]
         /\ \A a \in Addrs : m[a].tag \in {"Vector", "Scalar"} =>
                               FM!MirrorLine(m, first, line)[a].tag = m[a].tag
<1>0. DOMAIN m = Addrs
  OBVIOUS
<1>1. ASSUME NEW a \in Addrs, m[a].tag \in {"Vector", "Scalar"}, NEW bytes
      PROVE  FM!Mirrored(m[a], bytes).tag = m[a].tag
  BY <1>1 DEF FM!Mirrored, FM!Entry
<1>2. ASSUME NEW a \in Addrs, m[a].tag \in {"Vector", "Scalar"}
      PROVE  FM!MirrorLine(m, first, line)[a].tag = m[a].tag
  <2>1. \/ FM!MirrorLine(m, first, line)[a] = m[a]
        \/ FM!MirrorLine(m, first, line)[a] = FM!Mirrored(m[a], line[a - first + 1])
    BY <1>0, Zenon DEF FM!MirrorLine
  <2> QED
    BY <1>1, <1>2, <2>1
<1>3. FM!MirrorLine(m, first, line) = [a \in Addrs |-> FM!MirrorLine(m, first, line)[a]]
  BY <1>0, Zenon DEF FM!MirrorLine
<1> QED
  BY <1>2, <1>3

\* No step changes the type of an entry.
LEMMA TypesStep ==
  ASSUME MemOK, [Next]_vars
  PROVE  MemOK' /\ KeepsTypes
<1>1. CASE mem' = mem
  BY <1>1 DEF MemOK, KeepsTypes
<1>2. CASE MirrorHostWrite
  <2>1. PICK first, line : mem' = FM!MirrorLine(mem, first, line)
    BY <1>2 DEF MirrorHostWrite
  <2> QED
    BY <2>1, MirrorKeeps DEF MemOK, KeepsTypes
<1>3. ASSUME NEW i, Wait(i) PROVE MemOK' /\ KeepsTypes
  BY <1>3, TouchedKeeps DEF Wait, MemOK, KeepsTypes
<1>4. ASSUME NEW i, Commit(i) PROVE MemOK' /\ KeepsTypes
  <2> DEFINE m == Touched(mem, i)
  <2>1. mem' = Stored(m, i, Bypassed(i))
    BY <1>4 DEF Commit, MemAfter
  <2>2. /\ m = [a \in Addrs |-> m[a]]
        /\ \A a \in Addrs : mem[a].tag \in {"Vector", "Scalar"} => m[a].tag = mem[a].tag
    BY TouchedKeeps DEF MemOK
  <2> HIDE DEF m
  <2>3. /\ mem' = [a \in Addrs |-> mem'[a]]
        /\ \A a \in Addrs : m[a].tag \in {"Vector", "Scalar"} => mem'[a].tag = m[a].tag
    BY <2>1, <2>2, StoredKeeps
  <2> QED
    BY <2>2, <2>3 DEF MemOK, KeepsTypes
<1>5. mem' = mem \/ MirrorHostWrite \/ (\E i : Wait(i)) \/ (\E i : Commit(i))
  BY DEF Next, Push, Allow, Respond, Tick, Bubble, vars
<1> QED
  BY <1>1, <1>2, <1>3, <1>4, <1>5

\* An entry keeps the type of its first use for ever (flat_memory.rs).
THEOREM TypesAreForEver == Spec => TypedForEver
<1>1. Init => MemOK
  BY DEF Init, MemOK
<1>2. MemOK /\ [Next]_vars => MemOK'
  BY TypesStep
<1>3. MemOK /\ [Next]_vars =>
        [\A a \in Addrs : mem[a].tag \in {"Vector", "Scalar"} => mem'[a].tag = mem[a].tag]_vars
  BY TypesStep DEF KeepsTypes
<1> QED
  BY <1>1, <1>2, <1>3, PTL DEF Spec, TypedForEver

-----------------------------------------------------------------------------
(* The element implements sequential execution.  The abstract machine has   *)
(* its own copies of the instructions' definitions: they agree.             *)

LEMMA SameFiles ==
  ASSUME NEW rf, NEW i, NEW result
  PROVE  /\ InOrder!VrfAfter(rf, i, result) = VrfAfter(rf, i, result)
         /\ InOrder!SrfAfter(rf, i, result) = SrfAfter(rf, i, result)
<1>1. InOrder!WritesVector(i) = WritesVector(i) /\ InOrder!WritesScalar(i) = WritesScalar(i)
  BY DEF InOrder!WritesVector, WritesVector, InOrder!VectorOps, VectorOps,
         InOrder!WritesScalar, WritesScalar
<1> QED
  BY <1>1 DEF InOrder!VrfAfter, VrfAfter, InOrder!SrfAfter, SrfAfter,
              InOrder!WriteReg, WriteReg

LEMMA SameRead ==
  ASSUME NEW e, NEW type
  PROVE  InOrder!FM!ReadAs(e, type) = FM!ReadAs(e, type)
BY Zenon DEF InOrder!FM!ReadAs, FM!ReadAs, InOrder!PeDecode, PeDecode, InOrder!Signed, Signed,
             InOrder!PeDefault, PeDefault, InOrder!Zeros, Zeros

LEMMA SameAlu ==
  ASSUME NEW op, NEW a, NEW b
  PROVE  /\ InOrder!VectorAlu(op, a, b) = VectorAlu(op, a, b)
         /\ InOrder!DotProduct(a, b) = DotProduct(a, b)
<1>1. InOrder!VectorAlu(op, a, b) = VectorAlu(op, a, b)
  BY Zenon DEF InOrder!VectorAlu, VectorAlu, InOrder!Zip, Zip, InOrder!Wrap, Wrap,
               InOrder!Signed, Signed
<1>2. InOrder!DotProduct(a, b) = DotProduct(a, b)
  BY Zenon DEF InOrder!DotProduct, DotProduct
<1> QED
  BY <1>1, <1>2

LEMMA SameResult ==
  ASSUME NEW i, NEW o, NEW m
  PROVE  InOrder!Result(i, o, m) = Result(i, o, m)
<1>1. InOrder!VectorResult(i, o, m) = VectorResult(i, o, m)
  BY SameRead, SameAlu, Zenon DEF InOrder!VectorResult, VectorResult
<1>2. InOrder!ScalarResult(i, o, m) = ScalarResult(i, o, m)
  BY SameRead, SameAlu, Zenon DEF InOrder!ScalarResult, ScalarResult,
     InOrder!Wrap, Wrap, InOrder!Signed, Signed
<1>3. InOrder!WritesVector(i) = WritesVector(i) /\ InOrder!WritesScalar(i) = WritesScalar(i)
  BY DEF InOrder!WritesVector, WritesVector, InOrder!VectorOps, VectorOps,
         InOrder!WritesScalar, WritesScalar
<1> QED
  BY <1>1, <1>2, <1>3, Zenon DEF InOrder!Result, Result

LEMMA SameTouch ==
  ASSUME NEW m, NEW i
  PROVE  InOrder!Touched(m, i) = Touched(m, i)
BY Zenon DEF InOrder!Touched, Touched, InOrder!Loads, Loads, InOrder!TypeOf, TypeOf,
             InOrder!FM!Claimed, FM!Claimed, InOrder!FM!Entry, FM!Entry,
             InOrder!PeDecode, PeDecode, InOrder!Signed, Signed

LEMMA SameStore ==
  ASSUME NEW m, NEW i, NEW o
  PROVE  InOrder!Stored(m, i, o) = Stored(m, i, o)
BY Zenon DEF InOrder!Stored, Stored, InOrder!Stores, Stores, InOrder!TypeOf, TypeOf,
             InOrder!FM!Written, FM!Written, InOrder!FM!Entry, FM!Entry

LEMMA SameMirror ==
  ASSUME NEW m, NEW first, NEW line
  PROVE  InOrder!FM!MirrorLine(m, first, line) = FM!MirrorLine(m, first, line)
BY Zenon DEF InOrder!FM!MirrorLine, FM!MirrorLine, InOrder!FM!Mirrored, FM!Mirrored,
             InOrder!FM!Entry, FM!Entry, InOrder!PeDecode, PeDecode, InOrder!Signed, Signed

\* What has been sent and has had no effect so far.
Ahead == pe.ex \o pe.imem

LEMMA AheadOf ==
  ASSUME ControlOK
  PROVE  /\ pe.ex = <<>> => Ahead = pe.imem
         /\ \A i \in Insts : pe.ex = <<i>> =>
              Ahead # <<>> /\ Head(Ahead) = i /\ Tail(Ahead) = pe.imem
<1>1. pe.imem \in Seq(Insts)
  BY DEF ControlOK
<1>2. <<>> \o pe.imem = pe.imem
  BY <1>1
<1>3. ASSUME NEW i \in Insts
      PROVE  /\ <<i>> \o pe.imem # <<>>
             /\ Head(<<i>> \o pe.imem) = i /\ Tail(<<i>> \o pe.imem) = pe.imem
  BY <1>1
<1> QED
  BY <1>2, <1>3 DEF Ahead

\* A tick moves the next instruction from the buffer to the latch, if at all.
LEMMA TickControl ==
  ASSUME ControlOK, Tick
  PROVE  /\ ControlOK'
         /\ ExStalls(pe) => Ahead' = Ahead
         /\ ~ExStalls(pe) => Ahead' = pe.imem
<1>0. /\ pe.imem \in Seq(Insts) /\ pe.ex \in Slot /\ sent' = sent
      /\ pe'.ex = NextEx(pe) /\ pe'.imem = NextImem(pe)
  BY DEF ControlOK, Tick, TickPe
<1>fields. {"ex", "imem"} \subseteq DOMAIN pe'
  BY DEF Tick, TickPe
<1>1. CASE ExStalls(pe)
  <2>1. ~Fetches(pe)
    BY <1>1 DEF ExStalls, Submits, Fetches
  <2>2. pe'.ex = pe.ex /\ pe'.imem = pe.imem
    BY <1>0, <1>1, <2>1 DEF NextEx, NextImem, Consumed
  <2> QED
    BY <1>fields, <1>0, <1>1, <2>2 DEF ControlOK, Ahead
<1>2. CASE ~ExStalls(pe) /\ Consumed(pe) /\ pe.imem # <<>>
  <2>1. pe'.ex = <<Head(pe.imem)>> /\ pe'.imem = Tail(pe.imem)
    BY <1>0, <1>2 DEF NextEx, NextImem, Consumed
  <2>2. /\ Head(pe.imem) \in Insts /\ Tail(pe.imem) \in Seq(Insts)
        /\ <<Head(pe.imem)>> \o Tail(pe.imem) = pe.imem
    BY <1>0, <1>2
  <2>3. sent # 0
    BY <1>2 DEF ControlOK
  <2>4. ControlOK'
    BY <1>fields, <1>0, <2>1, <2>2, <2>3 DEF ControlOK, Slot
  <2> QED
    BY <1>2, <2>1, <2>2, <2>4 DEF Ahead
<1>3. CASE ~ExStalls(pe) /\ ~(Consumed(pe) /\ pe.imem # <<>>)
  <2>1. pe'.ex = <<>> /\ pe'.imem = pe.imem
    BY <1>0, <1>3 DEF NextEx, NextImem, Consumed
  <2>2. <<>> \o pe.imem = pe.imem
    BY <1>0
  <2>3. ControlOK'
    BY <1>fields, <1>0, <2>1 DEF ControlOK, Slot
  <2> QED
    BY <1>3, <2>1, <2>2, <2>3 DEF Ahead
<1> QED
  BY <1>1, <1>2, <1>3

-----------------------------------------------------------------------------
(* Each step of the element is one of sequential execution, or none.        *)

\* An instruction that leaves EX has taken effect.
LEMMA CommitExecutes ==
  ASSUME ControlOK, OperandsCurrent, Tick, NEW i \in Insts, pe.ex = <<i>>, Commit(i)
  PROVE  InOrder!Execute
<1>1. Ahead # <<>> /\ Head(Ahead) = i /\ Ahead' = Tail(Ahead)
  BY AheadOf, TickControl DEF Commit
<1>2. InOrder!Operands(i) = Bypassed(i)
  BY DEF OperandsCurrent, ReadOperands, InOrder!Operands
<1> DEFINE result == Result(i, Bypassed(i), mem)
<1>3. /\ vrf' = VrfAfter(vrf, i, result)
      /\ srf' = SrfAfter(srf, i, result)
      /\ mem' = MemAfter(mem, i, Bypassed(i))
  BY DEF Commit
<1>4. InOrder!Result(i, InOrder!Operands(i), mem) = result
  BY <1>2, SameResult
<1>5. InOrder!MemAfter(mem, i, InOrder!Operands(i)) = MemAfter(mem, i, Bypassed(i))
  BY <1>2, SameTouch, SameStore DEF InOrder!MemAfter, MemAfter
<1> HIDE DEF result
<1>6. /\ vrf' = InOrder!VrfAfter(vrf, i, result)
      /\ srf' = InOrder!SrfAfter(srf, i, result)
  BY <1>3, SameFiles
<1>7. /\ vrf' = InOrder!VrfAfter(vrf, Head(Ahead),
                  InOrder!Result(Head(Ahead), InOrder!Operands(Head(Ahead)), mem))
      /\ srf' = InOrder!SrfAfter(srf, Head(Ahead),
                  InOrder!Result(Head(Ahead), InOrder!Operands(Head(Ahead)), mem))
      /\ mem' = InOrder!MemAfter(mem, Head(Ahead), InOrder!Operands(Head(Ahead)))
  BY <1>1, <1>3, <1>4, <1>5, <1>6
<1> QED
  BY <1>1, <1>7, Zenon DEF InOrder!Execute, Ahead

\* One that waits for the DRAM has looked at its entry, and nothing else.
LEMMA WaitLooks ==
  ASSUME ControlOK, Tick, NEW i \in Insts, pe.ex = <<i>>, Wait(i)
  PROVE  InOrder!Look
<1>1. Ahead # <<>> /\ Head(Ahead) = i /\ Ahead' = Ahead
  BY AheadOf, TickControl DEF Wait
<1>2. mem' = InOrder!Touched(mem, Head(Ahead)) /\ UNCHANGED <<vrf, srf>>
  BY <1>1, SameTouch DEF Wait
<1> QED
  BY <1>1, <1>2 DEF InOrder!Look, Ahead

\* A tick executes, looks or moves a bubble.
LEMMA TickImplements ==
  ASSUME ControlOK, OperandsCurrent, Tick
  PROVE  [InOrder!Next]_(InOrder!isaVars)
<1>1. CASE \E i \in Insts : pe.ex = <<i>> /\ (Wait(i) \/ Commit(i))
  BY <1>1, CommitExecutes, WaitLooks DEF InOrder!Next
<1>2. CASE Bubble
  <2>1. Ahead = pe.imem
    BY <1>2, AheadOf DEF Bubble
  <2>2. Ahead' = Ahead
    BY <2>1, TickControl
  <2> QED
    BY <1>2, <2>2 DEF Bubble, InOrder!isaVars, Ahead
<1> QED
  BY <1>1, <1>2 DEF Tick

\* The host's calls send an instruction, write its memory, or are not seen.
LEMMA CallsImplement ==
  ASSUME ControlOK, Push \/ MirrorHostWrite \/ Allow \/ Respond
  PROVE  ControlOK' /\ [InOrder!Next]_(InOrder!isaVars)
<1>0. /\ pe.imem \in Seq(Insts) /\ pe.ex \in Slot /\ sent \in Nat
      /\ {"ex", "imem"} \subseteq DOMAIN pe
  BY DEF ControlOK
<1>1. CASE Push
  <2>1. PICK i \in Insts : pe' = PushHostReq(pe, i)
    BY <1>1 DEF Push
  <2>2. pe'.imem = Append(pe.imem, i) /\ pe'.ex = pe.ex
    BY <2>1 DEF PushHostReq
  <2>3. sent' \in Nat /\ sent' # 0
    BY <1>0, <1>1 DEF Push
  <2>4. pe'.imem \in Seq(Insts) /\ {"ex", "imem"} \subseteq DOMAIN pe'
    BY <1>0, <2>1, <2>2 DEF PushHostReq
  <2>5. ControlOK'
    BY <1>0, <2>2, <2>3, <2>4 DEF ControlOK
  <2>6. pe.ex \o Append(pe.imem, i) = Append(pe.ex \o pe.imem, i)
    <3>1. CASE pe.ex = <<>>
      <4>1. \A s \in Seq(Insts) : <<>> \o s = s
        OBVIOUS
      <4> QED
        BY <1>0, <3>1, <4>1, AppendProperties
    <3>2. CASE \E j \in Insts : pe.ex = <<j>>
      <4>1. PICK j \in Insts : pe.ex = <<j>>
        BY <3>2
      <4>2. pe.ex \in Seq(Insts)
        BY <4>1
      <4> QED
        BY <1>0, <4>2
    <3> QED
      BY <1>0, <3>1, <3>2 DEF Slot
  <2>7. Ahead' = Append(Ahead, i)
    BY <2>2, <2>6 DEF Ahead
  <2>8. UNCHANGED <<vrf, srf, mem>>
    BY <1>1 DEF Push
  <2> QED
    BY <2>5, <2>7, <2>8 DEF InOrder!Next, InOrder!Send, Ahead
<1>2. CASE MirrorHostWrite
  <2>1. UNCHANGED <<pe, vrf, srf, sent>> /\ sent = 0
    BY <1>2 DEF MirrorHostWrite
  <2>2. Ahead = <<>>
    BY <2>1 DEF ControlOK, Ahead
  <2>3. \E first \in LineStarts, line \in Lines :
          mem' = InOrder!FM!MirrorLine(mem, first, line)
    BY <1>2, SameMirror DEF MirrorHostWrite
  <2>4. ControlOK' /\ Ahead' = Ahead
    BY <2>1 DEF ControlOK, Ahead
  <2> QED
    BY <2>1, <2>2, <2>3, <2>4 DEF InOrder!Next, InOrder!HostWrite, Ahead
<1>3. CASE Allow \/ Respond
  <2>1. UNCHANGED <<vrf, srf, mem, sent>>
    BY <1>3 DEF Allow, Respond
  <2>2. pe'.imem = pe.imem /\ pe'.ex = pe.ex
    BY <1>0, <1>3 DEF Allow, Respond, AllowNext
  <2>3. DOMAIN pe' = DOMAIN pe
    BY <1>0, <1>3 DEF Allow, Respond, AllowNext
  <2> QED
    BY <2>1, <2>2, <2>3 DEF ControlOK, InOrder!isaVars
<1> QED
  BY <1>1, <1>2, <1>3

\* The pipelined element computes what its instructions mean one after the
\* other, for every program, memory, vector length and word width: ISSUE may
\* read too early (ISSUE.rs:49), EX may wait for the DRAM for any number of
\* ticks (EX.rs:147), and nothing of it shows.
THEOREM ExecutesOneByOne == Spec => ExecutesInOrder
<1> DEFINE Inv == DataInv /\ ControlOK
<1>1. Init => Inv /\ InOrder!Init
  <2> SUFFICES ASSUME Init PROVE Inv /\ InOrder!Init
    OBVIOUS
  <2>1. DataInv
    BY DEF Init, DataInv, LatchOK, FilesOK, ForwardCurrent, OperandsCurrent, NoForward,
           NewPe, Offers
  <2>2. pe.imem = <<>> /\ pe.ex = <<>> /\ sent = 0 /\ {"ex", "imem"} \subseteq DOMAIN pe
    BY DEF Init, NewPe
  <2>3. ControlOK
    BY <2>2 DEF ControlOK, Slot
  <2>4. pe.ex \o pe.imem = <<>>
    BY <2>2
  <2>5. InOrder!Init
    BY <2>4 DEF Init, InOrder!Init, InOrder!Zeros, Zeros, InOrder!FM!AbsentEntry,
                FM!AbsentEntry, InOrder!FM!Entry, FM!Entry
  <2> QED
    BY <2>1, <2>3, <2>5
<1>2. Inv /\ [Next]_vars => Inv' /\ [InOrder!Next]_(InOrder!isaVars)
  <2> SUFFICES ASSUME DataInv, ControlOK, [Next]_vars
               PROVE  DataInv' /\ ControlOK' /\ [InOrder!Next]_(InOrder!isaVars)
    OBVIOUS
  <2>1. CASE UNCHANGED vars
    BY <2>1, DataInvStutters DEF vars, DataInv, LatchOK, ControlOK, InOrder!isaVars
  <2>2. CASE Tick
    BY <2>2, TickStep, TickControl, TickImplements DEF DataInv
  <2>3. CASE Push \/ MirrorHostWrite \/ Allow \/ Respond
    BY <2>3, CallsStep, CallsImplement
  <2> QED
    BY <2>1, <2>2, <2>3 DEF Next
<1> HIDE DEF Inv
<1> QED
  BY <1>1, <1>2, PTL DEF Spec, ExecutesInOrder, InOrder!Spec

-----------------------------------------------------------------------------
(* What instructions compute fits the registers.                            *)

LEMMA ParametersAreNat ==
  /\ Lanes \in Nat /\ 1 \in 1..Lanes /\ 2 \in 1..Lanes
  /\ W \in 1..(2 * W) /\ 2 * W \in 1..(2 * W)
BY PeInstAssumption

\* Half of the words of a width are negative.
LEMMA HalfWord ==
  ASSUME NEW bits \in 1..(2 * W)
  PROVE  2 ^ (bits - 1) \in Nat \ {0} /\ 2 ^ bits = 2 * 2 ^ (bits - 1)
<1>1. bits - 1 \in 0..(2 * W) /\ 1 \in 0..(2 * W) /\ 1 + (bits - 1) = bits
  BY PeInstAssumption
<1>2. 2 ^ (1 + (bits - 1)) = 2 ^ 1 * 2 ^ (bits - 1) /\ 2 ^ (bits - 1) \in Nat \ {0}
  BY <1>1, PowersOfTwo
<1>3. 2 ^ 1 = 2
  OBVIOUS
<1> QED
  BY <1>1, <1>2, <1>3

\* Wrapping yields a word, of whatever number.
LEMMA SignedType ==
  ASSUME NEW bits \in 1..(2 * W), NEW n \in Int
  PROVE  Signed(n, bits) \in Words(bits)
<1> DEFINE H == 2 ^ (bits - 1)
<1> DEFINE M == 2 ^ bits
<1>1. H \in Nat \ {0} /\ M = 2 * H
  BY HalfWord
<1>2. Signed(n, bits) = ((n + H) % M) - H /\ Words(bits) = -H .. (H - 1)
  BY DEF Signed, Words
<1> HIDE DEF H, M
<1> QED
  BY <1>1, <1>2, SignedWord

LEMMA WordsAreInt ==
  ASSUME NEW bits \in 1..(2 * W)
  PROVE  Words(bits) \subseteq Int /\ 0 \in Words(bits)
<1> DEFINE H == 2 ^ (bits - 1)
<1>1. H \in Nat \ {0} /\ Words(bits) = -H .. (H - 1)
  BY HalfWord DEF Words
<1> HIDE DEF H
<1> QED
  BY <1>1

\* The bytes of an entry are naturals.
LEMMA BytesAreNat ==
  ASSUME NEW b \in Bytes, NEW l \in 1..Lanes
  PROVE  b[l] \in Nat
<1> DEFINE M == 2 ^ W
<1>1. b[l] \in 0 .. (M - 1)
  BY DEF Bytes
<1> HIDE DEF M
<1> QED
  BY <1>1

\* The values of one of the two types.
ValuesOf(type) == IF type = "Vector" THEN Vectors ELSE Scalars

LEMMA ZerosType == Zeros \in Vectors /\ <<0>> \in Scalars
<1>1. 0 \in Words(W) /\ 0 \in Words(2 * W)
  BY WordsAreInt, ParametersAreNat
<1> QED
  BY <1>1 DEF Zeros, Vectors, Scalars

\* Whatever the host has left in an entry decodes to a value of either type.
LEMMA DecodeType ==
  ASSUME NEW b \in Bytes, NEW type
  PROVE  PeDecode(type, b) \in ValuesOf(type)
<1>1. CASE type = "Vector"
  <2>1. \A l \in 1..Lanes : Signed(b[l], W) \in Words(W)
    BY BytesAreNat, SignedType, ParametersAreNat
  <2> QED
    BY <1>1, <2>1 DEF PeDecode, ValuesOf, Vectors
<1>2. CASE type # "Vector"
  <2> DEFINE n == b[1] + b[2] * 2 ^ W
  <2>1. b[1] \in Nat /\ b[2] \in Nat
    BY BytesAreNat, ParametersAreNat
  <2>2. 2 ^ W \in Nat
    BY PowersOfTwo, ParametersAreNat
  <2>3. n \in Int
    <3> DEFINE M == 2 ^ W
    <3>1. M \in Nat
      BY <2>2
    <3> HIDE DEF M
    <3>2. b[1] + b[2] * M \in Int
      BY <2>1, <3>1
    <3> QED
      BY <3>2 DEF M
  <2> HIDE DEF n
  <2>4. Signed(n, 2 * W) \in Words(2 * W)
    BY <2>3, SignedType, ParametersAreNat
  <2> QED
    BY <1>2, <2>4 DEF PeDecode, ValuesOf, Scalars, n
<1> QED
  BY <1>1, <1>2

\* A vector's words are integers, and so is what is added up of two vectors:
\* the recursive definition of the sum is well-founded.
LEMMA VectorsAreInt ==
  ASSUME NEW v \in Vectors, NEW l \in 1..Lanes
  PROVE  v[l] \in Int /\ v[l] \in Words(W)
<1>1. v[l] \in Words(W)
  BY DEF Vectors
<1> QED
  BY <1>1, WordsAreInt, ParametersAreNat

LEMMA DotProductType ==
  ASSUME NEW a \in Vectors, NEW b \in Vectors
  PROVE  DotProduct(a, b) \in Int
<1> DEFINE t == [l \in 1..Lanes |-> a[l] * b[l]]
<1> DEFINE IsSum(g) == g = [l \in 0..Lanes |-> IF l = 0 THEN 0 ELSE g[l - 1] + a[l] * b[l]]
<1> DEFINE sum == CHOOSE g : IsSum(g)
<1>1. DotProduct(a, b) = sum[Lanes]
  BY DEF DotProduct
<1>2. ASSUME NEW g PROVE IsSum(g) <=> Sums(g, t, Lanes)
  <2>1. ASSUME NEW l \in 0..Lanes
        PROVE  (IF l = 0 THEN 0 ELSE g[l - 1] + a[l] * b[l])
                 = (IF l = 0 THEN 0 ELSE g[l - 1] + t[l])
    BY ParametersAreNat
  <2> HIDE DEF t
  <2> QED
    BY <2>1, Zenon DEF Sums
<1>3. \A l \in 1..Lanes : t[l] \in Int
  BY VectorsAreInt
<1>4. Lanes \in Nat
  BY ParametersAreNat
<1> HIDE DEF t
<1>5. \E g : IsSum(g)
  BY <1>2, <1>4, SumsExist
<1> HIDE DEF IsSum
<1>6. IsSum(sum)
  BY <1>5
<1>7. Sums(sum, t, Lanes)
  BY <1>2, <1>6
<1> HIDE DEF sum
<1>8. sum \in [0..Lanes -> Int]
  BY <1>3, <1>4, <1>7, SumsOfIntegers
<1> QED
  BY <1>1, <1>4, <1>8

LEMMA VectorAluType ==
  ASSUME NEW op \in VectorOps, NEW a \in Vectors, NEW b \in Vectors
  PROVE  VectorAlu(op, a, b) \in Vectors
<1>1. \A l \in 1..Lanes : /\ a[l] \in Int /\ b[l] \in Int
                          /\ a[l] + b[l] \in Int /\ a[l] - b[l] \in Int /\ a[l] * b[l] \in Int
  BY VectorsAreInt
<1>2. \A l \in 1..Lanes : /\ Wrap(a[l] + b[l], W) \in Words(W)
                          /\ Wrap(a[l] - b[l], W) \in Words(W)
                          /\ Wrap(a[l] * b[l], W) \in Words(W)
  BY <1>1, SignedType, ParametersAreNat DEF Wrap
<1>3. \A l \in 1..Lanes : (IF a[l] > 0 THEN a[l] ELSE 0) \in Words(W)
  BY VectorsAreInt, WordsAreInt, ParametersAreNat
<1>4. CASE op = "ADD128"
  <2>1. VectorAlu(op, a, b) = [l \in 1..Lanes |-> Wrap(a[l] + b[l], W)]
    BY <1>4, Zenon DEF VectorAlu, Zip
  <2> QED
    BY <1>2, <2>1 DEF Vectors
<1>5. CASE op = "SUB128"
  <2>1. VectorAlu(op, a, b) = [l \in 1..Lanes |-> Wrap(a[l] - b[l], W)]
    BY <1>5 DEF VectorAlu, Zip
  <2> QED
    BY <1>2, <2>1 DEF Vectors
<1>6. CASE op = "MUL128"
  <2>1. VectorAlu(op, a, b) = [l \in 1..Lanes |-> Wrap(a[l] * b[l], W)]
    BY <1>6 DEF VectorAlu, Zip
  <2> QED
    BY <1>2, <2>1 DEF Vectors
<1>7. CASE op = "ReLU"
  <2>1. VectorAlu(op, a, b) = [l \in 1..Lanes |-> IF a[l] > 0 THEN a[l] ELSE 0]
    BY <1>7 DEF VectorAlu
  <2> QED
    BY <1>3, <2>1 DEF Vectors
<1> QED
  BY <1>4, <1>5, <1>6, <1>7 DEF VectorOps

-----------------------------------------------------------------------------
(* Entries of the memory and the values read from them.                     *)

\* A typed entry is what EntryOK says of it.
LEMMA EntryType ==
  ASSUME NEW type \in {"Vector", "Scalar"}, NEW val \in ValuesOf(type)
  PROVE  EntryOK(FM!Entry(type, val))
BY DEF EntryOK, FM!Entry, ValuesOf

LEMMA EntryCases ==
  ASSUME NEW e, EntryOK(e)
  PROVE  /\ e.tag \in {"Absent", "Untyped", "Vector", "Scalar"}
         /\ e.tag = "Untyped" => e.val \in Bytes
         /\ e.tag \in {"Vector", "Scalar"} => e.val \in ValuesOf(e.tag)
<1>1. FM!AbsentEntry.tag = "Absent"
  BY DEF FM!AbsentEntry, FM!Entry
<1> QED
  BY <1>1 DEF EntryOK, ValuesOf

\* A read finds a value of the type it asks for, or none.
LEMMA ReadType ==
  ASSUME NEW e, EntryOK(e), NEW type \in {"Vector", "Scalar"}
  PROVE  AtMostOne(FM!ReadAs(e, type), ValuesOf(type))
<1>1. CASE e.tag = type
  <2>1. FM!ReadAs(e, type) = {e.val}
    BY <1>1, Zenon DEF FM!ReadAs
  <2> QED
    BY <1>1, <2>1, EntryCases DEF AtMostOne
<1>2. CASE e.tag = "Untyped"
  <2>1. FM!ReadAs(e, type) = {PeDecode(type, e.val)}
    BY <1>2 DEF FM!ReadAs
  <2> QED
    BY <1>2, <2>1, EntryCases, DecodeType DEF AtMostOne
<1>3. CASE e.tag = "Absent"
  <2>1. FM!ReadAs(e, type) = PeDefault(type)
    BY <1>3 DEF FM!ReadAs
  <2> QED
    BY <2>1, ZerosType DEF PeDefault, AtMostOne, ValuesOf
<1>4. CASE e.tag # type /\ e.tag # "Untyped" /\ e.tag # "Absent"
  <2>1. FM!ReadAs(e, type) = {}
    BY <1>4 DEF FM!ReadAs
  <2> QED
    BY <2>1 DEF AtMostOne
<1> QED
  BY <1>1, <1>2, <1>3, <1>4

\* What loads, stores and host writes make of an entry is an entry.
LEMMA ClaimedType ==
  ASSUME NEW e, EntryOK(e), NEW type \in {"Vector", "Scalar"}
  PROVE  EntryOK(FM!Claimed(e, type))
<1>1. CASE e.tag = "Untyped"
  BY <1>1, EntryCases, DecodeType, EntryType DEF FM!Claimed
<1> QED
  BY <1>1 DEF FM!Claimed

LEMMA WrittenType ==
  ASSUME NEW e, EntryOK(e), NEW type \in {"Vector", "Scalar"}, NEW val \in ValuesOf(type)
  PROVE  EntryOK(FM!Written(e, type, val))
BY EntryType DEF FM!Written

LEMMA MirroredType ==
  ASSUME NEW e, EntryOK(e), NEW b \in Bytes
  PROVE  EntryOK(FM!Mirrored(e, b))
<1>1. CASE e.tag \in {"Absent", "Untyped"}
  BY <1>1 DEF FM!Mirrored, FM!Entry, EntryOK
<1>2. CASE e.tag \in {"Vector", "Scalar"}
  BY <1>2, DecodeType, EntryType DEF FM!Mirrored
<1> QED
  BY <1>1, <1>2, EntryCases

\* A memory with typed entries.
MemTyped(m) == DOMAIN m = Addrs /\ \A a \in Addrs : EntryOK(m[a])

LEMMA TouchedType ==
  ASSUME NEW m, MemTyped(m), NEW i \in Insts
  PROVE  MemTyped(Touched(m, i))
<1>1. CASE i.op \in Loads
  <2>1. i.addr \in Addrs
    BY <1>1, PePipelineAssumption
  <2>2. EntryOK(FM!Claimed(m[i.addr], TypeOf(i)))
    BY <2>1, ClaimedType, EntryTypes DEF MemTyped
  <2>3. Touched(m, i) = [m EXCEPT ![i.addr] = FM!Claimed(m[i.addr], TypeOf(i))]
    BY <1>1 DEF Touched
  <2> QED
    BY <2>2, <2>3 DEF MemTyped
<1>2. CASE i.op \notin Loads
  BY <1>2 DEF Touched
<1> QED
  BY <1>1, <1>2

LEMMA StoredType ==
  ASSUME NEW m, MemTyped(m), NEW i \in Insts, NEW o \in OperandSet
  PROVE  MemTyped(Stored(m, i, o))
<1>1. CASE i.op \in Stores
  <2> DEFINE val == IF i.op = "ST128" THEN o.v0 ELSE o.s0
  <2>1. i.addr \in Addrs
    BY <1>1, PePipelineAssumption
  <2>2. val \in ValuesOf(TypeOf(i))
    BY <1>1 DEF Stores, TypeOf, ValuesOf, OperandSet
  <2>3. Stored(m, i, o) = [m EXCEPT ![i.addr] = FM!Written(m[i.addr], TypeOf(i), val)]
    BY <1>1 DEF Stored
  <2> HIDE DEF val
  <2>4. EntryOK(FM!Written(m[i.addr], TypeOf(i), val))
    BY <2>1, <2>2, WrittenType, EntryTypes DEF MemTyped
  <2> QED
    BY <2>3, <2>4 DEF MemTyped
<1>2. CASE i.op \notin Stores
  BY <1>2 DEF Stored
<1> QED
  BY <1>1, <1>2

LEMMA MirrorType ==
  ASSUME NEW m, MemTyped(m), NEW first \in LineStarts, NEW line \in Lines
  PROVE  MemTyped(FM!MirrorLine(m, first, line))
<1>1. first \in Nat /\ LineEntries \in Nat /\ line \in [1..LineEntries -> Bytes]
  BY PePipelineAssumption, PeInstAssumption
<1>2. DOMAIN FM!MirrorLine(m, first, line) = Addrs
  BY DEF FM!MirrorLine, MemTyped
<1>3. ASSUME NEW a \in Addrs PROVE EntryOK(FM!MirrorLine(m, first, line)[a])
  <2>0. a \in DOMAIN m
    BY DEF MemTyped
  <2>1. CASE a \in first .. (first + LineEntries - 1)
    <3>1. FM!MirrorLine(m, first, line)[a] = FM!Mirrored(m[a], line[a - first + 1])
      BY <2>0, <2>1, Zenon DEF FM!MirrorLine
    <3>2. a - first + 1 \in 1..LineEntries
      BY <1>1, <2>1
    <3>3. line[a - first + 1] \in Bytes
      BY <1>1, <3>2
    <3> QED
      BY <3>1, <3>3, MirroredType DEF MemTyped
  <2>2. CASE a \notin first .. (first + LineEntries - 1)
    <3>1. FM!MirrorLine(m, first, line)[a] = m[a]
      BY <2>0, <2>2, Zenon DEF FM!MirrorLine
    <3> QED
      BY <3>1 DEF MemTyped
  <2> QED
    BY <2>1, <2>2
<1> QED
  BY <1>2, <1>3 DEF MemTyped

-----------------------------------------------------------------------------
(* Registers and results.                                                   *)

\* The values of the register file that instruction i writes, if any.
FileOf(i) == IF WritesVector(i) THEN Vectors ELSE Scalars

LEMMA ResultType ==
  ASSUME MemTyped(mem), NEW i \in Insts, NEW o \in OperandSet
  PROVE  AtMostOne(Result(i, o, mem), FileOf(i))
<1>1. i.op \in Loads => EntryOK(mem[i.addr])
  BY PePipelineAssumption DEF MemTyped
<1>2. o.v0 \in Vectors /\ o.v1 \in Vectors /\ o.s0 \in Scalars
  BY DEF OperandSet
<1>3. CASE WritesVector(i) /\ i.op = "LD128"
  <2>1. Result(i, o, mem) = FM!ReadAs(mem[i.addr], "Vector")
    BY <1>3, OneFile, Zenon DEF Result, VectorResult
  <2>2. AtMostOne(FM!ReadAs(mem[i.addr], "Vector"), ValuesOf("Vector"))
    BY <1>1, <1>3, ReadType DEF Loads
  <2> QED
    BY <1>3, <2>1, <2>2 DEF FileOf, ValuesOf
<1>4. CASE WritesVector(i) /\ i.op # "LD128"
  <2>1. Result(i, o, mem) = {VectorAlu(i.op, o.v0, o.v1)}
    BY <1>4, OneFile, Zenon DEF Result, VectorResult
  <2>2. VectorAlu(i.op, o.v0, o.v1) \in Vectors
    BY <1>2, <1>4, VectorAluType DEF WritesVector
  <2> QED
    BY <1>4, <2>1, <2>2 DEF FileOf, AtMostOne
<1>5. CASE WritesScalar(i) /\ i.op = "LD32"
  <2>0. ~WritesVector(i)
    BY <1>5, OneFile
  <2>1. Result(i, o, mem) = FM!ReadAs(mem[i.addr], "Scalar")
    BY <1>5, <2>0 DEF Result, ScalarResult
  <2>2. AtMostOne(FM!ReadAs(mem[i.addr], "Scalar"), ValuesOf("Scalar"))
    BY <1>1, <1>5, ReadType DEF Loads
  <2> QED
    BY <2>0, <2>1, <2>2 DEF FileOf, ValuesOf
<1>6. CASE WritesScalar(i) /\ i.op # "LD32"
  <2> DEFINE n == o.s0[1] + DotProduct(o.v0, o.v1)
  <2>0. ~WritesVector(i)
    BY <1>6, OneFile
  <2>1. Result(i, o, mem) = {<<Wrap(n, 2 * W)>>}
    BY <1>6, <2>0 DEF Result, ScalarResult
  <2>2. o.s0[1] \in Int
    <3>1. PICK k \in Words(2 * W) : o.s0 = <<k>>
      BY <1>2 DEF Scalars
    <3>2. k \in Int
      BY WordsAreInt, ParametersAreNat
    <3> QED
      BY <3>1, <3>2
  <2>3. n \in Int
    BY <1>2, <2>2, DotProductType
  <2> HIDE DEF n
  <2>4. Wrap(n, 2 * W) \in Words(2 * W)
    BY <2>3, SignedType, ParametersAreNat DEF Wrap
  <2>5. <<Wrap(n, 2 * W)>> \in Scalars
    BY <2>4 DEF Scalars
  <2> QED
    BY <2>0, <2>1, <2>5 DEF FileOf, AtMostOne
<1>7. CASE ~WritesVector(i) /\ ~WritesScalar(i)
  BY <1>7 DEF Result, AtMostOne
<1> QED
  BY <1>3, <1>4, <1>5, <1>6, <1>7

LEMMA WriteRegType ==
  ASSUME NEW R, NEW T, NEW rf \in [R -> T], NEW rd, NEW result, AtMostOne(result, T)
  PROVE  WriteReg(rf, rd, result) \in [R -> T]
<1>1. result # {} => (CHOOSE v \in result : TRUE) \in T
  BY DEF AtMostOne
<1> QED
  BY <1>1 DEF WriteReg

-----------------------------------------------------------------------------
(* The control of the element.                                              *)

LEMMA PushType ==
  ASSUME NEW p \in PeState, NEW i \in Insts
  PROVE  PushHostReq(p, i) \in PeState /\ PushHostReq(p, i).fsm = p.fsm
BY DEF PushHostReq, PeState

LEMMA AllowType ==
  ASSUME NEW p \in PeState
  PROVE  AllowNext(p) \in PeState /\ AllowNext(p).fsm = p.fsm
BY DEF AllowNext, PeState

LEMMA HeadTail ==
  ASSUME NEW S, NEW s \in Seq(S), s # <<>>
  PROVE  Head(s) \in S /\ Tail(s) \in Seq(S)
OBVIOUS

LEMMA TickPeType ==
  ASSUME NEW p \in PeState, NEW resp \in Nat
  PROVE  TickPe(p, resp) \in PeState
<1>1. p.imem \in Seq(Insts) /\ p.ex \in Slot /\ p.fsm \in FsmStates
  BY DEF PeState
<1>2. NextFsm(p, resp) \in FsmStates
  BY <1>1 DEF NextFsm, FsmStates
<1>3. NextImem(p) \in Seq(Insts)
  BY <1>1, HeadTail DEF NextImem
<1>4. NextEx(p) \in Slot
  <2>1. p.imem # <<>> => <<Head(p.imem)>> \in Slot
    BY <1>1, HeadTail DEF Slot
  <2>2. <<>> \in Slot
    BY DEF Slot
  <2> QED
    BY <1>1, <2>1, <2>2 DEF NextEx
<1>5. /\ (p.fetch_next_allowed /\ ~Consumed(p)) \in BOOLEAN
      /\ (p.finished \/ (~ExStalls(p) /\ p.ex # <<>>)) \in BOOLEAN
  BY DEF PeState
<1> QED
  BY <1>2, <1>3, <1>4, <1>5 DEF TickPe, PeState

\* One request is under way exactly while the FSM stalls.
OneUnderWay == pending + responses = IF pe.fsm = "Stall" THEN 1 ELSE 0

LEMMA TickUnderWay ==
  ASSUME NEW p \in PeState, NEW out \in 0..1, NEW resp \in 0..1,
         out + resp = IF p.fsm = "Stall" THEN 1 ELSE 0
  PROVE  /\ out + Sent(p) \in 0..1 /\ resp - Taken(p, resp) \in 0..1
         /\ (out + Sent(p)) + (resp - Taken(p, resp))
              = IF TickPe(p, resp).fsm = "Stall" THEN 1 ELSE 0
         /\ (out + Sent(p)) + (resp - Taken(p, resp)) <= 1
<1>1. TickPe(p, resp).fsm = NextFsm(p, resp)
  BY DEF TickPe
<1>2. p.fsm \in FsmStates
  BY DEF PeState
<1>3. CASE p.fsm = "Idle" /\ MemBlock(p)
  <2>1. Sent(p) = 1 /\ Taken(p, resp) = 0 /\ NextFsm(p, resp) = "Stall"
    BY <1>3 DEF NextFsm, Sent, Taken, Submits
  <2> QED
    BY <1>1, <1>3, <2>1
<1>4. CASE p.fsm = "Idle" /\ ~MemBlock(p)
  <2>1. Sent(p) = 0 /\ Taken(p, resp) = 0 /\ NextFsm(p, resp) = "Idle"
    BY <1>4 DEF NextFsm, Sent, Taken, Submits
  <2> QED
    BY <1>1, <1>4, <2>1
<1>5. CASE p.fsm = "Stall" /\ resp > 0
  <2>1. Sent(p) = 0 /\ Taken(p, resp) = 1 /\ NextFsm(p, resp) = "WriteBack"
    BY <1>5 DEF NextFsm, Sent, Taken, Submits
  <2> QED
    BY <1>1, <1>5, <2>1
<1>6. CASE p.fsm = "Stall" /\ ~(resp > 0)
  <2>1. Sent(p) = 0 /\ Taken(p, resp) = 0 /\ NextFsm(p, resp) = "Stall"
    BY <1>6 DEF NextFsm, Sent, Taken, Submits
  <2> QED
    BY <1>1, <1>6, <2>1
<1>7. CASE p.fsm \in {"WriteBack", "Release"}
  <2>1. Sent(p) = 0 /\ Taken(p, resp) = 0 /\ NextFsm(p, resp) \in {"Release", "Idle"}
    BY <1>7 DEF NextFsm, Sent, Taken, Submits
  <2> QED
    BY <1>1, <1>7, <2>1
<1> QED
  BY <1>2, <1>3, <1>4, <1>5, <1>6, <1>7 DEF FsmStates

-----------------------------------------------------------------------------
(* The type invariant.                                                      *)

\* TypeOK is inductive together with the account of the requests.
TypeInv == TypeOK /\ OneUnderWay

\* What EX works on has the width of the registers.
LEMMA OperandTypes ==
  ASSUME TypeOK, NEW i \in Insts
  PROVE  Bypassed(i) \in OperandSet /\ ReadOperands(i) \in OperandSet
<1>1. i.v0 \in VRegs /\ i.v1 \in VRegs /\ i.s0 \in SRegs
  BY PePipelineAssumption
<1>2. vrf \in [VRegs -> Vectors] /\ srf \in [SRegs -> Scalars] /\ operands \in OperandSet
  BY DEF TypeOK
<1>3. ReadOperands(i) \in OperandSet
  BY <1>1, <1>2 DEF ReadOperands, OperandSet
<1>4. operands.v0 \in Vectors /\ operands.v1 \in Vectors /\ operands.s0 \in Scalars
  BY <1>2 DEF OperandSet
<1>5. /\ \A r : Offers("V", r) => Offered \in Vectors
      /\ \A r : Offers("S", r) => Offered \in Scalars
  BY DEF TypeOK, Offers, Offered
<1>6. /\ BypassVreg(i.v0, operands.v0) \in Vectors
      /\ BypassVreg(i.v1, operands.v1) \in Vectors
      /\ BypassSreg(i.s0, operands.s0) \in Scalars
  BY <1>4, <1>5 DEF BypassVreg, BypassSreg
<1> QED
  BY <1>3, <1>6 DEF Bypassed, OperandSet

\* What a tick latches for the next one.
LEMMA NextOperandsType ==
  ASSUME TypeOK
  PROVE  NextOperands \in OperandSet
<1>1. CASE ExStalls(pe)
  BY <1>1 DEF NextOperands, TypeOK
<1>2. CASE ~ExStalls(pe) /\ NextEx(pe) = <<>>
  BY <1>2, ZerosType DEF NextOperands, NoOperands, OperandSet
<1>3. CASE ~ExStalls(pe) /\ NextEx(pe) # <<>>
  <2>1. pe \in PeState /\ pe.imem \in Seq(Insts)
    BY DEF TypeOK, PeState
  <2>2. pe.imem # <<>> /\ NextEx(pe) = <<Head(pe.imem)>>
    BY <1>3 DEF NextEx
  <2>3. Head(NextEx(pe)) \in Insts
    BY <2>1, <2>2, HeadTail
  <2> QED
    BY <1>3, <2>3, OperandTypes DEF NextOperands
<1> QED
  BY <1>1, <1>2, <1>3

\* A commit writes results of the right width into register, latch and memory.
LEMMA CommitTypes ==
  ASSUME TypeOK, NEW i \in Insts, Commit(i)
  PROVE  /\ vrf' \in [VRegs -> Vectors] /\ srf' \in [SRegs -> Scalars]
         /\ MemTyped(mem')
         /\ fwd'.file \in {"None", "V", "S"} /\ fwd'.rd \in VRegs \cup SRegs
         /\ fwd'.result \subseteq (IF fwd'.file = "V" THEN Vectors ELSE Scalars)
         /\ Cardinality(fwd'.result) <= 1
<1> DEFINE result == Result(i, Bypassed(i), mem)
<1>1. Bypassed(i) \in OperandSet
  BY OperandTypes
<1>2. MemTyped(mem)
  BY DEF TypeOK, MemTyped
<1>3. AtMostOne(result, FileOf(i))
  BY <1>1, <1>2, ResultType
<1>4. /\ vrf' = VrfAfter(vrf, i, result)
      /\ srf' = SrfAfter(srf, i, result)
      /\ mem' = Stored(Touched(mem, i), i, Bypassed(i))
      /\ fwd' = ForwardOf(i, result)
  BY DEF Commit, MemAfter
<1> HIDE DEF result
<1>5. vrf' \in [VRegs -> Vectors]
  <2>1. vrf \in [VRegs -> Vectors]
    BY DEF TypeOK
  <2>2. CASE WritesVector(i)
    <3>1. AtMostOne(result, Vectors)
      BY <1>3, <2>2 DEF FileOf
    <3> QED
      BY <1>4, <2>1, <2>2, <3>1, WriteRegType DEF VrfAfter
  <2> QED
    BY <1>4, <2>1, <2>2 DEF VrfAfter
<1>6. srf' \in [SRegs -> Scalars]
  <2>1. srf \in [SRegs -> Scalars]
    BY DEF TypeOK
  <2>2. CASE WritesScalar(i)
    <3>1. AtMostOne(result, Scalars)
      BY <1>3, <2>2, OneFile DEF FileOf
    <3> QED
      BY <1>4, <2>1, <2>2, <3>1, WriteRegType DEF SrfAfter
  <2> QED
    BY <1>4, <2>1, <2>2 DEF SrfAfter
<1>7. MemTyped(mem')
  <2>1. MemTyped(Touched(mem, i))
    BY <1>2, TouchedType
  <2> QED
    BY <1>1, <1>4, <2>1, StoredType
<1>8. /\ fwd'.file = (IF WritesVector(i) THEN "V" ELSE IF WritesScalar(i) THEN "S" ELSE "None")
      /\ fwd'.rd = (IF WritesVector(i) \/ WritesScalar(i) THEN i.rd ELSE 0)
      /\ fwd'.result = result
  BY <1>4, OneFile DEF ForwardOf
<1>9. fwd'.rd \in VRegs \cup SRegs
  BY <1>8, PePipelineAssumption
<1>10. result \subseteq FileOf(i) /\ Cardinality(result) <= 1
  BY <1>3, AtMostOneCounts
<1>11. FileOf(i) = IF fwd'.file = "V" THEN Vectors ELSE Scalars
  BY <1>8 DEF FileOf
<1> QED
  BY <1>5, <1>6, <1>7, <1>8, <1>9, <1>10, <1>11

\* A tick keeps the types.
LEMMA TickTypes ==
  ASSUME TypeInv, Tick
  PROVE  TypeInv'
<1>1. TypeOK /\ OneUnderWay /\ pe \in PeState /\ pending \in 0..1 /\ responses \in 0..1
  BY DEF TypeInv, TypeOK
<1>2. pe' = TickPe(pe, responses) /\ pe' \in PeState
  BY <1>1, TickPeType DEF Tick
<1>3. operands' \in OperandSet
  BY <1>1, NextOperandsType DEF Tick
<1>4. /\ pending' \in 0..1 /\ responses' \in 0..1 /\ pending' + responses' <= 1
      /\ OneUnderWay'
  <2>1. pending' = pending + Sent(pe) /\ responses' = responses - Taken(pe, responses)
    BY DEF Tick
  <2> QED
    BY <1>1, <1>2, <2>1, TickUnderWay DEF OneUnderWay
<1>5. /\ vrf' \in [VRegs -> Vectors] /\ srf' \in [SRegs -> Scalars]
      /\ MemTyped(mem')
      /\ fwd'.file \in {"None", "V", "S"} /\ fwd'.rd \in VRegs \cup SRegs
      /\ fwd'.result \subseteq (IF fwd'.file = "V" THEN Vectors ELSE Scalars)
      /\ Cardinality(fwd'.result) <= 1
  <2>1. CASE Bubble
    BY <1>1, <2>1 DEF Bubble, TypeOK, MemTyped
  <2>2. CASE \E i \in Insts : Wait(i)
    <3>1. PICK i \in Insts : Wait(i)
      BY <2>2
    <3>2. MemTyped(mem')
      BY <1>1, <3>1, TouchedType DEF Wait, TypeOK, MemTyped
    <3> QED
      BY <1>1, <3>1, <3>2 DEF Wait, TypeOK
  <2>3. CASE \E i \in Insts : Commit(i)
    BY <1>1, <2>3, CommitTypes
  <2> QED
    BY <2>1, <2>2, <2>3 DEF Tick
<1>6. sent' \in 0..MaxInsts
  BY <1>1 DEF Tick, TypeOK
<1> QED
  BY <1>2, <1>3, <1>4, <1>5, <1>6 DEF TypeInv, TypeOK, MemTyped

\* So do the calls of the engine.
LEMMA CallsTypes ==
  ASSUME TypeInv, Push \/ MirrorHostWrite \/ Allow \/ Respond
  PROVE  TypeInv'
<1>1. TypeOK /\ OneUnderWay /\ pe \in PeState /\ pending \in 0..1 /\ responses \in 0..1
  BY DEF TypeInv, TypeOK
<1>2. CASE Push
  <2>1. PICK i \in Insts : pe' = PushHostReq(pe, i)
    BY <1>2 DEF Push
  <2>2. pe' \in PeState /\ pe'.fsm = pe.fsm
    BY <1>1, <2>1, PushType
  <2>3. sent' \in 0..MaxInsts
    BY <1>1, <1>2, PePipelineAssumption DEF Push, TypeOK
  <2>4. UNCHANGED <<operands, fwd, vrf, srf, mem, pending, responses>>
    BY <1>2 DEF Push
  <2> QED
    BY <1>1, <2>2, <2>3, <2>4 DEF TypeInv, TypeOK, OneUnderWay
<1>3. CASE MirrorHostWrite
  <2>1. MemTyped(mem')
    BY <1>1, <1>3, MirrorType DEF MirrorHostWrite, TypeOK, MemTyped
  <2>2. UNCHANGED <<pe, operands, fwd, vrf, srf, pending, responses, sent>>
    BY <1>3 DEF MirrorHostWrite
  <2> QED
    BY <1>1, <2>1, <2>2 DEF TypeInv, TypeOK, OneUnderWay, MemTyped
<1>4. CASE Allow
  <2>1. pe' \in PeState /\ pe'.fsm = pe.fsm
    BY <1>1, <1>4, AllowType DEF Allow
  <2>2. UNCHANGED <<operands, fwd, vrf, srf, mem, pending, responses, sent>>
    BY <1>4 DEF Allow
  <2> QED
    BY <1>1, <2>1, <2>2 DEF TypeInv, TypeOK, OneUnderWay
<1>5. CASE Respond
  <2>1. UNCHANGED <<pe, operands, fwd, vrf, srf, mem, sent>>
    BY <1>5 DEF Respond
  <2>2. pending > 0 /\ pending' = pending - 1 /\ responses' = responses + 1
    BY <1>5 DEF Respond
  <2>3. /\ pending' \in 0..1 /\ responses' \in 0..1
        /\ pending' + responses' = pending + responses /\ pending' + responses' <= 1
    BY <1>1, <2>2 DEF TypeOK
  <2> QED
    BY <1>1, <2>1, <2>3 DEF TypeInv, TypeOK, OneUnderWay
<1> QED
  BY <1>2, <1>3, <1>4, <1>5

\* Registers, latches and memory hold values of their width, whatever is added
\* up, multiplied, loaded or decoded (ALU.rs wraps, flat_memory.rs decodes).
THEOREM TypesHold == Spec => []TypeOK
<1>1. Init => TypeInv
  <2> SUFFICES ASSUME Init PROVE TypeInv
    OBVIOUS
  <2>1. pe \in PeState /\ pe.fsm = "Idle"
    BY DEF Init, NewPe, PeState, Slot, FsmStates
  <2>2. operands \in OperandSet /\ vrf \in [VRegs -> Vectors] /\ srf \in [SRegs -> Scalars]
    BY ZerosType DEF Init, NoOperands, OperandSet
  <2>3. fwd.file = "None" /\ fwd.rd = 0 /\ fwd.result = {} /\ Cardinality(fwd.result) = 0
    BY FS_EmptySet DEF Init, NoForward
  <2>4. DOMAIN mem = Addrs /\ \A a \in Addrs : EntryOK(mem[a])
    BY DEF Init, EntryOK
  <2>5. pending = 0 /\ responses = 0 /\ sent = 0 /\ sent \in 0..MaxInsts
    BY PePipelineAssumption DEF Init
  <2> QED
    BY <2>1, <2>2, <2>3, <2>4, <2>5, PePipelineAssumption DEF TypeInv, TypeOK, OneUnderWay
<1>2. TypeInv /\ [Next]_vars => TypeInv'
  <2> SUFFICES ASSUME TypeInv, [Next]_vars PROVE TypeInv'
    OBVIOUS
  <2>1. CASE UNCHANGED vars
    BY <2>1 DEF vars, TypeInv, TypeOK, OneUnderWay
  <2> QED
    BY <2>1, TickTypes, CallsTypes DEF Next
<1>3. TypeInv => TypeOK
  BY DEF TypeInv
<1> QED
  BY <1>1, <1>2, <1>3, PTL DEF Spec

=============================================================================
