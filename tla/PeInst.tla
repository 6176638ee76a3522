------------------------------- MODULE PeInst -------------------------------
(***************************************************************************)
(* What the instructions of the processing element compute: the ALU        *)
(* (src/PE/ALU.rs), the register files (RF.rs), the decoded operations     *)
(* (ISSUE.rs) and the element's typed view of the bank.  A vector has      *)
(* Lanes words of W bits and a scalar is two words wide, for i16 and i32.  *)
(* Values are tuples, a scalar a tuple of one number.                      *)
(***************************************************************************)
EXTENDS Integers

CONSTANTS Lanes, W,          \* vector length and word width in bits
          LineEntries        \* entries of a host cache line

ASSUME PeInstAssumption ==
  Lanes \in Nat \ {0, 1} /\ W \in Nat \ {0} /\ LineEntries \in Nat \ {0}

\* What the proofs need of exponentiation, for exponents that occur.
ASSUME PowersOfTwo ==
  \A m, n \in 0 .. (2 * W) : 2 ^ m \in Nat \ {0} /\ 2 ^ (m + n) = 2 ^ m * 2 ^ n

Signed(n, bits) == ((n + 2 ^ (bits - 1)) % (2 ^ bits)) - 2 ^ (bits - 1)

\* Mutant: arithmetic that does not wrap.
Unwrapped(n, bits) == n

\* i16 and i32 arithmetic wraps.
Wrap(n, bits) == Signed(n, bits)

Zeros == [l \in 1..Lanes |-> 0]

\* The host's share of an entry: Lanes unsigned words.
Bytes == [1..Lanes -> 0 .. (2 ^ W - 1)]

\* decode_PE_Vector and decode_PE_Scalar
PeDecode(type, bytes) ==
  IF type = "Vector" THEN [l \in 1..Lanes |-> Signed(bytes[l], W)]
  ELSE <<Signed(bytes[1] + bytes[2] * 2 ^ W, 2 * W)>>

PeDefault(type) == IF type = "Vector" THEN {Zeros} ELSE {<<0>>}

FM == INSTANCE FlatMemory WITH
        EntriesPerLine <- LineEntries, Decode <- PeDecode, Default <- PeDefault

-----------------------------------------------------------------------------
(* An instruction names a destination rd, vector sources v0 and v1, a       *)
(* scalar source s0 and an address; those it does not use are 0.            *)

VectorOps == {"ADD128", "SUB128", "MUL128", "ReLU"}
Loads     == {"LD128", "LD32"}
Stores    == {"ST128", "ST32"}

WritesVector(i) == i.op \in VectorOps \cup {"LD128"}
WritesScalar(i) == i.op \in {"MAC128", "LD32"}

\* The type of the entry that a load or a store is about.
TypeOf(i) == IF i.op \in {"LD128", "ST128"} THEN "Vector" ELSE "Scalar"

Zip(op(_, _), a, b) == [l \in 1..Lanes |-> Wrap(op(a[l], b[l]), W)]

DotProduct(a, b) ==
  LET sum[l \in 0..Lanes] == IF l = 0 THEN 0 ELSE sum[l - 1] + a[l] * b[l]
  IN sum[Lanes]

\* ALU_comp for the operations with a vector result.
VectorAlu(op, a, b) ==
  CASE op = "ADD128" -> Zip(LAMBDA x, y : x + y, a, b)
    [] op = "SUB128" -> Zip(LAMBDA x, y : x - y, a, b)
    [] op = "MUL128" -> Zip(LAMBDA x, y : x * y, a, b)
    [] op = "ReLU"   -> [l \in 1..Lanes |-> IF a[l] > 0 THEN a[l] ELSE 0]

\* The result of instruction i on operands o = [v0, v1, s0], if it has one.
\* mem is the memory it loads from.
VectorResult(i, o, mem) ==
  IF i.op = "LD128" THEN FM!ReadAs(mem[i.addr], "Vector")
  ELSE {VectorAlu(i.op, o.v0, o.v1)}

ScalarResult(i, o, mem) ==
  IF i.op = "LD32" THEN FM!ReadAs(mem[i.addr], "Scalar")
  ELSE {<<Wrap(o.s0[1] + DotProduct(o.v0, o.v1), 2 * W)>>}

\* What instruction i writes into its destination register: nothing if it
\* has none or its load met an entry of the other type.
Result(i, o, mem) ==
  CASE WritesVector(i) -> VectorResult(i, o, mem)
    [] WritesScalar(i) -> ScalarResult(i, o, mem)
    [] OTHER -> {}

\* Register 0 of either file reads as zero and ignores writes.
WriteReg(rf, rd, result) ==
  IF rd = 0 THEN rf ELSE [r \in DOMAIN rf |-> IF r = rd /\ result # {}
                                              THEN CHOOSE v \in result : TRUE
                                              ELSE rf[r]]

VrfAfter(vrf, i, result) == IF WritesVector(i) THEN WriteReg(vrf, i.rd, result) ELSE vrf
SrfAfter(srf, i, result) == IF WritesScalar(i) THEN WriteReg(srf, i.rd, result) ELSE srf

\* A load fixes the type of the entry it looks at.
Touched(mem, i) ==
  IF i.op \in Loads THEN [mem EXCEPT ![i.addr] = FM!Claimed(@, TypeOf(i))] ELSE mem

Stored(mem, i, o) ==
  IF i.op \in Stores
  THEN [mem EXCEPT ![i.addr] =
          FM!Written(@, TypeOf(i), IF i.op = "ST128" THEN o.v0 ELSE o.s0)]
  ELSE mem

MemAfter(mem, i, o) == Stored(Touched(mem, i), i, o)

=============================================================================
