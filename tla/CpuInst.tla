------------------------------ MODULE CpuInst -------------------------------
(***************************************************************************)
(* What the instructions of the CGO processor compute: the ALU             *)
(* (src/cpu/EX.rs), pointer arithmetic and translation by the AGU          *)
(* (src/memory/AGU_unit.rs), the register files (src/cpu/RF.rs) and the    *)
(* processor's typed view of the bank.  A vector has Lanes words of W      *)
(* bits; a fat pointer is a word of which OffBits bits are the offset and  *)
(* the others the tag, which names a descriptor.  An optional value is a   *)
(* set of at most one.  Arithmetic wraps, as in a release build; a build   *)
(* with overflow checks stops instead.                                     *)
(***************************************************************************)
EXTENDS Naturals, Sequences

CONSTANTS Lanes, W, OffBits,   \* 4, 32 and BOUND_BITS in the code
          LineEntries,         \* entries of a host cache line
          Descriptors          \* the AGU table: tag -> [base, bound]

ASSUME CpuInstAssumption ==
  /\ Lanes \in Nat \ {0} /\ W \in Nat /\ OffBits \in 1..W /\ LineEntries \in Nat \ {0}
  /\ DOMAIN Descriptors = 0 .. (2 ^ (W - OffBits) - 1)
  /\ \A t \in DOMAIN Descriptors :
       /\ Descriptors[t].base \in Nat
       /\ Descriptors[t].bound \in 0 .. (2 ^ OffBits - 1)

\* What the proofs need of exponentiation, for exponents that occur.
ASSUME PowersOfTwo ==
  \A m, n \in 0..W : 2 ^ m \in Nat \ {0} /\ 2 ^ (m + n) = 2 ^ m * 2 ^ n

Words == 0 .. (2 ^ W - 1)
Vectors == [1..Lanes -> Words]
Zeros == [l \in 1..Lanes |-> 0]

Pointer(tag, offset) == <<tag, offset>>
Tag(p) == p[1]
Offset(p) == p[2]
Pointers == (DOMAIN Descriptors) \X (0 .. (2 ^ OffBits - 1))

\* decode_CPU_Data and decode_CPU_FatPtr: bytes are Lanes words.
CpuDecode(type, bytes) ==
  IF type = "Data" THEN bytes
  ELSE Pointer(bytes[1] \div 2 ^ OffBits, bytes[1] % 2 ^ OffBits)

CpuDefault(type) == IF type = "Data" THEN {Zeros} ELSE {}

FM == INSTANCE FlatMemory WITH
        EntriesPerLine <- LineEntries, Decode <- CpuDecode, Default <- CpuDefault

-----------------------------------------------------------------------------
(* An instruction is [op, rd, v1, v2, f, fd, imm]: destination register,    *)
(* vector sources, the pointer the AGU looks at, the pointer FatPtrST       *)
(* stores, and a lane or a jump target.  Fields it does not use are 0.      *)

Nop == [op |-> "NOP", rd |-> 0, v1 |-> 0, v2 |-> 0, f |-> 0, fd |-> 0, imm |-> 0]

AluOps == {"ADD128", "SUB128", "MUL128", "AND128"}
Loads  == {"LD128", "FatPtrLD"}
Stores == {"ST128", "FatPtrST"}
Moves  == {"FatPtrADD", "FatPtrSUB"}

\* WBop: the register file an instruction writes.
File(i) == CASE i.op \in AluOps \cup {"LD128"} -> "V"
             [] i.op \in Moves \cup {"FatPtrLD"} -> "F"
             [] OTHER -> "None"

IsMem(i) == i.op \in Loads \cup Stores
TypeOf(i) == IF i.op \in {"LD128", "ST128"} THEN "Data" ELSE "FatPtr"

Bit(n, k) == (n \div 2 ^ k) % 2
BitAnd(a, b) ==
  LET low[k \in 0..W] ==    \* of the k lowest bits
        IF k = 0 THEN 0 ELSE low[k - 1] + Bit(a, k - 1) * Bit(b, k - 1) * 2 ^ (k - 1)
  IN low[W]

\* The lane-wise operations of eval_EX.
AluWord(op, a, b) ==
  CASE op = "ADD128" -> (a + b) % 2 ^ W
    [] op = "SUB128" -> (a + 2 ^ W - b) % 2 ^ W
    [] op = "MUL128" -> (a * b) % 2 ^ W
    [] op = "AND128" -> BitAnd(a, b)

Alu(op, a, b) == [l \in 1..Lanes |-> AluWord(op, a[l], b[l])]

-----------------------------------------------------------------------------
(* AGU_unit *)

\* Mutant: the bound counts as inside.
AcceptsBound(p) == Offset(p) <= Descriptors[Tag(p)].bound

Accept(p) == Offset(p) < Descriptors[Tag(p)].bound

Translate(p) == Descriptors[Tag(p)].base + Offset(p)

\* get_offset panics on an offset that does not fit.
Overflows(i, p, v) ==
  /\ i.op = "FatPtrADD" /\ i.imm < Lanes
  /\ (Offset(p) + v[i.imm + 1]) % 2 ^ W >= 2 ^ OffBits

\* addition and subtraction; subtraction never arrives at offset 0.
MovedPtr(i, p, v) ==
  LET word == v[i.imm + 1]
      new == IF i.op = "FatPtrADD" THEN (Offset(p) + word) % 2 ^ W ELSE Offset(p) - word
  IN IF i.imm >= Lanes \/ (i.op = "FatPtrSUB" /\ Offset(p) <= word) THEN {}
     ELSE {q \in {Pointer(Tag(p), new)} : Accept(q)}

\* The AGU raises an exception on instruction i with pointer p and vector v.
Rejects(i, p, v) ==
  \/ IsMem(i) /\ ~Accept(p)
  \/ i.op \in Moves /\ MovedPtr(i, p, v) = {}

-----------------------------------------------------------------------------
(* Effects.  x is an instruction behind the AGU: inst, result of ALU or     *)
(* AGU, paddr, and the data a store carries.                                *)

\* eval_MEM: a load's result is what the entry reads as, if its type fits.
Loaded(mem, x) ==
  IF x.inst.op \in Loads THEN FM!ReadAs(mem[x.paddr], TypeOf(x.inst)) ELSE x.result

\* A load fixes the type of the entry it looks at.
Touched(mem, x) ==
  IF x.inst.op \in Loads THEN [mem EXCEPT ![x.paddr] = FM!Claimed(@, TypeOf(x.inst))]
  ELSE mem

Stored(mem, x) ==
  IF x.inst.op \in Stores
  THEN [mem EXCEPT ![x.paddr] = FM!Written(@, TypeOf(x.inst), x.data)]
  ELSE mem

Only(s) == CHOOSE e \in s : TRUE

\* eval_WB and arch_update: vector register 0 ignores writes.
WrittenV(vrf, i, result) ==
  IF File(i) = "V" /\ i.rd # 0 /\ result # {} THEN [vrf EXCEPT ![i.rd] = Only(result)] ELSE vrf
WrittenF(frf, i, result) ==
  IF File(i) = "F" /\ result # {} THEN [frf EXCEPT ![i.rd] = Only(result)] ELSE frf

=============================================================================
