------------------------- MODULE CpuPipelineProofs --------------------------
(***************************************************************************)
(* The CGO processor's pipeline, for every program, memory, descriptor     *)
(* table, vector length and word width: what is computed, moved and loaded *)
(* keeps its width and its place, every request to the DRAM is waited for  *)
(* by exactly one signal of the scoreboard, and every step is one that     *)
(* CgoCpu, the processor in the engine's model, allows.                    *)
(***************************************************************************)
EXTENDS CpuPipeline, DataLemmas

-----------------------------------------------------------------------------
(* The inductive invariant.                                                 *)

\* The values of the register file that instruction i writes, if any.
FileValues(i) == IF File(i) = "F" THEN Pointers ELSE Vectors

\* What a latch in front of MEM holds, and what one behind it holds.
FlightTyped(x) ==
  /\ DOMAIN x = {"pc", "inst", "result", "paddr", "data"}
  /\ x.pc \in 0 .. (2 ^ PcBits - 1) /\ InstOK(x.inst)
  /\ AtMostOne(x.result, FileValues(x.inst))
  /\ x.paddr \in Addrs \cup {0}
  /\ x.data \in (IF x.inst.op = "FatPtrST" THEN Pointers \cup {Zeros} ELSE Vectors)
ProducedTyped(x) == AtMostOne(x.result, FileValues(x.inst))

\* What has passed the AGU has an address in the bank and its data.
Addressed(x) ==
  /\ IsMem(x.inst) => x.paddr \in Addrs
  /\ x.inst.op = "FatPtrST" => x.data \in Pointers

OneOf(l) == l = <<>> \/ l = <<l[1]>>

LatchesTyped ==
  /\ \A l \in {ifid, idex, exagu, agumem, memwb, fwd} : OneOf(l)
  /\ \A l \in {ifid, idex, exagu, agumem} : l # <<>> => FlightTyped(l[1])
  /\ agumem # <<>> => Addressed(agumem[1])
  /\ \A l \in {memwb, fwd} : l # <<>> => ProducedTyped(l[1])

MemTyped(m) == DOMAIN m = Addrs /\ \A a \in Addrs : EntryOK(m[a])

ArchTyped ==
  /\ prog \in Programs
  /\ pc \in 0 .. (2 ^ PcBits - 1)
  /\ vrf \in [VRegs -> Vectors] /\ frf \in [FRegs -> Pointers]
  /\ MemTyped(mem)

\* CgoCpu's record, of which the pipeline uses a part.
CpuTyped(c) ==
  c \in [started : BOOLEAN, finished : BOOLEAN, prog_end_seen : BOOLEAN, ending : {0},
         ext_pause_requested : BOOLEAN, ready4ext_sig : BOOLEAN,
         pause_ready_delay_started : BOOLEAN, ext_signal_delay_remaining : 0..MaxDelay,
         resume_delay_pending : BOOLEAN, winner : DOMAIN Priority \cup {"none"},
         agu : {FALSE}, mem : {"None"}, late : {FALSE}]

\* A signal as Block and Signal make them and the FSMs advance them.
SigTyped(s) ==
  /\ s = [reason |-> s.reason, issuer |-> s.issuer, line |-> s.line,
          isRead |-> s.isRead, left |-> s.left]
  /\ s.reason \in DOMAIN Priority /\ s.issuer \in Stages
  /\ s.line \in Nat /\ s.isRead \in BOOLEAN
  /\ s.left \in 1 .. Steps[s.reason]
  /\ s.reason # "MEM_block" => s.line = 0 /\ ~s.isRead
  /\ s.reason = "MEM_block" => s.issuer = "MEM"

\* active_sig is a map: no key is in it twice.
OneEach(S) == \A s, t \in S : SameKey(s, t) => s = t

\* Of a set of signals, the requests for which an FSM awaits the answer.
AwaitedKeys(S) ==
  {KeyOf(s) : s \in {b \in S : b.reason = "MEM_block" /\ Phase[b.left] = "Stall"}}

SigsTyped(S) == OneEach(S) /\ \A s \in S : SigTyped(s)

RequestsInv == AwaitedKeys(sigs) = dram \cup done /\ dram \cap done = {}

PipeInv ==
  /\ ArchTyped /\ LatchesTyped /\ CpuTyped(cpu)
  /\ SigsTyped(sigs) /\ RequestsInv
  /\ panicked \in BOOLEAN /\ pauses \in 0..MaxPauses

-----------------------------------------------------------------------------
(* The scoreboard.                                                          *)

LEMMA SignalType ==
  ASSUME NEW reason \in DOMAIN Priority, reason # "MEM_block", NEW issuer \in Stages
  PROVE  /\ SigTyped(Signal(reason, issuer))
         /\ Signal(reason, issuer).reason = reason
         /\ Signal(reason, issuer).left = Steps[reason]
BY DEF SigTyped, Signal, Priority, Steps

LEMMA BlockType ==
  ASSUME NEW line \in Nat, NEW isRead \in BOOLEAN
  PROVE  /\ SigTyped(Block(line, isRead))
         /\ Block(line, isRead).reason = "MEM_block"
         /\ Block(line, isRead).left = 4
BY DEF SigTyped, Block, Priority, Steps, Stages

\* A typed signal is given by its key and the steps it has left.
LEMMA SameSignal ==
  ASSUME NEW s, SigTyped(s), NEW t, SigTyped(t), SameKey(s, t), s.left = t.left
  PROVE  s = t
BY DEF SigTyped, SameKey

\* What stages raise: signals that have all their steps before them.
Fresh(R) == \A r \in R : SigTyped(r) /\ r.left = Steps[r.reason]

\* submit_signal keeps the keys apart.
LEMMA SubmittedType ==
  ASSUME NEW S, SigsTyped(S), NEW R, Fresh(R)
  PROVE  SigsTyped(Submitted(S, R))
<1>1. \A s \in Submitted(S, R) : SigTyped(s)
  BY DEF Submitted, SigsTyped, Fresh
<1>2. ASSUME NEW s \in Submitted(S, R), NEW t \in Submitted(S, R), SameKey(s, t)
      PROVE  s = t
  <2>1. SameKey(t, s)
    BY <1>2 DEF SameKey
  <2>2. CASE s \in S /\ t \in S
    BY <1>2, <2>2 DEF SigsTyped, OneEach
  <2>3. CASE s \in S /\ t \notin S
    BY <2>1, <2>3 DEF Submitted
  <2>4. CASE s \notin S /\ t \in S
    BY <1>2, <2>4 DEF Submitted
  <2>5. CASE s \notin S /\ t \notin S
    <3>1. s \in R /\ t \in R
      BY <2>5 DEF Submitted
    <3>2. s.left = t.left
      BY <1>2, <3>1 DEF Fresh, SameKey
    <3> QED
      BY <1>1, <1>2, <3>2, SameSignal
  <2> QED
    BY <2>2, <2>3, <2>4, <2>5
<1> QED
  BY <1>1, <1>2 DEF SigsTyped, OneEach

\* Nothing that is new has been told its line yet.
LEMMA SubmittedAwaits ==
  ASSUME NEW S, NEW R, Fresh(R)
  PROVE  AwaitedKeys(Submitted(S, R)) = AwaitedKeys(S)
<1>1. \A r \in R : r.reason = "MEM_block" => Phase[r.left] # "Stall"
  BY DEF Fresh, Steps, Phase
<1> QED
  BY <1>1 DEF AwaitedKeys, Submitted

LEMMA ClearedType ==
  ASSUME NEW S, SigsTyped(S), NEW reason, reason # "MEM_block"
  PROVE  SigsTyped(Cleared(S, reason)) /\ AwaitedKeys(Cleared(S, reason)) = AwaitedKeys(S)
<1>1. SigsTyped(Cleared(S, reason))
  BY DEF Cleared, SigsTyped, OneEach
<1>2. AwaitedKeys(Cleared(S, reason)) = AwaitedKeys(S)
  BY DEF AwaitedKeys, Cleared
<1> QED
  BY <1>1, <1>2

\* The last key of a map is one key.
LEMMA OneWinner ==
  ASSUME NEW S, SigsTyped(S)
  PROVE  AtMostOne(Winner(S), S)
<1>1. ASSUME NEW s \in Winner(S), NEW t \in Winner(S), s # t PROVE FALSE
  <2>1. Outranks(s, t) /\ Outranks(t, s)
    BY <1>1 DEF Winner
  <2>2. SigTyped(s) /\ SigTyped(t)
    BY DEF Winner, SigsTyped
  <2> DEFINE p == Priority[s.reason]  q == Priority[t.reason]
             m == Rank[s.issuer]      n == Rank[t.issuer]
  <2>3. p \in Nat /\ q \in Nat
    BY <2>2 DEF SigTyped, Priority
  <2>4. m \in Nat /\ n \in Nat
    BY <2>2 DEF SigTyped, Rank, Stages
  <2>5. /\ \/ p > q
           \/ p = q /\ m > n
           \/ p = q /\ s.issuer = t.issuer /\ s.line > t.line
           \/ p = q /\ s.issuer = t.issuer /\ s.line = t.line /\ s.isRead /\ ~t.isRead
        /\ \/ q > p
           \/ q = p /\ n > m
           \/ q = p /\ t.issuer = s.issuer /\ t.line > s.line
           \/ q = p /\ t.issuer = s.issuer /\ t.line = s.line /\ t.isRead /\ ~s.isRead
    BY <2>1, Zenon DEF Outranks
  <2>6. s.issuer = t.issuer => m = n
    OBVIOUS
  <2>7. s.line \in Nat /\ t.line \in Nat
    BY <2>2 DEF SigTyped
  <2> HIDE DEF p, q, m, n
  <2> QED
    BY <2>3, <2>4, <2>5, <2>6, <2>7
<1>2. Winner(S) \subseteq S
  BY DEF Winner
<1> QED
  BY <1>1, <1>2 DEF AtMostOne

\* advance_winner keeps the key.
LEMMA AdvancedType ==
  ASSUME NEW s, SigTyped(s), NEW answered
  PROVE  /\ SameKey(Advanced(s, answered), s)
         /\ Advanced(s, answered).left > 0 => SigTyped(Advanced(s, answered))
<1>1. CASE Advanced(s, answered) = s
  BY <1>1 DEF SameKey
<1>2. CASE Advanced(s, answered) = [s EXCEPT !.left = @ - 1]
  <2> DEFINE t == Advanced(s, answered)
  <2>1. t = [reason |-> s.reason, issuer |-> s.issuer, line |-> s.line,
             isRead |-> s.isRead, left |-> s.left - 1]
    BY <1>2 DEF SigTyped
  <2>2. s.left \in Int /\ s.left <= Steps[s.reason] /\ Steps[s.reason] \in Nat
    BY DEF SigTyped, Steps, Priority
  <2>3. t.left > 0 => t.left \in 1 .. Steps[s.reason]
    BY <2>1, <2>2
  <2> HIDE DEF t
  <2>4. t.left > 0 => SigTyped(t)
    BY <2>1, <2>3 DEF SigTyped
  <2>5. SameKey(t, s)
    BY <2>1 DEF SameKey
  <2> QED
    BY <2>4, <2>5 DEF t
<1> QED
  BY <1>1, <1>2 DEF Advanced

\* The scoreboard after a decision is one.
LEMMA AfterType ==
  ASSUME NEW S, SigsTyped(S), NEW answered
  PROVE  SigsTyped(After(S, Winner(S), answered))
<1> DEFINE A == After(S, Winner(S), answered)
<1>1. AtMostOne(Winner(S), S)
  BY OneWinner
<1>2. CASE Winner(S) = {}
  <2>1. A \subseteq S
    BY <1>2 DEF After
  <2> QED
    BY <2>1 DEF SigsTyped, OneEach
<1>3. CASE \E w \in S : Winner(S) = {w}
  <2>1. PICK w \in S : Winner(S) = {w}
    BY <1>3
  <2> DEFINE v == Advanced(w, answered)
  <2>2. SameKey(v, w) /\ (v.left > 0 => SigTyped(v))
    BY AdvancedType DEF SigsTyped
  <2>3. \A s \in A : (s = v /\ v.left > 0) \/ s \in S \ {w}
    BY <2>1 DEF After
  <2> HIDE DEF A, v
  <2>4. \A s \in A : SigTyped(s)
    BY <2>2, <2>3 DEF SigsTyped
  <2>5. ASSUME NEW s \in A, NEW t \in A, SameKey(s, t) PROVE s = t
    <3>1. CASE s \in S \ {w} /\ t \in S \ {w}
      BY <2>5, <3>1 DEF SigsTyped, OneEach
    <3>2. CASE s = v /\ t \in S \ {w}
      <4>1. SameKey(w, t)
        BY <2>2, <2>5, <3>2 DEF SameKey
      <4> QED
        BY <3>2, <4>1 DEF SigsTyped, OneEach
    <3>3. CASE s \in S \ {w} /\ t = v
      <4>1. SameKey(s, w)
        BY <2>2, <2>5, <3>3 DEF SameKey
      <4> QED
        BY <3>3, <4>1 DEF SigsTyped, OneEach
    <3>4. CASE s = v /\ t = v
      BY <3>4
    <3> QED
      BY <2>3, <3>1, <3>2, <3>3, <3>4
  <2> QED
    BY <2>4, <2>5 DEF SigsTyped, OneEach, A
<1> QED
  BY <1>1, <1>2, <1>3 DEF AtMostOne

-----------------------------------------------------------------------------
(* Requests and responses.                                                  *)

\* A signal that is not a request for memory changes nothing about them.
LEMMA OthersAwait ==
  ASSUME NEW S, NEW answered, Winner(S) = {} \/ \E w \in S : Winner(S) = {w} /\ w.reason # "MEM_block"
  PROVE  AwaitedKeys(After(S, Winner(S), answered)) = AwaitedKeys(S)
<1>1. \A w \in Winner(S) : Advanced(w, answered).reason # "MEM_block"
  BY DEF Advanced
<1>2. ASSUME NEW s, s.reason = "MEM_block"
      PROVE  s \in After(S, Winner(S), answered) <=> s \in S
  BY <1>1, <1>2 DEF After
<1> QED
  BY <1>2 DEF AwaitedKeys

\* (Named, so that the provers need not look into them.)
With(keys, k) == keys \cup {k}
Without(keys, k) == keys \ {k}

\* What the keys of memory requests awaited become when the FSM of one, w,
\* takes a step: Submit puts it in, an answer in Stall takes it out.
LEMMA BlockAwaits ==
  ASSUME NEW S, SigsTyped(S), NEW w \in S, w.reason = "MEM_block", NEW answered
  PROVE  /\ Phase[w.left] = "Submit" =>
              AwaitedKeys(After(S, {w}, answered)) = With(AwaitedKeys(S), KeyOf(w))
         /\ Phase[w.left] = "Stall" /\ answered =>
              AwaitedKeys(After(S, {w}, answered)) = Without(AwaitedKeys(S), KeyOf(w))
         /\ Phase[w.left] = "Stall" /\ ~answered =>
              AwaitedKeys(After(S, {w}, answered)) = AwaitedKeys(S)
         /\ Phase[w.left] \notin {"Submit", "Stall"} =>
              AwaitedKeys(After(S, {w}, answered)) = AwaitedKeys(S)
<1> DEFINE A == After(S, {w}, answered)
           v == Advanced(w, answered)
<1>0. SigTyped(w) /\ w.left \in 1..4
  BY DEF SigsTyped, SigTyped, Steps
<1>1. A = (IF v.left > 0 THEN {v} ELSE {}) \cup {s \in S \ {w} : s.reason # "RAW_resolution"}
  BY DEF After
<1>2. SameKey(v, w) /\ KeyOf(v) = KeyOf(w) /\ v.reason = "MEM_block"
  BY <1>0, AdvancedType DEF SameKey, KeyOf
<1>3. v.left = IF Phase[w.left] = "Stall" /\ ~answered THEN w.left ELSE w.left - 1
  BY <1>0 DEF Advanced, SigTyped
<1> HIDE DEF v, A
<1> DEFINE Rest == AwaitedKeys(S \ {w})
<1>4. AwaitedKeys(A) = Rest \cup (IF v.left > 0 /\ Phase[v.left] = "Stall" THEN {KeyOf(w)} ELSE {})
  <2>1. ASSUME NEW k
        PROVE  k \in AwaitedKeys(A) <=>
                 \/ k \in Rest
                 \/ v.left > 0 /\ Phase[v.left] = "Stall" /\ k = KeyOf(w)
    BY <1>1, <1>2 DEF AwaitedKeys
  <2> HIDE DEF Rest
  <2> QED
    BY <2>1
<1>5. AwaitedKeys(S) = Rest \cup (IF Phase[w.left] = "Stall" THEN {KeyOf(w)} ELSE {})
  BY DEF AwaitedKeys
<1>6. KeyOf(w) \notin Rest
  <2> SUFFICES ASSUME NEW s \in S \ {w}, s.reason = "MEM_block", KeyOf(s) = KeyOf(w) PROVE FALSE
    BY DEF AwaitedKeys
  <2>1. s.issuer = "MEM" /\ w.issuer = "MEM"
    BY <1>0 DEF SigsTyped, SigTyped
  <2>2. s.line = w.line /\ s.isRead = w.isRead
    BY DEF KeyOf
  <2>3. SameKey(s, w)
    BY <2>1, <2>2 DEF SameKey
  <2> QED
    BY <2>3 DEF SigsTyped, OneEach
<1> HIDE DEF Rest
<1>7. CASE Phase[w.left] = "Submit"
  <2>1. w.left = 4 /\ v.left = 3 /\ Phase[v.left] = "Stall"
    BY <1>0, <1>3, <1>7 DEF Phase
  <2> QED
    BY <1>4, <1>5, <1>7, <2>1 DEF A, With
<1>8. CASE Phase[w.left] = "Stall"
  <2>1. w.left = 3
    BY <1>0, <1>8 DEF Phase
  <2>2. CASE answered
    <3>1. v.left = 2 /\ Phase[v.left] = "WriteBack"
      BY <1>3, <1>8, <2>1, <2>2 DEF Phase
    <3> QED
      BY <1>4, <1>5, <1>6, <1>8, <2>2, <3>1 DEF A, Without
  <2>3. CASE ~answered
    <3>1. v.left = 3
      BY <1>3, <1>8, <2>1, <2>3
    <3> QED
      BY <1>4, <1>5, <1>8, <2>1, <2>3, <3>1 DEF A
  <2> QED
    BY <2>2, <2>3
<1>9. CASE Phase[w.left] \notin {"Submit", "Stall"}
  <2>1. w.left \in 1..2 /\ v.left = w.left - 1
    BY <1>0, <1>3, <1>9 DEF Phase
  <2>2. ~(v.left > 0 /\ Phase[v.left] = "Stall")
    BY <2>1 DEF Phase
  <2> QED
    BY <1>4, <1>5, <1>9, <2>2 DEF A
<1> QED
  BY <1>7, <1>8, <1>9 DEF A

\* A decision sends what it puts to waiting and takes what waits no longer.
LEMMA DecisionAwaits ==
  ASSUME NEW S, SigsTyped(S), AwaitedKeys(S) = dram \cup done, dram \cap done = {},
         NEW R, R = Winner(S)
  PROVE  /\ AwaitedKeys(After(S, R, Takes(R) # {})) = (dram \cup Sends(R)) \cup (done \ Takes(R))
         /\ (dram \cup Sends(R)) \cap (done \ Takes(R)) = {}
<1>1. AtMostOne(Winner(S), S)
  BY OneWinner
<1>2. CASE Winner(S) = {} \/ \E w \in S : Winner(S) = {w} /\ w.reason # "MEM_block"
  <2>1. Sends(R) = {} /\ Takes(R) = {}
    BY <1>2 DEF Sends, Takes
  <2>2. AwaitedKeys(After(S, R, Takes(R) # {})) = AwaitedKeys(S)
    BY <1>2, OthersAwait
  <2> QED
    BY <2>1, <2>2
<1>3. CASE \E w \in S : Winner(S) = {w} /\ w.reason = "MEM_block"
  <2>1. PICK w \in S : Winner(S) = {w} /\ w.reason = "MEM_block"
    BY <1>3
  <2>0. R = {w}
    BY <2>1
  <2>2. Phase[w.left] = "Stall" => KeyOf(w) \in dram \cup done
    BY <2>1 DEF AwaitedKeys
  <2>3. CASE Phase[w.left] = "Submit"
    <3>1. Sends(R) = {KeyOf(w)} /\ Takes(R) = {}
      BY <2>1, <2>3 DEF Sends, Takes
    <3>2. AwaitedKeys(After(S, R, Takes(R) # {})) = With(AwaitedKeys(S), KeyOf(w))
      BY <2>0, <2>1, <2>3, BlockAwaits
    <3>3. KeyOf(w) \notin done
      <4> SUFFICES ASSUME NEW s \in S, s.reason = "MEM_block", Phase[s.left] = "Stall",
                          KeyOf(s) = KeyOf(w)
                   PROVE  FALSE
        BY DEF AwaitedKeys
      <4>1. s.issuer = w.issuer
        BY <2>1 DEF SigsTyped, SigTyped
      <4>2. SameKey(s, w)
        BY <2>1, <4>1 DEF SameKey, KeyOf
      <4>3. s = w
        BY <4>2 DEF SigsTyped, OneEach
      <4> QED
        BY <2>3, <4>3
    <3> QED
      BY <3>1, <3>2, <3>3 DEF With
  <2>4. CASE Phase[w.left] = "Stall" /\ KeyOf(w) \in done
    <3>1. Sends(R) = {} /\ Takes(R) = {KeyOf(w)}
      BY <2>1, <2>4 DEF Sends, Takes
    <3>2. AwaitedKeys(After(S, R, Takes(R) # {})) = Without(AwaitedKeys(S), KeyOf(w))
      <4>1. (Takes(R) # {}) = TRUE
        BY <3>1
      <4>2. AwaitedKeys(After(S, R, TRUE)) = Without(AwaitedKeys(S), KeyOf(w))
        BY <2>0, <2>1, <2>4, BlockAwaits
      <4> QED
        BY <4>1, <4>2
    <3> QED
      BY <2>4, <3>1, <3>2 DEF Without
  <2>5. CASE Phase[w.left] = "Stall" /\ KeyOf(w) \notin done
    <3>1. Sends(R) = {} /\ Takes(R) = {}
      BY <2>1, <2>5 DEF Sends, Takes
    <3>2. AwaitedKeys(After(S, R, Takes(R) # {})) = AwaitedKeys(S)
      <4>1. (Takes(R) # {}) = FALSE
        BY <3>1
      <4>2. AwaitedKeys(After(S, R, FALSE)) = AwaitedKeys(S)
        BY <2>0, <2>1, <2>5, BlockAwaits, ZenonT(60)
      <4> QED
        BY <4>1, <4>2
    <3> QED
      BY <3>1, <3>2
  <2>6. CASE Phase[w.left] \notin {"Submit", "Stall"}
    <3>1. Sends(R) = {} /\ Takes(R) = {}
      BY <2>1, <2>6 DEF Sends, Takes
    <3>2. AwaitedKeys(After(S, R, Takes(R) # {})) = AwaitedKeys(S)
      BY <2>0, <2>1, <2>6, BlockAwaits
    <3> QED
      BY <3>1, <3>2
  <2> QED
    BY <2>3, <2>4, <2>5, <2>6
<1> QED
  BY <1>1, <1>2, <1>3 DEF AtMostOne

-----------------------------------------------------------------------------
(* What instructions compute fits the registers.                            *)

LEMMA PowerTypes ==
  /\ W \in Nat /\ OffBits \in 0..W /\ W - OffBits \in 0..W
  /\ 2 ^ W \in Nat \ {0} /\ 2 ^ OffBits \in Nat \ {0} /\ 2 ^ (W - OffBits) \in Nat \ {0}
  /\ 2 ^ W = 2 ^ (W - OffBits) * 2 ^ OffBits
<1>1. W \in Nat /\ OffBits \in 0..W /\ W - OffBits \in 0..W /\ W \in 0..W /\ 0 \in 0..W
  BY CpuInstAssumption
<1>2. (W - OffBits) + OffBits = W
  BY <1>1
<1>3. 2 ^ ((W - OffBits) + OffBits) = 2 ^ (W - OffBits) * 2 ^ OffBits
  BY <1>1, PowersOfTwo
<1> QED
  BY <1>1, <1>2, <1>3, PowersOfTwo

LEMMA LanesAreNat == Lanes \in Nat /\ 1 \in 1..Lanes
BY CpuInstAssumption

LEMMA WordsAreNat == Words \subseteq Nat /\ 0 \in Words
<1> DEFINE M == 2 ^ W
<1>1. M \in Nat \ {0} /\ Words = 0 .. (M - 1)
  BY PowerTypes DEF Words
<1> HIDE DEF M
<1> QED
  BY <1>1

LEMMA WordOf == ASSUME NEW n \in Int PROVE n % (2 ^ W) \in Words
<1> DEFINE M == 2 ^ W
<1>1. M \in Nat \ {0} /\ Words = 0 .. (M - 1)
  BY PowerTypes DEF Words
<1> HIDE DEF M
<1>2. n % M \in Words
  BY <1>1, Remainder
<1> QED
  BY <1>2 DEF M

LEMMA ZerosType == Zeros \in Vectors
BY WordsAreNat DEF Zeros, Vectors

LEMMA LaneType == ASSUME NEW v \in Vectors, NEW l \in 1..Lanes PROVE v[l] \in Words
BY DEF Vectors

\* A bit is 0 or 1.
LEMMA BitType == ASSUME NEW n \in Nat, NEW k \in 0..W PROVE Bit(n, k) \in 0..1
<1> DEFINE P == 2 ^ k
<1>1. P \in Nat \ {0}
  BY PowerTypes, PowersOfTwo
<1> HIDE DEF P
<1>2. n \div P \in Nat
  BY <1>1
<1>3. (n \div P) % 2 \in 0..1
  BY <1>2
<1> QED
  BY <1>3 DEF Bit, P

\* The conjunction of two words is a word: its k lowest bits are below 2^k.
LEMMA BitAndType ==
  ASSUME NEW a \in Nat, NEW b \in Nat
  PROVE  BitAnd(a, b) \in Words
<1> DEFINE t == [l \in 1..W |-> Bit(a, l - 1) * Bit(b, l - 1) * 2 ^ (l - 1)]
<1> DEFINE IsLow(g) ==
      g = [l \in 0..W |->
             IF l = 0 THEN 0 ELSE g[l - 1] + Bit(a, l - 1) * Bit(b, l - 1) * 2 ^ (l - 1)]
<1> DEFINE low == CHOOSE g : IsLow(g)
<1>1. BitAnd(a, b) = low[W]
  BY DEF BitAnd
<1>2. ASSUME NEW g PROVE IsLow(g) <=> Sums(g, t, W)
  <2>1. ASSUME NEW l \in 0..W
        PROVE  (IF l = 0 THEN 0 ELSE g[l - 1] + Bit(a, l - 1) * Bit(b, l - 1) * 2 ^ (l - 1))
                 = (IF l = 0 THEN 0 ELSE g[l - 1] + t[l])
    <3>1. CASE l = 0
      BY <3>1
    <3>2. CASE l # 0
      <4>1. l \in 1..W
        BY <3>2, PowerTypes
      <4>2. t[l] = Bit(a, l - 1) * Bit(b, l - 1) * 2 ^ (l - 1)
        BY <4>1
      <4> HIDE DEF t
      <4> QED
        BY <3>2, <4>2
    <3> QED
      BY <3>1, <3>2
  <2> HIDE DEF t
  <2> QED
    BY <2>1, Zenon DEF Sums
<1> HIDE DEF t
<1>3. \E g : IsLow(g)
  BY <1>2, SumsExist, PowerTypes
<1> HIDE DEF IsLow
<1>4. IsLow(low)
  BY <1>3
<1> HIDE DEF low
<1> DEFINE S == {n \in 0..W : low[n] \in Nat /\ low[n] < 2 ^ n}
<1>5. 0 \in S
  <2>1. low[0] = 0
    BY <1>4, PowerTypes DEF IsLow
  <2>2. 2 ^ 0 = 1
    OBVIOUS
  <2> QED
    BY <2>1, <2>2, PowerTypes
<1>6. ASSUME NEW n \in 0..(W - 1), n \in S PROVE n + 1 \in S
  <2> DEFINE P == 2 ^ n
             x == Bit(a, n)  y == Bit(b, n)
  <2>1. n \in 0..W /\ n + 1 \in 0..W /\ (n + 1) - 1 = n /\ n + 1 # 0 /\ 1 \in 0..W
    BY PowerTypes
  <2>2. low[n + 1] = low[n] + x * y * P
    BY <1>4, <2>1 DEF IsLow
  <2>3. x \in 0..1 /\ y \in 0..1
    BY <2>1, BitType
  <2>4. P \in Nat \ {0}
    BY <2>1, PowersOfTwo
  <2>5. 2 ^ (n + 1) = 2 * P
    <3>1. 2 ^ (n + 1) = P * 2 ^ 1
      BY <2>1, PowersOfTwo
    <3>2. 2 ^ 1 = 2
      OBVIOUS
    <3> HIDE DEF P
    <3> QED
      BY <2>4, <3>1, <3>2
  <2>6. low[n] \in Nat /\ low[n] < P
    BY <1>6
  <2> HIDE DEF P, x, y
  <2>7. low[n] + x * y * P \in Nat /\ low[n] + x * y * P < 2 * P
    BY <2>3, <2>4, <2>6, NextPower
  <2> QED
    BY <2>1, <2>2, <2>5, <2>7
<1>7. \A n \in 0..W : n \in S
  <2> HIDE DEF S
  <2> QED
    BY <1>5, <1>6, Induction, PowerTypes
<1>8. low[W] \in Nat /\ low[W] < 2 ^ W
  BY <1>7, PowerTypes
<1>9. low[W] \in 0 .. (2 ^ W - 1)
  <2> DEFINE M == 2 ^ W
  <2>1. M \in Nat /\ low[W] \in Nat /\ low[W] < M
    BY <1>8, PowerTypes
  <2> HIDE DEF M
  <2>2. low[W] \in 0 .. (M - 1)
    BY <2>1
  <2> QED
    BY <2>2 DEF M
<1> QED
  BY <1>1, <1>9 DEF Words

LEMMA AluWordType ==
  ASSUME NEW op \in AluOps, NEW a \in Words, NEW b \in Words
  PROVE  AluWord(op, a, b) \in Words
<1>1. a \in Nat /\ b \in Nat /\ 2 ^ W \in Nat
  BY WordsAreNat, PowerTypes
<1> DEFINE M == 2 ^ W
<1>2. a + b \in Int /\ a * b \in Int
  BY <1>1
<1>3. a + M - b \in Int
  <2>1. M \in Nat
    BY <1>1
  <2> HIDE DEF M
  <2> QED
    BY <1>1, <2>1
<1>4. CASE op = "ADD128"
  <2>1. AluWord(op, a, b) = (a + b) % (2 ^ W)
    BY <1>4 DEF AluWord
  <2> QED
    BY <1>2, <2>1, WordOf
<1>5. CASE op = "SUB128"
  <2>1. AluWord(op, a, b) = (a + 2 ^ W - b) % (2 ^ W)
    BY <1>5 DEF AluWord
  <2> QED
    BY <1>3, <2>1, WordOf
<1>6. CASE op = "MUL128"
  <2>1. AluWord(op, a, b) = (a * b) % (2 ^ W)
    BY <1>6 DEF AluWord
  <2> QED
    BY <1>2, <2>1, WordOf
<1>7. CASE op = "AND128"
  <2>1. AluWord(op, a, b) = BitAnd(a, b)
    BY <1>7 DEF AluWord
  <2> QED
    BY <1>1, <2>1, BitAndType
<1> QED
  BY <1>4, <1>5, <1>6, <1>7 DEF AluOps

LEMMA AluType ==
  ASSUME NEW op \in AluOps, NEW a \in Vectors, NEW b \in Vectors
  PROVE  Alu(op, a, b) \in Vectors
BY LaneType, AluWordType DEF Alu, Vectors

-----------------------------------------------------------------------------
(* The AGU.                                                                 *)

\* A pointer is a tag of the table and an offset.
LEMMA PointerParts ==
  ASSUME NEW p \in Pointers
  PROVE  /\ Tag(p) \in DOMAIN Descriptors
         /\ Offset(p) \in Nat
         /\ Descriptors[Tag(p)].bound \in Nat
         /\ \A o \in Nat : o < Descriptors[Tag(p)].bound => Pointer(Tag(p), o) \in Pointers
<1> DEFINE M == 2 ^ OffBits
           D == DOMAIN Descriptors
<1>1. M \in Nat \ {0}
  BY PowerTypes
<1>2. p[1] \in DOMAIN Descriptors /\ p[2] \in 0 .. (M - 1)
  BY DEF Pointers
<1>3. Descriptors[p[1]].bound \in 0 .. (M - 1)
  BY <1>2, CpuInstAssumption
<1>4. Pointers = D \X (0 .. (M - 1))
  BY DEF Pointers
<1>5. p[1] \in D
  BY <1>2
<1> HIDE DEF M, D
<1>6. Offset(p) \in Nat /\ Descriptors[Tag(p)].bound \in Nat
  BY <1>1, <1>2, <1>3 DEF Tag, Offset
<1>7. ASSUME NEW o \in Nat, o < Descriptors[Tag(p)].bound PROVE Pointer(Tag(p), o) \in Pointers
  <2>1. o \in 0 .. (M - 1)
    BY <1>1, <1>3, <1>7 DEF Tag
  <2> QED
    BY <1>4, <1>5, <2>1 DEF Tag, Pointer
<1>8. Tag(p) \in DOMAIN Descriptors
  BY <1>5 DEF Tag, D
<1> QED
  BY <1>6, <1>7, <1>8

\* An address that the AGU lets through is in the bank.
LEMMA TranslateType ==
  ASSUME NEW p \in Pointers, Accept(p)
  PROVE  Translate(p) \in Addrs
<1>1. Offset(p) \in 0 .. Descriptors[Tag(p)].bound /\ Offset(p) < Descriptors[Tag(p)].bound
  BY PointerParts DEF Accept
<1>2. Tag(p) \in DOMAIN Descriptors
  BY PointerParts
<1> QED
  BY <1>1, <1>2, CpuPipelineAssumption DEF Translate

\* A pointer that has been moved is one, or there is none.
LEMMA MovedType ==
  ASSUME NEW i, InstOK(i), i.op \in Moves, NEW p \in Pointers, NEW v \in Vectors
  PROVE  AtMostOne(MovedPtr(i, p, v), Pointers)
<1> DEFINE word == v[i.imm + 1]
           new == IF i.op = "FatPtrADD" THEN (Offset(p) + word) % 2 ^ W ELSE Offset(p) - word
<1>1. CASE i.imm >= Lanes \/ (i.op = "FatPtrSUB" /\ Offset(p) <= word)
  <2>1. MovedPtr(i, p, v) = {}
    BY <1>1 DEF MovedPtr
  <2> QED
    BY <2>1 DEF AtMostOne
<1>2. CASE ~(i.imm >= Lanes \/ (i.op = "FatPtrSUB" /\ Offset(p) <= word))
  <2>1. MovedPtr(i, p, v) = {q \in {Pointer(Tag(p), new)} : Accept(q)}
    BY <1>2 DEF MovedPtr
  <2>2. i.imm + 1 \in 1..Lanes
    BY <1>2, LanesAreNat DEF InstOK
  <2>3. word \in Nat
    BY <2>2, LaneType, WordsAreNat
  <2>4. Offset(p) \in Nat
    BY PointerParts
  <2>5. new \in Int
    <3> HIDE DEF word
    <3>1. (Offset(p) + word) % (2 ^ W) \in Nat /\ Offset(p) - word \in Int
      <4>1. Offset(p) + word \in Int
        BY <2>3, <2>4
      <4>2. (Offset(p) + word) % (2 ^ W) \in Nat
        BY <4>1, WordOf, WordsAreNat
      <4> QED
        BY <2>3, <2>4, <4>2
    <3> QED
      BY <3>1
  <2>6. CASE Accept(Pointer(Tag(p), new)) /\ new \in Nat
    <3>1. new < Descriptors[Tag(p)].bound
      BY <2>6 DEF Accept, Pointer, Tag, Offset
    <3>2. Pointer(Tag(p), new) \in Pointers
      BY <2>6, <3>1, PointerParts
    <3> HIDE DEF new, word
    <3> QED
      BY <2>1, <2>6, <3>2 DEF AtMostOne
  <2>7. CASE ~Accept(Pointer(Tag(p), new))
    <3> HIDE DEF new, word
    <3> QED
      BY <2>1, <2>7 DEF AtMostOne
  <2>8. new \in Nat
    <3>1. CASE i.op = "FatPtrADD"
      <4>1. Offset(p) + word \in Int
        BY <2>3, <2>4
      <4> HIDE DEF word
      <4>2. (Offset(p) + word) % (2 ^ W) \in Nat
        BY <4>1, WordOf, WordsAreNat
      <4> QED
        BY <3>1, <4>2
    <3>2. CASE i.op = "FatPtrSUB"
      <4>1. ~(Offset(p) <= word)
        BY <1>2, <3>2
      <4> HIDE DEF word
      <4> QED
        BY <2>3, <2>4, <3>2, <4>1
    <3> QED
      BY <3>1, <3>2 DEF Moves
  <2> QED
    BY <2>6, <2>7, <2>8 DEF AtMostOne
<1> QED
  BY <1>1, <1>2

-----------------------------------------------------------------------------
(* Memory entries.                                                          *)

\* The values of an entry of a type.
ValuesOf(type) == IF type = "Data" THEN Vectors ELSE Pointers

LEMMA EntryCases ==
  ASSUME NEW e, EntryOK(e)
  PROVE  /\ e.tag \in {"Absent", "Untyped", "Data", "FatPtr"}
         /\ e.tag = "Untyped" => e.val \in Vectors
         /\ e.tag \in {"Data", "FatPtr"} => e.val \in ValuesOf(e.tag)
<1>1. FM!AbsentEntry.tag = "Absent"
  BY DEF FM!AbsentEntry, FM!Entry
<1> QED
  BY <1>1 DEF EntryOK, ValuesOf

LEMMA EntryType ==
  ASSUME NEW type \in {"Data", "FatPtr"}, NEW val \in ValuesOf(type)
  PROVE  EntryOK(FM!Entry(type, val))
BY DEF EntryOK, FM!Entry, ValuesOf

\* Whatever the host has left in an entry decodes to a pointer or a vector.
LEMMA DecodeType ==
  ASSUME NEW b \in Vectors, NEW type \in {"Data", "FatPtr"}
  PROVE  CpuDecode(type, b) \in ValuesOf(type)
<1>1. CASE type = "Data"
  BY <1>1 DEF CpuDecode, ValuesOf
<1>2. CASE type = "FatPtr"
  <2> DEFINE A == 2 ^ (W - OffBits)
             B == 2 ^ OffBits
             n == b[1]
  <2>1. n \in 0 .. (2 ^ W - 1)
    BY LaneType, LanesAreNat DEF Words
  <2>2. A \in Nat \ {0} /\ B \in Nat \ {0} /\ 2 ^ W = A * B
    BY PowerTypes
  <2>3. DOMAIN Descriptors = 0 .. (A - 1)
    BY CpuInstAssumption
  <2>4. Pointers = (0 .. (A - 1)) \X (0 .. (B - 1))
    BY <2>3, Zenon DEF Pointers
  <2>5. CpuDecode(type, b) = <<n \div B, n % B>>
    BY <1>2 DEF CpuDecode, Pointer
  <2>6. n \in 0 .. (A * B - 1)
    BY <2>1, <2>2
  <2> HIDE DEF A, B, n
  <2>7. n \in Nat /\ n < A * B
    <3>1. A * B \in Nat
      BY <2>2
    <3> QED
      BY <2>6, <3>1
  <2>8. n \div B \in 0 .. (A - 1) /\ n % B \in 0 .. (B - 1)
    <3>1. n \div B \in 0 .. (A - 1)
      BY <2>2, <2>7, UpperPart, Zenon
    <3>2. n \in Int
      BY <2>7
    <3>3. n % B \in 0 .. (B - 1)
      BY <2>2, <3>2, Remainder
    <3> QED
      BY <3>1, <3>3
  <2> QED
    BY <1>2, <2>4, <2>5, <2>8 DEF ValuesOf
<1> QED
  BY <1>1, <1>2

LEMMA ReadType ==
  ASSUME NEW e, EntryOK(e), NEW type \in {"Data", "FatPtr"}
  PROVE  AtMostOne(FM!ReadAs(e, type), ValuesOf(type))
<1>1. CASE e.tag = type
  <2>1. FM!ReadAs(e, type) = {e.val}
    BY <1>1, Zenon DEF FM!ReadAs
  <2> QED
    BY <1>1, <2>1, EntryCases DEF AtMostOne
<1>2. CASE e.tag = "Untyped"
  <2>1. FM!ReadAs(e, type) = {CpuDecode(type, e.val)}
    BY <1>2 DEF FM!ReadAs
  <2> QED
    BY <1>2, <2>1, EntryCases, DecodeType DEF AtMostOne
<1>3. CASE e.tag = "Absent"
  <2>1. FM!ReadAs(e, type) = CpuDefault(type)
    BY <1>3 DEF FM!ReadAs
  <2> QED
    BY <2>1, ZerosType DEF CpuDefault, AtMostOne, ValuesOf
<1>4. CASE e.tag # type /\ e.tag # "Untyped" /\ e.tag # "Absent"
  <2>1. FM!ReadAs(e, type) = {}
    BY <1>4 DEF FM!ReadAs
  <2> QED
    BY <2>1 DEF AtMostOne
<1> QED
  BY <1>1, <1>2, <1>3, <1>4

LEMMA ClaimedType ==
  ASSUME NEW e, EntryOK(e), NEW type \in {"Data", "FatPtr"}
  PROVE  EntryOK(FM!Claimed(e, type))
<1>1. CASE e.tag = "Untyped"
  BY <1>1, EntryCases, DecodeType, EntryType DEF FM!Claimed
<1> QED
  BY <1>1 DEF FM!Claimed

LEMMA WrittenType ==
  ASSUME NEW e, EntryOK(e), NEW type \in {"Data", "FatPtr"}, NEW val \in ValuesOf(type)
  PROVE  EntryOK(FM!Written(e, type, val))
BY EntryType DEF FM!Written

\* What MEM does for an instruction x that has passed the AGU.
LEMMA LoadedType ==
  ASSUME NEW m, MemTyped(m), NEW x, FlightTyped(x), Addressed(x)
  PROVE  AtMostOne(Loaded(m, x), FileValues(x.inst))
<1>1. CASE x.inst.op \in Loads
  <2>1. x.paddr \in Addrs
    BY <1>1 DEF Addressed, IsMem
  <2>2. AtMostOne(FM!ReadAs(m[x.paddr], TypeOf(x.inst)), ValuesOf(TypeOf(x.inst)))
    BY <2>1, ReadType DEF MemTyped, TypeOf
  <2>3. ValuesOf(TypeOf(x.inst)) = FileValues(x.inst)
    BY <1>1 DEF ValuesOf, TypeOf, FileValues, File, Loads, AluOps, Moves
  <2> QED
    BY <1>1, <2>2, <2>3 DEF Loaded
<1>2. CASE x.inst.op \notin Loads
  BY <1>2 DEF Loaded, FlightTyped
<1> QED
  BY <1>1, <1>2

LEMMA TouchedType ==
  ASSUME NEW m, MemTyped(m), NEW x, Addressed(x)
  PROVE  MemTyped(Touched(m, x))
<1>1. CASE x.inst.op \in Loads
  <2>1. x.paddr \in Addrs
    BY <1>1 DEF Addressed, IsMem
  <2>2. EntryOK(FM!Claimed(m[x.paddr], TypeOf(x.inst)))
    BY <2>1, ClaimedType DEF MemTyped, TypeOf
  <2>3. Touched(m, x) = [m EXCEPT ![x.paddr] = FM!Claimed(m[x.paddr], TypeOf(x.inst))]
    BY <1>1 DEF Touched
  <2> QED
    BY <2>2, <2>3 DEF MemTyped
<1>2. CASE x.inst.op \notin Loads
  BY <1>2 DEF Touched
<1> QED
  BY <1>1, <1>2

LEMMA StoredType ==
  ASSUME NEW m, MemTyped(m), NEW x, FlightTyped(x), Addressed(x)
  PROVE  MemTyped(Stored(m, x))
<1>1. CASE x.inst.op \in Stores
  <2>1. x.paddr \in Addrs
    BY <1>1 DEF Addressed, IsMem
  <2>2. x.data \in ValuesOf(TypeOf(x.inst))
    BY <1>1 DEF Addressed, FlightTyped, Stores, TypeOf, ValuesOf
  <2>3. EntryOK(FM!Written(m[x.paddr], TypeOf(x.inst), x.data))
    BY <2>1, <2>2, WrittenType DEF MemTyped, TypeOf
  <2>4. Stored(m, x) = [m EXCEPT ![x.paddr] = FM!Written(m[x.paddr], TypeOf(x.inst), x.data)]
    BY <1>1 DEF Stored
  <2> QED
    BY <2>3, <2>4 DEF MemTyped
<1>2. CASE x.inst.op \notin Stores
  BY <1>2 DEF Stored
<1> QED
  BY <1>1, <1>2

-----------------------------------------------------------------------------
(* Registers and bypasses.                                                  *)

LEMMA WrittenRegisters ==
  ASSUME ArchTyped, NEW i, NEW result, AtMostOne(result, FileValues(i))
  PROVE  /\ WrittenV(vrf, i, result) \in [VRegs -> Vectors]
         /\ WrittenF(frf, i, result) \in [FRegs -> Pointers]
<1>0. vrf \in [VRegs -> Vectors] /\ frf \in [FRegs -> Pointers]
  BY DEF ArchTyped
<1>1. result # {} => Only(result) \in FileValues(i)
  BY TheValue DEF Only
<1>2. WrittenV(vrf, i, result) \in [VRegs -> Vectors]
  <2>1. CASE File(i) = "V" /\ i.rd # 0 /\ result # {}
    <3>1. Only(result) \in Vectors
      BY <1>1, <2>1 DEF FileValues
    <3>2. WrittenV(vrf, i, result) = [vrf EXCEPT ![i.rd] = Only(result)]
      BY <2>1 DEF WrittenV
    <3> QED
      BY <1>0, <3>1, <3>2
  <2>2. CASE ~(File(i) = "V" /\ i.rd # 0 /\ result # {})
    BY <1>0, <2>2 DEF WrittenV
  <2> QED
    BY <2>1, <2>2
<1>3. WrittenF(frf, i, result) \in [FRegs -> Pointers]
  <2>1. CASE File(i) = "F" /\ result # {}
    <3>1. Only(result) \in Pointers
      BY <1>1, <2>1 DEF FileValues
    <3>2. WrittenF(frf, i, result) = [frf EXCEPT ![i.rd] = Only(result)]
      BY <2>1 DEF WrittenF
    <3> QED
      BY <1>0, <3>1, <3>2
  <2>2. CASE ~(File(i) = "F" /\ result # {})
    BY <1>0, <2>2 DEF WrittenF
  <2> QED
    BY <2>1, <2>2
<1> QED
  BY <1>2, <1>3

\* What a bypass offers is a value of the register file it is asked about.
LEMMA BypassType ==
  ASSUME NEW n \in Nat, NEW order, DOMAIN order = 1..n,
         \A k \in 1..n : order[k] # <<>> => AtMostOne(order[k][1].result, FileValues(order[k][1].inst)),
         NEW file \in {"V", "F"}, NEW r,
         NEW committed \in (IF file = "F" THEN Pointers ELSE Vectors)
  PROVE  AtMostOne(Bypass(order, file, r, committed), IF file = "F" THEN Pointers ELSE Vectors)
<1> DEFINE hits == {k \in DOMAIN order : Writes(order[k], file, r)}
           first == CHOOSE k \in hits : \A l \in hits : k <= l
<1>1. CASE hits = {}
  <2>1. Bypass(order, file, r, committed) = {committed}
    BY <1>1 DEF Bypass
  <2> QED
    BY <2>1 DEF AtMostOne
<1>2. CASE hits # {}
  <2>1. Bypass(order, file, r, committed) = order[first][1].result
    BY <1>2, Zenon DEF Bypass
  <2>2. hits \in SUBSET Nat
    OBVIOUS
  <2>3. \E k \in hits : \A l \in hits : k <= l
    <3> HIDE DEF hits
    <3> QED
      BY <1>2, <2>2, LeastMember
  <2>4. first \in hits
    <3> HIDE DEF hits
    <3> QED
      BY <2>3
  <2>5. first \in 1..n /\ Writes(order[first], file, r)
    BY <2>4
  <2> HIDE DEF hits, first
  <2>6. AtMostOne(order[first][1].result, FileValues(order[first][1].inst))
    BY <2>5 DEF Writes
  <2>7. FileValues(order[first][1].inst) = IF file = "F" THEN Pointers ELSE Vectors
    BY <2>5 DEF Writes, FileValues
  <2> QED
    BY <2>1, <2>6, <2>7
<1> QED
  BY <1>1, <1>2

\* The latches that offer results offer typed ones.
LEMMA Offers ==
  ASSUME LatchesTyped, NEW l \in {exagu, agumem, memwb, fwd}, l # <<>>
  PROVE  AtMostOne(l[1].result, FileValues(l[1].inst))
BY DEF LatchesTyped, FlightTyped, ProducedTyped

LEMMA ExVecType ==
  ASSUME ArchTyped, LatchesTyped, NEW r \in VRegs
  PROVE  AtMostOne(ExVec(r), Vectors)
<1>1. CASE r = 0
  BY <1>1, ZerosType DEF ExVec, AtMostOne
<1>2. CASE r # 0
  <2> DEFINE order == <<exagu, agumem, memwb, fwd>>
  <2>1. ExVec(r) = Bypass(order, "V", r, vrf[r])
    BY <1>2 DEF ExVec
  <2>2. DOMAIN order = 1..4
    OBVIOUS
  <2>3. \A k \in 1..4 : order[k] \in {exagu, agumem, memwb, fwd}
    OBVIOUS
  <2>4. vrf[r] \in Vectors
    BY DEF ArchTyped
  <2> HIDE DEF order
  <2>5. \A k \in 1..4 : order[k] # <<>> =>
          AtMostOne(order[k][1].result, FileValues(order[k][1].inst))
    BY <2>3, Offers
  <2> QED
    BY <2>1, <2>2, <2>4, <2>5, BypassType
<1> QED
  BY <1>1, <1>2

LEMMA AguVecType ==
  ASSUME ArchTyped, LatchesTyped, NEW r \in VRegs
  PROVE  AtMostOne(AguVec(r), Vectors)
<1>1. CASE r = 0
  BY <1>1, ZerosType DEF AguVec, AtMostOne
<1>2. CASE r # 0
  <2> DEFINE order == <<agumem, memwb, fwd>>
  <2>1. AguVec(r) = Bypass(order, "V", r, vrf[r])
    BY <1>2 DEF AguVec
  <2>2. DOMAIN order = 1..3
    OBVIOUS
  <2>3. \A k \in 1..3 : order[k] \in {exagu, agumem, memwb, fwd}
    OBVIOUS
  <2>4. vrf[r] \in Vectors
    BY DEF ArchTyped
  <2> HIDE DEF order
  <2>5. \A k \in 1..3 : order[k] # <<>> =>
          AtMostOne(order[k][1].result, FileValues(order[k][1].inst))
    BY <2>3, Offers
  <2> QED
    BY <2>1, <2>2, <2>4, <2>5, BypassType
<1> QED
  BY <1>1, <1>2

LEMMA AguPtrType ==
  ASSUME ArchTyped, LatchesTyped, NEW r \in FRegs
  PROVE  AtMostOne(AguPtr(r), Pointers)
<1> DEFINE order == <<agumem, memwb, fwd>>
<1>1. AguPtr(r) = Bypass(order, "F", r, frf[r])
  BY DEF AguPtr
<1>2. DOMAIN order = 1..3
  OBVIOUS
<1>3. \A k \in 1..3 : order[k] \in {exagu, agumem, memwb, fwd}
  OBVIOUS
<1>4. frf[r] \in Pointers
  BY DEF ArchTyped
<1> HIDE DEF order
<1>5. \A k \in 1..3 : order[k] # <<>> =>
        AtMostOne(order[k][1].result, FileValues(order[k][1].inst))
  BY <1>3, Offers
<1> QED
  BY <1>1, <1>2, <1>4, <1>5, BypassType

-----------------------------------------------------------------------------
(* What the stages put into their latches.                                  *)

FlightLatch(l) == OneOf(l) /\ (l # <<>> => FlightTyped(l[1]))
ProducedLatch(l) == OneOf(l) /\ (l # <<>> => ProducedTyped(l[1]))

LEMMA EmptyLatch == FlightLatch(<<>>) /\ ProducedLatch(<<>>)
BY DEF FlightLatch, ProducedLatch, OneOf

LEMMA FullLatch ==
  ASSUME NEW x
  PROVE  /\ FlightTyped(x) => FlightLatch(<<x>>)
         /\ ProducedTyped(x) => ProducedLatch(<<x>>)
         /\ <<x>> # <<>> /\ <<x>>[1] = x
BY DEF FlightLatch, ProducedLatch, OneOf

LEMMA IfNextType == ASSUME ArchTyped PROVE FlightLatch(IfNext)
<1>1. InstOK(Fetched(pc))
  <2>1. CASE pc < Len(prog)
    <3>1. Len(prog) \in Nat /\ DOMAIN prog = 1 .. Len(prog)
      BY CpuPipelineAssumption DEF ArchTyped
    <3>2. pc \in Nat
      <4> DEFINE M == 2 ^ PcBits
      <4>1. M \in Nat /\ pc \in 0 .. (M - 1)
        BY CpuPipelineAssumption DEF ArchTyped
      <4> HIDE DEF M
      <4> QED
        BY <4>1
    <3>3. pc + 1 \in DOMAIN prog
      BY <2>1, <3>1, <3>2
    <3> QED
      BY <2>1, <3>3, CpuPipelineAssumption DEF ArchTyped, Fetched
  <2>2. CASE ~(pc < Len(prog))
    BY <2>2, CpuPipelineAssumption DEF Fetched, Nop, InstOK
  <2> QED
    BY <2>1, <2>2
<1> DEFINE x == Flight(pc, Fetched(pc))
<1>2. /\ DOMAIN x = {"pc", "inst", "result", "paddr", "data"}
      /\ x.pc = pc /\ x.inst = Fetched(pc) /\ x.result = {} /\ x.paddr = 0 /\ x.data = Zeros
  BY DEF Flight
<1> HIDE DEF x
<1>3. FlightTyped(x)
  BY <1>1, <1>2, ZerosType DEF FlightTyped, ArchTyped, AtMostOne
<1> QED
  BY <1>3, FullLatch DEF IfNext, x

LEMMA IdNextType == ASSUME LatchesTyped PROVE FlightLatch(IdNext)
BY EmptyLatch DEF IdNext, LatchesTyped, FlightLatch

LEMMA ExNextType == ASSUME ArchTyped, LatchesTyped PROVE FlightLatch(ExNext)
<1>1. CASE idex = <<>> \/ ExWaits
  BY <1>1, EmptyLatch DEF ExNext
<1>2. CASE idex # <<>> /\ ~ExWaits
  <2> DEFINE i == idex[1].inst
             result == IF i.op \in AluOps
                       THEN {Alu(i.op, Only(ExVec(i.v1)), Only(ExVec(i.v2)))} ELSE {}
             x == [idex[1] EXCEPT !.result = result]
  <2>1. FlightTyped(idex[1])
    BY <1>2 DEF LatchesTyped
  <2>2. InstOK(i)
    BY <2>1 DEF FlightTyped
  <2>3. ExNext = <<x>>
    BY <1>2, Zenon DEF ExNext
  <2>4. AtMostOne(result, FileValues(i))
    <3>1. CASE i.op \in AluOps
      <4>1. i.v1 \in VRegs /\ i.v2 \in VRegs
        BY <2>2 DEF InstOK
      <4>2. ExVec(i.v1) # {} /\ ExVec(i.v2) # {}
        BY <1>2, <3>1 DEF ExWaits
      <4>3. Only(ExVec(i.v1)) \in Vectors /\ Only(ExVec(i.v2)) \in Vectors
        BY <4>1, <4>2, ExVecType, TheValue DEF Only
      <4>4. Alu(i.op, Only(ExVec(i.v1)), Only(ExVec(i.v2))) \in Vectors
        BY <3>1, <4>3, AluType
      <4>5. FileValues(i) = Vectors
        BY <3>1 DEF FileValues, File, AluOps, Moves
      <4> QED
        BY <3>1, <4>4, <4>5 DEF AtMostOne
    <3>2. CASE i.op \notin AluOps
      BY <3>2 DEF AtMostOne
    <3> QED
      BY <3>1, <3>2
  <2> HIDE DEF result
  <2>5. /\ DOMAIN x = DOMAIN idex[1] /\ x.pc = idex[1].pc /\ x.inst = i
        /\ x.paddr = idex[1].paddr /\ x.data = idex[1].data /\ x.result = result
    BY <2>1 DEF FlightTyped
  <2> HIDE DEF x
  <2>6. FlightTyped(x)
    BY <2>1, <2>4, <2>5 DEF FlightTyped
  <2> QED
    BY <2>3, <2>6, FullLatch
<1> QED
  BY <1>1, <1>2

\* The AGU lets an instruction pass with an address in the bank.
LEMMA AguNextType ==
  ASSUME ArchTyped, LatchesTyped
  PROVE  FlightLatch(AguNext) /\ (AguNext # <<>> => Addressed(AguNext[1]))
<1>1. CASE ~AguReady \/ AguRejects
  BY <1>1, EmptyLatch DEF AguNext
<1>2. CASE AguReady /\ ~AguRejects
  <2> DEFINE i == AguInst
             result == IF i.op \in Moves THEN MovedPtr(i, Ptr, Vec) ELSE exagu[1].result
             paddr == IF IsMem(i) THEN Translate(Ptr) ELSE 0
             data == CASE i.op = "ST128" -> Vec
                       [] i.op = "FatPtrST" -> Only(AguPtr(i.fd))
                       [] OTHER -> exagu[1].data
             x == [exagu[1] EXCEPT !.result = result, !.paddr = paddr, !.data = data]
  <2>1. exagu # <<>> /\ ~AguWaits /\ FlightTyped(exagu[1]) /\ i = exagu[1].inst
    BY <1>2 DEF AguReady, LatchesTyped, AguInst
  <2>2. InstOK(i)
    BY <2>1 DEF FlightTyped
  <2>3. AguNext = <<x>>
    BY <1>2, Zenon DEF AguNext
  <2>4. IsMem(i) \/ i.op \in Moves => Ptr \in Pointers
    <3>1. IsMem(i) \/ i.op \in Moves => AguPtr(i.f) # {}
      BY <2>1 DEF AguWaits
    <3>2. AtMostOne(AguPtr(i.f), Pointers)
      BY <2>2, AguPtrType DEF InstOK
    <3> QED
      BY <3>1, <3>2, TheValue DEF Ptr, Only
  <2>5. i.op \in Moves \cup {"ST128"} => Vec \in Vectors
    <3>1. i.op \in Moves \cup {"ST128"} => AguVec(i.v1) # {}
      BY <2>1 DEF AguWaits
    <3>2. AtMostOne(AguVec(i.v1), Vectors)
      BY <2>2, AguVecType DEF InstOK
    <3> QED
      BY <3>1, <3>2, TheValue DEF Vec, Only
  <2>6. i.op = "FatPtrST" => Only(AguPtr(i.fd)) \in Pointers
    <3>1. i.op = "FatPtrST" => AguPtr(i.fd) # {}
      BY <2>1 DEF AguWaits
    <3>2. AtMostOne(AguPtr(i.fd), Pointers)
      BY <2>2, AguPtrType DEF InstOK
    <3> QED
      BY <3>1, <3>2, TheValue DEF Only
  <2>7. AtMostOne(result, FileValues(i))
    <3>1. CASE i.op \in Moves
      <4>1. AtMostOne(MovedPtr(i, Ptr, Vec), Pointers)
        BY <2>2, <2>4, <2>5, <3>1, MovedType
      <4>2. FileValues(i) = Pointers
        BY <3>1 DEF FileValues, File, Moves, AluOps
      <4> QED
        BY <3>1, <4>1, <4>2
    <3>2. CASE i.op \notin Moves
      BY <2>1, <3>2 DEF FlightTyped
    <3> QED
      BY <3>1, <3>2
  <2>8. IsMem(i) => paddr \in Addrs
    <3>1. IsMem(i) => Accept(Ptr)
      BY <1>2 DEF AguRejects, Rejects
    <3> QED
      BY <2>4, <3>1, TranslateType
  <2>9. paddr \in Addrs \cup {0}
    BY <2>8
  <2>10. data \in (IF i.op = "FatPtrST" THEN Pointers ELSE Vectors)
    <3>1. CASE i.op = "ST128"
      BY <2>5, <3>1
    <3>2. CASE i.op = "FatPtrST"
      BY <2>6, <3>2
    <3>3. CASE i.op # "ST128" /\ i.op # "FatPtrST"
      BY <2>1, <3>3 DEF FlightTyped
    <3> QED
      BY <3>1, <3>2, <3>3
  <2> HIDE DEF result, paddr, data
  <2>11. /\ DOMAIN x = DOMAIN exagu[1] /\ x.pc = exagu[1].pc /\ x.inst = i
         /\ x.paddr = paddr /\ x.data = data /\ x.result = result
    BY <2>1 DEF FlightTyped
  <2> HIDE DEF x
  <2>12. FlightTyped(x)
    BY <2>1, <2>7, <2>9, <2>10, <2>11 DEF FlightTyped
  <2>13. Addressed(x)
    BY <2>8, <2>10, <2>11 DEF Addressed
  <2> QED
    BY <2>3, <2>12, <2>13, FullLatch
<1> QED
  BY <1>1, <1>2

LEMMA MemNextType == ASSUME ArchTyped, LatchesTyped PROVE ProducedLatch(MemNext)
<1>1. CASE agumem = <<>>
  BY <1>1, EmptyLatch DEF MemNext
<1>2. CASE agumem # <<>>
  <2> DEFINE x == [inst |-> agumem[1].inst, result |-> Loaded(mem, agumem[1])]
  <2>1. FlightTyped(agumem[1]) /\ Addressed(agumem[1]) /\ MemTyped(mem)
    BY <1>2 DEF LatchesTyped, ArchTyped
  <2>2. ProducedTyped(x)
    BY <2>1, LoadedType DEF ProducedTyped
  <2>3. MemNext = <<x>>
    BY <1>2 DEF MemNext
  <2> HIDE DEF x
  <2> QED
    BY <2>2, <2>3, FullLatch
<1> QED
  BY <1>1, <1>2

\* The latches of the next tick hold what they held, what was made, or nothing.
LEMMA LatchStep ==
  ASSUME ArchTyped, LatchesTyped, NEW act, Latch(act)
  PROVE  LatchesTyped'
<1>0. ASSUME NEW producer, NEW consumer, NEW old, NEW next
      PROVE  Latched(producer, consumer, old, next) \in {old, next, <<>>}
  BY DEF Latched
<1>1. /\ FlightLatch(ifid) /\ FlightLatch(idex) /\ FlightLatch(exagu) /\ FlightLatch(agumem)
      /\ ProducedLatch(memwb) /\ ProducedLatch(fwd)
      /\ agumem # <<>> => Addressed(agumem[1])
  BY DEF LatchesTyped, FlightLatch, ProducedLatch
<1>2. FlightLatch(ifid')
  <2>1. ifid' \in {ifid, IfNext, <<>>}
    BY <1>0 DEF Latch
  <2> QED
    BY <1>1, <2>1, IfNextType, EmptyLatch
<1>3. FlightLatch(idex')
  <2>1. idex' \in {idex, IdNext, <<>>}
    BY <1>0 DEF Latch
  <2> QED
    BY <1>1, <2>1, IdNextType, EmptyLatch
<1>4. FlightLatch(exagu')
  <2>1. exagu' \in {exagu, ExNext, <<>>}
    BY <1>0 DEF Latch
  <2> QED
    BY <1>1, <2>1, ExNextType, EmptyLatch
<1>5. FlightLatch(agumem') /\ (agumem' # <<>> => Addressed(agumem'[1]))
  <2>1. agumem' \in {agumem, AguNext, <<>>}
    BY <1>0 DEF Latch
  <2> QED
    BY <1>1, <2>1, AguNextType, EmptyLatch
<1>6. ProducedLatch(memwb')
  <2>1. memwb' \in {memwb, MemNext, <<>>}
    BY <1>0 DEF Latch
  <2> QED
    BY <1>1, <2>1, MemNextType, EmptyLatch
<1>7. ProducedLatch(fwd')
  <2>1. fwd' \in {fwd, MemNext}
    BY DEF Latch
  <2> QED
    BY <1>1, <2>1, MemNextType
<1> QED
  BY <1>2, <1>3, <1>4, <1>5, <1>6, <1>7
  DEF LatchesTyped, FlightLatch, ProducedLatch, FlightTyped, ProducedTyped, Addressed, OneOf

-----------------------------------------------------------------------------
(* What the stages raise, and what they do to memory, registers and pc.     *)

LEMMA MaskedFresh ==
  ASSUME NEW paused \in BOOLEAN, NEW issuer \in Stages, NEW R, Fresh(R)
  PROVE  Fresh(Masked(paused, issuer, R))
<1>1. Fresh({Signal("external_pause", issuer)})
  BY SignalType DEF Fresh, Priority
<1>2. Masked(paused, issuer, R) \in {{Signal("external_pause", issuer)}, R}
  BY DEF Masked
<1> QED
  BY <1>1, <1>2

LEMMA RaisedFresh ==
  ASSUME LatchesTyped, NEW paused \in BOOLEAN
  PROVE  Fresh(Raised(paused))
<1>0. ASSUME NEW reason \in DOMAIN Priority \ {"MEM_block"}, NEW issuer \in Stages
      PROVE  Fresh({Signal(reason, issuer)})
  BY <1>0, SignalType DEF Fresh
<1>1. Fresh({})
  BY DEF Fresh
<1>2. Stages = {"IF", "ID", "EX", "AGU", "MEM", "WB"}
      /\ {"jump_resolution", "RAW_resolution", "external_pause", "exception", "prog_end"}
           \subseteq DOMAIN Priority \ {"MEM_block"}
  BY DEF Stages, Priority
<1>3. Fresh(WbSignals)
  BY <1>0, <1>1, <1>2 DEF WbSignals
<1>4. Fresh(MemSignals)
  <2>1. CASE InMem
    <3> DEFINE x == agumem[1]
    <3>1. FlightTyped(x) /\ Addressed(x) /\ IsMem(x.inst)
      BY <2>1 DEF InMem, LatchesTyped
    <3>2. x.paddr \in Nat
      BY <3>1, CpuPipelineAssumption DEF Addressed
    <3>3. Line(x.paddr) \in Nat
      BY <3>2, CpuInstAssumption DEF Line
    <3>4. (x.inst.op \in Loads) \in BOOLEAN
      OBVIOUS
    <3>5. Steps["MEM_block"] = 4
      BY DEF Steps
    <3> QED
      BY <2>1, <3>3, <3>4, <3>5, BlockType DEF MemSignals, Fresh
  <2>2. CASE ~InMem
    BY <1>1, <2>2 DEF MemSignals
  <2> QED
    BY <2>1, <2>2
<1>5. Fresh(AguSignals)
  <2>1. AguSignals \in {{Signal("RAW_resolution", "AGU")}, {Signal("exception", "AGU")}, {}}
    BY Zenon DEF AguSignals, AguRejects, AguReady
  <2> QED
    BY <1>0, <1>1, <1>2, <2>1
<1>6. Fresh(ExSignals)
  <2>1. ExSignals \in {{Signal("RAW_resolution", "EX")}, {Signal("prog_end", "EX")}, {}}
    BY Zenon DEF ExSignals, ExEqual, ExTests
  <2> QED
    BY <1>0, <1>1, <1>2, <2>1
<1>7. Fresh(IdSignals)
  BY <1>0, <1>1, <1>2 DEF IdSignals
<1>8. /\ Fresh(Masked(paused, "AGU", AguSignals)) /\ Fresh(Masked(paused, "EX", ExSignals))
      /\ Fresh(Masked(paused, "ID", IdSignals)) /\ Fresh(Masked(paused, "IF", {}))
  BY <1>1, <1>2, <1>5, <1>6, <1>7, MaskedFresh
<1>9. ASSUME NEW A, NEW B, Fresh(A), Fresh(B) PROVE Fresh(A \cup B)
  BY <1>9 DEF Fresh
<1> QED
  BY <1>3, <1>4, <1>8, <1>9 DEF Raised

LEMMA MemoryType ==
  ASSUME ArchTyped, LatchesTyped, NEW act
  PROVE  MemTyped(Memory(act))
<1>1. MemTyped(mem)
  BY DEF ArchTyped
<1>2. CASE InMem
  <2> DEFINE x == agumem[1]
  <2>1. FlightTyped(x) /\ Addressed(x)
    BY <1>2 DEF InMem, LatchesTyped
  <2>2. MemTyped(Touched(mem, x)) /\ MemTyped(Stored(Touched(mem, x), x))
    BY <1>1, <2>1, TouchedType, StoredType
  <2>3. Memory(act) \in {Touched(mem, x), Stored(Touched(mem, x), x)}
    BY <1>2 DEF Memory
  <2> QED
    BY <2>2, <2>3
<1>3. CASE ~InMem
  BY <1>1, <1>3 DEF Memory
<1> QED
  BY <1>2, <1>3

LEMMA RegistersType ==
  ASSUME ArchTyped, LatchesTyped, NEW act, Registers(act)
  PROVE  vrf' \in [VRegs -> Vectors] /\ frf' \in [FRegs -> Pointers]
<1>1. CASE memwb # <<>> /\ act["WB"] = "Normal"
  <2>1. AtMostOne(memwb[1].result, FileValues(memwb[1].inst))
    BY <1>1 DEF LatchesTyped, ProducedTyped
  <2> QED
    BY <1>1, <2>1, WrittenRegisters DEF Registers
<1>2. CASE ~(memwb # <<>> /\ act["WB"] = "Normal")
  BY <1>2 DEF Registers, ArchTyped
<1> QED
  BY <1>1, <1>2

\* Wherever a stage wants the program counter to be, it is a place in imem.
LEMMA PcAfterType ==
  ASSUME ArchTyped, LatchesTyped, NEW act, NEW paused,
         NEW wishes \in SUBSET PcWishes(paused)
  PROVE  PcAfter(act, wishes) \in 0 .. (2 ^ PcBits - 1)
<1> DEFINE M == 2 ^ PcBits
<1>1. M \in Nat \ {0} /\ pc \in 0 .. (M - 1)
  BY CpuPipelineAssumption DEF ArchTyped
<1>2. ASSUME NEW w \in PcWishes(paused) PROVE w[2] \in 0 .. (M - 1)
  <2>1. CASE w[2] = pc
    BY <1>1, <2>1
  <2>2. CASE Jumps /\ w[2] = ifid[1].inst.imm
    BY <2>2 DEF Jumps, LatchesTyped, FlightTyped, InstOK
  <2>3. \/ w = <<"AGU", pc, AguRejects>>
        \/ w = <<"EX", pc, ExTests /\ ~ExEqual /\ ~paused>>
        \/ w = <<"ID", IF Jumps THEN ifid[1].inst.imm ELSE 0, Jumps /\ ~paused>> /\ w[3]
        \/ w = <<"IF", pc, paused>>
    BY Zenon DEF PcWishes
  <2>4. CASE w = <<"ID", IF Jumps THEN ifid[1].inst.imm ELSE 0, Jumps /\ ~paused>> /\ w[3]
    <3>1. Jumps
      BY <2>4
    <3> QED
      BY <2>2, <2>4, <3>1
  <2>5. w = <<"AGU", pc, AguRejects>> => w[2] = pc
    OBVIOUS
  <2>6. w = <<"EX", pc, ExTests /\ ~ExEqual /\ ~paused>> => w[2] = pc
    OBVIOUS
  <2>7. w = <<"IF", pc, paused>> => w[2] = pc
    OBVIOUS
  <2> QED
    BY <2>1, <2>3, <2>4, <2>5, <2>6, <2>7
<1>3. CASE wishes # {}
  <2>1. PcAfter(act, wishes) = (CHOOSE w \in wishes : TRUE)[2]
    BY <1>3, Zenon DEF PcAfter
  <2>2. (CHOOSE w \in wishes : TRUE) \in PcWishes(paused)
    BY <1>3
  <2> QED
    BY <1>2, <2>1, <2>2
<1>4. CASE wishes = {} /\ act["IF"] # "Normal"
  <2>1. PcAfter(act, wishes) = pc
    BY <1>4, Zenon DEF PcAfter
  <2> QED
    BY <1>1, <2>1
<1>5. CASE wishes = {} /\ act["IF"] = "Normal"
  <2>1. PcAfter(act, wishes) = (pc + 1) % (2 ^ PcBits)
    BY <1>5, Zenon DEF PcAfter
  <2>2. pc + 1 \in Int
    BY <1>1
  <2> HIDE DEF M
  <2>3. (pc + 1) % M \in 0 .. (M - 1)
    BY <1>1, <2>2, Remainder
  <2> QED
    BY <2>1, <2>3 DEF M
<1> QED
  BY <1>3, <1>4, <1>5

-----------------------------------------------------------------------------
(* The processor's record.                                                  *)

LEMMA CpuDelays == PauseCycles \in Nat /\ ResumeCycles \in Nat /\ MaxDelay \in Nat
BY CpuAssumption DEF MaxDelay

LEMMA PrepareTyped == ASSUME NEW c, CpuTyped(c) PROVE CpuTyped(PrepareResumeTick(c))
BY ZenonT(60) DEF PrepareResumeTick, ClearPause, CpuTyped

LEMMA PauseTyped == ASSUME NEW c, CpuTyped(c) PROVE CpuTyped(SignalPause(c))
<1>1. 0 \in 0..MaxDelay
  BY CpuDelays
<1> QED
  BY <1>1 DEF SignalPause, CpuTyped

LEMMA ResumeTyped == ASSUME NEW c, CpuTyped(c) PROVE CpuTyped(SignalResume(c))
<1>1. ResumeCycles \in 0..MaxDelay
  BY CpuDelays DEF MaxDelay
<1>2. ASSUME NEW p \in BOOLEAN
      PROVE  CpuTyped([c EXCEPT !.pause_ready_delay_started = FALSE,
                                !.ext_signal_delay_remaining = ResumeCycles,
                                !.resume_delay_pending = p,
                                !.ready4ext_sig = ~p])
  BY <1>1 DEF CpuTyped
<1>3. ASSUME NEW d, CpuTyped(d)
      PROVE  CpuTyped([d EXCEPT !.ext_pause_requested = TRUE]) /\ CpuTyped(ClearPause(d))
  BY <1>3, ZenonT(60) DEF CpuTyped, ClearPause
<1> DEFINE pending == ResumeCycles # 0
           r == [c EXCEPT !.pause_ready_delay_started = FALSE,
                          !.ext_signal_delay_remaining = ResumeCycles,
                          !.resume_delay_pending = pending,
                          !.ready4ext_sig = ~pending]
<1>4. CpuTyped(r)
  BY <1>2
<1>5. SignalResume(c) \in {[r EXCEPT !.ext_pause_requested = TRUE], ClearPause(r)}
  BY Zenon DEF SignalResume
<1> HIDE DEF r, pending
<1> QED
  BY <1>3, <1>4, <1>5

LEMMA ReadyTyped == ASSUME NEW c, CpuTyped(c) PROVE CpuTyped(UpdateExtsigRdy(c))
<1>1. c.ext_signal_delay_remaining \in 0..MaxDelay
  BY DEF CpuTyped
<1>2. Dec(c.ext_signal_delay_remaining) \in 0..MaxDelay
  BY <1>1, CpuDelays DEF Dec
<1>3. Dec(0) \in 0..MaxDelay /\ Dec(PauseCycles) \in 0..MaxDelay
  BY CpuDelays DEF Dec, MaxDelay
<1> QED
  BY <1>2, <1>3 DEF UpdateExtsigRdy, CpuTyped

LEMMA CpuAfterTyped ==
  ASSUME NEW d, CpuTyped(d), NEW S, SigsTyped(S)
  PROVE  CpuTyped(CpuAfter(d, Winner(S)))
<1> DEFINE r == WinnerReason(Winner(S))
           seen == d.prog_end_seen \/ r = "prog_end"
           e == [d EXCEPT !.winner = r, !.prog_end_seen = seen]
           over == seen /\ exagu' = <<>> /\ agumem' = <<>> /\ memwb' = <<>>
<1>1. r \in DOMAIN Priority \cup {"none"}
  <2>1. CASE Winner(S) = {}
    BY <2>1 DEF WinnerReason
  <2>2. CASE Winner(S) # {}
    <3>1. Only(Winner(S)) \in S
      BY <2>2, OneWinner, TheValue DEF Only
    <3> QED
      BY <2>2, <3>1 DEF WinnerReason, SigsTyped, SigTyped
  <2> QED
    BY <2>1, <2>2
<1>2. seen \in BOOLEAN /\ over \in BOOLEAN
  BY DEF CpuTyped
<1>3. CpuAfter(d, Winner(S)) = [UpdateExtsigRdy(e) EXCEPT !.finished = over]
  BY Zenon DEF CpuAfter
<1> HIDE DEF r, seen, over
<1>4. CpuTyped(e)
  BY <1>1, <1>2 DEF CpuTyped
<1> HIDE DEF e
<1>5. CpuTyped(UpdateExtsigRdy(e))
  BY <1>4, ReadyTyped
<1> QED
  BY <1>2, <1>3, <1>5 DEF CpuTyped

-----------------------------------------------------------------------------
(* Every step keeps the invariant.                                          *)

LEMMA SigsBeforeType ==
  ASSUME SigsTyped(sigs)
  PROVE  SigsTyped(SigsBefore) /\ AwaitedKeys(SigsBefore) = AwaitedKeys(sigs)
BY ClearedType DEF SigsBefore

LEMMA PanicStep == ASSUME PipeInv, Panic, UNCHANGED pauses PROVE PipeInv'
BY DEF PipeInv, Panic, arch, latches, ArchTyped, LatchesTyped, RequestsInv

LEMMA ObeyStep ==
  ASSUME PipeInv, UNCHANGED pauses,
         NEW d, CpuTyped(d), NEW S, SigsTyped(S), AwaitedKeys(S) = AwaitedKeys(sigs),
         Obey(d, S, Winner(S), Decision(Winner(S)))
  PROVE  PipeInv'
<1> DEFINE act == Decision(Winner(S))
           R == Winner(S)
           paused == d.ext_pause_requested
           wishes == {w \in PcWishes(paused) : act[w[1]] = "Normal"}
<1>0. ArchTyped /\ LatchesTyped /\ RequestsInv /\ panicked \in BOOLEAN /\ pauses \in 0..MaxPauses
  BY DEF PipeInv
<1>1. CASE Panic
  BY <1>1, PanicStep
<1>2. CASE /\ pc' = PcAfter(act, wishes)
           /\ mem' = Memory(act)
           /\ Registers(act)
           /\ Latch(act)
           /\ sigs' = After(S, R, Takes(R) # {})
           /\ dram' = dram \cup Sends(R)
           /\ done' = done \ Takes(R)
           /\ cpu' = CpuAfter(d, R)
           /\ UNCHANGED <<prog, panicked>>
  <2>1. pc' \in 0 .. (2 ^ PcBits - 1)
    <3>1. wishes \in SUBSET PcWishes(paused)
      OBVIOUS
    <3> HIDE DEF wishes, act
    <3> QED
      BY <1>0, <1>2, <3>1, PcAfterType
  <2>2. MemTyped(mem') /\ vrf' \in [VRegs -> Vectors] /\ frf' \in [FRegs -> Pointers]
    BY <1>0, <1>2, MemoryType, RegistersType
  <2>3. LatchesTyped'
    BY <1>0, <1>2, LatchStep
  <2>4. CpuTyped(cpu')
    BY <1>2, CpuAfterTyped
  <2>5. SigsTyped(sigs')
    BY <1>2, AfterType
  <2>6. AwaitedKeys(S) = dram \cup done /\ dram \cap done = {}
    BY <1>0 DEF RequestsInv
  <2>7. /\ AwaitedKeys(After(S, R, Takes(R) # {})) = (dram \cup Sends(R)) \cup (done \ Takes(R))
        /\ (dram \cup Sends(R)) \cap (done \ Takes(R)) = {}
    BY <2>6, DecisionAwaits
  <2>8. RequestsInv'
    BY <1>2, <2>7 DEF RequestsInv
  <2>9. ArchTyped'
    BY <1>0, <1>2, <2>1, <2>2 DEF ArchTyped
  <2> QED
    BY <1>0, <1>2, <2>3, <2>4, <2>5, <2>8, <2>9 DEF PipeInv
<1> QED
  BY <1>1, <1>2, Zenon DEF Obey

LEMMA TickStep == ASSUME PipeInv, Tick PROVE PipeInv'
<1>1. CASE Panic
  BY <1>1, PanicStep DEF Tick
<1>2. CASE \E d \in {PrepareResumeTick(cpu)} :
           \E active \in {Submitted(SigsBefore, Raised(d.ext_pause_requested))} :
           \E winner \in {Winner(active)} :
           \E act \in {Decision(winner)} : Obey(d, active, winner, act)
  <2> DEFINE d == PrepareResumeTick(cpu)
             raised == Raised(d.ext_pause_requested)
             active == Submitted(SigsBefore, raised)
  <2>1. Obey(d, active, Winner(active), Decision(Winner(active)))
    BY <1>2
  <2>2. CpuTyped(d)
    BY PrepareTyped DEF PipeInv
  <2>3. d.ext_pause_requested \in BOOLEAN
    BY <2>2 DEF CpuTyped
  <2>4. Fresh(raised)
    BY <2>3, RaisedFresh DEF PipeInv
  <2>5. SigsTyped(SigsBefore) /\ AwaitedKeys(SigsBefore) = AwaitedKeys(sigs)
    BY SigsBeforeType DEF PipeInv
  <2>6. SigsTyped(active) /\ AwaitedKeys(active) = AwaitedKeys(sigs)
    BY <2>4, <2>5, SubmittedType, SubmittedAwaits
  <2>7. UNCHANGED pauses
    BY DEF Tick
  <2> HIDE DEF d, active
  <2> QED
    BY <2>1, <2>2, <2>6, <2>7, ObeyStep
<1> QED
  BY <1>1, <1>2, Zenon DEF Tick

LEMMA IdleStep == ASSUME PipeInv, IdleTick PROVE PipeInv'
<1>1. /\ CpuTyped(cpu') /\ SigsTyped(sigs') /\ AwaitedKeys(sigs') = AwaitedKeys(sigs)
      /\ UNCHANGED <<arch, latches, dram, done, panicked, pauses>>
  BY PrepareTyped, SigsBeforeType DEF IdleTick, PipeInv
<1> QED
  BY <1>1 DEF PipeInv, arch, latches, ArchTyped, LatchesTyped, RequestsInv

LEMMA PauseStep == ASSUME PipeInv, Pause PROVE PipeInv'
<1>1. /\ CpuTyped(cpu') /\ UNCHANGED <<arch, latches, sigs, dram, done, panicked>>
  BY PauseTyped DEF Pause, PipeInv
<1>2. pauses' \in 0..MaxPauses
  BY CpuPipelineAssumption DEF Pause, PipeInv
<1> QED
  BY <1>1, <1>2 DEF PipeInv, arch, latches, ArchTyped, LatchesTyped, RequestsInv

LEMMA ResumeStep == ASSUME PipeInv, Resume PROVE PipeInv'
<1>1. /\ CpuTyped(cpu') /\ SigsTyped(sigs') /\ AwaitedKeys(sigs') = AwaitedKeys(sigs)
      /\ UNCHANGED <<arch, latches, dram, done, panicked, pauses>>
  BY ResumeTyped, ClearedType DEF Resume, PipeInv
<1> QED
  BY <1>1 DEF PipeInv, arch, latches, ArchTyped, LatchesTyped, RequestsInv

LEMMA RespondStep == ASSUME PipeInv, Respond PROVE PipeInv'
<1>1. dram' \cup done' = dram \cup done /\ dram' \cap done' = {}
  BY DEF Respond, PipeInv, RequestsInv
<1>2. UNCHANGED <<arch, latches, sigs, cpu, panicked, pauses>>
  BY DEF Respond
<1> QED
  BY <1>1, <1>2 DEF PipeInv, arch, latches, ArchTyped, LatchesTyped, RequestsInv

LEMMA InitTyped == Init => PipeInv
<1> SUFFICES ASSUME Init PROVE PipeInv
  OBVIOUS
<1>1. CpuTyped(cpu)
  <2>1. 0 \in 0..MaxDelay
    BY CpuDelays
  <2>2. CpuTyped(Start(NewCpu))
    BY <2>1 DEF Start, NewCpu, CpuTyped
  <2> QED
    BY <2>2 DEF Init
<1>2. SigsTyped(sigs) /\ RequestsInv
  BY DEF Init, SigsTyped, OneEach, RequestsInv, AwaitedKeys
<1>3. LatchesTyped
  BY DEF Init, LatchesTyped, OneOf
<1>4. ArchTyped
  <2> DEFINE M == 2 ^ PcBits
             N == 2 ^ OffBits
  <2>1. M \in Nat \ {0} /\ N \in Nat \ {0}
    BY CpuPipelineAssumption, PowerTypes
  <2> HIDE DEF M, N
  <2>2. 0 \in 0 .. (M - 1) /\ 0 \in 0 .. (N - 1)
    BY <2>1
  <2>3. \A r \in FRegs : Pointer(r, 0) \in Pointers
    BY <2>2, CpuPipelineAssumption DEF Pointer, Pointers, N
  <2>4. vrf \in [VRegs -> Vectors] /\ frf \in [FRegs -> Pointers]
    BY <2>3, ZerosType DEF Init
  <2>5. MemTyped(mem) /\ prog \in Programs
    BY CpuPipelineAssumption DEF Init, MemTyped
  <2>6. pc \in 0 .. (2 ^ PcBits - 1)
    BY <2>2 DEF Init, M
  <2> QED
    BY <2>4, <2>5, <2>6 DEF ArchTyped
<1>5. panicked \in BOOLEAN /\ pauses \in 0..MaxPauses
  BY CpuPipelineAssumption DEF Init
<1> QED
  BY <1>1, <1>2, <1>3, <1>4, <1>5 DEF PipeInv

\* The invariant of the pipeline, for all constants.
THEOREM PipeInvariant == Spec => []PipeInv
<1>1. PipeInv /\ [Next]_vars => PipeInv'
  <2> SUFFICES ASSUME PipeInv, [Next]_vars PROVE PipeInv'
    OBVIOUS
  <2>1. CASE UNCHANGED vars
    BY <2>1 DEF vars, arch, latches, PipeInv, ArchTyped, LatchesTyped, RequestsInv
  <2> QED
    BY <2>1, TickStep, IdleStep, PauseStep, ResumeStep, RespondStep DEF Next
<1> QED
  BY <1>1, InitTyped, PTL DEF Spec

-----------------------------------------------------------------------------
(* What the runs check follows from it.                                     *)

\* Type invariant of the pipeline: for every program and every table of
\* descriptors what EX computes, the AGU moves, loads decode and stores write
\* keeps its width, and no address that leaves the AGU is outside the bank.
THEOREM TypesHold == Spec => []TypeOK
<1>1. PipeInv => TypeOK
  <2> SUFFICES ASSUME PipeInv PROVE TypeOK
    OBVIOUS
  <2>1. ASSUME NEW l \in {ifid, idex, exagu, agumem}, l # <<>>
        PROVE  Len(l) = 1 /\ FlightOK(l[1])
    <3>1. OneOf(l) /\ FlightTyped(l[1])
      BY <2>1 DEF PipeInv, LatchesTyped
    <3>2. Len(l) = 1
      BY <2>1, <3>1 DEF OneOf
    <3>3. l[1].result \subseteq FileValues(l[1].inst) /\ Cardinality(l[1].result) <= 1
      BY <3>1, AtMostOneCounts DEF FlightTyped
    <3> QED
      BY <3>1, <3>2, <3>3 DEF FlightTyped, FlightOK, FileValues
  <2>2. ASSUME NEW l \in {memwb, fwd}, l # <<>>
        PROVE  Len(l) = 1 /\ ProducedOK(l[1])
    <3>1. OneOf(l) /\ ProducedTyped(l[1])
      BY <2>2 DEF PipeInv, LatchesTyped
    <3>2. Len(l) = 1
      BY <2>2, <3>1 DEF OneOf
    <3>3. l[1].result \subseteq FileValues(l[1].inst)
      BY <3>1, AtMostOneCounts DEF ProducedTyped
    <3> QED
      BY <3>2, <3>3 DEF ProducedOK, FileValues
  <2>3. \A s \in sigs : SignalOK(s)
    BY DEF PipeInv, SigsTyped, SigTyped, SignalOK
  <2>4. cpu.ext_signal_delay_remaining \in 0..MaxDelay
    BY DEF PipeInv, CpuTyped
  <2> QED
    BY <2>1, <2>2, <2>3, <2>4 DEF PipeInv, ArchTyped, MemTyped, TypeOK
<1> QED
  BY <1>1, PipeInvariant, PTL

\* Every request the processor has at its engine or as an answer in the portal
\* is awaited by exactly one signal, whatever has been stalled, paused, dropped
\* by submit_signal or left over at the end of the program.
THEOREM RequestsHold == Spec => []RequestsAwaited
<1>1. PipeInv => RequestsAwaited
  <2> SUFFICES ASSUME PipeInv PROVE RequestsAwaited
    OBVIOUS
  <2>1. {KeyOf(s) : s \in {b \in Blocks : Phase[b.left] = "Stall"}} = dram \cup done
    <3>1. {b \in Blocks : Phase[b.left] = "Stall"}
            = {b \in sigs : b.reason = "MEM_block" /\ Phase[b.left] = "Stall"}
      BY DEF Blocks
    <3>2. {KeyOf(s) : s \in {b \in Blocks : Phase[b.left] = "Stall"}} = AwaitedKeys(sigs)
      BY <3>1 DEF AwaitedKeys
    <3> QED
      BY <3>2 DEF PipeInv, RequestsInv
  <2>2. ASSUME NEW s \in Blocks, NEW t \in Blocks, KeyOf(s) = KeyOf(t) PROVE s = t
    <3>1. s \in sigs /\ t \in sigs /\ s.reason = "MEM_block" /\ t.reason = "MEM_block"
      BY DEF Blocks
    <3>2. s.issuer = t.issuer
      BY <3>1 DEF PipeInv, SigsTyped, SigTyped
    <3>3. s.line = t.line /\ s.isRead = t.isRead
      BY <2>2 DEF KeyOf
    <3>4. SameKey(s, t)
      BY <3>1, <3>2, <3>3 DEF SameKey
    <3> QED
      BY <3>1, <3>4 DEF PipeInv, SigsTyped, OneEach
  <2> QED
    BY <2>1, <2>2 DEF PipeInv, RequestsInv, RequestsAwaited
<1> QED
  BY <1>1, PipeInvariant, PTL

-----------------------------------------------------------------------------
(* CgoCpu covers the pipeline.  First, the processor's record with what      *)
(* CgoCpu adds to it, and the steps of the handshake.                        *)

ShownWinner(reason) == IF reason \in Reasons THEN reason ELSE "none"

\* The record c with CgoCpu's view of signals and latches.
Viewed(c, ending, agu, m, late) ==
  [c EXCEPT !.winner = ShownWinner(@), !.ending = ending, !.agu = agu, !.mem = m, !.late = late]

\* The handshake's own fields, which a decision leaves alone.
SameHandshake(c, d) ==
  /\ c.started = d.started
  /\ c.ext_pause_requested = d.ext_pause_requested
  /\ c.ready4ext_sig = d.ready4ext_sig
  /\ c.pause_ready_delay_started = d.pause_ready_delay_started
  /\ c.ext_signal_delay_remaining = d.ext_signal_delay_remaining
  /\ c.resume_delay_pending = d.resume_delay_pending

LEMMA ShownReasons ==
  ASSUME NEW r
  PROVE  /\ ShownWinner(r) \in Reasons
         /\ ShownWinner(r) = "external_pause" <=> r = "external_pause"
BY DEF ShownWinner, Reasons

LEMMA ViewedType ==
  ASSUME NEW c, CpuTyped(c), NEW e \in 0..2, NEW a \in BOOLEAN, NEW m \in MemStates, NEW l \in BOOLEAN
  PROVE  /\ Viewed(c, e, a, m, l) \in CpuState
         /\ SameHandshake(Viewed(c, e, a, m, l), c)
         /\ Viewed(c, e, a, m, l).winner = ShownWinner(c.winner)
         /\ Viewed(c, e, a, m, l).finished = c.finished
         /\ Viewed(c, e, a, m, l).prog_end_seen = c.prog_end_seen
         /\ Viewed(c, e, a, m, l).ending = e
         /\ Viewed(c, e, a, m, l).agu = a
         /\ Viewed(c, e, a, m, l).mem = m
         /\ Viewed(c, e, a, m, l).late = l
<1>1. ShownWinner(c.winner) \in Reasons
  BY ShownReasons
<1>2. c.ending = 0 /\ c.agu = FALSE /\ c.mem = "None" /\ c.late = FALSE
  BY DEF CpuTyped
<1> QED
  BY <1>1 DEF Viewed, CpuTyped, CpuState, SameHandshake

\* Records that have the same fields are the same.
LEMMA SameRecord ==
  ASSUME NEW c \in CpuState, NEW d \in CpuState, SameHandshake(c, d),
         c.winner = d.winner, c.finished = d.finished, c.prog_end_seen = d.prog_end_seen,
         c.ending = d.ending, c.agu = d.agu, c.mem = d.mem, c.late = d.late
  PROVE  c = d
BY DEF CpuState, SameHandshake

\* Pause, resume and the end of a resume do not look at what CgoCpu adds.
LEMMA HandshakeSeen ==
  ASSUME NEW c, CpuTyped(c), NEW e \in 0..2, NEW a \in BOOLEAN, NEW m \in MemStates, NEW l \in BOOLEAN
  PROVE  /\ SignalPause(Viewed(c, e, a, m, l)) = Viewed(SignalPause(c), e, a, m, l)
         /\ ClearPause(Viewed(c, e, a, m, l)) = Viewed(ClearPause(c), e, a, m, l)
<1>1. SignalPause(Viewed(c, e, a, m, l)) = Viewed(SignalPause(c), e, a, m, l)
  BY ZenonT(60) DEF SignalPause, Viewed, CpuTyped
<1>2. ClearPause(Viewed(c, e, a, m, l)) = Viewed(ClearPause(c), e, a, m, l)
  <2>1. ShownWinner(IF c.winner = "external_pause" THEN "none" ELSE c.winner)
          = IF ShownWinner(c.winner) = "external_pause" THEN "none" ELSE ShownWinner(c.winner)
    BY DEF ShownWinner, Reasons
  <2> QED
    BY <2>1 DEF ClearPause, Viewed, CpuTyped
<1> QED
  BY <1>1, <1>2

LEMMA ResumeSeen ==
  ASSUME NEW c, CpuTyped(c), NEW e \in 0..2, NEW a \in BOOLEAN, NEW m \in MemStates, NEW l \in BOOLEAN
  PROVE  SignalResume(Viewed(c, e, a, m, l)) = Viewed(SignalResume(c), e, a, m, l)
<1> DEFINE Answer(x, p) == [x EXCEPT !.pause_ready_delay_started = FALSE,
                                     !.ext_signal_delay_remaining = ResumeCycles,
                                     !.resume_delay_pending = p,
                                     !.ready4ext_sig = ~p]
           pending == ResumeCycles # 0
<1>1. ResumeCycles \in 0..MaxDelay
  BY CpuDelays DEF MaxDelay
<1>2. ASSUME NEW p \in BOOLEAN
      PROVE  CpuTyped(Answer(c, p)) /\ Answer(Viewed(c, e, a, m, l), p) = Viewed(Answer(c, p), e, a, m, l)
  BY <1>1, ZenonT(60) DEF CpuTyped, Viewed
<1>3. pending \in BOOLEAN
  OBVIOUS
<1>4. ASSUME NEW x
      PROVE  SignalResume(x) = IF pending
                               THEN [Answer(x, pending) EXCEPT !.ext_pause_requested = TRUE]
                               ELSE ClearPause(Answer(x, pending))
  BY Zenon DEF SignalResume
<1> HIDE DEF Answer, pending
<1>5. ASSUME NEW d, CpuTyped(d)
      PROVE  [Viewed(d, e, a, m, l) EXCEPT !.ext_pause_requested = TRUE]
               = Viewed([d EXCEPT !.ext_pause_requested = TRUE], e, a, m, l)
  BY <1>5 DEF Viewed, CpuTyped
<1>6. CASE pending
  BY <1>2, <1>4, <1>5, <1>6
<1>7. CASE ~pending
  BY <1>2, <1>3, <1>4, <1>7, HandshakeSeen
<1> QED
  BY <1>6, <1>7

LEMMA PrepareSeen ==
  ASSUME NEW c, CpuTyped(c), NEW e \in 0..2, NEW a \in BOOLEAN, NEW m \in MemStates, NEW l \in BOOLEAN
  PROVE  PrepareResumeTick(Viewed(c, e, a, m, l)) = Viewed(PrepareResumeTick(c), e, a, m, l)
<1> DEFINE Answer(x) == [x EXCEPT !.resume_delay_pending = FALSE, !.ready4ext_sig = TRUE]
<1>1. CpuTyped(Answer(c)) /\ Answer(Viewed(c, e, a, m, l)) = Viewed(Answer(c), e, a, m, l)
  BY DEF CpuTyped, Viewed
<1>2. ASSUME NEW x
      PROVE  PrepareResumeTick(x) =
               IF x.resume_delay_pending /\ x.ext_signal_delay_remaining = 0
               THEN ClearPause(Answer(x)) ELSE x
  BY Zenon DEF PrepareResumeTick
<1> HIDE DEF Answer
<1>3. SameHandshake(Viewed(c, e, a, m, l), c)
  BY ViewedType
<1>4. CASE c.resume_delay_pending /\ c.ext_signal_delay_remaining = 0
  <2> DEFINE v == Viewed(c, e, a, m, l)
  <2>1. v.resume_delay_pending /\ v.ext_signal_delay_remaining = 0
    BY <1>3, <1>4 DEF SameHandshake
  <2>2. PrepareResumeTick(v) = ClearPause(Answer(v)) /\ PrepareResumeTick(c) = ClearPause(Answer(c))
    BY <1>2, <1>4, <2>1
  <2>3. ClearPause(Viewed(Answer(c), e, a, m, l)) = Viewed(ClearPause(Answer(c)), e, a, m, l)
    BY <1>1, HandshakeSeen
  <2> QED
    BY <1>1, <2>2, <2>3
<1>5. CASE ~(c.resume_delay_pending /\ c.ext_signal_delay_remaining = 0)
  BY <1>2, <1>3, <1>5 DEF SameHandshake
<1> QED
  BY <1>4, <1>5

-----------------------------------------------------------------------------
(* One decision, as CgoCpu sees it.                                         *)

\* What CgoCpu calls m and late in c, up to the names that make no difference.
Settles(c, m, late) ==
  \/ c.finished /\ m = "None" /\ ~late
  \/ ~c.finished /\ c.mem = m /\ c.late = late /\ ~(late /\ m = "None")
  \/ ~c.finished /\ c.mem = "None" /\ c.late /\ m = "Submit" /\ ~late

\* Outcome o of a decision on c: the winner, whether the program is over and
\* has been seen to end, what is left of the latches, requests and responses.
Leads(o, c, winner, finished, seen, ending, agu, m, late, sent, taken) ==
  /\ o.cpu \in CpuState /\ SameHandshake(o.cpu, c)
  /\ o.cpu.winner = winner /\ o.cpu.finished = finished /\ o.cpu.prog_end_seen = seen
  /\ o.cpu.ending = ending /\ o.cpu.agu = agu
  /\ Settles(o.cpu, m, late)
  /\ DOMAIN o = {"cpu", "sent", "taken"} /\ o.sent = sent /\ o.taken = taken

Renamed(c, m, late) == [c EXCEPT !.mem = m, !.late = late]

LEMMA SettledOf ==
  ASSUME NEW c \in CpuState, NEW m \in MemStates, NEW late \in BOOLEAN, Settles(c, m, late)
  PROVE  Settled(c) = Renamed(c, m, late)
<1>1. CASE c.finished
  <2>1. Settled(c) = [c EXCEPT !.mem = "None", !.late = FALSE]
    BY <1>1, Zenon DEF Settled
  <2> QED
    BY <1>1, <2>1 DEF Settles, Renamed
<1>2. CASE ~c.finished /\ c.late /\ c.mem = "None"
  <2>1. Settled(c) = [c EXCEPT !.mem = "Submit", !.late = FALSE]
    BY <1>2, Zenon DEF Settled
  <2> QED
    BY <1>2, <2>1 DEF Settles, Renamed
<1>3. CASE ~c.finished /\ ~(c.late /\ c.mem = "None")
  <2>1. Settled(c) = c
    BY <1>3, Zenon DEF Settled
  <2>2. c.mem = m /\ c.late = late
    BY <1>3 DEF Settles
  <2> QED
    BY <2>1, <2>2 DEF CpuState, Renamed
<1> QED
  BY <1>1, <1>2, <1>3

\* update_extsig_rdy looks at the handshake and at whether the pause has won.
LEMMA ReadySame ==
  ASSUME NEW c \in CpuState, NEW d, CpuTyped(d), SameHandshake(c, d),
         c.winner = ShownWinner(d.winner)
  PROVE  /\ SameHandshake(UpdateExtsigRdy(c), UpdateExtsigRdy(d))
         /\ UpdateExtsigRdy(d).winner = d.winner
         /\ UpdateExtsigRdy(d).prog_end_seen = d.prog_end_seen
         /\ UpdateExtsigRdy(c).winner = c.winner
         /\ UpdateExtsigRdy(c).finished = c.finished
         /\ UpdateExtsigRdy(c).prog_end_seen = c.prog_end_seen
         /\ UpdateExtsigRdy(c).ending = c.ending
         /\ UpdateExtsigRdy(c).agu = c.agu
         /\ UpdateExtsigRdy(c).mem = c.mem
         /\ UpdateExtsigRdy(c).late = c.late
         /\ UpdateExtsigRdy(c) \in CpuState
<1>1. (c.winner = "external_pause") <=> (d.winner = "external_pause")
  BY ShownReasons
<1>2. /\ c.ext_signal_delay_remaining \in 0..MaxDelay /\ c.ext_signal_delay_remaining = d.ext_signal_delay_remaining
      /\ c.resume_delay_pending = d.resume_delay_pending
      /\ c.pause_ready_delay_started = d.pause_ready_delay_started
      /\ c.ext_pause_requested = d.ext_pause_requested
  BY DEF CpuState, SameHandshake
<1>3. /\ Dec(c.ext_signal_delay_remaining) \in 0..MaxDelay
      /\ Dec(0) \in 0..MaxDelay /\ Dec(PauseCycles) \in 0..MaxDelay
  BY <1>2, CpuDelays DEF Dec, MaxDelay
<1> DEFINE delay == IF c.pause_ready_delay_started THEN 0 ELSE PauseCycles
           counting == c.resume_delay_pending \/ c.ext_signal_delay_remaining > 0
           accepted == c.pause_ready_delay_started \/ c.winner = "external_pause"
           D == Dec(c.ext_signal_delay_remaining)
           A == Dec(delay)
           now == delay = 0
<1>4. \/ /\ UpdateExtsigRdy(c) = [c EXCEPT !.ext_signal_delay_remaining = D, !.ready4ext_sig = FALSE]
         /\ UpdateExtsigRdy(d) = [d EXCEPT !.ext_signal_delay_remaining = D, !.ready4ext_sig = FALSE]
      \/ /\ UpdateExtsigRdy(c) = [c EXCEPT !.ready4ext_sig = TRUE]
         /\ UpdateExtsigRdy(d) = [d EXCEPT !.ready4ext_sig = TRUE]
      \/ /\ UpdateExtsigRdy(c) = [c EXCEPT !.ready4ext_sig = FALSE]
         /\ UpdateExtsigRdy(d) = [d EXCEPT !.ready4ext_sig = FALSE]
      \/ /\ UpdateExtsigRdy(c) = [c EXCEPT !.pause_ready_delay_started = TRUE,
                                           !.ext_signal_delay_remaining = A, !.ready4ext_sig = now]
         /\ UpdateExtsigRdy(d) = [d EXCEPT !.pause_ready_delay_started = TRUE,
                                           !.ext_signal_delay_remaining = A, !.ready4ext_sig = now]
  BY <1>1, <1>2, Zenon DEF UpdateExtsigRdy
<1>5. D \in 0..MaxDelay /\ A \in 0..MaxDelay /\ now \in BOOLEAN
  BY <1>3
<1> HIDE DEF D, A, now
<1>6. CASE /\ UpdateExtsigRdy(c) = [c EXCEPT !.ext_signal_delay_remaining = D, !.ready4ext_sig = FALSE]
           /\ UpdateExtsigRdy(d) = [d EXCEPT !.ext_signal_delay_remaining = D, !.ready4ext_sig = FALSE]
  BY <1>5, <1>6, ZenonT(60) DEF CpuState, CpuTyped, SameHandshake
<1>7. ASSUME NEW p \in BOOLEAN, UpdateExtsigRdy(c) = [c EXCEPT !.ready4ext_sig = p],
             UpdateExtsigRdy(d) = [d EXCEPT !.ready4ext_sig = p]
      PROVE  /\ SameHandshake(UpdateExtsigRdy(c), UpdateExtsigRdy(d))
             /\ UpdateExtsigRdy(d).winner = d.winner
             /\ UpdateExtsigRdy(d).prog_end_seen = d.prog_end_seen
             /\ UpdateExtsigRdy(c).winner = c.winner
             /\ UpdateExtsigRdy(c).finished = c.finished
             /\ UpdateExtsigRdy(c).prog_end_seen = c.prog_end_seen
             /\ UpdateExtsigRdy(c).ending = c.ending
             /\ UpdateExtsigRdy(c).agu = c.agu
             /\ UpdateExtsigRdy(c).mem = c.mem
             /\ UpdateExtsigRdy(c).late = c.late
             /\ UpdateExtsigRdy(c) \in CpuState
  BY <1>7 DEF CpuState, CpuTyped, SameHandshake
<1>8. CASE /\ UpdateExtsigRdy(c) = [c EXCEPT !.pause_ready_delay_started = TRUE,
                                           !.ext_signal_delay_remaining = A, !.ready4ext_sig = now]
           /\ UpdateExtsigRdy(d) = [d EXCEPT !.pause_ready_delay_started = TRUE,
                                           !.ext_signal_delay_remaining = A, !.ready4ext_sig = now]
  <2>1. /\ UpdateExtsigRdy(c).winner = c.winner
        /\ UpdateExtsigRdy(c).finished = c.finished
        /\ UpdateExtsigRdy(c).prog_end_seen = c.prog_end_seen
        /\ UpdateExtsigRdy(c).ending = c.ending
        /\ UpdateExtsigRdy(c).agu = c.agu
        /\ UpdateExtsigRdy(c).mem = c.mem
        /\ UpdateExtsigRdy(c).late = c.late
    BY <1>8 DEF CpuState
  <2>2. UpdateExtsigRdy(c) \in CpuState
    BY <1>5, <1>8 DEF CpuState
  <2>3. /\ UpdateExtsigRdy(d).winner = d.winner
        /\ UpdateExtsigRdy(d).prog_end_seen = d.prog_end_seen
    BY <1>8 DEF CpuTyped
  <2>4. SameHandshake(UpdateExtsigRdy(c), UpdateExtsigRdy(d))
    BY <1>8 DEF CpuState, CpuTyped, SameHandshake
  <2> QED
    BY <2>1, <2>2, <2>3, <2>4
<1> QED
  BY <1>4, <1>6, <1>7, <1>8

\* The record after a decision for winner r on record d.
TickRecord(d, r, seen, over) ==
  [UpdateExtsigRdy([d EXCEPT !.winner = r, !.prog_end_seen = seen]) EXCEPT !.finished = over]

\* The pipeline's record after a tick, seen by CgoCpu, is the outcome's.
LEMMA TickMatches ==
  ASSUME NEW d, CpuTyped(d), NEW r \in DOMAIN Priority \cup {"none"},
         NEW seen \in BOOLEAN, NEW over \in BOOLEAN, NEW m \in MemStates, NEW late \in BOOLEAN,
         NEW x \in CpuState, SameHandshake(x, d), x.winner = ShownWinner(r),
         x.finished = over, x.prog_end_seen = seen, Settles(x, m, late)
  PROVE  Settled(UpdateExtsigRdy(x)) = Viewed(TickRecord(d, r, seen, over), x.ending, x.agu, m, late)
<1> DEFINE b == [d EXCEPT !.winner = r, !.prog_end_seen = seen]
           y == UpdateExtsigRdy(x)
           u == UpdateExtsigRdy(b)
           c == [u EXCEPT !.finished = over]
<1>1. CpuTyped(b) /\ SameHandshake(x, b) /\ b.winner = r /\ b.prog_end_seen = seen
  BY DEF CpuTyped, SameHandshake
<1> HIDE DEF b
<1>2. CpuTyped(u)
  BY <1>1, ReadyTyped
<1>3. /\ SameHandshake(y, u) /\ u.winner = r /\ u.prog_end_seen = seen
      /\ y.winner = x.winner /\ y.finished = x.finished /\ y.prog_end_seen = x.prog_end_seen
      /\ y.ending = x.ending /\ y.agu = x.agu /\ y.mem = x.mem /\ y.late = x.late
      /\ y \in CpuState
  BY <1>1, ReadySame
<1> HIDE DEF y, u
<1>4. /\ CpuTyped(c) /\ SameHandshake(c, u) /\ c.winner = r /\ c.prog_end_seen = seen
      /\ c.finished = over
  BY <1>2, <1>3 DEF CpuTyped, SameHandshake
<1> HIDE DEF c
<1>5. Settled(y) = Renamed(y, m, late)
  <2>1. Settles(y, m, late)
    BY <1>3 DEF Settles
  <2> QED
    BY <1>3, <2>1, SettledOf
<1> DEFINE z == Renamed(y, m, late)
           v == Viewed(c, x.ending, x.agu, m, late)
<1>6. /\ z \in CpuState /\ SameHandshake(z, y) /\ z.winner = y.winner
      /\ z.finished = y.finished /\ z.prog_end_seen = y.prog_end_seen
      /\ z.ending = y.ending /\ z.agu = y.agu /\ z.mem = m /\ z.late = late
  BY <1>3 DEF CpuState, SameHandshake, Renamed
<1>7. /\ v \in CpuState /\ SameHandshake(v, c) /\ v.winner = ShownWinner(c.winner)
      /\ v.finished = c.finished /\ v.prog_end_seen = c.prog_end_seen
      /\ v.ending = x.ending /\ v.agu = x.agu /\ v.mem = m /\ v.late = late
  <2>1. x.ending \in 0..2 /\ x.agu \in BOOLEAN
    BY DEF CpuState
  <2> HIDE DEF v
  <2> QED
    BY <1>4, <2>1, ViewedType DEF v
<1> HIDE DEF z, v
<1>8. z = v
  <2>1. SameHandshake(z, v)
    BY <1>3, <1>4, <1>6, <1>7 DEF SameHandshake
  <2> QED
    BY <1>3, <1>4, <1>6, <1>7, <2>1, SameRecord
<1> QED
  BY <1>5, <1>8, Zenon DEF b, u, y, c, z, v, TickRecord

\* Operators that only name records, for the provers.
EndRecord(c) ==
  [c EXCEPT !.winner = "prog_end", !.prog_end_seen = TRUE,
            !.ending = IF c.prog_end_seen THEN @ - 1 ELSE 2, !.agu = FALSE]

\* prog_end wins.
LEMMA EndCase ==
  ASSUME NEW c \in CpuState, NEW resp, ~c.finished,
         c.ending > 0 \/ MayRaiseEnd(c), c.ending > 0 \/ ~c.prog_end_seen,
         NEW m \in MemStates, NEW late \in BOOLEAN, ~(late /\ m = "None"),
         \/ ~c.agu /\ m = c.mem /\ late = c.late
         \/ c.agu /\ c.mem = "None" /\ m = "Submit" /\ late = c.late
         \/ c.agu /\ c.mem # "None" /\ m = c.mem
  PROVE  \E o \in Decide(c, resp) :
           Leads(o, c, "prog_end", FALSE, TRUE, IF c.prog_end_seen THEN c.ending - 1 ELSE 2,
                 FALSE, m, late, 0, 0)
<1> DEFINE e == EndRecord(c)
           left == IF c.prog_end_seen THEN c.ending - 1 ELSE 2
<1>1. EndTick(c) \subseteq Decide(c, resp)
  <2>1. CASE c.ending > 0
    BY <2>1 DEF Decide
  <2>2. CASE ~(c.ending > 0)
    BY <2>2 DEF Decide
  <2> QED
    BY <2>1, <2>2
<1>2. EndTick(c) = IF ~c.agu THEN {Outcome(e, 0, 0)}
                   ELSE IF c.mem = "None" THEN {Outcome([e EXCEPT !.mem = "Submit"], 0, 0)}
                   ELSE {Outcome([e EXCEPT !.late = b], 0, 0) : b \in BOOLEAN}
  BY Zenon DEF EndTick, EndRecord
<1>3. left \in 0..2
  BY DEF CpuState
<1>4. e = [c EXCEPT !.winner = "prog_end", !.prog_end_seen = TRUE, !.ending = left, !.agu = FALSE]
  BY DEF EndRecord
<1> HIDE DEF left, e
<1>5. /\ e \in CpuState /\ SameHandshake(e, c) /\ e.winner = "prog_end" /\ ~e.finished
      /\ e.prog_end_seen = TRUE /\ e.ending = left /\ e.agu = FALSE
      /\ e.mem = c.mem /\ e.late = c.late
  BY <1>3, <1>4 DEF CpuState, Reasons, SameHandshake
<1>6. ASSUME NEW b \in BOOLEAN, NEW n \in MemStates, NEW x \in CpuState,
             x = [e EXCEPT !.mem = n, !.late = b], n = m, b = late
      PROVE  Leads(Outcome(x, 0, 0), c, "prog_end", FALSE, TRUE, left, FALSE, m, late, 0, 0)
  <2>1. /\ SameHandshake(x, c) /\ x.winner = "prog_end" /\ x.finished = FALSE
        /\ x.prog_end_seen = TRUE /\ x.ending = left /\ x.agu = FALSE
        /\ x.mem = n /\ x.late = b
    BY <1>5, <1>6 DEF CpuState, SameHandshake
  <2>2. Settles(x, m, late)
    BY <1>6, <2>1 DEF Settles
  <2> QED
    BY <2>1, <2>2 DEF Leads, Outcome
<1>7. CASE ~c.agu
  <2>1. e = [e EXCEPT !.mem = m, !.late = late]
    BY <1>5, <1>7 DEF CpuState
  <2>2. Leads(Outcome(e, 0, 0), c, "prog_end", FALSE, TRUE, left, FALSE, m, late, 0, 0)
    BY <1>5, <1>6, <2>1
  <2> QED
    BY <1>1, <1>2, <1>7, <2>2 DEF left
<1>8. CASE c.agu /\ c.mem = "None"
  <2> DEFINE x == [e EXCEPT !.mem = "Submit"]
  <2>1. x = [e EXCEPT !.mem = m, !.late = late] /\ x \in CpuState
    BY <1>5, <1>8 DEF CpuState
  <2> HIDE DEF x
  <2>2. Leads(Outcome(x, 0, 0), c, "prog_end", FALSE, TRUE, left, FALSE, m, late, 0, 0)
    BY <1>6, <2>1
  <2> QED
    BY <1>1, <1>2, <1>8, <2>2 DEF left, x
<1>9. CASE c.agu /\ c.mem # "None"
  <2> DEFINE x == [e EXCEPT !.late = late]
  <2>1. x = [e EXCEPT !.mem = m, !.late = late] /\ x \in CpuState
    BY <1>5, <1>9 DEF CpuState
  <2>2. Outcome(x, 0, 0) \in EndTick(c)
    BY <1>2, <1>9
  <2> HIDE DEF x
  <2>3. Leads(Outcome(x, 0, 0), c, "prog_end", FALSE, TRUE, left, FALSE, m, late, 0, 0)
    BY <1>6, <2>1
  <2> QED
    BY <1>1, <2>2, <2>3 DEF left
<1> QED
  BY <1>7, <1>8, <1>9

LEMMA QuietDecide ==
  ASSUME NEW c \in CpuState, NEW resp, c.ending = 0
  PROVE  Undisturbed(c, resp) \subseteq Decide(c, resp)
BY DEF Decide

\* An outcome is what its record is.
LEMMA LeadsTo ==
  ASSUME NEW c \in CpuState, NEW x \in CpuState, SameHandshake(x, c),
         NEW m, NEW late, Settles(x, m, late), NEW sent, NEW taken
  PROVE  Leads(Outcome(x, sent, taken), c, x.winner, x.finished, x.prog_end_seen,
               x.ending, x.agu, m, late, sent, taken)
BY DEF Leads, Outcome

\* The pause wins.
LEMMA PauseCase ==
  ASSUME NEW c \in CpuState, NEW resp, ~c.finished, c.ending = 0, c.mem = "None", ~c.late,
         c.ext_pause_requested
  PROVE  \E o \in Decide(c, resp) :
           Leads(o, c, "external_pause", FALSE, c.prog_end_seen, 0, c.agu, "None", FALSE, 0, 0)
<1> DEFINE x == [c EXCEPT !.winner = "external_pause"]
<1>1. Outcome(x, 0, 0) \in Undisturbed(c, resp)
  <2>1. Undisturbed(c, resp) = {Outcome(x, 0, 0)}
    BY Zenon DEF Undisturbed
  <2> QED
    BY <2>1
<1>2. /\ x \in CpuState /\ SameHandshake(x, c) /\ x.winner = "external_pause" /\ x.finished = FALSE
      /\ x.prog_end_seen = c.prog_end_seen /\ x.ending = 0 /\ x.agu = c.agu
      /\ x.mem = "None" /\ x.late = FALSE
  BY DEF CpuState, Reasons, SameHandshake
<1> HIDE DEF x
<1>3. Settles(x, "None", FALSE)
  BY <1>2 DEF Settles
<1>4. Leads(Outcome(x, 0, 0), c, x.winner, x.finished, x.prog_end_seen, x.ending, x.agu,
            "None", FALSE, 0, 0)
  BY <1>2, <1>3, LeadsTo
<1> QED
  BY <1>1, <1>2, <1>4, QuietDecide

\* Nothing holds MEM: the pipeline moves on, or the program is over.
LEMMA RunCase ==
  ASSUME NEW c \in CpuState, NEW resp, ~c.finished, c.ending = 0, c.mem = "None", ~c.late,
         ~c.ext_pause_requested, NEW a \in BOOLEAN
  PROVE  /\ c.prog_end_seen =>
              \E o \in Decide(c, resp) :
                Leads(o, c, "none", TRUE, TRUE, 0, c.agu, "None", FALSE, 0, 0)
         /\ ~c.prog_end_seen =>
              \E o \in Decide(c, resp) :
                Leads(o, c, "none", FALSE, FALSE, 0, a, IF c.agu THEN "Submit" ELSE "None", FALSE, 0, 0)
<1> DEFINE r == [c EXCEPT !.winner = "none"]
           n == IF c.agu THEN "Submit" ELSE "None"
           x == [r EXCEPT !.finished = TRUE]
           y == [r EXCEPT !.mem = n, !.agu = a]
<1>1. Undisturbed(c, resp) = RunTick(c)
  BY Zenon DEF Undisturbed
<1>2. CASE c.prog_end_seen
  <2>1. Outcome(x, 0, 0) \in RunTick(c)
    BY <1>2 DEF RunTick, Draining
  <2>2. /\ x \in CpuState /\ SameHandshake(x, c) /\ x.winner = "none" /\ x.finished = TRUE
        /\ x.prog_end_seen = TRUE /\ x.ending = 0 /\ x.agu = c.agu
        /\ x.mem = "None" /\ x.late = FALSE
    BY <1>2 DEF CpuState, Reasons, SameHandshake
  <2> HIDE DEF x
  <2>3. Settles(x, "None", FALSE)
    BY <2>2 DEF Settles
  <2>4. Leads(Outcome(x, 0, 0), c, x.winner, x.finished, x.prog_end_seen, x.ending, x.agu,
              "None", FALSE, 0, 0)
    BY <2>2, <2>3, LeadsTo
  <2> QED
    BY <1>1, <1>2, <2>1, <2>2, <2>4, QuietDecide
<1>3. CASE ~c.prog_end_seen
  <2>1. Outcome(y, 0, 0) \in RunTick(c)
    <3>1. RunTick(c) = {Outcome([r EXCEPT !.mem = n, !.agu = b], 0, 0) : b \in BOOLEAN}
      BY <1>3, Zenon DEF RunTick, Draining
    <3> QED
      BY <3>1
  <2>2. n \in MemStates
    BY DEF MemStates
  <2> HIDE DEF n
  <2>3. /\ y \in CpuState /\ SameHandshake(y, c) /\ y.winner = "none" /\ y.finished = FALSE
        /\ y.prog_end_seen = FALSE /\ y.ending = 0 /\ y.agu = a
        /\ y.mem = n /\ y.late = FALSE
    BY <1>3, <2>2 DEF CpuState, Reasons, SameHandshake
  <2> HIDE DEF y
  <2>4. Settles(y, n, FALSE)
    BY <2>3 DEF Settles
  <2>5. Leads(Outcome(y, 0, 0), c, y.winner, y.finished, y.prog_end_seen, y.ending, y.agu,
              n, FALSE, 0, 0)
    BY <2>3, <2>4, LeadsTo
  <2> QED
    BY <1>1, <1>3, <2>1, <2>3, <2>5, QuietDecide DEF n
<1> QED
  BY <1>2, <1>3

\* What MEM_stop_FSM does in phase p with resp answers in the portal, Release
\* apart: the next phase, requests sent and answers taken.
FsmStep(p, resp, next, sent, taken) ==
  \/ p = "Submit" /\ next = "Stall" /\ sent = 1 /\ taken = 0
  \/ p = "Stall" /\ resp = 0 /\ next = "Stall" /\ sent = 0 /\ taken = 0
  \/ p = "Stall" /\ resp > 0 /\ next = "WriteBack" /\ sent = 0 /\ taken = 1
  \/ p = "WriteBack" /\ next = "Release" /\ sent = 0 /\ taken = 0

LEMMA FsmTick ==
  ASSUME NEW c, NEW resp \in Nat, NEW next, NEW sent, NEW taken,
         FsmStep(c.mem, resp, next, sent, taken)
  PROVE  \/ MemTick(c, resp) =
              Outcome([[c EXCEPT !.winner = "MEM_block"] EXCEPT !.mem = next], sent, taken)
         \/ /\ MemTick(c, resp) = Outcome([c EXCEPT !.winner = "MEM_block"], sent, taken)
            /\ next = c.mem
<1>1. CASE c.mem = "Submit" /\ next = "Stall" /\ sent = 1 /\ taken = 0
  <2>1. MemTick(c, resp) =
          Outcome([[c EXCEPT !.winner = "MEM_block"] EXCEPT !.mem = "Stall"], 1, 0)
    BY <1>1, Zenon DEF MemTick
  <2> QED
    BY <1>1, <2>1
<1>2. CASE c.mem = "Stall" /\ resp = 0 /\ next = "Stall" /\ sent = 0 /\ taken = 0
  <2>1. ~(resp > 0) /\ c.mem # "Submit" /\ c.mem # "WriteBack" /\ c.mem # "Release"
    BY <1>2
  <2>2. MemTick(c, resp) = Outcome([c EXCEPT !.winner = "MEM_block"], 0, 0)
    BY <1>2, <2>1, Zenon DEF MemTick
  <2> QED
    BY <1>2, <2>2
<1>3. CASE c.mem = "Stall" /\ resp > 0 /\ next = "WriteBack" /\ sent = 0 /\ taken = 1
  <2>1. ~(resp = 0) /\ c.mem # "Submit" /\ c.mem # "WriteBack" /\ c.mem # "Release"
    BY <1>3
  <2>2. MemTick(c, resp) =
          Outcome([[c EXCEPT !.winner = "MEM_block"] EXCEPT !.mem = "WriteBack"], 0, 1)
    BY <1>3, <2>1, Zenon DEF MemTick
  <2> QED
    BY <1>3, <2>2
<1>4. CASE c.mem = "WriteBack" /\ next = "Release" /\ sent = 0 /\ taken = 0
  <2>1. MemTick(c, resp) =
          Outcome([[c EXCEPT !.winner = "MEM_block"] EXCEPT !.mem = "Release"], 0, 0)
    BY <1>4, Zenon DEF MemTick
  <2> QED
    BY <1>4, <2>1
<1> QED
  BY <1>1, <1>2, <1>3, <1>4 DEF FsmStep

\* The record of the outcome.
LEMMA FsmRecord ==
  ASSUME NEW c \in CpuState, NEW resp \in Nat, NEW next, NEW sent, NEW taken,
         FsmStep(c.mem, resp, next, sent, taken)
  PROVE  \E x \in CpuState :
           /\ MemTick(c, resp) = Outcome(x, sent, taken)
           /\ SameHandshake(x, c) /\ x.winner = "MEM_block" /\ x.finished = c.finished
           /\ x.prog_end_seen = c.prog_end_seen /\ x.ending = c.ending /\ x.agu = c.agu
           /\ x.mem = next /\ x.late = c.late
           /\ next \in MemStates \ {"None"}
<1>1. next \in MemStates \ {"None"}
  BY DEF FsmStep, MemStates
<1> DEFINE r == [c EXCEPT !.winner = "MEM_block"]
           x == [r EXCEPT !.mem = next]
<1>2. /\ x \in CpuState
      /\ SameHandshake(x, c) /\ x.winner = "MEM_block" /\ x.finished = c.finished
      /\ x.prog_end_seen = c.prog_end_seen /\ x.ending = c.ending /\ x.agu = c.agu
      /\ x.mem = next /\ x.late = c.late
      /\ next = c.mem => r = x
  BY <1>1 DEF CpuState, Reasons, SameHandshake
<1>3. MemTick(c, resp) = Outcome(x, sent, taken)
  <2>1. \/ MemTick(c, resp) = Outcome(x, sent, taken)
        \/ MemTick(c, resp) = Outcome(r, sent, taken) /\ next = c.mem
    BY FsmTick
  <2> HIDE DEF x, r
  <2> QED
    BY <1>2, <2>1
<1> HIDE DEF x
<1> QED
  BY <1>1, <1>2, <1>3

\* The operation in MEM goes on while the program runs.
LEMMA OperationCase ==
  ASSUME NEW c \in CpuState, NEW resp \in Nat, ~c.finished, c.ending = 0,
         ~c.prog_end_seen, ~c.late,
         NEW next, NEW sent, NEW taken, FsmStep(c.mem, resp, next, sent, taken)
  PROVE  \E o \in Decide(c, resp) :
           Leads(o, c, "MEM_block", FALSE, FALSE, 0, c.agu, next, FALSE, sent, taken)
<1>1. PICK x \in CpuState :
        /\ MemTick(c, resp) = Outcome(x, sent, taken)
        /\ SameHandshake(x, c) /\ x.winner = "MEM_block" /\ x.finished = c.finished
        /\ x.prog_end_seen = c.prog_end_seen /\ x.ending = c.ending /\ x.agu = c.agu
        /\ x.mem = next /\ x.late = c.late
        /\ next \in MemStates \ {"None"}
  BY FsmRecord
<1>2. c.mem # "None"
  BY DEF FsmStep
<1>3. Undisturbed(c, resp) = {MemTick(c, resp)}
  <2>1. Undisturbed(c, resp) = IF Draining(c) THEN LeftoverTick(c, resp) ELSE {MemTick(c, resp)}
    BY <1>2, Zenon DEF Undisturbed
  <2> QED
    BY <2>1 DEF Draining
<1>4. Settles(x, next, FALSE) /\ x.finished = FALSE /\ x.prog_end_seen = FALSE /\ x.ending = 0
  BY <1>1 DEF Settles, CpuState
<1>5. Leads(Outcome(x, sent, taken), c, x.winner, x.finished, x.prog_end_seen, x.ending, x.agu,
            next, FALSE, sent, taken)
  BY <1>1, <1>4, LeadsTo
<1>6. Leads(Outcome(x, sent, taken), c, "MEM_block", FALSE, FALSE, 0, c.agu, next, FALSE, sent, taken)
  BY <1>1, <1>4, <1>5
<1> QED
  BY <1>1, <1>3, <1>6, QuietDecide

ReleaseRecord(c) ==
  [[c EXCEPT !.winner = "MEM_block"]
     EXCEPT !.mem = IF c.agu THEN "Submit" ELSE "None", !.agu = FALSE]

LEMMA ReleaseTick ==
  ASSUME NEW c \in CpuState, NEW resp, c.mem = "Release"
  PROVE  /\ MemTick(c, resp) = Outcome(ReleaseRecord(c), 0, 0)
         /\ ReleaseRecord(c) \in CpuState /\ SameHandshake(ReleaseRecord(c), c)
         /\ ReleaseRecord(c).winner = "MEM_block" /\ ReleaseRecord(c).finished = c.finished
         /\ ReleaseRecord(c).prog_end_seen = c.prog_end_seen
         /\ ReleaseRecord(c).ending = c.ending /\ ReleaseRecord(c).agu = FALSE
         /\ ReleaseRecord(c).mem = IF c.agu THEN "Submit" ELSE "None"
         /\ ReleaseRecord(c).late = c.late
<1>1. MemTick(c, resp) = Outcome(ReleaseRecord(c), 0, 0)
  BY Zenon DEF MemTick, ReleaseRecord
<1> DEFINE n == IF c.agu THEN "Submit" ELSE "None"
<1>2. n \in MemStates
  BY DEF MemStates
<1>3. ReleaseRecord(c) = [c EXCEPT !.winner = "MEM_block", !.mem = n, !.agu = FALSE]
  BY DEF ReleaseRecord, CpuState
<1> HIDE DEF n
<1>4. /\ ReleaseRecord(c) \in CpuState /\ SameHandshake(ReleaseRecord(c), c)
      /\ ReleaseRecord(c).winner = "MEM_block" /\ ReleaseRecord(c).finished = c.finished
      /\ ReleaseRecord(c).prog_end_seen = c.prog_end_seen
      /\ ReleaseRecord(c).ending = c.ending /\ ReleaseRecord(c).agu = FALSE
      /\ ReleaseRecord(c).mem = n /\ ReleaseRecord(c).late = c.late
  BY <1>2, <1>3, ZenonT(60) DEF CpuState, Reasons, SameHandshake
<1> QED
  BY <1>1, <1>4 DEF n

\* It leaves MEM, and the one behind it enters.
LEMMA ReleaseCase ==
  ASSUME NEW c \in CpuState, NEW resp, ~c.finished, c.ending = 0,
         ~c.prog_end_seen, ~c.late, c.mem = "Release"
  PROVE  \E o \in Decide(c, resp) :
           Leads(o, c, "MEM_block", FALSE, FALSE, 0, FALSE,
                 IF c.agu THEN "Submit" ELSE "None", FALSE, 0, 0)
<1> DEFINE x == ReleaseRecord(c)
           n == IF c.agu THEN "Submit" ELSE "None"
<1>1. /\ MemTick(c, resp) = Outcome(x, 0, 0)
      /\ x \in CpuState /\ SameHandshake(x, c) /\ x.winner = "MEM_block" /\ x.finished = FALSE
      /\ x.prog_end_seen = FALSE /\ x.ending = 0 /\ x.agu = FALSE /\ x.mem = n /\ x.late = FALSE
  BY ReleaseTick, ZenonT(60) DEF CpuState
<1>2. Undisturbed(c, resp) = {MemTick(c, resp)}
  <2>1. Undisturbed(c, resp) = IF Draining(c) THEN LeftoverTick(c, resp) ELSE {MemTick(c, resp)}
    BY Zenon DEF Undisturbed
  <2> QED
    BY <2>1 DEF Draining
<1> HIDE DEF x, n
<1>3. Settles(x, n, FALSE)
  BY <1>1 DEF Settles
<1>4. Leads(Outcome(x, 0, 0), c, x.winner, x.finished, x.prog_end_seen, x.ending, x.agu,
            n, FALSE, 0, 0)
  BY <1>1, <1>3, LeadsTo
<1> QED
  BY <1>1, <1>2, <1>4, QuietDecide DEF n

\* After the end of the program an operation is left over: any step of its FSM
\* but the last lets WB go, and the program is over.
LEMMA LeftoverCase ==
  ASSUME NEW c \in CpuState, NEW resp \in Nat, ~c.finished, c.ending = 0, c.prog_end_seen,
         NEW next, NEW sent, NEW taken, FsmStep(c.mem, resp, next, sent, taken)
  PROVE  \E o \in Decide(c, resp) :
           Leads(o, c, "MEM_block", TRUE, TRUE, 0, c.agu, "None", FALSE, sent, taken)
<1>1. PICK x \in CpuState :
        /\ MemTick(c, resp) = Outcome(x, sent, taken)
        /\ SameHandshake(x, c) /\ x.winner = "MEM_block" /\ x.finished = c.finished
        /\ x.prog_end_seen = c.prog_end_seen /\ x.ending = c.ending /\ x.agu = c.agu
        /\ x.mem = next /\ x.late = c.late
        /\ next \in MemStates \ {"None"}
  BY FsmRecord
<1>2. c.mem # "None" /\ c.mem # "Release"
  BY DEF FsmStep
<1> DEFINE y == [x EXCEPT !.finished = TRUE]
<1>3. Outcome(y, sent, taken) \in Undisturbed(c, resp)
  <2>1. Undisturbed(c, resp) = LeftoverTick(c, resp)
    BY <1>2, Zenon DEF Undisturbed, Draining
  <2>2. [MemTick(c, resp) EXCEPT !.cpu.finished = TRUE] \in LeftoverTick(c, resp)
    <3> DEFINE main == IF c.mem = "Release" THEN MemTick(c, resp)
                       ELSE [MemTick(c, resp) EXCEPT !.cpu.finished = TRUE]
               late == IF c.late
                       THEN {Outcome([[c EXCEPT !.winner = "MEM_block", !.finished = TRUE]
                                        EXCEPT !.late = FALSE], 1, 0)}
                       ELSE {}
    <3>1. LeftoverTick(c, resp) = (IF c.mem # "None" THEN {main} ELSE {}) \cup late
      BY Zenon DEF LeftoverTick
    <3>2. main = [MemTick(c, resp) EXCEPT !.cpu.finished = TRUE]
      BY <1>2
    <3> HIDE DEF main, late
    <3> QED
      BY <1>2, <3>1, <3>2
  <2>3. [Outcome(x, sent, taken) EXCEPT !.cpu.finished = TRUE] = Outcome(y, sent, taken)
    <3> DEFINE r == [cpu |-> x, sent |-> sent, taken |-> taken]
               z == [cpu |-> y, sent |-> sent, taken |-> taken]
    <3>1. [r EXCEPT !.cpu.finished = TRUE] = [r EXCEPT !.cpu = [r.cpu EXCEPT !.finished = TRUE]]
      BY Zenon
    <3>2. [r.cpu EXCEPT !.finished = TRUE] = y
      OBVIOUS
    <3> HIDE DEF y
    <3>3. [r EXCEPT !.cpu = y] = z
      OBVIOUS
    <3> HIDE DEF r, z
    <3>4. [r EXCEPT !.cpu.finished = TRUE] = z
      BY <3>1, <3>2, <3>3
    <3> QED
      BY <3>4 DEF r, z, Outcome
  <2> QED
    BY <1>1, <2>1, <2>2, <2>3
<1>4. /\ y \in CpuState /\ SameHandshake(y, c) /\ y.winner = "MEM_block" /\ y.finished = TRUE
      /\ y.prog_end_seen = TRUE /\ y.ending = 0 /\ y.agu = c.agu
  BY <1>1 DEF CpuState, SameHandshake
<1> HIDE DEF y
<1>5. Settles(y, "None", FALSE)
  BY <1>4 DEF Settles
<1>6. Leads(Outcome(y, sent, taken), c, y.winner, y.finished, y.prog_end_seen, y.ending, y.agu,
            "None", FALSE, sent, taken)
  BY <1>4, <1>5, LeadsTo
<1> QED
  BY <1>3, <1>4, <1>6, QuietDecide

\* The last step holds WB; another operation may have to submit its request.
LEMMA LeftoverRelease ==
  ASSUME NEW c \in CpuState, NEW resp, ~c.finished, c.ending = 0, c.prog_end_seen,
         c.mem = "Release", ~c.agu
  PROVE  \E o \in Decide(c, resp) :
           Leads(o, c, "MEM_block", FALSE, TRUE, 0, FALSE,
                 IF c.late THEN "Submit" ELSE "None", FALSE, 0, 0)
<1> DEFINE x == ReleaseRecord(c)
           n == IF c.late THEN "Submit" ELSE "None"
<1>1. /\ MemTick(c, resp) = Outcome(x, 0, 0)
      /\ x \in CpuState /\ SameHandshake(x, c) /\ x.winner = "MEM_block" /\ x.finished = FALSE
      /\ x.prog_end_seen = TRUE /\ x.ending = 0 /\ x.agu = FALSE /\ x.mem = "None"
      /\ x.late = c.late
  <2>1. c.finished = FALSE /\ c.prog_end_seen = TRUE /\ c.agu = FALSE
    BY DEF CpuState
  <2>2. IF c.agu THEN x.mem = "Submit" ELSE x.mem = "None"
    BY ReleaseTick
  <2> QED
    BY <2>1, <2>2, ReleaseTick
<1>2. Outcome(x, 0, 0) \in Undisturbed(c, resp)
  <2>1. Undisturbed(c, resp) = LeftoverTick(c, resp)
    BY Zenon DEF Undisturbed, Draining
  <2>2. MemTick(c, resp) \in LeftoverTick(c, resp)
    BY DEF LeftoverTick
  <2> QED
    BY <1>1, <2>1, <2>2
<1> HIDE DEF x
<1>3. Settles(x, n, FALSE)
  BY <1>1 DEF Settles, CpuState
<1> HIDE DEF n
<1>4. Leads(Outcome(x, 0, 0), c, x.winner, x.finished, x.prog_end_seen, x.ending, x.agu,
            n, FALSE, 0, 0)
  BY <1>1, <1>3, LeadsTo
<1> QED
  BY <1>1, <1>2, <1>4, QuietDecide DEF n

\* The other operation may win first.
LEMMA LateCase ==
  ASSUME NEW c \in CpuState, NEW resp, ~c.finished, c.ending = 0, c.prog_end_seen, c.late
  PROVE  \E o \in Decide(c, resp) :
           Leads(o, c, "MEM_block", TRUE, TRUE, 0, c.agu, "None", FALSE, 1, 0)
<1> DEFINE x == [[c EXCEPT !.winner = "MEM_block", !.finished = TRUE] EXCEPT !.late = FALSE]
<1>1. Outcome(x, 1, 0) \in Undisturbed(c, resp)
  <2>1. Undisturbed(c, resp) = LeftoverTick(c, resp)
    BY Zenon DEF Undisturbed, Draining
  <2>2. Outcome(x, 1, 0) \in LeftoverTick(c, resp)
    BY DEF LeftoverTick
  <2> QED
    BY <2>1, <2>2
<1>2. /\ x \in CpuState /\ SameHandshake(x, c) /\ x.winner = "MEM_block" /\ x.finished = TRUE
      /\ x.prog_end_seen = TRUE /\ x.ending = 0 /\ x.agu = c.agu
  BY DEF CpuState, Reasons, SameHandshake
<1> HIDE DEF x
<1>3. Settles(x, "None", FALSE)
  BY <1>2 DEF Settles
<1>4. Leads(Outcome(x, 1, 0), c, x.winner, x.finished, x.prog_end_seen, x.ending, x.agu,
            "None", FALSE, 1, 0)
  BY <1>2, <1>3, LeadsTo
<1> QED
  BY <1>1, <1>2, <1>4, QuietDecide

-----------------------------------------------------------------------------
(* How CgoCpu names the operations the scoreboard knows of.                 *)

BlocksOf(S) == {s \in S : s.reason = "MEM_block"}
EndsOf(S) == {s \in S : s.reason = "prog_end"}

\* CgoCpu's ending, mem and late.
EndingOf(S) == IF EndsOf(S) = {} THEN 0 ELSE Least({s.left : s \in EndsOf(S)})
MemOf(B) == IF B = {} THEN "None" ELSE Phase[Least({s.left : s \in B})]
LateOf(B) == Cardinality(B) > 1

LEMMA LeastOfOne == ASSUME NEW n \in Nat PROVE Least({n}) = n
BY DEF Least

LEMMA LeastOfTwo ==
  ASSUME NEW n \in Nat, NEW k \in Nat, n <= k
  PROVE  Least({n, k}) = n
<1> DEFINE Is(x) == x \in {n, k} /\ \A y \in {n, k} : x <= y
<1>1. Is(n)
  OBVIOUS
<1>2. \A x : Is(x) => x = n
  OBVIOUS
<1> QED
  BY <1>1, <1>2 DEF Least

LEMMA NoEnds == ASSUME NEW S, EndsOf(S) = {} PROVE EndingOf(S) = 0
BY DEF EndingOf

LEMMA OneEnd ==
  ASSUME NEW S, NEW w, EndsOf(S) = {w}, w.left \in Nat
  PROVE  EndingOf(S) = w.left
<1>1. {s.left : s \in EndsOf(S)} = {w.left}
  OBVIOUS
<1> QED
  BY <1>1, LeastOfOne DEF EndingOf

LEMMA NoOperation == MemOf({}) = "None" /\ LateOf({}) = FALSE
<1>1. Cardinality({}) = 0
  BY FS_EmptySet
<1> QED
  BY <1>1 DEF MemOf, LateOf

LEMMA OneOperationSeen ==
  ASSUME NEW s, s.left \in 1..4
  PROVE  MemOf({s}) = Phase[s.left] /\ LateOf({s}) = FALSE
<1>1. {t.left : t \in {s}} = {s.left}
  OBVIOUS
<1>2. Least({s.left}) = s.left
  BY LeastOfOne
<1>3. Cardinality({s}) = 1
  BY FS_Singleton
<1>4. ~(Cardinality({s}) > 1)
  BY <1>3
<1> QED
  BY <1>1, <1>2, <1>4 DEF MemOf, LateOf

LEMMA TwoOperationsSeen ==
  ASSUME NEW s, NEW t, s # t, s.left \in 1..4, t.left = 4
  PROVE  MemOf({s, t}) = Phase[s.left] /\ LateOf({s, t}) = TRUE
<1>1. {u.left : u \in {s, t}} = {s.left, 4}
  OBVIOUS
<1>2. Least({s.left, 4}) = s.left
  BY LeastOfTwo
<1>3. Cardinality({s, t}) = 2
  <2>1. Cardinality({s} \cup {t}) = Cardinality({s}) + 1
    BY FS_AddElement, FS_Singleton
  <2>2. Cardinality({s}) = 1
    BY FS_Singleton
  <2>3. {s, t} = {s} \cup {t}
    OBVIOUS
  <2> QED
    BY <2>1, <2>2, <2>3
<1>4. Cardinality({s, t}) > 1
  BY <1>3
<1> QED
  BY <1>1, <1>2, <1>4 DEF MemOf, LateOf

\* Phases are states of CgoCpu.
LEMMA PhaseType == ASSUME NEW n \in 1..4 PROVE Phase[n] \in MemStates \ {"None"}
BY DEF Phase, MemStates

\* At most two operations, one of which has not won yet.
Pair(B) == \E s, t : B \subseteq {s, t} /\ t.left = 4

LEMMA OperationsType ==
  ASSUME NEW B, Pair(B), \A s \in B : s.left \in 1..4
  PROVE  /\ MemOf(B) \in MemStates /\ LateOf(B) \in BOOLEAN
         /\ MemOf(B) = "None" <=> B = {}
         /\ LateOf(B) => B # {}
<1>1. PICK s, t : B \subseteq {s, t} /\ t.left = 4
  BY DEF Pair
<1>2. B = {} \/ (\E u \in B : B = {u}) \/ (B = {s, t} /\ s # t)
  BY <1>1
<1>3. CASE B = {}
  BY <1>3, NoOperation DEF MemStates
<1>4. CASE \E u \in B : B = {u}
  BY <1>4, OneOperationSeen, PhaseType
<1>5. CASE B = {s, t} /\ s # t
  <2>1. s.left \in 1..4
    BY <1>5
  <2>2. MemOf(B) = Phase[s.left] /\ LateOf(B) = TRUE
    BY <1>1, <1>5, <2>1, TwoOperationsSeen
  <2> QED
    BY <1>5, <2>1, <2>2, PhaseType
<1> QED
  BY <1>2, <1>3, <1>4, <1>5

-----------------------------------------------------------------------------
(* Which signal wins the scoreboard.                                        *)

LEMMA Strongest ==
  ASSUME NEW S, SigsTyped(S), NEW w \in S, \A t \in S : t = w \/ Outranks(w, t)
  PROVE  Winner(S) = {w}
<1>1. w \in Winner(S)
  BY DEF Winner
<1> QED
  BY <1>1, OneWinner DEF AtMostOne

\* How strong a signal is.
LEMMA Strength ==
  ASSUME NEW s, SigTyped(s)
  PROVE  /\ Priority[s.reason] \in 10..50 /\ Rank[s.issuer] \in 1..6
         /\ s.reason \in {"exception", "prog_end"} <=> Priority[s.reason] = 50
         /\ s.reason = "MEM_block" <=> Priority[s.reason] = 40
         /\ s.reason = "external_pause" <=> Priority[s.reason] = 30
         /\ s.reason \in {"RAW_resolution", "jump_resolution"} <=> Priority[s.reason] < 30
BY DEF SigTyped, Priority, Rank, Stages

LEMMA ByPriority ==
  ASSUME NEW s, NEW t, Priority[s.reason] > Priority[t.reason]
  PROVE  Outranks(s, t)
BY Zenon DEF Outranks

LEMMA ByRank ==
  ASSUME NEW s, NEW t, Priority[s.reason] = Priority[t.reason], Rank[s.issuer] > Rank[t.issuer]
  PROVE  Outranks(s, t)
BY Zenon DEF Outranks

\* Apart from MEM_block a signal's key is its reason and its issuer.
LEMMA OnlyOne ==
  ASSUME NEW S, SigsTyped(S), NEW s \in S, NEW t \in S,
         s.reason = t.reason, s.issuer = t.issuer, s.reason # "MEM_block"
  PROVE  s = t
<1>1. SigTyped(s) /\ SigTyped(t)
  BY DEF SigsTyped
<1>2. s.line = t.line /\ s.isRead = t.isRead
  BY <1>1 DEF SigTyped
<1> QED
  BY <1>2 DEF SigsTyped, OneEach, SameKey

\* Who raises what.
Issued(s) ==
  /\ s.reason = "exception" => s.issuer \in {"WB", "AGU"}
  /\ s.reason = "prog_end" => s.issuer = "EX"
  /\ s.reason = "external_pause" => s.issuer \in {"IF", "ID", "EX", "AGU"}

LEMMA ExceptionWins ==
  ASSUME NEW S, SigsTyped(S), \A s \in S : Issued(s), \E s \in S : s.reason = "exception"
  PROVE  \E w \in S : w.reason = "exception" /\ Winner(S) = {w}
<1>0. \A s \in S : SigTyped(s)
  BY DEF SigsTyped
<1>1. PICK w \in S : /\ w.reason = "exception"
                     /\ \A t \in S : t.reason = "exception" => t.issuer = w.issuer \/ w.issuer = "WB"
  BY DEF Issued
<1>2. ASSUME NEW t \in S, t # w PROVE Outranks(w, t)
  <2>1. CASE t.reason = "exception"
    <3>1. t.issuer # w.issuer
      BY <1>1, <1>2, <2>1, OnlyOne
    <3>2. w.issuer = "WB" /\ t.issuer = "AGU"
      BY <1>1, <2>1, <3>1 DEF Issued
    <3>3. Rank[w.issuer] > Rank[t.issuer]
      BY <3>2 DEF Rank
    <3> QED
      BY <1>1, <2>1, <3>3, ByRank
  <2>2. CASE t.reason = "prog_end"
    <3>1. w.issuer \in {"WB", "AGU"} /\ t.issuer = "EX"
      BY <1>1, <2>2 DEF Issued
    <3>2. Rank[w.issuer] > Rank[t.issuer]
      BY <3>1 DEF Rank
    <3>3. Priority[w.reason] = Priority[t.reason]
      BY <1>1, <2>2 DEF Priority
    <3> QED
      BY <3>2, <3>3, ByRank
  <2>3. CASE t.reason \notin {"exception", "prog_end"}
    <3>1. Priority[t.reason] \in 10..50 /\ Priority[t.reason] # 50 /\ Priority[w.reason] = 50
      BY <1>0, <1>1, <2>3, Strength
    <3>2. Priority[w.reason] > Priority[t.reason]
      BY <3>1
    <3> QED
      BY <3>2, ByPriority
  <2> QED
    BY <2>1, <2>2, <2>3
<1> QED
  BY <1>1, <1>2, Strongest

LEMMA EndWins ==
  ASSUME NEW S, SigsTyped(S), \A s \in S : Issued(s), \A s \in S : s.reason # "exception",
         NEW w \in EndsOf(S)
  PROVE  Winner(S) = {w} /\ EndsOf(S) = {w}
<1>0. \A s \in S : SigTyped(s)
  BY DEF SigsTyped
<1>1. w \in S /\ w.reason = "prog_end" /\ w.issuer = "EX"
  BY DEF EndsOf, Issued
<1>2. ASSUME NEW t \in EndsOf(S) PROVE t = w
  BY <1>1, OnlyOne DEF EndsOf, Issued
<1>3. ASSUME NEW t \in S, t # w PROVE Outranks(w, t)
  <2>1. t.reason \notin {"exception", "prog_end"}
    BY <1>2, <1>3 DEF EndsOf
  <2>2. Priority[t.reason] \in 10..50 /\ Priority[t.reason] # 50 /\ Priority[w.reason] = 50
    BY <1>0, <1>1, <2>1, Strength
  <2>3. Priority[w.reason] > Priority[t.reason]
    BY <2>2
  <2> QED
    BY <2>3, ByPriority
<1> QED
  BY <1>1, <1>2, <1>3, Strongest

\* Of two operations one is stronger.
LEMMA BlocksRanked ==
  ASSUME NEW S, SigsTyped(S), NEW s \in BlocksOf(S), NEW t \in BlocksOf(S), s # t
  PROVE  Outranks(s, t) \/ Outranks(t, s)
<1>1. SigTyped(s) /\ SigTyped(t) /\ s.reason = "MEM_block" /\ t.reason = "MEM_block"
  BY DEF SigsTyped, BlocksOf
<1>2. /\ s.issuer = t.issuer /\ s.line \in Nat /\ t.line \in Nat
      /\ s.isRead \in BOOLEAN /\ t.isRead \in BOOLEAN
  BY <1>1 DEF SigTyped
<1>3. s.line # t.line \/ s.isRead # t.isRead
  BY <1>1, <1>2 DEF SigsTyped, OneEach, SameKey, BlocksOf
<1>4. s.line > t.line \/ t.line > s.line \/ (s.line = t.line /\ s.isRead # t.isRead)
  BY <1>2, <1>3
<1>5. CASE s.line > t.line
  BY <1>1, <1>2, <1>5, Zenon DEF Outranks
<1>6. CASE t.line > s.line
  BY <1>1, <1>2, <1>6, Zenon DEF Outranks
<1>7. CASE s.line = t.line /\ s.isRead # t.isRead
  <2>1. (s.isRead /\ ~t.isRead) \/ (t.isRead /\ ~s.isRead)
    BY <1>2, <1>7
  <2> QED
    BY <1>1, <1>2, <1>7, <2>1, Zenon DEF Outranks
<1> QED
  BY <1>4, <1>5, <1>6, <1>7

LEMMA BlockWins ==
  ASSUME NEW S, SigsTyped(S), \A s \in S : s.reason \notin {"exception", "prog_end"},
         BlocksOf(S) # {}, Pair(BlocksOf(S))
  PROVE  \E w \in BlocksOf(S) : Winner(S) = {w}
<1>0. \A s \in S : SigTyped(s)
  BY DEF SigsTyped
<1>1. PICK s, t : BlocksOf(S) \subseteq {s, t}
  BY DEF Pair
<1>2. \E w \in BlocksOf(S) : \A u \in BlocksOf(S) : u = w \/ Outranks(w, u)
  BY <1>1, BlocksRanked
<1>3. PICK w \in BlocksOf(S) : \A u \in BlocksOf(S) : u = w \/ Outranks(w, u)
  BY <1>2
<1>4. ASSUME NEW u \in S, u \notin BlocksOf(S) PROVE Outranks(w, u)
  <2>1. u.reason \notin {"exception", "prog_end", "MEM_block"}
    BY <1>4 DEF BlocksOf
  <2>2. w \in S /\ w.reason = "MEM_block"
    BY DEF BlocksOf
  <2>3. /\ Priority[u.reason] \in 10..50 /\ Priority[u.reason] # 50 /\ Priority[u.reason] # 40
        /\ Priority[w.reason] = 40
    BY <1>0, <2>1, <2>2, Strength
  <2>4. Priority[u.reason] < 40
    BY <1>0, <2>1 DEF SigTyped, Priority
  <2>5. Priority[w.reason] > Priority[u.reason]
    BY <2>3, <2>4
  <2> QED
    BY <2>5, ByPriority
<1>5. w \in S
  BY DEF BlocksOf
<1> QED
  BY <1>3, <1>4, <1>5, Strongest

LEMMA PauseWins ==
  ASSUME NEW S, SigsTyped(S), \A s \in S : Issued(s),
         \A s \in S : s.reason \notin {"exception", "prog_end", "MEM_block"},
         NEW w \in S, w.reason = "external_pause", w.issuer = "AGU"
  PROVE  Winner(S) = {w}
<1>0. \A s \in S : SigTyped(s)
  BY DEF SigsTyped
<1>1. ASSUME NEW t \in S, t # w PROVE Outranks(w, t)
  <2>1. CASE t.reason = "external_pause"
    <3>1. t.issuer \in {"IF", "ID", "EX"}
      BY <1>1, <2>1, OnlyOne DEF Issued
    <3>2. Rank[w.issuer] > Rank[t.issuer]
      BY <3>1 DEF Rank
    <3> QED
      BY <2>1, <3>2, ByRank
  <2>2. CASE t.reason # "external_pause"
    <3>1. t.reason \in {"RAW_resolution", "jump_resolution"}
      BY <1>0, <2>2 DEF SigTyped, Priority
    <3>2. Priority[t.reason] \in 10..50 /\ Priority[t.reason] < 30 /\ Priority[w.reason] = 30
      BY <1>0, <3>1, Strength
    <3>3. Priority[w.reason] > Priority[t.reason]
      BY <3>2
    <3> QED
      BY <3>3, ByPriority
  <2> QED
    BY <2>1, <2>2
<1> QED
  BY <1>1, Strongest

-----------------------------------------------------------------------------
(* What the pipeline keeps of what is happening, for CgoCpu to cover it.    *)

\* A latch holds an instruction that writes a register, and nothing to write.
Failed(l) == l # <<>> /\ File(l[1].inst) # "None" /\ l[1].result = {}

HasMem(l) == l # <<>> /\ IsMem(l[1].inst)
IsExit(l) == l # <<>> /\ l[1].inst.op = "EqualExit"

\* The operation in MEM, as the signal that it raises.
OwnBlock == Block(Line(agumem[1].paddr), agumem[1].inst.op \in Loads)

\* Memory operations of which the scoreboard knows, or learns in the next tick.
Operations == Submitted(BlocksOf(sigs), MemSignals)

\* Which signals stay in the scoreboard: exceptions and the end of the program
\* win when they are raised, and a pause lasts as long as it is asked for.
SignalsKept ==
  \A s \in sigs :
    /\ s.reason # "exception" /\ Issued(s)
    /\ s.reason = "external_pause" => cpu.ext_pause_requested
    /\ s.reason = "prog_end" => cpu.prog_end_seen /\ s.left \in 1..2

\* Only a load has nothing to write, and only until it has failed.
ResultsThere ==
  /\ exagu # <<>> /\ exagu[1].inst.op \in AluOps => exagu[1].result # {}
  /\ Failed(agumem) => agumem[1].inst.op \in Loads
  /\ Failed(fwd) => Failed(memwb)

\* What the pause holds has not reached its end.
HeldBeforeEnd == cpu.winner = "external_pause" => ~ExEqual

\* While the program runs the scoreboard knows of one operation: the one in
\* MEM, or the one that has just left it.
OneOperation ==
  ~cpu.prog_end_seen =>
    /\ \A s, t \in BlocksOf(sigs) : s = t
    /\ \A s \in BlocksOf(sigs) :
         \/ s.left \in 2..3 /\ InMem /\ SameKey(s, OwnBlock)
         \/ s.left = 1 /\ agumem = <<>>

\* The exit moves on by one stage in each tick of prog_end, with nothing behind
\* it; when it has arrived in WB the stages before it are empty.  At most one
\* operation has entered MEM since, and its signal has not won yet.
Ending ==
  cpu.prog_end_seen /\ ~cpu.finished =>
    /\ idex = <<>>
    /\ \A s \in EndsOf(sigs) : s.left = 2 => IsExit(exagu)
    /\ \A s \in EndsOf(sigs) : s.left = 1 => exagu = <<>> /\ IsExit(agumem)
    /\ EndsOf(sigs) = {} => exagu = <<>> /\ agumem = <<>> /\ memwb # <<>>
    /\ Pair(Operations)

CoverBody ==
  /\ SignalsKept /\ ResultsThere /\ HeldBeforeEnd /\ OneOperation /\ Ending
  /\ IsFiniteSet(dram) /\ IsFiniteSet(done)

CoverInv == excepted \/ panicked \/ CoverBody

-----------------------------------------------------------------------------
(* What is active in a tick.                                                *)

LEMMA MaskedIs ==
  ASSUME NEW paused, NEW issuer, NEW R, NEW r \in Masked(paused, issuer, R)
  PROVE  r \in R \/ (paused /\ r = Signal("external_pause", issuer))
BY DEF Masked

LEMMA SeriousPasses ==
  ASSUME NEW paused, NEW issuer, NEW reason \in {"exception", "prog_end"}
  PROVE  Masked(paused, issuer, {Signal(reason, issuer)}) = {Signal(reason, issuer)}
<1>1. Serious({Signal(reason, issuer)})
  BY DEF Serious, Signal
<1> QED
  BY <1>1 DEF Masked

LEMMA SignalIs ==
  ASSUME NEW reason, NEW issuer
  PROVE  /\ Signal(reason, issuer).reason = reason /\ Signal(reason, issuer).issuer = issuer
         /\ Signal(reason, issuer).left = Steps[reason]
         /\ Signal(reason, issuer).line = 0 /\ Signal(reason, issuer).isRead = FALSE
BY DEF Signal

LEMMA AguSignalsAre ==
  /\ AguSignals = {} \/ AguSignals = {Signal("RAW_resolution", "AGU")}
       \/ (AguRejects /\ AguSignals = {Signal("exception", "AGU")})
  /\ AguRejects => AguSignals = {Signal("exception", "AGU")}
<1>1. AguRejects => ~AguWaits
  BY DEF AguRejects, AguReady
<1> QED
  BY <1>1, Zenon DEF AguSignals

LEMMA ExSignalsAre ==
  /\ ExSignals = {} \/ ExSignals = {Signal("RAW_resolution", "EX")}
       \/ (ExEqual /\ ExSignals = {Signal("prog_end", "EX")})
  /\ ExEqual => ExSignals = {Signal("prog_end", "EX")}
<1>1. ExEqual => ~ExWaits
  BY DEF ExEqual, ExTests
<1> QED
  BY <1>1, Zenon DEF ExSignals

\* Who raises what, and why.
LEMMA RaisedIs ==
  ASSUME NEW paused \in BOOLEAN, NEW r \in Raised(paused)
  PROVE  /\ Issued(r)
         /\ r.reason = "exception" => WbFails \/ AguRejects
         /\ r.reason = "prog_end" => ExEqual /\ r = Signal("prog_end", "EX")
         /\ r.reason = "external_pause" => paused
         /\ r.reason = "MEM_block" => r \in MemSignals
<1>1. \/ r \in WbSignals \/ r \in MemSignals \/ r \in AguSignals \/ r \in ExSignals \/ r \in IdSignals
      \/ paused /\ \E g \in {"IF", "ID", "EX", "AGU"} : r = Signal("external_pause", g)
  BY MaskedIs DEF Raised
<1>2. CASE r \in WbSignals
  <2>1. WbFails /\ r = Signal("exception", "WB")
    BY <1>2 DEF WbSignals
  <2> QED
    BY <2>1, Zenon DEF Issued, Signal
<1>3. CASE r \in MemSignals
  <2>1. r.reason = "MEM_block"
    BY <1>3 DEF MemSignals, Block
  <2> QED
    BY <1>3, <2>1 DEF Issued
<1>4. CASE r \in AguSignals
  <2>1. r = Signal("RAW_resolution", "AGU") \/ (AguRejects /\ r = Signal("exception", "AGU"))
    BY <1>4, AguSignalsAre
  <2>2. CASE r = Signal("RAW_resolution", "AGU")
    BY <2>2, Zenon DEF Issued, Signal
  <2>3. CASE AguRejects /\ r = Signal("exception", "AGU")
    BY <2>3, Zenon DEF Issued, Signal
  <2> QED
    BY <2>1, <2>2, <2>3
<1>5. CASE r \in ExSignals
  <2>1. r = Signal("RAW_resolution", "EX") \/ (ExEqual /\ r = Signal("prog_end", "EX"))
    BY <1>5, ExSignalsAre
  <2>2. CASE r = Signal("RAW_resolution", "EX")
    BY <2>2, Zenon DEF Issued, Signal
  <2>3. CASE ExEqual /\ r = Signal("prog_end", "EX")
    BY <2>3, Zenon DEF Issued, Signal
  <2> QED
    BY <2>1, <2>2, <2>3
<1>6. CASE r \in IdSignals
  <2>1. r = Signal("jump_resolution", "ID")
    BY <1>6 DEF IdSignals
  <2> QED
    BY <2>1, Zenon DEF Issued, Signal
<1>7. CASE paused /\ \E g \in {"IF", "ID", "EX", "AGU"} : r = Signal("external_pause", g)
  <2>1. PICK g \in {"IF", "ID", "EX", "AGU"} : r = Signal("external_pause", g)
    BY <1>7
  <2>2. r.reason = "external_pause" /\ r.issuer = g
    BY <2>1, Zenon DEF Signal
  <2> QED
    BY <1>7, <2>2 DEF Issued
<1> QED
  BY <1>1, <1>2, <1>3, <1>4, <1>5, <1>6, <1>7

LEMMA RaisedAre ==
  ASSUME NEW paused \in BOOLEAN
  PROVE  /\ WbFails => Signal("exception", "WB") \in Raised(paused)
         /\ AguRejects => Signal("exception", "AGU") \in Raised(paused)
         /\ ExEqual => Signal("prog_end", "EX") \in Raised(paused)
         /\ paused /\ ~AguRejects => Signal("external_pause", "AGU") \in Raised(paused)
         /\ MemSignals \subseteq Raised(paused)
<1>1. WbFails => Signal("exception", "WB") \in WbSignals
  BY DEF WbSignals
<1>2. AguRejects => Signal("exception", "AGU") \in Masked(paused, "AGU", AguSignals)
  BY AguSignalsAre, SeriousPasses
<1>3. ExEqual => Signal("prog_end", "EX") \in Masked(paused, "EX", ExSignals)
  BY ExSignalsAre, SeriousPasses
<1>4. ASSUME paused, ~AguRejects
      PROVE  Signal("external_pause", "AGU") \in Masked(paused, "AGU", AguSignals)
  <2>1. AguSignals = {} \/ AguSignals = {Signal("RAW_resolution", "AGU")}
    BY <1>4, AguSignalsAre
  <2>2. Signal("RAW_resolution", "AGU").reason = "RAW_resolution"
    BY Zenon DEF Signal
  <2>3. ~Serious(AguSignals)
    BY <2>1, <2>2 DEF Serious
  <2> QED
    BY <1>4, <2>3 DEF Masked
<1> QED
  BY <1>1, <1>2, <1>3, <1>4 DEF Raised

\* Whether a pause is asked for in this tick, and what is active in it.
Asked == PrepareResumeTick(cpu).ext_pause_requested
Active == Submitted(SigsBefore, Raised(Asked))

LEMMA ActiveType ==
  ASSUME PipeInv
  PROVE  /\ CpuTyped(PrepareResumeTick(cpu)) /\ Asked \in BOOLEAN
         /\ SigsTyped(Active) /\ AwaitedKeys(Active) = AwaitedKeys(sigs)
<1>1. CpuTyped(PrepareResumeTick(cpu))
  BY PrepareTyped DEF PipeInv
<1>2. Asked \in BOOLEAN
  BY <1>1 DEF CpuTyped, Asked
<1>3. Fresh(Raised(Asked))
  BY <1>2, RaisedFresh DEF PipeInv
<1>4. SigsTyped(SigsBefore) /\ AwaitedKeys(SigsBefore) = AwaitedKeys(sigs)
  BY SigsBeforeType DEF PipeInv
<1> QED
  BY <1>1, <1>2, <1>3, <1>4, SubmittedType, SubmittedAwaits DEF Active

\* The tick may begin with the end of a pause.
LEMMA BeforeIs ==
  ASSUME PipeInv, SignalsKept
  PROVE  /\ SigsBefore \subseteq sigs
         /\ BlocksOf(SigsBefore) = BlocksOf(sigs) /\ EndsOf(SigsBefore) = EndsOf(sigs)
         /\ \A s \in SigsBefore : s.reason = "external_pause" => Asked
<1>1. CASE cpu.resume_delay_pending /\ cpu.ext_signal_delay_remaining = 0
  <2>1. SigsBefore = {s \in sigs : s.reason # "external_pause"}
    BY <1>1 DEF SigsBefore, Cleared
  <2> QED
    BY <2>1 DEF BlocksOf, EndsOf
<1>2. CASE ~(cpu.resume_delay_pending /\ cpu.ext_signal_delay_remaining = 0)
  <2>1. SigsBefore = sigs /\ PrepareResumeTick(cpu) = cpu
    BY <1>2 DEF SigsBefore, PrepareResumeTick
  <2> QED
    BY <2>1 DEF SignalsKept, Asked
<1> QED
  BY <1>1, <1>2

\* A raised signal is active, or another one with its key.
LEMMA SubmittedCovers ==
  ASSUME NEW S, NEW R, NEW r \in R
  PROVE  \E s \in Submitted(S, R) : s.reason = r.reason /\ s.issuer = r.issuer
BY DEF Submitted, SameKey

LEMMA RaisedActive ==
  ASSUME NEW reason, NEW issuer, Signal(reason, issuer) \in Raised(Asked)
  PROVE  \E s \in Active : s.reason = reason /\ s.issuer = issuer
<1>1. \E s \in Active : /\ s.reason = Signal(reason, issuer).reason
                        /\ s.issuer = Signal(reason, issuer).issuer
  BY SubmittedCovers DEF Active
<1>2. Signal(reason, issuer).reason = reason /\ Signal(reason, issuer).issuer = issuer
  BY DEF Signal
<1> QED
  BY <1>1, <1>2, Zenon

LEMMA SubmittedBlocks ==
  ASSUME NEW S, NEW R
  PROVE  BlocksOf(Submitted(S, R)) = Submitted(BlocksOf(S), BlocksOf(R))
<1>1. ASSUME NEW r \in BlocksOf(R)
      PROVE  (\E s \in S : SameKey(r, s)) <=> \E s \in BlocksOf(S) : SameKey(r, s)
  BY DEF BlocksOf, SameKey
<1> QED
  BY <1>1 DEF BlocksOf, Submitted

LEMMA ActiveSignals ==
  ASSUME PipeInv, SignalsKept
  PROVE  /\ \A s \in Active : Issued(s)
         /\ \A s \in Active : s.reason = "exception" => WbFails \/ AguRejects
         /\ \A s \in Active : s.reason = "external_pause" => Asked
         /\ \A s \in EndsOf(Active) :
              s \in EndsOf(sigs) \/ (ExEqual /\ s = Signal("prog_end", "EX"))
<1>1. ASSUME NEW s \in Active
      PROVE  /\ Issued(s)
             /\ s.reason = "exception" => WbFails \/ AguRejects
             /\ s.reason = "external_pause" => Asked
             /\ s.reason = "prog_end" => s \in sigs \/ (ExEqual /\ s = Signal("prog_end", "EX"))
  <2>1. CASE s \in SigsBefore
    BY <2>1, BeforeIs DEF SignalsKept
  <2>2. CASE s \in Raised(Asked)
    BY <2>2, ActiveType, RaisedIs
  <2> QED
    BY <2>1, <2>2 DEF Active, Submitted
<1> QED
  BY <1>1 DEF EndsOf

LEMMA ActiveAre ==
  ASSUME PipeInv, SignalsKept
  PROVE  /\ WbFails \/ AguRejects => \E s \in Active : s.reason = "exception"
         /\ Asked /\ ~AguRejects =>
              \E s \in Active : s.reason = "external_pause" /\ s.issuer = "AGU"
         /\ ExEqual => EndsOf(Active) # {}
         /\ EndsOf(sigs) \subseteq EndsOf(Active)
         /\ BlocksOf(Active) = Operations
<1>0. Asked \in BOOLEAN
  BY ActiveType
<1>1. WbFails => \E s \in Active : s.reason = "exception"
  BY <1>0, RaisedAre, RaisedActive
<1>2. AguRejects => \E s \in Active : s.reason = "exception"
  BY <1>0, RaisedAre, RaisedActive
<1>3. Asked /\ ~AguRejects => \E s \in Active : s.reason = "external_pause" /\ s.issuer = "AGU"
  BY <1>0, RaisedAre, RaisedActive
<1>4. ExEqual => EndsOf(Active) # {}
  <2>1. ExEqual => \E s \in Active : s.reason = "prog_end"
    BY <1>0, RaisedAre, RaisedActive
  <2> QED
    BY <2>1 DEF EndsOf
<1>5. EndsOf(sigs) \subseteq EndsOf(Active)
  BY BeforeIs DEF EndsOf, Active, Submitted
<1>6. BlocksOf(Raised(Asked)) = MemSignals
  <2>1. ASSUME NEW r \in MemSignals PROVE r.reason = "MEM_block"
    BY DEF MemSignals, Block
  <2>2. MemSignals \subseteq Raised(Asked)
    BY <1>0, RaisedAre
  <2>3. ASSUME NEW r \in Raised(Asked), r.reason = "MEM_block" PROVE r \in MemSignals
    BY <1>0, <2>3, RaisedIs
  <2> QED
    BY <2>1, <2>2, <2>3 DEF BlocksOf
<1>7. BlocksOf(Active) = Operations
  BY <1>6, BeforeIs, SubmittedBlocks DEF Active, Operations
<1> QED
  BY <1>1, <1>2, <1>3, <1>4, <1>5, <1>7

-----------------------------------------------------------------------------
(* What the winner makes the stages do.                                     *)

LEMMA DecisionOf ==
  ASSUME NEW w, NEW g \in Stages
  PROVE  /\ g \in Stalled(w) /\ g \notin Flushed(w) => Decision({w})[g] = "Stall"
         /\ g \notin Stalled(w) /\ g \in Flushed(w) => Decision({w})[g] = "Flush"
         /\ g \notin Stalled(w) /\ g \notin Flushed(w) => Decision({w})[g] = "Normal"
<1>1. (\E s \in {w} : g \in Stalled(s)) <=> g \in Stalled(w)
  OBVIOUS
<1>2. (\E s \in {w} : g \in Flushed(s)) <=> g \in Flushed(w)
  OBVIOUS
<1>3. Decision({w})[g] = CASE \E s \in {w} : g \in Stalled(s) -> "Stall"
                          [] \E s \in {w} : g \in Flushed(s) -> "Flush"
                          [] OTHER -> "Normal"
  BY Zenon DEF Decision
<1>4. CASE g \in Stalled(w) /\ g \notin Flushed(w)
  BY <1>1, <1>2, <1>3, <1>4, Zenon
<1>5. CASE g \notin Stalled(w) /\ g \in Flushed(w)
  BY <1>1, <1>2, <1>3, <1>5, Zenon
<1>6. CASE g \notin Stalled(w) /\ g \notin Flushed(w)
  BY <1>1, <1>2, <1>3, <1>6, Zenon
<1> QED
  BY <1>4, <1>5, <1>6

LEMMA StageNames == "IF" \in Stages /\ "ID" \in Stages /\ "EX" \in Stages /\ "AGU" \in Stages
                      /\ "MEM" \in Stages /\ "WB" \in Stages
BY DEF Stages

\* The end of the program lets everything from EX on pass.
LEMMA EndActs ==
  ASSUME NEW w, w.reason = "prog_end", NEW act, act = Decision({w})
  PROVE  /\ act["ID"] = "Flush"
         /\ act["EX"] = "Normal" /\ act["AGU"] = "Normal" /\ act["MEM"] = "Normal" /\ act["WB"] = "Normal"
<1>1. Stalled(w) = {}
  BY Zenon DEF Stalled
<1>2. Flushed(w) = {"IF", "ID"}
  BY Zenon DEF Flushed
<1> QED
  BY <1>1, <1>2, DecisionOf, StageNames

LEMMA PauseActs ==
  ASSUME NEW w, w.reason = "external_pause", NEW act, act = Decision({w})
  PROVE  /\ act["ID"] = "Stall" /\ act["EX"] = "Stall" /\ act["AGU"] = "Stall"
         /\ act["MEM"] = "Stall" /\ act["WB"] = "Stall"
<1>1. Stalled(w) = Stages \ {"IF"}
  BY Zenon DEF Stalled
<1>2. Flushed(w) = {}
  BY Zenon DEF Flushed
<1> QED
  BY <1>1, <1>2, DecisionOf, StageNames

\* An operation holds what is behind it, and in the end WB.
LEMMA BlockActs ==
  ASSUME NEW w, w.reason = "MEM_block", w.left \in 1..4, NEW act, act = Decision({w})
  PROVE  /\ act["ID"] = "Stall" /\ act["EX"] = "Stall"
         /\ w.left \in 3..4 => act["AGU"] = "Stall" /\ act["MEM"] = "Stall" /\ act["WB"] = "Normal"
         /\ w.left = 2 => act["AGU"] = "Stall" /\ act["MEM"] = "Normal" /\ act["WB"] = "Normal"
         /\ w.left = 1 => act["AGU"] = "Normal" /\ act["MEM"] = "Normal" /\ act["WB"] = "Stall"
<1>1. Flushed(w) = {}
  BY Zenon DEF Flushed
<1>2. Stalled(w) = CASE Phase[w.left] \in {"Submit", "Stall"} -> Stages \ {"WB"}
                     [] Phase[w.left] = "WriteBack" -> Stages \ {"MEM", "WB"}
                     [] Phase[w.left] = "Release" -> Stages \ {"AGU", "MEM"}
  BY Zenon DEF Stalled
<1>3. CASE w.left \in 3..4
  <2>1. Phase[w.left] \in {"Submit", "Stall"}
    BY <1>3 DEF Phase
  <2>2. Stalled(w) = Stages \ {"WB"}
    BY <1>2, <2>1, Zenon
  <2>3. act["WB"] = "Normal"
    BY <1>1, <2>2, DecisionOf, StageNames
  <2> QED
    BY <1>1, <1>3, <2>2, <2>3, DecisionOf, StageNames
<1>4. CASE w.left = 2
  <2>1. Phase[w.left] = "WriteBack"
    BY <1>4 DEF Phase
  <2>2. Stalled(w) = Stages \ {"MEM", "WB"}
    BY <1>2, <2>1, Zenon
  <2> QED
    BY <1>1, <1>4, <2>2, DecisionOf, StageNames
<1>5. CASE w.left = 1
  <2>1. Phase[w.left] = "Release"
    BY <1>5 DEF Phase
  <2>2. Stalled(w) = Stages \ {"AGU", "MEM"}
    BY <1>2, <2>1, Zenon
  <2> QED
    BY <1>1, <1>5, <2>2, DecisionOf, StageNames
<1> QED
  BY <1>3, <1>4, <1>5

\* A jump or a wait for a result holds nothing behind EX.
LEMMA QuietActs ==
  ASSUME NEW R, NEW act, act = Decision(R),
         R = {} \/ \E w : R = {w} /\ w.reason \in {"RAW_resolution", "jump_resolution"}
  PROVE  act["AGU"] = "Normal" /\ act["MEM"] = "Normal" /\ act["WB"] = "Normal"
<1>1. CASE R = {}
  <2>1. ASSUME NEW g \in Stages PROVE act[g] = "Normal"
    BY <1>1, Zenon DEF Decision
  <2> QED
    BY <2>1, StageNames
<1>2. CASE \E w : R = {w} /\ w.reason \in {"RAW_resolution", "jump_resolution"}
  <2>1. PICK w : R = {w} /\ w.reason \in {"RAW_resolution", "jump_resolution"}
    BY <1>2
  <2>2. Stalled(w) \subseteq {"IF", "ID", "EX"}
    <3>1. CASE w.reason = "RAW_resolution"
      BY <3>1, Zenon DEF Stalled
    <3>2. CASE w.reason = "jump_resolution"
      BY <3>2, Zenon DEF Stalled
    <3> QED
      BY <2>1, <3>1, <3>2
  <2>3. Flushed(w) \subseteq {"IF"}
    <3>1. CASE w.reason = "RAW_resolution"
      BY <3>1, Zenon DEF Flushed
    <3>2. CASE w.reason = "jump_resolution"
      BY <3>2, Zenon DEF Flushed
    <3> QED
      BY <2>1, <3>1, <3>2
  <2>4. \A g \in {"AGU", "MEM", "WB"} : g \notin Stalled(w) /\ g \notin Flushed(w)
    BY <2>2, <2>3
  <2> QED
    BY <2>1, <2>4, DecisionOf, StageNames
<1> QED
  BY <1>1, <1>2

-----------------------------------------------------------------------------
(* What the stages hand on.                                                 *)

LEMMA ExitIs ==
  ASSUME NEW l, IsExit(l)
  PROVE  l # <<>> /\ ~HasMem(l) /\ l[1].inst.op \notin Moves \cup AluOps \cup Loads \cup Stores
BY DEF IsExit, HasMem, IsMem, Moves, AluOps, Loads, Stores

LEMMA ExNextIs ==
  ASSUME LatchesTyped
  PROVE  /\ ExNext # <<>> =>
              /\ idex # <<>> /\ ExNext[1].inst = idex[1].inst
              /\ ExNext[1].inst.op \in AluOps => ExNext[1].result # {}
         /\ ExEqual => IsExit(ExNext)
         /\ idex = <<>> => ExNext = <<>> /\ ~ExEqual
<1>1. CASE idex = <<>> \/ ExWaits
  BY <1>1 DEF ExNext, ExEqual, ExTests
<1>2. CASE idex # <<>> /\ ~ExWaits
  <2> DEFINE i == idex[1].inst
             result == IF i.op \in AluOps
                       THEN {Alu(i.op, Only(ExVec(i.v1)), Only(ExVec(i.v2)))} ELSE {}
             x == [idex[1] EXCEPT !.result = result]
  <2>1. ExNext = <<x>>
    BY <1>2, Zenon DEF ExNext
  <2>2. i.op \in AluOps => result # {}
    OBVIOUS
  <2> HIDE DEF result
  <2>3. FlightTyped(idex[1])
    BY <1>2 DEF LatchesTyped
  <2>4. x.inst = i /\ x.result = result
    BY <2>3 DEF FlightTyped
  <2>5. ExEqual => i.op = "EqualExit"
    BY DEF ExEqual, ExTests, Tests
  <2> HIDE DEF x
  <2>6. <<x>> # <<>> /\ <<x>>[1] = x
    OBVIOUS
  <2>7. ExNext # <<>> /\ ExNext[1] = x
    BY <2>1, <2>6
  <2> QED
    BY <1>2, <2>2, <2>4, <2>5, <2>7 DEF IsExit
<1> QED
  BY <1>1, <1>2

LEMMA AguNextIs ==
  ASSUME LatchesTyped
  PROVE  /\ AguNext # <<>> =>
              /\ AguReady /\ ~AguRejects /\ exagu # <<>> /\ AguNext[1].inst = exagu[1].inst
              /\ AguNext[1].inst.op \in Moves => AguNext[1].result # {}
              /\ AguNext[1].inst.op \notin Moves => AguNext[1].result = exagu[1].result
         /\ AguReady /\ ~AguRejects => AguNext # <<>>
<1>1. CASE ~AguReady \/ AguRejects
  BY <1>1 DEF AguNext
<1>2. CASE AguReady /\ ~AguRejects
  <2> DEFINE i == AguInst
             result == IF i.op \in Moves THEN MovedPtr(i, Ptr, Vec) ELSE exagu[1].result
             paddr == IF IsMem(i) THEN Translate(Ptr) ELSE 0
             data == CASE i.op = "ST128" -> Vec
                       [] i.op = "FatPtrST" -> Only(AguPtr(i.fd))
                       [] OTHER -> exagu[1].data
             x == [exagu[1] EXCEPT !.result = result, !.paddr = paddr, !.data = data]
  <2>1. exagu # <<>> /\ FlightTyped(exagu[1]) /\ i = exagu[1].inst
    BY <1>2 DEF AguReady, LatchesTyped, AguInst
  <2>2. AguNext = <<x>>
    BY <1>2, Zenon DEF AguNext
  <2>3. i.op \in Moves => result # {}
    <3>1. i.op \in Moves => MovedPtr(i, Ptr, Vec) # {}
      BY <1>2, Zenon DEF AguRejects, Rejects
    <3> QED
      BY <3>1
  <2>4. i.op \notin Moves => result = exagu[1].result
    OBVIOUS
  <2> HIDE DEF result, paddr, data
  <2>5. x.inst = i /\ x.result = result
    BY <2>1 DEF FlightTyped
  <2> HIDE DEF x
  <2>6. <<x>> # <<>> /\ <<x>>[1] = x
    OBVIOUS
  <2>7. AguNext # <<>> /\ AguNext[1] = x
    BY <2>2, <2>6
  <2> QED
    BY <1>2, <2>1, <2>3, <2>4, <2>5, <2>7
<1> QED
  BY <1>1, <1>2

LEMMA AguPasses ==
  ASSUME LatchesTyped, ResultsThere
  PROVE  /\ Failed(AguNext) => AguNext[1].inst.op \in Loads
         /\ HasMem(AguNext) => HasMem(exagu)
         /\ IsExit(exagu) => IsExit(AguNext)
         /\ exagu = <<>> => AguNext = <<>> /\ ~AguWaits
         /\ ~AguWaits /\ ~AguRejects /\ HasMem(exagu) => HasMem(AguNext)
<1>1. ASSUME Failed(AguNext) PROVE AguNext[1].inst.op \in Loads
  <2> DEFINE op == AguNext[1].inst.op
  <2>1. /\ AguNext # <<>> /\ AguNext[1].result = {} /\ op \in AluOps \cup Loads \cup Moves
    BY <1>1 DEF Failed, File, AluOps, Loads, Moves
  <2>2. op \notin Moves
    BY <2>1, AguNextIs
  <2>3. exagu # <<>> /\ exagu[1].inst.op = op /\ exagu[1].result = {}
    BY <2>1, <2>2, AguNextIs
  <2>4. op \notin AluOps
    BY <2>3 DEF ResultsThere
  <2> QED
    BY <2>1, <2>2, <2>4
<1>2. HasMem(AguNext) => HasMem(exagu)
  BY AguNextIs DEF HasMem
<1>3. ASSUME IsExit(exagu) PROVE IsExit(AguNext)
  <2>1. exagu # <<>> /\ exagu[1].inst.op = "EqualExit"
    BY <1>3 DEF IsExit
  <2>2. ~AguWaits
    BY <2>1 DEF AguWaits, IsMem, Loads, Stores, Moves
  <2>3. ~AguRejects
    BY <2>1, Zenon DEF AguRejects, Rejects, IsMem, Loads, Stores, Moves, AguInst
  <2>4. AguNext # <<>>
    BY <2>1, <2>2, <2>3, AguNextIs DEF AguReady
  <2> QED
    BY <2>1, <2>4, AguNextIs DEF IsExit
<1>4. exagu = <<>> => AguNext = <<>> /\ ~AguWaits
  BY AguNextIs DEF AguWaits
<1>5. ~AguWaits /\ ~AguRejects /\ HasMem(exagu) => HasMem(AguNext)
  BY AguNextIs DEF HasMem, AguReady
<1> QED
  BY <1>1, <1>2, <1>3, <1>4, <1>5

\* A bypass has nothing to offer only where an instruction has failed.
LEMMA BypassFails ==
  ASSUME NEW n \in Nat, NEW order, DOMAIN order = 1..n, NEW file \in {"V", "F"}, NEW r, NEW committed,
         Bypass(order, file, r, committed) = {}
  PROVE  \E k \in 1..n : Failed(order[k])
<1> DEFINE hits == {k \in DOMAIN order : Writes(order[k], file, r)}
           first == CHOOSE k \in hits : \A l \in hits : k <= l
<1>1. hits # {}
  BY Zenon DEF Bypass
<1>2. Bypass(order, file, r, committed) = order[first][1].result
  BY <1>1, Zenon DEF Bypass
<1>3. hits \in SUBSET Nat
  OBVIOUS
<1>4. \E k \in hits : \A l \in hits : k <= l
  <2> HIDE DEF hits
  <2> QED
    BY <1>1, <1>3, LeastMember
<1>5. first \in hits
  <2> HIDE DEF hits
  <2> QED
    BY <1>4
<1>6. first \in 1..n /\ Writes(order[first], file, r)
  BY <1>5
<1> HIDE DEF hits, first
<1> QED
  BY <1>2, <1>6 DEF Writes, Failed

\* The AGU waits for nothing but the load in MEM.
LEMMA WaitsForLoad ==
  ASSUME ResultsThere, ~Failed(memwb), AguWaits
  PROVE  InMem
<1> DEFINE order == <<agumem, memwb, fwd>>
<1>1. DOMAIN order = 1..3 /\ 3 \in Nat
  OBVIOUS
<1>2. \E k \in 1..3 : Failed(order[k])
  <2>1. PICK r : \/ AguPtr(r) = {}
                 \/ AguVec(r) = {}
    BY DEF AguWaits
  <2>2. \E file \in {"V", "F"} : \E committed : Bypass(order, file, r, committed) = {}
    <3>1. CASE AguPtr(r) = {}
      BY <3>1 DEF AguPtr
    <3>2. CASE AguVec(r) = {}
      BY <3>2 DEF AguVec
    <3> QED
      BY <2>1, <3>1, <3>2
  <2> HIDE DEF order
  <2> QED
    BY <1>1, <2>2, BypassFails
<1>3. Failed(agumem)
  BY <1>2 DEF ResultsThere
<1> QED
  BY <1>3 DEF Failed, ResultsThere, InMem, IsMem

-----------------------------------------------------------------------------
(* The operations that CgoCpu sees.                                         *)

LEMMA OperationsAre ==
  ASSUME PipeInv
  PROVE  /\ \A s \in Operations : SigTyped(s) /\ s.reason = "MEM_block" /\ s.left \in 1..4
         /\ MemSignals = IF InMem THEN {OwnBlock} ELSE {}
         /\ InMem => OwnBlock.left = 4
<1>1. MemSignals = IF InMem THEN {OwnBlock} ELSE {}
  BY DEF MemSignals, OwnBlock
<1>2. Fresh(MemSignals)
  BY RaisedFresh, RaisedAre DEF PipeInv, Fresh
<1>3. ASSUME NEW s \in MemSignals PROVE s.reason = "MEM_block"
  BY DEF MemSignals, Block
<1>4. ASSUME NEW s \in BlocksOf(sigs) PROVE SigTyped(s) /\ s.reason = "MEM_block"
  BY DEF BlocksOf, PipeInv, SigsTyped
<1>5. ASSUME NEW s \in Operations PROVE SigTyped(s) /\ s.reason = "MEM_block"
  BY <1>2, <1>3, <1>4 DEF Operations, Submitted, Fresh
<1>6. ASSUME NEW s, SigTyped(s), s.reason = "MEM_block" PROVE s.left \in 1..4
  BY <1>6 DEF SigTyped, Steps
<1>7. InMem => OwnBlock.left = 4
  BY DEF OwnBlock, Block, Steps
<1> QED
  BY <1>1, <1>5, <1>6, <1>7

LEMMA PairOf == ASSUME NEW B, B = {} \/ \E s : B = {s} PROVE Pair(B)
<1> DEFINE t == [left |-> 4]
<1>1. t.left = 4
  OBVIOUS
<1> HIDE DEF t
<1>2. \E s : B \subseteq {s, t}
  OBVIOUS
<1> QED
  BY <1>1, <1>2 DEF Pair

\* While the program runs there is one operation, in MEM or past it.
LEMMA OneOperationIs ==
  ASSUME PipeInv, OneOperation, ~cpu.prog_end_seen
  PROVE  \/ Operations = {} /\ ~InMem
         \/ \E w : /\ Operations = {w}
                   /\ \/ w.left \in 2..4 /\ InMem /\ SameKey(w, OwnBlock)
                      \/ w.left = 1 /\ agumem = <<>>
<1>1. CASE BlocksOf(sigs) = {}
  <2>1. Operations = MemSignals
    BY <1>1 DEF Operations, Submitted
  <2>2. CASE InMem
    <3>1. Operations = {OwnBlock} /\ OwnBlock.left \in 2..4
      BY <2>1, <2>2, OperationsAre
    <3> QED
      BY <2>2, <3>1 DEF SameKey
  <2>3. CASE ~InMem
    BY <2>1, <2>3, OperationsAre
  <2> QED
    BY <2>2, <2>3
<1>2. CASE BlocksOf(sigs) # {}
  <2>1. PICK w : BlocksOf(sigs) = {w}
    BY <1>2 DEF OneOperation
  <2>2. \/ w.left \in 2..3 /\ InMem /\ SameKey(w, OwnBlock)
        \/ w.left = 1 /\ agumem = <<>>
    BY <2>1 DEF OneOperation
  <2>3. CASE w.left \in 2..3 /\ InMem /\ SameKey(w, OwnBlock)
    <3>1. SameKey(OwnBlock, w)
      BY <2>3 DEF SameKey
    <3>2. MemSignals = {OwnBlock}
      BY <2>3, OperationsAre
    <3>3. Operations = {w}
      BY <2>1, <3>1, <3>2 DEF Operations, Submitted
    <3> QED
      BY <2>3, <3>3
  <2>4. CASE w.left = 1 /\ agumem = <<>>
    <3>1. MemSignals = {}
      BY <2>4 DEF MemSignals, InMem
    <3>2. Operations = {w}
      BY <2>1, <3>1 DEF Operations, Submitted
    <3> QED
      BY <2>4, <3>2
  <2> QED
    BY <2>2, <2>3, <2>4
<1> QED
  BY <1>1, <1>2

LEMMA OperationsPair ==
  ASSUME PipeInv, OneOperation, Ending, ~cpu.finished
  PROVE  /\ Pair(Operations)
         /\ MemOf(Operations) \in MemStates /\ LateOf(Operations) \in BOOLEAN
         /\ MemOf(Operations) = "None" <=> Operations = {}
         /\ LateOf(Operations) => Operations # {}
<1>1. Pair(Operations)
  <2>1. CASE cpu.prog_end_seen
    BY <2>1 DEF Ending
  <2>2. CASE ~cpu.prog_end_seen
    BY <2>2, OneOperationIs, PairOf
  <2> QED
    BY <2>1, <2>2
<1> QED
  BY <1>1, OperationsAre, OperationsType

LEMMA EndsAre ==
  ASSUME PipeInv, SignalsKept
  PROVE  /\ EndingOf(sigs) \in 0..2
         /\ \/ EndsOf(sigs) = {} /\ EndingOf(sigs) = 0
            \/ \E w : EndsOf(sigs) = {w} /\ w.left \in 1..2 /\ EndingOf(sigs) = w.left
<1>1. CASE EndsOf(sigs) = {}
  BY <1>1, NoEnds
<1>2. CASE EndsOf(sigs) # {}
  <2>1. PICK w : w \in EndsOf(sigs)
    BY <1>2
  <2>2. w.left \in 1..2 /\ w.issuer = "EX"
    BY <2>1 DEF EndsOf, SignalsKept, Issued
  <2>3. SigsTyped(sigs)
    BY DEF PipeInv
  <2>4. ASSUME NEW t \in EndsOf(sigs) PROVE t = w
    BY <2>1, <2>2, <2>3, OnlyOne DEF EndsOf, SignalsKept, Issued
  <2>5. EndsOf(sigs) = {w}
    BY <2>1, <2>4
  <2>6. EndingOf(sigs) = w.left
    BY <2>2, <2>5, OneEnd
  <2> QED
    BY <2>2, <2>5, <2>6
<1> QED
  BY <1>1, <1>2

-----------------------------------------------------------------------------
(* The processor as CgoCpu sees it, before and after a step.                *)

SeenMem == IF cpu.finished THEN "None" ELSE MemOf(Operations)
SeenLate == ~cpu.finished /\ LateOf(Operations)

\* Record c with the latches and the signals of this state.
SeenAs(c) == Viewed(c, EndingOf(sigs), HasMem(exagu), SeenMem, SeenLate)

\* The same of a scoreboard S, signals M that MEM raises, record c and latch l.
ShownAs(S, M, c, l) ==
  LET blocks == Submitted({s \in S : s.reason = "MEM_block"}, M)
      held == blocks # {} /\ ~c.finished
      ends == {s.left : s \in {t \in S : t.reason = "prog_end"}}
  IN [c EXCEPT
        !.winner = IF @ \in Reasons THEN @ ELSE "none",
        !.ending = IF ends = {} THEN 0 ELSE Least(ends),
        !.agu = l # <<>> /\ IsMem(l[1].inst),
        !.mem = IF held THEN Phase[Least({s.left : s \in blocks})] ELSE "None",
        !.late = held /\ Cardinality(blocks) > 1]

LEMMA ShownIs ==
  ASSUME NEW S, NEW M, NEW c, NEW l, NEW B, B = Submitted(BlocksOf(S), M)
  PROVE  ShownAs(S, M, c, l) =
           Viewed(c, EndingOf(S), HasMem(l), IF c.finished THEN "None" ELSE MemOf(B),
                  ~c.finished /\ LateOf(B))
<1> DEFINE held == B # {} /\ ~c.finished
           ends == {s.left : s \in {t \in S : t.reason = "prog_end"}}
           mem1 == IF held THEN Phase[Least({s.left : s \in B})] ELSE "None"
           late1 == held /\ Cardinality(B) > 1
           ending1 == IF ends = {} THEN 0 ELSE Least(ends)
           mem2 == IF c.finished THEN "None" ELSE MemOf(B)
           late2 == ~c.finished /\ LateOf(B)
           shown(m, late, ending) ==
             [c EXCEPT !.winner = IF @ \in Reasons THEN @ ELSE "none", !.ending = ending,
                       !.agu = l # <<>> /\ IsMem(l[1].inst), !.mem = m, !.late = late]
<1>1. ShownAs(S, M, c, l) = shown(mem1, late1, ending1)
  BY Zenon DEF ShownAs, BlocksOf
<1>2. mem1 = mem2
  BY NoOperation DEF MemOf
<1>3. late1 = late2
  <2>1. late1 <=> late2
    <3>1. CASE B = {}
      BY <3>1, NoOperation
    <3>2. CASE B # {}
      BY <3>2 DEF LateOf
    <3> QED
      BY <3>1, <3>2
  <2>2. late1 \in BOOLEAN /\ late2 \in BOOLEAN
    OBVIOUS
  <2> HIDE DEF late1, late2
  <2> QED
    BY <2>1, <2>2
<1>4. ending1 = EndingOf(S)
  <2>1. ends = {} <=> EndsOf(S) = {}
    BY DEF EndsOf
  <2>2. ends = {s.left : s \in EndsOf(S)}
    BY DEF EndsOf
  <2> HIDE DEF ends
  <2> QED
    BY <2>1, <2>2 DEF EndingOf
<1>5. Viewed(c, EndingOf(S), HasMem(l), mem2, late2) = shown(mem2, late2, EndingOf(S))
  BY Zenon DEF Viewed, HasMem, ShownWinner
<1> HIDE DEF mem1, late1, ending1, mem2, late2
<1>6. shown(mem1, late1, ending1) = shown(mem2, late2, EndingOf(S))
  BY <1>2, <1>3, <1>4
<1>7. ShownAs(S, M, c, l) = Viewed(c, EndingOf(S), HasMem(l), mem2, late2)
  BY <1>1, <1>5, <1>6
<1> QED
  BY <1>7 DEF mem2, late2

LEMMA AbstractedIs ==
  /\ Abstracted = SeenAs(cpu)
  /\ Abstracted' = Viewed(cpu', EndingOf(sigs'), HasMem(exagu'), SeenMem', SeenLate')
<1>1. Abstracted = ShownAs(sigs, MemSignals, cpu, exagu)
  BY Zenon DEF Abstracted, ShownAs, Blocks
<1>2. Abstracted = SeenAs(cpu)
  BY <1>1, ShownIs DEF SeenAs, SeenMem, SeenLate, Operations
<1>3. Abstracted' = ShownAs(sigs', MemSignals', cpu', exagu')
  BY Zenon DEF Abstracted, ShownAs, Blocks
<1>4. Operations' = Submitted(BlocksOf(sigs'), MemSignals')
  BY DEF Operations
<1>5. /\ SeenMem' = IF cpu'.finished THEN "None" ELSE MemOf(Operations')
      /\ SeenLate' = (~cpu'.finished /\ LateOf(Operations'))
  BY DEF SeenMem, SeenLate
<1> QED
  BY <1>2, <1>3, <1>4, <1>5, ShownIs

-----------------------------------------------------------------------------
(* A tick that does not unwind.                                             *)

Decided == PrepareResumeTick(cpu)
Won == Winner(Active)
Told == Decision(Won)
Seen == cpu.prog_end_seen \/ WinnerReason(Won) = "prog_end"
Over == Seen /\ exagu' = <<>> /\ agumem' = <<>> /\ memwb' = <<>>

LEMMA DecidedIs ==
  ASSUME PipeInv
  PROVE  /\ CpuTyped(Decided) /\ Decided.ext_pause_requested = Asked
         /\ Decided.prog_end_seen = cpu.prog_end_seen /\ Decided.finished = cpu.finished
         /\ Decided.winner = cpu.winner \/ Decided.winner = "none"
<1>1. CpuTyped(Decided)
  BY ActiveType DEF Decided
<1>2. CpuTyped(cpu)
  BY DEF PipeInv
<1> QED
  BY <1>1, <1>2, ZenonT(60) DEF Decided, Asked, PrepareResumeTick, ClearPause, CpuTyped

LEMMA WonType ==
  ASSUME PipeInv
  PROVE  /\ \/ Won = {} /\ WinnerReason(Won) = "none"
            \/ \E w \in Active : Won = {w} /\ WinnerReason(Won) = w.reason
         /\ WinnerReason(Won) \in DOMAIN Priority \cup {"none"}
         /\ Seen \in BOOLEAN
<1>0. Seen \in BOOLEAN
  BY DEF Seen
<1>1. AtMostOne(Won, Active)
  BY ActiveType, OneWinner DEF Won
<1>2. CASE Won = {}
  BY <1>0, <1>2 DEF WinnerReason
<1>3. CASE \E w \in Active : Won = {w}
  <2>1. PICK w \in Active : Won = {w}
    BY <1>3
  <2>2. Only({w}) = w
    BY DEF Only
  <2>3. WinnerReason(Won) = w.reason
    BY <2>1, <2>2 DEF WinnerReason
  <2>4. w.reason \in DOMAIN Priority
    BY ActiveType DEF SigsTyped, SigTyped
  <2> QED
    BY <1>0, <2>1, <2>3, <2>4
<1> QED
  BY <1>1, <1>2, <1>3 DEF AtMostOne

LEMMA TickIs ==
  ASSUME PipeInv, Tick, ~panicked'
  PROVE  /\ ~cpu.finished /\ Registers(Told) /\ Latch(Told)
         /\ sigs' = After(Active, Won, Takes(Won) # {})
         /\ dram' = dram \cup Sends(Won) /\ done' = done \ Takes(Won)
         /\ cpu' = TickRecord(Decided, WinnerReason(Won), Seen, Over)
         /\ excepted' = (excepted \/ WinnerReason(Won) = "exception")
<1>1. ~Panic
  BY DEF Panic
<1>2. \E d \in {PrepareResumeTick(cpu)} :
      \E active \in {Submitted(SigsBefore, Raised(d.ext_pause_requested))} :
      \E winner \in {Winner(active)} :
      \E act \in {Decision(winner)} : Obey(d, active, winner, act)
  BY <1>1, Zenon DEF Tick
<1>3. Obey(Decided, Active, Won, Told)
  BY <1>2 DEF Decided, Active, Won, Told, Asked
<1>4. /\ Registers(Told) /\ Latch(Told)
      /\ sigs' = After(Active, Won, Takes(Won) # {})
      /\ dram' = dram \cup Sends(Won) /\ done' = done \ Takes(Won)
      /\ cpu' = CpuAfter(Decided, Won)
      /\ excepted' = (excepted \/ WinnerReason(Won) = "exception")
  BY <1>1, <1>3, Zenon DEF Obey
<1>5. CpuAfter(Decided, Won) = TickRecord(Decided, WinnerReason(Won), Seen, Over)
  <2>1. Decided.prog_end_seen = cpu.prog_end_seen
    BY DecidedIs
  <2> QED
    BY <2>1, Zenon DEF CpuAfter, Seen, Over, TickRecord
<1>6. ~cpu.finished
  BY DEF Tick
<1> QED
  BY <1>4, <1>5, <1>6

LEMMA Unexceptional ==
  ASSUME PipeInv, SignalsKept, Tick, ~panicked', ~excepted'
  PROVE  /\ ~WbFails /\ ~AguRejects /\ \A s \in Active : s.reason # "exception"
         /\ ~Failed(memwb)
<1>1. WinnerReason(Won) # "exception"
  BY TickIs
<1>2. \A s \in Active : s.reason # "exception"
  <2>1. SUFFICES ASSUME \E s \in Active : s.reason = "exception" PROVE FALSE
    OBVIOUS
  <2>2. PICK w \in Active : w.reason = "exception" /\ Winner(Active) = {w}
    BY <2>1, ActiveType, ActiveSignals, ExceptionWins
  <2>3. Only({w}) = w
    BY DEF Only
  <2> QED
    BY <1>1, <2>2, <2>3 DEF Won, WinnerReason
<1>3. ~WbFails /\ ~AguRejects
  BY <1>2, ActiveAre
<1> QED
  BY <1>2, <1>3 DEF WbFails, Failed

\* The record after the tick.
LEMMA AfterTick ==
  ASSUME PipeInv, Tick, ~panicked'
  PROVE  /\ cpu'.ext_pause_requested = Asked /\ cpu'.winner = WinnerReason(Won)
         /\ cpu'.prog_end_seen = Seen /\ cpu'.finished = Over
<1> DEFINE e == [Decided EXCEPT !.winner = WinnerReason(Won), !.prog_end_seen = Seen]
           u == UpdateExtsigRdy(e)
<1>1. CpuTyped(e) /\ e.ext_pause_requested = Asked /\ e.winner = WinnerReason(Won)
        /\ e.prog_end_seen = Seen
  BY DecidedIs, WonType DEF CpuTyped
<1> HIDE DEF e
<1>2. /\ u.ext_pause_requested = e.ext_pause_requested /\ u.winner = e.winner
      /\ u.prog_end_seen = e.prog_end_seen
  BY <1>1 DEF UpdateExtsigRdy, CpuTyped
<1>3. CpuTyped(u)
  BY <1>1, ReadyTyped
<1> HIDE DEF u
<1>4. cpu' = [u EXCEPT !.finished = Over]
  BY TickIs, Zenon DEF u, e, TickRecord
<1> QED
  BY <1>1, <1>2, <1>3, <1>4 DEF CpuTyped

\* What is left of the signals is either not the winner or its next step.
LEMMA AfterIs ==
  ASSUME NEW S, SigsTyped(S), NEW R, R \subseteq S, NEW answered, NEW s \in After(S, R, answered)
  PROVE  \/ s \in S \ R
         \/ \E w \in R : /\ s = Advanced(w, answered) /\ s.left > 0
                         /\ s.reason = w.reason /\ s.issuer = w.issuer
                         /\ s.reason # "MEM_block" /\ s.reason # "external_pause" => s.left = w.left - 1
<1>1. CASE s \in S \ R
  BY <1>1
<1>2. CASE s \notin S \ R
  <2>1. PICK w \in R : s = Advanced(w, answered) /\ s.left > 0
    BY <1>2 DEF After
  <2>2. SigTyped(w)
    BY <2>1 DEF SigsTyped
  <2>3. s.reason = w.reason /\ s.issuer = w.issuer
    BY <2>1, <2>2, AdvancedType DEF SameKey
  <2>4. ASSUME w.reason # "MEM_block", w.reason # "external_pause" PROVE s.left = w.left - 1
    <3>1. s = [w EXCEPT !.left = @ - 1]
      BY <2>1, <2>4, Zenon DEF Advanced
    <3> QED
      BY <2>2, <3>1 DEF SigTyped
  <2> QED
    BY <2>1, <2>3, <2>4
<1> QED
  BY <1>1, <1>2

LEMMA SignalsKeptStep ==
  ASSUME PipeInv, SignalsKept, Tick, ~panicked', ~excepted'
  PROVE  SignalsKept'
<1>0. Won \subseteq Active /\ SigsTyped(Active)
  BY ActiveType DEF Won, Winner
<1>1. sigs' = After(Active, Won, Takes(Won) # {})
  BY TickIs
<1>2. /\ \A s \in Active : s.reason # "exception" /\ Issued(s)
      /\ \A s \in Active : s.reason = "external_pause" => Asked
  BY Unexceptional, ActiveSignals
<1>3. cpu'.ext_pause_requested = Asked /\ cpu'.prog_end_seen = Seen
  BY AfterTick
<1>4. ASSUME NEW w \in Active, w.reason = "prog_end" PROVE Won = {w} /\ Seen
  <2>1. w \in EndsOf(Active)
    BY <1>4 DEF EndsOf
  <2>2. Won = {w}
    BY <1>0, <1>2, <2>1, EndWins DEF Won
  <2>3. Only({w}) = w
    BY DEF Only
  <2> QED
    BY <1>4, <2>2, <2>3 DEF Seen, WinnerReason
<1>5. ASSUME NEW s \in sigs'
      PROVE  /\ s.reason # "exception" /\ Issued(s)
             /\ s.reason = "external_pause" => Asked
             /\ s.reason = "prog_end" => Seen /\ s.left \in 1..2
  <2>1. CASE s \in Active \ Won
    BY <1>2, <1>4, <2>1
  <2>2. CASE s \notin Active \ Won
    <3>1. PICK w \in Won : /\ s.left > 0 /\ s.reason = w.reason /\ s.issuer = w.issuer
                           /\ s.reason # "MEM_block" /\ s.reason # "external_pause" => s.left = w.left - 1
      BY <1>0, <1>1, <2>2, AfterIs
    <3>2. w \in Active /\ SigTyped(w)
      BY <1>0, <3>1 DEF SigsTyped
    <3>3. Issued(s)
      BY <1>2, <3>1, <3>2 DEF Issued
    <3>4. ASSUME s.reason = "prog_end" PROVE Seen /\ s.left \in 1..2
      <4>1. w.left \in 1..3
        BY <3>1, <3>2, <3>4 DEF SigTyped, Steps
      <4>2. s.left = w.left - 1
        BY <3>1, <3>4
      <4>3. s.left > 0 /\ w.reason = "prog_end"
        BY <3>1, <3>4
      <4>4. s.left \in 1..2
        BY <4>1, <4>2, <4>3
      <4> QED
        BY <1>4, <3>2, <4>3, <4>4
    <3> QED
      BY <1>2, <3>1, <3>2, <3>3, <3>4
  <2> QED
    BY <2>1, <2>2
<1> QED
  BY <1>3, <1>5 DEF SignalsKept

-----------------------------------------------------------------------------
(* The tick of CgoCpu that a tick of the pipeline is.                       *)

LEMMA SeenType ==
  ASSUME PipeInv, CoverBody, ~cpu.finished, NEW c, CpuTyped(c), c.finished = cpu.finished
  PROVE  /\ SeenAs(c) \in CpuState /\ SameHandshake(SeenAs(c), c)
         /\ SeenAs(c).winner = ShownWinner(c.winner) /\ ~SeenAs(c).finished
         /\ SeenAs(c).prog_end_seen = c.prog_end_seen
         /\ SeenAs(c).ending = EndingOf(sigs) /\ SeenAs(c).agu = HasMem(exagu)
         /\ SeenAs(c).mem = MemOf(Operations) /\ SeenAs(c).late = LateOf(Operations)
         /\ PrepareResumeTick(SeenAs(c)) = SeenAs(PrepareResumeTick(c))
<1>1. SeenMem = MemOf(Operations) /\ SeenLate = LateOf(Operations)
  BY OperationsPair DEF SeenMem, SeenLate, CoverBody
<1>2. SeenMem \in MemStates /\ SeenLate \in BOOLEAN
  BY <1>1, OperationsPair DEF CoverBody
<1>3. EndingOf(sigs) \in 0..2
  BY EndsAre DEF CoverBody
<1>4. HasMem(exagu) \in BOOLEAN
  BY DEF HasMem
<1> QED
  BY <1>1, <1>2, <1>3, <1>4, ViewedType, PrepareSeen DEF SeenAs

LEMMA TickCovered ==
  ASSUME PipeInv, CoverBody, Tick, ~panicked',
         NEW sent, NEW taken,
         Cardinality(dram') = Cardinality(dram) + sent,
         Cardinality(done') = Cardinality(done) - taken,
         SeenMem' \in MemStates, SeenLate' \in BOOLEAN,
         \E o \in Decide(SeenAs(Decided), Cardinality(done)) :
           Leads(o, SeenAs(Decided), ShownWinner(WinnerReason(Won)), Over, Seen,
                 EndingOf(sigs'), HasMem(exagu'), SeenMem', SeenLate', sent, taken)
  PROVE  CoveredStep
<1> DEFINE c == SeenAs(Decided)
           d == Decided
           r == WinnerReason(Won)
<1>1. PICK o \in Decide(c, Cardinality(done)) :
        Leads(o, c, ShownWinner(r), Over, Seen, EndingOf(sigs'), HasMem(exagu'),
              SeenMem', SeenLate', sent, taken)
  OBVIOUS
<1>2. /\ ~cpu.finished /\ CpuTyped(cpu) /\ CpuTyped(d) /\ d.finished = cpu.finished
      /\ r \in DOMAIN Priority \cup {"none"} /\ Seen \in BOOLEAN
  BY TickIs, DecidedIs, WonType DEF PipeInv
<1>3. Over \in BOOLEAN
  BY DEF Over
<1>4. /\ PrepareResumeTick(Abstracted) = c /\ c \in CpuState /\ SameHandshake(c, d) /\ ~c.finished
  BY <1>2, AbstractedIs, SeenType DEF Decided
<1> DEFINE p == [o EXCEPT !.cpu = UpdateExtsigRdy(o.cpu)]
<1>5. p \in TickCpu(Abstracted, Cardinality(done))
  BY <1>1, <1>4, Zenon DEF TickCpu
<1>6. p.cpu = UpdateExtsigRdy(o.cpu) /\ p.sent = sent /\ p.taken = taken
  BY <1>1 DEF Leads
<1>7. Settled(UpdateExtsigRdy(o.cpu)) = Abstracted'
  <2> DEFINE x == o.cpu
  <2>1. /\ x \in CpuState /\ SameHandshake(x, c) /\ x.winner = ShownWinner(r)
        /\ x.finished = Over /\ x.prog_end_seen = Seen /\ Settles(x, SeenMem', SeenLate')
        /\ x.ending = EndingOf(sigs') /\ x.agu = HasMem(exagu')
    BY <1>1 DEF Leads
  <2>2. SameHandshake(x, d)
    BY <1>4, <2>1 DEF SameHandshake
  <2>3. cpu' = TickRecord(d, r, Seen, Over)
    BY TickIs
  <2>4. Abstracted' = Viewed(cpu', EndingOf(sigs'), HasMem(exagu'), SeenMem', SeenLate')
    BY AbstractedIs
  <2> HIDE DEF x, c, d, r
  <2>5. Settled(UpdateExtsigRdy(x)) =
          Viewed(TickRecord(d, r, Seen, Over), x.ending, x.agu, SeenMem', SeenLate')
    BY <1>2, <1>3, <2>1, <2>2, TickMatches
  <2>6. Settled(UpdateExtsigRdy(x)) = Abstracted'
    BY <2>1, <2>3, <2>4, <2>5
  <2> QED
    BY <2>6 DEF x
<1> HIDE DEF p
<1> QED
  BY <1>5, <1>6, <1>7 DEF CoveredStep

-----------------------------------------------------------------------------
(* What every tick has in common.                                           *)

LEMMA ResultsStep ==
  ASSUME LatchesTyped, ResultsThere, ~Failed(memwb),
         exagu' \in {exagu, ExNext, <<>>}, agumem' \in {agumem, AguNext, <<>>},
         fwd' = fwd \/ (fwd' = MemNext /\ memwb' = MemNext)
  PROVE  ResultsThere'
<1>1. exagu' # <<>> /\ exagu'[1].inst.op \in AluOps => exagu'[1].result # {}
  BY ExNextIs DEF ResultsThere
<1>2. Failed(agumem') => agumem'[1].inst.op \in Loads
  <2>1. ~Failed(<<>>)
    BY DEF Failed
  <2>2. CASE agumem' = agumem
    BY <2>2 DEF ResultsThere
  <2>3. CASE agumem' = AguNext
    BY <2>3, AguPasses
  <2> QED
    BY <2>1, <2>2, <2>3
<1>3. Failed(fwd') => Failed(memwb')
  BY DEF ResultsThere
<1> QED
  BY <1>1, <1>2, <1>3 DEF ResultsThere

\* A winner that is not an operation sends and takes nothing.
LEMMA NoRequests ==
  ASSUME NEW R, \A w \in R : w.reason # "MEM_block"
  PROVE  Sends(R) = {} /\ Takes(R) = {}
BY DEF Sends, Takes

\* The operations that the scoreboard knows of, after a step.
LEMMA NextOperations ==
  /\ Operations' = Submitted(BlocksOf(sigs'), MemSignals')
  /\ \/ MemSignals' = {} /\ ~HasMem(agumem')
     \/ HasMem(agumem') /\ \E b : MemSignals' = {b} /\ b.left = 4
<1>1. Operations' = Submitted(BlocksOf(sigs'), MemSignals')
  BY DEF Operations
<1>2. CASE HasMem(agumem')
  <2>1. MemSignals' = {Block(Line(agumem'[1].paddr), agumem'[1].inst.op \in Loads)}
    BY <1>2, Zenon DEF MemSignals, InMem, HasMem
  <2>2. ASSUME NEW n, NEW b PROVE Block(n, b).left = 4
    BY DEF Block, Steps
  <2> QED
    BY <1>1, <1>2, <2>1, <2>2
<1>3. CASE ~HasMem(agumem')
  <2>1. MemSignals' = {}
    BY <1>3, Zenon DEF MemSignals, InMem, HasMem
  <2> QED
    BY <1>1, <1>3, <2>1
<1> QED
  BY <1>2, <1>3

LEMMA SubmittedNone == ASSUME NEW S PROVE Submitted(S, {}) = S
BY DEF Submitted

LEMMA SubmittedOne ==
  ASSUME NEW S, NEW b
  PROVE  Submitted(S, {b}) = S \/ Submitted(S, {b}) = S \cup {b}
BY DEF Submitted

\* The other signals stay.
LEMMA AfterOther ==
  ASSUME NEW S, SigsTyped(S), NEW R, R \subseteq S, \A w \in R : w.reason # "MEM_block", NEW answered
  PROVE  BlocksOf(After(S, R, answered)) = BlocksOf(S)
<1>1. ASSUME NEW s \in BlocksOf(S) PROVE s \in After(S, R, answered)
  <2>1. s \in S \ R /\ s.reason # "RAW_resolution"
    BY DEF BlocksOf
  <2> QED
    BY <2>1 DEF After
<1>2. ASSUME NEW s \in BlocksOf(After(S, R, answered)) PROVE s \in S
  <2>1. s.reason = "MEM_block" /\ s \in After(S, R, answered)
    BY DEF BlocksOf
  <2> QED
    BY <2>1, AfterIs
<1> QED
  BY <1>1, <1>2 DEF BlocksOf

LEMMA AfterNoEnds ==
  ASSUME NEW S, SigsTyped(S), NEW R, R \subseteq S, EndsOf(S) = {}, NEW answered
  PROVE  EndsOf(After(S, R, answered)) = {}
<1>1. ASSUME NEW s \in EndsOf(After(S, R, answered)) PROVE FALSE
  <2>1. s.reason = "prog_end" /\ s \in After(S, R, answered)
    BY DEF EndsOf
  <2>2. \E t \in S : t.reason = "prog_end"
    BY <2>1, AfterIs
  <2> QED
    BY <2>2 DEF EndsOf
<1> QED
  BY <1>1

LEMMA AfterEnd ==
  ASSUME NEW S, SigsTyped(S), NEW w, EndsOf(S) = {w}, NEW answered
  PROVE  /\ w.left = 1 => EndsOf(After(S, {w}, answered)) = {}
         /\ w.left \in 2..3 =>
              \E v : EndsOf(After(S, {w}, answered)) = {v} /\ v.left = w.left - 1
<1> DEFINE v == Advanced(w, answered)
<1>0. w \in S /\ w.reason = "prog_end" /\ SigTyped(w)
  BY DEF EndsOf, SigsTyped
<1>1. v.reason = "prog_end" /\ v.left = w.left - 1
  <2>1. v = [w EXCEPT !.left = @ - 1]
    BY <1>0, Zenon DEF Advanced
  <2> QED
    BY <1>0, <2>1 DEF SigTyped
<1> HIDE DEF v
<1>2. EndsOf(After(S, {w}, answered)) = {s \in {v} : s.left > 0}
  <2>1. After(S, {w}, answered) = {s \in {v} : s.left > 0} \cup {s \in S \ {w} : s.reason # "RAW_resolution"}
    BY Zenon DEF After, v
  <2>2. \A s \in S \ {w} : s.reason # "prog_end"
    BY DEF EndsOf
  <2> QED
    BY <1>1, <2>1, <2>2 DEF EndsOf
<1>3. CASE w.left = 1
  <2>1. ~(v.left > 0)
    BY <1>1, <1>3
  <2>2. {s \in {v} : s.left > 0} = {}
    BY <2>1
  <2> QED
    BY <1>2, <1>3, <2>2
<1>4. CASE w.left \in 2..3
  <2>1. v.left > 0
    BY <1>1, <1>4
  <2>2. {s \in {v} : s.left > 0} = {v}
    BY <2>1
  <2> QED
    BY <1>1, <1>2, <1>4, <2>2
<1> QED
  BY <1>3, <1>4

-----------------------------------------------------------------------------
(* A tick in which the end of the program wins.                             *)

LEMMA EndKind ==
  ASSUME PipeInv, CoverBody, Tick, ~panicked', ~excepted', EndsOf(Active) # {}
  PROVE  \E w : /\ w \in Active /\ Won = {w} /\ EndsOf(Active) = {w} /\ w.reason = "prog_end"
                /\ \/ /\ ~cpu.prog_end_seen /\ ExEqual
                      /\ w.left = 3 /\ EndsOf(sigs) = {} /\ EndingOf(sigs) = 0
                   \/ /\ cpu.prog_end_seen /\ idex = <<>>
                      /\ w.left \in 1..2 /\ EndsOf(sigs) = {w} /\ EndingOf(sigs) = w.left
<1>0. SignalsKept /\ Ending /\ ~cpu.finished /\ LatchesTyped
  BY TickIs DEF CoverBody, PipeInv
<1>1. PICK w : w \in EndsOf(Active)
  OBVIOUS
<1>2. Winner(Active) = {w} /\ EndsOf(Active) = {w}
  BY <1>0, <1>1, ActiveType, ActiveSignals, Unexceptional, EndWins
<1>3. w \in Active /\ w.reason = "prog_end"
  BY <1>1 DEF EndsOf
<1>4. CASE ~cpu.prog_end_seen
  <2>1. EndsOf(sigs) = {}
    BY <1>0, <1>4 DEF EndsOf, SignalsKept
  <2>2. ExEqual /\ w = Signal("prog_end", "EX")
    BY <1>0, <1>1, <2>1, ActiveSignals
  <2>3. w.left = 3
    BY <2>2 DEF Signal, Steps
  <2> QED
    BY <1>2, <1>3, <1>4, <2>1, <2>2, <2>3, NoEnds DEF Won
<1>5. CASE cpu.prog_end_seen
  <2>1. idex = <<>>
    BY <1>0, <1>5 DEF Ending
  <2>2. ~ExEqual
    BY <1>0, <2>1, ExNextIs
  <2>3. w \in EndsOf(sigs)
    BY <1>0, <1>1, <2>2, ActiveSignals
  <2>4. EndsOf(sigs) = {w} /\ w.left \in 1..2 /\ EndingOf(sigs) = w.left
    BY <1>0, <2>3, EndsAre
  <2> QED
    BY <1>2, <1>3, <1>5, <2>1, <2>4 DEF Won
<1> QED
  BY <1>4, <1>5

LEMMA EndLatches ==
  ASSUME PipeInv, Tick, ~panicked', NEW w, Won = {w}, w.reason = "prog_end"
  PROVE  /\ idex' = <<>> /\ exagu' = ExNext /\ agumem' = AguNext /\ memwb' = MemNext
         /\ fwd' = fwd \/ fwd' = MemNext
<1>1. Latch(Told)
  BY TickIs
<1>2. /\ Told["ID"] = "Flush" /\ Told["EX"] = "Normal" /\ Told["AGU"] = "Normal"
      /\ Told["MEM"] = "Normal" /\ Told["WB"] = "Normal"
  BY EndActs DEF Told
<1> QED
  BY <1>1, <1>2 DEF Latch, Latched

\* The operation in AGU moves on; its signal is new or repeats the other's.
LEMMA EndOperations ==
  ASSUME PipeInv, CoverBody, ~cpu.finished, ~AguRejects, ~Failed(memwb),
         agumem' = AguNext, BlocksOf(sigs') = Operations,
         HasMem(exagu) => ~cpu.prog_end_seen
  PROVE  /\ Pair(Operations') /\ MemOf(Operations') \in MemStates /\ LateOf(Operations') \in BOOLEAN
         /\ ~(LateOf(Operations') /\ MemOf(Operations') = "None")
         /\ \/ /\ ~HasMem(exagu) /\ MemOf(Operations') = MemOf(Operations)
               /\ LateOf(Operations') = LateOf(Operations)
            \/ /\ HasMem(exagu) /\ MemOf(Operations) = "None" /\ MemOf(Operations') = "Submit"
               /\ LateOf(Operations') = LateOf(Operations)
            \/ /\ HasMem(exagu) /\ MemOf(Operations) # "None"
               /\ MemOf(Operations') = MemOf(Operations)
<1>0. LatchesTyped /\ ResultsThere /\ OneOperation /\ Ending
  BY DEF PipeInv, CoverBody
<1>1. /\ Pair(Operations) /\ MemOf(Operations) \in MemStates /\ LateOf(Operations) \in BOOLEAN
      /\ MemOf(Operations) = "None" <=> Operations = {}
      /\ LateOf(Operations) => Operations # {}
  BY <1>0, OperationsPair
<1>2. Operations' = Submitted(Operations, MemSignals')
  BY NextOperations
<1>3. CASE MemSignals' = {}
  <2>1. Operations' = Operations
    BY <1>2, <1>3, SubmittedNone
  <2>2. HasMem(exagu) => Operations # {}
    <3>1. SUFFICES ASSUME HasMem(exagu) PROVE Operations # {}
      OBVIOUS
    <3>2. ~HasMem(agumem')
      BY <1>3, NextOperations
    <3>3. AguWaits
      BY <1>0, <3>1, <3>2, AguPasses
    <3>4. InMem
      BY <1>0, <3>3, WaitsForLoad
    <3>5. MemSignals # {}
      BY <3>4, OperationsAre
    <3> QED
      BY <3>5 DEF Operations, Submitted
  <2> QED
    BY <1>1, <2>1, <2>2
<1>4. CASE MemSignals' # {}
  <2>1. PICK b : MemSignals' = {b} /\ b.left = 4 /\ HasMem(agumem')
    BY <1>4, NextOperations
  <2>2. HasMem(exagu)
    BY <1>0, <2>1, AguPasses
  <2>3. ~cpu.prog_end_seen
    BY <2>2
  <2>4. CASE Operations = {}
    <3>1. Operations' = {b}
      BY <1>2, <2>1, <2>4 DEF Submitted
    <3>2. MemOf({b}) = "Submit" /\ LateOf({b}) = FALSE
      <4>1. b.left \in 1..4
        BY <2>1
      <4>2. MemOf({b}) = Phase[b.left] /\ LateOf({b}) = FALSE
        BY <4>1, OneOperationSeen
      <4>3. Phase[4] = "Submit"
        BY DEF Phase
      <4> QED
        BY <2>1, <4>2, <4>3
    <3>3. MemOf(Operations) = "None" /\ LateOf(Operations) = FALSE
      BY <2>4, NoOperation
    <3>4. Pair({b})
      BY PairOf
    <3>5. "Submit" \in MemStates /\ "Submit" # "None"
      BY DEF MemStates
    <3> QED
      BY <2>2, <3>1, <3>2, <3>3, <3>4, <3>5
  <2>5. CASE Operations # {}
    <3>1. PICK u : Operations = {u}
      BY <1>0, <2>3, <2>5, OneOperationIs
    <3>2. u.left \in 1..4
      BY <3>1, OperationsAre
    <3>3. MemOf(Operations) = Phase[u.left] /\ MemOf(Operations) # "None"
      BY <2>5, <3>1, <3>2, OneOperationSeen, <1>1
    <3>4. Operations' = {u} \/ (Operations' = {u, b} /\ u # b)
      <4>1. Operations' = Submitted({u}, {b})
        BY <1>2, <2>1, <3>1
      <4>2. Submitted({u}, {b}) = {u} \/ Submitted({u}, {b}) = {u} \cup {b}
        BY SubmittedOne
      <4>3. {u} \cup {b} = {u, b} /\ (u = b => {u, b} = {u})
        OBVIOUS
      <4> QED
        BY <4>1, <4>2, <4>3
    <3>5. Pair(Operations')
      <4>1. Operations' \subseteq {u, b} /\ b.left = 4
        BY <2>1, <3>4
      <4> QED
        BY <4>1, Zenon DEF Pair
    <3>6. MemOf(Operations') = Phase[u.left] /\ LateOf(Operations') \in BOOLEAN
      <4>1. CASE Operations' = {u}
        BY <3>2, <4>1, OneOperationSeen
      <4>2. CASE Operations' = {u, b} /\ u # b
        <5>1. MemOf({u, b}) = Phase[u.left] /\ LateOf({u, b}) = TRUE
          BY <2>1, <3>2, <4>2, TwoOperationsSeen
        <5> QED
          BY <4>2, <5>1
      <4> QED
        BY <3>4, <4>1, <4>2
    <3> QED
      BY <1>1, <2>2, <3>3, <3>5, <3>6
  <2> QED
    BY <2>4, <2>5
<1> QED
  BY <1>3, <1>4

\* Where the exit is after the tick, and how many ticks it has left.
LEMMA EndPlaces ==
  ASSUME PipeInv, CoverBody, Tick, ~panicked', ~excepted', EndsOf(Active) # {}
  PROVE  /\ idex' = <<>> /\ ~HasMem(exagu') /\ ~Over /\ (HasMem(exagu) => ~cpu.prog_end_seen)
         /\ \A s \in EndsOf(sigs') : s.left = 2 => IsExit(exagu')
         /\ \A s \in EndsOf(sigs') : s.left = 1 => exagu' = <<>> /\ IsExit(agumem')
         /\ EndsOf(sigs') = {} => exagu' = <<>> /\ agumem' = <<>> /\ memwb' # <<>>
         /\ EndingOf(sigs') = IF cpu.prog_end_seen THEN EndingOf(sigs) - 1 ELSE 2
         /\ cpu.prog_end_seen => EndingOf(sigs) > 0
<1>0. SignalsKept /\ ResultsThere /\ Ending /\ ~cpu.finished /\ LatchesTyped /\ SigsTyped(Active)
  BY TickIs, ActiveType DEF CoverBody, PipeInv
<1>1. PICK w : /\ w \in Active /\ Won = {w} /\ EndsOf(Active) = {w} /\ w.reason = "prog_end"
               /\ \/ /\ ~cpu.prog_end_seen /\ ExEqual
                     /\ w.left = 3 /\ EndsOf(sigs) = {} /\ EndingOf(sigs) = 0
                  \/ /\ cpu.prog_end_seen /\ idex = <<>>
                     /\ w.left \in 1..2 /\ EndsOf(sigs) = {w} /\ EndingOf(sigs) = w.left
  BY EndKind
<1>2. idex' = <<>> /\ exagu' = ExNext /\ agumem' = AguNext /\ memwb' = MemNext
  BY <1>1, EndLatches
<1>3. sigs' = After(Active, {w}, Takes({w}) # {})
  BY <1>1, TickIs
<1>4. /\ w.left = 1 => EndsOf(sigs') = {}
      /\ w.left \in 2..3 => \E v : EndsOf(sigs') = {v} /\ v.left = w.left - 1
  BY <1>0, <1>1, <1>3, AfterEnd
<1>5. CASE ~cpu.prog_end_seen
  <2>1. IsExit(exagu')
    BY <1>0, <1>1, <1>2, <1>5, ExNextIs
  <2>2. PICK v : EndsOf(sigs') = {v} /\ v.left = 2
    BY <1>1, <1>4, <1>5
  <2>3. EndingOf(sigs') = 2
    BY <2>2, OneEnd
  <2>4. exagu' # <<>> /\ ~HasMem(exagu')
    BY <2>1, ExitIs
  <2> QED
    BY <1>2, <1>5, <2>1, <2>2, <2>3, <2>4 DEF Over
<1>6. CASE cpu.prog_end_seen /\ w.left = 2
  <2>1. exagu' = <<>>
    BY <1>0, <1>1, <1>2, <1>6, ExNextIs
  <2>2. IsExit(exagu)
    BY <1>0, <1>1, <1>6 DEF Ending
  <2>3. IsExit(agumem')
    BY <1>0, <1>2, <2>2, AguPasses
  <2>4. PICK v : EndsOf(sigs') = {v} /\ v.left = 1
    BY <1>4, <1>6
  <2>5. EndingOf(sigs') = 1 /\ EndingOf(sigs) = 2
    BY <1>1, <1>6, <2>4, OneEnd
  <2>6. agumem' # <<>> /\ ~HasMem(exagu)
    BY <2>2, <2>3, ExitIs
  <2>7. ~HasMem(exagu')
    BY <2>1 DEF HasMem
  <2> QED
    BY <1>2, <1>6, <2>1, <2>3, <2>4, <2>5, <2>6, <2>7 DEF Over
<1>7. CASE cpu.prog_end_seen /\ w.left = 1
  <2>1. exagu = <<>> /\ IsExit(agumem)
    BY <1>0, <1>1, <1>7 DEF Ending
  <2>2. exagu' = <<>> /\ agumem' = <<>>
    BY <1>0, <1>1, <1>2, <1>7, <2>1, ExNextIs, AguPasses
  <2>3. memwb' # <<>>
    <3>1. agumem # <<>>
      BY <2>1, ExitIs
    <3> QED
      BY <1>2, <3>1 DEF MemNext
  <2>4. EndsOf(sigs') = {} /\ EndingOf(sigs') = 0 /\ EndingOf(sigs) = 1
    BY <1>1, <1>4, <1>7, NoEnds
  <2>5. ~HasMem(exagu') /\ ~HasMem(exagu)
    BY <2>1, <2>2 DEF HasMem
  <2> QED
    BY <1>2, <1>7, <2>2, <2>3, <2>4, <2>5 DEF Over
<1>8. cpu.prog_end_seen => w.left = 1 \/ w.left = 2
  BY <1>1
<1> QED
  BY <1>5, <1>6, <1>7, <1>8

LEMMA OnlyOf == ASSUME NEW w PROVE Only({w}) = w
BY DEF Only

LEMMA SeenAfter ==
  ASSUME PipeInv, Tick, ~panicked'
  PROVE  /\ Over => SeenMem' = "None" /\ SeenLate' = FALSE
         /\ ~Over => SeenMem' = MemOf(Operations') /\ SeenLate' = (TRUE /\ LateOf(Operations'))
<1>1. cpu'.finished = Over
  BY AfterTick
<1>2. /\ SeenMem' = IF cpu'.finished THEN "None" ELSE MemOf(Operations')
      /\ SeenLate' = (~cpu'.finished /\ LateOf(Operations'))
  BY DEF SeenMem, SeenLate
<1> QED
  BY <1>1, <1>2

LEMMA EndStep ==
  ASSUME CanFinish, PipeInv, CoverBody, Tick, ~panicked', ~excepted', EndsOf(Active) # {}
  PROVE  CoverBody' /\ CoveredStep
<1> DEFINE c == SeenAs(Decided)
<1>0. /\ SignalsKept /\ ResultsThere /\ HeldBeforeEnd /\ ~cpu.finished /\ LatchesTyped
      /\ SigsTyped(Active) /\ CpuTyped(cpu) /\ IsFiniteSet(dram) /\ IsFiniteSet(done)
  BY TickIs, ActiveType DEF CoverBody, PipeInv
<1>1. PICK w : /\ w \in Active /\ Won = {w} /\ w.reason = "prog_end"
               /\ cpu.prog_end_seen \/ (ExEqual /\ EndingOf(sigs) = 0)
  BY EndKind
<1>2. /\ exagu' = ExNext /\ agumem' = AguNext /\ memwb' = MemNext
      /\ fwd' = fwd \/ fwd' = MemNext
  BY <1>1, EndLatches
<1>3. WinnerReason(Won) = "prog_end" /\ Seen = TRUE /\ cpu'.prog_end_seen = TRUE
        /\ cpu'.winner = "prog_end"
  <2>1. WinnerReason(Won) = "prog_end"
    BY <1>1, OnlyOf DEF WinnerReason
  <2> QED
    BY <2>1, AfterTick DEF Seen
<1>4. dram' = dram /\ done' = done /\ BlocksOf(sigs') = Operations
  <2>1. Sends(Won) = {} /\ Takes(Won) = {}
    BY <1>1, NoRequests
  <2>2. BlocksOf(sigs') = BlocksOf(Active)
    BY <1>0, <1>1, TickIs, AfterOther
  <2> QED
    BY <1>0, <2>1, <2>2, TickIs, ActiveAre
<1>5. ~AguRejects /\ ~Failed(memwb)
  BY <1>0, Unexceptional
<1>6. /\ Pair(Operations') /\ MemOf(Operations') \in MemStates /\ LateOf(Operations') \in BOOLEAN
      /\ ~(LateOf(Operations') /\ MemOf(Operations') = "None")
      /\ \/ /\ ~HasMem(exagu) /\ MemOf(Operations') = MemOf(Operations)
            /\ LateOf(Operations') = LateOf(Operations)
         \/ /\ HasMem(exagu) /\ MemOf(Operations) = "None" /\ MemOf(Operations') = "Submit"
            /\ LateOf(Operations') = LateOf(Operations)
         \/ /\ HasMem(exagu) /\ MemOf(Operations) # "None"
            /\ MemOf(Operations') = MemOf(Operations)
  BY <1>0, <1>2, <1>4, <1>5, EndPlaces, EndOperations
<1>7. CoverBody'
  <2>1. SignalsKept'
    BY <1>0, SignalsKeptStep
  <2>2. ResultsThere'
    BY <1>0, <1>2, <1>5, ResultsStep
  <2>3. HeldBeforeEnd' /\ OneOperation'
    BY <1>3 DEF HeldBeforeEnd, OneOperation
  <2>4. Ending'
    BY <1>6, EndPlaces DEF Ending
  <2> QED
    BY <1>0, <1>4, <2>1, <2>2, <2>3, <2>4 DEF CoverBody
<1>8. /\ c \in CpuState /\ ~c.finished /\ c.winner = ShownWinner(Decided.winner)
      /\ c.prog_end_seen = cpu.prog_end_seen /\ c.ending = EndingOf(sigs) /\ c.agu = HasMem(exagu)
      /\ c.mem = MemOf(Operations) /\ c.late = LateOf(Operations)
  BY <1>0, DecidedIs, SeenType
<1> HIDE DEF c
<1>9. /\ c.ending > 0 \/ MayRaiseEnd(c)
      /\ c.ending > 0 \/ ~c.prog_end_seen
  <2>1. CASE cpu.prog_end_seen
    BY <1>8, <2>1, EndPlaces
  <2>2. CASE ~cpu.prog_end_seen
    <3>1. Decided.winner # "external_pause"
      BY <1>0, <1>1, <2>2, DecidedIs DEF HeldBeforeEnd
    <3>2. c.winner # "external_pause"
      BY <1>8, <3>1, ShownReasons
    <3> QED
      BY <1>8, <2>2, <3>2 DEF MayRaiseEnd, Held
  <2> QED
    BY <2>1, <2>2
<1>10. \E o \in Decide(c, Cardinality(done)) :
         Leads(o, c, "prog_end", FALSE, TRUE, IF c.prog_end_seen THEN c.ending - 1 ELSE 2,
               FALSE, MemOf(Operations'), LateOf(Operations'), 0, 0)
  BY <1>6, <1>8, <1>9, EndCase
<1>11. /\ ShownWinner(WinnerReason(Won)) = "prog_end" /\ Over = FALSE
       /\ EndingOf(sigs') = (IF c.prog_end_seen THEN c.ending - 1 ELSE 2)
       /\ HasMem(exagu') = FALSE /\ SeenMem' = MemOf(Operations') /\ SeenLate' = LateOf(Operations')
  BY <1>3, <1>6, <1>8, EndPlaces, SeenAfter DEF ShownWinner, Reasons, Over, HasMem
<1>12. /\ Cardinality(dram') = Cardinality(dram) + 0 /\ Cardinality(done') = Cardinality(done) - 0
  BY <1>0, <1>4, FS_CardinalityType
<1>13. CoveredStep
  BY <1>3, <1>6, <1>10, <1>11, <1>12, TickCovered DEF c
<1> QED
  BY <1>7, <1>13

-----------------------------------------------------------------------------
(* A tick in which the program does not end.                                *)

LEMMA CalmIs ==
  ASSUME PipeInv, CoverBody, Tick, ~panicked', ~excepted', EndsOf(Active) = {}
  PROVE  /\ EndsOf(sigs) = {} /\ EndingOf(sigs) = 0 /\ ~ExEqual
         /\ EndsOf(sigs') = {} /\ EndingOf(sigs') = 0
         /\ WinnerReason(Won) \notin {"prog_end", "exception"} /\ Seen = cpu.prog_end_seen
         /\ \A s \in Active : s.reason \notin {"exception", "prog_end"}
         /\ cpu.prog_end_seen => idex = <<>> /\ exagu = <<>> /\ agumem = <<>> /\ memwb # <<>>
<1>0. SignalsKept /\ Ending /\ ~cpu.finished /\ SigsTyped(Active) /\ Won \subseteq Active
  BY TickIs, ActiveType DEF CoverBody, Won, Winner
<1>1. EndsOf(sigs) = {} /\ EndingOf(sigs) = 0 /\ ~ExEqual
  BY <1>0, ActiveAre, NoEnds
<1>2. EndsOf(sigs') = {} /\ EndingOf(sigs') = 0
  BY <1>0, TickIs, AfterNoEnds, NoEnds
<1>3. \A s \in Active : s.reason \notin {"exception", "prog_end"}
  BY <1>0, Unexceptional DEF EndsOf
<1>4. WinnerReason(Won) \notin {"prog_end", "exception"}
  BY <1>3, WonType
<1>5. Seen = cpu.prog_end_seen
  <2>1. cpu.prog_end_seen \in BOOLEAN
    BY DEF PipeInv, CpuTyped
  <2> QED
    BY <1>4, <2>1 DEF Seen
<1>6. cpu.prog_end_seen => idex = <<>> /\ exagu = <<>> /\ agumem = <<>> /\ memwb # <<>>
  BY <1>0, <1>1 DEF Ending
<1> QED
  BY <1>1, <1>2, <1>3, <1>4, <1>5, <1>6

-----------------------------------------------------------------------------
(* A tick in which the pause wins: everything from ID on is held.           *)

LEMMA HeldLatches ==
  ASSUME PipeInv, Tick, ~panicked', NEW w, Won = {w}, w.reason = "external_pause"
  PROVE  /\ UNCHANGED <<idex, exagu, agumem, memwb, fwd, vrf, frf>>
         /\ ExEqual' <=> ExEqual
<1>1. Latch(Told) /\ Registers(Told)
  BY TickIs
<1>2. /\ Told["ID"] = "Stall" /\ Told["EX"] = "Stall" /\ Told["AGU"] = "Stall"
      /\ Told["MEM"] = "Stall" /\ Told["WB"] = "Stall"
  BY PauseActs DEF Told
<1>3. UNCHANGED <<idex, exagu, agumem, memwb, fwd, vrf, frf>>
  BY <1>1, <1>2 DEF Latch, Latched, Registers
<1>4. ExEqual' <=> ExEqual
  BY <1>3 DEF ExEqual, ExTests, ExWaits, ExVec
<1> QED
  BY <1>3, <1>4

LEMMA HeldStep ==
  ASSUME PipeInv, CoverBody, Tick, ~panicked', ~excepted',
         EndsOf(Active) = {}, Operations = {}, Asked
  PROVE  CoverBody' /\ CoveredStep
<1> DEFINE c == SeenAs(Decided)
<1>0. /\ SignalsKept /\ ResultsThere /\ Ending /\ ~cpu.finished /\ LatchesTyped
      /\ SigsTyped(Active) /\ CpuTyped(cpu) /\ IsFiniteSet(dram) /\ IsFiniteSet(done)
      /\ ~AguRejects /\ ~Failed(memwb)
  BY TickIs, ActiveType, Unexceptional DEF CoverBody, PipeInv
<1>1. PICK w \in Active : Won = {w} /\ w.reason = "external_pause"
  <2>1. PICK w \in Active : w.reason = "external_pause" /\ w.issuer = "AGU"
    BY <1>0, ActiveAre
  <2>2. \A s \in Active : s.reason \notin {"exception", "prog_end", "MEM_block"}
    BY <1>0, CalmIs, ActiveAre DEF BlocksOf
  <2> QED
    BY <1>0, <2>1, <2>2, ActiveSignals, PauseWins DEF Won
<1>2. UNCHANGED <<idex, exagu, agumem, memwb, fwd, vrf, frf>> /\ ~ExEqual'
  BY <1>1, HeldLatches, CalmIs
<1>3. /\ WinnerReason(Won) = "external_pause"
      /\ cpu'.prog_end_seen = cpu.prog_end_seen
  BY <1>1, OnlyOf, AfterTick, CalmIs DEF WinnerReason
<1>4. dram' = dram /\ done' = done /\ BlocksOf(sigs') = {}
  <2>1. Sends(Won) = {} /\ Takes(Won) = {}
    BY <1>1, NoRequests
  <2>2. BlocksOf(sigs') = BlocksOf(Active)
    BY <1>0, <1>1, TickIs, AfterOther
  <2> QED
    BY <1>0, <2>1, <2>2, TickIs, ActiveAre
<1>5. Operations' = {}
  <2>1. ~HasMem(agumem')
    <3>1. MemSignals = {}
      BY DEF Operations, Submitted
    <3>2. ~InMem
      BY <3>1, OperationsAre
    <3> QED
      BY <1>2, <3>2 DEF InMem, HasMem
  <2> QED
    BY <1>4, <2>1, NextOperations, SubmittedNone
<1>6. CoverBody'
  <2>1. SignalsKept'
    BY <1>0, SignalsKeptStep
  <2>2. ResultsThere'
    BY <1>0, <1>2, ResultsStep
  <2>3. HeldBeforeEnd' /\ OneOperation'
    BY <1>2, <1>4 DEF HeldBeforeEnd, OneOperation, BlocksOf
  <2>4. Ending'
    BY <1>2, <1>3, <1>5, CalmIs, PairOf DEF Ending
  <2> QED
    BY <1>0, <1>4, <2>1, <2>2, <2>3, <2>4 DEF CoverBody
<1>7. /\ c \in CpuState /\ ~c.finished /\ c.ext_pause_requested
      /\ c.prog_end_seen = cpu.prog_end_seen /\ c.ending = 0 /\ c.agu = HasMem(exagu)
      /\ c.mem = "None" /\ c.late = FALSE
  BY <1>0, DecidedIs, SeenType, CalmIs, NoOperation DEF SameHandshake
<1> HIDE DEF c
<1>8. \E o \in Decide(c, Cardinality(done)) :
        Leads(o, c, "external_pause", FALSE, c.prog_end_seen, 0, c.agu, "None", FALSE, 0, 0)
  BY <1>7, PauseCase
<1>9. Over = FALSE
  BY <1>2, CalmIs DEF Over
<1>10. /\ ShownWinner(WinnerReason(Won)) = "external_pause" /\ Seen = c.prog_end_seen
       /\ EndingOf(sigs') = 0 /\ HasMem(exagu') = c.agu
       /\ SeenMem' = "None" /\ SeenLate' = FALSE
  <2>1. ShownWinner("external_pause") = "external_pause"
    BY DEF ShownWinner, Reasons
  <2>2. SeenMem' = "None" /\ SeenLate' = FALSE
    BY <1>5, <1>9, SeenAfter, NoOperation
  <2> QED
    BY <1>2, <1>3, <1>7, <2>1, <2>2, CalmIs
<1>11. /\ Cardinality(dram') = Cardinality(dram) + 0 /\ Cardinality(done') = Cardinality(done) - 0
  BY <1>0, <1>4, FS_CardinalityType
<1>12. "None" \in MemStates /\ FALSE \in BOOLEAN
  BY DEF MemStates
<1>13. CoveredStep
  BY <1>8, <1>9, <1>10, <1>11, <1>12, TickCovered DEF c
<1> QED
  BY <1>6, <1>13

-----------------------------------------------------------------------------
(* A tick in which nothing holds MEM: what is past EX moves on.             *)

LEMMA QuietLatches ==
  ASSUME PipeInv, CoverBody, Tick, ~panicked', ~excepted',
         EndsOf(Active) = {}, Operations = {}, ~Asked
  PROVE  /\ WinnerReason(Won) \in {"none", "RAW_resolution", "jump_resolution"}
         /\ \A w \in Won : w.reason # "MEM_block"
         /\ exagu' \in {ExNext, <<>>} /\ agumem' = AguNext /\ memwb' = MemNext
         /\ fwd' = fwd \/ fwd' = MemNext
<1>0. SignalsKept /\ ~cpu.finished
  BY TickIs DEF CoverBody
<1>1. ASSUME NEW w \in Active PROVE w.reason \in {"RAW_resolution", "jump_resolution"}
  <2>1. w.reason \notin {"exception", "prog_end", "MEM_block", "external_pause"}
    BY <1>0, CalmIs, ActiveAre, ActiveSignals DEF BlocksOf
  <2>2. w.reason \in DOMAIN Priority
    BY ActiveType DEF SigsTyped, SigTyped
  <2> QED
    BY <2>1, <2>2 DEF Priority
<1>2. Won = {} \/ \E w : Won = {w} /\ w.reason \in {"RAW_resolution", "jump_resolution"}
  BY <1>1, WonType
<1>3. WinnerReason(Won) \in {"none", "RAW_resolution", "jump_resolution"}
  BY <1>1, WonType
<1>4. Told["AGU"] = "Normal" /\ Told["MEM"] = "Normal" /\ Told["WB"] = "Normal"
  BY <1>2, QuietActs DEF Told
<1>5. Latch(Told)
  BY TickIs
<1>6. /\ exagu' \in {ExNext, <<>>} /\ agumem' = AguNext /\ memwb' = MemNext
      /\ fwd' = fwd \/ fwd' = MemNext
  BY <1>4, <1>5 DEF Latch, Latched
<1> QED
  BY <1>2, <1>3, <1>6

LEMMA QuietStep ==
  ASSUME PipeInv, CoverBody, Tick, ~panicked', ~excepted',
         EndsOf(Active) = {}, Operations = {}, ~Asked
  PROVE  CoverBody' /\ CoveredStep
<1> DEFINE c == SeenAs(Decided)
<1>0. /\ SignalsKept /\ ResultsThere /\ ~cpu.finished /\ LatchesTyped
      /\ SigsTyped(Active) /\ CpuTyped(cpu) /\ IsFiniteSet(dram) /\ IsFiniteSet(done)
      /\ ~AguRejects /\ ~Failed(memwb) /\ Won \subseteq Active
  BY TickIs, ActiveType, Unexceptional DEF CoverBody, PipeInv, Won, Winner
<1>1. /\ WinnerReason(Won) \in {"none", "RAW_resolution", "jump_resolution"}
      /\ \A w \in Won : w.reason # "MEM_block"
      /\ exagu' \in {ExNext, <<>>} /\ agumem' = AguNext /\ memwb' = MemNext
      /\ fwd' = fwd \/ fwd' = MemNext
  BY QuietLatches
<1>2. cpu'.prog_end_seen = cpu.prog_end_seen /\ cpu'.finished = Over /\ cpu'.winner = WinnerReason(Won)
  BY AfterTick, CalmIs
<1>3. cpu.prog_end_seen => exagu' = <<>> /\ exagu = <<>> /\ Over
  <2>1. SUFFICES ASSUME cpu.prog_end_seen PROVE exagu' = <<>> /\ exagu = <<>> /\ Over
    OBVIOUS
  <2>2. idex = <<>> /\ exagu = <<>> /\ agumem = <<>> /\ Seen
    BY <2>1, CalmIs
  <2>3. ExNext = <<>> /\ AguNext = <<>> /\ MemNext = <<>>
    BY <1>0, <2>2, ExNextIs, AguPasses DEF MemNext
  <2> QED
    BY <1>1, <2>2, <2>3 DEF Over
<1>4. dram' = dram /\ done' = done /\ BlocksOf(sigs') = {}
  <2>1. Sends(Won) = {} /\ Takes(Won) = {}
    BY <1>1, NoRequests
  <2>2. BlocksOf(sigs') = BlocksOf(Active)
    BY <1>0, <1>1, TickIs, AfterOther
  <2> QED
    BY <1>0, <2>1, <2>2, TickIs, ActiveAre
<1>5. CoverBody'
  <2>1. SignalsKept'
    BY <1>0, SignalsKeptStep
  <2>2. ResultsThere'
    BY <1>0, <1>1, ResultsStep
  <2>3. HeldBeforeEnd' /\ OneOperation'
    BY <1>1, <1>2, <1>4 DEF HeldBeforeEnd, OneOperation, BlocksOf
  <2>4. Ending'
    BY <1>2, <1>3 DEF Ending
  <2> QED
    BY <1>0, <1>4, <2>1, <2>2, <2>3, <2>4 DEF CoverBody
<1>6. HasMem(exagu) <=> HasMem(agumem')
  <2>1. ~InMem
    <3>1. MemSignals = {}
      BY DEF Operations, Submitted
    <3> QED
      BY <3>1, OperationsAre
  <2>2. ~AguWaits
    BY <1>0, <2>1, WaitsForLoad
  <2> QED
    BY <1>0, <1>1, <2>2, AguPasses
<1>7. /\ MemOf(Operations') = (IF HasMem(exagu) THEN "Submit" ELSE "None")
      /\ LateOf(Operations') = FALSE
  <2>1. Operations' = MemSignals'
    BY <1>4, NextOperations DEF Submitted
  <2>2. CASE HasMem(exagu)
    <3>1. PICK b : MemSignals' = {b} /\ b.left = 4
      BY <1>6, <2>2, NextOperations
    <3>2. b.left \in 1..4 /\ Phase[4] = "Submit"
      BY <3>1 DEF Phase
    <3>3. MemOf({b}) = Phase[b.left] /\ LateOf({b}) = FALSE
      BY <3>2, OneOperationSeen
    <3> QED
      BY <2>1, <2>2, <3>1, <3>2, <3>3
  <2>3. CASE ~HasMem(exagu)
    BY <1>6, <2>1, <2>3, NextOperations, NoOperation
  <2> QED
    BY <2>2, <2>3
<1>8. /\ c \in CpuState /\ ~c.finished /\ ~c.ext_pause_requested
      /\ c.prog_end_seen = cpu.prog_end_seen /\ c.ending = 0 /\ c.agu = HasMem(exagu)
      /\ c.mem = "None" /\ ~c.late
  BY <1>0, DecidedIs, SeenType, CalmIs, NoOperation DEF SameHandshake
<1>9. /\ Cardinality(dram') = Cardinality(dram) + 0 /\ Cardinality(done') = Cardinality(done) - 0
  BY <1>0, <1>4, FS_CardinalityType
<1>10. /\ ShownWinner(WinnerReason(Won)) = "none" /\ EndingOf(sigs') = 0
  BY <1>1, CalmIs DEF ShownWinner, Reasons
<1> HIDE DEF c
<1>11. CASE cpu.prog_end_seen
  <2>1. \E o \in Decide(c, Cardinality(done)) :
          Leads(o, c, "none", TRUE, TRUE, 0, c.agu, "None", FALSE, 0, 0)
    BY <1>8, <1>11, RunCase
  <2>2. Over = TRUE /\ Seen = TRUE
    BY <1>3, <1>11, CalmIs DEF Over
  <2>3. SeenMem' = "None" /\ SeenLate' = FALSE /\ HasMem(exagu') = c.agu
    BY <1>3, <1>8, <1>11, <2>2, SeenAfter DEF HasMem
  <2>4. "None" \in MemStates /\ FALSE \in BOOLEAN
    BY DEF MemStates
  <2> QED
    BY <1>5, <1>9, <1>10, <2>1, <2>2, <2>3, <2>4, TickCovered DEF c
<1>12. CASE ~cpu.prog_end_seen
  <2> DEFINE m == IF c.agu THEN "Submit" ELSE "None"
             a == HasMem(exagu')
  <2>1. a \in BOOLEAN /\ m \in MemStates
    BY DEF HasMem, MemStates
  <2>2. Over = FALSE /\ Seen = FALSE
    BY <1>12, CalmIs DEF Over, Seen
  <2>3. SeenMem' = m /\ SeenLate' = FALSE
    BY <1>7, <1>8, <2>2, SeenAfter
  <2> HIDE DEF a
  <2>4. \E o \in Decide(c, Cardinality(done)) :
          Leads(o, c, "none", FALSE, FALSE, 0, a, m, FALSE, 0, 0)
    BY <1>8, <1>12, <2>1, RunCase
  <2> HIDE DEF m
  <2> QED
    BY <1>5, <1>9, <1>10, <2>1, <2>2, <2>3, <2>4, TickCovered DEF a, c
<1> QED
  BY <1>11, <1>12

-----------------------------------------------------------------------------
(* A tick in which a memory operation wins.                                 *)

LEMMA PairCases ==
  ASSUME NEW B, Pair(B), NEW w \in B, \A s \in B : s.left \in 1..4
  PROVE  \/ B = {w} /\ MemOf(B) = Phase[w.left] /\ LateOf(B) = FALSE
         \/ \E t : /\ t # w /\ B = {w, t} /\ t.left = 4
                   /\ MemOf(B) = Phase[w.left] /\ LateOf(B) = TRUE
         \/ w.left = 4 /\ LateOf(B) = TRUE
<1>1. PICK s, t : B \subseteq {s, t} /\ t.left = 4
  BY DEF Pair
<1>2. B = {w} \/ (B = {w, t} /\ t # w) \/ (B = {s, w} /\ s # w /\ w = t)
  BY <1>1
<1>3. CASE B = {w}
  BY <1>3, OneOperationSeen
<1>4. CASE B = {w, t} /\ t # w
  <2>1. MemOf({w, t}) = Phase[w.left] /\ LateOf({w, t}) = TRUE
    BY <1>1, <1>4, TwoOperationsSeen
  <2> QED
    BY <1>1, <1>4, <2>1
<1>5. CASE B = {s, w} /\ s # w /\ w = t
  <2>1. LateOf({s, w}) = TRUE
    BY <1>1, <1>5, TwoOperationsSeen
  <2> QED
    BY <1>1, <1>5, <2>1
<1> QED
  BY <1>2, <1>3, <1>4, <1>5

\* The winner takes its step; the operation that is waiting stays.
LEMMA BlockAfter ==
  ASSUME NEW S, SigsTyped(S), NEW w \in BlocksOf(S), NEW answered \in BOOLEAN
  PROVE  /\ w.left = 1 => BlocksOf(After(S, {w}, answered)) = BlocksOf(S) \ {w}
         /\ w.left \in 2..4 =>
              \E v : /\ BlocksOf(After(S, {w}, answered)) = {v} \cup (BlocksOf(S) \ {w})
                     /\ SameKey(v, w)
                     /\ v.left = IF w.left = 3 /\ ~answered THEN 3 ELSE w.left - 1
<1> DEFINE v == Advanced(w, answered)
           A == After(S, {w}, answered)
<1>0. w \in S /\ w.reason = "MEM_block" /\ SigTyped(w)
  BY DEF BlocksOf, SigsTyped
<1>1. SameKey(v, w) /\ v.reason = "MEM_block"
  BY <1>0, AdvancedType DEF SameKey
<1>2. w.left \in 1..4 => v.left = IF w.left = 3 /\ ~answered THEN 3 ELSE w.left - 1
  <2>1. SUFFICES ASSUME w.left \in 1..4
                 PROVE  v.left = IF w.left = 3 /\ ~answered THEN 3 ELSE w.left - 1
    OBVIOUS
  <2>2. Phase[w.left] = "Stall" <=> w.left = 3
    BY <2>1 DEF Phase
  <2>3. CASE w.left = 3 /\ ~answered
    BY <1>0, <2>2, <2>3 DEF Advanced
  <2>4. CASE ~(w.left = 3 /\ ~answered)
    <3>1. v = [w EXCEPT !.left = @ - 1]
      BY <1>0, <2>2, <2>4 DEF Advanced
    <3> QED
      BY <1>0, <2>4, <3>1 DEF SigTyped
  <2> QED
    BY <2>3, <2>4
<1>3. A = {s \in {v} : s.left > 0} \cup {s \in S \ {w} : s.reason # "RAW_resolution"}
  BY Zenon DEF After
<1> HIDE DEF v, A
<1>4. BlocksOf(A) = {s \in {v} : s.left > 0} \cup (BlocksOf(S) \ {w})
  BY <1>1, <1>3 DEF BlocksOf
<1>5. CASE w.left = 1
  <2>1. ~(v.left > 0)
    BY <1>2, <1>5
  <2>2. {s \in {v} : s.left > 0} = {}
    BY <2>1
  <2> QED
    BY <1>4, <1>5, <2>2 DEF A
<1>6. CASE w.left \in 2..4
  <2>1. v.left > 0
    BY <1>2, <1>6
  <2>2. {s \in {v} : s.left > 0} = {v}
    BY <2>1
  <2> QED
    BY <1>1, <1>2, <1>4, <1>6, <2>2 DEF A
<1> QED
  BY <1>5, <1>6

\* What an operation asks of the portal in its step.
LEMMA BlockRequests ==
  ASSUME PipeInv, SignalsKept, Pair(Operations), IsFiniteSet(dram), IsFiniteSet(done),
         NEW w \in Operations
  PROVE  /\ w.left = 4 => Sends({w}) = {KeyOf(w)} /\ KeyOf(w) \notin dram /\ Takes({w}) = {}
         /\ w.left = 3 => Sends({w}) = {} /\ Takes({w}) = done /\ Cardinality(done) \in 0..1
         /\ w.left \in 1..2 => Sends({w}) = {} /\ Takes({w}) = {}
<1>0. /\ w.reason = "MEM_block" /\ w.left \in 1..4 /\ SigsTyped(Active) /\ BlocksOf(Active) = Operations
      /\ AwaitedKeys(Active) = dram \cup done
  BY OperationsAre, ActiveType, ActiveAre DEF PipeInv, RequestsInv
<1>1. w \in Active
  BY <1>0 DEF BlocksOf
<1>2. CASE w.left = 4
  <2>1. Phase[w.left] = "Submit"
    BY <1>2 DEF Phase
  <2>2. Sends({w}) = {KeyOf(w)} /\ Takes({w}) = {}
    BY <1>0, <2>1 DEF Sends, Takes
  <2>3. KeyOf(w) \notin dram
    <3> SUFFICES ASSUME NEW s \in Active, s.reason = "MEM_block", Phase[s.left] = "Stall",
                        KeyOf(s) = KeyOf(w)
                 PROVE  FALSE
      BY <1>0 DEF AwaitedKeys
    <3>1. s.issuer = w.issuer
      BY <1>0, <1>1 DEF SigsTyped, SigTyped
    <3>2. SameKey(s, w)
      BY <1>0, <3>1 DEF SameKey, KeyOf
    <3>3. s = w
      BY <1>0, <1>1, <3>2 DEF SigsTyped, OneEach
    <3> QED
      BY <2>1, <3>3
  <2> QED
    BY <1>2, <2>2, <2>3
<1>3. CASE w.left = 3
  <2>1. Phase[w.left] = "Stall"
    BY <1>3 DEF Phase
  <2>2. Sends({w}) = {} /\ Takes({w}) = {KeyOf(w)} \cap done
    BY <1>0, <2>1 DEF Sends, Takes
  <2>3. done \subseteq {KeyOf(w)}
    <3>1. PICK s, t : Operations \subseteq {s, t} /\ t.left = 4
      BY DEF Pair
    <3>2. ASSUME NEW u \in Active, u.reason = "MEM_block", Phase[u.left] = "Stall" PROVE u = w
      <4>1. u \in Operations
        BY <1>0, <3>2 DEF BlocksOf
      <4>2. u # t
        BY <3>1, <3>2 DEF Phase
      <4>3. w # t
        BY <1>3, <3>1
      <4> QED
        BY <3>1, <4>1, <4>2, <4>3
    <3> QED
      BY <1>0, <3>2 DEF AwaitedKeys
  <2>4. Takes({w}) = done
    BY <2>2, <2>3
  <2>5. Cardinality(done) \in 0..1
    <3>1. done = {} \/ done = {KeyOf(w)}
      BY <2>3
    <3>2. Cardinality({}) = 0 /\ Cardinality({KeyOf(w)}) = 1
      BY FS_EmptySet, FS_Singleton
    <3> QED
      BY <3>1, <3>2
  <2> QED
    BY <1>3, <2>2, <2>4, <2>5
<1>4. CASE w.left \in 1..2
  <2>1. Phase[w.left] \notin {"Submit", "Stall"}
    BY <1>4 DEF Phase
  <2> QED
    BY <1>0, <1>4, <2>1 DEF Sends, Takes
<1> QED
  BY <1>0, <1>2, <1>3, <1>4

\* The step of the operation that wins, as MEM_stop_FSM's.
LEMMA OperationTick ==
  ASSUME PipeInv, SignalsKept, Pair(Operations), IsFiniteSet(dram), IsFiniteSet(done),
         Tick, ~panicked', NEW w \in Operations, Won = {w}
  PROVE  /\ IsFiniteSet(dram') /\ IsFiniteSet(done')
         /\ w.left = 1 =>
              /\ BlocksOf(sigs') = Operations \ {w}
              /\ Cardinality(dram') = Cardinality(dram) + 0
              /\ Cardinality(done') = Cardinality(done) - 0
         /\ w.left \in 2..4 =>
              \E v, sent, taken :
                /\ BlocksOf(sigs') = {v} \cup (Operations \ {w}) /\ SameKey(v, w)
                /\ v.left \in 1..3 /\ (w.left = 2 <=> v.left = 1)
                /\ FsmStep(Phase[w.left], Cardinality(done), Phase[v.left], sent, taken)
                /\ Cardinality(dram') = Cardinality(dram) + sent
                /\ Cardinality(done') = Cardinality(done) - taken
<1> DEFINE answered == Takes({w}) # {}
<1>0. /\ w.left \in 1..4 /\ SigsTyped(Active) /\ BlocksOf(Active) = Operations
      /\ sigs' = After(Active, {w}, answered)
      /\ dram' = dram \cup Sends({w}) /\ done' = done \ Takes({w})
  BY OperationsAre, ActiveType, ActiveAre, TickIs
<1>1. /\ w.left = 4 => Sends({w}) = {KeyOf(w)} /\ KeyOf(w) \notin dram /\ Takes({w}) = {}
      /\ w.left = 3 => Sends({w}) = {} /\ Takes({w}) = done /\ Cardinality(done) \in 0..1
      /\ w.left \in 1..2 => Sends({w}) = {} /\ Takes({w}) = {}
  BY BlockRequests
<1>2. Cardinality(dram) \in Nat /\ Cardinality(done) \in Nat
  BY FS_CardinalityType
<1>3. /\ Phase[1] = "Release" /\ Phase[2] = "WriteBack" /\ Phase[3] = "Stall" /\ Phase[4] = "Submit"
  BY DEF Phase
<1>4. answered \in BOOLEAN
  OBVIOUS
<1>5. /\ w.left = 1 => BlocksOf(sigs') = Operations \ {w}
      /\ w.left \in 2..4 =>
           \E v : /\ BlocksOf(sigs') = {v} \cup (Operations \ {w}) /\ SameKey(v, w)
                  /\ v.left = IF w.left = 3 /\ ~answered THEN 3 ELSE w.left - 1
  <2>1. w \in BlocksOf(Active)
    BY <1>0
  <2> HIDE DEF answered
  <2> QED
    BY <1>0, <1>4, <2>1, BlockAfter
<1>6. CASE w.left = 4
  <2>1. ~answered /\ done' = done
    BY <1>0, <1>1, <1>6
  <2>2. dram' = dram \cup {KeyOf(w)}
    BY <1>0, <1>1, <1>6
  <2>3. IsFiniteSet(dram') /\ Cardinality(dram') = Cardinality(dram) + 1
    BY <1>1, <1>6, <2>2, FS_AddElement
  <2>4. PICK v : /\ BlocksOf(sigs') = {v} \cup (Operations \ {w}) /\ SameKey(v, w) /\ v.left = 3
    BY <1>5, <1>6
  <2>5. FsmStep(Phase[w.left], Cardinality(done), Phase[v.left], 1, 0)
    BY <1>3, <1>6, <2>4 DEF FsmStep
  <2>6. Cardinality(done') = Cardinality(done) - 0
    BY <1>2, <2>1
  <2>7. v.left \in 1..3 /\ (w.left = 2 <=> v.left = 1) /\ w.left # 1
    BY <1>6, <2>4
  <2> QED
    BY <2>1, <2>3, <2>4, <2>5, <2>6, <2>7
<1>7. CASE w.left = 3
  <2>1. dram' = dram /\ done' = done \ done
    BY <1>0, <1>1, <1>7
  <2>2. Cardinality({}) = 0 /\ IsFiniteSet({}) /\ done' = {}
    BY <2>1, FS_EmptySet
  <2>3. Cardinality(dram') = Cardinality(dram) + 0
    BY <1>2, <2>1
  <2>4. CASE done = {}
    <3>1. ~answered /\ Cardinality(done) = 0
      BY <1>1, <1>7, <2>2, <2>4
    <3>2. PICK v : /\ BlocksOf(sigs') = {v} \cup (Operations \ {w}) /\ SameKey(v, w) /\ v.left = 3
      BY <1>5, <1>7, <3>1
    <3>3. FsmStep(Phase[w.left], Cardinality(done), Phase[v.left], 0, 0)
      BY <1>3, <1>7, <3>1, <3>2 DEF FsmStep
    <3>4. Cardinality(done') = Cardinality(done) - 0
      BY <2>2, <3>1
    <3>5. v.left \in 1..3 /\ (w.left = 2 <=> v.left = 1) /\ w.left # 1
      BY <1>7, <3>2
    <3> QED
      BY <2>1, <2>2, <2>3, <3>2, <3>3, <3>4, <3>5
  <2>5. CASE done # {}
    <3>1. answered /\ Cardinality(done) = 1
      <4>1. Cardinality(done) # 0
        BY <2>5, FS_EmptySet
      <4>2. answered
        BY <1>1, <1>7, <2>5
      <4> QED
        BY <1>1, <1>7, <4>1, <4>2
    <3>2. PICK v : /\ BlocksOf(sigs') = {v} \cup (Operations \ {w}) /\ SameKey(v, w) /\ v.left = 2
      BY <1>5, <1>7, <3>1
    <3>3. FsmStep(Phase[w.left], Cardinality(done), Phase[v.left], 0, 1)
      BY <1>3, <1>7, <3>1, <3>2 DEF FsmStep
    <3>4. Cardinality(done') = Cardinality(done) - 1
      BY <2>2, <3>1
    <3>5. v.left \in 1..3 /\ (w.left = 2 <=> v.left = 1) /\ w.left # 1
      BY <1>7, <3>2
    <3> QED
      BY <2>1, <2>2, <2>3, <3>2, <3>3, <3>4, <3>5
  <2> QED
    BY <2>4, <2>5
<1>8. CASE w.left \in 1..2
  <2>1. dram' = dram /\ done' = done
    BY <1>0, <1>1, <1>8
  <2>2. Cardinality(dram') = Cardinality(dram) + 0 /\ Cardinality(done') = Cardinality(done) - 0
    BY <1>2, <2>1
  <2>3. CASE w.left = 1
    BY <1>5, <2>1, <2>2, <2>3
  <2>4. CASE w.left = 2
    <3>1. PICK v : /\ BlocksOf(sigs') = {v} \cup (Operations \ {w}) /\ SameKey(v, w) /\ v.left = 1
      BY <1>5, <2>4
    <3>2. FsmStep(Phase[w.left], Cardinality(done), Phase[v.left], 0, 0)
      BY <1>3, <2>4, <3>1 DEF FsmStep
    <3>3. v.left \in 1..3 /\ (w.left = 2 <=> v.left = 1) /\ w.left # 1
      BY <2>4, <3>1
    <3> QED
      BY <2>1, <2>2, <3>1, <3>2, <3>3
  <2> QED
    BY <1>8, <2>3, <2>4
<1>9. w.left = 4 \/ w.left = 3 \/ w.left \in 1..2
  BY <1>0
<1> QED
  BY <1>6, <1>7, <1>8, <1>9, Zenon

LEMMA BlockLatches ==
  ASSUME PipeInv, Tick, ~panicked', NEW w, Won = {w}, w.reason = "MEM_block", w.left \in 1..4
  PROVE  /\ idex' = idex
         /\ fwd' = fwd \/ (fwd' = MemNext /\ memwb' = MemNext)
         /\ w.left \in 3..4 => exagu' = exagu /\ agumem' = agumem /\ memwb' = <<>>
         /\ w.left = 2 => exagu' = exagu /\ agumem' = <<>> /\ memwb' = MemNext
         /\ w.left = 1 => exagu' = <<>> /\ agumem' = AguNext /\ memwb' = memwb
<1>1. Latch(Told)
  BY TickIs
<1>2. /\ Told["ID"] = "Stall" /\ Told["EX"] = "Stall"
      /\ w.left \in 3..4 => Told["AGU"] = "Stall" /\ Told["MEM"] = "Stall" /\ Told["WB"] = "Normal"
      /\ w.left = 2 => Told["AGU"] = "Stall" /\ Told["MEM"] = "Normal" /\ Told["WB"] = "Normal"
      /\ w.left = 1 => Told["AGU"] = "Normal" /\ Told["MEM"] = "Normal" /\ Told["WB"] = "Stall"
  BY BlockActs DEF Told
<1> QED
  BY <1>1, <1>2 DEF Latch, Latched

LEMMA OperationWins ==
  ASSUME PipeInv, CoverBody, Tick, ~panicked', ~excepted', EndsOf(Active) = {}, Operations # {}
  PROVE  /\ Pair(Operations)
         /\ \E w \in Operations :
              /\ Won = {w} /\ w.reason = "MEM_block" /\ w.left \in 1..4
              /\ WinnerReason(Won) = "MEM_block"
<1>0. Pair(Operations) /\ BlocksOf(Active) = Operations /\ SigsTyped(Active)
  BY TickIs, OperationsPair, ActiveAre, ActiveType DEF CoverBody
<1>1. PICK w \in Operations : Won = {w}
  BY <1>0, CalmIs, BlockWins DEF Won
<1>2. w.reason = "MEM_block" /\ w.left \in 1..4
  BY OperationsAre
<1>3. WinnerReason(Won) = "MEM_block"
  BY <1>1, <1>2, OnlyOf DEF WinnerReason
<1> QED
  BY <1>0, <1>1, <1>2, <1>3

\* What both cases, of a program that runs and of one that has ended, share.
LEMMA OperationKeeps ==
  ASSUME PipeInv, CoverBody, Tick, ~panicked', ~excepted', EndsOf(Active) = {},
         NEW w \in Operations, Won = {w}, w.reason = "MEM_block", w.left \in 1..4
  PROVE  /\ SignalsKept' /\ ResultsThere' /\ HeldBeforeEnd'
         /\ cpu'.prog_end_seen = cpu.prog_end_seen /\ cpu'.finished = Over
         /\ ShownWinner(WinnerReason(Won)) = "MEM_block" /\ Seen = cpu.prog_end_seen
         /\ EndingOf(sigs') = 0
<1>0. SignalsKept /\ ResultsThere /\ LatchesTyped /\ ~AguRejects /\ ~Failed(memwb)
  BY Unexceptional DEF CoverBody, PipeInv
<1>1. SignalsKept'
  BY <1>0, SignalsKeptStep
<1>2. /\ exagu' \in {exagu, ExNext, <<>>} /\ agumem' \in {agumem, AguNext, <<>>}
      /\ fwd' = fwd \/ (fwd' = MemNext /\ memwb' = MemNext)
  <2>1. w.left \in 3..4 \/ w.left = 2 \/ w.left = 1
    OBVIOUS
  <2> QED
    BY <2>1, BlockLatches
<1>3. ResultsThere'
  BY <1>0, <1>2, ResultsStep
<1>4. WinnerReason(Won) = "MEM_block"
  BY OnlyOf DEF WinnerReason
<1>5. HeldBeforeEnd'
  BY <1>4, AfterTick DEF HeldBeforeEnd
<1>6. ShownWinner("MEM_block") = "MEM_block"
  BY DEF ShownWinner, Reasons
<1> QED
  BY <1>1, <1>3, <1>4, <1>5, <1>6, CalmIs, AfterTick

\* Where the operation in MEM is after its step: it is the only one, or gone.
LEMMA RunningOperation ==
  ASSUME PipeInv, CoverBody, Tick, ~panicked', ~excepted', EndsOf(Active) = {},
         ~cpu.prog_end_seen, NEW w \in Operations, Won = {w}, w.reason = "MEM_block",
         NEW v, w.left \in 2..4, v.left \in 1..3, w.left = 2 <=> v.left = 1, SameKey(v, w),
         BlocksOf(sigs') = {v} \cup (Operations \ {w})
  PROVE  /\ OneOperation' /\ HasMem(exagu') = HasMem(exagu)
         /\ MemOf(Operations) = Phase[w.left] /\ LateOf(Operations) = FALSE
         /\ MemOf(Operations') = Phase[v.left] /\ LateOf(Operations') = FALSE
<1>0. OneOperation
  BY DEF CoverBody
<1>1. /\ Operations = {w} /\ InMem /\ SameKey(w, OwnBlock)
  BY <1>0, OneOperationIs
<1>2. BlocksOf(sigs') = {v}
  BY <1>1
<1>3. /\ exagu' = exagu
      /\ w.left \in 3..4 => agumem' = agumem
      /\ w.left = 2 => agumem' = <<>>
  BY BlockLatches
<1>4. OneOperation' /\ Operations' = {v}
  <2>1. CASE w.left \in 3..4
    <3>1. agumem' = agumem /\ v.left \in 2..3
      BY <1>3, <2>1
    <3>2. InMem' /\ OwnBlock' = OwnBlock /\ MemSignals' = MemSignals
      BY <1>1, <3>1 DEF InMem, OwnBlock, MemSignals
    <3>3. SameKey(v, OwnBlock') /\ SameKey(OwnBlock, v)
      BY <1>1, <3>2 DEF SameKey
    <3>4. OneOperation'
      BY <1>2, <3>1, <3>2, <3>3 DEF OneOperation
    <3>5. Operations' = Submitted({v}, {OwnBlock})
      BY <1>1, <1>2, <3>2, NextOperations, OperationsAre
    <3>6. Operations' = {v}
      BY <3>3, <3>5 DEF Submitted
    <3> QED
      BY <3>4, <3>6
  <2>2. CASE w.left = 2
    <3>1. agumem' = <<>> /\ v.left = 1
      BY <1>3, <2>2
    <3>2. OneOperation'
      BY <1>2, <3>1 DEF OneOperation
    <3>3. MemSignals' = {}
      BY <3>1, NextOperations DEF HasMem
    <3>4. Operations' = {v}
      BY <1>2, <3>3, NextOperations, SubmittedNone
    <3> QED
      BY <3>2, <3>4
  <2> QED
    BY <2>1, <2>2
<1>5. w.left \in 1..4 /\ v.left \in 1..4
  OBVIOUS
<1>6. /\ MemOf(Operations) = Phase[w.left] /\ LateOf(Operations) = FALSE
      /\ MemOf(Operations') = Phase[v.left] /\ LateOf(Operations') = FALSE
  BY <1>1, <1>4, <1>5, OneOperationSeen
<1> QED
  BY <1>3, <1>4, <1>6

LEMMA ReleasedOperation ==
  ASSUME PipeInv, CoverBody, Tick, ~panicked', ~excepted', EndsOf(Active) = {},
         ~cpu.prog_end_seen, NEW w \in Operations, Won = {w}, w.reason = "MEM_block",
         w.left = 1, BlocksOf(sigs') = Operations \ {w}
  PROVE  /\ OneOperation' /\ HasMem(exagu') = FALSE
         /\ MemOf(Operations) = "Release" /\ LateOf(Operations) = FALSE
         /\ MemOf(Operations') = (IF HasMem(exagu) THEN "Submit" ELSE "None")
         /\ LateOf(Operations') = FALSE
<1>0. OneOperation /\ ResultsThere /\ LatchesTyped /\ ~AguRejects /\ ~Failed(memwb)
  BY Unexceptional DEF CoverBody, PipeInv
<1>1. Operations = {w} /\ agumem = <<>>
  BY <1>0, OneOperationIs
<1>2. BlocksOf(sigs') = {}
  BY <1>1
<1>3. exagu' = <<>> /\ agumem' = AguNext
  BY BlockLatches
<1>4. OneOperation' /\ HasMem(exagu') = FALSE
  BY <1>2, <1>3 DEF OneOperation, HasMem
<1>5. HasMem(exagu) <=> HasMem(agumem')
  <2>1. ~AguWaits
    BY <1>0, <1>1, WaitsForLoad DEF InMem
  <2> QED
    BY <1>0, <1>3, <2>1, AguPasses
<1>6. Operations' = MemSignals'
  BY <1>2, NextOperations DEF Submitted
<1>7. /\ MemOf(Operations') = (IF HasMem(exagu) THEN "Submit" ELSE "None")
      /\ LateOf(Operations') = FALSE
  <2>1. CASE HasMem(exagu)
    <3>1. PICK b : MemSignals' = {b} /\ b.left = 4
      BY <1>5, <2>1, NextOperations
    <3>2. b.left \in 1..4 /\ Phase[4] = "Submit"
      BY <3>1 DEF Phase
    <3>3. MemOf({b}) = Phase[b.left] /\ LateOf({b}) = FALSE
      BY <3>2, OneOperationSeen
    <3> QED
      BY <1>6, <2>1, <3>1, <3>2, <3>3
  <2>2. CASE ~HasMem(exagu)
    BY <1>5, <1>6, <2>2, NextOperations, NoOperation
  <2> QED
    BY <2>1, <2>2
<1>8. MemOf(Operations) = "Release" /\ LateOf(Operations) = FALSE
  <2>1. w.left \in 1..4 /\ Phase[1] = "Release"
    BY DEF Phase
  <2> QED
    BY <1>1, <2>1, OneOperationSeen
<1> QED
  BY <1>4, <1>7, <1>8

LEMMA RunningStep ==
  ASSUME PipeInv, CoverBody, Tick, ~panicked', ~excepted', EndsOf(Active) = {},
         Operations # {}, ~cpu.prog_end_seen
  PROVE  CoverBody' /\ CoveredStep
<1> DEFINE c == SeenAs(Decided)
<1>0. /\ SignalsKept /\ ~cpu.finished /\ CpuTyped(cpu) /\ IsFiniteSet(dram) /\ IsFiniteSet(done)
  BY TickIs DEF CoverBody, PipeInv
<1>1. PICK w \in Operations : Won = {w} /\ w.reason = "MEM_block" /\ w.left \in 1..4
  BY OperationWins
<1>2. /\ SignalsKept' /\ ResultsThere' /\ HeldBeforeEnd'
      /\ cpu'.prog_end_seen = cpu.prog_end_seen
      /\ ShownWinner(WinnerReason(Won)) = "MEM_block" /\ Seen = cpu.prog_end_seen
      /\ EndingOf(sigs') = 0
  BY <1>1, OperationKeeps
<1>3. Ending' /\ Over = FALSE /\ Seen = FALSE
  BY <1>2, CalmIs DEF Ending, Over, Seen
<1>4. /\ c \in CpuState /\ ~c.finished
      /\ c.prog_end_seen = cpu.prog_end_seen /\ c.ending = 0 /\ c.agu = HasMem(exagu)
      /\ c.mem = MemOf(Operations) /\ c.late = LateOf(Operations)
  BY <1>0, DecidedIs, SeenType, CalmIs
<1> HIDE DEF c
<1>5. /\ IsFiniteSet(dram') /\ IsFiniteSet(done')
      /\ w.left = 1 =>
           /\ BlocksOf(sigs') = Operations \ {w}
           /\ Cardinality(dram') = Cardinality(dram) + 0
           /\ Cardinality(done') = Cardinality(done) - 0
      /\ w.left \in 2..4 =>
           \E v, sent, taken :
             /\ BlocksOf(sigs') = {v} \cup (Operations \ {w}) /\ SameKey(v, w)
             /\ v.left \in 1..3 /\ (w.left = 2 <=> v.left = 1)
             /\ FsmStep(Phase[w.left], Cardinality(done), Phase[v.left], sent, taken)
             /\ Cardinality(dram') = Cardinality(dram) + sent
             /\ Cardinality(done') = Cardinality(done) - taken
  BY <1>0, <1>1, OperationWins, OperationTick
<1>6. CASE w.left = 1
  <2> DEFINE m == IF c.agu THEN "Submit" ELSE "None"
  <2>1. /\ OneOperation' /\ HasMem(exagu') = FALSE
        /\ c.mem = "Release" /\ c.late = FALSE
        /\ MemOf(Operations') = m /\ LateOf(Operations') = FALSE
    BY <1>1, <1>4, <1>5, <1>6, ReleasedOperation
  <2>2. m \in MemStates
    BY DEF MemStates
  <2>3. \E o \in Decide(c, Cardinality(done)) :
          Leads(o, c, "MEM_block", FALSE, FALSE, 0, FALSE, m, FALSE, 0, 0)
    BY <1>2, <1>4, <2>1, ReleaseCase
  <2> HIDE DEF m
  <2>4. SeenMem' = m /\ SeenLate' = FALSE
    BY <1>3, <2>1, SeenAfter
  <2>5. CoveredStep
    <3>1. /\ Cardinality(dram') = Cardinality(dram) + 0
          /\ Cardinality(done') = Cardinality(done) - 0
      BY <1>5, <1>6
    <3>2. \E o \in Decide(SeenAs(Decided), Cardinality(done)) :
            Leads(o, SeenAs(Decided), ShownWinner(WinnerReason(Won)), Over, Seen,
                  EndingOf(sigs'), HasMem(exagu'), SeenMem', SeenLate', 0, 0)
      BY <1>2, <1>3, <2>1, <2>3, <2>4 DEF c
    <3> QED
      BY <2>2, <2>4, <3>1, <3>2, TickCovered
  <2> QED
    BY <1>2, <1>3, <1>5, <2>1, <2>5 DEF CoverBody
<1>7. CASE w.left \in 2..4
  <2>1. PICK v, sent, taken :
          /\ BlocksOf(sigs') = {v} \cup (Operations \ {w}) /\ SameKey(v, w)
          /\ v.left \in 1..3 /\ (w.left = 2 <=> v.left = 1)
          /\ FsmStep(Phase[w.left], Cardinality(done), Phase[v.left], sent, taken)
          /\ Cardinality(dram') = Cardinality(dram) + sent
          /\ Cardinality(done') = Cardinality(done) - taken
    BY <1>5, <1>7
  <2>2. /\ OneOperation' /\ HasMem(exagu') = c.agu
        /\ c.mem = Phase[w.left] /\ c.late = FALSE
        /\ MemOf(Operations') = Phase[v.left] /\ LateOf(Operations') = FALSE
    BY <1>1, <1>4, <1>7, <2>1, RunningOperation
  <2>3. Phase[v.left] \in MemStates
    BY <2>1, PhaseType
  <2>4. Cardinality(done) \in Nat
    BY <1>0, FS_CardinalityType
  <2> DEFINE next == Phase[v.left]
  <2>5. FsmStep(c.mem, Cardinality(done), next, sent, taken)
    BY <2>1, <2>2
  <2> HIDE DEF next
  <2>6. \E o \in Decide(c, Cardinality(done)) :
          Leads(o, c, "MEM_block", FALSE, FALSE, 0, c.agu, next, FALSE, sent, taken)
    BY <1>4, <2>2, <2>4, <2>5, OperationCase
  <2>7. SeenMem' = next /\ SeenLate' = FALSE
    BY <1>3, <2>2, SeenAfter DEF next
  <2>8. CoveredStep
    BY <1>2, <1>3, <2>1, <2>2, <2>3, <2>6, <2>7, TickCovered DEF c, next
  <2> QED
    BY <1>2, <1>3, <1>5, <2>2, <2>8 DEF CoverBody
<1> QED
  BY <1>1, <1>6, <1>7

\* The program has ended and is leaving the pipeline.
LEMMA LeftoverStep ==
  ASSUME PipeInv, CoverBody, Tick, ~panicked', ~excepted', EndsOf(Active) = {},
         Operations # {}, cpu.prog_end_seen
  PROVE  CoverBody' /\ CoveredStep
<1> DEFINE c == SeenAs(Decided)
<1>0. /\ SignalsKept /\ ~cpu.finished /\ CpuTyped(cpu) /\ IsFiniteSet(dram) /\ IsFiniteSet(done)
      /\ LatchesTyped /\ ResultsThere
  BY TickIs DEF CoverBody, PipeInv
<1>1. PICK w \in Operations : Won = {w} /\ w.reason = "MEM_block" /\ w.left \in 1..4
  BY OperationWins
<1>2. /\ SignalsKept' /\ ResultsThere' /\ HeldBeforeEnd'
      /\ cpu'.prog_end_seen = cpu.prog_end_seen /\ cpu'.finished = Over
      /\ ShownWinner(WinnerReason(Won)) = "MEM_block" /\ Seen = cpu.prog_end_seen
      /\ EndingOf(sigs') = 0
  BY <1>1, OperationKeeps
<1>3. OneOperation' /\ Seen = TRUE
  BY <1>2 DEF OneOperation, Seen
<1>4. /\ c \in CpuState /\ ~c.finished
      /\ c.prog_end_seen = cpu.prog_end_seen /\ c.ending = 0 /\ c.agu = HasMem(exagu)
      /\ c.mem = MemOf(Operations) /\ c.late = LateOf(Operations)
  BY <1>0, DecidedIs, SeenType, CalmIs
<1> HIDE DEF c
<1>5. /\ IsFiniteSet(dram') /\ IsFiniteSet(done')
      /\ w.left = 1 =>
           /\ BlocksOf(sigs') = Operations \ {w}
           /\ Cardinality(dram') = Cardinality(dram) + 0
           /\ Cardinality(done') = Cardinality(done) - 0
      /\ w.left \in 2..4 =>
           \E v, sent, taken :
             /\ FsmStep(Phase[w.left], Cardinality(done), Phase[v.left], sent, taken)
             /\ Cardinality(dram') = Cardinality(dram) + sent
             /\ Cardinality(done') = Cardinality(done) - taken
  BY <1>0, <1>1, OperationWins, OperationTick
<1>6. idex = <<>> /\ exagu = <<>> /\ agumem = <<>> /\ memwb # <<>> /\ EndsOf(sigs') = {}
  BY CalmIs
<1>7. AguNext = <<>> /\ MemNext = <<>>
  BY <1>0, <1>6, AguPasses DEF MemNext
<1>8. /\ idex' = <<>> /\ exagu' = <<>> /\ agumem' = <<>>
      /\ w.left \in 2..4 => memwb' = <<>>
      /\ w.left = 1 => memwb' = memwb
  <2>1. w.left \in 3..4 \/ w.left = 2 \/ w.left = 1
    BY <1>1
  <2> QED
    BY <1>1, <1>6, <1>7, <2>1, BlockLatches
<1>9. HasMem(exagu) = FALSE /\ HasMem(exagu') = FALSE /\ c.agu = FALSE
  BY <1>4, <1>6, <1>8 DEF HasMem
<1>10. \/ Operations = {w} /\ c.mem = Phase[w.left] /\ c.late = FALSE
       \/ \E t : /\ t # w /\ Operations = {w, t} /\ t.left = 4
                 /\ c.mem = Phase[w.left] /\ c.late = TRUE
       \/ w.left = 4 /\ c.late = TRUE
  <2>1. Pair(Operations) /\ \A s \in Operations : s.left \in 1..4
    BY OperationWins, OperationsAre
  <2>2. \/ Operations = {w} /\ MemOf(Operations) = Phase[w.left] /\ LateOf(Operations) = FALSE
        \/ \E t : /\ t # w /\ Operations = {w, t} /\ t.left = 4
                  /\ MemOf(Operations) = Phase[w.left] /\ LateOf(Operations) = TRUE
        \/ w.left = 4 /\ LateOf(Operations) = TRUE
    BY <2>1, PairCases
  <2> QED
    BY <1>4, <2>2
<1>11. "None" \in MemStates /\ FALSE \in BOOLEAN /\ "Submit" \in MemStates
  BY DEF MemStates
<1>12. CASE w.left = 1
  <2>1. Over = FALSE
    BY <1>6, <1>8, <1>12 DEF Over
  <2>2. Operations' = Operations \ {w}
    <3>1. MemSignals' = {}
      BY <1>8, NextOperations DEF HasMem
    <3> QED
      BY <1>5, <1>12, <3>1, NextOperations, SubmittedNone
  <2> DEFINE m == IF c.late THEN "Submit" ELSE "None"
  <2>3. Pair(Operations') /\ MemOf(Operations') = m /\ LateOf(Operations') = FALSE /\ c.mem = Phase[w.left]
    <3>1. CASE Operations = {w} /\ c.mem = Phase[w.left] /\ c.late = FALSE
      <4>1. Operations' = {}
        BY <2>2, <3>1
      <4> QED
        BY <3>1, <4>1, PairOf, NoOperation
    <3>2. CASE \E t : /\ t # w /\ Operations = {w, t} /\ t.left = 4
                      /\ c.mem = Phase[w.left] /\ c.late = TRUE
      <4>1. PICK t : /\ t # w /\ Operations = {w, t} /\ t.left = 4
                     /\ c.mem = Phase[w.left] /\ c.late = TRUE
        BY <3>2
      <4>2. Operations' = {t}
        BY <2>2, <4>1
      <4>3. t.left \in 1..4 /\ Phase[4] = "Submit"
        BY <4>1 DEF Phase
      <4>4. MemOf({t}) = Phase[t.left] /\ LateOf({t}) = FALSE
        BY <4>3, OneOperationSeen
      <4>5. Pair({t})
        BY PairOf
      <4> QED
        BY <4>1, <4>2, <4>3, <4>4, <4>5
    <3>3. w.left # 4
      BY <1>12
    <3> QED
      BY <1>10, <3>1, <3>2, <3>3, Zenon
  <2>4. Phase[1] = "Release"
    BY DEF Phase
  <2>5. \E o \in Decide(c, Cardinality(done)) :
          Leads(o, c, "MEM_block", FALSE, TRUE, 0, FALSE, m, FALSE, 0, 0)
    BY <1>4, <1>9, <1>12, <2>3, <2>4, LeftoverRelease
  <2>6. m \in MemStates
    BY <1>11
  <2> HIDE DEF m
  <2>7. SeenMem' = m /\ SeenLate' = FALSE
    BY <2>1, <2>3, SeenAfter
  <2>8. CoveredStep
    BY <1>2, <1>3, <1>5, <1>9, <1>11, <1>12, <2>1, <2>5, <2>6, <2>7, TickCovered DEF c
  <2>9. Ending'
    BY <1>6, <1>8, <1>12, <2>3 DEF Ending
  <2> QED
    BY <1>2, <1>3, <1>5, <2>8, <2>9 DEF CoverBody
<1>13. CASE w.left \in 2..4
  <2>1. Over = TRUE
    BY <1>3, <1>8, <1>13 DEF Over
  <2>2. PICK v, sent, taken :
          /\ FsmStep(Phase[w.left], Cardinality(done), Phase[v.left], sent, taken)
          /\ Cardinality(dram') = Cardinality(dram) + sent
          /\ Cardinality(done') = Cardinality(done) - taken
    BY <1>5, <1>13
  <2>3. Cardinality(done) \in Nat
    BY <1>0, FS_CardinalityType
  <2>4. \E o \in Decide(c, Cardinality(done)) :
          Leads(o, c, "MEM_block", TRUE, TRUE, 0, c.agu, "None", FALSE, sent, taken)
    <3>1. CASE c.mem = Phase[w.left]
      <4> DEFINE next == Phase[v.left]
      <4>1. FsmStep(c.mem, Cardinality(done), next, sent, taken)
        BY <2>2, <3>1
      <4> HIDE DEF next
      <4> QED
        BY <1>4, <2>3, <4>1, LeftoverCase
    <3>2. CASE w.left = 4 /\ c.late = TRUE
      <4>1. Phase[w.left] = "Submit"
        BY <3>2 DEF Phase
      <4>2. sent = 1 /\ taken = 0
        BY <2>2, <4>1 DEF FsmStep
      <4> QED
        BY <1>4, <3>2, <4>2, LateCase
    <3> QED
      BY <1>10, <3>1, <3>2
  <2>5. SeenMem' = "None" /\ SeenLate' = FALSE
    BY <2>1, SeenAfter
  <2>6. CoveredStep
    BY <1>2, <1>3, <1>9, <1>11, <2>1, <2>2, <2>4, <2>5, TickCovered DEF c
  <2>7. Ending'
    BY <1>2, <2>1 DEF Ending
  <2> QED
    BY <1>2, <1>3, <1>5, <2>6, <2>7 DEF CoverBody
<1>14. w.left = 1 \/ w.left \in 2..4
  BY <1>1
<1> QED
  BY <1>12, <1>13, <1>14

-----------------------------------------------------------------------------
(* All steps.                                                               *)

LEMMA TickCovers ==
  ASSUME CanFinish, PipeInv, CoverInv, Tick
  PROVE  CoverInv' /\ (excepted' \/ panicked' \/ CoveredStep)
<1>1. CASE panicked' \/ excepted'
  BY <1>1 DEF CoverInv
<1>2. CASE ~panicked' /\ ~excepted'
  <2>1. CoverBody
    <3>1. excepted' = (excepted \/ WinnerReason(Won) = "exception")
      BY <1>2, TickIs
    <3>2. ~panicked
      BY DEF Tick
    <3> QED
      BY <1>2, <3>1, <3>2 DEF CoverInv
  <2>2. CoverBody' /\ CoveredStep
    <3>1. CASE EndsOf(Active) # {}
      BY <1>2, <2>1, <3>1, EndStep
    <3>2. CASE EndsOf(Active) = {} /\ Operations = {} /\ Asked
      BY <1>2, <2>1, <3>2, HeldStep
    <3>3. CASE EndsOf(Active) = {} /\ Operations = {} /\ ~Asked
      BY <1>2, <2>1, <3>3, QuietStep
    <3>4. CASE EndsOf(Active) = {} /\ Operations # {} /\ ~cpu.prog_end_seen
      BY <1>2, <2>1, <3>4, RunningStep
    <3>5. CASE EndsOf(Active) = {} /\ Operations # {} /\ cpu.prog_end_seen
      BY <1>2, <2>1, <3>5, LeftoverStep
    <3> QED
      BY <3>1, <3>2, <3>3, <3>4, <3>5, Zenon
  <2> QED
    BY <2>2 DEF CoverInv
<1> QED
  BY <1>1, <1>2

\* A step that leaves the latches alone, and all signals but the pause's.
LEMMA KeptStep ==
  ASSUME PipeInv, CoverBody, UNCHANGED <<arch, latches>>,
         sigs' \subseteq sigs, BlocksOf(sigs') = BlocksOf(sigs), EndsOf(sigs') = EndsOf(sigs),
         \A s \in sigs' : s.reason = "external_pause" => cpu'.ext_pause_requested,
         cpu'.prog_end_seen = cpu.prog_end_seen, cpu'.finished = cpu.finished,
         cpu'.winner \in {cpu.winner, "none"}, IsFiniteSet(dram'), IsFiniteSet(done')
  PROVE  CoverBody' /\ Abstracted' = SeenAs(cpu')
<1>1. UNCHANGED <<vrf, idex, exagu, agumem, memwb, fwd>>
  BY DEF arch, latches
<1>2. MemSignals' = MemSignals /\ InMem' = InMem /\ OwnBlock' = OwnBlock
  BY <1>1 DEF MemSignals, InMem, OwnBlock
<1>3. Operations' = Operations
  BY <1>2, NextOperations DEF Operations
<1>4. SignalsKept'
  BY DEF SignalsKept, CoverBody
<1>5. ResultsThere'
  BY <1>1 DEF ResultsThere, CoverBody, Failed
<1>6. HeldBeforeEnd'
  <2>1. ExEqual' <=> ExEqual
    BY <1>1 DEF ExEqual, ExTests, ExWaits, ExVec
  <2> QED
    BY <2>1 DEF HeldBeforeEnd, CoverBody
<1>7. OneOperation'
  <2>1. OneOperation
    BY DEF CoverBody
  <2> QED
    BY <1>1, <1>2, <2>1 DEF OneOperation
<1>8. Ending'
  <2>1. Ending
    BY DEF CoverBody
  <2> QED
    BY <1>1, <1>3, <2>1 DEF Ending
<1>9. SeenMem' = SeenMem /\ SeenLate' = SeenLate /\ EndingOf(sigs') = EndingOf(sigs)
  BY <1>3 DEF SeenMem, SeenLate, EndingOf
<1>10. Abstracted' = SeenAs(cpu')
  BY <1>1, <1>9, AbstractedIs DEF SeenAs
<1> QED
  BY <1>4, <1>5, <1>6, <1>7, <1>8, <1>10 DEF CoverBody

\* What the engine sees of operations is one of CgoCpu's states.
LEMMA SeenParts ==
  ASSUME PipeInv, CoverBody
  PROVE  /\ EndingOf(sigs) \in 0..2 /\ HasMem(exagu) \in BOOLEAN
         /\ SeenMem \in MemStates /\ SeenLate \in BOOLEAN
<1>1. EndingOf(sigs) \in 0..2
  BY EndsAre DEF CoverBody
<1>2. CASE cpu.finished
  BY <1>1, <1>2 DEF SeenMem, SeenLate, HasMem, MemStates
<1>3. CASE ~cpu.finished
  BY <1>1, <1>3, OperationsPair DEF SeenMem, SeenLate, HasMem, CoverBody
<1> QED
  BY <1>2, <1>3

\* A record that has two fields already is not changed by setting them.
LEMMA SetAgain ==
  ASSUME NEW c \in CpuState, c.mem = "None", c.late = FALSE
  PROVE  Renamed(c, "None", FALSE) = c
<1>1. [c EXCEPT !.mem = "None", !.late = FALSE] = c
  BY DEF CpuState
<1> QED
  BY <1>1, Zenon DEF Renamed

LEMMA IdleCovers ==
  ASSUME PipeInv, CoverBody, IdleTick
  PROVE  CoverBody' /\ CoveredStep
<1>0. /\ SignalsKept /\ CpuTyped(cpu) /\ cpu.finished /\ UNCHANGED <<arch, latches, dram, done>>
      /\ sigs' = SigsBefore /\ cpu' = Decided /\ IsFiniteSet(dram) /\ IsFiniteSet(done)
  BY DEF PipeInv, CoverBody, IdleTick, Decided
<1>1. /\ sigs' \subseteq sigs /\ BlocksOf(sigs') = BlocksOf(sigs) /\ EndsOf(sigs') = EndsOf(sigs)
      /\ \A s \in sigs' : s.reason = "external_pause" => cpu'.ext_pause_requested
  BY <1>0, BeforeIs, DecidedIs
<1>2. CoverBody' /\ Abstracted' = SeenAs(cpu')
  BY <1>0, <1>1, DecidedIs, KeptStep
<1> DEFINE x == SeenAs(cpu')
<1>3. SeenMem = "None" /\ SeenLate = FALSE
  BY <1>0 DEF SeenMem, SeenLate
<1>4. PrepareResumeTick(Abstracted) = x
  BY <1>0, SeenParts, PrepareSeen, AbstractedIs DEF SeenAs, Decided
<1>5. x \in CpuState /\ x.finished = TRUE /\ x.mem = "None" /\ x.late = FALSE
  <2>1. CpuTyped(cpu') /\ cpu'.finished = TRUE
    BY <1>0, DecidedIs DEF CpuTyped
  <2> QED
    BY <1>3, <2>1, SeenParts, ViewedType DEF SeenAs
<1> HIDE DEF x
<1>6. Settled(x) = x
  <2>1. Settled(x) = Renamed(x, "None", FALSE)
    <3>1. Settles(x, "None", FALSE) /\ "None" \in MemStates /\ FALSE \in BOOLEAN
      BY <1>5 DEF Settles, MemStates
    <3> QED
      BY <1>5, <3>1, SettledOf
  <2>2. Renamed(x, "None", FALSE) = x
    BY <1>5, SetAgain
  <2> QED
    BY <2>1, <2>2
<1>7. Outcome(x, 0, 0) \in TickCpu(Abstracted, Cardinality(done))
  BY <1>4, <1>5, Zenon DEF TickCpu
<1>8. Outcome(x, 0, 0).cpu = x /\ Outcome(x, 0, 0).sent = 0 /\ Outcome(x, 0, 0).taken = 0
  BY DEF Outcome
<1>9. /\ Cardinality(dram') = Cardinality(dram) + 0 /\ Cardinality(done') = Cardinality(done) - 0
  BY <1>0, FS_CardinalityType
<1>10. CoveredStep
  BY <1>2, <1>6, <1>7, <1>8, <1>9 DEF CoveredStep, x
<1> QED
  BY <1>2, <1>10

LEMMA PauseCovers ==
  ASSUME PipeInv, CoverBody, Pause
  PROVE  CoverBody' /\ CoveredStep
<1>0. /\ SignalsKept /\ CpuTyped(cpu) /\ UNCHANGED <<arch, latches, sigs, dram, done>>
      /\ cpu' = SignalPause(cpu) /\ IsFiniteSet(dram) /\ IsFiniteSet(done)
  BY DEF PipeInv, CoverBody, Pause
<1>1. /\ cpu'.ext_pause_requested /\ cpu'.prog_end_seen = cpu.prog_end_seen
      /\ cpu'.finished = cpu.finished /\ cpu'.winner = cpu.winner
  BY <1>0 DEF SignalPause, CpuTyped
<1>2. CoverBody' /\ Abstracted' = SeenAs(cpu')
  BY <1>0, <1>1, KeptStep
<1>3. SeenAs(cpu') = SignalPause(Abstracted)
  BY <1>0, SeenParts, HandshakeSeen, AbstractedIs DEF SeenAs
<1> QED
  BY <1>2, <1>3 DEF CoveredStep

LEMMA ResumedIs ==
  ASSUME NEW c, CpuTyped(c)
  PROVE  /\ SignalResume(c).prog_end_seen = c.prog_end_seen
         /\ SignalResume(c).finished = c.finished
         /\ SignalResume(c).winner \in {c.winner, "none"}
         /\ ResumeCycles # 0 => SignalResume(c).ext_pause_requested
<1> DEFINE Answer(p) == [c EXCEPT !.pause_ready_delay_started = FALSE,
                                  !.ext_signal_delay_remaining = ResumeCycles,
                                  !.resume_delay_pending = p,
                                  !.ready4ext_sig = ~p]
           pending == ResumeCycles # 0
           r == Answer(pending)
<1>1. ResumeCycles \in 0..MaxDelay
  BY CpuDelays DEF MaxDelay
<1>2. /\ CpuTyped(r) /\ r.prog_end_seen = c.prog_end_seen /\ r.finished = c.finished
      /\ r.winner = c.winner
  BY <1>1 DEF CpuTyped
<1>3. SignalResume(c) = IF pending THEN [r EXCEPT !.ext_pause_requested = TRUE] ELSE ClearPause(r)
  BY Zenon DEF SignalResume
<1> HIDE DEF r
<1> QED
  BY <1>2, <1>3 DEF CpuTyped, ClearPause

LEMMA ResumeCovers ==
  ASSUME PipeInv, CoverBody, Resume
  PROVE  CoverBody' /\ CoveredStep
<1>0. /\ SignalsKept /\ CpuTyped(cpu) /\ UNCHANGED <<arch, latches, dram, done>>
      /\ sigs' = (IF ResumeCycles = 0 THEN Cleared(sigs, "external_pause") ELSE sigs)
      /\ cpu' = SignalResume(cpu) /\ IsFiniteSet(dram) /\ IsFiniteSet(done)
  BY DEF PipeInv, CoverBody, Resume
<1>1. /\ sigs' \subseteq sigs /\ BlocksOf(sigs') = BlocksOf(sigs) /\ EndsOf(sigs') = EndsOf(sigs)
      /\ \A s \in sigs' : s.reason = "external_pause" => ResumeCycles # 0
  BY <1>0 DEF Cleared, BlocksOf, EndsOf
<1>2. CoverBody' /\ Abstracted' = SeenAs(cpu')
  BY <1>0, <1>1, ResumedIs, KeptStep
<1>3. SeenAs(cpu') = SignalResume(Abstracted)
  BY <1>0, SeenParts, ResumeSeen, AbstractedIs DEF SeenAs
<1> QED
  BY <1>2, <1>3 DEF CoveredStep

LEMMA RespondCovers ==
  ASSUME PipeInv, CoverBody, Respond
  PROVE  CoverBody' /\ CoveredStep
<1>0. /\ SignalsKept /\ UNCHANGED <<arch, latches, sigs, cpu>>
      /\ IsFiniteSet(dram) /\ IsFiniteSet(done)
  BY DEF CoverBody, Respond
<1>1. PICK k \in dram : dram' = dram \ {k} /\ done' = done \cup {k}
  BY DEF Respond
<1>2. IsFiniteSet(dram') /\ IsFiniteSet(done')
  BY <1>0, <1>1, FS_RemoveElement, FS_AddElement
<1>3. CoverBody' /\ Abstracted' = SeenAs(cpu')
  BY <1>0, <1>2, KeptStep DEF SignalsKept
<1>4. SeenAs(cpu') = Abstracted
  BY <1>0, AbstractedIs
<1> QED
  BY <1>3, <1>4 DEF CoveredStep

LEMMA InitCovers == Init => CoverInv
<1> SUFFICES ASSUME Init PROVE CoverBody
  BY DEF CoverInv
<1>1. cpu.prog_end_seen = FALSE /\ cpu.winner = "none"
  BY DEF Init, Start, NewCpu
<1>2. sigs = {} /\ exagu = <<>> /\ agumem = <<>> /\ fwd = <<>>
  BY DEF Init
<1>3. IsFiniteSet(dram) /\ IsFiniteSet(done)
  BY FS_EmptySet DEF Init
<1>4. SignalsKept /\ ResultsThere
  BY <1>2 DEF SignalsKept, ResultsThere, Failed
<1>5. HeldBeforeEnd /\ OneOperation /\ Ending
  BY <1>1, <1>2 DEF HeldBeforeEnd, OneOperation, Ending, BlocksOf
<1> QED
  BY <1>3, <1>4, <1>5 DEF CoverBody

LEMMA CoverStep ==
  ASSUME CanFinish, PipeInv, CoverInv, Next
  PROVE  CoverInv' /\ (excepted' \/ panicked' \/ CoveredStep)
<1>1. CASE Tick
  BY <1>1, TickCovers
<1>2. CASE IdleTick \/ Pause \/ Resume \/ Respond
  <2>1. excepted' = excepted /\ panicked' = panicked
    BY <1>2 DEF IdleTick, Pause, Resume, Respond
  <2>2. CASE excepted \/ panicked
    BY <2>1, <2>2 DEF CoverInv
  <2>3. CASE CoverBody
    BY <1>2, <2>3, IdleCovers, PauseCovers, ResumeCovers, RespondCovers DEF CoverInv
  <2> QED
    BY <2>2, <2>3 DEF CoverInv
<1> QED
  BY <1>1, <1>2 DEF Next

\* As long as no exception has won and no tick has unwound: a pause never
\* freezes an exit that EX has found; while the program runs the scoreboard
\* knows of one memory operation, the one in MEM or the one that has just left
\* it; and once its end has been seen the exit goes on to WB with nothing
\* behind it, and at most one operation more has entered MEM.
THEOREM CoverInvariant ==
  ASSUME CanFinish PROVE Spec => []CoverInv
<1>1. PipeInv /\ CoverInv /\ [Next]_vars => CoverInv'
  <2> SUFFICES ASSUME PipeInv, CoverInv, [Next]_vars PROVE CoverInv'
    OBVIOUS
  <2>1. CASE Next
    BY <2>1, CoverStep
  <2>2. CASE UNCHANGED vars
    <3>1. UNCHANGED <<excepted, panicked>>
      BY <2>2 DEF vars
    <3>2. CASE excepted \/ panicked
      BY <3>1, <3>2 DEF CoverInv
    <3>3. CASE CoverBody
      <4>1. UNCHANGED <<arch, latches, sigs, cpu, dram, done>>
        BY <2>2 DEF vars
      <4> QED
        BY <3>3, <4>1, KeptStep DEF CoverInv, CoverBody, SignalsKept
    <3> QED
      BY <3>2, <3>3 DEF CoverInv
  <2> QED
    BY <2>1, <2>2
<1> QED
  BY <1>1, InitCovers, PipeInvariant, PTL DEF Spec

\* The engine's model of its processor is right about the pipeline: each of its
\* steps is one of CgoCpu's, with the same handshake, the same requests and the
\* same end, whatever program, memory and descriptors the boot has left.
THEOREM CoversThePipeline ==
  ASSUME CanFinish PROVE Spec => CoveredByCgoCpu
<1>1. PipeInv /\ CoverInv /\ [Next]_vars => [excepted' \/ panicked' \/ CoveredStep]_vars
  BY CoverStep
<1> QED
  BY <1>1, PipeInvariant, CoverInvariant, PTL DEF Spec, CoveredByCgoCpu

=============================================================================
