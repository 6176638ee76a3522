----------------------------- MODULE CpuPipeline ----------------------------
(***************************************************************************)
(* The CGO processor's six stages with their data (src/cpu/pipeline.rs and *)
(* the eval functions of IF.rs to WB.rs): latches between the stages,      *)
(* bypasses into EX and AGU, the scoreboard that stalls and flushes, the   *)
(* registers and the typed memory, and the handshake of CgoCpu around it.  *)
(*                                                                         *)
(* The engine is the environment: it pauses and resumes the processor,     *)
(* clocks it and moves its requests to and from the DRAM.  The processor   *)
(* has been started, and the boot has filled the pointer registers and the *)
(* AGU's table; programs and memories come from sets of them.  Addrs, the  *)
(* descriptors and the pointer registers are those of data: the chunks the *)
(* boot has read, and the descriptor of the program, are not among them.   *)
(***************************************************************************)
EXTENDS CgoCpu, CpuInst, SignalScoreboard, FiniteSets

CONSTANTS Programs, Memories,            \* what the boot may have left
          PcBits, VRegs, FRegs, Addrs,
          MaxPauses                      \* bound: pauses in a behaviour

\* An instruction names registers that there are and a place it can jump to.
InstOK(i) ==
  /\ i.v1 \in VRegs /\ i.v2 \in VRegs /\ i.f \in FRegs /\ i.fd \in FRegs /\ i.imm \in Nat
  /\ i.op = "JUMP" => i.imm \in 0 .. (2 ^ PcBits - 1)

EntryOK(e) ==
  \/ e = FM!AbsentEntry
  \/ e.tag \in {"Untyped", "Data"} /\ e.val \in Vectors
  \/ e.tag = "FatPtr" /\ e.val \in Pointers

ASSUME CpuPipelineAssumption ==
  /\ PcBits \in Nat /\ 2 ^ PcBits \in Nat \ {0} /\ MaxPauses \in Nat
  /\ 0 \in VRegs \cap FRegs /\ FRegs \subseteq DOMAIN Descriptors /\ Addrs \subseteq Nat
  /\ \A p \in Programs : /\ Len(p) \in Nat /\ DOMAIN p = 1 .. Len(p)
                         /\ \A k \in DOMAIN p : InstOK(p[k])
  /\ \A m \in Memories : DOMAIN m = Addrs /\ \A a \in Addrs : EntryOK(m[a])
  /\ \A t \in DOMAIN Descriptors : \A k \in 0 .. Descriptors[t].bound :
       k < Descriptors[t].bound => Descriptors[t].base + k \in Addrs

VARIABLES prog,      \* imem
          pc, vrf, frf,
          mem,       \* cpu_flat_mem
          ifid, idex, exagu, agumem, memwb,   \* latches: a sequence of at most one
          fwd,       \* wb_forward_rf
          sigs,      \* active_sig
          cpu,       \* CgoCpu's record; agu, mem, late and ending stay unused
          dram, done,    \* requests the engine has, responses in the portal
          panicked,      \* a tick has unwound
          excepted,      \* history: an exception has won a decision
          pauses

latches == <<ifid, idex, exagu, agumem, memwb, fwd>>
arch == <<prog, pc, vrf, frf, mem>>
vars == <<arch, latches, sigs, cpu, dram, done, panicked, excepted, pauses>>

\* An instruction on its way: what ALU, AGU or memory made of it, the address
\* it has been given, the data it stores.
Flight(at, i) == [pc |-> at, inst |-> i, result |-> {}, paddr |-> 0, data |-> Zeros]

Init ==
  /\ prog \in Programs /\ mem \in Memories
  /\ pc = 0
  /\ vrf = [r \in VRegs |-> Zeros]
  /\ frf = [r \in FRegs |-> Pointer(r, 0)]
  /\ ifid = <<>> /\ idex = <<>> /\ exagu = <<>> /\ agumem = <<>> /\ memwb = <<>>
  /\ fwd = <<>>
  /\ sigs = {}
  /\ cpu = Start(NewCpu)
  /\ dram = {} /\ done = {}
  /\ panicked = FALSE /\ excepted = FALSE /\ pauses = 0

-----------------------------------------------------------------------------
(* Bypasses (src/cpu/pipeline_util.rs).  The youngest older instruction     *)
(* that writes the register decides; it offers nothing while it is a load   *)
(* in front of MEM, or when it has failed.                                  *)

Writes(latch, file, r) ==
  latch # <<>> /\ File(latch[1].inst) = file /\ latch[1].inst.rd = r

Bypass(order, file, r, committed) ==
  LET hits == {k \in DOMAIN order : Writes(order[k], file, r)}
  IN IF hits = {} THEN {committed}
     ELSE order[CHOOSE k \in hits : \A l \in hits : k <= l][1].result

\* Mutant: EX looks at MEM/WB before AGU/MEM.
ExVecSwapped(r) ==
  IF r = 0 THEN {Zeros} ELSE Bypass(<<exagu, memwb, agumem, fwd>>, "V", r, vrf[r])

\* ex_bypass_get_vreg, agu_bypass_get_rs1 and agu_bypass_get_frs
ExVec(r) == IF r = 0 THEN {Zeros} ELSE Bypass(<<exagu, agumem, memwb, fwd>>, "V", r, vrf[r])
AguVec(r) == IF r = 0 THEN {Zeros} ELSE Bypass(<<agumem, memwb, fwd>>, "V", r, vrf[r])
AguPtr(r) == Bypass(<<agumem, memwb, fwd>>, "F", r, frf[r])

-----------------------------------------------------------------------------
(* The stages: what each would put into its latch, and what it complains    *)
(* about.  A complaint is a set of at most one signal.                      *)

Fetched(p) == IF p < Len(prog) THEN prog[p + 1] ELSE Nop

\* eval_IF and eval_ID; a jump goes no further than ID.
IfNext == <<Flight(pc, Fetched(pc))>>
Jumps == ifid # <<>> /\ ifid[1].inst.op = "JUMP"
IdNext == IF Jumps THEN <<>> ELSE ifid
IdSignals == IF Jumps THEN {Signal("jump_resolution", "ID")} ELSE {}

\* eval_EX
Tests(i) == i.op = "EqualExit"
ExWaits ==
  /\ idex # <<>>
  /\ LET i == idex[1].inst
     IN (i.op \in AluOps \/ Tests(i)) /\ {} \in {ExVec(i.v1), ExVec(i.v2)}
ExTests == idex # <<>> /\ Tests(idex[1].inst) /\ ~ExWaits
ExEqual == ExTests /\ ExVec(idex[1].inst.v1) = ExVec(idex[1].inst.v2)
ExNext ==
  IF idex = <<>> \/ ExWaits THEN <<>>
  ELSE LET i == idex[1].inst
       IN <<[idex[1] EXCEPT !.result =
              IF i.op \in AluOps THEN {Alu(i.op, Only(ExVec(i.v1)), Only(ExVec(i.v2)))}
              ELSE {}]>>
ExSignals ==
  CASE ExWaits -> {Signal("RAW_resolution", "EX")}
    [] ExEqual -> {Signal("prog_end", "EX")}
    [] OTHER   -> {}

\* eval_AGU
AguWaits ==
  /\ exagu # <<>>
  /\ LET i == exagu[1].inst
     IN \/ (IsMem(i) \/ i.op \in Moves) /\ AguPtr(i.f) = {}
        \/ i.op \in Moves \cup {"ST128"} /\ AguVec(i.v1) = {}
        \/ i.op = "FatPtrST" /\ AguPtr(i.fd) = {}
AguReady == exagu # <<>> /\ ~AguWaits
AguInst == exagu[1].inst
Ptr == Only(AguPtr(AguInst.f))
Vec == Only(AguVec(AguInst.v1))
AguPanics == AguReady /\ Overflows(AguInst, Ptr, Vec)
AguRejects == AguReady /\ Rejects(AguInst, Ptr, Vec)
AguNext ==
  IF ~AguReady \/ AguRejects THEN <<>>
  ELSE LET i == AguInst
       IN <<[exagu[1] EXCEPT
              !.result = IF i.op \in Moves THEN MovedPtr(i, Ptr, Vec) ELSE @,
              !.paddr = IF IsMem(i) THEN Translate(Ptr) ELSE 0,
              !.data = CASE i.op = "ST128" -> Vec
                         [] i.op = "FatPtrST" -> Only(AguPtr(i.fd))
                         [] OTHER -> @]>>
AguSignals ==
  CASE AguWaits   -> {Signal("RAW_resolution", "AGU")}
    [] AguRejects -> {Signal("exception", "AGU")}
    [] OTHER      -> {}

\* eval_MEM
InMem == agumem # <<>> /\ IsMem(agumem[1].inst)
Line(paddr) == paddr \div LineEntries
MemNext ==
  IF agumem = <<>> THEN <<>>
  ELSE <<[inst |-> agumem[1].inst, result |-> Loaded(mem, agumem[1])]>>
MemSignals ==
  IF InMem THEN {Block(Line(agumem[1].paddr), agumem[1].inst.op \in Loads)} ELSE {}

\* eval_WB
WbFails == memwb # <<>> /\ File(memwb[1].inst) # "None" /\ memwb[1].result = {}
WbSignals == IF WbFails THEN {Signal("exception", "WB")} ELSE {}

-----------------------------------------------------------------------------
(* CPU::tick *)

Serious(raised) == \E s \in raised : s.reason \in {"exception", "prog_end"}

\* check_ext_pause: while a pause is asked for, every stage up to AGU asks for
\* it too instead of what it wanted.
Masked(paused, issuer, raised) ==
  IF paused /\ ~Serious(raised) THEN {Signal("external_pause", issuer)} ELSE raised

Raised(paused) ==
  WbSignals \cup MemSignals
    \cup Masked(paused, "AGU", AguSignals) \cup Masked(paused, "EX", ExSignals)
    \cup Masked(paused, "ID", IdSignals) \cup Masked(paused, "IF", {})

\* What the stages want of the program counter.
PcWishes(paused) ==
  {w \in {<<"AGU", pc, AguRejects>>,
          <<"EX", pc, ExTests /\ ~ExEqual /\ ~paused>>,
          <<"ID", IF Jumps THEN ifid[1].inst.imm ELSE 0, Jumps /\ ~paused>>,
          <<"IF", pc, paused>>} : w[3]}

\* arch_update: two wishes for one destination are a panic.
PcAfter(act, wishes) ==
  CASE wishes # {} -> (CHOOSE w \in wishes : TRUE)[2]
    [] wishes = {} /\ act["IF"] # "Normal" -> pc
    [] OTHER -> (pc + 1) % 2 ^ PcBits

\* Mutant: a stage that goes on takes what a held one still works on.
LatchedAnyway(producer, consumer, old, next) ==
  IF consumer = "Stall" THEN old ELSE IF consumer = "Normal" THEN next ELSE <<>>

\* stage_op
Latched(producer, consumer, old, next) ==
  IF consumer = "Stall" THEN old
  ELSE IF producer = "Normal" /\ consumer = "Normal" THEN next ELSE <<>>

Latch(act) ==
  /\ ifid' = Latched(act["IF"], act["ID"], ifid, IfNext)
  /\ idex' = Latched(act["ID"], act["EX"], idex, IdNext)
  /\ exagu' = Latched(act["EX"], act["AGU"], exagu, ExNext)
  /\ agumem' = Latched(act["AGU"], act["MEM"], agumem, AguNext)
  /\ memwb' = Latched(act["MEM"], act["WB"], memwb, MemNext)
  /\ fwd' = IF act["MEM"] = "Normal" /\ act["WB"] = "Normal" /\ MemNext # <<>>
            THEN MemNext ELSE fwd

\* A load fixes its entry's type whenever it is looked at.
Memory(act) ==
  LET x == agumem[1]
  IN IF ~InMem THEN mem
     ELSE IF act["MEM"] = "Normal" THEN Stored(Touched(mem, x), x) ELSE Touched(mem, x)

Registers(act) ==
  IF memwb # <<>> /\ act["WB"] = "Normal"
  THEN /\ vrf' = WrittenV(vrf, memwb[1].inst, memwb[1].result)
       /\ frf' = WrittenF(frf, memwb[1].inst, memwb[1].result)
  ELSE UNCHANGED <<vrf, frf>>

KeyOf(s) == [line |-> s.line, isRead |-> s.isRead]
Sends(winner) ==
  {KeyOf(s) : s \in {w \in winner : w.reason = "MEM_block" /\ Phase[w.left] = "Submit"}}
Takes(winner) ==
  {KeyOf(s) : s \in {w \in winner : w.reason = "MEM_block" /\ Phase[w.left] = "Stall"}}
    \cap done

WinnerReason(winner) == IF winner = {} THEN "none" ELSE Only(winner).reason

\* The processor's record after the decision, d before it.
CpuAfter(d, winner) ==
  LET seen == d.prog_end_seen \/ WinnerReason(winner) = "prog_end"
      c == UpdateExtsigRdy([d EXCEPT !.winner = WinnerReason(winner),
                                     !.prog_end_seen = seen])
  IN [c EXCEPT !.finished = seen /\ exagu' = <<>> /\ agumem' = <<>> /\ memwb' = <<>>]

\* prepare_resume_tick's share of the scoreboard
SigsBefore ==
  IF cpu.resume_delay_pending /\ cpu.ext_signal_delay_remaining = 0
  THEN Cleared(sigs, "external_pause") ELSE sigs

Panic ==
  /\ panicked' = TRUE
  /\ UNCHANGED <<arch, latches, sigs, cpu, dram, done, excepted>>

Obey(d, active, winner, act) ==
  LET wishes == {w \in PcWishes(d.ext_pause_requested) : act[w[1]] = "Normal"}
  IN IF Cardinality(wishes) > 1 THEN Panic
     ELSE /\ pc' = PcAfter(act, wishes)
          /\ mem' = Memory(act)
          /\ Registers(act)
          /\ Latch(act)
          /\ sigs' = After(active, winner, Takes(winner) # {})
          /\ dram' = dram \cup Sends(winner)
          /\ done' = done \ Takes(winner)
          /\ cpu' = CpuAfter(d, winner)
          /\ excepted' = (excepted \/ WinnerReason(winner) = "exception")
          /\ UNCHANGED <<prog, panicked>>

\* CPU::tick: what every stage complains about, the scoreboard's decision, and
\* its consequences.  (A singleton's quantifier computes its value once.)
Tick ==
  /\ ~cpu.finished /\ ~panicked
  /\ IF AguPanics THEN Panic
     ELSE \E d \in {PrepareResumeTick(cpu)} :
          \E active \in {Submitted(SigsBefore, Raised(d.ext_pause_requested))} :
          \E winner \in {Winner(active)} :
          \E act \in {Decision(winner)} :
             Obey(d, active, winner, act)
  /\ UNCHANGED pauses

\* A finished processor returns at once.
IdleTick ==
  /\ cpu.finished /\ ~panicked
  /\ cpu' = PrepareResumeTick(cpu)
  /\ sigs' = SigsBefore
  /\ UNCHANGED <<arch, latches, dram, done, panicked, excepted, pauses>>

-----------------------------------------------------------------------------
(* The engine between two ticks: it pauses a processor that is not under a  *)
(* pause, though perhaps still counting a resume (CgoEngine), and resumes   *)
(* one that has acknowledged the pause.                                     *)

Pause ==
  /\ pauses < MaxPauses /\ ~panicked
  /\ cpu.ext_pause_requested => cpu.resume_delay_pending
  /\ cpu' = SignalPause(cpu)
  /\ pauses' = pauses + 1
  /\ UNCHANGED <<arch, latches, sigs, dram, done, panicked, excepted>>

Resume ==
  /\ cpu.ext_pause_requested /\ ~cpu.resume_delay_pending /\ cpu.ready4ext_sig
  /\ ~panicked
  /\ cpu' = SignalResume(cpu)
  /\ sigs' = IF ResumeCycles = 0 THEN Cleared(sigs, "external_pause") ELSE sigs
  /\ UNCHANGED <<arch, latches, dram, done, panicked, excepted, pauses>>

Respond ==
  /\ ~panicked
  /\ \E k \in dram : dram' = dram \ {k} /\ done' = done \cup {k}
  /\ UNCHANGED <<arch, latches, sigs, cpu, panicked, excepted, pauses>>

Next == Tick \/ IdleTick \/ Pause \/ Resume \/ Respond

Spec == Init /\ [][Next]_vars

\* The engine clocks a started processor in every tick of its own, resumes
\* what it has paused, and the DRAM answers.
FairSpec == Spec /\ WF_vars(Tick \/ IdleTick) /\ WF_vars(Resume) /\ WF_vars(Respond)

-----------------------------------------------------------------------------
(* Properties *)

FlightOK(x) ==
  /\ x.pc \in 0 .. (2 ^ PcBits - 1)
  /\ x.result \subseteq (IF File(x.inst) = "F" THEN Pointers ELSE Vectors)
  /\ Cardinality(x.result) <= 1
  /\ x.paddr \in Addrs \cup {0}
  /\ x.data \in (IF x.inst.op = "FatPtrST" THEN Pointers \cup {Zeros} ELSE Vectors)

ProducedOK(x) == x.result \subseteq (IF File(x.inst) = "F" THEN Pointers ELSE Vectors)

SignalOK(s) ==
  /\ s.reason \in DOMAIN Priority /\ s.issuer \in Stages
  /\ s.left \in 1 .. Steps[s.reason]
  /\ s.reason # "MEM_block" => s.line = 0 /\ ~s.isRead

\* Type invariant: what is computed, moved, loaded and decoded keeps its width,
\* and no address ever leaves the bank.
TypeOK ==
  /\ pc \in 0 .. (2 ^ PcBits - 1)
  /\ vrf \in [VRegs -> Vectors] /\ frf \in [FRegs -> Pointers]
  /\ DOMAIN mem = Addrs /\ \A a \in Addrs : EntryOK(mem[a])
  /\ \A l \in {ifid, idex, exagu, agumem} : l # <<>> => Len(l) = 1 /\ FlightOK(l[1])
  /\ \A l \in {memwb, fwd} : l # <<>> => Len(l) = 1 /\ ProducedOK(l[1])
  /\ \A s \in sigs : SignalOK(s)
  /\ cpu.ext_signal_delay_remaining \in 0..MaxDelay
  /\ panicked \in BOOLEAN /\ pauses \in 0..MaxPauses

Running == ~cpu.finished /\ ~panicked

Blocks == {s \in sigs : s.reason = "MEM_block"}

\* Every request the processor has out, and every response it has not taken,
\* is waited for by exactly one FSM of the scoreboard, and by one that has
\* been told its line and direction; nothing is asked for twice at a time.
\* (signal_scoreboard.rs:168 drops a signal whose key is active;
\* mem_portal.rs matches responses by line and direction alone.)
RequestsAwaited ==
  /\ {KeyOf(s) : s \in {b \in Blocks : Phase[b.left] = "Stall"}} = dram \cup done
  /\ dram \cap done = {}
  /\ \A s, t \in Blocks : KeyOf(s) = KeyOf(t) => s = t

-----------------------------------------------------------------------------
(* What the programmer sees: instructions in MEM and WB have happened.      *)

Retired(latch) == IF latch = <<>> THEN [inst |-> Nop, result |-> {}] ELSE latch[1]

AbsVrf ==
  LET w == Retired(memwb)  m == Retired(MemNext)
  IN WrittenV(WrittenV(vrf, w.inst, w.result), m.inst, m.result)
AbsFrf ==
  LET w == Retired(memwb)  m == Retired(MemNext)
  IN WrittenF(WrittenF(frf, w.inst, w.result), m.inst, m.result)
AbsMem == IF InMem THEN Stored(Touched(mem, agumem[1]), agumem[1]) ELSE mem

AbsTrapped ==
  \/ WbFails
  \/ InMem /\ agumem[1].inst.op \in Loads /\ Loaded(mem, agumem[1]) = {}

AbsEnded ==
  exagu = <<>> /\ (cpu.prog_end_seen \/ \E s \in sigs : s.reason = "prog_end")

Prog == INSTANCE CpuIsa WITH pc <- 0, vrf <- AbsVrf, frf <- AbsFrf, mem <- AbsMem,
                            trapped <- AbsTrapped, ended <- AbsEnded
AbsPc ==
  CASE AbsEnded -> Prog!Spinning
    [] ~AbsEnded /\ exagu # <<>> -> exagu[1].pc
    [] ~AbsEnded /\ exagu = <<>> /\ idex # <<>> -> idex[1].pc
    [] OTHER -> Prog!Landing(IF ifid # <<>> THEN ifid[1].pc ELSE pc)

\* The pipeline with its bypasses, stalls, flushes, pauses and its DRAM
\* computes what the program says, one instruction after the other.  An exception
\* loses at most the two instructions behind the one it interrupts, and a third
\* that waits in the AGU for a failed load; nothing executes twice.
InOrder == INSTANCE CpuIsa WITH pc <- AbsPc, vrf <- AbsVrf, frf <- AbsFrf, mem <- AbsMem,
                                trapped <- AbsTrapped, ended <- AbsEnded
ExecutesInOrder == InOrder!Spec

-----------------------------------------------------------------------------
(* The engine's model of the processor covers it. *)

Least(S) == CHOOSE n \in S : \A m \in S : n <= m

\* The processor as CgoCpu describes it.
Abstracted ==
  LET blocks == Submitted(Blocks, MemSignals)
      held == blocks # {} /\ ~cpu.finished
      ends == {s.left : s \in {t \in sigs : t.reason = "prog_end"}}
  IN [cpu EXCEPT
        !.winner = IF @ \in Reasons THEN @ ELSE "none",
        !.ending = IF ends = {} THEN 0 ELSE Least(ends),
        !.agu = exagu # <<>> /\ IsMem(exagu[1].inst),
        !.mem = IF held THEN Phase[Least({s.left : s \in blocks})] ELSE "None",
        !.late = held /\ Cardinality(blocks) > 1]

\* Names that make no difference: of what a finished processor leaves behind,
\* and of a second operation once it is the only one.
Settled(c) ==
  CASE c.finished -> [c EXCEPT !.mem = "None", !.late = FALSE]
    [] ~c.finished /\ c.late /\ c.mem = "None" -> [c EXCEPT !.mem = "Submit", !.late = FALSE]
    [] OTHER -> c

CoveredStep ==
  \/ Abstracted' \in {Abstracted, SignalPause(Abstracted), SignalResume(Abstracted)}
  \/ \E o \in TickCpu(Abstracted, Cardinality(done)) :
       /\ Settled(o.cpu) = Abstracted'
       /\ Cardinality(dram') = Cardinality(dram) + o.sent
       /\ Cardinality(done') = Cardinality(done) - o.taken

\* Until the first exception or panic every step of the pipeline is one that
\* CgoCpu, which the engine is checked with, allows: same handshake, same
\* requests, same end.  Nothing is said of the steps after it.
CoveredByCgoCpu ==
  [][excepted' \/ panicked' \/ CoveredStep]_vars

\* The stages never wait for each other for ever: until the program is over
\* there is again and again a tick in which nothing holds any of them,
\* whatever has been stalled, paused or in the DRAM.  (Of programs that do not
\* loop over a load that fails: who reads its register a second time may wait for
\* ever, see LoopsOverFailure in MCCpuPipeline.)
NeverStuck ==
  []<>(cpu.finished \/ panicked \/ cpu.winner \in {"none", "jump_resolution"})

=============================================================================
