---------------------------- MODULE CgoPimProofs ----------------------------
(***************************************************************************)
(* The PIM side of a CGO engine, for every program, table, delay and DRAM: *)
(* no request of the boot controller or of the CPU is lost or waited for   *)
(* in vain, an engine of the host's wakes no processor, and the scheduler  *)
(* is fair to the CPU when a resume takes at most one tick.                *)
(***************************************************************************)
EXTENDS CgoEngineProofs

-----------------------------------------------------------------------------
(* A tick of the CPU: what it sends and takes, and when it leaves it held.  *)

\* The request a MEM_block in Stall waits for.
Waits(c) == IF c.mem = "Stall" THEN 1 ELSE 0

\* Of an outcome o of a CPU c that had not finished.
Balanced(c, o) ==
  /\ o.cpu.finished \/ Waits(o.cpu) + o.taken = Waits(c) + o.sent
  /\ Held(o.cpu) => ~o.cpu.finished /\ c.ext_pause_requested

LEMMA EndTickBalanced ==
  ASSUME NEW c \in CpuState, NEW o \in EndTick(c)
  PROVE  Balanced(c, o)
<1> DEFINE e == [c EXCEPT !.winner = "prog_end",
                          !.prog_end_seen = TRUE,
                          !.ending = IF c.prog_end_seen THEN @ - 1 ELSE 2,
                          !.agu = FALSE]
<1>1. Balanced(c, Outcome(e, 0, 0))
  BY DEF Balanced, Outcome, Waits, Held, CpuState
<1>2. c.mem = "None" => Balanced(c, Outcome([e EXCEPT !.mem = "Submit"], 0, 0))
  BY DEF Balanced, Outcome, Waits, Held, CpuState
<1>3. \A b \in BOOLEAN : Balanced(c, Outcome([e EXCEPT !.late = b], 0, 0))
  BY DEF Balanced, Outcome, Waits, Held, CpuState
<1>4. o \in IF ~c.agu THEN {Outcome(e, 0, 0)}
             ELSE IF c.mem = "None" THEN {Outcome([e EXCEPT !.mem = "Submit"], 0, 0)}
             ELSE {Outcome([e EXCEPT !.late = b], 0, 0) : b \in BOOLEAN}
  BY DEF EndTick
<1> HIDE DEF e
<1> QED
  BY <1>1, <1>2, <1>3, <1>4

LEMMA MemTickBalanced ==
  ASSUME NEW c \in CpuState, NEW resp \in Nat, c.mem # "None"
  PROVE  Balanced(c, MemTick(c, resp)) /\ ~Held(MemTick(c, resp).cpu)
<1>1. c.mem \in {"Submit", "Stall", "WriteBack", "Release"}
  BY DEF CpuState, MemStates
<1> DEFINE m == [c EXCEPT !.winner = "MEM_block"]
<1>2. m \in CpuState /\ ~Held(m) /\ m.mem = c.mem
  BY DEF Held, CpuState, Reasons
<1>3. \A s \in MemStates :
        [m EXCEPT !.mem = s].mem = s /\ ~Held([m EXCEPT !.mem = s])
  BY <1>2 DEF Held, CpuState
<1>4. CASE c.mem = "Submit"
  <2> DEFINE n == [m EXCEPT !.mem = "Stall"]
  <2>1. MemTick(c, resp) = Outcome(n, 1, 0)
    BY <1>4 DEF MemTick
  <2>2. n.mem = "Stall" /\ ~Held(n)
    BY <1>3 DEF MemStates
  <2> HIDE DEF n
  <2> QED
    BY <1>4, <2>1, <2>2 DEF Outcome, Balanced, Waits
<1>5. CASE c.mem = "Stall" /\ resp = 0
  <2>1. MemTick(c, resp) = Outcome(m, 0, 0)
    BY <1>5 DEF MemTick
  <2> HIDE DEF m
  <2> QED
    BY <1>2, <1>5, <2>1 DEF Outcome, Balanced, Waits
<1>6. CASE c.mem = "Stall" /\ resp > 0
  <2> DEFINE n == [m EXCEPT !.mem = "WriteBack"]
  <2>1. MemTick(c, resp) = Outcome(n, 0, 1)
    BY <1>6 DEF MemTick
  <2>2. n.mem = "WriteBack" /\ ~Held(n)
    BY <1>3 DEF MemStates
  <2> HIDE DEF n
  <2> QED
    BY <1>6, <2>1, <2>2 DEF Outcome, Balanced, Waits
<1>7. CASE c.mem = "WriteBack"
  <2> DEFINE n == [m EXCEPT !.mem = "Release"]
  <2>1. MemTick(c, resp) = Outcome(n, 0, 0)
    BY <1>7 DEF MemTick
  <2>2. n.mem = "Release" /\ ~Held(n)
    BY <1>3 DEF MemStates
  <2> HIDE DEF n
  <2> QED
    BY <1>7, <2>1, <2>2 DEF Outcome, Balanced, Waits
<1>8. CASE c.mem = "Release"
  <2> DEFINE s == IF c.agu THEN "Submit" ELSE "None"
             r == [m EXCEPT !.mem = s, !.agu = FALSE]
  <2>1. MemTick(c, resp) = Outcome(r, 0, 0)
    BY <1>8 DEF MemTick
  <2>2. r.mem # "Stall" /\ ~Held(r)
    BY DEF Held, CpuState
  <2> HIDE DEF r
  <2> QED
    BY <1>8, <2>1, <2>2 DEF Outcome, Balanced, Waits
<1> QED
  BY <1>1, <1>4, <1>5, <1>6, <1>7, <1>8

LEMMA LeftoverTickBalanced ==
  ASSUME NEW c \in CpuState, NEW resp \in Nat, c.mem # "None" \/ c.late,
         NEW o \in LeftoverTick(c, resp)
  PROVE  Balanced(c, o)
<1> DEFINE last == [c EXCEPT !.winner = "MEM_block", !.finished = TRUE]
           main == IF c.mem = "Release" THEN MemTick(c, resp)
                   ELSE [MemTick(c, resp) EXCEPT !.cpu.finished = TRUE]
<1>1. Balanced(c, Outcome([last EXCEPT !.late = FALSE], 1, 0))
  BY DEF Balanced, Outcome, Held, CpuState
<1>2. ASSUME c.mem # "None" PROVE Balanced(c, main)
  <2>1. Balanced(c, MemTick(c, resp)) /\ ~Held(MemTick(c, resp).cpu)
    BY <1>2, MemTickBalanced
  <2>2. MemTick(c, resp) \in Outcomes(resp)
    BY <1>2, MemTickType
  <2>3. ASSUME NEW p \in Outcomes(resp), ~Held(p.cpu)
        PROVE  Balanced(c, [p EXCEPT !.cpu.finished = TRUE])
    BY <2>3 DEF Balanced, Held, CpuState, Outcomes
  <2> QED
    BY <2>1, <2>2, <2>3
<1>3. o \in (IF c.mem # "None" THEN {main} ELSE {})
              \cup (IF c.late THEN {Outcome([last EXCEPT !.late = FALSE], 1, 0)} ELSE {})
  BY Zenon DEF LeftoverTick
<1> HIDE DEF last, main
<1> QED
  BY <1>1, <1>2, <1>3

LEMMA RunTickBalanced ==
  ASSUME NEW c \in CpuState, c.mem = "None", NEW o \in RunTick(c)
  PROVE  Balanced(c, o)
<1> DEFINE r == [c EXCEPT !.winner = "none"]
<1>1. Balanced(c, Outcome([r EXCEPT !.finished = TRUE], 0, 0))
  BY DEF Balanced, Outcome, Held, CpuState
<1>2. ASSUME NEW a \in BOOLEAN
      PROVE Balanced(c, Outcome([r EXCEPT !.mem = IF c.agu THEN "Submit" ELSE "None",
                                          !.agu = a], 0, 0))
  BY DEF Balanced, Outcome, Waits, Held, CpuState
<1>3. CASE Draining(c)
  <2>1. o = Outcome([r EXCEPT !.finished = TRUE], 0, 0)
    BY <1>3 DEF RunTick
  <2> QED
    BY <2>1, <1>1
<1>4. CASE ~Draining(c)
  <2>1. PICK a \in BOOLEAN :
          o = Outcome([r EXCEPT !.mem = IF c.agu THEN "Submit" ELSE "None", !.agu = a], 0, 0)
    BY <1>4, Zenon DEF RunTick
  <2> QED
    BY <2>1, <1>2
<1> QED
  BY <1>3, <1>4

LEMMA UndisturbedBalanced ==
  ASSUME NEW c \in CpuState, NEW resp \in Nat, HandshakeSound(c), c.ending = 0,
         ~c.finished, NEW o \in Undisturbed(c, resp)
  PROVE  Balanced(c, o)
<1>1. CASE c.mem # "None" \/ c.late
  <2>1. CASE Draining(c)
    <3>1. o \in LeftoverTick(c, resp)
      BY <1>1, <2>1 DEF Undisturbed
    <3> QED
      BY <1>1, <3>1, LeftoverTickBalanced
  <2>2. CASE ~Draining(c)
    <3>1. c.mem # "None"
      BY <1>1, <2>2 DEF Draining, HandshakeSound
    <3>2. o = MemTick(c, resp)
      BY <2>2, <3>1 DEF Undisturbed
    <3> QED
      BY <3>1, <3>2, MemTickBalanced
  <2> QED
    BY <2>1, <2>2
<1>2. CASE c.mem = "None" /\ ~c.late /\ c.ext_pause_requested
  <2>1. o = Outcome([c EXCEPT !.winner = "external_pause"], 0, 0)
    BY <1>2 DEF Undisturbed
  <2>2. Balanced(c, Outcome([c EXCEPT !.winner = "external_pause"], 0, 0))
    BY <1>2 DEF Balanced, Outcome, Waits, Held, CpuState
  <2> QED
    BY <2>1, <2>2
<1>3. CASE c.mem = "None" /\ ~c.late /\ ~c.ext_pause_requested
  <2>1. o \in RunTick(c)
    BY <1>3 DEF Undisturbed
  <2> QED
    BY <1>3, <2>1, RunTickBalanced
<1> QED
  BY <1>1, <1>2, <1>3 DEF CpuState

LEMMA DecideBalanced ==
  ASSUME NEW c \in CpuState, NEW resp \in Nat, HandshakeSound(c), ~c.finished,
         NEW o \in Decide(c, resp)
  PROVE  Balanced(c, o)
<1>1. CASE c.ending > 0
  BY <1>1, EndTickBalanced DEF Decide
<1>2. CASE ~(c.ending > 0)
  <2>1. c.ending = 0
    BY <1>2 DEF CpuState
  <2>2. o \in Undisturbed(c, resp) \/ o \in EndTick(c)
    BY <1>2 DEF Decide
  <2> QED
    BY <2>1, <2>2, EndTickBalanced, UndisturbedBalanced
<1> QED
  BY <1>1, <1>2

LEMMA DecideDecided ==
  ASSUME NEW c \in CpuState, NEW resp \in Nat, HandshakeSound(c), NEW o \in Decide(c, resp)
  PROVE  Decided(c, o.cpu)
<1>1. CASE c.ending > 0
  BY <1>1, EndTickDecided DEF Decide
<1>2. CASE ~(c.ending > 0)
  <2>1. c.ending = 0
    BY <1>2 DEF CpuState
  <2>2. o \in Undisturbed(c, resp) \/ (MayRaiseEnd(c) /\ o \in EndTick(c))
    BY <1>2 DEF Decide
  <2> QED
    BY <2>1, <2>2, EndTickDecided, UndisturbedDecided
<1> QED
  BY <1>1, <1>2

\* The handshake's bookkeeping touches neither the memory operation nor the end
\* of the program, nor what the scoreboard decided.
LEMMA UpdateExtsigRdyQuiet ==
  ASSUME NEW d \in CpuState
  PROVE  /\ UpdateExtsigRdy(d).mem = d.mem /\ UpdateExtsigRdy(d).finished = d.finished
         /\ Held(UpdateExtsigRdy(d)) = Held(d)
<1> DEFINE counting == d.resume_delay_pending \/ d.ext_signal_delay_remaining > 0
           accepted == d.pause_ready_delay_started \/ d.winner = "external_pause"
<1>1. CASE counting
  BY <1>1 DEF UpdateExtsigRdy, Held, CpuState
<1>2. CASE ~counting /\ ~d.ext_pause_requested
  BY <1>2 DEF UpdateExtsigRdy, Held, CpuState
<1>3. CASE ~counting /\ d.ext_pause_requested /\ ~accepted
  BY <1>3 DEF UpdateExtsigRdy, Held, CpuState
<1>4. CASE ~counting /\ d.ext_pause_requested /\ accepted
  BY <1>4 DEF UpdateExtsigRdy, Held, CpuState
<1> QED
  BY <1>1, <1>2, <1>3, <1>4 DEF CpuState

\* Held neither before its start nor after its end.
CpuQuiet(c) ==
  /\ ~c.started => /\ c.mem = "None" /\ ~c.finished
                   /\ ~c.ext_pause_requested /\ ~Held(c)
  /\ c.finished => ~Held(c)

\* A CPU that nobody pauses, and one that is over its resume in k ticks.
Resumed(c) == ~c.ext_pause_requested /\ ~Held(c)
BackIn(c, k) ==
  \/ c.finished \/ Resumed(c)
  \/ c.resume_delay_pending /\ c.ext_signal_delay_remaining <= k

LEMMA PrepareResumeTickQuiet ==
  ASSUME NEW c \in CpuState, CpuQuiet(c), c.started
  PROVE  LET d == PrepareResumeTick(c)
         IN /\ CpuQuiet(d) /\ d.started /\ d.mem = c.mem /\ d.finished = c.finished
            /\ BackIn(c, 1) => Resumed(d) \/ d.finished
                                 \/ (d.resume_delay_pending /\ d.ext_signal_delay_remaining = 1)
            /\ BackIn(c, 0) => Resumed(d) \/ d.finished
<1>1. c.ext_signal_delay_remaining \in Nat
  BY DelaysAreNat DEF CpuState
<1>2. CASE c.resume_delay_pending /\ c.ext_signal_delay_remaining = 0
  BY <1>2 DEF PrepareResumeTick, ClearPause, CpuQuiet, BackIn, Resumed, Held, CpuState
<1>3. CASE ~(c.resume_delay_pending /\ c.ext_signal_delay_remaining = 0)
  BY <1>1, <1>3 DEF PrepareResumeTick, BackIn, Resumed
<1> QED
  BY <1>2, <1>3

LEMMA UpdateExtsigRdyCounts ==
  ASSUME NEW d \in CpuState, d.resume_delay_pending, d.ext_signal_delay_remaining = 1
  PROVE  /\ UpdateExtsigRdy(d).resume_delay_pending
         /\ UpdateExtsigRdy(d).ext_signal_delay_remaining = 0
<1>1. UpdateExtsigRdy(d) = [d EXCEPT !.ext_signal_delay_remaining = Dec(@),
                                     !.ready4ext_sig = FALSE]
  BY DEF UpdateExtsigRdy
<1>2. Dec(1) = 0
  BY DEF Dec
<1>3. UpdateExtsigRdy(d).ext_signal_delay_remaining = Dec(d.ext_signal_delay_remaining)
  BY <1>1 DEF CpuState
<1>4. UpdateExtsigRdy(d).resume_delay_pending = d.resume_delay_pending
  BY <1>1 DEF CpuState
<1> QED
  BY <1>2, <1>3, <1>4

\* Every tick is balanced, and a resume of one tick lets the CPU run in the next.
LEMMA TickCpuBalanced ==
  ASSUME NEW c \in CpuState, NEW resp \in Nat, HandshakeSound(c), CpuQuiet(c), c.started,
         NEW o \in TickCpu(c, resp)
  PROVE  /\ CpuQuiet(o.cpu)
         /\ c.finished => o.cpu.finished
         /\ o.cpu.finished \/ Waits(o.cpu) + o.taken = Waits(c) + o.sent
         /\ BackIn(c, 1) => BackIn(o.cpu, 0)
         /\ BackIn(c, 0) => ~Held(o.cpu)
<1> DEFINE d == PrepareResumeTick(c)
<1>1. d \in CpuState /\ HandshakeSound(d)
  BY PrepareResumeTickType, PrepareResumeTickSound
<1>2. /\ CpuQuiet(d) /\ d.started /\ d.mem = c.mem /\ d.finished = c.finished
      /\ BackIn(c, 1) => Resumed(d) \/ d.finished
                           \/ (d.resume_delay_pending /\ d.ext_signal_delay_remaining = 1)
      /\ BackIn(c, 0) => Resumed(d) \/ d.finished
  BY PrepareResumeTickQuiet
<1>3. o \in IF d.finished THEN {Outcome(d, 0, 0)}
             ELSE {[p EXCEPT !.cpu = UpdateExtsigRdy(p.cpu)] : p \in Decide(d, resp)}
  BY DEF TickCpu
<1> HIDE DEF d
<1>4. CASE d.finished
  <2>1. o.cpu = d
    BY <1>3, <1>4 DEF Outcome
  <2> QED
    BY <1>2, <1>4, <2>1 DEF CpuQuiet, BackIn
<1>5. CASE ~d.finished
  <2>1. PICK p \in Decide(d, resp) : o = [p EXCEPT !.cpu = UpdateExtsigRdy(p.cpu)]
    BY <1>3, <1>5
  <2>2. p \in Outcomes(resp)
    BY <1>1, DecideType
  <2>3. /\ p.cpu \in CpuState /\ o.cpu = UpdateExtsigRdy(p.cpu)
        /\ o.sent = p.sent /\ o.taken = p.taken
    BY <2>1, <2>2 DEF Outcomes
  <2>4. Balanced(d, p)
    BY <1>1, <1>5, DecideBalanced
  <2>5. /\ o.cpu.mem = p.cpu.mem /\ o.cpu.finished = p.cpu.finished
        /\ Held(o.cpu) = Held(p.cpu)
    BY <2>3, UpdateExtsigRdyQuiet
  <2>6. o.cpu.started /\ Decided(d, p.cpu)
    <3>1. o.cpu.started = c.started
      BY TickCpuSound
    <3>2. Decided(d, p.cpu)
      BY <1>1, DecideDecided
    <3> QED
      BY <3>1, <3>2
  <2>7. o.cpu.finished \/ Waits(o.cpu) + o.taken = Waits(c) + o.sent
    BY <1>2, <2>3, <2>4, <2>5 DEF Balanced, Waits
  <2>8. Held(o.cpu) => ~o.cpu.finished /\ d.ext_pause_requested
    BY <2>4, <2>5 DEF Balanced
  <2>9. CpuQuiet(o.cpu)
    BY <2>6, <2>8 DEF CpuQuiet
  <2>10. ASSUME Resumed(d) PROVE Resumed(o.cpu)
    <3>1. o.cpu.ext_pause_requested = p.cpu.ext_pause_requested
      BY <1>1, <2>3, <2>6, UpdateExtsigRdySound
    <3> QED
      BY <2>6, <2>8, <2>10, <3>1 DEF Resumed, Decided, SameRequest
  <2>11. ASSUME d.resume_delay_pending, d.ext_signal_delay_remaining = 1
         PROVE  o.cpu.resume_delay_pending /\ o.cpu.ext_signal_delay_remaining = 0
    BY <2>3, <2>6, <2>11, UpdateExtsigRdyCounts DEF Decided, SameRequest
  <2> QED
    BY <1>2, <1>5, <2>7, <2>8, <2>9, <2>10, <2>11 DEF BackIn, Resumed
<1> QED
  BY <1>4, <1>5

-----------------------------------------------------------------------------
(* A tick of the boot controller.                                           *)

\* Requests are pending in the two phases that wait for them only.
BootCounts(b) ==
  b.state \notin {"DRAM2AGU_stall", "DRAM2IMEM_stall"} => b.pending = 0

LEMMA AwaitPhaseBalanced ==
  ASSUME NEW b \in BootState, NEW req \in Nat, NEW resp \in Nat, NEW next,
         b.state \in {"DRAM2AGU_stall", "DRAM2IMEM_stall"},
         NEW o, o = AwaitPhase(b, req, resp, next)
  PROVE  BootCounts(o.boot) /\ o.boot.pending + o.taken = b.pending + o.sent
<1> DEFINE left == IF resp < b.pending THEN b.pending - resp ELSE 0
           d == [b EXCEPT !.pending = left,
                          !.state = IF req = 0 /\ left = 0 THEN next ELSE @]
<1>1. b.pending \in Nat /\ left \in Nat
  BY DEF BootState
<1>2. d.pending = left /\ (d.state = b.state \/ left = 0)
  BY DEF BootState
<1>3. o = BootOutcome(d, 0, b.pending - left)
  BY Zenon DEF AwaitPhase
<1> HIDE DEF left, d
<1>4. o.boot = d /\ o.sent = 0 /\ o.taken = b.pending - left
  BY <1>3 DEF BootOutcome
<1> QED
  BY <1>1, <1>2, <1>4 DEF BootCounts

LEMMA SubmitChunkReadsBalanced ==
  ASSUME NEW b \in BootState, b.pending = 0, NEW n \in Nat,
         NEW next \in {"DRAM2AGU_stall", "DRAM2IMEM_stall"},
         NEW o, o = SubmitChunkReads(b, n, next)
  PROVE  BootCounts(o.boot) /\ o.boot.pending + o.taken = b.pending + o.sent
<1> DEFINE d == [b EXCEPT !.state = next, !.pending = n]
<1>1. d.state = next /\ d.pending = n
  BY DEF BootState
<1>2. o.boot = d /\ o.sent = n /\ o.taken = 0
  BY DEF SubmitChunkReads, BootOutcome
<1> HIDE DEF d
<1> QED
  BY <1>1, <1>2 DEF BootCounts

LEMMA TickBootBalanced ==
  ASSUME NEW b \in BootState, BootCounts(b), NEW req \in Nat, NEW resp \in Nat,
         NEW o \in TickBoot(b, req, resp)
  PROVE  BootCounts(o.boot) /\ o.boot.pending + o.taken = b.pending + o.sent
<1>1. b.state \in BootStates /\ b.chunks \in Nat /\ b.pending \in Nat
  BY DEF BootState
<1>2. CASE b.state \in {"IDLE", "Finished"}
  <2>1. o = BootOutcome(b, 0, 0)
    BY <1>2 DEF TickBoot
  <2> QED
    BY <1>1, <2>1 DEF BootOutcome
<1>3. CASE b.state = "DRAM2AGU_submit"
  <2>1. o = SubmitChunkReads(b, AguChunks, "DRAM2AGU_stall")
    BY <1>3 DEF TickBoot
  <2>2. b.pending = 0 /\ AguChunks \in Nat
    BY <1>3, BootAssumption DEF BootCounts
  <2> QED
    BY <2>1, <2>2, SubmitChunkReadsBalanced
<1>4. CASE b.state = "DRAM2AGU_stall"
  <2>1. o = AwaitPhase(b, req, resp, "ReadInsts")
    BY <1>4 DEF TickBoot
  <2> QED
    BY <1>4, <2>1, AwaitPhaseBalanced
<1>5. CASE b.state = "ReadInsts"
  <2>1. TickBoot(b, req, resp) =
          {BootOutcome([b EXCEPT !.state = "DRAM2IMEM_submit", !.chunks = n], 0, 0) :
             n \in ProgramChunks}
    BY <1>5 DEF TickBoot
  <2>2. PICK n \in ProgramChunks :
          o = BootOutcome([b EXCEPT !.state = "DRAM2IMEM_submit", !.chunks = n], 0, 0)
    BY <2>1, Zenon
  <2>3. b.pending = 0
    BY <1>5 DEF BootCounts
  <2>4. /\ o.boot.pending = 0 /\ o.sent = 0 /\ o.taken = 0
    BY <2>2, <2>3 DEF BootOutcome, BootState
  <2> QED
    BY <2>3, <2>4 DEF BootCounts
<1>6. CASE b.state = "DRAM2IMEM_submit"
  <2>1. o = SubmitChunkReads(b, b.chunks, "DRAM2IMEM_stall")
    BY <1>6 DEF TickBoot
  <2>2. b.pending = 0
    BY <1>6 DEF BootCounts
  <2> QED
    BY <1>1, <2>1, <2>2, SubmitChunkReadsBalanced
<1>7. CASE b.state = "DRAM2IMEM_stall"
  <2>1. o = AwaitPhase(b, req, resp, "Finished")
    BY <1>7 DEF TickBoot
  <2> QED
    BY <1>7, <2>1, AwaitPhaseBalanced
<1> QED
  BY <1>1, <1>2, <1>3, <1>4, <1>5, <1>6, <1>7 DEF BootStates

-----------------------------------------------------------------------------
(* The engine.                                                              *)

\* Before it is configured, and when it is the host's, an engine runs nothing.
NoProcessor ==
  scheduling_mode \in {"Unconfigured", "HostOnly"} =>
    /\ boot = NewBoot /\ ~cpu.started
    /\ simcpu_req = 0 /\ simcpu_resp = 0 /\ dram_pim = 0

\* Everything the PIM side has under way, with what the processor p has just
\* sent and taken, is what somebody waits for.
Awaited(underWay, c, b, sent, taken) ==
  IF ~c.started THEN underWay + sent = b.pending + taken
  ELSE ~c.finished => underWay + sent = Waits(c) + taken

UnderWay == simcpu_req + dram_pim + simcpu_resp
UnderWayNext == simcpu_req' + dram_pim' + simcpu_resp'

LEMMA UnderWayPrimed == UnderWay' = UnderWayNext
  BY Zenon DEF UnderWay, UnderWayNext

\* The inductive invariant of the PIM side.
PimInv ==
  /\ Awaited(UnderWay, cpu, boot, 0, 0)
  /\ BootCounts(boot)
  /\ CpuQuiet(cpu)
  /\ NoProcessor

LEMMA InitPimInv == Init => PimInv
<1> SUFFICES ASSUME Init PROVE PimInv
  OBVIOUS
<1>1. CpuQuiet(cpu) /\ ~cpu.started
  BY DEF Init, NewCpu, CpuQuiet, Held
<1>2. BootCounts(boot) /\ boot.pending = 0
  BY DEF Init, NewBoot, BootCounts
<1>3. UnderWay = 0
  BY DEF Init, UnderWay
<1> QED
  BY <1>1, <1>2, <1>3 DEF Init, PimInv, Awaited, NoProcessor

\* What the processor's tick leaves.
ProcessorBalanced(p) ==
  /\ Awaited(UnderWay, p.cpu, p.boot, p.sent, p.taken)
  /\ BootCounts(p.boot) /\ CpuQuiet(p.cpu)
  /\ scheduling_mode = "HostOnly" => p = Idle
  /\ BackIn(cpu, 1) => BackIn(p.cpu, 0)
  /\ BackIn(cpu, 0) => ~Held(p.cpu)

LEMMA IdleBalanced ==
  ASSUME BankInv, PimInv, ~cpu.started PROVE ProcessorBalanced(Idle)
<1>1. /\ Idle.cpu = cpu /\ Idle.boot = boot /\ Idle.sent = 0 /\ Idle.taken = 0
  BY DEF Idle, Processed
<1>2. CpuQuiet(cpu) /\ Resumed(cpu)
  BY DEF PimInv, CpuQuiet, Resumed
<1> QED
  BY <1>1, <1>2 DEF ProcessorBalanced, PimInv, BackIn, Resumed

LEMMA CpuTicksBalanced ==
  ASSUME BankInv, PimInv, cpu.started, scheduling_mode # "HostOnly", NEW p \in CpuTicks
  PROVE  ProcessorBalanced(p)
<1>1. PICK o \in TickCpu(cpu, simcpu_resp) : p = Processed(o.cpu, boot, o.sent, o.taken)
  BY DEF CpuTicks
<1>2. /\ cpu \in CpuState /\ HandshakeSound(cpu) /\ simcpu_resp \in Nat
      /\ UnderWay \in Nat
  BY DEF BankInv, TypeOK, PauseAckedWhenHeld, UnderWay
<1>3. /\ CpuQuiet(o.cpu)
      /\ cpu.finished => o.cpu.finished
      /\ o.cpu.finished \/ Waits(o.cpu) + o.taken = Waits(cpu) + o.sent
      /\ BackIn(cpu, 1) => BackIn(o.cpu, 0)
      /\ BackIn(cpu, 0) => ~Held(o.cpu)
  BY <1>2, TickCpuBalanced DEF PimInv
<1>4. o.cpu.started
  BY <1>2, TickCpuSound
<1>5. p.cpu = o.cpu /\ p.boot = boot /\ p.sent = o.sent /\ p.taken = o.taken
  BY <1>1 DEF Processed
<1>6. o \in Outcomes(simcpu_resp)
  BY <1>2, TickCpuType
<1>7. o.sent \in Nat /\ o.taken \in Nat
  BY <1>2, <1>6 DEF Outcomes
<1>8. ~cpu.finished => UnderWay = Waits(cpu)
  BY <1>2 DEF PimInv, Awaited, Waits
<1>9. ~o.cpu.finished => UnderWay + o.sent = Waits(o.cpu) + o.taken
  BY <1>3, <1>7, <1>8 DEF Waits
<1>10. Awaited(UnderWay, o.cpu, boot, o.sent, o.taken)
  BY <1>4, <1>9 DEF Awaited
<1> QED
  BY <1>3, <1>5, <1>10 DEF ProcessorBalanced, PimInv

LEMMA BootTicksBalanced ==
  ASSUME BankInv, PimInv, ~cpu.started, scheduling_mode # "HostOnly", NEW p \in BootTicks
  PROVE  ProcessorBalanced(p)
<1>1. PICK o \in TickBoot(boot, simcpu_req, simcpu_resp) :
        p = Processed(IF o.boot.state = "Finished" THEN Start(cpu) ELSE cpu,
                      o.boot, o.sent, o.taken)
  BY DEF BootTicks
<1>2. /\ cpu \in CpuState /\ boot \in BootState
      /\ simcpu_req \in Nat /\ simcpu_resp \in Nat /\ UnderWay \in Nat
  BY DEF BankInv, TypeOK, UnderWay
<1>3. BootCounts(o.boot) /\ o.boot.pending + o.taken = boot.pending + o.sent
  BY <1>2, TickBootBalanced DEF PimInv
<1>4. o \in BootOutcomes(simcpu_resp)
  BY <1>2, TickBootType
<1>5. o.sent \in Nat /\ o.taken \in Nat /\ o.boot.pending \in Nat /\ boot.pending \in Nat
  BY <1>2, <1>4 DEF BootOutcomes, BootState
<1>6. UnderWay = boot.pending
  BY <1>2, <1>5 DEF PimInv, Awaited
<1>7. UnderWay + o.sent = o.boot.pending + o.taken
  BY <1>3, <1>5, <1>6
<1>8. CpuQuiet(cpu) /\ Resumed(cpu) /\ cpu.mem = "None" /\ ~cpu.finished
  BY DEF PimInv, CpuQuiet, Resumed
<1>9. CASE o.boot.state = "Finished"
  <2>1. p.cpu = Start(cpu) /\ p.boot = o.boot /\ p.sent = o.sent /\ p.taken = o.taken
    BY <1>1, <1>9 DEF Processed
  <2>2. /\ CpuQuiet(Start(cpu)) /\ Resumed(Start(cpu))
        /\ Start(cpu).started /\ Start(cpu).mem = "None"
    BY <1>2, <1>8 DEF Start, CpuQuiet, Resumed, Held, CpuState
  <2>3. o.boot.pending = 0
    BY <1>3, <1>9 DEF BootCounts
  <2>4. Awaited(UnderWay, Start(cpu), o.boot, o.sent, o.taken)
    BY <1>7, <2>2, <2>3 DEF Awaited, Waits
  <2> QED
    BY <1>3, <2>1, <2>2, <2>4 DEF ProcessorBalanced, BackIn, Resumed
<1>10. CASE o.boot.state # "Finished"
  <2>1. p.cpu = cpu /\ p.boot = o.boot /\ p.sent = o.sent /\ p.taken = o.taken
    BY <1>1, <1>10 DEF Processed
  <2>2. Awaited(UnderWay, cpu, o.boot, o.sent, o.taken)
    BY <1>7 DEF Awaited
  <2> QED
    BY <1>3, <1>8, <2>1, <2>2 DEF ProcessorBalanced, BackIn, Resumed
<1> QED
  BY <1>9, <1>10

LEMMA ProcessorTickBalanced ==
  ASSUME BankInv, PimInv, NEW p \in ProcessorTick PROVE ProcessorBalanced(p)
<1>1. CASE scheduling_mode \in {"Unconfigured", "HostOnly"}
  BY <1>1, IdleBalanced DEF ProcessorTick, PimInv, NoProcessor
<1>2. CASE scheduling_mode \notin {"Unconfigured", "HostOnly"} /\ cpu.started
  BY <1>2, CpuTicksBalanced DEF ProcessorTick
<1>3. CASE scheduling_mode \notin {"Unconfigured", "HostOnly"} /\ ~cpu.started
  <2>1. p = Idle \/ p \in BootTicks
    BY <1>3 DEF ProcessorTick
  <2> QED
    BY <1>3, <2>1, IdleBalanced, BootTicksBalanced
<1> QED
  BY <1>1, <1>2, <1>3

LEMMA ScheduleQuiet ==
  ASSUME NEW c \in CpuState, CpuQuiet(c), NEW stack, Schedule(c, stack)
  PROVE  /\ CpuQuiet(cpu') /\ cpu'.started = c.started
         /\ cpu'.finished = c.finished /\ cpu'.mem = c.mem
<1>1. CASE cpu' = c
  BY <1>1
<1>2. CASE c.started /\ cpu' = SignalPause(c)
  BY <1>2 DEF SignalPause, CpuQuiet, Held, CpuState
<1>3. CASE c.started /\ cpu' = SignalResume(c)
  <2>1. CASE ResumeCycles # 0
    BY <1>3, <2>1 DEF SignalResume, CpuQuiet, Held, CpuState
  <2>2. CASE ResumeCycles = 0
    BY <1>3, <2>2 DEF SignalResume, ClearPause, CpuQuiet, Held, CpuState
  <2> QED
    BY <2>1, <2>2
<1> QED
  BY <1>1, <1>2, <1>3
  DEF Schedule, CgoOnly, HostOnly, PimService, HostService, SwitchDelay

LEMMA SumType ==
  ASSUME NEW a \in Nat, NEW b \in Nat, NEW c \in Nat PROVE a + b + c \in Nat
  OBVIOUS

\* Requests that move on stay under way, those that are taken do not.
LEMMA Conserved ==
  ASSUME NEW req \in Nat, NEW pim \in Nat, NEW resp \in Nat, NEW sent \in Nat,
         NEW taken \in Nat, NEW to \in Nat, NEW e \in Nat
  PROVE  (((req + sent) - to) + ((pim + to) - e) + (resp - taken + e)) + taken
           = (req + pim + resp) + sent
  OBVIOUS

\* What becomes of the PIM side's requests in a tick.
LEMMA TickParts ==
  ASSUME BankInv, PimInv, Tick
  PROVE  \E p, stack :
           /\ ProcessorOk(p) /\ ProcessorBalanced(p)
           /\ Schedule(p.cpu, stack)
           /\ boot' = BootAfterCmds(p.boot)
           /\ ran' = CountRun(p.cpu)
           /\ UNCHANGED scheduling_mode
           /\ UnderWayNext + p.taken = UnderWay + p.sent
           /\ scheduling_mode = "HostOnly" =>
                simcpu_req' = 0 /\ simcpu_resp' = 0 /\ dram_pim' = 0
<1>1. PICK p \in ProcessorTick :
        \E n \in Accepted(IF portal = "PIM" THEN simcpu_req + p.sent ELSE Len(host_req)) :
          \E e \in 0..DramCapacity, h \in SUBSET Reqs, busy \in BOOLEAN :
            TickWith(p, n, e, h, busy)
  BY DEF Tick
<1>2. PICK n \in Accepted(IF portal = "PIM" THEN simcpu_req + p.sent ELSE Len(host_req)) :
        \E e \in 0..DramCapacity, h \in SUBSET Reqs, busy \in BOOLEAN :
            TickWith(p, n, e, h, busy)
  BY <1>1
<1>3. PICK e \in 0..DramCapacity, h \in SUBSET Reqs, busy \in BOOLEAN :
        TickWith(p, n, e, h, busy)
  BY <1>2
<1>4. ProcessorOk(p) /\ ProcessorBalanced(p)
  BY ProcessorTickOk, ProcessorTickBalanced
<1>5. /\ simcpu_req \in Nat /\ simcpu_resp \in Nat /\ dram_pim \in Nat
      /\ portal \in {"PIM", "HOST"}
  BY DEF BankInv, TypeOK
<1>6. n \in Nat /\ (portal = "PIM" => n <= simcpu_req + p.sent)
  BY <1>4, DrainOk DEF BankInv
<1>7. p.sent \in Nat /\ p.taken \in Nat
  BY <1>4, <1>5 DEF ProcessorOk
<1> DEFINE toPim == IF portal = "PIM" THEN n ELSE 0
           stack == Below(host_req, IF portal = "HOST" THEN n ELSE 0)
<1>8. toPim \in Nat /\ (portal = "HOST" => toPim = 0)
  BY <1>6
<1>9. /\ simcpu_req' = (simcpu_req + p.sent) - toPim
      /\ e \in 0..(dram_pim + toPim)
      /\ dram_pim' = (dram_pim + toPim) - e
      /\ simcpu_resp' = simcpu_resp - p.taken + e
  BY <1>3, Zenon DEF TickWith
<1>10. /\ boot' = BootAfterCmds(p.boot)
       /\ ran' = CountRun(p.cpu)
       /\ UNCHANGED scheduling_mode
       /\ Schedule(p.cpu, stack)
  BY <1>3, Zenon DEF TickWith
<1> HIDE DEF toPim, stack
<1>11. UnderWayNext + p.taken = UnderWay + p.sent
  <2>1. e \in Nat
    BY <1>5, <1>8, <1>9
  <2>2. UnderWayNext = ((simcpu_req + p.sent) - toPim) + ((dram_pim + toPim) - e)
                         + (simcpu_resp - p.taken + e)
    BY <1>9, Zenon DEF UnderWayNext
  <2>3. UnderWay = simcpu_req + dram_pim + simcpu_resp
    BY DEF UnderWay
  <2>4. toPim \in Nat
    BY <1>8
  <2>5. (((simcpu_req + p.sent) - toPim) + ((dram_pim + toPim) - e)
            + (simcpu_resp - p.taken + e)) + p.taken
          = (simcpu_req + dram_pim + simcpu_resp) + p.sent
    BY <1>5, <1>7, <2>1, <2>4, Conserved, SMTT(30)
  <2> QED
    BY <2>2, <2>3, <2>5, Zenon
<1>12. ASSUME scheduling_mode = "HostOnly"
       PROVE  simcpu_req' = 0 /\ simcpu_resp' = 0 /\ dram_pim' = 0
  <2>1. portal = "HOST"
    BY <1>12 DEF BankInv, PauseProtocol
  <2>2. simcpu_req = 0 /\ simcpu_resp = 0 /\ dram_pim = 0
    BY <1>12 DEF PimInv, NoProcessor
  <2>3. p.sent = 0 /\ p.taken = 0
    BY <1>4, <1>12 DEF ProcessorBalanced, Idle, Processed
  <2>4. toPim = 0
    BY <1>8, <2>1
  <2>5. e = 0
    BY <1>9, <2>2, <2>4
  <2>6. simcpu_req' = 0 /\ dram_pim' = 0
    BY <1>9, <2>2, <2>3, <2>4, <2>5
  <2>7. simcpu_resp' = 0
    BY <1>9, <2>2, <2>3, <2>5
  <2> QED
    BY <2>6, <2>7
<1> QED
  BY <1>4, <1>10, <1>11, <1>12

LEMMA TickPimInv == ASSUME BankInv, PimInv, BankInv', Tick PROVE PimInv'
<1>1. PICK p, stack :
           /\ ProcessorOk(p) /\ ProcessorBalanced(p)
           /\ Schedule(p.cpu, stack)
           /\ boot' = BootAfterCmds(p.boot)
           /\ ran' = CountRun(p.cpu)
           /\ UNCHANGED scheduling_mode
           /\ UnderWayNext + p.taken = UnderWay + p.sent
           /\ scheduling_mode = "HostOnly" =>
                simcpu_req' = 0 /\ simcpu_resp' = 0 /\ dram_pim' = 0
  BY TickParts
<1>2. /\ p.cpu \in CpuState /\ p.boot \in BootState
      /\ p.sent \in Nat /\ p.taken \in Nat
      /\ UnderWay \in Nat /\ UnderWayNext \in Nat
  <2>1. /\ simcpu_req \in Nat /\ dram_pim \in Nat /\ simcpu_resp \in Nat
        /\ simcpu_req' \in Nat /\ dram_pim' \in Nat /\ simcpu_resp' \in Nat
    BY DEF BankInv, TypeOK
  <2>2. p.cpu \in CpuState /\ p.boot \in BootState /\ p.sent \in Nat /\ p.taken \in Nat
    BY <1>1, <2>1 DEF ProcessorOk
  <2>3. UnderWay \in Nat
    BY <2>1 DEF UnderWay
  <2>4. UnderWayNext \in Nat
    BY <2>1, SumType, Zenon DEF UnderWayNext
  <2> QED
    BY <2>2, <2>3, <2>4
<1>3. /\ CpuQuiet(cpu') /\ cpu'.started = p.cpu.started
      /\ cpu'.finished = p.cpu.finished /\ cpu'.mem = p.cpu.mem
  BY <1>1, <1>2, ScheduleQuiet DEF ProcessorBalanced
<1>4. boot'.pending = p.boot.pending /\ BootCounts(boot')
  <2>1. CASE boot' = p.boot
    BY <1>1, <2>1 DEF ProcessorBalanced
  <2>2. CASE boot' = SetOn(p.boot)
    BY <1>1, <1>2, <2>2 DEF ProcessorBalanced, SetOn, BootCounts, BootState
  <2> QED
    BY <1>1, <2>1, <2>2 DEF BootAfterCmds
<1>5. p.boot.pending \in Nat
  BY <1>2 DEF BootState
<1>6. Awaited(UnderWayNext, cpu', boot', 0, 0)
  <2>1. Awaited(UnderWay, p.cpu, p.boot, p.sent, p.taken)
    BY <1>1 DEF ProcessorBalanced
  <2>2. CASE ~p.cpu.started
    <3>1. UnderWay + p.sent = p.boot.pending + p.taken
      BY <2>1, <2>2 DEF Awaited
    <3>2. UnderWayNext = p.boot.pending
      BY <1>1, <1>2, <1>5, <3>1
    <3> QED
      BY <1>2, <1>3, <1>4, <2>2, <3>2 DEF Awaited
  <2>3. CASE p.cpu.started
    <3>1. ~p.cpu.finished => UnderWay + p.sent = Waits(p.cpu) + p.taken
      BY <2>1, <2>3 DEF Awaited
    <3>2. ~p.cpu.finished => UnderWayNext = Waits(p.cpu)
      BY <1>1, <1>2, <3>1 DEF Waits
    <3>3. Waits(cpu') = Waits(p.cpu)
      BY <1>3 DEF Waits
    <3> QED
      BY <1>2, <1>3, <2>3, <3>2, <3>3 DEF Awaited
  <2> QED
    BY <2>2, <2>3
<1>7. NoProcessor'
  <2>1. scheduling_mode # "Unconfigured"
    BY DEF Tick
  <2>2. ASSUME scheduling_mode = "HostOnly" PROVE boot' = NewBoot /\ ~cpu'.started
    <3>1. p.boot = boot /\ p.cpu = cpu
      BY <1>1, <2>2 DEF ProcessorBalanced, Idle, Processed
    <3>2. boot = NewBoot /\ ~cpu.started
      BY <2>2 DEF PimInv, NoProcessor
    <3> QED
      BY <1>1, <1>3, <2>2, <3>1, <3>2 DEF BootAfterCmds
  <2> QED
    BY <1>1, <2>1, <2>2 DEF NoProcessor
<1> QED
  BY <1>3, <1>4, <1>6, <1>7, UnderWayPrimed, Zenon DEF PimInv

\* The calls between two ticks do not touch the PIM side.
LEMMA CallPimInv ==
  ASSUME PimInv, UNCHANGED <<cpu, boot, simcpu_req, simcpu_resp, dram_pim>>,
         scheduling_mode' = scheduling_mode \/ scheduling_mode = "Unconfigured"
  PROVE  PimInv'
<1>1. UnderWay' = UnderWay
  BY DEF UnderWay
<1>2. Awaited(UnderWay', cpu', boot', 0, 0)
  BY <1>1 DEF PimInv
<1>3. NoProcessor'
  BY DEF PimInv, NoProcessor
<1> QED
  BY <1>2, <1>3 DEF PimInv

LEMMA StepPimInv == ASSUME BankInv, PimInv, BankInv', [Next]_vars PROVE PimInv'
<1>1. CASE \E sm \in Modes : Configure(sm)
  BY <1>1, CallPimInv DEF Configure, pimSide, dram
<1>2. CASE \E r \in Reqs : EnqueueHost(r)
  BY <1>2, CallPimInv DEF EnqueueHost, pimSide, dram
<1>3. CASE \E r \in Starts \cup Queries : EnqueueCmd(r)
  BY <1>3, CallPimInv DEF EnqueueCmd, pimSide, dram
<1>4. CASE \E r \in Reqs \cup Starts \cup Queries : GetHostComplete(r)
  BY <1>4, CallPimInv DEF GetHostComplete, pimSide, dram
<1>5. CASE Tick
  BY <1>5, TickPimInv
<1>6. CASE UNCHANGED vars
  BY <1>6, CallPimInv DEF vars, pimSide, dram
<1> QED
  BY <1>1, <1>2, <1>3, <1>4, <1>5, <1>6 DEF Next

-----------------------------------------------------------------------------
(* The theorems.                                                            *)

\* The PIM side's invariant holds beside that of the bank.
THEOREM PimInvariant == Spec => [](BankInv /\ PimInv)
<1>1. Init => BankInv /\ PimInv
  BY InitBankInv, InitPimInv
<1>2. BankInv /\ PimInv /\ BankInv' /\ [Next]_vars => PimInv'
  BY StepPimInv
<1>3. Spec => []BankInv
  BY BankInvariant
<1> QED
  BY <1>1, <1>2, <1>3, PTL DEF Spec

\* Every request of the PIM side is waited for, and nothing is waited for that
\* was not sent: the boot controller by its count, the CPU by its one MEM_block
\* in Stall (boot_fsm.rs, MEM.rs).
THEOREM EveryPimRequestAwaited == Spec => []PimRequestsAccounted
<1>1. ASSUME BankInv, PimInv PROVE PimRequestsAccounted
  <2>1. UnderWay \in Nat /\ boot.pending \in Nat
    BY <1>1 DEF BankInv, TypeOK, UnderWay, BootState
  <2>2. IF ~cpu.started THEN UnderWay = boot.pending
        ELSE ~cpu.finished => UnderWay = Waits(cpu)
    BY <1>1, <2>1 DEF PimInv, Awaited, Waits
  <2> QED
    BY <2>2, Zenon DEF PimRequestsAccounted, UnderWay, Waits
<1> QED
  BY <1>1, PimInvariant, PTL

\* An engine that is the host's alone never wakes its processor, whatever
\* commands it is sent (process_cgo_cmds, engine.rs).
THEOREM HostsEngineRunsNothing == Spec => []HostOnlyKeepsProcessorOff
<1>1. PimInv => HostOnlyKeepsProcessorOff
  BY DEF PimInv, NoProcessor, HostOnlyKeepsProcessorOff
<1> QED
  BY <1>1, PimInvariant, PTL

-----------------------------------------------------------------------------
(* The scheduler's fairness to the CPU.                                     *)

\* The CPU runs whenever PIM_tick_rec counts: it is back from its resume when
\* the bank is, and until it was paused once there is no batch to make up for.
ShareInv ==
  scheduling_mode \in {"Unconfigured", "Host_CGO_share"} =>
    /\ mode = "PIM" => PIM_tick_rec <= ran /\ BackIn(cpu, 0)
    /\ mode # "PIM" => PIM_tick_rec = 0 /\ first_host_switch_started
    /\ mode = "switch_delay" /\ last_service_mode = "HOST" => BackIn(cpu, 1)
    /\ ~first_host_switch_started => PIM_tick_watermark = 0

LEMMA InitShareInv == Init => ShareInv
<1> SUFFICES ASSUME Init PROVE ShareInv
  OBVIOUS
<1>1. BackIn(cpu, 0)
  BY DEF Init, NewCpu, BackIn, Resumed, Held
<1>2. PIM_tick_rec <= ran
  BY BatchSzIsNat DEF Init
<1> QED
  BY <1>1, <1>2 DEF Init, ShareInv

\* A tick that counts for PIM_tick_rec counts for ran.
LEMMA CountsTogether ==
  ASSUME NEW rec \in 0..(BatchSz + 1), NEW run \in 0..(BatchSz + 1), rec <= run
  PROVE  /\ (IF rec > BatchSz THEN rec ELSE rec + 1) <= (IF run <= BatchSz THEN run + 1 ELSE run)
         /\ rec <= (IF run <= BatchSz THEN run + 1 ELSE run)
  BY BatchSzIsNat

LEMMA SignalResumeBack ==
  ASSUME NEW c \in CpuState, ResumeCycles \in {0, 1} PROVE BackIn(SignalResume(c), 1)
<1>1. CASE ResumeCycles = 0
  BY <1>1 DEF SignalResume, ClearPause, BackIn, Resumed, Held, CpuState
<1>2. CASE ResumeCycles = 1
  <2> DEFINE pending == ResumeCycles # 0
             r == [c EXCEPT !.pause_ready_delay_started = FALSE,
                            !.ext_signal_delay_remaining = ResumeCycles,
                            !.resume_delay_pending = pending,
                            !.ready4ext_sig = ~pending]
             s == [r EXCEPT !.ext_pause_requested = TRUE]
  <2>1. SignalResume(c) = IF pending THEN s ELSE ClearPause(r)
    BY DEF SignalResume
  <2>2. pending
    BY <1>2
  <2>3. r.resume_delay_pending = pending /\ r.ext_signal_delay_remaining = ResumeCycles
    BY Zenon DEF CpuState
  <2>4. /\ s.resume_delay_pending = r.resume_delay_pending
        /\ s.ext_signal_delay_remaining = r.ext_signal_delay_remaining
    BY Zenon DEF CpuState
  <2> HIDE DEF r, s
  <2>5. SignalResume(c).resume_delay_pending
    BY <2>1, <2>2, <2>3, <2>4, Zenon
  <2>6. SignalResume(c).ext_signal_delay_remaining = 1
    BY <1>2, <2>1, <2>2, <2>3, <2>4, Zenon
  <2> QED
    BY <2>5, <2>6 DEF BackIn
<1> QED
  BY <1>1, <1>2

LEMMA BackInGrows ==
  ASSUME NEW c \in CpuState, BackIn(c, 0) PROVE BackIn(c, 1)
  BY DelaysAreNat DEF BackIn, CpuState

\* A tick in Host_CGO_share keeps ShareInv, and leaves the CPU only when it has
\* run long enough.
LEMMA TickShareInv ==
  ASSUME ResumeCycles \in {0, 1}, BankInv, PimInv, ShareInv, Tick,
         scheduling_mode = "Host_CGO_share"
  PROVE  /\ ShareInv'
         /\ mode = "PIM" /\ mode' = "switch_delay" => ran' >= PIM_tick_watermark
<1>1. PICK p, stack :
           /\ ProcessorOk(p) /\ ProcessorBalanced(p)
           /\ Schedule(p.cpu, stack)
           /\ boot' = BootAfterCmds(p.boot)
           /\ ran' = CountRun(p.cpu)
           /\ UNCHANGED scheduling_mode
           /\ UnderWayNext + p.taken = UnderWay + p.sent
           /\ scheduling_mode = "HostOnly" =>
                simcpu_req' = 0 /\ simcpu_resp' = 0 /\ dram_pim' = 0
  BY TickParts
<1>2. /\ cpu \in CpuState /\ PIM_tick_rec \in 0..(BatchSz + 1) /\ ran \in 0..(BatchSz + 1)
      /\ PIM_tick_watermark \in 0..(BatchSz + 1)
      /\ mode \in {"PIM", "HOST", "switch_delay"}
      /\ last_service_mode \in {"PIM", "HOST"}
      /\ first_host_switch_started \in BOOLEAN
  BY DEF BankInv, TypeOK
<1>3. p.cpu \in CpuState /\ CpuQuiet(p.cpu)
  BY <1>1 DEF ProcessorOk, ProcessorBalanced
<1>4. /\ mode = "PIM" => PIM_tick_rec <= ran /\ BackIn(cpu, 0)
      /\ mode # "PIM" => PIM_tick_rec = 0 /\ first_host_switch_started
      /\ mode = "switch_delay" /\ last_service_mode = "HOST" => BackIn(cpu, 1)
      /\ ~first_host_switch_started => PIM_tick_watermark = 0
  BY DEF ShareInv
<1>5. CASE PimService(p.cpu, stack)
  <2>1. mode = "PIM" /\ PIM_tick_watermark' = PIM_tick_watermark
    BY <1>5 DEF PimService
  <2>2. ~Held(p.cpu) /\ BackIn(p.cpu, 0)
    BY <1>1, <1>2, <1>4, <2>1, BackInGrows DEF ProcessorBalanced
  <2>3. ran' = IF ran <= BatchSz THEN ran + 1 ELSE ran
    BY <1>1, <2>1, <2>2 DEF CountRun
  <2> DEFINE run == IF ran <= BatchSz THEN ran + 1 ELSE ran
             rec == IF PIM_tick_rec > BatchSz THEN PIM_tick_rec ELSE PIM_tick_rec + 1
  <2>4. rec <= run /\ PIM_tick_rec <= run /\ run \in Nat
    <3>1. run \in Nat
      BY <1>2, BatchSzIsNat
    <3> QED
      BY <1>2, <1>4, <2>1, <3>1, CountsTogether
  <2>5. CASE ShouldSwitchToHost
    <3>1. mode' = "switch_delay" /\ last_service_mode' = "PIM"
      BY <1>5, <2>1, <2>5 DEF PimService, LeaveMode
    <3>2. PIM_tick_rec' = 0 /\ first_host_switch_started'
      BY <1>5, <2>5 DEF PimService
    <3>3. ShareInv'
      BY <3>1, <3>2 DEF ShareInv
    <3>4. PIM_tick_watermark <= run
      BY <1>2, <1>4, <2>4, <2>5, BatchSzIsNat DEF ShouldSwitchToHost
    <3>5. run >= PIM_tick_watermark
      BY <1>2, <2>4, <3>4
    <3> QED
      BY <2>3, <3>3, <3>5, Zenon
  <2>6. CASE ~ShouldSwitchToHost
    <3>1. /\ mode' = "PIM" /\ PIM_tick_rec' = rec /\ cpu' = p.cpu
          /\ first_host_switch_started' = first_host_switch_started
      BY <1>5, <2>1, <2>6 DEF PimService, KeepMode
    <3>2. PIM_tick_rec' <= ran'
      BY <2>3, <2>4, <3>1, Zenon
    <3> QED
      BY <1>4, <2>1, <2>2, <3>1, <3>2 DEF ShareInv
  <2> QED
    BY <2>5, <2>6
<1>6. CASE HostService(p.cpu, stack)
  <2>1. /\ mode = "HOST" /\ mode' = "switch_delay" /\ last_service_mode' = "HOST"
        /\ PIM_tick_rec' = PIM_tick_rec
        /\ first_host_switch_started' = first_host_switch_started
        /\ cpu' = IF p.cpu.started THEN SignalResume(p.cpu) ELSE p.cpu
    BY <1>6 DEF HostService, LeaveMode
  <2>2. BackIn(SignalResume(p.cpu), 1)
    BY <1>3, SignalResumeBack
  <2>3. ~p.cpu.started => BackIn(p.cpu, 1)
    BY <1>3 DEF CpuQuiet, BackIn, Resumed
  <2>4. BackIn(cpu', 1)
    BY <2>1, <2>2, <2>3
  <2> QED
    BY <1>4, <2>1, <2>4 DEF ShareInv
<1>7. CASE SwitchDelay(p.cpu, stack)
  <2>1. /\ mode = "switch_delay" /\ cpu' = p.cpu
        /\ PIM_tick_rec' = 0 /\ first_host_switch_started'
    BY <1>4, <1>7 DEF SwitchDelay
  <2>2. last_service_mode = "HOST" => BackIn(p.cpu, 0)
    BY <1>1, <1>4, <2>1 DEF ProcessorBalanced
  <2>3. last_service_mode = "HOST" => BackIn(p.cpu, 1)
    BY <1>3, <2>2, BackInGrows
  <2>4. /\ mode' \in {mode, Opposite(last_service_mode)}
        /\ last_service_mode' = last_service_mode
    BY <1>7 DEF SwitchDelay, KeepMode
  <2>5. 0 <= ran'
    <3>1. ran' \in Nat
      BY <1>1, <1>2, BatchSzIsNat DEF CountRun
    <3> QED
      BY <3>1
  <2>6. mode' = "PIM" => last_service_mode = "HOST"
    BY <1>2, <2>1, <2>4 DEF Opposite
  <2> QED
    BY <2>1, <2>2, <2>3, <2>4, <2>5, <2>6 DEF ShareInv
<1> QED
  BY <1>1, <1>5, <1>6, <1>7 DEF Schedule

LEMMA ConfigureShareInv ==
  ASSUME BankInv, PimInv, ShareInv, NEW sm \in Modes, Configure(sm) PROVE ShareInv'
<1>1. mode = "PIM" /\ scheduling_mode = "Unconfigured"
  BY DEF BankInv, PauseProtocol, Configure
<1>2. /\ PIM_tick_rec' = PIM_tick_rec /\ ran' = ran /\ cpu' = cpu
      /\ PIM_tick_watermark' = PIM_tick_watermark
  BY DEF Configure, pimSide
<1>3. CASE sm = "HostOnly"
  BY <1>3 DEF Configure, ShareInv
<1>4. CASE sm # "HostOnly"
  <2>1. mode' = "PIM" /\ first_host_switch_started' = first_host_switch_started
    BY <1>4 DEF Configure, BankInv, TypeOK
  <2>2. PIM_tick_rec <= ran /\ BackIn(cpu, 0)
        /\ (~first_host_switch_started => PIM_tick_watermark = 0)
    BY <1>1 DEF ShareInv
  <2> QED
    BY <1>2, <2>1, <2>2, Zenon DEF ShareInv
<1> QED
  BY <1>3, <1>4

\* The other calls between two ticks leave the scheduler and the CPU alone.
LEMMA CallShareInv ==
  ASSUME ShareInv, UNCHANGED <<scheduling_mode, sched, cpu, ran>> PROVE ShareInv'
  BY Zenon DEF ShareInv, sched

LEMMA StepShareInv ==
  ASSUME ResumeCycles \in {0, 1}, BankInv, PimInv, ShareInv, [Next]_vars
  PROVE  /\ ShareInv'
         /\ (scheduling_mode = "Host_CGO_share" /\ mode = "PIM" /\ mode' = "switch_delay")
              => ran' >= PIM_tick_watermark
<1>1. CASE \E sm \in Modes : Configure(sm)
  <2>1. ShareInv'
    BY <1>1, ConfigureShareInv
  <2> QED
    BY <1>1, <2>1 DEF Configure
<1>2. CASE \/ \E r \in Reqs : EnqueueHost(r)
           \/ \E r \in Starts \cup Queries : EnqueueCmd(r)
           \/ \E r \in Reqs \cup Starts \cup Queries : GetHostComplete(r)
           \/ UNCHANGED vars
  <2>1. UNCHANGED <<scheduling_mode, sched, cpu, ran>>
    BY <1>2 DEF EnqueueHost, EnqueueCmd, GetHostComplete, vars, pimSide
  <2>2. ShareInv' /\ mode' = mode
    BY <2>1, CallShareInv DEF sched
  <2> QED
    BY <2>2
<1>3. CASE Tick
  <2>1. CASE scheduling_mode = "Host_CGO_share"
    BY <1>3, <2>1, TickShareInv
  <2>2. CASE scheduling_mode # "Host_CGO_share"
    <3>1. scheduling_mode # "Unconfigured" /\ scheduling_mode' = scheduling_mode
      BY <1>3, TickParts DEF Tick
    <3> QED
      BY <2>2, <3>1 DEF ShareInv
  <2> QED
    BY <2>1, <2>2
<1> QED
  BY <1>1, <1>2, <1>3 DEF Next

\* When a resume takes at most one tick (the default takes none), the engine
\* pauses the CPU only after it ran, unheld, for at least as many ticks as the
\* last batch had requests (PIM_tick_watermark, schedule_host_cgo_share).  With
\* longer resumes it does not (PimModeAfterResume).
THEOREM CpuGetsItsTicks ==
  ASSUME ResumeCycles \in {0, 1}
  PROVE  Spec => CpuGetsItsShare
<1>1. Init => ShareInv
  BY InitShareInv
<1>2. BankInv /\ PimInv /\ ShareInv /\ [Next]_vars =>
        /\ ShareInv'
        /\ [(scheduling_mode = "Host_CGO_share" /\ mode = "PIM" /\ mode' = "switch_delay")
              => ran' >= PIM_tick_watermark]_vars
  BY StepShareInv
<1>3. Spec => [](BankInv /\ PimInv)
  BY PimInvariant
<1> QED
  BY <1>1, <1>2, <1>3, PTL DEF Spec, CpuGetsItsShare
=============================================================================
