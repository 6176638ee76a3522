---------------------------- MODULE CgoCpuProofs ----------------------------
(***************************************************************************)
(* Facts about the operators of CgoCpu and CgoBoot, for every pause and    *)
(* resume delay, AGU table and program: what a tick returns is typed, and  *)
(* the handshake acknowledges a pause only when the pipeline is held.      *)
(***************************************************************************)
EXTENDS CgoCpu, CgoBoot, TLAPS

LEMMA DelaysAreNat == PauseCycles \in Nat /\ ResumeCycles \in Nat /\ MaxDelay \in Nat
  BY CpuAssumption DEF MaxDelay

LEMMA NewCpuType == NewCpu \in CpuState
  BY DelaysAreNat DEF NewCpu, CpuState, Reasons, MemStates

-----------------------------------------------------------------------------
(* Types of the handshake's operators.                                      *)

LEMMA StartType ==
  ASSUME NEW c \in CpuState PROVE Start(c) \in CpuState
  BY DEF Start, CpuState

LEMMA SignalPauseType ==
  ASSUME NEW c \in CpuState PROVE SignalPause(c) \in CpuState
<1>1. 0 \in 0..MaxDelay
  BY DelaysAreNat
<1> QED
  BY <1>1 DEF SignalPause, CpuState

LEMMA ClearPauseType ==
  ASSUME NEW c \in CpuState PROVE ClearPause(c) \in CpuState
  BY DEF ClearPause, CpuState, Reasons

LEMMA SignalResumeType ==
  ASSUME NEW c \in CpuState PROVE SignalResume(c) \in CpuState
<1>1. ResumeCycles \in 0..MaxDelay
  BY DelaysAreNat DEF MaxDelay
<1>2. ASSUME NEW p \in BOOLEAN
      PROVE  [c EXCEPT !.pause_ready_delay_started = FALSE,
                       !.ext_signal_delay_remaining = ResumeCycles,
                       !.resume_delay_pending = p,
                       !.ready4ext_sig = ~p] \in CpuState
  BY <1>1 DEF CpuState
<1>3. ASSUME NEW d \in CpuState PROVE [d EXCEPT !.ext_pause_requested = TRUE] \in CpuState
  BY DEF CpuState
<1> DEFINE pending == ResumeCycles # 0
           r == [c EXCEPT !.pause_ready_delay_started = FALSE,
                          !.ext_signal_delay_remaining = ResumeCycles,
                          !.resume_delay_pending = pending,
                          !.ready4ext_sig = ~pending]
<1>4. r \in CpuState
  <2>1. pending \in BOOLEAN
    OBVIOUS
  <2> QED
    BY <1>2, <2>1
<1>5. SignalResume(c) = IF pending THEN [r EXCEPT !.ext_pause_requested = TRUE]
                                   ELSE ClearPause(r)
  BY DEF SignalResume
<1> HIDE DEF r, pending
<1>6. [r EXCEPT !.ext_pause_requested = TRUE] \in CpuState
  BY <1>3, <1>4
<1>7. ClearPause(r) \in CpuState
  BY <1>4, ClearPauseType
<1> QED
  BY <1>5, <1>6, <1>7

LEMMA PrepareResumeTickType ==
  ASSUME NEW c \in CpuState PROVE PrepareResumeTick(c) \in CpuState
<1> DEFINE r == [c EXCEPT !.resume_delay_pending = FALSE, !.ready4ext_sig = TRUE]
<1>1. r \in CpuState
  BY DEF CpuState
<1>2. ClearPause(r) \in CpuState
  BY <1>1, ClearPauseType
<1> QED
  BY <1>2 DEF PrepareResumeTick

LEMMA UpdateExtsigRdyType ==
  ASSUME NEW c \in CpuState PROVE UpdateExtsigRdy(c) \in CpuState
<1>1. c.ext_signal_delay_remaining \in 0..MaxDelay
  BY DEF CpuState
<1>2. Dec(c.ext_signal_delay_remaining) \in 0..MaxDelay
  BY <1>1, DelaysAreNat DEF Dec
<1>3. Dec(0) \in 0..MaxDelay /\ Dec(PauseCycles) \in 0..MaxDelay
  BY DelaysAreNat DEF Dec, MaxDelay
<1> QED
  BY <1>2, <1>3 DEF UpdateExtsigRdy, CpuState

-----------------------------------------------------------------------------
(* Types of a decision.                                                     *)

Outcomes(resp) == [cpu : CpuState, sent : {0, 1}, taken : 0..resp]

LEMMA EndTickType ==
  ASSUME NEW c \in CpuState, NEW resp \in Nat,
         c.ending > 0 \/ ~c.prog_end_seen
  PROVE  EndTick(c) \subseteq Outcomes(resp)
<1> DEFINE e == [c EXCEPT !.winner = "prog_end",
                          !.prog_end_seen = TRUE,
                          !.ending = IF c.prog_end_seen THEN @ - 1 ELSE 2,
                          !.agu = FALSE]
<1>1. (IF c.prog_end_seen THEN c.ending - 1 ELSE 2) \in 0..2
  BY DEF CpuState
<1>2. e \in CpuState
  BY <1>1, ZenonT(60) DEF CpuState, Reasons
<1>3. [e EXCEPT !.mem = "Submit"] \in CpuState
  BY <1>2, ZenonT(60) DEF CpuState, MemStates
<1>4. ASSUME NEW d \in CpuState, NEW b \in BOOLEAN
      PROVE  [d EXCEPT !.late = b] \in CpuState
  BY DEF CpuState
<1>5. \A d \in CpuState : Outcome(d, 0, 0) \in Outcomes(resp)
  BY DEF Outcome, Outcomes
<1>6. EndTick(c) = IF ~c.agu THEN {Outcome(e, 0, 0)}
                   ELSE IF c.mem = "None" THEN {Outcome([e EXCEPT !.mem = "Submit"], 0, 0)}
                   ELSE {Outcome([e EXCEPT !.late = b], 0, 0) : b \in BOOLEAN}
  BY Zenon DEF EndTick
<1> HIDE DEF e
<1>7. CASE ~c.agu
  BY <1>2, <1>5, <1>6, <1>7
<1>8. CASE c.agu /\ c.mem = "None"
  BY <1>3, <1>5, <1>6, <1>8
<1>9. CASE c.agu /\ c.mem # "None"
  <2>1. EndTick(c) = {Outcome([e EXCEPT !.late = b], 0, 0) : b \in BOOLEAN}
    BY <1>6, <1>9
  <2>2. \A b \in BOOLEAN : Outcome([e EXCEPT !.late = b], 0, 0) \in Outcomes(resp)
    BY <1>2, <1>4, <1>5
  <2> QED
    BY <2>1, <2>2, Zenon
<1> QED
  BY <1>7, <1>8, <1>9 DEF CpuState

LEMMA MemTickType ==
  ASSUME NEW c \in CpuState, NEW resp \in Nat, c.mem # "None"
  PROVE  MemTick(c, resp) \in Outcomes(resp)
<1> DEFINE m == [c EXCEPT !.winner = "MEM_block"]
<1>1. m \in CpuState
  BY DEF CpuState, Reasons
<1>2. ASSUME NEW s \in MemStates PROVE [m EXCEPT !.mem = s] \in CpuState
  BY <1>1 DEF CpuState
<1>3. [m EXCEPT !.mem = IF c.agu THEN "Submit" ELSE "None", !.agu = FALSE] \in CpuState
  BY <1>1, ZenonT(60) DEF CpuState, MemStates
<1>4. ASSUME NEW d \in CpuState, NEW s \in {0, 1}, NEW t \in 0..resp
      PROVE  Outcome(d, s, t) \in Outcomes(resp)
  BY DEF Outcome, Outcomes
<1>5. c.mem \in {"Submit", "Stall", "WriteBack", "Release"}
  BY DEF CpuState, MemStates
<1>6. CASE c.mem = "Submit"
  <2>1. MemTick(c, resp) = Outcome([m EXCEPT !.mem = "Stall"], 1, 0)
    BY <1>6 DEF MemTick
  <2> QED
    BY <2>1, <1>2, <1>4 DEF MemStates
<1>7. CASE c.mem = "Stall" /\ resp = 0
  <2>1. MemTick(c, resp) = Outcome(m, 0, 0)
    BY <1>7 DEF MemTick
  <2> QED
    BY <2>1, <1>1, <1>4
<1>8. CASE c.mem = "Stall" /\ resp > 0
  <2>1. MemTick(c, resp) = Outcome([m EXCEPT !.mem = "WriteBack"], 0, 1)
    BY <1>8 DEF MemTick
  <2> QED
    BY <2>1, <1>2, <1>4, <1>8 DEF MemStates
<1>9. CASE c.mem = "WriteBack"
  <2>1. MemTick(c, resp) = Outcome([m EXCEPT !.mem = "Release"], 0, 0)
    BY <1>9 DEF MemTick
  <2> QED
    BY <2>1, <1>2, <1>4 DEF MemStates
<1>10. CASE c.mem = "Release"
  <2>1. MemTick(c, resp) =
          Outcome([m EXCEPT !.mem = IF c.agu THEN "Submit" ELSE "None", !.agu = FALSE], 0, 0)
    BY <1>10 DEF MemTick
  <2> QED
    BY <2>1, <1>3, <1>4
<1> QED
  BY <1>5, <1>6, <1>7, <1>8, <1>9, <1>10

LEMMA LeftoverTickType ==
  ASSUME NEW c \in CpuState, NEW resp \in Nat
  PROVE  LeftoverTick(c, resp) \subseteq Outcomes(resp)
<1> DEFINE last == [c EXCEPT !.winner = "MEM_block", !.finished = TRUE]
           main == IF c.mem = "Release" THEN MemTick(c, resp)
                   ELSE [MemTick(c, resp) EXCEPT !.cpu.finished = TRUE]
<1>1. [last EXCEPT !.late = FALSE] \in CpuState
  BY DEF CpuState, Reasons
<1>2. Outcome([last EXCEPT !.late = FALSE], 1, 0) \in Outcomes(resp)
  BY <1>1 DEF Outcome, Outcomes
<1>3. ASSUME c.mem # "None" PROVE main \in Outcomes(resp)
  <2>1. MemTick(c, resp) \in Outcomes(resp)
    BY <1>3, MemTickType
  <2>2. ASSUME NEW o \in Outcomes(resp)
        PROVE  [o EXCEPT !.cpu.finished = TRUE] \in Outcomes(resp)
    BY DEF Outcomes, CpuState
  <2> QED
    BY <2>1, <2>2
<1> QED
  BY <1>2, <1>3 DEF LeftoverTick

LEMMA RunTickType ==
  ASSUME NEW c \in CpuState, NEW resp \in Nat
  PROVE  RunTick(c) \subseteq Outcomes(resp)
<1> DEFINE r == [c EXCEPT !.winner = "none"]
<1>1. r \in CpuState
  BY DEF CpuState, Reasons
<1>2. [r EXCEPT !.finished = TRUE] \in CpuState
  BY <1>1 DEF CpuState
<1>3. ASSUME NEW a \in BOOLEAN
      PROVE [r EXCEPT !.mem = IF c.agu THEN "Submit" ELSE "None", !.agu = a] \in CpuState
  <2> DEFINE next == IF c.agu THEN "Submit" ELSE "None"
  <2>1. next \in MemStates
    BY DEF MemStates
  <2> HIDE DEF next, r
  <2>2. [r EXCEPT !.mem = next, !.agu = a] \in CpuState
    BY <1>1, <2>1 DEF CpuState
  <2> QED
    BY <2>2 DEF next
<1>4. ASSUME NEW d \in CpuState PROVE Outcome(d, 0, 0) \in Outcomes(resp)
  BY DEF Outcome, Outcomes
<1> QED
  BY <1>2, <1>3, <1>4 DEF RunTick

LEMMA UndisturbedType ==
  ASSUME NEW c \in CpuState, NEW resp \in Nat, HandshakeSound(c), c.ending = 0
  PROVE  Undisturbed(c, resp) \subseteq Outcomes(resp)
<1>1. CASE c.mem # "None" \/ c.late
  <2>1. CASE Draining(c)
    BY <1>1, <2>1, LeftoverTickType DEF Undisturbed
  <2>2. CASE ~Draining(c)
    <3>1. c.mem # "None"
      BY <1>1, <2>2 DEF Draining, HandshakeSound
    <3>2. Undisturbed(c, resp) = {MemTick(c, resp)}
      BY <2>2, <3>1 DEF Undisturbed
    <3> QED
      BY <3>1, <3>2, MemTickType
  <2> QED
    BY <2>1, <2>2
<1>2. CASE c.mem = "None" /\ ~c.late /\ c.ext_pause_requested
  <2>1. Undisturbed(c, resp) = {Outcome([c EXCEPT !.winner = "external_pause"], 0, 0)}
    BY <1>2 DEF Undisturbed
  <2>2. [c EXCEPT !.winner = "external_pause"] \in CpuState
    BY DEF CpuState, Reasons
  <2> QED
    BY <2>1, <2>2 DEF Outcome, Outcomes
<1>3. CASE c.mem = "None" /\ ~c.late /\ ~c.ext_pause_requested
  <2>1. Undisturbed(c, resp) = RunTick(c)
    BY <1>3 DEF Undisturbed
  <2> QED
    BY <2>1, RunTickType
<1> QED
  BY <1>1, <1>2, <1>3 DEF CpuState

LEMMA DecideType ==
  ASSUME NEW c \in CpuState, NEW resp \in Nat, HandshakeSound(c)
  PROVE  Decide(c, resp) \subseteq Outcomes(resp)
<1>1. CASE c.ending > 0
  BY <1>1, EndTickType DEF Decide
<1>2. CASE ~(c.ending > 0)
  <2>1. c.ending = 0
    BY <1>2 DEF CpuState
  <2>2. MayRaiseEnd(c) => EndTick(c) \subseteq Outcomes(resp)
    BY EndTickType DEF MayRaiseEnd
  <2> QED
    BY <1>2, <2>1, <2>2, UndisturbedType DEF Decide
<1> QED
  BY <1>1, <1>2

LEMMA PrepareResumeTickSound ==
  ASSUME NEW c \in CpuState, HandshakeSound(c)
  PROVE  HandshakeSound(PrepareResumeTick(c))
  BY DEF PrepareResumeTick, ClearPause, HandshakeSound, Held, CpuState

\* What a tick of the CPU returns is typed: it submits at most one request and
\* takes at most the responses there are.
LEMMA TickCpuType ==
  ASSUME NEW c \in CpuState, NEW resp \in Nat, HandshakeSound(c)
  PROVE  TickCpu(c, resp) \subseteq Outcomes(resp)
<1> DEFINE d == PrepareResumeTick(c)
<1>1. d \in CpuState /\ HandshakeSound(d)
  BY PrepareResumeTickType, PrepareResumeTickSound
<1>2. Decide(d, resp) \subseteq Outcomes(resp)
  BY <1>1, DecideType
<1>3. Outcome(d, 0, 0) \in Outcomes(resp)
  BY <1>1 DEF Outcome, Outcomes
<1>4. \A o \in Outcomes(resp) : [o EXCEPT !.cpu = UpdateExtsigRdy(o.cpu)] \in Outcomes(resp)
  BY UpdateExtsigRdyType DEF Outcomes
<1>5. TickCpu(c, resp) =
        IF d.finished THEN {Outcome(d, 0, 0)}
        ELSE {[o EXCEPT !.cpu = UpdateExtsigRdy(o.cpu)] : o \in Decide(d, resp)}
  BY DEF TickCpu
<1> HIDE DEF d
<1> QED
  BY <1>2, <1>3, <1>4, <1>5

-----------------------------------------------------------------------------
(* The handshake.                                                           *)

\* A decision leaves the handshake's own fields alone.
SameRequest(c, d) ==
  /\ d.started = c.started
  /\ d.ext_pause_requested = c.ext_pause_requested
  /\ d.ready4ext_sig = c.ready4ext_sig
  /\ d.pause_ready_delay_started = c.pause_ready_delay_started
  /\ d.ext_signal_delay_remaining = c.ext_signal_delay_remaining
  /\ d.resume_delay_pending = c.resume_delay_pending

\* What a decision (of c, into d) establishes for UpdateExtsigRdy.
Decided(c, d) ==
  /\ SameRequest(c, d)
  /\ d.ending > 0 \/ d.late => d.prog_end_seen
  /\ Held(d) => d.ending = 0 /\ d.mem = "None" /\ ~d.late
  /\ c.pause_ready_delay_started => Held(d)

LEMMA EndTickDecided ==
  ASSUME NEW c \in CpuState, HandshakeSound(c), c.ending > 0 \/ MayRaiseEnd(c),
         NEW o \in EndTick(c)
  PROVE  Decided(c, o.cpu) /\ o.sent = 0
<1> DEFINE e == [c EXCEPT !.winner = "prog_end",
                          !.prog_end_seen = TRUE,
                          !.ending = IF c.prog_end_seen THEN @ - 1 ELSE 2,
                          !.agu = FALSE]
<1>1. ~c.pause_ready_delay_started
  BY DEF HandshakeSound, MayRaiseEnd
<1>2. Decided(c, e)
  BY <1>1 DEF Decided, SameRequest, Held, CpuState
<1>3. Decided(c, [e EXCEPT !.mem = "Submit"])
  BY <1>1 DEF Decided, SameRequest, Held, CpuState
<1>4. \A b \in BOOLEAN : Decided(c, [e EXCEPT !.late = b])
  BY <1>1 DEF Decided, SameRequest, Held, CpuState
<1>5. o \in IF ~c.agu THEN {Outcome(e, 0, 0)}
             ELSE IF c.mem = "None" THEN {Outcome([e EXCEPT !.mem = "Submit"], 0, 0)}
             ELSE {Outcome([e EXCEPT !.late = b], 0, 0) : b \in BOOLEAN}
  BY DEF EndTick
<1> HIDE DEF e
<1> QED
  BY <1>2, <1>3, <1>4, <1>5 DEF Outcome

LEMMA MemTickDecided ==
  ASSUME NEW c \in CpuState, NEW resp \in Nat, HandshakeSound(c),
         c.ending = 0, c.mem # "None"
  PROVE  Decided(c, MemTick(c, resp).cpu)
<1>1. ~c.pause_ready_delay_started
  BY DEF HandshakeSound
<1>2. c.mem \in {"Submit", "Stall", "WriteBack", "Release"}
  BY DEF CpuState, MemStates
<1>3. /\ c.late => c.prog_end_seen
  BY DEF HandshakeSound
<1> DEFINE m == [c EXCEPT !.winner = "MEM_block"]
<1>4. Decided(c, m) /\ m \in CpuState /\ ~Held(m)
  BY <1>1, <1>3 DEF Decided, SameRequest, Held, CpuState, Reasons
<1>5. \A s \in MemStates : Decided(c, [m EXCEPT !.mem = s])
  BY <1>4 DEF Decided, SameRequest, Held, CpuState
<1>6. \A s \in MemStates : Decided(c, [m EXCEPT !.mem = s, !.agu = FALSE])
  BY <1>4 DEF Decided, SameRequest, Held, CpuState
<1>7. CASE c.mem = "Submit"
  BY <1>7, <1>5 DEF MemTick, Outcome, MemStates
<1>8. CASE c.mem = "Stall" /\ resp = 0
  BY <1>8, <1>4 DEF MemTick, Outcome
<1>9. CASE c.mem = "Stall" /\ resp > 0
  BY <1>9, <1>5 DEF MemTick, Outcome, MemStates
<1>10. CASE c.mem = "WriteBack"
  BY <1>10, <1>5 DEF MemTick, Outcome, MemStates
<1>11. CASE c.mem = "Release"
  <2>1. (IF c.agu THEN "Submit" ELSE "None") \in MemStates
    BY DEF MemStates
  <2>2. MemTick(c, resp).cpu = [m EXCEPT !.mem = IF c.agu THEN "Submit" ELSE "None",
                                         !.agu = FALSE]
    BY <1>11 DEF MemTick, Outcome
  <2> QED
    BY <2>1, <2>2, <1>6, ZenonT(60)
<1> QED
  BY <1>2, <1>7, <1>8, <1>9, <1>10, <1>11

LEMMA LeftoverTickDecided ==
  ASSUME NEW c \in CpuState, NEW resp \in Nat, HandshakeSound(c), c.ending = 0,
         Draining(c), c.mem # "None" \/ c.late, NEW o \in LeftoverTick(c, resp)
  PROVE  Decided(c, o.cpu)
<1> DEFINE last == [c EXCEPT !.winner = "MEM_block", !.finished = TRUE]
           main == IF c.mem = "Release" THEN MemTick(c, resp)
                   ELSE [MemTick(c, resp) EXCEPT !.cpu.finished = TRUE]
<1>1. ~c.pause_ready_delay_started
  BY DEF HandshakeSound
<1>2. Decided(c, [last EXCEPT !.late = FALSE])
  BY <1>1 DEF Decided, SameRequest, Held, CpuState, Draining
<1>3. ASSUME c.mem # "None" PROVE Decided(c, main.cpu)
  <2>1. Decided(c, MemTick(c, resp).cpu)
    BY <1>3, MemTickDecided
  <2>2. MemTick(c, resp) \in Outcomes(resp)
    BY <1>3, MemTickType
  <2>3. ASSUME NEW p \in Outcomes(resp), Decided(c, p.cpu)
        PROVE  Decided(c, [p EXCEPT !.cpu.finished = TRUE].cpu)
    BY <2>3 DEF Decided, SameRequest, Held, CpuState, Outcomes
  <2> QED
    BY <2>1, <2>2, <2>3
<1>4. o \in (IF c.mem # "None" THEN {main} ELSE {})
              \cup (IF c.late THEN {Outcome([last EXCEPT !.late = FALSE], 1, 0)} ELSE {})
  BY Zenon DEF LeftoverTick
<1>5. CASE c.mem # "None" /\ o = main
  BY <1>3, <1>5
<1>6. CASE c.late /\ o = Outcome([last EXCEPT !.late = FALSE], 1, 0)
  BY <1>2, <1>6 DEF Outcome
<1> HIDE DEF last, main
<1> QED
  BY <1>4, <1>5, <1>6

LEMMA RunTickDecided ==
  ASSUME NEW c \in CpuState, HandshakeSound(c), c.ending = 0,
         c.mem = "None", ~c.late, ~c.ext_pause_requested, NEW o \in RunTick(c)
  PROVE  Decided(c, o.cpu) /\ o.sent = 0
<1> DEFINE r == [c EXCEPT !.winner = "none"]
<1>1. ~c.pause_ready_delay_started
  BY DEF HandshakeSound
<1>2. Decided(c, [r EXCEPT !.finished = TRUE])
  BY <1>1 DEF Decided, SameRequest, Held, CpuState
<1>3. ASSUME NEW a \in BOOLEAN
      PROVE Decided(c, [r EXCEPT !.mem = IF c.agu THEN "Submit" ELSE "None", !.agu = a])
  BY <1>1 DEF Decided, SameRequest, Held, CpuState
<1>4. CASE Draining(c)
  <2>1. o = Outcome([r EXCEPT !.finished = TRUE], 0, 0)
    BY <1>4 DEF RunTick
  <2> QED
    BY <2>1, <1>2 DEF Outcome
<1>5. CASE ~Draining(c)
  <2>1. PICK a \in BOOLEAN :
          o = Outcome([r EXCEPT !.mem = IF c.agu THEN "Submit" ELSE "None", !.agu = a], 0, 0)
    BY <1>5, Zenon DEF RunTick
  <2> QED
    BY <2>1, <1>3 DEF Outcome
<1> QED
  BY <1>4, <1>5

LEMMA UndisturbedDecided ==
  ASSUME NEW c \in CpuState, NEW resp \in Nat, HandshakeSound(c), c.ending = 0,
         NEW o \in Undisturbed(c, resp)
  PROVE  Decided(c, o.cpu)
<1>1. CASE c.mem # "None" \/ c.late
  <2>1. CASE Draining(c)
    <3>1. o \in LeftoverTick(c, resp)
      BY <1>1, <2>1 DEF Undisturbed
    <3> QED
      BY <1>1, <2>1, <3>1, LeftoverTickDecided
  <2>2. CASE ~Draining(c)
    <3>1. c.mem # "None"
      BY <1>1, <2>2 DEF Draining, HandshakeSound
    <3>2. o = MemTick(c, resp)
      BY <2>2, <3>1 DEF Undisturbed
    <3> QED
      BY <3>1, <3>2, MemTickDecided
  <2> QED
    BY <2>1, <2>2
<1>2. CASE c.mem = "None" /\ ~c.late /\ c.ext_pause_requested
  <2>1. o = Outcome([c EXCEPT !.winner = "external_pause"], 0, 0)
    BY <1>2 DEF Undisturbed
  <2> DEFINE h == [c EXCEPT !.winner = "external_pause"]
  <2>2. SameRequest(c, h)
    BY DEF SameRequest, CpuState
  <2>3. Held(h) /\ h.ending = 0 /\ h.mem = "None" /\ ~h.late
    BY <1>2 DEF Held, CpuState
  <2>4. Decided(c, h)
    BY <2>2, <2>3 DEF Decided
  <2> QED
    BY <2>1, <2>4 DEF Outcome
<1>3. CASE c.mem = "None" /\ ~c.late /\ ~c.ext_pause_requested
  <2>1. o \in RunTick(c)
    BY <1>3 DEF Undisturbed
  <2> QED
    BY <1>3, <2>1, RunTickDecided
<1> QED
  BY <1>1, <1>2, <1>3 DEF CpuState

LEMMA UpdateExtsigRdySound ==
  ASSUME NEW c \in CpuState, NEW d \in CpuState, HandshakeSound(c), Decided(c, d)
  PROVE  /\ HandshakeSound(UpdateExtsigRdy(d))
         /\ UpdateExtsigRdy(d).started = d.started
         /\ UpdateExtsigRdy(d).ext_pause_requested = d.ext_pause_requested
         /\ UpdateExtsigRdy(d).resume_delay_pending = d.resume_delay_pending
<1> DEFINE u == UpdateExtsigRdy(d)
           counting == d.resume_delay_pending \/ d.ext_signal_delay_remaining > 0
           accepted == d.pause_ready_delay_started \/ d.winner = "external_pause"
           delay == IF d.pause_ready_delay_started THEN 0 ELSE PauseCycles
<1>1. /\ d.pause_ready_delay_started => Held(d) /\ d.ext_pause_requested
      /\ d.resume_delay_pending => ~d.pause_ready_delay_started
      /\ d.ending > 0 \/ d.late => d.prog_end_seen
      /\ Held(d) => d.ending = 0 /\ d.mem = "None" /\ ~d.late
  BY DEF Decided, SameRequest, HandshakeSound
<1>2. CASE counting
  <2>1. u = [d EXCEPT !.ext_signal_delay_remaining = Dec(@), !.ready4ext_sig = FALSE]
    BY <1>2 DEF UpdateExtsigRdy
  <2> QED
    BY <1>1, <2>1 DEF HandshakeSound, Held, CpuState
<1>3. CASE ~counting /\ ~d.ext_pause_requested
  <2>1. u = [d EXCEPT !.ready4ext_sig = TRUE]
    BY <1>3 DEF UpdateExtsigRdy
  <2> QED
    BY <1>1, <1>3, <2>1 DEF HandshakeSound, Held, CpuState
<1>4. CASE ~counting /\ d.ext_pause_requested /\ ~accepted
  <2>1. u = [d EXCEPT !.ready4ext_sig = FALSE]
    BY <1>4 DEF UpdateExtsigRdy
  <2> QED
    BY <1>1, <1>4, <2>1 DEF HandshakeSound, Held, CpuState
<1>5. CASE ~counting /\ d.ext_pause_requested /\ accepted
  <2>1. u = [d EXCEPT !.pause_ready_delay_started = TRUE,
                      !.ext_signal_delay_remaining = Dec(delay),
                      !.ready4ext_sig = (delay = 0)]
    BY <1>5 DEF UpdateExtsigRdy
  <2> HIDE DEF delay
  <2> QED
    BY <1>1, <1>5, <2>1, ZenonT(60) DEF HandshakeSound, Held, CpuState
<1>6. counting \in BOOLEAN /\ accepted \in BOOLEAN /\ d.ext_pause_requested \in BOOLEAN
  BY DEF CpuState
<1> QED
  BY <1>2, <1>3, <1>4, <1>5, <1>6

\* A tick keeps the handshake sound, and neither starts the CPU nor calls off a
\* pause that no resume has been counting down for.
LEMMA TickCpuSound ==
  ASSUME NEW c \in CpuState, NEW resp \in Nat, HandshakeSound(c),
         NEW o \in TickCpu(c, resp)
  PROVE  /\ HandshakeSound(o.cpu)
         /\ o.cpu.started = c.started
         /\ c.ext_pause_requested /\ ~c.resume_delay_pending =>
              o.cpu.ext_pause_requested /\ ~o.cpu.resume_delay_pending
<1> DEFINE d == PrepareResumeTick(c)
<1>1. d \in CpuState /\ HandshakeSound(d)
  BY PrepareResumeTickType, PrepareResumeTickSound
<1>2. /\ d.started = c.started
      /\ c.ext_pause_requested /\ ~c.resume_delay_pending =>
           d.ext_pause_requested /\ ~d.resume_delay_pending
  BY DEF PrepareResumeTick, ClearPause, CpuState
<1>3. o \in IF d.finished THEN {Outcome(d, 0, 0)}
             ELSE {[p EXCEPT !.cpu = UpdateExtsigRdy(p.cpu)] : p \in Decide(d, resp)}
  BY DEF TickCpu
<1> HIDE DEF d
<1>4. CASE d.finished
  <2>1. o.cpu = d
    BY <1>3, <1>4 DEF Outcome
  <2> QED
    BY <1>1, <1>2, <2>1
<1>5. CASE ~d.finished
  <2>1. PICK p \in Decide(d, resp) : o = [p EXCEPT !.cpu = UpdateExtsigRdy(p.cpu)]
    BY <1>3, <1>5
  <2>2. p \in Outcomes(resp)
    BY <1>1, DecideType
  <2>3. o.cpu = UpdateExtsigRdy(p.cpu) /\ p.cpu \in CpuState
    BY <2>1, <2>2 DEF Outcomes
  <2>4. Decided(d, p.cpu)
    <3>1. CASE d.ending > 0
      BY <1>1, <3>1, EndTickDecided DEF Decide
    <3>2. CASE ~(d.ending > 0)
      <4>1. d.ending = 0
        BY <1>1, <3>2 DEF CpuState
      <4>2. p \in Undisturbed(d, resp) \/ (MayRaiseEnd(d) /\ p \in EndTick(d))
        BY <3>2 DEF Decide
      <4> QED
        BY <1>1, <4>1, <4>2, EndTickDecided, UndisturbedDecided
    <3> QED
      BY <3>1, <3>2
  <2> QED
    BY <1>1, <1>2, <2>3, <2>4, UpdateExtsigRdySound DEF Decided, SameRequest
<1> QED
  BY <1>4, <1>5

LEMMA NewCpuSound == HandshakeSound(NewCpu)
  BY DEF HandshakeSound, NewCpu, Held

LEMMA StartSound ==
  ASSUME NEW c \in CpuState, HandshakeSound(c) PROVE HandshakeSound(Start(c))
  BY DEF HandshakeSound, Start, Held, CpuState

LEMMA SignalPauseSound ==
  ASSUME NEW c \in CpuState, HandshakeSound(c)
  PROVE  /\ HandshakeSound(SignalPause(c))
         /\ SignalPause(c).started = c.started
         /\ SignalPause(c).ext_pause_requested
         /\ ~SignalPause(c).resume_delay_pending
  BY DEF HandshakeSound, SignalPause, Held, CpuState

LEMMA SignalResumeSound ==
  ASSUME NEW c \in CpuState, HandshakeSound(c)
  PROVE  HandshakeSound(SignalResume(c)) /\ SignalResume(c).started = c.started
<1>1. CASE ResumeCycles # 0
  BY <1>1 DEF HandshakeSound, SignalResume, Held, CpuState
<1>2. CASE ResumeCycles = 0
  BY <1>2 DEF HandshakeSound, SignalResume, ClearPause, Held, CpuState
<1> QED
  BY <1>1, <1>2

-----------------------------------------------------------------------------
(* The boot controller.                                                     *)

LEMMA NewBootType == NewBoot \in BootState
  BY DEF NewBoot, BootState, BootStates

LEMMA SetOnType ==
  ASSUME NEW b \in BootState PROVE SetOn(b) \in BootState
  BY DEF SetOn, BootState, BootStates

BootOutcomes(resp) == [boot : BootState, sent : Nat, taken : 0..resp]

LEMMA AwaitPhaseType ==
  ASSUME NEW b \in BootState, NEW req \in Nat, NEW resp \in Nat, NEW next \in BootStates
  PROVE  AwaitPhase(b, req, resp, next) \in BootOutcomes(resp)
<1> DEFINE left == IF resp < b.pending THEN b.pending - resp ELSE 0
<1>1. b.pending \in Nat
  BY DEF BootState
<1>2. left \in Nat /\ b.pending - left \in 0..resp
  BY <1>1
<1>3. AwaitPhase(b, req, resp, next) =
        BootOutcome([b EXCEPT !.pending = left,
                              !.state = IF req = 0 /\ left = 0 THEN next ELSE @],
                    0, b.pending - left)
  BY DEF AwaitPhase
<1> HIDE DEF left
<1>4. [b EXCEPT !.pending = left,
                !.state = IF req = 0 /\ left = 0 THEN next ELSE @] \in BootState
  BY <1>2 DEF BootState
<1> QED
  BY <1>2, <1>3, <1>4 DEF BootOutcome, BootOutcomes

LEMMA SubmitChunkReadsType ==
  ASSUME NEW b \in BootState, NEW n \in Nat, NEW next \in BootStates, NEW resp \in Nat
  PROVE  SubmitChunkReads(b, n, next) \in BootOutcomes(resp)
<1>1. [b EXCEPT !.state = next, !.pending = n] \in BootState
  BY DEF BootState
<1>2. 0 \in 0..resp
  OBVIOUS
<1> QED
  BY <1>1, <1>2 DEF SubmitChunkReads, BootOutcome, BootOutcomes

\* A boot tick takes at most the responses there are.
LEMMA TickBootType ==
  ASSUME NEW b \in BootState, NEW req \in Nat, NEW resp \in Nat
  PROVE  TickBoot(b, req, resp) \subseteq BootOutcomes(resp)
<1>1. b.state \in BootStates /\ b.chunks \in Nat
  BY DEF BootState
<1>2. CASE b.state \in {"IDLE", "Finished"}
  <2>1. TickBoot(b, req, resp) = {BootOutcome(b, 0, 0)}
    BY <1>2 DEF TickBoot
  <2> QED
    BY <2>1 DEF BootOutcome, BootOutcomes
<1>3. CASE b.state = "DRAM2AGU_submit"
  <2>1. TickBoot(b, req, resp) = {SubmitChunkReads(b, AguChunks, "DRAM2AGU_stall")}
    BY <1>3 DEF TickBoot
  <2>2. AguChunks \in Nat /\ "DRAM2AGU_stall" \in BootStates
    BY BootAssumption DEF BootStates
  <2> QED
    BY <2>1, <2>2, SubmitChunkReadsType
<1>4. CASE b.state = "DRAM2AGU_stall"
  <2>1. TickBoot(b, req, resp) = {AwaitPhase(b, req, resp, "ReadInsts")}
    BY <1>4 DEF TickBoot
  <2>2. "ReadInsts" \in BootStates
    BY DEF BootStates
  <2> QED
    BY <2>1, <2>2, AwaitPhaseType
<1>5. CASE b.state = "ReadInsts"
  <2>1. TickBoot(b, req, resp) =
          {BootOutcome([b EXCEPT !.state = "DRAM2IMEM_submit", !.chunks = n], 0, 0) :
             n \in ProgramChunks}
    BY <1>5 DEF TickBoot
  <2>2. \A n \in ProgramChunks :
          [b EXCEPT !.state = "DRAM2IMEM_submit", !.chunks = n] \in BootState
    BY BootAssumption DEF BootState, BootStates
  <2>3. \A d \in BootState : BootOutcome(d, 0, 0) \in BootOutcomes(resp)
    BY DEF BootOutcome, BootOutcomes
  <2>4. \A n \in ProgramChunks :
          BootOutcome([b EXCEPT !.state = "DRAM2IMEM_submit", !.chunks = n], 0, 0)
            \in BootOutcomes(resp)
    BY <2>2, <2>3
  <2> QED
    BY <2>1, <2>4, Zenon
<1>6. CASE b.state = "DRAM2IMEM_submit"
  <2>1. TickBoot(b, req, resp) = {SubmitChunkReads(b, b.chunks, "DRAM2IMEM_stall")}
    BY <1>6 DEF TickBoot
  <2>2. "DRAM2IMEM_stall" \in BootStates
    BY DEF BootStates
  <2> QED
    BY <1>1, <2>1, <2>2, SubmitChunkReadsType
<1>7. CASE b.state = "DRAM2IMEM_stall"
  <2>1. TickBoot(b, req, resp) = {AwaitPhase(b, req, resp, "Finished")}
    BY <1>7 DEF TickBoot
  <2>2. "Finished" \in BootStates
    BY DEF BootStates
  <2> QED
    BY <2>1, <2>2, AwaitPhaseType
<1> QED
  BY <1>1, <1>2, <1>3, <1>4, <1>5, <1>6, <1>7 DEF BootStates
=============================================================================
