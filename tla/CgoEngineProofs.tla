--------------------------- MODULE CgoEngineProofs --------------------------
(***************************************************************************)
(* The safety of the bank's sharing, for every number of requests, batch   *)
(* size, delay, DRAM capacity and program: BankInv is inductive; and the   *)
(* host's requests are served in order, which refines HostFifo.            *)
(***************************************************************************)
EXTENDS CgoEngine, CgoCpuProofs, SequenceTheorems

LEMMA BatchSzIsNat == BatchSz \in Nat
  BY EngineAssumption

LEMMA InitTypeOK == Init => TypeOK
<1> SUFFICES ASSUME Init PROVE TypeOK
  OBVIOUS
<1>1. cpu \in CpuState /\ boot \in BootState
  BY NewCpuType, NewBootType DEF Init
<1>2. host_pool \in Seq(Reqs) /\ host_req \in Seq(Reqs)
  BY DEF Init
<1>3. /\ PIM_tick_watermark \in 0..(BatchSz + 1) /\ PIM_tick_rec \in 0..(BatchSz + 1)
      /\ ran \in 0..(BatchSz + 1)
  BY BatchSzIsNat DEF Init
<1>4. /\ dram_host \subseteq Reqs
      /\ host_complete \subseteq Reqs \cup Starts \cup Queries
      /\ cgo_cmd_queue \subseteq Starts \cup Queries
  BY DEF Init
<1>5. scheduling_mode \in SchedulingModes \cup {"Unconfigured"} /\ dram_busy \in BOOLEAN
  BY DEF Init
<1> QED
  BY <1>1, <1>2, <1>3, <1>4, <1>5 DEF Init, TypeOK

LEMMA InitBankInv == Init => BankInv
<1> SUFFICES ASSUME Init PROVE BankInv
  OBVIOUS
<1>1. TypeOK
  BY InitTypeOK
<1>2. PauseAckedWhenHeld
  BY NewCpuSound DEF Init, PauseAckedWhenHeld
<1>3. PauseProtocol /\ IdleUntilConfigured /\ BankExclusion /\ HostOwnsQuietBank
  BY DEF Init, PauseProtocol, IdleUntilConfigured, BankExclusion, HostOwnsQuietBank
<1> QED
  BY <1>1, <1>2, <1>3 DEF BankInv

-----------------------------------------------------------------------------
(* Sequences of requests.                                                   *)

LEMMA SubSeqType ==
  ASSUME NEW S, NEW s \in Seq(S), NEW m \in 1..(Len(s) + 1), NEW n \in 0..Len(s)
  PROVE  SubSeq(s, m, n) \in Seq(S)
  OBVIOUS

LEMMA PushBatchType ==
  ASSUME NEW S, NEW s \in Seq(S), NEW b \in Seq(S)
  PROVE  PushBatch(s, b) \in Seq(S)
<1>1. Reverse(b) \in Seq(S)
  BY DEF Reverse
<1> QED
  BY <1>1 DEF PushBatch

LEMMA BatchLenType ==
  ASSUME TypeOK
  PROVE  BatchLen \in 0..Len(host_pool) /\ BatchLen \in 0..(BatchSz + 1)
<1>1. Len(host_pool) \in Nat
  BY DEF TypeOK
<1> QED
  BY <1>1, BatchSzIsNat DEF BatchLen

-----------------------------------------------------------------------------
(* The calls between two ticks.                                             *)

LEMMA ConfigureInv == ASSUME BankInv, NEW sm \in Modes, Configure(sm) PROVE BankInv'
<1>1. TypeOK'
  <2>1. scheduling_mode' \in SchedulingModes
    BY EngineAssumption DEF Configure
  <2> QED
    BY <2>1 DEF BankInv, TypeOK, Configure, pimSide, hostSide, dram
<1>2. PauseAckedWhenHeld'
  BY DEF BankInv, PauseAckedWhenHeld, Configure, pimSide
<1>3. PauseProtocol' /\ IdleUntilConfigured' /\ BankExclusion' /\ HostOwnsQuietBank'
  BY EngineAssumption
  DEF BankInv, PauseAckedWhenHeld, PauseProtocol, IdleUntilConfigured,
         BankExclusion, HostOwnsQuietBank, Configure,
      pimSide, hostSide, dram, SchedulingModes
<1> QED
  BY <1>1, <1>2, <1>3 DEF BankInv

LEMMA EnqueueHostInv == ASSUME BankInv, NEW r \in Reqs, EnqueueHost(r) PROVE BankInv'
<1>1. host_pool' \in Seq(Reqs)
  BY DEF BankInv, TypeOK, EnqueueHost
<1>2. TypeOK'
  BY <1>1 DEF BankInv, TypeOK, EnqueueHost, sched, pimSide, dram
<1>3. /\ PauseAckedWhenHeld'
      /\ PauseProtocol' /\ IdleUntilConfigured' /\ BankExclusion' /\ HostOwnsQuietBank'
  BY DEF BankInv, PauseAckedWhenHeld, PauseProtocol, IdleUntilConfigured,
         BankExclusion, HostOwnsQuietBank, EnqueueHost,
         sched, pimSide, dram
<1> QED
  BY <1>2, <1>3 DEF BankInv

LEMMA EnqueueCmdInv ==
  ASSUME BankInv, NEW r \in Starts \cup Queries, EnqueueCmd(r) PROVE BankInv'
<1>1. TypeOK'
  BY DEF BankInv, TypeOK, EnqueueCmd, sched, pimSide, hostSide, dram
<1>2. /\ PauseAckedWhenHeld'
      /\ PauseProtocol' /\ IdleUntilConfigured' /\ BankExclusion' /\ HostOwnsQuietBank'
  BY DEF BankInv, PauseAckedWhenHeld, PauseProtocol, IdleUntilConfigured,
         BankExclusion, HostOwnsQuietBank, EnqueueCmd,
         sched, pimSide, hostSide, dram
<1> QED
  BY <1>1, <1>2 DEF BankInv

LEMMA GetHostCompleteInv ==
  ASSUME BankInv, NEW r, GetHostComplete(r) PROVE BankInv'
<1>1. TypeOK'
  BY DEF BankInv, TypeOK, GetHostComplete, sched, pimSide, hostSide, dram
<1>2. /\ PauseAckedWhenHeld'
      /\ PauseProtocol' /\ IdleUntilConfigured' /\ BankExclusion' /\ HostOwnsQuietBank'
  BY DEF BankInv, PauseAckedWhenHeld, PauseProtocol, IdleUntilConfigured,
         BankExclusion, HostOwnsQuietBank, GetHostComplete,
         sched, pimSide, hostSide, dram
<1> QED
  BY <1>1, <1>2 DEF BankInv

LEMMA StutterInv == BankInv /\ UNCHANGED vars => BankInv'
<1> SUFFICES ASSUME BankInv, UNCHANGED vars PROVE BankInv'
  OBVIOUS
<1>1. TypeOK'
  BY DEF BankInv, TypeOK, vars, sched, pimSide, hostSide, dram
<1>2. /\ PauseAckedWhenHeld'
      /\ PauseProtocol' /\ IdleUntilConfigured' /\ BankExclusion' /\ HostOwnsQuietBank'
  BY DEF BankInv, PauseAckedWhenHeld, PauseProtocol, IdleUntilConfigured,
         BankExclusion, HostOwnsQuietBank,
         vars, sched, pimSide, hostSide, dram
<1> QED
  BY <1>1, <1>2 DEF BankInv

-----------------------------------------------------------------------------
(* Engine::tick, first half.                                                *)

\* What the processor's tick leaves: no pause on the way to the host is lost,
\* and a CPU is started in PIM mode only.
ProcessorOk(p) ==
  /\ p.cpu \in CpuState /\ HandshakeSound(p.cpu)
  /\ p.boot \in BootState
  /\ p.sent \in Nat /\ p.taken \in 0..simcpu_resp
  /\ p.cpu.started /\ mode # "PIM" => cpu.started
  /\ cpu.started /\ cpu.ext_pause_requested /\ ~cpu.resume_delay_pending =>
       p.cpu.ext_pause_requested /\ ~p.cpu.resume_delay_pending

LEMMA ProcessorTickOk ==
  ASSUME BankInv, NEW p \in ProcessorTick PROVE ProcessorOk(p)
<1>1. /\ cpu \in CpuState /\ HandshakeSound(cpu) /\ boot \in BootState
      /\ simcpu_req \in Nat /\ simcpu_resp \in Nat
  BY DEF BankInv, TypeOK, PauseAckedWhenHeld
<1>2. CASE p = Idle
  BY <1>1, <1>2 DEF ProcessorOk, Idle, Processed
<1>3. CASE cpu.started /\ p \in CpuTicks
  <2>1. PICK o \in TickCpu(cpu, simcpu_resp) : p = Processed(o.cpu, boot, o.sent, o.taken)
    BY <1>3 DEF CpuTicks
  <2>2. o \in Outcomes(simcpu_resp)
    BY <1>1, TickCpuType
  <2>3. /\ HandshakeSound(o.cpu)
        /\ o.cpu.started = cpu.started
        /\ cpu.ext_pause_requested /\ ~cpu.resume_delay_pending =>
             o.cpu.ext_pause_requested /\ ~o.cpu.resume_delay_pending
    BY <1>1, TickCpuSound
  <2>4. o.cpu \in CpuState /\ o.sent \in Nat /\ o.taken \in 0..simcpu_resp
    BY <2>2 DEF Outcomes
  <2> QED
    BY <1>1, <1>3, <2>1, <2>3, <2>4 DEF ProcessorOk, Processed
<1>4. CASE ~cpu.started /\ mode = "PIM" /\ p \in BootTicks
  <2>1. PICK o \in TickBoot(boot, simcpu_req, simcpu_resp) :
          p = Processed(IF o.boot.state = "Finished" THEN Start(cpu) ELSE cpu,
                        o.boot, o.sent, o.taken)
    BY <1>4 DEF BootTicks
  <2>2. o \in BootOutcomes(simcpu_resp)
    BY <1>1, TickBootType
  <2>3. o.boot \in BootState /\ o.sent \in Nat /\ o.taken \in 0..simcpu_resp
    BY <2>2 DEF BootOutcomes
  <2>4. p.cpu \in CpuState /\ HandshakeSound(p.cpu)
    BY <1>1, <2>1, StartType, StartSound DEF Processed
  <2> QED
    BY <1>4, <2>1, <2>3, <2>4 DEF ProcessorOk, Processed
<1> QED
  BY <1>2, <1>3, <1>4 DEF ProcessorTick

LEMMA Difference ==
  ASSUME NEW k \in Nat, NEW x \in 0..k PROVE k - x \in Nat /\ x \in Nat
  OBVIOUS

\* The parameters Tick picks, as facts about their types.
LEMMA DrainOk ==
  ASSUME TypeOK, NEW p, ProcessorOk(p),
         NEW n \in Accepted(IF portal = "PIM" THEN simcpu_req + p.sent ELSE Len(host_req))
  PROVE  /\ n \in Nat
         /\ portal = "PIM" => n <= simcpu_req + p.sent
         /\ portal = "HOST" => n \in 0..Len(host_req)
<1>1. simcpu_req + p.sent \in Nat /\ Len(host_req) \in Nat
  BY DEF TypeOK, ProcessorOk
<1> QED
  BY <1>1 DEF Accepted

LEMMA StackType ==
  ASSUME NEW stack \in Seq(Reqs), NEW n \in 0..Len(stack)
  PROVE  /\ Below(stack, n) \in Seq(Reqs)
         /\ Top(stack, n) \subseteq Reqs
         /\ n = 0 => Top(stack, n) = {}
<1>1. Len(stack) \in Nat /\ Len(stack) - n \in 0..Len(stack)
  OBVIOUS
<1>2. Below(stack, n) \in Seq(Reqs)
  BY <1>1, SubSeqType DEF Below
<1>3. \A i \in (Len(stack) - n + 1)..Len(stack) : stack[i] \in Reqs
  BY <1>1
<1> QED
  BY <1>1, <1>2, <1>3 DEF Top

-----------------------------------------------------------------------------
(* Engine::tick, second half.                                               *)

LEMMA ScheduleType ==
  ASSUME TypeOK, NEW c \in CpuState, HandshakeSound(c), NEW stack \in Seq(Reqs),
         Schedule(c, stack)
  PROVE  /\ mode' \in {"PIM", "HOST", "switch_delay"}
         /\ last_service_mode' \in {"PIM", "HOST"} /\ portal' \in {"PIM", "HOST"}
         /\ PIM_tick_watermark' \in 0..(BatchSz + 1)
         /\ PIM_tick_rec' \in 0..(BatchSz + 1)
         /\ first_host_switch_started' \in BOOLEAN
         /\ cpu' \in CpuState /\ HandshakeSound(cpu')
         /\ host_pool' \in Seq(Reqs) /\ host_req' \in Seq(Reqs)
<1> USE BatchSzIsNat
<1>1. /\ mode \in {"PIM", "HOST", "switch_delay"}
      /\ last_service_mode \in {"PIM", "HOST"} /\ portal \in {"PIM", "HOST"}
      /\ PIM_tick_watermark \in 0..(BatchSz + 1)
      /\ PIM_tick_rec \in 0..(BatchSz + 1)
      /\ first_host_switch_started \in BOOLEAN
      /\ host_pool \in Seq(Reqs)
  BY DEF TypeOK
<1>2. CASE CgoOnly(c, stack)
  BY <1>1, <1>2 DEF CgoOnly
<1>3. CASE HostOnly(c, stack)
  <2>1. PushBatch(stack, host_pool) \in Seq(Reqs) /\ <<>> \in Seq(Reqs)
    BY <1>1, PushBatchType
  <2> QED
    BY <1>1, <1>3, <2>1 DEF HostOnly
<1>4. CASE PimService(c, stack)
  <2>1. SignalPause(c) \in CpuState /\ HandshakeSound(SignalPause(c))
    BY SignalPauseType, SignalPauseSound
  <2>2. cpu' \in CpuState /\ HandshakeSound(cpu')
    BY <1>4, <2>1 DEF PimService
  <2>3. PIM_tick_rec' \in 0..(BatchSz + 1)
    BY <1>1, <1>4 DEF PimService
  <2> QED
    BY <1>1, <1>4, <2>2, <2>3 DEF PimService, LeaveMode, KeepMode
<1>5. CASE HostService(c, stack)
  <2>1. SignalResume(c) \in CpuState /\ HandshakeSound(SignalResume(c))
    BY SignalResumeType, SignalResumeSound
  <2>2. cpu' \in CpuState /\ HandshakeSound(cpu')
    BY <1>5, <2>1 DEF HostService
  <2>3. BatchLen \in 0..Len(host_pool) /\ BatchLen \in 0..(BatchSz + 1)
    BY BatchLenType
  <2>4. Batch \in Seq(Reqs)
    BY <1>1, <2>3, SubSeqType DEF Batch
  <2>5. host_req' \in Seq(Reqs)
    BY <1>5, <2>4, PushBatchType DEF HostService
  <2>6. host_pool' \in Seq(Reqs)
    <3>1. Len(host_pool) \in Nat /\ BatchLen + 1 \in 1..(Len(host_pool) + 1)
      BY <1>1, <2>3
    <3>2. SubSeq(host_pool, BatchLen + 1, Len(host_pool)) \in Seq(Reqs)
      BY <1>1, <3>1, SubSeqType
    <3> QED
      BY <1>5, <3>2 DEF HostService
  <2>7. PIM_tick_watermark' \in 0..(BatchSz + 1)
    BY <1>5, <2>3 DEF HostService
  <2> QED
    BY <1>1, <1>5, <2>2, <2>5, <2>6, <2>7 DEF HostService, LeaveMode
<1>6. CASE SwitchDelay(c, stack)
  <2>1. Opposite(last_service_mode) \in {"PIM", "HOST"}
    BY DEF Opposite
  <2> QED
    BY <1>1, <1>6, <2>1 DEF SwitchDelay, KeepMode
<1> QED
  BY <1>2, <1>3, <1>4, <1>5, <1>6 DEF Schedule

\* What TickWith's drain leaves in the DRAM for the side that does not own it.
LEMMA ScheduleBank ==
  ASSUME TypeOK, PauseProtocol, NEW p, ProcessorOk(p), NEW stack,
         Schedule(p.cpu, stack), UNCHANGED scheduling_mode,
         scheduling_mode # "Unconfigured",
         portal = "PIM" => dram_host' = {}, portal = "HOST" => dram_pim' = 0,
         dram_pim' \in Nat
  PROVE  PauseProtocol' /\ IdleUntilConfigured' /\ BankExclusion' /\ HostOwnsQuietBank'
<1>1. /\ portal \in {"PIM", "HOST"} /\ last_service_mode \in {"PIM", "HOST"}
      /\ mode \in {"PIM", "HOST", "switch_delay"}
  BY DEF TypeOK
<1>2. p.cpu \in CpuState /\ HandshakeSound(p.cpu)
  BY DEF ProcessorOk
<1>3. CASE scheduling_mode = "CGO_only" /\ CgoOnly(p.cpu, stack)
  BY <1>1, <1>3 DEF CgoOnly, PauseProtocol, IdleUntilConfigured, BankExclusion, HostOwnsQuietBank
<1>4. CASE scheduling_mode = "HostOnly" /\ HostOnly(p.cpu, stack)
  BY <1>1, <1>4 DEF HostOnly, PauseProtocol, IdleUntilConfigured, BankExclusion, HostOwnsQuietBank
<1>5. CASE scheduling_mode = "Host_CGO_share" /\ PimService(p.cpu, stack)
  <2>1. portal' = "PIM" /\ BankExclusion'
    BY <1>5 DEF PimService, LeaveMode, KeepMode, PauseProtocol, BankExclusion
  <2>2. CASE ShouldSwitchToHost
    <3>1. cpu'.started => cpu'.ext_pause_requested /\ ~cpu'.resume_delay_pending
      BY <1>2, <1>5, <2>2, SignalPauseSound DEF PimService
    <3> QED
      BY <1>5, <2>1, <2>2, <3>1
      DEF PimService, LeaveMode, PauseProtocol, IdleUntilConfigured, HostOwnsQuietBank
  <2>3. CASE ~ShouldSwitchToHost
    BY <1>5, <2>1, <2>3 DEF PimService, KeepMode, PauseProtocol, IdleUntilConfigured, HostOwnsQuietBank
  <2> QED
    BY <2>2, <2>3
<1>6. CASE scheduling_mode = "Host_CGO_share" /\ HostService(p.cpu, stack)
  BY <1>6 DEF HostService, LeaveMode, PauseProtocol, IdleUntilConfigured, BankExclusion, HostOwnsQuietBank
<1>7. CASE scheduling_mode = "Host_CGO_share" /\ SwitchDelay(p.cpu, stack)
  <2>1. mode = "switch_delay" /\ portal = last_service_mode /\ cpu' = p.cpu
    BY <1>7 DEF SwitchDelay, PauseProtocol
  <2>2. last_service_mode = "PIM" /\ p.cpu.started =>
          p.cpu.ext_pause_requested /\ ~p.cpu.resume_delay_pending
    BY <2>1 DEF PauseProtocol, ProcessorOk
  <2>3. CASE ~SwitchDelayDone(p.cpu, stack)
    <3>1. KeepMode
      BY <1>7, <2>3 DEF SwitchDelay
    <3> QED
      BY <1>1, <1>7, <2>1, <2>2, <3>1
      DEF KeepMode, PauseProtocol, IdleUntilConfigured, BankExclusion, HostOwnsQuietBank
  <2>4. CASE SwitchDelayDone(p.cpu, stack)
    <3>1. /\ mode' = Opposite(last_service_mode) /\ portal' = mode'
          /\ dram_pim' = 0 /\ dram_host' = {}
      BY <1>7, <2>4 DEF SwitchDelay, SwitchDelayDone, DramDrained
    <3>2. CASE last_service_mode = "HOST"
      BY <1>7, <2>1, <3>1, <3>2
      DEF Opposite, PauseProtocol, IdleUntilConfigured, BankExclusion, HostOwnsQuietBank
    <3>3. CASE last_service_mode = "PIM"
      <4>1. p.cpu.ready4ext_sig /\ simcpu_req' = 0
        BY <2>4, <3>3 DEF SwitchDelayDone
      <4>2. p.cpu.started => Held(p.cpu) /\ p.cpu.mem = "None"
        BY <1>2, <2>2, <3>3, <4>1 DEF HandshakeSound
      <4> QED
        BY <1>7, <2>1, <3>1, <3>3, <4>1, <4>2
        DEF Opposite, PauseProtocol, IdleUntilConfigured, BankExclusion, HostOwnsQuietBank
    <3> QED
      BY <1>1, <3>2, <3>3
  <2> QED
    BY <2>3, <2>4
<1> QED
  BY <1>3, <1>4, <1>5, <1>6, <1>7 DEF Schedule

LEMMA TickInv == ASSUME BankInv, Tick PROVE BankInv'
<1>1. PICK p \in ProcessorTick :
        \E n \in Accepted(IF portal = "PIM" THEN simcpu_req + p.sent ELSE Len(host_req)) :
          \E e \in 0..DramCapacity, h \in SUBSET Reqs, busy \in BOOLEAN :
            TickWith(p, n, e, h, busy)
  BY DEF Tick
<1>2. PICK n \in Accepted(IF portal = "PIM" THEN simcpu_req + p.sent ELSE Len(host_req)) :
        \E e \in 0..DramCapacity, h \in SUBSET Reqs, busy \in BOOLEAN :
            TickWith(p, n, e, h, busy)
  BY <1>1
<1>3. PICK e \in 0..DramCapacity, h \in SUBSET Reqs, busy \in BOOLEAN :
        TickWith(p, n, e, h, busy)
  BY <1>2
<1>4. ProcessorOk(p)
  BY ProcessorTickOk
<1> DEFINE toPim == IF portal = "PIM" THEN n ELSE 0
           toHost == IF portal = "HOST" THEN n ELSE 0
<1>5. /\ simcpu_req \in Nat /\ simcpu_resp \in Nat /\ dram_pim \in Nat
      /\ portal \in {"PIM", "HOST"} /\ host_req \in Seq(Reqs) /\ dram_host \subseteq Reqs
      /\ host_complete \subseteq Reqs \cup Starts \cup Queries
      /\ cgo_cmd_queue \subseteq Starts \cup Queries
      /\ scheduling_mode \in SchedulingModes \cup {"Unconfigured"}
      /\ ran \in 0..(BatchSz + 1)
  BY DEF BankInv, TypeOK
<1>6. /\ n \in Nat
      /\ portal = "PIM" => n <= simcpu_req + p.sent
      /\ portal = "HOST" => n \in 0..Len(host_req)
  BY <1>4, DrainOk DEF BankInv
<1>7. /\ toPim \in 0..(simcpu_req + p.sent)
      /\ toHost \in 0..Len(host_req)
      /\ p.sent \in Nat /\ p.taken \in 0..simcpu_resp
  BY <1>4, <1>5, <1>6 DEF ProcessorOk
<1> HIDE DEF toPim, toHost
<1>8. /\ boot' = BootAfterCmds(p.boot)
      /\ host_complete' = host_complete \cup cgo_cmd_queue \cup h
      /\ cgo_cmd_queue' = {}
      /\ ran' = CountRun(p.cpu)
      /\ dram_busy' = busy
      /\ UNCHANGED scheduling_mode
  BY <1>3, Zenon DEF TickWith
<1>8a. /\ simcpu_req' = (simcpu_req + p.sent) - toPim
       /\ e \in 0..(dram_pim + toPim)
       /\ dram_pim' = (dram_pim + toPim) - e
       /\ simcpu_resp' = simcpu_resp - p.taken + e
  BY <1>3, Zenon DEF TickWith, toPim
<1>8b. dram_host' = (dram_host \cup Top(host_req, toHost)) \ h
  BY <1>3, Zenon DEF TickWith, toHost
<1>8c. Schedule(p.cpu, Below(host_req, toHost))
  BY <1>3, Zenon DEF TickWith, toHost
<1>9. /\ Below(host_req, toHost) \in Seq(Reqs)
      /\ Top(host_req, toHost) \subseteq Reqs
      /\ toHost = 0 => Top(host_req, toHost) = {}
  BY <1>5, <1>7, StackType
<1>10. simcpu_req' \in Nat /\ dram_pim' \in Nat /\ simcpu_resp' \in Nat
  <2>1. simcpu_req + p.sent \in Nat
    BY <1>5, <1>7
  <2>2. toPim \in Nat /\ dram_pim + toPim \in Nat
    BY <1>5, <1>7, <2>1
  <2>3. (simcpu_req + p.sent) - toPim \in Nat
    BY <1>7, <2>1, Difference
  <2>4. (dram_pim + toPim) - e \in Nat /\ e \in Nat
    BY <1>8a, <2>2, Difference
  <2>5. simcpu_resp - p.taken \in Nat
    BY <1>5, <1>7, Difference
  <2> QED
    BY <1>8a, <2>3, <2>4, <2>5
<1>11. boot' \in BootState
  BY <1>4, <1>8, SetOnType DEF BootAfterCmds, ProcessorOk
<1>12. ran' \in 0..(BatchSz + 1)
  BY <1>5, <1>8, BatchSzIsNat DEF CountRun
<1>13. /\ dram_host' \subseteq Reqs
       /\ host_complete' \subseteq Reqs \cup Starts \cup Queries
       /\ cgo_cmd_queue' \subseteq Starts \cup Queries
  BY <1>5, <1>8, <1>8b, <1>9
<1>14. /\ mode' \in {"PIM", "HOST", "switch_delay"}
       /\ last_service_mode' \in {"PIM", "HOST"} /\ portal' \in {"PIM", "HOST"}
       /\ PIM_tick_watermark' \in 0..(BatchSz + 1)
       /\ PIM_tick_rec' \in 0..(BatchSz + 1)
       /\ first_host_switch_started' \in BOOLEAN
       /\ cpu' \in CpuState /\ HandshakeSound(cpu')
       /\ host_pool' \in Seq(Reqs) /\ host_req' \in Seq(Reqs)
  BY <1>4, <1>8c, <1>9, ScheduleType DEF BankInv, ProcessorOk
<1>15. TypeOK'
  BY <1>5, <1>8, <1>10, <1>11, <1>12, <1>13, <1>14 DEF TypeOK
<1>16. portal = "PIM" => dram_host' = {}
  BY <1>8b, <1>9 DEF toHost, BankInv, BankExclusion
<1>17. portal = "HOST" => dram_pim' = 0
  <2>1. portal = "HOST" => dram_pim = 0
    BY <1>5 DEF BankInv, BankExclusion
  <2> QED
    BY <1>8a, <2>1 DEF toPim
<1>18. PauseProtocol' /\ IdleUntilConfigured' /\ BankExclusion' /\ HostOwnsQuietBank'
  BY <1>4, <1>8, <1>8c, <1>10, <1>16, <1>17, ScheduleBank DEF BankInv, Tick
<1> QED
  BY <1>14, <1>15, <1>18 DEF BankInv, PauseAckedWhenHeld

-----------------------------------------------------------------------------
(* The theorems.                                                            *)

\* BankInv is an invariant: the initial state has it and every step keeps it.
THEOREM BankInvariant == Spec => []BankInv
<1>1. Init => BankInv
  BY InitBankInv
<1>2. BankInv /\ [Next]_vars => BankInv'
  <2> SUFFICES ASSUME BankInv, [Next]_vars PROVE BankInv'
    OBVIOUS
  <2>1. CASE \E sm \in Modes : Configure(sm)
    BY <2>1, ConfigureInv
  <2>2. CASE \E r \in Reqs : EnqueueHost(r)
    BY <2>2, EnqueueHostInv
  <2>3. CASE \E r \in Starts \cup Queries : EnqueueCmd(r)
    BY <2>3, EnqueueCmdInv
  <2>4. CASE \E r \in Reqs \cup Starts \cup Queries : GetHostComplete(r)
    BY <2>4, GetHostCompleteInv
  <2>5. CASE Tick
    BY <2>5, TickInv
  <2>6. CASE UNCHANGED vars
    BY <2>6, StutterInv
  <2> QED
    BY <2>1, <2>2, <2>3, <2>4, <2>5, <2>6 DEF Next
<1> QED
  BY <1>1, <1>2, PTL DEF Spec

\* Every variable of the engine keeps its type, in particular the counters of
\* portal requests and responses stay natural: no tick takes a response that
\* is not there.
THEOREM TypeCorrect == Spec => []TypeOK
<1>1. BankInv => TypeOK
  BY DEF BankInv
<1> QED
  BY <1>1, BankInvariant, PTL

\* The DRAM never holds requests of the side that does not own the bank
\* (switch_delay_done, engine.rs).
THEOREM OneOwner == Spec => []BankExclusion
<1>1. BankInv => BankExclusion
  BY DEF BankInv
<1> QED
  BY <1>1, BankInvariant, PTL

\* While the host is served the CPU is held, with no memory operation under
\* way (signal_pause, ExternalPause_FSM and switch_delay_done together).
THEOREM QuietBank == Spec => []HostOwnsQuietBank
<1>1. BankInv => HostOwnsQuietBank
  BY DEF BankInv
<1> QED
  BY <1>1, BankInvariant, PTL

\* The CPU acknowledges a pause only while its pipeline is held and quiet
\* (update_extsig_rdy, pipeline.rs).
THEOREM AcknowledgedPauseHolds == Spec => []PauseAckedWhenHeld
<1>1. BankInv => PauseAckedWhenHeld
  BY DEF BankInv
<1> QED
  BY <1>1, BankInvariant, PTL

\* The engine's mode, the portal and the pause of the CPU stay in step
\* (switch, engine.rs).
THEOREM PauseProtocolHolds == Spec => []PauseProtocol
<1>1. BankInv => PauseProtocol
  BY DEF BankInv
<1> QED
  BY <1>1, BankInvariant, PTL

-----------------------------------------------------------------------------
(***************************************************************************)
(* A CGO engine that is never given to the host alone implements HostFifo: *)
(* although the portal is a stack, requests reach the DRAM oldest first.   *)
(* (In HostOnly they do not: the run host_only_order.)                     *)
(***************************************************************************)

\* The stack is empty unless the host is being served, and when the service
\* begins: a batch is never pushed on top of another.
StackInv ==
  /\ scheduling_mode # "HostOnly"
  /\ portal = "PIM" \/ mode = "HOST" => host_req = <<>>

\* The abstract queue: the stack from its top, then the pool.
Line == Reverse(host_req) \o host_pool

-----------------------------------------------------------------------------
(* Stacks and queues.                                                       *)

LEMMA ReverseProperties ==
  ASSUME NEW S, NEW s \in Seq(S)
  PROVE  /\ Reverse(s) \in Seq(S)
         /\ Len(Reverse(s)) = Len(s)
         /\ \A i \in 1..Len(s) : Reverse(s)[i] = s[(Len(s) - i) + 1]
<1>1. \A i \in 1..Len(s) : (Len(s) - i) + 1 \in 1..Len(s)
  OBVIOUS
<1>2. \A i \in 1..Len(s) : s[(Len(s) - i) + 1] \in S
  BY <1>1
<1> QED
  BY <1>2 DEF Reverse

LEMMA ReverseTwice ==
  ASSUME NEW S, NEW s \in Seq(S) PROVE Reverse(Reverse(s)) = s
<1> DEFINE t == Reverse(Reverse(s))
<1>1. /\ Reverse(s) \in Seq(S) /\ Len(Reverse(s)) = Len(s)
      /\ \A i \in 1..Len(s) : Reverse(s)[i] = s[(Len(s) - i) + 1]
  BY ReverseProperties
<1>2. /\ t \in Seq(S) /\ Len(t) = Len(s)
      /\ \A i \in 1..Len(s) : t[i] = Reverse(s)[(Len(s) - i) + 1]
  BY <1>1, ReverseProperties
<1>3. ASSUME NEW i \in 1..Len(s) PROVE t[i] = s[i]
  <2>1. (Len(s) - i) + 1 \in 1..Len(s) /\ (Len(s) - ((Len(s) - i) + 1)) + 1 = i
    OBVIOUS
  <2> QED
    BY <1>1, <1>2, <2>1
<1> HIDE DEF t
<1>4. t = s
  BY <1>2, <1>3, SeqEqual
<1> QED
  BY <1>4 DEF t

LEMMA ReverseEmpty == Reverse(<<>>) = <<>>
  BY DEF Reverse

LEMMA BelowIsRest ==
  ASSUME NEW S, NEW s \in Seq(S), NEW q \in Seq(S), NEW n \in 0..Len(s)
  PROVE  Reverse(Below(s, n)) \o q
           = SubSeq(Reverse(s) \o q, n + 1, Len(Reverse(s) \o q))
<1> DEFINE b == Below(s, n)
           l == Reverse(s) \o q
           x == Reverse(b) \o q
           y == SubSeq(l, n + 1, Len(l))
<1>1. Len(s) \in Nat /\ Len(q) \in Nat /\ n \in Nat
  OBVIOUS
<1>2. /\ b \in Seq(S) /\ Len(b) = Len(s) - n
      /\ \A i \in 1..(Len(s) - n) : b[i] = s[i]
  BY <1>1, SubSeqProperties DEF Below
<1>3. /\ Reverse(s) \in Seq(S) /\ Len(Reverse(s)) = Len(s)
      /\ \A i \in 1..Len(s) : Reverse(s)[i] = s[(Len(s) - i) + 1]
  BY ReverseProperties
<1> HIDE DEF b
<1>4. /\ Reverse(b) \in Seq(S) /\ Len(Reverse(b)) = Len(b)
      /\ \A i \in 1..Len(b) : Reverse(b)[i] = b[(Len(b) - i) + 1]
  BY <1>2, ReverseProperties
<1>5a. /\ l \in Seq(S) /\ Len(l) = Len(Reverse(s)) + Len(q)
       /\ \A i \in 1..(Len(Reverse(s)) + Len(q)) :
            l[i] = IF i <= Len(Reverse(s)) THEN Reverse(s)[i] ELSE q[i - Len(Reverse(s))]
  BY <1>3, ConcatProperties, ZenonT(60)
<1>6a. /\ x \in Seq(S) /\ Len(x) = Len(Reverse(b)) + Len(q)
       /\ \A i \in 1..(Len(Reverse(b)) + Len(q)) :
            x[i] = IF i <= Len(Reverse(b)) THEN Reverse(b)[i] ELSE q[i - Len(Reverse(b))]
  BY <1>4, ConcatProperties, ZenonT(60)
<1> HIDE DEF l, x
<1>5. /\ l \in Seq(S) /\ Len(l) = Len(s) + Len(q)
      /\ \A i \in 1..(Len(s) + Len(q)) :
           l[i] = IF i <= Len(s) THEN Reverse(s)[i] ELSE q[i - Len(s)]
  BY <1>3, <1>5a
<1>6. /\ x \in Seq(S) /\ Len(x) = (Len(s) - n) + Len(q)
      /\ \A i \in 1..((Len(s) - n) + Len(q)) :
           x[i] = IF i <= Len(s) - n THEN Reverse(b)[i] ELSE q[i - (Len(s) - n)]
  BY <1>2, <1>4, <1>6a
<1>7. /\ y \in Seq(S) /\ Len(y) = (Len(s) - n) + Len(q)
      /\ \A i \in 1..((Len(s) - n) + Len(q)) : y[i] = l[n + i]
  <2>1. n + 1 \in Int /\ Len(l) \in Int /\ \A i \in (n + 1)..Len(l) : l[i] \in S
    BY <1>1, <1>5
  <2>2. /\ y \in Seq(S)
        /\ Len(y) = IF n + 1 <= Len(l) THEN Len(l) - (n + 1) + 1 ELSE 0
        /\ \A i \in 1..(Len(l) - (n + 1) + 1) : y[i] = l[(n + 1) + i - 1]
    BY <2>1, SubSeqProperties
  <2>3. Len(l) - (n + 1) + 1 = (Len(s) - n) + Len(q)
    BY <1>1, <1>5
  <2>4. Len(y) = (Len(s) - n) + Len(q)
    BY <1>1, <1>5, <2>2
  <2>5. ASSUME NEW i \in 1..((Len(s) - n) + Len(q)) PROVE y[i] = l[n + i]
    <3>1. (n + 1) + i - 1 = n + i
      BY <1>1
    <3> QED
      BY <2>2, <2>3, <3>1
  <2> QED
    BY <2>2, <2>4, <2>5
<1> HIDE DEF y
<1>8. ASSUME NEW i \in 1..((Len(s) - n) + Len(q)) PROVE x[i] = y[i]
  <2>1. i \in Nat /\ n + i \in 1..(Len(s) + Len(q))
    BY <1>1
  <2>2. CASE i <= Len(s) - n
    <3>1. i \in 1..Len(b) /\ (Len(b) - i) + 1 \in 1..(Len(s) - n) /\ n + i \in 1..Len(s)
      BY <1>1, <1>2, <2>2
    <3>2. (Len(b) - i) + 1 = (Len(s) - (n + i)) + 1
      BY <1>1, <1>2
    <3>3. x[i] = s[(Len(b) - i) + 1]
      BY <1>2, <1>4, <1>6, <2>2, <3>1
    <3>4. y[i] = s[(Len(s) - (n + i)) + 1]
      <4>1. n + i <= Len(s)
        BY <3>1
      <4> QED
        BY <1>3, <1>5, <1>7, <2>1, <3>1, <4>1
    <3> QED
      BY <3>2, <3>3, <3>4
  <2>3. CASE ~(i <= Len(s) - n)
    <3>1. ~(n + i <= Len(s)) /\ (n + i) - Len(s) = i - (Len(s) - n)
      BY <1>1, <2>1, <2>3
    <3>2. x[i] = q[i - (Len(s) - n)]
      BY <1>6, <2>3
    <3>3. y[i] = q[(n + i) - Len(s)]
      BY <1>5, <1>7, <2>1, <3>1
    <3> QED
      BY <3>1, <3>2, <3>3
  <2> QED
    BY <2>2, <2>3
<1>9. x = y
  BY <1>6, <1>7, <1>8, SeqEqual
<1> QED
  BY <1>9 DEF x, y, l, b

-----------------------------------------------------------------------------
(* The mapping, action by action.                                           *)

LEMMA LineType ==
  ASSUME TypeOK
  PROVE  /\ Reverse(host_req) \in Seq(Reqs) /\ Line \in Seq(Reqs)
         /\ Len(Line) = Len(host_req) + Len(host_pool)
<1>1. host_req \in Seq(Reqs) /\ host_pool \in Seq(Reqs)
  BY DEF TypeOK
<1>2. Reverse(host_req) \in Seq(Reqs) /\ Len(Reverse(host_req)) = Len(host_req)
  BY <1>1, ReverseProperties
<1>3. /\ Reverse(host_req) \o host_pool \in Seq(Reqs)
      /\ Len(Reverse(host_req) \o host_pool) = Len(Reverse(host_req)) + Len(host_pool)
  BY <1>1, <1>2, ConcatProperties
<1> QED
  BY <1>2, <1>3 DEF Line

\* What the drain takes off the stack is the front of the line.
LEMMA TopIsFront ==
  ASSUME TypeOK, NEW n \in 0..Len(host_req)
  PROVE  \A x : x \in Top(host_req, n) <=> \E i \in 1..n : x = Line[i]
<1>1. \A i \in 1..n : Line[i] = host_req[(Len(host_req) - i) + 1]
  <2>1. /\ host_req \in Seq(Reqs) /\ host_pool \in Seq(Reqs)
    BY DEF TypeOK
  <2>2. /\ Reverse(host_req) \in Seq(Reqs) /\ Len(Reverse(host_req)) = Len(host_req)
        /\ \A i \in 1..Len(host_req) : Reverse(host_req)[i] = host_req[(Len(host_req) - i) + 1]
    BY <2>1, ReverseProperties
  <2>3. \A i \in 1..Len(host_req) : Line[i] = Reverse(host_req)[i]
    BY <2>1, <2>2, ConcatProperties DEF Line
  <2> QED
    BY <2>2, <2>3
<1>2. ASSUME NEW j \in (Len(host_req) - n + 1)..Len(host_req)
      PROVE  (Len(host_req) - j) + 1 \in 1..n /\ Line[(Len(host_req) - j) + 1] = host_req[j]
  <2>1. (Len(host_req) - j) + 1 \in 1..n /\ (Len(host_req) - ((Len(host_req) - j) + 1)) + 1 = j
    OBVIOUS
  <2> QED
    BY <1>1, <2>1
<1>3. ASSUME NEW i \in 1..n
      PROVE  (Len(host_req) - i) + 1 \in (Len(host_req) - n + 1)..Len(host_req)
  OBVIOUS
<1>4. ASSUME NEW x \in Top(host_req, n) PROVE \E i \in 1..n : x = Line[i]
  <2>1. PICK j \in (Len(host_req) - n + 1)..Len(host_req) : x = host_req[j]
    BY <1>4, Zenon DEF Top
  <2> QED
    BY <1>2, <2>1
<1>5. ASSUME NEW x, NEW i \in 1..n, x = Line[i] PROVE x \in Top(host_req, n)
  <2>1. x = Line[i]
    BY <1>5
  <2>2. x = host_req[(Len(host_req) - i) + 1] /\ (Len(host_req) - i) + 1 \in (Len(host_req) - n + 1)..Len(host_req)
    BY <1>1, <1>3, <2>1
  <2> QED
    BY <2>2, Zenon DEF Top
<1> QED
  BY <1>4, <1>5

LEMMA InitMaps == Init => Fifo!Init
<1> SUFFICES ASSUME Init PROVE Fifo!Init
  OBVIOUS
<1>1. Reverse(host_req) \o host_pool = <<>>
  <2>1. <<>> \o <<>> = <<>>
    OBVIOUS
  <2> QED
    BY <2>1, ReverseEmpty DEF Init
<1> QED
  BY <1>1 DEF Init, Fifo!Init

\* The batch and the rest of the pool are the pool.
LEMMA BatchThenRest ==
  ASSUME TypeOK
  PROVE  /\ Batch \in Seq(Reqs)
         /\ Batch \o SubSeq(host_pool, BatchLen + 1, Len(host_pool)) = host_pool
<1>1. host_pool \in Seq(Reqs) /\ BatchLen \in 0..Len(host_pool)
  BY BatchLenType DEF TypeOK
<1>2. Batch \in Seq(Reqs)
  BY <1>1, SubSeqType DEF Batch
<1>3. SubSeq(host_pool, 1, BatchLen) \o SubSeq(host_pool, BatchLen + 1, Len(host_pool))
        = SubSeq(host_pool, 1, Len(host_pool))
  <2>1. /\ 1 \in 1..Len(host_pool) + 1 /\ BatchLen \in (1 - 1)..Len(host_pool)
        /\ Len(host_pool) \in BatchLen..Len(host_pool)
    BY <1>1
  <2> QED
    BY <1>1, <2>1, ConcatAdjacentSubSeq
<1>4. SubSeq(host_pool, 1, Len(host_pool)) = host_pool
  BY <1>1, SubSeqFull
<1> QED
  BY <1>2, <1>3, <1>4 DEF Batch

\* Whatever schedule does, it keeps the line in order, and pushes a batch on an
\* empty stack only.
LEMMA ScheduleLine ==
  ASSUME BankInv, StackInv, NEW c, NEW stack \in Seq(Reqs), Schedule(c, stack),
         UNCHANGED scheduling_mode, host_req = <<>> => stack = <<>>
  PROVE  StackInv' /\ Reverse(host_req') \o host_pool' = Reverse(stack) \o host_pool
<1>1. /\ mode \in {"PIM", "HOST", "switch_delay"}
      /\ last_service_mode \in {"PIM", "HOST"} /\ portal \in {"PIM", "HOST"}
      /\ host_pool \in Seq(Reqs)
      /\ mode \in {"PIM", "HOST"} => portal = mode
      /\ mode = "switch_delay" => portal = last_service_mode
  BY DEF BankInv, TypeOK, PauseProtocol
<1>2. /\ scheduling_mode # "HostOnly"
      /\ portal = "PIM" \/ mode = "HOST" => stack = <<>>
  BY DEF StackInv
<1>3. CASE scheduling_mode = "CGO_only" /\ CgoOnly(c, stack)
  <2>1. mode = "PIM"
    BY <1>3 DEF BankInv, PauseProtocol
  <2>2. host_req' = stack /\ host_pool' = host_pool /\ portal' = "PIM" /\ mode' = "PIM"
    BY <1>3 DEF CgoOnly
  <2> QED
    BY <1>1, <1>2, <2>1, <2>2 DEF StackInv
<1>4. CASE PimService(c, stack)
  <2>1. /\ mode = "PIM" /\ host_req' = stack /\ host_pool' = host_pool
    BY <1>4 DEF PimService
  <2> QED
    BY <1>1, <1>2, <2>1 DEF StackInv
<1>5. CASE HostService(c, stack)
  <2>1. /\ mode = "HOST" /\ mode' = "switch_delay" /\ portal' = portal
        /\ host_req' = PushBatch(stack, Batch)
        /\ host_pool' = SubSeq(host_pool, BatchLen + 1, Len(host_pool))
    BY <1>5 DEF HostService, LeaveMode
  <2>2. stack = <<>> /\ portal = "HOST"
    BY <1>1, <1>2, <2>1
  <2>3. TypeOK
    BY DEF BankInv
  <2>4. Batch \in Seq(Reqs) /\ Batch \o host_pool' = host_pool
    BY <2>1, <2>3, BatchThenRest
  <2>5. Reverse(Batch) \in Seq(Reqs) /\ Reverse(Reverse(Batch)) = Batch
    BY <2>4, ReverseProperties, ReverseTwice
  <2>6. host_req' = Reverse(Batch)
    BY <2>1, <2>2, <2>5, ConcatEmptySeq DEF PushBatch
  <2>7. Reverse(stack) \o host_pool = host_pool
    BY <1>1, <2>2, ReverseEmpty, ConcatEmptySeq
  <2>8. Reverse(host_req') \o host_pool' = Reverse(stack) \o host_pool
    BY <2>4, <2>5, <2>6, <2>7
  <2>9. StackInv'
    BY <1>2, <2>1, <2>2 DEF StackInv
  <2> QED
    BY <2>8, <2>9
<1>6. CASE SwitchDelay(c, stack)
  <2>1. mode = "switch_delay" /\ host_req' = stack /\ host_pool' = host_pool
    BY <1>6 DEF SwitchDelay
  <2>2. CASE ~SwitchDelayDone(c, stack)
    <3>1. mode' = mode /\ portal' = portal
      BY <1>6, <2>2 DEF SwitchDelay, KeepMode
    <3> QED
      BY <1>2, <2>1, <3>1 DEF StackInv
  <2>3. CASE SwitchDelayDone(c, stack)
    <3>1. stack = <<>>
      BY <1>1, <1>2, <2>1, <2>3 DEF SwitchDelayDone
    <3> QED
      BY <1>2, <2>1, <3>1 DEF StackInv
  <2> QED
    BY <2>1, <2>2, <2>3
<1> QED
  BY <1>2, <1>3, <1>4, <1>5, <1>6 DEF Schedule

\* A tick issues what the drain took, and answers what the DRAM completed.
LEMMA TickServes ==
  ASSUME BankInv, StackInv, Tick PROVE StackInv' /\ Fifo!Serve
<1>1. PICK p \in ProcessorTick :
        \E n \in Accepted(IF portal = "PIM" THEN simcpu_req + p.sent ELSE Len(host_req)) :
          \E e \in 0..DramCapacity, h \in SUBSET Reqs, busy \in BOOLEAN :
            TickWith(p, n, e, h, busy)
  BY DEF Tick
<1>2. PICK m \in Accepted(IF portal = "PIM" THEN simcpu_req + p.sent ELSE Len(host_req)) :
        \E e \in 0..DramCapacity, h \in SUBSET Reqs, busy \in BOOLEAN :
            TickWith(p, m, e, h, busy)
  BY <1>1
<1>3. PICK e \in 0..DramCapacity, h \in SUBSET Reqs, busy \in BOOLEAN :
        TickWith(p, m, e, h, busy)
  BY <1>2
<1> DEFINE n == IF portal = "HOST" THEN m ELSE 0
           issued == dram_host \cup Top(host_req, n)
<1>4. /\ host_req \in Seq(Reqs) /\ host_pool \in Seq(Reqs) /\ dram_host \subseteq Reqs
      /\ host_complete \subseteq Reqs \cup Starts \cup Queries
      /\ cgo_cmd_queue \cap Reqs = {}
  BY EngineAssumption DEF BankInv, TypeOK
<1>5. n \in 0..Len(host_req)
  <2>1. ProcessorOk(p)
    BY ProcessorTickOk
  <2>2. portal = "HOST" => m \in 0..Len(host_req)
    BY <2>1, DrainOk DEF BankInv
  <2> QED
    BY <1>4, <2>2
<1>6. /\ h \subseteq issued
      /\ dram_host' = issued \ h
      /\ host_complete' = host_complete \cup cgo_cmd_queue \cup h
      /\ UNCHANGED scheduling_mode
      /\ Schedule(p.cpu, Below(host_req, n))
  BY <1>3, Zenon DEF TickWith
<1> HIDE DEF n
<1>7. Below(host_req, n) \in Seq(Reqs)
  BY <1>4, <1>5, StackType
<1>8. host_req = <<>> => Below(host_req, n) = <<>>
  <2>1. ASSUME host_req = <<>> PROVE SubSeq(host_req, 1, Len(host_req) - n) = <<>>
    <3>1. Len(host_req) - n = 0
      BY <1>5, <2>1
    <3>2. SubSeq(host_req, 1, 0) = <<>>
      BY SubSeqEmpty
    <3> QED
      BY <3>1, <3>2
  <2> QED
    BY <2>1 DEF Below
<1>9. StackInv' /\ Reverse(host_req') \o host_pool' = Reverse(Below(host_req, n)) \o host_pool
  BY <1>6, <1>7, <1>8, ScheduleLine
<1>10. Reverse(Below(host_req, n)) \o host_pool = SubSeq(Line, n + 1, Len(Line))
  BY <1>4, <1>5, BelowIsRest DEF Line
<1>11. Top(host_req, n) = {Line[i] : i \in 1..n}
  <2>1. \A x : x \in Top(host_req, n) <=> \E i \in 1..n : x = Line[i]
    BY <1>5, TopIsFront DEF BankInv
  <2> QED
    BY <2>1
<1>12. n \in 0..Len(Line)
  BY <1>4, <1>5, LineType DEF BankInv
<1>13. (host_complete \cap Reqs)' = (host_complete \cap Reqs) \cup (issued \ dram_host')
  <2>1. h \subseteq Reqs /\ issued \ dram_host' = h
    BY <1>6
  <2> QED
    BY <1>4, <1>6, <2>1
<1>14. /\ (Reverse(host_req) \o host_pool)' = SubSeq(Line, n + 1, Len(Line))
       /\ dram_host' \subseteq issued
       /\ issued = dram_host \cup {Line[i] : i \in 1..n}
  BY <1>6, <1>9, <1>10, <1>11
<1> HIDE DEF issued
<1>15. Fifo!Serve
  BY <1>12, <1>13, <1>14, Zenon DEF Fifo!Serve, Line
<1> QED
  BY <1>9, <1>15

LEMMA EnqueueHostAccepts ==
  ASSUME BankInv, StackInv, NEW r \in Reqs, EnqueueHost(r)
  PROVE  StackInv' /\ Fifo!Accept(r)
<1>1. /\ host_req \in Seq(Reqs) /\ host_pool \in Seq(Reqs)
      /\ Reverse(host_req) \in Seq(Reqs) /\ Len(Reverse(host_req)) = Len(host_req)
      /\ \A i \in 1..Len(host_req) : Reverse(host_req)[i] = host_req[(Len(host_req) - i) + 1]
  BY ReverseProperties DEF BankInv, TypeOK
<1>2. /\ host_req' = host_req /\ host_pool' = Append(host_pool, r)
      /\ dram_host' = dram_host /\ host_complete' = host_complete
      /\ r \notin Range(host_pool) /\ r \notin Range(host_req)
      /\ r \notin dram_host /\ r \notin host_complete
  BY DEF EnqueueHost, dram, Free, Pending
<1>3. Reverse(host_req) \o Append(host_pool, r) = Append(Reverse(host_req) \o host_pool, r)
  <2>1. Append(host_pool, r) = host_pool \o <<r>> /\ <<r>> \in Seq(Reqs)
    BY <1>1, AppendIsConcat
  <2>2. /\ Reverse(host_req) \o host_pool \in Seq(Reqs)
        /\ Append(Reverse(host_req) \o host_pool, r) = (Reverse(host_req) \o host_pool) \o <<r>>
    BY <1>1, ConcatProperties, AppendIsConcat
  <2> QED
    BY <1>1, <2>1, <2>2, ConcatAssociative
<1>4. r \notin Fifo!Range(Reverse(host_req) \o host_pool)
  <2> SUFFICES ASSUME NEW i \in DOMAIN (Reverse(host_req) \o host_pool),
                      (Reverse(host_req) \o host_pool)[i] = r
               PROVE  FALSE
    BY Zenon DEF Fifo!Range
  <2>1. Range(Reverse(host_req) \o host_pool) = Range(Reverse(host_req)) \cup Range(host_pool)
    BY <1>1, RangeConcatenation
  <2>2. r \in Range(Reverse(host_req) \o host_pool)
    BY Zenon DEF Range
  <2>3. r \in Range(Reverse(host_req))
    BY <1>2, <2>1, <2>2
  <2>4. PICK j \in 1..Len(host_req) : Reverse(host_req)[j] = r
    BY <1>1, <2>3, RangeEquality
  <2>5. (Len(host_req) - j) + 1 \in DOMAIN host_req
    BY <1>1
  <2>6. r \in Range(host_req)
    BY <1>1, <2>4, <2>5, Zenon DEF Range
  <2> QED
    BY <1>2, <2>6
<1>5. Fifo!Accept(r)
  BY <1>2, <1>3, <1>4, Zenon DEF Fifo!Accept
<1>6. StackInv'
  BY <1>2 DEF StackInv, EnqueueHost, sched
<1> QED
  BY <1>5, <1>6

FifoVars == <<Reverse(host_req) \o host_pool, dram_host, host_complete \cap Reqs>>

LEMMA GetHostCompleteTakes ==
  ASSUME BankInv, StackInv, NEW r, GetHostComplete(r)
  PROVE  StackInv' /\ ((r \in Reqs /\ Fifo!Take(r)) \/ UNCHANGED FifoVars)
<1>1. /\ r \in host_complete /\ host_complete' = host_complete \ {r}
      /\ host_req' = host_req /\ host_pool' = host_pool /\ dram_host' = dram_host
  BY DEF GetHostComplete, hostSide, dram
<1>2. StackInv'
  BY <1>1 DEF StackInv, GetHostComplete, sched
<1>3. CASE r \in Reqs
  <2>1. (host_complete \cap Reqs)' = (host_complete \cap Reqs) \ {r}
    BY <1>1
  <2>2. Fifo!Take(r)
    BY <1>1, <1>3, <2>1, Zenon DEF Fifo!Take
  <2> QED
    BY <1>2, <1>3, <2>2
<1>4. CASE r \notin Reqs
  BY <1>1, <1>2, <1>4 DEF FifoVars
<1> QED
  BY <1>3, <1>4

\* The remaining steps do not concern the host's requests.
LEMMA OtherStepsStutter ==
  ASSUME BankInv, StackInv, "HostOnly" \notin Modes,
         \/ \E sm \in Modes : Configure(sm)
         \/ \E r \in Starts \cup Queries : EnqueueCmd(r)
         \/ UNCHANGED vars
  PROVE  StackInv' /\ UNCHANGED FifoVars
<1>1. UNCHANGED <<host_req, host_pool, dram_host, host_complete>>
  BY DEF Configure, EnqueueCmd, vars, hostSide, dram
<1>2. CASE \E sm \in Modes : Configure(sm)
  <2>1. /\ scheduling_mode' # "HostOnly" /\ mode = "PIM"
    BY <1>2 DEF Configure, BankInv, PauseProtocol
  <2>2. host_req = <<>>
    BY <2>1 DEF StackInv, BankInv, PauseProtocol
  <2> QED
    BY <1>1, <2>1, <2>2 DEF StackInv, FifoVars
<1>3. CASE (\E r \in Starts \cup Queries : EnqueueCmd(r)) \/ UNCHANGED vars
  <2>1. UNCHANGED <<scheduling_mode, portal, mode>>
    BY <1>3 DEF EnqueueCmd, vars, sched
  <2> QED
    BY <1>1, <2>1 DEF StackInv, FifoVars
<1> QED
  BY <1>2, <1>3

LEMMA FifoStep ==
  ASSUME "HostOnly" \notin Modes, BankInv, StackInv, [Next]_vars
  PROVE  StackInv' /\ [Fifo!Next]_FifoVars
<1>1. CASE Tick
  BY <1>1, TickServes DEF Fifo!Next
<1>2. CASE \E r \in Reqs : EnqueueHost(r)
  BY <1>2, EnqueueHostAccepts DEF Fifo!Next
<1>3. CASE \E r \in Reqs \cup Starts \cup Queries : GetHostComplete(r)
  BY <1>3, GetHostCompleteTakes DEF Fifo!Next
<1>4. CASE \/ \E sm \in Modes : Configure(sm)
           \/ \E r \in Starts \cup Queries : EnqueueCmd(r)
           \/ UNCHANGED vars
  BY <1>4, OtherStepsStutter
<1> QED
  BY <1>1, <1>2, <1>3, <1>4 DEF Next

\* Requests of the host are issued first come, first served, each is answered
\* once and none is lost (comment at engine.rs:410), in an engine that shares
\* its bank or keeps it for the processor.
THEOREM FirstComeFirstServed ==
  ASSUME "HostOnly" \notin Modes
  PROVE  Spec => ServesHostInOrder
<1>1. Init => StackInv /\ Fifo!Init
  BY InitMaps DEF Init, StackInv
<1>2. BankInv /\ StackInv /\ [Next]_vars => StackInv' /\ [Fifo!Next]_FifoVars
  BY FifoStep
<1> QED
  BY <1>1, <1>2, BankInvariant, PTL DEF Spec, ServesHostInOrder, Fifo!Spec, FifoVars
=============================================================================
