----------------------------- MODULE CgoEngine ------------------------------
(***************************************************************************)
(* One engine that owns a CGO processor (src/sim_engine/engine.rs): a      *)
(* pseudo bank whose DRAM is shared, batch by batch, between the host and  *)
(* the CPU.  Engine::tick is one action; between two ticks the simulator   *)
(* configures the engine, enqueues requests and takes completions.         *)
(*                                                                         *)
(* Requests of the host are named (Reqs, Starts, Queries) and a name may   *)
(* be used again once its completion was taken.  Requests of the CPU and   *)
(* of the boot controller are counted.  DRAMSim3 is external: it accepts   *)
(* while it has room, completes what it holds in any order, and may stay   *)
(* busy with writes it has already completed.                              *)
(***************************************************************************)
EXTENDS Naturals, Sequences, FiniteSets, SequencesExt, CgoCpu, CgoBoot

CONSTANTS Reqs,          \* host memory requests
          Starts,        \* CGO_Start command requests
          Queries,       \* CGO_Query command requests
          Modes,         \* the scheduling modes a run may configure
          BatchSz,       \* MEM_req_watermarkL, the constant BATCH_SZ
          DramCapacity   \* requests the DRAM holds at most

SchedulingModes == {"CGO_only", "Host_CGO_share", "HostOnly"}

ASSUME EngineAssumption ==
  /\ Modes \subseteq SchedulingModes
  /\ BatchSz \in Nat
  /\ DramCapacity \in Nat \ {0}
  /\ Reqs \cap (Starts \cup Queries) = {}

VARIABLES
  scheduling_mode,
  mode,                       \* next_mode equals it between two ticks
  last_service_mode,
  portal,                     \* mode of the dram_portal (and of DRAMSim3)
  PIM_tick_watermark,
  PIM_tick_rec,               \* saturates at BatchSz + 1
  first_host_switch_started,
  cpu,
  boot,
  simcpu_req,                 \* portal stack of PIM requests, its height
  simcpu_resp,                \* portal responses to PIM, their number
  dram_pim,                   \* PIM requests inside the DRAM, their number
  host_pool,                  \* VecDeque of host requests, oldest first
  host_req,                   \* portal stack of host requests, top last
  dram_host,                  \* host requests inside the DRAM
  dram_busy,                  \* the DRAM works on writes it has completed
  host_complete,              \* completions the simulator has not taken
  cgo_cmd_queue,
  ran                         \* history: unheld CPU ticks since the last
                              \* resume, saturated at BatchSz + 1

sched == <<mode, last_service_mode, portal, PIM_tick_watermark, PIM_tick_rec,
           first_host_switch_started>>
pimSide == <<cpu, boot, simcpu_req, simcpu_resp, ran>>
hostSide == <<host_pool, host_req>>
dram == <<dram_pim, dram_host, dram_busy>>
vars == <<scheduling_mode, sched, pimSide, hostSide, dram, host_complete, cgo_cmd_queue>>

Init ==
  /\ scheduling_mode = "Unconfigured"
  /\ mode = "PIM" /\ last_service_mode = "PIM" /\ portal = "PIM"
  /\ PIM_tick_watermark = 0 /\ PIM_tick_rec = 0
  /\ first_host_switch_started = FALSE
  /\ cpu = NewCpu /\ boot = NewBoot
  /\ simcpu_req = 0 /\ simcpu_resp = 0
  /\ host_pool = <<>> /\ host_req = <<>>
  /\ dram_pim = 0 /\ dram_host = {} /\ dram_busy = FALSE
  /\ host_complete = {} /\ cgo_cmd_queue = {}
  /\ ran = BatchSz + 1

-----------------------------------------------------------------------------
(* Between ticks: the simulator's calls.                                    *)

Pending ==
  Range(host_pool) \cup Range(host_req) \cup dram_host \cup cgo_cmd_queue

\* A request the simulator may use for a new call.
Free(r) == r \notin Pending \cup host_complete

\* set_scheduling_mode, allowed once
Configure(sm) ==
  /\ scheduling_mode = "Unconfigured"
  /\ scheduling_mode' = sm
  /\ mode' = IF sm = "HostOnly" THEN "HOST" ELSE "PIM"
  /\ portal' = mode'
  /\ first_host_switch_started' = (sm = "HostOnly" \/ first_host_switch_started)
  /\ UNCHANGED <<last_service_mode, PIM_tick_watermark, PIM_tick_rec, pimSide,
                 hostSide, dram, host_complete, cgo_cmd_queue>>

InDram == dram_pim + Cardinality(dram_host)

\* enqueue_host_mem_request.  Sim calls it if accepts_host_mem_requests and
\* after canAccept, which asks the DRAM alone: the pool has no bound.
EnqueueHost(r) ==
  /\ scheduling_mode \in {"Host_CGO_share", "HostOnly"}
  /\ InDram < DramCapacity
  /\ Free(r)
  /\ host_pool' = Append(host_pool, r)
  /\ UNCHANGED <<scheduling_mode, sched, pimSide, host_req, dram,
                 host_complete, cgo_cmd_queue>>

\* enqueue_host_pim_request
EnqueueCmd(r) ==
  /\ scheduling_mode # "Unconfigured"
  /\ Free(r)
  /\ cgo_cmd_queue' = cgo_cmd_queue \cup {r}
  /\ UNCHANGED <<scheduling_mode, sched, pimSide, hostSide, dram, host_complete>>

\* get_host_complete
GetHostComplete(r) ==
  /\ r \in host_complete
  /\ host_complete' = host_complete \ {r}
  /\ UNCHANGED <<scheduling_mode, sched, pimSide, hostSide, dram, cgo_cmd_queue>>

-----------------------------------------------------------------------------
(* Engine::tick, first half: processor, commands, portal, DRAM.             *)

Processed(c, b, sent, taken) == [cpu |-> c, boot |-> b, sent |-> sent, taken |-> taken]

Idle == Processed(cpu, boot, 0, 0)

CpuTicks == {Processed(o.cpu, boot, o.sent, o.taken) : o \in TickCpu(cpu, simcpu_resp)}

\* A boot controller that is done starts the CPU.
BootTicks ==
  {Processed(IF o.boot.state = "Finished" THEN Start(cpu) ELSE cpu,
             o.boot, o.sent, o.taken) : o \in TickBoot(boot, simcpu_req, simcpu_resp)}

\* Mutant: the CPU, like the boot controller, ticks in PIM mode only.
ProcessorTickPimOnly ==
  IF scheduling_mode = "HostOnly" \/ mode # "PIM" THEN {Idle}
  ELSE IF cpu.started THEN CpuTicks ELSE BootTicks

\* tick_cgo_processor: a started CPU ticks whoever owns the bank, the boot
\* controller only while the PIM side does.
ProcessorTick ==
  IF scheduling_mode \in {"Unconfigured", "HostOnly"} THEN {Idle}
  ELSE IF cpu.started
       THEN CpuTicks
       ELSE IF mode # "PIM" THEN {Idle}
       ELSE BootTicks

\* Mutant: a Start is taken whatever the scheduling mode.
BootAfterAnyStart(b) == IF cgo_cmd_queue \cap Starts # {} THEN SetOn(b) ELSE b

\* process_cgo_cmds: a Start arms the boot controller if it is idle, every
\* command completes in the tick that finds it.
BootAfterCmds(b) ==
  IF cgo_cmd_queue \cap Starts # {} /\ scheduling_mode # "HostOnly"
  THEN SetOn(b) ELSE b

\* drain_current_port_to_dram stops at the first request DRAMSim3 refuses.
\* It refuses what it has no room for, and may refuse more while it is busy.
Accepted(waiting) ==
  {n \in 0..waiting : /\ InDram + n <= DramCapacity \/ n = 0
                      /\ waiting > 0 /\ InDram = 0 /\ ~dram_busy => n > 0}

\* The n topmost requests of a stack, and the stack without them.
Top(stack, n) == {stack[i] : i \in (Len(stack) - n + 1)..Len(stack)}
Below(stack, n) == SubSeq(stack, 1, Len(stack) - n)

-----------------------------------------------------------------------------
(* Engine::tick, second half: schedule.  Its operators take the CPU after   *)
(* its tick (c) and the host stack after the drain (stack).                 *)

\* dramsim3_wrapper::is_drained, after this tick's completions.
DramDrained == dram_pim' = 0 /\ dram_host' = {} /\ ~dram_busy'

\* Mutant: the switch does not wait for the CPU to acknowledge the pause.
SwitchDelayDoneNoHandshake(c, stack) ==
  /\ DramDrained
  /\ IF last_service_mode = "PIM" THEN simcpu_req' = 0 ELSE stack = <<>>

\* Mutant: the switch does not wait for the requests inside the DRAM.
SwitchDelayDoneNoDrain(c, stack) ==
  IF last_service_mode = "PIM" THEN c.ready4ext_sig /\ simcpu_req' = 0
                               ELSE stack = <<>>

\* switch_delay_done
SwitchDelayDone(c, stack) ==
  /\ DramDrained
  /\ IF last_service_mode = "PIM" THEN c.ready4ext_sig /\ simcpu_req' = 0
                                  ELSE stack = <<>>

\* Stay in the current mode.
KeepMode == UNCHANGED <<mode, last_service_mode, portal>>

\* Mutant: switch() forgets which side it comes from.
LeaveModeForgetful ==
  /\ mode' = "switch_delay"
  /\ UNCHANGED <<last_service_mode, portal>>

\* switch(PIM), switch(HOST): a CGO engine counts no delay of its own.
LeaveMode ==
  /\ mode' = "switch_delay"
  /\ last_service_mode' = mode
  /\ UNCHANGED portal

Opposite(m) == IF m = "PIM" THEN "HOST" ELSE "PIM"

\* switch(switch_delay)
SwitchDelay(c, stack) ==
  /\ mode = "switch_delay"
  /\ IF SwitchDelayDone(c, stack)
     THEN /\ mode' = Opposite(last_service_mode)
          /\ portal' = mode'
          /\ UNCHANGED last_service_mode
     ELSE KeepMode
  /\ cpu' = c
  /\ host_req' = stack
  /\ UNCHANGED <<host_pool, PIM_tick_watermark, PIM_tick_rec,
                 first_host_switch_started>>

\* Mutant: the host gets the bank whenever it has something to ask.
ShouldSwitchOnPool == host_pool # <<>>

ShouldSwitchToHost ==
  IF first_host_switch_started
  THEN PIM_tick_watermark <= PIM_tick_rec /\ host_pool # <<>>
  ELSE Len(host_pool) > BatchSz

\* schedule_host_cgo_share, PIM mode
PimService(c, stack) ==
  /\ mode = "PIM"
  /\ host_req' = stack
  /\ UNCHANGED <<host_pool, PIM_tick_watermark>>
  /\ IF ShouldSwitchToHost
     THEN /\ first_host_switch_started' = TRUE
          /\ PIM_tick_rec' = 0
          /\ cpu' = IF c.started THEN SignalPause(c) ELSE c
          /\ LeaveMode
     ELSE /\ PIM_tick_rec' = IF PIM_tick_rec > BatchSz THEN PIM_tick_rec
                                                       ELSE PIM_tick_rec + 1
          /\ cpu' = c
          /\ KeepMode
          /\ UNCHANGED first_host_switch_started

\* Mutant: the watermark is tested before the count is taken.
BatchLenOffByOne ==
  IF Len(host_pool) > BatchSz + 1 THEN BatchSz + 2 ELSE Len(host_pool)

\* How many requests the next batch takes: MEM_tick_rec counts them and stops
\* the loop when it exceeds the watermark.
BatchLen == IF Len(host_pool) > BatchSz THEN BatchSz + 1 ELSE Len(host_pool)

Batch == SubSeq(host_pool, 1, BatchLen)

\* Mutant: the batch is pushed oldest first onto the stack-backed portal.
PushOldestFirst(stack, batch) == stack \o batch

\* Requests are submitted newest first, so that the stack yields the oldest.
PushBatch(stack, batch) == stack \o Reverse(batch)

\* schedule_host_cgo_share, HOST mode.  The loop ends only when the batch is
\* full or the pool is empty, so the mode is left in the tick it is entered
\* and MEM_tick_rec is 0 between ticks.
HostService(c, stack) ==
  /\ mode = "HOST"
  /\ host_req' = PushBatch(stack, Batch)
  /\ host_pool' = SubSeq(host_pool, BatchLen + 1, Len(host_pool))
  /\ PIM_tick_watermark' = BatchLen
  /\ cpu' = IF c.started THEN SignalResume(c) ELSE c
  /\ LeaveMode
  /\ UNCHANGED <<PIM_tick_rec, first_host_switch_started>>

\* schedule, CGO_only and HostOnly
CgoOnly(c, stack) ==
  /\ mode' = "PIM" /\ portal' = "PIM"
  /\ cpu' = c
  /\ host_req' = stack
  /\ UNCHANGED <<host_pool, last_service_mode, PIM_tick_watermark, PIM_tick_rec,
                 first_host_switch_started>>

HostOnly(c, stack) ==
  /\ mode' = "HOST" /\ portal' = "HOST"
  /\ cpu' = c
  /\ host_req' = PushBatch(stack, host_pool)
  /\ host_pool' = <<>>
  /\ UNCHANGED <<last_service_mode, PIM_tick_watermark, PIM_tick_rec,
                 first_host_switch_started>>

Schedule(c, stack) ==
  \/ scheduling_mode = "CGO_only" /\ CgoOnly(c, stack)
  \/ scheduling_mode = "HostOnly" /\ HostOnly(c, stack)
  \/ /\ scheduling_mode = "Host_CGO_share"
     /\ \/ PimService(c, stack)
        \/ HostService(c, stack)
        \/ SwitchDelay(c, stack)

\* ran' : a tick in which the pause did not hold the CPU, forgotten when the
\* engine resumes it.
CountRun(c) ==
  IF scheduling_mode = "Host_CGO_share" /\ mode = "HOST" /\ c.started THEN 0
  ELSE IF ~Held(c) /\ ran <= BatchSz THEN ran + 1 ELSE ran

\* Engine::tick.  n requests go from the current mode's stack to the DRAM,
\* then e requests of the PIM side and the set h of the host's complete; busy
\* says whether the DRAM goes on with writes among those it ever completed.
TickWith(p, n, e, h, busy) ==
  LET waiting == simcpu_req + p.sent
      toPim == IF portal = "PIM" THEN n ELSE 0
      toHost == IF portal = "HOST" THEN n ELSE 0
  IN /\ boot' = BootAfterCmds(p.boot)
     /\ simcpu_req' = waiting - toPim
     /\ e \in 0..(dram_pim + toPim)
     /\ dram_pim' = (dram_pim + toPim) - e
     /\ simcpu_resp' = simcpu_resp - p.taken + e
     /\ h \subseteq dram_host \cup Top(host_req, toHost)
     /\ dram_host' = (dram_host \cup Top(host_req, toHost)) \ h
     /\ busy => dram_busy \/ e > 0 \/ h # {}
     /\ dram_busy' = busy
     /\ host_complete' = host_complete \cup cgo_cmd_queue \cup h
     /\ cgo_cmd_queue' = {}
     /\ ran' = CountRun(p.cpu)
     /\ Schedule(p.cpu, Below(host_req, toHost))
     /\ UNCHANGED scheduling_mode

Tick ==
  /\ scheduling_mode # "Unconfigured"
  /\ \E p \in ProcessorTick :
       \E n \in Accepted(IF portal = "PIM" THEN simcpu_req + p.sent ELSE Len(host_req)) :
         \E e \in 0..DramCapacity, h \in SUBSET Reqs, busy \in BOOLEAN :
           TickWith(p, n, e, h, busy)

-----------------------------------------------------------------------------

Next ==
  \/ \E sm \in Modes : Configure(sm)
  \/ \E r \in Reqs : EnqueueHost(r)
  \/ \E r \in Starts \cup Queries : EnqueueCmd(r)
  \/ \E r \in Reqs \cup Starts \cup Queries : GetHostComplete(r)
  \/ Tick

Spec == Init /\ [][Next]_vars

\* gem5 clocks the simulator for ever, and DRAMSim3 completes every request
\* it has accepted and carries every write out.
Fairness ==
  /\ WF_vars(Tick)
  /\ WF_vars(/\ simcpu_req + dram_pim > 0
             /\ Tick
             /\ simcpu_req' + dram_pim' < simcpu_req + dram_pim)
  /\ WF_vars(dram_busy /\ Tick /\ ~dram_busy')
  /\ \A r \in Reqs : WF_vars(r \in dram_host /\ Tick /\ r \notin dram_host')

FairSpec == Spec /\ Fairness

-----------------------------------------------------------------------------
(* Properties.                                                              *)

\* The state variables keep their types.
TypeOK ==
  /\ scheduling_mode \in SchedulingModes \cup {"Unconfigured"}
  /\ mode \in {"PIM", "HOST", "switch_delay"}
  /\ last_service_mode \in {"PIM", "HOST"}
  /\ portal \in {"PIM", "HOST"}
  /\ PIM_tick_watermark \in 0..(BatchSz + 1)
  /\ PIM_tick_rec \in 0..(BatchSz + 1)
  /\ first_host_switch_started \in BOOLEAN
  /\ cpu \in CpuState
  /\ boot \in BootState
  /\ simcpu_req \in Nat /\ simcpu_resp \in Nat /\ dram_pim \in Nat
  /\ host_pool \in Seq(Reqs)
  /\ host_req \in Seq(Reqs)
  /\ dram_host \subseteq Reqs /\ dram_busy \in BOOLEAN
  /\ host_complete \subseteq Reqs \cup Starts \cup Queries
  /\ cgo_cmd_queue \subseteq Starts \cup Queries
  /\ ran \in 0..(BatchSz + 1)

\* The bank serves one side at a time: requests of the CPU are inside the
\* DRAM only while the portal is in PIM mode, the host's only while it is in
\* HOST mode (switch_delay_done drains both before the portal changes hands).
BankExclusion ==
  /\ dram_pim > 0 => portal = "PIM"
  /\ dram_host # {} => portal = "HOST"

\* When a batch of the host's goes out (HOST mode lasts for that tick), the CPU
\* is held by the pause and nothing of the PIM side is anywhere on its way to
\* the DRAM: ready4signal has waited for the memory operations in MEM and AGU.
\* While the DRAM still answers the batch, in the delay back to PIM mode, the CPU
\* is already resumed and may queue requests; BankExclusion keeps them out.
HostOwnsQuietBank ==
  scheduling_mode = "Host_CGO_share" /\ mode = "HOST" =>
    /\ simcpu_req = 0 /\ dram_pim = 0
    /\ cpu.started => cpu.finished \/ (Held(cpu) /\ cpu.mem = "None")

\* A pause is acknowledged only while it holds the pipeline, and it holds the
\* pipeline only while no memory operation is under way: an acknowledgement
\* never races a MEM_block, a resume that counts down or the end of the program
\* (update_extsig_rdy against the scoreboard's priorities).
PauseAckedWhenHeld == HandshakeSound(cpu)

\* The engine's half of the handshake: the owner of the bank agrees with the
\* mode, and on the way to the host a started CPU is under a pause that no
\* resume calls off, however long the switch takes.
PauseProtocol ==
  /\ mode \in {"PIM", "HOST"} => portal = mode
  /\ mode = "switch_delay" =>
       /\ scheduling_mode = "Host_CGO_share"
       /\ portal = last_service_mode
       /\ last_service_mode = "PIM" /\ cpu.started =>
            cpu.ext_pause_requested /\ ~cpu.resume_delay_pending
  /\ scheduling_mode = "HostOnly" => mode = "HOST"
  /\ scheduling_mode \in {"CGO_only", "Unconfigured"} => mode = "PIM"

\* An engine that was given to the host alone runs no program: a Start is
\* answered like any command and leaves the processor, the boot controller and
\* the PIM side of the portal alone (irregular_cgo_start in process_cgo_cmds).
HostOnlyKeepsProcessorOff ==
  scheduling_mode = "HostOnly" =>
    /\ boot = NewBoot /\ ~cpu.started
    /\ simcpu_req = 0 /\ simcpu_resp = 0 /\ dram_pim = 0

\* Nothing is in the DRAM before the engine is configured.
IdleUntilConfigured ==
  scheduling_mode = "Unconfigured" => dram_pim = 0 /\ dram_host = {}

\* The inductive invariant: both halves of the handshake, and what they are for.
BankInv ==
  /\ TypeOK /\ PauseAckedWhenHeld /\ PauseProtocol /\ IdleUntilConfigured
  /\ BankExclusion /\ HostOwnsQuietBank

\* Every request of the PIM side is waited for by whoever submitted it: the
\* boot controller counts all of its requests in pending_reqs, and a running
\* CPU has one request under way exactly when its MEM_block FSM stalls.
PimRequestsAccounted ==
  LET underWay == simcpu_req + dram_pim + simcpu_resp
  IN IF ~cpu.started THEN underWay = boot.pending
     ELSE ~cpu.finished => underWay = IF cpu.mem = "Stall" THEN 1 ELSE 0

\* The host's requests are served first come, first served, each once, and
\* none is lost (comment at engine.rs:410).
Fifo == INSTANCE HostFifo WITH
  queue <- Reverse(host_req) \o host_pool,
  memory <- dram_host,
  answered <- host_complete \cap Reqs
ServesHostInOrder == Fifo!Spec

\* The batch scheduler is fair to the CPU: the engine pauses it only after
\* it has run, unheld, for at least as many ticks as the last batch had
\* requests.  (Given a resume delay of at most one cycle: PimModeAfterResume
\* says what a longer one does to the share.)
CpuGetsItsShare ==
  [][ (scheduling_mode = "Host_CGO_share" /\ mode = "PIM" /\ mode' = "switch_delay")
        => ran' >= PIM_tick_watermark ]_vars

\* Every request the engine has been given is completed, and every command in
\* every mode.  (What host requests suffer in HostOnly mode ServesHostInOrder
\* shows: one that the DRAM refuses may be overtaken again and again.)
RequestsComplete ==
  /\ \A r \in Starts \cup Queries : r \in Pending ~> r \in host_complete
  /\ \A r \in Reqs :
       (r \in Pending /\ scheduling_mode # "HostOnly") ~> r \in host_complete

\* Once a start was taken, the CPU gets to run although the host never rests.
BootCompletes == boot.state # "IDLE" ~> cpu.started

\* A started CPU is never held for ever.
CpuNotStarved == cpu.started ~> ~Held(cpu)

\* switch() is the automaton Host -> switch_delay -> PIM -> switch_delay ->
\* Host (comment at engine.rs:324): no delay is for ever.
SwitchDelayEnds == mode = "switch_delay" ~> mode # "switch_delay"

\* The engine returns the bank to the CPU only after the resume has been
\* accepted (note at signal_scoreboard.rs:282).
PimModeAfterResume ==
  scheduling_mode = "Host_CGO_share" /\ mode = "PIM" => ~cpu.resume_delay_pending

=============================================================================
