------------------------------ MODULE FgoEngine -----------------------------
(***************************************************************************)
(* One engine that owns an FGO processing element, in Host_FGO_share mode  *)
(* (src/sim_engine/engine.rs): the host's memory requests and the PE's     *)
(* instructions take turns at a pseudo bank, one at a time.  Engine::tick  *)
(* is one action; between two ticks the simulator enqueues requests and    *)
(* takes completions.  The host's requests are named (Reqs), and so are    *)
(* the ones that carry an instruction (Insts); a name may be used again    *)
(* once its completion was taken.  DRAMSim3 is external, as in CgoEngine.  *)
(***************************************************************************)
EXTENDS Naturals, Sequences, FiniteSets, FgoPe

CONSTANTS Reqs,           \* host memory requests
          PauseCycles,    \* switch_pause_cycles
          ResumeCycles,   \* switch_resume_cycles
          DramCapacity    \* requests the DRAM holds at most

ASSUME FgoAssumption ==
  /\ PauseCycles \in Nat
  /\ ResumeCycles \in Nat
  /\ DramCapacity \in Nat \ {0}
  /\ Reqs \cap Insts = {}

VARIABLES
  mode,                    \* next_mode equals it between two ticks
  last_service_mode,
  portal,                  \* mode of the dram_portal (and of DRAMSim3)
  switch_delay_remaining,
  fgo_request_state,
  fgo_next_service,
  pe,
  simcpu_req,              \* portal stack of PE requests, its height
  simcpu_resp,             \* portal responses to the PE, their number
  dram_pim,                \* PE requests inside the DRAM, their number
  host_pool,               \* VecDeque of host requests, oldest first
  host_req,                \* portal stack of host requests: never more than one
  dram_host,               \* host requests inside the DRAM
  dram_busy,               \* the DRAM works on writes it has completed
  host_complete            \* completions the simulator has not taken

sched == <<mode, last_service_mode, portal, switch_delay_remaining,
           fgo_request_state, fgo_next_service>>
dram == <<simcpu_req, simcpu_resp, dram_pim, host_req, dram_host, dram_busy>>
vars == <<sched, pe, dram, host_pool, host_complete>>

Init ==
  /\ mode = "PIM" /\ last_service_mode = "PIM" /\ portal = "PIM"
  /\ switch_delay_remaining = 0
  /\ fgo_request_state = "Idle" /\ fgo_next_service = "PIM"
  /\ pe = NewPe
  /\ simcpu_req = 0 /\ simcpu_resp = 0 /\ dram_pim = 0
  /\ host_pool = <<>> /\ host_req = {} /\ dram_host = {} /\ dram_busy = FALSE
  /\ host_complete = {}

-----------------------------------------------------------------------------
(* Between ticks: the simulator's calls.                                    *)

Elements(s) == {s[i] : i \in DOMAIN s}

\* Requests the engine has been given and has not answered.
Pending ==
  Elements(host_pool) \cup host_req \cup dram_host
    \cup Elements(pe.imem) \cup Elements(pe.ex)

Free(r) == r \notin Pending \cup host_complete

InDram == dram_pim + Cardinality(dram_host)

\* enqueue_host_mem_request, after canAccept, which asks the DRAM alone.
EnqueueHost(r) ==
  /\ InDram < DramCapacity
  /\ Free(r)
  /\ host_pool' = Append(host_pool, r)
  /\ UNCHANGED <<sched, pe, dram, host_complete>>

\* enqueue_host_pim_request: an instruction, taken whatever the state.
EnqueueInst(i) ==
  /\ Free(i)
  /\ pe' = PushHostReq(pe, i)
  /\ UNCHANGED <<sched, dram, host_pool, host_complete>>

\* get_host_complete
GetHostComplete(r) ==
  /\ r \in host_complete
  /\ host_complete' = host_complete \ {r}
  /\ UNCHANGED <<sched, pe, dram, host_pool>>

-----------------------------------------------------------------------------
(* Engine::tick: the PE, then the portal and the DRAM, then schedule.       *)

\* The PE is clocked only while an instruction of its has been admitted.
PeTicks == mode = "PIM" /\ fgo_request_state = "PimInFlight"

PeAfter == IF PeTicks THEN TickPe(pe, simcpu_resp) ELSE pe
PeSent == IF PeTicks THEN Sent(pe) ELSE 0
PeTaken == IF PeTicks THEN Taken(pe, simcpu_resp) ELSE 0
PeRetires == IF PeTicks THEN Retires(pe) ELSE {}

\* dramsim3_wrapper::is_drained, after this tick's completions.
DramDrained == dram_pim' = 0 /\ dram_host' = {} /\ ~dram_busy'

Opposite(m) == IF m = "PIM" THEN "HOST" ELSE "PIM"

\* Mutant: the delay is loaded with one tick too many.
DelayCyclesPlusOne(m) == IF m = "PIM" THEN PauseCycles + 1 ELSE ResumeCycles + 1

DelayCycles(m) == IF m = "PIM" THEN PauseCycles ELSE ResumeCycles

\* switch(PIM), switch(HOST)
LeaveMode ==
  /\ mode' = "switch_delay"
  /\ last_service_mode' = mode
  /\ switch_delay_remaining' = DelayCycles(mode)
  /\ UNCHANGED portal

\* Stay in the current mode.
KeepMode == UNCHANGED <<mode, last_service_mode, portal, switch_delay_remaining>>

\* switch_delay_done
SwitchDelayDone(unsent) ==
  /\ switch_delay_remaining = 0
  /\ DramDrained
  /\ IF last_service_mode = "PIM" THEN simcpu_req' = 0 ELSE unsent = {}

\* switch(switch_delay); unsent is what is left of the host stack.
SwitchDelay(unsent) ==
  /\ mode = "switch_delay"
  /\ IF SwitchDelayDone(unsent)
     THEN /\ mode' = Opposite(last_service_mode)
          /\ portal' = mode'
          /\ UNCHANGED <<last_service_mode, switch_delay_remaining>>
     ELSE /\ switch_delay_remaining' =
               IF switch_delay_remaining > 0 THEN switch_delay_remaining - 1 ELSE 0
          /\ UNCHANGED <<mode, last_service_mode, portal>>
  /\ pe' = PeAfter
  /\ host_req' = unsent
  /\ UNCHANGED <<host_pool, fgo_request_state, fgo_next_service>>

\* Mutant: an instruction counts as done once the PE has fetched it.
ServiceOverOnFetch(unsent) ==
  \/ fgo_request_state = "PimInFlight" /\ ~PeAfter.fetch_next_allowed
  \/ fgo_request_state = "HostInFlight" /\ unsent = {} /\ DramDrained

\* The request that was admitted last is done: the PE has finished it, or the
\* host's has left the portal and the DRAM.
ServiceOver(unsent) ==
  \/ fgo_request_state = "PimInFlight" /\ PeAfter.finished
  \/ fgo_request_state = "HostInFlight" /\ unsent = {} /\ DramDrained

\* has_finished forgets what it reports.
PeAsked == IF fgo_request_state = "PimInFlight" THEN [PeAfter EXCEPT !.finished = FALSE]
                                                ELSE PeAfter

Ready(side) == IF side = "PIM" THEN HasBufferedInst(PeAfter) ELSE host_pool # <<>>

\* Mutant: the PE is preferred whoever's turn it is.
SelectedPimFirst(next) ==
  CASE Ready("PIM")                   -> "PIM"
    [] ~Ready("PIM") /\ Ready("HOST") -> "HOST"
    [] OTHER                          -> "none"

\* Which source is served next: the one whose turn it is, if it asks.
Selected(next) ==
  CASE Ready(next)                           -> next
    [] ~Ready(next) /\ Ready(Opposite(next)) -> Opposite(next)
    [] OTHER                                 -> "none"

\* fgo_issue_pim
IssuePim(unsent) ==
  /\ pe' = AllowNext(PeAsked)
  /\ fgo_request_state' = "PimInFlight"
  /\ host_req' = unsent
  /\ KeepMode
  /\ UNCHANGED host_pool

\* fgo_issue_host
IssueHost(unsent) ==
  /\ host_req' = unsent \cup {Head(host_pool)}
  /\ host_pool' = Tail(host_pool)
  /\ fgo_request_state' = "HostInFlight"
  /\ pe' = PeAsked
  /\ KeepMode

\* Nothing is admitted: the bank has to change hands first, or none asks.
AdmitNothing(unsent, next) ==
  /\ IF Selected(next) = Opposite(mode) THEN LeaveMode ELSE KeepMode
  /\ pe' = PeAsked
  /\ host_req' = unsent
  /\ fgo_request_state' = "Idle"
  /\ UNCHANGED host_pool

\* schedule_host_fgo_share, PIM and HOST modes, no request under way:
\* fgo_select_in_pim_mode and fgo_select_in_host_mode.
Select(unsent, next) ==
  /\ fgo_next_service' = next
  /\ \/ mode = "PIM" /\ Selected(next) = "PIM" /\ IssuePim(unsent)
     \/ mode = "HOST" /\ Selected(next) = "HOST" /\ IssueHost(unsent)
     \/ Selected(next) # mode /\ AdmitNothing(unsent, next)

\* The request under way goes on.
Proceed(unsent) ==
  /\ pe' = PeAsked
  /\ host_req' = unsent
  /\ KeepMode
  /\ UNCHANGED <<host_pool, fgo_request_state, fgo_next_service>>

Schedule(unsent) ==
  \/ SwitchDelay(unsent)
  \/ /\ mode # "switch_delay"
     /\ \/ ServiceOver(unsent) /\ Select(unsent, Opposite(mode))
        \/ fgo_request_state = "Idle" /\ Select(unsent, fgo_next_service)
        \/ fgo_request_state # "Idle" /\ ~ServiceOver(unsent) /\ Proceed(unsent)

\* drain_current_port_to_dram: how many of the waiting requests of the current
\* side go to the DRAM.  It refuses what it has no room for, and may refuse
\* more while it is busy.
Accepted(waiting) ==
  {n \in 0..waiting : /\ InDram + n <= DramCapacity \/ n = 0
                      /\ waiting > 0 /\ InDram = 0 /\ ~dram_busy => n > 0}

\* toPim and toHost go from the portal to the DRAM, then e requests of the PE
\* and the set h of the host's complete; busy says whether the DRAM goes on
\* with writes among those it ever completed.
TickWith(toPim, toHost, e, h, busy) ==
  /\ simcpu_req' = (simcpu_req + PeSent) - toPim
  /\ e \in 0..(dram_pim + toPim)
  /\ dram_pim' = (dram_pim + toPim) - e
  /\ simcpu_resp' = (simcpu_resp - PeTaken) + e
  /\ h \subseteq dram_host \cup toHost
  /\ dram_host' = (dram_host \cup toHost) \ h
  /\ busy => dram_busy \/ e > 0 \/ h # {}
  /\ dram_busy' = busy
  /\ host_complete' = host_complete \cup PeRetires \cup h
  /\ Schedule(host_req \ toHost)

ToPim == IF portal = "PIM" THEN Accepted(simcpu_req + PeSent) ELSE {0}

ToHost ==
  IF portal = "HOST"
  THEN {s \in SUBSET host_req : Cardinality(s) \in Accepted(Cardinality(host_req))}
  ELSE {{}}

Tick ==
  \E toPim \in ToPim, toHost \in ToHost :
    \E e \in 0..DramCapacity, h \in SUBSET Reqs, busy \in BOOLEAN :
      TickWith(toPim, toHost, e, h, busy)

-----------------------------------------------------------------------------

Next ==
  \/ \E r \in Reqs : EnqueueHost(r)
  \/ \E i \in Insts : EnqueueInst(i)
  \/ \E r \in Reqs \cup Insts : GetHostComplete(r)
  \/ Tick

Spec == Init /\ [][Next]_vars

\* gem5 clocks the simulator for ever, and DRAMSim3 completes every request
\* it has accepted and carries every write out.
Fairness ==
  /\ WF_vars(Tick)
  /\ WF_vars(/\ simcpu_req + dram_pim > 0
             /\ Tick
             /\ simcpu_req' + dram_pim' < simcpu_req + dram_pim)
  /\ WF_vars(dram_busy /\ Tick /\ ~dram_busy')
  /\ \A r \in Reqs : WF_vars(r \in dram_host /\ Tick /\ r \notin dram_host')

FairSpec == Spec /\ Fairness

-----------------------------------------------------------------------------
(* Properties.                                                              *)

\* The state variables keep their types.
TypeOK ==
  /\ mode \in {"PIM", "HOST", "switch_delay"}
  /\ last_service_mode \in {"PIM", "HOST"}
  /\ portal \in {"PIM", "HOST"}
  /\ switch_delay_remaining \in 0..PauseCycles \cup 0..ResumeCycles
  /\ fgo_request_state \in {"Idle", "PimInFlight", "HostInFlight"}
  /\ fgo_next_service \in {"PIM", "HOST"}
  /\ pe \in PeState
  /\ simcpu_req \in Nat /\ simcpu_resp \in Nat /\ dram_pim \in Nat
  /\ host_pool \in Seq(Reqs)
  /\ host_req \subseteq Reqs /\ dram_host \subseteq Reqs /\ dram_busy \in BOOLEAN
  /\ host_complete \subseteq Reqs \cup Insts

\* The PE holds no instruction: nothing it has begun is still to be done.
PeQuiet ==
  /\ pe.ex = <<>> /\ ~pe.fetch_next_allowed /\ ~pe.finished
  /\ pe.fsm \in {"Idle", "Release"}

\* The bank serves one side at a time, and it does not leave a side in the
\* middle of a request: unless the portal is the PE's, the PE has begun nothing
\* and none of its requests is on its way; unless it is the host's, no host
\* request is in the portal or the DRAM.
BankOwner ==
  /\ portal = "HOST" => PeQuiet /\ simcpu_req + dram_pim + simcpu_resp = 0
  /\ portal = "PIM" => host_req = {} /\ dram_host = {}

\* PE_MEM_stop_FSM stalls for exactly one request, and for as long as that
\* request is under way: no response is left for a later instruction to take
\* for its own (take_completed matches address and direction only).
PeRequestAccounted ==
  simcpu_req + dram_pim + simcpu_resp = IF pe.fsm = "Stall" THEN 1 ELSE 0

\* What the engine believes to be under way is what is: the owner of the bank
\* agrees with the mode, a request is under way only in its side's mode, and
\* when none of a side's is, the side has left nothing behind.
RequestStateAgrees ==
  /\ IF mode = "switch_delay"
     THEN portal = last_service_mode /\ fgo_request_state = "Idle"
     ELSE portal = mode
  /\ fgo_request_state = "PimInFlight" => mode = "PIM"
  /\ fgo_request_state = "HostInFlight" => mode = "HOST"
  /\ fgo_request_state # "HostInFlight" => host_req = {} /\ dram_host = {}
  /\ fgo_request_state # "PimInFlight" => PeQuiet
  /\ ~pe.finished
  /\ pe.ex # <<>> => ~pe.fetch_next_allowed

\* The inductive invariant.
FgoInv == TypeOK /\ RequestStateAgrees /\ PeRequestAccounted

\* Host requests and instructions take turns as the comment at engine.rs:67
\* says, each source is served in order, and none is lost or answered twice.
Arbiter == INSTANCE FgoArbiter WITH
  Work <- [side \in {"PIM", "HOST"} |-> IF side = "PIM" THEN Insts ELSE Reqs],
  queue <- [side \in {"PIM", "HOST"} |->
              IF side = "HOST" THEN host_pool
              ELSE IF pe.fetch_next_allowed THEN Tail(pe.imem) ELSE pe.imem],
  serving <- host_req \cup dram_host \cup Elements(pe.ex)
               \cup (IF pe.fetch_next_allowed THEN {Head(pe.imem)} ELSE {}),
  last <- CASE fgo_request_state = "PimInFlight"  -> "PIM"
            [] fgo_request_state = "HostInFlight" -> "HOST"
            [] OTHER                              -> Opposite(fgo_next_service),
  answered <- host_complete
ServesInTurn == Arbiter!Spec

\* Every request and every instruction the engine has been given is completed,
\* although both sources may go on asking for ever.
RequestsComplete ==
  \A r \in Reqs \cup Insts : r \in Pending ~> r \in host_complete

=============================================================================
