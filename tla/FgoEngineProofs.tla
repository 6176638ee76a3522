--------------------------- MODULE FgoEngineProofs --------------------------
(***************************************************************************)
(* The safety of taking turns, for every number of requests and            *)
(* instructions, every delay and DRAM capacity: FgoInv is inductive, and   *)
(* the engine refines FgoArbiter.                                          *)
(***************************************************************************)
EXTENDS FgoEngine, SequenceTheorems, TLAPS

-----------------------------------------------------------------------------
(* The processing element.                                                  *)

LEMMA NewPeType == NewPe \in PeState
  BY DEF NewPe, PeState, Slot, FsmStates

LEMMA PushType ==
  ASSUME NEW p \in PeState, NEW i \in Insts
  PROVE  PushHostReq(p, i) \in PeState
  BY DEF PushHostReq, PeState

LEMMA AllowType == ASSUME NEW p \in PeState PROVE AllowNext(p) \in PeState
  BY DEF AllowNext, PeState

LEMMA AskedType ==
  ASSUME NEW p \in PeState PROVE [p EXCEPT !.finished = FALSE] \in PeState
  BY DEF PeState

LEMMA HeadTail ==
  ASSUME NEW S, NEW s \in Seq(S), s # <<>>
  PROVE  Head(s) \in S /\ Tail(s) \in Seq(S)
  OBVIOUS

LEMMA NextFsmType ==
  ASSUME NEW p \in PeState, NEW resp \in Nat PROVE NextFsm(p, resp) \in FsmStates
  BY DEF NextFsm, FsmStates, PeState

LEMMA NextImemType ==
  ASSUME NEW p \in PeState PROVE NextImem(p) \in Seq(Insts)
<1>1. p.imem \in Seq(Insts)
  BY DEF PeState
<1> QED
  BY <1>1, HeadTail DEF NextImem

LEMMA NextExType == ASSUME NEW p \in PeState PROVE NextEx(p) \in Slot
<1>1. p.imem \in Seq(Insts) /\ p.ex \in Slot
  BY DEF PeState
<1>2. p.imem # <<>> => <<Head(p.imem)>> \in Slot
  BY <1>1, HeadTail DEF Slot
<1>3. <<>> \in Slot
  BY DEF Slot
<1> QED
  BY <1>1, <1>2, <1>3 DEF NextEx

LEMMA TickPeType ==
  ASSUME NEW p \in PeState, NEW resp \in Nat PROVE TickPe(p, resp) \in PeState
<1>1. /\ NextFsm(p, resp) \in FsmStates
      /\ NextImem(p) \in Seq(Insts)
      /\ NextEx(p) \in Slot
  BY NextFsmType, NextImemType, NextExType
<1>2. p.fetch_next_allowed \in BOOLEAN /\ p.finished \in BOOLEAN
  BY DEF PeState
<1>3. (p.fetch_next_allowed /\ ~Consumed(p)) \in BOOLEAN
  OBVIOUS
<1>4. (p.finished \/ (~ExStalls(p) /\ p.ex # <<>>)) \in BOOLEAN
  OBVIOUS
<1> QED
  BY <1>1, <1>3, <1>4 DEF TickPe, PeState

\* An instruction leaves a PE that began with it alone as it found it.
LEMMA FinishedPeIsQuiet ==
  ASSUME NEW p \in PeState, NEW resp \in Nat, ~p.finished,
         p.ex # <<>> => ~p.fetch_next_allowed,
         TickPe(p, resp).finished
  PROVE  /\ TickPe(p, resp).ex = <<>>
         /\ ~TickPe(p, resp).fetch_next_allowed
         /\ TickPe(p, resp).fsm \in {"Idle", "Release"}
<1>1. ~ExStalls(p) /\ p.ex # <<>> /\ ~p.fetch_next_allowed
  BY DEF TickPe
<1>2. NextEx(p) = <<>>
  BY <1>1 DEF NextEx
<1>3. NextFsm(p, resp) \in {"Idle", "Release"}
  BY <1>1 DEF ExStalls, Submits, NextFsm, PeState, FsmStates
<1> QED
  BY <1>1, <1>2, <1>3 DEF TickPe

\* A PE that has fetched an instruction has used up its permission.
LEMMA FetchUsesPermission ==
  ASSUME NEW p \in PeState, NEW resp \in Nat,
         p.ex # <<>> => ~p.fetch_next_allowed
  PROVE  TickPe(p, resp).ex # <<>> => ~TickPe(p, resp).fetch_next_allowed
<1>1. CASE ExStalls(p)
  <2>1. p.ex # <<>> => ~p.fetch_next_allowed
    OBVIOUS
  <2> QED
    BY <1>1 DEF TickPe, NextEx
<1>2. CASE ~ExStalls(p)
  BY <1>2 DEF TickPe, NextEx, Consumed
<1> QED
  BY <1>1, <1>2

\* One request is under way exactly while the FSM stalls.
LEMMA StallCounts ==
  ASSUME NEW p \in PeState, NEW resp \in Nat, NEW way \in Nat,
         way = IF p.fsm = "Stall" THEN 1 ELSE 0
  PROVE  (way + Sent(p)) - Taken(p, resp) = IF TickPe(p, resp).fsm = "Stall" THEN 1 ELSE 0
<1>1. TickPe(p, resp).fsm = NextFsm(p, resp)
  BY DEF TickPe
<1>2. p.fsm \in FsmStates
  BY DEF PeState
<1>3. CASE p.fsm = "Idle"
  BY <1>1, <1>3 DEF NextFsm, Sent, Taken, Submits
<1>4. CASE p.fsm = "Stall"
  BY <1>1, <1>4 DEF NextFsm, Sent, Taken, Submits
<1>5. CASE p.fsm \in {"WriteBack", "Release"}
  BY <1>1, <1>5 DEF NextFsm, Sent, Taken, Submits
<1> QED
  BY <1>2, <1>3, <1>4, <1>5 DEF FsmStates

-----------------------------------------------------------------------------
(* The initial state and the calls between two ticks.                       *)

LEMMA InitInv == Init => FgoInv
<1> SUFFICES ASSUME Init PROVE FgoInv
  OBVIOUS
<1>1. pe \in PeState
  BY NewPeType DEF Init
<1>2. switch_delay_remaining \in 0..PauseCycles \cup 0..ResumeCycles
  BY FgoAssumption DEF Init
<1>3. TypeOK
  <2>1. host_pool \in Seq(Reqs)
    BY DEF Init
  <2>2. dram_busy \in BOOLEAN
    BY Zenon DEF Init
  <2>3. host_req \subseteq Reqs /\ dram_host \subseteq Reqs /\ host_complete \subseteq Reqs \cup Insts
    BY DEF Init
  <2> QED
    BY <1>1, <1>2, <2>1, <2>2, <2>3 DEF Init, TypeOK
<1>4. RequestStateAgrees /\ PeRequestAccounted
  BY DEF Init, RequestStateAgrees, PeRequestAccounted, NewPe, PeQuiet
<1> QED
  BY <1>3, <1>4 DEF FgoInv

LEMMA EnqueueHostInv == ASSUME FgoInv, NEW r \in Reqs, EnqueueHost(r) PROVE FgoInv'
<1>1. host_pool' \in Seq(Reqs)
  BY DEF FgoInv, TypeOK, EnqueueHost
<1>2. TypeOK'
  BY <1>1 DEF FgoInv, TypeOK, EnqueueHost, sched, dram
<1>3. RequestStateAgrees' /\ PeRequestAccounted'
  BY DEF FgoInv, EnqueueHost, sched, dram, RequestStateAgrees, PeRequestAccounted, PeQuiet
<1> QED
  BY <1>2, <1>3 DEF FgoInv

LEMMA EnqueueInstInv == ASSUME FgoInv, NEW i \in Insts, EnqueueInst(i) PROVE FgoInv'
<1>1. pe \in PeState
  BY DEF FgoInv, TypeOK
<1>2. pe' \in PeState
  BY <1>1, PushType DEF EnqueueInst
<1>3. /\ pe'.ex = pe.ex /\ pe'.fsm = pe.fsm /\ pe'.finished = pe.finished
      /\ pe'.fetch_next_allowed = pe.fetch_next_allowed
  BY <1>1 DEF EnqueueInst, PushHostReq, PeState
<1>4. TypeOK'
  BY <1>2 DEF FgoInv, TypeOK, EnqueueInst, sched, dram
<1>5. RequestStateAgrees' /\ PeRequestAccounted'
  BY <1>3 DEF FgoInv, EnqueueInst, sched, dram, RequestStateAgrees, PeRequestAccounted, PeQuiet
<1> QED
  BY <1>4, <1>5 DEF FgoInv

LEMMA GetHostCompleteInv == ASSUME FgoInv, NEW r, GetHostComplete(r) PROVE FgoInv'
<1>1. TypeOK'
  BY DEF FgoInv, TypeOK, GetHostComplete, sched, dram
<1>2. RequestStateAgrees' /\ PeRequestAccounted'
  BY DEF FgoInv, GetHostComplete, sched, dram, RequestStateAgrees, PeRequestAccounted, PeQuiet
<1> QED
  BY <1>1, <1>2 DEF FgoInv

-----------------------------------------------------------------------------
(* Engine::tick.                                                            *)

\* The PE after its tick, if it has one.
LEMMA PeAfterFacts ==
  ASSUME FgoInv
  PROVE  /\ PeAfter \in PeState
         /\ PeAfter.ex # <<>> => ~PeAfter.fetch_next_allowed
         /\ fgo_request_state # "PimInFlight" => PeAfter = pe
         /\ PeAfter.finished =>
              /\ PeAfter.ex = <<>> /\ ~PeAfter.fetch_next_allowed
              /\ PeAfter.fsm \in {"Idle", "Release"}
<1>1. /\ pe \in PeState /\ simcpu_resp \in Nat /\ ~pe.finished
      /\ pe.ex # <<>> => ~pe.fetch_next_allowed
  BY DEF FgoInv, TypeOK, RequestStateAgrees
<1>2. CASE PeTicks
  BY <1>1, <1>2, TickPeType, FetchUsesPermission, FinishedPeIsQuiet DEF PeAfter, PeTicks
<1>3. CASE ~PeTicks
  BY <1>1, <1>3 DEF PeAfter
<1> QED
  BY <1>2, <1>3

\* Requests of the PE are neither lost nor made up on their way.
LEMMA CountsFacts ==
  ASSUME FgoInv, NEW toPim \in ToPim, NEW e \in 0..(dram_pim + toPim),
         simcpu_req' = (simcpu_req + PeSent) - toPim,
         dram_pim' = (dram_pim + toPim) - e,
         simcpu_resp' = (simcpu_resp - PeTaken) + e
  PROVE  /\ simcpu_req' \in Nat /\ dram_pim' \in Nat /\ simcpu_resp' \in Nat
         /\ simcpu_req' + dram_pim' + simcpu_resp' = IF PeAfter.fsm = "Stall" THEN 1 ELSE 0
<1>1. /\ simcpu_req \in Nat /\ dram_pim \in Nat /\ simcpu_resp \in Nat /\ pe \in PeState
      /\ simcpu_req + dram_pim + simcpu_resp = IF pe.fsm = "Stall" THEN 1 ELSE 0
  BY DEF FgoInv, TypeOK, PeRequestAccounted
<1>2. PeSent \in Nat /\ PeTaken \in 0..simcpu_resp
  BY <1>1 DEF PeSent, PeTaken, Sent, Taken
<1>3. toPim \in 0..(simcpu_req + PeSent)
  <2>1. simcpu_req + PeSent \in Nat
    BY <1>1, <1>2
  <2> QED
    BY <2>1 DEF ToPim, Accepted
<1>4. simcpu_req' \in Nat /\ dram_pim' \in Nat /\ simcpu_resp' \in Nat
  BY <1>1, <1>2, <1>3
<1>5. simcpu_req' + dram_pim' + simcpu_resp' =
        ((simcpu_req + dram_pim + simcpu_resp) + PeSent) - PeTaken
  BY <1>1, <1>2, <1>3
<1>6. ((simcpu_req + dram_pim + simcpu_resp) + PeSent) - PeTaken =
        IF PeAfter.fsm = "Stall" THEN 1 ELSE 0
  <2>1. CASE PeTicks
    BY <1>1, <2>1, StallCounts DEF PeAfter, PeSent, PeTaken
  <2>2. CASE ~PeTicks
    BY <1>1, <2>2 DEF PeAfter, PeSent, PeTaken
  <2> QED
    BY <2>1, <2>2
<1> QED
  BY <1>4, <1>5, <1>6

\* What has to hold of a schedule step for the invariant to survive it.
ScheduleOK ==
  /\ mode' \in {"PIM", "HOST", "switch_delay"}
  /\ last_service_mode' \in {"PIM", "HOST"}
  /\ portal' \in {"PIM", "HOST"}
  /\ switch_delay_remaining' \in 0..PauseCycles \cup 0..ResumeCycles
  /\ fgo_request_state' \in {"Idle", "PimInFlight", "HostInFlight"}
  /\ fgo_next_service' \in {"PIM", "HOST"}
  /\ pe' \in PeState
  /\ pe'.fsm = PeAfter.fsm
  /\ host_pool' \in Seq(Reqs)
  /\ host_req' \subseteq Reqs
  /\ RequestStateAgrees'

LEMMA PeAskedFacts ==
  ASSUME FgoInv
  PROVE  /\ PeAsked \in PeState
         /\ PeAsked.ex = PeAfter.ex /\ PeAsked.fsm = PeAfter.fsm
         /\ PeAsked.fetch_next_allowed = PeAfter.fetch_next_allowed
         /\ ~PeAsked.finished
         /\ PeAsked.ex # <<>> => ~PeAsked.fetch_next_allowed
         /\ fgo_request_state # "PimInFlight" => PeAsked = pe
<1>1. PeAfter \in PeState /\ (PeAfter.ex # <<>> => ~PeAfter.fetch_next_allowed)
  BY PeAfterFacts
<1>2. CASE fgo_request_state = "PimInFlight"
  <2>1. PeAsked = [PeAfter EXCEPT !.finished = FALSE]
    BY <1>2 DEF PeAsked
  <2> QED
    BY <1>1, <1>2, <2>1, AskedType DEF PeState
<1>3. CASE fgo_request_state # "PimInFlight"
  <2>1. PeAsked = pe /\ PeAfter = pe /\ ~pe.finished
    BY <1>3, PeAfterFacts DEF PeAsked, FgoInv, RequestStateAgrees
  <2> QED
    BY <1>1, <1>3, <2>1
<1> QED
  BY <1>2, <1>3

\* After a service, or when nothing was under way, the bank is free to be
\* given to either side.
LEMMA SelectOK ==
  ASSUME FgoInv, mode # "switch_delay",
         NEW next \in {"PIM", "HOST"},
         PeAsked.ex = <<>>, ~PeAsked.fetch_next_allowed, PeAsked.fsm \in {"Idle", "Release"},
         dram_host' = {},
         Select({}, next)
  PROVE  ScheduleOK
<1>1. /\ mode \in {"PIM", "HOST"} /\ portal = mode /\ portal \in {"PIM", "HOST"}
      /\ last_service_mode \in {"PIM", "HOST"} /\ host_pool \in Seq(Reqs)
      /\ switch_delay_remaining \in 0..PauseCycles \cup 0..ResumeCycles
  BY DEF FgoInv, TypeOK, RequestStateAgrees
<1>2. PeAsked \in PeState /\ PeAsked.fsm = PeAfter.fsm /\ ~PeAsked.finished
  BY PeAskedFacts
<1>3. fgo_next_service' \in {"PIM", "HOST"}
  BY DEF Select
<1>4. CASE mode = "PIM" /\ Selected(next) = "PIM" /\ IssuePim({})
  <2>1. pe' = AllowNext(PeAsked)
    BY <1>4 DEF IssuePim
  <2>2. pe' \in PeState
    BY <1>2, <2>1, AllowType
  <2>3. pe'.ex = <<>> /\ pe'.fsm = PeAfter.fsm /\ ~pe'.finished
    BY <1>2, <2>1 DEF AllowNext, PeState
  <2> QED
    BY <1>1, <1>3, <1>4, <2>2, <2>3 DEF IssuePim, KeepMode, ScheduleOK, RequestStateAgrees
<1>5. CASE mode = "HOST" /\ Selected(next) = "HOST" /\ IssueHost({})
  <2>1. host_pool # <<>>
    BY <1>5 DEF Selected, Ready, Opposite
  <2>2. Head(host_pool) \in Reqs /\ Tail(host_pool) \in Seq(Reqs)
    BY <1>1, <2>1, HeadTail
  <2>3. PeQuiet'
    BY <1>2, <1>5 DEF IssueHost, PeQuiet
  <2> QED
    BY <1>1, <1>2, <1>3, <1>5, <2>2, <2>3 DEF IssueHost, KeepMode, ScheduleOK, RequestStateAgrees
<1>6. CASE AdmitNothing({}, next)
  <2>1. PeQuiet'
    BY <1>2, <1>6 DEF AdmitNothing, PeQuiet
  <2>2. CASE LeaveMode
    <3>1. switch_delay_remaining' \in 0..PauseCycles \cup 0..ResumeCycles
      BY <2>2, FgoAssumption DEF LeaveMode, DelayCycles
    <3> QED
      BY <1>1, <1>2, <1>3, <1>6, <2>1, <2>2, <3>1
      DEF AdmitNothing, LeaveMode, ScheduleOK, RequestStateAgrees
  <2>3. CASE KeepMode
    BY <1>1, <1>2, <1>3, <1>6, <2>1, <2>3
    DEF AdmitNothing, KeepMode, ScheduleOK, RequestStateAgrees
  <2> QED
    BY <1>6, <2>2, <2>3 DEF AdmitNothing
<1> QED
  BY <1>4, <1>5, <1>6 DEF Select

LEMMA SwitchDelayOK ==
  ASSUME FgoInv, dram_host' = {}, SwitchDelay({})
  PROVE  ScheduleOK
<1>1. /\ mode = "switch_delay" /\ fgo_request_state = "Idle"
      /\ portal = last_service_mode /\ last_service_mode \in {"PIM", "HOST"}
      /\ fgo_next_service \in {"PIM", "HOST"} /\ host_pool \in Seq(Reqs)
      /\ PeQuiet
      /\ PauseCycles \in Nat /\ ResumeCycles \in Nat
      /\ switch_delay_remaining \in 0..PauseCycles \cup 0..ResumeCycles
  BY FgoAssumption DEF FgoInv, TypeOK, RequestStateAgrees, SwitchDelay
<1>2. pe' = pe /\ PeAfter = pe /\ pe \in PeState
  BY <1>1, PeAfterFacts DEF SwitchDelay
<1>3. PeQuiet'
  BY <1>1, <1>2 DEF PeQuiet
<1>4. switch_delay_remaining' \in 0..PauseCycles \cup 0..ResumeCycles
  BY <1>1 DEF SwitchDelay
<1>5. IF mode' = "switch_delay"
      THEN portal' = last_service_mode' ELSE portal' = mode' /\ mode' \in {"PIM", "HOST"}
  BY <1>1 DEF SwitchDelay, Opposite
<1>6. /\ mode' \in {"PIM", "HOST", "switch_delay"} /\ portal' \in {"PIM", "HOST"}
      /\ last_service_mode' = last_service_mode
  BY <1>1 DEF SwitchDelay, Opposite
<1>7. /\ fgo_request_state' = "Idle" /\ fgo_next_service' = fgo_next_service
      /\ host_req' = {} /\ host_pool' = host_pool
  BY <1>1 DEF SwitchDelay
<1>8. RequestStateAgrees'
  BY <1>3, <1>5, <1>7 DEF RequestStateAgrees, PeQuiet
<1> QED
  BY <1>1, <1>2, <1>4, <1>6, <1>7, <1>8 DEF ScheduleOK

LEMMA ProceedOK ==
  ASSUME FgoInv, fgo_request_state # "Idle", NEW unsent, unsent \subseteq Reqs,
         fgo_request_state # "HostInFlight" => unsent = {} /\ dram_host' = {},
         Proceed(unsent)
  PROVE  ScheduleOK
<1>1. PeAsked \in PeState /\ PeAsked.fsm = PeAfter.fsm /\ ~PeAsked.finished
  BY PeAskedFacts
<1>2. /\ PeAsked.ex # <<>> => ~PeAsked.fetch_next_allowed
      /\ fgo_request_state # "PimInFlight" => PeAsked = pe
  BY PeAskedFacts
<1>3. RequestStateAgrees'
  BY <1>1, <1>2 DEF FgoInv, RequestStateAgrees, Proceed, KeepMode, PeQuiet
<1> QED
  BY <1>1, <1>3 DEF FgoInv, TypeOK, Proceed, KeepMode, ScheduleOK

\* Whatever schedule decides, given what the tick has done to the DRAM.
LEMMA ScheduleStep ==
  ASSUME FgoInv, NEW unsent, unsent \subseteq host_req,
         fgo_request_state # "HostInFlight" => dram_host' = {},
         Schedule(unsent)
  PROVE  ScheduleOK
<1>1. /\ host_req \subseteq Reqs
      /\ fgo_request_state # "HostInFlight" => unsent = {} /\ dram_host' = {}
      /\ mode \in {"PIM", "HOST", "switch_delay"}
      /\ fgo_request_state = "PimInFlight" => mode = "PIM"
      /\ fgo_request_state = "HostInFlight" => mode = "HOST"
      /\ fgo_next_service \in {"PIM", "HOST"}
      /\ fgo_request_state # "PimInFlight" => PeQuiet
  BY DEF FgoInv, TypeOK, RequestStateAgrees
<1>2. CASE SwitchDelay(unsent)
  <2>1. fgo_request_state = "Idle"
    BY <1>2 DEF SwitchDelay, FgoInv, RequestStateAgrees
  <2> QED
    BY <1>1, <1>2, <2>1, SwitchDelayOK
<1>3. CASE mode # "switch_delay" /\ ServiceOver(unsent) /\ Select(unsent, Opposite(mode))
  <2>1. unsent = {} /\ dram_host' = {}
    BY <1>1, <1>3 DEF ServiceOver, DramDrained
  <2>2. /\ PeAsked.ex = <<>> /\ ~PeAsked.fetch_next_allowed
        /\ PeAsked.fsm \in {"Idle", "Release"}
    <3>1. CASE fgo_request_state = "PimInFlight"
      <4>1. PeAfter.finished
        BY <1>3, <3>1 DEF ServiceOver
      <4> QED
        BY <4>1, PeAfterFacts, PeAskedFacts
    <3>2. CASE fgo_request_state # "PimInFlight"
      <4>1. PeAsked = pe
        BY <3>2, PeAskedFacts
      <4> QED
        BY <1>1, <3>2, <4>1 DEF PeQuiet
    <3> QED
      BY <3>1, <3>2
  <2>3. Opposite(mode) \in {"PIM", "HOST"}
    BY DEF Opposite
  <2> QED
    BY <1>3, <2>1, <2>2, <2>3, SelectOK
<1>4. CASE mode # "switch_delay" /\ fgo_request_state = "Idle" /\ Select(unsent, fgo_next_service)
  <2>1. PeAsked = pe
    BY <1>4, PeAskedFacts
  <2>2. /\ PeAsked.ex = <<>> /\ ~PeAsked.fetch_next_allowed
        /\ PeAsked.fsm \in {"Idle", "Release"}
    BY <1>1, <1>4, <2>1 DEF PeQuiet
  <2> QED
    BY <1>1, <1>4, <2>2, SelectOK
<1>5. CASE fgo_request_state # "Idle" /\ Proceed(unsent)
  BY <1>1, <1>5, ProceedOK
<1> QED
  BY <1>2, <1>3, <1>4, <1>5 DEF Schedule

LEMMA TickInv == ASSUME FgoInv, Tick PROVE FgoInv'
<1>1. PICK toPim \in ToPim, toHost \in ToHost, e \in 0..DramCapacity,
           h \in SUBSET Reqs, busy \in BOOLEAN : TickWith(toPim, toHost, e, h, busy)
  BY DEF Tick
<1>2. /\ simcpu_req' \in Nat /\ dram_pim' \in Nat /\ simcpu_resp' \in Nat
      /\ simcpu_req' + dram_pim' + simcpu_resp' = IF PeAfter.fsm = "Stall" THEN 1 ELSE 0
  BY <1>1, CountsFacts DEF TickWith
<1>3. /\ dram_host' = (dram_host \cup toHost) \ h
      /\ dram_busy' = busy
      /\ host_complete' = host_complete \cup PeRetires \cup h
      /\ Schedule(host_req \ toHost)
  BY <1>1 DEF TickWith
<1>4. toHost \subseteq host_req
  BY DEF ToHost
<1>5. host_req \subseteq Reqs /\ dram_host \subseteq Reqs /\ host_complete \subseteq Reqs \cup Insts
  BY DEF FgoInv, TypeOK
<1>6. fgo_request_state # "HostInFlight" => dram_host' = {}
  BY <1>3, <1>4 DEF FgoInv, RequestStateAgrees
<1>7. ScheduleOK
  BY <1>3, <1>6, ScheduleStep
<1>8. PeRetires \subseteq Insts
  BY DEF PeRetires, Retires
<1>9. TypeOK'
  BY <1>2, <1>3, <1>4, <1>5, <1>7, <1>8 DEF ScheduleOK, TypeOK
<1>10. PeRequestAccounted'
  BY <1>2, <1>7 DEF ScheduleOK, PeRequestAccounted
<1> QED
  BY <1>7, <1>9, <1>10 DEF ScheduleOK, FgoInv

LEMMA StutterInv == ASSUME FgoInv, UNCHANGED vars PROVE FgoInv'
  BY DEF FgoInv, TypeOK, RequestStateAgrees, PeRequestAccounted, PeQuiet, vars, sched, dram

-----------------------------------------------------------------------------
(* The theorems.                                                            *)

\* The invariant that makes taking turns safe, whatever the constants.
THEOREM TurnsInvariant == Spec => []FgoInv
<1>1. Init => FgoInv
  BY InitInv
<1>2. FgoInv /\ [Next]_vars => FgoInv'
  BY EnqueueHostInv, EnqueueInstInv, GetHostCompleteInv, TickInv, StutterInv DEF Next
<1> QED
  BY <1>1, <1>2, PTL DEF Spec

\* Every variable of an FGO engine keeps its type.
THEOREM FgoTypeCorrect == Spec => []TypeOK
<1>1. FgoInv => TypeOK
  BY DEF FgoInv
<1> QED
  BY <1>1, TurnsInvariant, PTL

\* The DRAM holds as many requests of the PE as its FSM waits for, always.
THEOREM PeRequestsAccounted == Spec => []PeRequestAccounted
<1>1. FgoInv => PeRequestAccounted
  BY DEF FgoInv
<1> QED
  BY <1>1, TurnsInvariant, PTL

\* The bank serves one side at a time and leaves neither in mid-request.
THEOREM OneSideAtATime == Spec => []BankOwner
<1>1. FgoInv => BankOwner
  <2> SUFFICES ASSUME FgoInv PROVE BankOwner
    OBVIOUS
  <2>1. portal \in {"PIM", "HOST"}
    BY DEF FgoInv, TypeOK
  <2>2. CASE portal = "HOST"
    <3>1. PeQuiet
      BY <2>2 DEF FgoInv, RequestStateAgrees
    <3>2. simcpu_req + dram_pim + simcpu_resp = 0
      BY <3>1 DEF FgoInv, PeRequestAccounted, PeQuiet
    <3> QED
      BY <2>2, <3>1, <3>2 DEF BankOwner
  <2>3. CASE portal = "PIM"
    BY <2>3 DEF FgoInv, RequestStateAgrees, BankOwner
  <2> QED
    BY <2>1, <2>2, <2>3
<1> QED
  BY <1>1, TurnsInvariant, PTL

-----------------------------------------------------------------------------
(***************************************************************************)
(* An FGO engine implements FgoArbiter: whatever a tick does is, for the   *)
(* two sources, nothing, an answer, or the admission of one of them, and   *)
(* then of the right one.                                                  *)
(***************************************************************************)

\* The permission is given for an instruction that is there, and the host has
\* one request under way at most, in the portal or in the DRAM.
OneAtATime ==
  /\ pe.fetch_next_allowed => pe.imem # <<>>
  /\ host_req = {} \/ dram_host = {}
  /\ \A r, s \in host_req \cup dram_host : r = s

TurnInv == FgoInv /\ OneAtATime

\* The abstract arbiter's variables.
PeQueue(p) == IF p.fetch_next_allowed THEN Tail(p.imem) ELSE p.imem
PeServing(p) ==
  Elements(p.ex) \cup (IF p.fetch_next_allowed THEN {Head(p.imem)} ELSE {})
Queue(side) == IF side = "HOST" THEN host_pool ELSE PeQueue(pe)
Serving == host_req \cup dram_host \cup PeServing(pe)
Last ==
  CASE fgo_request_state = "PimInFlight"  -> "PIM"
    [] fgo_request_state = "HostInFlight" -> "HOST"
    [] OTHER                              -> Opposite(fgo_next_service)

LEMMA ElementsOfSlot ==
  /\ Elements(<<>>) = {}
  /\ \A i : Elements(<<i>>) = {i}
BY DEF Elements

-----------------------------------------------------------------------------
(* The mapping, action by action.                                           *)

\* What each abstract action is in terms of the mapped variables.
SameQueues == \A side \in {"PIM", "HOST"} : Queue(side)' = Queue(side)

AbstractStutter == SameQueues /\ Serving' = Serving /\ Last' = Last /\ host_complete' = host_complete

AbstractAnswer ==
  /\ SameQueues
  /\ Serving # {} /\ Serving' = {}
  /\ host_complete' = host_complete \cup Serving
  /\ Last' = Last

AbstractAdmit(side) ==
  /\ Queue(side) # <<>>
  /\ Last # side \/ Queue(Opposite(side)) = <<>>
  /\ host_complete' = host_complete \cup Serving
  /\ Serving' = {Head(Queue(side))}
  /\ Queue(side)' = Tail(Queue(side))
  /\ Queue(Opposite(side))' = Queue(Opposite(side))
  /\ Last' = side

LEMMA AbstractInit == Init => Arbiter!ArbiterInit
<1> SUFFICES ASSUME Init PROVE Arbiter!ArbiterInit
  OBVIOUS
<1>1. /\ pe.imem = <<>> /\ pe.ex = <<>> /\ ~pe.fetch_next_allowed
      /\ host_pool = <<>> /\ host_req = {} /\ dram_host = {} /\ host_complete = {}
      /\ fgo_request_state = "Idle" /\ fgo_next_service = "PIM"
  BY DEF Init, NewPe
<1>2. Elements(pe.ex) = {}
  BY <1>1, ElementsOfSlot
<1> QED
  BY <1>1, <1>2 DEF Arbiter!ArbiterInit, Arbiter!Sides, Opposite

LEMMA StutterMaps ==
  ASSUME AbstractStutter
  PROVE  UNCHANGED Arbiter!avars
<1>1. /\ host_pool' = host_pool
      /\ (IF pe.fetch_next_allowed THEN Tail(pe.imem) ELSE pe.imem)'
           = (IF pe.fetch_next_allowed THEN Tail(pe.imem) ELSE pe.imem)
  BY Zenon DEF AbstractStutter, SameQueues, Queue, PeQueue
<1> QED
  BY <1>1 DEF AbstractStutter, Arbiter!avars, Serving, PeServing, Last

LEMMA AnswerMaps ==
  ASSUME AbstractAnswer
  PROVE  Arbiter!Answer
<1>1. /\ host_pool' = host_pool
      /\ (IF pe.fetch_next_allowed THEN Tail(pe.imem) ELSE pe.imem)'
           = (IF pe.fetch_next_allowed THEN Tail(pe.imem) ELSE pe.imem)
  BY Zenon DEF AbstractAnswer, SameQueues, Queue, PeQueue
<1> QED
  BY <1>1 DEF AbstractAnswer, Arbiter!Answer, Serving, PeServing, Last

LEMMA AdmitMaps ==
  ASSUME NEW side \in {"PIM", "HOST"}, AbstractAdmit(side)
  PROVE  Arbiter!Admit(side)
<1>1. CASE side = "PIM"
  BY <1>1 DEF AbstractAdmit, Arbiter!Admit, Arbiter!Other, Serving, PeServing, Last,
              Queue, PeQueue, Opposite
<1>2. CASE side = "HOST"
  BY <1>2 DEF AbstractAdmit, Arbiter!Admit, Arbiter!Other, Serving, PeServing, Last,
              Queue, PeQueue, Opposite
<1> QED
  BY <1>1, <1>2

-----------------------------------------------------------------------------
(* The processing element.                                                  *)

LEMMA SlotCases ==
  ASSUME NEW p \in PeState
  PROVE  p.ex = <<>> \/ \E i \in Insts : p.ex = <<i>>
BY DEF PeState, Slot

\* An instruction that commits leaves the PE as it is, but for the latch.
LEMMA PeRetire ==
  ASSUME NEW p \in PeState, NEW resp \in Nat,
         p.ex # <<>>, ~p.fetch_next_allowed, ~ExStalls(p)
  PROVE  /\ TickPe(p, resp).imem = p.imem
         /\ TickPe(p, resp).ex = <<>>
         /\ ~TickPe(p, resp).fetch_next_allowed
         /\ TickPe(p, resp).finished
         /\ Retires(p) = PeServing(p)
<1>1. PICK i \in Insts : p.ex = <<i>>
  BY SlotCases
<1>2. Elements(p.ex) = {i}
  BY <1>1, ElementsOfSlot
<1>3. Retires(p) = {i}
  <2>1. \A j \in Insts : p.ex = <<j>> <=> j = i
    BY <1>1
  <2> QED
    BY <2>1 DEF Retires
<1>4. PeServing(p) = {i}
  BY <1>2 DEF PeServing
<1> QED
  BY <1>3, <1>4 DEF TickPe, NextImem, NextEx, Consumed

\* Any other tick moves at most the instruction that was allowed, from the
\* buffer into the latch.
LEMMA PeMove ==
  ASSUME NEW p \in PeState, NEW resp \in Nat,
         p.ex # <<>> => ~p.fetch_next_allowed,
         p.fetch_next_allowed => p.imem # <<>>,
         p.ex = <<>> \/ ExStalls(p)
  PROVE  /\ PeQueue(TickPe(p, resp)) = PeQueue(p)
         /\ PeServing(TickPe(p, resp)) = PeServing(p)
         /\ TickPe(p, resp).finished = p.finished
         /\ TickPe(p, resp).fetch_next_allowed => TickPe(p, resp).imem # <<>>
         /\ Retires(p) = {}
<1> DEFINE q == TickPe(p, resp)
<1>1. /\ q.imem = NextImem(p)
      /\ q.fetch_next_allowed = (p.fetch_next_allowed /\ ~Consumed(p))
      /\ q.ex = NextEx(p)
      /\ q.finished = (p.finished \/ (~ExStalls(p) /\ p.ex # <<>>))
  BY Zenon DEF TickPe
<1>2. q.finished = p.finished
  <2>1. p.finished \in BOOLEAN
    BY DEF PeState
  <2> QED
    BY <1>1, <2>1
<1>3. Retires(p) = {}
  <2>1. CASE ExStalls(p)
    BY <2>1 DEF Retires
  <2>2. CASE p.ex = <<>>
    BY <2>2 DEF Retires
  <2> QED
    BY <2>1, <2>2
<1>4. CASE Consumed(p)
  <2>1. /\ p.fetch_next_allowed /\ Fetches(p) /\ p.imem # <<>> /\ p.ex = <<>>
        /\ ~ExStalls(p)
    BY <1>4 DEF Consumed, Fetches, ExStalls, Submits
  <2>2. q.imem = Tail(p.imem) /\ q.ex = <<Head(p.imem)>> /\ ~q.fetch_next_allowed
    BY <1>1, <1>4, <2>1 DEF NextImem, NextEx
  <2>3. Elements(p.ex) = {} /\ Elements(q.ex) = {Head(p.imem)}
    BY <2>1, <2>2, ElementsOfSlot
  <2> HIDE DEF q
  <2>4. PeQueue(q) = PeQueue(p)
    BY <2>1, <2>2 DEF PeQueue
  <2>5. PeServing(q) = PeServing(p)
    BY <2>1, <2>2, <2>3 DEF PeServing
  <2> QED
    BY <1>2, <1>3, <2>2, <2>4, <2>5 DEF q
<1>5. CASE ~Consumed(p)
  <2>1. q.imem = p.imem
    BY <1>1, <1>5 DEF NextImem
  <2>2. q.ex = p.ex
    <3>1. CASE ExStalls(p)
      BY <1>1, <3>1 DEF NextEx
    <3>2. CASE p.ex = <<>> /\ ~ExStalls(p)
      BY <1>1, <1>5, <3>2 DEF NextEx, Consumed
    <3> QED
      BY <3>1, <3>2
  <2>3. q.fetch_next_allowed = p.fetch_next_allowed
    <3>1. p.fetch_next_allowed \in BOOLEAN
      BY DEF PeState
    <3> QED
      BY <1>1, <1>5, <3>1
  <2> HIDE DEF q
  <2>4. PeQueue(q) = PeQueue(p) /\ PeServing(q) = PeServing(p)
    BY <2>1, <2>2, <2>3 DEF PeQueue, PeServing
  <2> QED
    BY <1>2, <1>3, <2>1, <2>3, <2>4 DEF q
<1> QED
  BY <1>4, <1>5

-----------------------------------------------------------------------------
(* The calls between two ticks.                                             *)

LEMMA EnqueueHostMaps ==
  ASSUME TurnInv, NEW r \in Reqs, EnqueueHost(r)
  PROVE  OneAtATime' /\ Arbiter!ArbiterNext
<1>1. /\ host_pool' = Append(host_pool, r)
      /\ UNCHANGED <<pe, host_req, dram_host, fgo_request_state, fgo_next_service, host_complete>>
  BY DEF EnqueueHost, sched, dram
<1>2. OneAtATime'
  BY <1>1 DEF TurnInv, OneAtATime
<1>3. Arbiter!Arrive("HOST", r)
  BY <1>1 DEF Arbiter!Arrive
<1> QED
  BY <1>2, <1>3 DEF Arbiter!ArbiterNext, Arbiter!Sides

LEMMA EnqueueInstMaps ==
  ASSUME TurnInv, NEW i \in Insts, EnqueueInst(i)
  PROVE  OneAtATime' /\ Arbiter!ArbiterNext
<1>0. pe \in PeState /\ pe.imem \in Seq(Insts) /\ (pe.fetch_next_allowed => pe.imem # <<>>)
  BY DEF TurnInv, FgoInv, TypeOK, OneAtATime, PeState
<1>1. /\ pe'.imem = Append(pe.imem, i) /\ pe'.ex = pe.ex
      /\ pe'.fetch_next_allowed = pe.fetch_next_allowed
      /\ UNCHANGED <<host_pool, host_req, dram_host, fgo_request_state, fgo_next_service,
                     host_complete>>
  BY <1>0 DEF EnqueueInst, PushHostReq, PeState, sched, dram
<1>2. pe'.imem # <<>>
  BY <1>0, <1>1, AppendProperties
<1>3. OneAtATime'
  BY <1>1, <1>2 DEF TurnInv, OneAtATime
<1>4. pe.fetch_next_allowed =>
        /\ Head(pe'.imem) = Head(pe.imem)
        /\ Tail(pe'.imem) = Append(Tail(pe.imem), i)
  BY <1>0, <1>1, HeadTailAppend
<1>5. PeQueue(pe') = Append(PeQueue(pe), i)
  BY <1>1, <1>4 DEF PeQueue
<1>6. PeServing(pe') = PeServing(pe)
  BY <1>1, <1>4 DEF PeServing
<1>7. Arbiter!Arrive("PIM", i)
  BY <1>1, <1>5, <1>6 DEF Arbiter!Arrive, PeQueue, PeServing
<1> QED
  BY <1>3, <1>7 DEF Arbiter!ArbiterNext, Arbiter!Sides

LEMMA GetHostCompleteMaps ==
  ASSUME TurnInv, NEW r \in Reqs \cup Insts, GetHostComplete(r)
  PROVE  OneAtATime' /\ Arbiter!ArbiterNext
<1>1. /\ r \in host_complete /\ host_complete' = host_complete \ {r}
      /\ UNCHANGED <<pe, host_req, dram_host, fgo_request_state, fgo_next_service, host_pool>>
  BY DEF GetHostComplete, sched, dram
<1>2. OneAtATime'
  BY <1>1 DEF TurnInv, OneAtATime
<1>3. Arbiter!Collect(r)
  BY <1>1 DEF Arbiter!Collect
<1> QED
  BY <1>2, <1>3 DEF Arbiter!ArbiterNext

-----------------------------------------------------------------------------
(* Engine::tick.                                                            *)

\* A tick, as the arbiter sees it.
AbstractStep ==
  AbstractStutter \/ AbstractAnswer \/ \E side \in {"PIM", "HOST"} : AbstractAdmit(side)

\* A side that is selected asks, and it is its turn or the other does not ask.
LEMMA SelectedSide ==
  ASSUME NEW next \in {"PIM", "HOST"}, NEW side \in {"PIM", "HOST"}, Selected(next) = side
  PROVE  Ready(side) /\ (next = side \/ ~Ready(Opposite(side)))
<1>1. CASE Ready(next)
  BY <1>1 DEF Selected
<1>2. CASE ~Ready(next) /\ Ready(Opposite(next))
  <2>1. Selected(next) = Opposite(next)
    BY <1>2 DEF Selected
  <2>2. Opposite(Opposite(next)) = next
    BY DEF Opposite
  <2> QED
    BY <1>2, <2>1, <2>2
<1>3. CASE ~Ready(next) /\ ~Ready(Opposite(next))
  BY <1>3 DEF Selected
<1> QED
  BY <1>1, <1>2, <1>3

\* Once what was under way is answered, the right side is admitted or none.
LEMMA SelectMaps ==
  ASSUME TurnInv, mode \in {"PIM", "HOST"}, NEW next \in {"PIM", "HOST"},
         PeAsked.ex = <<>>, ~PeAsked.fetch_next_allowed, PeAsked \in PeState,
         PeAsked.imem = PeAfter.imem, PeQueue(pe) = PeAfter.imem,
         dram_host' = {}, Last = Opposite(next),
         host_complete' = host_complete \cup Serving,
         Select({}, next)
  PROVE  AbstractStep /\ OneAtATime'
<1>1. /\ Ready("PIM") <=> Queue("PIM") # <<>>
      /\ Ready("HOST") <=> Queue("HOST") # <<>>
  BY DEF Ready, HasBufferedInst, Queue
<1>2. \A side \in {"PIM", "HOST"} : Selected(next) = side =>
        Queue(side) # <<>> /\ (Last # side \/ Queue(Opposite(side)) = <<>>)
  BY <1>1, SelectedSide DEF Opposite
<1>3. PeServing(PeAsked) = {}
  BY ElementsOfSlot DEF PeServing
<1>4. CASE mode = "PIM" /\ Selected(next) = "PIM" /\ IssuePim({})
  <2>1. /\ pe' = AllowNext(PeAsked) /\ host_req' = {} /\ host_pool' = host_pool
        /\ fgo_request_state' = "PimInFlight"
    BY <1>4 DEF IssuePim
  <2>2. pe'.ex = <<>> /\ pe'.imem = PeAfter.imem /\ pe'.fetch_next_allowed
    BY <2>1 DEF AllowNext, PeState
  <2>3. Serving' = {Head(PeAfter.imem)}
    BY <2>1, <2>2, ElementsOfSlot DEF Serving, PeServing
  <2>4. Queue("PIM") = PeAfter.imem /\ Queue("PIM")' = Tail(PeAfter.imem)
    BY <2>2 DEF Queue, PeQueue
  <2>5. Queue("HOST")' = Queue("HOST") /\ Last' = "PIM"
    BY <2>1 DEF Queue, Last
  <2>6. AbstractAdmit("PIM")
    BY <1>2, <1>4, <2>3, <2>4, <2>5 DEF AbstractAdmit, Opposite
  <2>7. OneAtATime'
    BY <1>2, <1>4, <2>1, <2>2, <2>4 DEF OneAtATime
  <2> QED
    BY <2>6, <2>7 DEF AbstractStep
<1>5. CASE mode = "HOST" /\ Selected(next) = "HOST" /\ IssueHost({})
  <2>1. /\ pe' = PeAsked /\ host_req' = {Head(host_pool)} /\ host_pool' = Tail(host_pool)
        /\ fgo_request_state' = "HostInFlight"
    BY <1>5 DEF IssueHost
  <2>2. Serving' = {Head(host_pool)}
    BY <1>3, <2>1 DEF Serving
  <2>3. Queue("PIM")' = PeAfter.imem /\ Queue("PIM") = PeAfter.imem
    BY <2>1 DEF Queue, PeQueue
  <2>4. Queue("HOST") = host_pool /\ Queue("HOST")' = Tail(host_pool)
    BY <2>1 DEF Queue
  <2>5. Last' = "HOST"
    BY <2>1 DEF Last
  <2>6. AbstractAdmit("HOST")
    BY <1>2, <1>5, <2>2, <2>3, <2>4, <2>5 DEF AbstractAdmit, Opposite
  <2>7. OneAtATime'
    BY <2>1 DEF OneAtATime
  <2> QED
    BY <2>6, <2>7 DEF AbstractStep
<1>6. CASE AdmitNothing({}, next)
  <2>1. /\ pe' = PeAsked /\ host_req' = {} /\ host_pool' = host_pool
        /\ fgo_request_state' = "Idle" /\ fgo_next_service' = next
    BY <1>6 DEF AdmitNothing, Select
  <2>2. Serving' = {}
    BY <1>3, <2>1 DEF Serving
  <2>3. SameQueues
    BY <2>1 DEF SameQueues, Queue, PeQueue
  <2>4. Last' = Last
    BY <2>1 DEF Last
  <2>5. OneAtATime'
    BY <2>1 DEF OneAtATime
  <2>6. CASE Serving = {}
    BY <2>2, <2>3, <2>4, <2>5, <2>6 DEF AbstractStutter, AbstractStep
  <2>7. CASE Serving # {}
    BY <2>2, <2>3, <2>4, <2>5, <2>7 DEF AbstractAnswer, AbstractStep
  <2> QED
    BY <2>6, <2>7
<1> QED
  BY <1>4, <1>5, <1>6 DEF Select

LEMMA PeAskedImem ==
  ASSUME FgoInv
  PROVE  PeAsked.imem = PeAfter.imem
BY PeAfterFacts DEF PeAsked, PeState

\* No request is under way: nothing is answered.
LEMMA IdleMaps ==
  ASSUME TurnInv, mode # "switch_delay", fgo_request_state = "Idle",
         dram_host' = {}, host_complete' = host_complete,
         Select({}, fgo_next_service)
  PROVE  AbstractStep /\ OneAtATime'
<1>1. /\ PeQuiet /\ host_req = {} /\ dram_host = {}
      /\ mode \in {"PIM", "HOST"} /\ fgo_next_service \in {"PIM", "HOST"}
  BY DEF TurnInv, FgoInv, RequestStateAgrees, TypeOK
<1>2. PeAsked = pe /\ PeAfter = pe /\ pe \in PeState
  BY PeAskedFacts, PeAfterFacts DEF TurnInv, FgoInv, TypeOK
<1>3. PeQueue(pe) = pe.imem /\ PeServing(pe) = {}
  BY <1>1, ElementsOfSlot DEF PeQuiet, PeQueue, PeServing
<1>4. Serving = {} /\ Last = Opposite(fgo_next_service)
  BY <1>1, <1>3 DEF Serving, Last
<1> QED
  BY <1>1, <1>2, <1>3, <1>4, SelectMaps DEF PeQuiet

\* The PE commits its instruction.
LEMMA PimOverMaps ==
  ASSUME TurnInv, fgo_request_state = "PimInFlight",
         dram_host' = {}, host_complete' = host_complete \cup Retires(pe),
         pe.ex # <<>>, ~ExStalls(pe), Schedule({})
  PROVE  AbstractStep /\ OneAtATime'
<1>1. /\ host_req = {} /\ dram_host = {} /\ mode = "PIM"
      /\ ~pe.fetch_next_allowed /\ pe \in PeState /\ simcpu_resp \in Nat
  BY DEF TurnInv, FgoInv, RequestStateAgrees, TypeOK
<1>2. PeAfter = TickPe(pe, simcpu_resp)
  BY <1>1 DEF PeAfter, PeTicks
<1>3. /\ PeAfter.imem = pe.imem /\ PeAfter.ex = <<>> /\ ~PeAfter.fetch_next_allowed
      /\ PeAfter.finished
      /\ Retires(pe) = PeServing(pe)
  BY <1>1, <1>2, PeRetire
<1>4. PeAsked \in PeState /\ PeAsked.ex = <<>> /\ ~PeAsked.fetch_next_allowed
  BY <1>3, PeAskedFacts DEF TurnInv
<1>5. Select({}, Opposite(mode))
  BY <1>1, <1>3 DEF Schedule, SwitchDelay, ServiceOver
<1>6. Opposite(mode) = "HOST" /\ Last = "PIM" /\ Opposite("HOST") = "PIM"
  BY <1>1 DEF Opposite, Last
<1>7. Serving = PeServing(pe)
  BY <1>1 DEF Serving
<1>8. PeQueue(pe) = PeAfter.imem /\ PeAsked.imem = PeAfter.imem
  BY <1>1, <1>3, PeAskedImem DEF PeQueue, TurnInv
<1> QED
  BY <1>1, <1>3, <1>4, <1>5, <1>6, <1>7, <1>8, SelectMaps

\* The PE goes on.
LEMMA PimOnMaps ==
  ASSUME TurnInv, fgo_request_state = "PimInFlight",
         dram_host' = {}, host_complete' = host_complete \cup Retires(pe),
         pe.ex = <<>> \/ ExStalls(pe), Schedule({})
  PROVE  AbstractStep /\ OneAtATime'
<1>1. /\ host_req = {} /\ dram_host = {} /\ mode = "PIM"
      /\ pe.ex # <<>> => ~pe.fetch_next_allowed
      /\ pe.fetch_next_allowed => pe.imem # <<>>
      /\ ~pe.finished /\ pe \in PeState /\ simcpu_resp \in Nat
  BY DEF TurnInv, FgoInv, RequestStateAgrees, TypeOK, OneAtATime
<1>2. PeAfter = TickPe(pe, simcpu_resp)
  BY <1>1 DEF PeAfter, PeTicks
<1>3. /\ PeQueue(PeAfter) = PeQueue(pe)
      /\ PeServing(PeAfter) = PeServing(pe)
      /\ ~PeAfter.finished
      /\ PeAfter.fetch_next_allowed => PeAfter.imem # <<>>
      /\ Retires(pe) = {}
  BY <1>1, <1>2, PeMove
<1>4. /\ PeAsked.ex = PeAfter.ex /\ PeAsked.imem = PeAfter.imem
      /\ PeAsked.fetch_next_allowed = PeAfter.fetch_next_allowed
  BY PeAskedFacts, PeAskedImem DEF TurnInv
<1>5. Proceed({})
  BY <1>1, <1>3 DEF Schedule, SwitchDelay, ServiceOver
<1>6. /\ pe' = PeAsked /\ host_req' = {} /\ host_pool' = host_pool
      /\ fgo_request_state' = fgo_request_state /\ fgo_next_service' = fgo_next_service
  BY <1>5 DEF Proceed
<1>7. PeQueue(pe') = PeQueue(pe) /\ PeServing(pe') = PeServing(pe)
  BY <1>3, <1>4, <1>6 DEF PeQueue, PeServing
<1>8. SameQueues /\ Serving' = Serving /\ Last' = Last
  BY <1>1, <1>6, <1>7 DEF SameQueues, Queue, Serving, Last
<1>9. OneAtATime'
  BY <1>3, <1>4, <1>6 DEF OneAtATime
<1> QED
  BY <1>3, <1>8, <1>9 DEF AbstractStep, AbstractStutter

\* The host's request is under way.
LEMMA HostMaps ==
  ASSUME TurnInv, fgo_request_state = "HostInFlight",
         NEW toHost, toHost \subseteq host_req, NEW h, h \subseteq dram_host \cup toHost,
         dram_host' = (dram_host \cup toHost) \ h,
         host_complete' = host_complete \cup h,
         Schedule(host_req \ toHost)
  PROVE  AbstractStep /\ OneAtATime'
<1> DEFINE unsent == host_req \ toHost
<1>1. /\ mode = "HOST" /\ PeQuiet /\ pe \in PeState
      /\ host_req = {} \/ dram_host = {}
      /\ \A r, s \in host_req \cup dram_host : r = s
  BY DEF TurnInv, FgoInv, RequestStateAgrees, TypeOK, OneAtATime
<1>2. PeAsked = pe /\ PeAfter = pe
  BY PeAskedFacts, PeAfterFacts DEF TurnInv
<1>3. PeQueue(pe) = pe.imem /\ PeServing(pe) = {}
  BY <1>1, ElementsOfSlot DEF PeQuiet, PeQueue, PeServing
<1>4. Serving = host_req \cup dram_host
  BY <1>3 DEF Serving
<1>5. Last = "HOST" /\ Opposite(mode) = "PIM" /\ Opposite("PIM") = "HOST"
  BY <1>1 DEF Last, Opposite
<1>6. CASE ServiceOver(unsent)
  <2>1. unsent = {} /\ dram_host' = {}
    BY <1>6 DEF ServiceOver, DramDrained
  <2>2. h = Serving
    BY <1>4, <2>1
  <2>3. Select({}, Opposite(mode))
    BY <1>1, <1>6, <2>1 DEF Schedule, SwitchDelay
  <2> QED
    BY <1>1, <1>2, <1>3, <1>5, <2>1, <2>2, <2>3, SelectMaps DEF PeQuiet
<1>7. CASE ~ServiceOver(unsent)
  <2>1. Proceed(unsent)
    BY <1>1, <1>7 DEF Schedule, SwitchDelay
  <2> HIDE DEF unsent
  <2>2. /\ pe' = pe /\ host_req' = unsent /\ host_pool' = host_pool
        /\ fgo_request_state' = fgo_request_state /\ fgo_next_service' = fgo_next_service
    BY <1>2, <2>1 DEF Proceed
  <2>3. SameQueues /\ Last' = Last
    BY <2>2 DEF SameQueues, Queue, PeQueue, Last
  <2>4. Serving' = unsent \cup ((dram_host \cup toHost) \ h)
    BY <1>3, <2>2 DEF Serving
  <2>5. OneAtATime'
    <3>1. host_req' \subseteq host_req /\ dram_host' \subseteq host_req \cup dram_host
      BY <2>2 DEF unsent
    <3>2. \A r, s \in host_req' \cup dram_host' : r = s
      BY <1>1, <3>1
    <3>3. host_req' = {} \/ dram_host' = {}
      BY <1>1, <2>2 DEF unsent
    <3> QED
      BY <1>1, <2>2, <3>2, <3>3 DEF OneAtATime, PeQuiet
  <2>6. CASE h = {}
    <3>1. Serving' = Serving
      BY <1>4, <2>4, <2>6 DEF unsent
    <3> QED
      BY <2>3, <2>5, <2>6, <3>1 DEF AbstractStep, AbstractStutter
  <2>7. CASE h # {}
    <3>1. h = Serving /\ Serving # {}
      BY <1>1, <1>4, <2>7
    <3>2. Serving' = {}
      BY <1>1, <1>4, <2>4, <3>1 DEF unsent
    <3> QED
      BY <2>3, <2>5, <3>1, <3>2 DEF AbstractStep, AbstractAnswer
  <2> QED
    BY <2>6, <2>7
<1> QED
  BY <1>6, <1>7

LEMMA SwitchMaps ==
  ASSUME TurnInv, SwitchDelay({}), dram_host' = {}, host_complete' = host_complete
  PROVE  AbstractStep /\ OneAtATime'
<1>1. /\ fgo_request_state = "Idle" /\ host_req = {} /\ dram_host = {}
  BY DEF TurnInv, FgoInv, RequestStateAgrees, SwitchDelay
<1>2. PeAfter = pe
  BY <1>1, PeAfterFacts DEF TurnInv
<1>3. /\ pe' = pe /\ host_req' = {} /\ host_pool' = host_pool
      /\ fgo_request_state' = fgo_request_state /\ fgo_next_service' = fgo_next_service
  BY <1>2 DEF SwitchDelay
<1>4. SameQueues /\ Serving' = Serving /\ Last' = Last
  BY <1>1, <1>3 DEF SameQueues, Queue, PeQueue, Serving, PeServing, Last
<1>5. OneAtATime'
  BY <1>3 DEF TurnInv, OneAtATime
<1> QED
  BY <1>4, <1>5 DEF AbstractStep, AbstractStutter

LEMMA TickMaps ==
  ASSUME TurnInv, Tick
  PROVE  AbstractStep /\ OneAtATime'
<1>1. PICK toPim \in ToPim, toHost \in ToHost, e \in 0..DramCapacity,
           h \in SUBSET Reqs, busy \in BOOLEAN : TickWith(toPim, toHost, e, h, busy)
  BY DEF Tick
<1>2. /\ h \subseteq dram_host \cup toHost
      /\ dram_host' = (dram_host \cup toHost) \ h
      /\ host_complete' = host_complete \cup PeRetires \cup h
      /\ Schedule(host_req \ toHost)
  BY <1>1 DEF TickWith
<1>3. toHost \subseteq host_req
  BY DEF ToHost
<1>4. /\ fgo_request_state \in {"Idle", "PimInFlight", "HostInFlight"}
      /\ fgo_request_state # "HostInFlight" => host_req = {} /\ dram_host = {}
      /\ fgo_request_state = "PimInFlight" => mode = "PIM"
      /\ mode = "switch_delay" => fgo_request_state = "Idle"
  BY DEF TurnInv, FgoInv, RequestStateAgrees, TypeOK
<1>5. fgo_request_state # "HostInFlight" =>
        h = {} /\ toHost = {} /\ dram_host' = {} /\ host_req \ toHost = {}
  BY <1>2, <1>3, <1>4
<1>6. CASE fgo_request_state = "Idle"
  <2>1. PeRetires = {}
    BY <1>6 DEF PeRetires, PeTicks
  <2>2. host_complete' = host_complete /\ dram_host' = {} /\ Schedule({})
    BY <1>2, <1>5, <1>6, <2>1
  <2>3. CASE SwitchDelay({})
    BY <2>2, <2>3, SwitchMaps
  <2>4. CASE mode # "switch_delay" /\ Select({}, fgo_next_service)
    BY <1>6, <2>2, <2>4, IdleMaps
  <2> QED
    BY <1>6, <2>2, <2>3, <2>4 DEF Schedule, ServiceOver
<1>7. CASE fgo_request_state = "PimInFlight"
  <2>1. PeRetires = Retires(pe)
    BY <1>4, <1>7 DEF PeRetires, PeTicks
  <2>2. host_complete' = host_complete \cup Retires(pe) /\ dram_host' = {} /\ Schedule({})
    BY <1>2, <1>5, <1>7, <2>1
  <2> QED
    BY <1>7, <2>2, PimOverMaps, PimOnMaps
<1>8. CASE fgo_request_state = "HostInFlight"
  <2>1. PeRetires = {}
    BY <1>8 DEF PeRetires, PeTicks
  <2>2. host_complete' = host_complete \cup h
    BY <1>2, <2>1
  <2> QED
    BY <1>2, <1>3, <1>8, <2>2, HostMaps
<1> QED
  BY <1>4, <1>6, <1>7, <1>8

-----------------------------------------------------------------------------
(* The theorems.                                                            *)

LEMMA AbstractStepMaps ==
  ASSUME AbstractStep
  PROVE  [Arbiter!ArbiterNext]_(Arbiter!avars)
BY StutterMaps, AnswerMaps, AdmitMaps DEF AbstractStep, Arbiter!ArbiterNext, Arbiter!Sides

LEMMA StutterTurns ==
  ASSUME TurnInv, UNCHANGED vars
  PROVE  OneAtATime' /\ UNCHANGED Arbiter!avars
<1>1. OneAtATime'
  BY DEF TurnInv, OneAtATime, vars, sched, dram
<1>2. AbstractStutter
  BY DEF AbstractStutter, SameQueues, Queue, PeQueue, Serving, PeServing, Last,
         vars, sched, dram
<1> QED
  BY <1>1, <1>2, StutterMaps

LEMMA TurnStep ==
  ASSUME TurnInv, [Next]_vars
  PROVE  OneAtATime' /\ [Arbiter!ArbiterNext]_(Arbiter!avars)
<1>1. CASE Tick
  BY <1>1, TickMaps, AbstractStepMaps
<1> QED
  BY <1>1, EnqueueHostMaps, EnqueueInstMaps, GetHostCompleteMaps, StutterTurns DEF Next

THEOREM TurnInvariant == Spec => []TurnInv
<1>1. Init => OneAtATime
  BY DEF Init, NewPe, OneAtATime
<1>2. TurnInv /\ FgoInv' /\ [Next]_vars => TurnInv'
  BY TurnStep DEF TurnInv
<1>3. Init /\ FgoInv => TurnInv
  BY <1>1 DEF TurnInv
<1> QED
  BY <1>2, <1>3, TurnsInvariant, PTL DEF Spec

\* Host requests and instructions take turns, each source is served in order,
\* and none is lost or answered twice: an FGO engine implements the arbiter.
THEOREM ImplementsArbiter == Spec => ServesInTurn
<1>1. Init => Arbiter!ArbiterInit
  BY AbstractInit
<1>2. TurnInv /\ [Next]_vars => [Arbiter!ArbiterNext]_(Arbiter!avars)
  BY TurnStep
<1> QED
  BY <1>1, <1>2, TurnInvariant, PTL DEF Spec, ServesInTurn, Arbiter!Spec

=============================================================================
