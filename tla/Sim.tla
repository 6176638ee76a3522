--------------------------------- MODULE Sim --------------------------------
(***************************************************************************)
(* The simulator gem5 talks to (src/sim_engine/sim.rs), in PIM mode: it    *)
(* routes requests to the engines and to the DRAM of its own (mono_dsim3), *)
(* fans commands out to every engine that takes them, allocates engines    *)
(* (src/sim_engine/engine_alloc.rs) and hands completions back.            *)
(*                                                                         *)
(* An engine is what CgoEngine and FgoEngine show it to be: it holds host  *)
(* requests and commands and completes each once, a CGO engine every       *)
(* command in the tick that finds it.  Requests are named by what they     *)
(* decode to (request_router.rs); a name may be used again once it has     *)
(* left the simulator.                                                     *)
(***************************************************************************)
EXTENDS Naturals, FiniteSets

CONSTANTS Banks,        \* the pseudo banks of the PIM region
          Outside,      \* an address in none of them
          MemReqs,      \* regular memory requests
          BankOf,       \* BankOf[r]: the bank r's address is in, or Outside
          Starts,       \* CGO_Start
          Queries,      \* CGO_Query
          Insts,        \* FGO instructions
          Invalid,      \* commands ignored: wrong size, slot or direction
          Allocs,       \* Ctrl_CGO_Alloc and Ctrl_FGO_Alloc
          KeyOf,        \* KeyOf[a]: address space and kind of engine asked for
          NoKey,
          QuietAlloc    \* the host allocates a region before it uses it

Cmds == Starts \cup Queries \cup Insts
All == MemReqs \cup Cmds \cup Invalid \cup Allocs
Keys == {KeyOf[a] : a \in Allocs}

ASSUME SimAssumption ==
  /\ IsFiniteSet(Banks) /\ Outside \notin Banks
  /\ MemReqs \cap (Cmds \cup Invalid \cup Allocs) = {}
  /\ Insts \cap (Starts \cup Queries) = {}
  /\ BankOf \in [MemReqs -> Banks \cup {Outside}]
  /\ \A a \in Allocs : KeyOf[a][2] \in {"CGO", "FGO"}
  /\ NoKey \notin Keys
  /\ QuietAlloc \in BOOLEAN

\* What owns a bank: no engine, or one in this scheduling mode.
CgoModes == {"CGO_only", "Host_CGO_share"}
EngineModes == {"none", "Host_FGO_share"} \cup CgoModes

VARIABLES
  cgo_alloc_scheduling_mode,
  winner,              \* engine_alloc::winner
  table,               \* engine_alloc::table, a partial function
  engines,             \* per bank, its engine's scheduling mode
  cpu,                 \* per bank, how far its CGO processor is
  held,                \* per bank, the host requests its engine holds
  cmds,                \* per bank, the commands its engine holds
  mono,                \* requests inside mono_dsim3
  pending_pim_cmds,    \* command -> engines that have not completed it
  payload,             \* payload word 0 of queries and allocations
  immediate_complete_next,
  immediate_complete_ready,
  dsim3_comp_queue,
  engine_comp_queue,
  outstanding          \* history: what gem5 has enqueued and not got back

alloc == <<cgo_alloc_scheduling_mode, winner, table, engines>>
inside == <<cpu, held, cmds, mono, pending_pim_cmds>>
done == <<immediate_complete_ready, dsim3_comp_queue, engine_comp_queue>>
vars == <<alloc, inside, payload, immediate_complete_next, done, outstanding>>

Init ==
  /\ cgo_alloc_scheduling_mode = "Host_CGO_share"
  /\ winner = NoKey
  /\ table = [k \in {} |-> {}]
  /\ engines = [b \in Banks |-> "none"]
  /\ cpu = [b \in Banks |-> "idle"]
  /\ held = [b \in Banks |-> {}]
  /\ cmds = [b \in Banks |-> {}]
  /\ mono = {}
  /\ pending_pim_cmds = [c \in {} |-> 0]
  /\ payload = [r \in Queries \cup Allocs |-> 0]
  /\ immediate_complete_next = {} /\ immediate_complete_ready = {}
  /\ dsim3_comp_queue = {} /\ engine_comp_queue = {}
  /\ outstanding = {}

-----------------------------------------------------------------------------
(* Enqueueing.                                                              *)

\* get_engine_cfg finds an engine for the address of r.
Mapped(r) == BankOf[r] \in Banks /\ engines[BankOf[r]] # "none"

\* gem5 enqueues r, whose name is not in use.
Take(r) ==
  /\ r \notin outstanding \cup mono
  /\ outstanding' = outstanding \cup {r}

\* enqueue_next_cycle_completion
CompleteNextCycle(r) == immediate_complete_next' = immediate_complete_next \cup {r}

SetCgoAllocMode(m) ==
  /\ cgo_alloc_scheduling_mode' = m
  /\ UNCHANGED <<winner, table, engines, inside, payload,
                 immediate_complete_next, done, outstanding>>

EnqueueInvalid(r) ==
  /\ Take(r)
  /\ CompleteNextCycle(r)
  /\ UNCHANGED <<alloc, inside, payload, done>>

\* Mutant: the winner is looked up by its address space alone.
GrantedByAsid(key) ==
  IF key \in DOMAIN table THEN table[key]
  ELSE IF winner # NoKey /\ winner[1] # key[1] THEN {}
  ELSE Banks

\* engine_alloc::alloc: the first to ask gets every bank, for good.
Granted(key) ==
  IF key \in DOMAIN table THEN table[key]
  ELSE IF winner \notin {NoKey, key} THEN {}
  ELSE Banks

\* enqueue_sim_control_cmd
EnqueueAlloc(a) ==
  LET key == KeyOf[a]
      new == IF key[2] = "CGO" THEN cgo_alloc_scheduling_mode ELSE "Host_FGO_share"
  IN /\ QuietAlloc => \A r \in outstanding \cap MemReqs : BankOf[r] = Outside
     /\ Take(a)
     /\ table' = [k \in DOMAIN table \cup {key} |-> Granted(k)]
     /\ winner' = IF winner = NoKey THEN key ELSE winner
     /\ engines' = [b \in Banks |-> IF b \in Granted(key) /\ engines[b] = "none"
                                    THEN new ELSE engines[b]]
     /\ payload' = [payload EXCEPT ![a] = Cardinality(Granted(key))]
     /\ CompleteNextCycle(a)
     /\ UNCHANGED <<cgo_alloc_scheduling_mode, inside, done>>

\* can_accept_pim_cmd: the engines a command is for.
Targets(c) ==
  {b \in Banks : IF c \in Insts THEN engines[b] = "Host_FGO_share"
                                ELSE engines[b] \in CgoModes}

\* enqueue_pim_cmd
EnqueueCmd(c) ==
  /\ Take(c)
  /\ IF Targets(c) = {}
     THEN /\ CompleteNextCycle(c)
          /\ UNCHANGED <<cmds, pending_pim_cmds, payload>>
     ELSE /\ cmds' = [b \in Banks |-> IF b \in Targets(c) THEN cmds[b] \cup {c}
                                                          ELSE cmds[b]]
          /\ pending_pim_cmds' =
               [d \in DOMAIN pending_pim_cmds \cup {c} |->
                  IF d = c THEN Cardinality(Targets(c)) ELSE pending_pim_cmds[d]]
          /\ payload' = IF c \in Queries THEN [payload EXCEPT ![c] = 1] ELSE payload
          /\ UNCHANGED immediate_complete_next
  /\ UNCHANGED <<alloc, cpu, held, mono, done>>

\* enqueue_regular_memory: a bank with an engine that shares it gets a copy of
\* the request, one without engine leaves it to mono_dsim3, and an engine that
\* does not share its bank turns it away.
EnqueueMem(r) ==
  /\ Take(r)
  /\ IF Mapped(r) /\ engines[BankOf[r]] = "CGO_only"
     THEN CompleteNextCycle(r) /\ UNCHANGED <<held, mono>>
     ELSE /\ held' = IF Mapped(r) THEN [held EXCEPT ![BankOf[r]] = @ \cup {r}] ELSE held
          /\ mono' = mono \cup {r}
          /\ UNCHANGED immediate_complete_next
  /\ UNCHANGED <<alloc, cpu, cmds, pending_pim_cmds, payload, done>>

-----------------------------------------------------------------------------
(* Sim::tick.                                                               *)

\* Where the CGO processors may be after a tick of theirs.
CpuTicks ==
  {after \in [Banks -> {"idle", "started", "finished"}] :
     \A b \in Banks : after[b] \in {cpu[b]} \cup (IF cpu[b] = "started"
                                                  THEN {"finished"} ELSE {})}

\* A CGO engine completes its commands at once, an FGO engine as the PE does.
CmdsCompleted ==
  {now \in [Banks -> SUBSET Cmds] :
     \A b \in Banks : /\ now[b] \subseteq cmds[b]
                      /\ engines[b] \in CgoModes => now[b] = cmds[b]}

MemCompleted ==
  {now \in [Banks -> SUBSET MemReqs] : \A b \in Banks : now[b] \subseteq held[b]}

\* How many engines have completed c in this tick.
Completions(c, now) == Cardinality({b \in Banks : c \in now[b]})

\* Mutant: the reply that is collected last overwrites the others.
CombinedLastReply(q, now, after) ==
  IF \E b \in Banks : q \in now[b] /\ after[b] = "finished" THEN 1 ELSE 0

\* collect_engine_completion, the word of a query: it stays 1 while every
\* engine reports that its processor has finished.
Combined(q, now, after) ==
  IF \E b \in Banks : q \in now[b] /\ after[b] # "finished" THEN 0 ELSE payload[q]

\* Mutant: a completion drains the command whoever has yet to report.
DrainedByFirst(now) == {c \in DOMAIN pending_pim_cmds : Completions(c, now) > 0}

\* Mutant: the count is tested before it is taken down.
DrainedLate(now) ==
  {c \in DOMAIN pending_pim_cmds : pending_pim_cmds[c] < Completions(c, now)}

\* The commands no engine holds any more.
Drained(now) ==
  {c \in DOMAIN pending_pim_cmds : pending_pim_cmds[c] = Completions(c, now)}

\* Mutant: mono_dsim3's completions are all kept.
KeptAll(completed) == completed

\* Only unmapped addresses are answered by mono_dsim3.
Kept(completed) == {r \in completed : ~Mapped(r)}

\* A Start arms the boot controller of an idle processor.
Started(after, now) ==
  [b \in Banks |-> IF after[b] = "idle" /\ now[b] \cap Starts # {}
                   THEN "started" ELSE after[b]]

\* collect_engine_completion, the commands
CollectCmds(now, after) ==
  /\ cmds' = [b \in Banks |-> cmds[b] \ now[b]]
  /\ pending_pim_cmds' = [c \in DOMAIN pending_pim_cmds \ Drained(now) |->
                            pending_pim_cmds[c] - Completions(c, now)]
  /\ payload' = [r \in Queries \cup Allocs |->
                   IF r \in DOMAIN pending_pim_cmds THEN Combined(r, now, after)
                                                    ELSE payload[r]]

Tick ==
  \E completed \in SUBSET mono, mem \in MemCompleted, now \in CmdsCompleted,
     after \in CpuTicks :
    /\ mono' = mono \ completed
    /\ dsim3_comp_queue' = dsim3_comp_queue \cup Kept(completed)
    /\ held' = [b \in Banks |-> held[b] \ mem[b]]
    /\ CollectCmds(now, after)
    /\ engine_comp_queue' = engine_comp_queue \cup Drained(now)
                              \cup UNION {mem[b] : b \in Banks}
    /\ cpu' = Started(after, now)
    /\ immediate_complete_ready' = immediate_complete_ready \cup immediate_complete_next
    /\ immediate_complete_next' = {}
    /\ UNCHANGED <<alloc, outstanding>>

\* getComplete looks into the three queues in this order.  The payload leaves
\* with its request.
GetComplete(r) ==
  /\ \/ /\ r \in immediate_complete_ready
        /\ immediate_complete_ready' = immediate_complete_ready \ {r}
        /\ UNCHANGED <<dsim3_comp_queue, engine_comp_queue>>
     \/ /\ immediate_complete_ready = {}
        /\ r \in dsim3_comp_queue
        /\ dsim3_comp_queue' = dsim3_comp_queue \ {r}
        /\ UNCHANGED <<immediate_complete_ready, engine_comp_queue>>
     \/ /\ immediate_complete_ready = {} /\ dsim3_comp_queue = {}
        /\ r \in engine_comp_queue
        /\ engine_comp_queue' = engine_comp_queue \ {r}
        /\ UNCHANGED <<immediate_complete_ready, dsim3_comp_queue>>
  /\ outstanding' = outstanding \ {r}
  /\ payload' = [q \in DOMAIN payload |-> IF q = r THEN 0 ELSE payload[q]]
  /\ UNCHANGED <<alloc, inside, immediate_complete_next>>

-----------------------------------------------------------------------------

Next ==
  \/ \E m \in CgoModes : SetCgoAllocMode(m)
  \/ \E r \in Invalid : EnqueueInvalid(r)
  \/ \E a \in Allocs : EnqueueAlloc(a)
  \/ \E c \in Cmds : EnqueueCmd(c)
  \/ \E r \in MemReqs : EnqueueMem(r)
  \/ Tick
  \/ \E r \in All : GetComplete(r)

Spec == Init /\ [][Next]_vars

-----------------------------------------------------------------------------
(* Properties.                                                              *)

\* The state variables keep their types.
TypeOK ==
  /\ cgo_alloc_scheduling_mode \in CgoModes
  /\ winner \in Keys \cup {NoKey}
  /\ DOMAIN table \subseteq Keys /\ \A k \in DOMAIN table : table[k] \subseteq Banks
  /\ engines \in [Banks -> EngineModes]
  /\ cpu \in [Banks -> {"idle", "started", "finished"}]
  /\ held \in [Banks -> SUBSET MemReqs]
  /\ cmds \in [Banks -> SUBSET Cmds]
  /\ mono \subseteq MemReqs
  /\ DOMAIN pending_pim_cmds \subseteq Cmds
  /\ \A c \in DOMAIN pending_pim_cmds : pending_pim_cmds[c] \in 1..Cardinality(Banks)
  /\ payload \in [Queries \cup Allocs -> 0..(1 + Cardinality(Banks))]
  /\ immediate_complete_next \subseteq All /\ immediate_complete_ready \subseteq All
  /\ dsim3_comp_queue \subseteq MemReqs
  /\ engine_comp_queue \subseteq MemReqs \cup Cmds
  /\ outstanding \subseteq All

\* The places an answer may still come from.
Places ==
  << immediate_complete_next, immediate_complete_ready, dsim3_comp_queue,
     engine_comp_queue, DOMAIN pending_pim_cmds, UNION {held[b] : b \in Banks},
     {r \in mono : ~Mapped(r)} >>

\* gem5 gets every request back exactly once, although a mapped request is in
\* an engine and in mono_dsim3 and a command in many engines: at any time just
\* one place is going to answer it.  (Given a host that has nothing of a region
\* under way when it allocates it; MappedFromEngines says what happens if not.)
AnsweredExactlyOnce ==
  \A r \in All :
    Cardinality({i \in DOMAIN Places : r \in Places[i]}) = IF r \in outstanding THEN 1 ELSE 0

\* The count kept for a command is the number of engines that still hold it, so
\* the command is answered when the last of them is done and no sooner.
FanOutCounted ==
  \A c \in Cmds :
    Cardinality({b \in Banks : c \in cmds[b]}) =
      IF c \in DOMAIN pending_pim_cmds THEN pending_pim_cmds[c] ELSE 0

\* A query that comes back from the engines says 1 if and only if every
\* processor had finished by then.
QueryAnswersForAll ==
  [][ \A q \in Queries : q \in engine_comp_queue' \ engine_comp_queue =>
        (payload'[q] = 1 <=> \A b \in Banks : cpu'[b] = "finished") ]_vars

\* The region goes to one address space and one kind of engine for good: no
\* other is ever told it got a bank, and no bank changes its engine.
WinnerTakesAll ==
  /\ \A k \in DOMAIN table : table[k] # {} => k = winner
  /\ \A b \in Banks : engines[b] # "none" =>
       (engines[b] = "Host_FGO_share" <=> winner[2] = "FGO")

\* In PESIM mode the completions of mapped requests come from the engines
\* (comments at sim.rs:35 and sim.rs:661): what mono_dsim3's completion is
\* dropped for is answered, or is going to be, by an engine.
MappedFromEngines ==
  [][ \A r \in mono \ mono' : r \in outstanding' =>
        r \in dsim3_comp_queue' \cup engine_comp_queue' \cup UNION {held'[b] : b \in Banks}
     ]_vars

=============================================================================
