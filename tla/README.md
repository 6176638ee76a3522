# A formal model of pesim-rs

pesim-rs simulates DRAM banks with processors in or beside them. gem5 sends it
memory requests and commands through a C interface; `Sim` routes them to
engines, one per pseudo bank; an engine shares its bank between the host and
its processor, a six-stage CPU that runs a whole program (CGO, coarse grained)
or a two-stage processing element (PE) that executes one host instruction at a
time (FGO, fine grained). Timing comes from DRAMSim3, one instance per engine
and one for everything else.

Nothing here runs in parallel in the usual sense (`Sim::tick` clocks the
engines with rayon, but each owns its state). What makes the code hard is a
great many small automata that are clocked together and hand each other the
bank, requests, responses and permission to move: the mistakes to fear are one
tick too early, one response too few, an answer to someone else's question.

This directory holds TLA+ modules of these automata, the TLC runs that check
them on small instances, and TLAPS proofs of what matters most.
`PROJECT.json` lists components, runs, mutants, hazards, findings and theorems,
and maps every definition to the lines it stands for.

## 1. Inventory

All paths are under `src/src/`.

| Component | State | Operations | Interacts with |
|---|---|---|---|
| CGO engine scheduler, `sim_engine/engine.rs` | scheduling mode, `mode`, `last_service_mode`, watermark and tick count, command queue, `host_pool`, completions | `tick`, `set_scheduling_mode`, `enqueue_host_*`, `get_*_complete` | Sim (calls), CPU and boot controller (tick), portal, DRAM |
| FGO engine scheduler, `sim_engine/engine.rs` | the same, `fgo_request_state`, `fgo_next_service`, `switch_delay_remaining` | the same | Sim, PE, portal, DRAM |
| CPU pause/resume handshake, `cpu/pipeline.rs`, `cpu/signal_scoreboard.rs` | ready flag, delay counters, pending resume | `signal_pause`, `signal_resume`, `update_extsig_rdy` | engine (asks), scoreboard (wins) |
| CPU boot controller, `cpu/boot_fsm.rs` | FSM state, pending responses, image | `set_on`, `tick` | portal, flat memory, AGU, instruction memory |
| CPU pipeline, `cpu/*.rs` | six stages' latches, register files, forwarding | `tick` | scoreboard, portal, flat memory, AGU |
| Signal scoreboard, `cpu/signal_scoreboard.rs` | active signals with an FSM each | `arbitrate`, `clear_active_signal` | pipeline |
| Processing element, `PE/*.rs` | instruction buffer, permission, latch, forwarding latch, registers, memory FSM | `push_host_req`, `allow_next`, `tick`, `has_finished` | engine, portal, flat memory |
| Memory portal, `memory/mem_portal.rs` | two request stacks, two response lists, mode | `submit`, `get_one_req`, `take_completed` | engine, processors |
| DRAMSim3 wrapper, `memory/dramsim3_wrapper.rs` | pending requests per address | `AddTransactionReq`, `ClockTick`, `is_drained` | DRAMSim3 (external C++) |
| Simulator, `sim_engine/sim.rs` | allocation, pending commands and counts, three completion queues | `canAccept`, `enqueue`, `tick`, `getComplete` | gem5, engines, `mono_dsim3` |
| Engine allocation, `sim_engine/engine_alloc.rs` | table of (address space, kind), engine per bank | `alloc` | Sim |
| Request router, `sim_engine/request_router.rs` | none | `decode_pim_cmd`, `validate_pim_cmd_access` | Sim |
| Flat memory, `memory/flat_memory.rs` | typed 16-byte entries | typed reads and writes, `mirror_host_write` | processors, engine |
| AGU table, `memory/AGU_unit.rs` | base/bound descriptors | `insert`, `addition`, `subtraction`, `translate` | CPU |
| Timing harness, `sim_engine/timing_harness.rs` | log of cycles | | reads only |
| C interface, `lib.rs` | none | wrappers around Sim | gem5 |

What is hard, and what makes each part correct:

* **Ownership of the bank.** An engine may hand its bank over only when the side
  that loses it is quiet: pipeline held, portal empty, DRAM drained. Several
  counters (pause delay, resume delay, FSM of the memory operation, EX_stop_FSM)
  run meanwhile. Correct: never requests of both sides in the DRAM; an
  acknowledged pause holds; no side is left in mid-request; every request
  completes.
* **Counting responses.** Boot controller, CPU and PE tell responses apart by
  count, or by address and direction, never by identity. Correct: what is under
  way is exactly what somebody waits for.
* **Order.** The portal is a stack, fed from a queue, emptied as the DRAM accepts.
  Correct: first come, first served.
* **Fan-out.** One command goes to all engines of a region and is answered once,
  when the last is done; one memory request goes to an engine and to
  `mono_dsim3`, and only one completion counts. Correct: each request answered
  exactly once, a query's word speaks for every engine.
* **Pipelines.** Values are read a tick before they are written. Correct: the
  result is that of executing one instruction after the other.
* **Types of memory.** The first use of an entry decides its type for ever.

`PROJECT.json` names the hazards at their lines, each with the properties that
would catch it, or with the reason why none does yet.

## 2. Modules

| Module | Models | Composes |
|---|---|---|
| `CgoCpu` | the CPU as its engine sees it: operators on a record, no variable | |
| `CgoBoot` | the boot controller's phases, in the same style | |
| `CgoEngine` | `Engine::tick` of a CGO engine in CGO_only, Host_CGO_share and HostOnly, and Sim's calls between ticks | `CgoCpu`, `CgoBoot`, refines `HostFifo` |
| `HostFifo` | abstract: a queue served in order, each request answered once | |
| `CpuInst` | what CPU instructions compute: ALU, pointers, AGU table, typed memory | `FlatMemory` |
| `SignalScoreboard` | signals, their priorities and keys, the five FSMs, what each tells each stage | |
| `CpuPipeline` | `CPU::tick` with its data: six stages, bypasses, jumps, exits, exceptions, panics, pauses, requests | `CgoCpu`, `CpuInst`, `SignalScoreboard`, refines `CpuIsa` and, step by step, `CgoCpu` |
| `CpuIsa` | abstract: one instruction after the other, as `cpu/ISA-doc` describes them | `CpuInst` |
| `FgoPe` | the PE's control: buffer, permission, latch, memory FSM | |
| `FgoEngine` | `Engine::tick` of an FGO engine in Host_FGO_share | `FgoPe`, refines `FgoArbiter` |
| `FgoArbiter` | abstract: two queues, one request at a time, the other side has priority | |
| `FlatMemory` | typed entries and mirroring, for either processor | |
| `PeInst` | what PE instructions compute | `FlatMemory` |
| `PePipeline` | the PE with its data: operands, forwarding, registers, memory | `FgoPe`, `PeInst`, refines `PeIsa` |
| `PeIsa` | abstract: instructions take effect one after the other | `PeInst` |
| `Sim` | `Sim` in PESIM mode with its allocation; engines as sets of what they hold | |
| `MC*` | constants of the runs | |
| `CgoCpuProofs`, `CgoEngineProofs`, `CgoPimProofs` | proofs about `CgoEngine`, and lemmas on the operators of `CgoCpu` and `CgoBoot` | |
| `FgoEngineProofs`, `SimProofs` | proofs about `FgoEngine` and `Sim` | |
| `DataLemmas` | lemmas on words, sums and optional values, for the next two | |
| `PePipelineProofs`, `CpuPipelineProofs` | proofs about `PePipeline` and `CpuPipeline` | |

How state and steps correspond to the code:

* **A tick is one action.** `Engine::tick` does processor, commands, portal, DRAM,
  schedule and switch in a fixed order, and nothing can come between them, so
  `Tick` (`TickWith`) is one step that passes intermediate values along in that
  order. What DRAMSim3 does in the tick (how many requests it accepts, which it
  completes, whether it still carries out writes it has answered) and what the
  program does (is the next instruction a memory operation, is it the last) is
  chosen by `\E`. Everything Sim does between two ticks is an action of its own.
* **Processor records.** A processor lives inside an engine, so its module has no
  variable: the engine keeps a record whose fields are named for those of the
  Rust structure, and calls the operators where the code calls the methods.
* **Host requests have names**, reused once their completion was taken; PIM
  requests are counted, because the code only counts or matches them.
* **The CPU in `CgoCpu`** keeps, of the six stages, which memory operations sit in
  the AGU and MEM latches, the FSM of the one in MEM, the end of the program and
  the winner of the scoreboard. An instruction that raises MEM_block and one that
  does not are a choice; the prog_end signal wins for three ticks in which AGU
  and MEM are not held, which is why an operation may be left behind (`late`).
* **`PePipeline`** adds values to `FgoPe`: the literals latched at ISSUE, the
  forwarding latch, both register files and the typed memory. The FGO engine
  allows one instruction at a time; the module allows the next at any time, as
  the method does and as the tests of the PE use it. Host writes are mirrored
  until the first instruction arrives, as the engine does.
* **`CpuPipeline`** keeps the latches between the stages as sequences of at most one
  instruction, the scoreboard as the set of active signals, each with the ticks its
  FSM has left, and the handshake in `CgoCpu`'s own record. In a tick every stage
  evaluates on the latches of the tick before, the scoreboard arbitrates over what
  they complain about and what it still has, and the winner decides which latches
  move, are held or are flushed; two stages that write one architectural
  destination are a panic, after which the processor does nothing more. Of the
  FSM's counters only what is left is kept, and a request is a line and a direction,
  as the portal matches them. A run chooses program and memory from a set.
* **`CpuIsa`** lets jumps take no step of their own, and says of exceptions what the code
  keeps: a rejected instruction has no effect, at most the two instructions behind
  it (those in ID and EX) are lost, three where one waits in the AGU for the load
  that failed, and none executes twice. In the refinement mapping instructions in MEM and WB have happened.
* **`CoveredByCgoCpu`** ties the two models of the CPU: each step of `CpuPipeline`,
  seen through the handshake record, the occupied latches and the number of
  requests, is one that `CgoCpu` allows, until the first exception or panic. What the
  engine runs show of `CgoCpu` therefore holds of the pipeline with its data.
* **`Sim`** knows of an engine what it holds and that it completes it in some tick;
  `CgoEngine` and `FgoEngine` say that it does, and in which order.

## 3. Runs

| Run | States | Shows |
|---|---|---|
| `cgo_safety` | 222,371 | BankExclusion, HostOwnsQuietBank, PauseAckedWhenHeld, PauseProtocol, PimRequestsAccounted: the hand-over is sound at any relative timing of pause, memory operation, boot, end of program and completions. ServesHostInOrder: the host side refines `HostFifo`. CpuGetsItsShare: the CPU runs unheld for as many ticks as the last batch had requests, if the resume delay is at most one cycle. |
| `cgo_liveness` | 11,062 | every request completes, a boot completes, a CPU is not held for ever, in Host_CGO_share, while the program runs. HostOnlyKeepsProcessorOff: an engine given to the host alone never wakes its processor, whatever commands arrive; it answers them. |
| `cgo_finished_cpu` | violation | finding 1 |
| `cgo_resume` | violation | finding 2 |
| `host_only_order` | violation | finding 3 |
| `fgo_safety` | 18,672 | BankOwner, PeRequestAccounted; ServesInTurn: the engine refines the arbiter; RequestsComplete: every request and instruction completes though both sources go on for ever |
| `sim_safety` | 298,674 | AnsweredExactlyOnce, FanOutCounted, QueryAnswersForAll, WinnerTakesAll |
| `sim_alloc_race` | violation | finding 4 |
| `pe_pipeline` | 636,282 | ExecutesInOrder: the pipelined PE refines sequential execution; OperandsCurrent: no stale register is used; TypedForEver: no load or store changes an entry's type; values keep their width |
| `cpu_pipeline` | 211,309 | ExecutesInOrder: the six-stage CPU refines sequential execution; RequestsAwaited: each of its requests has one FSM that waits for it, and no other takes its answer; an exception loses a bounded number of instructions and repeats none; CoveredByCgoCpu, until the first exception or panic; NeverStuck: no stage is held for ever, in programs that do not loop over a failed load |
| `cpu_not_taken_exit` | violation | finding 5 |
| `cpu_lost_store` | violation | finding 6 |

Every property of a passing run has a mutant: a plausible mistake in the code
under which TLC finds the property violated with the same bounds. They stand in
the modules, just before the definition they change.

### Bounds, and why they are enough

* `BatchSz` is the code's `BATCH_SZ` (0) in some runs and 1 in others: 1 is the
  least value for which the watermark, the count and the batch length differ,
  which is where an off-by-one would show.
* `PauseCycles` and `ResumeCycles` are what `set_external_signal_delays` is given: 0,
  the default, is the path without a count, 1 a count that is over in the tick it
  starts, 2 one that can be overtaken; 4, in `cgo_resume`, outlasts the draining of
  the DRAM. (With the default, finding 2 does not arise.)
* Two or three host requests, reused without end, with room for one or two in
  the DRAM: enough for backpressure with a request left behind on the stack, for
  a batch longer than the DRAM has room, and for a new request to overtake.
* Two AGU chunks and program descriptors at chunks 0 and 2: more than one response
  to wait for in each phase, and a program with and without chunks.
* Three instructions in the FGO engine, of which two touch memory: one in EX, one
  allowed, one waiting.
* Two banks, one request inside and one outside the region, one allocation of
  each kind, one Start and one Query in `Sim`: a fan-out of two is the least that
  can complete in part. `QuietAlloc` restricts gem5 to allocate a region while it
  has no memory request under way; without it finding 4 appears, so
  `sim_safety` sets it and `sim_alloc_race` does not.
* Up to four instructions of twelve kinds in `PePipeline`, on vectors of two words of
  two bits: a producer, an instruction between, a consumer, and a load or store
  with a wait of any length; two bits overflow in every operation.

* In `CpuPipeline`: vectors of two words of three bits, pointers of one tag bit and two
  offset bits, two descriptors that share one of three entries in lines of two
  (two entries of one line have the same key in the scoreboard and the portal, the
  third another), a program counter of three bits. Programs are all sequences of
  three instructions out of twelve, and of two out of fourteen, followed by an exit
  that is taken: a producer, an instruction between and a consumer, with loads,
  stores, pointer arithmetic that leaves its range, and jumps among them. At most
  two pauses: the second can be asked for while the first resume still counts.
* Programs left out of `cpu_pipeline` (`Sound` in `MCCpuPipeline`): those whose last
  instruction waits in the AGU for a load right before it (finding 6); those that
  load an entry as the wrong type in a loop, because of the first observation
  below; and instructions behind a jump to the start, which are never executed.
  Exits that are not taken do not occur there (finding 5).

Symmetry is used for request names in `cgo_safety` only. Deadlock is checked in the
engines, `Sim` and the PE, which can always be clocked; in the runs of
`CpuPipeline` it is not, for a panicked processor does stop.

### Fairness

`Tick` is weakly fair: gem5 clocks the simulator for as long as it runs.
DRAMSim3 completes what it has accepted and carries its writes out: weak
fairness of the ticks that do so. Nothing else is fair; in particular the host
need not send anything, nor collect completions, and the program need not end.
In `CpuPipeline`, whose environment is the engine, the tick is weakly fair, and so are
DRAM answers and the resume that follows a pause; `cgo_liveness` shows of the
engine that it does resume (CpuNotStarved). Pauses are not fair.

`cgo_liveness` has `CanFinish = FALSE` because of finding 1, and Host_CGO_share
for host requests only because of finding 3: in HostOnly the same stack that breaks the order can
also starve the request at its bottom for ever, if newer requests keep coming
while the DRAM refuses. Commands complete in both modes.

## 4. Findings

1. `cgo_finished_cpu` — `pipeline.rs:258`: the tick of a finished CPU returns before
   it answers the handshake, and `signal_pause` has cleared the ready flag. The
   next switch of a CGO engine to the host never ends.
2. `cgo_resume` — `engine.rs:316`: on the way back to the CPU the switch does not wait
   for the resume to be accepted, although the note in
   `signal_scoreboard.rs:282` says the engine uses it so; the CPU's share runs
   while the CPU is still held.
3. `host_only_order` — `engine.rs:411`: in HostOnly each tick pushes new requests on top
   of what the DRAM has refused, so the comment's FIFO does not hold.
4. `sim_alloc_race` — `sim.rs:663`: whether `mono_dsim3`'s completion counts is decided by
   the allocation at completion time; a request enqueued before its bank was
   allocated and completed after is dropped, and no engine has it.

5. `cpu_not_taken_exit` — `cpu/EX.rs:242`: an EqualExit that is not taken holds the
   program counter but does not stall IF, so the instruction fetched in that tick
   is fetched again and executes twice.
6. `cpu_lost_store` — `cpu/EX.rs:289`: prog_end outranks the RAW signal and stalls
   neither EX nor AGU; a store that waits in the AGU for a load's result is dropped
   instead of drained.

Further observations, which are not runs because no document promises otherwise:

* A load that fails (wrong type) leaves an empty result in `wb_forward_rf` under its
  register's name (`cpu/pipeline_util.rs:87`). Who reads that register next, with
  nothing retired in between, waits in EX for ever, or is dropped in the AGU.
* A JUMP right behind an exit that is not taken writes the program counter in the
  same tick: the duplicate destination is a panic (`cpu/pipeline_util.rs:16`).
* FatPtrSub refuses to arrive at offset 0 (`memory/AGU_unit.rs:114`), where every
  pointer starts.
* `cpu/ISA-doc` and the decoder order the operands of FatPtrSt and FatPtrAdd
  differently.
* An exception flushes the stages before the AGU and resumes at the current
  program counter: up to two instructions there are lost (`CpuIsa` allows no more,
  or one more, which waits in the AGU for the load that failed), and a MEM_block or prog_end
  that was waiting stays behind (`cpu/AGU.rs:145`).
* An FGO engine in HostOnly accepts instructions and never executes them
  (`sim_engine/engine.rs:657`); the simulator does not configure one so.
* Registers 8 to 15 are decodable scalar names of which the PE's file has none
  (`PE/RF.rs:17`), and the panic that follows is caught in `lib.rs:144`.

## 5. Proofs

Checked by TLAPS for every value of the constants that the assumptions allow
(`CpuAssumption`, `BootAssumption`, `EngineAssumption`, `PeAssumption`, `SimAssumption`
and those of `FgoEngine`, `PeInst`, `PePipeline`, `CpuInst` and `CpuPipeline`: delays and
sizes are naturals, kinds of request do not overlap, engines and requests are
finitely many, an instruction names registers and entries that exist, a
descriptor's range lies in the bank). `PowersOfTwo`, in `CpuInst` and `PeInst`, says
what is true of exponentiation, of which the provers know nothing, for the
exponents that occur. TLC evaluates the assumptions in the runs. Assumptions of
single theorems are named below.

* **`CgoEngineProofs`, on lemmas in `CgoCpuProofs`.** `Spec => []BankInv`. Neither
  BankExclusion nor HostOwnsQuietBank is inductive: that the portal drains
  before it changes hands depends on the mode agreeing with the portal
  (PauseProtocol), and that the CPU is quiet depends on the acknowledgement
  meaning what it says (HandshakeSound: acknowledged implies held, held implies no
  operation under way, a resume that counts down is not a pause). `BankInv` is
  their conjunction with TypeOK and the fact that nothing is in the DRAM before
  the engine is configured. One lemma per call between ticks; the tick is split as
  the code is: processor, commands, portal and DRAM, schedule, switch.
  From it: `TypeCorrect`, `OneOwner`, `QuietBank`, `AcknowledgedPauseHolds`,
  `PauseProtocolHolds`.
* **`CgoPimProofs`.** `Spec => [](BankInv /\ PimInv)`: requests on the stack, in the DRAM
  and in the response list are together what the boot controller counts or the
  memory FSM waits for. A step of either balances sent and taken requests against
  what it waits for (`ProcessorBalanced`), and moving a request from stack to DRAM to
  response list changes no sum. PimRequestsAccounted is not inductive, because the
  boot's count means nothing without its phase (BootCounts), and a CPU that
  has not started, or is over, must not have been left paused (CpuQuiet). From it: `EveryPimRequestAwaited`, `HostsEngineRunsNothing`.
  `CpuGetsItsTicks` proves CpuGetsItsShare with ShareInv (in PIM mode the CPU is resumed and
  has run unheld for as many ticks as the engine has counted; on the way there it
  is resumed, or is so in a tick) for resume delays of zero or one cycle; for longer ones it is false, which is finding 2 from another side.
* **`CgoEngineProofs`, second part.** `Spec => ServesHostInOrder`, the refinement of `HostFifo`, if HostOnly
  is not among the modes (finding 3 shows that it must not be). The mapping reads
  the portal's stack from its top, and then the pool; the invariant StackInv says
  that the stack is empty whenever a batch is about to be pushed, so that a batch,
  pushed in reverse, never covers an older one. Lemmas on reversal and prefixes are proved from the
  library's sequence theorems.
* **`FgoEngineProofs`.** `Spec => []FgoInv`, where FgoInv adds to TypeOK and
  PeRequestAccounted that what the engine believes to be under way
  (`fgo_request_state`) is what is (RequestStateAgrees). From it: `FgoTypeCorrect`,
  `PeRequestsAccounted`, `OneSideAtATime`.
* **`FgoEngineProofs`, second part.** `Spec => ServesInTurn`, the refinement of `FgoArbiter`. TurnInv adds to
  FgoInv that the host has at most one request in portal and DRAM, and that the PE is
  given permission only for an instruction that is there (OneAtATime), so that the set
  which the mapping calls "being served" is the arbiter's. A tick answers, admits the
  oldest request of the right side, or does nothing that the arbiter sees; there is a
  lemma for each state of `fgo_request_state`.
* **`PePipelineProofs`.** `Spec => []DataInv`: the register files agree with the
  forwarding latch (ForwardCurrent), and so do the operands of the instruction
  in EX. OperandsCurrent alone is not inductive: after a bubble the next
  instruction is issued beside a forwarding latch that was filled long ago and is
  never invalidated. What the ALU computes plays no part. From it:
  `OperandsAreCurrent`. `TypesAreForEver` proves TypedForEver, operator by operator of
  `FlatMemory`. `ExecutesOneByOne` proves the refinement of `PeIsa`: an instruction that
  leaves EX executes (its operands are current, and the abstract machine's copies
  of `PeInst` agree with the element's), one that waits for the DRAM has looked at its
  entry, and a bubble moves nothing. `TypesHold` proves TypeOK, with the fact that at most
  one request is under way and only if the memory FSM waits: every ALU operation,
  load, store and bypass keeps its width. That a dot product is a number, whatever
  the number of lanes, is an induction; it is stated of the set of counterexamples,
  which would have a least member (`LeastMember` in `DataLemmas`).
* **`CpuPipelineProofs`, first part.** `Spec => []PipeInv`: registers, latches and memory are
  typed, what has passed the AGU has an address in the bank, at most one active signal
  has a given key, and the keys that memory FSMs wait for are exactly the requests
  in the DRAM and the responses in the portal. RequestsAwaited alone is not
  inductive: that a completion ends the right FSM rests on the keys being
  different, which is what `submit_signal` keeps by dropping a signal whose key is
  active. From it: `TypesHold`, `RequestsHold`. Both hold for every program, exceptions
  and panics included.
* **`CpuPipelineProofs`, second part.** `Spec => CoveredByCgoCpu`: each step of the pipeline,
  seen as the engine sees it, is one of `CgoCpu`'s, and so the theorems about
  `CgoEngine` speak of a processor the pipeline really implements. The assumption is
  `CanFinish` (`CgoCpu`'s choice that a program may end). CoverInv,
  which TLC checked first, says until the first exception or panic: an exception or the end of
  the program wins in the tick that raises it, and a pause is active only while
  asked for (SignalsKept); only a load may have nothing to write (ResultsThere); a
  pause freezes no exit (HeldBeforeEnd); while the program runs the scoreboard knows
  of one memory operation, in MEM or just gone (OneOperation); once the end is seen
  the exit moves on by one stage per tick with nothing behind it, and at most one
  more operation enters MEM (Ending). A tick is then split by the signal that wins:
  the end of the program (`EndStep`), a memory operation while the program runs or
  after it (`RunningStep`, `LeftoverStep`), a pause (`HeldStep`), or none of these (`QuietStep`).
  The mapping counts requests, so that they are finitely many is part of CoverInv.
* **`SimProofs`.** `Spec => []SimInv`, the conjunction of TypeOK, FanOutCounted,
  WinnerTakesAll, and what makes them inductive: nothing is granted before
  somebody has won, a memory request is held by the engine of its bank alone, and each
  request under way is in one place (OnePlace). The last is inductive for commands
  always, and for memory requests only if `QuietAlloc` holds (finding 4), which is the
  assumption of `EveryRequestAnsweredOnce`. From it also `SimTypeCorrect`,
  `CountsHolders`, `OneWinner`. For `QueriesSpeakForAll` the banks are allocated all
  together or not at all, and a query that is pending is still held by every engine,
  which all answer it in the same tick.

Only model-checked: liveness (RequestsComplete, BootCompletes, CpuNotStarved and
NeverStuck), for TLAPS has no fairness; and ExecutesInOrder of `CpuPipeline`. That one
does not hold of every program: it needs `Sound`, which excludes the programs of
finding 6 and of the first observation in section 4 by their text, so a theorem
would first need an invariant that says of each program, not of each state, what
may be in flight. ExecutesInOrder under "theorems" in `PROJECT.json` is the PE's.

## 6. Not modelled

* DRAMSim3 is external; it is a memory that accepts while it has room and completes
  what it holds in any order. The wrapper's address translation and its queues
  per address are left out: engines see only that a completion belongs to a request
  that is in the DRAM.
* What a boot image's bytes decode to, and the checks that abort a boot: `CpuPipeline`
  starts with program, descriptors and pointer registers as the boot leaves them.
* Bit layouts of commands and operands, logging, the timing harness (it feeds
  nothing back), the C interface, the build.
* Panics, except those of the CPU's pipeline: no state in which one is raised is
  reachable in the other models by choice of inputs (for one, register names are in
  range).
* `Sim`'s host mode, which only tests set.

## 7. Plan

What remains, in order of what it would add:

1. `Sim` composed with the engines' abstract specifications (`FgoArbiter`, `HostFifo`), in
   place of engines that complete what they hold in some tick.
2. Proof of ExecutesInOrder for the straight-line part of `CpuPipeline`, for programs without
   loads that fail: bypasses agree with the register files, as DataInv says of the PE.
3. `AguTable` with `insert` and overlapping descriptors, and the boot's checks of an
   image; `DramWrapper` with its queues per address; `RequestRouter` with its bit fields.
