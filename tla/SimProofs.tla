------------------------------ MODULE SimProofs ------------------------------
(***************************************************************************)
(* For any number of banks, requests, commands and allocations: gem5 gets  *)
(* every request back exactly once, the counts of the fan-out are right,   *)
(* a query speaks for every engine, and the region has one owner.          *)
(***************************************************************************)
EXTENDS Sim, FiniteSetTheorems, TLAPS

\* As long as nobody has won the region, nothing was granted.
NothingGranted ==
  winner = NoKey => DOMAIN table = {} /\ \A b \in Banks : engines[b] = "none"

\* A host request is only ever in the engine of its bank.
HeldAtHome == \A b \in Banks : \A r \in held[b] : BankOf[r] = b

InEngine(r) == \E b \in Banks : r \in held[b]
LeftToMono(r) == r \in mono /\ ~Mapped(r)

\* Every request under way is in exactly one of the places an answer comes from.
OnePlace(r) ==
  /\ r \in outstanding <=>
       \/ r \in immediate_complete_next \/ r \in immediate_complete_ready
       \/ r \in dsim3_comp_queue \/ r \in engine_comp_queue
       \/ r \in DOMAIN pending_pim_cmds \/ InEngine(r) \/ LeftToMono(r)
  /\ r \in immediate_complete_next =>
       ~(\/ r \in immediate_complete_ready \/ r \in dsim3_comp_queue
         \/ r \in engine_comp_queue \/ r \in DOMAIN pending_pim_cmds
         \/ InEngine(r) \/ LeftToMono(r))
  /\ r \in immediate_complete_ready =>
       ~(\/ r \in dsim3_comp_queue \/ r \in engine_comp_queue
         \/ r \in DOMAIN pending_pim_cmds \/ InEngine(r) \/ LeftToMono(r))
  /\ r \in dsim3_comp_queue =>
       ~(\/ r \in engine_comp_queue \/ r \in DOMAIN pending_pim_cmds
         \/ InEngine(r) \/ LeftToMono(r))
  /\ r \in engine_comp_queue =>
       ~(r \in DOMAIN pending_pim_cmds \/ InEngine(r) \/ LeftToMono(r))
  /\ r \in DOMAIN pending_pim_cmds => ~(InEngine(r) \/ LeftToMono(r))
  /\ InEngine(r) => ~LeftToMono(r)

\* The requests of which this holds: memory requests only if the host does not
\* allocate their bank while they are under way (finding sim_alloc_race).
Tracked == {r \in All : QuietAlloc \/ r \notin MemReqs}

\* The inductive invariant.
SimInv ==
  /\ TypeOK
  /\ FanOutCounted
  /\ WinnerTakesAll
  /\ NothingGranted
  /\ HeldAtHome
  /\ \A r \in Tracked : OnePlace(r)

-----------------------------------------------------------------------------
(* Counting.                                                                *)

\* The engines that hold a command.
Holders(c) == {b \in Banks : c \in cmds[b]}

LEMMA SubsetCount ==
  ASSUME NEW T, T \subseteq Banks
  PROVE  /\ IsFiniteSet(T)
         /\ Cardinality(T) \in 0..Cardinality(Banks)
         /\ Cardinality(T) = 0 <=> T = {}
<1>1. IsFiniteSet(Banks)
  BY SimAssumption
<1>2. Cardinality(Banks) \in Nat
  BY <1>1, FS_CardinalityType
<1>3. IsFiniteSet(T) /\ Cardinality(T) <= Cardinality(Banks)
  BY <1>1, FS_Subset
<1>4. Cardinality(T) \in Nat
  BY <1>3, FS_CardinalityType
<1>5. Cardinality(T) = 0 <=> T = {}
  BY <1>3, FS_EmptySet
<1> QED
  BY <1>2, <1>3, <1>4, <1>5

\* Those that complete a command leave the rest of its holders.
LEMMA CountDown ==
  ASSUME TypeOK, NEW now \in CmdsCompleted, NEW c
  PROVE  LET left == {b \in Banks : c \in cmds[b] \ now[b]}
         IN /\ Cardinality(left) = Cardinality(Holders(c)) - Completions(c, now)
            /\ Completions(c, now) \in Nat
            /\ Cardinality(Holders(c)) \in 0..Cardinality(Banks)
            /\ Cardinality(Banks) \in Nat
<1> DEFINE left == {b \in Banks : c \in cmds[b] \ now[b]}
           gone == {b \in Banks : c \in now[b]}
<1>1. \A b \in Banks : now[b] \subseteq cmds[b]
  BY DEF CmdsCompleted
<1>2. left = Holders(c) \ gone
  BY <1>1 DEF Holders
<1>3. gone = Holders(c) \cap gone
  BY <1>1 DEF Holders
<1>4. Holders(c) \subseteq Banks /\ gone \subseteq Banks
  BY DEF Holders
<1> HIDE DEF left, gone
<1>5. IsFiniteSet(Holders(c)) /\ Cardinality(Holders(c)) \in 0..Cardinality(Banks)
  BY <1>4, SubsetCount
<1>6. Cardinality(gone) \in 0..Cardinality(Banks) /\ Cardinality(Banks) \in Nat
  BY <1>4, SubsetCount, SimAssumption, FS_CardinalityType
<1>7. Cardinality(Holders(c) \ gone) =
        Cardinality(Holders(c)) - Cardinality(Holders(c) \cap gone)
  BY <1>5, FS_Difference
<1>8. Cardinality(left) = Cardinality(Holders(c)) - Cardinality(gone)
  BY <1>2, <1>3, <1>7
<1>9. Completions(c, now) = Cardinality(gone)
  BY DEF Completions, gone
<1> QED
  BY <1>5, <1>6, <1>8, <1>9 DEF left

\* What the counts say of a tick: an undrained command has engines left.
LEMMA PendingAfterTick ==
  ASSUME SimInv, NEW now \in CmdsCompleted, NEW c \in DOMAIN pending_pim_cmds
  PROVE  /\ c \in Cmds
         /\ pending_pim_cmds[c] = Cardinality(Holders(c))
         /\ c \in Drained(now) => Completions(c, now) = Cardinality(Holders(c))
         /\ c \notin Drained(now) =>
              pending_pim_cmds[c] - Completions(c, now) \in 1..Cardinality(Banks)
<1>1. c \in Cmds /\ TypeOK
  BY DEF SimInv, TypeOK
<1>2. pending_pim_cmds[c] = Cardinality(Holders(c))
  BY <1>1 DEF SimInv, FanOutCounted, Holders
<1>3. c \in Drained(now) <=> pending_pim_cmds[c] = Completions(c, now)
  BY DEF Drained
<1> DEFINE left == {b \in Banks : c \in cmds[b] \ now[b]}
<1>4. /\ Cardinality(left) = Cardinality(Holders(c)) - Completions(c, now)
      /\ Completions(c, now) \in Nat
      /\ Cardinality(Holders(c)) \in 0..Cardinality(Banks)
      /\ Cardinality(Banks) \in Nat
  BY <1>1, CountDown
<1>5. Cardinality(left) \in 0..Cardinality(Banks)
  BY SubsetCount
<1> HIDE DEF left
<1>6. ASSUME c \notin Drained(now)
      PROVE  pending_pim_cmds[c] - Completions(c, now) \in 1..Cardinality(Banks)
  BY <1>2, <1>3, <1>4, <1>5, <1>6
<1> QED
  BY <1>1, <1>2, <1>3, <1>6

-----------------------------------------------------------------------------
(* Types.                                                                   *)

LEMMA TargetsCount ==
  ASSUME NEW c, Targets(c) # {}
  PROVE  Cardinality(Targets(c)) \in 1..Cardinality(Banks)
<1>1. Targets(c) \subseteq Banks
  BY DEF Targets
<1>2. Cardinality(Banks) \in Nat
  BY SimAssumption, FS_CardinalityType
<1> QED
  BY <1>1, <1>2, SubsetCount

LEMMA GrantedBanks ==
  ASSUME TypeOK, NEW key
  PROVE  Granted(key) \subseteq Banks
BY DEF TypeOK, Granted

LEMMA TypeAlloc ==
  ASSUME TypeOK, NEW a \in Allocs, EnqueueAlloc(a)
  PROVE  TypeOK'
<1> DEFINE key == KeyOf[a]
           new == IF key[2] = "CGO" THEN cgo_alloc_scheduling_mode ELSE "Host_FGO_share"
<1> USE DEF TypeOK
<1>1. key \in Keys
  BY DEF Keys
<1>2. new \in EngineModes
  BY DEF EngineModes
<1>3. /\ table' = [k \in DOMAIN table \cup {key} |-> Granted(k)]
      /\ winner' = IF winner = NoKey THEN key ELSE winner
      /\ engines' = [b \in Banks |-> IF b \in Granted(key) /\ engines[b] = "none"
                                     THEN new ELSE engines[b]]
      /\ payload' = [payload EXCEPT ![a] = Cardinality(Granted(key))]
      /\ immediate_complete_next' = immediate_complete_next \cup {a}
      /\ outstanding' = outstanding \cup {a}
      /\ UNCHANGED <<cgo_alloc_scheduling_mode, inside, done>>
  BY DEF EnqueueAlloc, Take, CompleteNextCycle
<1>4. Cardinality(Granted(key)) \in 0..Cardinality(Banks) /\ Cardinality(Banks) \in Nat
  BY GrantedBanks, SubsetCount, SimAssumption, FS_CardinalityType
<1>5. \A k : Granted(k) \subseteq Banks
  BY GrantedBanks
<1> HIDE DEF key, new
<1>6. winner' \in Keys \cup {NoKey}
  BY <1>1, <1>3
<1>7. DOMAIN table' \subseteq Keys /\ \A k \in DOMAIN table' : table'[k] \subseteq Banks
  BY <1>1, <1>3, <1>5
<1>8. engines' \in [Banks -> EngineModes]
  BY <1>2, <1>3
<1>9. payload' \in [Queries \cup Allocs -> 0..(1 + Cardinality(Banks))]
  <2>1. Cardinality(Granted(key)) \in 0..(1 + Cardinality(Banks))
    BY <1>4
  <2> QED
    BY <1>3, <2>1
<1>10. immediate_complete_next' \subseteq All /\ outstanding' \subseteq All
  BY <1>3 DEF All
<1> QED
  BY <1>3, <1>6, <1>7, <1>8, <1>9, <1>10 DEF inside, done

LEMMA TypeCmd ==
  ASSUME TypeOK, NEW c \in Cmds, EnqueueCmd(c)
  PROVE  TypeOK'
<1> USE DEF TypeOK
<1>1. outstanding' \subseteq All
  BY DEF EnqueueCmd, Take, All
<1>2. CASE Targets(c) = {}
  <2>1. immediate_complete_next' \subseteq All
    BY <1>2 DEF EnqueueCmd, CompleteNextCycle, All
  <2> QED
    BY <1>1, <1>2, <2>1 DEF EnqueueCmd, alloc, done
<1>3. CASE Targets(c) # {}
  <2>1. /\ cmds' = [b \in Banks |-> IF b \in Targets(c) THEN cmds[b] \cup {c} ELSE cmds[b]]
        /\ pending_pim_cmds' = [d \in DOMAIN pending_pim_cmds \cup {c} |->
              IF d = c THEN Cardinality(Targets(c)) ELSE pending_pim_cmds[d]]
        /\ payload' = IF c \in Queries THEN [payload EXCEPT ![c] = 1] ELSE payload
        /\ UNCHANGED <<immediate_complete_next, alloc, cpu, held, mono, done>>
    BY <1>3 DEF EnqueueCmd
  <2>2. cmds' \in [Banks -> SUBSET Cmds]
    BY <2>1
  <2>3. /\ DOMAIN pending_pim_cmds' \subseteq Cmds
        /\ \A d \in DOMAIN pending_pim_cmds' : pending_pim_cmds'[d] \in 1..Cardinality(Banks)
    BY <1>3, <2>1, TargetsCount
  <2>4. 1 \in 0..(1 + Cardinality(Banks))
    BY SimAssumption, FS_CardinalityType
  <2>5. payload' \in [Queries \cup Allocs -> 0..(1 + Cardinality(Banks))]
    BY <2>1, <2>4
  <2> QED
    BY <1>1, <2>1, <2>2, <2>3, <2>5 DEF alloc, done
<1> QED
  BY <1>2, <1>3

LEMMA TypeMem ==
  ASSUME TypeOK, NEW r \in MemReqs, EnqueueMem(r)
  PROVE  TypeOK'
<1> USE DEF TypeOK
<1>1. outstanding' \subseteq All
  BY DEF EnqueueMem, Take, All
<1>2. /\ held' \in [Banks -> SUBSET MemReqs]
      /\ mono' \subseteq MemReqs
      /\ immediate_complete_next' \subseteq All
  BY DEF EnqueueMem, CompleteNextCycle, All, Mapped
<1> QED
  BY <1>1, <1>2 DEF EnqueueMem, alloc, done

\* What a tick does, without its choices.
TickBy(completed, mem, now, after) ==
  /\ mono' = mono \ completed
  /\ dsim3_comp_queue' = dsim3_comp_queue \cup Kept(completed)
  /\ held' = [b \in Banks |-> held[b] \ mem[b]]
  /\ CollectCmds(now, after)
  /\ engine_comp_queue' = engine_comp_queue \cup Drained(now)
                            \cup UNION {mem[b] : b \in Banks}
  /\ cpu' = Started(after, now)
  /\ immediate_complete_ready' = immediate_complete_ready \cup immediate_complete_next
  /\ immediate_complete_next' = {}
  /\ UNCHANGED <<alloc, outstanding>>

LEMMA TickChoices ==
  Tick <=> \E completed \in SUBSET mono, mem \in MemCompleted, now \in CmdsCompleted,
              after \in CpuTicks : TickBy(completed, mem, now, after)
BY DEF Tick, TickBy

LEMMA TypeTick ==
  ASSUME SimInv, Tick
  PROVE  TypeOK'
<1>0. TypeOK
  BY DEF SimInv
<1>1. PICK completed \in SUBSET mono, mem \in MemCompleted, now \in CmdsCompleted,
           after \in CpuTicks : TickBy(completed, mem, now, after)
  BY TickChoices
<1>2. mono' \subseteq MemReqs /\ dsim3_comp_queue' \subseteq MemReqs
  BY <1>0, <1>1 DEF TickBy, Kept, TypeOK
<1>3. held' \in [Banks -> SUBSET MemReqs]
  BY <1>0, <1>1 DEF TickBy, TypeOK
<1>4. cmds' \in [Banks -> SUBSET Cmds]
  BY <1>0, <1>1 DEF TickBy, CollectCmds, TypeOK
<1>5. pending_pim_cmds' = [c \in DOMAIN pending_pim_cmds \ Drained(now) |->
                             pending_pim_cmds[c] - Completions(c, now)]
  BY <1>1 DEF TickBy, CollectCmds
<1>6. /\ DOMAIN pending_pim_cmds' \subseteq Cmds
      /\ \A c \in DOMAIN pending_pim_cmds' :
           pending_pim_cmds'[c] \in 1..Cardinality(Banks)
  BY <1>5, PendingAfterTick
<1>7. Drained(now) \subseteq Cmds
  BY <1>0 DEF Drained, TypeOK
<1>8. UNION {mem[b] : b \in Banks} \subseteq MemReqs
  <2>1. \A b \in Banks : mem[b] \subseteq MemReqs
    BY <1>0 DEF MemCompleted, TypeOK
  <2> QED
    BY <2>1
<1>9. engine_comp_queue' \subseteq MemReqs \cup Cmds
  BY <1>0, <1>1, <1>7, <1>8 DEF TickBy, TypeOK
<1>10. cpu' \in [Banks -> {"idle", "started", "finished"}]
  <2>1. after \in [Banks -> {"idle", "started", "finished"}]
    BY DEF CpuTicks
  <2> QED
    BY <1>1, <2>1 DEF TickBy, Started
<1>11. payload' \in [Queries \cup Allocs -> 0..(1 + Cardinality(Banks))]
  <2>1. 0 \in 0..(1 + Cardinality(Banks))
    BY SimAssumption, FS_CardinalityType
  <2>2. payload' = [r \in Queries \cup Allocs |->
                      IF r \in DOMAIN pending_pim_cmds THEN Combined(r, now, after)
                                                       ELSE payload[r]]
    BY <1>1 DEF TickBy, CollectCmds
  <2>3. \A r : Combined(r, now, after) \in {0, payload[r]}
    BY DEF Combined
  <2>4. \A r \in Queries \cup Allocs : payload[r] \in 0..(1 + Cardinality(Banks))
    BY <1>0 DEF TypeOK
  <2> QED
    BY <2>1, <2>2, <2>3, <2>4
<1>12. immediate_complete_ready' \subseteq All /\ immediate_complete_next' \subseteq All
  BY <1>0, <1>1 DEF TickBy, TypeOK
<1>13. UNCHANGED <<alloc, outstanding>>
  BY <1>1 DEF TickBy
<1> QED
  BY <1>0, <1>2, <1>3, <1>4, <1>6, <1>9, <1>10, <1>11, <1>12, <1>13 DEF TypeOK, alloc

LEMMA TypeGetComplete ==
  ASSUME TypeOK, NEW r \in All, GetComplete(r)
  PROVE  TypeOK'
<1> USE DEF TypeOK
<1>1. payload' \in [Queries \cup Allocs -> 0..(1 + Cardinality(Banks))]
  <2>1. 0 \in 0..(1 + Cardinality(Banks))
    BY SimAssumption, FS_CardinalityType
  <2>2. payload' = [q \in Queries \cup Allocs |-> IF q = r THEN 0 ELSE payload[q]]
    BY DEF GetComplete
  <2> QED
    BY <2>1, <2>2
<1>2. /\ immediate_complete_ready' \subseteq All
      /\ dsim3_comp_queue' \subseteq MemReqs
      /\ engine_comp_queue' \subseteq MemReqs \cup Cmds
      /\ outstanding' \subseteq All
  BY DEF GetComplete
<1>3. UNCHANGED <<alloc, inside, immediate_complete_next>>
  BY DEF GetComplete
<1> QED
  BY <1>1, <1>2, <1>3 DEF alloc, inside

LEMMA TypeStep ==
  ASSUME SimInv, [Next]_vars
  PROVE  TypeOK'
<1>0. TypeOK
  BY DEF SimInv
<1>1. ASSUME NEW m \in CgoModes, SetCgoAllocMode(m)
      PROVE  TypeOK'
  BY <1>0, <1>1 DEF TypeOK, SetCgoAllocMode, inside, done
<1>2. ASSUME NEW r \in Invalid, EnqueueInvalid(r)
      PROVE  TypeOK'
  BY <1>0, <1>2 DEF TypeOK, EnqueueInvalid, Take, CompleteNextCycle, All, alloc, inside, done
<1>3. CASE UNCHANGED vars
  BY <1>0, <1>3 DEF TypeOK, vars, alloc, inside, done
<1> QED
  BY <1>0, <1>1, <1>2, <1>3, TypeAlloc, TypeCmd, TypeMem, TypeTick, TypeGetComplete
     DEF Next

-----------------------------------------------------------------------------
(* Ownership of the region, and of the requests in its engines.             *)

\* Whoever is granted anything has won.
LEMMA GrantedToWinner ==
  ASSUME SimInv, NEW a \in Allocs, EnqueueAlloc(a), Granted(KeyOf[a]) # {}
  PROVE  winner' = KeyOf[a] /\ (winner = NoKey \/ winner = KeyOf[a])
<1>1. CASE KeyOf[a] \in DOMAIN table
  BY <1>1 DEF SimInv, WinnerTakesAll, NothingGranted, Granted, EnqueueAlloc
<1>2. CASE KeyOf[a] \notin DOMAIN table
  BY <1>2 DEF Granted, EnqueueAlloc
<1> QED
  BY <1>1, <1>2

LEMMA WinnerAlloc ==
  ASSUME SimInv, NEW a \in Allocs, EnqueueAlloc(a)
  PROVE  WinnerTakesAll' /\ NothingGranted'
<1> DEFINE key == KeyOf[a]
           new == IF key[2] = "CGO" THEN cgo_alloc_scheduling_mode ELSE "Host_FGO_share"
<1>1. /\ table' = [k \in DOMAIN table \cup {key} |-> Granted(k)]
      /\ winner' = IF winner = NoKey THEN key ELSE winner
      /\ engines' = [b \in Banks |-> IF b \in Granted(key) /\ engines[b] = "none"
                                     THEN new ELSE engines[b]]
  BY DEF EnqueueAlloc
<1>2. key \in Keys /\ key # NoKey
  BY SimAssumption DEF Keys
<1>3. new = "Host_FGO_share" <=> key[2] = "FGO"
  BY SimAssumption DEF SimInv, TypeOK, CgoModes
<1>4. Granted(key) # {} => winner' = key
  BY GrantedToWinner
<1>5. winner' # NoKey
  BY <1>1, <1>2
<1>6. WinnerTakesAll /\ NothingGranted
  BY DEF SimInv
<1> HIDE DEF key, new
<1>7. ASSUME NEW k \in DOMAIN table', table'[k] # {}
      PROVE  k = winner'
  <2>1. CASE k \in DOMAIN table
    <3>1. table'[k] = table[k]
      BY <1>1, <2>1 DEF Granted
    <3> QED
      BY <1>1, <1>6, <1>7, <2>1, <3>1 DEF WinnerTakesAll, NothingGranted
  <2>2. CASE k = key
    BY <1>1, <1>4, <1>7, <2>2
  <2> QED
    BY <1>1, <2>1, <2>2
<1>8. ASSUME NEW b \in Banks, engines'[b] # "none"
      PROVE  engines'[b] = "Host_FGO_share" <=> winner'[2] = "FGO"
  <2>1. CASE b \in Granted(key) /\ engines[b] = "none"
    <3>1. engines'[b] = new /\ winner' = key
      BY <1>1, <1>4, <2>1
    <3> QED
      BY <1>3, <3>1
  <2>2. CASE ~(b \in Granted(key) /\ engines[b] = "none")
    <3>1. engines'[b] = engines[b]
      BY <1>1, <2>2
    <3>2. winner' = winner
      BY <1>1, <1>6, <1>8, <3>1 DEF NothingGranted
    <3> QED
      BY <1>6, <1>8, <3>1, <3>2 DEF WinnerTakesAll
  <2> QED
    BY <2>1, <2>2
<1> QED
  BY <1>5, <1>7, <1>8 DEF WinnerTakesAll, NothingGranted

LEMMA WinnerStep ==
  ASSUME SimInv, [Next]_vars
  PROVE  WinnerTakesAll' /\ NothingGranted'
<1>1. CASE \E a \in Allocs : EnqueueAlloc(a)
  BY <1>1, WinnerAlloc
<1>2. CASE UNCHANGED <<winner, table, engines>>
  BY <1>2 DEF SimInv, WinnerTakesAll, NothingGranted
<1>3. CASE ~\E a \in Allocs : EnqueueAlloc(a)
  <2>1. UNCHANGED <<winner, table, engines>>
    BY <1>3 DEF Next, vars, alloc, SetCgoAllocMode, EnqueueInvalid, EnqueueCmd,
                EnqueueMem, Tick, GetComplete
  <2> QED
    BY <1>2, <2>1
<1> QED
  BY <1>1, <1>3

LEMMA HomeStep ==
  ASSUME SimInv, [Next]_vars
  PROVE  HeldAtHome'
<1>0. HeldAtHome /\ TypeOK
  BY DEF SimInv
<1>1. ASSUME NEW r \in MemReqs, EnqueueMem(r)
      PROVE  HeldAtHome'
  <2>1. \A b \in Banks : \A q : q \in held'[b] => q \in held[b] \/ (q = r /\ b = BankOf[r])
    BY <1>0, <1>1 DEF EnqueueMem, TypeOK
  <2> QED
    BY <1>0, <2>1 DEF HeldAtHome
<1>2. CASE Tick
  <2>1. \A b \in Banks : held'[b] \subseteq held[b]
    BY <1>2, TickChoices DEF TickBy
  <2> QED
    BY <1>0, <2>1 DEF HeldAtHome
<1>3. CASE UNCHANGED held
  BY <1>0, <1>3 DEF HeldAtHome
<1>4. CASE ~(Tick \/ \E r \in MemReqs : EnqueueMem(r))
  <2>1. UNCHANGED held
    BY <1>4 DEF Next, vars, inside, SetCgoAllocMode, EnqueueInvalid, EnqueueCmd,
                EnqueueAlloc, GetComplete
  <2> QED
    BY <1>3, <2>1
<1> QED
  BY <1>1, <1>2, <1>4

-----------------------------------------------------------------------------
(* The fan-out.                                                             *)

\* A command whose name is free is in no engine.
LEMMA FreeNotPending ==
  ASSUME SimInv, NEW c \in Cmds, c \notin outstanding
  PROVE  c \notin DOMAIN pending_pim_cmds /\ Holders(c) = {}
<1>1. c \in Tracked
  BY SimAssumption DEF Tracked, All, Cmds
<1>2. c \notin DOMAIN pending_pim_cmds
  BY <1>1 DEF SimInv, OnePlace
<1>3. Cardinality(Holders(c)) = 0
  BY <1>2 DEF SimInv, FanOutCounted, Holders
<1>4. Holders(c) \subseteq Banks
  BY DEF Holders
<1> QED
  BY <1>2, <1>3, <1>4, SubsetCount

LEMMA FanCmd ==
  ASSUME SimInv, NEW c \in Cmds, EnqueueCmd(c)
  PROVE  FanOutCounted'
<1>0. TypeOK /\ FanOutCounted
  BY DEF SimInv
<1>1. CASE Targets(c) = {}
  BY <1>0, <1>1 DEF EnqueueCmd, FanOutCounted
<1>2. CASE Targets(c) # {}
  <2>1. /\ cmds' = [b \in Banks |-> IF b \in Targets(c) THEN cmds[b] \cup {c} ELSE cmds[b]]
        /\ pending_pim_cmds' = [d \in DOMAIN pending_pim_cmds \cup {c} |->
              IF d = c THEN Cardinality(Targets(c)) ELSE pending_pim_cmds[d]]
    BY <1>2 DEF EnqueueCmd
  <2>2. Holders(c) = {}
    BY FreeNotPending DEF EnqueueCmd, Take
  <2>3. {b \in Banks : c \in cmds'[b]} = Targets(c)
    <3>1. \A b \in Banks : c \notin cmds[b]
      BY <2>2 DEF Holders
    <3> QED
      BY <2>1, <3>1 DEF Targets
  <2>4. \A d \in Cmds : d # c =>
           {b \in Banks : d \in cmds'[b]} = {b \in Banks : d \in cmds[b]}
    BY <2>1
  <2> QED
    BY <1>0, <2>1, <2>3, <2>4 DEF FanOutCounted
<1> QED
  BY <1>1, <1>2

LEMMA FanTick ==
  ASSUME SimInv, Tick
  PROVE  FanOutCounted'
<1>0. TypeOK /\ FanOutCounted
  BY DEF SimInv
<1>1. PICK completed \in SUBSET mono, mem \in MemCompleted, now \in CmdsCompleted,
           after \in CpuTicks : TickBy(completed, mem, now, after)
  BY TickChoices
<1>2. /\ cmds' = [b \in Banks |-> cmds[b] \ now[b]]
      /\ pending_pim_cmds' = [c \in DOMAIN pending_pim_cmds \ Drained(now) |->
                                pending_pim_cmds[c] - Completions(c, now)]
  BY <1>1 DEF TickBy, CollectCmds
<1> SUFFICES ASSUME NEW c \in Cmds
             PROVE  Cardinality({b \in Banks : c \in cmds'[b]}) =
                      IF c \in DOMAIN pending_pim_cmds' THEN pending_pim_cmds'[c] ELSE 0
  BY DEF FanOutCounted
<1> DEFINE left == {b \in Banks : c \in cmds[b] \ now[b]}
<1>3. {b \in Banks : c \in cmds'[b]} = left
  BY <1>2
<1>4. /\ Cardinality(left) = Cardinality(Holders(c)) - Completions(c, now)
      /\ Completions(c, now) \in Nat
      /\ Cardinality(Holders(c)) \in 0..Cardinality(Banks)
      /\ Cardinality(Banks) \in Nat
  BY <1>0, CountDown
<1>5. Cardinality(left) \in 0..Cardinality(Banks)
  BY SubsetCount
<1> HIDE DEF left
<1>6. CASE c \notin DOMAIN pending_pim_cmds
  <2>1. Cardinality(Holders(c)) = 0
    BY <1>0, <1>6 DEF FanOutCounted, Holders
  <2>2. Cardinality(left) = 0
    BY <1>4, <1>5, <2>1
  <2> QED
    BY <1>2, <1>3, <1>6, <2>2
<1>7. CASE c \in DOMAIN pending_pim_cmds /\ c \in Drained(now)
  <2>1. Completions(c, now) = Cardinality(Holders(c))
    BY <1>7, PendingAfterTick
  <2>2. Cardinality(left) = 0
    BY <1>4, <2>1
  <2> QED
    BY <1>2, <1>3, <1>7, <2>2
<1>8. CASE c \in DOMAIN pending_pim_cmds /\ c \notin Drained(now)
  <2>1. pending_pim_cmds[c] = Cardinality(Holders(c))
    BY <1>8, PendingAfterTick
  <2> QED
    BY <1>2, <1>3, <1>4, <1>8, <2>1
<1> QED
  BY <1>6, <1>7, <1>8

LEMMA FanStep ==
  ASSUME SimInv, [Next]_vars
  PROVE  FanOutCounted'
<1>1. CASE UNCHANGED <<cmds, pending_pim_cmds>>
  BY <1>1 DEF SimInv, FanOutCounted
<1>2. CASE ~(Tick \/ \E c \in Cmds : EnqueueCmd(c))
  <2>1. UNCHANGED <<cmds, pending_pim_cmds>>
    BY <1>2 DEF Next, vars, inside, SetCgoAllocMode, EnqueueInvalid, EnqueueMem,
                EnqueueAlloc, GetComplete
  <2> QED
    BY <1>1, <2>1
<1> QED
  BY <1>2, FanCmd, FanTick

-----------------------------------------------------------------------------
(* One place for every request.                                             *)

\* A request whose name is free is nowhere that counts.
LEMMA FreeNowhere ==
  ASSUME SimInv, NEW r \in Tracked, r \notin outstanding
  PROVE  /\ r \notin immediate_complete_next /\ r \notin immediate_complete_ready
         /\ r \notin dsim3_comp_queue /\ r \notin engine_comp_queue
         /\ r \notin DOMAIN pending_pim_cmds /\ ~InEngine(r) /\ ~LeftToMono(r)
BY DEF SimInv, OnePlace

\* The step that gives a free name to a request puts it into just one place.
LEMMA PlaceTaken ==
  ASSUME SimInv, NEW r \in Tracked, r \notin outstanding,
         outstanding' = outstanding \cup {r},
         UNCHANGED <<immediate_complete_ready, dsim3_comp_queue, engine_comp_queue>>,
         \/ /\ immediate_complete_next' = immediate_complete_next \cup {r}
            /\ UNCHANGED DOMAIN pending_pim_cmds
            /\ ~InEngine(r)' /\ ~LeftToMono(r)'
         \/ /\ UNCHANGED immediate_complete_next
            /\ DOMAIN pending_pim_cmds' = DOMAIN pending_pim_cmds \cup {r}
            /\ ~InEngine(r)' /\ ~LeftToMono(r)'
         \/ /\ UNCHANGED <<immediate_complete_next, DOMAIN pending_pim_cmds>>
            /\ InEngine(r)' /\ ~LeftToMono(r)'
         \/ /\ UNCHANGED <<immediate_complete_next, DOMAIN pending_pim_cmds>>
            /\ ~InEngine(r)' /\ LeftToMono(r)'
  PROVE  OnePlace(r)'
<1>1. /\ r \notin immediate_complete_next /\ r \notin immediate_complete_ready
      /\ r \notin dsim3_comp_queue /\ r \notin engine_comp_queue
      /\ r \notin DOMAIN pending_pim_cmds
  BY FreeNowhere
<1> QED
  BY <1>1 DEF OnePlace

\* To the other requests such a step does nothing.
LEMMA PlaceKept ==
  ASSUME NEW r, NEW q, q # r, OnePlace(q),
         outstanding' = outstanding \/ outstanding' = outstanding \cup {r},
         UNCHANGED <<immediate_complete_ready, dsim3_comp_queue, engine_comp_queue>>,
         \/ UNCHANGED immediate_complete_next
         \/ immediate_complete_next' = immediate_complete_next \cup {r},
         \/ UNCHANGED DOMAIN pending_pim_cmds
         \/ DOMAIN pending_pim_cmds' = DOMAIN pending_pim_cmds \cup {r},
         InEngine(q)' <=> InEngine(q),
         LeftToMono(q)' <=> LeftToMono(q)
  PROVE  OnePlace(q)'
BY DEF OnePlace

LEMMA PlaceInvalid ==
  ASSUME SimInv, NEW r \in Invalid, EnqueueInvalid(r), NEW q \in Tracked
  PROVE  OnePlace(q)'
<1>1. /\ r \notin outstanding /\ outstanding' = outstanding \cup {r}
      /\ immediate_complete_next' = immediate_complete_next \cup {r}
      /\ UNCHANGED <<immediate_complete_ready, dsim3_comp_queue, engine_comp_queue,
                     pending_pim_cmds, held, mono, engines>>
  BY DEF EnqueueInvalid, Take, CompleteNextCycle, alloc, inside, done
<1>2. /\ InEngine(q)' <=> InEngine(q)
      /\ LeftToMono(q)' <=> LeftToMono(q)
  BY <1>1 DEF InEngine, LeftToMono, Mapped
<1>3. CASE q = r
  <2>1. ~InEngine(q) /\ ~LeftToMono(q)
    BY <1>1, <1>3, FreeNowhere
  <2> QED
    BY <1>1, <1>2, <1>3, <2>1, PlaceTaken
<1>4. CASE q # r
  BY <1>1, <1>2, <1>4, PlaceKept DEF SimInv
<1> QED
  BY <1>3, <1>4

\* An allocation takes from mono_dsim3 what it was going to answer, unless the
\* host has nothing of the region under way.
LEMMA PlaceAlloc ==
  ASSUME SimInv, NEW a \in Allocs, EnqueueAlloc(a), NEW q \in Tracked
  PROVE  OnePlace(q)'
<1>1. /\ a \notin outstanding /\ outstanding' = outstanding \cup {a}
      /\ immediate_complete_next' = immediate_complete_next \cup {a}
      /\ UNCHANGED <<immediate_complete_ready, dsim3_comp_queue, engine_comp_queue,
                     pending_pim_cmds, held, mono>>
  BY DEF EnqueueAlloc, Take, CompleteNextCycle, inside, done
<1>2. InEngine(q)' <=> InEngine(q)
  BY <1>1 DEF InEngine
<1>3. LeftToMono(q)' <=> LeftToMono(q)
  <2>1. CASE q \notin mono
    BY <1>1, <2>1 DEF LeftToMono
  <2>2. CASE q \in mono /\ Mapped(q)
    <3>1. engines'[BankOf[q]] = engines[BankOf[q]]
      BY <2>2 DEF EnqueueAlloc, Mapped
    <3> QED
      BY <1>1, <2>2, <3>1 DEF LeftToMono, Mapped
  <2>3. CASE q \in mono /\ ~Mapped(q)
    <3>1. q \in MemReqs
      BY <2>3 DEF SimInv, TypeOK
    <3>2. q \in outstanding
      BY <2>3 DEF SimInv, OnePlace, LeftToMono
    <3>3. BankOf[q] = Outside
      BY <3>1, <3>2 DEF EnqueueAlloc, Tracked
    <3> QED
      BY <1>1, <2>3, <3>3, SimAssumption DEF LeftToMono, Mapped
  <2> QED
    BY <2>1, <2>2, <2>3
<1>4. CASE q = a
  <2>1. ~InEngine(q) /\ ~LeftToMono(q)
    BY <1>1, <1>4, FreeNowhere
  <2> QED
    BY <1>1, <1>2, <1>3, <1>4, <2>1, PlaceTaken
<1>5. CASE q # a
  BY <1>1, <1>2, <1>3, <1>5, PlaceKept DEF SimInv
<1> QED
  BY <1>4, <1>5

LEMMA PlaceCmd ==
  ASSUME SimInv, NEW c \in Cmds, EnqueueCmd(c), NEW q \in Tracked
  PROVE  OnePlace(q)'
<1>1. /\ c \notin outstanding /\ outstanding' = outstanding \cup {c}
      /\ UNCHANGED <<immediate_complete_ready, dsim3_comp_queue, engine_comp_queue,
                     held, mono, engines>>
  BY DEF EnqueueCmd, Take, alloc, done
<1>2. \/ /\ immediate_complete_next' = immediate_complete_next \cup {c}
         /\ UNCHANGED DOMAIN pending_pim_cmds
      \/ /\ UNCHANGED immediate_complete_next
         /\ DOMAIN pending_pim_cmds' = DOMAIN pending_pim_cmds \cup {c}
  BY DEF EnqueueCmd, CompleteNextCycle
<1>3. /\ InEngine(q)' <=> InEngine(q)
      /\ LeftToMono(q)' <=> LeftToMono(q)
  BY <1>1 DEF InEngine, LeftToMono, Mapped
<1>4. CASE q = c
  <2>1. ~InEngine(q) /\ ~LeftToMono(q)
    BY <1>1, <1>4, FreeNowhere
  <2> QED
    BY <1>1, <1>2, <1>3, <1>4, <2>1, PlaceTaken
<1>5. CASE q # c
  BY <1>1, <1>2, <1>3, <1>5, PlaceKept DEF SimInv
<1> QED
  BY <1>4, <1>5

LEMMA PlaceMem ==
  ASSUME SimInv, NEW r \in MemReqs, EnqueueMem(r), NEW q \in Tracked
  PROVE  OnePlace(q)'
<1>1. /\ r \notin outstanding /\ r \notin mono
      /\ outstanding' = outstanding \cup {r}
      /\ UNCHANGED <<immediate_complete_ready, dsim3_comp_queue, engine_comp_queue,
                     pending_pim_cmds, engines>>
  BY DEF EnqueueMem, Take, alloc, done
<1>2. held \in [Banks -> SUBSET MemReqs]
  BY DEF SimInv, TypeOK
<1>3. \/ /\ Mapped(r) /\ engines[BankOf[r]] = "CGO_only"
         /\ immediate_complete_next' = immediate_complete_next \cup {r}
         /\ UNCHANGED <<held, mono>>
      \/ /\ Mapped(r)
         /\ UNCHANGED immediate_complete_next
         /\ held' = [held EXCEPT ![BankOf[r]] = @ \cup {r}]
         /\ mono' = mono \cup {r}
      \/ /\ ~Mapped(r)
         /\ UNCHANGED <<immediate_complete_next, held>>
         /\ mono' = mono \cup {r}
  BY DEF EnqueueMem, CompleteNextCycle
<1>4. Mapped(r)' <=> Mapped(r)
  BY <1>1 DEF Mapped
<1>5. CASE q = r
  <2>1. ~InEngine(r) /\ ~LeftToMono(r)
    BY <1>1, <1>5, FreeNowhere
  <2>2. CASE /\ immediate_complete_next' = immediate_complete_next \cup {r}
             /\ UNCHANGED <<held, mono>>
    <3>1. ~InEngine(r)' /\ ~LeftToMono(r)'
      BY <1>1, <2>1, <2>2 DEF InEngine, LeftToMono
    <3> QED
      BY <1>1, <1>5, <2>2, <3>1, PlaceTaken
  <2>3. CASE /\ Mapped(r)
             /\ UNCHANGED immediate_complete_next
             /\ held' = [held EXCEPT ![BankOf[r]] = @ \cup {r}]
    <3>1. InEngine(r)'
      BY <1>2, <2>3 DEF InEngine, Mapped
    <3>2. ~LeftToMono(r)'
      BY <1>4, <2>3 DEF LeftToMono
    <3> QED
      BY <1>1, <1>5, <2>3, <3>1, <3>2, PlaceTaken
  <2>4. CASE /\ ~Mapped(r)
             /\ UNCHANGED <<immediate_complete_next, held>>
             /\ mono' = mono \cup {r}
    <3>1. ~InEngine(r)' /\ LeftToMono(r)'
      BY <1>4, <2>1, <2>4 DEF InEngine, LeftToMono
    <3> QED
      BY <1>1, <1>5, <2>4, <3>1, PlaceTaken
  <2> QED
    BY <1>3, <2>2, <2>3, <2>4
<1>6. CASE q # r
  <2>1. InEngine(q)' <=> InEngine(q)
    BY <1>2, <1>3, <1>6 DEF InEngine, Mapped
  <2>2. LeftToMono(q)' <=> LeftToMono(q)
    <3>1. q \in mono' <=> q \in mono
      BY <1>3, <1>6
    <3> QED
      BY <1>1, <3>1 DEF LeftToMono, Mapped
  <2>3. \/ UNCHANGED immediate_complete_next
        \/ immediate_complete_next' = immediate_complete_next \cup {r}
    BY <1>3
  <2> QED
    BY <1>1, <1>6, <2>1, <2>2, <2>3, PlaceKept DEF SimInv
<1> QED
  BY <1>5, <1>6

LEMMA PlaceTick ==
  ASSUME SimInv, Tick, NEW q \in Tracked
  PROVE  OnePlace(q)'
<1>0. TypeOK /\ OnePlace(q) /\ HeldAtHome
  BY DEF SimInv
<1>1. PICK completed \in SUBSET mono, mem \in MemCompleted, now \in CmdsCompleted,
           after \in CpuTicks : TickBy(completed, mem, now, after)
  BY TickChoices
<1> DEFINE answered == \E b \in Banks : q \in mem[b]
<1>2. /\ \A b \in Banks : mem[b] \subseteq held[b]
      /\ Drained(now) \subseteq DOMAIN pending_pim_cmds
  BY DEF MemCompleted, Drained
<1>3. /\ outstanding' = outstanding
      /\ immediate_complete_next' = {}
      /\ q \in immediate_complete_ready' <=>
           q \in immediate_complete_ready \/ q \in immediate_complete_next
      /\ DOMAIN pending_pim_cmds' = DOMAIN pending_pim_cmds \ Drained(now)
      /\ q \in engine_comp_queue' <=>
           q \in engine_comp_queue \/ q \in Drained(now) \/ answered
  BY <1>1 DEF TickBy, CollectCmds
<1>4. q \in dsim3_comp_queue' <=>
        q \in dsim3_comp_queue \/ (q \in completed /\ LeftToMono(q))
  BY <1>1 DEF TickBy, Kept, LeftToMono
<1>5. LeftToMono(q)' <=> LeftToMono(q) /\ q \notin completed
  BY <1>1 DEF TickBy, LeftToMono, Mapped, alloc
<1>6. /\ InEngine(q)' <=> InEngine(q) /\ ~answered
      /\ answered => InEngine(q)
  <2>1. answered => InEngine(q)
    BY <1>2 DEF InEngine
  <2>2. InEngine(q)' <=> \E b \in Banks : q \in held[b] \ mem[b]
    BY <1>1 DEF TickBy, InEngine
  <2>3. ASSUME NEW b \in Banks, NEW d \in Banks, q \in held[b], q \in mem[d]
        PROVE  b = d
    BY <1>0, <1>2, <2>3 DEF HeldAtHome
  <2> QED
    BY <2>1, <2>2, <2>3 DEF InEngine
<1> HIDE DEF answered
<1> QED
  BY <1>0, <1>2, <1>3, <1>4, <1>5, <1>6 DEF OnePlace

LEMMA PlaceGetComplete ==
  ASSUME SimInv, NEW r \in All, GetComplete(r), NEW q \in Tracked
  PROVE  OnePlace(q)'
<1>0. OnePlace(q)
  BY DEF SimInv
<1>1. /\ outstanding' = outstanding \ {r}
      /\ UNCHANGED <<immediate_complete_next, pending_pim_cmds, held, mono, engines>>
  BY DEF GetComplete, alloc, inside
<1>2. /\ InEngine(q)' <=> InEngine(q)
      /\ LeftToMono(q)' <=> LeftToMono(q)
  BY <1>1 DEF InEngine, LeftToMono, Mapped
<1>3. \/ /\ r \in immediate_complete_ready
         /\ immediate_complete_ready' = immediate_complete_ready \ {r}
         /\ UNCHANGED <<dsim3_comp_queue, engine_comp_queue>>
      \/ /\ r \in dsim3_comp_queue
         /\ dsim3_comp_queue' = dsim3_comp_queue \ {r}
         /\ UNCHANGED <<immediate_complete_ready, engine_comp_queue>>
      \/ /\ r \in engine_comp_queue
         /\ engine_comp_queue' = engine_comp_queue \ {r}
         /\ UNCHANGED <<immediate_complete_ready, dsim3_comp_queue>>
  BY DEF GetComplete
<1>4. CASE q # r
  BY <1>0, <1>1, <1>2, <1>3, <1>4 DEF OnePlace
<1>5. CASE q = r
  BY <1>0, <1>1, <1>2, <1>3, <1>5 DEF OnePlace
<1> QED
  BY <1>4, <1>5

LEMMA PlaceStep ==
  ASSUME SimInv, [Next]_vars
  PROVE  (\A r \in Tracked : OnePlace(r))'
<1> SUFFICES ASSUME NEW q \in Tracked
             PROVE  OnePlace(q)'
  BY DEF Tracked
<1>1. CASE UNCHANGED <<engines, inside, immediate_complete_next, done, outstanding>>
  BY <1>1 DEF SimInv, OnePlace, InEngine, LeftToMono, Mapped, inside, done
<1>2. ASSUME NEW m \in CgoModes, SetCgoAllocMode(m)
      PROVE  OnePlace(q)'
  BY <1>1, <1>2 DEF SetCgoAllocMode
<1>3. CASE UNCHANGED vars
  BY <1>1, <1>3 DEF vars, alloc
<1> QED
  BY <1>2, <1>3, PlaceInvalid, PlaceAlloc, PlaceCmd, PlaceMem, PlaceTick,
     PlaceGetComplete DEF Next

LEMMA SimInit ==
  ASSUME Init
  PROVE  SimInv
<1> USE DEF Init
<1>1. TypeOK
  BY SimAssumption, FS_CardinalityType DEF TypeOK, CgoModes, EngineModes
<1>2. FanOutCounted
  <2>1. ASSUME NEW c \in Cmds
        PROVE  Cardinality({b \in Banks : c \in cmds[b]}) = 0
    <3>1. {b \in Banks : c \in cmds[b]} = {}
      OBVIOUS
    <3> QED
      BY <3>1, FS_EmptySet
  <2> QED
    BY <2>1 DEF FanOutCounted
<1>3. WinnerTakesAll /\ NothingGranted /\ HeldAtHome
  BY DEF WinnerTakesAll, NothingGranted, HeldAtHome
<1>4. \A r \in Tracked : OnePlace(r)
  BY DEF OnePlace, InEngine, LeftToMono
<1> QED
  BY <1>1, <1>2, <1>3, <1>4 DEF SimInv

THEOREM SimInvariant == Spec => []SimInv
<1>1. Init => SimInv
  BY SimInit
<1>2. SimInv /\ [Next]_vars => SimInv'
  BY TypeStep, WinnerStep, HomeStep, FanStep, PlaceStep DEF SimInv
<1> QED
  BY <1>1, <1>2, PTL DEF Spec

\* The variables keep their types.
THEOREM SimTypeCorrect == Spec => []TypeOK
BY SimInvariant, PTL DEF SimInv

\* The count of a command is the number of engines that still hold it.
THEOREM CountsHolders == Spec => []FanOutCounted
BY SimInvariant, PTL DEF SimInv

\* The region has one address space and one kind of engine, for good.
THEOREM OneWinner == Spec => []WinnerTakesAll
BY SimInvariant, PTL DEF SimInv

-----------------------------------------------------------------------------
(* One answer for every request.                                            *)

LEMMA PlacesListed ==
  ASSUME NEW r
  PROVE  /\ DOMAIN Places = 1..7
         /\ r \in Places[1] <=> r \in immediate_complete_next
         /\ r \in Places[2] <=> r \in immediate_complete_ready
         /\ r \in Places[3] <=> r \in dsim3_comp_queue
         /\ r \in Places[4] <=> r \in engine_comp_queue
         /\ r \in Places[5] <=> r \in DOMAIN pending_pim_cmds
         /\ r \in Places[6] <=> InEngine(r)
         /\ r \in Places[7] <=> LeftToMono(r)
<1> DEFINE H == UNION {held[b] : b \in Banks}
           M == {q \in mono : ~Mapped(q)}
           P == << immediate_complete_next, immediate_complete_ready,
                   dsim3_comp_queue, engine_comp_queue,
                   DOMAIN pending_pim_cmds, H, M >>
<1>1. Places = P
  BY DEF Places
<1>2. r \in H <=> InEngine(r)
  BY DEF InEngine
<1>3. r \in M <=> LeftToMono(r)
  BY DEF LeftToMono
<1> HIDE DEF H, M
<1>4. /\ DOMAIN P = 1..7
      /\ P[1] = immediate_complete_next /\ P[2] = immediate_complete_ready
      /\ P[3] = dsim3_comp_queue /\ P[4] = engine_comp_queue
      /\ P[5] = DOMAIN pending_pim_cmds /\ P[6] = H /\ P[7] = M
  OBVIOUS
<1> HIDE DEF P
<1> QED
  BY <1>1, <1>2, <1>3, <1>4

LEMMA OnePlaceCounts ==
  ASSUME NEW r, OnePlace(r)
  PROVE  Cardinality({i \in DOMAIN Places : r \in Places[i]}) =
           IF r \in outstanding THEN 1 ELSE 0
<1> DEFINE S == {i \in DOMAIN Places : r \in Places[i]}
           At(i) == r \in Places[i]
<1>1. DOMAIN Places = 1..7
  BY PlacesListed
<1>2. \A i \in DOMAIN Places : i \in {1, 2, 3, 4, 5, 6, 7}
  BY <1>1
<1>3. r \in outstanding <=> At(1) \/ At(2) \/ At(3) \/ At(4) \/ At(5) \/ At(6) \/ At(7)
  BY PlacesListed DEF OnePlace
<1>4. /\ At(1) => ~(At(2) \/ At(3) \/ At(4) \/ At(5) \/ At(6) \/ At(7))
      /\ At(2) => ~(At(3) \/ At(4) \/ At(5) \/ At(6) \/ At(7))
      /\ At(3) => ~(At(4) \/ At(5) \/ At(6) \/ At(7))
      /\ At(4) => ~(At(5) \/ At(6) \/ At(7))
      /\ At(5) => ~(At(6) \/ At(7))
      /\ At(6) => ~At(7)
  BY PlacesListed DEF OnePlace
<1>5. \A i : i \in S <=> i \in {1, 2, 3, 4, 5, 6, 7} /\ At(i)
  BY <1>1, <1>2
<1> HIDE DEF S, At
<1>6. CASE r \notin outstanding
  <2>1. S = {}
    BY <1>3, <1>5, <1>6
  <2>2. Cardinality(S) = 0
    BY <2>1, FS_EmptySet
  <2> QED
    BY <1>6, <2>2 DEF S
<1>7. CASE r \in outstanding
  <2>1. PICK i \in {1, 2, 3, 4, 5, 6, 7} : At(i)
    BY <1>3, <1>7
  <2>2. \A j \in {1, 2, 3, 4, 5, 6, 7} : At(j) => j = i
    BY <1>4, <2>1
  <2>3. S = {i}
    BY <1>5, <2>1, <2>2
  <2>4. Cardinality(S) = 1
    BY <2>3, FS_Singleton
  <2> QED
    BY <1>7, <2>4 DEF S
<1> QED
  BY <1>6, <1>7

\* gem5 gets every request back once, if it has no memory request of a region
\* under way when it allocates the region.
THEOREM EveryRequestAnsweredOnce ==
  ASSUME QuietAlloc
  PROVE  Spec => []AnsweredExactlyOnce
<1>1. SimInv => AnsweredExactlyOnce
  BY OnePlaceCounts DEF SimInv, Tracked, AnsweredExactlyOnce
<1> QED
  BY <1>1, SimInvariant, PTL

-----------------------------------------------------------------------------
(* Queries.                                                                 *)

\* The banks get their engines together.
AllocatedTogether ==
  /\ \A k \in DOMAIN table : table[k] \in {{}, Banks}
  /\ (\A b \in Banks : engines[b] = "none") \/ (\A b \in Banks : engines[b] # "none")

\* A query under way is in every engine, and no engine has answered it.
QueriesEverywhere ==
  \A q \in Queries \cap DOMAIN pending_pim_cmds :
    /\ payload[q] = 1
    /\ \A b \in Banks : engines[b] \in CgoModes /\ q \in cmds[b]

QueryInv == SimInv /\ AllocatedTogether /\ QueriesEverywhere

LEMMA TogetherAlloc ==
  ASSUME QueryInv, NEW a \in Allocs, EnqueueAlloc(a)
  PROVE  AllocatedTogether' /\ \A b \in Banks : engines[b] # "none" => engines'[b] = engines[b]
<1> DEFINE key == KeyOf[a]
           new == IF key[2] = "CGO" THEN cgo_alloc_scheduling_mode ELSE "Host_FGO_share"
<1>1. /\ table' = [k \in DOMAIN table \cup {key} |-> Granted(k)]
      /\ engines' = [b \in Banks |-> IF b \in Granted(key) /\ engines[b] = "none"
                                     THEN new ELSE engines[b]]
  BY DEF EnqueueAlloc
<1>2. new # "none"
  BY DEF QueryInv, SimInv, TypeOK, CgoModes
<1>3. \A k : Granted(k) \in {{}, Banks}
  BY DEF QueryInv, AllocatedTogether, Granted
<1> HIDE DEF key, new
<1>4. \A k \in DOMAIN table' : table'[k] \in {{}, Banks}
  BY <1>1, <1>3
<1>5. (\A b \in Banks : engines'[b] = "none") \/ (\A b \in Banks : engines'[b] # "none")
  <2>1. CASE Granted(key) = {}
    BY <1>1, <2>1 DEF QueryInv, AllocatedTogether
  <2>2. CASE Granted(key) = Banks
    BY <1>1, <1>2, <2>2
  <2> QED
    BY <1>3, <2>1, <2>2
<1> QED
  BY <1>1, <1>4, <1>5 DEF AllocatedTogether

LEMMA TogetherStep ==
  ASSUME QueryInv, [Next]_vars
  PROVE  AllocatedTogether'
<1>1. CASE UNCHANGED <<table, engines>>
  BY <1>1 DEF QueryInv, AllocatedTogether
<1>2. CASE ~\E a \in Allocs : EnqueueAlloc(a)
  <2>1. UNCHANGED <<table, engines>>
    BY <1>2 DEF Next, vars, alloc, SetCgoAllocMode, EnqueueInvalid, EnqueueCmd,
                EnqueueMem, Tick, GetComplete
  <2> QED
    BY <1>1, <2>1
<1> QED
  BY <1>2, TogetherAlloc

\* An engine that takes queries is one of many of its kind.
LEMMA QueryTargets ==
  ASSUME QueryInv, NEW q \in Queries, Targets(q) # {}
  PROVE  /\ Targets(q) = Banks
         /\ \A b \in Banks : engines[b] \in CgoModes
<1>1. q \notin Insts
  BY SimAssumption
<1>2. PICK b \in Banks : engines[b] \in CgoModes
  BY <1>1 DEF Targets
<1>3. \A d \in Banks : engines[d] # "none"
  BY <1>2 DEF QueryInv, AllocatedTogether, CgoModes
<1>4. \A d \in Banks : engines[d] # "Host_FGO_share"
  BY <1>2, <1>3 DEF QueryInv, SimInv, WinnerTakesAll, CgoModes
<1>5. \A d \in Banks : engines[d] \in CgoModes
  BY <1>3, <1>4 DEF QueryInv, SimInv, TypeOK, EngineModes
<1> QED
  BY <1>1, <1>5 DEF Targets

\* A tick answers every query it finds, and for every engine.
LEMMA QueriesDrained ==
  ASSUME QueryInv, NEW now \in CmdsCompleted,
         NEW q \in Queries \cap DOMAIN pending_pim_cmds
  PROVE  q \in Drained(now) /\ \A b \in Banks : q \in now[b]
<1>1. \A b \in Banks : engines[b] \in CgoModes /\ q \in cmds[b]
  BY DEF QueryInv, QueriesEverywhere
<1>2. \A b \in Banks : q \in now[b]
  BY <1>1 DEF CmdsCompleted
<1>3. Completions(q, now) = Cardinality(Banks)
  <2>1. {b \in Banks : q \in now[b]} = Banks
    BY <1>2
  <2> QED
    BY <2>1 DEF Completions
<1>4. pending_pim_cmds[q] = Cardinality(Banks)
  <2>1. {b \in Banks : q \in cmds[b]} = Banks
    BY <1>1
  <2>2. q \in Cmds
    BY DEF Cmds
  <2> QED
    BY <2>1, <2>2 DEF QueryInv, SimInv, FanOutCounted
<1> QED
  BY <1>2, <1>3, <1>4 DEF Drained

\* A query under way has its name, and it is in no completion queue.
LEMMA QueryUnderWay ==
  ASSUME SimInv, NEW q \in Queries \cap DOMAIN pending_pim_cmds
  PROVE  /\ q \in outstanding
         /\ q \notin immediate_complete_ready
         /\ q \notin dsim3_comp_queue
         /\ q \notin engine_comp_queue
<1>1. q \in Tracked
  BY SimAssumption DEF Tracked, All, Cmds
<1> QED
  BY <1>1 DEF SimInv, OnePlace

LEMMA QueriesCmd ==
  ASSUME QueryInv, NEW c \in Cmds, EnqueueCmd(c)
  PROVE  QueriesEverywhere'
<1>0. TypeOK /\ SimInv /\ QueriesEverywhere
  BY DEF QueryInv, SimInv
<1>1. engines' = engines
  BY DEF EnqueueCmd, alloc
<1>2. CASE Targets(c) = {}
  BY <1>0, <1>1, <1>2 DEF EnqueueCmd, QueriesEverywhere
<1>3. CASE Targets(c) # {}
  <2>1. /\ cmds' = [b \in Banks |-> IF b \in Targets(c) THEN cmds[b] \cup {c} ELSE cmds[b]]
        /\ DOMAIN pending_pim_cmds' = DOMAIN pending_pim_cmds \cup {c}
        /\ payload' = IF c \in Queries THEN [payload EXCEPT ![c] = 1] ELSE payload
    BY <1>3 DEF EnqueueCmd
  <2>2. payload \in [Queries \cup Allocs -> 0..(1 + Cardinality(Banks))]
    BY <1>0 DEF TypeOK
  <2>3. ASSUME NEW q \in Queries, q \in DOMAIN pending_pim_cmds
        PROVE  payload'[q] = 1 /\ \A b \in Banks : engines'[b] \in CgoModes /\ q \in cmds'[b]
    BY <1>0, <1>1, <2>1, <2>2, <2>3 DEF QueriesEverywhere
  <2>4. ASSUME c \in Queries
        PROVE  payload'[c] = 1 /\ \A b \in Banks : engines'[b] \in CgoModes /\ c \in cmds'[b]
    BY <1>1, <1>3, <2>1, <2>2, <2>4, QueryTargets
  <2> QED
    BY <2>1, <2>3, <2>4 DEF QueriesEverywhere
<1> QED
  BY <1>2, <1>3

LEMMA QueriesStep ==
  ASSUME QueryInv, [Next]_vars
  PROVE  QueriesEverywhere'
<1>0. TypeOK /\ SimInv /\ QueriesEverywhere
  BY DEF QueryInv, SimInv
<1>1. payload \in [Queries \cup Allocs -> 0..(1 + Cardinality(Banks))]
  BY <1>0 DEF TypeOK
<1>2. CASE UNCHANGED <<payload, engines, pending_pim_cmds, cmds>>
  BY <1>0, <1>2 DEF QueriesEverywhere
<1>3. ASSUME NEW a \in Allocs, EnqueueAlloc(a)
      PROVE  QueriesEverywhere'
  <2>1. /\ payload' = [payload EXCEPT ![a] = Cardinality(Granted(KeyOf[a]))]
        /\ a \notin outstanding
        /\ UNCHANGED <<pending_pim_cmds, cmds>>
    BY <1>3 DEF EnqueueAlloc, Take, inside
  <2>2. \A q \in Queries \cap DOMAIN pending_pim_cmds : q # a
    BY <1>0, <2>1, QueryUnderWay
  <2>3. \A q \in Queries \cap DOMAIN pending_pim_cmds : payload'[q] = payload[q]
    BY <1>1, <2>1, <2>2
  <2>4. \A b \in Banks : engines[b] \in CgoModes => engines'[b] = engines[b]
    BY <1>3, TogetherAlloc DEF CgoModes
  <2> QED
    BY <1>0, <2>1, <2>3, <2>4 DEF QueriesEverywhere
<1>4. CASE Tick
  <2>1. PICK completed \in SUBSET mono, mem \in MemCompleted, now \in CmdsCompleted,
             after \in CpuTicks : TickBy(completed, mem, now, after)
    BY <1>4, TickChoices
  <2>2. DOMAIN pending_pim_cmds' = DOMAIN pending_pim_cmds \ Drained(now)
    BY <2>1 DEF TickBy, CollectCmds
  <2> QED
    BY <2>2, QueriesDrained DEF QueriesEverywhere
<1>5. ASSUME NEW r \in All, GetComplete(r)
      PROVE  QueriesEverywhere'
  <2>1. /\ payload' = [q \in Queries \cup Allocs |-> IF q = r THEN 0 ELSE payload[q]]
        /\ UNCHANGED <<engines, pending_pim_cmds, cmds>>
    BY <1>1, <1>5 DEF GetComplete, alloc, inside
  <2>2. \/ r \in immediate_complete_ready \/ r \in dsim3_comp_queue
        \/ r \in engine_comp_queue
    BY <1>5 DEF GetComplete
  <2>3. \A q \in Queries \cap DOMAIN pending_pim_cmds : payload'[q] = payload[q]
    BY <1>0, <2>1, <2>2, QueryUnderWay
  <2> QED
    BY <1>0, <2>1, <2>3 DEF QueriesEverywhere
<1>6. CASE ~(\/ \E a \in Allocs : EnqueueAlloc(a)
             \/ \E c \in Cmds : EnqueueCmd(c)
             \/ Tick
             \/ \E r \in All : GetComplete(r))
  <2>1. UNCHANGED <<payload, engines, pending_pim_cmds, cmds>>
    BY <1>6 DEF Next, vars, alloc, inside, SetCgoAllocMode, EnqueueInvalid, EnqueueMem
  <2> QED
    BY <1>2, <2>1
<1> QED
  BY <1>3, <1>4, <1>5, <1>6, QueriesCmd

THEOREM QueryInvariant == Spec => []QueryInv
<1>1. Init => QueryInv
  BY SimInit DEF Init, QueryInv, AllocatedTogether, QueriesEverywhere
<1>2. QueryInv /\ [Next]_vars => QueryInv'
  BY TypeStep, WinnerStep, HomeStep, FanStep, PlaceStep, TogetherStep, QueriesStep
     DEF QueryInv, SimInv
<1> QED
  BY <1>1, <1>2, PTL DEF Spec

\* The word of a query that a step brings out of the engines.
LEMMA QueryWord ==
  ASSUME QueryInv, [Next]_vars, NEW q \in Queries,
         q \in engine_comp_queue' \ engine_comp_queue
  PROVE  payload'[q] = 1 <=> \A b \in Banks : cpu'[b] = "finished"
<1>0. TypeOK
  BY DEF QueryInv, SimInv
<1>1. CASE Tick
  <2>1. PICK completed \in SUBSET mono, mem \in MemCompleted, now \in CmdsCompleted,
             after \in CpuTicks : TickBy(completed, mem, now, after)
    BY <1>1, TickChoices
  <2>2. q \in Drained(now)
    <3>1. \A b \in Banks : q \notin mem[b]
      BY <1>0, SimAssumption DEF MemCompleted, TypeOK, Cmds
    <3>2. q \notin UNION {mem[b] : b \in Banks}
      BY <3>1
    <3> QED
      BY <2>1, <3>2 DEF TickBy
  <2>3. q \in DOMAIN pending_pim_cmds
    BY <2>2 DEF Drained
  <2>4. /\ payload[q] = 1
        /\ \A b \in Banks : q \in now[b]
    BY <2>3, QueriesDrained DEF QueryInv, QueriesEverywhere
  <2>5. payload'[q] = Combined(q, now, after)
    BY <2>1, <2>3 DEF TickBy, CollectCmds
  <2>6. payload'[q] = 1 <=> \A b \in Banks : after[b] = "finished"
    BY <2>4, <2>5 DEF Combined
  <2>7. \A b \in Banks : cpu'[b] = "finished" <=> after[b] = "finished"
    BY <2>1 DEF TickBy, Started
  <2> QED
    BY <2>6, <2>7
<1>2. CASE ~Tick
  <2>1. engine_comp_queue' \subseteq engine_comp_queue
    BY <1>2 DEF Next, vars, done, SetCgoAllocMode, EnqueueInvalid, EnqueueMem,
                EnqueueAlloc, EnqueueCmd, GetComplete
  <2> QED
    BY <2>1
<1> QED
  BY <1>1, <1>2

\* A query that comes back from the engines says 1 if and only if every
\* processor had finished by then.
THEOREM QueriesSpeakForAll == Spec => QueryAnswersForAll
<1>1. QueryInv /\ [Next]_vars =>
        [\A q \in Queries : q \in engine_comp_queue' \ engine_comp_queue =>
           (payload'[q] = 1 <=> \A b \in Banks : cpu'[b] = "finished")]_vars
  BY QueryWord
<1> QED
  BY <1>1, QueryInvariant, PTL DEF Spec, QueryAnswersForAll

=============================================================================
