# ChampSim with TAGE and L-TAGE: a TLA+ verification project

The repository holds ChampSim, a cycle-level simulator of an out-of-order core and its
memory hierarchy (C++, `src/ChampSim`), and two branch predictors written for it: TAGE
(`branch/Tage`) and L-TAGE (`branch/LTage`), whose claims are in `src/README.md`. Paths below
are relative to `src/ChampSim/`.

The modules here model the parts of that program that decide something: the predictors, the core
from the trace to retirement, its queues, the channels, the caches with their policies and
prefetchers, address translation, DRAM, and the loop that drives them. A
simulator carries no data, so the bugs that matter are of another kind: an instruction, a
request, a register or a block that is lost, duplicated, taken out of order or waited for in
vain. Such a bug does not crash; it changes the reported numbers.

## 1. Inventory

### How the parts interact

`main.cc` builds an environment of *operables* (cores, caches, page table walkers, DRAM), each
with a clock period; `champsim.cc` calls `operate()` on whichever is due. There are no threads:
concurrency is between the queues of the operables, each of which works through its own a few
entries per cycle, and between the instructions of the core's window.

```
 trace -> front end -> ROB/rename/execute -> retire
             |  ^            |
   predictors, BTB       LQ / SQ
             |               |
            L1I             L1D        ITLB  DTLB
               \           /  \          |    |
                (channels)     \       STLB (channels)
                    L2 ----------\-------|---- PTW -- virtual memory
                    LLC ---- DRAM channels
```

Two levels meet in a `channel`: three queues downwards (reads, writes, prefetches) and one of
responses upwards. The core calls the predictors, the BTB and its register allocator directly;
a cache calls its prefetcher and replacement policy.

### Components

| Component | State | Operations | Hard behaviours | What makes it correct |
|---|---|---|---|---|
| **TAGE** `branch/Tage` | base counters, tagged tables, histories, use-alt counter, ageing phase | predict, update, allocate, age | the update uses what the last prediction left in members; allocation is random; useful entries must survive | only entries that matched are trained; useful entries are not evicted; settled branches are learnt |
| **Loop predictor** `branch/LTage/loop_predictor.h` | sets of ways with tag, trip count, iteration count, confidence, age | predict, update | no valid bit; aliases, evictions and partial executions between two outcomes of a loop | one entry per tag; a confident entry is in step with its loop, which has earned the confidence |
| **L-TAGE** `branch/LTage` | both of the above | predict, update | one prediction overrides the other, both must be trained | a regular loop is predicted, exits included |
| **Saturating counters** `inc/msl/fwcounter.h` | a value and its bounds | `=`, `+=`, `-=` | the limits | stays in range |
| **Register allocator** `src/register_allocator.cc` | two alias tables, free queue, register file | rename source and destination, complete, retire | registers return only at retirement; sources nobody wrote take a register too | no register lost or owned twice |
| **Core back end** `src/ooo_cpu.cc` | the ROB | dispatch, schedule, execute, complete, retire | out of order between two in-order ends; the scheduler stops on a shortage of registers | execution respects the dataflow; everything retires |
| **Load and store queues** `src/ooo_cpu.cc` | LQ (slots), SQ (queue), references between them | allocate, forward, issue, commit, return | slots are reused; one answer serves many loads; stores commit after retirement | loads see the last older store; each operation finishes once |
| **Core front end** `src/ooo_cpu.cc` | fetch, DIB-hit, decode and dispatch buffers; DIB; the stall | read, check DIB, fetch, promote, decode | two paths of different latency are merged; a misprediction is resolved at decode or at execution | dispatch in order; the stall always ends |
| **Channel** `src/channel.cc` | RQ, WQ, PQ, returned | add, check collision | merging and forwarding of requests that some wait for | no waiting instruction is dropped |
| **Cache** `src/cache.cc` | blocks, MSHRs, tag checks, inflight writes, stash of untranslated | tag check, hit, miss, write, fill, prefetch, translate | answers in any order, misses merged in flight, retried fills | each read is answered once; written blocks are written back |
| **Replacement policies** `replacement/` | per-block counters, sampled sets, PSEL | find victim, update | saturating counters; sets that duel | a block that is in use is not the victim while another would do |
| **Prefetchers** `prefetcher/` | tables of strides, regions, signatures | operate, fill, cycle | lookups outlive what they saw | no prefetch twice; a stride continues what was demanded; the path tables keep their sums |
| **Page table walker** `src/ptw.cc` | MSHR, finished, completed, page structure caches | start, step and finish a walk | walks merge and overtake one another | every walk that waits has a read under way, and ends |
| **Virtual memory** `src/vmem.cc` | page maps, free pages, next PTE page | translate, allocate | the free list empties | pages are not shared |
| **DRAM** `src/dram_controller.cc` | per channel: queues, bank requests, write mode, refresh | schedule, service, swap mode, refresh | writes drain at watermarks; refresh competes with rows | each request is served once; a refresh is not forgotten; no starvation |
| **Simulation loop** `src/champsim.cc` | clock, phases, stall counter | run a phase, end of trace | operables with different periods; the end of one trace ends the phase for all | no operable runs ahead; each core's phase ends once; the run ends, done or aborted |
| **BTB** `btb/basic_btb` | direct and indirect tables, return stack, call sizes | predict, update | stack of bounded depth; call sizes are learnt | matched calls and returns are predicted |
| **Other predictors** `branch/` | counter tables, weights, packed histories | predict, update | instructions that are no branches are predicted too | a branch that settles is predicted; a packed history is that of the outcomes |
| **LRU table** `inc/msl/lru_table.h` | sets of timestamped ways | fill, hit, invalidate | the victim among invalid and old | most recent kept |
| **Trace reader** `src/tracereader.cc`, `inc/repeatable.h` | a buffer of instructions | read, refill | branch targets come from the next instruction, across refills | no instruction skipped or repeated |
| **Addresses, utilities, module interface, builders, configuration, statistics, tracers** | - | - | arithmetic, templates, generated code, I/O | listed in `PROJECT.json` with the reason they are left out |

`PROJECT.json` lists every hazard at its line, with the properties that are about it.

## 2. Plan

The order in which the modules were written; all are there.

1. **Predictors**: `FwCounter`, `Tage`, `LoopPredictor`, then `LTage`, which composes the
   two. They are the repository's own work.
2. **Core and memory**: `RegisterAllocator` and `ReorderBuffer` (which implements the abstract
   `Dataflow`), `FrontEnd`, `LoadStoreQueue`, then `Channel` and `Cache`.
3. **Rest of the memory hierarchy**: `VirtualMemory`, `PageTableWalker` and, composing both with
   the stash of a cache, `Translation`; `DramMapping` and `DramChannel`; `Replacement`.
4. **Simulation loop**: `Simulation`.
5. **Tables**: `LruTable`, which implements `RecencyTable`; `BasicBtb`, `Predictors`,
   `Prefetchers` and `SignaturePath`; `TraceReader`.
6. **Theorems** for every value of the constants: those of section 5, which cover every property of
   the runs but liveness, `NeverStuck` and `PredictorsSettle`. Section 5 says why these are left to TLC.

No module uses RECURSIVE: loops of the code that carry a value are folds, or recursive functions where
something is proved of them.

## 3. Modules

The comments of each module say which function each action is; `map` in `PROJECT.json` gives
the lines.

### Predictors and core

**FwCounter** is the assignment of `msl::fwcounter` (clamp into range), and with it `+=` and `-=`.

**Tage** keeps the tables as functions, an entry as a record, histories as sets of positions
that are one, and an address as a set of bits. `PredictBranch` is `predict_branch` of the
module interface and leaves `branch_info` (the members that `predict` sets); `Resolve` is
`last_branch_result`: training, allocation, ageing, histories, in the source's order.
`PredictOther` is the call made for an instruction that is no branch, which the core predicts
as well. `rand()` is the parameter `skip` of `Resolve`, any value it can have. Folding, tags
and indices are computed as the source does, with widths as constants.

**LoopPredictor** is the class, over a constant geometry; `tag` and `index` are those of the
source with TAG_VALUES and NUM_SETS in place of 2^14 and 16. **LoopHistory** keeps beside it what
each loop really did, its iterations since the last exit and its last trip counts, to compare with.
**LTage** extends `LoopPredictor`
by an instance of `Tage`, the member `tage_predictor`; what it adds to both is named after `ltage`.

**Predictors** are bimodal, gshare, perceptron and hashed_perceptron, as `do_predict_branch` calls
them: each of the instructions between two branches is predicted (`Other`), and a branch is
predicted and then resolved (`Branch`). The code between two branches is a fixed body of up to two
instructions. The packed history of hashed_perceptron is modelled word by word, because its
folding is what `HistoryFolded` is about; FoldedValue is then compared with the outcomes themselves.

**BasicBtb** runs a program of calls, returns, jumps and conditional branches through the table of
targets, the indirect table and the return stack. `calls` is the program's own stack, and `last` what the
last branch with each tag was: branches in the same four bytes share an entry of the table.

**RegisterAllocator** has one operator per method. **ReorderBuffer** is one cycle of
`O3_CPU::operate` from retirement to dispatch: `stage` says which stage runs, `bandwidth` what
is left of its width, `delay` counts down a `ready_time`. The scheduler's pass takes one step per
instruction and one per register it renames, because each looks at what the previous one left.
**Dataflow** is what a core promises of values: nothing starts before the last older writer of
its sources is done. The instance `dataflow` maps `executed` to `started` and `completed` to `done`.

**FrontEnd** has one action per stage, a trace position for an instruction and any answer of
the DIB. `stalled` is `fetch_resume_time == max()`; what a stage takes is one instruction at a
time in any interleaving, which includes every width and latency. Two such abstractions are
repeated in the next modules: a *step serves one entry*, and a *latency is any time*. They
have more behaviours than the code, so an invariant carries over to it.

**LoadStoreQueue** gives values to locations, which ChampSim does not: the instruction that
wrote last. `loaded` records what each load saw, at the point where the code finishes it.

### Memory

**Channel** is pure: `check_collision` and its merging and forwarding as operators on a record of
four queues, one request at a time; what is checked before and after another step makes no
difference to the code, and is more behaviour here. **Selection** is what `std::partition` and `erase` leave of
a queue: `Selected` in the order of the queue, `Arrangements` in any order, where the library promises none. **Cache** applies them on both of its sides: the channel above, filled by any
requests, and the one below, emptied by any level that answers what wants an answer. The tag check
is one set; what happens to a victim, and whether a prefetcher asks for something, is free.
`match_offset_bits` and `prefetch_as_load` are the flags of the class and distinguish an L1D from a
cache that receives writebacks; the first is chosen in the initial state, so one run covers both.
`unsaved` is history: blocks written and not yet written back.

**VirtualMemory** is pure: `MapPage` and `MapTable` are what `va_to_pa` and `get_pte_pa` change, a
page is a number, and an address of a table entry is `<<block, word>>`. A page may hold SLOTS
tables; `refilled` remembers that the list of free pages ran empty.
**PageTableWalker** has one action per part of `operate`: `HandleRead`, `HandleFill`, `FinishPacket`,
`Complete`. The walks that one answer finishes are arranged in any order; `AllMapped` is the loop over them.
Its channel to the cache is a `Channel`. A read or a fill that finds no room below
stays, after it has touched or filled the page structure caches, as in the code.
**Translation** is the cache's half: `finish_translation`, `issue_translation`, the move of
untranslated entries to the stash, and the order in which `operate` takes tag checks from the stash
and from its upper levels, of which the walker is one. So the walks go through the cache that waits for them.

**DramMapping** computes channel, bank group, bank, row and column of an address, with the hashing of
row bits; that no two addresses share a place is an assumption of `MCTables`, which TLC evaluates for all 256
addresses of an instance whose last segment of the row is cut short. **DramChannel** is one cycle of `DRAM_CHANNEL::operate` in its order, an action per call, `stage`
being the next one; slots, banks and the bus refer to one another as the pointers of the code do. Times are
kept as what remains of them. Where the code takes the entry that has been ready longest, any may be taken.

**Replacement** holds the five policies, a record with the state of all of them, and the glue of
`inc/cache.h`. `caller` distinguishes the cache, which goes through the glue, from the repository's
tests, which call the policies themselves. `FailedFill` is a fill for which a victim was found, but no
room below. History are `use`, the last use of a way since its set was last raised, and `since`, for LRU the
ways used since a way was. DRRIP's leading sets after the first two (SDM_SIZE is 32) move no counter on a miss,
whichever half of them they belong to: a block filled there has the standing of the one before it.

**Prefetchers** are next_line, ip_stride and va_ampm_lite; **SignaturePath** is spp_dev: signature
table, pattern table, filter, global history, and the lookahead, whose rounds are actions of their own
because each reads the table that the last one left. Any prefetch may be refused.

**LruTable** is `msl::lru_table` with its counts, **RecencyTable** the same operations on sequences in
the order of use, which are the operators of **Recency**. The first implements the second
(`ImplementsRecency`): a set of ways stands for its valid elements in the one order that agrees with their
counts (`RecentOf`); the walker, the BTB and the prefetchers are modelled with the second.

### Driver

**Simulation** is `do_phase`: begin, tick, operate in the order of times, read traces, detect, check.
An operable's cycle makes progress or not, and a core retires any part of what it has, so the module
covers a machine that works and one that hangs.
**TraceReader** numbers the instructions of a file; `Refresh` reads a block and sets the targets
of the whole buffer, `Read` is the call, with `repeatable` around it.

**MC** modules give values to constants, and add histories to compare with. **MCTables** puts
components that do not interact side by side: `component` chooses one in the initial state, and the others
stay as they were at first. It is one run for what would be nine small ones. It extends the modules, so that
a property is the same definition in the run and in its theorem; that is why the modules that meet there
have an `Init`, a `Next` and a `Spec` named after the component (`LruInit`, `PolicyNext`, `BtbSpec`).

## 4. Runs

| Run | Instance | What it shows |
|---|---|---|
| `tage` | two tagged components with one-bit indices, one address, endless traces, fairness | training reaches only matching entries, allocation follows its rules and spares useful entries; from any past, a constant branch is learnt, and an alternating one too |
| `loop` | one set of two ways, three loops, one of which is watched | no tag twice; a confident entry is in step, and its trip count that of two executions in a row |
| `loop_learn` | one loop, one way, fairness | *violation*, see below |
| `ltage` | one tagged component and the loop table, one loop, fairness | a loop regular from its start is learnt, exits included |
| `rob` | 4 registers, window of 3, every program of 4 instructions of five shapes, warmup or not, fairness | renaming loses and shares no register and is in order; sources are last writers; `Dataflow` is implemented; shortage of registers never stops the core for good |
| `front_end` | 4 instructions over two blocks, buffers of 3, 2, 2 and 2, fairness | dispatch is in order, the stall is that of the youngest branch, the trace is dispatched to its end |
| `lsq` | every program of 4 instructions of seven shapes over three addresses in two blocks; queues of 3 and 2, fairness | loads see program order; each operation finishes once; the two queues refer to each other rightly and stores are in order; everything retires and every store is written |
| `cache` | L1D or a cache below it; three blocks, of two words in L1D, two ways, 2 MSHRs, 4 requests of which one may be a prefetch | each read is answered once, MSHRs are ordered and each gets one answer, one way per block in L1D, what is written back to the cache is dirty until written back again, nothing is left waiting |
| `cache_claim` | two blocks, one way, two requests, L1D | *violation*, see below |
| `dram` | two bank groups of one bank, two rows; queues of 2; 2 reads and 3 writes of three addresses; a refresh every 5 cycles; warmup or not, fairness | a read stays in one slot until it is answered; banks, bus and slots agree; a refresh that is due takes place; both modes are served |
| `translation_and_tables` | below | below |
| `replacement_claim` | two sets of two ways under each policy | *violation*, see below |

`translation_and_tables` by component:

| Component | Instance | Properties |
|---|---|---|
| translation | three pages of three binary digits, two of which differ in the last only; 7 physical pages, two tables to a page, walks of three levels, page structure caches of one way; queues of 1 and 2, one MSHR, one tag check per cycle; 3 requests; fairness | `TranslatedToOwnPage`: each request goes on with its own page, and the stash keeps the translated in front. `PagesDistinct`: no page is given twice while any is free. `EveryWalkIsServed`. `AllTranslated`: cache and walker never wait for each other for good |
| lru_table | two sets of two ways, three elements, 4 accesses | `ImplementsRecency` |
| replacement | as `replacement_claim` | `UsedBlocksStay`; `RetriesFindTheSameVictim`: a fill that was refused finds the victim it found before |
| btb | five branches, two calls of different sizes; stack of 2 under up to 3 calls | `PredictsWhatItSaw` |
| trace | files of 1 to 9 instructions, blocks of 3, repeated or not | `TraceInOrder` |
| simulation | two cores and a memory with periods 2, 3 and 5, two phases, endless traces and ones of 2 and 5; fairness | `ClocksAndPhases`, `SimulationEnds` |
| spp | pages of four blocks, two pages of signatures, counters of two bits, 6 demands | `PathTablesConsistent` |
| prefetchers | two instructions on one tracker, two regions of three, 5 demands | `PrefetchesAreNew` |
| predictors | a branch behind bodies of up to two instructions, histories folded to two bits, 7 free outcomes, then up to 8 that are equal | `PredictorsSettle` |

**Why the bounds are enough.** Each is the smallest at which the interesting case happens, plus
room for a bystander. TAGE: the trace has no end, so both components fill, entries become useful,
allocations fail and ageing passes in both its phases; with two-entry tables, the histories of the one
address alias as several addresses would. The loop table: three loops in two ways evict one another, and
trip counts of up to 2 are told apart from longer ones by a history of 3. The loop that is watched has tag 0, which
the ways that were never taken hold too: once its ways were taken, all that happens to the other two happens to it. The ROB: three in the window
exceed the scheduler of 2 and the execution width of 1; the registers are one for each of the two
architectural registers and two for the widest instruction, the fewest with which a core can work, so
that the shortage happens all the time. Front end: the middle buffers hold two instructions each, so that both
are occupied at once and also full; two instructions of one block share a fetch. Queues: three loads and two
stores at once, with two stores to one address before a load, and two words in a block, so that one answer
serves loads it was not for. Cache: three blocks in two ways, so that there are evictions; four
requests meet in the queues, at the tags and in an MSHR, in any mix of reads and writes. DRAM: two
of the three addresses share a bank but not a row; the queue of two has watermarks of one, so that both
modes are entered full and empty; refreshes come due in every stage of a request. Translation: three requests
exceed the stash of one, two pages share all tables but the last, and seven physical pages are enough for
some orders of the walks and not for others, so that the list runs empty as well. Simulation: the periods
are coprime, the traces end before, in and after a phase; the thresholds of the detectors are 2 and 3
cycles where the code has 500 and ten million, which shortens the wait and not its conditions. Counters
of two bits are halved and saturate within the demands allowed. The bounds are on the
number of requests, not on their order. `CHECK_DEADLOCK FALSE` stands where a bounded trace ends;
elsewhere a state without a step is an error.

**Symmetry** is used in `cache` only, which has no temporal property, over blocks, which are only compared.

**Fairness.** `operate()` gives every stage its turn in every cycle, and a stage that can serve an
entry does. In `lsq` and `rob` weak fairness of the whole next-state relation is enough: whatever goes on,
nothing can go on for ever without finishing. `rob` adds strong fairness of the return of the one load
that retirement waits for, because the memory stage has one turn in each cycle and is not enabled
continuously. In `front_end` each stage is weakly fair. In `dram` the cycle is (`WF_vars(Operate)`), and
nothing makes the warmup end or requests arrive. In `translation` it is what the cache does and what the walker
does with room below (`Progress`): a read that is refused is tried again and changes nothing that
counts. In `simulation` it is the loop. Of the environment: L1I, L1D and the level below a
cache answer what they accept, and the trace goes on. `tage` assumes of `rand()` only that among
infinitely many draws one that skips nothing recurs (`FairRand`), and only for the alternating branch.
The cache needs none: every step of a cache whose requests are bounded brings it nearer to
the end, so `NeverStuck` is an invariant, that some step is possible until all is served.

**Each property is broken by a mutant** in `PROJECT.json`: an operator `X_Name` that stands before
`X` and differs from it as a plausible bug would.

### Where the code and its documents part

* `loop_learn`: `src/README.md:5` says the loop predictor "identif[ies] regular loops". A loop met in
  the middle of an execution leaves a partial trip count; in the next execution the entry is reset in the
  middle (`loop_predictor.h:180`) and counts a partial one again, for ever. A loop met at its start is
  learnt (`ltage`).
* `cache_claim`: `test/cpp/src/407-writeback-dirty.cc:7` says "Blocks that have been written are
  marked dirty". In L1D a load that joins the MSHR of a store replaces its type
  (`src/cache.cc:117`), so the block is installed clean and the store is never written back.
* `replacement_claim`: `docs/src/Modules.rst:287` says of `update_replacement_state` that without a
  `replacement_cache_fill` "this function is called on hits and when a miss is filled". The glue
  (`inc/cache.h:475`) passes a miss on only to policies that have one, so SRRIP, DRRIP and SHiP, which have
  none, are never told of a fill: blocks inherit the counter of the block before them.

### Observations

Behaviour met while modelling. No run is about these, and mostly no document denies them.

* Loop predictor: `src/README.md:5` has predictions "only when the loop has been executed 3 times
  successfully"; `loop_predictor.h:189` raises the confidence also while no trip count is known, so that after two
  executions without an iteration a single one fixes the trip count and is believed. This is the exception in
  `ConfidentIsRegular`; without it TLC finds the property violated.
* Core: the test for free registers (`ooo_cpu.cc:434`) is applied to instructions that are renamed already,
  whose physical names it looks up in the table of architectural ones. It delays; it does not deadlock (`AllRetire`).
* Cache: where writebacks come in, two of one block that miss together are both filled
  (`cache.cc:335`), in two ways. That a block has one way is checked for the L1D only.
* Virtual memory: `get_pte_pa` takes a page whenever the next slot is the first, also for a table that exists
  already; with one table to a page, the default, that is every call. The map of tables is keyed by all
  digits down to the level, so that every entry has a table of its own, where one for each node would do, and a
  hit in a page structure cache may read through another's.
* DRAM: on a change of the mode, rows that are open are closed, which the comment (`dram_controller.cc:222`)
  calls leaving them charged. A write queue of one entry has an upper watermark of zero.
* Replacement: `find_victim` of random takes integer addresses and the type as an enumeration, which is none of the
  overloads the glue tries (`inc/cache.h:447`); in a cache its victim is always way 0. The raw random numbers that choose DRRIP's leading sets are not reduced to the number of sets;
  only the first leads for BIP and the second for SRRIP; its counter starts uninitialised. SHiP's samplers
  of neighbouring sets overlap.
* SPP: the head of the queue of candidates lags behind its tail, and candidate 0 starts with full
  confidence and delta 0. `DeltasBelowSignature` needs an odd C_SIG_MAX, as 15 is.
* Trace reader: at the end of a file that is not a multiple of the block the last instruction is dropped;
  otherwise it is handed out without a target.
* Perceptron: predictions for instructions that are no branches enter its speculative history. If what
  lies between two branches varies, a branch that never changes may be mispredicted any number of times;
  `PredictorsSettle` has a fixed body.
* va_ampm_lite: the first access to a region allocates it without marking the block. next_line ignores page ends.

## 5. Proofs

The theorems stand in modules of their own, `XProofs`, which extend a component `X` and what works beside it:
`PredictorProofs` holds those of the loop predictor and the BTB; `SimulatorProofs` those of the front end,
the main loop, the trace reader and TAGE; `CacheProofs` also those of the replacement policies and the prefetchers; `TranslationProofs` also that of the LRU table. They hold
for every value of the constants that satisfies the named assumption of the module (`LoopAssumption`, `HistoryAssumption`,
`TageAssumption`, `RegisterAssumption`, `CoreAssumption`, `FrontEndAssumption`, `QueueAssumption`,
`CacheAssumption`, `DramAssumption`, `VirtualMemoryAssumption`, `WalkerAssumption`, `TranslationAssumption`,
`SimulationAssumption`, `ReaderAssumption`, `ReplacementAssumption`, `BtbAssumption`, `LruAssumption`, `SppAssumption`,
`PrefetchersAssumption`), each an ASSUME that TLC evaluates in the runs: sizes are
positive, latencies and bounds are naturals, sets that are counted are finite. Those that say more:

* NUM_REGISTERS is at most RAT_SIZE (see the hazard at `register_allocator.cc:74`).
* `DramAssumption`: the address mapping, whose arithmetic is left to TLC, gives bank indices in range.
* `HistoryAssumption`: a loop that is watched shares its set and tag with no other, since the table
  cannot tell two such loops apart; the history counts further than the table, and keeps two trips at least.
* `ReaderAssumption`: the reader refills when one instruction is left, as `refresh_thresh` says, and
  a block is more than two.
* `ReplacementAssumption`: maxRRPV is more than one, so that an insertion can be told from a use.
* `SppAssumption`: C_SIG_MAX is odd, as 15 is; with an even one halving can leave the deltas at the
  count of the signature.

The theorems are unconditional otherwise.

| Module | Theorems | Property |
|---|---|---|
| `PredictorProofs` | `LoopInvariants`, `ConfidentEntriesInStep`, `ConfidentLoopsAreRegular` | of the loop predictor: `TypeOK`, `TagsUnique`, `NeverPastTheTripCount`; `ConfidentInStep`; `ConfidentIsRegular` |
| | `ReturnsAndTargetsRemembered` | `PredictsWhatItSaw` of the BTB |
| `ReorderBufferProofs` | `RegistersStayPartitioned`, `ReadersNameLastWriters`, `RegistersSuffice`, `BackEndImplementsDataflow` | `RegistersPartitioned`, `SourceIsLastWriter`, `NeverOutOfRegisters`, and `DataflowOrder`, the refinement of `Dataflow` |
| `SimulatorProofs` | `DispatchIsInOrder`, `NoLostWakeUp` | `DispatchInOrder`, `StalledByTheYoungest` |
| | `ClocksAndPhasesKept`, `TraceHandedOutInOrder` | `ClocksAndPhases` of the main loop, `TraceInOrder` |
| | `TageTyped`, `TrainsWhatPredicted`, `AllocatesWithDiscipline` | of TAGE: `TageTypeOK`, and the action properties `OnlyMatchingEntriesTrained`, `AllocationDiscipline` |
| `LoadStoreQueueProofs` | `LoadsSeeTheProgram`, `OperationsFinishOnce`, `QueuesStayConsistent` | `LoadsSeeProgramOrder`, `EveryOperationFinishesOnce`, `QueuesConsistent` |
| `CacheProofs` | `EveryMissIsAnsweredOnce`, `ReadsAreAnsweredOnce`, `WritesAreNotLost` | `OneAnswerPerMSHR`, `EveryReadAnsweredOnce`, `WrittenBlocksAreDirty` |
| | `VictimsAreUnused`, `RetriesAgree` | `UsedBlocksStay` of the five policies, and the action property `RetriesFindTheSameVictim` |
| | `PathTablesStayConsistent`, `SmallPrefetchersKeepTheirWord` | `PathTablesConsistent`, `PrefetchesAreNew` |
| `DramProofs` | `RequestsAreKept`, `RefreshesTakePlace` | `RequestsKept`, and the action property `RefreshNotForgotten` |
| `TranslationProofs` | `RequestsGoOnWithOwnPage`, `PagesStayDistinct`, `WalksAreServed` | `TranslatedToOwnPage`, `PagesDistinct`, `EveryWalkIsServed` |
| | `OrderOfUseKept` | `ImplementsRecency`: `LruTable` implements `RecencyTable` |

Each component has one inductive invariant: `Init` implies it, one lemma for each action keeps it. It is
`IInv` in the component a module is named for, with `Spec => []IInv` the theorem `Invariance`, and `LoopInv`, `HistoryInv`, `TageInv`,
`BtbInv`, `SimInv`, `ReaderInv`, `PolicyInv`, `PathInv`, `SmallInv`, `LruInv` in the others. It is the safety
properties and what they need to be inductive:

* **Loop predictor.** `TagsUnique` is kept by an allocation only if the branch that is being resolved is still
  absent from its set, which is what the prediction recorded: `PredictionCurrent`. That needs the types,
  to know that the recorded way exists, and `NeverPastTheTripCount` their limits.
* **History of the loops.** An entry with any confidence, not only a confident one, is compared with its loop
  (`InStep`): from one exit on it has counted the iterations, from two on its trip count is the last,
  and from three on that of the last but one too, unless that had no iteration. A count
  that saturates is told from one that did not, since an entry that is compared is reset before its counter
  runs out. Of the ways with one tag, which only the initial table has, the first alone learns (`OnlyFirstLearns`).
* **TAGE.** The prediction that waits for its outcome is what a lookup would still find (`TageInv`), so that the
  places kept in members are those of the branch that is resolved. Of an update, entry by entry: each is `Learnt`, and
  moves only if it is the provider or the alternative, or it is the one that was `Replaced`. Ageing comes after
  allocation and touches `u` only.
* **BTB.** The stack is the end of the program's own (`Innermost`), what is known of the size of a call is
  what stands under its tracker (`Measured`), and a set of the table holds for each tag the last branch taken (`Entries`).
* **Reorder buffer.** The frontend table names the register of the newest writer in the window, or what the
  committed table names (`FrontendIsNewest`), and each source that has a name, the one of its last older writer
  (`SourcesNamed`); names are given in order (`RenameInOrder`, `ReadyInOrder`, `NamesGiven`), over several cycles
  and in one stage of each (`StagesApart`). Partitioning needs these to know whose register a retirement frees. `FileAgrees`
  has valid bits only of what is completed, which `Dataflow` is about. `NeverOutOfRegisters` counts the free queue
  against the names still to be given.
* **Front end.** `Placed` says that the buffers together hold an interval of the trace, each its part of it:
  in the two middle ones, instructions of any order relative to each other. The stall needs that a branch found
  at decode is a mispredicted one.
* **Main loop.** An operable has caught up with the clock, having run once at most, or is still to run and
  one time quantum behind (`Clocks`); a core was ended once if it is complete and else not at all (`Ends`).
* **Trace reader.** The buffer holds the instructions up to the position in the file, each with its target but
  for the last (`Lined`), and is not empty before the end (`Whole`): the last instruction of a block waits for the next.
* **Load and store queues.** A load waits for one store or none (`WaitsForOne`), it is the last before the
  load (`LoadsBound`), and the last store to an address is the youngest in the queue or is in memory
  (`NewestStores`), which needs the queue in order (`StoresInOrder`).
* **Cache.** For every block, the answers that are due are as many as entries wait (`AnswersDue`); every
  read is in one place (`InOnePlace`). Both are sums of counts over queues, so the module starts
  with what appending, removing and replacing do to a count. Where writes are stores, two entries for one
  block are excluded (`OneWay`); where they are writebacks, an unsaved block is kept (`WritesKept`).
* **Replacement.** For the policies with a counter: a way last read is at zero and one not used since is above it
  (`Stands`). Raising lifts every way of the set and ends what is said of them; DRRIP's counters start at zero, as if read.
  Raising also leaves the order of the ways of its set, so that the next search ends at the same one. For LRU: the times of the ways in use are distinct and in the order of `since`.
* **Signature path.** The counts of the deltas are summed as the size of a set of pairs (`Uses`), which adding, replacing and
  halving change by subsets and injections: two disjoint copies of the halved uses fit into the uses. A signature never
  counted has no delta (`Below`), so that a delta found by value is in a set that was counted. The ages are injective, and by `Promoted` stay so.
* **Small prefetchers.** The tracker of an instruction holds its last two demands (`Trackers`); the lookahead
  stands behind what it has prefetched, and its degree makes up the rest (`LooksAhead`). Every block sent to a region that is
  tracked is marked in it (`AllMarked`), by each step of the search and so by all.
* **DRAM.** A read has one slot (`ReadsHeld`); a scheduled slot has a bank, a serving bank a scheduled slot of
  its row (`Matched`); what is scheduled has been checked for collisions (`CheckedQueue`), without which a merge
  would take a slot from under its bank. `RefreshesDue` and `WarmupIdle` say when the flags can be set.
* **Translation.** `Consistent`, of the memory: until the list is filled again, everything taken is below
  what is left, and the page with room for tables is no data page and filled in order. `OwnPages`: a
  translation on its way, or in an entry, is that of its page, and mapping never moves a page (`Extends`).
  `WalksServed`: a block that a walk waits for is asked for, at the tags, missed or answered. What the loop of `finish_packet`
  leaves is proved by the least counterexample, since its steps are known by number.
* **LRU table.** A set is well used when its times are distinct, positive and at most the count that all sets share
  (`LruInv`). Then exactly one order of its ways agrees with them, and each operation takes one element out of that
  order and puts one in front: what `RecencyTable` does.

`CommonFacts` holds what several modules use: a set of naturals has a least element; what `RemoveAt` and `Selected` leave;
what the operators of `Recency` keep.

**Induction.** The library's induction theorems take an operator as a parameter, which the installed provers
cannot instantiate. That a recursive function exists and what each of its values satisfies (`Selected`, the search of
va_ampm_lite, the loop of `finish_packet`) is proved with `LeastExists` instead: at the least number where it fails, it holds one before.

**A form that is avoided.** In `[s EXCEPT !.a = [@ EXCEPT !.b = @ + 1]]` tlapm 1.4.5 reads the last `@` as `s.a.b.b`, so
that the obligation is not what is written. No module under a theorem has the form: the inner update is an
operator of its own or names what it changes.

**Model-checked only**, and why:

* liveness: `LearnsSettled`, `LearnsRegularLoops`, `AllRetire`, `TraceDispatched`, `AllComplete`, `AllServed`, `AllTranslated`,
  `SimulationEnds`; and `NeverStuck`, which is ENABLED. Both are out of the prover's reach.
* `PredictorsSettle` is that trained weights converge, and that a packed history folds as the outcomes do. Its statement is about
  the eight outcomes after which the run asks; for every length it would be a bound on sums over the history, by induction over
  lists of weights, and the folding is the parity of bits.
* That no two addresses share a place in DRAM (`PlacesDiffer`) is about sums of powers of two over lists of fields: induction
  over data and arithmetic on bits.

## 6. Not modelled

* Widths and latencies outside `ReorderBuffer` and `DramChannel`: any interleaving stands for them. What
  depends on them, performance above all, is not stated.
* In `Cache`: several levels above, sets other than one (they share only
  queues and MSHRs), `invalidate_entry`, which has no caller. The TLBs are caches of this kind; in `Translation`
  the walker answers the cache without them.
* In `Cache` the victim and the prefetches are free, in `FrontEnd` the answers of the DIB and the BTB: the
  modules of those parts say what they do by themselves, not together.
* Several channels of DRAM (the controller only routes), several cores on a cache, multi-core sampling of
  DRRIP and SHiP.
* Once the list of physical pages was filled again, pages are shared, and nothing is said of them.
* Stack pointer folding in the front end.
* Address slices, utilities, module interface, builders, configuration scripts, statistics, printing and
  tracers: they keep no state, or decide nothing, or run before or apart from the simulator.
