# A verification project for the AEC compiler

The repository compiles a subset of PTX to binaries for the AEC device. These
TLA+ modules model the parts of the compiler (`src/src/aec_compiler`) that
decide something: which instruction may pass which, which values may share a
register, which fact about the program is still true, what may be removed,
replaced or moved. TLC checks them on small instances, and TLAPS proves the
results that matter most for every value of the constants.

The compiler is sequential. What makes it hard is not concurrency but order and
staleness: facts are computed from one version of a program and used on
another, tables are updated while they are read, every pass relies on what the
passes before it leave, and a wrong result is a binary that computes something
else on some inputs, which the unit tests (a handful of kernels each) hardly meet.
`PROJECT.json` lists these hazards at their lines with the properties that would catch
them; a hazard that every property excludes by a hypothesis has none, and its note says
which hypothesis it is (section 3).

Contents: 1 the system, 2 the modules, 3 the runs, 4 the proofs, 5 what the work
found, 6 abstractions and what is not modelled, 7 the plan.

## 1. The system

```
PTX text --ptx.py--> items --passes/*.py (PassManager, AnalysisManager)--> items
   --legacy_lowering.py--> AEC instructions --passes/scheduler.py--> AEC instructions
   --isa.py--> binary        (reports/compilation.py: report next to it)
```

`compiler.py` calls the stages in this order and turns an exception into exit
status 1. They communicate through one `Module` object: `function.program` (the
items), `function.blocks` (materialised CFG), and `metadata` (register mapping,
uniformity, loops). Analyses are fetched from a cache in `AnalysisManager` that
passes invalidate by name.

| component | state it keeps | operations | what makes it correct |
|---|---|---|---|
| list scheduler, `passes/scheduler.py` | tables of last definitions, pending reads, last store; dependence edges and counts; the heap | build the graph, pop the heap, cut at leaders, write back | every instruction reads what it read before; no instruction is lost; branch targets still point at the same control instructions |
| linear scan, `passes/register_allocation.py` | free list, active list, mapping | expire, assign, pair search, pair fallback | values alive together do not share a register; no register is lost; nothing is left unmapped without need |
| liveness, `analysis/liveness.py` | a list of ranges | one textual sweep | a range covers every point where a path still reads the value |
| CFG analyses, `analysis/cfg.py` | visited set, postorder, dominator table, loop bodies | depth-first search, fixpoint, flooding | dominators exact, loops natural and complete |
| pipelines and cache, `passes/manager.py`, `passes/pipelines.py`, `analysis/manager.py`, `compiler.py` | program version, cached facts, outputs, exit status | run a pass, invalidate, lower, schedule, write | no pass is handed facts of an older program; what is written together belongs together |
| Lowerer's allocator, `legacy_lowering.py` 98-149 | mapping, reserved set, next register, next temporary | first use, temporary, next item | a register handed out is shared with nothing |
| source passes, `passes/*.py` | one sweep's tables each | remove, replace, move | a lane stores the same words in the same order |
| uniformity, `analysis/uniformity.py` | table register -> uniform, varying, unknown | one sweep over the text | a branch called uniform never divides a warp |
| lowering and if-conversion, `legacy_lowering.py` 170-640 | control plan (guards, skipped and varying branches), code, labels, pending branches | plan branch by branch, lower item by item, patch, encode | every thread stores what it stores by itself; branches land on their labels |
| ISA codec, `isa.py` | - | encode, decode | the decoded binary is the code |
| loop unrolling, `passes/gemm.py` | - | copy a loop body | as the source passes |
| execution, `sim.py` | registers and predicates of the lanes, memory, program counter of the warp | one instruction of a warp | (the reference) |
| parser, IR, report, disassembler | - | text | - |

Interactions that carry risk: the linear scan uses `liveness` and `cfg` from the
cache; the Lowerer takes the mapping the scan left and must not hand its
registers out again; the scheduler moves instructions between branches that
address them by position; LICM, load hoisting and block simplification index a
program by blocks of a CFG they fetched before changing it; the lowering replaces
branches by guards on the word of the uniformity analysis, and what it emits runs in
lockstep, where a branch is taken by all lanes of a warp or by none.

Hard behaviours: the compiler has no threads, callbacks, messages or timeouts, and
nothing survives the process but the two output files. The code it emits has
threads: the lanes of a warp, which must each compute what they would alone although they
share a program counter. What occurs in the compiler is ordering
(table updates within an iteration, passes within a pipeline), stale state (the
cache, the mapping, constants and loads remembered past a write), limits
(registers, iterations, heap), and partial failure (an exception after the binary
was written).

## 2. The modules

Scheduling

* `AECInstr`: the fields of a machine instruction that scheduling reads, what it
  reads and writes (`sim.py`, `isa.py`), and `Conflict`.
* `BlockReorder`: the promise of the scheduler as an abstract specification: a
  block receives, in one step, an order that holds every instruction once and
  keeps conflicting instructions in place relative to each other.
* `ListScheduler`: `_schedule_block`. `AddToGraph` is one iteration of the graph
  loop, `Issue` one pop of the heap, `Finish` the return or the `ValueError`,
  `ReturnShort` the early return. It implements `BlockReorder` under a refinement
  mapping in which the order appears when the function returns.
* `ScheduleLowered` extends it to `schedule_lowered`: leaders, block by block,
  write back. The scheduler's variables are those of the current call.
* `SchedulerProofs`, `MCListScheduler`, `MCScheduleLowered`.

Register allocation

* `LinearScan`: the scan, one active entry of the expiry per step. `fellBack` is
  a history variable: the pair fallback has freed or taken a register it did not
  own.
* `RegisterAllocation` extends it and `PTXGraph` with liveness, merging and the
  extension over loops, so that the ranges come from a program; `NoClobber` asks
  whether the result is right for the paths of the program.
* `LowererRegisters`: what the lowering does with the mapping afterwards.
* `NaturalOrder` (least and greatest elements of sets of numbers, induction on a set
  of them, and what is defined from each number to the next), `LinearScanProofs`, `LowererRegistersProofs`, `MC...`.

Control flow and pipelines

* `PTXGraph`: the CFG that `ControlFlowGraph.build` makes of a list of items, and
  the reference definitions (reachability, domination by paths, natural loops).
* `CFGAnalysis`: the depth-first search, the dominator iteration and the loop
  flooding step by step; the order in which successors are visited is left open.
  `CFGAnalysisProofs`.
* `Compiler`: one compilation from parsing to exit. The program is its *version*;
  each transform that changes it makes the next one, and every fact and output is
  the version it was computed from. The pipelines are the three of
  `pipelines.py`, pass by pass. `CompilerProofs`.

Source passes

* `PTXSemantics`: items, what they read and write, arithmetic modulo
  `2^Width`, and the execution of a lane (`sim.py`). `IsProgram` is what a pass
  is given: items with the operands their base calls for, with a CFG.
* `PTXItems`: constructors of items and the filling of program shapes.
* `ScalarPasses`, `ControlPasses`, `LoopUnroll`: each pass as an operator from program
  to program. `GlobalCP`: the dataflow of global constant propagation as a state
  machine, block by block.
* `SourcePasses`: runs each pass on a program and compares what a lane stores.
  `SourcePassesProofs`.

From items to a running kernel

* `Uniformity`: the sweep and its table, uses and definitions, verdicts on
  branches.
* `ControlPlan`: what the lowering asks of a program before it replaces a branch by
  guards: the region a forward branch skips, the part of it that every lane has to
  execute because a loop turns on it (`UniformControl`), and whether the rest can
  take the guard.
* `Lowering`: the `Lowerer`. `Legalise` decides one branch of the control plan,
  the lowering step emits one item's instructions, then branches are patched
  and the code is encoded with `ISA`. `origin` is `source_line`: the item an instruction
  comes from.
* `ISA`: the four words of an instruction, and back, field by field.
* `Warp`: the loop of `sim.py`: warps one after the other, lanes under one program
  counter, guards, BR, BRX, and the errors the loop ends with. One action per kind
  of instruction.
* `KernelRun` composes the last three: a program is lowered, its binary decoded and
  launched, and what each thread has stored is compared with a lane that executes the
  *items* by itself. `LoweringProofs`, `MCKernelRun`.

## 3. The runs

TLC finishes all of them. A *violation* run shows a disagreement between the code
and what its documentation says (section 5). Each module has one type invariant where a
proof needs it; it is part of the inductive invariant and not checked again here.

| run | bounds | what it shows |
|---|---|---|
| `list_scheduler` | all blocks of up to 4 unguarded single-width instructions, 2 registers, 1 predicate | the order computes what the block computed; conflicts stay in order; a store or control instruction waits for everything in front of it though no edge says so; the heap never runs dry; `BlockReorder` is implemented |
| `schedule_lowered` | all programs of 5 instructions over loads, computations, stores, BR, BRX, HALT | control instructions stay where targets expect them; blocks keep their instructions; the blocks it cuts meet the hypothesis of the theorems; the call returns |
| `linear_scan` | all sorted lists of 4 ranges, single or pair, over 5 registers and 5 points | no sharing while `~fellBack`; registers are conserved; unmapped, or without a pair, only under pressure |
| `register_allocation` | 3 registers, 2 virtual registers; straight, diamond, do-while, while and nested loops, a loop over a register set twice in front of it, a block laid out in front of the one that enters it, every filling (20,661 states) | no instruction on a path overwrites the register of a value still to be read |
| `cfg_analysis` | all programs of 6 items with 2 labels, branches guarded or not, returns; all visiting orders | no dominator is lost on the way, dominators are exact at the end, loops are natural; the analysis returns |
| `compiler` | O0, O2, O3, every choice of what changes and what fails | `FreshReads`, `MappingIsCurrent` (O0 and O2), `OutputsAgree`, `FailureIsTheReport` |
| `lowerer_registers` | 4 virtual registers, 2 pairs, 7 registers, 3 temporaries, every pre-mapping | no sharing with a register the lowering allocates; temporaries stay apart |
| `source_passes` | about 52,000 programs (125,057 states) of 7 to 14 items, words of 2 bits, parameters 0 and 1, memories whose words all differ, lanes followed for 28 instructions | each pass, loop unrolling included, preserves what a lane stores; the constants of the dataflow only grow, and it settles |
| `kernel_run` | every filling of four slots with branches, labels, tests and guarded items, and of four loop shapes; three threads in warps of two; words of 2 bits; launches with n = 0, 1, 2; `MaxSteps` and `LaneSteps` 48; one block (302,827 states) | every thread stores what its lane stores by itself; a branch called uniform does not diverge; branches land on their labels; the decoded binary is the code; launches return |
| `list_scheduler_wide`, `linear_scan_fallback`, `source_passes_guarded` | small | section 5 |

Why the bounds are enough. A dependence is between two instructions, and the
mistakes a scheduler makes need a third (a definition in between) and sometimes a
fourth (the one that makes the heap prefer another order); two registers give
every alias pattern of them. The proofs lift this to every block. For the scan, four ranges over five registers
give two pairs and an odd register left over, which is where the pair search, the
expiry of halves and exhaustion meet; the proof lifts it to every input. Six items
are the least in which two labels, a guarded branch, an unreachable block and an
irreducible loop fit. The source passes decide by names, types, order, and
whether two operands are equal, not by magnitude; words of two bits let a counter run
to 3, which unrolling by two needs, and a memory whose words all differ
shows which one was read. 28 steps are enough for two turns of every loop shape; a lane that
is not through is compared as far as it got, so that loops which do not end
are not a loophole. Programs end in stores of the registers the pass decides about, so that a
difference is seen. For `kernel_run`, two warps of which one is not full are the
least in which lanes agree in one warp and differ in the other; the predicates divide
the lanes by thread (`p`) and by parameter (`q`); 48 steps see every loop of
the shapes to its end.

Deadlock checking is off in all runs that end: the compiler returns.

**Fairness.** A Python function that has not returned keeps running, so weak
fairness of the next step (`WF(Next)`) is what its execution gives. It is assumed only for the
termination properties `ProgramReturns`, `Returns`, `Settles`
(there of the propagation step alone) and `KernelsReturn` (of the simulator's
loop, `WF_vars(Run)`: whether a program is lowered and launched at all is left
open). Nothing else depends on it.

**What passes rely on.** Several passes are right only for programs of a shape
that the code never asks for. The hypothesis is then a named part of the property, stated next to
the pass, as weak as we found it:

* `CSEAssumes`: an instruction that reads the register it writes is not met again in its
  scope before that register is written anew, and a register that only its own scope reads is
  not carried to the next execution of the scope.
* `LoadReuseAssumes`: while a load is cached its destination is not written
  again and no other load, nor an fma, writes its address (loads and fma do not invalidate).
* `SimplificationAssumes`: the block called entry is the first of the text, where
  execution starts (`StartsAtEntry`); a return is not guarded, since the graph has no edge
  past it and what is behind would count as unreachable (`ReturnsAreFinal`); a block that
  is one jump is not fallen into (the jump is dropped with its block and the
  fall-through goes on in the text); and no branch that stays is *led*, by the jumps it is
  threaded through, to a removed unreachable block.
* `HoistingAssumes` (LICM and load hoisting), of the moves a pass makes: execution
  does not start inside the loop (`LoopsAreEntered`); no path reads, behind the place moved to,
  what was in the result's register before (`ResultsAreNotAwaited`); an operand the loop
  changes has one definition in it, and the last definition of the text is that one
  (`DefinitionsAreSeen`: LICM filters operands with two definitions only after its fixpoint counted
  them as invariant, and `def_map` keeps the last of the text); no `fma` of the loop, which is no
  definition for the passes, has to do with what is moved (`FmaStaysApart`); code that reads
  the result of other moved code comes behind it in the text (`MovedInOrder`); the preheader's last instruction, in front
  of which the code is put, has nothing to do with it (`PreheadersEndApart`), and neither has what is
  moved out of another loop to the same place, or into the loop (`MovesStayApart`); no return is guarded
  (`ReturnsAreFinal`).
* `CPAssumes` (global constant propagation): a register written under a guard, or
  by fma, which the dataflow does not notice, never holds a known constant; nothing
  leads back to the first block (its facts are those of its predecessors, not
  of the start); no return is guarded (the graph has no edge past it).
* `UnrollAssumes` and `TripsAreEven` (loop unrolling): the loop is a straight piece of
  text all of which is copied (`LoopIsStraight`); its counter starts at an even
  constant and nothing but the increment and the test reads it (`CounterCounts`);
  what a turn sets anew is not read by the next turn or behind the loop
  (`NothingLeavesATurn`); the trip count is even.
* `LoweringAssumes` (if-conversion): guards are not on returns or parameter loads,
  which lose them (`GuardsAreKept`); nothing in a region writes the region's guard or has one
  of its own (`GuardsStand`); a region is entered at its top and left at its bottom
  (`RegionsAreClosed`); what every lane executes in a region is not read behind it
  (`ControlStaysInside`).
* `DefinitionsAgree` (uniformity): all along what a predicate depends on, the
  definitions of a register agree with the one the sweep saw last, and none is guarded.
* `KernelsReturn` asks that lanes which skip a loop get out of it as well (`Entered`):
  they execute what controls it.
* For register allocation, every step up the text between reachable blocks is the back
  edge of a loop (`LaidOutInOrder`): ranges are textual, and a layout that jumps back without a
  loop has values alive outside their range. And a register that the loops read
  is read there by an instruction that its ranges count (`LoopReadsAreSeen`): a read at the
  third or a later definition is in no range's `use_indices` (`liveness.py` 107), which are all
  that the extension over loops looks at (`_has_use_in_range`).

Each of them was dropped in turn, and the property then failed: none is there for
comfort. What a hypothesis excludes no run and no theorem watches over: if the compiler
met such a program, or if that part of the code changed for the worse, the property would still
hold. Those cases are hazards of their own in `PROJECT.json`, without properties. Code in the style of PTX compilers, where every value has one definition, meets
most of these; nothing in the compiler checks them.

**Mutants.** Every property of a passing run is paired in `PROJECT.json` with a
variant of one definition (a dropped guard, a missing reset, a swapped order) that
makes it fail; the variants stand before the definition they vary.

## 4. The proofs

`tlapm` checks every leaf with Z3, Zenon and (temporal steps) LS4. Nothing is
taken on trust but the named assumptions on constants, which TLC evaluates in the runs:

* `NumRegsAssumption`, `MaxGprAssumption`, `LowererAssumption`, `WidthAssumption`: how many
  registers there are, and how wide a word is;
* `BlocksAssumption` (blocks are sequences of instructions) and `CutBlocksAssumption`
  (`_schedule_block` is given blocks cut from the programs);
* `InputsAssumption` (ranges are sorted by their first definition, and none ends
  before it begins), `PreMappingsAssumption` (a pre-mapping lies in R1-R239, pairs
  included), `LevelsAssumption` (the optimisation levels are 0, 2, 3);
* `VregsAssumption` (virtual registers are finitely many, numbered from 1);
* for programs, four that are called `ProgramsAssumption`, in `ScheduleLowered` (a lowered
  program holds neither CALL nor RET, which the lowering does not emit), `Lowering` and
  `RegisterAllocation` (a program is a sequence of items that has a CFG) and `SourcePasses`, with `SourcesAssumption`
  in `GlobalCP` (a program meets `IsProgram`: operands are registers that are declared, or
  numbers);
* `RegistersAssumption` (the empty name is no register), `StepsAssumption` (how far a lane is
  followed is a number);
* `WordAssumption`, `NumbersAssumption`, `LowerableAssumption` for the binary: word
  and register numbers fit their fields, and items are of the operations the lowering accepts;
* for the running kernel, in `KernelRun`: `OperandsAssumption` (the items are parsed ones, and a
  parameter is addressed by its offset), `DistinctNumbersAssumption` (different registers have different
  numbers, below the temporaries: what `LowererRegistersProofs` shows of the allocator. For predicates it
  means that a program does not use both `%p` and `%p0`, to which `_predicate_number` gives the same
  number) and `WarpsAssumption` (the threads of a warp see the same in a special register that the
  analysis calls uniform. That is so of `%ntid`, `%nctaid` and `%ctaid`, because a warp lies in one block; of
  `%warpid`, which `sim.py` computes from the x-coordinate alone, it is so where the x-size of a block is a multiple
  of the warp size or a block has one row).

**`SchedulerProofs`, one block**, for every number of registers and every set of blocks.
The hypothesis `ControlEndsBlocks` (a control instruction is the last of its
block) is what `schedule_lowered` guarantees: that is proved below.

* `Invariance`: `IInv` is inductive. It joins four parts: `TablesInv` (the tables
  are exactly the last definition, its readers since, and the last store, of what
  was read so far), `EdgesInv` (edges go forward along dependences, and are
  *complete*: the nearest writer, reader and store have one), `HeapInv` (a count
  is the number of open edges; the heap is what has none), `OrderInv` (what is
  issued has no repetition and follows every dependence). None is inductive
  alone: that the order is right needs the completeness of the edges, which needs
  the tables; and a store has no edge to the loads before it at all.
* `TypeCorrect`. `HeapNeverRunsDry`: the first unissued instruction is always on the
  heap, so the `ValueError` cannot be raised. `BarriersHold`: by priority alone, a
  store or control instruction waits for everything in front of it, because the
  first unissued instruction is ready and ranks before it.
* Under `PlainInstructions` in addition (no operand is 64 bits wide, and
  only control instructions are guarded): `ConflictsStayInOrder`;
  `Refinement`, that `ListScheduler` implements `BlockReorder`; and
  `TheOrderComputesTheSame`, what the order means: every instruction reads the
  values of the same writers, and the last writer of every register is the same. The
  last writer in front of an instruction is a greatest element of a set of positions, and
  an order that keeps conflicts keeps it. Without that hypothesis they are false (section 5).

**`SchedulerProofs`, whole programs**, for every set of lowered programs.

* `ControlEndsCutBlocks`: the blocks `schedule_lowered` cuts meet the hypothesis of
  the theorems above, because what follows a BR, BRX or HALT is a leader. From here
  on nothing is assumed of blocks.
* `OuterInvariance`: `OuterInv` is inductive. It carries the scheduler's `IInv` through
  every call and adds that nothing from `start` on is rewritten yet (`AheadInv`:
  a block is cut from the *rewritten* program, by leaders of the original one), that
  control instructions stand where they stood (`FixedInv`), and that each block
  keeps its instructions (`KeptInv`).
* `ControlInstructionsStay`: the order of a finished call is a permutation that
  follows every tracked dependence, and a control instruction depends on everything
  before it, so it comes last, where it was. `InstructionsAreKept` (the permutation is a
  bijection between the places of an instruction before and after),
  `CallsGetCutBlocks`.

**`LinearScanProofs`**, for every register file and list of ranges.

* `ScanInvariance`: `IInv` is inductive. While `~fellBack`: `Apart` (the
  free list, the entries kept and those not looked at hold pairwise different
  registers, none twice), `AliveIsHeld` (a range alive where the current one
  begins holds every register it was given), `NoZero`, and `NoSharing`.
  `NoSharing` by itself is not inductive: it speaks of the mapping, and what is
  assigned next comes from the free list.
* `OverlappingRangesDoNotShare` follows: until the pair fallback frees or takes
  a register it did not pop, overlapping ranges share nothing.

* `CountInvariance` (the lengths of the free list and the lists of entries add up, and
  together they hold R1 up to the last), from which `RegistersAreConserved`: with
  the pairwise difference of `IInv`, a count and a cover make an exact partition.
* `UnmappedMeansExhausted`: a single register stays unmapped only if all of them belong to
  ranges still alive. The cover says that with an empty free list every register is in an
  active entry; `OwnedInvariance`, that every entry belongs to an earlier range,
  with that range's end, and that the expiry has left only entries that have not ended.
* `NoPairMeansNoneFree`: if a pair finds no two registers, or the fallback steps down to
  one that was not free, then of every even register and the one behind it at least
  one belongs to a range still alive. What the search did not find is not on the free
  list (`NothingFound`), in whatever order the expiry put registers back, and by the cover
  what is not free is alive (`NotFreeIsAlive`).

And for every program in which no path reads a register before it is written
(`NothingUndefinedIsRead`, in `AllocInit`), under `LaidOutInOrder` and `LoopReadsAreSeen`:

* `NothingLiveIsOverwritten`. `AllocInvariance` carries `IInv` through the whole pass: the
  ranges made of a program are sorted, one for each register that is defined
  (`RanksAreTaken`: the registers have first definitions of their own, so the ranks are
  all taken). What is left is that the ranges of two registers meet if a path
  writes one (at `i`) while the other is still to be read (`RangesMeet`).
  A path goes down the text from item to item until it closes a loop (`RunsFollowTheText`),
  and a loop's span holds all that lies between the jump and its target
  (`LoopsCoverTheJump`; a block between them is either in the loop or laid out in the
  span of one). So if the read is below `i`, its own definition is above
  (`LiveIsWritten`) and the range goes on past `i`; if it is above, `i` is no further down than
  the end of the loops' span, the read is in it (`LiveIsRead`), and the range was extended to that end.
  The last step is where `LoopReadsAreSeen` is needed, the ones along the path rest on
  `LaidOutInOrder`.

**`CFGAnalysisProofs`**, for every program with a CFG and every order in which successors
and predecessors are visited: `CFGInvariants` joins the invariants of the three parts of the
analysis. The search leaves the blocks it reached, all of them and nothing
else; the iteration stays above the dominators defined by paths, because a path to a
block passes through one of its predecessors; a flood holds only blocks from which the
tail is reached without the header, and is closed when it ends. From these:
`NoTrueDominatorIsDropped`; `DominatorsAreThePathOnes` (an iteration that
changed nothing is a solution of the equations, and by induction along a path a block that
is not on it has been dropped); `LoopsEnterAtTheHeader`.

**`CompilerProofs`**, for every run of every pipeline: `PassesReadFreshFacts`, `MappingsAreCurrent`,
`BinaryAndReportAgree`, `FailureKeepsTheBinary`. The invariant says at which version
each cached fact stands by the position in the pipeline (`CacheInv`), and what is
written at each stage (`ProgressInv`). What it needs of the pipelines is
`PipelineShape`: each scans at most once, no transform follows the last CFG
construction, and below O3 none follows the scan.

**`SourcePassesProofs`**, for every program, parameters, memory and number of
steps. Three of the passes rewrite instructions where they stand. `MatchedPreserved`
is their common argument: if in every state that a launched lane reaches, the new instruction
does to the lane what the old one did, then both programs make the same run. So one has to know
that the table a pass consults is true of the lane at every instruction of its run, which is an
induction along the run, within a block (the tables of the local passes) or along the graph
(`ControlFollowsTheGraph`: a lane goes from block to block by edges).

* `LocalConstantsAreTrue`: local constant folding, without any hypothesis.
* `ReusedLoadsFindTheSame`, under `LoadReuseAssumes`: the address still has the value it had,
  the memory has not been written, and the cached destination still holds the word.
* `ConstantsHoldOnEveryPath`, under `CPAssumes`. Its invariant is `SoundInv`
  (`SoundInvariance`): whatever lane leaves a block, what the pass believes of the block's end
  is true of it. It holds after *every* visit of every round, since it starts from blocks that
  leave nothing: that is why the limit on rounds is harmless.
* `RoundsOnlyAdd`: a visit takes no constant back, from `DataflowInv` (`DataflowInvariance`: what a
  block leaves is contained in what visiting it now would leave) and the monotonicity of the
  transfer (`TablesGrow`).

Three more remove instructions, so that an instruction has another place in the new program.
`FollowingPreserves` is their common argument, a simulation: the lane of the new program stands
at the next place that stays (or, in block simplification, where the chain of removed blocks
in front of it leads), has the same memory and the same stores, and agrees on the
registers the pass did not give up; as long as an instruction that stays reads none of those,
every step of the old lane is a step of the new one or none.

* `UnreadResultsGo`: the results that dead result elimination drops go to registers nothing reads.
* `WhatFeedsEffectsStays`: what global dead code elimination keeps is closed under the
  definitions that it reads (`Feeders`). That does not look at control flow: of a register an
  instruction that stays reads, every definition stays, so no register that a dropped
  instruction writes is ever read again.
* `SimplifiedBlocksKeepPaths`, under `SimplificationAssumes`. The end of a chain is
  computed by iterating the successor `n` times, `n` being the number of blocks passed
  through: by the pigeonhole principle that is enough to be past every chain without a cycle
  (`ChainFacts`), and blocks that lead to one another end at the same place (`TailsAgree`),
  a cycle at a block of its own. Then (`Landing`) the label a branch is given stays, and the old lane, sent
  through the blocks passed through, which do nothing, arrives there; a lane only
  visits blocks that stay or are on a chain (`VisitedIsClosed`), because the reachable blocks
  are closed under edges.

A fourth drops instructions and rewrites the operands of others at once, in a simulation of its
own: `SharedExpressionsStand`, under `CSEAssumes`. The relation is `Alongside`,
in which the lanes differ in what is dead and in what has an alias. `Standing`
is an invariant of the sweep alone: an alias still to be read stands for a register that
has none itself and is not written before the last read, and behind the scope its register is
dead. `StandsFor` says what the tables claim of the lanes: the target holds what the alias
would, and the register of an available expression holds that expression's value. Neither
suffices alone: what a rewritten operand reads is right because the alias was not read late,
and a target that is written again is harmless because nothing reads the alias any more.

Three of these hypotheses were corrected by the proofs. `CSEAssumes` excluded every instruction
that reads the register it writes, and with it every loop with a counter; the proof needs only that such
an instruction, whose key names the value it has just replaced, is not met again before the
register is written. `SimplificationAssumes` first read that no branch that
stays *names* a removed unreachable block; that the branch may be threaded through a jump block to
one was the case the proof could not close, and TLC had a program for it. `HoistingAssumes`
spoke of all registers a loop writes; stated of the moves alone it allows more programs, and
the proof found what was missing: a block in front of the header that is never reached, a
block behind a guarded return, and code that comes from another loop.

Two move instructions, and one argument covers both (`MovesPreserve`). `IsMove` is what it needs of a
move: it takes an unguarded computation or load out of a loop that has one definition of its result there,
puts it in front of the preheader's last instruction, takes along every definition of an operand in
that loop, and leaves a loop with stores alone if it is a load. `InvariantsAreMoves` and `LoadsAreMoves`
prove that of the passes themselves; for LICM that is its fixpoint: after as many rounds as there are
candidates the set of invariant instructions explains itself (`InvariantFacts`).

* `InvariantCodeMayMove` and `LoadsMayMove`, under `HoistingAssumes`. The new program is
  a row of pieces, one for every item: what was moved in front of it, and the item unless it was moved away
  (`Layout`, `RebuiltLayout`). The lanes stand in front of the same item and agree on what is live there.
  What is new is `Ready`: inside a loop the register of an
  instruction that was moved out of it holds what that instruction would compute *now*, so
  that the old lane may execute it while the new one does nothing (`MovedAway`). An item that stays keeps that so,
  because it writes neither the result, nor an operand, nor memory if it is a load
  (`KeptLeavesReady`); and control comes into a loop only from its preheader (`LoopEntered`: the
  blocks of a natural loop are closed under predecessors up to the header, and the preheader is the header's only
  predecessor outside), where what stands in front of the item makes it so, one instruction after the other
  (`Placing`, `PlacedStep`): an operand that is itself the result of a move was put there before
  (`WrittenAlready`). The new program executes
  moved instructions whenever control passes by, taken or not, and gets `Steps * Len(target)` steps for `Steps` of
  the old one.

**`LoweringProofs`**, for every program that has a CFG and every control plan:
`CodeInvariance` and `BranchesLand`. `CodeInv` says that instructions stand in the
order of their items (`OriginsAscend`), that a label's position divides those of the
items before it from those behind it (`LabelsSplitTheCode`), and that exactly the
branches wait for a position (`PendingAreTheBranches`). Items become no
instruction, one, or several, so a position means nothing without the first two.
`TheBinaryIsTheCode`, for items the lowering accepts: the four words of every instruction decode to
what it means (`Meant`: itself, with the constant of a LOADI modulo 2^32). No field is cut
off or runs into its neighbour, patched branch targets included.

And for every launch of that code, with any number of threads, warps, parameters and words of memory:
`UniformBranchesStayTogether`, a branch the analysis called uniform never divides a warp, where
`DefinitionsAgree`. The verdict is one sweep over the text, made before anything is lowered; the
warp that runs goes round loops, past regions under guards, and through several instructions
for an item, so the two have nothing in common but the items. Three things join them.

* `SliceIsUniform`: what a branch depends on is the least set of items closed under definitions of what they read
  (`SliceIsLeast`), so what the sweep says of the predicate at the branch holds, with `DefinitionsAgree`, of every
  item in it: its result is of uniform operands, and it has no guard of its own or of a region.
* `ShapeInv`, an invariant of the lowering: every instruction of the code is a piece of its item's, guarded as the plan
  says, with the pieces before it directly in front (`NextShapes`; a patched branch is the one
  exception). So when an operation is next, its immediates have been loaded into the temporaries it reads.
* `Agreement`, the invariant of the launch (`LaunchInvariance`): the lanes of the warp agree on every register and
  predicate the branch depends on, *and*, inside an item it depends on, on the temporaries loaded so
  far. The second part makes the first inductive; it survives a jump only because branches land on their
  labels and never inside an item (`JumpAgrees`, from `LabelsAreMet`), and a fall-through because
  the items ascend (`LoadedAfter`). An instruction of the set is executed by all lanes with the same result
  (`SameResult`); any other writes elsewhere (`OtherDestinations`).

**`LowererRegistersProofs`**, for every set of virtual registers, every file and
pre-mapping and every order of first uses, under `NamesTellWidths` (every 64-bit
register is one by its name): `Invariance` (every register of a mapped virtual
register is reserved), `OwnRegistersAreNotShared`, `TempsStayApart`.

**`NaturalOrder`** proves that a set of naturals has a least and a bounded one a greatest
element, on which the "closest definition" arguments rest, and gives the induction
on a set of naturals that takes the place of the library's, what a function defined by
recursion along the naturals is (`Recursion`), that a growing chain of subsets of
a finite set stands still after as many steps as the set has elements (`ChainSettles`), and
that such a chain ends with the least set closed under its step (`ChainIsLeast`): what is
reachable (`ReachChainIsLeast`) and what is live are sets of that kind, in the CFG analyses, the allocation and
the loops of the hoisting passes. Of sequences that are built item by item, it says where the items stand that are left
when others are dropped (`SievePlaces`), or piece by piece (`JoinPlaces`); of functions applied again
and again, that they come round (`TailsAgree`).

**Only model-checked.** Liveness (`ProgramReturns`, `Returns`, `Settles`,
`KernelsReturn`), which this prover does not do. Of `KernelRun` that every thread
stores what it stores by itself (`ThreadsStoreTheSame`): it
would take a simulation between a warp and its lanes through the whole control plan, guards in place of
branches included. Of the source
passes the one that copies instructions, `UnrollPreserves`: it relates two turns to one, with
renamed registers in the second, and rests on a trip count that is a fact about the run.

## 5. What the work found

Three disagreements with what the code says of itself; each has a violation run.

1. `list_scheduler_wide`: a 64-bit load, `LOADI` or `CPY` writes a register pair;
   the dependence tables know its first half only. Instructions that read or
   write the second half pass it. (`scheduler.py` 3-5: "respecting all data and
   memory dependencies".)
2. `linear_scan_fallback`: the pair fallback pops a register, steps down to the
   even number below, and works with that one without asking whether it is free
   (`register_allocation.py` 12: "verifies both registers available").
3. `source_passes_guarded`: global constant propagation skips a predicated
   definition without forgetting the register (`global_cp.py` 35-36 promises never
   to propagate through predicated instructions).

Further behaviour met on the way, for which the properties carry a hypothesis
rather than a run of its own (most are hazards in `PROJECT.json`, at their lines):

* A load guarded by a predicate that the block computes may be scheduled above the
  computation: guards are not among an instruction's sources. No run shows it:
  the blocks of `list_scheduler` and `list_scheduler_wide` have no guards but on branches.
* When R1 is popped the fallback steps onto R0, which the pass reserves.
* `analysis/liveness.py` says that a register may be read where it is defined anew, and
  that the read belongs to the range before ("inclusive upper bound for the old range"). The code does
  that for the first definition (98-104); for the later ones the bound excludes it (107), so
  that the read belongs to no range. In `mov v; mov v; L: add v, v, 1; ...; mov w; bra L` the
  loop does not count as reading `v`, its range is not extended, and `w` may take
  its register: what `register_allocation` finds without `LoopReadsAreSeen`. The proof
  stopped at this place first.
* Textual live ranges do not cover values that flow to a block laid out earlier
  other than along a loop's back edge.
* A `%bd` register first named by a load gets one register, and its second half
  is handed out again.
* LICM accepts an instruction because an operand's definition is invariant and
  afterwards leaves that definition in the loop (it has a second one there).
* Block simplification removes a jump its predecessor falls into, and removes
  unreachable blocks that unreachable blocks with side effects still branch to, also
  by way of a jump block. With a guarded `ret`, or a block called entry that is not the
  first, what it takes for unreachable is executed.
* Load reuse does not look at rewrites of the loaded register; CSE records an instruction
  that overwrites its own operand under the operand's new name.
* No transform invalidates `liveness`; at O3 the unroller runs after the scan has
  fetched it (`pipelines.py` 117-118), and the mapping is that of the program before
  unrolling. Nothing reads the stale facts today: `FreshReads` holds.
* Loop unrolling (`gemm.py` 23, 31) promises an even trip count and tests that
  the *bound* is even; where the counter starts, whether the body reads it, and the
  order of the blocks (alphabetical) are not looked at, and `fma` is not copied.
* `docs/ARCHITECTURE_INVARIANTS.md` 56 says that a BRX "may be emitted only for
  branches proven uniform"; one that is known to vary and cannot be legalised becomes a
  BRX all the same (`legacy_varying_branch_items`, `legacy_lowering.py` 331-345, 542-543): the
  simulator stops when lanes disagree there.
* A guard in front of a `ret` or of a parameter load is lost (lines 200, 234), and
  an instruction with a predicate of its own does not take the region's (line 470).
* A loop inside a skipped region is turned by the lanes that skip it too (line 605):
  with their own registers, which need not end it.
* Uniformity takes a register for what its last definition in the text made it; one that
  is redefined under a guard or in a later turn divides the warp at a BRX.
* A guarded `ret` ends its block without an edge to the next (`cfg.py` 178, 223-245), and
  the first block, when something branches back to it, takes the facts of its predecessors
  alone (`global_cp.py` 165-186): the proof of constant propagation met both. What is
  then read on the way from the start is a register nothing has set yet.
* The predicate half of the linear scan runs over nothing: liveness knows no
  instruction that defines a predicate.

## 6. Abstractions, and what is not modelled

* Machine instructions are the fields scheduling reads; virtual registers are
  numbers; labels are strings of one letter. Text, diagnostics and formatting
  are left out.
* `last_def_pos` and `last_write_pos` hold the same map between iterations and
  are one variable. Indices start at 1.
* The order in which a Python set is visited is a nondeterministic choice where
  it could matter (`CFGAnalysis`) and left out where the result cannot depend on
  it (the worklist of global dead code: a least set).
* Sweeps without intermediate reads by others are one step (a pass in
  `SourcePasses`); loops whose intermediate states matter are stepped
  (the scheduler, the scan, the CFG analyses, the dataflow, the pipelines).
* Source passes: modifiers (`.cc`), 64-bit types, malformed operand lists and
  floating-point rounding are left out; f32 arithmetic is an operation apart from
  u32's so that type confusion is visible. Memory wraps around, nothing traps.
* Comparisons are the six of `sim.py` (`Compares`). Words are compared without a sign, s32 too, as
  `_compare` does for every type but f32, in the warp and in the lane it is
  held against; the order of f32 is not modelled. The programs of `kernel_run` use
  all six, so that `BinaryIsTheCode` sees every comparison number.
* In `Compiler` a transform either changes the program or does not; what it does
  is the business of the source-pass modules.
* Registers of a lowered program are numbered by `RegNumber`, one each:
  how they come by a number is the business of `LowererRegisters`, and that two that are alive
  together differ is the business of `RegisterAllocation`.
* `Warp` runs one block; the blocks of a grid run one after the other in `sim.py`,
  each as this one. Memory and arithmetic are those of `PTXSemantics`; the traps of
  memory, which cannot occur there, are left out.
* The names the unroller finds by counting up are a finite supply of fresh names.
* Not modelled: the PTX parser and the IR classes (regular expressions into
  immutable records: the models start from what they return); of the lowering
  64-bit operands, `cvt`, shifts, `or`, `xor` and the malformed operand lists that raise; of
  the ISA the extended profile, `cvt` and the text of the disassembly; the predicate half of the
  linear scan, which runs over nothing; the text of reports; the
  disassembler command; the C model in `aec-cmodel` (a separate program). The
  `components` of `PROJECT.json` give each reason.

## 7. The plan

Done, in this order: list scheduler with its refinement and proofs; linear scan
with its proofs; liveness and allocation on programs; CFG analyses; pipelines and
cache; the Lowerer's allocator with its proofs; the source passes; uniformity, control
plan, lowering, ISA and warps composed into a kernel that runs; loop unrolling; the proofs
about pipelines, lowering, conservation of registers and `schedule_lowered`.

Left, in order of weight:

1. Predicated and 64-bit fillings of `RegisterAllocation`; pairs through the whole pass,
   and its mapping in place of `RegNumber` in `KernelRun`.
2. Scheduled code in `KernelRun`: the scheduler between lowering and binary, with loads that carry
   a guard.
3. 64-bit operands, `cvt` and shifts of the lowering, with the widths of `ISA`.
4. Proofs: unrolling (the simulation of the hoisting passes, turn by turn, with the renamed registers of the
   second turn), then the warp and its lanes.
