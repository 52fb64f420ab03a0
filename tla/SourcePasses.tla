---------------------------- MODULE SourcePasses ----------------------------
(***************************************************************************)
(* The source passes of the O2 and O3 pipelines, each on its own: a pass   *)
(* is given a program and leaves one, and the question is whether a lane   *)
(* that runs what is left stores the same words in the same order.         *)
(*                                                                         *)
(* A pass is named as in Compiler.  Constant propagation runs step by step *)
(* (GlobalCP); the others, single sweeps, are one step each.               *)
(***************************************************************************)
EXTENDS GlobalCP, ScalarPasses, LoopUnroll

CONSTANTS
  Programs,     \* pass -> the programs it is tried on
  LaunchWords,  \* the words in parameters and memory at a launch
  Steps         \* how far a lane is followed

ASSUME ProgramsAssumption == \A name \in DOMAIN Programs : \A p \in Programs[name] : IsProgram(p)
ASSUME StepsAssumption == Steps \in Nat

VARIABLE pass

vars == <<pass, cpVars>>

-----------------------------------------------------------------------------
Transformed(name, p) ==
  CASE name = "dre"            -> EliminateDeadResults(p)
    [] name = "cse"            -> ShareExpressions(p)
    [] name = "local-cf"       -> FoldConstants(p)
    [] name = "load-reuse"     -> ReuseLoads(p)
    [] name = "global-dce"     -> EliminateDeadCode(p)
    [] name = "block-simplify" -> SimplifyBlocks(p)
    [] name = "licm"           -> HoistInvariants(p)
    [] name = "load-hoisting"  -> HoistLoads(p)
    [] name = "loop-unrolling" -> UnrollLoops(p)

Init ==
  \/ pass = "global-cp" /\ CPInit
  \/ /\ pass \in DOMAIN Programs /\ source \in Programs[pass]
     /\ stage = "rewrite" /\ block = 1 /\ out = << >> /\ changed = FALSE /\ iteration = 1
     /\ target = source

Propagate == pass = "global-cp" /\ CPNext /\ UNCHANGED pass

Rewrite ==
  /\ stage = "rewrite"
  /\ target' = Transformed(pass, source)
  /\ changed' = (target' # source)
  /\ stage' = "done"
  /\ UNCHANGED <<pass, source, block, out, iteration>>

Next == Propagate \/ Rewrite
Spec == Init /\ [][Next]_vars
FairSpec == Spec /\ WF_vars(Propagate)

-----------------------------------------------------------------------------
(* What it means that q does what p does: q still has a CFG, and a lane     *)
(* stores the same words, for all parameters and memories.  A lane that is  *)
(* not through after Steps instructions is compared as far as it got.       *)

\* Without a load, the words in memory make no difference; with one, those that
\* are all different tell the addresses apart.
Memories(p) ==
  IF \E k \in 1 .. Len(p) : p[k].op = "ld"
  THEN {m \in [Addresses -> LaunchWords] : IsInjective(m)} ELSE {[a \in Addresses |-> 0]}
LaunchedLanes(p) == {StartLane(params, mem) : params \in [Addresses -> LaunchWords], mem \in Memories(p)}

Alike(p, q, steps) ==
  \A lane \in LaunchedLanes(p) :
    LET a == RunLane(p, lane, Steps)
        b == RunLane(q, lane, steps)
    IN  /\ IsPrefix(a.stores, b.stores)
        /\ a.pc > Len(p) => b.pc > Len(q) /\ b.stores = a.stores

Preserved(p, q) == q = p \/ (~BuildFails(q) /\ Alike(p, q, Steps + Len(p)))
Preserves(name, assumed) == pass = name /\ stage = "done" /\ assumed => Preserved(source, target)

\* What stands in front of a loop is executed whenever control comes there: q
\* gets the time for that.
HoistPreserves(name, moves) ==
  pass = name /\ stage = "done" /\ HoistingAssumes(source, moves)
    => target = source \/ (~BuildFails(target) /\ Alike(source, target, Steps * Len(target)))

\* A result is removed only when nothing reads it, guards and stores included.
DeadResultsPreserve == Preserves("dre", TRUE)
\* What a store, a branch or a later guard depends on stays, whichever of a
\* register's definitions it comes from.
DeadCodePreserves == Preserves("global-dce", TRUE)
\* An expression is taken from an earlier one only while both its operands and
\* that result stand.
CSEPreserves == Preserves("cse", CSEAssumes(source))
\* Within a block a constant is used only until its register is written again.
LocalFoldingPreserves == Preserves("local-cf", TRUE)
\* A load is taken from an earlier one only while address and memory stand.
LoadReusePreserves == Preserves("load-reuse", LoadReuseAssumes(source))
\* Removing and threading blocks keeps every path and every branch target.
BlockSimplifyPreserves == Preserves("block-simplify", SimplificationAssumes(source))
\* An instruction leaves a loop only if it computes the same on every turn.
LICMPreserves == HoistPreserves("licm", InvariantMoves(source))
\* A load leaves a loop only if it is made on every turn and finds the same.
LoadHoistingPreserves == HoistPreserves("load-hoisting", LoadMoves(source))
\* A loop is unrolled only if it does what it did in half the turns.
EvenTrips(p) ==
  \A l \in UnrolledLoop(p) : \A c \in CounterItem(p, LoopItems(p, l)), lane \in LaunchedLanes(p) :
    TripsAreEven(p, l, c, lane, Steps)
UnrollPreserves == Preserves("loop-unrolling", UnrollAssumes(source) /\ EvenTrips(source))
\* The docstring of the pass promises that nothing is propagated through
\* predicated instructions: a register written under a guard is no constant.
PredicatedStopsConstants ==
  Preserves("global-cp", \A k \in 1 .. Len(source) : source[k].op # "fma")

\* Constants that cross block boundaries are the values of every path there,
\* after whichever round the dataflow is cut off: the limit on rounds cannot
\* do harm.
GlobalCPPreserves ==
  pass = "global-cp" /\ stage = "dataflow" /\ block > Len(source) /\ CPAssumes(source)
    => \A q \in {Rewritten(out)} : Preserved(source, q)

\* A round only adds constants: that is why the dataflow ends.
ConstantsOnlyGrow == [][pass = "global-cp" => \A b \in Leaders(source) : out[b] \subseteq out'[b]]_vars

\* Propagation ends, and ends because nothing changes any more.
Settles == pass = "global-cp" => <>(stage = "done" /\ ~changed)
=============================================================================
