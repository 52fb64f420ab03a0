------------------------- MODULE RegisterAllocation -------------------------
(***************************************************************************)
(* The whole linear-scan pass on a program: analysis/liveness.py computes  *)
(* one live range per definition from the textual order of the items, the  *)
(* pass merges the ranges of a register, extends those used in a loop to   *)
(* the end of the loops (passes/register_allocation.py 53-98, 199-243) and *)
(* scans them (module LinearScan).  The question is whether the registers  *)
(* it hands out are right for the paths the program can take.              *)
(*                                                                         *)
(* An item of a program has the fields of PTXGraph and a dest (a virtual   *)
(* register, 0 for none) and srcs (a set of virtual registers).            *)
(***************************************************************************)
EXTENDS LinearScan, PTXGraph

CONSTANTS
  Vregs,       \* the virtual registers, positive numbers
  Pairs,       \* those that need an even/odd pair (%rd, %bd)
  Programs

ASSUME VregsAssumption == IsFiniteSet(Vregs) /\ Vregs \subseteq Nat \ {0}

Items ==
  [kind: {"label"}, label: STRING, guarded: {FALSE}]
    \cup [kind: {"op", "bra", "ret"}, label: STRING, guarded: BOOLEAN,
          dest: {0} \cup Vregs, srcs: SUBSET Vregs]

\* Programs for which build_cfg returns a graph.
ASSUME ProgramsAssumption == \A p \in Programs : p \in Seq(Items) /\ ~BuildFails(p)

VARIABLE prog

-----------------------------------------------------------------------------
(* analyze_liveness *)

Smallest(S) == CHOOSE x \in S : \A y \in S : x <= y
Largest(S) == CHOOSE x \in S : \A y \in S : y <= x

Defs(p, v) == {i \in 1 .. Len(p) : ~IsLabel(p[i]) /\ p[i].dest = v}
Uses(p, v) == {i \in 1 .. Len(p) : ~IsLabel(p[i]) /\ v \in p[i].srcs}

\* The uses that belong to the definition at d.  The first range keeps the use
\* at the next definition, a later one neither the use at its own definition
\* nor the one at the next.
UsesOf(p, v, d) ==
  LET later == {e \in Defs(p, v) : e > d}
      next  == IF later = {} THEN Len(p) + 1 ELSE Smallest(later)
  IN  IF d = Smallest(Defs(p, v)) THEN {u \in Uses(p, v) : d <= u /\ u <= next}
                                  ELSE {u \in Uses(p, v) : d < u /\ u < next}

Defined(p) == {v \in Vregs : Defs(p, v) # {}}
FirstDef(p, v) == Smallest(Defs(p, v))
UseIndices(p, v) == UNION {UsesOf(p, v, d) : d \in Defs(p, v)}
LastUse(p, v) == Largest(Defs(p, v) \cup UseIndices(p, v))    \* merged

-----------------------------------------------------------------------------
(* The extension over loops. *)

\* _compute_loop_range
LoopItems(p) ==
  LET g == BuildCFG(p)
  IN  UNION {UNION {Instructions(p, b) : b \in LoopBody(g, e[1], e[2])} : e \in BackEdges(g)}

\* Between the first and the last of some items (loop_start and loop_end).
Within(items, i) == Smallest(items) <= i /\ i <= Largest(items)

\* Variant for the mutants: no extension.
EndOfRangeTextual(p, v) == LastUse(p, v)

EndOfRange(p, v) ==
  LET items == LoopItems(p)
  IN  IF /\ items # {}
         /\ \E u \in UseIndices(p, v) : Within(items, u)
         /\ LastUse(p, v) < Largest(items)
      THEN Largest(items) ELSE LastUse(p, v)

\* sorted_regs: position in the scan -> virtual register.
ScanOrder(p) ==
  [i \in 1 .. Cardinality(Defined(p)) |->
     CHOOSE v \in Defined(p) :
       Cardinality({w \in Defined(p) : FirstDef(p, w) <= FirstDef(p, v)}) = i]

RangesOf(p) ==
  [i \in DOMAIN ScanOrder(p) |->
     LET v == ScanOrder(p)[i]
     IN  [first |-> FirstDef(p, v), last |-> EndOfRange(p, v), pair |-> v \in Pairs]]

-----------------------------------------------------------------------------
(* The paths of a program, the reference for liveness. *)

ItemSucc(p, i) ==
  LET branches == ~IsLabel(p[i]) /\ IsBranch(p[i])
      stops == ~IsLabel(p[i]) /\ EndsBlock(p[i]) /\ ~(branches /\ p[i].guarded)
  IN  (IF branches THEN {LabelAt(p, p[i].label)} ELSE {})
        \cup (IF ~stops /\ i < Len(p) THEN {i + 1} ELSE {})
ItemEdges(p) == UNION {{i} \X ItemSucc(p, i) : i \in 1 .. Len(p)}

\* The items before which v holds a value that some path still reads.
LiveBefore(p, v) ==
  LET through == {e \in ItemEdges(p) : e[1] \notin Defs(p, v) \/ p[e[1]].guarded}
      f[k \in 0 .. Len(p)] ==
        IF k = 0 THEN Uses(p, v)
        ELSE LET known == f[k-1]
             IN  known \cup {e[1] : e \in {x \in through : x[2] \in known}}
  IN  f[Len(p)]
LiveAfter(p, i, v) == ItemSucc(p, i) \cap LiveBefore(p, v) # {}

\* No path reads a register before it is written.
NothingUndefinedIsRead(p) == \A v \in Vregs : Entry(p) \notin LiveBefore(p, v)

-----------------------------------------------------------------------------
(* The pass. *)

AllocInit == /\ prog \in Programs /\ NothingUndefinedIsRead(prog)
             /\ ranges = RangesOf(prog) /\ Start
AllocNext == Next /\ UNCHANGED prog
AllocSpec == AllocInit /\ [][AllocNext]_<<vars, prog>>

\* What the scan gave to a virtual register.
RegistersFor(v) ==
  UNION {Registers(i) : i \in {j \in DOMAIN ScanOrder(prog) : ScanOrder(prog)[j] = v}}

\* What the pass relies on and does not ask.  Ranges follow the text, so a step
\* back in the text has to close a loop.
LaidOutInOrder(p) ==
  LET g == BuildCFG(p)
  IN  \A e \in g.edges : e[1] \in ReachableBlocks(g) /\ e[2] <= e[1] => e \in BackEdges(g)

\* A read at the third or a later definition is in no range's use_indices, so
\* a register that the loops read must be read there in another place as well.
LoopReadsAreSeen(p) ==
  LET items == LoopItems(p)
  IN  items # {} => \A v \in Defined(p) :
        (\E u \in Uses(p, v) : FirstDef(p, v) < u /\ Within(items, u))
          => \E u \in UseIndices(p, v) : Within(items, u)

\* No instruction that some path executes overwrites the register of a value
\* that a path from there still reads.
NoClobber ==
  pc = "done" /\ ~fellBack /\ LaidOutInOrder(prog) /\ LoopReadsAreSeen(prog) =>
    \A v \in Vregs : \A w \in Vregs \ {v} : \A i \in Defs(prog, w) :
      LiveAfter(prog, i, v) /\ BlockOf(prog, i) \in ReachableBlocks(BuildCFG(prog))
        => RegistersFor(v) \cap RegistersFor(w) = {}
=============================================================================
