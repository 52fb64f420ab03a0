--------------------------- MODULE ControlPasses ---------------------------
(***************************************************************************)
(* The source passes that move or remove code by the control flow graph:   *)
(* block simplification (passes/block_simplify.py), loop-invariant code    *)
(* motion (passes/licm.py) and load hoisting (passes/memory.py).  Each is  *)
(* an operator from a program to the program it leaves.                    *)
(***************************************************************************)
EXTENDS ScalarPasses, SequencesExt

\* The function f, with its values computed once and for all by TLC.
Tabulated(f) == CHOOSE g \in {f} : g = g

-----------------------------------------------------------------------------
(* BlockSimplificationPass *)

\* Empty blocks with a successor, and blocks that are one unconditional branch
\* to another block; never the entry.
EmptyBlocks(p) ==
  {b \in Leaders(p) \ {Entry(p)} : Instructions(p, b) = {} /\ Cardinality(Successors(p, b)) = 1}
JumpBlocks(p) ==
  {b \in Leaders(p) \ {Entry(p)} :
     \E k \in Instructions(p, b) : /\ Instructions(p, b) = {k}
                                   /\ IsBranch(p[k]) /\ ~p[k].guarded
                                   /\ LabelAt(p, p[k].label) # b}
PassedThrough(p) == EmptyBlocks(p) \cup JumpBlocks(p)

\* resolve_chain, called for the blocks in order: block -> where its chain ends.
\* A chain that runs into a cycle ends at the first block of the cycle that the
\* chain of the first block leading there meets.
ChainEnds(p) ==
  LET through  == PassedThrough(p)
      step     == Tabulated([b \in Leaders(p) |->
                    IF b \in through THEN CHOOSE c \in Successors(p, b) : TRUE ELSE b])
      n        == Cardinality(through)
      after[k \in 0 .. n] ==
        IF k = 0 THEN [b \in Leaders(p) |-> b]
        ELSE LET before == after[k-1] IN Tabulated([b \in Leaders(p) |-> step[before[b]]])
      tail     == Tabulated([b \in Leaders(p) |-> {after[k][after[n][b]] : k \in 0 .. n}])
      first(b) == Min({c \in Leaders(p) : tail[c] = tail[b]})
      meets(b) == Min({k \in 0 .. n : after[k][first(b)] \in tail[b]})
  IN  Tabulated([b \in Leaders(p) |-> after[meets(b)][first(b)]])

Redirected(p) == LET ends == ChainEnds(p) IN {b \in PassedThrough(p) : ends[b] # b}

\* A block no path from the entry reaches goes, unless it has a side effect.
UnreachablePure(p) ==
  {b \in Leaders(p) \ ReachableBlocks(BuildCFG(p)) :
     \A k \in Instructions(p, b) : ~IsSideEffecting(p[k])}

RemovedBlocks(p) == (UnreachablePure(p) \cup Redirected(p)) \ {Entry(p)}

\* The sweep drops the label of a removed block and what follows up to the next
\* label; a block without a label shares the fate of the label before it.
LabelBefore(p, k) == {j \in LabelPositions(p) : j <= k /\ \A m \in LabelPositions(p) : m <= k => m <= j}
Dropped(p) ==
  LET removed == RemovedBlocks(p)
  IN  {k \in 1 .. Len(p) : LabelBefore(p, k) \cap removed # {}}

\* Variant for the mutants: a branch is led one block on, not to the end.
RetargetedOnce(p, i, ends) ==
  IF IsLabel(i) \/ ~IsBranch(i) \/ ends[LabelAt(p, i.label)] = LabelAt(p, i.label) THEN i
  ELSE [i EXCEPT !.label = p[CHOOSE c \in Successors(p, LabelAt(p, i.label)) : TRUE].label]

Retargeted(p, i, ends) ==
  IF IsLabel(i) \/ ~IsBranch(i) \/ ends[LabelAt(p, i.label)] = LabelAt(p, i.label) THEN i
  ELSE [i EXCEPT !.label = p[ends[LabelAt(p, i.label)]].label]

SimplifyBlocks(p) ==
  LET ends == ChainEnds(p)
  IN  Kept([k \in 1 .. Len(p) |-> Retargeted(p, p[k], ends)], (1 .. Len(p)) \ Dropped(p))

\* What the pass relies on without asking: execution starts at the entry block,
\* and a return is not guarded; a block that is one jump is entered by branches
\* alone, and no branch that stays is led to a block that goes.
StartsAtEntry(p) == Entry(p) = 1
ReturnsAreFinal(p) == \A k \in 1 .. Len(p) : p[k].kind = "ret" => ~p[k].guarded
JumpsAreNotFallenInto(p) ==
  \A b \in Leaders(p), c \in JumpBlocks(p) : IsLabel(p[c]) => ~(FallsThrough(p, b) /\ NextBlock(p, b) = c)
DeadBlocksAreNotTargets(p) ==
  LET ends == ChainEnds(p)
  IN  \A k \in (1 .. Len(p)) \ Dropped(p) :
        IsBranch(p[k]) => ends[LabelAt(p, p[k].label)] \notin UnreachablePure(p)
SimplificationAssumes(p) ==
  StartsAtEntry(p) /\ ReturnsAreFinal(p) /\ JumpsAreNotFallenInto(p) /\ DeadBlocksAreNotTargets(p)

-----------------------------------------------------------------------------
(* Loops, as the two hoisting passes see them. *)

Loops(p) ==
  LET g == BuildCFG(p)
  IN  {[tail |-> e[1], header |-> e[2], blocks |-> LoopBody(g, e[1], e[2])] : e \in BackEdges(g)}
LoopInstructions(p, l) == UNION {Instructions(p, b) : b \in l.blocks}

Preheaders(p, l) == Pred(BuildCFG(p), l.header) \ l.blocks
\* Loops with one preheader, which has an instruction: hoisted code is put in
\* front of its last instruction, whatever that instruction is.
Hoistable(p) ==
  {l \in Loops(p) : \E b \in Preheaders(p, l) : Preheaders(p, l) = {b} /\ Instructions(p, b) # {}}
InsertBefore(p, l) == Max(Instructions(p, CHOOSE b \in Preheaders(p, l) : TRUE))

\* def_map: the last definition in the text, as a set of at most one index.
LastDefinition(p, r) == {k \in DefinitionsOf(p, r) : \A j \in DefinitionsOf(p, r) : j <= k}
LoopDefinitions(p, l, r) == DefinitionsOf(p, r) \cap LoopInstructions(p, l)

\* A move is <<tail, header, index, position to insert at>>.  The moves that put
\* code in front of item k, in the order of the loops and of the text.
MovedEarlier(m, n) == \E c \in 1 .. 3 : m[c] < n[c] /\ \A d \in 1 .. c - 1 : m[d] = n[d]
InsertedAt(moves, k) ==
  LET S == {m \in moves : m[4] = k}
  IN  CHOOSE s \in [1 .. Cardinality(S) -> S] : \A i, j \in DOMAIN s : i < j => MovedEarlier(s[i], s[j])

\* What stands where item k stood: what is moved there, and the item if it stays.
Piece(p, moves, k) ==
  LET s == InsertedAt(moves, k)
  IN  [n \in DOMAIN s |-> p[s[n][3]]] \o (IF \E m \in moves : m[3] = k THEN << >> ELSE <<p[k]>>)
Rebuilt(p, moves) ==
  LET f[k \in 0 .. Len(p)] == IF k = 0 THEN << >> ELSE f[k-1] \o Piece(p, moves, k)
  IN  f[Len(p)]

-----------------------------------------------------------------------------
(* LoopInvariantCodeMotionPass *)

\* The operand r does not change in the loop, given the indices known to be
\* invariant.  A register the pass sees no definition of never changes.
OperandInvariant(p, l, r, known) ==
  \A k \in LastDefinition(p, r) :
    IF BlockOf(p, k) \in l.blocks THEN k \in known
    ELSE BlockOf(p, k) \in Dominators(BuildCFG(p), l.header)

InvariantInstructions(p, l) ==
  LET pure == {k \in LoopInstructions(p, l) : ~p[k].guarded /\ p[k].op \in PureResultBases}
      f[n \in 0 .. Cardinality(pure)] ==
        IF n = 0 THEN {}
        ELSE LET known == f[n-1]
             IN  {k \in pure : \A r \in ReadRegisters(p[k]) : OperandInvariant(p, l, r, known)}
  IN  f[Cardinality(pure)]

\* Variant for the mutants: other definitions in the loop are ignored.
SafeToHoistAnyway(p, l, k) == TRUE

\* safe_invariant: the only definition of its register in the loop.
SafeToHoist(p, l, k) == Cardinality(LoopDefinitions(p, l, p[k].dest)) = 1

InvariantMoves(p) ==
  UNION {{<<l.tail, l.header, k, InsertBefore(p, l)>> :
            k \in {j \in InvariantInstructions(p, l) : SafeToHoist(p, l, j)}} :
         l \in Hoistable(p)}
HoistInvariants(p) == Rebuilt(p, InvariantMoves(p))

-----------------------------------------------------------------------------
(* LoadHoistingPass *)

\* Variant for the mutants: a store in the loop does not matter.
LoopWithStoreNever(p, l) == FALSE

LoopWithStore(p, l) == \E k \in LoopInstructions(p, l) : p[k].op = "st"

\* The tail of the first back edge to the header.
Latch(p, l) == Min({e[1] : e \in {x \in BackEdges(BuildCFG(p)) : x[2] = l.header}})

HoistableLoad(p, l, k) ==
  /\ p[k].op = "ld" /\ ~p[k].guarded
  /\ BlockOf(p, k) \in Dominators(BuildCFG(p), Latch(p, l))
  /\ Cardinality(LoopDefinitions(p, l, p[k].dest)) <= 1
  /\ p[k].args[1].reg # ""
  /\ \A d \in LastDefinition(p, p[k].args[1].reg) : BlockOf(p, d) \notin l.blocks

\* The code goes through the blocks of a loop in the order of a Python set.  That
\* of the text does as well: an address the loop sets keeps a load where it is.
LoadMoves(p) ==
  UNION {{<<l.tail, l.header, k, InsertBefore(p, l)>> :
            k \in {j \in LoopInstructions(p, l) : HoistableLoad(p, l, j)}} :
         l \in {m \in Hoistable(p) : ~LoopWithStore(p, m)}}
HoistLoads(p) == Rebuilt(p, LoadMoves(p))

-----------------------------------------------------------------------------
(* What both hoisting passes rely on without asking, of the moves they make. *)

LoopOf(p, m) == [tail |-> m[1], header |-> m[2], blocks |-> LoopBody(BuildCFG(p), m[1], m[2])]
Repeated(p, m) == LoopInstructions(p, LoopOf(p, m))
SameLoop(m, n) == m[1] = n[1] /\ m[2] = n[2]
Involved(i) == {i.dest} \cup ReadRegisters(i)

\* Execution does not start inside the loop, where nothing was moved to.
LoopsAreEntered(p, moves) == \A m \in moves : 1 \notin LoopOf(p, m).blocks
\* No path reads what was in the register before it is set: not the next turn,
\* nor what is behind a loop that was left early or never entered.
ResultsAreNotAwaited(p, moves) == \A m \in moves : m[4] \notin LiveBefore(p, p[m[3]].dest)
\* The last definition the pass sees of an operand the loop changes is in the
\* loop, and the only one there: the second test of LICM leaves others behind
\* after the first counted them as invariant.
DefinitionsAreSeen(p, moves) ==
  \A m \in moves : \A r \in ReadRegisters(p[m[3]]) :
    /\ LoopDefinitions(p, LoopOf(p, m), r) # {}
         => \E d \in LastDefinition(p, r) : d \in Repeated(p, m)
    /\ Cardinality(LoopDefinitions(p, LoopOf(p, m), r)) <= 1
\* A result of fma is no definition for the passes.
FmaStaysApart(p, moves) ==
  \A m \in moves : \A k \in Repeated(p, m) : p[k].op = "fma" => p[k].dest \notin Involved(p[m[3]])
\* What is moved is put in the order of the text; that is the order of execution.
MovedInOrder(p, moves) ==
  \A m, n \in moves : SameLoop(m, n) /\ p[n[3]].dest \in ReadRegisters(p[m[3]]) => n[3] < m[3]
\* The last instruction of a preheader, which comes behind what is moved, has
\* nothing to do with it.
PreheadersEndApart(p, moves) ==
  \A m \in moves : /\ p[m[4]].dest \notin Involved(p[m[3]])
                   /\ p[m[3]].op = "ld" => p[m[4]].op # "st"
\* Nor has what comes from another loop to the same place, or into the loop.
MovesStayApart(p, moves) ==
  \A m, n \in moves : (n[4] = m[4] \/ n[4] \in Repeated(p, m)) /\ n[3] \notin Repeated(p, m)
                        => p[n[3]].dest \notin Involved(p[m[3]])

Writes(p, S) == {p[k].dest : k \in {j \in S : ~IsLabel(p[j])}} \ {""}

HoistingAssumes(p, moves) ==
  /\ ReturnsAreFinal(p) /\ LoopsAreEntered(p, moves) /\ ResultsAreNotAwaited(p, moves)
  /\ DefinitionsAreSeen(p, moves) /\ FmaStaysApart(p, moves) /\ MovedInOrder(p, moves)
  /\ PreheadersEndApart(p, moves) /\ MovesStayApart(p, moves)
=============================================================================
