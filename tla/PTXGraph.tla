------------------------------ MODULE PTXGraph ------------------------------
(***************************************************************************)
(* analysis/cfg.py, build_cfg: how a parsed PTX program is cut into basic  *)
(* blocks and which edges join them.                                       *)
(*                                                                         *)
(* A program is a sequence of items.  An item has a kind ("label", "bra",  *)
(* "ret" or "op"), a label (its own for a label, its target for a branch)  *)
(* and says whether it is guarded; modules about one pass add the fields   *)
(* that pass looks at.  A block is named by the position of its leader:    *)
(* every label is a leader, so a block has at most one label and the       *)
(* code's names (label, "entry" or block_<k>) stand for leaders one to one.*)
(***************************************************************************)
EXTENDS Integers, Sequences, FiniteSets

CONSTANT EntryLabel       \* the label spelled "entry"

IsLabel(item) == item.kind = "label"
LabelPositions(p) == {i \in 1 .. Len(p) : IsLabel(p[i])}
LabelsOf(p) == {p[i].label : i \in LabelPositions(p)}

\* terminator_kind, conditional and unconditional branches apart.
IsBranch(item) == item.kind = "bra"
EndsBlock(item) == item.kind \in {"bra", "ret"}

\* CFGError: a duplicate label, an undefined target, or a label that spells the
\* name given to an unlabelled first block.
BuildFails(p) ==
  \/ Cardinality(LabelPositions(p)) # Cardinality(LabelsOf(p))
  \/ \E i \in 1 .. Len(p) : IsBranch(p[i]) /\ p[i].label \notin LabelsOf(p)
  \/ EntryLabel \in LabelsOf(p) /\ (p = << >> \/ ~IsLabel(p[1]))

LabelAt(p, l) == CHOOSE i \in LabelPositions(p) : p[i].label = l

\* _find_leaders.  The target of a branch is a label, hence a leader already.
Leaders(p) == {1} \cup LabelPositions(p)
                  \cup {i + 1 : i \in {j \in 1 .. Len(p) - 1 : EndsBlock(p[j])}}

Later(p, b) == {l \in Leaders(p) : l > b}
First(S) == CHOOSE l \in S : \A m \in S : l <= m
NextBlock(p, b) == First(Later(p, b))
BlockEnd(p, b) == First({l - 1 : l \in Later(p, b)} \cup {Len(p)})
BlockOf(p, i) == CHOOSE b \in Leaders(p) : b <= i /\ \A l \in Later(p, b) : i < l
Instructions(p, b) == {i \in b .. BlockEnd(p, b) : ~IsLabel(p[i])}

\* entry = "entry" if "entry" in blocks else block_order[0]
Entry(p) == IF EntryLabel \in LabelsOf(p) THEN LabelAt(p, EntryLabel) ELSE 1

\* _connect_edges: where control may go after the last item of a block.
BranchTargets(p, b) ==
  LET e == BlockEnd(p, b)
  IN  IF Instructions(p, b) # {} /\ IsBranch(p[e]) THEN {LabelAt(p, p[e].label)}
                                                    ELSE {}
FallsThrough(p, b) ==
  LET e == BlockEnd(p, b)
  IN  /\ Later(p, b) # {}
      /\ Instructions(p, b) = {} \/ ~EndsBlock(p[e])
           \/ (IsBranch(p[e]) /\ p[e].guarded)
Successors(p, b) ==
  BranchTargets(p, b) \cup (IF FallsThrough(p, b) THEN {NextBlock(p, b)} ELSE {})

\* The CFG object: its blocks, its entry and its edges.
BuildCFG(p) == [blocks |-> Leaders(p), entry |-> Entry(p),
                edges |-> UNION {{b} \X Successors(p, b) : b \in Leaders(p)}]
Succ(g, b) == {c \in g.blocks : <<b, c>> \in g.edges}
Pred(g, b) == {c \in g.blocks : <<c, b>> \in g.edges}

IsCFG(g) == /\ g.entry \in g.blocks /\ IsFiniteSet(g.blocks)
            /\ g.edges \subseteq g.blocks \X g.blocks

-----------------------------------------------------------------------------
(* Reference definitions, by paths, of what the analyses compute.          *)

\* The blocks reached from the blocks of a set without entering one of avoid.
ReachedFrom(g, start, avoid) ==
  LET f[k \in 0 .. Cardinality(g.blocks)] ==
        IF k = 0 THEN start \ avoid
        ELSE LET reached == f[k-1]
             IN  reached \cup ({e[2] : e \in {x \in g.edges : x[1] \in reached}} \ avoid)
  IN  f[Cardinality(g.blocks)]

ReachableBlocks(g) == ReachedFrom(g, {g.entry}, {})
\* Every path from the entry to b passes d.
Dominators(g, b) ==
  {d \in ReachableBlocks(g) : d = b \/ b \notin ReachedFrom(g, {g.entry}, {d})}
BackEdges(g) ==
  {e \in g.edges : e[1] \in ReachableBlocks(g) /\ e[2] \in Dominators(g, e[1])}
\* The header and the blocks from which the tail is reached without it.
LoopBody(g, tail, header) ==
  {header} \cup {b \in g.blocks : tail \in ReachedFrom(g, {b}, {header})}
=============================================================================
