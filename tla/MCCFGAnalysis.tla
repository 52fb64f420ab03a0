--------------------------- MODULE MCCFGAnalysis ---------------------------
(***************************************************************************)
(* The CFGs of every program of Size items with at most the labels A and B *)
(* (A first), branches to them, returns and other instructions.            *)
(***************************************************************************)
EXTENDS CFGAnalysis

CONSTANT Size

Item(k, l, g) == [kind |-> k, label |-> l, guarded |-> g]
Items == {Item("label", l, FALSE) : l \in {"A", "B"}}
           \cup {Item("bra", l, g) : l \in {"A", "B"}, g \in BOOLEAN}
           \cup {Item("ret", "", FALSE), Item("op", "", FALSE)}

\* An instruction that neither starts nor ends a block changes no graph.
Relevant(p) ==
  /\ \A i \in 1 .. Len(p) : p[i].kind = "op" => i = 1 \/ EndsBlock(p[i - 1])
  /\ \A i \in LabelPositions(p) : p[i].label = "B" =>
       \E j \in 1 .. i - 1 : p[j] = Item("label", "A", FALSE)

MCGraphs == {BuildCFG(p) : p \in {q \in [1 .. Size -> Items] : Relevant(q) /\ ~BuildFails(q)}}
=============================================================================
