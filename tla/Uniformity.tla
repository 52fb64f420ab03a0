----------------------------- MODULE Uniformity -----------------------------
(***************************************************************************)
(* analysis/uniformity.py, analyze_uniformity: which registers hold the    *)
(* same value in every lane of a warp, as far as one sweep over the text   *)
(* can tell.  An item's guard plays no part, and a register is what its    *)
(* last definition in the text made it.                                    *)
(***************************************************************************)
EXTENDS PTXSemantics

CONSTANTS
  UniformSpecials,   \* %ctaid, %ntid, %nctaid, %warpid
  VaryingSpecials    \* %tid, %laneid

Specials == UniformSpecials \cup VaryingSpecials

\* Bases whose result the sweep works out, and the destination it sees.
MergedBases == {"add", "sub", "mul", "mad", "fma", "and", "setp"}
ResultBases == MergedBases \cup {"mov", "ld", "param"}
InstructionDest(i) == IF i.op \in ResultBases THEN i.dest ELSE ""

\* What the item reads; the guard counts for a branch only.
Uses(i) == (IF IsBranch(i) THEN {i.guard} ELSE {a.reg : a \in {i.args[k] : k \in DOMAIN i.args}}) \ {""}

\* Variant for the mutants: uniform if any operand is.
MergeAny(states) ==
  IF "uniform" \in states THEN "uniform" ELSE IF "varying" \in states THEN "varying" ELSE "unknown"
MergeUniformity(states) ==
  IF "varying" \in states THEN "varying" ELSE IF states = {"uniform"} THEN "uniform" ELSE "unknown"

OperandUniformity(a, values) ==
  CASE a.reg \in UniformSpecials \cup {""} -> "uniform"
    [] a.reg \in VaryingSpecials -> "varying"
    [] OTHER -> values[a.reg]

ResultUniformity(i, values) ==
  CASE i.op = "param" -> "uniform"
    [] i.op = "ld"    -> "varying"
    [] i.op = "mov"   -> OperandUniformity(i.args[1], values)
    [] i.op \in MergedBases -> MergeUniformity({OperandUniformity(i.args[k], values) : k \in DOMAIN i.args})
    [] OTHER -> "unknown"

\* The table values after k items.
Values(p) ==
  LET f[k \in 0 .. Len(p)] ==
        IF k = 0 THEN [r \in DataRegs \cup PredRegs |-> "unknown"]
        ELSE LET values == f[k-1]
             IN  IF IsLabel(p[k]) \/ InstructionDest(p[k]) = "" THEN values
                 ELSE [values EXCEPT ![InstructionDest(p[k])] = ResultUniformity(p[k], values)]
  IN  f

\* branch_states: index of a predicated branch -> what is known of its predicate.
PredicatedBranches(p) == {k \in 1 .. Len(p) : IsBranch(p[k]) /\ p[k].guarded}
BranchStates(p) ==
  LET values == Values(p) IN [k \in PredicatedBranches(p) |-> values[k][p[k].guard]]

\* facts.definitions
DefinitionItems(p, r) == {k \in 1 .. Len(p) : ~IsLabel(p[k]) /\ InstructionDest(p[k]) = r}
=============================================================================
