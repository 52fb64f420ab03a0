---------------------------- MODULE ControlPlan ----------------------------
(***************************************************************************)
(* legacy_lowering.py 485-640: the questions _build_control_plan asks of a *)
(* program.  A forward branch that is not proven uniform can be replaced   *)
(* by guards on the items it skips (its region), except on those that      *)
(* decide how often a loop in the region turns, which every lane executes. *)
(***************************************************************************)
EXTENDS Uniformity

CONSTANT PredNumber     \* _predicate_number: predicate -> 0 .. 7

NoPredicate == -1
NoGuard == [predicate |-> NoPredicate, negated |-> FALSE]

\* _loop_backedge_branch_items
BackedgeItems(p) ==
  LET g == BuildCFG(p)
  IN  {BlockEnd(p, e[1]) : e \in {x \in BackEdges(g) : x[2] \in BranchTargets(p, x[1])}}

Target(p, k) == LabelAt(p, p[k].label)
Region(p, k) == {j \in k + 1 .. Target(p, k) - 1 : ~IsLabel(p[j])}

\* _collect_uniform_slice: the items of the region the given ones depend on.
Slice(p, region, items) ==
  LET f[n \in 0 .. Cardinality(region)] ==
        IF n = 0 THEN items
        ELSE LET known == f[n-1]
             IN  known \cup (region \cap UNION {DefinitionItems(p, r) : r \in UNION {Uses(p[k]) : k \in known}})
  IN  f[Cardinality(region)]

\* _uniform_control_indices
UniformControl(p, region) == Slice(p, region, region \cap BackedgeItems(p))

\* The guard that stands for the branch: its predicate, the other way round.
BranchGuard(i) == [predicate |-> PredNumber[i.guard], negated |-> ~i.negated]
GuardedItems(p, k) == Region(p, k) \ UniformControl(p, Region(p, k))

\* Variant for the mutants: branches in the region are guarded with the rest.
CanLegaliseOverBranches(p, k, guards) ==
  Region(p, k) # {} /\ \A j \in GuardedItems(p, k) : guards[j] \in {NoGuard, BranchGuard(p[k])}
\* _try_legalize_forward_exit, given the guards of the branches before.
CanLegalise(p, k, guards) ==
  /\ Region(p, k) # {}
  /\ \A j \in GuardedItems(p, k) : ~IsBranch(p[j]) /\ guards[j] \in {NoGuard, BranchGuard(p[k])}
=============================================================================
