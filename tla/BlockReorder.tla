---------------------------- MODULE BlockReorder ----------------------------
(***************************************************************************)
(* What the scheduler promises of one basic block (scheduler.py:3-5: it    *)
(* "reorders AEC instructions within basic blocks ... while respecting all *)
(* data and memory dependencies"): in one step the block receives an order *)
(* that holds every instruction once and never swaps two instructions that *)
(* conflict.  The promise says nothing about how the order is found.       *)
(***************************************************************************)
EXTENDS AECInstr, Sequences

CONSTANT Blocks               \* the basic blocks that may be scheduled

VARIABLES block, order        \* order is << >> until the block is scheduled

IsPermutation(p, n) ==
  /\ p \in [1 .. n -> 1 .. n]
  /\ \A i, j \in 1 .. n : p[i] = p[j] => i = j

KeepsConflicts(b, p) ==
  \A i, j \in 1 .. Len(b) : i < j /\ Conflict(b[p[i]], b[p[j]]) => p[i] < p[j]

Init == block \in Blocks /\ order = << >>

Reorder ==
  /\ order = << >>
  /\ IsPermutation(order', Len(block))
  /\ KeepsConflicts(block, order')
  /\ UNCHANGED block

Spec == Init /\ [][Reorder]_<<block, order>>

=============================================================================
