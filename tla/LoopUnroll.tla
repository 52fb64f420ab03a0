----------------------------- MODULE LoopUnroll -----------------------------
(***************************************************************************)
(* passes/gemm.py, LoopUnrollingPass: the first loop that looks like a     *)
(* counted one gets a second copy of its body in front of its last branch, *)
(* and its counter goes up by 2.                                           *)
(*                                                                         *)
(* The items of a loop are taken block by block, in the alphabetical order *)
(* of the blocks' names.  Labels are taken to be in upper case, so that    *)
(* they come before the names block_<k> of the blocks without one.         *)
(***************************************************************************)
EXTENDS ControlPasses

CONSTANTS
  LabelOrder,    \* the labels in alphabetical order
  FreshNames     \* the names _fresh_name_safe finds, in the order it does

UnrollFactor == 2

NameRank(p, b) ==
  IF IsLabel(p[b]) THEN CHOOSE n \in DOMAIN LabelOrder : LabelOrder[n] = p[b].label
                   ELSE Len(LabelOrder) + b

\* items_in_loop, without the labels, and the same in the order of the text.
InText(p, S) == SelectSeq([k \in DOMAIN p |-> k], LAMBDA k : k \in S)
Ranked(items, rank) ==
  SortSeq(items, LAMBDA j, k : rank[j] < rank[k] \/ (rank[j] = rank[k] /\ j < k))
LoopItems(p, l) ==
  Ranked(InText(p, LoopInstructions(p, l)), Tabulated([k \in DOMAIN p |-> NameRank(p, BlockOf(p, k))]))

\* The first item of a sequence that is in the set, as a set of at most one.
FirstIn(items, S) ==
  LET at == {n \in DOMAIN items : items[n] \in S} IN IF at = {} THEN {} ELSE {items[Min(at)]}

\* counter_reg, by the item that increments it.
Increments(p, S) == {k \in S : p[k].op = "add" /\ p[k].args[1].reg = p[k].dest /\ p[k].args[2] = Imm(1)}
CounterItem(p, items) == FirstIn(items, Increments(p, Range(items)))

\* bound_value: the first immediate in a test, whatever the test compares it to.
Immediates(i) == {n \in DOMAIN i.args : i.args[n].reg = ""}
BoundItem(p, items) ==
  FirstIn(items, {k \in Range(items) : p[k].op = "setp" /\ Immediates(p[k]) # {}})
Bound(p, k) == p[k].args[Min(Immediates(p[k]))].imm

\* backedge_branch: the last branch among the items, wherever it leads.
LastBranch(p, items) == FirstIn(Reverse(items), {k \in Range(items) : IsBranch(p[k])})

\* loop_carried: what an instruction reads and writes.
LoopCarried(p, items, counter) ==
  {counter} \cup {p[k].dest : k \in {j \in Range(items) :
                     /\ p[j].kind = "op" /\ ~p[j].guarded /\ p[j].op # "setp"
                     /\ DestinationRegister(p[j]) # ""
                     /\ p[j].dest \in {p[j].args[n].reg : n \in DOMAIN p[j].args}}}

\* What has a copy: not fma, not a test, not what counts.
Copied(p, items, counter) ==
  SelectSeq(items, LAMBDA k : /\ ~p[k].guarded /\ p[k].op \in PureResultBases \cup {"ld", "param"}
                              /\ p[k].dest # counter)

\* Variant for the mutants: a copy reads what the first body left.
CopyWithOldSources(i, renamed, name) == [i EXCEPT !.dest = name]
\* renamed_body, with the names given so far; short of names, the last is "".
CopyOf(i, renamed, name) ==
  [i EXCEPT !.dest = name,
            !.args = [n \in DOMAIN i.args |->
              IF i.args[n].reg \in DOMAIN renamed THEN Reg(renamed[i.args[n].reg]) ELSE i.args[n]]]
Renamed(p, items, carried) ==
  LET f[n \in 0 .. Len(items)] ==
        IF n = 0 THEN [body |-> << >>, renamed |-> << >>, left |-> FreshNames]
        ELSE LET s       == f[n-1]
                 r       == p[items[n]].dest
                 fresh   == r \notin carried
                 name    == IF ~fresh THEN r ELSE IF s.left = << >> THEN "" ELSE Head(s.left)
                 renamed == IF fresh THEN (r :> name) @@ s.renamed ELSE s.renamed
             IN  [body    |-> Append(s.body, CopyOf(p[items[n]], renamed, name)),
                  renamed |-> renamed,
                  left    |-> IF fresh /\ s.left # << >> THEN Tail(s.left) ELSE s.left]
  IN  f[Len(items)].body
RenamedBody(p, items, counter) == Renamed(p, Copied(p, items, counter), LoopCarried(p, items, counter))

Unrollable(p, items) ==
  /\ \A k \in Range(items) : p[k].op # "st" /\ (p[k].guarded => IsBranch(p[k]))
  /\ \E c \in CounterItem(p, items) : \A i \in Range(RenamedBody(p, items, p[c].dest)) : i.dest # ""
  /\ \E k \in BoundItem(p, items) : Bound(p, k) % UnrollFactor = 0
  /\ LastBranch(p, items) # {}

\* natural_loops, in the order of the text.
FirstLoop(loops) ==
  {l \in loops : \A m \in loops : l.tail < m.tail \/ (l.tail = m.tail /\ l.header <= m.header)}
UnrolledLoop(p) == FirstLoop({l \in Loops(p) : Unrollable(p, LoopItems(p, l))})

Unrolled(p, items, c, b) ==
  LET q == [p EXCEPT ![c].args[2] = Imm(UnrollFactor)]
  IN  SubSeq(q, 1, b - 1) \o RenamedBody(p, items, p[c].dest) \o SubSeq(q, b, Len(q))

\* Every result of the pass: there is one loop at most, with one of each.
Unrollings(p, l, items) ==
  {Unrolled(p, items, c, b) : c \in CounterItem(p, items), b \in LastBranch(p, items)}
UnrollLoops(p) ==
  LET results == UNION {Unrollings(p, l, LoopItems(p, l)) : l \in UnrolledLoop(p)}
  IN  CHOOSE q \in results \cup {p} : results # {} => q \in results

-----------------------------------------------------------------------------
(* What the pass relies on without asking, of the loop l it unrolls. *)

\* The loop is a straight piece of text: it is left or turned by its last
\* branch, or left by a branch in front of the increment, and every
\* instruction of it is copied.
LoopIsStraight(p, l, items, c) ==
  /\ items = InText(p, Range(items))
  /\ \A k \in Range(items) \ LastBranch(p, items) :
       IF IsBranch(p[k]) THEN k < c /\ LabelAt(p, p[k].label) \notin l.blocks
       ELSE k \in {c} \cup BoundItem(p, items) \cup Range(Copied(p, items, p[c].dest))

\* The counter starts even, and in the loop only the increment and the test
\* read it, which reads nothing else.
CounterCounts(p, items, c) ==
  LET r == p[c].dest
  IN  /\ \A k \in DefinitionsOf(p, r) \ {c} :
           /\ k \notin Range(items) /\ p[k].op = "mov" /\ ~p[k].guarded
           /\ p[k].args[1].reg = "" /\ p[k].args[1].imm % UnrollFactor = 0
      /\ {k \in Range(items) : r \in ReadBy(p[k])} = {c} \cup BoundItem(p, items)
      /\ \A k \in BoundItem(p, items) : ReadBy(p[k]) \ {""} = {r}

\* What a turn sets anew, the next turn and the code behind the loop do not read.
NothingLeavesATurn(p, l, items, c) ==
  \A r \in Writes(p, Range(items)) \ (LoopCarried(p, items, p[c].dest) \cup PredRegs) :
    \A b \in UNION {Successors(p, s) : s \in l.blocks} \ (l.blocks \ {l.header}) : b \notin LiveBefore(p, r)

\* Whenever a lane is outside of the loop, it has turned an even number of times.
TripsAreEven(p, l, c, lane, steps) ==
  LET f[k \in 0 .. steps] ==
        IF k = 0 THEN [lane |-> lane, turns |-> 0, even |-> TRUE]
        ELSE LET s    == f[k-1]
                 next == LaneStep(p, s.lane)
                 n    == IF s.lane.pc = c THEN s.turns + 1 ELSE s.turns
                 out  == next.pc > Len(p) \/ BlockOf(p, next.pc) \notin l.blocks
             IN  [lane |-> next, turns |-> n, even |-> s.even /\ (out => n % UnrollFactor = 0)]
  IN  f[steps].even

UnrollAssumes(p) ==
  \A l \in UnrolledLoop(p) : \A items \in {LoopItems(p, l)} : \A c \in CounterItem(p, items) :
    LoopIsStraight(p, l, items, c) /\ CounterCounts(p, items, c) /\ NothingLeavesATurn(p, l, items, c)
=============================================================================
