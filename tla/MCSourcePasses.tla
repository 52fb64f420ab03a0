--------------------------- MODULE MCSourcePasses ---------------------------
(***************************************************************************)
(* For every pass the fillings of one or two control shapes with the       *)
(* instructions the pass makes decisions about.  Programs load their       *)
(* parameters into r1 and r2 first and store some registers at the end.    *)
(***************************************************************************)
EXTENDS SourcePasses, PTXItems

Start == <<Op("param", "r1", <<Imm(0)>>), Op("param", "r2", <<Imm(1)>>), Test(Reg("r1"), Reg("r2"))>>
StoreAll == <<Store(Imm(0), "r1"), Store(Imm(1), "r2"), Store(Imm(0), "r3")>>
StoreR3 == <<Store(Imm(0), "r3")>>

Straight(n) == [k \in 1 .. n |-> Slot]
Diamond == <<Slot, If(Bra("A")), Slot, Bra("B"), L("A"), Slot, L("B"), Slot>>
\* A loop that runs twice or more, its counter r3 started in front of it.
DoWhile(body) ==
  <<Op("mov", "r3", <<Imm(0)>>), L("A")>> \o body
    \o <<Op("add", "r3", <<Reg("r3"), Imm(1)>>), Comparing("p", "le", Reg("r3"), Imm(1)), If(Bra("A"))>>

F32(i) == [i EXCEPT !.type = "f32"]

-----------------------------------------------------------------------------
(* Dead code: what is overwritten, read by a guard, a store, or not at all. *)
DeadOps == {Mov(d, Reg(e)) : d \in {"r3", "r4"}, e \in {"r1", "r3"}}
             \cup {[If(Mov("r3", Imm(1))) EXCEPT !.negated = TRUE], Test(Reg("r3"), Imm(1)), Store(Imm(1), "r2"),
                   Add("r2", Reg("r2"), Reg("r3")), Op("fma", "r3", <<Reg("r3"), Reg("r1"), Reg("r2")>>)}
DeadPrograms == {Start \o p \o StoreR3 : p \in Fill(Diamond, DeadOps) \cup Fill(DoWhile(Straight(2)), DeadOps)}

(* Common subexpressions within and between scopes, in loops and over the *)
(* register they read. *)
ShareOps == {Add("r4", Reg("r1"), Reg("r2")), Add("r5", Reg("r1"), Reg("r2")), Add("r3", Reg("r4"), Reg("r5")),
             Mov("r1", Reg("r2")), Mov("r4", Reg("r2")), Mov("r3", Reg("r5"))}
OwnOps == {Add("r4", Reg("r4"), Reg("r2")), Add("r5", Reg("r4"), Reg("r2")), Mov("r3", Reg("r5")), Mov("r2", Reg("r1"))}
Carrying == <<L("A"), Slot, Slot, Slot, Test(Reg("r3"), Imm(0)), If(Bra("A"))>>
SharePrograms ==
  {Start \o q \o StoreR3 :
     q \in Fill(Straight(5), ShareOps) \cup Fill(<<Slot, Slot, L("A"), Slot, Slot>>, ShareOps)
           \cup Fill(Carrying, ShareOps) \cup Fill(DoWhile(Straight(3)), ShareOps) \cup Fill(Straight(4), OwnOps)}

(* Constants inside a block. *)
FoldOps == {Mov("r1", Imm(1)), F32(Mov("r1", Imm(1))), Mov("r2", Reg("r1")), Mov("r1", Reg("r2")),
            Add("r1", Reg("r1"), Imm(1)), F32(Add("r2", Reg("r1"), Imm(1))),
            Op("param", "r1", <<Imm(1)>>), If(Mov("r1", Imm(0))), L("A")}
FoldPrograms == {Start \o p \o StoreAll : p \in {q \in Fill(Straight(4), FoldOps) : ~BuildFails(q)}}

(* Loads, and what comes between them. *)
LoadOps == {Op("ld", d, <<a>>) : d \in {"r3", "r4"}, a \in {Reg("r1"), Reg("r2")}}
             \cup {Store(Reg("r2"), "r1"), Mov("r1", Reg("r2")), Mov("r2", Reg("r3")),
                   L("A"), Op("ld", "r1", <<Reg("r2")>>)}
LoadPrograms ==
  {p \in {Start \o q \o StoreAll \o <<Store(Imm(1), "r4")>> : q \in Fill(Straight(4), LoadOps)} :
     ~BuildFails(p)}

(* Blocks that are empty, one jump, or never reached, and jumps between those. *)
BlockOps == {L("A"), L("B"), Bra("A"), Bra("B"), Bra("C"), If(Bra("A")), Mov("r3", Imm(1))}
Unreached == <<Bra("C"), Slot, L("A"), Slot, L("B"), Slot>>
Ret == Item("ret", "ret", "", "", << >>)
ReturnsMaybe == <<Slot, If(Ret), L("A"), Slot, L("B"), Slot, L("C")>>
EntersLater == <<L("A"), Slot, Slot, L("entry"), Slot, L("C")>>
BlockPrograms ==
  {p \in {Start \o q \o <<L("C"), Mov("r3", Reg("r1"))>> \o StoreR3 :
             q \in Fill(Straight(5), BlockOps) \cup Fill(Unreached, BlockOps)}
           \cup {Start \o q \o StoreR3 : q \in Fill(ReturnsMaybe, BlockOps)}
           \cup {q \o StoreR3 : q \in Fill(EntersLater, BlockOps)} : ~BuildFails(p)}

(* Loops with something to move. *)
InvariantOps == {Mov("r4", Reg("r1")), Mov("r4", Reg("r2")), Mov("r2", Reg("r1")), Add("r5", Reg("r4"), Imm(1)),
                 Add("r5", Reg("r3"), Imm(1)), If(Mov("r4", Imm(1))), Store(Imm(1), "r5")}
HoistShapes == {DoWhile(Straight(3)), DoWhile(<<If(Bra("B")), Slot, L("B"), Slot, Slot>>),
                <<Slot>> \o DoWhile(Straight(2))}
\* A loop that may not be entered, one that may be left in the middle, one in
\* another, two with one header, and one whose text is not in the order of
\* execution.
Again == <<Op("add", "r3", <<Reg("r3"), Imm(1)>>), Comparing("p", "le", Reg("r3"), Imm(1)), If(Bra("A"))>>
Once == <<Test(Reg("r3"), Imm(2)), [If(Bra("A")) EXCEPT !.negated = TRUE]>>
Zero == Op("mov", "r3", <<Imm(0)>>)
LoopShapes ==
  {<<Zero, If(Bra("B")), L("A"), Slot, Slot>> \o Again \o <<L("B"), Slot>>,
   <<Zero, L("A"), Slot, If(Bra("B")), Slot>> \o Again \o <<L("B"), Slot>>,
   <<Zero, L("B"), Slot, L("A"), Slot>> \o Again \o <<Slot, Test(Reg("r3"), Imm(2)), [If(Bra("B")) EXCEPT !.negated = TRUE]>>,
   <<Zero, L("A"), Slot>> \o Again \o <<Slot>> \o Once,
   <<Zero, Bra("A"), L("B"), Slot, Slot, Bra("C"), L("A"), Slot, Bra("B"), L("C"), Slot>> \o Again}
StoreR45 == <<Store(Imm(0), "r4"), Store(Imm(1), "r5")>>
InvariantPrograms ==
  {Start \o q \o StoreR45 : q \in UNION {Fill(s, InvariantOps) : s \in HoistShapes \cup LoopShapes}}
LoopLoadOps == {Op("ld", "r4", <<Reg("r1")>>), Op("ld", "r5", <<Reg("r2")>>), Mov("r2", Reg("r1")), Mov("r1", Reg("r4")),
                If(Op("ld", "r4", <<Reg("r2")>>)), Store(Reg("r3"), "r2"), Add("r5", Reg("r4"), Imm(1))}
LoopLoadPrograms ==
  {Start \o q \o StoreR45 : q \in UNION {Fill(s, LoopLoadOps) : s \in HoistShapes \cup LoopShapes}}

(* Counted loops: the counter is r3, what they leave is in r4 and r5. *)
Not(i) == [i EXCEPT !.negated = TRUE]
CountOps == {Add("r3", Reg("r3"), Imm(1)), Add("r4", Reg("r4"), Reg("r1")), Mov("r5", Reg("r4")), Mov("r4", Reg("r5")),
             Add("r4", Reg("r4"), Reg("r5")), Mov("r5", Reg("r3")), Op("ld", "r5", <<Reg("r4")>>),
             Op("fma", "r4", <<Reg("r1"), Reg("r1"), Reg("r4")>>), If(Mov("r4", Imm(1)))}
CountUp(n) == Add("r3", Reg("r3"), Imm(n))
UntilLoop(body, bound) ==
  <<Mov("r3", Imm(0)), L("A")>> \o body \o <<Test(Reg("r3"), Imm(bound)), Not(If(Bra("A")))>>
TestFirst(first, bound) ==
  <<Mov("r3", Imm(first)), L("A"), Slot, Comparing("p", "ne", Reg("r3"), Imm(bound)), Slot, CountUp(1), If(Bra("A"))>>
CountWhile(head, exit, bound) ==
  <<Mov("r3", Imm(0)), L(head), Slot, Comparing("p", "ge", Reg("r3"), Imm(bound)), If(Bra(exit)),
    Slot, CountUp(1), Slot, Bra(head), L(exit)>>
\* Blocks whose names do not come in the order of the text, and a part that is
\* not always executed.
Misnamed ==
  <<Mov("r3", Imm(0)), L("B"), Slot, L("A"), Slot, CountUp(1), Comparing("p", "lt", Reg("r3"), Imm(2)), If(Bra("B"))>>
Forked ==
  <<Mov("r3", Imm(0)), L("A"), If(Bra("B")), Slot, L("B"), Slot, CountUp(1), Test(Reg("r3"), Imm(2)), Not(If(Bra("A")))>>
UnrollShapes ==
  {UntilLoop(body, bound) : body \in {<<CountUp(1), Slot, Slot>>, <<Slot, CountUp(1), Slot>>, <<Slot, Slot, CountUp(1)>>},
                            bound \in {0, 1, 2}}
    \cup {TestFirst(0, 2), TestFirst(1, 2), CountWhile("A", "B", 0)}
StoreR345 == <<Store(Imm(0), "r4"), Store(Imm(1), "r5"), Store(Imm(0), "r3")>>
StoreR43 == <<Store(Imm(0), "r4"), Store(Imm(0), "r3")>>     \* r5 stays in the loop
FewCountOps == {Add("r4", Reg("r4"), Reg("r1")), Mov("r5", Reg("r4"))}
UnrollPrograms ==
  {Start \o q \o StoreR345 : q \in UNION {Fill(s, CountOps) : s \in UnrollShapes}}
    \cup {Start \o q \o StoreR345 :
             q \in UNION {Fill(s, FewCountOps) : s \in {CountWhile("B", "A", 2), Misnamed, Forked}}}
    \cup {Start \o q \o StoreR43 : q \in Fill(CountWhile("A", "B", 2), CountOps)}

(* Constants across blocks. *)
ConstantOps == {Mov("r1", Imm(1)), Mov("r2", Imm(0)), Add("r2", Reg("r1"), Reg("r2")), Mov("r1", Reg("r3")),
                Op("and", "r3", <<Reg("r1"), Reg("r2")>>), Op("ld", "r1", <<Reg("r2")>>)}
MoreConstantOps == ConstantOps \cup {Mov("r2", Imm(1)), If(Mov("r3", Reg("r1"))), F32(Mov("r1", Imm(1)))}
While == <<Slot, L("A"), If(Bra("B")), Slot, Test(Reg("r2"), Imm(1)), Bra("A"), L("B"), Slot>>
ConstantPrograms ==
  {Start \o q \o StoreAll : q \in Fill(Diamond, ConstantOps) \cup Fill(While, MoreConstantOps)}

(* A guarded write between a constant and its use. *)
GuardedOps == {Mov("r1", Imm(1)), If(Mov("r1", Reg("r2"))), Mov("r3", Reg("r1"))}
GuardedPrograms == {Start \o q \o StoreAll : q \in Fill(Diamond, GuardedOps)}
NoPrograms == << >>

MCLabelOrder == <<"A", "B", "C">>
MCFreshNames == <<"c1", "c2">>

MCPrograms ==
  [name \in {"dre", "global-dce", "cse", "local-cf", "load-reuse", "block-simplify", "licm", "load-hoisting",
             "loop-unrolling"} |->
     CASE name \in {"dre", "global-dce"} -> DeadPrograms
       [] name = "cse"            -> SharePrograms
       [] name = "local-cf"       -> FoldPrograms
       [] name = "load-reuse"     -> LoadPrograms
       [] name = "block-simplify" -> BlockPrograms
       [] name = "licm"           -> InvariantPrograms
       [] name = "load-hoisting"  -> LoopLoadPrograms
       [] name = "loop-unrolling" -> UnrollPrograms]
=============================================================================
