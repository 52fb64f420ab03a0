----------------------------- MODULE MCKernelRun -----------------------------
(***************************************************************************)
(* Three threads in warps of two, so that the second warp is not full.     *)
(* Programs set n to a parameter, t to the thread, o to 3 and p to t = n,  *)
(* then comes a filled shape, and at the end a is stored.                  *)
(***************************************************************************)
EXTENDS KernelRun, PTXItems

Q(i)   == [i EXCEPT !.guard = "q", !.guarded = TRUE]
Not(i) == [i EXCEPT !.negated = TRUE]
Ret    == Item("ret", "ret", "", "", << >>)
TestQ(how, a, b) == Comparing("q", how, a, b)
N == Reg("n")
O == Reg("o")

Prologue == <<Op("param", "n", <<Imm(2)>>), Mov("t", Reg("tid")), Mov("o", Imm(3)), Test(Reg("t"), N)>>
Epilogue == <<Store(O, "a"), Ret>>
Kernels(bodies) ==
  {q \in {Prologue \o b \o Epilogue : b \in bodies} : ~BuildFails(q) /\ PredicatedBranches(q) # {}}

\* Branches and labels in any order.
BranchOps == {If(Bra("A")), Not(Q(Bra("B"))), Bra("A"), L("A"), L("B"), Mov("a", Reg("t")),
              TestQ("ne", N, Imm(1)), Comparing("p", "gt", Reg("a"), N), If(Mov("a", N)), Store(O, "a"), Ret, If(Ret)}
Branches == Fill([k \in 1 .. 4 |-> Slot], BranchOps)

\* A loop that some lanes skip.
LoopOps == {Add("a", Reg("a"), Imm(-1)), Mov("a", Reg("i")), Op("ld", "a", <<Reg("t")>>), Mov("i", Reg("t")),
            Store(O, "a"), If(Mov("i", Imm(1))), Mov("a", Reg("ctaid")), If(Op("param", "a", <<Imm(2)>>))}
SkippedLoop ==
  <<If(Bra("D")), Mov("i", Imm(0)), L("H"), Slot, Add("i", Reg("i"), Imm(1)),
    TestQ("lt", Reg("i"), N), Q(Bra("H")), Slot, L("D"), Slot>>
\* A loop every lane enters, with a condition in it.
WhileLoop ==
  <<Slot, L("H"), TestQ("ge", Reg("i"), N), Q(Bra("D")), If(Bra("A")), Slot, L("A"), Slot,
    Add("i", Reg("i"), Imm(1)), Bra("H"), L("D")>>
\* A loop whose branch back lies in a region that begins in the loop, and a
\* region that a uniform branch enters in the middle.
LateExit ==
  <<Mov("i", Imm(0)), L("H"), Slot, Add("i", Reg("i"), Imm(1)), TestQ("eq", Reg("i"), N),
    If(Bra("D")), Slot, Not(Q(Bra("H"))), Slot, L("D")>>
SideEntry == <<TestQ("le", N, Imm(1)), Q(Bra("B")), If(Bra("A")), Slot, L("B"), Slot, L("A"), Slot>>
LoopBodies == UNION {Fill(shape, LoopOps) : shape \in {SkippedLoop, WhileLoop, LateExit, SideEntry}}

MCPrograms == Kernels(Branches \cup LoopBodies)
MCInputs == {[a \in 0 .. 2 |-> IF a = 2 THEN n ELSE 0] : n \in 0 .. 2}
MCMemory == [a \in Addresses |-> a]

MCRegNumber == [a |-> 1, i |-> 2, n |-> 3, t |-> 4, o |-> 5]
MCSpecialNumber == [tid |-> 256, ctaid |-> 258]
MCPredNumber == [p |-> 0, q |-> 1]
MCSpecialValues(selector, thread) == IF selector = 256 THEN thread ELSE 1
=============================================================================
