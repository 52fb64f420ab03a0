------------------------ MODULE MCRegisterAllocation ------------------------
(***************************************************************************)
(* Programs over two virtual registers whose control is one of a few       *)
(* shapes, with every choice of instruction for each free position (slot). *)
(***************************************************************************)
EXTENDS RegisterAllocation, TLC

CONSTANT Shapes

L(l)    == [kind |-> "label", label |-> l, guarded |-> FALSE]
Bra(l)  == [kind |-> "bra", label |-> l, guarded |-> FALSE, dest |-> 0, srcs |-> {}]
BraP(l) == [kind |-> "bra", label |-> l, guarded |-> TRUE, dest |-> 0, srcs |-> {}]
Set(v)  == [kind |-> "op", label |-> "", guarded |-> FALSE, dest |-> v, srcs |-> {}]
Slot    == [kind |-> "slot", label |-> "", guarded |-> FALSE, dest |-> 0, srcs |-> {}]

Ops == {[kind |-> "op", label |-> "", guarded |-> g, dest |-> d, srcs |-> s] :
          g \in BOOLEAN, d \in {0} \cup Vregs, s \in {{}} \cup {{v} : v \in Vregs}}
Useful(o) == (o.dest # 0 \/ o.srcs # {}) /\ (o.guarded => o.dest = 2 /\ o.srcs = {})

Straight == <<Slot, Slot, Slot, Slot>>
Diamond  == <<Slot, BraP("A"), Slot, Bra("B"), L("A"), Slot, L("B"), Slot>>
DoWhile  == <<Slot, L("A"), Slot, Slot, BraP("A"), Slot>>
While    == <<Slot, L("A"), BraP("B"), Slot, Slot, Bra("A"), L("B"), Slot>>
\* A register that is set twice before the loop.
Twice    == <<Set(1), Set(1), L("A"), Slot, Slot, Slot, BraP("A")>>
Nested   == <<Slot, L("A"), Slot, L("B"), Slot, BraP("B"), BraP("A"), Slot>>

UsefulOps == {o \in Ops : Useful(o)}
Fill(shape) ==
  {f @@ shape : f \in [{i \in 1 .. Len(shape) : shape[i] = Slot} -> UsefulOps]}
\* A block laid out in front of the one that enters it.
Upward   == <<Bra("A"), L("B"), Slot, Slot, Bra("C"), L("A"), Slot, Bra("B"), L("C")>>

MCShapes == {Straight, Diamond, DoWhile, While, Twice, Nested, Upward}
MCPrograms == UNION {Fill(s) : s \in Shapes}
=============================================================================
