------------------------------ MODULE PTXItems ------------------------------
(***************************************************************************)
(* Shorthands for items, and programs as fillings of a shape, for the MC   *)
(* modules that enumerate programs.                                        *)
(***************************************************************************)
EXTENDS PTXSemantics, TLC

Item(kind, op, type, dest, args) ==
  [kind |-> kind, label |-> "", op |-> op, type |-> type, compare |-> "", guard |-> "",
   guarded |-> FALSE, negated |-> FALSE, dest |-> dest, args |-> args]
Op(op, dest, args) == Item("op", op, "u32", dest, args)
L(l)    == [Item("label", "label", "", "", << >>) EXCEPT !.label = l]
Bra(l)  == [Item("bra", "bra", "", "", << >>) EXCEPT !.label = l]
If(i)   == [i EXCEPT !.guard = "p", !.guarded = TRUE]
Store(a, r) == Op("st", "", <<a, Reg(r)>>)
Comparing(pred, how, a, b) == [Op("setp", pred, <<a, b>>) EXCEPT !.compare = how]
Test(a, b) == Comparing("p", "eq", a, b)
Slot    == Item("slot", "", "", "", << >>)

\* The fillings of a shape by operations of a set.
Fill(shape, ops) ==
  {f @@ shape : f \in [{k \in 1 .. Len(shape) : shape[k] = Slot} -> ops]}

Mov(d, a) == Op("mov", d, <<a>>)
Add(d, a, b) == Op("add", d, <<a, b>>)
=============================================================================
