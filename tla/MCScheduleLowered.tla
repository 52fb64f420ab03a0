------------------------- MODULE MCScheduleLowered --------------------------
(***************************************************************************)
(* All programs of Size instructions over a small set, branches included,  *)
(* that end in HALT as lowered programs do, and the blocks cut from them.  *)
(***************************************************************************)
EXTENDS ScheduleLowered, SequencesExt

CONSTANT Size

Op(opcode, dest, src, target) ==
  [opcode |-> opcode, dest |-> dest, src |-> src,
   predicate |-> IF opcode = "BRX" THEN 1 ELSE NoPredicate,
   wide |-> FALSE, imm |-> target]

Straight == {Op("LD", 1, {0}, 0), Op("ST", 0, {0, 1}, 0), Op("ADD", 0, {0, 1}, 0)}
Control == {Op("BR", 0, {0}, t) : t \in {0, 2, Size}}
             \cup {Op("BRX", 0, {0}, 1), Op("HALT", 0, {0}, 0)}

MCPrograms == {Append(p, Op("HALT", 0, {0}, 0)) :
                 p \in [1 .. Size - 1 -> Straight \cup Control]}
                \cup {<<Op("ADD", 0, {0, 1}, 0), Op("HALT", 0, {0}, 0)>>}
MCBlocks == UNION {CutBlocks(p) : p \in MCPrograms}
=============================================================================
