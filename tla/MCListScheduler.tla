-------------------------- MODULE MCListScheduler ---------------------------
(***************************************************************************)
(* Small instances of ListScheduler.  MaxLen bounds the block's length.    *)
(***************************************************************************)
EXTENDS ListScheduler, SequencesExt

CONSTANT MaxLen

Op(opcode, dest, src) ==
  [opcode |-> opcode, dest |-> dest, src |-> src,
   predicate |-> NoPredicate, wide |-> FALSE, imm |-> 0]
Guarded(inst, p) == [inst EXCEPT !.predicate = p]
Wide(inst) == [inst EXCEPT !.wide = TRUE]

\* Control instructions end a block: they are followed by a leader
\* (schedule_lowered).
BlocksOver(body, ends) ==
  LET straight(n) == [1 .. n -> body]
  IN  UNION {straight(n) : n \in 0 .. MaxLen}
        \cup {Append(b, e) : b \in UNION {straight(n) : n \in 0 .. MaxLen - 1},
                             e \in ends}

Ends == {Op("HALT", 0, {0}), Guarded(Op("BRX", 0, {0}), 1)}

\* Single-width instructions without a guard: two registers, one predicate.
\* src holds 0 wherever a source field is unused, as AECInstruction's default.
PlainBlocks == BlocksOver(
  {Op("LD", 1, {0}), Op("LD", 0, {0, 1}), Op("ST", 0, {0, 1}), Op("ST", 0, {0}),
   Op("LOADI", 1, {0}), Op("ADD", 0, {0, 1}), Op("CMPP", 1, {0, 1})}, Ends)

\* A 64-bit load writes a register pair.
WideBlocks == BlocksOver(
  {Wide(Op("LD", 2, {0})), Op("LOADI", 3, {0}), Op("ST", 0, {0, 1})}, Ends)
=============================================================================
