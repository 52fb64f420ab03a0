------------------------------ MODULE AECInstr ------------------------------
(***************************************************************************)
(* Machine instructions as the post-lowering scheduler sees them           *)
(* (isa.AECInstruction), and what executing one of them really reads and   *)
(* writes (sim.CModel._execute_lane).                                      *)
(*                                                                         *)
(* An instruction is a record                                              *)
(*   opcode     "LD", "ST", "CMPP", "HALT", "BRX", ... ;                   *)
(*   dest       the dest field, a register or, for CMPP, a predicate;      *)
(*   src        the values of the three src fields (an unused one is 0);   *)
(*   predicate  the guard's number, or NoPredicate;                        *)
(*   wide       a 64-bit form (LOADI64, LD.b64, CPY.b64): its destination  *)
(*              is the pair dest, dest+1;                                  *)
(*   imm        the target of a branch, counted from 0; 0 elsewhere.       *)
(* Types, other immediates, comparison kinds and memory spaces do not      *)
(* influence any order and are left out.                                   *)
(***************************************************************************)
EXTENDS Integers

CONSTANT NumRegs              \* number of general registers: 256 in the ISA

ASSUME NumRegsAssumption == NumRegs \in Nat \ {0}

Gpr == 0 .. NumRegs - 1
NoPredicate == -1

Instruction == [opcode: STRING, dest: Gpr, src: SUBSET Nat,
                predicate: Gpr \cup {NoPredicate}, wide: BOOLEAN, imm: Nat]

-----------------------------------------------------------------------------
(* What the scheduler believes about an instruction. *)

InstKind(inst) ==
  CASE inst.opcode \in {"BR", "BRX", "HALT", "CALL", "RET"} -> "CONTROL"
    [] inst.opcode = "ST"  -> "STORE"
    [] inst.opcode = "LD"  -> "LOAD"
    [] OTHER               -> "COMPUTE"

HasDest(inst) == inst.opcode \notin {"ST", "BR", "BRX", "HALT", "CALL", "RET"}

SourceRegs(inst) == inst.src \cap Gpr   \* special-register selectors are >= 256

-----------------------------------------------------------------------------
(***************************************************************************)
(* What the machine does.  Places are registers, predicates, the memory    *)
(* and the program counter.  A store extends the memory's contents, so it  *)
(* both reads and writes "mem"; every instruction runs at a place of the   *)
(* control flow ("pc") that only a control instruction changes.  A guarded *)
(* instruction reads its guard.  CMPP writes a predicate, not a register.  *)
(***************************************************************************)
Places == {<<"gpr", r>> : r \in 0 .. NumRegs} \cup {<<"pred", p>> : p \in Gpr}
            \cup {<<"mem", 0>>, <<"pc", 0>>}

Writes(inst) ==
  CASE inst.opcode = "CMPP"        -> {<<"pred", inst.dest>>}
    [] inst.opcode = "ST"          -> {<<"mem", 0>>}
    [] InstKind(inst) = "CONTROL"  -> {<<"pc", 0>>}
    [] OTHER -> {<<"gpr", inst.dest>>}
                  \cup (IF inst.wide THEN {<<"gpr", inst.dest + 1>>} ELSE {})

Reads(inst) ==
  {<<"gpr", s>> : s \in SourceRegs(inst)}
    \cup (IF inst.wide /\ inst.opcode = "CPY"
          THEN {<<"gpr", s + 1>> : s \in SourceRegs(inst)} ELSE {})
    \cup (IF inst.predicate = NoPredicate THEN {} ELSE {<<"pred", inst.predicate>>})
    \cup (IF InstKind(inst) \in {"LOAD", "STORE"} THEN {<<"mem", 0>>} ELSE {})
    \cup {<<"pc", 0>>}

\* Two instructions that may not change places.
Conflict(a, b) ==
  \/ Writes(a) \cap (Reads(b) \cup Writes(b)) # {}
  \/ Reads(a) \cap Writes(b) # {}

=============================================================================
