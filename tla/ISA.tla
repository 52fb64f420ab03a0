-------------------------------- MODULE ISA --------------------------------
(***************************************************************************)
(* isa.py: an AEC instruction, and its four words in the binary, for the   *)
(* profile C1_DEFAULT.                                                     *)
(***************************************************************************)
EXTENDS Integers, Sequences

CONSTANT WordValues       \* how many values a word has: 2^32

ASSUME WordAssumption == WordValues \in Nat /\ WordValues >= 2^16

\* A field that is not given has the default of the dataclass; predicate is -1
\* for None, compare and space are "" for None.
AEC(opcode, type) ==
  [opcode |-> opcode, type |-> type, dest |-> 0, src1 |-> 0, src2 |-> 0, src3 |-> 0, imm |-> 0,
   predicate |-> -1, negated |-> FALSE, compare |-> "", space |-> ""]

OpcodeNumbers ==
  [ADD |-> 1, SUB |-> 2, MUL |-> 3, MAD |-> 4, FMA |-> 5, AND |-> 16, OR |-> 17, XOR |-> 18,
   SHL |-> 20, SHR |-> 21, CMPP |-> 33, LD |-> 48, ST |-> 49, BR |-> 64, BRX |-> 65, HALT |-> 69,
   CPY |-> 84, LOADI |-> 85, LOADI64 |-> 86]
TypeNumbers == [b32 |-> 0, b64 |-> 1, u32 |-> 2, s32 |-> 3, f32 |-> 8, none |-> 15]
SpaceNumbers == [gmem |-> 0, smem |-> 1, cmem |-> 2, lmem |-> 3, pmem |-> 4]
CompareNumbers == [eq |-> 0, ne |-> 1, lt |-> 2, le |-> 3, gt |-> 4, ge |-> 5]

NameOf(table, number) == CHOOSE name \in DOMAIN table : table[name] = number
Field(word, shift, width) == (word \div 2^shift) % 2^width

UsesImmediate(opcode) == opcode \in {"LOADI", "LOADI64", "BR", "BRX"}

\* _instruction_encoding_type
EncodingType(i) ==
  CASE i.opcode = "SHL" /\ i.type = "b32" -> "u32"
    [] UsesImmediate(i.opcode) -> "none"
    [] OTHER -> i.type

\* pred_ctrl.  A predicate number has three bits.
PredCtrlWithoutNegate(i) ==
  TypeNumbers[EncodingType(i)] * 2^3
    + (IF i.predicate = -1 THEN 0 ELSE 2^15 + (i.predicate % 8))
    + (IF i.compare # "" THEN CompareNumbers[i.compare] * 2^8
       ELSE IF i.space # "" THEN SpaceNumbers[i.space] * 2^11 ELSE 0)
PredCtrl(i) == PredCtrlWithoutNegate(i) + (IF i.predicate # -1 /\ i.negated THEN 2^14 ELSE 0)

\* encode_instruction.  The high half of a LOADI64 immediate is not modelled.
Encode(i) ==
  <<(IF UsesImmediate(i.opcode) THEN i.imm ELSE i.src3) % WordValues,
    i.src2 % WordValues,
    (i.dest % 2^16) * 2^16 + (i.src1 % 2^16),
    OpcodeNumbers[i.opcode] * 2^16 + PredCtrl(i)>>

\* decode_words_to_instruction.  A BRX has a predicate whatever the enable bit.
Decode(w) ==
  LET opcode    == NameOf(OpcodeNumbers, Field(w[4], 16, 16))
      predicate == IF opcode = "BRX" \/ Field(w[4], 15, 1) = 1 THEN Field(w[4], 0, 3) ELSE -1
  IN  [opcode    |-> opcode,
       type      |-> NameOf(TypeNumbers, Field(w[4], 3, 4)),
       dest      |-> Field(w[3], 16, 16),
       src1      |-> Field(w[3], 0, 16),
       src2      |-> w[2],
       src3      |-> IF UsesImmediate(opcode) THEN 0 ELSE w[1],
       imm       |-> IF UsesImmediate(opcode) THEN w[1] ELSE 0,
       predicate |-> predicate,
       negated   |-> predicate # -1 /\ Field(w[4], 14, 1) = 1,
       compare   |-> IF opcode = "CMPP" THEN NameOf(CompareNumbers, Field(w[4], 8, 3)) ELSE "",
       space     |-> IF opcode \in {"LD", "ST"} THEN NameOf(SpaceNumbers, Field(w[4], 11, 3)) ELSE ""]
=============================================================================
