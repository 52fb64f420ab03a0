--------------------------- MODULE LoweringProofs ---------------------------
(***************************************************************************)
(* For every program that has a CFG, and whatever the control plan decided:*)
(* the branches of the finished code lead to their labels, and the binary  *)
(* decodes to the code.  And for every launch of it, with any number of    *)
(* threads and warps: a branch that the analysis called uniform does not   *)
(* divide a warp, where the definitions its predicate depends on agree     *)
(* with the analysis' one sweep.                                           *)
(***************************************************************************)
EXTENDS KernelRun, NaturalOrder, SequenceTheorems

(* The invariant. *)

\* An instruction comes from an item already lowered, and those of an item come
\* behind those of the items before it.
OriginsAscend ==
  /\ Len(origin) = Len(code)
  /\ \A n \in 1 .. Len(origin) : origin[n] \in 1 .. Len(source) /\ (stage = "lower" => origin[n] < item)
  /\ \A m, n \in 1 .. Len(origin) : m <= n => origin[m] <= origin[n]

\* The labels the sweep has passed.
Recorded ==
  {k \in LabelPositions(source) : stage \in {"patch", "encode", "done"} \/ (stage = "lower" /\ k < item)}
LabelsSplitTheCode ==
  /\ labels \in [LabelsOf(source) -> Nat]
  /\ \A k \in Recorded :
       /\ labels[source[k].label] <= Len(code)
       /\ \A n \in 1 .. Len(code) : n <= labels[source[k].label] <=> origin[n] < k

\* A branch of the code, and nothing else, waits for the position of its label.
PendingAreTheBranches ==
  /\ pending \subseteq (1 .. Len(code)) \X LabelsOf(source)
  /\ \A n \in 1 .. Len(code) : IsBranch(source[origin[n]]) =>
       \A l \in LabelsOf(source) : <<n, l>> \in pending <=> l = source[origin[n]].label

Targets ==
  stage \in {"encode", "done"} =>
    \A n \in 1 .. Len(code) : IsBranch(source[origin[n]]) => code[n].imm = labels[source[origin[n]].label]

\* Instructions are records with a place for the position.
HasImmediate(s) == \A n \in 1 .. Len(s) : "imm" \in DOMAIN s[n]
IsSequence(s) == s \in Seq({s[n] : n \in DOMAIN s})

CodeInv ==
  /\ source \in Programs
  /\ stage \in {"plan", "lower", "patch", "encode", "error", "done"}
  /\ item \in Nat \ {0}
  /\ IsSequence(code) /\ IsSequence(origin)
  /\ stage = "plan" => code = << >> /\ origin = << >> /\ pending = {}
  /\ stage \notin {"encode", "done"} => HasImmediate(code)
  /\ stage = "lower" => item <= Len(source) + 1
  /\ OriginsAscend /\ LabelsSplitTheCode /\ PendingAreTheBranches /\ Targets

-----------------------------------------------------------------------------
(* Sequences whose elements are of no type. *)

\* Lengths and domains of sequences.
LEMMA SequenceFacts ==
  ASSUME NEW s, IsSequence(s)
  PROVE  Len(s) \in Nat /\ DOMAIN s = 1 .. Len(s)
BY DEF IsSequence

\* What stands where in a concatenation.
LEMMA Concatenated ==
  ASSUME NEW s, NEW t, IsSequence(s), IsSequence(t)
  PROVE  /\ IsSequence(s \o t)
         /\ Len(s \o t) = Len(s) + Len(t)
         /\ \A n \in 1 .. Len(s) : (s \o t)[n] = s[n]
         /\ \A n \in Len(s) + 1 .. Len(s) + Len(t) : (s \o t)[n] = t[n - Len(s)]
<1> DEFINE S == {s[n] : n \in DOMAIN s} \cup {t[n] : n \in DOMAIN t}
<1>1. s \in Seq(S) /\ t \in Seq(S)
  BY DEF IsSequence
<1>2. /\ s \o t \in Seq(S)
      /\ Len(s \o t) = Len(s) + Len(t)
      /\ \A i \in 1 .. Len(s) + Len(t) : (s \o t)[i] = IF i <= Len(s) THEN s[i] ELSE t[i - Len(s)]
  BY <1>1, ConcatProperties
<1> HIDE DEF S
<1>3. IsSequence(s \o t)
  <2> DEFINE u == s \o t
  <2>1. u \in [1 .. Len(u) -> S] /\ Len(u) \in Nat /\ DOMAIN u = 1 .. Len(u)
    BY <1>2, LenProperties
  <2>2. u \in [1 .. Len(u) -> {u[n] : n \in DOMAIN u}]
    BY <2>1
  <2>3. ASSUME NEW v, NEW R, NEW n \in Nat, v \in [1 .. n -> R]
        PROVE  v \in Seq(R)
    BY <2>3
  <2>4. u \in Seq({u[n] : n \in DOMAIN u})
    BY <2>1, <2>2, <2>3
  <2> QED  BY <2>4 DEF IsSequence
<1>4. Len(s) \in Nat /\ Len(t) \in Nat
  BY <1>1
<1> QED  BY <1>2, <1>3, <1>4

\* A sequence of one element.
LEMMA Singleton ==
  ASSUME NEW e
  PROVE  IsSequence(<<e>>) /\ Len(<<e>>) = 1 /\ <<e>>[1] = e
BY DEF IsSequence

-----------------------------------------------------------------------------
(* The instructions of an item. *)

\* Every machine instruction has an immediate field to patch.
LEMMA AnInstruction ==
  ASSUME NEW opcode, NEW type
  PROVE  "imm" \in DOMAIN AEC(opcode, type)
BY DEF AEC

\* A guard adds no field and takes none away.
LEMMA UnderKeepsFields ==
  ASSUME NEW inst, NEW guard
  PROVE  DOMAIN Under(inst, guard) = DOMAIN inst /\ DOMAIN Emit(inst, guard) = DOMAIN inst
BY DEF Under, Emit

\* One instruction as a piece of code.
LEMMA OneInstruction ==
  ASSUME NEW inst, "imm" \in DOMAIN inst
  PROVE  IsSequence(<<inst>>) /\ HasImmediate(<<inst>>) /\ Len(<<inst>>) = 1
BY Singleton DEF HasImmediate

\* Pieces of code put together.
LEMMA BothHaveImmediates ==
  ASSUME NEW s, NEW t, IsSequence(s), IsSequence(t), HasImmediate(s), HasImmediate(t)
  PROVE  IsSequence(s \o t) /\ HasImmediate(s \o t)
<1>1. Len(s) \in Nat /\ Len(t) \in Nat
  BY SequenceFacts
<1>2. ASSUME NEW n \in 1 .. Len(s \o t)
      PROVE  "imm" \in DOMAIN (s \o t)[n]
  <2>1. CASE n <= Len(s)
    BY <1>1, <2>1, Concatenated DEF HasImmediate
  <2>2. CASE n > Len(s)
    <3>1. n \in Len(s) + 1 .. Len(s) + Len(t) /\ n - Len(s) \in 1 .. Len(t)
      BY <1>1, <2>2, Concatenated
    <3>2. (s \o t)[n] = t[n - Len(s)]
      BY <3>1, Concatenated
    <3> QED  BY <3>1, <3>2 DEF HasImmediate
  <2>3. Len(s \o t) \in Nat
    BY <1>1, Concatenated
  <2> QED  BY <1>1, <2>1, <2>2, <2>3
<1> QED  BY <1>2, Concatenated DEF HasImmediate

\* The loads of immediates in front of an instruction are a piece of code.
LEMMA ImmediatesAreLoaded ==
  ASSUME NEW i
  PROVE  IsSequence(LoadImmediates(i)) /\ HasImmediate(LoadImmediates(i))
<1>1. ASSUME NEW k
      PROVE  IsSequence(LoadImmediate(i, k)) /\ HasImmediate(LoadImmediate(i, k))
  <2>1. CASE IsImmediate(i, k)
    <3> DEFINE inst == [AEC("LOADI", "none") EXCEPT !.dest = Temporary(i, k), !.imm = i.args[k].imm]
    <3>1. "imm" \in DOMAIN inst
      BY AnInstruction
    <3>2. LoadImmediate(i, k) = <<inst>>
      BY <2>1 DEF LoadImmediate
    <3> HIDE DEF inst
    <3> QED  BY <3>1, <3>2, OneInstruction
  <2>2. CASE ~IsImmediate(i, k)
    <3>1. LoadImmediate(i, k) = << >>
      BY <2>2 DEF LoadImmediate
    <3> QED  BY <3>1 DEF IsSequence, HasImmediate
  <2> QED  BY <2>1, <2>2
<1> QED  BY <1>1, BothHaveImmediates DEF LoadImmediates

\* Every item becomes a sequence of instructions, and a branch becomes one.
LEMMA LoweredItem ==
  ASSUME NEW i
  PROVE  /\ IsSequence(LowerItem(i)) /\ HasImmediate(LowerItem(i))
         /\ i \in Items /\ IsBranch(i) => Len(LowerItem(i)) = 1
<1>1. \A opcode, type : "imm" \in DOMAIN AEC(opcode, type)
  BY AnInstruction
<1>2. \A inst, guard : DOMAIN Under(inst, guard) = DOMAIN inst
  BY UnderKeepsFields
<1>3. \A inst : "imm" \in DOMAIN inst => IsSequence(<<inst>>) /\ HasImmediate(<<inst>>) /\ Len(<<inst>>) = 1
  BY OneInstruction
<1>4. \A inst : "imm" \in DOMAIN inst =>
        IsSequence(LoadImmediates(i) \o <<inst>>) /\ HasImmediate(LoadImmediates(i) \o <<inst>>)
  BY <1>3, ImmediatesAreLoaded, BothHaveImmediates
<1>5. IsSequence(LowerAlu(i)) /\ HasImmediate(LowerAlu(i))
  BY <1>1, <1>2, <1>4, Zenon DEF LowerAlu
<1>6. IsSequence(LowerSetp(i)) /\ HasImmediate(LowerSetp(i))
  BY <1>1, <1>2, <1>4 DEF LowerSetp
<1>7. IsSequence(LowerLdParam(i)) /\ HasImmediate(LowerLdParam(i))
  BY <1>1, <1>2, <1>4 DEF LowerLdParam
<1>8. IsSequence(LowerMov(i)) /\ HasImmediate(LowerMov(i))
  <2> DEFINE fromImm == [AEC("LOADI", "none") EXCEPT !.dest = RegNumber[i.dest], !.imm = i.args[1].imm]
             special == [AEC("CPY", "u32") EXCEPT !.dest = RegNumber[i.dest],
                                                  !.src1 = SpecialNumber[i.args[1].reg]]
             copy    == [AEC("CPY", i.type) EXCEPT !.dest = RegNumber[i.dest], !.src1 = OperandReg(i, 1)]
  <2>1. \A inst \in {fromImm, special, copy} : "imm" \in DOMAIN inst
    BY <1>1
  <2>2. PICK inst \in {fromImm, special, copy} : LowerMov(i) = <<Under(inst, OwnGuard(i))>>
    <3>1. CASE IsImmediate(i, 1)
      BY <3>1 DEF LowerMov
    <3>2. CASE ~IsImmediate(i, 1) /\ i.args[1].reg \in Specials
      BY <3>2 DEF LowerMov
    <3>3. CASE ~IsImmediate(i, 1) /\ i.args[1].reg \notin Specials
      BY <3>3 DEF LowerMov
    <3> QED  BY <3>1, <3>2, <3>3
  <2>3. "imm" \in DOMAIN inst
    BY <2>1
  <2> HIDE DEF fromImm, special, copy
  <2> QED  BY <2>2, <2>3, <1>2, <1>3
<1>9. IsSequence(LowerLdGlobal(i)) /\ HasImmediate(LowerLdGlobal(i))
  BY <1>1, <1>2, <1>3 DEF LowerLdGlobal
<1>10. IsSequence(LowerStGlobal(i)) /\ HasImmediate(LowerStGlobal(i))
  BY <1>1, <1>2, <1>3 DEF LowerStGlobal
<1>11. IsSequence(LowerBra(i)) /\ HasImmediate(LowerBra(i)) /\ Len(LowerBra(i)) = 1
  BY <1>1, <1>2, <1>3 DEF LowerBra
<1>12. ASSUME NEW inst, inst = AEC("HALT", "none")
       PROVE  IsSequence(<<inst>>) /\ HasImmediate(<<inst>>)
  <2>1. "imm" \in DOMAIN inst
    BY <1>12, AnInstruction
  <2> QED  BY <2>1, OneInstruction
<1>13. i \in Items /\ IsBranch(i) => LowerItem(i) = LowerBra(i)
  <2>1. i \in Items /\ IsBranch(i) => i.op = "bra"
    BY DEF IsBranch, Items
  <2>2. i.op = "bra" => LowerItem(i) = LowerBra(i)
    BY DEF LowerItem
  <2> QED  BY <2>1, <2>2
<1>14. LowerItem(i) \in {<<AEC("HALT", "none")>>, LowerBra(i), LowerLdParam(i), LowerLdGlobal(i),
                         LowerStGlobal(i), LowerMov(i), LowerSetp(i), LowerAlu(i)}
  BY DEF LowerItem
<1> QED
  BY <1>5, <1>6, <1>7, <1>8, <1>9, <1>10, <1>11, <1>12, <1>13, <1>14
-----------------------------------------------------------------------------
(* The encoding. *)

\* The instructions an encoding has room for.
InstructionSet ==
  [opcode: DOMAIN OpcodeNumbers, type: DOMAIN TypeNumbers, dest: 0 .. 2^16 - 1, src1: 0 .. 2^16 - 1,
   src2: 0 .. WordValues - 1, src3: 0 .. WordValues - 1, imm: Int,
   predicate: -1 .. 7, negated: BOOLEAN,
   compare: DOMAIN CompareNumbers \cup {""}, space: DOMAIN SpaceNumbers \cup {""}]
Encodable(i) ==
  /\ i \in InstructionSet
  /\ i.opcode # "LOADI" => i.imm \in 0 .. WordValues - 1
  /\ EncodingType(i) = i.type
  /\ IF UsesImmediate(i.opcode) THEN i.src3 = 0 ELSE i.imm = 0
  /\ i.predicate = -1 => i.opcode # "BRX" /\ ~i.negated
  /\ i.compare # "" <=> i.opcode = "CMPP"
  /\ i.space # "" <=> i.opcode \in {"LD", "ST"}

\* A table of codes is read backwards.
LEMMA NamesOfCodes ==
  /\ \A name \in DOMAIN OpcodeNumbers : OpcodeNumbers[name] \in 0 .. 255 /\ NameOf(OpcodeNumbers, OpcodeNumbers[name]) = name
  /\ \A name \in DOMAIN TypeNumbers : TypeNumbers[name] \in 0 .. 15 /\ NameOf(TypeNumbers, TypeNumbers[name]) = name
  /\ \A name \in DOMAIN CompareNumbers : CompareNumbers[name] \in 0 .. 7 /\ NameOf(CompareNumbers, CompareNumbers[name]) = name
  /\ \A name \in DOMAIN SpaceNumbers : SpaceNumbers[name] \in 0 .. 7 /\ NameOf(SpaceNumbers, SpaceNumbers[name]) = name
<1>0. ASSUME NEW table, NEW name \in DOMAIN table, \A other \in DOMAIN table : table[other] = table[name] => other = name
      PROVE  NameOf(table, table[name]) = name
  BY <1>0 DEF NameOf
<1>1. ASSUME NEW name \in DOMAIN OpcodeNumbers
      PROVE  OpcodeNumbers[name] \in 0 .. 255 /\ NameOf(OpcodeNumbers, OpcodeNumbers[name]) = name
  <2>1. OpcodeNumbers[name] \in 0 .. 255
    BY DEF OpcodeNumbers
  <2>2. \A other \in DOMAIN OpcodeNumbers : OpcodeNumbers[other] = OpcodeNumbers[name] => other = name
    BY DEF OpcodeNumbers
  <2> QED  BY <1>0, <2>1, <2>2
<1>2. ASSUME NEW name \in DOMAIN TypeNumbers
      PROVE  TypeNumbers[name] \in 0 .. 15 /\ NameOf(TypeNumbers, TypeNumbers[name]) = name
  <2>1. TypeNumbers[name] \in 0 .. 15
    BY DEF TypeNumbers
  <2>2. \A other \in DOMAIN TypeNumbers : TypeNumbers[other] = TypeNumbers[name] => other = name
    BY DEF TypeNumbers
  <2> QED  BY <1>0, <2>1, <2>2
<1>3. ASSUME NEW name \in DOMAIN CompareNumbers
      PROVE  CompareNumbers[name] \in 0 .. 7 /\ NameOf(CompareNumbers, CompareNumbers[name]) = name
  <2>1. CompareNumbers[name] \in 0 .. 7
    BY DEF CompareNumbers
  <2>2. \A other \in DOMAIN CompareNumbers : CompareNumbers[other] = CompareNumbers[name] => other = name
    BY DEF CompareNumbers
  <2> QED  BY <1>0, <2>1, <2>2
<1>4. ASSUME NEW name \in DOMAIN SpaceNumbers
      PROVE  SpaceNumbers[name] \in 0 .. 7 /\ NameOf(SpaceNumbers, SpaceNumbers[name]) = name
  <2>1. SpaceNumbers[name] \in 0 .. 7
    BY DEF SpaceNumbers
  <2>2. \A other \in DOMAIN SpaceNumbers : SpaceNumbers[other] = SpaceNumbers[name] => other = name
    BY DEF SpaceNumbers
  <2> QED  BY <1>0, <2>1, <2>2
<1> QED  BY <1>1, <1>2, <1>3, <1>4

AreFields(o, e, n, s, f, t, p) ==
  /\ o \in 0 .. 255 /\ e \in 0 .. 1 /\ n \in 0 .. 1 /\ s \in 0 .. 7 /\ f \in 0 .. 7
  /\ t \in 0 .. 15 /\ p \in 0 .. 7
FourthWord(o, e, n, s, f, t, p) == o * 2^16 + (e * 2^15 + n * 2^14 + s * 2^11 + f * 2^8 + t * 2^3 + p)

\* The fields of the fourth word do not overlap.
LEMMA FieldsOfTheWord ==
  ASSUME NEW o, NEW e, NEW n, NEW s, NEW f, NEW t, NEW p, AreFields(o, e, n, s, f, t, p)
  PROVE  LET w == FourthWord(o, e, n, s, f, t, p)
         IN  /\ Field(w, 16, 16) = o /\ Field(w, 15, 1) = e /\ Field(w, 14, 1) = n /\ Field(w, 11, 3) = s
             /\ Field(w, 8, 3) = f /\ Field(w, 3, 4) = t /\ Field(w, 0, 3) = p
<1> DEFINE w == FourthWord(o, e, n, s, f, t, p)
<1>0. w = o * 2^16 + (e * 2^15 + n * 2^14 + s * 2^11 + f * 2^8 + t * 2^3 + p)
  BY DEF FourthWord
<1> HIDE DEF w
<1>R. /\ o \in 0 .. 255 /\ e \in 0 .. 1 /\ n \in 0 .. 1 /\ s \in 0 .. 7 /\ f \in 0 .. 7
      /\ t \in 0 .. 15 /\ p \in 0 .. 7
  BY DEF AreFields
<1>1. Field(w, 16, 16) = o
  BY <1>R, <1>0 DEF Field
<1>2. Field(w, 15, 1) = e
  <2>1. w \div 2^15 = (o) * 2^1 + e
    BY <1>R, <1>0
  <2>2. (((o) * 2^1 + e) % 2^1) = e
    BY <1>R
  <2> QED  BY <2>1, <2>2 DEF Field
<1>3. Field(w, 14, 1) = n
  <2>1. w \div 2^14 = (o * 2 + e) * 2^1 + n
    BY <1>R, <1>0
  <2>2. (((o * 2 + e) * 2^1 + n) % 2^1) = n
    BY <1>R
  <2> QED  BY <2>1, <2>2 DEF Field
<1>4. Field(w, 11, 3) = s
  <2>1. w \div 2^11 = ((o * 2 + e) * 2 + n) * 2^3 + s
    BY <1>R, <1>0
  <2>2. ((((o * 2 + e) * 2 + n) * 2^3 + s) % 2^3) = s
    BY <1>R
  <2> QED  BY <2>1, <2>2 DEF Field
<1>5. Field(w, 8, 3) = f
  <2>1. w \div 2^8 = (((o * 2 + e) * 2 + n) * 8 + s) * 2^3 + f
    BY <1>R, <1>0
  <2>2. (((((o * 2 + e) * 2 + n) * 8 + s) * 2^3 + f) % 2^3) = f
    BY <1>R
  <2> QED  BY <2>1, <2>2 DEF Field
<1>6. Field(w, 3, 4) = t
  <2>1. w \div 2^3 = (((((o * 2 + e) * 2 + n) * 8 + s) * 8 + f) * 2) * 2^4 + t
    BY <1>R, <1>0
  <2>2. (((((((o * 2 + e) * 2 + n) * 8 + s) * 8 + f) * 2) * 2^4 + t) % 2^4) = t
    BY <1>R
  <2> QED  BY <2>1, <2>2 DEF Field
<1>7. Field(w, 0, 3) = p
  BY <1>R, <1>0 DEF Field
<1> QED  BY <1>1, <1>2, <1>3, <1>4, <1>5, <1>6, <1>7 DEF w

\* Decoding undoes encoding, but for the constants that are longer than a word.
LEMMA DecodeInvertsEncode ==
  ASSUME NEW i, Encodable(i)
  PROVE  Decode(Encode(i)) = Meant(i)
<1> DEFINE o == OpcodeNumbers[i.opcode]
           e == IF i.predicate = -1 THEN 0 ELSE 1
           n == IF i.negated THEN 1 ELSE 0
           p == IF i.predicate = -1 THEN 0 ELSE i.predicate
           f == IF i.compare = "" THEN 0 ELSE CompareNumbers[i.compare]
           s == IF i.space = "" THEN 0 ELSE SpaceNumbers[i.space]
           t == TypeNumbers[i.type]
           w == Encode(i)
           imm == IF i.opcode = "LOADI" THEN i.imm % WordValues ELSE i.imm
<1>1. /\ i.opcode \in DOMAIN OpcodeNumbers /\ i.type \in DOMAIN TypeNumbers
      /\ i.predicate \in -1 .. 7 /\ i.negated \in BOOLEAN
      /\ i.compare \in DOMAIN CompareNumbers \cup {""} /\ i.space \in DOMAIN SpaceNumbers \cup {""}
      /\ i.compare # "" <=> i.opcode = "CMPP"
      /\ i.space # "" <=> i.opcode \in {"LD", "ST"}
      /\ i.predicate = -1 => i.opcode # "BRX" /\ ~i.negated
  BY DEF Encodable, InstructionSet
<1>P. i.predicate \in -1 .. 7 /\ i.negated \in BOOLEAN
  BY DEF Encodable, InstructionSet
<1>N. i.predicate = -1 => i.opcode # "BRX" /\ i.negated = FALSE
  BY <1>1
<1>F. (i.compare = "" \/ i.space = "") 
  BY <1>1
<1>2. /\ o \in 0 .. 255 /\ t \in 0 .. 15 /\ e \in 0 .. 1 /\ p \in 0 .. 7
      /\ n \in 0 .. 1 /\ f \in 0 .. 7 /\ s \in 0 .. 7
  <2>1. o \in 0 .. 255
    BY <1>1, NamesOfCodes
  <2>2. t \in 0 .. 15
    BY <1>1, NamesOfCodes
  <2>3. e \in 0 .. 1 /\ p \in 0 .. 7
    BY <1>P
  <2>4. n \in 0 .. 1
    OBVIOUS
  <2>5. f \in 0 .. 7
    <3>1. CASE i.compare # ""
      <4>1. CompareNumbers[i.compare] \in 0 .. 7
        BY <1>1, <3>1, NamesOfCodes
      <4>2. f = CompareNumbers[i.compare]
        BY <3>1
      <4> HIDE DEF f
      <4> QED  BY <4>1, <4>2
    <3>2. CASE i.compare = ""
      <4>1. f = 0
        BY <3>2
      <4> HIDE DEF f
      <4> QED  BY <4>1
    <3> QED  BY <3>1, <3>2
  <2>6. s \in 0 .. 7
    <3>1. CASE i.space # ""
      <4>1. SpaceNumbers[i.space] \in 0 .. 7
        BY <1>1, <3>1, NamesOfCodes
      <4>2. s = SpaceNumbers[i.space]
        BY <3>1
      <4> HIDE DEF s
      <4> QED  BY <4>1, <4>2
    <3>2. CASE i.space = ""
      <4>1. s = 0
        BY <3>2
      <4> HIDE DEF s
      <4> QED  BY <4>1
    <3> QED  BY <3>1, <3>2
  <2> HIDE DEF o, e, n, p, f, s, t
  <2> QED  BY <2>1, <2>2, <2>3, <2>4, <2>5, <2>6
<1>3. w[4] = FourthWord(o, e, n, s, f, t, p)
  <2>1. w[4] = o * 2^16 + PredCtrl(i)
    BY DEF Encode
  <2>2. (IF i.predicate = -1 THEN 0 ELSE 2^15 + (i.predicate % 8)) = e * 2^15 + p
    <3>1. CASE i.predicate = -1
      BY <3>1
    <3>2. CASE i.predicate # -1
      <4>1. i.predicate \in 0 .. 7 /\ i.predicate % 8 = i.predicate
        BY <1>P, <3>2
      <4>2. e = 1 /\ p = i.predicate
        BY <3>2
      <4> HIDE DEF e, p
      <4> QED  BY <3>2, <4>1, <4>2
    <3> QED  BY <3>1, <3>2
  <2>3. (IF i.compare # "" THEN CompareNumbers[i.compare] * 2^8
         ELSE IF i.space # "" THEN SpaceNumbers[i.space] * 2^11 ELSE 0) = s * 2^11 + f * 2^8
    <3>1. CASE i.compare # ""
      <4>1. i.space = ""
        BY <1>F, <3>1
      <4>2. s = 0 /\ f = CompareNumbers[i.compare] /\ f \in 0 .. 7
        BY <1>2, <3>1, <4>1
      <4>3. s * 2^11 + f * 2^8 = f * 2^8
        <5> HIDE DEF s, f
        <5> QED  BY <4>2
      <4> QED  BY <3>1, <4>2, <4>3
    <3>2. CASE i.compare = "" /\ i.space # ""
      <4>1. f = 0 /\ s = SpaceNumbers[i.space] /\ s \in 0 .. 7
        BY <1>2, <3>2
      <4>2. s * 2^11 + f * 2^8 = s * 2^11
        <5> HIDE DEF s, f
        <5> QED  BY <4>1
      <4> QED  BY <3>2, <4>1, <4>2
    <3>3. CASE i.compare = "" /\ i.space = ""
      <4>1. f = 0 /\ s = 0
        BY <3>3
      <4>2. s * 2^11 + f * 2^8 = 0
        <5> HIDE DEF s, f
        <5> QED  BY <4>1
      <4> QED  BY <3>3, <4>2
    <3> QED  BY <3>1, <3>2, <3>3
  <2>4. (IF i.predicate # -1 /\ i.negated THEN 2^14 ELSE 0) = n * 2^14
    <3>1. CASE i.negated
      <4>1. i.predicate # -1
        BY <1>1, <3>1
      <4> QED  BY <3>1, <4>1
    <3>2. CASE ~i.negated
      BY <3>2
    <3> QED  BY <3>1, <3>2
  <2>5. TypeNumbers[EncodingType(i)] = t
    BY DEF Encodable, InstructionSet
  <2>6. PredCtrl(i) = t * 2^3 + (e * 2^15 + p) + (s * 2^11 + f * 2^8) + n * 2^14
    BY <2>2, <2>3, <2>4, <2>5 DEF PredCtrl, PredCtrlWithoutNegate
  <2> HIDE DEF o, e, n, p, f, s, t, w
  <2> QED  BY <1>2, <2>1, <2>6 DEF FourthWord
<1>4. /\ Field(w[4], 16, 16) = o /\ Field(w[4], 15, 1) = e /\ Field(w[4], 14, 1) = n /\ Field(w[4], 11, 3) = s
      /\ Field(w[4], 8, 3) = f /\ Field(w[4], 3, 4) = t /\ Field(w[4], 0, 3) = p
  <2> HIDE DEF o, e, n, p, f, s, t, w
  <2> DEFINE v == FourthWord(o, e, n, s, f, t, p)
  <2>1. /\ Field(v, 16, 16) = o /\ Field(v, 15, 1) = e /\ Field(v, 14, 1) = n /\ Field(v, 11, 3) = s
        /\ Field(v, 8, 3) = f /\ Field(v, 3, 4) = t /\ Field(v, 0, 3) = p
    BY <1>2, FieldsOfTheWord DEF AreFields
  <2> QED  BY <1>3, <2>1
<1>5. Field(w[3], 16, 16) = i.dest /\ Field(w[3], 0, 16) = i.src1
  <2>1. i.dest \in 0 .. 2^16 - 1 /\ i.src1 \in 0 .. 2^16 - 1
    BY DEF Encodable, InstructionSet
  <2>2. w[3] = (i.dest % 2^16) * 2^16 + (i.src1 % 2^16)
    BY DEF Encode
  <2>3. w[3] = i.dest * 2^16 + i.src1
    <3>1. i.dest % 2^16 = i.dest /\ i.src1 % 2^16 = i.src1
      BY <2>1
    <3> HIDE DEF w
    <3> QED  BY <2>2, <3>1
  <2>4. w[3] \div 2^16 = i.dest /\ w[3] % 2^16 = i.src1 /\ w[3] \div 2^0 = w[3]
    <3> HIDE DEF w
    <3> QED  BY <2>1, <2>3
  <2> HIDE DEF w
  <2> QED  BY <2>1, <2>4 DEF Field
<1>6. /\ w[2] = i.src2
      /\ i.src3 = IF UsesImmediate(i.opcode) THEN 0 ELSE w[1]
      /\ imm = IF UsesImmediate(i.opcode) THEN w[1] ELSE 0
  <2>1. /\ i.src2 \in 0 .. WordValues - 1 /\ i.src3 \in 0 .. WordValues - 1
        /\ i.opcode # "LOADI" => i.imm \in 0 .. WordValues - 1
        /\ WordValues \in Nat
    BY WordAssumption DEF Encodable, InstructionSet
  <2>2. w[2] = i.src2 % WordValues /\ w[1] = (IF UsesImmediate(i.opcode) THEN i.imm ELSE i.src3) % WordValues
    BY DEF Encode
  <2>3. \A v \in 0 .. WordValues - 1 : v % WordValues = v
    BY <2>1
  <2>4. IF UsesImmediate(i.opcode) THEN i.src3 = 0 ELSE i.imm = 0
    BY DEF Encodable, InstructionSet
  <2>5. UsesImmediate("LOADI")
    BY DEF UsesImmediate
  <2> HIDE DEF w
  <2>6. imm = IF UsesImmediate(i.opcode) THEN w[1] ELSE 0
    <3>1. CASE i.opcode = "LOADI"
      BY <2>2, <2>5, <3>1
    <3>2. CASE i.opcode # "LOADI"
      BY <2>1, <2>2, <2>3, <2>4, <3>2
    <3> QED  BY <3>1, <3>2
  <2> HIDE DEF imm
  <2> QED  BY <2>1, <2>2, <2>3, <2>4, <2>6
<1>7. NameOf(OpcodeNumbers, o) = i.opcode /\ NameOf(TypeNumbers, t) = i.type
  BY <1>1, NamesOfCodes
<1>8. /\ i.opcode = "CMPP" => NameOf(CompareNumbers, f) = i.compare
      /\ i.opcode \in {"LD", "ST"} => NameOf(SpaceNumbers, s) = i.space
  BY <1>1, NamesOfCodes
<1>9. (IF i.opcode = "BRX" \/ e = 1 THEN p ELSE -1) = i.predicate
  <2>1. CASE i.predicate = -1
    BY <1>N, <2>1
  <2>2. CASE i.predicate # -1
    BY <2>2
  <2> QED  BY <2>1, <2>2
<1>10. (i.predicate # -1 /\ n = 1) = i.negated
  <2>1. CASE i.negated = TRUE
    <3>1. i.predicate # -1 /\ n = 1
      BY <1>N, <2>1
    <3> HIDE DEF n
    <3> QED  BY <2>1, <3>1
  <2>2. CASE i.negated = FALSE
    <3>1. n # 1
      BY <2>2
    <3> HIDE DEF n
    <3> QED  BY <2>2, <3>1
  <2> QED  BY <1>P, <2>1, <2>2
<1>11. Meant(i) = [opcode |-> i.opcode, type |-> i.type, dest |-> i.dest, src1 |-> i.src1, src2 |-> i.src2,
            src3 |-> i.src3, imm |-> imm, predicate |-> i.predicate, negated |-> i.negated,
            compare |-> i.compare, space |-> i.space]
  <2>1. Meant(i) = [i EXCEPT !.imm = imm]
    BY DEF Meant
  <2> HIDE DEF imm
  <2> QED  BY <2>1 DEF Encodable, InstructionSet
<1>12. Decode(w) =
        [opcode |-> i.opcode, type |-> i.type, dest |-> i.dest, src1 |-> i.src1, src2 |-> i.src2,
            src3 |-> i.src3, imm |-> imm, predicate |-> i.predicate, negated |-> i.negated,
            compare |-> i.compare, space |-> i.space]
  <2> HIDE DEF o, e, n, p, f, s, t, w, imm
  <2>1. (IF i.opcode = "CMPP" THEN NameOf(CompareNumbers, f) ELSE "") = i.compare
    BY <1>1, <1>8
  <2>2. (IF i.opcode \in {"LD", "ST"} THEN NameOf(SpaceNumbers, s) ELSE "") = i.space
    BY <1>1, <1>8
  <2> QED  BY <1>4, <1>5, <1>6, <1>7, <1>9, <1>10, <2>1, <2>2 DEF Decode
<1> QED  BY <1>11, <1>12

-----------------------------------------------------------------------------
(* Everything the lowering emits has an encoding. *)

Guards == {g \in [predicate: -1 .. 7, negated: BOOLEAN] : g.predicate = -1 => g.negated = FALSE}
AllEncodable(s) == \A n \in 1 .. Len(s) : Encodable(s[n])
\* An instruction that has no guard yet and may be given one.
Unguarded(i) == Encodable(i) /\ i.predicate = -1

\* A guard leaves an instruction encodable.
LEMMA GuardedIsEncodable ==
  ASSUME NEW i, NEW g \in Guards
  PROVE  /\ Unguarded(i) => Encodable(Under(i, g))
         /\ Encodable(i) => Encodable(Emit(i, g))
<1>1. g.predicate \in -1 .. 7 /\ g.negated \in BOOLEAN /\ (g.predicate = -1 => g.negated = FALSE)
  BY DEF Guards
<1>2. ASSUME Unguarded(i) PROVE Encodable(Under(i, g))
  <2>1. Under(i, g) = [i EXCEPT !.predicate = g.predicate, !.negated = g.negated]
    BY DEF Under
  <2>2. i.opcode # "BRX"
    BY <1>2 DEF Unguarded, Encodable
  <2> DEFINE u == Under(i, g)
  <2>3. /\ u.opcode = i.opcode /\ u.type = i.type /\ u.src3 = i.src3 /\ u.imm = i.imm /\ u.compare = i.compare
        /\ u.space = i.space /\ u.predicate = g.predicate /\ u.negated = g.negated
    BY <2>1, <1>2 DEF Unguarded, Encodable, InstructionSet
  <2>4. u \in InstructionSet
    BY <1>1, <1>2, <2>1 DEF Unguarded, Encodable, InstructionSet
  <2>5. EncodingType(u) = EncodingType(i)
    <3> HIDE DEF u
    <3> QED  BY <2>3 DEF EncodingType
  <2> HIDE DEF u
  <2>6. Encodable(u)
    BY <1>1, <1>2, <2>2, <2>3, <2>4, <2>5 DEF Unguarded, Encodable
  <2> QED  BY <2>6 DEF u
<1>3. ASSUME Encodable(i) PROVE Encodable(Emit(i, g))
  BY <1>2, <1>3 DEF Emit, Unguarded, NoPredicate
<1> QED  BY <1>2, <1>3

\* The guard of an item and the guard of a branch are guards.
LEMMA ItemGuards ==
  ASSUME NEW i \in Items, Lowerable(i)
  PROVE  /\ OwnGuard(i) \in Guards /\ NoGuard \in Guards
         /\ i.guarded => OwnGuard(i).predicate # -1 /\ BranchGuard(i) \in Guards
<1>1. i.negated \in BOOLEAN /\ i.guarded \in BOOLEAN
  BY DEF Items
<1>2. NoGuard \in Guards
  BY DEF NoGuard, NoPredicate, Guards
<1>3. ASSUME i.guarded
      PROVE  OwnGuard(i) \in Guards /\ OwnGuard(i).predicate # -1 /\ BranchGuard(i) \in Guards
  <2>1. PredNumber[i.guard] \in 0 .. 7
    BY <1>3, NumbersAssumption DEF Lowerable
  <2>2. OwnGuard(i) = [predicate |-> PredNumber[i.guard], negated |-> i.negated]
    BY <1>3 DEF OwnGuard
  <2>3. BranchGuard(i) = [predicate |-> PredNumber[i.guard], negated |-> ~i.negated]
    BY DEF BranchGuard
  <2> QED  BY <1>1, <2>1, <2>2, <2>3 DEF Guards
<1>4. ~i.guarded => OwnGuard(i) = NoGuard
  BY DEF OwnGuard
<1> QED  BY <1>2, <1>3, <1>4

\* Temporaries stay below R256, and so do the registers of operands.
LEMMA OperandsFit ==
  ASSUME NEW i \in Items, Lowerable(i), NEW k \in 1 .. 3
  PROVE  /\ Temporary(i, k) \in 0 .. 255
         /\ IsImmediate(i, k) => i.args[k].imm \in Int
         /\ (k \in DOMAIN i.args => i.args[k].reg \in {""} \cup DOMAIN RegNumber) => OperandReg(i, k) \in 0 .. 255
<1>1. Temporary(i, k) \in 0 .. 255
  <2> DEFINE before == {j \in 1 .. k - 1 : IsImmediate(i, j)}
  <2>1. IsFiniteSet(1 .. k - 1) /\ Cardinality(1 .. k - 1) = k - 1
    BY FS_Interval
  <2>2. Cardinality(before) <= k - 1 /\ Cardinality(before) \in Nat
    BY <2>1, FS_Subset, FS_CardinalityType
  <2> HIDE DEF before
  <2>3. TempBase \in Nat /\ TempBase + 2 <= 255
    BY NumbersAssumption
  <2>4. TempBase + Cardinality(before) \in 0 .. 255
    BY <2>2, <2>3
  <2> QED  BY <2>4 DEF Temporary, before
<1>2. IsImmediate(i, k) => i.args[k].imm \in Int
  <2>1. i.args \in Seq([reg: STRING, imm: Int])
    BY DEF Items
  <2>2. ASSUME NEW S, NEW s \in Seq(S), NEW n \in DOMAIN s PROVE s[n] \in S
    OBVIOUS
  <2>3. k \in DOMAIN i.args => i.args[k] \in [reg: STRING, imm: Int]
    BY <2>1, <2>2
  <2> QED  BY <2>3 DEF IsImmediate
<1>3. ASSUME k \in DOMAIN i.args => i.args[k].reg \in {""} \cup DOMAIN RegNumber
      PROVE  OperandReg(i, k) \in 0 .. 255
  <2>1. CASE k \notin DOMAIN i.args
    <3>1. OperandReg(i, k) = 0
      BY <2>1 DEF OperandReg, IsImmediate
    <3> QED  BY <3>1
  <2>2. CASE k \in DOMAIN i.args /\ i.args[k].reg = ""
    BY <1>1, <2>2 DEF OperandReg, IsImmediate
  <2>3. CASE k \in DOMAIN i.args /\ i.args[k].reg # ""
    <3>1. RegNumber \in [DOMAIN RegNumber -> 0 .. 255]
      BY NumbersAssumption
    <3>2. OperandReg(i, k) = RegNumber[i.args[k].reg]
      BY <2>3 DEF OperandReg, IsImmediate
    <3>3. i.args[k].reg \in DOMAIN RegNumber
      BY <1>3, <2>3
    <3> QED  BY <3>1, <3>2, <3>3
  <2> QED  BY <2>1, <2>2, <2>3
<1> QED  BY <1>1, <1>2, <1>3

\* How wide the fields are.
LEMMA Widths == WordValues \in Nat /\ WordValues >= 65536 /\ 2^16 = 65536
BY WordAssumption

\* Zero fits everywhere.
LEMMA ZeroFits == 0 \in 0 .. WordValues - 1
BY Widths

\* What an instruction without a guard has to meet.
LEMMA BareInstruction ==
  ASSUME NEW i \in InstructionSet, i.opcode \notin {"BRX", "SHL"},
         UsesImmediate(i.opcode) => i.type = "none",
         UsesImmediate(i.opcode) => i.src3 = 0, i.opcode # "LOADI" => i.imm = 0,
         i.predicate = -1, i.negated = FALSE,
         i.compare # "" <=> i.opcode = "CMPP", i.space # "" <=> i.opcode \in {"LD", "ST"}
  PROVE  Unguarded(i)
<1>1. EncodingType(i) = i.type
  <2>1. CASE UsesImmediate(i.opcode)
    BY <2>1 DEF EncodingType
  <2>2. CASE ~UsesImmediate(i.opcode)
    BY <2>2 DEF EncodingType
  <2> QED  BY <2>1, <2>2
<1>3. IF UsesImmediate(i.opcode) THEN i.src3 = 0 ELSE i.imm = 0
  BY DEF UsesImmediate
<1>4. i.opcode # "LOADI" => i.imm \in 0 .. WordValues - 1
  BY ZeroFits
<1> QED  BY <1>1, <1>3, <1>4 DEF Unguarded, Encodable

\* An instruction with the defaults of the dataclass.
IsBlank(i, opcode, type) ==
  /\ i \in InstructionSet /\ i.opcode = opcode /\ i.type = type /\ i.src3 = 0 /\ i.imm = 0
  /\ i.predicate = -1 /\ i.negated = FALSE /\ i.compare = "" /\ i.space = ""

\* AEC gives every field its default.
LEMMA Defaults ==
  ASSUME NEW opcode \in DOMAIN OpcodeNumbers, NEW type \in DOMAIN TypeNumbers
  PROVE  IsBlank(AEC(opcode, type), opcode, type)
BY Widths DEF AEC, InstructionSet, IsBlank

\* One instruction as a piece of code, and pieces put together.
LEMMA EncodablePieces ==
  /\ \A i : Encodable(i) => AllEncodable(<<i>>)
  /\ \A s, t : IsSequence(s) /\ IsSequence(t) /\ AllEncodable(s) /\ AllEncodable(t) => AllEncodable(s \o t)
<1>1. ASSUME NEW i, Encodable(i) PROVE AllEncodable(<<i>>)
  BY <1>1 DEF AllEncodable
<1>2. ASSUME NEW s, NEW t, IsSequence(s), IsSequence(t), AllEncodable(s), AllEncodable(t),
             NEW n \in 1 .. Len(s \o t)
      PROVE  Encodable((s \o t)[n])
  <2>0. Len(s) \in Nat /\ Len(t) \in Nat
    BY <1>2, SequenceFacts
  <2>1. CASE n <= Len(s)
    BY <1>2, <2>0, <2>1, Concatenated DEF AllEncodable
  <2>2. CASE n > Len(s)
    <3>1. n \in Len(s) + 1 .. Len(s) + Len(t) /\ n - Len(s) \in 1 .. Len(t)
      BY <1>2, <2>0, <2>2, Concatenated
    <3>2. (s \o t)[n] = t[n - Len(s)]
      BY <1>2, <3>1, Concatenated
    <3> QED  BY <1>2, <3>1, <3>2 DEF AllEncodable
  <2>3. Len(s \o t) \in Nat
    BY <1>2, <2>0, Concatenated
  <2> QED  BY <1>2, <2>0, <2>1, <2>2, <2>3
<1> QED  BY <1>1, <1>2 DEF AllEncodable

\* A LOADI is encodable.
LEMMA LoadsAnImmediate ==
  ASSUME NEW dest \in 0 .. 255, NEW imm \in Int
  PROVE  Unguarded([AEC("LOADI", "none") EXCEPT !.dest = dest, !.imm = imm])
<1> DEFINE blank == AEC("LOADI", "none")
           inst  == [blank EXCEPT !.dest = dest, !.imm = imm]
<1>1. "LOADI" \in DOMAIN OpcodeNumbers /\ "none" \in DOMAIN TypeNumbers /\ UsesImmediate("LOADI")
  BY DEF OpcodeNumbers, TypeNumbers, UsesImmediate
<1>2. IsBlank(blank, "LOADI", "none")
  BY <1>1, Defaults
<1>3. dest \in 0 .. 2^16 - 1
  BY Widths
<1> HIDE DEF blank
<1>4. /\ inst \in InstructionSet /\ inst.opcode = "LOADI" /\ inst.type = "none" /\ inst.src3 = 0
      /\ inst.predicate = -1 /\ inst.negated = FALSE /\ inst.compare = "" /\ inst.space = ""
  BY <1>2, <1>3 DEF InstructionSet, IsBlank
<1> HIDE DEF inst
<1>5. Unguarded(inst)
  BY <1>1, <1>4, BareInstruction
<1> QED  BY <1>5 DEF inst, blank

\* The loads of immediates are encodable, and at most three.
LEMMA LoadsAreEncodable ==
  ASSUME NEW i \in Items, Lowerable(i)
  PROVE  AllEncodable(LoadImmediates(i)) /\ Len(LoadImmediates(i)) \in 0 .. 3
<1>1. ASSUME NEW k \in 1 .. 3
      PROVE  /\ IsSequence(LoadImmediate(i, k)) /\ AllEncodable(LoadImmediate(i, k))
             /\ Len(LoadImmediate(i, k)) \in 0 .. 1
  <2>1. CASE IsImmediate(i, k)
    <3> DEFINE inst == [AEC("LOADI", "none") EXCEPT !.dest = Temporary(i, k), !.imm = i.args[k].imm]
    <3>1. Unguarded(inst)
      BY <2>1, OperandsFit, LoadsAnImmediate
    <3>5. LoadImmediate(i, k) = <<inst>>
      BY <2>1 DEF LoadImmediate
    <3> HIDE DEF inst
    <3> QED  BY <3>1, <3>5, Singleton, EncodablePieces DEF Unguarded
  <2>2. CASE ~IsImmediate(i, k)
    <3>1. LoadImmediate(i, k) = << >>
      BY <2>2 DEF LoadImmediate
    <3> QED  BY <3>1 DEF IsSequence, AllEncodable
  <2> QED  BY <2>1, <2>2
<1> DEFINE a == LoadImmediate(i, 1)
           b == LoadImmediate(i, 2)
           c == LoadImmediate(i, 3)
<1>2. /\ IsSequence(a) /\ IsSequence(b) /\ IsSequence(c) /\ AllEncodable(a) /\ AllEncodable(b) /\ AllEncodable(c)
      /\ Len(a) \in 0 .. 1 /\ Len(b) \in 0 .. 1 /\ Len(c) \in 0 .. 1
  BY <1>1
<1>3. LoadImmediates(i) = (a \o b) \o c
  BY DEF LoadImmediates
<1> HIDE DEF a, b, c
<1>4. IsSequence(a \o b) /\ AllEncodable(a \o b) /\ Len(a \o b) = Len(a) + Len(b)
  BY <1>2, Concatenated, EncodablePieces
<1>5. AllEncodable((a \o b) \o c) /\ Len((a \o b) \o c) = Len(a) + Len(b) + Len(c)
  BY <1>2, <1>4, Concatenated, EncodablePieces
<1> QED  BY <1>2, <1>3, <1>5

\* A number of a register fits wherever one is written.
LEMMA RegistersFit ==
  ASSUME NEW x \in 0 .. 255
  PROVE  x \in 0 .. 2^16 - 1 /\ x \in 0 .. WordValues - 1
BY Widths

AluOperands(opcode, type, dest, a, b, c) ==
  /\ opcode \in {"ADD", "SUB", "MUL", "MAD", "FMA", "AND", "CPY"} /\ type \in DOMAIN TypeNumbers
  /\ dest \in 0 .. 255 /\ a \in 0 .. 255 /\ b \in 0 .. 255 /\ c \in 0 .. 255

\* An instruction of the ALU is encodable.
LEMMA AluIsEncodable ==
  ASSUME NEW opcode, NEW type, NEW dest, NEW a, NEW b, NEW c, AluOperands(opcode, type, dest, a, b, c)
  PROVE  Unguarded([AEC(opcode, type) EXCEPT !.dest = dest, !.src1 = a, !.src2 = b, !.src3 = c])
<1> DEFINE blank == AEC(opcode, type)
           inst  == [blank EXCEPT !.dest = dest, !.src1 = a, !.src2 = b, !.src3 = c]
<1>1. opcode \in DOMAIN OpcodeNumbers /\ ~UsesImmediate(opcode) /\ opcode \notin {"BRX", "SHL", "CMPP", "LD", "ST"}
  BY DEF AluOperands, OpcodeNumbers, UsesImmediate
<1>2. IsBlank(blank, opcode, type)
  BY <1>1, Defaults DEF AluOperands
<1>3. /\ dest \in 0 .. 2^16 - 1 /\ a \in 0 .. 2^16 - 1
      /\ b \in 0 .. WordValues - 1 /\ c \in 0 .. WordValues - 1
  BY RegistersFit DEF AluOperands
<1> HIDE DEF blank
<1>4. /\ inst \in InstructionSet /\ inst.opcode = opcode /\ inst.imm = 0
      /\ inst.predicate = -1 /\ inst.negated = FALSE /\ inst.compare = "" /\ inst.space = ""
  BY <1>2, <1>3 DEF InstructionSet, IsBlank
<1> HIDE DEF inst
<1>5. Unguarded(inst)
  BY <1>1, <1>4, BareInstruction
<1> QED  BY <1>5 DEF inst, blank

\* A copy is encodable, of a special register too.
LEMMA CopyIsEncodable ==
  ASSUME NEW type \in DOMAIN TypeNumbers, NEW dest \in 0 .. 255, NEW a \in 0 .. 2^16 - 1
  PROVE  Unguarded([AEC("CPY", type) EXCEPT !.dest = dest, !.src1 = a])
<1> DEFINE blank == AEC("CPY", type)
           inst  == [blank EXCEPT !.dest = dest, !.src1 = a]
<1>1. "CPY" \in DOMAIN OpcodeNumbers /\ ~UsesImmediate("CPY")
  BY DEF OpcodeNumbers, UsesImmediate
<1>2. IsBlank(blank, "CPY", type)
  BY <1>1, Defaults
<1>3. dest \in 0 .. 2^16 - 1
  BY RegistersFit
<1> HIDE DEF blank
<1>4. /\ inst \in InstructionSet /\ inst.opcode = "CPY" /\ inst.imm = 0
      /\ inst.predicate = -1 /\ inst.negated = FALSE /\ inst.compare = "" /\ inst.space = ""
  BY <1>2, <1>3 DEF InstructionSet, IsBlank
<1> HIDE DEF inst
<1>5. Unguarded(inst)
  BY <1>1, <1>4, BareInstruction
<1> QED  BY <1>5 DEF inst, blank

\* A comparison is encodable.
LEMMA ComparisonIsEncodable ==
  ASSUME NEW type \in DOMAIN TypeNumbers, NEW dest \in 0 .. 255, NEW a \in 0 .. 255, NEW b \in 0 .. 255,
         NEW how \in DOMAIN CompareNumbers
  PROVE  Unguarded([AEC("CMPP", type) EXCEPT !.dest = dest, !.src1 = a, !.src2 = b, !.compare = how])
<1> DEFINE blank == AEC("CMPP", type)
           inst  == [blank EXCEPT !.dest = dest, !.src1 = a, !.src2 = b, !.compare = how]
<1>1. "CMPP" \in DOMAIN OpcodeNumbers /\ ~UsesImmediate("CMPP") /\ how # ""
  BY DEF OpcodeNumbers, UsesImmediate, CompareNumbers
<1>2. IsBlank(blank, "CMPP", type)
  BY <1>1, Defaults
<1>3. dest \in 0 .. 2^16 - 1 /\ a \in 0 .. 2^16 - 1 /\ b \in 0 .. WordValues - 1
  BY RegistersFit
<1> HIDE DEF blank
<1>4. /\ inst \in InstructionSet /\ inst.opcode = "CMPP" /\ inst.imm = 0
      /\ inst.predicate = -1 /\ inst.negated = FALSE /\ inst.compare = how /\ inst.space = ""
  BY <1>1, <1>2, <1>3 DEF InstructionSet, IsBlank
<1> HIDE DEF inst
<1>5. Unguarded(inst)
  BY <1>1, <1>4, BareInstruction
<1> QED  BY <1>5 DEF inst, blank

\* An access to memory is encodable.
LEMMA AccessIsEncodable ==
  ASSUME NEW type \in DOMAIN TypeNumbers, NEW dest \in 0 .. 255, NEW a \in 0 .. 255, NEW b \in 0 .. 255
  PROVE  /\ \A space \in DOMAIN SpaceNumbers :
              Unguarded([AEC("LD", type) EXCEPT !.dest = dest, !.src1 = a, !.space = space])
         /\ Unguarded([AEC("ST", type) EXCEPT !.src1 = a, !.src2 = b, !.space = "gmem"])
<1>1. /\ {"LD", "ST"} \subseteq DOMAIN OpcodeNumbers /\ ~UsesImmediate("LD") /\ ~UsesImmediate("ST")
      /\ "gmem" \in DOMAIN SpaceNumbers /\ \A space \in DOMAIN SpaceNumbers : space # ""
  BY DEF OpcodeNumbers, UsesImmediate, SpaceNumbers
<1>2. dest \in 0 .. 2^16 - 1 /\ a \in 0 .. 2^16 - 1 /\ b \in 0 .. WordValues - 1
  BY RegistersFit
<1>3. ASSUME NEW space \in DOMAIN SpaceNumbers
      PROVE  Unguarded([AEC("LD", type) EXCEPT !.dest = dest, !.src1 = a, !.space = space])
  <2> DEFINE blank == AEC("LD", type)
             inst  == [blank EXCEPT !.dest = dest, !.src1 = a, !.space = space]
  <2>1. IsBlank(blank, "LD", type)
    BY <1>1, Defaults
  <2> HIDE DEF blank
  <2>2. /\ inst \in InstructionSet /\ inst.opcode = "LD" /\ inst.imm = 0
        /\ inst.predicate = -1 /\ inst.negated = FALSE /\ inst.compare = "" /\ inst.space = space
    BY <1>2, <2>1 DEF InstructionSet, IsBlank
  <2> HIDE DEF inst
  <2>3. Unguarded(inst)
    BY <1>1, <2>2, BareInstruction
  <2> QED  BY <2>3 DEF inst, blank
<1>4. Unguarded([AEC("ST", type) EXCEPT !.src1 = a, !.src2 = b, !.space = "gmem"])
  <2> DEFINE blank == AEC("ST", type)
             inst  == [blank EXCEPT !.src1 = a, !.src2 = b, !.space = "gmem"]
  <2>1. IsBlank(blank, "ST", type)
    BY <1>1, Defaults
  <2> HIDE DEF blank
  <2>2. /\ inst \in InstructionSet /\ inst.opcode = "ST" /\ inst.imm = 0
        /\ inst.predicate = -1 /\ inst.negated = FALSE /\ inst.compare = "" /\ inst.space = "gmem"
    BY <1>1, <1>2, <2>1 DEF InstructionSet, IsBlank
  <2> HIDE DEF inst
  <2>3. Unguarded(inst)
    BY <1>1, <2>2, BareInstruction
  <2> QED  BY <2>3 DEF inst, blank
<1> QED  BY <1>3, <1>4

\* Control is encodable; a BRX has a guard.
LEMMA ControlIsEncodable ==
  /\ Unguarded(AEC("HALT", "none")) /\ Unguarded(AEC("BR", "none"))
  /\ \A g \in Guards : g.predicate # -1 => Encodable(Under(AEC("BRX", "none"), g))
  /\ \A g : AEC("BR", "none").opcode = "BR" /\ Under(AEC("BRX", "none"), g).opcode = "BRX"
<1>1. /\ {"HALT", "BR", "BRX"} \subseteq DOMAIN OpcodeNumbers /\ "none" \in DOMAIN TypeNumbers
      /\ ~UsesImmediate("HALT") /\ UsesImmediate("BR") /\ UsesImmediate("BRX")
  BY DEF OpcodeNumbers, TypeNumbers, UsesImmediate
<1>2. ASSUME NEW opcode \in {"HALT", "BR"} PROVE Unguarded(AEC(opcode, "none"))
  <2> DEFINE blank == AEC(opcode, "none")
  <2>1. IsBlank(blank, opcode, "none")
    BY <1>1, Defaults
  <2> HIDE DEF blank
  <2>2. Unguarded(blank)
    BY <1>1, <2>1, BareInstruction DEF IsBlank
  <2> QED  BY <2>2 DEF blank
<1>3. ASSUME NEW g \in Guards, g.predicate # -1 PROVE Encodable(Under(AEC("BRX", "none"), g))
  <2> DEFINE blank == AEC("BRX", "none")
             inst  == [blank EXCEPT !.predicate = g.predicate, !.negated = g.negated]
  <2>1. IsBlank(blank, "BRX", "none")
    BY <1>1, Defaults
  <2>2. g.predicate \in -1 .. 7 /\ g.negated \in BOOLEAN
    BY DEF Guards
  <2> HIDE DEF blank
  <2>3. /\ inst \in InstructionSet /\ inst.opcode = "BRX" /\ inst.type = "none" /\ inst.src3 = 0 /\ inst.imm = 0
        /\ inst.predicate # -1 /\ inst.compare = "" /\ inst.space = ""
    BY <1>3, <2>1, <2>2 DEF InstructionSet, IsBlank
  <2> HIDE DEF inst
  <2>4. EncodingType(inst) = inst.type
    BY <1>1, <2>3 DEF EncodingType
  <2>5. 0 \in 0 .. WordValues - 1
    BY Widths
  <2>6. Encodable(inst)
    BY <1>1, <2>3, <2>4, <2>5 DEF Encodable
  <2> QED  BY <2>6 DEF inst, blank, Under
<1>4. ASSUME NEW g PROVE AEC("BR", "none").opcode = "BR" /\ Under(AEC("BRX", "none"), g).opcode = "BRX"
  BY DEF AEC, Under
<1> QED  BY <1>2, <1>3, <1>4

\* One instruction under the guard of its item, behind loads or alone.
LEMMA UnderItsGuard ==
  ASSUME NEW i \in Items, Lowerable(i), NEW inst, Unguarded(inst)
  PROVE  /\ AllEncodable(<<Under(inst, OwnGuard(i))>>) /\ Len(<<Under(inst, OwnGuard(i))>>) \in 0 .. 4
         /\ AllEncodable(LoadImmediates(i) \o <<Under(inst, OwnGuard(i))>>)
         /\ Len(LoadImmediates(i) \o <<Under(inst, OwnGuard(i))>>) \in 0 .. 4
<1> DEFINE piece == <<Under(inst, OwnGuard(i))>>
           loads == LoadImmediates(i)
<1>1. Encodable(Under(inst, OwnGuard(i)))
  BY ItemGuards, GuardedIsEncodable
<1>2. AllEncodable(piece) /\ IsSequence(piece) /\ Len(piece) = 1
  BY <1>1, EncodablePieces, Singleton
<1>3. IsSequence(loads) /\ AllEncodable(loads) /\ Len(loads) \in 0 .. 3
  BY ImmediatesAreLoaded, LoadsAreEncodable
<1> HIDE DEF piece, loads
<1>4. AllEncodable(loads \o piece)
  BY <1>2, <1>3, EncodablePieces
<1>5. Len(loads \o piece) = Len(loads) + Len(piece)
  BY <1>2, <1>3, Concatenated
<1>6. Len(piece) \in 0 .. 4 /\ Len(loads \o piece) \in 0 .. 4
  <2>1. ASSUME NEW m \in 0 .. 3, NEW n, n = m + 1 PROVE n \in 0 .. 4
    BY <2>1
  <2>2. Len(piece) \in 0 .. 4
    BY <1>2
  <2>3. Len(loads \o piece) = Len(loads) + 1
    BY <1>2, <1>5
  <2> QED  BY <1>3, <2>1, <2>2, <2>3
<1> QED  BY <1>2, <1>4, <1>6 DEF piece, loads

\* What an item becomes is encodable, and four instructions at most.
LEMMA LoweredIsEncodable ==
  ASSUME NEW i \in Items, Lowerable(i)
  PROVE  AllEncodable(LowerItem(i)) /\ Len(LowerItem(i)) \in 0 .. 4
<1> DEFINE Good(s) == AllEncodable(s) /\ Len(s) \in 0 .. 4
<1>0. Good(<<AEC("HALT", "none")>>)
  BY ControlIsEncodable, EncodablePieces, Singleton DEF Unguarded
<1>1. Good(LowerBra(i))
  <2>1. CASE i.guarded
    <3>1. Encodable(Under(AEC("BRX", "none"), OwnGuard(i)))
      BY <2>1, ItemGuards, ControlIsEncodable
    <3>2. LowerBra(i) = <<Under(AEC("BRX", "none"), OwnGuard(i))>>
      BY <2>1 DEF LowerBra
    <3> QED  BY <3>1, <3>2, EncodablePieces, Singleton
  <2>2. CASE ~i.guarded
    <3>1. LowerBra(i) = <<AEC("BR", "none")>>
      BY <2>2 DEF LowerBra
    <3> QED  BY <3>1, ControlIsEncodable, EncodablePieces, Singleton DEF Unguarded
  <2> QED  BY <2>1, <2>2
<1>2. /\ RegNumber \in [DOMAIN RegNumber -> 0 .. 255] /\ PredNumber \in [PredRegs -> 0 .. 7]
      /\ TempBase \in 0 .. 255
  <2>1. TempBase \in Nat /\ TempBase + 2 <= 255
    BY NumbersAssumption
  <2>2. RegNumber \in [DOMAIN RegNumber -> 0 .. 255] /\ PredNumber \in [PredRegs -> 0 .. 7]
    BY NumbersAssumption
  <2> QED  BY <2>1, <2>2
<1>3. ASSUME i.op # "mov", NEW k \in 1 .. 3 PROVE OperandReg(i, k) \in 0 .. 255
  <2>1. k \in DOMAIN i.args => i.args[k].reg \in {""} \cup DOMAIN RegNumber
    BY <1>3 DEF Lowerable
  <2> QED  BY <2>1, OperandsFit
<1>4. ASSUME i.op = "param" PROVE Good(LowerLdParam(i))
  <2>1. i.type \in DOMAIN TypeNumbers /\ i.dest \in DOMAIN RegNumber
    BY <1>4 DEF Lowerable
  <2> DEFINE inst == [AEC("LD", i.type) EXCEPT !.dest = RegNumber[i.dest], !.src1 = TempBase, !.space = "pmem"]
  <2>2. RegNumber[i.dest] \in 0 .. 255 /\ "pmem" \in DOMAIN SpaceNumbers
    BY <1>2, <2>1 DEF SpaceNumbers
  <2>3. Unguarded(inst)
    BY <1>2, <2>1, <2>2, AccessIsEncodable
  <2>4. LowerLdParam(i) = LoadImmediates(i) \o <<inst>>
    BY DEF LowerLdParam
  <2> HIDE DEF inst
  <2>5. AllEncodable(<<inst>>) /\ IsSequence(<<inst>>) /\ Len(<<inst>>) = 1
    BY <2>3, EncodablePieces, Singleton DEF Unguarded
  <2>6. IsSequence(LoadImmediates(i)) /\ AllEncodable(LoadImmediates(i)) /\ Len(LoadImmediates(i)) \in 0 .. 3
    BY ImmediatesAreLoaded, LoadsAreEncodable
  <2>7. AllEncodable(LoadImmediates(i) \o <<inst>>) /\ Len(LoadImmediates(i) \o <<inst>>) = Len(LoadImmediates(i)) + 1
    BY <2>5, <2>6, EncodablePieces, Concatenated
  <2> QED  BY <2>4, <2>6, <2>7
<1>5. ASSUME i.op = "ld" PROVE Good(LowerLdGlobal(i))
  <2>1. i.type \in DOMAIN TypeNumbers /\ i.dest \in DOMAIN RegNumber
    BY <1>5 DEF Lowerable
  <2>2. RegNumber[i.dest] \in 0 .. 255 /\ OperandReg(i, 1) \in 0 .. 255 /\ "gmem" \in DOMAIN SpaceNumbers
    BY <1>2, <1>3, <1>5, <2>1 DEF SpaceNumbers
  <2>3. Unguarded([AEC("LD", i.type) EXCEPT !.dest = RegNumber[i.dest], !.src1 = OperandReg(i, 1), !.space = "gmem"])
    BY <2>1, <2>2, AccessIsEncodable
  <2> QED  BY <2>3, UnderItsGuard DEF LowerLdGlobal
<1>6. ASSUME i.op = "st" PROVE Good(LowerStGlobal(i))
  <2>1. i.type \in DOMAIN TypeNumbers
    BY <1>6 DEF Lowerable
  <2>2. OperandReg(i, 1) \in 0 .. 255 /\ OperandReg(i, 2) \in 0 .. 255
    BY <1>3, <1>6
  <2>3. Unguarded([AEC("ST", i.type) EXCEPT !.src1 = OperandReg(i, 1), !.src2 = OperandReg(i, 2), !.space = "gmem"])
    BY <2>1, <2>2, AccessIsEncodable
  <2> QED  BY <2>3, UnderItsGuard DEF LowerStGlobal
<1>7. ASSUME i.op = "mov" PROVE Good(LowerMov(i))
  <2>1. i.type \in DOMAIN TypeNumbers /\ i.dest \in DOMAIN RegNumber /\ 1 \in DOMAIN i.args
    BY <1>7 DEF Lowerable
  <2>2. RegNumber[i.dest] \in 0 .. 255
    BY <1>2, <2>1
  <2>3. CASE IsImmediate(i, 1)
    <3>1. Unguarded([AEC("LOADI", "none") EXCEPT !.dest = RegNumber[i.dest], !.imm = i.args[1].imm])
      <4>1. i.args[1].imm \in Int
        <5>1. 1 \in 1 .. 3
          OBVIOUS
        <5> QED  BY <2>3, <5>1, OperandsFit
      <4> QED  BY <2>2, <4>1, LoadsAnImmediate
    <3> DEFINE inst == [AEC("LOADI", "none") EXCEPT !.dest = RegNumber[i.dest], !.imm = i.args[1].imm]
    <3>2. LowerMov(i) = <<Under(inst, OwnGuard(i))>>
      <4>1. i.args[1].reg \notin Specials
        BY <2>3, NumbersAssumption DEF IsImmediate
      <4> QED  BY <2>3, <4>1 DEF LowerMov
    <3>3. Unguarded(inst)
      BY <3>1
    <3> HIDE DEF inst
    <3> QED  BY <3>2, <3>3, UnderItsGuard
  <2>4. CASE ~IsImmediate(i, 1) /\ i.args[1].reg \in Specials
    <3>1. SpecialNumber[i.args[1].reg] \in 0 .. 2^16 - 1 /\ "u32" \in DOMAIN TypeNumbers
      <4>1. SpecialNumber \in [Specials -> 256 .. 2^16 - 1]
        BY NumbersAssumption
      <4>2. SpecialNumber[i.args[1].reg] \in 256 .. 2^16 - 1
        BY <2>4, <4>1
      <4> QED  BY <4>2, Widths DEF TypeNumbers
    <3>2. Unguarded([AEC("CPY", "u32") EXCEPT !.dest = RegNumber[i.dest], !.src1 = SpecialNumber[i.args[1].reg]])
      BY <2>2, <3>1, CopyIsEncodable
    <3>3. LowerMov(i) = <<Under([AEC("CPY", "u32") EXCEPT !.dest = RegNumber[i.dest],
                                                         !.src1 = SpecialNumber[i.args[1].reg]], OwnGuard(i))>>
      BY <2>4 DEF LowerMov
    <3> QED  BY <3>2, <3>3, UnderItsGuard
  <2>5. CASE ~IsImmediate(i, 1) /\ i.args[1].reg \notin Specials
    <3>1. i.args[1].reg \in {""} \cup DOMAIN RegNumber
      BY <2>1, <2>5 DEF Lowerable
    <3>2. OperandReg(i, 1) \in 0 .. 255
      <4>1. 1 \in DOMAIN i.args => i.args[1].reg \in {""} \cup DOMAIN RegNumber
        BY <3>1
      <4>2. 1 \in 1 .. 3
        OBVIOUS
      <4> QED  BY <4>1, <4>2, OperandsFit
    <3>3. OperandReg(i, 1) \in 0 .. 2^16 - 1
      BY <3>2, RegistersFit
    <3>4. Unguarded([AEC("CPY", i.type) EXCEPT !.dest = RegNumber[i.dest], !.src1 = OperandReg(i, 1)])
      BY <2>1, <2>2, <3>3, CopyIsEncodable
    <3>5. LowerMov(i) = <<Under([AEC("CPY", i.type) EXCEPT !.dest = RegNumber[i.dest], !.src1 = OperandReg(i, 1)],
                                OwnGuard(i))>>
      BY <2>5 DEF LowerMov
    <3> QED  BY <3>4, <3>5, UnderItsGuard
  <2> QED  BY <2>3, <2>4, <2>5
<1>8. ASSUME i.op = "setp" PROVE Good(LowerSetp(i))
  <2>1. i.type \in DOMAIN TypeNumbers /\ i.dest \in PredRegs /\ i.compare \in DOMAIN CompareNumbers
    BY <1>8 DEF Lowerable
  <2>2. PredNumber[i.dest] \in 0 .. 255 /\ OperandReg(i, 1) \in 0 .. 255 /\ OperandReg(i, 2) \in 0 .. 255
    BY <1>2, <1>3, <1>8, <2>1
  <2>3. Unguarded([AEC("CMPP", i.type) EXCEPT !.dest = PredNumber[i.dest], !.src1 = OperandReg(i, 1),
                     !.src2 = OperandReg(i, 2), !.compare = i.compare])
    BY <2>1, <2>2, ComparisonIsEncodable
  <2> QED  BY <2>3, UnderItsGuard DEF LowerSetp
<1>9. ASSUME i.op \in DOMAIN AluOpcode PROVE Good(LowerAlu(i))
  <2>1. i.op \notin {"ret", "bra", "mov"} /\ AluOpcode[i.op] \in {"ADD", "SUB", "MUL", "MAD", "FMA", "AND", "CPY"}
    BY <1>9 DEF AluOpcode
  <2>2. i.type \in DOMAIN TypeNumbers /\ i.dest \in DOMAIN RegNumber
    BY <1>9, <2>1 DEF Lowerable
  <2>3. /\ RegNumber[i.dest] \in 0 .. 255 /\ OperandReg(i, 1) \in 0 .. 255 /\ OperandReg(i, 2) \in 0 .. 255
        /\ OperandReg(i, 3) \in 0 .. 255
    BY <1>2, <1>3, <2>1, <2>2
  <2>4. Unguarded([AEC(AluOpcode[i.op], i.type) EXCEPT !.dest = RegNumber[i.dest], !.src1 = OperandReg(i, 1),
                     !.src2 = OperandReg(i, 2), !.src3 = OperandReg(i, 3)])
    <3>1. AluOperands(AluOpcode[i.op], i.type, RegNumber[i.dest], OperandReg(i, 1), OperandReg(i, 2), OperandReg(i, 3))
      BY <2>1, <2>2, <2>3 DEF AluOperands
    <3> QED  BY <3>1, AluIsEncodable
  <2> QED  BY <2>4, UnderItsGuard DEF LowerAlu
<1>10. i.op \in DOMAIN AluOpcode \cup {"ret", "bra", "param", "ld", "st", "mov", "setp"}
  BY DEF Lowerable
<1> HIDE DEF Good
<1>11. Good(LowerItem(i))
  <2>1. i.op \in DOMAIN AluOpcode => i.op \notin {"ret", "bra", "param", "ld", "st", "mov", "setp"}
    BY DEF AluOpcode
  <2> QED  BY <1>0, <1>1, <1>4, <1>5, <1>6, <1>7, <1>8, <1>9, <1>10, <2>1 DEF LowerItem
<1> QED  BY <1>11 DEF Good

\* A branch becomes one instruction, which is a branch.
LEMMA LoweredBranch ==
  ASSUME NEW i \in Items, IsBranch(i), NEW g
  PROVE  LowerItem(i)[1].opcode \in {"BR", "BRX"} /\ Emit(LowerItem(i)[1], g).opcode \in {"BR", "BRX"}
<1>1. LowerItem(i) = LowerBra(i)
  <2>1. i.op = "bra"
    BY DEF IsBranch, Items
  <2> QED  BY <2>1 DEF LowerItem
<1>2. LowerBra(i)[1].opcode \in {"BR", "BRX"}
  BY ControlIsEncodable, Singleton DEF LowerBra
<1>3. ASSUME NEW inst, inst.opcode \in {"BR", "BRX"} PROVE Under(inst, g).opcode \in {"BR", "BRX"}
  BY <1>3 DEF Under
<1> QED  BY <1>1, <1>2, <1>3 DEF Emit
-----------------------------------------------------------------------------
(* Labels. *)

\* A program that has a CFG has a label for every branch.
LEMMA SourceFacts ==
  ASSUME source \in Programs
  PROVE  /\ source \in Seq(Items) /\ Len(source) \in Nat
         /\ \A k \in 1 .. Len(source) : source[k] \in Items
         /\ \A k \in LabelPositions(source) : k \in 1 .. Len(source) /\ source[k].label \in LabelsOf(source)
         /\ \A k \in 1 .. Len(source) : IsBranch(source[k]) => source[k].label \in LabelsOf(source)
<1>1. source \in Seq(Items) /\ ~BuildFails(source)
  BY ProgramsAssumption
<1>2. \A k \in 1 .. Len(source) : IsBranch(source[k]) => source[k].label \in LabelsOf(source)
  BY <1>1 DEF BuildFails
<1> QED  BY <1>1, <1>2 DEF LabelPositions, LabelsOf

\* A program with a CFG has no label twice.
LEMMA LabelsAreUnique ==
  ASSUME source \in Programs, NEW j \in LabelPositions(source), NEW k \in LabelPositions(source),
         source[j].label = source[k].label
  PROVE  j = k
<1> DEFINE f == [i \in LabelPositions(source) |-> source[i].label]
<1>1. IsFiniteSet(LabelPositions(source))
  <2>1. IsFiniteSet(1 .. Len(source))
    BY SourceFacts, FS_Interval
  <2>2. LabelPositions(source) \subseteq 1 .. Len(source)
    BY DEF LabelPositions
  <2> QED  BY <2>1, <2>2, FS_Subset
<1>2. f \in Surjection(LabelPositions(source), LabelsOf(source))
  BY DEF Surjection, LabelsOf
<1>3. Cardinality(LabelPositions(source)) = Cardinality(LabelsOf(source))
  BY ProgramsAssumption DEF BuildFails
<1>4. f \in Injection(LabelPositions(source), LabelsOf(source))
  BY <1>1, <1>2, <1>3, FS_SurjSameCardinalityImpliesInj
<1> QED  BY <1>4 DEF Injection, IsInjective

\* Labels are unique, so a label leads back to its item.
LEMMA WhereALabelStands ==
  ASSUME source \in Programs, NEW k \in LabelPositions(source)
  PROVE  LabelAt(source, source[k].label) = k
<1>1. \E i \in LabelPositions(source) : source[i].label = source[k].label
  OBVIOUS
<1>2. LabelAt(source, source[k].label) \in LabelPositions(source)
      /\ source[LabelAt(source, source[k].label)].label = source[k].label
  BY <1>1 DEF LabelAt
<1> QED  BY <1>2, LabelsAreUnique

-----------------------------------------------------------------------------
(* The invariant holds at the start, and every step keeps it. *)

\* No code, no label and no branch at the start.
LEMMA InitInv == LoweringInit => CodeInv
<1> SUFFICES ASSUME LoweringInit PROVE CodeInv
  OBVIOUS
<1>1. IsSequence(code) /\ IsSequence(origin) /\ HasImmediate(code) /\ Len(code) = 0 /\ Len(origin) = 0
  BY DEF LoweringInit, IsSequence, HasImmediate
<1>2. OriginsAscend /\ PendingAreTheBranches /\ Targets
  BY <1>1 DEF LoweringInit, OriginsAscend, PendingAreTheBranches, Targets
<1>3. LabelsSplitTheCode
  BY DEF LoweringInit, LabelsSplitTheCode, Recorded
<1> QED  BY <1>1, <1>2, <1>3 DEF LoweringInit, CodeInv

\* The plan touches no code.
LEMMA PlanInv ==
  ASSUME CodeInv, Legalise \/ LeaveBranch \/ EndPlan
  PROVE  CodeInv'
<1> USE DEF CodeInv
<1>1. /\ stage = "plan" /\ stage' \in {"plan", "lower"} /\ source' = source
      /\ UNCHANGED <<code, origin, labels, pending>>
      /\ stage' = "lower" => item' = 1
  BY DEF Legalise, LeaveBranch, EndPlan, codeVars
<1>2. code = << >> /\ origin = << >> /\ pending = {}
  BY <1>1
<1>3. item' \in Nat \ {0}
  <2>1. CASE EndPlan
    BY <2>1 DEF EndPlan
  <2>2. CASE Legalise \/ LeaveBranch
    <3>1. \E l \in Open : \A m \in Open : l <= m
      <4>1. Open # {} /\ Open \subseteq Nat
        BY <2>2, SourceFacts DEF Legalise, LeaveBranch, Open, PredicatedBranches
      <4> QED  BY <4>1, LeastElement
    <3>2. First(Open) \in Open
      BY <3>1 DEF First
    <3>3. First(Open) \in Nat
      BY <3>2, SourceFacts DEF Open, PredicatedBranches
    <3> QED  BY <2>2, <3>3 DEF Legalise, LeaveBranch
  <2> QED  BY <2>1, <2>2
<1>4. OriginsAscend' /\ PendingAreTheBranches' /\ Targets' /\ HasImmediate(code)'
  BY <1>1, <1>2 DEF OriginsAscend, PendingAreTheBranches, Targets, HasImmediate
<1>5. LabelsSplitTheCode'
  <2>1. Recorded' = {}
    BY <1>1, SourceFacts DEF Recorded, LabelPositions
  <2> QED  BY <1>1, <2>1 DEF LabelsSplitTheCode
<1>6. stage' = "lower" => item' <= Len(source') + 1
  BY <1>1, SourceFacts
<1>7. IsSequence(code)' /\ IsSequence(origin)'
  BY <1>1 DEF IsSequence
<1> QED  BY <1>1, <1>2, <1>3, <1>4, <1>5, <1>6, <1>7

\* A label divides the code written from the code to come.
LEMMA RecordLabelInv ==
  ASSUME CodeInv, RecordLabel
  PROVE  CodeInv'
<1> USE DEF CodeInv
<1>1. /\ stage = "lower" /\ item \in LabelPositions(source)
      /\ labels' = [labels EXCEPT ![source[item].label] = Len(code)]
      /\ item' = item + 1 /\ UNCHANGED <<source, stage, code, origin, pending>>
  BY SourceFacts DEF RecordLabel, AtItem, Advance, LabelPositions
<1>2. Len(code) \in Nat /\ Len(source) \in Nat
  BY SequenceFacts, SourceFacts
<1>3. item' \in Nat \ {0} /\ item' <= Len(source') + 1
  BY <1>1, <1>2, SourceFacts
<1>4. OriginsAscend' /\ PendingAreTheBranches' /\ Targets' /\ HasImmediate(code)'
  <2>1. \A n \in 1 .. Len(origin) : origin[n] \in 1 .. Len(source) /\ origin[n] < item + 1
    BY <1>1, <1>2 DEF OriginsAscend
  <2> QED  BY <1>1, <2>1 DEF OriginsAscend, PendingAreTheBranches, Targets, HasImmediate
<1>5. LabelsSplitTheCode'
  <2>1. labels' \in [LabelsOf(source) -> Nat]
    BY <1>1, <1>2 DEF LabelsSplitTheCode
  <2>2. ASSUME NEW k \in Recorded'
        PROVE  /\ labels'[source[k].label] <= Len(code)
               /\ \A n \in 1 .. Len(code) : n <= labels'[source[k].label] <=> origin[n] < k
    <3>1. k \in LabelPositions(source) /\ k < item + 1
      BY <1>1 DEF Recorded
    <3>2. CASE k = item
      <4>1. labels'[source[k].label] = Len(code)
        BY <1>1, <3>2, SourceFacts DEF LabelsSplitTheCode
      <4>2. \A n \in 1 .. Len(code) : origin[n] < k
        BY <1>1, <3>2 DEF OriginsAscend
      <4> QED  BY <1>2, <4>1, <4>2
    <3>3. CASE k # item
      <4>1. k \in Recorded
        BY <1>1, <3>1, <3>3, SourceFacts DEF Recorded
      <4>2. source[k].label # source[item].label
        BY <1>1, <3>1, <3>3, LabelsAreUnique
      <4>3. labels'[source[k].label] = labels[source[k].label]
        BY <1>1, <3>1, <4>2, SourceFacts DEF LabelsSplitTheCode
      <4> QED  BY <4>1, <4>3 DEF LabelsSplitTheCode
    <3> QED  BY <3>2, <3>3
  <2> QED  BY <1>1, <2>1, <2>2 DEF LabelsSplitTheCode
<1>6. IsSequence(code)' /\ IsSequence(origin)'
  BY <1>1 DEF IsSequence
<1> QED  BY <1>1, <1>3, <1>4, <1>5, <1>6

\* A skipped item leaves no instruction behind.
LEMMA SkipItemInv ==
  ASSUME CodeInv, SkipItem
  PROVE  CodeInv'
<1> USE DEF CodeInv
<1>1. /\ stage = "lower" /\ item <= Len(source) /\ item \notin LabelPositions(source)
      /\ item' = item + 1 /\ UNCHANGED <<source, stage, code, origin, labels, pending>>
  BY DEF SkipItem, AtItem, Advance, LabelPositions, codeVars
<1>2. Len(code) \in Nat /\ Len(source) \in Nat
  BY SequenceFacts, SourceFacts
<1>3. item' \in Nat \ {0} /\ item' <= Len(source') + 1
  BY <1>1, <1>2
<1>4. OriginsAscend' /\ PendingAreTheBranches' /\ Targets' /\ HasImmediate(code)'
  <2>1. \A n \in 1 .. Len(origin) : origin[n] \in 1 .. Len(source) /\ origin[n] < item + 1
    BY <1>1, <1>2 DEF OriginsAscend
  <2> QED  BY <1>1, <2>1 DEF OriginsAscend, PendingAreTheBranches, Targets, HasImmediate
<1>5. Recorded' = Recorded
  BY <1>1, SourceFacts DEF Recorded
<1>6. LabelsSplitTheCode'
  BY <1>1, <1>5 DEF LabelsSplitTheCode
<1>7. IsSequence(code)' /\ IsSequence(origin)'
  BY <1>1 DEF IsSequence
<1> QED  BY <1>1, <1>3, <1>4, <1>6, <1>7

\* The sweep ends, in order or with an error.
LEMMA EndOfTheSweepInv ==
  ASSUME CodeInv, Refuse \/ EndItems
  PROVE  CodeInv'
<1> USE DEF CodeInv
<1>1. /\ stage = "lower" /\ stage' \in {"patch", "error"}
      /\ stage' = "patch" => item > Len(source)
      /\ UNCHANGED <<source, item, code, origin, labels, pending>>
  BY DEF Refuse, EndItems, AtItem, codeVars
<1>2. OriginsAscend' /\ PendingAreTheBranches' /\ Targets' /\ HasImmediate(code)'
  BY <1>1 DEF OriginsAscend, PendingAreTheBranches, Targets, HasImmediate
<1>3. Recorded' \subseteq Recorded
  BY <1>1, SourceFacts DEF Recorded
<1>4. LabelsSplitTheCode'
  BY <1>1, <1>3 DEF LabelsSplitTheCode
<1>5. IsSequence(code)' /\ IsSequence(origin)'
  BY <1>1 DEF IsSequence
<1> QED  BY <1>1, <1>2, <1>4, <1>5

\* An item's instructions come behind all others, and its branch is pending.
LEMMA LowerOneInv ==
  ASSUME CodeInv, LowerOne
  PROVE  CodeInv'
<1> DEFINE lowered == LowerItem(source[item])
           emitted == [j \in DOMAIN lowered |-> Emit(lowered[j], guards[item])]
           from    == [j \in DOMAIN lowered |-> item]
<1>1. /\ stage = "lower" /\ item \in 1 .. Len(source) /\ item \notin LabelPositions(source)
      /\ code' = code \o emitted /\ origin' = origin \o from
      /\ item' = item + 1 /\ UNCHANGED <<source, stage, labels>>
  BY DEF LowerOne, AtItem, Advance, LabelPositions, CodeInv
<1>0. /\ source \in Programs /\ IsSequence(code) /\ IsSequence(origin) /\ HasImmediate(code)
      /\ OriginsAscend /\ LabelsSplitTheCode /\ PendingAreTheBranches
  BY <1>1 DEF CodeInv
<1>2. pending' = IF IsBranch(source[item]) THEN pending \cup {<<Len(code) + 1, source[item].label>>} ELSE pending
  BY DEF LowerOne
<1>3. /\ IsSequence(lowered) /\ HasImmediate(lowered)
      /\ IsBranch(source[item]) => Len(lowered) = 1
  BY <1>0, <1>1, SourceFacts, LoweredItem
<1> HIDE DEF lowered
<1>4. Len(lowered) \in Nat /\ DOMAIN lowered = 1 .. Len(lowered)
  BY <1>0, <1>3, SequenceFacts
<1>5. /\ IsSequence(emitted) /\ Len(emitted) = Len(lowered) /\ HasImmediate(emitted)
      /\ IsSequence(from) /\ Len(from) = Len(lowered) /\ \A n \in 1 .. Len(lowered) : from[n] = item
  <2>1. ASSUME NEW n \in Nat, NEW e, e = [j \in 1 .. n |-> e[j]]
        PROVE  IsSequence(e) /\ Len(e) = n
    <3>1. e \in Seq({e[j] : j \in 1 .. n}) /\ DOMAIN e = 1 .. n
      BY <1>0, <2>1
    <3> QED  BY <1>0, <3>1 DEF IsSequence
  <2>2. /\ IsSequence(emitted) /\ Len(emitted) = Len(lowered)
        /\ IsSequence(from) /\ Len(from) = Len(lowered)
    BY <1>0, <1>4, <2>1
  <2>3. HasImmediate(emitted)
    BY <1>0, <1>3, <1>4, <2>2, UnderKeepsFields DEF HasImmediate
  <2> QED  BY <1>0, <1>4, <2>2, <2>3
<1> HIDE DEF emitted, from
<1>6. /\ Len(code) \in Nat /\ Len(origin) = Len(code) /\ Len(source) \in Nat
      /\ item \in Nat /\ item \in 1 .. Len(source)
      /\ IsBranch(source[item]) => Len(lowered) = 1
  BY <1>0, <1>1, <1>3, SequenceFacts, SourceFacts DEF OriginsAscend
<1>7. /\ IsSequence(code') /\ Len(code') = Len(code) + Len(lowered) /\ HasImmediate(code')
      /\ IsSequence(origin') /\ Len(origin') = Len(code')
  <2>1. IsSequence(code') /\ HasImmediate(code')
    BY <1>0, <1>1, <1>5, BothHaveImmediates
  <2>2. Len(code') = Len(code) + Len(lowered)
    BY <1>0, <1>1, <1>5, Concatenated
  <2>3. IsSequence(origin') /\ Len(origin') = Len(origin) + Len(lowered)
    BY <1>0, <1>1, <1>5, Concatenated
  <2> QED  BY <1>0, <1>6, <2>1, <2>2, <2>3
\* What is new comes from this item.
<1>8. /\ \A n \in 1 .. Len(code) : origin'[n] = origin[n]
      /\ \A n \in Len(code) + 1 .. Len(code') : origin'[n] = item
  <2>1. \A n \in 1 .. Len(origin) : origin'[n] = origin[n]
    BY <1>0, <1>1, <1>5, Concatenated
  <2>2. \A n \in Len(origin) + 1 .. Len(origin) + Len(lowered) : origin'[n] = from[n - Len(origin)]
    BY <1>0, <1>1, <1>5, Concatenated
  <2>3. \A n \in Len(origin) + 1 .. Len(origin) + Len(lowered) : n - Len(origin) \in 1 .. Len(lowered)
    BY <1>0, <1>4, <1>6
  <2> QED  BY <1>0, <1>5, <1>6, <1>7, <2>1, <2>2, <2>3
<1>9. \A n \in 1 .. Len(code) : origin[n] \in 1 .. Len(source) /\ origin[n] < item
  BY <1>0, <1>1, <1>6 DEF OriginsAscend
<1>10. OriginsAscend'
  <2>1. \A n \in 1 .. Len(code') : origin'[n] \in 1 .. Len(source) /\ origin'[n] < item + 1
    <3> SUFFICES ASSUME NEW n \in 1 .. Len(code')
                 PROVE  origin'[n] \in 1 .. Len(source) /\ origin'[n] < item + 1
      OBVIOUS
    <3>1. n \in 1 .. Len(code) \/ n \in Len(code) + 1 .. Len(code')
      BY <1>0, <1>4, <1>6, <1>7
    <3> QED  BY <1>6, <1>8, <1>9, <3>1
  <2>2. ASSUME NEW m \in 1 .. Len(code'), NEW n \in 1 .. Len(code'), m <= n
        PROVE  origin'[m] <= origin'[n]
    <3>1. CASE n \in 1 .. Len(code)
      <4>1. m \in 1 .. Len(code)
        BY <1>0, <1>6, <2>2, <3>1
      <4> QED  BY <1>0, <1>6, <1>8, <2>2, <3>1, <4>1 DEF OriginsAscend
    <3>2. CASE n \in Len(code) + 1 .. Len(code')
      <4>1. origin'[n] = item /\ origin'[m] < item + 1 /\ origin'[m] \in Nat
        BY <1>6, <1>7, <1>8, <2>1, <2>2, <3>2
      <4> QED  BY <1>6, <4>1
    <3> QED  BY <1>0, <1>4, <1>6, <1>7, <3>1, <3>2
  <2> QED  BY <1>0, <1>1, <1>7, <2>1, <2>2 DEF OriginsAscend
<1>11. LabelsSplitTheCode'
  <2>1. Recorded' = Recorded
    BY <1>0, <1>1, SourceFacts DEF Recorded
  <2>2. ASSUME NEW k \in Recorded
        PROVE  /\ labels[source[k].label] <= Len(code')
               /\ \A n \in 1 .. Len(code') : n <= labels[source[k].label] <=> origin'[n] < k
    <3>1. k \in Nat /\ k < item /\ source[k].label \in LabelsOf(source)
      BY <1>0, <1>1, SourceFacts DEF Recorded
    <3>2. /\ labels[source[k].label] \in Nat /\ labels[source[k].label] <= Len(code)
          /\ \A n \in 1 .. Len(code) : n <= labels[source[k].label] <=> origin[n] < k
      BY <1>0, <3>1 DEF LabelsSplitTheCode
    <3>3. ASSUME NEW n \in Len(code) + 1 .. Len(code')
          PROVE  ~(n <= labels[source[k].label]) /\ ~(origin'[n] < k)
      <4> DEFINE at == labels[source[k].label]
                 old == Len(code)
                 new == Len(code')
      <4>1. origin'[n] = item BY <1>8
      <4>2. k \in Nat /\ item \in Nat /\ k < item BY <1>6, <3>1
      <4>3. at \in Nat /\ old \in Nat /\ at <= old BY <1>6, <3>2
      <4>4. new \in Nat BY <1>4, <1>6, <1>7
      <4> HIDE DEF at, old, new
      <4>5. n \in old + 1 .. new BY DEF old, new
      <4>6. ~(n <= at) BY <4>3, <4>4, <4>5
      <4>7. ~(item < k) BY <4>2
      <4> QED  BY <4>1, <4>6, <4>7 DEF at
    <3>4. \A n \in 1 .. Len(code') : n \in 1 .. Len(code) \/ n \in Len(code) + 1 .. Len(code')
      BY <1>0, <1>4, <1>6, <1>7
    <3>5. labels[source[k].label] <= Len(code')
      BY <1>0, <1>4, <1>6, <1>7, <3>2
    <3> QED  BY <1>0, <1>8, <3>2, <3>3, <3>4, <3>5
  <2> QED  BY <1>0, <1>1, <2>1, <2>2 DEF LabelsSplitTheCode
<1>12. PendingAreTheBranches'
  <2>1. pending' \subseteq (1 .. Len(code')) \X LabelsOf(source)
    <3>1. pending \subseteq (1 .. Len(code')) \X LabelsOf(source)
      BY <1>0, <1>4, <1>6, <1>7 DEF PendingAreTheBranches
    <3>2. ASSUME IsBranch(source[item])
          PROVE  <<Len(code) + 1, source[item].label>> \in (1 .. Len(code')) \X LabelsOf(source)
      <4>1. source[item].label \in LabelsOf(source)
        BY <1>0, <1>6, <3>2, SourceFacts
      <4>2. Len(lowered) = 1
        BY <1>6, <3>2, Zenon
      <4> QED  BY <1>6, <1>7, <4>1, <4>2
    <3> QED  BY <1>0, <1>2, <3>1, <3>2
  <2>2. ASSUME NEW n \in 1 .. Len(code'), IsBranch(source[origin'[n]]), NEW l \in LabelsOf(source)
        PROVE  <<n, l>> \in pending' <=> l = source[origin'[n]].label
    <3>1. CASE n \in 1 .. Len(code)
      <4>1. <<n, l>> \in pending <=> l = source[origin[n]].label
        BY <1>0, <1>8, <2>2, <3>1 DEF PendingAreTheBranches
      <4>2. n # Len(code) + 1
        BY <1>0, <1>6, <3>1
      <4> QED  BY <1>0, <1>2, <1>8, <3>1, <4>1, <4>2
    <3>2. CASE n \in Len(code) + 1 .. Len(code')
      <4>1. origin'[n] = item /\ IsBranch(source[item])
        BY <1>0, <1>8, <2>2, <3>2
      <4>2. n = Len(code) + 1
        <5>1. Len(lowered) = 1
          BY <1>6, <4>1, Zenon
        <5> QED  BY <1>6, <1>7, <3>2, <5>1
      <4>3. <<n, l>> \notin pending
        BY <1>0, <1>6, <4>2 DEF PendingAreTheBranches
      <4> QED  BY <1>0, <1>2, <4>1, <4>2, <4>3
    <3> QED  BY <1>0, <1>4, <1>6, <1>7, <3>1, <3>2
  <2> QED  BY <1>0, <1>1, <2>1, <2>2 DEF PendingAreTheBranches
<1>13. Targets'
  BY <1>0, <1>1 DEF Targets
<1>14. item' \in Nat \ {0} /\ item' <= Len(source') + 1
  BY <1>0, <1>1, <1>6
<1> QED  BY <1>0, <1>1, <1>7, <1>10, <1>11, <1>12, <1>13, <1>14 DEF CodeInv

\* The branches receive their positions, and nothing else changes.
LEMMA PatchBranchesInv ==
  ASSUME CodeInv, PatchBranches
  PROVE  CodeInv'
<1> USE DEF CodeInv
<1>1. /\ stage = "patch" /\ stage' = "encode"
      /\ code' = [n \in DOMAIN code |-> Patched(n)]
      /\ UNCHANGED <<source, item, origin, labels, pending>>
  BY DEF PatchBranches
<1>2. Len(code) \in Nat /\ DOMAIN code = 1 .. Len(code)
  BY SequenceFacts
<1>3. IsSequence(code') /\ Len(code') = Len(code)
  <2>1. code' \in Seq({code'[n] : n \in 1 .. Len(code)}) /\ DOMAIN code' = 1 .. Len(code)
    BY <1>1, <1>2
  <2> QED  BY <1>2, <2>1 DEF IsSequence
<1>4. Recorded' = Recorded
  BY <1>1, SourceFacts DEF Recorded
<1>5. OriginsAscend' /\ LabelsSplitTheCode' /\ PendingAreTheBranches'
  BY <1>1, <1>3, <1>4 DEF OriginsAscend, LabelsSplitTheCode, PendingAreTheBranches
<1>6. ASSUME NEW n \in 1 .. Len(code), IsBranch(source[origin[n]])
      PROVE  code'[n].imm = labels[source[origin[n]].label]
  <2>1. source[origin[n]].label \in LabelsOf(source)
    <3>1. origin[n] \in 1 .. Len(source)
      BY DEF OriginsAscend
    <3> QED  BY <1>6, <3>1, SourceFacts
  <2>2. \A l \in LabelsOf(source) : <<n, l>> \in pending <=> l = source[origin[n]].label
    BY <1>6 DEF PendingAreTheBranches
  <2>3. (CHOOSE l \in LabelsOf(source) : <<n, l>> \in pending) = source[origin[n]].label
    BY <2>1, <2>2
  <2>4. Patched(n) = [code[n] EXCEPT !.imm = labels[source[origin[n]].label]]
    BY <2>1, <2>2, <2>3 DEF Patched
  <2>5. "imm" \in DOMAIN code[n]
    BY <1>1 DEF HasImmediate
  <2>6. Patched(n).imm = labels[source[origin[n]].label]
    BY <2>4, <2>5
  <2> QED  BY <1>1, <1>2, <2>6
<1>7. Targets'
  BY <1>1, <1>3, <1>6 DEF Targets
<1>8. IsSequence(origin)'
  BY <1>1 DEF IsSequence
<1> QED  BY <1>1, <1>3, <1>5, <1>7, <1>8

\* Patching gives every pending branch the position of its label.
LEMMA WriteCodeInv ==
  ASSUME CodeInv, WriteCode
  PROVE  CodeInv'
<1> USE DEF CodeInv
<1>1. /\ stage = "encode" /\ stage' = "done"
      /\ UNCHANGED <<source, item, code, origin, labels, pending>>
  BY DEF WriteCode, codeVars
<1>2. Recorded' = Recorded
  BY <1>1, SourceFacts DEF Recorded
<1>3. OriginsAscend' /\ LabelsSplitTheCode' /\ PendingAreTheBranches' /\ Targets'
  BY <1>1, <1>2 DEF OriginsAscend, LabelsSplitTheCode, PendingAreTheBranches, Targets
<1>4. IsSequence(code)' /\ IsSequence(origin)'
  BY <1>1 DEF IsSequence
<1> QED  BY <1>1, <1>3, <1>4

-----------------------------------------------------------------------------
(* The theorems. *)

\* Every step of the lowering keeps the invariant.
LEMMA NextInv == CodeInv /\ [LoweringNext]_loweringVars => CodeInv'
<1> SUFFICES ASSUME CodeInv, [LoweringNext]_loweringVars PROVE CodeInv'
  OBVIOUS
<1>1. CASE UNCHANGED loweringVars
  <2>1. UNCHANGED <<source, stage, item, code, origin, labels, pending>>
    BY <1>1 DEF loweringVars
  <2>2. Recorded' = Recorded
    BY <2>1 DEF Recorded
  <2>3. OriginsAscend' /\ LabelsSplitTheCode' /\ PendingAreTheBranches' /\ Targets' /\ HasImmediate(code)' = HasImmediate(code)
    BY <2>1, <2>2 DEF CodeInv, OriginsAscend, LabelsSplitTheCode, PendingAreTheBranches, Targets, HasImmediate
  <2>4. IsSequence(code)' /\ IsSequence(origin)'
    BY <2>1 DEF CodeInv, IsSequence
  <2> QED  BY <2>1, <2>3, <2>4 DEF CodeInv
<1>2. CASE LoweringNext
  BY <1>2, PlanInv, RecordLabelInv, SkipItemInv, LowerOneInv, EndOfTheSweepInv, PatchBranchesInv,
     WriteCodeInv DEF LoweringNext
<1> QED  BY <1>1, <1>2

\* How the code is made is an invariant: where its instructions come from, what
\* the labels divide, and which branches wait.
THEOREM CodeInvariance == LoweringSpec => []CodeInv
BY InitInv, NextInv, PTL DEF LoweringSpec

\* The labels divide the code, and the branches hold their positions.
LEMMA LabelsAreMet == CodeInv => BranchesLandOnTheirLabels
<1> SUFFICES ASSUME CodeInv, stage \in {"encode", "done"}, NEW j \in 1 .. Len(code), NEW n \in 1 .. Len(code),
                    IsBranch(source[origin[j]])
             PROVE  n <= code[j].imm <=> origin[n] < Target(source, origin[j])
  BY DEF BranchesLandOnTheirLabels
<1>1. code[j].imm = labels[source[origin[j]].label]
  BY DEF CodeInv, Targets
<1>2. source[origin[j]].label \in LabelsOf(source)
  <2>1. origin[j] \in 1 .. Len(source)
    BY DEF CodeInv, OriginsAscend
  <2> QED  BY <2>1, SourceFacts DEF CodeInv
<1>3. PICK k \in LabelPositions(source) : source[k].label = source[origin[j]].label
  BY <1>2 DEF LabelsOf
<1>4. Target(source, origin[j]) = k
  BY <1>3, WhereALabelStands DEF Target, CodeInv
<1>5. k \in Recorded
  BY <1>3 DEF Recorded
<1> QED  BY <1>1, <1>3, <1>4, <1>5 DEF CodeInv, LabelsSplitTheCode

\* Every branch of the finished code leads to the first instruction behind its
\* label, for every program that has a CFG.
THEOREM BranchesLand == LoweringSpec => []BranchesLandOnTheirLabels
BY LabelsAreMet, CodeInvariance, PTL

-----------------------------------------------------------------------------
(* The code can be written down. *)

\* Only branches wait for a position, and a position fits into a word.
WordInv ==
  /\ guards \in [1 .. Len(source) -> Guards]
  /\ stage \in {"plan", "lower"} => Len(code) <= 4 * (item - 1)
  /\ Len(code) <= 4 * Len(source)
  /\ AllEncodable(code)
  /\ \A n \in 1 .. Len(code) : \A l \in LabelsOf(source) : <<n, l>> \in pending => code[n].opcode \in {"BR", "BRX"}
  /\ stage = "done" => binary = [n \in DOMAIN code |-> Encode(code[n])]

\* Items have guards of their kind, and everything but a label can be lowered.
LEMMA SourceIsLowerable ==
  ASSUME source \in Programs
  PROVE  /\ \A k \in 1 .. Len(source) : ~IsLabel(source[k]) => Lowerable(source[k])
         /\ 4 * Len(source) < WordValues
BY LowerableAssumption

\* No guard and no code at the start.
LEMMA WordInit == LoweringInit => WordInv
<1> SUFFICES ASSUME LoweringInit PROVE WordInv
  OBVIOUS
<1>1. source \in Programs /\ stage = "plan" /\ item = 1 /\ code = << >> /\ pending = {}
      /\ guards = [k \in 1 .. Len(source) |-> NoGuard]
  BY DEF LoweringInit
<1>2. Len(source) \in Nat /\ Len(code) = 0
  BY <1>1, SourceFacts
<1>3. NoGuard \in Guards
  BY DEF NoGuard, NoPredicate, Guards
<1> QED  BY <1>1, <1>2, <1>3 DEF WordInv, AllEncodable

\* A region receives the guard of its branch.
LEMMA PlanWords ==
  ASSUME CodeInv, WordInv, Legalise \/ LeaveBranch \/ EndPlan
  PROVE  WordInv'
<1>1. /\ stage = "plan" /\ stage' \in {"plan", "lower"} /\ source' = source
      /\ UNCHANGED <<code, pending>>
  BY DEF Legalise, LeaveBranch, EndPlan, codeVars
<1>2. code = << >> /\ pending = {} /\ source \in Programs
  BY <1>1 DEF CodeInv
<1>3. Len(code) = 0 /\ Len(source) \in Nat
  BY <1>2, SourceFacts
<1>4. item' \in Nat \ {0}
  BY PlanInv DEF CodeInv
<1>5. guards' \in [1 .. Len(source) -> Guards]
  <2>1. guards \in [1 .. Len(source) -> Guards]
    BY DEF WordInv
  <2>2. CASE LeaveBranch \/ EndPlan
    BY <2>1, <2>2 DEF LeaveBranch, EndPlan, planVars
  <2>3. CASE Legalise
    <3> DEFINE k == First(Open)
    <3>1. \E l \in Open : \A m \in Open : l <= m
      <4>1. Open # {} /\ Open \subseteq Nat
        BY <1>2, <2>3, SourceFacts DEF Legalise, Open, PredicatedBranches
      <4> QED  BY <4>1, LeastElement
    <3>2. k \in Open
      BY <3>1 DEF First
    <3>3. k \in 1 .. Len(source) /\ source[k].guarded /\ IsBranch(source[k])
      BY <3>2 DEF Open, PredicatedBranches
    <3>4. source[k] \in Items /\ ~IsLabel(source[k])
      BY <1>2, <3>3, SourceFacts DEF IsBranch, IsLabel
    <3>5. BranchGuard(source[k]) \in Guards
      BY <1>2, <3>3, <3>4, SourceIsLowerable, ItemGuards
    <3>6. guards' = [j \in DOMAIN guards |-> IF j \in GuardedItems(source, k) THEN BranchGuard(source[k]) ELSE guards[j]]
      BY <2>3 DEF Legalise
    <3> HIDE DEF k
    <3> QED  BY <2>1, <3>5, <3>6
  <2> QED  BY <2>2, <2>3
<1>6. AllEncodable(code)'
  BY <1>1, <1>2, <1>3 DEF AllEncodable
<1>7. Len(code)' <= 4 * (item' - 1) /\ Len(code)' <= 4 * Len(source)'
  <2>1. \A k \in Nat : 0 <= 4 * k
    OBVIOUS
  <2>2. ASSUME NEW k \in Nat \ {0} PROVE 0 <= 4 * (k - 1)
    OBVIOUS
  <2>3. 0 <= 4 * (item' - 1)
    BY <1>4, <2>2
  <2> QED  BY <1>1, <1>3, <2>1, <2>3
<1> QED  BY <1>1, <1>2, <1>3, <1>5, <1>6, <1>7 DEF WordInv

\* Four instructions for every item.
LEMMA FourEach ==
  ASSUME NEW k \in Nat, NEW n \in Nat, NEW m \in 0 .. 4, n <= 4 * (k - 1)
  PROVE  /\ n <= 4 * ((k + 1) - 1) /\ n + m <= 4 * ((k + 1) - 1)
         /\ \A s \in Nat : k <= s => n + m <= 4 * s
OBVIOUS

\* The sweep writes nothing for a label and for a skipped item.
LEMMA SilentWords ==
  ASSUME CodeInv, WordInv, RecordLabel \/ SkipItem \/ Refuse \/ EndItems
  PROVE  WordInv'
<1>1. /\ stage = "lower" /\ stage' \in {"lower", "patch", "error"} /\ UNCHANGED <<source, guards, code, pending>>
      /\ item' \in {item, item + 1}
  BY DEF RecordLabel, SkipItem, Refuse, EndItems, AtItem, Advance, planVars, codeVars
<1>2. item \in Nat \ {0} /\ Len(code) \in Nat
  BY SequenceFacts DEF CodeInv
<1>3. stage' \in {"plan", "lower"} => Len(code) <= 4 * (item' - 1)
  <2>1. Len(code) <= 4 * (item - 1)
    BY <1>1 DEF WordInv
  <2>2. Len(code) <= 4 * ((item + 1) - 1)
    BY <1>2, <2>1, FourEach
  <2> QED  BY <1>1, <2>1, <2>2
<1>4. AllEncodable(code)'
  BY <1>1 DEF WordInv, AllEncodable
<1> QED  BY <1>1, <1>3, <1>4 DEF WordInv

\* What an item becomes can be encoded, under the guard of its region too.
LEMMA LowerOneWords ==
  ASSUME CodeInv, WordInv, LowerOne
  PROVE  WordInv'
<1> DEFINE lowered == LowerItem(source[item])
           emitted == [j \in DOMAIN lowered |-> Emit(lowered[j], guards[item])]
<1>1. /\ stage = "lower" /\ item \in 1 .. Len(source) /\ ~IsLabel(source[item])
      /\ code' = code \o emitted
      /\ item' = item + 1 /\ UNCHANGED <<source, stage, guards>>
      /\ pending' = IF IsBranch(source[item]) THEN pending \cup {<<Len(code) + 1, source[item].label>>} ELSE pending
  BY DEF LowerOne, AtItem, Advance, planVars, CodeInv
<1>2. /\ source \in Programs /\ IsSequence(code) /\ PendingAreTheBranches /\ item \in Nat \ {0}
      /\ item <= Len(source)
  BY <1>1 DEF CodeInv
<1>3. source[item] \in Items /\ Lowerable(source[item]) /\ guards[item] \in Guards /\ Len(source) \in Nat
  BY <1>1, <1>2, SourceFacts, SourceIsLowerable DEF WordInv
<1>4. /\ IsSequence(lowered) /\ AllEncodable(lowered) /\ Len(lowered) \in 0 .. 4
      /\ IsBranch(source[item]) => Len(lowered) = 1 /\ Emit(lowered[1], guards[item]).opcode \in {"BR", "BRX"}
  BY <1>3, LoweredItem, LoweredIsEncodable, LoweredBranch
<1> HIDE DEF lowered
<1>5. DOMAIN lowered = 1 .. Len(lowered) /\ Len(code) \in Nat
  BY <1>2, <1>4, SequenceFacts
<1>6. IsSequence(emitted) /\ Len(emitted) = Len(lowered)
  <2>1. ASSUME NEW n \in Nat, NEW e, e = [j \in 1 .. n |-> e[j]]
        PROVE  IsSequence(e) /\ Len(e) = n
    <3>1. e \in Seq({e[j] : j \in 1 .. n}) /\ DOMAIN e = 1 .. n
      BY <2>1
    <3> QED  BY <3>1 DEF IsSequence
  <2>2. Len(lowered) \in Nat /\ emitted = [j \in 1 .. Len(lowered) |-> emitted[j]]
    BY <1>4, <1>5
  <2> HIDE DEF emitted
  <2> QED  BY <2>1, <2>2
<1>7. AllEncodable(emitted) /\ \A n \in 1 .. Len(lowered) : emitted[n] = Emit(lowered[n], guards[item])
  <2>1. \A n \in 1 .. Len(lowered) : emitted[n] = Emit(lowered[n], guards[item])
    BY <1>5
  <2>2. \A n \in 1 .. Len(lowered) : Encodable(Emit(lowered[n], guards[item]))
    BY <1>3, <1>4, GuardedIsEncodable DEF AllEncodable
  <2> HIDE DEF emitted
  <2> QED  BY <1>6, <2>1, <2>2 DEF AllEncodable
<1> HIDE DEF emitted
<1>8. AllEncodable(code')
  <2>1. AllEncodable(code)
    BY DEF WordInv
  <2> QED  BY <1>1, <1>2, <1>6, <1>7, <2>1, EncodablePieces
<1>9. Len(code') = Len(code) + Len(lowered) /\ \A n \in 1 .. Len(code) : code'[n] = code[n]
  BY <1>1, <1>2, <1>6, Concatenated
<1>10. Len(code') <= 4 * (item' - 1) /\ Len(code') <= 4 * Len(source)
  <2>1. Len(code) <= 4 * (item - 1)
    BY <1>1 DEF WordInv
  <2>2. item \in Nat /\ Len(code) \in Nat /\ Len(lowered) \in 0 .. 4 /\ Len(source) \in Nat /\ item <= Len(source)
    BY <1>2, <1>3, <1>4, <1>5
  <2>3. Len(code) + Len(lowered) <= 4 * ((item + 1) - 1) /\ Len(code) + Len(lowered) <= 4 * Len(source)
    BY <2>1, <2>2, FourEach
  <2> QED  BY <1>1, <1>9, <2>3
<1>11. ASSUME NEW n \in 1 .. Len(code'), NEW l \in LabelsOf(source), <<n, l>> \in pending'
       PROVE  code'[n].opcode \in {"BR", "BRX"}
  <2>1. CASE <<n, l>> \in pending
    <3>1. n \in 1 .. Len(code)
      BY <1>2, <2>1 DEF PendingAreTheBranches
    <3>2. code[n].opcode \in {"BR", "BRX"}
      BY <1>11, <2>1, <3>1 DEF WordInv
    <3> QED  BY <1>9, <3>1, <3>2
  <2>2. CASE <<n, l>> \notin pending
    <3>1. IsBranch(source[item]) /\ n = Len(code) + 1
      BY <1>1, <1>11, <2>2
    <3>2. Len(lowered) = 1 /\ emitted[1].opcode \in {"BR", "BRX"}
      <4>1. Len(lowered) = 1
        BY <1>4, <3>1
      <4>2. 1 \in 1 .. Len(lowered)
        BY <4>1
      <4>3. emitted[1] = Emit(lowered[1], guards[item])
        BY <1>7, <4>2
      <4> QED  BY <1>4, <3>1, <4>1, <4>3
    <3>3. \A m \in Len(code) + 1 .. Len(code) + Len(emitted) : code'[m] = emitted[m - Len(code)]
      BY <1>1, <1>2, <1>6, Concatenated
    <3>4. n \in Len(code) + 1 .. Len(code) + Len(emitted) /\ n - Len(code) = 1
      BY <1>5, <1>6, <3>1, <3>2
    <3>5. code'[n] = emitted[1]
      BY <3>3, <3>4
    <3> QED  BY <3>2, <3>5
  <2> QED  BY <2>1, <2>2
<1> QED  BY <1>1, <1>8, <1>10, <1>11 DEF WordInv

\* A branch has no other use for its immediate, and positions fit.
LEMMA PatchWords ==
  ASSUME CodeInv, WordInv, PatchBranches
  PROVE  WordInv'
<1>1. /\ stage = "patch" /\ stage' = "encode"
      /\ code' = [n \in DOMAIN code |-> Patched(n)]
      /\ UNCHANGED <<source, guards, pending>>
  BY DEF PatchBranches, planVars
<1>2. source \in Programs /\ IsSequence(code) /\ LabelsSplitTheCode
  BY DEF CodeInv
<1>3. Len(code) \in Nat /\ DOMAIN code = 1 .. Len(code) /\ Len(source) \in Nat
  BY <1>2, SequenceFacts, SourceFacts
<1>4. Len(code') = Len(code)
  <2>1. code' \in Seq({code'[n] : n \in 1 .. Len(code)}) /\ DOMAIN code' = 1 .. Len(code)
    BY <1>1, <1>3
  <2> QED  BY <1>3, <2>1
<1>5. ASSUME NEW l \in LabelsOf(source)
      PROVE  labels[l] \in 0 .. WordValues - 1
  <2>1. PICK k \in LabelPositions(source) : source[k].label = l
    BY DEF LabelsOf
  <2>2. k \in Recorded
    BY <1>1, <2>1 DEF Recorded
  <2>3. labels[l] \in Nat /\ labels[l] <= Len(code)
    BY <1>2, <2>1, <2>2 DEF LabelsSplitTheCode
  <2>4. Len(code) <= 4 * Len(source) /\ 4 * Len(source) < WordValues /\ WordValues \in Nat
    BY <1>2, SourceIsLowerable, Widths DEF WordInv
  <2> QED  BY <1>3, <2>3, <2>4
<1>6. ASSUME NEW n \in 1 .. Len(code)
      PROVE  /\ Encodable(code'[n])
             /\ \A l \in LabelsOf(source) : <<n, l>> \in pending => code'[n].opcode \in {"BR", "BRX"}
  <2>1. code'[n] = Patched(n) /\ Encodable(code[n])
    BY <1>1, <1>3 DEF WordInv, AllEncodable
  <2>2. CASE \E l \in LabelsOf(source) : <<n, l>> \in pending
    <3> DEFINE l == CHOOSE x \in LabelsOf(source) : <<n, x>> \in pending
               imm == labels[l]
               i == code[n]
               patched == [i EXCEPT !.imm = imm]
    <3>1. l \in LabelsOf(source) /\ <<n, l>> \in pending
      BY <2>2
    <3>2. Patched(n) = patched
      BY <2>2 DEF Patched
    <3>3. imm \in 0 .. WordValues - 1 /\ i.opcode \in {"BR", "BRX"} /\ Encodable(i)
      BY <1>5, <2>1, <3>1 DEF WordInv
    <3>I. imm \in Int
      BY <3>3, Widths
    <3> HIDE DEF imm, i
    <3>4. /\ patched \in InstructionSet /\ patched.opcode = i.opcode /\ patched.type = i.type /\ patched.src3 = i.src3
          /\ patched.imm = imm /\ patched.predicate = i.predicate /\ patched.negated = i.negated
          /\ patched.compare = i.compare /\ patched.space = i.space
      BY <3>3, <3>I DEF Encodable, InstructionSet
    <3> HIDE DEF patched
    <3>5. EncodingType(patched) = EncodingType(i)
      BY <3>4 DEF EncodingType
    <3>6. UsesImmediate(i.opcode)
      BY <3>3 DEF UsesImmediate
    <3>7. Encodable(patched)
      BY <3>3, <3>4, <3>5, <3>6 DEF Encodable
    <3> QED  BY <2>1, <3>2, <3>3, <3>4, <3>7
  <2>3. CASE ~\E l \in LabelsOf(source) : <<n, l>> \in pending
    BY <2>1, <2>3 DEF Patched
  <2> QED  BY <2>2, <2>3
<1>7. AllEncodable(code')
  BY <1>4, <1>6 DEF AllEncodable
<1> QED  BY <1>1, <1>4, <1>6, <1>7 DEF WordInv

\* Every step keeps the words.
LEMMA NextWords == CodeInv /\ WordInv /\ [LoweringNext]_loweringVars => WordInv'
<1> SUFFICES ASSUME CodeInv, WordInv, [LoweringNext]_loweringVars PROVE WordInv'
  OBVIOUS
<1>1. CASE UNCHANGED loweringVars \/ WriteCode
  <2>1. UNCHANGED <<source, guards, code, pending>> /\ (stage' \in {"plan", "lower"} => stage' = stage /\ item' = item)
        /\ (stage' = "done" => binary' = [n \in DOMAIN code |-> Encode(code[n])])
    BY <1>1 DEF loweringVars, WriteCode, planVars, codeVars, WordInv
  <2>2. AllEncodable(code)'
    BY <2>1 DEF WordInv, AllEncodable
  <2> QED  BY <2>1, <2>2 DEF WordInv
<1>2. CASE LoweringNext
  BY <1>1, <1>2, PlanWords, SilentWords, LowerOneWords, PatchWords DEF LoweringNext
<1> QED  BY <1>1, <1>2

\* The hardware decodes what the lowering meant, for every program whose items
\* have a place in the encoding.
THEOREM TheBinaryIsTheCode == LoweringSpec => []BinaryIsTheCode
<1>1. CodeInv /\ WordInv => BinaryIsTheCode
  <2> SUFFICES ASSUME CodeInv, WordInv, stage = "done", NEW j \in DOMAIN code
               PROVE  Decode(binary[j]) = Meant(code[j])
    BY DEF BinaryIsTheCode
  <2>1. binary[j] = Encode(code[j])
    BY DEF WordInv
  <2>2. j \in 1 .. Len(code)
    BY SequenceFacts DEF CodeInv
  <2>3. Encodable(code[j])
    BY <2>2 DEF WordInv, AllEncodable
  <2> QED  BY <2>1, <2>3, DecodeInvertsEncode
<1>2. CodeInv /\ WordInv /\ [LoweringNext]_loweringVars => (CodeInv /\ WordInv)'
  BY NextInv, NextWords
<1>3. LoweringInit => CodeInv /\ WordInv
  BY InitInv, WordInit
<1> QED  BY <1>1, <1>2, <1>3, PTL DEF LoweringSpec

-----------------------------------------------------------------------------
(* The sweep: what a branch called uniform depends on. *)

States == {"unknown", "uniform", "varying"}
Tables == [DataRegs \cup PredRegs -> States]

\* The items as they are given.
LEMMA ParsedItems ==
  ASSUME source \in Programs, NEW k \in 1 .. Len(source)
  PROVE  /\ WellFormed(source[k]) /\ source[k] \in Items /\ (~IsLabel(source[k]) => Lowerable(source[k]))
         /\ source[k].op = "param" => IsImmediate(source[k], 1)
BY OperandsAssumption, SourceFacts, SourceIsLowerable DEF IsProgram

\* A branch and a return have no destination, and what has one is an operation.
LEMMA OperationItems ==
  ASSUME NEW i \in Items, WellFormed(i)
  PROVE  /\ i.kind = "bra" <=> i.op = "bra"
         /\ i.op \in ResultBases => i.kind = "op" /\ Len(i.args) = Arity(i.op) /\ i.dest # ""
                                    /\ i.dest \in DataRegs \cup PredRegs
         /\ i.kind = "bra" => InstructionDest(i) = ""
         /\ DOMAIN i.args = 1 .. Len(i.args)
<1>1. /\ i.args \in Seq([reg: STRING, imm: Int]) /\ (i.kind = "bra" <=> i.op = "bra")
  BY DEF Items
<1>2. i.op \in ResultBases => i.op \in DestinationBases \cup {"fma", "st"} /\ i.op # "st"
  BY DEF ResultBases, MergedBases, DestinationBases, PureResultBases
<1>3. i.op \in ResultBases => i.kind = "op" /\ Len(i.args) = Arity(i.op) /\ i.dest \in DataRegs \cup PredRegs
  BY <1>2 DEF WellFormed
<1>4. i.kind = "bra" => InstructionDest(i) = ""
  BY <1>1 DEF InstructionDest, ResultBases, MergedBases
<1>5. DOMAIN i.args = 1 .. Len(i.args)
  BY <1>1
<1>6. \A r \in DataRegs \cup PredRegs : r # ""
  BY RegistersAssumption
<1> QED  BY <1>1, <1>3, <1>4, <1>5, <1>6

\* How many operands an operation has.
LEMMA Arities ==
  ASSUME NEW i \in Items, WellFormed(i), i.op \in ResultBases
  PROVE  DOMAIN i.args = IF i.op \in {"mov", "param", "ld"} THEN 1 .. 1
                         ELSE IF i.op \in {"mad", "fma"} THEN 1 .. 3 ELSE 1 .. 2
<1>1. Arity(i.op) = IF i.op \in {"mov", "param", "ld"} THEN 1 ELSE IF i.op \in {"mad", "fma"} THEN 3 ELSE 2
  BY DEF Arity
<1>2. DOMAIN i.args = 1 .. Arity(i.op)
  BY OperationItems
<1> QED  BY <1>1, <1>2

\* A verdict on operands.
LEMMA VerdictOnOperands ==
  ASSUME NEW i \in Items, WellFormed(i), NEW values \in Tables, NEW k \in DOMAIN i.args
  PROVE  OperandUniformity(i.args[k], values) \in States
<1>1. i.args[k] \in {Reg(r) : r \in DataRegs \cup PredRegs} \cup {Imm(i.args[k].imm)}
  BY DEF WellFormed
<1>2. i.args[k].reg \in DataRegs \cup PredRegs \cup {""}
  <2>1. (\A r : Reg(r).reg = r) /\ (\A v : Imm(v).reg = "")
    BY DEF Reg, Imm
  <2> QED  BY <1>1, <2>1
<1>3. i.args[k].reg \in DataRegs \cup PredRegs => values[i.args[k].reg] \in States
  BY DEF Tables
<1> QED  BY <1>2, <1>3 DEF OperandUniformity, States

\* Every result has a verdict.
LEMMA VerdictOnResults ==
  ASSUME NEW i \in Items, WellFormed(i), NEW values \in Tables, i.op \in ResultBases
  PROVE  ResultUniformity(i, values) \in States
<1>1. CASE i.op = "mov"
  <2>1. 1 \in DOMAIN i.args
    BY <1>1, Arities
  <2> QED  BY <1>1, <2>1, VerdictOnOperands DEF ResultUniformity, MergedBases
<1>2. CASE i.op # "mov"
  BY <1>2 DEF ResultUniformity, MergeUniformity, States
<1> QED  BY <1>1, <1>2

\* One item of the sweep, and the definition of the tables with the function named.
AfterItem(p, k, values) ==
  IF IsLabel(p[k]) \/ InstructionDest(p[k]) = "" THEN values
  ELSE [values EXCEPT ![InstructionDest(p[k])] = ResultUniformity(p[k], values)]
AreTables(p, h) ==
  h = [k \in 0 .. Len(p) |-> IF k = 0 THEN [r \in DataRegs \cup PredRegs |-> "unknown"] ELSE AfterItem(p, k, h[k-1])]

\* The tables are what satisfies that.
LEMMA ValuesByTables ==
  ASSUME NEW p
  PROVE  Values(p) = CHOOSE h : AreTables(p, h)
BY Zenon DEF Values, AreTables, AfterItem

\* The table behind an item is made of the one in front of it.
LEMMA ValuesStep ==
  ASSUME source \in Programs, NEW k \in 1 .. Len(source)
  PROVE  Values(source)[k] = AfterItem(source, k, Values(source)[k-1])
<1> DEFINE n == Len(source)
           x == [r \in DataRegs \cup PredRegs |-> "unknown"]
           F == [a \in Nat \X Tables |-> IF a[1] \in 1 .. n THEN AfterItem(source, a[1], a[2]) ELSE a[2]]
<1>1. n \in Nat
  BY SourceFacts
<1>2. x \in Tables
  BY DEF Tables, States
<1>3. ASSUME NEW m \in 1 .. n, NEW values \in Tables PROVE AfterItem(source, m, values) \in Tables
  <2>1. source[m] \in Items /\ WellFormed(source[m])
    BY <1>3, ParsedItems
  <2>2. InstructionDest(source[m]) # "" => source[m].op \in ResultBases
    BY DEF InstructionDest
  <2>3. InstructionDest(source[m]) # "" => ResultUniformity(source[m], values) \in States
    BY <2>1, <2>2, VerdictOnResults
  <2> QED  BY <2>3 DEF AfterItem, Tables
<1>4. F \in [Nat \X Tables -> Tables]
  <2>1. ASSUME NEW a \in Nat \X Tables
        PROVE  (IF a[1] \in 1 .. n THEN AfterItem(source, a[1], a[2]) ELSE a[2]) \in Tables
    BY <1>3
  <2> QED  BY <2>1
<1>5. PICK h : Recurs(Tables, x, F, n, h)
  <2> HIDE DEF F, x, n
  <2> QED  BY <1>1, <1>2, <1>4, Recursion
<1>6. h \in [0 .. n -> Tables] /\ h[0] = x /\ \A m \in 1 .. n : h[m] = F[<<m, h[m-1]>>]
  BY <1>5 DEF Recurs
<1>7. \A m \in 1 .. n : h[m] = AfterItem(source, m, h[m-1])
  <2>1. SUFFICES ASSUME NEW m \in 1 .. n PROVE h[m] = AfterItem(source, m, h[m-1])
    OBVIOUS
  <2>2. m - 1 \in 0 .. n /\ m \in Nat
    BY <1>1
  <2>3. <<m, h[m-1]>> \in Nat \X Tables
    BY <1>6, <2>2
  <2> DEFINE w == <<m, h[m-1]>>
  <2>4. F[w] = (IF w[1] \in 1 .. n THEN AfterItem(source, w[1], w[2]) ELSE w[2]) /\ w[1] = m /\ w[2] = h[m-1] /\ h[m] = F[w]
    BY <1>6, <2>3
  <2> HIDE DEF w, F
  <2> QED  BY <2>4
<1> HIDE DEF F
<1>8. AreTables(source, h)
  <2>1. ASSUME NEW m \in 0 .. n PROVE h[m] = IF m = 0 THEN x ELSE AfterItem(source, m, h[m-1])
    <3>1. CASE m = 0
      BY <1>6, <3>1
    <3>2. CASE m # 0
      <4>1. m \in 1 .. n
        BY <1>1, <3>2
      <4> QED  BY <1>7, <3>2, <4>1
    <3> QED  BY <3>1, <3>2
  <2>2. h = [m \in 0 .. n |-> h[m]]
    BY <1>6
  <2> QED  BY <2>1, <2>2 DEF AreTables
<1>9. AreTables(source, Values(source))
  BY <1>8, ValuesByTables
<1>10. k \in 0 .. n /\ k # 0
  BY <1>1
<1> DEFINE v == Values(source)
<1>11. v = [m \in 0 .. n |-> IF m = 0 THEN x ELSE AfterItem(source, m, v[m-1])]
  BY <1>9 DEF AreTables
<1> HIDE DEF v, x
<1>12. \A m \in 0 .. n : v[m] = IF m = 0 THEN x ELSE AfterItem(source, m, v[m-1])
  BY <1>11, Zenon
<1>13. v[k] = AfterItem(source, k, v[k-1])
  BY <1>10, <1>12
<1> QED  BY <1>13 DEF v

\* A uniform result has uniform operands: special registers of that kind, or
\* registers with that verdict.
LEMMA UniformOperands ==
  ASSUME NEW i \in Items, WellFormed(i), i.op \in ResultBases, i.op = "param" => IsImmediate(i, 1),
         NEW values, ResultUniformity(i, values) = "uniform", NEW r \in Uses(i)
  PROVE  r \in UniformSpecials \/ values[r] = "uniform"
<1>1. ~IsBranch(i)
  BY OperationItems DEF IsBranch
<1>2. PICK k \in DOMAIN i.args : i.args[k].reg = r /\ r # ""
  BY <1>1 DEF Uses
<1>3. i.op # "ld"
  BY DEF ResultUniformity, MergedBases
<1>4. i.op # "param"
  <2>1. i.op = "param" => DOMAIN i.args = {1}
    BY Arities
  <2> QED  BY <1>2, <2>1 DEF IsImmediate
<1>5. OperandUniformity(i.args[k], values) = "uniform"
  <2>1. CASE i.op = "mov"
    <3>1. k = 1
      <4>1. DOMAIN i.args = 1 .. 1
        BY <2>1, Arities
      <4> QED  BY <4>1
    <3> QED  BY <2>1, <3>1 DEF ResultUniformity, MergedBases
  <2>2. CASE i.op \in MergedBases
    <3> DEFINE found == {OperandUniformity(i.args[m], values) : m \in DOMAIN i.args}
    <3>1. MergeUniformity(found) = "uniform"
      BY <2>2 DEF ResultUniformity, MergedBases
    <3>2. found = {"uniform"}
      <4> HIDE DEF found
      <4> QED  BY <3>1 DEF MergeUniformity
    <3>3. OperandUniformity(i.args[k], values) \in found
      BY <1>2
    <3> QED  BY <3>2, <3>3
  <2> QED  BY <1>3, <1>4, <2>1, <2>2 DEF ResultBases
<1> QED  BY <1>2, <1>5 DEF OperandUniformity

\* What the items of S read is defined in the region by these.
Feeding(p, region, S) == region \cap UNION {DefinitionItems(p, r) : r \in UNION {Uses(p[j]) : j \in S}}
IsSliceChain(p, region, items, n, h) ==
  h = [m \in 0 .. n |-> IF m = 0 THEN items ELSE h[m-1] \cup Feeding(p, region, h[m-1])]

\* The slice is the end of such a chain.
LEMMA SliceByChain ==
  ASSUME NEW p, NEW region, NEW items
  PROVE  Slice(p, region, items) = (CHOOSE h : IsSliceChain(p, region, items, Cardinality(region), h))[Cardinality(region)]
BY Zenon DEF Slice, IsSliceChain, Feeding

\* All that an item depends on is the least set that holds it and the definitions
\* of what its members read.
LEMMA SliceIsLeast ==
  ASSUME NEW p, Len(p) \in Nat, DOMAIN p = 1 .. Len(p), NEW k \in 1 .. Len(p)
  PROVE  LET S == Slice(p, DOMAIN p, {k})
         IN  /\ k \in S /\ S \subseteq 1 .. Len(p)
             /\ \A j \in S : \A r \in Uses(p[j]) : DefinitionItems(p, r) \subseteq S
             /\ \A C : /\ k \in C
                       /\ \A j \in C \cap S : \A r \in Uses(p[j]) : DefinitionItems(p, r) \subseteq C
                       => S \subseteq C
<1> DEFINE B == 1 .. Len(p)
           n == Cardinality(B)
           base == {k}
           F == [S \in SUBSET B |-> Feeding(p, B, S)]
<1>1. IsFiniteSet(B) /\ n \in Nat /\ Cardinality(B) <= n
  BY FS_Interval, FS_CardinalityType
<1>2. \A S : Feeding(p, B, S) \subseteq B
  BY DEF Feeding
<1>3. F \in [SUBSET B -> SUBSET B] /\ base \in SUBSET B
  BY <1>2
<1>4. PICK c : Grows(B, base, F, n, c)
  <2> HIDE DEF B, F, base, n
  <2> QED  BY <1>1, <1>3, ChainExists
<1>5. c \in [0 .. n -> SUBSET B] /\ c[0] = base /\ \A m \in 1 .. n : c[m] = c[m-1] \cup F[c[m-1]]
  BY <1>4 DEF Grows
<1> HIDE DEF n
<1>6. IsSliceChain(p, B, base, n, c)
  <2>1. ASSUME NEW m \in 0 .. n
        PROVE  c[m] = IF m = 0 THEN base ELSE c[m-1] \cup Feeding(p, B, c[m-1])
    <3>1. CASE m = 0
      BY <1>5, <3>1
    <3>2. CASE m # 0
      <4>1. m \in 1 .. n /\ m - 1 \in 0 .. n
        BY <1>1, <3>2
      <4>2. c[m-1] \in SUBSET B
        BY <1>5, <4>1
      <4> QED  BY <1>5, <3>2, <4>1, <4>2
    <3> QED  BY <3>1, <3>2
  <2>2. c = [m \in 0 .. n |-> c[m]]
    BY <1>5
  <2> QED  BY <2>1, <2>2 DEF IsSliceChain
<1> DEFINE f == CHOOSE h : IsSliceChain(p, B, base, n, h)
           R == f[n]
<1>7. IsSliceChain(p, B, base, n, f) /\ Slice(p, B, base) = R
  BY <1>6, SliceByChain DEF n
<1> HIDE DEF f
<1>8. f[0] = base /\ \A m \in 1 .. n : f[m-1] \in SUBSET B => f[m] = f[m-1] \cup F[f[m-1]]
  <2>1. f = [m \in 0 .. n |-> IF m = 0 THEN base ELSE f[m-1] \cup Feeding(p, B, f[m-1])]
    BY <1>7 DEF IsSliceChain
  <2>2. \A m \in 0 .. n : f[m] = IF m = 0 THEN base ELSE f[m-1] \cup Feeding(p, B, f[m-1])
    BY <2>1, Zenon
  <2>3. 0 \in 0 .. n /\ \A m \in 1 .. n : m \in 0 .. n /\ m # 0
    BY <1>1
  <2> QED  BY <2>2, <2>3
<1>9. IsLeast(B, base, F, R)
  <2> HIDE DEF B, F, base
  <2> QED  BY <1>1, <1>3, <1>8, ChainIsLeast
<1>10. /\ R \in SUBSET B /\ base \subseteq R /\ F[R] \subseteq R
       /\ \A C : base \subseteq C /\ (\A S \in SUBSET B : S \subseteq C => F[S] \subseteq C) => R \subseteq C
  BY <1>9 DEF IsLeast
<1> HIDE DEF R
<1>11. \A r : DefinitionItems(p, r) \subseteq B
  BY DEF DefinitionItems
<1>12. ASSUME NEW j \in R, NEW r \in Uses(p[j]) PROVE DefinitionItems(p, r) \subseteq R
  <2>1. DefinitionItems(p, r) \subseteq Feeding(p, B, R)
    BY <1>11, <1>12 DEF Feeding
  <2>2. F[R] = Feeding(p, B, R)
    BY <1>10
  <2> QED  BY <1>10, <2>1, <2>2
<1>13. ASSUME NEW C, k \in C, \A j \in C \cap R : \A r \in Uses(p[j]) : DefinitionItems(p, r) \subseteq C
       PROVE  R \subseteq C
  <2>1. ASSUME NEW S \in SUBSET B, S \subseteq C \cap R PROVE F[S] \subseteq C \cap R
    <3>1. ASSUME NEW d \in Feeding(p, B, S) PROVE d \in C \cap R
      <4>1. PICK j \in S : \E r \in Uses(p[j]) : d \in DefinitionItems(p, r)
        BY <3>1 DEF Feeding
      <4> QED  BY <1>12, <1>13, <2>1, <4>1
    <3>2. F[S] = Feeding(p, B, S)
      OBVIOUS
    <3> QED  BY <3>1, <3>2
  <2>2. base \subseteq C \cap R
    BY <1>10, <1>13
  <2> HIDE DEF F, base
  <2>3. R \subseteq C \cap R
    BY <1>10, <2>1, <2>2
  <2> QED  BY <2>3
<1> QED  BY <1>7, <1>10, <1>12, <1>13

\* All that a branch called uniform depends on, where definitions agree with the
\* sweep: uniform results, computed by every lane.
LEMMA SliceIsUniform ==
  ASSUME source \in Programs, NEW k \in UniformBranches, DefinitionsAgree(k)
  PROVE  LET S == Slice(source, DOMAIN source, {k})
         IN  /\ k \in S /\ S \subseteq 1 .. Len(source)
             /\ \A j \in S : \A r \in Uses(source[j]) : DefinitionItems(source, r) \subseteq S
             /\ \A j \in S \ {k} : /\ ~IsLabel(source[j]) /\ source[j].op \in ResultBases
                                   /\ \E values : ResultUniformity(source[j], values) = "uniform"
                                   /\ ~source[j].guarded /\ guards[j] = NoGuard
<1> DEFINE S == Slice(source, DOMAIN source, {k})
           C == {j \in S : j = k \/ /\ ~IsLabel(source[j]) /\ source[j].op \in ResultBases
                                    /\ ResultUniformity(source[j], Values(source)[j-1]) = "uniform"
                                    /\ ~source[j].guarded /\ guards[j] = NoGuard}
<1>1. k \in 1 .. Len(source) /\ IsBranch(source[k]) /\ source[k].guarded /\ BranchStates(source)[k] = "uniform"
  BY DEF UniformBranches, PredicatedBranches
<1>2. Len(source) \in Nat /\ DOMAIN source = 1 .. Len(source)
  BY SourceFacts
<1>3. /\ k \in S /\ S \subseteq 1 .. Len(source)
      /\ \A j \in S : \A r \in Uses(source[j]) : DefinitionItems(source, r) \subseteq S
      /\ \A X : /\ k \in X
                /\ \A j \in X \cap S : \A r \in Uses(source[j]) : DefinitionItems(source, r) \subseteq X
                => S \subseteq X
  BY <1>1, <1>2, SliceIsLeast
<1>4. \A j \in S : \A r \in Uses(source[j]) : \A d \in DefinitionItems(source, r) :
        /\ ResultUniformity(source[d], Values(source)[d-1]) = Values(source)[j-1][r]
        /\ ~source[d].guarded /\ guards[d] = NoGuard
  BY DEF DefinitionsAgree
<1> HIDE DEF S
<1>5. ASSUME NEW j \in C, NEW r \in Uses(source[j]), NEW d \in DefinitionItems(source, r) PROVE d \in C
  <2>1. d \in S /\ d \in 1 .. Len(source) /\ j \in 1 .. Len(source)
    BY <1>3, <1>5
  <2>2. ~IsLabel(source[d]) /\ InstructionDest(source[d]) = r /\ r # ""
    BY <1>5 DEF DefinitionItems, Uses
  <2>3. source[d].op \in ResultBases /\ source[d].dest = r
    BY <2>2 DEF InstructionDest
  <2>4. r \notin Specials
    <3>1. Lowerable(source[d])
      BY <2>1, <2>2, ParsedItems
    <3>2. r \in DOMAIN RegNumber \cup PredRegs
      BY <2>3, <3>1 DEF Lowerable, ResultBases, MergedBases, AluOpcode
    <3> QED  BY <3>2, DistinctNumbersAssumption
  <2>5. Values(source)[j-1][r] = "uniform"
    <3>1. CASE j = k
      <4>1. r = source[k].guard
        BY <3>1, <1>1 DEF Uses
      <4>2. Values(source)[k] = AfterItem(source, k, Values(source)[k-1])
        BY <1>1, ValuesStep
      <4>3. InstructionDest(source[k]) = ""
        BY <1>1, ParsedItems, OperationItems DEF IsBranch
      <4>4. Values(source)[k] = Values(source)[k-1]
        BY <4>2, <4>3 DEF AfterItem
      <4>5. BranchStates(source)[k] = Values(source)[k][source[k].guard]
        BY <1>1 DEF BranchStates, PredicatedBranches
      <4> QED  BY <3>1, <1>1, <4>1, <4>4, <4>5
    <3>2. CASE j # k
      <4>1. source[j].op \in ResultBases /\ ResultUniformity(source[j], Values(source)[j-1]) = "uniform"
        BY <3>2
      <4>2. r \in UniformSpecials \/ Values(source)[j-1][r] = "uniform"
        BY <2>1, <4>1, ParsedItems, UniformOperands
      <4> QED  BY <2>4, <4>2 DEF Specials
    <3> QED  BY <3>1, <3>2
  <2> QED  BY <1>4, <2>1, <2>2, <2>3, <2>5
<1>6. k \in C
  BY <1>3
<1>7. S \subseteq C
  <2> HIDE DEF C
  <2> QED  BY <1>3, <1>5, <1>6
<1> QED  BY <1>3, <1>7 DEF S

-----------------------------------------------------------------------------
(* An item's instructions: the loads of its immediates, and one behind them. *)

Load(i, k) == [AEC("LOADI", "none") EXCEPT !.dest = Temporary(i, k), !.imm = i.args[k].imm]
Final(i) == LowerItem(i)[Len(LowerItem(i))]
HasLoads(i) == i.op \in DOMAIN AluOpcode \cup {"param", "setp"}

Elements(s) == {s[n] : n \in 1 .. Len(s)}

\* What stands in two sequences put together.
LEMMA ElementsOfBoth ==
  ASSUME NEW s, NEW t, IsSequence(s), IsSequence(t)
  PROVE  Elements(s \o t) = Elements(s) \cup Elements(t)
<1>1. /\ Len(s) \in Nat /\ Len(t) \in Nat /\ Len(s \o t) = Len(s) + Len(t)
      /\ \A n \in 1 .. Len(s) : (s \o t)[n] = s[n]
      /\ \A n \in Len(s) + 1 .. Len(s) + Len(t) : (s \o t)[n] = t[n - Len(s)]
  BY SequenceFacts, Concatenated
<1>2. \A n \in 1 .. Len(s) + Len(t) : n \in 1 .. Len(s) \/ (n \in Len(s) + 1 .. Len(s) + Len(t) /\ n - Len(s) \in 1 .. Len(t))
  BY <1>1
<1>3. Elements(s \o t) \subseteq Elements(s) \cup Elements(t)
  BY <1>1, <1>2 DEF Elements
<1>4. Elements(s) \subseteq Elements(s \o t)
  BY <1>1 DEF Elements
<1>5. ASSUME NEW n \in 1 .. Len(t) PROVE t[n] \in Elements(s \o t)
  <2>1. Len(s) + n \in Len(s) + 1 .. Len(s) + Len(t) /\ Len(s) + n \in 1 .. Len(s \o t) /\ Len(s) + n - Len(s) = n
    BY <1>1
  <2> QED  BY <1>1, <2>1 DEF Elements
<1> QED  BY <1>3, <1>4, <1>5 DEF Elements

\* Every immediate is loaded, and nothing else.
LEMMA LoadsOfAnItem ==
  ASSUME NEW i
  PROVE  Elements(LoadImmediates(i)) = {Load(i, k) : k \in {j \in 1 .. 3 : IsImmediate(i, j)}}
<1>1. ASSUME NEW k
      PROVE  /\ IsSequence(LoadImmediate(i, k))
             /\ Elements(LoadImmediate(i, k)) = IF IsImmediate(i, k) THEN {Load(i, k)} ELSE {}
  <2>1. CASE IsImmediate(i, k)
    <3>1. LoadImmediate(i, k) = <<Load(i, k)>>
      BY <2>1 DEF LoadImmediate, Load
    <3> QED  BY <2>1, <3>1, Singleton DEF Elements
  <2>2. CASE ~IsImmediate(i, k)
    <3>1. LoadImmediate(i, k) = << >>
      BY <2>2 DEF LoadImmediate
    <3> QED  BY <2>2, <3>1 DEF IsSequence, Elements
  <2> QED  BY <2>1, <2>2
<1>2. IsSequence(LoadImmediate(i, 1) \o LoadImmediate(i, 2))
  BY <1>1, Concatenated
<1>3. Elements(LoadImmediates(i))
        = Elements(LoadImmediate(i, 1)) \cup Elements(LoadImmediate(i, 2)) \cup Elements(LoadImmediate(i, 3))
  BY <1>1, <1>2, ElementsOfBoth DEF LoadImmediates
<1>4. 1 .. 3 = {1, 2, 3}
  OBVIOUS
<1> HIDE DEF Load
<1> QED  BY <1>1, <1>3, <1>4

\* The last instruction of a piece.
LEMMA LastOfAPiece ==
  ASSUME NEW e
  PROVE  /\ <<e>>[Len(<<e>>)] = e /\ Elements(<<e>>) = {e}
         /\ \A s : IsSequence(s) => /\ (s \o <<e>>)[Len(s \o <<e>>)] = e
                                    /\ Len(s \o <<e>>) = Len(s) + 1
                                    /\ \A n \in 1 .. Len(s) : (s \o <<e>>)[n] = s[n]
<1>1. IsSequence(<<e>>) /\ Len(<<e>>) = 1 /\ <<e>>[1] = e
  BY Singleton
<1>2. ASSUME NEW s, IsSequence(s)
      PROVE  /\ (s \o <<e>>)[Len(s \o <<e>>)] = e /\ Len(s \o <<e>>) = Len(s) + 1
             /\ \A n \in 1 .. Len(s) : (s \o <<e>>)[n] = s[n]
  <2>1. /\ Len(s) \in Nat /\ Len(s \o <<e>>) = Len(s) + 1 /\ \A n \in 1 .. Len(s) : (s \o <<e>>)[n] = s[n]
        /\ \A n \in Len(s) + 1 .. Len(s) + 1 : (s \o <<e>>)[n] = <<e>>[n - Len(s)]
    BY <1>1, <1>2, SequenceFacts, Concatenated
  <2>2. Len(s) + 1 \in Len(s) + 1 .. Len(s) + 1 /\ Len(s) + 1 - Len(s) = 1
    BY <2>1
  <2> QED  BY <1>1, <2>1, <2>2
<1> QED  BY <1>1, <1>2 DEF Elements

\* Where an item's instructions stand.
LEMMA PiecesOfAnItem ==
  ASSUME NEW i \in Items, Lowerable(i)
  PROVE  /\ Len(LowerItem(i)) \in 1 .. 4 /\ IsSequence(LowerItem(i))
         /\ \A p \in 1 .. Len(LowerItem(i)) : p # Len(LowerItem(i)) =>
              HasLoads(i) /\ \E k \in 1 .. 3 : IsImmediate(i, k) /\ LowerItem(i)[p] = Load(i, k)
         /\ HasLoads(i) => \A k \in 1 .. 3 : IsImmediate(i, k) =>
              \E p \in 1 .. Len(LowerItem(i)) - 1 : LowerItem(i)[p] = Load(i, k)
<1>0. Len(LowerItem(i)) \in 0 .. 4 /\ IsSequence(LowerItem(i)) /\ IsSequence(LoadImmediates(i)) /\ Len(LoadImmediates(i)) \in Nat
  BY LoweredIsEncodable, LoweredItem, ImmediatesAreLoaded, SequenceFacts
<1>1. CASE HasLoads(i)
  <2>1. \E e : LowerItem(i) = LoadImmediates(i) \o <<e>>
    <3>1. CASE i.op = "param"
      BY <3>1 DEF LowerItem, LowerLdParam
    <3>2. CASE i.op = "setp"
      BY <3>2 DEF LowerItem, LowerSetp
    <3>3. CASE i.op \in DOMAIN AluOpcode
      <4>1. LowerItem(i) = LowerAlu(i)
        BY <3>3 DEF LowerItem, AluOpcode
      <4> QED  BY <4>1, Zenon DEF LowerAlu
    <3> QED  BY <1>1, <3>1, <3>2, <3>3 DEF HasLoads
  <2>2. PICK e : LowerItem(i) = LoadImmediates(i) \o <<e>>
    BY <2>1
  <2>3. /\ Len(LowerItem(i)) = Len(LoadImmediates(i)) + 1
        /\ \A n \in 1 .. Len(LoadImmediates(i)) : LowerItem(i)[n] = LoadImmediates(i)[n]
    BY <1>0, <2>2, LastOfAPiece
  <2>4. ASSUME NEW p \in 1 .. Len(LowerItem(i)), p # Len(LowerItem(i))
        PROVE  \E k \in 1 .. 3 : IsImmediate(i, k) /\ LowerItem(i)[p] = Load(i, k)
    <3>1. p \in 1 .. Len(LoadImmediates(i))
      BY <1>0, <2>3, <2>4
    <3>2. LowerItem(i)[p] \in Elements(LoadImmediates(i))
      BY <2>3, <3>1 DEF Elements
    <3> QED  BY <3>2, LoadsOfAnItem
  <2>5. ASSUME NEW k \in 1 .. 3, IsImmediate(i, k)
        PROVE  \E p \in 1 .. Len(LowerItem(i)) - 1 : LowerItem(i)[p] = Load(i, k)
    <3>1. Load(i, k) \in Elements(LoadImmediates(i))
      BY <2>5, LoadsOfAnItem
    <3>2. PICK p \in 1 .. Len(LoadImmediates(i)) : LoadImmediates(i)[p] = Load(i, k)
      BY <3>1 DEF Elements
    <3>3. p \in 1 .. Len(LowerItem(i)) - 1
      BY <1>0, <2>3
    <3> QED  BY <2>3, <3>2, <3>3
  <2>6. Len(LowerItem(i)) \in 1 .. 4
    BY <1>0, <2>3
  <2> QED  BY <1>0, <1>1, <2>4, <2>5, <2>6
<1>2. CASE ~HasLoads(i)
  <2>1. i.op \in {"ret", "bra", "ld", "st", "mov"}
    BY <1>2 DEF HasLoads, Lowerable
  <2>2. \E e : LowerItem(i) = <<e>>
    <3>1. i.op = "ret" => LowerItem(i) = <<AEC("HALT", "none")>>
      BY DEF LowerItem
    <3>2. i.op = "bra" => \E e : LowerItem(i) = <<e>>
      BY DEF LowerItem, LowerBra
    <3>3. i.op = "ld" => \E e : LowerItem(i) = <<e>>
      BY DEF LowerItem, LowerLdGlobal
    <3>4. i.op = "st" => \E e : LowerItem(i) = <<e>>
      BY DEF LowerItem, LowerStGlobal
    <3>5. i.op = "mov" => \E e : LowerItem(i) = <<e>>
      <4>1. i.op = "mov" => LowerItem(i) = LowerMov(i)
        BY DEF LowerItem
      <4> QED  BY <4>1, Zenon DEF LowerMov
    <3> QED  BY <2>1, <3>1, <3>2, <3>3, <3>4, <3>5
  <2>3. Len(LowerItem(i)) = 1
    BY <2>2, Singleton
  <2> QED  BY <1>0, <1>2, <2>3
<1> QED  BY <1>1, <1>2

Computed(f, i) == f.dest = RegNumber[i.dest] /\ f.predicate = OwnGuard(i).predicate

\* The fields of an item's last instruction.
LEMMA FinalFields ==
  ASSUME NEW i \in Items, Lowerable(i)
  PROVE  LET f == Final(i)
         IN  /\ i.op = "ret" => f.opcode = "HALT"
             /\ i.op = "bra" => f = IF i.guarded THEN Under(AEC("BRX", "none"), OwnGuard(i)) ELSE AEC("BR", "none")
             /\ i.op = "st" => f.opcode = "ST"
             /\ i.op = "ld" => f.opcode = "LD" /\ Computed(f, i)
             /\ i.op = "param" => /\ f.opcode = "LD" /\ f.space = "pmem" /\ f.src1 = TempBase
                                  /\ f.dest = RegNumber[i.dest] /\ f.predicate = -1
             /\ i.op = "mov" => /\ Computed(f, i)
                                /\ \/ IsImmediate(i, 1) /\ f.opcode = "LOADI"
                                   \/ /\ ~IsImmediate(i, 1) /\ i.args[1].reg \in Specials
                                      /\ f.opcode = "CPY" /\ f.src1 = SpecialNumber[i.args[1].reg]
                                   \/ /\ ~IsImmediate(i, 1) /\ i.args[1].reg \notin Specials
                                      /\ f.opcode = "CPY" /\ f.src1 = OperandReg(i, 1)
             /\ i.op = "setp" => /\ f.opcode = "CMPP" /\ f.dest = PredNumber[i.dest] /\ f.predicate = OwnGuard(i).predicate
                                 /\ f.src1 = OperandReg(i, 1) /\ f.src2 = OperandReg(i, 2)
             /\ i.op \in DOMAIN AluOpcode => /\ f.opcode = AluOpcode[i.op] /\ Computed(f, i)
                                             /\ f.src1 = OperandReg(i, 1) /\ f.src2 = OperandReg(i, 2)
                                             /\ f.src3 = OperandReg(i, 3)
<1> DEFINE f == Final(i)
           g == OwnGuard(i)
<1>0. IsSequence(LoadImmediates(i))
  BY ImmediatesAreLoaded
<1>1. \A e : LowerItem(i) = <<e>> => f = e
  BY LastOfAPiece DEF Final
<1>2. \A e : LowerItem(i) = LoadImmediates(i) \o <<e>> => f = e
  BY <1>0, LastOfAPiece DEF Final
<1> HIDE DEF f, g
<1>3. i.op = "ret" => f.opcode = "HALT"
  <2>1. i.op = "ret" => LowerItem(i) = <<AEC("HALT", "none")>>
    BY DEF LowerItem
  <2>2. AEC("HALT", "none").opcode = "HALT"
    BY DEF AEC
  <2> QED  BY <1>1, <2>1, <2>2
<1>4. i.op = "bra" => f = IF i.guarded THEN Under(AEC("BRX", "none"), g) ELSE AEC("BR", "none")
  <2>1. i.op = "bra" => LowerItem(i) = <<IF i.guarded THEN Under(AEC("BRX", "none"), g) ELSE AEC("BR", "none")>>
    BY DEF LowerItem, LowerBra, g
  <2> QED  BY <1>1, <2>1
<1>5. i.op = "st" => f.opcode = "ST"
  <2>1. i.op = "st" => LowerItem(i) = <<Under([AEC("ST", i.type) EXCEPT !.src1 = OperandReg(i, 1),
                                             !.src2 = OperandReg(i, 2), !.space = "gmem"], g)>>
    BY DEF LowerItem, LowerStGlobal, g
  <2>2. i.op = "st" => f = Under([AEC("ST", i.type) EXCEPT !.src1 = OperandReg(i, 1),
                                             !.src2 = OperandReg(i, 2), !.space = "gmem"], g)
    BY <1>1, <2>1
  <2> QED  BY <2>2 DEF AEC, Under
<1>6. i.op = "ld" => f.opcode = "LD" /\ Computed(f, i)
  <2>1. i.op = "ld" => LowerItem(i) = <<Under([AEC("LD", i.type) EXCEPT !.dest = RegNumber[i.dest],
                                             !.src1 = OperandReg(i, 1), !.space = "gmem"], g)>>
    BY DEF LowerItem, LowerLdGlobal, g
  <2>2. i.op = "ld" => f = Under([AEC("LD", i.type) EXCEPT !.dest = RegNumber[i.dest],
                                             !.src1 = OperandReg(i, 1), !.space = "gmem"], g)
    BY <1>1, <2>1
  <2> QED  BY <2>2 DEF AEC, Under, Computed, g
<1>7. i.op = "param" => /\ f.opcode = "LD" /\ f.space = "pmem" /\ f.src1 = TempBase
                        /\ f.dest = RegNumber[i.dest] /\ f.predicate = -1
  <2> DEFINE e == [AEC("LD", i.type) EXCEPT !.dest = RegNumber[i.dest], !.src1 = TempBase, !.space = "pmem"]
  <2>1. i.op = "param" => LowerItem(i) = LoadImmediates(i) \o <<e>>
    BY DEF LowerItem, LowerLdParam
  <2>2. i.op = "param" => f = e
    <3> HIDE DEF e
    <3> QED  BY <1>2, <2>1
  <2> QED  BY <2>2 DEF AEC
<1>8. i.op = "mov" => /\ Computed(f, i)
                      /\ \/ IsImmediate(i, 1) /\ f.opcode = "LOADI"
                         \/ /\ ~IsImmediate(i, 1) /\ i.args[1].reg \in Specials
                            /\ f.opcode = "CPY" /\ f.src1 = SpecialNumber[i.args[1].reg]
                         \/ /\ ~IsImmediate(i, 1) /\ i.args[1].reg \notin Specials
                            /\ f.opcode = "CPY" /\ f.src1 = OperandReg(i, 1)
  <2> SUFFICES ASSUME i.op = "mov"
               PROVE  /\ Computed(f, i)
                      /\ \/ IsImmediate(i, 1) /\ f.opcode = "LOADI"
                         \/ /\ ~IsImmediate(i, 1) /\ i.args[1].reg \in Specials
                            /\ f.opcode = "CPY" /\ f.src1 = SpecialNumber[i.args[1].reg]
                         \/ /\ ~IsImmediate(i, 1) /\ i.args[1].reg \notin Specials
                            /\ f.opcode = "CPY" /\ f.src1 = OperandReg(i, 1)
    OBVIOUS
  <2> DEFINE fromImm == [AEC("LOADI", "none") EXCEPT !.dest = RegNumber[i.dest], !.imm = i.args[1].imm]
             special == [AEC("CPY", "u32") EXCEPT !.dest = RegNumber[i.dest],
                                                  !.src1 = SpecialNumber[i.args[1].reg]]
             copy    == [AEC("CPY", i.type) EXCEPT !.dest = RegNumber[i.dest], !.src1 = OperandReg(i, 1)]
  <2>1. LowerItem(i) = LowerMov(i)
    BY DEF LowerItem
  <2>2. CASE IsImmediate(i, 1)
    <3>1. i.args[1].reg \notin Specials
      BY <2>2, NumbersAssumption DEF IsImmediate
    <3>2. LowerMov(i) = <<Under(fromImm, g)>>
      BY <2>2, <3>1 DEF LowerMov, g
    <3>3. f = Under(fromImm, g)
      BY <1>1, <2>1, <3>2
    <3> QED  BY <2>2, <3>3 DEF AEC, Under, Computed, g
  <2>3. CASE ~IsImmediate(i, 1) /\ i.args[1].reg \in Specials
    <3>1. LowerMov(i) = <<Under(special, g)>>
      BY <2>3 DEF LowerMov, g
    <3>2. f = Under(special, g)
      BY <1>1, <2>1, <3>1
    <3> QED  BY <2>3, <3>2 DEF AEC, Under, Computed, g
  <2>4. CASE ~IsImmediate(i, 1) /\ i.args[1].reg \notin Specials
    <3>1. LowerMov(i) = <<Under(copy, g)>>
      BY <2>4 DEF LowerMov, g
    <3>2. f = Under(copy, g)
      BY <1>1, <2>1, <3>1
    <3> QED  BY <2>4, <3>2 DEF AEC, Under, Computed, g
  <2> QED  BY <2>2, <2>3, <2>4
<1>9. i.op = "setp" => /\ f.opcode = "CMPP" /\ f.dest = PredNumber[i.dest] /\ f.predicate = OwnGuard(i).predicate
                       /\ f.src1 = OperandReg(i, 1) /\ f.src2 = OperandReg(i, 2)
  <2> DEFINE e == Under([AEC("CMPP", i.type) EXCEPT !.dest = PredNumber[i.dest], !.src1 = OperandReg(i, 1),
                           !.src2 = OperandReg(i, 2), !.compare = i.compare], g)
  <2>1. i.op = "setp" => LowerItem(i) = LoadImmediates(i) \o <<e>>
    BY DEF LowerItem, LowerSetp, g
  <2>2. i.op = "setp" => f = e
    <3> HIDE DEF e
    <3> QED  BY <1>2, <2>1
  <2> QED  BY <2>2 DEF AEC, Under, g
<1>10. i.op \in DOMAIN AluOpcode => /\ f.opcode = AluOpcode[i.op] /\ Computed(f, i)
                                    /\ f.src1 = OperandReg(i, 1) /\ f.src2 = OperandReg(i, 2)
                                    /\ f.src3 = OperandReg(i, 3)
  <2> DEFINE e == Under([AEC(AluOpcode[i.op], i.type) EXCEPT !.dest = RegNumber[i.dest], !.src1 = OperandReg(i, 1),
                           !.src2 = OperandReg(i, 2), !.src3 = OperandReg(i, 3)], g)
  <2>1. i.op \in DOMAIN AluOpcode => LowerItem(i) = LoadImmediates(i) \o <<e>>
    <3>1. i.op \in DOMAIN AluOpcode => LowerItem(i) = LowerAlu(i)
      BY DEF LowerItem, AluOpcode
    <3> QED  BY <3>1, Zenon DEF LowerAlu, g
  <2>2. i.op \in DOMAIN AluOpcode => f = e
    <3> HIDE DEF e
    <3> QED  BY <1>2, <2>1
  <2> QED  BY <2>2 DEF AEC, Under, Computed, g
<1> QED  BY <1>3, <1>4, <1>5, <1>6, <1>7, <1>8, <1>9, <1>10 DEF f, g

-----------------------------------------------------------------------------
(* Every instruction of the code is one of its item's, with the others of the *)
(* item in front of it.                                                       *)

Emitted(k, p) == Emit(LowerItem(source[k])[p], guards[k])
IsPiece(n, p) ==
  LET e == Emitted(origin[n], p)
  IN  /\ code[n] = e \/ (stage \in {"encode", "done"} /\ e.opcode \in {"BR", "BRX"}
                           /\ code[n] = [e EXCEPT !.imm = code[n].imm])
      /\ \A q \in 1 .. p - 1 : /\ n - p + q \in 1 .. Len(code) /\ origin[n - p + q] = origin[n]
                               /\ code[n - p + q] = Emitted(origin[n], q)
ShapeInv == \A n \in 1 .. Len(code) : \E p \in 1 .. Len(LowerItem(source[origin[n]])) : IsPiece(n, p)

\* A guard changes nothing else.
LEMMA EmitKeeps ==
  ASSUME NEW x \in InstructionSet, NEW g
  PROVE  LET e == Emit(x, g)
         IN  /\ e.opcode = x.opcode /\ e.type = x.type /\ e.dest = x.dest /\ e.src1 = x.src1 /\ e.src2 = x.src2
             /\ e.src3 = x.src3 /\ e.space = x.space
             /\ x.predicate # -1 => e = x
             /\ x.predicate = -1 => e.predicate = g.predicate
BY DEF InstructionSet, Emit, Under, NoPredicate

\* What an item is lowered to are instructions, and only a branch is lowered to a
\* branch.
LEMMA LoweredFacts ==
  ASSUME NEW i \in Items, Lowerable(i), NEW p \in 1 .. Len(LowerItem(i))
  PROVE  /\ LowerItem(i)[p] \in InstructionSet
         /\ p # Len(LowerItem(i)) => LowerItem(i)[p].opcode = "LOADI" /\ LowerItem(i)[p].predicate = -1
         /\ LowerItem(i)[p].opcode \in {"BR", "BRX"} => IsBranch(i) /\ Len(LowerItem(i)) = 1
<1>1. LowerItem(i)[p] \in InstructionSet
  BY LoweredIsEncodable DEF AllEncodable, Encodable
<1>2. p # Len(LowerItem(i)) => LowerItem(i)[p].opcode = "LOADI" /\ LowerItem(i)[p].predicate = -1
  <2>1. \A k : Load(i, k).opcode = "LOADI" /\ Load(i, k).predicate = -1
    BY DEF Load, AEC
  <2> QED  BY <2>1, PiecesOfAnItem
<1>3. ASSUME LowerItem(i)[p].opcode \in {"BR", "BRX"} PROVE IsBranch(i)
  <2>1. p = Len(LowerItem(i))
    BY <1>2, <1>3
  <2>2. Final(i).opcode \in {"BR", "BRX"}
    BY <1>3, <2>1 DEF Final
  <2>3. i.op \in DOMAIN AluOpcode => Final(i).opcode \in {"ADD", "SUB", "MUL", "MAD", "FMA", "AND"}
    BY FinalFields DEF AluOpcode
  <2>4. i.op \notin {"ret", "st", "ld", "param", "mov", "setp"}
    BY <2>2, FinalFields
  <2>5. i.op = "bra"
    BY <2>2, <2>3, <2>4 DEF Lowerable
  <2> QED  BY <2>5 DEF IsBranch, Items
<1> QED  BY <1>1, <1>2, <1>3, LoweredItem

\* Where an instruction comes from.
LEMMA OriginFacts ==
  ASSUME CodeInv, NEW n \in 1 .. Len(code)
  PROVE  /\ origin[n] \in 1 .. Len(source) /\ source[origin[n]] \in Items
         /\ Len(code) \in Nat
  BY SourceFacts, SequenceFacts DEF CodeInv, OriginsAscend

\* It is an item that is lowered.
OriginsAreLowered == \A n \in 1 .. Len(origin) : ~IsLabel(source[origin[n]])

\* There is no code at the start.
LEMMA ShapeInit == LoweringInit => ShapeInv /\ OriginsAreLowered
<1> SUFFICES ASSUME LoweringInit PROVE ShapeInv /\ OriginsAreLowered
  OBVIOUS
<1>1. Len(code) = 0 /\ Len(origin) = 0
  BY DEF LoweringInit
<1> QED  BY <1>1 DEF ShapeInv, OriginsAreLowered

\* The plan finds no code.
LEMMA PlanShapes ==
  ASSUME CodeInv, Legalise \/ LeaveBranch \/ EndPlan
  PROVE  ShapeInv' /\ OriginsAreLowered'
<1>1. stage = "plan" /\ code' = code /\ origin' = origin
  BY DEF Legalise, LeaveBranch, EndPlan, codeVars
<1>2. Len(code') = 0 /\ Len(origin') = 0
  BY <1>1 DEF CodeInv
<1> QED  BY <1>2 DEF ShapeInv, OriginsAreLowered

\* Steps that leave the code alone.
LEMMA SilentShapes ==
  ASSUME CodeInv, ShapeInv, OriginsAreLowered,
         UNCHANGED <<source, guards, code, origin>>,
         stage' = stage \/ stage \notin {"encode", "done"} \/ stage' \in {"encode", "done"}
  PROVE  ShapeInv' /\ OriginsAreLowered'
<1>1. ASSUME NEW n \in 1 .. Len(code), NEW p, IsPiece(n, p) PROVE IsPiece(n, p)'
  BY <1>1 DEF IsPiece, Emitted
<1> QED  BY <1>1 DEF ShapeInv, OriginsAreLowered

\* What an item adds.
LEMMA LowerOneShapes ==
  ASSUME CodeInv, ShapeInv, OriginsAreLowered, LowerOne
  PROVE  ShapeInv' /\ OriginsAreLowered'
<1> DEFINE lowered == LowerItem(source[item])
           emitted == [j \in DOMAIN lowered |-> Emit(lowered[j], guards[item])]
           from    == [j \in DOMAIN lowered |-> item]
<1>1. /\ stage = "lower" /\ stage' = "lower" /\ item \in 1 .. Len(source) /\ ~IsLabel(source[item])
      /\ code' = code \o emitted /\ origin' = origin \o from
      /\ UNCHANGED <<source, guards>>
  BY SourceFacts DEF LowerOne, AtItem, Advance, planVars, CodeInv
<1>2. IsSequence(lowered) /\ Len(lowered) \in Nat /\ DOMAIN lowered = 1 .. Len(lowered)
  BY LoweredItem, SequenceFacts
<1>3. IsSequence(code) /\ IsSequence(origin) /\ Len(origin) = Len(code) /\ Len(code) \in Nat
  BY SequenceFacts DEF CodeInv, OriginsAscend
<1> HIDE DEF lowered
<1>4. ASSUME NEW e, e = [j \in 1 .. Len(lowered) |-> e[j]]
      PROVE  IsSequence(e) /\ Len(e) = Len(lowered)
  <2>1. e \in Seq({e[j] : j \in 1 .. Len(lowered)}) /\ DOMAIN e = 1 .. Len(lowered)
    BY <1>2, <1>4
  <2> QED  BY <1>2, <2>1 DEF IsSequence
<1>5. /\ IsSequence(emitted) /\ Len(emitted) = Len(lowered)
      /\ IsSequence(from) /\ Len(from) = Len(lowered)
  BY <1>2, <1>4
<1>6. \A j \in 1 .. Len(lowered) : emitted[j] = Emitted(item, j) /\ from[j] = item
  BY <1>2 DEF Emitted, lowered
<1> HIDE DEF emitted, from
<1>7. /\ Len(code') = Len(code) + Len(lowered)
      /\ \A n \in 1 .. Len(code) : code'[n] = code[n] /\ origin'[n] = origin[n]
      /\ \A j \in 1 .. Len(lowered) : code'[Len(code) + j] = Emitted(item, j) /\ origin'[Len(code) + j] = item
      /\ Len(origin') = Len(code) + Len(lowered)
  <2>1. /\ Len(code') = Len(code) + Len(lowered)
        /\ \A n \in 1 .. Len(code) : code'[n] = code[n]
        /\ \A n \in Len(code) + 1 .. Len(code) + Len(lowered) : code'[n] = emitted[n - Len(code)]
    BY <1>1, <1>3, <1>5, Concatenated
  <2>2. /\ \A n \in 1 .. Len(code) : origin'[n] = origin[n]
        /\ \A n \in Len(code) + 1 .. Len(code) + Len(lowered) : origin'[n] = from[n - Len(code)]
        /\ Len(origin') = Len(code) + Len(lowered)
    <3>1. \A n \in 1 .. Len(origin) : origin'[n] = origin[n]
      BY <1>1, <1>3, <1>5, Concatenated
    <3>2. \A n \in Len(origin) + 1 .. Len(origin) + Len(from) : origin'[n] = from[n - Len(origin)]
      BY <1>1, <1>3, <1>5, Concatenated
    <3>3. Len(origin') = Len(origin) + Len(from)
      BY <1>1, <1>3, <1>5, Concatenated
    <3> QED  BY <1>3, <1>5, <3>1, <3>2, <3>3
  <2>3. \A j \in 1 .. Len(lowered) : /\ Len(code) + j \in Len(code) + 1 .. Len(code) + Len(lowered)
                                     /\ Len(code) + j - Len(code) = j
    BY <1>2, <1>3
  <2> QED  BY <1>6, <2>1, <2>2, <2>3
<1>8. \A k, p : Emitted(k, p)' = Emitted(k, p)
  BY <1>1 DEF Emitted
<1>9. ASSUME NEW n \in 1 .. Len(code), NEW p \in 1 .. Len(LowerItem(source[origin[n]])), IsPiece(n, p)
      PROVE  IsPiece(n, p)'
  <2>1. code[n] = Emitted(origin[n], p)
    BY <1>1, <1>9 DEF IsPiece
  <2>2. \A q \in 1 .. p - 1 : /\ n - p + q \in 1 .. Len(code) /\ origin[n - p + q] = origin[n]
                              /\ code[n - p + q] = Emitted(origin[n], q)
    BY <1>9 DEF IsPiece
  <2>3. \A m \in 1 .. Len(code) : m \in 1 .. Len(code')
    BY <1>2, <1>3, <1>7
  <2> QED  BY <1>7, <1>8, <2>1, <2>2, <2>3 DEF IsPiece
<1>10. ASSUME NEW j \in 1 .. Len(lowered), NEW n, n = Len(code) + j PROVE IsPiece(n, j)'
  <2>1. \A q \in 1 .. j - 1 : /\ n - j + q = Len(code) + q /\ q \in 1 .. Len(lowered)
                              /\ Len(code) + q \in 1 .. Len(code')
    BY <1>2, <1>3, <1>7, <1>10
  <2>2. code'[n] = Emitted(item, j) /\ origin'[n] = item
    BY <1>7, <1>10
  <2>3. \A q \in 1 .. j - 1 : code'[n - j + q] = Emitted(item, q) /\ origin'[n - j + q] = item
    BY <1>7, <2>1
  <2> QED  BY <1>8, <2>1, <2>2, <2>3 DEF IsPiece
<1>11. \A n \in 1 .. Len(code') : n \in 1 .. Len(code) \/ \E j \in 1 .. Len(lowered) : n = Len(code) + j
  <2>1. ASSUME NEW n \in 1 .. Len(code'), n \notin 1 .. Len(code) PROVE n - Len(code) \in 1 .. Len(lowered)
    BY <1>2, <1>3, <1>7, <2>1
  <2>2. \A n \in 1 .. Len(code') : n = Len(code) + (n - Len(code))
    BY <1>3, <1>7
  <2> QED  BY <2>1, <2>2
<1>12. ShapeInv'
  <2>1. ASSUME NEW n \in 1 .. Len(code')
        PROVE  \E p \in 1 .. Len(LowerItem(source'[origin'[n]])) : IsPiece(n, p)'
    <3>1. CASE n \in 1 .. Len(code)
      BY <1>1, <1>7, <1>9, <3>1 DEF ShapeInv
    <3>2. CASE \E j \in 1 .. Len(lowered) : n = Len(code) + j
      BY <1>1, <1>7, <1>10, <3>2 DEF lowered
    <3> QED  BY <1>11, <3>1, <3>2
  <2> QED  BY <2>1 DEF ShapeInv
<1>13. OriginsAreLowered'
  <2>1. ASSUME NEW n \in 1 .. Len(origin') PROVE ~IsLabel(source[origin'[n]])
    <3>1. n \in 1 .. Len(code) \/ \E j \in 1 .. Len(lowered) : n = Len(code) + j
      BY <1>7, <1>11
    <3> QED  BY <1>1, <1>3, <1>7, <3>1 DEF OriginsAreLowered
  <2> QED  BY <1>1, <2>1 DEF OriginsAreLowered
<1> QED  BY <1>12, <1>13

\* Patching changes branches alone, which stand by themselves.
LEMMA PatchShapes ==
  ASSUME CodeInv, WordInv, ShapeInv, OriginsAreLowered, PatchBranches
  PROVE  ShapeInv' /\ OriginsAreLowered'
<1>1. /\ stage = "patch" /\ stage' = "encode" /\ code' = [n \in DOMAIN code |-> Patched(n)]
      /\ UNCHANGED <<source, guards, origin>>
  BY DEF PatchBranches, planVars
<1>2. /\ Len(code) \in Nat /\ DOMAIN code = 1 .. Len(code) /\ Len(origin) = Len(code)
      /\ \A n \in 1 .. Len(code) : "imm" \in DOMAIN code[n]
  BY <1>1, SequenceFacts DEF CodeInv, OriginsAscend, HasImmediate
<1>3. Len(code') = Len(code)
  <2>1. DOMAIN code' = 1 .. Len(code) /\ IsSequence(code')
    BY <1>1, <1>2, PatchBranchesInv DEF CodeInv
  <2>2. Len(code') \in Nat /\ DOMAIN code' = 1 .. Len(code')
    BY <2>1, SequenceFacts
  <2> QED  BY <1>2, <2>1, <2>2
<1>4. ASSUME NEW n \in 1 .. Len(code), code[n].opcode \notin {"BR", "BRX"} PROVE code'[n] = code[n]
  <2>1. \A l \in LabelsOf(source) : <<n, l>> \notin pending
    BY <1>4 DEF WordInv
  <2> QED  BY <1>1, <1>2, <2>1 DEF Patched
<1>5. ASSUME NEW n \in 1 .. Len(code) PROVE code'[n] = code[n] \/ code'[n] = [code[n] EXCEPT !.imm = code'[n].imm]
  <2>1. code'[n] = code[n] \/ \E x : code'[n] = [code[n] EXCEPT !.imm = x]
    BY <1>1, <1>2 DEF Patched
  <2>2. ASSUME NEW x, code'[n] = [code[n] EXCEPT !.imm = x] PROVE code'[n].imm = x
    BY <1>2, <2>2
  <2> QED  BY <2>1, <2>2
<1>6. \A k, p : Emitted(k, p)' = Emitted(k, p)
  BY <1>1 DEF Emitted
<1>7. ASSUME NEW n \in 1 .. Len(code), NEW p \in 1 .. Len(LowerItem(source[origin[n]])), IsPiece(n, p)
      PROVE  IsPiece(n, p)'
  <2> DEFINE i == source[origin[n]]
  <2>1. i \in Items /\ Lowerable(i)
    BY <1>2, OriginFacts, ParsedItems DEF CodeInv, OriginsAreLowered
  <2>2. Len(LowerItem(i)) \in 1 .. 4
    BY <2>1, PiecesOfAnItem
  <2>3. /\ code[n] = Emitted(origin[n], p)
        /\ \A q \in 1 .. p - 1 : /\ n - p + q \in 1 .. Len(code) /\ origin[n - p + q] = origin[n]
                                 /\ code[n - p + q] = Emitted(origin[n], q)
    BY <1>1, <1>7 DEF IsPiece
  <2>4. \A q \in 1 .. Len(LowerItem(i)) : Emitted(origin[n], q).opcode = LowerItem(i)[q].opcode
    BY <2>1, LoweredFacts, EmitKeeps DEF Emitted
  <2>5. ASSUME NEW q \in 1 .. p - 1 PROVE code'[n - p + q] = Emitted(origin[n], q)
    <3>1. q \in 1 .. Len(LowerItem(i)) /\ q # Len(LowerItem(i))
      BY <2>2
    <3>2. code[n - p + q].opcode = "LOADI"
      BY <2>1, <2>3, <2>4, <3>1, LoweredFacts
    <3> QED  BY <1>4, <2>3, <3>2
  <2>6. code'[n] = Emitted(origin[n], p)
          \/ (Emitted(origin[n], p).opcode \in {"BR", "BRX"} /\ code'[n] = [Emitted(origin[n], p) EXCEPT !.imm = code'[n].imm])
    BY <1>4, <1>5, <2>3
  <2> QED  BY <1>1, <1>3, <1>6, <2>3, <2>5, <2>6 DEF IsPiece
<1>8. ShapeInv'
  <2>1. ASSUME NEW n \in 1 .. Len(code')
        PROVE  \E p \in 1 .. Len(LowerItem(source'[origin'[n]])) : IsPiece(n, p)'
    BY <1>1, <1>3, <1>7 DEF ShapeInv
  <2> QED  BY <2>1 DEF ShapeInv
<1>9. OriginsAreLowered'
  BY <1>1 DEF OriginsAreLowered
<1> QED  BY <1>8, <1>9

\* Every step of the lowering keeps it.
LEMMA NextShapes ==
  CodeInv /\ WordInv /\ ShapeInv /\ OriginsAreLowered /\ [LoweringNext]_loweringVars => ShapeInv' /\ OriginsAreLowered'
<1> SUFFICES ASSUME CodeInv, WordInv, ShapeInv, OriginsAreLowered, [LoweringNext]_loweringVars
             PROVE  ShapeInv' /\ OriginsAreLowered'
  OBVIOUS
<1>1. CASE UNCHANGED loweringVars
  <2>1. UNCHANGED <<source, guards, code, origin, stage>>
    BY <1>1 DEF loweringVars
  <2> QED  BY <2>1, SilentShapes
<1>2. CASE RecordLabel \/ SkipItem \/ Refuse \/ EndItems \/ WriteCode
  <2>1. UNCHANGED <<source, guards, code, origin>> /\ stage \notin {"done"}
    BY <1>2 DEF RecordLabel, SkipItem, Refuse, EndItems, WriteCode, AtItem, Advance, planVars, codeVars
  <2>2. stage' = stage \/ stage \notin {"encode", "done"} \/ stage' \in {"encode", "done"}
    BY <1>2 DEF RecordLabel, SkipItem, Refuse, EndItems, WriteCode, AtItem, Advance
  <2> QED  BY <2>1, <2>2, SilentShapes
<1> QED  BY <1>1, <1>2, PlanShapes, LowerOneShapes, PatchShapes DEF LoweringNext

-----------------------------------------------------------------------------
(* The lanes of a warp agree on all that a branch called uniform depends on. *)

Depends(k) == Slice(source, DOMAIN source, {k})
Registers(k) == UNION {Uses(source[j]) : j \in Depends(k)}

RegsAgree(x) == \A s, t \in DOMAIN lanes : lanes[s].regs[x] = lanes[t].regs[x]
PredsAgree(x) == \A s, t \in DOMAIN lanes : lanes[s].preds[x] = lanes[t].preds[x]

\* On its registers and predicates, and inside an item on what has been loaded for it.
Agreement(k) ==
  /\ \A r \in Registers(k) \cap DOMAIN RegNumber : RegsAgree(RegNumber[r])
  /\ \A r \in Registers(k) \cap PredRegs : PredsAgree(PredNumber[r])
  /\ wpc < Len(code) => \A m \in 1 .. wpc :
       origin[m] = origin[wpc+1] /\ origin[m] \in Depends(k) /\ code[m].opcode = "LOADI" => RegsAgree(code[m].dest)

MadeInv == CodeInv /\ WordInv /\ ShapeInv /\ OriginsAreLowered
IsLane(l) == l = [regs |-> [r \in RegisterFile |-> l.regs[r]], preds |-> [q \in 0 .. 7 |-> l.preds[q]]]
WarpInv ==
  /\ stage = "done" /\ program = [j \in 1 .. Len(code) |-> Meant(code[j])]
  /\ wpc \in Nat
  /\ \E n \in 0 .. Threads : n <= warpStart /\ warpStart = n * WarpSize
  /\ DOMAIN lanes = WarpThreads(warpStart) /\ \A t \in DOMAIN lanes : IsLane(lanes[t])
RunInv ==
  /\ MadeInv /\ UniformBranchesAgree
  /\ status # "idle" => WarpInv
  /\ status = "running" => \A k \in UniformBranches : DefinitionsAgree(k) => Agreement(k)

\* The program has an instruction for every one of the code.
LEMMA ProgramIsCode ==
  ASSUME MadeInv, WarpInv
  PROVE  /\ Len(program) = Len(code) /\ Len(code) \in Nat
         /\ \A n \in 1 .. Len(code) : program[n] = Meant(code[n]) /\ code[n] \in InstructionSet
<1>1. Len(code) \in Nat
  BY SequenceFacts DEF MadeInv, CodeInv
<1> DEFINE n == Len(code)
<1>2. program \in Seq({Meant(code[j]) : j \in 1 .. n}) /\ DOMAIN program = 1 .. n
  BY <1>1 DEF WarpInv
<1>3. Len(program) \in Nat /\ DOMAIN program = 1 .. Len(program)
  BY <1>2
<1>4. Len(program) = n
  <2> HIDE DEF n
  <2> QED  BY <1>1, <1>2, <1>3 DEF n
<1>5. \A j \in 1 .. n : program[j] = Meant(code[j])
  BY DEF WarpInv
<1>6. \A j \in 1 .. n : code[j] \in InstructionSet
  BY DEF MadeInv, WordInv, AllEncodable, Encodable
<1> QED  BY <1>1, <1>4, <1>5, <1>6

\* What is decoded has the fields of what was written, but for a constant.
LEMMA MeantKeeps ==
  ASSUME NEW x \in InstructionSet
  PROVE  LET e == Meant(x)
         IN  /\ e.opcode = x.opcode /\ e.type = x.type /\ e.dest = x.dest /\ e.src1 = x.src1 /\ e.src2 = x.src2
             /\ e.src3 = x.src3 /\ e.space = x.space /\ e.predicate = x.predicate
             /\ x.opcode # "LOADI" => e.imm = x.imm
BY DEF InstructionSet, Meant

IsNext(n, i, p) ==
  LET x == LowerItem(i)[p]
  IN  /\ n = wpc + 1 /\ n \in 1 .. Len(code) /\ origin[n] \in 1 .. Len(source) /\ i = source[origin[n]]
      /\ i \in Items /\ WellFormed(i) /\ Lowerable(i)
      /\ p \in 1 .. Len(LowerItem(i)) /\ x \in InstructionSet
      /\ Inst.opcode = x.opcode /\ Inst.type = x.type /\ Inst.dest = x.dest /\ Inst.src1 = x.src1
      /\ Inst.src2 = x.src2 /\ Inst.src3 = x.src3 /\ Inst.space = x.space
      /\ x.predicate # -1 => Inst.predicate = x.predicate
      /\ x.predicate = -1 => Inst.predicate = guards[origin[n]].predicate
      /\ Inst.opcode = code[n].opcode /\ Inst.dest = code[n].dest /\ (Inst.opcode # "LOADI" => Inst.imm = code[n].imm)
      /\ IsPiece(n, p)

\* The instruction that is next is one of its item's.
LEMMA NextOne ==
  ASSUME MadeInv, WarpInv, wpc < Len(program)
  PROVE  \E n, i, p : IsNext(n, i, p)
<1> DEFINE n == wpc + 1
           i == source[origin[n]]
<1>1. n \in 1 .. Len(code)
  BY ProgramIsCode DEF WarpInv
<1>2. /\ source \in Programs /\ origin[n] \in 1 .. Len(source) /\ i \in Items /\ Len(origin) = Len(code)
  BY <1>1, OriginFacts DEF MadeInv, CodeInv, OriginsAscend
<1>3. WellFormed(i) /\ Lowerable(i)
  BY <1>1, <1>2, ParsedItems DEF MadeInv, OriginsAreLowered
<1>4. PICK p \in 1 .. Len(LowerItem(i)) : IsPiece(n, p)
  BY <1>1 DEF MadeInv, ShapeInv
<1> DEFINE x == LowerItem(i)[p]
           e == Emit(x, guards[origin[n]])
<1>5. x \in InstructionSet
  BY <1>2, <1>3, LoweredFacts
<1>6. /\ e.opcode = x.opcode /\ e.type = x.type /\ e.dest = x.dest /\ e.src1 = x.src1 /\ e.src2 = x.src2
      /\ e.src3 = x.src3 /\ e.space = x.space
      /\ x.predicate # -1 => e.predicate = x.predicate
      /\ x.predicate = -1 => e.predicate = guards[origin[n]].predicate
  BY <1>5, EmitKeeps
<1>7. code[n] = e \/ (e.opcode \in {"BR", "BRX"} /\ code[n] = [e EXCEPT !.imm = code[n].imm])
  BY <1>4 DEF IsPiece, Emitted
<1>13. e \in InstructionSet
  <2>1. Encodable(x) /\ guards[origin[n]] \in Guards
    BY <1>2, <1>3, LoweredIsEncodable DEF AllEncodable, MadeInv, WordInv
  <2> QED  BY <2>1, GuardedIsEncodable DEF Encodable
<1>8. Inst = Meant(code[n]) /\ code[n] \in InstructionSet
  BY <1>1, ProgramIsCode DEF Inst
<1> HIDE DEF e, x, i, n
<1>9. /\ code[n].opcode = e.opcode /\ code[n].type = e.type /\ code[n].dest = e.dest /\ code[n].src1 = e.src1
      /\ code[n].src2 = e.src2 /\ code[n].src3 = e.src3 /\ code[n].space = e.space /\ code[n].predicate = e.predicate
  BY <1>7, <1>13 DEF InstructionSet
<1>10. /\ Inst.opcode = code[n].opcode /\ Inst.type = code[n].type /\ Inst.dest = code[n].dest
       /\ Inst.src1 = code[n].src1 /\ Inst.src2 = code[n].src2 /\ Inst.src3 = code[n].src3
       /\ Inst.space = code[n].space /\ Inst.predicate = code[n].predicate
       /\ Inst.opcode # "LOADI" => Inst.imm = code[n].imm
  BY <1>8, MeantKeeps
<1>11. n = wpc + 1 /\ i = source[origin[n]] /\ x = LowerItem(i)[p]
  BY DEF n, i, x
<1>12. IsNext(n, i, p)
  BY <1>1, <1>2, <1>3, <1>4, <1>5, <1>6, <1>9, <1>10, <1>11 DEF IsNext
<1> QED  BY <1>12

\* A place before the next one, in a sequence of l places of which w have been left behind.
LEMMA EarlierPlace ==
  ASSUME NEW w \in Nat, NEW l \in Nat, NEW p \in 1 .. 4, NEW q \in 1 .. p - 1, w + 1 \in 1 .. l,
         (w + 1) - p + q \in 1 .. l
  PROVE  (w + 1) - p + q \in 1 .. w /\ w < l
  OBVIOUS

\* An immediate of an item has been loaded when the item's last instruction is next.
LEMMA LoadedBefore ==
  ASSUME MadeInv, WarpInv, NEW k, Agreement(k), NEW n, NEW i, NEW p, IsNext(n, i, p),
         origin[n] \in Depends(k), p = Len(LowerItem(i)), HasLoads(i), NEW a \in 1 .. 3, IsImmediate(i, a)
  PROVE  RegsAgree(Temporary(i, a))
<1>1. i \in Items /\ Lowerable(i) /\ n = wpc + 1 /\ n \in 1 .. Len(code) /\ i = source[origin[n]] /\ IsPiece(n, p)
  BY DEF IsNext
<1>2. PICK q \in 1 .. p - 1 : LowerItem(i)[q] = Load(i, a)
  BY <1>1, PiecesOfAnItem
<1>3. p \in 1 .. 4 /\ wpc \in Nat /\ Len(code) \in Nat
  BY <1>1, PiecesOfAnItem, ProgramIsCode DEF WarpInv
<1> DEFINE m == n - p + q
<1>4. m \in 1 .. Len(code) /\ origin[m] = origin[n] /\ code[m] = Emitted(origin[n], q)
  BY <1>1, <1>2 DEF IsPiece
<1>5. m \in 1 .. wpc /\ wpc < Len(code)
  BY <1>1, <1>3, <1>4, EarlierPlace
<1>6. LowerItem(i)[q] \in InstructionSet
  BY <1>1, <1>2, <1>3, LoweredFacts
<1>7. code[m].opcode = Load(i, a).opcode /\ code[m].dest = Load(i, a).dest
  BY <1>1, <1>2, <1>4, <1>6, EmitKeeps DEF Emitted
<1>8. Load(i, a).opcode = "LOADI" /\ Load(i, a).dest = Temporary(i, a)
  BY DEF Load, AEC
<1> HIDE DEF m
<1>9. RegsAgree(code[m].dest)
  BY <1>1, <1>4, <1>5, <1>7, <1>8 DEF Agreement
<1> QED  BY <1>7, <1>8, <1>9

\* So the lanes agree on the operands of what the branch depends on.
LEMMA OperandsAgree ==
  ASSUME MadeInv, WarpInv, NEW k, Agreement(k), NEW n, NEW i, NEW p, IsNext(n, i, p),
         origin[n] \in Depends(k), ~IsBranch(i), p = Len(LowerItem(i)), NEW a \in 1 .. 3, a \in DOMAIN i.args,
         IsImmediate(i, a) => HasLoads(i), i.args[a].reg \notin Specials
  PROVE  RegsAgree(OperandReg(i, a))
<1>1. CASE IsImmediate(i, a)
  BY <1>1, LoadedBefore DEF OperandReg
<1>2. CASE ~IsImmediate(i, a)
  <2> DEFINE r == i.args[a].reg
  <2>1. r \in DOMAIN RegNumber /\ r # ""
    BY <1>2 DEF IsNext, Lowerable, IsImmediate
  <2>2. r \in Uses(i)
    BY <2>1 DEF Uses
  <2>3. r \in Registers(k)
    BY <2>2 DEF Registers, IsNext
  <2>4. RegsAgree(RegNumber[r])
    BY <2>1, <2>3 DEF Agreement
  <2>5. OperandReg(i, a) = RegNumber[r]
    BY <1>2 DEF OperandReg
  <2> QED  BY <2>4, <2>5
<1> QED  BY <1>1, <1>2

\* What a lane computes, by the opcode.
LEMMA ResultsByOpcode ==
  ASSUME NEW t
  PROVE  LET regs == lanes[t].regs
         IN  /\ Inst.opcode = "LOADI" => LaneResult(t) = Inst.imm % 2^Width
             /\ Inst.opcode = "CPY" => LaneResult(t) = IF Inst.src1 >= 256 THEN SpecialValues(Inst.src1, t)
                                                       ELSE regs[Inst.src1]
             /\ Inst.opcode = "LD" /\ Inst.space = "pmem" => LaneResult(t) = pmem[regs[Inst.src1]]
             /\ Inst.opcode \in {"MAD", "FMA"} =>
                  LaneResult(t) = Arith("add", Inst.type, Arith("mul", Inst.type, regs[Inst.src1], regs[Inst.src2]),
                                        regs[Inst.src3])
             /\ Inst.opcode \in {"ADD", "SUB", "MUL", "AND"} =>
                  LaneResult(t) = Arith(Arithmetic[Inst.opcode], Inst.type, regs[Inst.src1], regs[Inst.src2])
BY DEF LaneResult

\* What the next item is, when the branch depends on it.
LEMMA DependedOn ==
  ASSUME MadeInv, NEW k \in UniformBranches, DefinitionsAgree(k), NEW n, NEW i, NEW p, IsNext(n, i, p),
         origin[n] \in Depends(k) \ {k}
  PROVE  /\ i.op \in ResultBases /\ i.kind = "op" /\ ~IsBranch(i) /\ DOMAIN i.args = 1 .. Len(i.args)
         /\ \E values : ResultUniformity(i, values) = "uniform"
         /\ ~i.guarded /\ guards[origin[n]] = NoGuard
<1>1. source \in Programs
  BY DEF MadeInv, CodeInv
<1>2. /\ i.op \in ResultBases /\ ~i.guarded /\ guards[origin[n]] = NoGuard
      /\ \E values : ResultUniformity(i, values) = "uniform"
  <2>1. i = source[origin[n]]
    BY DEF IsNext
  <2>2. \A j \in Depends(k) \ {k} : /\ source[j].op \in ResultBases
                                    /\ \E values : ResultUniformity(source[j], values) = "uniform"
                                    /\ ~source[j].guarded /\ guards[j] = NoGuard
    BY <1>1, SliceIsUniform DEF Depends
  <2> QED  BY <2>1, <2>2
<1>3. i.kind = "op" /\ DOMAIN i.args = 1 .. Len(i.args)
  BY <1>2, OperationItems DEF IsNext
<1> QED  BY <1>2, <1>3 DEF IsBranch

\* Every lane executes it.
LEMMA AllLanesHold ==
  ASSUME MadeInv, NEW k \in UniformBranches, DefinitionsAgree(k), NEW n, NEW i, NEW p, IsNext(n, i, p),
         origin[n] \in Depends(k) \ {k}
  PROVE  Inst.predicate = -1
<1>1. i.op \in ResultBases /\ OwnGuard(i) = NoGuard /\ guards[origin[n]] = NoGuard
  BY DependedOn DEF OwnGuard
<1>2. i \in Items /\ Lowerable(i) /\ p \in 1 .. Len(LowerItem(i))
  BY DEF IsNext
<1>3. LowerItem(i)[p].predicate = -1
  <2>1. CASE p # Len(LowerItem(i))
    BY <1>2, <2>1, LoweredFacts
  <2>2. CASE p = Len(LowerItem(i))
    <3>1. LowerItem(i)[p] = Final(i)
      BY <2>2 DEF Final
    <3>2. NoGuard.predicate = -1
      BY DEF NoGuard, NoPredicate
    <3>3. i.op \in {"ld", "param", "mov", "setp"} \cup DOMAIN AluOpcode
      BY <1>1 DEF ResultBases, MergedBases, AluOpcode
    <3> QED  BY <1>1, <1>2, <3>1, <3>2, <3>3, FinalFields DEF Computed
  <2> QED  BY <2>1, <2>2
<1>4. NoGuard.predicate = -1
  BY DEF NoGuard, NoPredicate
<1> QED  BY <1>1, <1>3, <1>4 DEF IsNext

\* The lanes of a warp are threads of it, and see the same in a uniform special register.
LEMMA SpecialsAgree ==
  ASSUME WarpInv, NEW r \in UniformSpecials, NEW s \in DOMAIN lanes, NEW t \in DOMAIN lanes
  PROVE  SpecialValues(SpecialNumber[r], s) = SpecialValues(SpecialNumber[r], t)
<1>1. PICK n \in 0 .. Threads : warpStart = n * WarpSize
  BY DEF WarpInv
<1>2. s \in WarpThreads(n * WarpSize) /\ t \in WarpThreads(n * WarpSize)
  BY <1>1 DEF WarpInv
<1> QED  BY <1>2, WarpsAssumption

\* And all of them come to the same result.
LEMMA SameResult ==
  ASSUME MadeInv, WarpInv, NEW k \in UniformBranches, DefinitionsAgree(k), Agreement(k),
         NEW n, NEW i, NEW p, IsNext(n, i, p), origin[n] \in Depends(k) \ {k},
         NEW s \in DOMAIN lanes, NEW t \in DOMAIN lanes
  PROVE  /\ Inst.opcode # "CMPP" => LaneResult(s) = LaneResult(t)
         /\ Inst.opcode = "CMPP" => RegsAgree(Inst.src1) /\ RegsAgree(Inst.src2)
<1>1. /\ i.op \in ResultBases /\ ~IsBranch(i) /\ origin[n] \in Depends(k)
      /\ \E values : ResultUniformity(i, values) = "uniform"
  BY DependedOn
<1>2. i \in Items /\ WellFormed(i) /\ Lowerable(i) /\ p \in 1 .. Len(LowerItem(i))
  BY DEF IsNext
<1>3. Inst.opcode = "LOADI" => LaneResult(s) = LaneResult(t)
  BY ResultsByOpcode
<1>4. CASE p # Len(LowerItem(i))
  <2>1. Inst.opcode = "LOADI"
    BY <1>2, <1>4, LoweredFacts DEF IsNext
  <2> QED  BY <1>3, <2>1
<1>5. CASE p = Len(LowerItem(i))
  <2> DEFINE f == Final(i)
  <2>1. f = LowerItem(i)[p]
    BY <1>5 DEF Final
  <2> HIDE DEF f
  <2>2. /\ Inst.opcode = f.opcode /\ Inst.type = f.type /\ Inst.src1 = f.src1 /\ Inst.src2 = f.src2
        /\ Inst.src3 = f.src3 /\ Inst.space = f.space
    BY <2>1 DEF IsNext
  <2>3. ASSUME NEW a \in 1 .. 3, a \in DOMAIN i.args, HasLoads(i), i.op # "mov"
        PROVE  RegsAgree(OperandReg(i, a))
    <3>1. i.args[a].reg \notin Specials
      BY <1>2, <2>3, DistinctNumbersAssumption, NumbersAssumption DEF Lowerable
    <3> QED  BY <1>1, <1>5, <2>3, <3>1, OperandsAgree
  <2>4. CASE i.op = "mov"
    <3>1. CASE IsImmediate(i, 1)
      <4>1. f.opcode = "LOADI"
        BY <1>2, <2>4, <3>1, FinalFields DEF f
      <4> QED  BY <1>3, <2>2, <4>1
    <3>2. CASE ~IsImmediate(i, 1) /\ i.args[1].reg \in Specials
      <4> DEFINE r == i.args[1].reg
      <4>1. f.opcode = "CPY" /\ f.src1 = SpecialNumber[r] /\ f.src1 \in 256 .. 2^16 - 1
        BY <1>2, <2>4, <3>2, FinalFields, NumbersAssumption, ZenonT(40) DEF f
      <4>2. r \in UniformSpecials
        <5>1. PICK values : OperandUniformity(i.args[1], values) = "uniform"
          BY <1>1, <2>4 DEF ResultUniformity, MergedBases
        <5>2. r # "" /\ r \in UniformSpecials \cup VaryingSpecials
          BY <3>2, NumbersAssumption DEF Specials
        <5> QED  BY <5>1, <5>2 DEF OperandUniformity
      <4>3. LaneResult(s) = SpecialValues(SpecialNumber[r], s) /\ LaneResult(t) = SpecialValues(SpecialNumber[r], t)
        <5>1. Inst.src1 >= 256 /\ Inst.opcode = "CPY" /\ Inst.src1 = SpecialNumber[r]
          BY <2>2, <4>1, Widths
        <5> QED  BY <5>1, ResultsByOpcode
      <4>4. Inst.opcode = "CPY"
        BY <2>2, <4>1
      <4> QED  BY <4>2, <4>3, <4>4, SpecialsAgree
    <3>3. CASE ~IsImmediate(i, 1) /\ i.args[1].reg \notin Specials
      <4>1. f.opcode = "CPY" /\ f.src1 = OperandReg(i, 1)
        BY <1>2, <2>4, <3>3, FinalFields DEF f
      <4>2. 1 \in DOMAIN i.args
        BY <1>2, <2>4 DEF Lowerable
      <4>3. RegsAgree(OperandReg(i, 1))
        BY <1>1, <1>5, <3>3, <4>2, OperandsAgree
      <4>4. OperandReg(i, 1) \in 0 .. 255
        <5>1. i.args[1].reg \in {""} \cup DOMAIN RegNumber
          BY <1>2, <3>3, <4>2 DEF Lowerable
        <5>2. 1 \in 1 .. 3
          OBVIOUS
        <5> QED  BY <1>2, <5>1, <5>2, OperandsFit
      <4>5. LaneResult(s) = lanes[s].regs[Inst.src1] /\ LaneResult(t) = lanes[t].regs[Inst.src1] /\ Inst.opcode = "CPY"
        BY <2>2, <4>1, <4>4, ResultsByOpcode
      <4> QED  BY <2>2, <4>1, <4>3, <4>5 DEF RegsAgree
    <3> QED  BY <3>1, <3>2, <3>3
  <2>5. CASE i.op = "param"
    <3>1. f.opcode = "LD" /\ f.space = "pmem" /\ f.src1 = TempBase
      BY <1>2, <2>5, FinalFields DEF f
    <3>2. IsImmediate(i, 1)
      BY <2>5, ParsedItems DEF IsNext, MadeInv, CodeInv
    <3>3. RegsAgree(OperandReg(i, 1))
      <4>1. 1 \in DOMAIN i.args
        BY <3>2, Zenon DEF IsImmediate
      <4>2. 1 \in 1 .. 3
        OBVIOUS
      <4>3. HasLoads(i) /\ i.op # "mov"
        BY <2>5 DEF HasLoads
      <4> QED  BY <2>3, <4>1, <4>2, <4>3
    <3>4. OperandReg(i, 1) = TempBase
      <4>1. {j \in 1 .. 1 - 1 : IsImmediate(i, j)} = {}
        OBVIOUS
      <4>2. Cardinality({j \in 1 .. 1 - 1 : IsImmediate(i, j)}) = 0
        BY <4>1, FS_EmptySet, Zenon
      <4>3. Temporary(i, 1) = TempBase + 0
        BY <4>2, Zenon DEF Temporary
      <4>4. Temporary(i, 1) = TempBase
        <5>1. TempBase \in Nat
          BY NumbersAssumption
        <5>2. TempBase + 0 = TempBase
          BY <5>1
        <5> QED  BY <4>3, <5>2, Zenon
      <4> QED  BY <3>2, <4>4 DEF OperandReg, IsImmediate
    <3>5. LaneResult(s) = pmem[lanes[s].regs[TempBase]] /\ LaneResult(t) = pmem[lanes[t].regs[TempBase]]
      BY <2>2, <3>1, ResultsByOpcode
    <3>6. Inst.opcode = "LD"
      BY <2>2, <3>1
    <3> QED  BY <3>3, <3>4, <3>5, <3>6 DEF RegsAgree
  <2>6. i.op # "ld"
    BY <1>1 DEF ResultUniformity, MergedBases
  <2>7. CASE i.op = "setp"
    <3>1. f.opcode = "CMPP" /\ f.src1 = OperandReg(i, 1) /\ f.src2 = OperandReg(i, 2)
      BY <1>2, <2>7, FinalFields DEF f
    <3>2. 1 \in DOMAIN i.args /\ 2 \in DOMAIN i.args
      BY <1>1, <1>2, <2>7, Arities
    <3>3. HasLoads(i)
      BY <2>7 DEF HasLoads
    <3> QED  BY <2>2, <2>3, <2>7, <3>1, <3>2, <3>3
  <2>8. CASE i.op \in DOMAIN AluOpcode
    <3>1. f.opcode = AluOpcode[i.op] /\ f.src1 = OperandReg(i, 1) /\ f.src2 = OperandReg(i, 2) /\ f.src3 = OperandReg(i, 3)
      BY <1>2, <2>8, FinalFields DEF f
    <3>2. /\ i.op \in {"mad", "fma"} => 3 \in DOMAIN i.args
          /\ 1 \in DOMAIN i.args /\ 2 \in DOMAIN i.args
      BY <1>1, <1>2, <2>8, Arities DEF AluOpcode
    <3>3. HasLoads(i) /\ i.op # "mov"
      BY <2>8 DEF HasLoads, AluOpcode
    <3>4. /\ lanes[s].regs[Inst.src1] = lanes[t].regs[Inst.src1] /\ lanes[s].regs[Inst.src2] = lanes[t].regs[Inst.src2]
          /\ i.op \in {"mad", "fma"} => lanes[s].regs[Inst.src3] = lanes[t].regs[Inst.src3]
      BY <2>2, <2>3, <3>1, <3>2, <3>3 DEF RegsAgree
    <3>5. CASE i.op \in {"mad", "fma"}
      <4>1. Inst.opcode \in {"MAD", "FMA"}
        BY <2>2, <3>1, <3>5 DEF AluOpcode
      <4> QED  BY <3>4, <3>5, <4>1, ResultsByOpcode
    <3>6. CASE i.op \notin {"mad", "fma"}
      <4>1. Inst.opcode \in {"ADD", "SUB", "MUL", "AND"}
        BY <2>2, <2>8, <3>1, <3>6 DEF AluOpcode
      <4> QED  BY <3>4, <4>1, ResultsByOpcode
    <3> QED  BY <3>5, <3>6
  <2>9. i.op \in DOMAIN AluOpcode \cup {"mov", "param", "setp", "ld"}
    BY <1>1 DEF ResultBases, MergedBases, AluOpcode
  <2> QED  BY <2>4, <2>5, <2>6, <2>7, <2>8, <2>9
<1> QED  BY <1>4, <1>5

\* Temporaries are registers of their own.
LEMMA TemporariesFit ==
  ASSUME NEW i, NEW a \in 1 .. 3
  PROVE  Temporary(i, a) \in TempBase .. TempBase + 2
<1> DEFINE before == {j \in 1 .. a - 1 : IsImmediate(i, j)}
<1>1. IsFiniteSet(1 .. a - 1) /\ Cardinality(1 .. a - 1) = a - 1
  BY FS_Interval
<1>2. Cardinality(before) <= a - 1 /\ Cardinality(before) \in Nat
  BY <1>1, FS_Subset, FS_CardinalityType
<1>3. TempBase \in Nat
  BY NumbersAssumption
<1> HIDE DEF before
<1>4. TempBase + Cardinality(before) \in TempBase .. TempBase + 2
  BY <1>2, <1>3
<1> QED  BY <1>4 DEF Temporary, before

Computing == DOMAIN OpcodeNumbers \ {"HALT", "BR", "BRX", "ST", "CMPP"}

\* Where the next instruction puts what it computes: into a temporary, or into
\* what its item defines.
LEMMA Destinations ==
  ASSUME MadeInv, NEW n, NEW i, NEW p, IsNext(n, i, p)
  PROVE  LET r == InstructionDest(i)
         IN  /\ Inst.opcode \in Computing =>
                  \/ \E a \in 1 .. 3 : Inst.dest = Temporary(i, a)
                  \/ r \in DOMAIN RegNumber /\ Inst.dest = RegNumber[r]
             /\ Inst.opcode = "CMPP" => r \in PredRegs /\ Inst.dest = PredNumber[r]
             /\ IsBranch(i) => Inst.opcode \in {"BR", "BRX"}
<1>1. i \in Items /\ WellFormed(i) /\ Lowerable(i) /\ p \in 1 .. Len(LowerItem(i))
  BY DEF IsNext
<1>2. Inst.opcode = LowerItem(i)[p].opcode /\ Inst.dest = LowerItem(i)[p].dest
  BY DEF IsNext
<1>3. CASE p # Len(LowerItem(i))
  <2>1. PICK a \in 1 .. 3 : LowerItem(i)[p] = Load(i, a)
    BY <1>1, <1>3, PiecesOfAnItem
  <2>2. HasLoads(i)
    BY <1>1, <1>3, PiecesOfAnItem
  <2>3. Load(i, a).opcode = "LOADI" /\ Load(i, a).dest = Temporary(i, a)
    BY DEF Load, AEC
  <2>4. ~IsBranch(i)
    BY <1>1, <2>2, OperationItems DEF HasLoads, AluOpcode, IsBranch
  <2> QED  BY <1>2, <2>1, <2>3, <2>4
<1>4. CASE p = Len(LowerItem(i))
  <2> DEFINE f == Final(i)
  <2>1. Inst.opcode = f.opcode /\ Inst.dest = f.dest
    BY <1>2, <1>4 DEF Final
  <2> HIDE DEF f
  <2>2. i.op \in {"ret", "bra", "st", "ld", "param", "mov", "setp"} \cup DOMAIN AluOpcode
    BY <1>1 DEF Lowerable
  <2>3. CASE i.op \in {"ret", "st"}
    <3>1. f.opcode \in {"HALT", "ST"}
      BY <1>1, <2>3, FinalFields DEF f
    <3>2. ~IsBranch(i)
      BY <1>1, <2>3, OperationItems DEF IsBranch
    <3> QED  BY <2>1, <3>1, <3>2 DEF Computing
  <2>4. CASE i.op = "bra"
    <3>1. f = IF i.guarded THEN Under(AEC("BRX", "none"), OwnGuard(i)) ELSE AEC("BR", "none")
      BY <1>1, <2>4, FinalFields DEF f
    <3>2. f.opcode \in {"BR", "BRX"}
      BY <3>1 DEF Under, AEC
    <3> QED  BY <2>1, <3>2 DEF Computing
  <2>5. CASE i.op = "setp"
    <3>1. f.opcode = "CMPP" /\ f.dest = PredNumber[i.dest]
      BY <1>1, <2>5, FinalFields DEF f
    <3>2. InstructionDest(i) = i.dest /\ i.dest \in PredRegs
      BY <1>1, <2>5 DEF InstructionDest, ResultBases, MergedBases, Lowerable
    <3>3. ~IsBranch(i)
      BY <1>1, <2>5, OperationItems DEF IsBranch
    <3> QED  BY <2>1, <3>1, <3>2, <3>3 DEF Computing
  <2>6. CASE i.op \in {"ld", "param", "mov"} \cup DOMAIN AluOpcode
    <3>1. f.dest = RegNumber[i.dest] /\ f.opcode \in {"LD", "LOADI", "CPY", "ADD", "SUB", "MUL", "MAD", "FMA", "AND"}
      <4>1. i.op \in DOMAIN AluOpcode => AluOpcode[i.op] \in {"ADD", "SUB", "MUL", "MAD", "FMA", "AND"}
        BY DEF AluOpcode
      <4> QED  BY <1>1, <2>6, <4>1, FinalFields DEF f, Computed
    <3>2. InstructionDest(i) = i.dest /\ i.dest \in DOMAIN RegNumber
      BY <1>1, <2>6 DEF InstructionDest, ResultBases, MergedBases, Lowerable, AluOpcode
    <3>3. ~IsBranch(i)
      BY <1>1, <2>6, OperationItems DEF IsBranch, AluOpcode
    <3> QED  BY <2>1, <3>1, <3>2, <3>3 DEF Computing
  <2> QED  BY <2>2, <2>3, <2>4, <2>5, <2>6
<1> QED  BY <1>3, <1>4

\* It is a register of the file, or one of the predicates.
LEMMA DestinationsFit ==
  ASSUME MadeInv, NEW n, NEW i, NEW p, IsNext(n, i, p)
  PROVE  /\ Inst.opcode \in Computing => Inst.dest \in RegisterFile
         /\ Inst.opcode = "CMPP" => Inst.dest \in 0 .. 7
<1>1. ASSUME Inst.opcode \in Computing PROVE Inst.dest \in RegisterFile
  <2>1. {RegNumber[r] : r \in DOMAIN RegNumber} \cup (TempBase .. TempBase + 2) \subseteq RegisterFile
    BY WarpsAssumption
  <2>2. (\E a \in 1 .. 3 : Inst.dest = Temporary(i, a)) \/ Inst.dest \in {RegNumber[r] : r \in DOMAIN RegNumber}
    BY <1>1, Destinations
  <2> QED  BY <2>1, <2>2, TemporariesFit
<1>2. ASSUME Inst.opcode = "CMPP" PROVE Inst.dest \in 0 .. 7
  BY <1>2, Destinations, NumbersAssumption
<1> QED  BY <1>1, <1>2

\* What the branch does not depend on is put elsewhere.
LEMMA OtherDestinations ==
  ASSUME MadeInv, NEW k \in UniformBranches, DefinitionsAgree(k), NEW n, NEW i, NEW p, IsNext(n, i, p),
         origin[n] \notin Depends(k)
  PROVE  /\ Inst.opcode \in Computing => \A r \in Registers(k) \cap DOMAIN RegNumber : Inst.dest # RegNumber[r]
         /\ Inst.opcode = "CMPP" => \A r \in Registers(k) \cap PredRegs : Inst.dest # PredNumber[r]
<1>1. origin[n] \in 1 .. Len(source) /\ i = source[origin[n]] /\ n \in 1 .. Len(code)
  BY DEF IsNext
<1>2. ~IsLabel(i)
  BY <1>1 DEF MadeInv, OriginsAreLowered, CodeInv, OriginsAscend
<1>3. ASSUME NEW r \in Registers(k) PROVE InstructionDest(i) # r
  <2>1. PICK j \in Depends(k) : r \in Uses(source[j])
    BY <1>3 DEF Registers
  <2>2. source \in Programs
    BY DEF MadeInv, CodeInv
  <2>3. DefinitionItems(source, r) \subseteq Depends(k)
    BY <2>1, <2>2, SliceIsUniform DEF Depends
  <2>4. origin[n] \notin DefinitionItems(source, r)
    BY <2>3
  <2> QED  BY <1>1, <1>2, <2>4 DEF DefinitionItems
<1>4. ASSUME Inst.opcode \in Computing, NEW r \in Registers(k) \cap DOMAIN RegNumber PROVE Inst.dest # RegNumber[r]
  <2>1. CASE \E a \in 1 .. 3 : Inst.dest = Temporary(i, a)
    <3>1. Inst.dest \in TempBase .. TempBase + 2
      BY <2>1, TemporariesFit
    <3>2. RegNumber[r] < TempBase
      BY DistinctNumbersAssumption
    <3>3. TempBase \in Nat
      BY NumbersAssumption
    <3>4. RegNumber[r] \in 0 .. 255
      BY NumbersAssumption
    <3> QED  BY <3>1, <3>2, <3>3, <3>4
  <2>2. CASE InstructionDest(i) \in DOMAIN RegNumber /\ Inst.dest = RegNumber[InstructionDest(i)]
    BY <1>3, <2>2, DistinctNumbersAssumption
  <2> QED  BY <1>4, <2>1, <2>2, Destinations
<1>5. ASSUME Inst.opcode = "CMPP", NEW r \in Registers(k) \cap PredRegs PROVE Inst.dest # PredNumber[r]
  BY <1>3, <1>5, Destinations, DistinctNumbersAssumption
<1> QED  BY <1>4, <1>5

\* A word written into a register of the lanes that hold.
LEMMA WrittenRegister ==
  ASSUME WarpInv, NEW d,
         lanes' = [t \in DOMAIN lanes |->
                     IF Holds(t) THEN [lanes[t] EXCEPT !.regs[d] = LaneResult(t)] ELSE lanes[t]]
  PROVE  /\ DOMAIN lanes' = DOMAIN lanes /\ \A t \in DOMAIN lanes' : IsLane(lanes'[t])
         /\ \A x : RegsAgree(x) /\ x # d => RegsAgree(x)'
         /\ \A x : PredsAgree(x) => PredsAgree(x)'
         /\ d \in RegisterFile /\ (\A s, t \in DOMAIN lanes : Holds(t) /\ LaneResult(s) = LaneResult(t)) =>
              RegsAgree(d)' /\ \A x : RegsAgree(x) => RegsAgree(x)'
<1>1. \A t \in DOMAIN lanes : lanes[t] = [regs |-> [r \in RegisterFile |-> lanes[t].regs[r]],
                                          preds |-> [q \in 0 .. 7 |-> lanes[t].preds[q]]]
  BY DEF WarpInv, IsLane
<1>2. DOMAIN lanes' = DOMAIN lanes
  OBVIOUS
<1>3. ASSUME NEW t \in DOMAIN lanes
      PROVE  /\ lanes'[t].preds = lanes[t].preds
             /\ \A x : x # d => lanes'[t].regs[x] = lanes[t].regs[x]
             /\ Holds(t) /\ d \in RegisterFile => lanes'[t].regs[d] = LaneResult(t)
             /\ Holds(t) => \A x : x = d \/ lanes'[t].regs[x] = lanes[t].regs[x]
             /\ IsLane(lanes'[t])
  <2> DEFINE l == lanes[t]
             v == LaneResult(t)
  <2>1. l = [regs |-> [r \in RegisterFile |-> l.regs[r]], preds |-> [q \in 0 .. 7 |-> l.preds[q]]]
    BY <1>1
  <2>2. lanes'[t] = IF Holds(t) THEN [l EXCEPT !.regs[d] = v] ELSE l
    OBVIOUS
  <2> HIDE DEF l, v
  <2>3. [l EXCEPT !.regs[d] = v] = [regs |-> [l.regs EXCEPT ![d] = v], preds |-> l.preds]
    <3>1. ASSUME NEW a, NEW b
          PROVE  [[regs |-> a, preds |-> b] EXCEPT !.regs[d] = v] = [regs |-> [a EXCEPT ![d] = v], preds |-> b]
      OBVIOUS
    <3>2. ASSUME NEW a, NEW b, l = [regs |-> a, preds |-> b] PROVE l.regs = a /\ l.preds = b
      BY <3>2
    <3>3. \E a, b : l = [regs |-> a, preds |-> b]
      BY <2>1
    <3>4. l = [regs |-> l.regs, preds |-> l.preds]
      BY <3>2, <3>3
    <3> QED  BY <3>1, <3>4
  <2>4. l.regs = [r \in RegisterFile |-> l.regs[r]] /\ l.preds = [q \in 0 .. 7 |-> l.preds[q]]
    BY <2>1
  <2> DEFINE f == l.regs
             g == [f EXCEPT ![d] = v]
             e == [regs |-> g, preds |-> l.preds]
  <2>5. f = [r \in RegisterFile |-> f[r]]
    BY <2>4
  <2> HIDE DEF f
  <2>6. g = [r \in RegisterFile |-> IF r = d THEN v ELSE f[r]]
    BY <2>5
  <2>7. g = [r \in RegisterFile |-> g[r]] /\ (\A x : x # d => g[x] = f[x]) /\ (d \in RegisterFile => g[d] = v)
    <3>1. \A x \in RegisterFile : x # d => g[x] = f[x]
      BY <2>6
    <3>2. \A x : x # d => g[x] = f[x]
      BY <2>5
    <3> QED  BY <2>6, <3>1, <3>2
  <2>8. e.regs = g /\ e.preds = l.preds
    OBVIOUS
  <2> HIDE DEF g
  <2>9. IsLane(e)
    BY <2>4, <2>7, <2>8 DEF IsLane
  <2>10. lanes'[t] = IF Holds(t) THEN e ELSE l
    BY <2>2, <2>3 DEF f, g
  <2>11. IsLane(l)
    BY <2>1 DEF IsLane
  <2> HIDE DEF e
  <2> QED  BY <2>7, <2>8, <2>9, <2>10, <2>11 DEF l, v, f
<1>4. \A x : RegsAgree(x) /\ x # d => RegsAgree(x)'
  BY <1>2, <1>3 DEF RegsAgree
<1>5. \A x : PredsAgree(x) => PredsAgree(x)'
  BY <1>2, <1>3 DEF PredsAgree
<1>6. ASSUME d \in RegisterFile, \A s, t \in DOMAIN lanes : Holds(t) /\ LaneResult(s) = LaneResult(t)
      PROVE  RegsAgree(d)' /\ \A x : RegsAgree(x) => RegsAgree(x)'
  <2>1. RegsAgree(d)'
    BY <1>2, <1>3, <1>6 DEF RegsAgree
  <2> QED  BY <1>4, <2>1
<1> QED  BY <1>2, <1>3, <1>4, <1>5, <1>6

ComparedInto(how, d, a, b) ==
  lanes' = [t \in DOMAIN lanes |->
              IF Holds(t) THEN [lanes[t] EXCEPT !.preds[d] = Compares(how, lanes[t].regs[a], lanes[t].regs[b])]
              ELSE lanes[t]]

\* A verdict written into a predicate of the lanes that hold.
LEMMA WrittenPredicate ==
  ASSUME WarpInv, NEW how, NEW d, NEW a, NEW b, ComparedInto(how, d, a, b)
  PROVE  /\ DOMAIN lanes' = DOMAIN lanes /\ \A t \in DOMAIN lanes' : IsLane(lanes'[t])
         /\ \A x : RegsAgree(x) => RegsAgree(x)'
         /\ \A x : PredsAgree(x) /\ x # d => PredsAgree(x)'
         /\ d \in 0 .. 7 /\ (\A t \in DOMAIN lanes : Holds(t)) /\ RegsAgree(a) /\ RegsAgree(b) =>
              \A x : PredsAgree(x) => PredsAgree(x)'
<1>1. \A t \in DOMAIN lanes : lanes[t] = [regs |-> [r \in RegisterFile |-> lanes[t].regs[r]],
                                          preds |-> [q \in 0 .. 7 |-> lanes[t].preds[q]]]
  BY DEF WarpInv, IsLane
<1>2. DOMAIN lanes' = DOMAIN lanes
  BY DEF ComparedInto
<1>3. ASSUME NEW t \in DOMAIN lanes
      PROVE  /\ lanes'[t].regs = lanes[t].regs
             /\ \A x : x # d => lanes'[t].preds[x] = lanes[t].preds[x]
             /\ Holds(t) /\ d \in 0 .. 7 => lanes'[t].preds[d] = Compares(how, lanes[t].regs[a], lanes[t].regs[b])
             /\ IsLane(lanes'[t])
  <2> DEFINE l == lanes[t]
             v == Compares(how, lanes[t].regs[a], lanes[t].regs[b])
  <2>1. l = [regs |-> [r \in RegisterFile |-> l.regs[r]], preds |-> [q \in 0 .. 7 |-> l.preds[q]]]
    BY <1>1
  <2>2. lanes'[t] = IF Holds(t) THEN [l EXCEPT !.preds[d] = v] ELSE l
    BY DEF ComparedInto
  <2> HIDE DEF l, v
  <2>3. [l EXCEPT !.preds[d] = v] = [regs |-> l.regs, preds |-> [l.preds EXCEPT ![d] = v]]
    <3>1. ASSUME NEW x, NEW y
          PROVE  [[regs |-> x, preds |-> y] EXCEPT !.preds[d] = v] = [regs |-> x, preds |-> [y EXCEPT ![d] = v]]
      OBVIOUS
    <3>2. ASSUME NEW x, NEW y, l = [regs |-> x, preds |-> y] PROVE l.regs = x /\ l.preds = y
      BY <3>2
    <3>3. \E x, y : l = [regs |-> x, preds |-> y]
      BY <2>1
    <3>4. l = [regs |-> l.regs, preds |-> l.preds]
      BY <3>2, <3>3
    <3> QED  BY <3>1, <3>4
  <2>4. l.regs = [r \in RegisterFile |-> l.regs[r]] /\ l.preds = [q \in 0 .. 7 |-> l.preds[q]]
    BY <2>1
  <2> DEFINE f == l.preds
             g == [f EXCEPT ![d] = v]
             e == [regs |-> l.regs, preds |-> g]
  <2>5. f = [q \in 0 .. 7 |-> f[q]]
    BY <2>4
  <2> HIDE DEF f
  <2>6. g = [q \in 0 .. 7 |-> IF q = d THEN v ELSE f[q]]
    BY <2>5
  <2>7. g = [q \in 0 .. 7 |-> g[q]] /\ (\A x : x # d => g[x] = f[x]) /\ (d \in 0 .. 7 => g[d] = v)
    <3>1. \A x : x # d => g[x] = f[x]
      BY <2>5
    <3> QED  BY <2>6, <3>1
  <2>8. e.preds = g /\ e.regs = l.regs
    OBVIOUS
  <2> HIDE DEF g
  <2>9. IsLane(e)
    BY <2>4, <2>7, <2>8 DEF IsLane
  <2>10. lanes'[t] = IF Holds(t) THEN e ELSE l
    BY <2>2, <2>3 DEF f, g
  <2>11. IsLane(l)
    BY <2>1 DEF IsLane
  <2> HIDE DEF e
  <2> QED  BY <2>7, <2>8, <2>9, <2>10, <2>11 DEF l, v, f
<1>4. \A x : RegsAgree(x) => RegsAgree(x)'
  BY <1>2, <1>3 DEF RegsAgree
<1>5. \A x : PredsAgree(x) /\ x # d => PredsAgree(x)'
  BY <1>2, <1>3 DEF PredsAgree
<1>6. ASSUME d \in 0 .. 7, \A t \in DOMAIN lanes : Holds(t), RegsAgree(a), RegsAgree(b)
      PROVE  \A x : PredsAgree(x) => PredsAgree(x)'
  <2>1. ASSUME NEW s \in DOMAIN lanes, NEW t \in DOMAIN lanes PROVE lanes'[s].preds[d] = lanes'[t].preds[d]
    <3>1. lanes[s].regs[a] = lanes[t].regs[a] /\ lanes[s].regs[b] = lanes[t].regs[b]
      BY <1>6 DEF RegsAgree
    <3>2. /\ lanes'[s].preds[d] = Compares(how, lanes[s].regs[a], lanes[s].regs[b])
          /\ lanes'[t].preds[d] = Compares(how, lanes[t].regs[a], lanes[t].regs[b])
      BY <1>3, <1>6
    <3> QED  BY <3>1, <3>2, Zenon
  <2>2. PredsAgree(d)'
    BY <1>2, <2>1 DEF PredsAgree
  <2> QED  BY <1>5, <2>2
<1> QED  BY <1>2, <1>3, <1>4, <1>5, <1>6

\* What has been loaded for an item, one instruction further.
LEMMA LoadedAfter ==
  ASSUME MadeInv, WarpInv, UNCHANGED loweringVars, NEW k, Agreement(k), wpc < Len(code), wpc' = wpc + 1,
         origin[wpc+1] \in Depends(k) => \A x : RegsAgree(x) => RegsAgree(x)',
         \A x : origin[wpc+1] \in Depends(k) /\ code[wpc+1].opcode = "LOADI" /\ x = code[wpc+1].dest => RegsAgree(x)'
  PROVE  (wpc < Len(code) => \A m \in 1 .. wpc :
            origin[m] = origin[wpc+1] /\ origin[m] \in Depends(k) /\ code[m].opcode = "LOADI" => RegsAgree(code[m].dest))'
<1>1. source' = source /\ code' = code /\ origin' = origin
  BY DEF loweringVars
<1>2. Depends(k)' = Depends(k)
  BY <1>1 DEF Depends
<1>3. wpc \in Nat /\ Len(code) \in Nat /\ Len(origin) = Len(code)
  BY ProgramIsCode DEF WarpInv, MadeInv, CodeInv, OriginsAscend
<1> DEFINE n == wpc + 1
<1>4. ASSUME n < Len(code), NEW m \in 1 .. n, origin[m] = origin[n+1], origin[m] \in Depends(k), code[m].opcode = "LOADI",
             NEW d, d = code[m].dest
      PROVE  RegsAgree(d)'
  <2>1. origin[n] = origin[m]
    <3>1. \A a, b \in 1 .. Len(origin) : a <= b => origin[a] <= origin[b]
      BY DEF MadeInv, CodeInv, OriginsAscend
    <3>2. m \in 1 .. Len(origin) /\ n \in 1 .. Len(origin) /\ n + 1 \in 1 .. Len(origin) /\ m <= n /\ n <= n + 1
      BY <1>3, <1>4
    <3>3. origin[m] <= origin[n] /\ origin[n] <= origin[n+1]
      BY <3>1, <3>2
    <3>4. origin[m] \in Int /\ origin[n] \in Int /\ origin[n+1] \in Int
      BY <1>3, <3>2, OriginFacts DEF MadeInv
    <3> QED  BY <1>4, <3>3, <3>4
  <2>2. CASE m = n
    BY <1>4, <2>2
  <2>3. CASE m # n
    <3>1. m \in 1 .. wpc
      BY <1>3, <2>3
    <3>2. RegsAgree(d)
      BY <1>4, <2>1, <3>1 DEF Agreement
    <3> QED  BY <1>4, <2>1, <3>2
  <2> QED  BY <2>2, <2>3
<1> QED  BY <1>1, <1>2, <1>4 DEF RegsAgree

\* One instruction further, where nothing the branch depends on comes apart.
LEMMA OneFurther ==
  ASSUME MadeInv, WarpInv, UNCHANGED loweringVars, NEW k, Agreement(k), wpc < Len(code), wpc' = wpc + 1,
         origin[wpc+1] \in Depends(k) => \A x : RegsAgree(x) => RegsAgree(x)',
         \A x : origin[wpc+1] \in Depends(k) /\ code[wpc+1].opcode = "LOADI" /\ x = code[wpc+1].dest => RegsAgree(x)',
         \A r \in Registers(k) \cap DOMAIN RegNumber : RegsAgree(RegNumber[r]) => RegsAgree(RegNumber[r])',
         \A r \in Registers(k) \cap PredRegs : PredsAgree(PredNumber[r]) => PredsAgree(PredNumber[r])'
  PROVE  Agreement(k)'
<1>1. Registers(k)' = Registers(k)
  BY DEF Registers, Depends, loweringVars
<1>2. (wpc < Len(code) => \A m \in 1 .. wpc :
            origin[m] = origin[wpc+1] /\ origin[m] \in Depends(k) /\ code[m].opcode = "LOADI" => RegsAgree(code[m].dest))'
  BY LoadedAfter
<1>3. \A r \in Registers(k) \cap DOMAIN RegNumber : RegsAgree(RegNumber[r])'
  BY DEF Agreement
<1>4. \A r \in Registers(k) \cap PredRegs : PredsAgree(PredNumber[r])'
  BY DEF Agreement
<1> QED  BY <1>1, <1>2, <1>3, <1>4 DEF Agreement

\* An instruction that computes.
LEMMA ComputeAgrees ==
  ASSUME MadeInv, WarpInv, UNCHANGED loweringVars, NEW k \in UniformBranches, DefinitionsAgree(k), Agreement(k), Compute
  PROVE  Agreement(k)'
<1>1. /\ Inst.opcode \in Computing /\ wpc' = wpc + 1 /\ wpc < Len(program)
      /\ lanes' = [t \in DOMAIN lanes |->
                     IF Holds(t) THEN [lanes[t] EXCEPT !.regs[Inst.dest] = LaneResult(t)] ELSE lanes[t]]
  BY DEF Compute, At, Goto, Computing, InRange, Inst
<1>2. PICK n, i, p : IsNext(n, i, p)
  BY <1>1, NextOne
<1>3. n = wpc + 1 /\ wpc < Len(code) /\ Inst.dest = code[n].dest /\ Inst.opcode = code[n].opcode
  BY <1>1, <1>2, ProgramIsCode DEF IsNext
<1>4. PICK d : d = Inst.dest
  OBVIOUS
<1>5. /\ \A x : RegsAgree(x) /\ x # d => RegsAgree(x)'
      /\ \A x : PredsAgree(x) => PredsAgree(x)'
      /\ d \in RegisterFile /\ (\A s, t \in DOMAIN lanes : Holds(t) /\ LaneResult(s) = LaneResult(t)) =>
              RegsAgree(d)' /\ \A x : RegsAgree(x) => RegsAgree(x)'
  <2>1. lanes' = [t \in DOMAIN lanes |-> IF Holds(t) THEN [lanes[t] EXCEPT !.regs[d] = LaneResult(t)] ELSE lanes[t]]
    BY <1>1, <1>4
  <2> QED  BY <2>1, WrittenRegister
<1>6. CASE origin[n] \in Depends(k)
  <2>1. origin[n] # k
    <3>1. k \in 1 .. Len(source) /\ IsBranch(source[k])
      BY DEF UniformBranches, PredicatedBranches
    <3>2. origin[n] = k => IsBranch(i)
      BY <1>2, <3>1 DEF IsNext
    <3> QED  BY <1>1, <1>2, <3>2, Destinations DEF Computing
  <2>2. d \in RegisterFile
    BY <1>1, <1>2, <1>4, DestinationsFit
  <2>3. Inst.predicate = -1 /\ Inst.opcode # "CMPP"
    BY <1>1, <1>2, <1>6, <2>1, AllLanesHold DEF Computing
  <2>4. \A s, t \in DOMAIN lanes : Holds(t) /\ LaneResult(s) = LaneResult(t)
    BY <1>2, <1>6, <2>1, <2>3, SameResult DEF Holds
  <2>5. RegsAgree(d)' /\ \A x : RegsAgree(x) => RegsAgree(x)'
    BY <1>5, <2>2, <2>4
  <2>6. \A x : x = code[wpc+1].dest => RegsAgree(x)'
    BY <1>3, <1>4, <2>5
  <2> QED  BY <1>1, <1>3, <1>5, <2>5, <2>6, OneFurther
<1>7. CASE origin[n] \notin Depends(k)
  <2>1. \A r \in Registers(k) \cap DOMAIN RegNumber : d # RegNumber[r]
    BY <1>1, <1>2, <1>4, <1>7, OtherDestinations
  <2>2. \A r \in Registers(k) \cap DOMAIN RegNumber : RegsAgree(RegNumber[r]) => RegsAgree(RegNumber[r])'
    BY <1>5, <2>1
  <2>3. \A r \in Registers(k) \cap PredRegs : PredsAgree(PredNumber[r]) => PredsAgree(PredNumber[r])'
    BY <1>5
  <2> QED  BY <1>1, <1>3, <1>7, <2>2, <2>3, OneFurther
<1> QED  BY <1>6, <1>7

\* One that compares.
LEMMA CompareAgrees ==
  ASSUME MadeInv, WarpInv, UNCHANGED loweringVars, NEW k \in UniformBranches, DefinitionsAgree(k), Agreement(k), Compare
  PROVE  Agreement(k)'
<1>1. /\ Inst.opcode = "CMPP" /\ wpc' = wpc + 1 /\ wpc < Len(program)
      /\ lanes' = [t \in DOMAIN lanes |->
                     IF Holds(t) THEN [lanes[t] EXCEPT !.preds[Inst.dest] =
                                         Compares(Inst.compare, lanes[t].regs[Inst.src1], lanes[t].regs[Inst.src2])]
                     ELSE lanes[t]]
  BY DEF Compare, At, Goto, InRange, Inst
<1>2. PICK n, i, p : IsNext(n, i, p)
  BY <1>1, NextOne
<1>3. n = wpc + 1 /\ wpc < Len(code) /\ Inst.opcode = code[n].opcode
  BY <1>1, <1>2, ProgramIsCode DEF IsNext
<1>4. PICK how, d, a, b : how = Inst.compare /\ d = Inst.dest /\ a = Inst.src1 /\ b = Inst.src2
  OBVIOUS
<1>5. /\ \A x : RegsAgree(x) => RegsAgree(x)'
      /\ \A x : PredsAgree(x) /\ x # d => PredsAgree(x)'
      /\ d \in 0 .. 7 /\ (\A t \in DOMAIN lanes : Holds(t)) /\ RegsAgree(a) /\ RegsAgree(b) =>
              \A x : PredsAgree(x) => PredsAgree(x)'
  <2>1. ComparedInto(how, d, a, b)
    BY <1>1, <1>4 DEF ComparedInto
  <2> QED  BY <2>1, WrittenPredicate
<1>6. CASE origin[n] \in Depends(k)
  <2>1. origin[n] # k
    <3>1. k \in 1 .. Len(source) /\ IsBranch(source[k])
      BY DEF UniformBranches, PredicatedBranches
    <3>2. origin[n] = k => IsBranch(i)
      BY <1>2, <3>1 DEF IsNext
    <3> QED  BY <1>1, <1>2, <3>2, Destinations
  <2>2. d \in 0 .. 7
    BY <1>1, <1>2, <1>4, DestinationsFit
  <2>3. Inst.predicate = -1
    BY <1>2, <1>6, <2>1, AllLanesHold
  <2>4. \A s, t \in DOMAIN lanes : RegsAgree(a) /\ RegsAgree(b)
    BY <1>1, <1>2, <1>4, <1>6, <2>1, SameResult
  <2>5. \A x : PredsAgree(x) => PredsAgree(x)'
    <3>1. CASE DOMAIN lanes = {}
      BY <1>1, <3>1 DEF PredsAgree
    <3>2. CASE DOMAIN lanes # {}
      BY <1>5, <2>2, <2>3, <2>4, <3>2 DEF Holds
    <3> QED  BY <3>1, <3>2
  <2> QED  BY <1>1, <1>3, <1>5, <2>5, OneFurther
<1>7. CASE origin[n] \notin Depends(k)
  <2>1. \A r \in Registers(k) \cap PredRegs : d # PredNumber[r]
    BY <1>1, <1>2, <1>4, <1>7, OtherDestinations
  <2>2. \A r \in Registers(k) \cap PredRegs : PredsAgree(PredNumber[r]) => PredsAgree(PredNumber[r])'
    BY <1>5, <2>1
  <2> QED  BY <1>1, <1>3, <1>5, <1>7, <2>2, OneFurther
<1> QED  BY <1>6, <1>7

\* One that leaves the lanes alone.
LEMMA SteppingOver ==
  ASSUME MadeInv, WarpInv, UNCHANGED loweringVars, NEW k, Agreement(k), wpc < Len(program), wpc' = wpc + 1,
         lanes' = lanes, Inst.opcode # "LOADI"
  PROVE  Agreement(k)'
<1>1. wpc < Len(code) /\ code[wpc+1].opcode # "LOADI"
  <2>1. PICK n, i, p : IsNext(n, i, p)
    BY NextOne
  <2> QED  BY <2>1, ProgramIsCode DEF IsNext
<1>2. \A x : (RegsAgree(x) => RegsAgree(x)') /\ (PredsAgree(x) => PredsAgree(x)')
  BY DEF RegsAgree, PredsAgree
<1> QED  BY <1>1, <1>2, OneFurther

\* A branch comes from a branch, leads to a word, and what is in front of its
\* target is in front of its label.
LEMMA BranchFacts ==
  ASSUME MadeInv, WarpInv, wpc < Len(program), Inst.opcode \in {"BR", "BRX"}
  PROVE  /\ Inst.imm \in Nat
         /\ \A m \in 1 .. Inst.imm : Inst.imm < Len(code) => origin[m] # origin[Inst.imm + 1]
<1>1. PICK n, i, p : IsNext(n, i, p)
  BY NextOne
<1>2. /\ n \in 1 .. Len(code) /\ i = source[origin[n]] /\ i \in Items /\ Lowerable(i) /\ p \in 1 .. Len(LowerItem(i))
      /\ LowerItem(i)[p].opcode \in {"BR", "BRX"} /\ code[n].opcode \in {"BR", "BRX"} /\ Inst.imm = code[n].imm
  BY <1>1 DEF IsNext
<1>3. IsBranch(source[origin[n]])
  BY <1>2, LoweredFacts
<1>4. Inst.imm \in 0 .. WordValues - 1
  BY <1>2 DEF MadeInv, WordInv, AllEncodable, Encodable
<1>5. Inst.imm \in Nat
  BY <1>4, Widths
<1>6. BranchesLandOnTheirLabels /\ stage = "done"
  BY LabelsAreMet DEF MadeInv, WarpInv
<1>7. \A m \in 1 .. Len(code) : m <= Inst.imm <=> origin[m] < Target(source, origin[n])
  BY <1>2, <1>3, <1>6 DEF BranchesLandOnTheirLabels
<1>8. ASSUME Inst.imm < Len(code), NEW m \in 1 .. Inst.imm PROVE origin[m] # origin[Inst.imm + 1]
  <2> DEFINE a == Inst.imm
  <2>1. Len(code) \in Nat
    BY ProgramIsCode
  <2>2. m \in 1 .. Len(code) /\ m <= a /\ a + 1 \in 1 .. Len(code) /\ ~(a + 1 <= a)
    BY <1>5, <1>8, <2>1
  <2> HIDE DEF a
  <2>3. origin[m] < Target(source, origin[n]) /\ ~(origin[a+1] < Target(source, origin[n]))
    BY <1>7, <2>2 DEF a
  <2> QED  BY <2>3 DEF a
<1> QED  BY <1>5, <1>8

\* A branch taken.
LEMMA JumpAgrees ==
  ASSUME MadeInv, WarpInv, UNCHANGED loweringVars, NEW k, Agreement(k), wpc < Len(program),
         Inst.opcode \in {"BR", "BRX"}, wpc' = Inst.imm, lanes' = lanes
  PROVE  Agreement(k)'
<1>1. Registers(k)' = Registers(k) /\ code' = code /\ origin' = origin
  BY DEF Registers, Depends, loweringVars
<1>2. \A x : (RegsAgree(x) => RegsAgree(x)') /\ (PredsAgree(x) => PredsAgree(x)')
  BY DEF RegsAgree, PredsAgree
<1>3. wpc' < Len(code) => \A m \in 1 .. wpc' : origin[m] # origin[wpc'+1]
  BY BranchFacts
<1>4. \A r \in Registers(k) \cap DOMAIN RegNumber : RegsAgree(RegNumber[r])'
  BY <1>2 DEF Agreement
<1>5. \A r \in Registers(k) \cap PredRegs : PredsAgree(PredNumber[r])'
  BY <1>2 DEF Agreement
<1> QED  BY <1>1, <1>3, <1>4, <1>5 DEF Agreement

\* A warp that begins.
LEMMA FreshAgrees ==
  ASSUME UNCHANGED loweringVars, NEW k, NEW start, lanes' = FreshLanes(start), wpc' = 0
  PROVE  Agreement(k)'
<1>1. \A x : \A s, t \in DOMAIN lanes' : lanes'[s].regs[x] = lanes'[t].regs[x] /\ lanes'[s].preds[x] = lanes'[t].preds[x]
  <2>1. \A s \in DOMAIN lanes' : lanes'[s] = [regs |-> [r \in RegisterFile |-> 0], preds |-> [q \in 0 .. 7 |-> FALSE]]
    BY DEF FreshLanes
  <2> QED  BY <2>1, Zenon
<1>2. \A x : RegsAgree(x)' /\ PredsAgree(x)'
  BY <1>1 DEF RegsAgree, PredsAgree
<1>3. \A m : m \notin 1 .. wpc'
  OBVIOUS
<1> QED  BY <1>2, <1>3 DEF Agreement

\* A branch the lanes agree on does not divide them.
LEMMA NoDivergence ==
  ASSUME MadeInv, WarpInv, Diverge, NEW k \in UniformBranches, DefinitionsAgree(k), Agreement(k), origin[wpc+1] = k
  PROVE  FALSE
<1>1. /\ Inst.opcode = "BRX" /\ wpc < Len(program) /\ \E s, t \in DOMAIN lanes : Holds(s) # Holds(t)
  BY DEF Diverge, At, InRange, Inst
<1>2. PICK n, i, p : IsNext(n, i, p)
  BY <1>1, NextOne
<1>3. /\ n = wpc + 1 /\ i = source[k] /\ i \in Items /\ Lowerable(i) /\ p \in 1 .. Len(LowerItem(i))
      /\ k \in 1 .. Len(source) /\ IsBranch(i) /\ i.guarded /\ source \in Programs
  BY <1>2 DEF IsNext, UniformBranches, PredicatedBranches, MadeInv, CodeInv
<1>4. i.op = "bra" /\ i.guard \in PredRegs /\ i.guard # ""
  BY <1>3, RegistersAssumption DEF IsBranch, Items, Lowerable
<1>5. p = Len(LowerItem(i)) /\ LowerItem(i)[p] = Final(i)
  <2>1. LowerItem(i)[p].opcode = "BRX"
    BY <1>1, <1>2 DEF IsNext
  <2>2. Len(LowerItem(i)) = 1
    BY <1>3, <2>1, LoweredFacts
  <2>3. p = 1
    BY <1>3, <2>2
  <2> QED  BY <2>2, <2>3 DEF Final
<1>6. LowerItem(i)[p].predicate = PredNumber[i.guard]
  <2>1. Final(i) = Under(AEC("BRX", "none"), OwnGuard(i))
    BY <1>3, <1>4, FinalFields
  <2>2. OwnGuard(i).predicate = PredNumber[i.guard]
    BY <1>3 DEF OwnGuard
  <2>3. Final(i).predicate = OwnGuard(i).predicate
    BY <2>1 DEF Under, AEC
  <2> QED  BY <1>5, <2>2, <2>3
<1>7. PredNumber[i.guard] \in 0 .. 7
  BY <1>4, NumbersAssumption
<1>8. Inst.predicate = PredNumber[i.guard]
  <2>1. PredNumber[i.guard] # -1
    BY <1>7
  <2> QED  BY <1>2, <1>6, <2>1 DEF IsNext
<1>9. i.guard \in Registers(k)
  <2>1. k \in Depends(k)
    BY <1>3, SliceIsUniform DEF Depends
  <2>2. i.guard \in Uses(source[k])
    BY <1>3, <1>4 DEF Uses
  <2> QED  BY <2>1, <2>2 DEF Registers
<1>10. PredsAgree(Inst.predicate)
  BY <1>4, <1>8, <1>9 DEF Agreement
<1>11. \A s, t \in DOMAIN lanes : lanes[s].preds[Inst.predicate] = lanes[t].preds[Inst.predicate]
  BY <1>10 DEF PredsAgree
<1>12. \A s, t \in DOMAIN lanes : Holds(s) = Holds(t)
  BY <1>11, Zenon DEF Holds
<1> QED  BY <1>1, <1>12

-----------------------------------------------------------------------------
(* The invariant of a launch. *)

\* Nothing runs at the start.
LEMMA RunInit == Init => RunInv
<1> SUFFICES ASSUME Init PROVE RunInv
  OBVIOUS
<1>1. LoweringInit /\ status = "idle"
  BY DEF Init, WarpInit
<1>2. MadeInv
  BY <1>1, InitInv, WordInit, ShapeInit DEF MadeInv
<1> QED  BY <1>1, <1>2 DEF RunInv, UniformBranchesAgree

\* The lowering goes on, or stands still.
LEMMA MadeStep == MadeInv /\ [LoweringNext]_loweringVars => MadeInv'
BY NextInv, NextWords, NextShapes DEF MadeInv

\* Where the code stands still, so does what is known of it.
LEMMA CodeStands ==
  ASSUME UNCHANGED loweringVars
  PROVE  /\ UniformBranches' = UniformBranches /\ stage' = stage /\ origin' = origin /\ code' = code
         /\ \A k : DefinitionsAgree(k)' <=> DefinitionsAgree(k)
<1>1. source' = source /\ guards' = guards /\ stage' = stage /\ origin' = origin /\ code' = code
  BY DEF loweringVars
<1> QED  BY <1>1 DEF UniformBranches, DefinitionsAgree

\* The lowering is over when something runs.
LEMMA LowerRuns ==
  ASSUME RunInv, Lower
  PROVE  RunInv'
<1>1. stage # "done"
  BY DEF Lower, LoweringNext, Legalise, LeaveBranch, EndPlan, RecordLabel, SkipItem, LowerOne, Refuse, EndItems,
         PatchBranches, WriteCode, AtItem
<1>2. status = "idle" /\ status' = status
  BY <1>1 DEF RunInv, WarpInv, Lower, warpVars
<1>3. MadeInv'
  BY MadeStep DEF RunInv, Lower
<1> QED  BY <1>2, <1>3 DEF RunInv, UniformBranchesAgree

\* A warp of fresh lanes.
LEMMA FreshWarp ==
  ASSUME NEW n \in 0 .. Threads, n <= warpStart', warpStart' = n * WarpSize, wpc' = 0, lanes' = FreshLanes(warpStart'),
         stage' = "done", program' = [j \in 1 .. Len(code') |-> Meant(code'[j])]
  PROVE  WarpInv'
<1>1. DOMAIN lanes' = WarpThreads(warpStart')
  BY DEF FreshLanes
<1>2. ASSUME NEW t \in DOMAIN lanes' PROVE IsLane(lanes'[t])
  <2>1. lanes'[t] = [regs |-> [r \in RegisterFile |-> 0], preds |-> [q \in 0 .. 7 |-> FALSE]]
    BY DEF FreshLanes
  <2> DEFINE l == [regs |-> [r \in RegisterFile |-> 0], preds |-> [q \in 0 .. 7 |-> FALSE]]
  <2>2. IsLane(l)
    BY DEF IsLane
  <2> QED  BY <2>1, <2>2
<1>3. WarpThreads(warpStart)' = WarpThreads(warpStart')
  BY DEF WarpThreads
<1>4. \A t \in DOMAIN lanes' : IsLane(lanes[t])'
  BY <1>2 DEF IsLane
<1> QED  BY <1>1, <1>3, <1>4 DEF WarpInv

\* A launch.
LEMMA StartRuns ==
  ASSUME RunInv, Start
  PROVE  RunInv'
<1>1. /\ stage = "done" /\ UNCHANGED loweringVars /\ status' = "running" /\ warpStart' = 0 /\ wpc' = 0
      /\ lanes' = FreshLanes(0) /\ program' = [j \in DOMAIN binary |-> Decode(binary[j])]
  BY DEF Start, Launch
<1>2. MadeInv'
  BY <1>1, MadeStep DEF RunInv
<1>3. stage' = "done" /\ code' = code
  BY <1>1, CodeStands
<1>4. program' = [j \in 1 .. Len(code) |-> Meant(code[j])]
  <2>1. Len(code) \in Nat /\ DOMAIN code = 1 .. Len(code)
    BY SequenceFacts DEF RunInv, MadeInv, CodeInv
  <2>2. binary = [j \in DOMAIN code |-> Encode(code[j])]
    BY <1>1 DEF RunInv, MadeInv, WordInv
  <2>3. \A j \in 1 .. Len(code) : Decode(Encode(code[j])) = Meant(code[j])
    BY DecodeInvertsEncode DEF RunInv, MadeInv, WordInv, AllEncodable
  <2>4. \A j \in 1 .. Len(code) : Decode(binary[j]) = Meant(code[j])
    BY <2>1, <2>2, <2>3
  <2>5. DOMAIN binary = 1 .. Len(code)
    BY <2>1, <2>2
  <2> QED  BY <1>1, <2>4, <2>5
<1>5. WarpInv'
  <2>1. 0 \in 0 .. Threads /\ 0 = 0 * WarpSize
    BY WarpsAssumption
  <2>2. 0 \in 0 .. Threads /\ 0 <= warpStart' /\ warpStart' = 0 * WarpSize /\ lanes' = FreshLanes(warpStart')
    BY <1>1, <2>1
  <2>3. program' = [j \in 1 .. Len(code') |-> Meant(code'[j])]
    BY <1>3, <1>4
  <2> QED  BY <1>1, <1>3, <2>2, <2>3, FreshWarp
<1>6. \A k : Agreement(k)'
  BY <1>1, FreshAgrees
<1>7. UniformBranchesAgree'
  BY <1>1 DEF UniformBranchesAgree
<1> QED  BY <1>2, <1>5, <1>6, <1>7 DEF RunInv

\* A warp that goes on has the threads it had.
LEMMA WarpGoesOn ==
  ASSUME WarpInv, UNCHANGED <<stage, code, program, warpStart>>, wpc' \in Nat,
         DOMAIN lanes' = DOMAIN lanes, \A t \in DOMAIN lanes' : IsLane(lanes'[t])
  PROVE  WarpInv'
<1>1. WarpThreads(warpStart)' = WarpThreads(warpStart)
  BY DEF WarpThreads
<1>2. \A t \in DOMAIN lanes' : IsLane(lanes[t])'
  BY DEF IsLane
<1> QED  BY <1>1, <1>2 DEF WarpInv

\* An instruction of a warp.
LEMMA RunRuns ==
  ASSUME RunInv, Run
  PROVE  RunInv'
<1>1. status = "running" /\ UNCHANGED loweringVars /\ WarpNext
  BY DEF Run, WarpNext, RunsOff, OutOfSteps, GuardedControl, Halt, Jump, BranchX, Diverge, Compute, Compare, StoreWords, At
<1>2. /\ MadeInv /\ WarpInv /\ MadeInv' /\ \A k \in UniformBranches : DefinitionsAgree(k) => Agreement(k)
  BY <1>1, MadeStep DEF RunInv
<1>3. UNCHANGED <<stage, code, origin, UniformBranches>> /\ \A k : DefinitionsAgree(k)' <=> DefinitionsAgree(k)
  BY <1>1, CodeStands
<1>4. /\ wpc \in Nat /\ program = [j \in 1 .. Len(code) |-> Meant(code[j])] /\ stage = "done"
      /\ \A t \in DOMAIN lanes : IsLane(lanes[t])
  BY <1>2 DEF WarpInv
<1>5. ASSUME NEW reason, Stop(reason), reason # "running",
             reason = "non-uniform BRX" => \A k \in UniformBranches : origin[wpc+1] = k => ~DefinitionsAgree(k)
      PROVE  RunInv'
  <2>1. status' = reason /\ UNCHANGED <<program, warpStart, wpc, lanes>>
    BY <1>5 DEF Stop
  <2>2. WarpInv'
    BY <1>2, <1>3, <1>4, <2>1, WarpGoesOn
  <2>3. UniformBranchesAgree'
    BY <1>3, <1>5, <2>1 DEF UniformBranchesAgree
  <2> QED  BY <1>2, <1>5, <2>1, <2>2, <2>3 DEF RunInv
<1>6. ASSUME status' = "running", WarpInv', \A k \in UniformBranches : DefinitionsAgree(k) => Agreement(k)'
      PROVE  RunInv'
  <2>1. UniformBranchesAgree'
    BY <1>6 DEF UniformBranchesAgree
  <2> QED  BY <1>2, <1>3, <1>6, <2>1 DEF RunInv
<1>7. CASE RunsOff \/ OutOfSteps \/ GuardedControl
  BY <1>5, <1>7 DEF RunsOff, OutOfSteps, GuardedControl
<1>8. CASE Diverge
  <2>1. \A k \in UniformBranches : origin[wpc+1] = k => ~DefinitionsAgree(k)
    BY <1>2, <1>8, NoDivergence
  <2> QED  BY <1>5, <1>8, <2>1 DEF Diverge
<1>9. CASE Halt
  <2> DEFINE next == warpStart + WarpSize
  <2>1. CASE next < Threads
    <3>1. /\ warpStart' = next /\ wpc' = 0 /\ lanes' = FreshLanes(next) /\ program' = program /\ status' = status
      BY <1>9, <2>1 DEF Halt
    <3>2. PICK n \in 0 .. Threads : n <= warpStart /\ warpStart = n * WarpSize
      BY <1>2 DEF WarpInv
    <3>3. Threads \in Nat /\ WarpSize \in Nat \ {0}
      BY WarpsAssumption
    <3>4. n * WarpSize \in Nat /\ (n + 1) * WarpSize = n * WarpSize + WarpSize
      BY <3>3
    <3>5. n + 1 \in 0 .. Threads /\ n + 1 <= next /\ next = (n + 1) * WarpSize
      BY <2>1, <3>2, <3>3, <3>4
    <3>6. n + 1 <= warpStart' /\ warpStart' = (n + 1) * WarpSize /\ lanes' = FreshLanes(warpStart')
      BY <3>1, <3>5
    <3>7. stage' = "done" /\ program' = [j \in 1 .. Len(code') |-> Meant(code'[j])]
      BY <1>3, <1>4, <3>1
    <3>8. WarpInv'
      BY <3>1, <3>5, <3>6, <3>7, FreshWarp
    <3>9. \A k : Agreement(k)'
      BY <1>1, <3>1, FreshAgrees
    <3> QED  BY <1>1, <1>6, <3>1, <3>8, <3>9
  <2>2. CASE ~(next < Threads)
    <3>1. Stop("returned")
      BY <1>9, <2>2 DEF Halt
    <3> QED  BY <1>5, <3>1
  <2> QED  BY <2>1, <2>2
<1>10. CASE Jump
  <2>1. /\ Inst.opcode = "BR" /\ wpc < Len(program) /\ wpc' = Inst.imm /\ lanes' = lanes
        /\ UNCHANGED <<program, warpStart, status>>
    BY <1>10 DEF Jump, At, InRange, Inst, Goto
  <2>2. Inst.imm \in Nat
    BY <1>2, <2>1, BranchFacts
  <2>3. WarpInv'
    BY <1>2, <1>3, <1>4, <2>1, <2>2, WarpGoesOn
  <2>4. \A k \in UniformBranches : DefinitionsAgree(k) => Agreement(k)'
    BY <1>1, <1>2, <2>1, JumpAgrees
  <2> QED  BY <1>1, <1>6, <2>1, <2>3, <2>4
<1>11. CASE BranchX
  <2>1. /\ Inst.opcode = "BRX" /\ wpc < Len(program) /\ wpc' \in {Inst.imm, wpc + 1} /\ lanes' = lanes
        /\ UNCHANGED <<program, warpStart, status>>
    BY <1>11 DEF BranchX, At, InRange, Inst, Goto
  <2>2. Inst.imm \in Nat
    BY <1>2, <2>1, BranchFacts
  <2>3. wpc' \in Nat
    BY <1>4, <2>1, <2>2
  <2>4. WarpInv'
    BY <1>2, <1>3, <1>4, <2>1, <2>3, WarpGoesOn
  <2>5. ASSUME NEW k \in UniformBranches, DefinitionsAgree(k) PROVE Agreement(k)'
    <3>1. CASE wpc' = Inst.imm
      BY <1>1, <1>2, <2>1, <2>5, <3>1, JumpAgrees
    <3>2. CASE wpc' = wpc + 1
      BY <1>1, <1>2, <2>1, <2>5, <3>2, SteppingOver
    <3> QED  BY <2>1, <3>1, <3>2
  <2> QED  BY <1>1, <1>6, <2>1, <2>4, <2>5
<1>12. CASE Compute
  <2>1. /\ wpc' = wpc + 1 /\ UNCHANGED <<program, warpStart, status>>
        /\ lanes' = [t \in DOMAIN lanes |->
                     IF Holds(t) THEN [lanes[t] EXCEPT !.regs[Inst.dest] = LaneResult(t)] ELSE lanes[t]]
    BY <1>12 DEF Compute, Goto
  <2>2. DOMAIN lanes' = DOMAIN lanes /\ \A t \in DOMAIN lanes' : IsLane(lanes'[t])
    BY <1>2, <2>1, WrittenRegister
  <2>3. wpc' \in Nat
    BY <1>4, <2>1
  <2>4. WarpInv'
    BY <1>2, <1>3, <2>1, <2>2, <2>3, WarpGoesOn
  <2>5. \A k \in UniformBranches : DefinitionsAgree(k) => Agreement(k)'
    BY <1>1, <1>2, <1>12, ComputeAgrees
  <2> QED  BY <1>1, <1>6, <2>1, <2>4, <2>5
<1>13. CASE Compare
  <2>1. wpc' = wpc + 1 /\ UNCHANGED <<program, warpStart, status>>
        /\ ComparedInto(Inst.compare, Inst.dest, Inst.src1, Inst.src2)
    BY <1>13 DEF Compare, Goto, ComparedInto
  <2>2. DOMAIN lanes' = DOMAIN lanes /\ \A t \in DOMAIN lanes' : IsLane(lanes'[t])
    <3>1. PICK how, d, a, b : how = Inst.compare /\ d = Inst.dest /\ a = Inst.src1 /\ b = Inst.src2
      OBVIOUS
    <3>2. ComparedInto(how, d, a, b)
      BY <2>1, <3>1
    <3> QED  BY <1>2, <3>2, WrittenPredicate
  <2>3. wpc' \in Nat
    BY <1>4, <2>1
  <2>4. WarpInv'
    BY <1>2, <1>3, <2>1, <2>2, <2>3, WarpGoesOn
  <2>5. \A k \in UniformBranches : DefinitionsAgree(k) => Agreement(k)'
    BY <1>1, <1>2, <1>13, CompareAgrees
  <2> QED  BY <1>1, <1>6, <2>1, <2>4, <2>5
<1>14. CASE StoreWords
  <2>1. /\ Inst.opcode = "ST" /\ wpc < Len(program) /\ wpc' = wpc + 1 /\ lanes' = lanes
        /\ UNCHANGED <<program, warpStart, status>>
    BY <1>14 DEF StoreWords, At, InRange, Inst, Goto
  <2>2. wpc' \in Nat
    BY <1>4, <2>1
  <2>3. WarpInv'
    BY <1>2, <1>3, <1>4, <2>1, <2>2, WarpGoesOn
  <2>4. \A k \in UniformBranches : DefinitionsAgree(k) => Agreement(k)'
    BY <1>1, <1>2, <2>1, SteppingOver
  <2> QED  BY <1>1, <1>6, <2>1, <2>3, <2>4
<1> QED  BY <1>1, <1>7, <1>8, <1>9, <1>10, <1>11, <1>12, <1>13, <1>14 DEF WarpNext

\* A step that changes nothing.
LEMMA StillRuns ==
  ASSUME RunInv, UNCHANGED vars
  PROVE  RunInv'
<1>1. UNCHANGED loweringVars /\ UNCHANGED <<program, warpStart, wpc, lanes, status>>
  BY DEF vars, warpVars
<1>2. MadeInv'
  BY <1>1, MadeStep DEF RunInv
<1>3. UNCHANGED <<stage, code, origin, UniformBranches>> /\ \A k : DefinitionsAgree(k)' <=> DefinitionsAgree(k)
  BY <1>1, CodeStands
<1>4. WarpInv => WarpInv'
  BY <1>1, <1>3 DEF WarpInv, WarpThreads, ThreadIds, IsLane
<1>5. ASSUME NEW k, Agreement(k) PROVE Agreement(k)'
  <2>1. source' = source /\ Registers(k)' = Registers(k)
    BY <1>1 DEF loweringVars, Registers, Depends
  <2>2. Depends(k)' = Depends(k)
    BY <2>1 DEF Depends
  <2>3. \A x : (RegsAgree(x) => RegsAgree(x)') /\ (PredsAgree(x) => PredsAgree(x)')
    BY <1>1 DEF RegsAgree, PredsAgree
  <2>4. \A r \in Registers(k) \cap DOMAIN RegNumber : RegsAgree(RegNumber[r])'
    BY <1>5, <2>3 DEF Agreement
  <2>5. \A r \in Registers(k) \cap PredRegs : PredsAgree(PredNumber[r])'
    BY <1>5, <2>3 DEF Agreement
  <2>6. ASSUME wpc < Len(code), NEW m \in 1 .. wpc, origin[m] = origin[wpc+1], origin[m] \in Depends(k),
               code[m].opcode = "LOADI", NEW d, d = code[m].dest
        PROVE  RegsAgree(d)'
    BY <1>5, <2>3, <2>6 DEF Agreement
  <2>7. (wpc < Len(code) => \A m \in 1 .. wpc :
           origin[m] = origin[wpc+1] /\ origin[m] \in Depends(k) /\ code[m].opcode = "LOADI" => RegsAgree(code[m].dest))'
    BY <1>1, <1>3, <2>2, <2>6 DEF RegsAgree
  <2> QED  BY <2>1, <2>4, <2>5, <2>7 DEF Agreement
<1>6. UniformBranchesAgree'
  BY <1>1, <1>3 DEF RunInv, UniformBranchesAgree
<1> QED  BY <1>1, <1>2, <1>3, <1>4, <1>5, <1>6 DEF RunInv

\* How a launch stands is an invariant: the code it runs, the lanes of its warp,
\* and that they agree on all that a branch called uniform depends on.
THEOREM LaunchInvariance == Spec => []RunInv
<1>1. RunInv /\ [Next]_vars => RunInv'
  BY LowerRuns, StartRuns, RunRuns, StillRuns DEF Next
<1> QED  BY <1>1, RunInit, PTL DEF Spec

\* A branch the analysis called uniform never divides a warp, where the
\* definitions its predicate depends on agree with the sweep: for every program,
\* every launch, and as many threads and warps as there are.
THEOREM UniformBranchesStayTogether == Spec => []UniformBranchesAgree
<1>1. RunInv => UniformBranchesAgree
  BY DEF RunInv
<1> QED  BY <1>1, LaunchInvariance, PTL
=============================================================================
