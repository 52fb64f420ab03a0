------------------------------ MODULE Lowering ------------------------------
(***************************************************************************)
(* legacy_lowering.py, Lowerer: from the items of a program to machine     *)
(* code.  The control plan is made branch by branch, then the items are    *)
(* lowered in the order of the text, then the branches receive the         *)
(* positions of their labels, and the code is encoded.                     *)
(*                                                                         *)
(* A virtual register has a number of its own below the temporaries        *)
(* (LowererRegisters shows how it comes by it).                            *)
(***************************************************************************)
EXTENDS ControlPlan, ISA

CONSTANTS
  Programs,         \* programs that have a CFG
  RegNumber,        \* register -> its number
  SpecialNumber,    \* special register -> its selector, 256 and up
  TempBase          \* the first temporary, 240

\* build_cfg raises an error for the others.
ASSUME ProgramsAssumption == \A p \in Programs : p \in Seq(Items) /\ ~BuildFails(p)

\* Register fields have 16 bits: R0 to R255, and the selectors of the special
\* registers from 256 on.  A predicate number has three.  The register of an
\* immediate is "".
ASSUME NumbersAssumption ==
  /\ RegNumber \in [DOMAIN RegNumber -> 0 .. 255]
  /\ SpecialNumber \in [Specials -> 256 .. 2^16 - 1] /\ "" \notin Specials
  /\ PredNumber \in [PredRegs -> 0 .. 7]
  /\ TempBase \in Nat /\ TempBase + 2 <= 255

VARIABLES
  source,           \* program
  stage,            \* "plan", "lower", "patch", "encode", "error", "done"
  item,             \* the item to look at next
  guards,           \* item_guards: item -> guard
  skipped,          \* skip_items
  varying,          \* legacy_varying_branch_items
  code,             \* instructions
  origin,           \* of every instruction the item it comes from (source_line)
  labels,           \* label -> number of instructions in front of it
  pending,          \* pending_branches: pairs of an instruction and a label
  binary            \* what write_binary writes: four words per instruction

loweringVars == <<source, stage, item, guards, skipped, varying, code, origin, labels, pending, binary>>
planVars == <<guards, skipped, varying>>
codeVars == <<code, origin, labels, pending>>

LoweringInit ==
  /\ source \in Programs /\ stage = "plan" /\ item = 1
  /\ guards = [k \in 1 .. Len(source) |-> NoGuard] /\ skipped = {} /\ varying = {}
  /\ code = << >> /\ origin = << >> /\ labels = [l \in LabelsOf(source) |-> 0] /\ pending = {}
  /\ binary = << >>

-----------------------------------------------------------------------------
(* _build_control_plan *)

UniformBranches == {k \in PredicatedBranches(source) : BranchStates(source)[k] = "uniform"}
\* The branches still to be legalised, in the order of the text.
Open == {k \in PredicatedBranches(source) \ UniformBranches : k >= item}

Legalise ==
  /\ stage = "plan" /\ Open # {}
  /\ LET k == First(Open)
     IN  /\ Target(source, k) > k /\ CanLegalise(source, k, guards)
         /\ guards' = [j \in DOMAIN guards |->
                         IF j \in GuardedItems(source, k) THEN BranchGuard(source[k]) ELSE guards[j]]
         /\ skipped' = skipped \cup {k}
         /\ item' = k + 1
  /\ UNCHANGED <<source, stage, varying, codeVars, binary>>

\* A branch proven varying stays a branch, one that is merely unknown has no place.
LeaveBranch ==
  /\ stage = "plan" /\ Open # {}
  /\ LET k == First(Open)
     IN  /\ ~(Target(source, k) > k /\ CanLegalise(source, k, guards))
         /\ varying' = IF BranchStates(source)[k] = "varying" THEN varying \cup {k} ELSE varying
         /\ item' = k + 1
  /\ UNCHANGED <<source, stage, guards, skipped, codeVars, binary>>

EndPlan ==
  /\ stage = "plan" /\ Open = {}
  /\ stage' = "lower" /\ item' = 1
  /\ UNCHANGED <<source, planVars, codeVars, binary>>

-----------------------------------------------------------------------------
(* _lower_instruction: the instructions of an item, before _emit. *)

Under(i, guard) == [i EXCEPT !.predicate = guard.predicate, !.negated = guard.negated]
OwnGuard(i) == IF i.guarded THEN [predicate |-> PredNumber[i.guard], negated |-> i.negated] ELSE NoGuard

\* _operand_reg: an immediate takes the next temporary and a LOADI, which has
\* no guard of its own.
IsImmediate(i, k) == k \in DOMAIN i.args /\ i.args[k].reg = ""
Temporary(i, k) == TempBase + Cardinality({j \in 1 .. k - 1 : IsImmediate(i, j)})
OperandReg(i, k) == CASE k \notin DOMAIN i.args -> 0
                      [] IsImmediate(i, k) -> Temporary(i, k)
                      [] OTHER -> RegNumber[i.args[k].reg]
LoadImmediate(i, k) ==
  IF IsImmediate(i, k) THEN <<[AEC("LOADI", "none") EXCEPT !.dest = Temporary(i, k), !.imm = i.args[k].imm]>>
                       ELSE << >>
LoadImmediates(i) == LoadImmediate(i, 1) \o LoadImmediate(i, 2) \o LoadImmediate(i, 3)

AluOpcode == [add |-> "ADD", sub |-> "SUB", mul |-> "MUL", mad |-> "MAD", fma |-> "FMA", and |-> "AND"]
LowerAlu(i) ==
  LoadImmediates(i) \o
    <<Under([AEC(AluOpcode[i.op], i.type) EXCEPT !.dest = RegNumber[i.dest], !.src1 = OperandReg(i, 1),
               !.src2 = OperandReg(i, 2), !.src3 = OperandReg(i, 3)], OwnGuard(i))>>
LowerSetp(i) ==
  LoadImmediates(i) \o
    <<Under([AEC("CMPP", i.type) EXCEPT !.dest = PredNumber[i.dest], !.src1 = OperandReg(i, 1),
               !.src2 = OperandReg(i, 2), !.compare = i.compare], OwnGuard(i))>>
LowerMov(i) ==
  <<Under(CASE IsImmediate(i, 1) -> [AEC("LOADI", "none") EXCEPT !.dest = RegNumber[i.dest], !.imm = i.args[1].imm]
            [] i.args[1].reg \in Specials -> [AEC("CPY", "u32") EXCEPT !.dest = RegNumber[i.dest],
                                                !.src1 = SpecialNumber[i.args[1].reg]]
            [] OTHER -> [AEC("CPY", i.type) EXCEPT !.dest = RegNumber[i.dest], !.src1 = OperandReg(i, 1)],
          OwnGuard(i))>>

\* The guard of the item itself is not passed on.
LowerLdParam(i) ==
  LoadImmediates(i) \o
    <<[AEC("LD", i.type) EXCEPT !.dest = RegNumber[i.dest], !.src1 = TempBase, !.space = "pmem"]>>
LowerLdGlobal(i) ==
  <<Under([AEC("LD", i.type) EXCEPT !.dest = RegNumber[i.dest], !.src1 = OperandReg(i, 1), !.space = "gmem"], OwnGuard(i))>>
LowerStGlobal(i) ==
  <<Under([AEC("ST", i.type) EXCEPT !.src1 = OperandReg(i, 1), !.src2 = OperandReg(i, 2), !.space = "gmem"], OwnGuard(i))>>
LowerBra(i) == <<IF i.guarded THEN Under(AEC("BRX", "none"), OwnGuard(i)) ELSE AEC("BR", "none")>>

\* What the lowering of an item looks up is there: it raises an error otherwise.
Lowerable(i) ==
  /\ i.guarded => i.guard \in PredRegs
  /\ i.op \notin {"ret", "bra"} => i.type \in DOMAIN TypeNumbers
  /\ i.op \in DOMAIN AluOpcode \cup {"ret", "bra", "param", "ld", "st", "mov", "setp"}
  /\ i.op \in DOMAIN AluOpcode \cup {"param", "ld", "mov"} => i.dest \in DOMAIN RegNumber
  /\ i.op = "setp" => i.dest \in PredRegs /\ i.compare \in DOMAIN CompareNumbers
  /\ i.op = "mov" => 1 \in DOMAIN i.args
  /\ \A k \in DOMAIN i.args :
       i.args[k].reg \in {""} \cup DOMAIN RegNumber \cup (IF i.op = "mov" THEN Specials ELSE {})

\* An item becomes four instructions at most, and branches count them in a word.
ASSUME LowerableAssumption ==
  \A p \in Programs : /\ \A k \in 1 .. Len(p) : ~IsLabel(p[k]) => Lowerable(p[k])
                      /\ 4 * Len(p) < WordValues

LowerItem(i) ==
  CASE i.op = "ret"     -> <<AEC("HALT", "none")>>      \* its own guard is not looked at
    [] i.op = "bra"     -> LowerBra(i)
    [] i.op = "param"   -> LowerLdParam(i)
    [] i.op = "ld"      -> LowerLdGlobal(i)
    [] i.op = "st"      -> LowerStGlobal(i)
    [] i.op = "mov"     -> LowerMov(i)
    [] i.op = "setp"    -> LowerSetp(i)
    [] OTHER            -> LowerAlu(i)

\* Variant for the mutants: a load is taken for harmless.
EmitLoadsUnguarded(i, guard) == IF i.predicate # NoPredicate \/ i.opcode = "LD" THEN i ELSE Under(i, guard)
\* _emit: the guard of the region, unless the instruction has its own.
Emit(i, guard) == IF i.predicate # NoPredicate THEN i ELSE Under(i, guard)

-----------------------------------------------------------------------------
(* lower *)

AtItem == stage = "lower" /\ item <= Len(source)
Advance == item' = item + 1 /\ UNCHANGED <<source, stage, planVars, binary>>

RecordLabel ==
  /\ AtItem /\ IsLabel(source[item])
  /\ labels' = [labels EXCEPT ![source[item].label] = Len(code)]
  /\ Advance /\ UNCHANGED <<code, origin, pending>>

SkipItem ==
  /\ AtItem /\ ~IsLabel(source[item]) /\ item \in skipped
  /\ Advance /\ UNCHANGED codeVars

\* _lower_bra refuses a branch the plan has no place for.
Refused(k) == k \in PredicatedBranches(source) \ (UniformBranches \cup varying)

LowerOne ==
  /\ AtItem /\ ~IsLabel(source[item]) /\ item \notin skipped /\ ~Refused(item)
  /\ LET lowered == LowerItem(source[item])
     IN  /\ code' = code \o [j \in DOMAIN lowered |-> Emit(lowered[j], guards[item])]
         /\ origin' = origin \o [j \in DOMAIN lowered |-> item]
  /\ pending' = IF IsBranch(source[item]) THEN pending \cup {<<Len(code) + 1, source[item].label>>} ELSE pending
  /\ Advance /\ UNCHANGED labels

Refuse ==
  /\ AtItem /\ ~IsLabel(source[item]) /\ item \notin skipped /\ Refused(item)
  /\ stage' = "error"
  /\ UNCHANGED <<source, item, planVars, codeVars, binary>>

EndItems ==
  /\ stage = "lower" /\ item > Len(source)
  /\ stage' = "patch"
  /\ UNCHANGED <<source, item, planVars, codeVars, binary>>

\* _patch_branches.  Variant for the mutants: one instruction late.
PatchedPastTheTarget(j) ==
  IF \E l \in LabelsOf(source) : <<j, l>> \in pending
  THEN [code[j] EXCEPT !.imm = labels[CHOOSE l \in LabelsOf(source) : <<j, l>> \in pending] + 1] ELSE code[j]
Patched(j) ==
  IF \E l \in LabelsOf(source) : <<j, l>> \in pending
  THEN [code[j] EXCEPT !.imm = labels[CHOOSE l \in LabelsOf(source) : <<j, l>> \in pending]] ELSE code[j]

PatchBranches ==
  /\ stage = "patch"
  /\ code' = [j \in DOMAIN code |-> Patched(j)]
  /\ stage' = "encode"
  /\ UNCHANGED <<source, item, planVars, origin, labels, pending, binary>>

\* write_binary
WriteCode ==
  /\ stage = "encode"
  /\ binary' = [j \in DOMAIN code |-> Encode(code[j])]
  /\ stage' = "done"
  /\ UNCHANGED <<source, item, planVars, codeVars>>

LoweringNext ==
  \/ Legalise \/ LeaveBranch \/ EndPlan \/ RecordLabel \/ SkipItem \/ LowerOne
  \/ Refuse \/ EndItems \/ PatchBranches \/ WriteCode

LoweringSpec == LoweringInit /\ [][LoweringNext]_loweringVars

-----------------------------------------------------------------------------
(* Properties. *)

\* Every branch of the finished code leads to the first instruction behind its
\* label: what comes from items in front of the label is in front of the target,
\* what comes from items behind it is not (offsets count from 0, skipped items
\* leave no instruction, immediates and parameters leave two or more).
BranchesLandOnTheirLabels ==
  stage \in {"encode", "done"} =>
    \A j, n \in 1 .. Len(code) :
      IsBranch(source[origin[j]]) => (n <= code[j].imm <=> origin[n] < Target(source, origin[j]))

\* What a constant of the text means to a machine of words.
Meant(i) == [i EXCEPT !.imm = IF i.opcode = "LOADI" THEN @ % WordValues ELSE @]

\* The hardware decodes what the lowering meant: no field of an instruction is
\* cut off or runs into the next, constants alone are taken modulo 2^32.
BinaryIsTheCode == stage = "done" => \A j \in DOMAIN code : Decode(binary[j]) = Meant(code[j])
=============================================================================
