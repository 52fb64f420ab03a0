---------------------------- MODULE PTXSemantics ----------------------------
(***************************************************************************)
(* What the source passes look at in an instruction (passes/_helpers.py),  *)
(* and what an instruction does to one lane: the reference the passes are  *)
(* held against.                                                           *)
(*                                                                         *)
(* An item has the fields of PTXGraph and: op (the opcode's base), type    *)
(* (its last part), compare (the part between them, for setp), guard (a    *)
(* predicate, "" for none) and negated, dest (a register, "" for none) and *)
(* args, the other operands.  An operand is a register or, where reg is    *)
(* "", an immediate.  "param" is ld.param, "ld" and "st" are ld.global and *)
(* st.global.                                                              *)
(***************************************************************************)
EXTENDS PTXGraph

CONSTANTS
  DataRegs, PredRegs,   \* %r..., %f... and %p...
  Width,                \* bits in a word
  MemoryWords           \* words of memory; addresses wrap around

ASSUME WidthAssumption == Width \in Nat \ {0} /\ MemoryWords \in Nat \ {0}
ASSUME RegistersAssumption == "" \notin DataRegs \cup PredRegs

Words == 0 .. 2^Width - 1
Addresses == 0 .. MemoryWords - 1

Reg(r) == [reg |-> r, imm |-> 0]
Imm(v) == [reg |-> "", imm |-> v]

-----------------------------------------------------------------------------
(* passes/_helpers.py *)

PureResultBases == {"add", "and", "mad", "mov", "mul", "sub"}
DestinationBases == PureResultBases \cup {"ld", "param", "setp"}

\* The register a pass believes the instruction defines: a base that is not in
\* the table (fma) defines nothing, and its first operand counts as read.
DestinationRegister(i) == IF i.op \in DestinationBases THEN i.dest ELSE ""
ReadRegisters(i) ==
  ({a.reg : a \in {i.args[k] : k \in DOMAIN i.args}} \cup {i.guard}
     \cup (IF i.op \in DestinationBases THEN {} ELSE {i.dest})) \ {""}

IsSideEffecting(i) ==
  i.guarded \/ i.op \notin PureResultBases \/ DestinationRegister(i) \in PredRegs

ReadRegistersOf(p, S) == UNION {ReadRegisters(p[k]) : k \in {j \in S : ~IsLabel(p[j])}}
\* The indices of the instructions that define r.
DefinitionsOf(p, r) == {k \in 1 .. Len(p) : ~IsLabel(p[k]) /\ DestinationRegister(p[k]) = r}

\* Constants known at a point: records [reg, type, value], one for a register.
Int32Types == {"b32", "s32", "u32"}
TypeMatches(known, requested) ==
  known = requested \/ (known \in Int32Types /\ requested \in Int32Types)

\* _resolve_constant: the operand's value, or nothing.
Resolve(a, type, known) ==
  IF a.reg # "" THEN {c.value : c \in {k \in known : k.reg = a.reg /\ TypeMatches(k.type, type)}}
  ELSE IF type \in Int32Types \cup {"f32"} THEN {a.imm} ELSE {}

Forget(known, r) == {k \in known : k.reg # r}
\* constants[r] = value, or constants.pop(r) when there is none.
Learn(known, r, type, value) ==
  Forget(known, r) \cup {[reg |-> r, type |-> type, value |-> v] : v \in value}

\* Branches and returns are known by their base.
Items ==
  {i \in [kind: {"label", "bra", "ret", "op"}, label: STRING, op: STRING, type: STRING, compare: STRING,
          guard: STRING, guarded: BOOLEAN, negated: BOOLEAN, dest: STRING, args: Seq([reg: STRING, imm: Int])] :
     \A base \in {"bra", "ret"} : i.kind = base <=> i.op = base}

\* An operation has the operands its base calls for, and a result unless it is a
\* store; a guard is a predicate.
Comparisons == {"eq", "ne", "lt", "le", "gt", "ge"}
Arity(op) == CASE op \in {"mov", "param", "ld"} -> 1
               [] op \in {"mad", "fma"} -> 3
               [] OTHER -> 2
WellFormed(i) ==
  /\ i.guarded => i.guard \in PredRegs
  /\ i.kind = "op" <=> i.op \in DestinationBases \cup {"fma", "st"}
  /\ i.kind = "op" => Len(i.args) = Arity(i.op)
  /\ i.op = "setp" => i.compare \in Comparisons
  /\ i.kind = "op" /\ i.op # "st" => i.dest \in DataRegs \cup PredRegs
  /\ i.kind # "op" \/ i.op = "st" => i.dest = ""
  /\ \A k \in DOMAIN i.args :
       i.args[k] \in {Reg(r) : r \in DataRegs \cup PredRegs} \cup {Imm(i.args[k].imm)}

\* What a pass is given: parsed instructions, and a CFG that could be built.
IsProgram(p) == p \in Seq(Items) /\ (\A k \in 1 .. Len(p) : WellFormed(p[k])) /\ ~BuildFails(p)

-----------------------------------------------------------------------------
(* Execution of one lane.  A word has Width bits; an f32 operation is some  *)
(* other function of its operands than the u32 operation of that name.      *)

BitAnd(a, b) ==
  LET f[k \in 0 .. Width] ==
        IF k = 0 THEN 0
        ELSE f[k-1] + 2^(k-1) * ((a \div 2^(k-1)) % 2) * ((b \div 2^(k-1)) % 2)
  IN  f[Width]

Arith(op, type, a, b) ==
  LET r == CASE op = "add" -> IF type = "f32" THEN a + b + a * b ELSE a + b
             [] op = "sub" -> a - b + 2^Width
             [] op = "mul" -> a * b
             [] op = "and" -> BitAnd(a, b)
  IN  r % 2^Width

\* Words are compared without a sign, the s32 ones too.
Compares(how, a, b) == CASE how = "eq" -> a = b
                         [] how = "ne" -> a # b
                         [] how = "lt" -> a < b
                         [] how = "le" -> a <= b
                         [] how = "gt" -> a > b
                         [] how = "ge" -> a >= b

\* What the instruction computes, from the values of its operands.
Result(i, v, lane) ==
  CASE i.op = "mov"   -> v[1]
    [] i.op = "param" -> lane.params[v[1]]
    [] i.op = "ld"    -> lane.mem[v[1] % MemoryWords]
    [] i.op = "setp"  -> IF Compares(i.compare, v[1], v[2]) THEN 1 ELSE 0
    [] i.op \in {"mad", "fma"} -> Arith("add", i.type, Arith("mul", i.type, v[1], v[2]), v[3])
    [] OTHER -> Arith(i.op, i.type, v[1], v[2])

Stopped(p) == Len(p) + 1
\* Where the instruction at pc, executed, leaves control.
NextPC(p, pc) == CASE IsBranch(p[pc]) -> LabelAt(p, p[pc].label)
                   [] p[pc].kind = "ret" -> Stopped(p)
                   [] OTHER -> pc + 1

GuardHolds(i, lane) == ~i.guarded \/ (lane.regs[i.guard] = 1) # i.negated

LaneStep(p, lane) ==
  LET i == p[lane.pc]
      v == [k \in DOMAIN i.args |-> IF i.args[k].reg = "" THEN i.args[k].imm
                                                          ELSE lane.regs[i.args[k].reg]]
  IN  IF lane.pc > Len(p) THEN lane
      ELSE IF IsLabel(i) \/ ~GuardHolds(i, lane) THEN [lane EXCEPT !.pc = @ + 1]
      ELSE IF i.kind # "op" THEN [lane EXCEPT !.pc = NextPC(p, @)]
      ELSE IF i.op = "st"
             THEN [lane EXCEPT !.pc = @ + 1, !.mem[v[1] % MemoryWords] = v[2],
                               !.stores = Append(@, <<v[1] % MemoryWords, v[2]>>)]
             ELSE [lane EXCEPT !.pc = @ + 1, !.regs[i.dest] = Result(i, v, lane)]

StartLane(params, mem) ==
  [pc |-> 1, regs |-> [r \in DataRegs \cup PredRegs |-> 0],
   params |-> params, mem |-> mem, stores |-> << >>]

\* The registers the instruction does read.
ReadBy(i) == {a.reg : a \in {i.args[k] : k \in DOMAIN i.args}} \cup {i.guard}

\* The lane after at most steps instructions.
RunLane(p, lane, steps) ==
  LET f[k \in 0 .. steps] == IF k = 0 THEN lane ELSE LaneStep(p, f[k-1])
  IN  f[steps]

-----------------------------------------------------------------------------
(* Liveness along the paths, the reference for the passes that move code.   *)

ItemSuccessors(p, k) ==
  IF IsLabel(p[k]) THEN {k + 1}
  ELSE {NextPC(p, k)} \cup (IF p[k].guarded THEN {k + 1} ELSE {})

\* The items before which r holds a value that some path still reads.
LiveBefore(p, r) ==
  LET reads == {k \in 1 .. Len(p) : ~IsLabel(p[k]) /\ r \in ReadBy(p[k])}
      kills == {k \in 1 .. Len(p) : ~IsLabel(p[k]) /\ ~p[k].guarded /\ p[k].dest = r}
      f[n \in 0 .. Len(p)] ==
        IF n = 0 THEN reads
        ELSE LET known == f[n-1]
             IN  known \cup {k \in (1 .. Len(p)) \ kills : ItemSuccessors(p, k) \cap known # {}}
  IN  f[Len(p)]
=============================================================================
