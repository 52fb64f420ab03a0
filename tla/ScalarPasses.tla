---------------------------- MODULE ScalarPasses ----------------------------
(***************************************************************************)
(* The source passes that look at no control flow graph: dead results, CSE *)
(* and constant folding (passes/local_scalar.py), reuse of loads           *)
(* (passes/experimental.py) and global dead code (passes/global_dce.py).   *)
(* Each is an operator from a program to the program it leaves.            *)
(***************************************************************************)
EXTENDS PTXSemantics

Kept(p, S) ==       \* the items whose index is in S
  LET f[k \in 0 .. Len(p)] ==
        IF k = 0 THEN << >> ELSE IF k \in S THEN Append(f[k-1], p[k]) ELSE f[k-1]
  IN  f[Len(p)]

Boundary(i) == i.guarded \/ i.op \notin PureResultBases

-----------------------------------------------------------------------------
(* ConservativeDeadResultEliminationPass *)

\* Variant for the mutants: reads by guards and stores do not count.
DeadResultsUnseenReads(p) ==
  {k \in 1 .. Len(p) :
     /\ ~IsLabel(p[k]) /\ ~Boundary(p[k]) /\ p[k].dest \notin PredRegs
     /\ p[k].dest \notin ReadRegistersOf(p, {j \in 1 .. Len(p) : p[j].kind = "op" /\ p[j].op # "st"})}

DeadResults(p) ==
  {k \in 1 .. Len(p) :
     /\ ~IsLabel(p[k]) /\ ~Boundary(p[k]) /\ p[k].dest \notin PredRegs
     /\ p[k].dest \notin ReadRegistersOf(p, 1 .. Len(p))}

EliminateDeadResults(p) == Kept(p, (1 .. Len(p)) \ DeadResults(p))

-----------------------------------------------------------------------------
(* GlobalDeadCodeEliminationPass.  The order in which the worklist is       *)
(* served does not matter: live is the least set that holds the side        *)
(* effects and, with an instruction, the definitions of what it reads.      *)

\* Variant for the mutants: only the last definition of a register is kept.
FeedersLastOnly(p, S) ==
  LET defs(r) == DefinitionsOf(p, r)
  IN  UNION {{k \in defs(r) : \A j \in defs(r) : j <= k} : r \in ReadRegistersOf(p, S) \ PredRegs}

Feeders(p, S) == UNION {DefinitionsOf(p, r) : r \in ReadRegistersOf(p, S) \ PredRegs}

LiveInstructions(p) ==
  LET f[k \in 0 .. Len(p)] ==
        IF k = 0 THEN {j \in 1 .. Len(p) : ~IsLabel(p[j]) /\ IsSideEffecting(p[j])}
        ELSE LET live == f[k-1] IN live \cup Feeders(p, live)
  IN  f[Len(p)]

EliminateDeadCode(p) == Kept(p, LabelPositions(p) \cup LiveInstructions(p))

-----------------------------------------------------------------------------
(* LocalConstantFoldingPass *)

FoldBoundary(i) == i.guarded \/ i.op \notin {"add", "mov", "mul", "sub"}

\* _evaluate_u32 and _evaluate_f32 have no f32 subtraction.
Evaluates(op, type) == \/ type = "u32" /\ op \in {"add", "sub", "mul"}
                       \/ type = "f32" /\ op \in {"add", "mul"}

\* _fold_local_constant_instruction: the value of the result, or nothing.
LocalResult(i, known) ==
  IF i.op = "mov" THEN Resolve(i.args[1], i.type, known)
  ELSE IF Evaluates(i.op, i.type)
    THEN {Arith(i.op, i.type, a, b) : a \in Resolve(i.args[1], i.type, known),
                                      b \in Resolve(i.args[2], i.type, known)}
    ELSE {}

MovConstant(i, value) == [i EXCEPT !.op = "mov", !.args = <<Imm(CHOOSE v \in value : TRUE)>>]

\* Variant for the mutants: an unknown result leaves the old constant in place.
AfterFoldKeepsStale(i, known) ==
  IF FoldBoundary(i) THEN {}
  ELSE IF LocalResult(i, known) = {} THEN known
  ELSE Learn(known, i.dest, i.type, LocalResult(i, known))

\* The constants known after the item.
AfterFold(i, known) ==
  IF FoldBoundary(i) THEN {} ELSE Learn(known, i.dest, i.type, LocalResult(i, known))

FoldConstants(p) ==
  LET known[k \in 0 .. Len(p)] ==
        IF k = 0 \/ IsLabel(p[k]) THEN {} ELSE LET before == known[k-1] IN AfterFold(p[k], before)
      item(k) ==
        IF IsLabel(p[k]) \/ FoldBoundary(p[k]) \/ LocalResult(p[k], known[k-1]) = {} THEN p[k]
        ELSE MovConstant(p[k], LocalResult(p[k], known[k-1]))
  IN  [k \in 1 .. Len(p) |-> item(k)]

-----------------------------------------------------------------------------
(* BasicBlockLocalCSEPass *)

CSEBoundary(i) == Boundary(i) \/ i.dest \in PredRegs

\* _split_cse_scopes: the indices of the scope around k.
ScopeOf(p, k) ==
  LET inside(j) == ~IsLabel(p[j]) /\ ~CSEBoundary(p[j])
  IN  {j \in 1 .. Len(p) : /\ \A l \in j .. k : inside(l)
                           /\ \A l \in k .. j : inside(l)}

OutsideReads(p, k) == ReadRegistersOf(p, (1 .. Len(p)) \ ScopeOf(p, k))

\* _resolve_alias, over pairs <<alias, target>>.
AliasTarget(r, aliases) ==
  LET f[k \in 0 .. Cardinality(aliases)] ==
        IF k = 0 THEN r
        ELSE LET c == f[k-1]
             IN  IF \E a \in aliases : a[1] = c THEN (CHOOSE a \in aliases : a[1] = c)[2] ELSE c
  IN  f[Cardinality(aliases)]

RewriteSources(i, aliases) ==
  [i EXCEPT !.args = [k \in DOMAIN i.args |->
     IF i.args[k].reg = "" THEN i.args[k] ELSE Reg(AliasTarget(i.args[k].reg, aliases))]]

ExpressionKey(i) == [op |-> i.op, type |-> i.type, args |-> i.args]

\* _alias_read_after_target_redefinition, over the rest of the scope.
AliasReadLate(p, k, alias, target) ==
  \E j, l \in {m \in ScopeOf(p, k) : m > k} :
    j <= l /\ DestinationRegister(p[j]) = target /\ alias \in ReadRegisters(p[l])

\* Variant for the mutants: only expressions with that result are forgotten.
SurvivingResultsOnly(exprs, r) == {e \in exprs : e.dest # r}

\* _invalidate: what the expressions known before still hold of, once r is
\* written.
Surviving(exprs, r) ==
  {e \in exprs : e.dest # r /\ \A k \in DOMAIN e.key.args : e.key.args[k].reg # r}

\* One instruction of _optimize_cse_scope.  A state has the expressions at
\* hand, the aliases and the items kept.
CSEStep(p, k, s) ==
  LET i       == RewriteSources(p[k], s.aliases)
      exprs   == Surviving(s.exprs, i.dest)
      aliases == {a \in s.aliases : a[1] # i.dest}
      prior   == {e \in exprs : e.key = ExpressionKey(i)}
      target  == AliasTarget((CHOOSE e \in prior : TRUE).dest, aliases)
      entry   == [key |-> ExpressionKey(i), dest |-> i.dest]
      keep(e) == [exprs |-> e, aliases |-> aliases, items |-> Append(s.items, i)]
  IN  IF i.dest \in OutsideReads(p, k) THEN keep(exprs)
      ELSE IF prior = {} \/ AliasReadLate(p, k, i.dest, target) THEN keep((exprs \ prior) \cup {entry})
      ELSE [exprs |-> exprs, aliases |-> aliases \cup {<<i.dest, target>>}, items |-> s.items]

ShareExpressions(p) ==
  LET f[k \in 0 .. Len(p)] ==
        IF k = 0 THEN [exprs |-> {}, aliases |-> {}, items |-> << >>]
        ELSE LET s == f[k-1]
             IN  IF IsLabel(p[k]) \/ CSEBoundary(p[k])
                 THEN [exprs |-> {}, aliases |-> {}, items |-> Append(s.items, p[k])]
                 ELSE CSEStep(p, k, s)
  IN  f[Len(p)].items

\* i reads r, and where the expression with that key read it.
MetAgain(i, key, r) ==
  /\ i.op = key.op /\ i.type = key.type
  /\ \E m \in DOMAIN i.args \cap DOMAIN key.args : i.args[m].reg = r /\ key.args[m].reg = r

\* What the pass relies on without asking: an instruction that reads the register
\* it writes is not met again before that register has another value (its key
\* names the value it replaced), and a register read in its own scope alone is
\* not carried to the next execution of that scope.
CSEAssumes(p) ==
  \A k \in {j \in 1 .. Len(p) : ~IsLabel(p[j]) /\ ~CSEBoundary(p[j])} :
    /\ \A l \in ScopeOf(p, k) : l > k /\ MetAgain(p[l], ExpressionKey(p[k]), p[k].dest) =>
         \E j \in ScopeOf(p, k) : k < j /\ j <= l /\ p[j].dest = p[k].dest
    /\ p[k].dest \in OutsideReads(p, k)
         \/ \A j \in ScopeOf(p, k) : j + 1 \notin ScopeOf(p, k) => j + 1 \notin LiveBefore(p, p[k].dest)

-----------------------------------------------------------------------------
(* RepeatedGlobalLoadReusePass.  The cache holds [addr, type, dest].        *)

ClearsLoads(i) == i.guarded \/ i.kind # "op" \/ i.op = "st"

CachedLoad(i, cache) == {c \in cache : c.addr = i.args[1] /\ c.type = i.type}

\* Variant for the mutants: writing an address register forgets nothing.
AfterLoadReuseStale(i, cache) ==
  IF ClearsLoads(i) THEN {}
  ELSE IF i.op # "ld" \/ CachedLoad(i, cache) # {} THEN cache
  ELSE cache \cup {[addr |-> i.args[1], type |-> i.type, dest |-> i.dest]}

\* A load leaves the entries about its own destination alone.
AfterLoadReuse(i, cache) ==
  IF ClearsLoads(i) THEN {}
  ELSE IF i.op # "ld" THEN {c \in cache : c.addr # Reg(DestinationRegister(i))}
  ELSE IF CachedLoad(i, cache) # {} THEN cache
  ELSE cache \cup {[addr |-> i.args[1], type |-> i.type, dest |-> i.dest]}

ReuseLoads(p) ==
  LET cache[k \in 0 .. Len(p)] ==
        IF k = 0 \/ IsLabel(p[k]) THEN {} ELSE LET c == cache[k-1] IN AfterLoadReuse(p[k], c)
      hit(k) == IF IsLabel(p[k]) \/ ClearsLoads(p[k]) \/ p[k].op # "ld" THEN {}
                ELSE CachedLoad(p[k], cache[k-1])
  IN  [k \in 1 .. Len(p) |->
         IF hit(k) = {} THEN p[k]
         ELSE [p[k] EXCEPT !.op = "mov", !.args = <<Reg((CHOOSE c \in hit(k) : TRUE).dest)>>]]

\* What the pass relies on without asking: while a load is cached its register
\* is not written again, and no other load (nor fma) writes its address.
LoadReuseAssumes(p) ==
  \A k, j \in 1 .. Len(p) :
    /\ k <= j /\ \A l \in k .. j : ~IsLabel(p[l]) /\ ~ClearsLoads(p[l])
    /\ p[k].op = "ld"
    => /\ k < j => p[j].dest # p[k].dest
       /\ p[j].op \in {"ld", "fma"} => Reg(p[j].dest) # p[k].args[1]
=============================================================================
