------------------------------ MODULE GlobalCP ------------------------------
(***************************************************************************)
(* GlobalConstantPropagationPass (passes/global_cp.py): rounds of forward  *)
(* dataflow over the blocks in program order until nothing changes or the  *)
(* limit on rounds is met, then one sweep that rewrites the program with   *)
(* what was found.                                                         *)
(***************************************************************************)
EXTENDS PTXSemantics

CONSTANTS Sources,         \* the programs the pass may be given
          MaxIterations    \* max_iterations

ASSUME SourcesAssumption == \A p \in Sources : IsProgram(p)

VARIABLES
  source,     \* module.function.program
  stage,      \* "dataflow", "apply" or "done"
  block,      \* the next block of the round, Len(source) + 1 after the last
  out,        \* block -> constants_out
  changed,
  iteration,
  target      \* the program left behind

cpVars == <<source, stage, block, out, changed, iteration, target>>

-----------------------------------------------------------------------------
(* _fold_with_constants *)

FoldableBases == {"add", "and", "mad", "mov", "mul", "sub"}

Resolved(i, k, known) == Resolve(i.args[k], i.type, known)

\* The arguments with every resolved one turned into an immediate.
WithImmediates(i, known) ==
  [i EXCEPT !.args = [k \in DOMAIN i.args |->
     IF Resolved(i, k, known) = {} THEN i.args[k]
     ELSE Imm(CHOOSE v \in Resolved(i, k, known) : TRUE)]]

\* The value of the result, or nothing.  Only u32 arithmetic is evaluated, and
\* mov and the bitwise operations of any type; mad is never evaluated.
FoldedResult(i, known) ==
  IF \E k \in DOMAIN i.args : Resolved(i, k, known) = {} THEN {}
  ELSE IF i.op = "mov" THEN Resolved(i, 1, known)
  ELSE IF i.op = "and" \/ (i.op # "mad" /\ i.type = "u32")
    THEN {Arith(i.op, i.type, a, b) : a \in Resolved(i, 1, known), b \in Resolved(i, 2, known)}
    ELSE {}

Folds(i, known) ==
  /\ ~i.guarded /\ i.op \in FoldableBases /\ i.dest \notin PredRegs
  /\ \E k \in DOMAIN i.args : Resolved(i, k, known) # {}

NewConstant(i, known) == IF Folds(i, known) THEN FoldedResult(i, known) ELSE {}
FoldedItem(i, known) ==
  IF ~Folds(i, known) THEN i
  ELSE IF i.op = "and" /\ FoldedResult(i, known) # {}
    THEN [i EXCEPT !.op = "mov", !.args = <<Imm(CHOOSE v \in FoldedResult(i, known) : TRUE)>>]
    ELSE WithImmediates(i, known)

Defines(i) == DestinationRegister(i) \notin PredRegs \cup {""}

-----------------------------------------------------------------------------
(* The dataflow. *)

\* Variant for the mutants: a predecessor that knows nothing yet is skipped.
AtEntryOptimistic(b, o) ==
  LET preds == {q \in DOMAIN o : b \in Successors(source, q) /\ o[q] # {}}
  IN  {c \in UNION {o[q] : q \in preds} : \A q \in preds : c \in o[q]}

\* What every predecessor leaves known; nothing for a block without one.
AtEntry(b, o) ==
  LET preds == {q \in DOMAIN o : b \in Successors(source, q)}
  IN  {c \in UNION {o[q] : q \in preds} : \A q \in preds : c \in o[q]}

\* The dataflow passes over guarded instructions, whatever they define.
Transfer(i, known) ==
  IF IsLabel(i) \/ i.guarded \/ ~Defines(i) THEN known
  ELSE Learn(known, DestinationRegister(i), i.type, NewConstant(i, known))

AtExit(b, known) ==
  LET f[k \in b - 1 .. BlockEnd(source, b)] ==
        IF k = b - 1 THEN known ELSE LET before == f[k-1] IN Transfer(source[k], before)
  IN  f[BlockEnd(source, b)]

After(b) == IF Later(source, b) = {} THEN Len(source) + 1 ELSE NextBlock(source, b)

CPInit ==
  /\ source \in Sources
  /\ stage = "dataflow" /\ block = 1 /\ changed = FALSE /\ iteration = 1
  /\ out = [b \in Leaders(source) |-> {}]
  /\ target = source

VisitBlock ==
  /\ stage = "dataflow" /\ block <= Len(source)
  /\ LET exit == AtExit(block, AtEntry(block, out))
     IN  /\ out' = [out EXCEPT ![block] = exit]
         /\ changed' = (changed \/ exit # out[block])
  /\ block' = After(block)
  /\ UNCHANGED <<source, stage, iteration, target>>

\* Variant for the mutants: a round that changed something is the last.
EndRoundEarly ==
  /\ stage = "dataflow" /\ block > Len(source)
  /\ stage' = "apply"
  /\ UNCHANGED <<source, block, changed, iteration, out, target>>

EndRound ==
  /\ stage = "dataflow" /\ block > Len(source)
  /\ IF changed /\ iteration < MaxIterations
       THEN /\ block' = 1 /\ changed' = FALSE /\ iteration' = iteration + 1
            /\ UNCHANGED stage
       ELSE stage' = "apply" /\ UNCHANGED <<block, changed, iteration>>
  /\ UNCHANGED <<source, out, target>>

-----------------------------------------------------------------------------
(* The sweep: at a block's first item the constants are what its            *)
(* predecessors leave; a guarded definition forgets its register here.      *)

AfterItem(i, known) ==
  IF IsLabel(i) \/ ~Defines(i) THEN known
  ELSE Learn(known, DestinationRegister(i), i.type, NewConstant(i, known))

\* Variant for the mutants: the constants of a block go on into the next one.
RewrittenThroughBlocks(o) ==
  LET known[k \in 0 .. Len(source)] ==
        IF k = 0 THEN {} ELSE LET before == known[k-1] IN AfterItem(source[k], before)
  IN  [k \in 1 .. Len(source) |-> IF IsLabel(source[k]) THEN source[k]
                                  ELSE FoldedItem(source[k], known[k-1])]

Rewritten(o) ==
  LET known[k \in 1 .. Len(source)] ==       \* in front of the item
        IF k \in Leaders(source) THEN AtEntry(k, o)
        ELSE LET before == known[k-1] IN AfterItem(source[k-1], before)
  IN  [k \in 1 .. Len(source) |-> IF IsLabel(source[k]) THEN source[k]
                                  ELSE FoldedItem(source[k], known[k])]

Apply ==
  /\ stage = "apply"
  /\ target' = Rewritten(out)
  /\ stage' = "done"
  /\ UNCHANGED <<source, block, out, changed, iteration>>

\* What the pass relies on without asking: a register written under a guard or
\* by fma, which the dataflow does not notice, never holds a known constant;
\* nothing leads back to the first block, where only its predecessors count and
\* not that the program starts there; and no return is guarded, the graph has no
\* edge on past it.
CPAssumes(p) ==
  /\ \A j, k \in 1 .. Len(p) :
       /\ ~IsLabel(p[j]) /\ ~IsLabel(p[k])
       /\ p[j].dest \in DataRegs /\ (p[j].guarded \/ p[j].op = "fma")
       => p[k].dest # p[j].dest \/ p[k].guarded \/ p[k].op \notin FoldableBases
  /\ \A b \in Leaders(p) : 1 \notin Successors(p, b)
  /\ \A k \in 1 .. Len(p) : p[k].kind = "ret" => ~p[k].guarded

CPNext == VisitBlock \/ EndRound \/ Apply
=============================================================================
