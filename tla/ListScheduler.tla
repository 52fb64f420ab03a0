--------------------------- MODULE ListScheduler ----------------------------
(***************************************************************************)
(* passes/scheduler.py, _schedule_block: the list scheduler of one basic   *)
(* block.  The first loop builds the dependence graph, one instruction per *)
(* step; the second pops the ready heap until it is empty.                 *)
(*                                                                         *)
(* Instructions are numbered from 1 (from 0 in the code); 0 stands for     *)
(* "none yet".  last_def_pos and last_write_pos always hold the same map   *)
(* between two iterations and are one variable, lastDef.                   *)
(***************************************************************************)
EXTENDS AECInstr, Sequences, FiniteSets

CONSTANT Blocks               \* the basic blocks that may be scheduled

ASSUME BlocksAssumption == Blocks \subseteq Seq(Instruction)

VARIABLES
  pc,             \* "build", "issue", "done", or "raised" (the ValueError)
  block,          \* insts, which never changes
  idx,            \* the instruction the graph builder looks at
  lastDef,        \* last_def_pos / last_write_pos: register -> instruction
  pendingReads,   \* pending_reads: register -> its readers since that write
  lastStore,      \* last_store_idx
  edges,          \* dependents: <<kind, from, to>>
  depCount,       \* dep_count: instruction -> unresolved dependences
  ready,          \* the heap's contents
  scheduled       \* the order produced so far

vars == <<pc, block, idx, lastDef, pendingReads, lastStore, edges, depCount,
          ready, scheduled>>

Indices == 1 .. Len(block)
Kind(i) == InstKind(block[i])
Src(i) == SourceRegs(block[i])
Dest(i) == block[i].dest
Defines(i) == HasDest(block[i])
Issued == {scheduled[k] : k \in 1 .. Len(scheduled)}

\* Variants for the mutants: branches and HALT rank with the
\* computations, stores with the loads.
PriorityControlAsCompute(i) ==
  CASE Kind(i) = "LOAD"                   -> 0
    [] Kind(i) \in {"COMPUTE", "CONTROL"} -> 1
    [] Kind(i) = "STORE"                  -> 2 + (i - 1)
PriorityStoreAsLoad(i) ==
  CASE Kind(i) \in {"LOAD", "STORE"} -> 0
    [] Kind(i) = "COMPUTE"           -> 1
    [] Kind(i) = "CONTROL"           -> 1000 + (i - 1)

\* Stores and control instructions keep their relative order by priority alone.
Priority(i) ==
  CASE Kind(i) = "LOAD"    -> 0
    [] Kind(i) = "COMPUTE" -> 1
    [] Kind(i) = "STORE"   -> 2 + (i - 1)
    [] Kind(i) = "CONTROL" -> 1000 + (i - 1)

\* The heap pops the least (priority, index).
Before(i, j) == \/ Priority(i) < Priority(j)
                \/ Priority(i) = Priority(j) /\ i <= j

Init ==
  /\ pc = "build"
  /\ block \in Blocks
  /\ idx = 1
  /\ lastDef = [r \in Gpr |-> 0]
  /\ pendingReads = [r \in Gpr |-> {}]
  /\ lastStore = 0
  /\ edges = {}
  /\ depCount = [i \in Indices |-> 0]
  /\ ready = {}
  /\ scheduled = << >>

\* A block of at most two instructions is returned as it is.
ReturnShort ==
  /\ pc = "build" /\ Len(block) <= 2
  /\ scheduled' = [i \in Indices |-> i]
  /\ pc' = "done"
  /\ UNCHANGED <<block, idx, lastDef, pendingReads, lastStore, edges, depCount,
                 ready>>

\* Variants for the mutants: reads do not hold back the next write; loads do
\* not wait for stores.
NewEdgesWithoutWAR(i) ==
  {<<"RAW", lastDef[s], i>> : s \in {r \in Src(i) : lastDef[r] # 0}}
    \cup (IF Defines(i) /\ lastDef[Dest(i)] # 0
          THEN {<<"WAW", lastDef[Dest(i)], i>>} ELSE {})
    \cup (IF Kind(i) = "LOAD" /\ lastStore # 0
          THEN {<<"MEM", lastStore, i>>} ELSE {})
NewEdgesWithoutBarrier(i) ==
  {<<"RAW", lastDef[s], i>> : s \in {r \in Src(i) : lastDef[r] # 0}}
    \cup (IF Defines(i)
          THEN {<<"WAR", r, i>> : r \in pendingReads[Dest(i)]}
                 \cup (IF lastDef[Dest(i)] # 0
                       THEN {<<"WAW", lastDef[Dest(i)], i>>} ELSE {})
          ELSE {})

\* The dependences of instruction i on the instructions before it.  A tag per
\* kind keeps the two edges apart that one pair of instructions may have.
NewEdges(i) ==
  {<<"RAW", lastDef[s], i>> : s \in {r \in Src(i) : lastDef[r] # 0}}
    \cup (IF Defines(i)
          THEN {<<"WAR", r, i>> : r \in pendingReads[Dest(i)]}
                 \cup (IF lastDef[Dest(i)] # 0
                       THEN {<<"WAW", lastDef[Dest(i)], i>>} ELSE {})
          ELSE {})
    \cup (IF Kind(i) = "LOAD" /\ lastStore # 0
          THEN {<<"MEM", lastStore, i>>} ELSE {})

AddToGraph ==
  /\ pc = "build" /\ Len(block) > 2
  /\ edges' = edges \cup NewEdges(idx)
  /\ depCount' = [depCount EXCEPT ![idx] = Cardinality(NewEdges(idx))]
  /\ ready' = IF NewEdges(idx) = {} THEN ready \cup {idx} ELSE ready
  /\ pendingReads' = [r \in Gpr |->
       (IF Defines(idx) /\ r = Dest(idx) THEN {} ELSE pendingReads[r])
         \cup (IF r \in Src(idx) THEN {idx} ELSE {})]
  /\ lastDef' = IF Defines(idx) THEN [lastDef EXCEPT ![Dest(idx)] = idx]
                                ELSE lastDef
  /\ lastStore' = IF Kind(idx) = "STORE" THEN idx ELSE lastStore
  /\ idx' = idx + 1
  /\ pc' = IF idx = Len(block) THEN "issue" ELSE "build"
  /\ UNCHANGED <<block, scheduled>>

\* Variants for the mutants: one decrement per dependent instead of one per
\* edge; the popped instruction stays on the heap.
IssueOncePerDependent(best) ==
  /\ pc = "issue"
  /\ best \in ready
  /\ \A other \in ready : Before(best, other)
  /\ scheduled' = Append(scheduled, best)
  /\ depCount' = [i \in Indices |->
       IF \E e \in edges : e[2] = best /\ e[3] = i THEN depCount[i] - 1
                                                   ELSE depCount[i]]
  /\ ready' = (ready \ {best})
       \cup {i \in Indices : depCount[i] > 0 /\ depCount'[i] = 0}
  /\ UNCHANGED <<pc, block, idx, lastDef, pendingReads, lastStore, edges>>
\* Every edge out of best lowers the count of the instruction it leads to.
Issue(best) ==
  /\ pc = "issue"
  /\ best \in ready
  /\ \A other \in ready : Before(best, other)
  /\ scheduled' = Append(scheduled, best)
  /\ depCount' = [i \in Indices |->
       depCount[i] - Cardinality({e \in edges : e[2] = best /\ e[3] = i})]
  /\ ready' = (ready \ {best})
       \cup {i \in Indices : depCount[i] > 0 /\ depCount'[i] = 0}
  /\ UNCHANGED <<pc, block, idx, lastDef, pendingReads, lastStore, edges>>

\* The heap is empty: return, or raise when some instruction was never ready.
Finish ==
  /\ pc = "issue" /\ ready = {}
  /\ pc' = IF Len(scheduled) = Len(block) THEN "done" ELSE "raised"
  /\ UNCHANGED <<block, idx, lastDef, pendingReads, lastStore, edges, depCount,
                 ready, scheduled>>

Next == \/ ReturnShort
        \/ AddToGraph
        \/ \E best \in ready : Issue(best)
        \/ Finish

Spec == Init /\ [][Next]_vars

-----------------------------------------------------------------------------
(* Properties. *)

TypeOK ==
  /\ pc \in {"build", "issue", "done", "raised"}
  /\ block \in Blocks
  /\ idx \in 1 .. Len(block) + 1
  /\ lastDef \in [Gpr -> 0 .. Len(block)]
  /\ pendingReads \in [Gpr -> SUBSET Indices]
  /\ lastStore \in 0 .. Len(block)
  /\ edges \subseteq {"RAW", "WAR", "WAW", "MEM"} \X Indices \X Indices
  /\ depCount \in [Indices -> Nat]
  /\ ready \subseteq Indices
  /\ scheduled \in Seq(Indices)

\* The first instruction, in program order, that is not issued yet is always
\* ready: the heap never runs empty early, so the ValueError at the end of
\* _schedule_block ("dependency graph did not resolve") cannot be raised.
NeverStuck ==
  /\ pc # "raised"
  /\ pc = "issue" =>
       \A i \in Indices \ Issued :
         (\A j \in 1 .. i - 1 : j \in Issued) => i \in ready

\* No edge makes a store wait for the loads before it, nor HALT or a branch for
\* anything: the priorities alone hold a store or a control instruction back
\* until every instruction written before it is issued.
NothingSinksBelowABarrier ==
  [][\A i \in Indices :
       pc = "issue" /\ i \in Issued' \ Issued /\ Kind(i) \in {"STORE", "CONTROL"}
         => \A j \in 1 .. i - 1 : j \in Issued]_vars

\* At each moment, what is issued respects the order of every conflicting pair
\* of the block, also of the pairs that no edge joins (load before store, a
\* read before a write two definitions later).
IssuedInOrder ==
  \A i \in Indices : \A j \in 1 .. i - 1 :
    i \in Issued /\ Conflict(block[j], block[i]) => j \in Issued

\* The instruction whose write the reader finds in a place when the block runs
\* in the order p: 0 is the value from before the block.
Position(p, i) == CHOOSE k \in 1 .. Len(p) : p[k] = i
Latest(S) == CHOOSE k \in S : \A l \in S : l <= k
WriterSeenBy(p, i, place) ==
  LET earlier == {k \in 1 .. Position(p, i) - 1 : place \in Writes(block[p[k]])}
  IN  IF earlier = {} THEN 0 ELSE p[Latest(earlier)]
FinalWriter(p, place) ==
  LET writers == {k \in 1 .. Len(p) : place \in Writes(block[p[k]])}
  IN  IF writers = {} THEN 0 ELSE p[Latest(writers)]

\* The scheduled block computes what the block computed: each instruction reads
\* every register, predicate and the memory from the same writer as in program
\* order, and each place is left with the same last writer.
ComputesTheSame ==
  pc = "done" =>
    LET original == [i \in Indices |-> i]
    IN  /\ \A i \in Indices : \A place \in Reads(block[i]) :
             WriterSeenBy(scheduled, i, place) = WriterSeenBy(original, i, place)
        /\ \A place \in UNION {Writes(block[i]) : i \in Indices} :
             FinalWriter(scheduled, place) = FinalWriter(original, place)

\* The scheduler implements the promise of BlockReorder: the order appears at
\* once, when the function returns.
Promise == INSTANCE BlockReorder
             WITH order <- IF pc = "done" THEN scheduled ELSE << >>
ImplementsReorder == Promise!Spec

-----------------------------------------------------------------------------
(***************************************************************************)
(* The inductive invariant behind the theorems of SchedulerProofs.         *)
(* It is stated with the scheduler's own notion of dependence, Tracked;    *)
(* for the blocks described by the two conditions below, every conflict is *)
(* tracked.                                                                *)
(***************************************************************************)

\* schedule_lowered starts a new block after BR, BRX and HALT.
ControlEndsBlocks ==
  \A b \in Blocks : \A i \in 1 .. Len(b) :
    InstKind(b[i]) = "CONTROL" => i = Len(b)

\* Only control instructions are guarded, and no instruction is 64 bits wide.
PlainInstructions ==
  \A b \in Blocks : \A i \in 1 .. Len(b) :
    /\ InstKind(b[i]) # "CONTROL" => b[i].predicate = NoPredicate
    /\ ~b[i].wide

DefinesReg(i, r) == Defines(i) /\ Dest(i) = r

Tracked(j, i) ==
  \/ \E s \in Src(i) : DefinesReg(j, s)
  \/ Defines(i) /\ (Dest(i) \in Src(j) \/ DefinesReg(j, Dest(i)))
  \/ Kind(j) = "STORE" /\ Kind(i) = "LOAD"
  \/ Kind(i) \in {"STORE", "CONTROL"}

\* k is the last instruction before i that defines r.
ClosestDef(k, r, i) ==
  /\ k \in 1 .. i - 1 /\ DefinesReg(k, r)
  /\ \A j \in k + 1 .. i - 1 : ~DefinesReg(j, r)

\* The builder's tables describe the instructions before idx.
TablesInv ==
  /\ \A r \in Gpr : IF lastDef[r] = 0
                    THEN \A j \in 1 .. idx - 1 : ~DefinesReg(j, r)
                    ELSE ClosestDef(lastDef[r], r, idx)
  /\ \A r \in Gpr : pendingReads[r] =
       {j \in 1 .. idx - 1 : r \in Src(j) /\ j >= lastDef[r]}
  /\ IF lastStore = 0
     THEN \A j \in 1 .. idx - 1 : Kind(j) # "STORE"
     ELSE /\ lastStore < idx /\ Kind(lastStore) = "STORE"
          /\ \A j \in lastStore + 1 .. idx - 1 : Kind(j) # "STORE"

\* The edges into i that make every other tracked dependence of i follow.
EdgesComplete(i) ==
  /\ \A s \in Src(i) : \A k \in 1 .. i - 1 :
       ClosestDef(k, s, i) => <<"RAW", k, i>> \in edges
  /\ Defines(i) => \A k \in 1 .. i - 1 :
       /\ ClosestDef(k, Dest(i), i) => <<"WAW", k, i>> \in edges
       /\ Dest(i) \in Src(k) =>
            \/ <<"WAR", k, i>> \in edges
            \/ \E l \in k + 1 .. i - 1 : DefinesReg(l, Dest(i))
  /\ Kind(i) = "LOAD" => \A k \in 1 .. i - 1 :
       Kind(k) = "STORE" /\ (\A j \in k + 1 .. i - 1 : Kind(j) # "STORE")
         => <<"MEM", k, i>> \in edges

\* Edges go forward along tracked pairs, and a finished instruction has all it
\* needs.
EdgesInv ==
  /\ \A e \in edges : e[2] < e[3] /\ e[3] < idx /\ Tracked(e[2], e[3])
  /\ \A i \in 1 .. idx - 1 : EdgesComplete(i)

\* Counts and heap agree with the edges that are not yet resolved.
HeapInv ==
  /\ \A i \in Indices :
       depCount[i] = Cardinality({e \in edges : e[3] = i /\ e[2] \notin Issued})
  /\ ready = {i \in 1 .. idx - 1 : depCount[i] = 0} \ Issued

\* What is scheduled has no repetition and follows the tracked dependences.
OrderInv ==
  /\ \A k, l \in 1 .. Len(scheduled) : scheduled[k] = scheduled[l] => k = l
  /\ \A k \in 1 .. Len(scheduled) : \A j \in 1 .. scheduled[k] - 1 :
       Tracked(j, scheduled[k]) => \E l \in 1 .. k - 1 : scheduled[l] = j

PhaseInv ==
  /\ pc = "build" => scheduled = << >> /\ (Len(block) > 2 => idx <= Len(block))
  /\ pc = "issue" => idx = Len(block) + 1
  /\ pc = "done"  => Issued = Indices

IInv == /\ TypeOK /\ PhaseInv /\ OrderInv /\ pc # "raised"
        /\ pc \in {"build", "issue"} => TablesInv /\ EdgesInv /\ HeapInv

=============================================================================
