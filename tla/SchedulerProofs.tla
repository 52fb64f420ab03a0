-------------------------- MODULE SchedulerProofs ---------------------------
(***************************************************************************)
(* Proofs about the list scheduler, in two parts.                          *)
(*                                                                         *)
(* One call (ListScheduler): IInv is inductive for every set of blocks     *)
(* whose control instructions end the block; from it follow that the heap  *)
(* never runs dry, that nothing sinks below a barrier, and, for unguarded  *)
(* single-width code, that the scheduler keeps the promise of BlockReorder *)
(* and computes the same.                                                  *)
(*                                                                         *)
(* All calls (ScheduleLowered), for every set of lowered programs: the     *)
(* blocks schedule_lowered cuts meet the hypothesis of the first part, and *)
(* because of what is proved there of every call, control instructions     *)
(* stay where branches expect them and every block keeps its instructions. *)
(***************************************************************************)
EXTENDS ScheduleLowered, NaturalOrder, SequenceTheorems

USE BlocksAssumption, NumRegsAssumption

-----------------------------------------------------------------------------
(* Facts about one block. *)

\* A block is a finite sequence of instructions.
LEMMA BlockFacts ==
  ASSUME block \in Blocks
  PROVE  /\ Len(block) \in Nat
         /\ Indices \subseteq Nat
         /\ IsFiniteSet(Indices)
         /\ \A i \in Indices : block[i] \in Instruction
<1>1. block \in Seq(Instruction) OBVIOUS
<1>2. Len(block) \in Nat BY <1>1
<1>3. IsFiniteSet(Indices) BY <1>2, FS_Interval DEF Indices
<1>4. QED BY <1>1, <1>2, <1>3 DEF Indices

\* The kinds are four, and what is read or defined is a register.
LEMMA InstructionFacts ==
  ASSUME NEW inst \in Instruction
  PROVE  /\ InstKind(inst) \in {"LOAD", "STORE", "COMPUTE", "CONTROL"}
         /\ SourceRegs(inst) \subseteq Gpr
         /\ inst.dest \in Gpr
         /\ HasDest(inst) \in BOOLEAN
         /\ HasDest(inst) <=> InstKind(inst) \in {"LOAD", "COMPUTE"}
BY DEF Instruction, InstKind, SourceRegs, HasDest

\* The same for the instruction at an index.
LEMMA IndexFacts ==
  ASSUME block \in Blocks, NEW i \in Indices
  PROVE  /\ i \in Nat
         /\ Kind(i) \in {"LOAD", "STORE", "COMPUTE", "CONTROL"}
         /\ Src(i) \subseteq Gpr
         /\ Dest(i) \in Gpr
         /\ Defines(i) \in BOOLEAN
         /\ Defines(i) <=> Kind(i) \in {"LOAD", "COMPUTE"}
<1>1. block[i] \in Instruction /\ i \in Nat BY BlockFacts
<1>2. QED BY <1>1, InstructionFacts DEF Kind, Src, Dest, Defines

\* There are finitely many edges to draw.
LEMMA TriplesFinite ==
  ASSUME block \in Blocks
  PROVE  IsFiniteSet({"RAW", "WAR", "WAW", "MEM"} \X Indices \X Indices)
<1>1. IsFiniteSet(Indices) BY BlockFacts
<1>2. IsFiniteSet({"RAW", "WAR", "WAW", "MEM"})
  <2>1. IsFiniteSet({"RAW"}) BY FS_Singleton
  <2>2. IsFiniteSet({"RAW"} \cup {"WAR"}) BY <2>1, FS_AddElement
  <2>3. IsFiniteSet(({"RAW"} \cup {"WAR"}) \cup {"WAW"}) BY <2>2, FS_AddElement
  <2>4. IsFiniteSet((({"RAW"} \cup {"WAR"}) \cup {"WAW"}) \cup {"MEM"})
    BY <2>3, FS_AddElement
  <2>5. ((({"RAW"} \cup {"WAR"}) \cup {"WAW"}) \cup {"MEM"})
          = {"RAW", "WAR", "WAW", "MEM"}
    OBVIOUS
  <2>6. QED BY <2>4, <2>5
<1>3. IsFiniteSet({"RAW", "WAR", "WAW", "MEM"} \X Indices)
  BY <1>1, <1>2, FS_Product
<1>4. IsFiniteSet(({"RAW", "WAR", "WAW", "MEM"} \X Indices) \X Indices)
  BY <1>1, <1>3, FS_Product
<1> DEFINE Nested == ({"RAW", "WAR", "WAW", "MEM"} \X Indices) \X Indices
           Triples == {"RAW", "WAR", "WAW", "MEM"} \X Indices \X Indices
           flatten == [x \in Nested |-> <<x[1][1], x[1][2], x[2]>>]
<1>5. flatten \in Surjection(Nested, Triples)
  <2>1. flatten \in [Nested -> Triples] OBVIOUS
  <2>2. ASSUME NEW t \in Triples PROVE \E x \in Nested : flatten[x] = t
    <3>1. <<<<t[1], t[2]>>, t[3]>> \in Nested OBVIOUS
    <3>2. flatten[<<<<t[1], t[2]>>, t[3]>>] = t BY <3>1
    <3>3. QED BY <3>1, <3>2
  <2>3. QED BY <2>1, <2>2 DEF Surjection
<1>6. IsFiniteSet(Triples)
  <2> HIDE DEF Nested, Triples, flatten
  <2> QED BY <1>4, <1>5, FS_Surjection DEF Nested
<1>7. QED BY <1>6

\* So the edges of a state are finitely many.
LEMMA EdgesFinite ==
  ASSUME TypeOK
  PROVE  IsFiniteSet(edges)
BY TriplesFinite, FS_Subset DEF TypeOK

-----------------------------------------------------------------------------
(* The initial states, and the return of a short block. *)

\* Nothing is read, counted or issued at the start.
LEMMA InitInv == Init => IInv
<1> SUFFICES ASSUME Init PROVE IInv OBVIOUS
<1> USE DEF Init
<1>1. Len(block) \in Nat /\ Indices = 1 .. Len(block)
  BY BlockFacts DEF Indices
<1>2. Issued = {} BY DEF Issued
<1>3. TypeOK BY <1>1 DEF TypeOK
<1>4. PhaseInv BY <1>1 DEF PhaseInv
<1>5. OrderInv BY DEF OrderInv
<1>6. TablesInv
  <2>1. 1 .. idx - 1 = {} OBVIOUS
  <2>2. QED BY <2>1 DEF TablesInv
<1>7. EdgesInv BY DEF EdgesInv
<1>8. HeapInv
  <2>1. \A i \in Indices :
          {e \in edges : e[3] = i /\ e[2] \notin Issued} = {}
    OBVIOUS
  <2>2. 1 .. idx - 1 = {} OBVIOUS
  <2>3. QED BY <2>1, <2>2, FS_EmptySet DEF HeapInv
<1>9. QED BY <1>3, <1>4, <1>5, <1>6, <1>7, <1>8 DEF IInv

\* A short block is returned in its own order.
LEMMA ReturnShortInv == IInv /\ ReturnShort => IInv'
<1> SUFFICES ASSUME IInv, ReturnShort PROVE IInv' OBVIOUS
<1> USE DEF IInv, ReturnShort
<1>1. Len(block) \in Nat /\ Indices = 1 .. Len(block) /\ Indices' = Indices
  BY BlockFacts DEF Indices, TypeOK
<1>2. /\ scheduled' \in Seq(Indices) /\ Len(scheduled') = Len(block)
      /\ \A i \in Indices : scheduled'[i] = i
  BY <1>1
<1>3. TypeOK' BY <1>1, <1>2 DEF TypeOK
<1>4. Issued' = Indices BY <1>1, <1>2 DEF Issued
<1>5. PhaseInv' BY <1>1, <1>4 DEF PhaseInv
<1>6. OrderInv'
  <2>1. \A k, l \in 1 .. Len(scheduled') :
          scheduled'[k] = scheduled'[l] => k = l
    BY <1>1, <1>2
  <2>2. \A k \in 1 .. Len(scheduled') : \A j \in 1 .. scheduled'[k] - 1 :
          \E l \in 1 .. k - 1 : scheduled'[l] = j
    BY <1>1, <1>2
  <2>3. QED BY <2>1, <2>2 DEF OrderInv
<1>7. QED BY <1>3, <1>5, <1>6

-----------------------------------------------------------------------------
(* The graph builder. *)

\* NewEdges(i) are typed, lead into i and follow tracked pairs.
LEMMA NewEdgesShape ==
  ASSUME TypeOK, TablesInv, idx \in Indices
  PROVE  \A e \in NewEdges(idx) :
           /\ e \in {"RAW", "WAR", "WAW", "MEM"} \X Indices \X Indices
           /\ e[3] = idx /\ e[2] < idx /\ Tracked(e[2], idx)
<1> USE DEF TypeOK
<1>1. /\ Len(block) \in Nat /\ Indices = 1 .. Len(block) /\ idx \in Nat
      /\ Src(idx) \subseteq Gpr /\ Dest(idx) \in Gpr
  BY BlockFacts, IndexFacts DEF Indices
<1>2. ASSUME NEW s \in Src(idx), lastDef[s] # 0
      PROVE  /\ lastDef[s] \in Indices /\ lastDef[s] < idx
             /\ Tracked(lastDef[s], idx)
  <2>1. ClosestDef(lastDef[s], s, idx) BY <1>1, <1>2 DEF TablesInv
  <2>2. QED BY <1>1, <2>1 DEF ClosestDef, Tracked
<1>3. ASSUME Defines(idx), NEW r \in pendingReads[Dest(idx)]
      PROVE  r \in Indices /\ r < idx /\ Tracked(r, idx)
  BY <1>1, <1>3 DEF TablesInv, Tracked
<1>4. ASSUME Defines(idx), lastDef[Dest(idx)] # 0
      PROVE  /\ lastDef[Dest(idx)] \in Indices /\ lastDef[Dest(idx)] < idx
             /\ Tracked(lastDef[Dest(idx)], idx)
  <2>1. ClosestDef(lastDef[Dest(idx)], Dest(idx), idx)
    BY <1>1, <1>4 DEF TablesInv
  <2>2. QED BY <1>1, <1>4, <2>1 DEF ClosestDef, Tracked
<1>5. ASSUME Kind(idx) = "LOAD", lastStore # 0
      PROVE  lastStore \in Indices /\ lastStore < idx /\ Tracked(lastStore, idx)
  BY <1>1, <1>5 DEF TablesInv, Tracked
<1>6. QED BY <1>1, <1>2, <1>3, <1>4, <1>5 DEF NewEdges

\* One instruction read: its edges are those the tables call for, and the
\* tables describe one instruction more.
LEMMA AddToGraphInv == IInv /\ AddToGraph => IInv'
<1> SUFFICES ASSUME IInv, AddToGraph PROVE IInv' OBVIOUS
<1>1. /\ Len(block) \in Nat /\ Indices = 1 .. Len(block) /\ block' = block
      /\ idx \in Indices /\ idx \in Nat /\ idx' = idx + 1
      /\ scheduled = << >> /\ scheduled' = << >>
      /\ pc = "build" /\ Len(block) > 2
  BY BlockFacts DEF IInv, TypeOK, PhaseInv, AddToGraph, Indices
<1>2. TypeOK /\ TablesInv /\ EdgesInv /\ HeapInv
  BY <1>1 DEF IInv
<1>3. /\ Src(idx) \subseteq Gpr /\ Dest(idx) \in Gpr
      /\ \A i \in Indices : Src(i) \subseteq Gpr /\ Dest(i) \in Gpr
  BY <1>1, <1>2, IndexFacts DEF TypeOK
<1>4. \A e \in NewEdges(idx) :
        /\ e \in {"RAW", "WAR", "WAW", "MEM"} \X Indices \X Indices
        /\ e[3] = idx /\ e[2] < idx /\ Tracked(e[2], idx)
  BY <1>1, <1>2, NewEdgesShape
<1>5. IsFiniteSet(edges') /\ IsFiniteSet(NewEdges(idx))
  <2>1. edges' \subseteq {"RAW", "WAR", "WAW", "MEM"} \X Indices \X Indices
    BY <1>2, <1>4 DEF AddToGraph, TypeOK
  <2>2. IsFiniteSet({"RAW", "WAR", "WAW", "MEM"} \X Indices \X Indices)
    BY <1>2, TriplesFinite DEF TypeOK
  <2>3. NewEdges(idx) \subseteq edges' BY DEF AddToGraph
  <2>4. IsFiniteSet(edges') BY <2>1, <2>2, FS_Subset
  <2>5. QED BY <2>3, <2>4, FS_Subset
<1>6. TypeOK'
  <2>1. edges' \subseteq {"RAW", "WAR", "WAW", "MEM"} \X Indices \X Indices
    BY <1>2, <1>4 DEF AddToGraph, TypeOK
  <2>2. depCount' \in [Indices -> Nat]
    <3>1. Cardinality(NewEdges(idx)) \in Nat BY <1>5, FS_CardinalityType
    <3>2. QED BY <1>1, <1>2, <3>1 DEF AddToGraph, TypeOK
  <2>3. lastDef' \in [Gpr -> 0 .. Len(block)]
    BY <1>1, <1>2, <1>3 DEF AddToGraph, TypeOK
  <2>4. pendingReads' \in [Gpr -> SUBSET Indices]
    BY <1>1, <1>2 DEF AddToGraph, TypeOK
  <2>5. ready' \subseteq Indices BY <1>1, <1>2 DEF AddToGraph, TypeOK
  <2>6. lastStore' \in 0 .. Len(block)
    BY <1>1, <1>2 DEF AddToGraph, TypeOK
  <2>7. idx' \in 1 .. Len(block) + 1 BY <1>1
  <2>8. QED
    BY <1>1, <1>2, <2>1, <2>2, <2>3, <2>4, <2>5, <2>6, <2>7
    DEF AddToGraph, TypeOK, Indices
<1>7. PhaseInv'
  BY <1>1 DEF PhaseInv, AddToGraph
<1>8. OrderInv'
  BY <1>1 DEF OrderInv
<1>9. TablesInv'
  <2>1. ASSUME NEW r \in Gpr
        PROVE  IF lastDef'[r] = 0
               THEN \A j \in 1 .. idx' - 1 : ~DefinesReg(j, r)
               ELSE ClosestDef(lastDef'[r], r, idx')
    <3>1. CASE DefinesReg(idx, r)
      <4>1. lastDef'[r] = idx
        BY <1>2, <3>1 DEF AddToGraph, DefinesReg, TypeOK
      <4>2. QED BY <1>1, <3>1, <4>1 DEF ClosestDef
    <3>2. CASE ~DefinesReg(idx, r)
      <4>1. lastDef'[r] = lastDef[r]
        BY <1>2, <3>2 DEF AddToGraph, DefinesReg, TypeOK
      <4>2. \A j \in 1 .. idx' - 1 : j \in 1 .. idx - 1 \/ j = idx
        BY <1>1
      <4>3. CASE lastDef[r] = 0
        BY <1>2, <2>1, <3>2, <4>1, <4>2, <4>3 DEF TablesInv
      <4>4. CASE lastDef[r] # 0
        <5>1. ClosestDef(lastDef[r], r, idx) BY <1>2, <4>4 DEF TablesInv
        <5>2. QED BY <1>1, <3>2, <4>1, <4>4, <5>1 DEF ClosestDef
      <4>5. QED BY <4>3, <4>4
    <3>3. QED BY <3>1, <3>2
  <2>2. ASSUME NEW r \in Gpr
        PROVE  pendingReads'[r] =
                 {j \in 1 .. idx' - 1 : r \in Src(j) /\ j >= lastDef'[r]}
    <3>1. pendingReads[r] = {j \in 1 .. idx - 1 : r \in Src(j) /\ j >= lastDef[r]}
      BY <1>2 DEF TablesInv
    <3>2. pendingReads'[r] = (IF DefinesReg(idx, r) THEN {} ELSE pendingReads[r])
                                \cup (IF r \in Src(idx) THEN {idx} ELSE {})
      BY DEF AddToGraph, DefinesReg
    <3>3. lastDef'[r] = IF DefinesReg(idx, r) THEN idx ELSE lastDef[r]
      BY <1>2 DEF AddToGraph, DefinesReg, TypeOK
    <3>4. lastDef[r] \in 0 .. idx - 1
      BY <1>1, <1>2 DEF TablesInv, ClosestDef
    <3>5. QED BY <1>1, <3>1, <3>2, <3>3, <3>4
  <2>3. IF lastStore' = 0
        THEN \A j \in 1 .. idx' - 1 : Kind(j) # "STORE"
        ELSE /\ lastStore' < idx' /\ Kind(lastStore') = "STORE"
             /\ \A j \in lastStore' + 1 .. idx' - 1 : Kind(j) # "STORE"
    BY <1>1, <1>2 DEF TablesInv, TypeOK, AddToGraph
  <2>4. QED
    BY <1>1, <2>1, <2>2, <2>3
    DEF TablesInv, ClosestDef, DefinesReg, Defines, Dest, Src, Kind
<1>10. EdgesInv'
  <2>1. ASSUME NEW e \in edges' PROVE e[2] < e[3] /\ e[3] < idx' /\ Tracked(e[2], e[3])
    <3>1. CASE e \in edges
      <4>1. e[2] < e[3] /\ e[3] < idx /\ Tracked(e[2], e[3]) /\ e[3] \in Nat
        BY <1>1, <1>2, <3>1 DEF EdgesInv, TypeOK
      <4>2. QED BY <1>1, <4>1
    <3>2. CASE e \in NewEdges(idx) BY <1>1, <1>4, <3>2
    <3>3. QED BY <3>1, <3>2 DEF AddToGraph
  <2>2. ASSUME NEW s \in Src(idx), NEW k \in 1 .. idx - 1, ClosestDef(k, s, idx)
        PROVE  <<"RAW", k, idx>> \in edges'
    <3>1. lastDef[s] = k
      BY <1>1, <1>2, <1>3, <2>2 DEF TablesInv, ClosestDef
    <3>2. QED BY <1>1, <2>2, <3>1 DEF AddToGraph, NewEdges
  <2>3. ASSUME Defines(idx), NEW k \in 1 .. idx - 1, ClosestDef(k, Dest(idx), idx)
        PROVE  <<"WAW", k, idx>> \in edges'
    <3>1. lastDef[Dest(idx)] = k
      BY <1>1, <1>2, <1>3, <2>3 DEF TablesInv, ClosestDef
    <3>2. QED BY <1>1, <2>3, <3>1 DEF AddToGraph, NewEdges
  <2>4. ASSUME Defines(idx), NEW k \in 1 .. idx - 1, Dest(idx) \in Src(k)
        PROVE  \/ <<"WAR", k, idx>> \in edges'
               \/ \E l \in k + 1 .. idx - 1 : DefinesReg(l, Dest(idx))
    <3>1. CASE k >= lastDef[Dest(idx)]
      <4>1. k \in pendingReads[Dest(idx)]
        BY <1>1, <1>2, <1>3, <2>4, <3>1 DEF TablesInv
      <4>2. QED BY <2>4, <4>1 DEF AddToGraph, NewEdges
    <3>2. CASE ~(k >= lastDef[Dest(idx)])
      <4>1. ClosestDef(lastDef[Dest(idx)], Dest(idx), idx)
        BY <1>1, <1>2, <1>3, <3>2 DEF TablesInv, TypeOK
      <4>2. QED BY <1>1, <3>2, <4>1 DEF ClosestDef
    <3>3. QED BY <3>1, <3>2
  <2>5. ASSUME Kind(idx) = "LOAD", NEW k \in 1 .. idx - 1, Kind(k) = "STORE",
               \A j \in k + 1 .. idx - 1 : Kind(j) # "STORE"
        PROVE  <<"MEM", k, idx>> \in edges'
    <3>1. lastStore = k
      BY <1>1, <1>2, <2>5 DEF TablesInv, TypeOK
    <3>2. QED BY <1>1, <2>5, <3>1 DEF AddToGraph, NewEdges
  <2>6. edges \subseteq edges' BY DEF AddToGraph
  <2>7. \A i \in 1 .. idx' - 1 : i \in 1 .. idx - 1 \/ i = idx BY <1>1
  <2>8. ASSUME NEW i \in 1 .. idx' - 1 PROVE EdgesComplete(i)'
    <3> USE DEF EdgesComplete, ClosestDef, DefinesReg, Defines, Dest, Src, Kind
    <3>1. CASE i \in 1 .. idx - 1
      <4>1. EdgesComplete(i) BY <1>2, <3>1 DEF EdgesInv
      <4>2. QED BY <1>1, <2>6, <4>1
    <3>2. CASE i = idx
      BY <1>1, <2>2, <2>3, <2>4, <2>5, <3>2
    <3>3. QED BY <2>7, <3>1, <3>2
  <2>9. QED
    BY <1>1, <2>1, <2>8
    DEF EdgesInv, Tracked, DefinesReg, Defines, Dest, Src, Kind
<1>11. HeapInv'
  <2>1. Issued = {} /\ Issued' = {} BY <1>1 DEF Issued
  <2>2. \A e \in edges : e[3] \in Nat /\ e[3] < idx
    BY <1>1, <1>2 DEF EdgesInv, TypeOK
  <2>3. ASSUME NEW i \in Indices, i # idx
        PROVE  {e \in edges' : e[3] = i} = {e \in edges : e[3] = i}
    BY <1>4, <2>3 DEF AddToGraph
  <2>4. {e \in edges' : e[3] = idx} = NewEdges(idx)
    BY <1>1, <1>4, <2>2 DEF AddToGraph
  <2>5. \A i \in Indices : depCount'[i] =
          Cardinality({e \in edges' : e[3] = i /\ e[2] \notin Issued'})
    <3>1. \A i \in Indices :
            /\ {e \in edges' : e[3] = i /\ e[2] \notin Issued'} = {e \in edges' : e[3] = i}
            /\ {e \in edges : e[3] = i /\ e[2] \notin Issued} = {e \in edges : e[3] = i}
      BY <2>1
    <3>2. depCount'[idx] = Cardinality(NewEdges(idx))
      BY <1>1, <1>2 DEF AddToGraph, TypeOK
    <3>3. \A i \in Indices : i # idx => depCount'[i] = depCount[i]
      BY <1>1, <1>2 DEF AddToGraph, TypeOK
    <3>4. \A i \in Indices : depCount[i] = Cardinality({e \in edges : e[3] = i})
      BY <1>2, <3>1 DEF HeapInv
    <3>5. QED BY <2>3, <2>4, <3>1, <3>2, <3>3, <3>4
  <2>6. ready' = {i \in 1 .. idx' - 1 : depCount'[i] = 0} \ Issued'
    <3>1. depCount'[idx] = Cardinality(NewEdges(idx))
      BY <1>1, <1>2 DEF AddToGraph, TypeOK
    <3>2. depCount'[idx] = 0 <=> NewEdges(idx) = {}
      BY <1>5, <3>1, FS_EmptySet
    <3>3. \A i \in 1 .. idx - 1 : depCount'[i] = depCount[i]
      BY <1>1, <1>2 DEF AddToGraph, TypeOK
    <3>4. ready = {i \in 1 .. idx - 1 : depCount[i] = 0}
      BY <1>2, <2>1 DEF HeapInv
    <3>5. 1 .. idx' - 1 = (1 .. idx - 1) \cup {idx} BY <1>1
    <3>6. QED BY <2>1, <3>2, <3>3, <3>4, <3>5 DEF AddToGraph
  <2>7. QED BY <1>1, <2>5, <2>6 DEF HeapInv, Indices
<1>12. QED
  BY <1>1, <1>6, <1>7, <1>8, <1>9, <1>10, <1>11 DEF IInv, AddToGraph

-----------------------------------------------------------------------------
(* Issuing. *)

\* If something before i defines r, something closest does.
LEMMA ClosestDefExists ==
  ASSUME block \in Blocks, NEW i \in Indices, NEW j \in 1 .. i - 1, NEW r,
         DefinesReg(j, r)
  PROVE  \E k \in j .. i - 1 : ClosestDef(k, r, i)
<1> DEFINE D == {k \in j .. i - 1 : DefinesReg(k, r)}
<1>1. i \in Nat /\ j \in Nat BY BlockFacts
<1>2. D \in SUBSET (0 .. i) /\ D # {} BY <1>1
<1>3. PICK k \in D : \A l \in D : l <= k
  <2> HIDE DEF D
  <2> QED BY <1>1, <1>2, GreatestElement
<1>4. \A l \in k + 1 .. i - 1 : ~DefinesReg(l, r)
  BY <1>1, <1>3
<1>5. QED BY <1>1, <1>3, <1>4 DEF ClosestDef

\* If there is a store before i, there is a last one.
LEMMA ClosestStoreExists ==
  ASSUME block \in Blocks, NEW i \in Indices, NEW j \in 1 .. i - 1,
         Kind(j) = "STORE"
  PROVE  \E k \in j .. i - 1 :
           Kind(k) = "STORE" /\ \A l \in k + 1 .. i - 1 : Kind(l) # "STORE"
<1> DEFINE D == {k \in j .. i - 1 : Kind(k) = "STORE"}
<1>1. i \in Nat /\ j \in Nat BY BlockFacts
<1>2. D \in SUBSET (0 .. i) /\ D # {} BY <1>1
<1>3. PICK k \in D : \A l \in D : l <= k
  <2> HIDE DEF D
  <2> QED BY <1>1, <1>2, GreatestElement
<1>4. QED BY <1>1, <1>3

\* What is on the heap waits for no edge.
LEMMA ReadyHasNoOpenEdge ==
  ASSUME IInv, pc = "issue", NEW i \in Indices, depCount[i] = 0
  PROVE  \A e \in edges : e[3] = i => e[2] \in Issued
<1>1. TypeOK /\ HeapInv BY DEF IInv
<1>2. {e \in edges : e[3] = i /\ e[2] \notin Issued} \in SUBSET edges
  OBVIOUS
<1>3. IsFiniteSet({e \in edges : e[3] = i /\ e[2] \notin Issued})
  BY <1>1, <1>2, EdgesFinite, FS_Subset
<1>4. {e \in edges : e[3] = i /\ e[2] \notin Issued} = {}
  BY <1>1, <1>3, FS_EmptySet DEF HeapInv
<1>5. QED BY <1>4

\* The first unissued instruction is on the heap.
LEMMA FirstUnissuedIsReady ==
  ASSUME IInv, pc = "issue", NEW i \in Indices \ Issued,
         \A j \in 1 .. i - 1 : j \in Issued
  PROVE  i \in ready
<1>1. TypeOK /\ HeapInv /\ EdgesInv BY DEF IInv
<1>2. idx = Len(block) + 1 /\ Len(block) \in Nat
  BY BlockFacts DEF IInv, PhaseInv, TypeOK
<1>3. {e \in edges : e[3] = i /\ e[2] \notin Issued} = {}
  <2>1. ASSUME NEW e \in edges, e[3] = i PROVE e[2] \in 1 .. i - 1
    BY <1>1, <1>2, <2>1 DEF EdgesInv, TypeOK, Indices
  <2>2. QED BY <2>1
<1>4. depCount[i] = 0
  BY <1>1, <1>3, FS_EmptySet DEF HeapInv
<1>5. QED BY <1>1, <1>2, <1>4 DEF HeapInv, Indices

\* A barrier is popped only when nothing before it is left.
LEMMA BarrierWaits ==
  ASSUME ControlEndsBlocks, IInv, NEW best \in ready, Issue(best),
         Kind(best) \in {"STORE", "CONTROL"}
  PROVE  \A j \in 1 .. best - 1 : j \in Issued
<1> DEFINE Left == {j \in 1 .. best - 1 : j \notin Issued}
<1>1. /\ best \in Indices /\ best \in Nat /\ Len(block) \in Nat
      /\ Indices = 1 .. Len(block) /\ block \in Blocks /\ pc = "issue"
  BY BlockFacts DEF IInv, TypeOK, Indices, Issue
<1>2. SUFFICES ASSUME Left # {} PROVE FALSE OBVIOUS
<1>3. PICK m \in Left : \A j \in Left : m <= j
  <2>1. Left \in SUBSET Nat BY <1>1
  <2> HIDE DEF Left
  <2>2. QED BY <1>2, <2>1, LeastElement
<1>4. m \in ready
  BY <1>1, <1>3, FirstUnissuedIsReady
<1>5. Before(best, m) BY <1>4 DEF Issue
<1>6. m \in Indices /\ m \in Nat /\ m < best BY <1>1, <1>3
<1>7. Kind(m) # "CONTROL"
  BY <1>1, <1>6 DEF ControlEndsBlocks, Kind
<1>8. Kind(m) \in {"LOAD", "COMPUTE", "STORE"}
  BY <1>1, <1>6, <1>7, IndexFacts
<1>9. Priority(m) \in Nat /\ Priority(m) < 2 + (best - 1)
  BY <1>1, <1>6, <1>8 DEF Priority
<1>10. Priority(best) \in Nat /\ Priority(best) >= 2 + (best - 1)
  BY <1>1 DEF Priority
<1>11. QED BY <1>1, <1>5, <1>6, <1>9, <1>10 DEF Before

\* Whatever the popped instruction depends on, through an edge or a chain of
\* them, is issued.
LEMMA DependencesAreIssued ==
  ASSUME ControlEndsBlocks, IInv, NEW best \in ready, Issue(best),
         NEW j \in 1 .. best - 1, Tracked(j, best)
  PROVE  j \in Issued
<1>1. /\ best \in Indices /\ best \in Nat /\ Len(block) \in Nat
      /\ Indices = 1 .. Len(block) /\ block \in Blocks /\ pc = "issue"
  BY BlockFacts DEF IInv, TypeOK, Indices, Issue
<1>2. TypeOK /\ OrderInv /\ EdgesInv /\ HeapInv /\ idx = Len(block) + 1
  BY <1>1 DEF IInv, PhaseInv
<1>3. depCount[best] = 0 BY <1>2 DEF HeapInv
<1>4. \A e \in edges : e[3] = best => e[2] \in Issued
  BY <1>1, <1>3, ReadyHasNoOpenEdge
<1>5. EdgesComplete(best)
  BY <1>1, <1>2 DEF EdgesInv
<1>6. ASSUME NEW k \in Issued, j < k, Tracked(j, k) PROVE j \in Issued
  <2>1. PICK p \in 1 .. Len(scheduled) : scheduled[p] = k BY DEF Issued
  <2>2. k \in Nat BY <1>1, <1>2, <2>1 DEF TypeOK
  <2>3. j \in 1 .. scheduled[p] - 1 BY <1>1, <1>6, <2>1, <2>2
  <2>4. PICK l \in 1 .. p - 1 : scheduled[l] = j
    BY <1>2, <1>6, <2>1, <2>3 DEF OrderInv
  <2>5. Len(scheduled) \in Nat BY <1>2 DEF TypeOK
  <2>6. l \in 1 .. Len(scheduled) BY <2>1, <2>4, <2>5
  <2>7. QED BY <2>4, <2>6 DEF Issued
<1>7. CASE \E s \in Src(best) : DefinesReg(j, s)
  <2>1. PICK s \in Src(best) : DefinesReg(j, s) BY <1>7
  <2>2. PICK k \in j .. best - 1 : ClosestDef(k, s, best)
    BY <1>1, <2>1, ClosestDefExists
  <2>3. <<"RAW", k, best>> \in edges
    BY <1>1, <1>5, <2>2 DEF EdgesComplete, ClosestDef
  <2>4. k \in Issued BY <1>4, <2>3
  <2>5. j # k => Tracked(j, k)
    BY <2>1, <2>2 DEF Tracked, ClosestDef, DefinesReg
  <2>6. QED BY <1>1, <1>6, <2>2, <2>4, <2>5
<1>8. CASE Defines(best) /\ DefinesReg(j, Dest(best))
  <2>1. PICK k \in j .. best - 1 : ClosestDef(k, Dest(best), best)
    BY <1>1, <1>8, ClosestDefExists
  <2>2. <<"WAW", k, best>> \in edges
    BY <1>1, <1>5, <1>8, <2>1 DEF EdgesComplete, ClosestDef
  <2>3. k \in Issued BY <1>4, <2>2
  <2>4. j # k => Tracked(j, k)
    BY <1>8, <2>1 DEF Tracked, ClosestDef, DefinesReg
  <2>5. QED BY <1>1, <1>6, <2>1, <2>3, <2>4
<1>9. CASE Defines(best) /\ Dest(best) \in Src(j)
  <2>1. CASE <<"WAR", j, best>> \in edges BY <1>4, <2>1
  <2>2. CASE \E l \in j + 1 .. best - 1 : DefinesReg(l, Dest(best))
    <3>1. PICK l \in j + 1 .. best - 1 : DefinesReg(l, Dest(best)) BY <2>2
    <3>2. l \in 1 .. best - 1 BY <1>1
    <3>3. PICK k \in l .. best - 1 : ClosestDef(k, Dest(best), best)
      BY <1>1, <3>1, <3>2, ClosestDefExists
    <3>4. <<"WAW", k, best>> \in edges
      BY <1>1, <1>5, <1>9, <3>3 DEF EdgesComplete, ClosestDef
    <3>5. k \in Issued BY <1>4, <3>4
    <3>6. Tracked(j, k) BY <1>9, <3>3 DEF Tracked, ClosestDef, DefinesReg
    <3>7. QED BY <1>1, <1>6, <3>1, <3>3, <3>5, <3>6
  <2>3. QED BY <1>5, <1>9, <2>1, <2>2 DEF EdgesComplete
<1>10. CASE Kind(j) = "STORE" /\ Kind(best) = "LOAD"
  <2>1. PICK k \in j .. best - 1 :
          Kind(k) = "STORE" /\ \A l \in k + 1 .. best - 1 : Kind(l) # "STORE"
    BY <1>1, <1>10, ClosestStoreExists
  <2>2. <<"MEM", k, best>> \in edges
    BY <1>1, <1>5, <1>10, <2>1 DEF EdgesComplete
  <2>3. k \in Issued BY <1>4, <2>2
  <2>4. Tracked(j, k) BY <2>1 DEF Tracked
  <2>5. QED BY <1>1, <1>6, <2>1, <2>3, <2>4
<1>11. CASE Kind(best) \in {"STORE", "CONTROL"}
  BY <1>11, BarrierWaits
<1>12. QED BY <1>7, <1>8, <1>9, <1>10, <1>11 DEF Tracked

\* Popping the heap issues an instruction after all it depends on.
LEMMA IssueInv ==
  ASSUME ControlEndsBlocks, IInv, NEW best \in ready, Issue(best)
  PROVE  IInv'
<1>1. /\ best \in Indices /\ best \in Nat /\ Len(block) \in Nat
      /\ Indices = 1 .. Len(block) /\ block \in Blocks /\ pc = "issue"
      /\ block' = block /\ idx' = idx /\ pc' = pc /\ edges' = edges
      /\ lastDef' = lastDef /\ pendingReads' = pendingReads
      /\ lastStore' = lastStore
  BY BlockFacts DEF IInv, TypeOK, Indices, Issue
<1>2. TypeOK /\ OrderInv /\ TablesInv /\ EdgesInv /\ HeapInv /\ idx = Len(block) + 1
  BY <1>1 DEF IInv, PhaseInv
<1>3. depCount[best] = 0 /\ best \notin Issued
  BY <1>2 DEF HeapInv
<1>4. /\ Len(scheduled) \in Nat /\ Len(scheduled') = Len(scheduled) + 1
      /\ scheduled' \in Seq(Indices)
      /\ scheduled'[Len(scheduled) + 1] = best
      /\ \A k \in 1 .. Len(scheduled) : scheduled'[k] = scheduled[k]
  BY <1>1, <1>2 DEF TypeOK, Issue
<1>5. Issued' = Issued \cup {best}
  BY <1>4 DEF Issued
<1>6. OrderInv'
  <2>1. ASSUME NEW k \in 1 .. Len(scheduled'), NEW l \in 1 .. Len(scheduled'),
               scheduled'[k] = scheduled'[l]
        PROVE  k = l
    <3>1. \A m \in 1 .. Len(scheduled) : scheduled[m] # best
      BY <1>3 DEF Issued
    <3>2. QED BY <1>2, <1>4, <2>1, <3>1 DEF OrderInv
  <2>2. ASSUME NEW k \in 1 .. Len(scheduled'), NEW j \in 1 .. scheduled'[k] - 1,
               Tracked(j, scheduled'[k])
        PROVE  \E l \in 1 .. k - 1 : scheduled'[l] = j
    <3>1. CASE k \in 1 .. Len(scheduled)
      <4>1. scheduled'[k] = scheduled[k] BY <1>4, <3>1
      <4>2. PICK l \in 1 .. k - 1 : scheduled[l] = j
        BY <1>2, <2>2, <3>1, <4>1 DEF OrderInv
      <4>3. l \in 1 .. Len(scheduled) BY <1>4, <3>1
      <4>4. QED BY <1>4, <4>2, <4>3
    <3>2. CASE k = Len(scheduled) + 1
      <4>1. j \in 1 .. best - 1 /\ Tracked(j, best) BY <1>4, <2>2, <3>2
      <4>2. j \in Issued BY <4>1, DependencesAreIssued
      <4>3. PICK l \in 1 .. Len(scheduled) : scheduled[l] = j
        BY <4>2 DEF Issued
      <4>4. QED BY <1>4, <3>2, <4>3
    <3>3. QED BY <1>4, <3>1, <3>2
  <2>3. QED
    BY <1>1, <2>1, <2>2
    DEF OrderInv, Tracked, DefinesReg, Defines, Dest, Src, Kind
<1> DEFINE Open(i) == {e \in edges : e[3] = i /\ e[2] \notin Issued}
           From(i) == {e \in edges : e[2] = best /\ e[3] = i}
<1>7. ASSUME NEW i \in Indices
      PROVE  /\ depCount[i] = Cardinality(Open(i)) /\ depCount[i] \in Nat
             /\ IsFiniteSet(Open(i)) /\ IsFiniteSet(Open(i) \ From(i))
             /\ Cardinality(Open(i) \ From(i)) \in Nat
             /\ depCount'[i] = Cardinality(Open(i) \ From(i))
             /\ {e \in edges' : e[3] = i /\ e[2] \notin Issued'} = Open(i) \ From(i)
  <2>1. depCount[i] = Cardinality(Open(i)) /\ depCount[i] \in Nat
    BY <1>2 DEF HeapInv, TypeOK
  <2>2. Open(i) \in SUBSET edges /\ Open(i) \cap From(i) = From(i)
    BY <1>3
  <2>3. IsFiniteSet(Open(i)) BY <1>2, <2>2, EdgesFinite, FS_Subset
  <2>4. /\ IsFiniteSet(Open(i) \ From(i))
        /\ Cardinality(Open(i) \ From(i)) = Cardinality(Open(i)) - Cardinality(From(i))
    <3> HIDE DEF Open, From
    <3> QED BY <2>2, <2>3, FS_Difference
  <2>5. depCount'[i] = depCount[i] - Cardinality(From(i))
    BY DEF Issue
  <2>6. Cardinality(Open(i) \ From(i)) \in Nat BY <2>4, FS_CardinalityType
  <2>7. {e \in edges' : e[3] = i /\ e[2] \notin Issued'} = Open(i) \ From(i)
    BY <1>1, <1>5
  <2>8. QED BY <2>1, <2>3, <2>4, <2>5, <2>6, <2>7
<1>8. HeapInv'
  <2>1. \A i \in Indices : i \in Issued => depCount[i] = 0
    <3>1. ASSUME NEW i \in Issued PROVE Open(i) = {}
      <4>1. PICK p \in 1 .. Len(scheduled) : scheduled[p] = i BY DEF Issued
      <4>2. ASSUME NEW e \in edges, e[3] = i PROVE e[2] \in Issued
        <5>1. e[2] \in 1 .. scheduled[p] - 1 /\ Tracked(e[2], scheduled[p])
          BY <1>1, <1>2, <4>1, <4>2 DEF EdgesInv, TypeOK, Indices
        <5>2. PICK l \in 1 .. p - 1 : scheduled[l] = e[2]
          BY <1>2, <5>1 DEF OrderInv
        <5>3. l \in 1 .. Len(scheduled) BY <1>4, <4>1
        <5>4. QED BY <5>2, <5>3 DEF Issued
      <4>3. QED BY <4>2
    <3>2. QED BY <1>7, <3>1, FS_EmptySet
  <2>2. \A i \in Indices : depCount[i] = 0 => depCount'[i] = 0
    <3>1. ASSUME NEW i \in Indices, depCount[i] = 0 PROVE depCount'[i] = 0
      <4>1. Open(i) = {} BY <1>7, <3>1, FS_EmptySet
      <4>2. Open(i) \ From(i) = {} BY <4>1
      <4>3. QED BY <1>7, <4>2, FS_EmptySet
    <3>2. QED BY <3>1
  <2>3. ready = {i \in Indices : depCount[i] = 0} \ Issued
    BY <1>1, <1>2 DEF HeapInv
  <2>4. ready' = (ready \ {best})
          \cup {i \in Indices : depCount[i] > 0 /\ depCount'[i] = 0}
    BY DEF Issue
  <2>5. ready' = {i \in Indices : depCount'[i] = 0} \ Issued'
    <3>1. ASSUME NEW i \in Indices
          PROVE  i \in ready' <=> depCount'[i] = 0 /\ i \notin Issued'
      <4>1. depCount[i] \in Nat BY <1>7
      <4>2. i \in ready' <=> \/ i # best /\ depCount[i] = 0 /\ i \notin Issued
                             \/ depCount[i] > 0 /\ depCount'[i] = 0
        BY <2>3, <2>4
      <4>3. i \in Issued' <=> i = best \/ i \in Issued BY <1>5
      <4>4. depCount[i] = 0 => depCount'[i] = 0 BY <2>2
      <4>5. i \in Issued => depCount[i] = 0 BY <2>1
      <4>6. QED BY <1>3, <4>1, <4>2, <4>3, <4>4, <4>5
    <3>2. ready' \subseteq Indices BY <2>3, <2>4
    <3>3. QED BY <3>1, <3>2
  <2>6. \A i \in Indices : depCount'[i] =
          Cardinality({e \in edges' : e[3] = i /\ e[2] \notin Issued'})
    BY <1>7
  <2>7. QED BY <1>1, <1>2, <2>5, <2>6 DEF HeapInv, Indices
<1>9. TypeOK'
  <2>1. depCount' \in [Indices -> Nat] BY <1>7 DEF Issue
  <2>2. ready' \subseteq Indices BY <1>2 DEF TypeOK, Issue
  <2>3. QED BY <1>1, <1>2, <1>4, <2>1, <2>2 DEF TypeOK, Indices
<1>10. TablesInv'
  BY <1>1, <1>2
  DEF TablesInv, ClosestDef, DefinesReg, Defines, Dest, Src, Kind
<1>11. EdgesInv'
  BY <1>1, <1>2, SMTT(40)
  DEF EdgesInv, EdgesComplete, Tracked, ClosestDef, DefinesReg, Defines, Dest,
      Src, Kind
<1>12. PhaseInv' BY <1>1, <1>2 DEF PhaseInv
<1>13. QED
  BY <1>1, <1>6, <1>8, <1>9, <1>10, <1>11, <1>12 DEF IInv

\* When the heap is empty nothing is left, and the order is a permutation.
LEMMA EmptyHeap ==
  ASSUME IInv, pc = "issue", ready = {}
  PROVE  Issued = Indices /\ Len(scheduled) = Len(block)
<1>1. TypeOK /\ OrderInv /\ block \in Blocks /\ Len(block) \in Nat
      /\ Indices = 1 .. Len(block)
  BY BlockFacts DEF IInv, TypeOK, Indices
<1>2. Issued \subseteq Indices BY <1>1 DEF Issued, TypeOK
<1>3. Indices \ Issued = {}
  <2>1. SUFFICES ASSUME Indices \ Issued # {} PROVE FALSE OBVIOUS
  <2>2. Indices \ Issued \in SUBSET Nat BY <1>1
  <2>3. PICK m \in Indices \ Issued : \A k \in Indices \ Issued : m <= k
    BY <2>1, <2>2, LeastElement
  <2>4. \A j \in 1 .. m - 1 : j \in Issued BY <1>1, <2>3
  <2>5. QED BY <2>3, <2>4, FirstUnissuedIsReady
<1>4. Issued = Indices BY <1>2, <1>3
<1>5. scheduled \in Bijection(1 .. Len(scheduled), Indices)
  <2>1. scheduled \in [1 .. Len(scheduled) -> Indices] BY <1>1 DEF TypeOK
  <2>2. QED
    BY <1>1, <1>4, <2>1
    DEF Issued, OrderInv, Bijection, Injection, Surjection, IsInjective
<1>6. Len(scheduled) \in Nat BY <1>1 DEF TypeOK
<1>7. Len(scheduled) = Len(block)
  <2>1. /\ IsFiniteSet(1 .. Len(scheduled))
        /\ Cardinality(1 .. Len(scheduled)) = Len(scheduled)
    BY <1>6, FS_Interval, SMTT(40)
  <2>2. Cardinality(Indices) = Cardinality(1 .. Len(scheduled))
    BY <1>5, <2>1, FS_Bijection DEF ExistsBijection
  <2>3. Cardinality(Indices) = Len(block) BY <1>1, FS_Interval
  <2>4. QED BY <2>1, <2>2, <2>3
<1>8. QED BY <1>4, <1>7

\* The heap is empty only when everything is issued.
LEMMA FinishInv == IInv /\ Finish => IInv'
<1> SUFFICES ASSUME IInv, Finish PROVE IInv' OBVIOUS
<1>1. Issued = Indices /\ Len(scheduled) = Len(block)
  BY EmptyHeap DEF Finish
<1>2. pc' = "done" BY <1>1 DEF Finish
<1>3. TypeOK' BY <1>2 DEF IInv, TypeOK, Finish, Indices
<1>4. OrderInv'
  BY DEF IInv, OrderInv, Finish, Tracked, DefinesReg, Defines, Dest, Src, Kind
<1>5. PhaseInv'
  BY <1>1, <1>2 DEF PhaseInv, Finish, Issued, Indices
<1>6. QED BY <1>2, <1>3, <1>4, <1>5 DEF IInv

\* The invariant speaks of the scheduler's variables alone.
LEMMA StutterInv == IInv /\ UNCHANGED vars => IInv'
<1> SUFFICES ASSUME IInv, UNCHANGED vars PROVE IInv' OBVIOUS
<1> USE DEF vars
<1>1. TypeOK' BY DEF IInv, TypeOK, Indices
<1>2. PhaseInv' BY DEF IInv, PhaseInv, Issued, Indices
<1>3. OrderInv'
  BY DEF IInv, OrderInv, Tracked, DefinesReg, Defines, Dest, Src, Kind
<1>4. ASSUME pc \in {"build", "issue"} PROVE TablesInv' /\ EdgesInv' /\ HeapInv'
  <2>1. TablesInv /\ EdgesInv /\ HeapInv BY <1>4 DEF IInv
  <2>2. TablesInv'
    BY <2>1 DEF TablesInv, ClosestDef, DefinesReg, Defines, Dest, Src, Kind
  <2>3. EdgesInv'
    <3>1. edges' = edges /\ idx' = idx /\ block' = block OBVIOUS
    <3> HIDE DEF vars
    <3>2. QED
      BY <2>1, <3>1
      DEF EdgesInv, EdgesComplete, Tracked, ClosestDef, DefinesReg, Defines,
          Dest, Src, Kind
  <2>4. HeapInv' BY <2>1 DEF HeapInv, Issued, Indices
  <2>5. QED BY <2>2, <2>3, <2>4
<1>5. QED BY <1>1, <1>2, <1>3, <1>4 DEF IInv

-----------------------------------------------------------------------------
(* The theorems. *)

\* The invariant holds for every set of blocks that control instructions end.
THEOREM Invariance ==
  ASSUME ControlEndsBlocks
  PROVE  Spec => []IInv
<1>1. Init => IInv BY InitInv
<1>2. IInv /\ [Next]_vars => IInv'
  BY ReturnShortInv, AddToGraphInv, IssueInv, FinishInv, StutterInv DEF Next
<1>3. QED BY <1>1, <1>2, PTL DEF Spec

\* Type correctness of the scheduler's tables, counters and heap.
THEOREM TypeCorrect ==
  ASSUME ControlEndsBlocks
  PROVE  Spec => []TypeOK
<1>1. IInv => TypeOK BY DEF IInv
<1>2. QED BY <1>1, Invariance, PTL

\* The heap never runs dry while an instruction is left: the first unissued
\* instruction is always ready, and the ValueError is never raised.
THEOREM HeapNeverRunsDry ==
  ASSUME ControlEndsBlocks
  PROVE  Spec => []NeverStuck
<1>1. IInv => NeverStuck
  <2>1. SUFFICES ASSUME IInv, pc = "issue", NEW i \in Indices \ Issued,
                        \A j \in 1 .. i - 1 : j \in Issued
                 PROVE  i \in ready
    BY DEF IInv, NeverStuck
  <2>2. QED BY <2>1, FirstUnissuedIsReady
<1>2. QED BY <1>1, Invariance, PTL

\* A store or a control instruction is issued only when everything written
\* before it is issued.
THEOREM BarriersHold ==
  ASSUME ControlEndsBlocks
  PROVE  Spec => NothingSinksBelowABarrier
<1> DEFINE Step == \A i \in Indices :
      pc = "issue" /\ i \in Issued' \ Issued /\ Kind(i) \in {"STORE", "CONTROL"}
        => \A j \in 1 .. i - 1 : j \in Issued
<1>1. ASSUME IInv, Next PROVE Step
  <2>1. SUFFICES ASSUME NEW i \in Indices, pc = "issue", i \in Issued' \ Issued,
                        Kind(i) \in {"STORE", "CONTROL"}
                 PROVE  \A j \in 1 .. i - 1 : j \in Issued
    OBVIOUS
  <2>2. CASE ReturnShort BY <2>1, <2>2 DEF ReturnShort
  <2>3. CASE AddToGraph BY <2>1, <2>3 DEF AddToGraph
  <2>4. CASE Finish BY <2>1, <2>4 DEF Finish, Issued
  <2>5. ASSUME NEW best \in ready, Issue(best)
        PROVE  \A j \in 1 .. i - 1 : j \in Issued
    <3>1. scheduled \in Seq(Indices) /\ ready \subseteq Indices
      BY <1>1 DEF IInv, TypeOK
    <3>2. scheduled' = Append(scheduled, best) BY <2>5 DEF Issue
    <3>3. Issued' = Issued \cup {best} BY <3>1, <3>2 DEF Issued
    <3>4. i = best BY <2>1, <3>3
    <3>5. QED BY <1>1, <2>1, <2>5, <3>4, BarrierWaits
  <2>6. QED BY <1>1, <2>2, <2>3, <2>4, <2>5 DEF Next
<1>2. ASSUME IInv, [Next]_vars PROVE [Step]_vars
  BY <1>1, <1>2
<1>3. QED BY <1>2, Invariance, PTL DEF Spec, NothingSinksBelowABarrier

-----------------------------------------------------------------------------
(* Unguarded single-width code: every conflict is tracked. *)

\* The places an unguarded single-width instruction touches.
LEMMA PlainPlaces ==
  ASSUME NEW a \in Instruction, ~a.wide, a.predicate = NoPredicate,
         InstKind(a) # "CONTROL"
  PROVE  /\ \A w \in Writes(a) :
              \/ HasDest(a) /\ w = <<"pred", a.dest>>
              \/ HasDest(a) /\ w = <<"gpr", a.dest>>
              \/ InstKind(a) = "STORE" /\ w = <<"mem", 0>>
         /\ \A r \in Reads(a) :
              \/ \E s \in SourceRegs(a) : r = <<"gpr", s>>
              \/ InstKind(a) \in {"LOAD", "STORE"} /\ r = <<"mem", 0>>
              \/ r = <<"pc", 0>>
<1>1. InstKind(a) \in {"LOAD", "STORE", "COMPUTE"} BY InstructionFacts
<1>2. HasDest(a) <=> InstKind(a) # "STORE" BY <1>1, InstructionFacts
<1>3. InstKind(a) = "STORE" <=> a.opcode = "ST"
  BY DEF InstKind
<1>4. CASE a.opcode = "CMPP"
  <2>1. Writes(a) = {<<"pred", a.dest>>} BY <1>4 DEF Writes
  <2>2. QED BY <1>2, <1>3, <1>4, <2>1 DEF Reads
<1>5. CASE a.opcode = "ST"
  <2>1. Writes(a) = {<<"mem", 0>>} BY <1>5 DEF Writes
  <2>2. QED BY <1>2, <1>3, <1>5, <2>1 DEF Reads
<1>6. CASE a.opcode # "CMPP" /\ a.opcode # "ST"
  <2>1. Writes(a) = {<<"gpr", a.dest>>} BY <1>6 DEF Writes
  <2>2. QED BY <1>2, <1>3, <1>6, <2>1 DEF Reads
<1>7. QED BY <1>4, <1>5, <1>6

\* In plain code the scheduler's notion of dependence covers every conflict.
LEMMA ConflictsAreTracked ==
  ASSUME ControlEndsBlocks, PlainInstructions, block \in Blocks,
         NEW i \in Indices, NEW j \in 1 .. i - 1, Conflict(block[j], block[i])
  PROVE  Tracked(j, i)
<1>1. /\ Len(block) \in Nat /\ Indices = 1 .. Len(block) /\ i \in Nat
      /\ j \in Indices /\ j < i
  BY BlockFacts DEF Indices
<1>2. /\ block[i] \in Instruction /\ block[j] \in Instruction
      /\ ~block[i].wide /\ ~block[j].wide
  BY <1>1, BlockFacts DEF PlainInstructions, Indices
<1>3. Kind(j) # "CONTROL" /\ block[j].predicate = NoPredicate
  BY <1>1 DEF ControlEndsBlocks, PlainInstructions, Kind
<1>4. SUFFICES ASSUME Kind(i) \notin {"STORE", "CONTROL"} PROVE Tracked(j, i)
  BY DEF Tracked
<1>5. block[i].predicate = NoPredicate
  BY <1>1, <1>4 DEF PlainInstructions, Kind
<1>6. /\ Writes(block[j]) \cap (Reads(block[i]) \cup Writes(block[i])) = {}
        => \E w \in Writes(block[i]) : w \in Reads(block[j])
  BY DEF Conflict
<1>7. Kind(i) # "STORE" /\ Kind(i) # "CONTROL" BY <1>4
<1>8. PICK w : \/ w \in Writes(block[j]) /\ w \in Reads(block[i])
               \/ w \in Writes(block[j]) /\ w \in Writes(block[i])
               \/ w \in Reads(block[j]) /\ w \in Writes(block[i])
  BY <1>6
<1>9. w \in Writes(block[j]) =>
        \/ Defines(j) /\ w = <<"pred", Dest(j)>>
        \/ Defines(j) /\ w = <<"gpr", Dest(j)>>
        \/ Kind(j) = "STORE" /\ w = <<"mem", 0>>
  BY <1>2, <1>3, PlainPlaces DEF Kind, Dest, Defines
<1>10. w \in Writes(block[i]) =>
        \/ Defines(i) /\ w = <<"pred", Dest(i)>>
        \/ Defines(i) /\ w = <<"gpr", Dest(i)>>
  BY <1>2, <1>5, <1>7, PlainPlaces DEF Kind, Dest, Defines
<1>11. w \in Reads(block[j]) =>
        \/ \E s \in Src(j) : w = <<"gpr", s>>
        \/ w = <<"mem", 0>>
        \/ w = <<"pc", 0>>
  BY <1>2, <1>3, PlainPlaces DEF Kind, Src
<1>12. w \in Reads(block[i]) =>
        \/ \E s \in Src(i) : w = <<"gpr", s>>
        \/ Kind(i) \in {"LOAD", "STORE"} /\ w = <<"mem", 0>>
        \/ w = <<"pc", 0>>
  BY <1>2, <1>5, <1>7, PlainPlaces DEF Kind, Src
<1>13. CASE w \in Writes(block[j]) /\ w \in Reads(block[i])
  BY <1>7, <1>9, <1>12, <1>13 DEF Tracked, DefinesReg
<1>14. CASE w \in Writes(block[j]) /\ w \in Writes(block[i])
  BY <1>9, <1>10, <1>14 DEF Tracked, DefinesReg
<1>15. CASE w \in Reads(block[j]) /\ w \in Writes(block[i])
  BY <1>10, <1>11, <1>15 DEF Tracked, DefinesReg
<1>16. QED BY <1>8, <1>13, <1>14, <1>15

\* What is issued never runs ahead of an instruction it conflicts with.
THEOREM ConflictsStayInOrder ==
  ASSUME ControlEndsBlocks, PlainInstructions
  PROVE  Spec => []IssuedInOrder
<1>1. IInv => IssuedInOrder
  <2>1. SUFFICES ASSUME IInv, NEW i \in Indices, NEW j \in 1 .. i - 1,
                        i \in Issued, Conflict(block[j], block[i])
                 PROVE  j \in Issued
    BY DEF IssuedInOrder
  <2>2. TypeOK /\ OrderInv BY <2>1 DEF IInv
  <2>3. Tracked(j, i) BY <2>1, <2>2, ConflictsAreTracked DEF TypeOK
  <2>4. PICK p \in 1 .. Len(scheduled) : scheduled[p] = i
    BY <2>1 DEF Issued
  <2>5. PICK l \in 1 .. p - 1 : scheduled[l] = j
    BY <2>2, <2>3, <2>4 DEF OrderInv
  <2>6. l \in 1 .. Len(scheduled) BY <2>2, <2>4, <2>5 DEF TypeOK
  <2>7. QED BY <2>5, <2>6 DEF Issued
<1>2. QED BY <1>1, Invariance, PTL

\* BlockReorder's Conflict is AECInstr's.
LEMMA PromiseConflict == \A a, b : Promise!Conflict(a, b) <=> Conflict(a, b)
BY DEF Promise!Conflict, Promise!Writes, Promise!Reads, Promise!InstKind,
       Promise!SourceRegs, Promise!Gpr, Promise!NoPredicate,
       Conflict, Writes, Reads, InstKind, SourceRegs, Gpr, NoPredicate

\* A finished order is a permutation of the block that keeps every conflict.
LEMMA FinishedOrderIsLegal ==
  ASSUME ControlEndsBlocks, PlainInstructions, TypeOK, OrderInv,
         Issued = Indices, Len(scheduled) = Len(block)
  PROVE  /\ Promise!IsPermutation(scheduled, Len(block))
         /\ Promise!KeepsConflicts(block, scheduled)
<1>1. /\ block \in Blocks /\ Len(block) \in Nat /\ Indices = 1 .. Len(block)
      /\ scheduled \in [1 .. Len(block) -> 1 .. Len(block)]
  BY BlockFacts DEF TypeOK, Indices
<1>2. Promise!IsPermutation(scheduled, Len(block))
  BY <1>1 DEF OrderInv, Promise!IsPermutation
<1>3. ASSUME NEW k \in 1 .. Len(block), NEW l \in 1 .. Len(block), k < l,
             Conflict(block[scheduled[k]], block[scheduled[l]])
      PROVE  scheduled[k] < scheduled[l]
  <2>1. scheduled[k] \in Indices /\ scheduled[l] \in Indices BY <1>1
  <2>2. scheduled[k] # scheduled[l] BY <1>1, <1>3 DEF OrderInv
  <2>3. SUFFICES ASSUME scheduled[l] < scheduled[k] PROVE FALSE
    BY <1>1, <2>1, <2>2
  <2>4. Conflict(block[scheduled[l]], block[scheduled[k]])
    BY <1>3 DEF Conflict
  <2>5. scheduled[l] \in 1 .. scheduled[k] - 1 BY <1>1, <2>1, <2>3
  <2>6. Tracked(scheduled[l], scheduled[k])
    BY <1>1, <2>1, <2>4, <2>5, ConflictsAreTracked
  <2>7. PICK m \in 1 .. k - 1 : scheduled[m] = scheduled[l]
    BY <1>1, <2>5, <2>6 DEF OrderInv
  <2>8. QED BY <1>1, <1>3, <2>7 DEF OrderInv
<1>4. \A a, b : Promise!Conflict(a, b) <=> Conflict(a, b)
  BY PromiseConflict
<1>5. QED BY <1>2, <1>3, <1>4 DEF Promise!KeepsConflicts

\* Unguarded single-width code: the list scheduler implements BlockReorder.
THEOREM Refinement ==
  ASSUME ControlEndsBlocks, PlainInstructions
  PROVE  Spec => ImplementsReorder
<1>1. Init => Promise!Init
  BY DEF Init, Promise!Init
<1>2. ASSUME IInv, [Next]_vars
      PROVE  [Promise!Reorder]_<<block, IF pc = "done" THEN scheduled ELSE << >> >>
  <2>1. CASE UNCHANGED vars BY <2>1 DEF vars
  <2>2. CASE AddToGraph BY <2>2 DEF AddToGraph
  <2>3. ASSUME NEW best \in ready, Issue(best)
        PROVE  UNCHANGED <<block, IF pc = "done" THEN scheduled ELSE << >> >>
    BY <2>3 DEF Issue
  <2>4. CASE ReturnShort
    <3>1. /\ pc = "build" /\ pc' = "done" /\ block' = block
          /\ Len(block) \in Nat /\ scheduled' = [i \in 1 .. Len(block) |-> i]
      BY <1>2, <2>4, BlockFacts DEF ReturnShort, IInv, TypeOK, Indices
    <3>2. /\ Promise!IsPermutation(scheduled', Len(block))
          /\ Promise!KeepsConflicts(block, scheduled')
      BY <3>1 DEF Promise!IsPermutation, Promise!KeepsConflicts
    <3>3. QED BY <3>1, <3>2 DEF Promise!Reorder
  <2>5. CASE Finish
    <3>1. Issued = Indices /\ Len(scheduled) = Len(block)
      BY <1>2, <2>5, EmptyHeap DEF Finish
    <3>2. /\ Promise!IsPermutation(scheduled, Len(block))
          /\ Promise!KeepsConflicts(block, scheduled)
      BY <1>2, <3>1, FinishedOrderIsLegal DEF IInv
    <3>3. pc = "issue" /\ pc' = "done" /\ block' = block /\ scheduled' = scheduled
      BY <2>5, <3>1 DEF Finish
    <3>4. QED BY <3>2, <3>3 DEF Promise!Reorder
  <2>6. QED BY <1>2, <2>1, <2>2, <2>3, <2>4, <2>5 DEF Next
<1>3. QED BY <1>1, <1>2, Invariance, PTL DEF Spec, ImplementsReorder, Promise!Spec

-----------------------------------------------------------------------------
(* What the finished order computes. *)

\* A finished call: the order holds every instruction exactly once and follows
\* every tracked dependence.
Finished == TypeOK /\ OrderInv /\ Issued = Indices

\* Of two instructions that conflict, the first stays in front.
LEMMA ConflictsKeepTheirOrder ==
  ASSUME ControlEndsBlocks, PlainInstructions, Finished,
         NEW k \in 1 .. Len(scheduled), NEW l \in 1 .. Len(scheduled),
         scheduled[k] < scheduled[l],
         Conflict(block[scheduled[k]], block[scheduled[l]])
  PROVE  k < l
<1>1. /\ block \in Blocks /\ Len(block) \in Nat /\ Indices = 1 .. Len(block)
      /\ Len(scheduled) \in Nat /\ scheduled \in [1 .. Len(scheduled) -> Indices]
  BY BlockFacts DEF TypeOK, Indices, Finished
<1>2. scheduled[l] \in Indices /\ scheduled[k] \in 1 .. scheduled[l] - 1
  BY <1>1
<1>3. Tracked(scheduled[k], scheduled[l])
  BY <1>1, <1>2, ConflictsAreTracked
<1>4. PICK m \in 1 .. l - 1 : scheduled[m] = scheduled[k]
  BY <1>2, <1>3 DEF OrderInv, Finished
<1>5. m \in 1 .. Len(scheduled) /\ m = k
  BY <1>1, <1>4 DEF OrderInv, Finished
<1>6. QED BY <1>1, <1>4, <1>5

\* The last of a set of instructions that write one place is the last in the
\* order too.
LEMMA LastWriterStaysLast ==
  ASSUME ControlEndsBlocks, PlainInstructions, Finished,
         NEW place, NEW E \in SUBSET Indices,
         \A j \in E : place \in Writes(block[j]),
         NEW P, P = {k \in 1 .. Len(scheduled) : scheduled[k] \in E}
  PROVE  /\ E = {} <=> P = {}
         /\ E # {} => scheduled[Latest(P)] = Latest(E)
<1>1. /\ block \in Blocks /\ Len(block) \in Nat /\ Indices = 1 .. Len(block)
      /\ Len(scheduled) \in Nat /\ scheduled \in [1 .. Len(scheduled) -> Indices]
  BY BlockFacts DEF TypeOK, Indices, Finished
<1>2. \A j \in E : \E k \in P : scheduled[k] = j
  BY DEF Finished, Issued
<1>3. E = {} <=> P = {}
  BY <1>2
<1>4. ASSUME E # {}
      PROVE  scheduled[Latest(P)] = Latest(E)
  <2>1. E \in SUBSET (0 .. Len(block))
    BY <1>1
  <2>2. PICK m \in E : \A j \in E : j <= m
    BY <1>1, <1>4, <2>1, GreatestElement
  <2>3. Latest(E) = m
    <3>1. \A i \in E : (\A j \in E : j <= i) => i = m
      BY <1>1, <2>2
    <3>2. QED BY <2>2, <3>1 DEF Latest
  <2>4. PICK k \in P : scheduled[k] = m
    BY <1>2
  <2>5. ASSUME NEW l \in P PROVE l <= k
    <3>1. scheduled[l] \in E /\ scheduled[l] <= m /\ l \in 1 .. Len(scheduled) /\ k \in 1 .. Len(scheduled)
      BY <2>2
    <3>2. CASE scheduled[l] = m
      BY <1>1, <2>4, <3>1, <3>2 DEF Finished, OrderInv
    <3>3. CASE scheduled[l] # m
      <4>1. scheduled[l] < scheduled[k]
        BY <1>1, <2>4, <3>1, <3>3
      <4>2. Conflict(block[scheduled[l]], block[scheduled[k]])
        BY <2>4, <3>1 DEF Conflict
      <4>3. l < k
        BY <3>1, <4>1, <4>2, ConflictsKeepTheirOrder
      <4>4. QED BY <1>1, <3>1, <4>3
    <3>4. QED BY <3>2, <3>3
  <2>6. Latest(P) = k
    <3>1. \A n \in P : (\A l \in P : l <= n) => n = k
      BY <1>1, <2>5
    <3>2. QED BY <2>5, <3>1 DEF Latest
  <2>7. QED BY <2>3, <2>4, <2>6
<1>5. QED BY <1>3, <1>4

\* Unguarded single-width code: each instruction reads every place from the
\* writer it read it from before, and each place keeps its last writer.
THEOREM TheOrderComputesTheSame ==
  ASSUME ControlEndsBlocks, PlainInstructions
  PROVE  Spec => []ComputesTheSame
<1> DEFINE written == [i \in Indices |-> i]
<1>1. ASSUME IInv, pc = "done" PROVE Finished
  BY <1>1 DEF IInv, PhaseInv, Finished
<1>2. ASSUME IInv PROVE Len(block) \in Nat /\ Indices = 1 .. Len(block) /\ Len(written) = Len(block)
  <2>1. Len(block) \in Nat /\ Indices = 1 .. Len(block)
    BY <1>2, BlockFacts DEF IInv, TypeOK, Indices
  <2>2. written \in Seq(Indices)
    BY <2>1
  <2>3. QED BY <2>1, <2>2
<1>3. ASSUME IInv, pc = "done", NEW i \in Indices, NEW place \in Reads(block[i])
      PROVE  WriterSeenBy(scheduled, i, place) = WriterSeenBy(written, i, place)
  <2> DEFINE E == {j \in 1 .. i - 1 : place \in Writes(block[j])}
             P == {k \in 1 .. Len(scheduled) : scheduled[k] \in E}
  <2>1. /\ Finished /\ Len(block) \in Nat /\ Indices = 1 .. Len(block) /\ i \in 1 .. Len(block)
        /\ Len(scheduled) \in Nat /\ scheduled \in [1 .. Len(scheduled) -> Indices]
    BY <1>1, <1>2, <1>3 DEF Finished, TypeOK
  <2>2. PICK p \in 1 .. Len(scheduled) : scheduled[p] = i
    BY <2>1 DEF Finished, Issued
  <2>3. Position(scheduled, i) = p
    <3>1. \A k \in 1 .. Len(scheduled) : scheduled[k] = i => k = p
      BY <2>1, <2>2 DEF Finished, OrderInv
    <3>2. QED BY <2>2, <3>1 DEF Position
  <2>4. Position(written, i) = i
    BY <1>2, <1>3, <2>1 DEF Position
  <2>5. {k \in 1 .. Position(written, i) - 1 : place \in Writes(block[written[k]])} = E
    BY <2>1, <2>4
  <2>6. {k \in 1 .. Position(scheduled, i) - 1 : place \in Writes(block[scheduled[k]])} = P
    <3>1. ASSUME NEW k \in 1 .. p - 1, place \in Writes(block[scheduled[k]]) PROVE k \in P
      <4>1. k \in 1 .. Len(scheduled) /\ scheduled[k] \in 1 .. Len(block) /\ scheduled[k] # i
        BY <2>1, <2>2 DEF Finished, OrderInv
      <4>2. Conflict(block[i], block[scheduled[k]])
        BY <1>3, <3>1 DEF Conflict
      <4>3. ~(i < scheduled[k])
        <5>1. SUFFICES ASSUME i < scheduled[k] PROVE FALSE
          OBVIOUS
        <5>2. p < k
          BY <2>1, <2>2, <4>1, <4>2, <5>1, ConflictsKeepTheirOrder
        <5>3. QED BY <2>1, <2>2, <5>2
      <4>4. QED BY <2>1, <3>1, <4>1, <4>3
    <3>2. ASSUME NEW k \in P PROVE k \in 1 .. p - 1 /\ place \in Writes(block[scheduled[k]])
      <4>1. k \in 1 .. Len(scheduled) /\ scheduled[k] \in 1 .. i - 1 /\ place \in Writes(block[scheduled[k]])
        OBVIOUS
      <4>2. Conflict(block[scheduled[k]], block[i])
        BY <1>3, <4>1 DEF Conflict
      <4>3. scheduled[k] < scheduled[p]
        BY <2>1, <2>2, <4>1
      <4>4. k < p
        BY <2>1, <2>2, <4>1, <4>2, <4>3, ConflictsKeepTheirOrder
      <4>5. QED BY <2>1, <4>1, <4>4
    <3>3. QED BY <2>3, <3>1, <3>2
  <2>7. /\ E = {} <=> P = {}
        /\ E # {} => scheduled[Latest(P)] = Latest(E)
    <3>1. E \in SUBSET Indices /\ \A j \in E : place \in Writes(block[j])
      BY <2>1
    <3>2. QED BY <2>1, <3>1, LastWriterStaysLast, ZenonT(40)
  <2>8. E # {} => written[Latest(E)] = Latest(E)
    <3>1. ASSUME E # {} PROVE Latest(E) \in Indices
      <4>1. E \in SUBSET (0 .. Len(block)) /\ E \subseteq Indices
        BY <2>1
      <4>2. \E k \in E : \A l \in E : l <= k
        BY <2>1, <3>1, <4>1, GreatestElement
      <4>3. QED BY <4>1, <4>2 DEF Latest
    <3>2. QED BY <3>1
  <2>9. WriterSeenBy(scheduled, i, place)
          = IF P = {} THEN 0 ELSE scheduled[Latest(P)]
    BY <2>6 DEF WriterSeenBy
  <2>10. WriterSeenBy(written, i, place)
          = IF E = {} THEN 0 ELSE written[Latest(E)]
    <3> HIDE DEF written, E
    <3>1. QED BY <2>5 DEF WriterSeenBy
  <2>11. QED BY <2>7, <2>8, <2>9, <2>10
<1>4. ASSUME IInv, pc = "done", NEW place
      PROVE  FinalWriter(scheduled, place) = FinalWriter(written, place)
  <2> DEFINE E == {j \in Indices : place \in Writes(block[j])}
             P == {k \in 1 .. Len(scheduled) : scheduled[k] \in E}
  <2>1. /\ Finished /\ Len(block) \in Nat /\ Indices = 1 .. Len(block)
        /\ Len(scheduled) \in Nat /\ scheduled \in [1 .. Len(scheduled) -> Indices]
    BY <1>1, <1>2, <1>4 DEF Finished, TypeOK
  <2>2. {k \in 1 .. Len(written) : place \in Writes(block[written[k]])} = E
    BY <1>2, <1>4, <2>1
  <2>3. {k \in 1 .. Len(scheduled) : place \in Writes(block[scheduled[k]])} = P
    BY <2>1
  <2>4. /\ E = {} <=> P = {}
        /\ E # {} => scheduled[Latest(P)] = Latest(E)
    <3>1. E \in SUBSET Indices /\ \A j \in E : place \in Writes(block[j])
      OBVIOUS
    <3>2. QED BY <2>1, <3>1, LastWriterStaysLast
  <2>5. E # {} => written[Latest(E)] = Latest(E)
    <3>1. ASSUME E # {} PROVE Latest(E) \in Indices
      <4>1. E \in SUBSET (0 .. Len(block)) /\ E \subseteq Indices
        BY <2>1
      <4>2. \E k \in E : \A l \in E : l <= k
        BY <2>1, <3>1, <4>1, GreatestElement
      <4>3. QED BY <4>1, <4>2 DEF Latest
    <3>2. QED BY <3>1
  <2>6. FinalWriter(scheduled, place)
          = IF P = {} THEN 0 ELSE scheduled[Latest(P)]
    BY <2>3 DEF FinalWriter
  <2>7. FinalWriter(written, place)
          = IF E = {} THEN 0 ELSE written[Latest(E)]
    <3> HIDE DEF written, E
    <3>1. QED BY <2>2 DEF FinalWriter
  <2>8. QED BY <2>4, <2>5, <2>6, <2>7
<1>5. IInv => ComputesTheSame
  <2>1. SUFFICES ASSUME IInv, pc = "done"
                 PROVE  /\ \A i \in Indices : \A place \in Reads(block[i]) :
                             WriterSeenBy(scheduled, i, place) = WriterSeenBy(written, i, place)
                        /\ \A place \in UNION {Writes(block[i]) : i \in Indices} :
                             FinalWriter(scheduled, place) = FinalWriter(written, place)
    BY DEF ComputesTheSame
  <2> HIDE DEF written
  <2>2. QED BY <1>3, <1>4, <2>1
<1>6. QED BY <1>5, Invariance, PTL

(* Second part: schedule_lowered. *)

-----------------------------------------------------------------------------
(* The inductive invariant. *)

\* The variables of the outer loop in each stage.
OuterType ==
  /\ original \in Programs
  /\ instructions \in Seq(Instruction) /\ Len(instructions) = Len(original)
  /\ stage \in {"leaders", "pick", "schedule", "return"}
  /\ leaders \in {{}, Leaders(original)}
  /\ leaders # {} => Len(original) > 2
  /\ stage = "leaders" => instructions = original /\ leaders = {} /\ start = 1
  /\ stage \in {"pick", "schedule"} => leaders = Leaders(original)
  /\ start \in leaders \cup {1, Len(original) + 1}

\* What lies ahead is not rewritten yet.
AheadInv == \A i \in start .. Len(original) : instructions[i] = original[i]

\* The call runs on the block that starts at start.
CallInv ==
  stage = "schedule" =>
    /\ start \in leaders
    /\ block = SubSeq(original, start, End(start) - 1)
    /\ block \in Blocks
    /\ IInv

\* Control instructions stand where they stood.
FixedInv ==
  \A i \in Positions :
    (InstKind(original[i]) = "CONTROL" \/ InstKind(instructions[i]) = "CONTROL")
      => instructions[i] = original[i]

\* Each block has, at every moment, as many of each instruction as it had.
KeptInv ==
  \A s \in leaders : \A i \in s .. End(s) - 1 :
    Count(instructions, s, End(s) - 1, original[i])
      = Count(original, s, End(s) - 1, original[i])

OuterInv == OuterType /\ AheadInv /\ CallInv /\ FixedInv /\ KeptInv

-----------------------------------------------------------------------------
(* Leaders and the blocks between them. *)

\* Leaders are positions of the program, and the first one is a leader.
LEMMA LeadersFacts ==
  ASSUME NEW prog \in Seq(Instruction), Len(prog) > 0
  PROVE  Leaders(prog) \subseteq 1 .. Len(prog) /\ 1 \in Leaders(prog)
<1>1. Len(prog) \in Nat OBVIOUS
<1>2. \A i \in 1 .. Len(prog) : prog[i].imm \in Nat
  <2>1. \A i \in 1 .. Len(prog) : prog[i] \in Instruction OBVIOUS
  <2>2. \A inst \in Instruction : inst.imm \in Nat BY DEF Instruction
  <2>3. QED BY <2>1, <2>2
<1>3. QED BY <1>1, <1>2 DEF Leaders

\* A block ends in front of the next leader, or with the program.
LEMMA BlockEndFacts ==
  ASSUME NEW prog, Len(prog) \in Nat, NEW firsts \in SUBSET (1 .. Len(prog)),
         NEW s \in firsts
  PROVE  /\ BlockEnd(prog, firsts, s) \in s + 1 .. Len(prog) + 1
         /\ BlockEnd(prog, firsts, s) \in firsts \cup {Len(prog) + 1}
         /\ \A m \in firsts : m > s => BlockEnd(prog, firsts, s) <= m
<1> DEFINE later == {l \in firsts : l > s}
           n == Len(prog)
<1>a. n \in Nat /\ firsts \in SUBSET (1 .. n) /\ s \in 1 .. n OBVIOUS
<1>b. \A l \in later : l \in firsts /\ l \in 1 .. n /\ l > s BY <1>a
<1>1. CASE later = {}
  <2>1. BlockEnd(prog, firsts, s) = Len(prog) + 1 BY <1>1 DEF BlockEnd
  <2>2. \A m \in firsts : ~(m > s) BY <1>1
  <2> HIDE DEF later
  <2>3. QED BY <1>a, <2>1, <2>2
<1>2. CASE later # {}
  <2>1. later \in SUBSET Nat
    <3>1. \A l \in later : l \in 1 .. n BY <1>b
    <3>2. \A l \in 1 .. n : l \in Nat BY <1>a
    <3> HIDE DEF later, n
    <3>3. QED BY <3>1, <3>2
  <2>2. \E l \in later : \A m \in later : l <= m BY <1>2, <2>1, LeastElement
  <2>3. BlockEnd(prog, firsts, s) = CHOOSE l \in later : \A m \in later : l <= m
    BY <1>2 DEF BlockEnd
  <2>4. /\ BlockEnd(prog, firsts, s) \in later
        /\ \A m \in later : BlockEnd(prog, firsts, s) <= m
    BY <2>2, <2>3
  <2>5. \A m \in firsts : m > s => m \in later OBVIOUS
  <2> HIDE DEF later
  <2>6. QED BY <1>a, <1>b, <2>4, <2>5
<1>3. QED BY <1>1, <1>2

\* An instruction that is no branch and no HALT counts as control only if it
\* is a CALL or a RET, and those are not emitted.
LEMMA ControlOpcodes ==
  ASSUME NEW p \in Programs, NEW i \in 1 .. Len(p)
  PROVE  InstKind(p[i]) = "CONTROL" <=> p[i].opcode \in {"BR", "BRX", "HALT"}
<1>1. p[i].opcode \notin {"CALL", "RET"} BY ProgramsAssumption
<1>2. QED BY <1>1 DEF InstKind

\* schedule_lowered cuts only blocks that end with their control instruction:
\* the hypothesis of the theorems about _schedule_block.
THEOREM ControlEndsCutBlocks == ControlEndsBlocks
<1> SUFFICES ASSUME NEW b \in Blocks, NEW i \in 1 .. Len(b),
                    InstKind(b[i]) = "CONTROL", i # Len(b)
             PROVE  FALSE
  BY DEF ControlEndsBlocks
<1>1. PICK p \in Programs : b \in CutBlocks(p) BY CutBlocksAssumption
<1> DEFINE firsts == Leaders(p)
<1>2. PICK s \in firsts : b = SubSeq(p, s, BlockEnd(p, firsts, s) - 1)
  BY <1>1 DEF CutBlocks
<1> DEFINE e == BlockEnd(p, firsts, s)
<1>3. p \in Seq(Instruction) /\ Len(p) \in Nat BY ProgramsAssumption
<1>4. CASE Len(p) = 0
  <2>1. firsts \subseteq {1}
    <3>1. 1 .. Len(p) = {} /\ 1 .. Len(p) - 1 = {} BY <1>4
    <3>2. QED BY <3>1 DEF Leaders
  <2>2. s = 1 /\ {l \in firsts : l > s} = {} BY <1>2, <2>1
  <2>3. e = 1 BY <2>2, <1>4 DEF BlockEnd
  <2>4. b = SubSeq(p, 1, 0) BY <1>2, <2>2, <2>3
  <2>5. b = << >> BY <2>4, SubSeqEmpty
  <2>6. QED BY <2>5
<1>5. CASE Len(p) > 0
  <2>1. firsts \subseteq 1 .. Len(p) BY <1>3, <1>5, LeadersFacts
  <2>2. /\ s \in Nat /\ 1 <= s /\ e \in s + 1 .. Len(p) + 1
        /\ \A m \in firsts : m > s => e <= m
    BY <1>2, <1>3, <2>1, BlockEndFacts
  <2>3. \A k \in s .. e - 1 : p[k] \in Instruction BY <1>3, <2>2
  <2>4. Len(b) = e - s /\ \A k \in 1 .. e - s : b[k] = p[s + k - 1]
    <3> DEFINE n == e - 1
    <3>1. s \in Int /\ n \in Int /\ s <= n BY <2>2
    <3>2. \A k \in s .. n : p[k] \in Instruction BY <2>3
    <3> HIDE DEF n
    <3>3. /\ Len(SubSeq(p, s, n)) = n - s + 1
          /\ \A k \in 1 .. n - s + 1 : SubSeq(p, s, n)[k] = p[s + k - 1]
      BY <3>1, <3>2, SubSeqProperties
    <3>4. b = SubSeq(p, s, n) /\ n - s + 1 = e - s BY <1>2, <2>2 DEF n
    <3>5. QED BY <3>3, <3>4
  <2> DEFINE j == s + i - 1
  <2>5. j \in 1 .. Len(p) - 1 /\ j + 1 < e /\ j + 1 > s /\ b[i] = p[j]
    BY <2>2, <2>4
  <2>6. p[j].opcode \in {"BR", "BRX", "HALT"} BY <2>5, ControlOpcodes
  <2>7. j + 1 \in firsts BY <2>5, <2>6 DEF Leaders
  <2> HIDE DEF j
  <2>8. QED BY <2>2, <2>5, <2>7
<1>6. QED BY <1>3, <1>4, <1>5

-----------------------------------------------------------------------------
(* What the variables of the outer loop mean. *)

\* Leaders and block ends are positions, and blocks do not overlap.
LEMMA OuterFacts ==
  ASSUME OuterType
  PROVE  /\ original \in Seq(Instruction) /\ Len(original) \in Nat
         /\ Positions = 1 .. Len(original)
         /\ leaders \in SUBSET (1 .. Len(original))
         /\ leaders # {} => 1 \in leaders
         /\ \A s \in leaders :
              /\ End(s) \in s + 1 .. Len(original) + 1
              /\ End(s) \in leaders \cup {Len(original) + 1}
              /\ \A m \in leaders : m > s => End(s) <= m
<1>1. original \in Seq(Instruction) BY ProgramsAssumption DEF OuterType
<1>2. Len(original) \in Nat BY <1>1
<1>3. leaders \in SUBSET (1 .. Len(original)) /\ (leaders # {} => 1 \in leaders)
  <2>1. CASE leaders = {} BY <2>1
  <2>2. CASE leaders # {}
    <3>1. leaders = Leaders(original) /\ Len(original) > 0
      BY <1>2, <2>2 DEF OuterType
    <3>2. QED BY <1>1, <3>1, LeadersFacts
  <2>3. QED BY <2>1, <2>2
<1>4. ASSUME NEW s \in leaders
      PROVE  /\ End(s) \in s + 1 .. Len(original) + 1
             /\ End(s) \in leaders \cup {Len(original) + 1}
             /\ \A m \in leaders : m > s => End(s) <= m
  BY <1>2, <1>3, BlockEndFacts DEF End
<1>5. QED BY <1>1, <1>2, <1>3, <1>4 DEF Positions

\* Where no control instruction has moved, the leaders have not.
LEMMA LeadersStay ==
  ASSUME OuterType, FixedInv
  PROVE  Leaders(instructions) = Leaders(original)
<1>1. Len(instructions) = Len(original) /\ Positions = 1 .. Len(original)
      /\ Len(original) \in Nat
  BY OuterFacts DEF OuterType
<1>2. \A inst \in Instruction :
        inst.opcode \in {"BR", "BRX", "HALT"} => InstKind(inst) = "CONTROL"
  BY DEF InstKind
<1>3. \A j \in 1 .. Len(original) :
        original[j] \in Instruction /\ instructions[j] \in Instruction
  BY OuterFacts DEF OuterType
<1>4. \A j \in 1 .. Len(original) :
        \/ instructions[j].opcode \in {"BR", "BRX", "HALT"}
        \/ original[j].opcode \in {"BR", "BRX", "HALT"}
        => instructions[j] = original[j]
  BY <1>1, <1>2, <1>3 DEF FixedInv
<1> DEFINE Jumps(p) == {j \in 1 .. Len(p) : /\ p[j].opcode \in {"BR", "BRX"}
                                           /\ p[j].imm < Len(p)}
           Ends(p) == {j \in 1 .. Len(p) - 1 : p[j].opcode \in {"BR", "BRX", "HALT"}}
<1>5. Jumps(instructions) = Jumps(original) BY <1>1, <1>4
<1>6. \A j \in Jumps(original) : instructions[j].imm = original[j].imm
  BY <1>1, <1>4
<1>7. Ends(instructions) = Ends(original)
  <2>1. \A j \in 1 .. Len(original) - 1 : j \in 1 .. Len(original) BY <1>1
  <2>2. QED BY <1>1, <1>4, <2>1
<1>8. Leaders(instructions) = {1} \cup {instructions[j].imm + 1 : j \in Jumps(instructions)}
                                  \cup {j + 1 : j \in Ends(instructions)}
  BY DEF Leaders
<1>9. Leaders(original) = {1} \cup {original[j].imm + 1 : j \in Jumps(original)}
                              \cup {j + 1 : j \in Ends(original)}
  BY DEF Leaders
<1> HIDE DEF Jumps, Ends
<1>10. QED BY <1>5, <1>6, <1>7, <1>8, <1>9

\* The block given to the scheduler is one cut from the original program:
\* nothing from its start on has been rewritten.
LEMMA BlockIsCut ==
  ASSUME OuterType, AheadInv, stage = "pick", start <= Len(original)
  PROVE  /\ start \in leaders
         /\ SubSeq(instructions, start, End(start) - 1)
              = SubSeq(original, start, End(start) - 1)
         /\ SubSeq(original, start, End(start) - 1) \in Blocks
<1> DEFINE n == Len(original)
           e == End(start)
<1>1. n \in Nat /\ leaders = Leaders(original) /\ leaders \in SUBSET (1 .. n)
  BY OuterFacts DEF OuterType
<1>2. start \in leaders
  <2>1. 1 \in leaders BY <1>1, OuterFacts DEF Leaders
  <2>2. start \in leaders \cup {1, n + 1} BY DEF OuterType
  <2>3. start # n + 1
    <3>1. start \in Nat BY <1>1, <2>2
    <3>2. QED BY <1>1, <3>1
  <2>4. QED BY <2>1, <2>2, <2>3
<1>3. start \in Nat /\ 1 <= start /\ e \in start + 1 .. n + 1
  BY <1>1, <1>2, OuterFacts
<1>4. \A i \in start .. e - 1 : i \in 1 .. n /\ i \in start .. n
  BY <1>1, <1>3
<1>5. \A i \in 1 .. n : original[i] \in Instruction /\ instructions[i] \in Instruction
  BY OuterFacts DEF OuterType
<1>6. \A i \in start .. e - 1 : /\ original[i] \in Instruction
                                /\ instructions[i] = original[i]
  BY <1>4, <1>5 DEF AheadInv
<1>7. SubSeq(instructions, start, e - 1) = SubSeq(original, start, e - 1)
  <2> DEFINE m == e - 1
             a == SubSeq(instructions, start, m)
             b == SubSeq(original, start, m)
  <2>1. m \in Int /\ start \in Int /\ start <= m BY <1>1, <1>3
  <2>2. \A i \in start .. m : original[i] \in Instruction BY <1>6
  <2>3. \A i \in start .. m : instructions[i] \in Instruction BY <1>6
  <2>4. \A i \in start .. m : instructions[i] = original[i] BY <1>6
  <2> HIDE DEF m
  <2>5. /\ a \in Seq(Instruction) /\ Len(a) = m - start + 1
        /\ \A i \in 1 .. m - start + 1 : a[i] = instructions[start + i - 1]
    BY <2>1, <2>3, SubSeqProperties
  <2>6. /\ b \in Seq(Instruction) /\ Len(b) = m - start + 1
        /\ \A i \in 1 .. m - start + 1 : b[i] = original[start + i - 1]
    BY <2>1, <2>2, SubSeqProperties
  <2>7. \A i \in 1 .. m - start + 1 : start + i - 1 \in start .. m BY <2>1
  <2>8. \A i \in 1 .. Len(a) : a[i] = b[i] BY <2>4, <2>5, <2>6, <2>7
  <2> HIDE DEF a, b
  <2>9. a = b BY <2>5, <2>6, <2>8, SeqEqual
  <2>10. QED BY <2>9 DEF a, b, m
<1>8. SubSeq(original, start, e - 1) \in CutBlocks(original)
  BY <1>1, <1>2 DEF CutBlocks, End
<1>9. QED BY <1>2, <1>7, <1>8, CutBlocksAssumption DEF OuterType

-----------------------------------------------------------------------------
(* What the scheduler returns. *)

\* The order holds every instruction of the block once.
LEMMA OrderIsPermutation ==
  ASSUME IInv, pc = "done"
  PROVE  /\ Len(block) \in Nat /\ Len(scheduled) = Len(block)
         /\ scheduled \in Bijection(1 .. Len(block), 1 .. Len(block))
<1>1. TypeOK /\ OrderInv /\ block \in Blocks /\ Issued = Indices
      /\ Len(block) \in Nat /\ Indices = 1 .. Len(block)
  BY BlockFacts DEF IInv, TypeOK, PhaseInv, Indices
<1>2. scheduled \in Bijection(1 .. Len(scheduled), Indices)
  <2>1. scheduled \in [1 .. Len(scheduled) -> Indices] BY <1>1 DEF TypeOK
  <2>2. QED
    BY <1>1, <2>1
    DEF Issued, OrderInv, Bijection, Injection, Surjection, IsInjective
<1>3. Len(scheduled) \in Nat BY <1>1 DEF TypeOK
<1>4. Len(scheduled) = Len(block)
  <2>1. /\ IsFiniteSet(1 .. Len(scheduled))
        /\ Cardinality(1 .. Len(scheduled)) = Len(scheduled)
    BY <1>3, FS_Interval, SMTT(40)
  <2>2. Cardinality(Indices) = Cardinality(1 .. Len(scheduled))
    BY <1>2, <2>1, FS_Bijection DEF ExistsBijection
  <2>3. Cardinality(1 .. Len(block)) = Len(block)
    <3> DEFINE n == Len(block)
    <3>1. n \in Nat BY <1>1
    <3> HIDE DEF n
    <3>2. Cardinality(1 .. n) = n BY <3>1, FS_Interval
    <3>3. QED BY <3>2 DEF n
  <2>4. QED BY <1>1, <2>1, <2>2, <2>3
<1>5. QED BY <1>1, <1>2, <1>4

\* A control instruction at the end of the block is issued last: it depends on
\* everything before it.
LEMMA ControlComesLast ==
  ASSUME IInv, pc = "done", NEW n, n = Len(block), n \in Nat \ {0},
         Kind(n) = "CONTROL"
  PROVE  scheduled[n] = n
<1>1. /\ Len(scheduled) = n /\ OrderInv
      /\ \A k \in 1 .. n : scheduled[k] \in 1 .. n
      /\ \E k \in 1 .. n : scheduled[k] = n
  <2>1. scheduled \in Bijection(1 .. n, 1 .. n) /\ Len(scheduled) = n
    BY OrderIsPermutation
  <2>2. /\ scheduled \in [1 .. n -> 1 .. n]
        /\ \A t \in 1 .. n : \E k \in 1 .. n : scheduled[k] = t
    BY <2>1 DEF Bijection, Injection, Surjection
  <2>3. n \in 1 .. n OBVIOUS
  <2>4. OrderInv BY DEF IInv
  <2>5. QED BY <2>1, <2>2, <2>3, <2>4
<1>2. PICK k \in 1 .. n : scheduled[k] = n BY <1>1
<1>3. SUFFICES ASSUME scheduled[n] # n PROVE FALSE OBVIOUS
<1> DEFINE x == scheduled[n]
<1>4. x \in 1 .. n - 1 BY <1>1, <1>3
<1>5. Tracked(x, n) BY DEF Tracked
<1>6. PICK l \in 1 .. k - 1 : scheduled[l] = x
  <2>1. /\ k \in 1 .. Len(scheduled)
        /\ \A j \in 1 .. scheduled[k] - 1 :
             Tracked(j, scheduled[k]) => \E l \in 1 .. k - 1 : scheduled[l] = j
    BY <1>1, <1>2 DEF OrderInv
  <2> HIDE DEF x
  <2>2. QED BY <1>2, <1>4, <1>5, <2>1
<1>7. l \in 1 .. n /\ n \in 1 .. n /\ l < n BY <1>2
<1>8. l = n BY <1>1, <1>6, <1>7 DEF OrderInv
<1>9. QED BY <1>7, <1>8

-----------------------------------------------------------------------------
(* The steps that rewrite nothing. *)

\* At the start nothing is cut and nothing rewritten.
LEMMA InitOuter == ProgramInit => OuterInv
<1> SUFFICES ASSUME ProgramInit PROVE OuterInv OBVIOUS
<1> USE DEF ProgramInit
<1>1. original \in Seq(Instruction) BY ProgramsAssumption
<1>2. OuterType BY <1>1 DEF OuterType
<1>3. AheadInv /\ CallInv /\ FixedInv /\ KeptInv
  BY DEF AheadInv, CallInv, FixedInv, KeptInv
<1>4. QED BY <1>2, <1>3 DEF OuterInv

\* What the program is compared by stands while the program does.
LEMMA FrameOuter ==
  ASSUME OuterInv, UNCHANGED <<original, instructions, leaders>>
  PROVE  FixedInv' /\ KeptInv' /\ (start' = start => AheadInv')
<1>1. FixedInv' BY DEF OuterInv, FixedInv, Positions
<1>2. KeptInv' BY DEF OuterInv, KeptInv, End
<1>3. start' = start => AheadInv' BY DEF OuterInv, AheadInv
<1>4. QED BY <1>1, <1>2, <1>3

\* The leaders are found in the program as it came.
LEMMA FindLeadersInv == OuterInv /\ FindLeaders => OuterInv'
<1> SUFFICES ASSUME OuterInv, FindLeaders PROVE OuterInv' OBVIOUS
<1>1. /\ stage = "leaders" /\ instructions = original /\ leaders = {} /\ start = 1
      /\ original' = original /\ instructions' = instructions /\ start' = start
  BY DEF FindLeaders, OuterInv, OuterType
<1>2. OuterType' /\ stage' # "schedule"
  BY <1>1 DEF FindLeaders, OuterInv, OuterType
<1>3. AheadInv' BY <1>1 DEF AheadInv
<1>4. FixedInv' BY <1>1 DEF FixedInv
<1>5. KeptInv' BY <1>1 DEF KeptInv
<1>6. CallInv' BY <1>2 DEF CallInv
<1>7. QED BY <1>2, <1>3, <1>4, <1>5, <1>6 DEF OuterInv

\* A short block stays as it is.
LEMMA SkipShortBlockInv == OuterInv /\ SkipShortBlock => OuterInv'
<1> SUFFICES ASSUME OuterInv, SkipShortBlock PROVE OuterInv' OBVIOUS
<1>1. /\ stage = "pick" /\ stage' = "pick" /\ start <= Len(original)
      /\ start' = End(start) /\ UNCHANGED <<original, instructions, leaders>>
  BY DEF SkipShortBlock
<1>2. start \in leaders BY <1>1, BlockIsCut DEF OuterInv
<1>3. /\ start \in Nat /\ Len(original) \in Nat
      /\ End(start) \in start + 1 .. Len(original) + 1
      /\ End(start) \in leaders \cup {Len(original) + 1}
  BY <1>2, OuterFacts DEF OuterInv
<1>4. OuterType' BY <1>1, <1>3 DEF OuterInv, OuterType
<1>5. AheadInv'
  <2>1. \A i \in start' .. Len(original) : i \in start .. Len(original)
    BY <1>1, <1>3
  <2>2. QED BY <1>1, <2>1 DEF AheadInv, OuterInv
<1>6. CallInv' BY <1>1 DEF CallInv
<1>7. QED BY <1>1, <1>4, <1>5, <1>6, FrameOuter DEF OuterInv

\* A call starts with empty tables on a block cut from the program.
LEMMA ScheduleBlockInv == OuterInv /\ ScheduleBlock => OuterInv'
<1> SUFFICES ASSUME OuterInv, ScheduleBlock PROVE OuterInv' OBVIOUS
<1>1. /\ stage = "pick" /\ stage' = "schedule" /\ start <= Len(original)
      /\ UNCHANGED <<original, instructions, leaders, start>>
      /\ CallWith(SubSeq(instructions, start, End(start) - 1))
  BY DEF ScheduleBlock
<1>2. /\ start \in leaders /\ block' \in Blocks
      /\ block' = SubSeq(original, start, End(start) - 1)
  BY <1>1, BlockIsCut DEF OuterInv, CallWith
<1>3. Init'
  <2>1. block' = SubSeq(instructions, start, End(start) - 1)
    BY <1>1 DEF CallWith
  <2>2. QED BY <1>1, <1>2, <2>1 DEF CallWith, Init, Indices
<1>4. Init' => IInv' BY InitInv, PTL
<1>5. CallInv' BY <1>1, <1>2, <1>3, <1>4 DEF CallInv, End
<1>6. OuterType' BY <1>1 DEF OuterInv, OuterType
<1>7. QED BY <1>1, <1>5, <1>6, FrameOuter DEF OuterInv

\* The call runs; it keeps its own invariant.
LEMMA RunSchedulerInv == OuterInv /\ RunScheduler => OuterInv'
<1> SUFFICES ASSUME OuterInv, RunScheduler PROVE OuterInv' OBVIOUS
<1>1. /\ stage = "schedule" /\ stage' = "schedule" /\ Next
      /\ UNCHANGED <<original, instructions, leaders, start>>
  BY DEF RunScheduler, outer
<1>2. IInv' /\ block' = block
  <2>1. IInv BY <1>1 DEF OuterInv, CallInv
  <2>2. block' = block
    BY <1>1 DEF Next, ReturnShort, AddToGraph, Issue, Finish
  <2>3. IInv'
    BY <1>1, <2>1, ControlEndsCutBlocks, ReturnShortInv, AddToGraphInv,
       IssueInv, FinishInv DEF Next
  <2>4. QED BY <2>2, <2>3
<1>3. CallInv' BY <1>1, <1>2 DEF OuterInv, CallInv, End
<1>4. OuterType' BY <1>1 DEF OuterInv, OuterType
<1>5. QED BY <1>1, <1>3, <1>4, FrameOuter DEF OuterInv

\* The return changes nothing.
LEMMA ReturnInv == OuterInv /\ Return => OuterInv'
<1> SUFFICES ASSUME OuterInv, Return PROVE OuterInv' OBVIOUS
<1>1. /\ stage = "pick" /\ stage' = "return"
      /\ UNCHANGED <<original, instructions, leaders, start>>
  BY DEF Return
<1>2. OuterType' BY <1>1 DEF OuterInv, OuterType
<1>3. CallInv' BY <1>1 DEF CallInv
<1>4. QED BY <1>1, <1>2, <1>3, FrameOuter DEF OuterInv

\* The invariant speaks of these variables alone.
LEMMA StutterOuter == OuterInv /\ UNCHANGED allVars => OuterInv'
<1> SUFFICES ASSUME OuterInv, UNCHANGED allVars PROVE OuterInv' OBVIOUS
<1>1. /\ UNCHANGED vars
      /\ UNCHANGED <<stage, original, instructions, leaders, start>>
  BY DEF allVars, outer
<1>2. IInv => IInv' BY <1>1, StutterInv
<1>3. block' = block BY <1>1 DEF vars
<1>4. CallInv' BY <1>1, <1>2, <1>3 DEF OuterInv, CallInv, End
<1>5. OuterType' BY <1>1 DEF OuterInv, OuterType
<1>6. QED BY <1>1, <1>4, <1>5, FrameOuter DEF OuterInv

-----------------------------------------------------------------------------
(* Writing a scheduled block back. *)

\* Inside the block stands what the order took from the original; outside
\* nothing changes.
LEMMA WriteBackFacts ==
  ASSUME OuterInv, WriteBack, NEW n, n = End(start) - start
  PROVE  /\ start \in leaders /\ start \in 1 .. Len(original)
         /\ Len(original) \in Nat /\ n \in Nat \ {0}
         /\ start + n <= Len(original) + 1 /\ End(start) = start + n
         /\ IInv /\ pc = "done" /\ block \in Blocks /\ Len(block) = n
         /\ \A k \in 1 .. n : block[k] = original[start + k - 1]
         /\ scheduled \in Bijection(1 .. n, 1 .. n)
         /\ instructions' \in Seq(Instruction)
         /\ Len(instructions') = Len(original)
         /\ \A i \in start .. start + n - 1 :
              instructions'[i] = block[scheduled[i - start + 1]]
         /\ \A i \in 1 .. Len(original) :
              i \notin start .. start + n - 1 => instructions'[i] = instructions[i]
<1> DEFINE len == Len(original)
<1>1. /\ stage = "schedule" /\ pc = "done"
      /\ instructions' = [i \in Positions |->
           IF i \in start .. End(start) - 1 THEN block[scheduled[i - start + 1]]
                                            ELSE instructions[i]]
  BY DEF WriteBack
<1>2. /\ start \in leaders /\ block \in Blocks /\ IInv
      /\ block = SubSeq(original, start, End(start) - 1)
  BY <1>1 DEF OuterInv, CallInv
<1>3. /\ original \in Seq(Instruction) /\ len \in Nat /\ Positions = 1 .. len
      /\ start \in 1 .. len /\ End(start) \in start + 1 .. len + 1
  BY <1>2, OuterFacts DEF OuterInv
<1>4. /\ n \in Nat \ {0} /\ start + n <= len + 1 /\ End(start) = start + n
  BY <1>3
<1>5. Len(block) = n /\ \A k \in 1 .. n : block[k] = original[start + k - 1]
  <2> DEFINE m == start + n - 1
  <2>1. m \in Int /\ start \in Int /\ start <= m /\ m - start + 1 = n
    BY <1>3, <1>4
  <2>2. \A i \in start .. m : original[i] \in Instruction
    <3>1. \A i \in start .. m : i \in 1 .. len BY <1>3, <1>4
    <3>2. QED BY <1>3, <3>1
  <2>3. block = SubSeq(original, start, m)
    <3>1. End(start) - 1 = m BY <1>3, <1>4
    <3>2. QED BY <1>2, <3>1
  <2> HIDE DEF m
  <2>4. /\ Len(block) = m - start + 1
        /\ \A k \in 1 .. m - start + 1 : block[k] = original[start + k - 1]
    BY <2>1, <2>2, <2>3, SubSeqProperties
  <2>5. QED BY <2>1, <2>4
<1>6. scheduled \in Bijection(1 .. n, 1 .. n)
  BY <1>1, <1>2, <1>5, OrderIsPermutation
<1>7. \A k \in 1 .. n : scheduled[k] \in 1 .. n
  BY <1>6 DEF Bijection, Injection
<1>8. \A k \in 1 .. n : block[k] \in Instruction
  <2>1. block \in Seq(Instruction) BY <1>2, BlocksAssumption
  <2>2. Len(block) = n BY <1>5
  <2>3. QED BY <2>1, <2>2
<1>9. \A i \in 1 .. len : instructions[i] \in Instruction
  BY <1>3 DEF OuterInv, OuterType
<1>10. \A i \in start .. start + n - 1 :
         i \in 1 .. len /\ instructions'[i] = block[scheduled[i - start + 1]]
  <2>1. \A i \in start .. start + n - 1 : i \in 1 .. len
    BY <1>3, <1>4
  <2>2. QED BY <1>1, <1>3, <1>4, <2>1
<1>11. \A i \in 1 .. len :
         i \notin start .. start + n - 1 => instructions'[i] = instructions[i]
  BY <1>1, <1>3, <1>4
<1>12. \A i \in 1 .. len : instructions'[i] \in Instruction
  <2>1. \A i \in start .. start + n - 1 : i - start + 1 \in 1 .. n
    BY <1>3, <1>4
  <2>2. \A i \in start .. start + n - 1 : instructions'[i] \in Instruction
    BY <1>7, <1>8, <1>10, <2>1
  <2>3. QED BY <1>9, <1>11, <2>2
<1>13. instructions' \in Seq(Instruction) /\ Len(instructions') = len
  <2>1. DOMAIN instructions' = 1 .. len BY <1>1, <1>3
  <2>2. instructions' \in [1 .. len -> Instruction]
    <3>1. instructions' = [i \in 1 .. len |-> instructions'[i]] BY <1>1, <1>3
    <3>2. QED BY <1>12, <3>1
  <2>3. QED BY <1>3, <2>2
<1>14. QED
  BY <1>1, <1>2, <1>3, <1>4, <1>5, <1>6, <1>10, <1>11, <1>13

\* Writing a permutation of the block leaves each instruction as often as it
\* was.
LEMMA PermutationKeepsCounts ==
  ASSUME OuterInv, WriteBack, NEW inst
  PROVE  Count(instructions', start, End(start) - 1, inst)
           = Count(original, start, End(start) - 1, inst)
<1> DEFINE s == start
           n == End(start) - start
           e == End(start) - 1
           new == instructions'
           old == original
           order == scheduled
<1>a. /\ start \in 1 .. Len(original) /\ Len(original) \in Nat
      /\ n \in Nat \ {0} /\ End(start) = start + n
      /\ \A k \in 1 .. n : block[k] = original[start + k - 1]
      /\ scheduled \in Bijection(1 .. n, 1 .. n)
      /\ \A i \in start .. start + n - 1 :
           instructions'[i] = block[scheduled[i - start + 1]]
  BY WriteBackFacts
<1> HIDE DEF n
<1>b. s \in Nat /\ n \in Nat /\ e = s + n - 1 /\ order \in Bijection(1 .. n, 1 .. n)
  BY <1>a
<1>c. \A i \in s .. e : new[i] = old[s + order[i - s + 1] - 1]
  <2>1. \A k \in 1 .. n : scheduled[k] \in 1 .. n
    BY <1>a DEF Bijection, Injection
  <2>2. \A i \in start .. start + n - 1 : i - start + 1 \in 1 .. n BY <1>a
  <2>3. QED BY <1>a, <1>b, <2>1, <2>2
<1> HIDE DEF s, e, new, old, order
<1> DEFINE R == s .. e
           A == {i \in R : new[i] = inst}
           B == {i \in R : old[i] = inst}
           f == [i \in A |-> s + order[i - s + 1] - 1]
<1>1. /\ order \in [1 .. n -> 1 .. n]
      /\ \A j, k \in 1 .. n : order[j] = order[k] => j = k
      /\ \A t \in 1 .. n : \E k \in 1 .. n : order[k] = t
  BY <1>b DEF Bijection, Injection, Surjection, IsInjective
<1>2. \A i \in R : i - s + 1 \in 1 .. n BY <1>b
<1>3. \A i \in R : order[i - s + 1] \in 1 .. n BY <1>1, <1>2
<1>4. \A i \in R : s + order[i - s + 1] - 1 \in R
  <2>1. \A t \in 1 .. n : s + t - 1 \in R BY <1>b
  <2> HIDE DEF R
  <2>2. QED BY <1>3, <2>1
<1>5. f \in [A -> B] BY <1>4, <1>c
<1>6. \A i, j \in A : f[i] = f[j] => i = j
  <2> SUFFICES ASSUME NEW i \in A, NEW j \in A, f[i] = f[j] PROVE i = j
    OBVIOUS
  <2>1. i \in R /\ j \in R OBVIOUS
  <2>2. f[i] = s + order[i - s + 1] - 1 /\ f[j] = s + order[j - s + 1] - 1
    OBVIOUS
  <2>3. order[i - s + 1] \in Nat /\ order[j - s + 1] \in Nat BY <1>3, <2>1
  <2> HIDE DEF f
  <2>4. order[i - s + 1] = order[j - s + 1]
    <3> DEFINE x == order[i - s + 1]
               y == order[j - s + 1]
    <3>1. f[i] = s + x - 1 /\ f[j] = s + y - 1 BY <2>2
    <3>2. x \in Nat /\ y \in Nat /\ s \in Nat BY <1>b, <2>3
    <3> HIDE DEF x, y
    <3>3. s + x - 1 = s + y - 1 BY <3>1
    <3>4. x = y BY <3>2, <3>3
    <3>5. QED BY <3>4 DEF x, y
  <2>5. i - s + 1 = j - s + 1 BY <1>1, <1>2, <2>1, <2>4
  <2>6. QED BY <1>b, <2>1, <2>5
<1>7. \A t \in B : \E i \in A : f[i] = t
  <2> SUFFICES ASSUME NEW t \in B PROVE \E i \in A : f[i] = t OBVIOUS
  <2>1. t \in R /\ t - s + 1 \in 1 .. n BY <1>2
  <2>2. PICK k \in 1 .. n : order[k] = t - s + 1 BY <1>1, <2>1
  <2> DEFINE i == s + k - 1
  <2>3. i \in R /\ i - s + 1 = k BY <1>b
  <2>4. s + order[i - s + 1] - 1 = t BY <1>b, <2>1, <2>2, <2>3
  <2>5. i \in A BY <1>c, <2>3, <2>4
  <2>6. QED BY <2>4, <2>5
<1>8. f \in Bijection(A, B)
  BY <1>5, <1>6, <1>7 DEF Bijection, Injection, Surjection, IsInjective
<1>9. IsFiniteSet(A)
  <2>1. s \in Int /\ e \in Int BY <1>b
  <2>2. IsFiniteSet(R) BY <2>1, FS_Interval
  <2>3. A \in SUBSET R OBVIOUS
  <2>4. QED BY <2>2, <2>3, FS_Subset
<1> HIDE DEF f, A, B
<1>10. Cardinality(A) = Cardinality(B)
  BY <1>8, <1>9, FS_Bijection DEF ExistsBijection
<1>11. QED BY <1>10 DEF Count, A, B, R, s, e, new, old

\* The block's control instruction, if it has one, is written back where it
\* stood, and nothing else is one.
LEMMA WriteBackFixed == OuterInv /\ WriteBack => FixedInv'
<1> SUFFICES ASSUME OuterInv, WriteBack PROVE FixedInv' OBVIOUS
<1> DEFINE n == End(start) - start
<1>1. original' = original BY DEF WriteBack
<1>2. /\ start \in 1 .. Len(original) /\ Len(original) \in Nat
      /\ n \in Nat \ {0} /\ start + n <= Len(original) + 1
      /\ IInv /\ pc = "done" /\ block \in Blocks /\ Len(block) = n
      /\ \A k \in 1 .. n : block[k] = original[start + k - 1]
      /\ scheduled \in Bijection(1 .. n, 1 .. n)
      /\ \A i \in start .. start + n - 1 :
           instructions'[i] = block[scheduled[i - start + 1]]
      /\ \A i \in 1 .. Len(original) :
           i \notin start .. start + n - 1 => instructions'[i] = instructions[i]
  BY WriteBackFacts
<1> HIDE DEF n
<1>3. \A k \in 1 .. n : InstKind(block[k]) = "CONTROL" => k = n
  BY <1>2, ControlEndsCutBlocks DEF ControlEndsBlocks
<1>4. InstKind(block[n]) = "CONTROL" => scheduled[n] = n
  BY <1>2, ControlComesLast DEF Kind
<1>5. /\ \A k \in 1 .. n : scheduled[k] \in 1 .. n
      /\ \A j, k \in 1 .. n : scheduled[j] = scheduled[k] => j = k
  BY <1>2 DEF Bijection, Injection, IsInjective
<1>6. ASSUME NEW k \in 1 .. n,
             InstKind(block[k]) = "CONTROL" \/ InstKind(block[scheduled[k]]) = "CONTROL"
      PROVE  block[scheduled[k]] = block[k]
  <2>1. k = n \/ scheduled[k] = n BY <1>3, <1>5, <1>6
  <2>2. InstKind(block[n]) = "CONTROL" BY <1>3, <1>5, <1>6
  <2>3. scheduled[n] = n /\ n \in 1 .. n BY <1>2, <1>4, <2>2
  <2>4. k = n BY <1>5, <2>1, <2>3
  <2>5. QED BY <2>3, <2>4
<1>7. ASSUME NEW i \in 1 .. Len(original),
             InstKind(original[i]) = "CONTROL" \/ InstKind(instructions'[i]) = "CONTROL"
      PROVE  instructions'[i] = original[i]
  <2>1. CASE i \in start .. start + n - 1
    <3> DEFINE k == i - start + 1
    <3>1. k \in 1 .. n /\ start + k - 1 = i BY <1>2, <2>1
    <3>2. original[i] = block[k] BY <1>2, <3>1
    <3>3. instructions'[i] = block[scheduled[k]] BY <1>2, <2>1
    <3> HIDE DEF k
    <3>4. QED BY <1>6, <1>7, <3>1, <3>2, <3>3
  <2>2. CASE i \notin start .. start + n - 1
    <3>1. instructions'[i] = instructions[i] BY <1>2, <2>2
    <3>2. Positions = 1 .. Len(original) BY OuterFacts DEF OuterInv
    <3>3. QED BY <1>7, <3>1, <3>2 DEF OuterInv, FixedInv
  <2>3. QED BY <2>1, <2>2
<1>8. Positions' = 1 .. Len(original) BY <1>1 DEF Positions
<1>9. QED BY <1>1, <1>7, <1>8 DEF FixedInv

\* The written block has what the original has; the others are not touched.
LEMMA WriteBackKept == OuterInv /\ WriteBack => KeptInv'
<1> SUFFICES ASSUME OuterInv, WriteBack PROVE KeptInv' OBVIOUS
<1> DEFINE n == End(start) - start
<1>1. original' = original /\ leaders' = leaders BY DEF WriteBack
<1>2. /\ start \in leaders /\ start \in 1 .. Len(original)
      /\ Len(original) \in Nat /\ n \in Nat \ {0}
      /\ start + n <= Len(original) + 1 /\ End(start) = start + n
      /\ \A i \in 1 .. Len(original) :
           i \notin start .. start + n - 1 => instructions'[i] = instructions[i]
  BY WriteBackFacts
<1> HIDE DEF n
<1>3. ASSUME NEW inst
      PROVE  Count(instructions', start, End(start) - 1, inst)
               = Count(original, start, End(start) - 1, inst)
  BY PermutationKeepsCounts
<1>4. ASSUME NEW s \in leaders, s # start, NEW inst
      PROVE  Count(instructions', s, End(s) - 1, inst)
               = Count(instructions, s, End(s) - 1, inst)
  <2>1. /\ s \in 1 .. Len(original) /\ End(s) \in s + 1 .. Len(original) + 1
        /\ s < start => End(s) <= start
        /\ start < s => End(start) <= s
    BY <1>2, OuterFacts DEF OuterInv
  <2>2. \A i \in s .. End(s) - 1 :
          i \in 1 .. Len(original) /\ i \notin start .. start + n - 1
    BY <1>2, <1>4, <2>1
  <2>3. \A i \in s .. End(s) - 1 : instructions'[i] = instructions[i]
    BY <1>2, <2>2
  <2>4. {i \in s .. End(s) - 1 : instructions'[i] = inst}
          = {i \in s .. End(s) - 1 : instructions[i] = inst}
    BY <2>3
  <2>5. QED BY <2>4 DEF Count
<1>5. ASSUME NEW s \in leaders, NEW i \in s .. End(s) - 1
      PROVE  Count(instructions', s, End(s) - 1, original[i])
               = Count(original, s, End(s) - 1, original[i])
  <2>1. CASE s = start BY <1>3, <2>1
  <2>2. CASE s # start BY <1>4, <1>5, <2>2 DEF OuterInv, KeptInv
  <2>3. QED BY <2>1, <2>2
<1>6. \A s : End(s)' = End(s) BY <1>1 DEF End
<1>7. QED BY <1>1, <1>5, <1>6 DEF KeptInv

\* A block is written back, and the next one begins behind it.
LEMMA WriteBackInv == OuterInv /\ WriteBack => OuterInv'
<1> SUFFICES ASSUME OuterInv, WriteBack PROVE OuterInv' OBVIOUS
<1> DEFINE n == End(start) - start
<1>1. /\ original' = original /\ leaders' = leaders /\ stage = "schedule"
      /\ stage' = "pick" /\ start' = End(start)
  BY DEF WriteBack
<1>2. /\ start \in leaders /\ start \in 1 .. Len(original)
      /\ Len(original) \in Nat /\ n \in Nat \ {0} /\ End(start) = start + n
      /\ instructions' \in Seq(Instruction)
      /\ Len(instructions') = Len(original)
      /\ \A i \in 1 .. Len(original) :
           i \notin start .. start + n - 1 => instructions'[i] = instructions[i]
  BY WriteBackFacts
<1> HIDE DEF n
<1>3. End(start) \in leaders \cup {Len(original) + 1}
  BY <1>2, OuterFacts DEF OuterInv
<1>4. OuterType' BY <1>1, <1>2, <1>3 DEF OuterInv, OuterType
<1>5. AheadInv'
  <2>1. \A i \in start + n .. Len(original) :
          /\ i \in 1 .. Len(original) /\ i \in start .. Len(original)
          /\ i \notin start .. start + n - 1
    BY <1>2
  <2>2. \A i \in start + n .. Len(original) : instructions'[i] = original[i]
    BY <1>2, <2>1 DEF OuterInv, AheadInv
  <2>3. QED BY <1>1, <1>2, <2>2 DEF AheadInv
<1>6. CallInv' BY <1>1 DEF CallInv
<1>7. QED BY <1>4, <1>5, <1>6, WriteBackFixed, WriteBackKept DEF OuterInv

-----------------------------------------------------------------------------
(* The theorems. *)

\* The invariant of schedule_lowered, for every set of lowered programs.
THEOREM OuterInvariance == ProgramSpec => []OuterInv
<1>1. OuterInv /\ [ProgramNext]_allVars => OuterInv'
  BY FindLeadersInv, SkipShortBlockInv, ScheduleBlockInv, RunSchedulerInv,
     WriteBackInv, ReturnInv, StutterOuter DEF ProgramNext
<1>2. QED BY <1>1, InitOuter, PTL DEF ProgramSpec

\* Branch targets are positions, and they stay right: at every moment each
\* branch and each HALT stands where it stood, and the leaders found at the
\* start are those of the rewritten program.
THEOREM ControlInstructionsStay == ProgramSpec => []ControlStaysInPlace
<1>1. OuterInv => ControlStaysInPlace
  <2>1. ASSUME OuterInv PROVE ControlStaysInPlace
    <3>1. Leaders(instructions) = Leaders(original)
      BY <2>1, LeadersStay DEF OuterInv
    <3>2. stage \in {"pick", "schedule"} => leaders = Leaders(instructions)
      BY <2>1, <3>1 DEF OuterInv, OuterType
    <3>3. QED BY <2>1, <3>2 DEF OuterInv, FixedInv, ControlStaysInPlace
  <2>2. QED BY <2>1
<1>2. QED BY <1>1, OuterInvariance, PTL

\* Every call of _schedule_block gets a block whose only control instruction is
\* its last.
THEOREM CallsGetCutBlocks == ProgramSpec => []CutBlocksEndAtControl
<1>1. OuterInv => CutBlocksEndAtControl
  BY ControlEndsCutBlocks
  DEF OuterInv, CallInv, CutBlocksEndAtControl, ControlEndsBlocks, Indices, Kind
<1>2. QED BY <1>1, OuterInvariance, PTL

\* No instruction is lost or doubled, and none leaves its block.
THEOREM InstructionsAreKept == ProgramSpec => []BlocksKeepTheirInstructions
<1>1. OuterInv => BlocksKeepTheirInstructions
  BY DEF OuterInv, KeptInv, BlocksKeepTheirInstructions
<1>2. QED BY <1>1, OuterInvariance, PTL

=============================================================================
