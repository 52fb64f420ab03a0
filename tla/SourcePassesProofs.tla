------------------------- MODULE SourcePassesProofs -------------------------
(***************************************************************************)
(* Proofs about the source passes of SourcePasses.tla.                     *)
(*                                                                         *)
(* Passes that rewrite instructions where they stand (local constant       *)
(* folding, reuse of loads, global constant propagation): for every        *)
(* program and every launch, what they leave makes the same run, state by  *)
(* state.  Control goes the same way, and in every state of the run the    *)
(* new instruction does what the old one did.  For the last step one has   *)
(* to know that what the pass takes for known is true there, which is an   *)
(* induction along the run.                                                *)
(*                                                                         *)
(* For global constant propagation that is an invariant of its rounds,     *)
(* SoundInv: whenever a lane leaves a block, the constants the pass        *)
(* believes of that block's end hold.  Visiting a block keeps it, so the   *)
(* rounds may be cut off anywhere.  DataflowInv says that visiting a block *)
(* again never takes a constant away.                                      *)
(*                                                                         *)
(* Passes that drop items (dead results, dead code): the program that is   *)
(* left follows the given one (Follows).  A lane of it stands at the place *)
(* of the item the lane of the given program is at, makes the steps on     *)
(* items that stay, waits while the other passes dropped ones, and differs *)
(* only in registers that are dead there.                                  *)
(*                                                                         *)
(* Block simplification: the same, with a lane at an item of a block that  *)
(* is led around standing where the chain of that block ends (Landing).    *)
(* One has to know that ChainEnds ends chains (the tails of a function     *)
(* iterated often enough agree) and that control stays among the items of  *)
(* reached blocks (Visited).                                               *)
(*                                                                         *)
(* Common subexpressions: the two lanes again (Alongside), now apart in    *)
(* what is dead and in what has an alias.  What is to be known is that the *)
(* tables of the sweep are true: Standing is what holds of them whatever   *)
(* lane comes by, StandsFor what they say of the lanes.                    *)
(*                                                                         *)
(* Passes that move code (loop invariants, loads): what they make is laid  *)
(* out as one piece for every item (Layout), what was moved to it in front *)
(* of it.  The two lanes are in front of the same item, apart in what is   *)
(* not live there, and inside a loop what was moved out of it is Ready:    *)
(* its register holds what it would compute now (Hoisted).  Control enters *)
(* a loop behind its preheader only (LoopEntered), where Placing makes it  *)
(* so.  That both passes make moves the argument is about (IsMove) is      *)
(* proved last, from the definitions of the passes.                        *)
(***************************************************************************)
EXTENDS SourcePasses, NaturalOrder, SequenceTheorems
-----------------------------------------------------------------------------
(* Runs of one lane.                                                       *)

IsRun(p, lane, n, h) == h = [k \in 0 .. n |-> IF k = 0 THEN lane ELSE LaneStep(p, h[k-1])]

\* The definition, with the run named.
LEMMA RunByRun ==
  ASSUME NEW p, NEW lane, NEW n \in Nat
  PROVE  RunLane(p, lane, n) = (CHOOSE h : IsRun(p, lane, n, h))[n]
BY Zenon DEF RunLane, IsRun

\* A run goes on, and its beginning is a run.
LEMMA RunGoesOn ==
  ASSUME NEW p, NEW lane, NEW n \in Nat, NEW h, IsRun(p, lane, n, h)
  PROVE  \E i : IsRun(p, lane, n + 1, i)
<1>1. h = [k \in 0 .. n |-> IF k = 0 THEN lane ELSE LaneStep(p, h[k-1])]
  BY DEF IsRun
<1> DEFINE i == [k \in 0 .. n + 1 |-> IF k = n + 1 THEN LaneStep(p, h[n]) ELSE h[k]]
<1>2. ASSUME NEW k \in 0 .. n + 1 PROVE i[k] = IF k = 0 THEN lane ELSE LaneStep(p, i[k-1])
  <2>1. CASE k = 0
    <3>1. 0 \in 0 .. n /\ k # n + 1
      BY <2>1
    <3> QED  BY <1>1, <2>1, <3>1
  <2>2. CASE k # 0 /\ k # n + 1
    <3>1. k \in 0 .. n /\ k - 1 \in 0 .. n /\ k - 1 \in 0 .. n + 1 /\ k - 1 # n + 1
      BY <2>2
    <3>2. i[k] = h[k] /\ i[k-1] = h[k-1]
      BY <2>2, <3>1
    <3> HIDE DEF i
    <3> QED  BY <1>1, <2>2, <3>1, <3>2
  <2>3. CASE k = n + 1
    <3>1. k - 1 = n /\ n \in 0 .. n + 1 /\ n # n + 1 /\ k # 0
      BY <2>3
    <3>2. i[k] = LaneStep(p, h[n]) /\ i[n] = h[n]
      BY <2>3, <3>1
    <3> HIDE DEF i
    <3> QED  BY <3>1, <3>2
  <2> QED  BY <2>1, <2>2, <2>3
<1>3. IsRun(p, lane, n + 1, i)
  <2>1. i = [k \in 0 .. n + 1 |-> i[k]]
    OBVIOUS
  <2> HIDE DEF i
  <2> QED  BY <1>2, <2>1 DEF IsRun
<1> QED  BY <1>3

\* Runs exist.
LEMMA RunsExist ==
  ASSUME NEW p, NEW lane, NEW n \in Nat
  PROVE  \E h : IsRun(p, lane, n, h)
<1> DEFINE S == {m \in Nat : \E h : IsRun(p, lane, m, h)}
<1>1. 0 \in S
  <2> DEFINE h == [k \in 0 .. 0 |-> lane]
  <2>1. h = [k \in 0 .. 0 |-> IF k = 0 THEN lane ELSE LaneStep(p, h[k-1])]
    OBVIOUS
  <2> HIDE DEF h
  <2>2. IsRun(p, lane, 0, h)
    BY <2>1 DEF IsRun
  <2> QED  BY <2>2
<1>2. ASSUME NEW m \in Nat, m \in S PROVE m + 1 \in S
  <2>1. PICK h : IsRun(p, lane, m, h)
    BY <1>2
  <2> QED  BY <2>1, RunGoesOn
<1>3. Nat \subseteq S
  <2> HIDE DEF S
  <2> QED  BY <1>1, <1>2, InductionOnSet
<1> QED  BY <1>3

\* Two runs of a program agree as far as both go.
LEMMA RunsAgree ==
  ASSUME NEW p, NEW lane, NEW n \in Nat, NEW h, IsRun(p, lane, n, h),
         NEW m \in Nat, NEW i, IsRun(p, lane, m, i), NEW j \in 0 .. n, j \in 0 .. m
  PROVE  h[j] = i[j]
<1>1. /\ \A k \in 0 .. n : h[k] = IF k = 0 THEN lane ELSE LaneStep(p, h[k-1])
      /\ \A k \in 0 .. m : i[k] = IF k = 0 THEN lane ELSE LaneStep(p, i[k-1])
  BY Zenon DEF IsRun
<1> DEFINE S == {k \in Nat : k \in 0 .. n /\ k \in 0 .. m => h[k] = i[k]}
<1>2. 0 \in S
  BY <1>1
<1>3. ASSUME NEW k \in Nat, k \in S PROVE k + 1 \in S
  <2>1. SUFFICES ASSUME k + 1 \in 0 .. n, k + 1 \in 0 .. m PROVE h[k + 1] = i[k + 1]
    OBVIOUS
  <2>2. k \in 0 .. n /\ k \in 0 .. m /\ k + 1 # 0 /\ k + 1 - 1 = k
    BY <2>1
  <2>3. h[k] = i[k]
    BY <1>3, <2>2
  <2> QED  BY <1>1, <2>1, <2>2, <2>3
<1>4. Nat \subseteq S
  <2> HIDE DEF S
  <2> QED  BY <1>2, <1>3, InductionOnSet
<1> QED  BY <1>4

\* What RunLane computes: nothing in no step, and one more step in one more.
LEMMA RunZero ==
  ASSUME NEW p, NEW lane
  PROVE  RunLane(p, lane, 0) = lane
<1>1. PICK h : IsRun(p, lane, 0, h) /\ RunLane(p, lane, 0) = h[0]
  BY RunByRun, RunsExist
<1>2. \A k \in 0 .. 0 : h[k] = IF k = 0 THEN lane ELSE LaneStep(p, h[k-1])
  BY <1>1, Zenon DEF IsRun
<1> QED  BY <1>1, <1>2

\* A run is a step longer by one step.
LEMMA RunSucc ==
  ASSUME NEW p, NEW lane, NEW n \in Nat
  PROVE  RunLane(p, lane, n + 1) = LaneStep(p, RunLane(p, lane, n))
<1>1. PICK h : IsRun(p, lane, n, h) /\ RunLane(p, lane, n) = h[n]
  BY RunByRun, RunsExist
<1>2. n + 1 \in Nat
  OBVIOUS
<1>3. PICK i : IsRun(p, lane, n + 1, i) /\ RunLane(p, lane, n + 1) = i[n + 1]
  BY <1>2, RunByRun, RunsExist
<1>4. \A k \in 0 .. n + 1 : i[k] = IF k = 0 THEN lane ELSE LaneStep(p, i[k-1])
  BY <1>3, Zenon DEF IsRun
<1>5. i[n + 1] = LaneStep(p, i[n])
  BY <1>4
<1>6. i[n] = h[n]
  <2>1. n \in 0 .. n /\ n \in 0 .. n + 1
    OBVIOUS
  <2> QED  BY <1>1, <1>2, <1>3, <2>1, RunsAgree
<1> QED  BY <1>1, <1>3, <1>5, <1>6

-----------------------------------------------------------------------------
(* One step of a lane.                                                      *)

LaneFields == {"pc", "regs", "params", "mem", "stores"}

\* What a lane is; the words it holds do not matter.
IsLane(p, lane) ==
  /\ lane = [f \in LaneFields |-> lane[f]]
  /\ lane.regs = [r \in DataRegs \cup PredRegs |-> lane.regs[r]]
  /\ lane.pc \in 1 .. Len(p) + 1
  /\ \E S : lane.stores \in Seq(S)

Operands(i, lane) == [k \in DOMAIN i.args |-> IF i.args[k].reg = "" THEN i.args[k].imm
                                                                    ELSE lane.regs[i.args[k].reg]]
WritesNow(i, lane) == i.kind = "op" /\ i.op # "st" /\ GuardHolds(i, lane)
StoresNow(i, lane) == i.kind = "op" /\ i.op = "st" /\ GuardHolds(i, lane)

\* What the step changes.
Effect(p, lane, s) ==
  LET i == p[lane.pc]
  IN  /\ s.regs = IF WritesNow(i, lane) THEN [lane.regs EXCEPT ![i.dest] = Result(i, Operands(i, lane), lane)]
                                     ELSE lane.regs
      /\ ~StoresNow(i, lane) => s.mem = lane.mem /\ s.stores = lane.stores
      /\ s.stores = lane.stores \/ \E x : s.stores = Append(lane.stores, x)
      /\ s.params = lane.params
      /\ s.pc = lane.pc + 1 \/ (EndsBlock(i) /\ s.pc \in LabelPositions(p) \cup {Len(p) + 1})

\* What IsProgram says of an item, and where its branches go.
LEMMA ProgramFacts ==
  ASSUME NEW p, IsProgram(p)
  PROVE  /\ Len(p) \in Nat
         /\ \A k \in 1 .. Len(p) : p[k] \in Items /\ WellFormed(p[k])
         /\ \A k \in 1 .. Len(p) : IsBranch(p[k]) => LabelAt(p, p[k].label) \in LabelPositions(p)
<1>1. p \in Seq(Items) /\ Len(p) \in Nat
  BY DEF IsProgram
<1>2. \A k \in 1 .. Len(p) : p[k] \in Items /\ WellFormed(p[k])
  BY <1>1 DEF IsProgram
<1>3. ASSUME NEW k \in 1 .. Len(p), IsBranch(p[k]) PROVE LabelAt(p, p[k].label) \in LabelPositions(p)
  <2>1. p[k].label \in LabelsOf(p)
    BY <1>3 DEF IsProgram, BuildFails
  <2>2. PICK j \in LabelPositions(p) : p[j].label = p[k].label
    BY <2>1 DEF LabelsOf
  <2> QED  BY <2>2, Zenon DEF LabelAt
<1> QED  BY <1>1, <1>2, <1>3

\* A finished lane stands still.
LEMMA StoppedStays ==
  ASSUME NEW p, NEW lane, lane.pc > Len(p)
  PROVE  LaneStep(p, lane) = lane
BY DEF LaneStep

\* The step, written out for the instructions that do something.
AfterStore(i, lane) ==
  LET v == Operands(i, lane)
  IN  [lane EXCEPT !.pc = @ + 1, !.mem[v[1] % MemoryWords] = v[2],
                   !.stores = Append(@, <<v[1] % MemoryWords, v[2]>>)]
AfterWrite(i, lane) ==
  [lane EXCEPT !.pc = @ + 1, !.regs[i.dest] = Result(i, Operands(i, lane), lane)]

\* A step is one of these.
LEMMA StepOf ==
  ASSUME NEW p, IsProgram(p), NEW lane, IsLane(p, lane), lane.pc \in 1 .. Len(p)
  PROVE  /\ p[lane.pc].kind = "label" \/ ~GuardHolds(p[lane.pc], lane)
              => LaneStep(p, lane) = [lane EXCEPT !.pc = @ + 1]
         /\ p[lane.pc].kind \in {"bra", "ret"} /\ GuardHolds(p[lane.pc], lane)
              => LaneStep(p, lane) = [lane EXCEPT !.pc = NextPC(p, @)]
         /\ StoresNow(p[lane.pc], lane) => LaneStep(p, lane) = AfterStore(p[lane.pc], lane)
         /\ WritesNow(p[lane.pc], lane) => LaneStep(p, lane) = AfterWrite(p[lane.pc], lane)
<1> DEFINE i == p[lane.pc]
<1>1. ~(lane.pc > Len(p))
  BY ProgramFacts DEF IsLane
<1> USE <1>1
<1>2. i.kind = "label" \/ ~GuardHolds(i, lane) => LaneStep(p, lane) = [lane EXCEPT !.pc = @ + 1]
  BY DEF LaneStep, IsLabel
<1>3. i.kind \in {"bra", "ret"} /\ GuardHolds(i, lane) => LaneStep(p, lane) = [lane EXCEPT !.pc = NextPC(p, @)]
  BY DEF LaneStep, IsLabel
<1>4. StoresNow(i, lane) => LaneStep(p, lane) = AfterStore(i, lane)
  BY DEF LaneStep, IsLabel, StoresNow, Operands, AfterStore
<1>5. WritesNow(i, lane) => LaneStep(p, lane) = AfterWrite(i, lane)
  BY DEF LaneStep, IsLabel, WritesNow, Operands, AfterWrite
<1> QED  BY <1>2, <1>3, <1>4, <1>5

\* A step changes what Effect says.
LEMMA StepEffect ==
  ASSUME NEW p, IsProgram(p), NEW lane, IsLane(p, lane), lane.pc \in 1 .. Len(p)
  PROVE  IsLane(p, LaneStep(p, lane)) /\ Effect(p, lane, LaneStep(p, lane))
<1> DEFINE i == p[lane.pc]
           v == Operands(i, lane)
           s == LaneStep(p, lane)
<1>1. i \in Items /\ WellFormed(i) /\ Len(p) \in Nat
  BY ProgramFacts
<1>2. i.kind \in {"label", "bra", "ret", "op"}
  BY <1>1 DEF Items
<1>3. DOMAIN lane = LaneFields /\ LaneFields = {"pc", "regs", "params", "mem", "stores"}
  BY DEF IsLane, LaneFields
<1>4. lane.pc + 1 \in 1 .. Len(p) + 1 /\ LabelPositions(p) \cup {Len(p) + 1} \subseteq 1 .. Len(p) + 1
  BY <1>1 DEF LabelPositions
<1> HIDE DEF i, v, s
<1>5. CASE i.kind = "label" \/ ~GuardHolds(i, lane)
  <2>1. s = [lane EXCEPT !.pc = @ + 1]
    BY <1>5, StepOf DEF i, v, s
  <2>2. ~WritesNow(i, lane) /\ ~StoresNow(i, lane)
    BY <1>5 DEF WritesNow, StoresNow
  <2>3. s.pc = lane.pc + 1 /\ s.regs = lane.regs /\ s.mem = lane.mem /\ s.stores = lane.stores /\ s.params = lane.params
    BY <1>3, <2>1
  <2>4. s = [f \in LaneFields |-> s[f]]
    BY <1>3, <2>1
  <2> HIDE DEF i
  <2> QED  BY <1>4, <2>2, <2>3, <2>4 DEF IsLane, Effect, i, s
<1>6. CASE i.kind \in {"bra", "ret"} /\ GuardHolds(i, lane)
  <2>1. s = [lane EXCEPT !.pc = NextPC(p, @)]
    BY <1>6, StepOf DEF i, v, s
  <2>2. ~WritesNow(i, lane) /\ ~StoresNow(i, lane) /\ EndsBlock(i)
    BY <1>6 DEF WritesNow, StoresNow, EndsBlock
  <2>3. s.pc = NextPC(p, lane.pc) /\ s.regs = lane.regs /\ s.mem = lane.mem /\ s.stores = lane.stores
        /\ s.params = lane.params
    BY <1>3, <2>1
  <2>4. s = [f \in LaneFields |-> s[f]]
    BY <1>3, <2>1
  <2>5. NextPC(p, lane.pc) \in LabelPositions(p) \cup {Len(p) + 1}
    BY <1>6, ProgramFacts DEF NextPC, Stopped, IsBranch, i
  <2> QED  BY <1>4, <2>2, <2>3, <2>4, <2>5 DEF IsLane, Effect, i, s
<1>7. CASE StoresNow(i, lane)
  <2>8. s = AfterStore(i, lane)
    BY <1>7, StepOf DEF i, s
  <2>1. s = [lane EXCEPT !.pc = @ + 1, !.mem[v[1] % MemoryWords] = v[2],
                         !.stores = Append(@, <<v[1] % MemoryWords, v[2]>>)]
    BY <2>8 DEF AfterStore, v
  <2>2. ~WritesNow(i, lane)
    BY <1>7 DEF WritesNow, StoresNow
  <2> DEFINE x == <<v[1] % MemoryWords, v[2]>>
  <2> DEFINE m == [lane.mem EXCEPT ![v[1] % MemoryWords] = v[2]]
             t == Append(lane.stores, x)
  <2>9. s = [lane EXCEPT !.pc = @ + 1, !.mem = m, !.stores = t]
    BY <2>1
  <2> HIDE DEF m, t
  <2>3. s.pc = lane.pc + 1 /\ s.regs = lane.regs /\ s.stores = t /\ s.params = lane.params
    BY <1>3, <2>9
  <2>4. s = [f \in LaneFields |-> s[f]]
    BY <1>3, <2>9
  <2> USE DEF t
  <2> HIDE DEF x
  <2>5. \E S : s.stores \in Seq(S)
    <3>1. PICK S : lane.stores \in Seq(S)
      BY DEF IsLane
    <3>2. lane.stores \in Seq(S \cup {x}) /\ x \in S \cup {x}
      BY <3>1
    <3>3. Append(lane.stores, x) \in Seq(S \cup {x})
      BY <3>2
    <3> QED  BY <2>3, <3>3
  <2> QED  BY <1>4, <1>7, <2>2, <2>3, <2>4, <2>5 DEF IsLane, Effect, i, s
<1>8. CASE WritesNow(i, lane)
  <2>8. s = AfterWrite(i, lane)
    BY <1>8, StepOf DEF i, s
  <2>1. s = [lane EXCEPT !.pc = @ + 1, !.regs[i.dest] = Result(i, v, lane)]
    BY <2>8 DEF AfterWrite, v
  <2>2. ~StoresNow(i, lane)
    BY <1>8 DEF WritesNow, StoresNow
  <2> DEFINE x == Result(i, v, lane)
             g == [lane.regs EXCEPT ![i.dest] = x]
  <2>9. s = [lane EXCEPT !.pc = @ + 1, !.regs = g]
    BY <2>1
  <2> HIDE DEF x, g
  <2>3. s.pc = lane.pc + 1 /\ s.regs = [lane.regs EXCEPT ![i.dest] = x] /\ s.stores = lane.stores
        /\ s.mem = lane.mem /\ s.params = lane.params
    BY <1>3, <2>9 DEF g
  <2>4. s = [f \in LaneFields |-> s[f]]
    BY <1>3, <2>9
  <2>5. s.regs = [r \in DataRegs \cup PredRegs |-> s.regs[r]]
    BY <2>3 DEF IsLane
  <2> QED  BY <1>4, <1>8, <2>2, <2>3, <2>4, <2>5 DEF IsLane, Effect, i, s, v, x
<1> QED  BY <1>2, <1>5, <1>6, <1>7, <1>8 DEF WritesNow, StoresNow, s

-----------------------------------------------------------------------------
(* Runs of a program from a launch. *)

\* A launched lane is one, at the first item.
LEMMA LaunchFacts ==
  ASSUME NEW p, IsProgram(p), NEW lane \in LaunchedLanes(p)
  PROVE  IsLane(p, lane) /\ lane.pc = 1
<1>1. PICK params \in [Addresses -> LaunchWords], mem \in Memories(p) : lane = StartLane(params, mem)
  BY DEF LaunchedLanes
<1> DEFINE regs == [r \in DataRegs \cup PredRegs |-> 0]
<1>2. lane = [pc |-> 1, regs |-> regs, params |-> params, mem |-> mem, stores |-> << >>]
  BY <1>1 DEF StartLane
<1>3. lane.regs = [r \in DataRegs \cup PredRegs |-> lane.regs[r]]
  BY <1>2
<1> HIDE DEF regs
<1>4. lane = [f \in LaneFields |-> lane[f]]
  BY <1>2 DEF LaneFields
<1>5. lane.stores \in Seq({}) /\ lane.pc = 1
  BY <1>2
<1>6. 1 \in 1 .. Len(p) + 1
  BY ProgramFacts
<1> QED  BY <1>3, <1>4, <1>5, <1>6 DEF IsLane

\* Every state of a run is a lane.
LEMMA RunIsLane ==
  ASSUME NEW p, IsProgram(p), NEW lane, IsLane(p, lane), NEW n \in Nat
  PROVE  IsLane(p, RunLane(p, lane, n))
<1> DEFINE S == {m \in Nat : IsLane(p, RunLane(p, lane, m))}
<1>1. 0 \in S
  BY RunZero
<1>2. ASSUME NEW m \in Nat, m \in S PROVE m + 1 \in S
  <2> DEFINE a == RunLane(p, lane, m)
  <2>1. IsLane(p, a) /\ RunLane(p, lane, m + 1) = LaneStep(p, a)
    BY <1>2, RunSucc
  <2> HIDE DEF a
  <2>2. CASE a.pc \in 1 .. Len(p)
    BY <2>1, <2>2, StepEffect
  <2>3. CASE a.pc \notin 1 .. Len(p)
    <3>1. a.pc > Len(p)
      BY <2>1, <2>3, ProgramFacts DEF IsLane
    <3> QED  BY <2>1, <3>1, StoppedStays
  <2> QED  BY <2>2, <2>3
<1>3. Nat \subseteq S
  <2> HIDE DEF S
  <2> QED  BY <1>1, <1>2, InductionOnSet
<1> QED  BY <1>3

\* What was stored stays stored.
LEMMA PrefixOfAppend ==
  ASSUME NEW S, NEW s \in Seq(S), NEW t \in Seq(S), IsPrefix(s, t), NEW x
  PROVE  IsPrefix(s, Append(t, x))
<1>1. Len(s) \in Nat /\ Len(t) \in Nat /\ Len(s) <= Len(t) /\ SubSeq(s, 1, Len(s)) = SubSeq(t, 1, Len(s))
  BY DEF IsPrefix
<1>2. t \in Seq(S \cup {x}) /\ x \in S \cup {x}
  OBVIOUS
<1> DEFINE u == Append(t, x)
<1>3. u \in Seq(S \cup {x}) /\ Len(u) = Len(t) + 1 /\ \A k \in 1 .. Len(t) : u[k] = t[k]
  BY <1>2
<1> HIDE DEF u
<1> DEFINE n == Len(s)
<1> HIDE DEF n
<1>4. n \in Nat /\ n <= Len(t) /\ n <= Len(u)
  BY <1>1, <1>3 DEF n
<1>5. \A k \in 1 .. n : t[k] \in S \cup {x} /\ u[k] \in S \cup {x} /\ u[k] = t[k]
  BY <1>2, <1>3, <1>4, <1>1
<1>6. /\ SubSeq(t, 1, n) \in Seq(S \cup {x}) /\ SubSeq(u, 1, n) \in Seq(S \cup {x})
      /\ Len(SubSeq(t, 1, n)) = (IF 1 <= n THEN n - 1 + 1 ELSE 0)
      /\ Len(SubSeq(u, 1, n)) = (IF 1 <= n THEN n - 1 + 1 ELSE 0)
      /\ \A k \in 1 .. n - 1 + 1 : SubSeq(t, 1, n)[k] = t[1 + k - 1]
      /\ \A k \in 1 .. n - 1 + 1 : SubSeq(u, 1, n)[k] = u[1 + k - 1]
  <2>1. \A k \in 1 .. n : t[k] \in S \cup {x}
    BY <1>5
  <2>2. \A k \in 1 .. n : u[k] \in S \cup {x}
    BY <1>5
  <2>3. /\ SubSeq(t, 1, n) \in Seq(S \cup {x})
        /\ Len(SubSeq(t, 1, n)) = (IF 1 <= n THEN n - 1 + 1 ELSE 0)
        /\ \A k \in 1 .. n - 1 + 1 : SubSeq(t, 1, n)[k] = t[1 + k - 1]
    BY <1>4, <2>1, SubSeqProperties
  <2>4. /\ SubSeq(u, 1, n) \in Seq(S \cup {x})
        /\ Len(SubSeq(u, 1, n)) = (IF 1 <= n THEN n - 1 + 1 ELSE 0)
        /\ \A k \in 1 .. n - 1 + 1 : SubSeq(u, 1, n)[k] = u[1 + k - 1]
    BY <1>4, <2>2, SubSeqProperties
  <2> QED  BY <2>3, <2>4
<1>7. SubSeq(t, 1, n) = SubSeq(u, 1, n)
  <2>1. Len(SubSeq(t, 1, n)) = n /\ Len(SubSeq(u, 1, n)) = n
    BY <1>4, <1>6
  <2>2. \A k \in 1 .. n : SubSeq(t, 1, n)[k] = SubSeq(u, 1, n)[k]
    BY <1>4, <1>5, <1>6
  <2> QED  BY <1>6, <2>1, <2>2, SeqEqual
<1> QED  BY <1>1, <1>3, <1>4, <1>7 DEF IsPrefix, n, u

\* A later state of a run has stored what an earlier one had, and nothing
\* happens after the end.
LEMMA RunsGrow ==
  ASSUME NEW p, IsProgram(p), NEW lane, IsLane(p, lane), NEW n \in Nat, NEW d \in Nat
  PROVE  /\ IsPrefix(RunLane(p, lane, n).stores, RunLane(p, lane, n + d).stores)
         /\ RunLane(p, lane, n).pc > Len(p) => RunLane(p, lane, n + d) = RunLane(p, lane, n)
<1> DEFINE a == RunLane(p, lane, n)
           b(k) == RunLane(p, lane, n + k)
           Good(k) == IsPrefix(a.stores, b(k).stores) /\ (a.pc > Len(p) => b(k) = a)
           S == {k \in Nat : Good(k)}
<1>1. 0 \in S
  <2>1. n + 0 = n
    OBVIOUS
  <2>2. IsPrefix(a.stores, a.stores)
    <3>1. PICK T : a.stores \in Seq(T)
      BY RunIsLane DEF IsLane
    <3>2. Len(a.stores) \in Nat
      BY <3>1
    <3> QED  BY <3>2 DEF IsPrefix
  <2>3. Good(0)
    BY <2>1, <2>2
  <2> QED  BY <2>3
<1>2. ASSUME NEW k \in Nat, k \in S PROVE k + 1 \in S
  <2>1. b(k + 1) = LaneStep(p, b(k))
    <3>1. n + k \in Nat /\ n + k + 1 = n + (k + 1)
      OBVIOUS
    <3> QED  BY <3>1, RunSucc
  <2>2. IsLane(p, b(k)) /\ IsLane(p, a)
    <3>1. n + k \in Nat
      OBVIOUS
    <3> QED  BY <3>1, RunIsLane
  <2>3. IsPrefix(a.stores, b(k).stores) /\ (a.pc > Len(p) => b(k) = a)
    BY <1>2
  <2>4. SUFFICES IsPrefix(a.stores, b(k + 1).stores) /\ (a.pc > Len(p) => b(k + 1) = a)
    OBVIOUS
  <2> HIDE DEF a, b
  <2>5. CASE b(k).pc > Len(p)
    BY <2>1, <2>3, <2>5, StoppedStays
  <2>6. CASE ~(b(k).pc > Len(p))
    <3>1. b(k).pc \in 1 .. Len(p)
      BY <2>2, <2>6, ProgramFacts DEF IsLane
    <3>2. Effect(p, b(k), b(k + 1))
      BY <2>1, <2>2, <3>1, StepEffect
    <3>3. CASE b(k + 1).stores = b(k).stores
      BY <2>3, <2>6, <3>3
    <3>4. CASE b(k + 1).stores # b(k).stores
      <4>1. PICK x : b(k + 1).stores = Append(b(k).stores, x)
        BY <3>2, <3>4 DEF Effect
      <4>2. PICK T : a.stores \in Seq(T)
        BY <2>2 DEF IsLane
      <4>3. PICK U : b(k).stores \in Seq(U)
        BY <2>2 DEF IsLane
      <4>4. a.stores \in Seq(T \cup U) /\ b(k).stores \in Seq(T \cup U)
        BY <4>2, <4>3
      <4>5. IsPrefix(a.stores, b(k + 1).stores)
        BY <2>3, <4>1, <4>4, PrefixOfAppend
      <4> QED  BY <2>3, <2>6, <4>5
    <3> QED  BY <3>3, <3>4
  <2> QED  BY <2>5, <2>6
<1>3. Nat \subseteq S
  <2> HIDE DEF S
  <2> QED  BY <1>1, <1>2, InductionOnSet
<1> QED  BY <1>3

\* Programs of the same length whose runs are the same do the same.
LEMMA SameRunsAlike ==
  ASSUME NEW p, IsProgram(p), NEW q, Len(q) = Len(p),
         \A lane \in LaunchedLanes(p) : \A n \in Nat : RunLane(q, lane, n) = RunLane(p, lane, n)
  PROVE  Alike(p, q, Steps + Len(p))
<1>1. SUFFICES ASSUME NEW lane \in LaunchedLanes(p),
                      NEW a, a = RunLane(p, lane, Steps), NEW b, b = RunLane(q, lane, Steps + Len(p))
               PROVE  /\ IsPrefix(a.stores, b.stores)
                      /\ a.pc > Len(p) => b.pc > Len(q) /\ b.stores = a.stores
  BY DEF Alike
<1>2. Steps \in Nat /\ Len(p) \in Nat /\ Steps + Len(p) \in Nat
  BY StepsAssumption, ProgramFacts
<1>3. b = RunLane(p, lane, Steps + Len(p))
  BY <1>1, <1>2
<1>4. IsLane(p, lane)
  BY LaunchFacts
<1> QED  BY <1>1, <1>2, <1>3, <1>4, RunsGrow

-----------------------------------------------------------------------------
(* Passes that rewrite instructions where they stand. *)

\* The same labels, branches and returns in the same places.
SameShape(p, q) ==
  /\ q = [k \in 1 .. Len(p) |-> q[k]]
  /\ \A k \in 1 .. Len(p) : q[k].kind = p[k].kind /\ q[k].label = p[k].label

\* In the state of the lane, j does what i does.
Matches(i, j, lane) ==
  \/ j = i
  \/ /\ i.kind = "op" /\ j.kind = "op" /\ i.op # "st" /\ j.op # "st"
     /\ j.guarded = i.guarded /\ j.guard = i.guard /\ j.negated = i.negated /\ j.dest = i.dest
     /\ GuardHolds(i, lane) => Result(j, Operands(j, lane), lane) = Result(i, Operands(i, lane), lane)

\* Then control goes the same way, and the program still has a CFG.
LEMMA SameControl ==
  ASSUME NEW p, IsProgram(p), NEW q, SameShape(p, q)
  PROVE  /\ Len(q) = Len(p)
         /\ \A k \in 1 .. Len(p) : NextPC(q, k) = NextPC(p, k)
         /\ ~BuildFails(q)
<1>1. p \in Seq(Items) /\ Len(p) \in Nat /\ q \in Seq({q[k] : k \in 1 .. Len(p)}) /\ Len(q) = Len(p)
  <2>1. p \in Seq(Items) /\ Len(p) \in Nat
    BY DEF IsProgram
  <2> DEFINE n == Len(p)
             R == {q[k] : k \in 1 .. n}
  <2>2. q = [k \in 1 .. n |-> q[k]]
    BY DEF SameShape
  <2>3. n \in Nat
    BY <2>1
  <2> HIDE DEF n
  <2>4. q \in [1 .. n -> R]
    BY <2>2
  <2> HIDE DEF R
  <2>5. q \in Seq(R) /\ Len(q) = n
    BY <2>3, <2>4
  <2> QED  BY <2>1, <2>5 DEF n, R
<1>2. \A k \in 1 .. Len(p) : q[k].kind = p[k].kind /\ q[k].label = p[k].label
  BY DEF SameShape
<1>3. LabelPositions(q) = LabelPositions(p)
  BY <1>1, <1>2 DEF LabelPositions, IsLabel
<1>4. \A k \in LabelPositions(p) : k \in 1 .. Len(p) /\ q[k].label = p[k].label
  BY <1>2 DEF LabelPositions
<1>5. LabelsOf(q) = LabelsOf(p)
  BY <1>3, <1>4 DEF LabelsOf
<1>6. ASSUME NEW l PROVE LabelAt(q, l) = LabelAt(p, l)
  <2>1. \A k : (k \in LabelPositions(q) /\ q[k].label = l) <=> (k \in LabelPositions(p) /\ p[k].label = l)
    BY <1>3, <1>4
  <2> QED  BY <2>1, Zenon DEF LabelAt
<1>7. ASSUME NEW k \in 1 .. Len(p) PROVE NextPC(q, k) = NextPC(p, k)
  BY <1>1, <1>2, <1>6 DEF NextPC, IsBranch, Stopped
<1>8. ~BuildFails(q)
  <2>1. ~BuildFails(p)
    BY DEF IsProgram
  <2>2. \A i \in 1 .. Len(q) : IsBranch(q[i]) => q[i].label \in LabelsOf(q)
    BY <1>1, <1>2, <1>5, <2>1 DEF BuildFails, IsBranch
  <2>3. EntryLabel \in LabelsOf(q) => q # << >> /\ IsLabel(q[1])
    <3>1. SUFFICES ASSUME EntryLabel \in LabelsOf(p) PROVE q # << >> /\ IsLabel(q[1])
      BY <1>5
    <3>2. p # << >> /\ IsLabel(p[1])
      BY <2>1, <3>1 DEF BuildFails
    <3>3. Len(p) # 0
      BY <1>1, <3>2
    <3>4. 1 \in 1 .. Len(p)
      BY <1>1, <3>3
    <3> QED  BY <1>1, <1>2, <3>2, <3>3, <3>4 DEF IsLabel
  <2> QED  BY <1>3, <1>5, <2>1, <2>2, <2>3 DEF BuildFails
<1> QED  BY <1>1, <1>7, <1>8

\* A step on an item that matches is the same step.
LEMMA MatchedStep ==
  ASSUME NEW p, IsProgram(p), NEW q, SameShape(p, q), NEW a, IsLane(p, a),
         a.pc \in 1 .. Len(p) => Matches(p[a.pc], q[a.pc], a)
  PROVE  LaneStep(q, a) = LaneStep(p, a)
<1>1. Len(q) = Len(p) /\ Len(p) \in Nat
  BY ProgramFacts, SameControl
<1>2. CASE a.pc > Len(p)
  BY <1>1, <1>2, StoppedStays
<1>3. CASE ~(a.pc > Len(p))
  <2>1. a.pc \in 1 .. Len(p)
    BY <1>1, <1>3 DEF IsLane
  <2>2. NextPC(q, a.pc) = NextPC(p, a.pc)
    BY <2>1, SameControl
  <2> DEFINE i == p[a.pc]
             j == q[a.pc]
  <2>3. CASE j = i
    BY <1>1, <2>2, <2>3 DEF LaneStep
  <2>4. CASE j # i
    <3>1. /\ i.kind = "op" /\ j.kind = "op" /\ i.op # "st" /\ j.op # "st"
          /\ j.guarded = i.guarded /\ j.guard = i.guard /\ j.negated = i.negated /\ j.dest = i.dest
          /\ GuardHolds(i, a) => Result(j, Operands(j, a), a) = Result(i, Operands(i, a), a)
      BY <2>1, <2>4 DEF Matches
    <3> HIDE DEF i, j
    <3>2. GuardHolds(j, a) <=> GuardHolds(i, a)
      BY <3>1 DEF GuardHolds
    <3>3. ~IsLabel(i) /\ ~IsLabel(j)
      BY <3>1 DEF IsLabel
    <3>4. CASE ~GuardHolds(i, a)
      BY <1>1, <1>3, <3>2, <3>4 DEF LaneStep, i, j
    <3>5. CASE GuardHolds(i, a)
      <4>1. LaneStep(p, a) = [a EXCEPT !.pc = @ + 1, !.regs[i.dest] = Result(i, Operands(i, a), a)]
        BY <1>3, <3>1, <3>3, <3>5 DEF LaneStep, Operands, i
      <4>2. LaneStep(q, a) = [a EXCEPT !.pc = @ + 1, !.regs[j.dest] = Result(j, Operands(j, a), a)]
        BY <1>1, <1>3, <3>1, <3>2, <3>3, <3>5 DEF LaneStep, Operands, j
      <4> QED  BY <3>1, <3>5, <4>1, <4>2
    <3> QED  BY <3>4, <3>5
  <2> QED  BY <2>3, <2>4
<1> QED  BY <1>2, <1>3

\* If every instruction matches in every state of the run, the runs are one.
LEMMA MatchedRuns ==
  ASSUME NEW p, IsProgram(p), NEW q, SameShape(p, q), NEW lane, IsLane(p, lane),
         \A n \in Nat : RunLane(p, lane, n).pc \in 1 .. Len(p)
           => Matches(p[RunLane(p, lane, n).pc], q[RunLane(p, lane, n).pc], RunLane(p, lane, n)),
         NEW n \in Nat
  PROVE  RunLane(q, lane, n) = RunLane(p, lane, n)
<1> DEFINE S == {m \in Nat : RunLane(q, lane, m) = RunLane(p, lane, m)}
<1>1. 0 \in S
  BY RunZero
<1>2. ASSUME NEW m \in Nat, m \in S PROVE m + 1 \in S
  <2> DEFINE a == RunLane(p, lane, m)
  <2>1. RunLane(p, lane, m + 1) = LaneStep(p, a) /\ RunLane(q, lane, m + 1) = LaneStep(q, a)
    BY <1>2, RunSucc
  <2>2. IsLane(p, a) /\ (a.pc \in 1 .. Len(p) => Matches(p[a.pc], q[a.pc], a))
    BY RunIsLane
  <2> HIDE DEF a
  <2>3. LaneStep(q, a) = LaneStep(p, a)
    BY <2>2, MatchedStep
  <2> QED  BY <2>1, <2>3
<1>3. Nat \subseteq S
  <2> HIDE DEF S
  <2> QED  BY <1>1, <1>2, InductionOnSet
<1> QED  BY <1>3

\* And then the program does what it did.
LEMMA MatchedPreserved ==
  ASSUME NEW p, IsProgram(p), NEW q, SameShape(p, q),
         \A lane \in LaunchedLanes(p) : \A n \in Nat : RunLane(p, lane, n).pc \in 1 .. Len(p)
           => Matches(p[RunLane(p, lane, n).pc], q[RunLane(p, lane, n).pc], RunLane(p, lane, n))
  PROVE  Preserved(p, q)
<1>1. ASSUME NEW lane \in LaunchedLanes(p), NEW n \in Nat PROVE RunLane(q, lane, n) = RunLane(p, lane, n)
  <2>1. IsLane(p, lane)
    BY LaunchFacts
  <2>2. \A k \in Nat : RunLane(p, lane, k).pc \in 1 .. Len(p)
           => Matches(p[RunLane(p, lane, k).pc], q[RunLane(p, lane, k).pc], RunLane(p, lane, k))
    OBVIOUS
  <2> QED  BY <2>1, <2>2, MatchedRuns
<1>2. Alike(p, q, Steps + Len(p))
  BY <1>1, SameControl, SameRunsAlike
<1> QED  BY <1>2, SameControl DEF Preserved

-----------------------------------------------------------------------------
(* Constants known at a point. *)

Holds(facts, regs) == \A c \in facts : c.reg \in DataRegs \cup PredRegs /\ regs[c.reg] = c.value

\* A resolved operand has the value the lane reads.
LEMMA ResolveIsTrue ==
  ASSUME NEW known, NEW lane, Holds(known, lane.regs), NEW i, NEW k \in DOMAIN i.args,
         NEW v \in Resolve(i.args[k], i.type, known)
  PROVE  v = Operands(i, lane)[k]
<1>1. Operands(i, lane)[k] = IF i.args[k].reg = "" THEN i.args[k].imm ELSE lane.regs[i.args[k].reg]
  BY DEF Operands
<1>2. CASE i.args[k].reg # ""
  <2>1. PICK c \in known : c.reg = i.args[k].reg /\ v = c.value
    BY <1>2 DEF Resolve
  <2> QED  BY <1>1, <1>2, <2>1 DEF Holds
<1>3. CASE i.args[k].reg = ""
  BY <1>1, <1>3 DEF Resolve
<1> QED  BY <1>2, <1>3

\* The register file with x in r.
Written(regs, r, x, new) ==
  /\ regs = [t \in DataRegs \cup PredRegs |-> regs[t]] /\ r \in DataRegs \cup PredRegs
  /\ new = [regs EXCEPT ![r] = x]

\* What is learnt of a result holds once it is written.
LEMMA LearnHolds ==
  ASSUME NEW known, NEW regs, NEW r, NEW x, NEW new, Written(regs, r, x, new), Holds(known, regs)
  PROVE  \A type, value : (\A v \in value : v = x) => Holds(Learn(known, r, type, value), new)
<1>1. new[r] = x /\ \A t \in DataRegs \cup PredRegs : t # r => new[t] = regs[t]
  BY DEF Written
<1>2. ASSUME NEW type, NEW value, \A v \in value : v = x, NEW c \in Learn(known, r, type, value)
      PROVE  c.reg \in DataRegs \cup PredRegs /\ new[c.reg] = c.value
  <2>1. CASE c \in Forget(known, r)
    BY <1>1, <2>1 DEF Forget, Holds
  <2>2. CASE c \notin Forget(known, r)
    <3>1. PICK v \in value : c = [reg |-> r, type |-> type, value |-> v]
      BY <2>2 DEF Learn
    <3>2. c.reg = r /\ c.value = v
      BY <3>1
    <3> QED  BY <1>1, <1>2, <3>2 DEF Written
  <2> QED  BY <2>1, <2>2
<1> QED  BY <1>2 DEF Holds

\* An instruction that writes nothing, or another register, spoils nothing.
LEMMA HoldsStill ==
  ASSUME NEW known, NEW regs, regs = [r \in DataRegs \cup PredRegs |-> regs[r]], Holds(known, regs),
         NEW r, NEW x, \A c \in known : c.reg # r
  PROVE  Holds(known, [regs EXCEPT ![r] = x])
BY DEF Holds

-----------------------------------------------------------------------------
(* Sweeps over a program that carry what they know from item to item and    *)
(* start anew at a label: LocalConstantFoldingPass carries constants,       *)
(* RepeatedGlobalLoadReusePass the loads at hand.                           *)

Carried(name, i, known) == IF name = "local-cf" THEN AfterFold(i, known) ELSE AfterLoadReuse(i, known)

\* The table of what is known after an item, up to item n.
IsKnown(name, p, n, h) ==
  h = [k \in 0 .. n |-> IF k = 0 \/ IsLabel(p[k]) THEN {} ELSE Carried(name, p[k], h[k-1])]

\* Such a table exists.
LEMMA TablesExist ==
  ASSUME NEW name, NEW p, NEW n \in Nat
  PROVE  \E h : IsKnown(name, p, n, h)
<1> DEFINE S == {m \in Nat : \E h : IsKnown(name, p, m, h)}
<1>1. 0 \in S
  <2> DEFINE h == [k \in 0 .. 0 |-> {}]
  <2>1. h = [k \in 0 .. 0 |-> IF k = 0 \/ IsLabel(p[k]) THEN {} ELSE Carried(name, p[k], h[k-1])]
    OBVIOUS
  <2> HIDE DEF h
  <2>2. IsKnown(name, p, 0, h)
    BY <2>1 DEF IsKnown
  <2> QED  BY <2>2
<1>2. ASSUME NEW m \in Nat, m \in S PROVE m + 1 \in S
  <2>1. PICK h : IsKnown(name, p, m, h)
    BY <1>2
  <2>2. h = [k \in 0 .. m |-> IF k = 0 \/ IsLabel(p[k]) THEN {} ELSE Carried(name, p[k], h[k-1])]
    BY <2>1 DEF IsKnown
  <2> DEFINE last == IF IsLabel(p[m + 1]) THEN {} ELSE Carried(name, p[m + 1], h[m])
             i == [k \in 0 .. m + 1 |-> IF k = m + 1 THEN last ELSE h[k]]
  <2>3. ASSUME NEW k \in 0 .. m + 1
        PROVE  i[k] = IF k = 0 \/ IsLabel(p[k]) THEN {} ELSE Carried(name, p[k], i[k-1])
    <3>1. CASE k = m + 1
      <4>1. k - 1 = m /\ m \in 0 .. m + 1 /\ m # m + 1 /\ k # 0
        BY <3>1
      <4>2. i[k] = last /\ i[m] = h[m]
        BY <3>1, <4>1
      <4> HIDE DEF i
      <4> QED  BY <3>1, <4>1, <4>2
    <3>2. CASE k # m + 1
      <4>1. k \in 0 .. m /\ i[k] = h[k]
        BY <3>2
      <4>2. k # 0 => k - 1 \in 0 .. m + 1 /\ k - 1 # m + 1
        BY <3>2
      <4>3. k # 0 => i[k-1] = h[k-1]
        BY <4>2
      <4> HIDE DEF i
      <4> QED  BY <2>2, <4>1, <4>3
    <3> QED  BY <3>1, <3>2
  <2>4. i = [k \in 0 .. m + 1 |-> i[k]]
    OBVIOUS
  <2> HIDE DEF i
  <2>5. IsKnown(name, p, m + 1, i)
    BY <2>3, <2>4 DEF IsKnown
  <2> QED  BY <2>5
<1>3. Nat \subseteq S
  <2> HIDE DEF S
  <2> QED  BY <1>1, <1>2, InductionOnSet
<1> QED  BY <1>3

\* What a table says of a lane in front of the next item.
ValueAt(a, lane) == IF a.reg = "" THEN a.imm ELSE lane.regs[a.reg]
CacheHolds(cache, lane) ==
  \A c \in cache : /\ c.dest \in DataRegs \cup PredRegs
                   /\ lane.regs[c.dest] = lane.mem[ValueAt(c.addr, lane) % MemoryWords]
Knows(name, known, lane) == IF name = "local-cf" THEN Holds(known, lane.regs) ELSE CacheHolds(known, lane)

\* What every step carries on holds in front of every instruction of a run:
\* control comes to an item that is no label from the item before it alone.
LEMMA TableHolds ==
  ASSUME NEW name, NEW p, IsProgram(p), NEW h, IsKnown(name, p, Len(p), h),
         \A b : IsLane(p, b) /\ b.pc \in 1 .. Len(p) /\ ~IsLabel(p[b.pc]) /\ Knows(name, h[b.pc - 1], b)
                 => Knows(name, h[b.pc], LaneStep(p, b)),
         NEW lane \in LaunchedLanes(p), NEW n \in Nat,
         RunLane(p, lane, n).pc \in 1 .. Len(p), ~IsLabel(p[RunLane(p, lane, n).pc])
  PROVE  Knows(name, h[RunLane(p, lane, n).pc - 1], RunLane(p, lane, n))
<1> DEFINE Good(a) == a.pc \in 1 .. Len(p) /\ ~IsLabel(p[a.pc]) => Knows(name, h[a.pc - 1], a)
           S == {m \in Nat : Good(RunLane(p, lane, m))}
<1>1. /\ Len(p) \in Nat
      /\ \A k \in 0 .. Len(p) : k = 0 \/ IsLabel(p[k]) => h[k] = {}
  <2>1. \A k \in 0 .. Len(p) : h[k] = IF k = 0 \/ IsLabel(p[k]) THEN {} ELSE Carried(name, p[k], h[k-1])
    BY Zenon DEF IsKnown
  <2> QED  BY <2>1, ProgramFacts
<1>2. \A a : Knows(name, {}, a)
  BY DEF Knows, Holds, CacheHolds
<1>3. 0 \in S
  <2>1. RunLane(p, lane, 0).pc - 1 = 0 /\ 0 \in 0 .. Len(p)
    BY <1>1, RunZero, LaunchFacts
  <2> QED  BY <1>1, <1>2, <2>1
<1>4. ASSUME NEW m \in Nat, m \in S PROVE m + 1 \in S
  <2> DEFINE b == RunLane(p, lane, m)
             a == RunLane(p, lane, m + 1)
  <2>1. Good(b) /\ a = LaneStep(p, b) /\ IsLane(p, b)
    BY <1>4, RunSucc, RunIsLane, LaunchFacts
  <2> HIDE DEF a, b
  <2>2. SUFFICES ASSUME a.pc \in 1 .. Len(p), ~IsLabel(p[a.pc]) PROVE Knows(name, h[a.pc - 1], a)
    BY DEF a
  <2>3. b.pc \in 1 .. Len(p)
    <3>1. CASE b.pc > Len(p)
      <4>1. a = b
        BY <2>1, <3>1, StoppedStays
      <4> QED  BY <1>1, <2>2, <3>1, <4>1
    <3> QED  BY <1>1, <2>1, <3>1 DEF IsLane
  <2>4. Effect(p, b, a)
    BY <2>1, <2>3, StepEffect
  <2>5. a.pc = b.pc + 1
    BY <1>1, <2>2, <2>4 DEF Effect, LabelPositions
  <2>6. a.pc - 1 = b.pc /\ b.pc \in 0 .. Len(p)
    BY <1>1, <2>3, <2>5
  <2>7. CASE IsLabel(p[b.pc])
    BY <1>1, <1>2, <2>6, <2>7
  <2>8. CASE ~IsLabel(p[b.pc])
    BY <2>1, <2>3, <2>6, <2>8
  <2> QED  BY <2>7, <2>8
<1>5. Nat \subseteq S
  <2> HIDE DEF S
  <2> QED  BY <1>3, <1>4, InductionOnSet
<1> QED  BY <1>5

-----------------------------------------------------------------------------
(* LocalConstantFoldingPass. *)

FoldedBy(p, h) ==
  [k \in 1 .. Len(p) |->
     IF IsLabel(p[k]) \/ FoldBoundary(p[k]) \/ LocalResult(p[k], h[k-1]) = {} THEN p[k]
     ELSE MovConstant(p[k], LocalResult(p[k], h[k-1]))]

\* What FoldConstants leaves is so for some table.
FoldTable(p, h) ==
  h = [k \in 0 .. Len(p) |-> IF k = 0 \/ IsLabel(p[k]) THEN {} ELSE AfterFold(p[k], h[k-1])]

\* There is one.
LEMMA FoldIsByTable ==
  ASSUME NEW p, Len(p) \in Nat
  PROVE  \E h : IsKnown("local-cf", p, Len(p), h) /\ FoldConstants(p) = FoldedBy(p, h)
<1>1. FoldConstants(p) = FoldedBy(p, CHOOSE h : FoldTable(p, h))
  BY Zenon DEF FoldConstants, FoldedBy, FoldTable
<1>2. \A h : IsKnown("local-cf", p, Len(p), h) <=> FoldTable(p, h)
  BY Zenon DEF IsKnown, FoldTable, Carried
<1>3. \E h : FoldTable(p, h)
  BY <1>2, TablesExist
<1>4. FoldTable(p, CHOOSE h : FoldTable(p, h))
  BY <1>3, Zenon
<1> QED  BY <1>1, <1>2, <1>4

\* An instruction that is evaluated is one that computes.
LEMMA FoldableFacts ==
  ASSUME NEW i \in Items, WellFormed(i), ~FoldBoundary(i)
  PROVE  /\ i.kind = "op" /\ i.op # "st" /\ ~i.guarded /\ i.op \in {"add", "mov", "mul", "sub"}
         /\ i.dest \in DataRegs \cup PredRegs
         /\ 1 \in DOMAIN i.args /\ (i.op # "mov" => 2 \in DOMAIN i.args)
<1>1. i.op \in {"add", "mov", "mul", "sub"} /\ ~i.guarded
  BY DEF FoldBoundary
<1>2. i.kind = "op" /\ i.op # "st"
  BY <1>1 DEF WellFormed, DestinationBases, PureResultBases
<1>3. Len(i.args) = Arity(i.op) /\ i.args \in Seq([reg: STRING, imm: Int])
  BY <1>2 DEF WellFormed, Items
<1>4. Len(i.args) = (IF i.op = "mov" THEN 1 ELSE 2)
  BY <1>1, <1>3 DEF Arity
<1>5. 1 \in 1 .. 1 /\ 1 \in 1 .. 2 /\ 2 \in 1 .. 2 /\ DOMAIN i.args = 1 .. Len(i.args)
  BY <1>3
<1> QED  BY <1>1, <1>2, <1>4, <1>5 DEF WellFormed

\* The value the pass computes is the one the lane computes.
LEMMA LocalResultIsTrue ==
  ASSUME NEW i \in Items, WellFormed(i), ~FoldBoundary(i),
         NEW known, NEW lane, Holds(known, lane.regs), NEW x \in LocalResult(i, known)
  PROVE  x = Result(i, Operands(i, lane), lane)
<1> DEFINE v == Operands(i, lane)
<1>1. \A k \in DOMAIN i.args : \A y \in Resolve(i.args[k], i.type, known) : y = v[k]
  BY ResolveIsTrue
<1> HIDE DEF v
<1>2. CASE i.op = "mov"
  <2>1. x \in Resolve(i.args[1], i.type, known) /\ 1 \in DOMAIN i.args
    BY <1>2, FoldableFacts DEF LocalResult
  <2> QED  BY <1>1, <1>2, <2>1 DEF Result, v
<1>3. CASE i.op # "mov"
  <2>1. 1 \in DOMAIN i.args /\ 2 \in DOMAIN i.args /\ i.op \in {"add", "mul", "sub"}
    BY <1>3, FoldableFacts
  <2>2. PICK a \in Resolve(i.args[1], i.type, known), b \in Resolve(i.args[2], i.type, known) :
          x = Arith(i.op, i.type, a, b)
    BY <1>3 DEF LocalResult
  <2>3. a = v[1] /\ b = v[2]
    BY <1>1, <2>1, <2>2
  <2>4. Result(i, v, lane) = Arith(i.op, i.type, v[1], v[2])
    BY <2>1 DEF Result
  <2> QED  BY <2>2, <2>3, <2>4 DEF v
<1> QED  BY <1>2, <1>3

\* What the pass knows after an instruction holds there.
LEMMA FoldCarries ==
  ASSUME NEW p, IsProgram(p), NEW h, IsKnown("local-cf", p, Len(p), h),
         NEW b, IsLane(p, b), b.pc \in 1 .. Len(p), ~IsLabel(p[b.pc]), Knows("local-cf", h[b.pc - 1], b)
  PROVE  Knows("local-cf", h[b.pc], LaneStep(p, b))
<1> DEFINE i == p[b.pc]
           a == LaneStep(p, b)
           x == Result(i, Operands(i, b), b)
<1>1. Len(p) \in Nat /\ i \in Items /\ WellFormed(i)
  BY ProgramFacts
<1>2. h[b.pc] = AfterFold(i, h[b.pc - 1])
  <2>1. \A k \in 0 .. Len(p) : h[k] = IF k = 0 \/ IsLabel(p[k]) THEN {} ELSE AfterFold(p[k], h[k-1])
    BY Zenon DEF IsKnown, Carried
  <2>2. b.pc \in 0 .. Len(p) /\ b.pc # 0
    BY <1>1
  <2> QED  BY <2>1, <2>2
<1>3. Effect(p, b, a)
  BY StepEffect
<1>4. CASE FoldBoundary(i)
  BY <1>2, <1>4 DEF AfterFold, Holds, Knows
<1>5. CASE ~FoldBoundary(i)
  <2>1. Holds(h[b.pc - 1], b.regs)
    BY DEF Knows
  <2>2. WritesNow(i, b) /\ i.dest \in DataRegs \cup PredRegs
    BY <1>1, <1>5, FoldableFacts DEF WritesNow, GuardHolds
  <2>3. Written(b.regs, i.dest, x, a.regs)
    BY <1>3, <2>2 DEF Effect, Written, IsLane
  <2>4. \A y \in LocalResult(i, h[b.pc - 1]) : y = x
    BY <1>1, <1>5, <2>1, LocalResultIsTrue
  <2> HIDE DEF x, i, a
  <2>5. Holds(Learn(h[b.pc - 1], i.dest, i.type, LocalResult(i, h[b.pc - 1])), a.regs)
    BY <2>1, <2>3, <2>4, LearnHolds
  <2> QED  BY <1>2, <1>5, <2>5 DEF AfterFold, Knows, a
<1> QED  BY <1>4, <1>5

\* The fold keeps the shape, and each instruction does what it did.
LEMMA FoldPreserves ==
  ASSUME NEW p, IsProgram(p)
  PROVE  Preserved(p, FoldConstants(p))
<1>1. Len(p) \in Nat /\ p \in Seq(Items)
  BY ProgramFacts DEF IsProgram
<1>2. PICK h : IsKnown("local-cf", p, Len(p), h) /\ FoldConstants(p) = FoldedBy(p, h)
  BY <1>1, FoldIsByTable
<1> DEFINE q == FoldedBy(p, h)
           Same(k) == IsLabel(p[k]) \/ FoldBoundary(p[k]) \/ LocalResult(p[k], h[k-1]) = {}
           value(k) == CHOOSE v \in LocalResult(p[k], h[k-1]) : TRUE
<1>3. ASSUME NEW k \in 1 .. Len(p)
      PROVE  q[k] = IF Same(k) THEN p[k] ELSE [p[k] EXCEPT !.op = "mov", !.args = <<Imm(value(k))>>]
  BY DEF FoldedBy, MovConstant
<1>4. ASSUME NEW k \in 1 .. Len(p), ~Same(k)
      PROVE  /\ q[k].kind = p[k].kind /\ q[k].label = p[k].label /\ q[k].guarded = p[k].guarded
             /\ q[k].guard = p[k].guard /\ q[k].negated = p[k].negated /\ q[k].dest = p[k].dest
             /\ q[k].op = "mov" /\ q[k].args = <<Imm(value(k))>>
  <2>1. p[k] \in [kind: {"label", "bra", "ret", "op"}, label: STRING, op: STRING, type: STRING, compare: STRING, guard: STRING,
                  guarded: BOOLEAN, negated: BOOLEAN, dest: STRING, args: Seq([reg: STRING, imm: Int])]
    BY ProgramFacts DEF Items
  <2> DEFINE x == <<Imm(value(k))>>
  <2>2. q[k] = [p[k] EXCEPT !.op = "mov", !.args = x]
    BY <1>3, <1>4
  <2> HIDE DEF q, x
  <2>3. /\ q[k].kind = p[k].kind /\ q[k].label = p[k].label /\ q[k].guarded = p[k].guarded
        /\ q[k].guard = p[k].guard /\ q[k].negated = p[k].negated /\ q[k].dest = p[k].dest
        /\ q[k].op = "mov" /\ q[k].args = x
    BY <2>1, <2>2
  <2> QED  BY <2>3 DEF x
<1>5. SameShape(p, q)
  <2>1. q = [k \in 1 .. Len(p) |-> q[k]]
    BY DEF FoldedBy
  <2> HIDE DEF q, Same
  <2>2. \A k \in 1 .. Len(p) : q[k].kind = p[k].kind /\ q[k].label = p[k].label
    BY <1>3, <1>4
  <2> QED  BY <2>1, <2>2 DEF SameShape
<1>6. ASSUME NEW lane \in LaunchedLanes(p), NEW n \in Nat, RunLane(p, lane, n).pc \in 1 .. Len(p)
      PROVE  Matches(p[RunLane(p, lane, n).pc], q[RunLane(p, lane, n).pc], RunLane(p, lane, n))
  <2> DEFINE a == RunLane(p, lane, n)
             i == p[a.pc]
             j == q[a.pc]
             x == value(a.pc)
  <2>1. CASE Same(a.pc)
    BY <1>3, <1>6, <2>1 DEF Matches
  <2>2. CASE ~Same(a.pc)
    <3>1. i \in Items /\ WellFormed(i)
      BY <1>6, ProgramFacts
    <3>2. ~IsLabel(i) /\ ~FoldBoundary(i) /\ x \in LocalResult(i, h[a.pc - 1])
      BY <2>2
    <3>3. Holds(h[a.pc - 1], a.regs)
      <4>1. \A b : IsLane(p, b) /\ b.pc \in 1 .. Len(p) /\ ~IsLabel(p[b.pc]) /\ Knows("local-cf", h[b.pc - 1], b)
                   => Knows("local-cf", h[b.pc], LaneStep(p, b))
        BY <1>2, FoldCarries
      <4>2. Knows("local-cf", h[a.pc - 1], a)
        BY <1>2, <1>6, <3>2, <4>1, TableHolds
      <4> QED  BY <4>2 DEF Knows
    <3>4. /\ j.kind = i.kind /\ j.guarded = i.guarded /\ j.guard = i.guard /\ j.negated = i.negated
          /\ j.dest = i.dest /\ j.op = "mov" /\ j.args = <<Imm(x)>>
      BY <1>4, <1>6, <2>2
    <3> HIDE DEF a, i, j, x, q, Same
    <3>5. x = Result(i, Operands(i, a), a)
      BY <3>1, <3>2, <3>3, LocalResultIsTrue
    <3>6. Result(j, Operands(j, a), a) = x
      <4>0. Imm(x).reg = "" /\ Imm(x).imm = x
        BY DEF Imm
      <4>1. 1 \in DOMAIN j.args /\ j.args[1].reg = "" /\ j.args[1].imm = x
        <5> HIDE DEF Imm
        <5>1. ASSUME NEW w PROVE 1 \in DOMAIN << w >> /\ (<< w >>)[1] = w
          OBVIOUS
        <5> QED  BY <3>4, <4>0, <5>1
      <4>2. Operands(j, a)[1] = x
        BY <4>1 DEF Operands
      <4> QED  BY <3>4, <4>2 DEF Result
    <3>7. i.kind = "op" /\ i.op # "st"
      BY <3>1, <3>2, FoldableFacts
    <3>8. Matches(i, j, a)
      BY <3>4, <3>5, <3>6, <3>7 DEF Matches
    <3> QED  BY <3>8 DEF i, j, a
  <2> QED  BY <2>1, <2>2
<1> QED
  <2> HIDE DEF q
  <2> QED  BY <1>2, <1>5, <1>6, MatchedPreserved DEF q


-----------------------------------------------------------------------------
(* RepeatedGlobalLoadReusePass. *)

ReusedBy(p, h) ==
  [k \in 1 .. Len(p) |->
     IF IsLabel(p[k]) \/ ClearsLoads(p[k]) \/ p[k].op # "ld" \/ CachedLoad(p[k], h[k-1]) = {} THEN p[k]
     ELSE [p[k] EXCEPT !.op = "mov", !.args = <<Reg((CHOOSE c \in CachedLoad(p[k], h[k-1]) : TRUE).dest)>>]]

\* The table of ReuseLoads.
LoadTable(p, h) ==
  h = [k \in 0 .. Len(p) |-> IF k = 0 \/ IsLabel(p[k]) THEN {} ELSE AfterLoadReuse(p[k], h[k-1])]

\* ReuseLoads with the table and the hits put in: only the hits are written
\* otherwise.
ReusedByHits(p, h) ==
  LET hit(k) == IF IsLabel(p[k]) \/ ClearsLoads(p[k]) \/ p[k].op # "ld" THEN {}
                ELSE CachedLoad(p[k], h[k-1])
  IN  [k \in 1 .. Len(p) |->
         IF hit(k) = {} THEN p[k]
         ELSE [p[k] EXCEPT !.op = "mov", !.args = <<Reg((CHOOSE c \in hit(k) : TRUE).dest)>>]]

\* What ReuseLoads leaves is so for some table.
LEMMA ReuseIsByTable ==
  ASSUME NEW p, Len(p) \in Nat
  PROVE  \E h : IsKnown("load-reuse", p, Len(p), h) /\ ReuseLoads(p) = ReusedBy(p, h)
<1>1. ReuseLoads(p) = ReusedByHits(p, CHOOSE h : LoadTable(p, h))
  BY Zenon DEF ReuseLoads, ReusedByHits, LoadTable
<1>2. \A h : IsKnown("load-reuse", p, Len(p), h) <=> LoadTable(p, h)
  BY DEF IsKnown, LoadTable, Carried
<1>3. \E h : LoadTable(p, h)
  BY <1>2, TablesExist
<1>4. LoadTable(p, CHOOSE h : LoadTable(p, h))
  BY <1>3, Zenon
<1>5. ASSUME NEW h PROVE ReusedByHits(p, h) = ReusedBy(p, h)
  BY DEF ReusedByHits, ReusedBy
<1> QED  BY <1>1, <1>2, <1>4, <1>5

\* A load at hand was made before, and nothing cleared the table since.
Origin(p, k, c) ==
  \E j \in 1 .. k :
    /\ p[j].op = "ld" /\ p[j].dest = c.dest /\ p[j].args[1] = c.addr
    /\ \A l \in j .. k : ~IsLabel(p[l]) /\ ~ClearsLoads(p[l])

\* Every entry of the table has such a load.
LEMMA CacheOrigins ==
  ASSUME NEW p, Len(p) \in Nat, NEW h, IsKnown("load-reuse", p, Len(p), h),
         NEW k \in 0 .. Len(p), NEW c \in h[k]
  PROVE  Origin(p, k, c)
<1> DEFINE S == {n \in Nat : n <= Len(p) => \A d \in h[n] : Origin(p, n, d)}
<1>1. \A n \in 0 .. Len(p) : h[n] = IF n = 0 \/ IsLabel(p[n]) THEN {} ELSE AfterLoadReuse(p[n], h[n-1])
  BY DEF IsKnown, Carried
<1>2. 0 \in S
  BY <1>1
<1>3. ASSUME NEW n \in Nat, n \in S PROVE n + 1 \in S
  <2> DEFINE m == n + 1
  <2>1. SUFFICES ASSUME m <= Len(p), NEW d \in h[m] PROVE Origin(p, m, d)
    OBVIOUS
  <2>2. m \in 0 .. Len(p) /\ m - 1 = n /\ m # 0 /\ n <= Len(p) /\ m \in 1 .. m
    BY <2>1
  <2>3. ~IsLabel(p[m]) /\ h[m] = AfterLoadReuse(p[m], h[n])
    BY <1>1, <2>1, <2>2
  <2>4. ~ClearsLoads(p[m])
    BY <2>1, <2>3 DEF AfterLoadReuse
  <2>5. CASE d \in h[n]
    <3>1. PICK j \in 1 .. n : /\ p[j].op = "ld" /\ p[j].dest = d.dest /\ p[j].args[1] = d.addr
                              /\ \A l \in j .. n : ~IsLabel(p[l]) /\ ~ClearsLoads(p[l])
      BY <1>3, <2>2, <2>5 DEF Origin
    <3>2. j \in 1 .. m /\ \A l \in j .. m : l = m \/ l \in j .. n
      OBVIOUS
    <3> HIDE DEF m
    <3>3. \A l \in j .. m : ~IsLabel(p[l]) /\ ~ClearsLoads(p[l])
      BY <2>3, <2>4, <3>1, <3>2
    <3> QED  BY <3>1, <3>2, <3>3 DEF Origin
  <2>6. CASE d \notin h[n]
    <3>1. p[m].op = "ld" /\ d \in {[addr |-> p[m].args[1], type |-> p[m].type, dest |-> p[m].dest]}
      BY <2>1, <2>3, <2>4, <2>6 DEF AfterLoadReuse
    <3>2. \A l \in m .. m : l = m
      OBVIOUS
    <3> HIDE DEF m
    <3> QED  BY <2>2, <2>3, <2>4, <3>1, <3>2 DEF Origin
  <2> QED  BY <2>5, <2>6
<1>4. Nat \subseteq S
  <2> HIDE DEF S
  <2> QED  BY <1>2, <1>3, InductionOnSet
<1> QED  BY <1>4

\* While loads are at hand an instruction computes, and no guard is on it.
LEMMA OpenFacts ==
  ASSUME NEW i \in Items, WellFormed(i), ~ClearsLoads(i)
  PROVE  /\ i.kind = "op" /\ i.op # "st" /\ ~i.guarded /\ i.dest \in DataRegs \cup PredRegs
         /\ i.op = "ld" => 1 \in DOMAIN i.args
         /\ i.op \notin {"ld", "fma"} => DestinationRegister(i) = i.dest
<1>1. i.kind = "op" /\ i.op # "st" /\ ~i.guarded /\ i.dest \in DataRegs \cup PredRegs
  BY DEF ClearsLoads, WellFormed
<1>2. i.op \in DestinationBases \cup {"fma", "st"}
  BY <1>1 DEF WellFormed
<1>3. ASSUME i.op = "ld" PROVE 1 \in DOMAIN i.args
  <2>1. Len(i.args) = 1 /\ i.args \in Seq([reg: STRING, imm: Int])
    BY <1>1, <1>3 DEF WellFormed, Arity, Items
  <2>2. 1 \in 1 .. 1 /\ DOMAIN i.args = 1 .. Len(i.args)
    BY <2>1
  <2> QED  BY <2>1, <2>2
<1> QED  BY <1>1, <1>2, <1>3 DEF DestinationRegister

\* A write to a register changes no operand that does not name it.
IsOperand(x) == x.reg = "" \/ \E t \in DataRegs \cup PredRegs : x = Reg(t)

\* The operands of a parsed instruction are immediates and registers there are.
LEMMA OperandsOf ==
  ASSUME NEW i, WellFormed(i), NEW k \in DOMAIN i.args
  PROVE  IsOperand(i.args[k])
<1>1. Imm(i.args[k].imm).reg = ""
  BY DEF Imm
<1> HIDE DEF Imm
<1> QED  BY <1>1 DEF WellFormed, IsOperand

\* A write to another register changes no operand.
LEMMA ValueStays ==
  ASSUME NEW x, IsOperand(x), NEW b, NEW a, NEW r, Written(b.regs, r, a.regs[r], a.regs), Reg(r) # x
  PROVE  ValueAt(x, a) = ValueAt(x, b)
<1>1. CASE x.reg = ""
  BY <1>1 DEF ValueAt
<1>2. CASE x.reg # ""
  <2>1. PICK t \in DataRegs \cup PredRegs : x = Reg(t)
    BY <1>2 DEF IsOperand
  <2>2. x.reg = t /\ t # r /\ a.regs[t] = b.regs[t]
    BY <2>1 DEF Written, Reg
  <2> QED  BY <2>2 DEF ValueAt
<1> QED  BY <1>1, <1>2

\* A load at hand is still good after the next instruction: nothing wrote its
\* register or its address.
LEMMA CachedLoadStays ==
  ASSUME NEW p, IsProgram(p), LoadReuseAssumes(p), NEW h, IsKnown("load-reuse", p, Len(p), h),
         NEW k \in 1 .. Len(p), ~IsLabel(p[k]), ~ClearsLoads(p[k]),
         NEW c \in h[k-1], c \in AfterLoadReuse(p[k], h[k-1])
  PROVE  c.dest # p[k].dest /\ c.addr # Reg(p[k].dest)
<1>1. Len(p) \in Nat /\ p[k] \in Items /\ WellFormed(p[k]) /\ k - 1 \in 0 .. Len(p)
  BY ProgramFacts
<1>2. Origin(p, k - 1, c)
  BY <1>1, CacheOrigins
<1>3. PICK j \in 1 .. k - 1 : /\ p[j].op = "ld" /\ p[j].dest = c.dest /\ p[j].args[1] = c.addr
                              /\ \A l \in j .. k - 1 : ~IsLabel(p[l]) /\ ~ClearsLoads(p[l])
  BY <1>2 DEF Origin
<1>4. j \in 1 .. Len(p) /\ j <= k /\ j < k /\ \A l \in j .. k : l = k \/ l \in j .. k - 1
  BY <1>1
<1>5. \A l \in j .. k : ~IsLabel(p[l]) /\ ~ClearsLoads(p[l])
  BY <1>3, <1>4
<1>6. p[k].dest # p[j].dest /\ (p[k].op \in {"ld", "fma"} => Reg(p[k].dest) # p[j].args[1])
  BY <1>3, <1>4, <1>5 DEF LoadReuseAssumes
<1>7. ASSUME p[k].op \notin {"ld", "fma"} PROVE c.addr # Reg(p[k].dest)
  <2>1. DestinationRegister(p[k]) = p[k].dest
    BY <1>1, <1>7, OpenFacts
  <2> QED  BY <1>7, <2>1 DEF AfterLoadReuse
<1> QED  BY <1>3, <1>6, <1>7

\* The loads at hand after an instruction are good there.
LEMMA ReuseCarries ==
  ASSUME NEW p, IsProgram(p), LoadReuseAssumes(p), NEW h, IsKnown("load-reuse", p, Len(p), h),
         NEW b, IsLane(p, b), b.pc \in 1 .. Len(p), ~IsLabel(p[b.pc]), Knows("load-reuse", h[b.pc - 1], b)
  PROVE  Knows("load-reuse", h[b.pc], LaneStep(p, b))
<1> DEFINE k == b.pc
           i == p[k]
           a == LaneStep(p, b)
           x == Result(i, Operands(i, b), b)
<1>1. Len(p) \in Nat /\ i \in Items /\ WellFormed(i) /\ k \in 1 .. Len(p) /\ ~IsLabel(i)
  BY ProgramFacts
<1>2. h[k] = AfterLoadReuse(i, h[k-1])
  <2>1. \A n \in 0 .. Len(p) : h[n] = IF n = 0 \/ IsLabel(p[n]) THEN {} ELSE AfterLoadReuse(p[n], h[n-1])
    BY DEF IsKnown, Carried
  <2>2. k \in 0 .. Len(p) /\ k # 0
    BY <1>1
  <2> QED  BY <2>1, <2>2
<1>3. Effect(p, b, a)
  BY StepEffect
<1>4. CacheHolds(h[k-1], b)
  BY DEF Knows
<1>5. CASE ClearsLoads(i)
  BY <1>2, <1>5 DEF AfterLoadReuse, CacheHolds, Knows
<1>6. CASE ~ClearsLoads(i)
  <2>1. WritesNow(i, b) /\ ~StoresNow(i, b) /\ i.dest \in DataRegs \cup PredRegs
    BY <1>1, <1>6, OpenFacts DEF WritesNow, StoresNow, GuardHolds
  <2>2. Written(b.regs, i.dest, x, a.regs) /\ a.mem = b.mem
    BY <1>3, <2>1 DEF Effect, Written, IsLane
  <2>3. a.regs[i.dest] = x /\ \A t \in DataRegs \cup PredRegs : t # i.dest => a.regs[t] = b.regs[t]
    BY <2>1, <2>2 DEF Written
  <2>4. Written(b.regs, i.dest, a.regs[i.dest], a.regs)
    BY <2>2, <2>3
  <2> HIDE DEF a, x
  <2>5. ASSUME NEW c \in h[k]
        PROVE  c.dest \in DataRegs \cup PredRegs /\ a.regs[c.dest] = a.mem[ValueAt(c.addr, a) % MemoryWords]
    <3>1. CASE c \in h[k-1]
      <4>1. c.dest # i.dest /\ c.addr # Reg(i.dest)
        BY <1>1, <1>2, <1>6, <2>5, <3>1, CachedLoadStays
      <4>2. PICK j \in 1 .. k - 1 : p[j].op = "ld" /\ p[j].args[1] = c.addr /\ ~ClearsLoads(p[j])
        <5>1. k - 1 \in 0 .. Len(p)
          BY <1>1
        <5>2. Origin(p, k - 1, c)
          BY <1>1, <3>1, <5>1, CacheOrigins
        <5>3. PICK j \in 1 .. k - 1 : /\ p[j].op = "ld" /\ p[j].dest = c.dest /\ p[j].args[1] = c.addr
                                      /\ \A l \in j .. k - 1 : ~IsLabel(p[l]) /\ ~ClearsLoads(p[l])
          BY <5>2 DEF Origin
        <5>4. j \in j .. k - 1
          BY <1>1
        <5> QED  BY <5>3, <5>4
      <4>3. j \in 1 .. Len(p)
        BY <1>1
      <4>4. p[j] \in Items /\ WellFormed(p[j]) /\ 1 \in DOMAIN p[j].args
        BY <4>2, <4>3, ProgramFacts, OpenFacts
      <4>5. ValueAt(c.addr, a) = ValueAt(c.addr, b)
        <5>1. IsOperand(c.addr)
          BY <4>2, <4>4, OperandsOf
        <5> QED  BY <2>4, <4>1, <5>1, ValueStays
      <4>6. c.dest \in DataRegs \cup PredRegs /\ b.regs[c.dest] = b.mem[ValueAt(c.addr, b) % MemoryWords]
        BY <1>4, <3>1 DEF CacheHolds
      <4> QED  BY <2>2, <2>3, <4>1, <4>5, <4>6
    <3>2. CASE c \notin h[k-1]
      <4>1. /\ i.op = "ld"
            /\ c \in {[addr |-> i.args[1], type |-> i.type, dest |-> i.dest]}
        BY <1>2, <1>6, <2>5, <3>2 DEF AfterLoadReuse
      <4>2. c.addr = i.args[1] /\ c.dest = i.dest
        BY <4>1
      <4>3. 1 \in DOMAIN i.args
        BY <1>1, <1>6, <4>1, OpenFacts
      <4>4. Reg(i.dest) # i.args[1]
        <5>1. k <= k /\ \A l \in k .. k : l = k
          BY <1>1
        <5> HIDE DEF k
        <5>2. \A l \in k .. k : ~IsLabel(p[l]) /\ ~ClearsLoads(p[l])
          BY <1>1, <1>6, <5>1
        <5> QED  BY <1>1, <4>1, <5>1, <5>2 DEF LoadReuseAssumes
      <4>5. ValueAt(c.addr, a) = ValueAt(c.addr, b)
        <5>1. IsOperand(c.addr)
          BY <1>1, <4>2, <4>3, OperandsOf
        <5> QED  BY <2>4, <4>2, <4>4, <5>1, ValueStays
      <4>6. x = b.mem[ValueAt(i.args[1], b) % MemoryWords]
        BY <4>1, <4>3 DEF x, Result, Operands, ValueAt
      <4> QED  BY <2>1, <2>2, <2>3, <4>2, <4>5, <4>6
    <3> QED  BY <3>1, <3>2
  <2>6. CacheHolds(h[k], a)
    BY <2>5 DEF CacheHolds
  <2> QED  BY <2>6 DEF Knows, a
<1> QED  BY <1>5, <1>6

\* Every hit finds the word it would load: the pass leaves a program that does
\* what it did.
LEMMA ReusePreserves ==
  ASSUME NEW p, IsProgram(p), LoadReuseAssumes(p)
  PROVE  Preserved(p, ReuseLoads(p))
<1>1. Len(p) \in Nat
  BY ProgramFacts
<1>2. PICK h : IsKnown("load-reuse", p, Len(p), h) /\ ReuseLoads(p) = ReusedBy(p, h)
  BY <1>1, ReuseIsByTable
<1> DEFINE q == ReusedBy(p, h)
           Same(k) == IsLabel(p[k]) \/ ClearsLoads(p[k]) \/ p[k].op # "ld" \/ CachedLoad(p[k], h[k-1]) = {}
           hit(k) == CHOOSE c \in CachedLoad(p[k], h[k-1]) : TRUE
<1>3. ASSUME NEW k \in 1 .. Len(p)
      PROVE  q[k] = IF Same(k) THEN p[k] ELSE [p[k] EXCEPT !.op = "mov", !.args = <<Reg(hit(k).dest)>>]
  BY DEF ReusedBy
<1>4. ASSUME NEW k \in 1 .. Len(p), ~Same(k)
      PROVE  /\ q[k].kind = p[k].kind /\ q[k].label = p[k].label /\ q[k].guarded = p[k].guarded
             /\ q[k].guard = p[k].guard /\ q[k].negated = p[k].negated /\ q[k].dest = p[k].dest
             /\ q[k].op = "mov" /\ q[k].args = <<Reg(hit(k).dest)>>
  <2>1. p[k] \in [kind: {"label", "bra", "ret", "op"}, label: STRING, op: STRING, type: STRING, compare: STRING, guard: STRING,
                  guarded: BOOLEAN, negated: BOOLEAN, dest: STRING, args: Seq([reg: STRING, imm: Int])]
    BY ProgramFacts DEF Items
  <2> DEFINE x == <<Reg(hit(k).dest)>>
  <2>2. q[k] = [p[k] EXCEPT !.op = "mov", !.args = x]
    BY <1>3, <1>4
  <2> HIDE DEF q, x
  <2>3. /\ q[k].kind = p[k].kind /\ q[k].label = p[k].label /\ q[k].guarded = p[k].guarded
        /\ q[k].guard = p[k].guard /\ q[k].negated = p[k].negated /\ q[k].dest = p[k].dest
        /\ q[k].op = "mov" /\ q[k].args = x
    BY <2>1, <2>2
  <2> QED  BY <2>3 DEF x
<1>5. SameShape(p, q)
  <2>1. q = [k \in 1 .. Len(p) |-> q[k]]
    BY DEF ReusedBy
  <2> HIDE DEF q, Same
  <2>2. \A k \in 1 .. Len(p) : q[k].kind = p[k].kind /\ q[k].label = p[k].label
    BY <1>3, <1>4
  <2> QED  BY <2>1, <2>2 DEF SameShape
<1>6. ASSUME NEW lane \in LaunchedLanes(p), NEW n \in Nat, RunLane(p, lane, n).pc \in 1 .. Len(p)
      PROVE  Matches(p[RunLane(p, lane, n).pc], q[RunLane(p, lane, n).pc], RunLane(p, lane, n))
  <2> DEFINE a == RunLane(p, lane, n)
             i == p[a.pc]
             j == q[a.pc]
             c == hit(a.pc)
  <2>1. CASE Same(a.pc)
    BY <1>3, <1>6, <2>1 DEF Matches
  <2>2. CASE ~Same(a.pc)
    <3>1. i \in Items /\ WellFormed(i)
      BY <1>6, ProgramFacts
    <3>2. /\ ~IsLabel(i) /\ ~ClearsLoads(i) /\ i.op = "ld"
          /\ c \in h[a.pc - 1] /\ c.addr = i.args[1]
      BY <2>2 DEF CachedLoad
    <3>3. CacheHolds(h[a.pc - 1], a)
      <4>1. \A b : IsLane(p, b) /\ b.pc \in 1 .. Len(p) /\ ~IsLabel(p[b.pc]) /\ Knows("load-reuse", h[b.pc - 1], b)
                   => Knows("load-reuse", h[b.pc], LaneStep(p, b))
        BY <1>2, ReuseCarries
      <4>2. Knows("load-reuse", h[a.pc - 1], a)
        BY <1>2, <1>6, <3>2, <4>1, TableHolds
      <4> QED  BY <4>2 DEF Knows
    <3>4. /\ j.kind = i.kind /\ j.guarded = i.guarded /\ j.guard = i.guard /\ j.negated = i.negated
          /\ j.dest = i.dest /\ j.op = "mov" /\ j.args = <<Reg(c.dest)>>
      BY <1>4, <1>6, <2>2
    <3> HIDE DEF a, i, j, c, q, Same
    <3>5. c.dest \in DataRegs \cup PredRegs /\ a.regs[c.dest] = a.mem[ValueAt(i.args[1], a) % MemoryWords]
      BY <3>2, <3>3 DEF CacheHolds
    <3>6. Result(i, Operands(i, a), a) = a.regs[c.dest]
      BY <3>1, <3>2, <3>5, OpenFacts DEF Result, Operands, ValueAt
    <3>7. Result(j, Operands(j, a), a) = a.regs[c.dest]
      <4>1. Reg(c.dest).reg = c.dest /\ c.dest # ""
        BY <3>5, RegistersAssumption DEF Reg
      <4>2. 1 \in DOMAIN j.args /\ j.args[1].reg = c.dest
        <5> HIDE DEF Reg
        <5>1. ASSUME NEW w PROVE 1 \in DOMAIN << w >> /\ (<< w >>)[1] = w
          OBVIOUS
        <5> QED  BY <3>4, <4>1, <5>1
      <4>3. Operands(j, a)[1] = a.regs[c.dest]
        BY <4>1, <4>2 DEF Operands
      <4> QED  BY <3>4, <4>3 DEF Result
    <3>8. i.kind = "op" /\ i.op # "st"
      BY <3>1, <3>2, OpenFacts
    <3>9. Matches(i, j, a)
      BY <3>4, <3>6, <3>7, <3>8 DEF Matches
    <3> QED  BY <3>9 DEF i, j, a
  <2> QED  BY <2>1, <2>2
<1> QED
  <2> HIDE DEF q
  <2> QED  BY <1>2, <1>5, <1>6, MatchedPreserved DEF q

-----------------------------------------------------------------------------
(* Blocks. *)

\* The least element of a set of naturals is First of it.
LEMMA FirstIsLeast ==
  ASSUME NEW S \in SUBSET Nat, S # {}
  PROVE  First(S) \in S /\ \A m \in S : First(S) <= m
<1>1. \E m \in S : \A k \in S : m <= k
  BY LeastElement
<1> QED  BY <1>1, Zenon DEF First

\* Leaders are positions of the program, the first one and the labels among them.
LEMMA LeadersFacts ==
  ASSUME NEW p, Len(p) \in Nat
  PROVE  Leaders(p) \subseteq 1 .. Len(p) + 1 /\ 1 \in Leaders(p) /\ LabelPositions(p) \subseteq Leaders(p)
         /\ (Len(p) > 0 => Leaders(p) \subseteq 1 .. Len(p))
BY DEF Leaders, LabelPositions

\* A block goes from its leader to the item before the next leader.
LEMMA BlockFacts ==
  ASSUME NEW p, Len(p) \in Nat, NEW b \in Leaders(p)
  PROVE  /\ BlockEnd(p, b) \in b - 1 .. Len(p) /\ (Len(p) > 0 => b <= BlockEnd(p, b))
         /\ \A k \in b + 1 .. BlockEnd(p, b) : k \notin Leaders(p)
         /\ BlockEnd(p, b) # Len(p) => BlockEnd(p, b) + 1 \in Leaders(p) /\ NextBlock(p, b) = BlockEnd(p, b) + 1
<1> DEFINE S == {l - 1 : l \in Later(p, b)} \cup {Len(p)}
<1>1. b \in 1 .. Len(p) + 1 /\ Leaders(p) \subseteq 1 .. Len(p) + 1 /\ (Len(p) > 0 => Leaders(p) \subseteq 1 .. Len(p))
  BY LeadersFacts
<1>2. Later(p, b) \subseteq b + 1 .. Len(p) + 1
  BY <1>1 DEF Later
<1>3. S \in SUBSET Nat /\ S # {} /\ BlockEnd(p, b) = First(S)
  BY <1>1, <1>2 DEF BlockEnd
<1> HIDE DEF S
<1>4. First(S) \in S /\ \A m \in S : First(S) <= m
  BY <1>3, FirstIsLeast
<1>5. BlockEnd(p, b) \in S /\ \A m \in S : BlockEnd(p, b) <= m
  BY <1>3, <1>4
<1>6. BlockEnd(p, b) \in b - 1 .. Len(p) /\ (Len(p) > 0 => b <= BlockEnd(p, b))
  BY <1>1, <1>2, <1>5 DEF S
<1>7. ASSUME NEW k \in b + 1 .. BlockEnd(p, b) PROVE k \notin Leaders(p)
  <2>1. SUFFICES ASSUME k \in Leaders(p) PROVE FALSE
    OBVIOUS
  <2>2. k \in Later(p, b)
    BY <1>1, <1>6, <2>1 DEF Later
  <2>3. k - 1 \in S
    BY <2>2 DEF S
  <2> QED  BY <1>1, <1>5, <1>6, <2>3
<1>8. ASSUME BlockEnd(p, b) # Len(p)
      PROVE  BlockEnd(p, b) + 1 \in Leaders(p) /\ NextBlock(p, b) = BlockEnd(p, b) + 1
  <2>1. PICK l \in Later(p, b) : BlockEnd(p, b) = l - 1
    BY <1>5, <1>8 DEF S
  <2>2. l \in Leaders(p) /\ BlockEnd(p, b) + 1 = l
    BY <1>2, <2>1 DEF Later
  <2>3. Later(p, b) \in SUBSET Nat /\ Later(p, b) # {}
    BY <1>1, <1>2, <2>1
  <2>4. NextBlock(p, b) \in Later(p, b) /\ \A m \in Later(p, b) : NextBlock(p, b) <= m
    BY <2>3, FirstIsLeast DEF NextBlock
  <2>5. NextBlock(p, b) - 1 \in S
    BY <2>4 DEF S
  <2>6. NextBlock(p, b) <= l /\ l - 1 <= NextBlock(p, b) - 1
    BY <1>5, <2>1, <2>4, <2>5
  <2> QED  BY <1>2, <2>1, <2>2, <2>4, <2>6
<1> QED  BY <1>6, <1>7, <1>8

\* Every item is in the block of its leader.
LEMMA InSomeBlock ==
  ASSUME NEW p, Len(p) \in Nat, NEW k \in 1 .. Len(p)
  PROVE  \E b \in Leaders(p) : k \in b .. BlockEnd(p, b)
<1> DEFINE S == {l \in Leaders(p) : l <= k}
<1>1. Leaders(p) \subseteq 1 .. Len(p) + 1 /\ 1 \in Leaders(p)
  BY LeadersFacts
<1>2. S \in SUBSET (0 .. k) /\ S # {} /\ k \in Nat
  BY <1>1
<1>3. PICK b \in S : \A l \in S : l <= b
  <2> HIDE DEF S
  <2>1. \A n \in Nat : \A T \in SUBSET (0 .. n) : T # {} => \E m \in T : \A l \in T : l <= m
    BY GreatestElement
  <2> QED  BY <1>2, <2>1
<1>4. b \in Leaders(p) /\ b <= k /\ b \in 1 .. Len(p) + 1
  BY <1>1
<1>5. /\ BlockEnd(p, b) \in b - 1 .. Len(p)
      /\ BlockEnd(p, b) # Len(p) => BlockEnd(p, b) + 1 \in Leaders(p)
  BY <1>4, BlockFacts
<1>6. ASSUME BlockEnd(p, b) < k PROVE FALSE
  <2>1. (BlockEnd(p, b) + 1 \in S /\ ~(BlockEnd(p, b) + 1 <= b)) \/ BlockEnd(p, b) = b - 1
    BY <1>4, <1>5, <1>6
  <2>2. b <= BlockEnd(p, b)
    BY <1>4, BlockFacts
  <2> QED  BY <1>3, <1>4, <1>5, <2>1, <2>2
<1> QED  BY <1>4, <1>5, <1>6

\* Control goes from one item of a block to the next, or from its last item to
\* one of its successors (a guarded return would go on without an edge).
LEMMA ControlFollowsTheGraph ==
  ASSUME NEW p, IsProgram(p), NEW a, IsLane(p, a), NEW b \in Leaders(p), a.pc \in b .. BlockEnd(p, b),
         LaneStep(p, a).pc <= Len(p), p[a.pc].kind = "ret" => ~p[a.pc].guarded
  PROVE  \/ a.pc < BlockEnd(p, b) /\ LaneStep(p, a).pc = a.pc + 1 /\ LaneStep(p, a).pc \notin Leaders(p)
         \/ a.pc = BlockEnd(p, b) /\ LaneStep(p, a).pc \in Successors(p, b) /\ LaneStep(p, a).pc \in Leaders(p)
<1> DEFINE s == LaneStep(p, a)
           i == p[a.pc]
           e == BlockEnd(p, b)
<1>1. Len(p) \in Nat
  BY ProgramFacts
<1>2. /\ e \in b - 1 .. Len(p) /\ b \in 1 .. Len(p) + 1 /\ (\A k \in b + 1 .. e : k \notin Leaders(p))
      /\ e # Len(p) => e + 1 \in Leaders(p) /\ NextBlock(p, b) = e + 1
  BY <1>1, BlockFacts, LeadersFacts
<1>3. a.pc \in 1 .. Len(p)
  BY <1>1, <1>2
<1>4. Effect(p, a, s) /\ IsLane(p, s)
  BY <1>3, StepEffect
<1>5. s.pc \in 1 .. Len(p)
  BY <1>1, <1>4 DEF IsLane
<1>6. i \in Items /\ WellFormed(i)
  BY <1>3, ProgramFacts
<1>7. ASSUME EndsBlock(i) PROVE a.pc = e
  <2>1. SUFFICES ASSUME a.pc < e PROVE FALSE
    BY <1>1, <1>2
  <2>2. a.pc \in {j \in 1 .. Len(p) - 1 : EndsBlock(p[j])} /\ a.pc + 1 \in b + 1 .. e
    BY <1>1, <1>2, <1>3, <1>7, <2>1
  <2>3. a.pc + 1 \in Leaders(p)
    BY <2>2 DEF Leaders
  <2> QED  BY <1>2, <2>2, <2>3
<1>8. CASE a.pc < e
  <2>1. s.pc = a.pc + 1
    BY <1>2, <1>3, <1>4, <1>7, <1>8 DEF Effect
  <2> QED  BY <1>2, <1>3, <1>8, <2>1
<1>9. CASE a.pc = e
  <2>1. LabelPositions(p) \subseteq Leaders(p) /\ LabelPositions(p) \subseteq 1 .. Len(p)
    BY <1>1, LeadersFacts DEF LabelPositions
  <2>2. CASE s.pc = a.pc + 1 /\ (~EndsBlock(i) \/ (IsBranch(i) /\ i.guarded))
    <3>1. e # Len(p) /\ s.pc = e + 1 /\ e + 1 \in Leaders(p) /\ NextBlock(p, b) = e + 1
      BY <1>1, <1>2, <1>5, <1>9, <2>2
    <3>2. Later(p, b) # {}
      <4>1. e + 1 \in Later(p, b)
        BY <1>2, <3>1 DEF Later
      <4> QED  BY <4>1
    <3>3. FallsThrough(p, b)
      BY <1>9, <2>2, <3>2 DEF FallsThrough
    <3> QED  BY <1>9, <3>1, <3>3 DEF Successors
  <2>3. CASE ~(s.pc = a.pc + 1 /\ (~EndsBlock(i) \/ (IsBranch(i) /\ i.guarded)))
    <3>1. i.kind \in {"bra", "ret"} /\ GuardHolds(i, a)
      <4>1. CASE ~EndsBlock(i)
        BY <1>4, <2>3, <4>1 DEF Effect
      <4>2. CASE EndsBlock(i) /\ ~GuardHolds(i, a)
        <5>1. s = [a EXCEPT !.pc = @ + 1] /\ i.guarded
          BY <1>3, <4>2, StepOf DEF GuardHolds
        <5>2. s.pc = a.pc + 1
          BY <5>1 DEF IsLane, LaneFields
        <5>3. i.kind = "ret"
          BY <2>3, <4>2, <5>1, <5>2 DEF EndsBlock, IsBranch
        <5> QED  BY <5>1, <5>3
      <4> QED  BY <4>1, <4>2 DEF EndsBlock
    <3>2. s.pc = NextPC(p, a.pc)
      <4>1. s = [a EXCEPT !.pc = NextPC(p, @)]
        BY <1>3, <3>1, StepOf
      <4> QED  BY <4>1 DEF IsLane, LaneFields
    <3>3. IsBranch(i)
      BY <1>1, <1>5, <3>1, <3>2 DEF NextPC, Stopped, IsBranch
    <3>4. s.pc = LabelAt(p, i.label) /\ s.pc \in LabelPositions(p)
      <4>1. LabelAt(p, i.label) \in LabelPositions(p)
        BY <1>3, <3>3, ProgramFacts
      <4>2. NextPC(p, a.pc) = LabelAt(p, i.label)
        BY <3>3 DEF NextPC, IsBranch
      <4> QED  BY <3>2, <4>1, <4>2
    <3>5. Instructions(p, b) # {}
      <4>1. ~IsLabel(i)
        BY <3>3 DEF IsLabel, IsBranch
      <4>2. a.pc \in Instructions(p, b)
        BY <4>1 DEF Instructions
      <4> QED  BY <4>2
    <3>6. s.pc \in BranchTargets(p, b)
      BY <1>9, <3>3, <3>4, <3>5 DEF BranchTargets
    <3> QED  BY <1>9, <2>1, <3>4, <3>6 DEF Successors
  <2> QED  BY <2>2, <2>3
<1> QED  BY <1>2, <1>3, <1>8, <1>9

-----------------------------------------------------------------------------
(* GlobalConstantPropagationPass: its operators, with the program named.    *)

EntryOf(p, b, o) ==
  LET preds == {q \in DOMAIN o : b \in Successors(p, q)}
  IN  {c \in UNION {o[q] : q \in preds} : \A q \in preds : c \in o[q]}

\* The constants known after the items of a block, from those at its entry.
ExitTable(p, b, known, h) ==
  h = [k \in b - 1 .. BlockEnd(p, b) |-> IF k = b - 1 THEN known ELSE Transfer(p[k], h[k-1])]
ExitOf(p, b, o) == (CHOOSE h : ExitTable(p, b, EntryOf(p, b, o), h))[BlockEnd(p, b)]

\* They are the operators of the pass.
LEMMA ExitsNamed ==
  \A b, o : AtExit(b, AtEntry(b, o)) = ExitOf(source, b, o)
<1>1. \A b, o : AtEntry(b, o) = EntryOf(source, b, o)
  BY DEF AtEntry, EntryOf
<1>2. \A b, known : AtExit(b, known) = (CHOOSE h : ExitTable(source, b, known, h))[BlockEnd(source, b)]
  BY Zenon DEF AtExit, ExitTable
<1> QED  BY <1>1, <1>2, Zenon DEF ExitOf

\* The constants in front of every item, by the dataflow or by the sweep, when
\* the blocks leave o.
CPCarried(name, i, known) == IF name = "dataflow" THEN Transfer(i, known) ELSE AfterItem(i, known)
Fronts(name, p, o, n, h) ==
  h = [k \in 1 .. n |-> IF k \in Leaders(p) THEN EntryOf(p, k, o) ELSE CPCarried(name, p[k-1], h[k-1])]

\* Such a table exists.
LEMMA FrontsExist ==
  ASSUME NEW name, NEW p, Len(p) \in Nat, NEW o, NEW n \in Nat
  PROVE  \E h : Fronts(name, p, o, n, h)
<1> DEFINE S == {m \in Nat : \E h : Fronts(name, p, o, m, h)}
<1>1. 0 \in S
  <2> DEFINE h == [k \in 1 .. 0 |-> {}]
  <2>1. h = [k \in 1 .. 0 |-> IF k \in Leaders(p) THEN EntryOf(p, k, o) ELSE CPCarried(name, p[k-1], h[k-1])]
    OBVIOUS
  <2> HIDE DEF h
  <2>2. Fronts(name, p, o, 0, h)
    BY <2>1 DEF Fronts
  <2> QED  BY <2>2
<1>2. ASSUME NEW m \in Nat, m \in S PROVE m + 1 \in S
  <2>1. PICK h : Fronts(name, p, o, m, h)
    BY <1>2
  <2>2. h = [k \in 1 .. m |-> IF k \in Leaders(p) THEN EntryOf(p, k, o) ELSE CPCarried(name, p[k-1], h[k-1])]
    BY <2>1 DEF Fronts
  <2> DEFINE last == IF m + 1 \in Leaders(p) THEN EntryOf(p, m + 1, o) ELSE CPCarried(name, p[m], h[m])
             i == [k \in 1 .. m + 1 |-> IF k = m + 1 THEN last ELSE h[k]]
  <2>3. ASSUME NEW k \in 1 .. m + 1
        PROVE  i[k] = IF k \in Leaders(p) THEN EntryOf(p, k, o) ELSE CPCarried(name, p[k-1], i[k-1])
    <3>1. CASE k = m + 1 /\ m # 0
      <4>1. k - 1 = m /\ m \in 1 .. m + 1 /\ m # m + 1
        BY <3>1
      <4>2. i[k] = last /\ i[m] = h[m]
        BY <3>1, <4>1
      <4> HIDE DEF i
      <4> QED  BY <3>1, <4>1, <4>2
    <3>2. CASE k = 1
      <4>1. 1 \in Leaders(p)
        BY LeadersFacts
      <4>2. CASE m = 0
        <5>1. i[k] = EntryOf(p, k, o)
          BY <3>2, <4>1, <4>2
        <5> QED  BY <3>2, <4>1, <5>1
      <4>3. CASE m # 0
        <5>1. 1 \in 1 .. m /\ k # m + 1
          BY <3>2, <4>3
        <5>2. i[k] = h[1] /\ h[1] = EntryOf(p, 1, o)
          BY <2>2, <3>2, <4>1, <5>1
        <5> HIDE DEF i
        <5> QED  BY <3>2, <4>1, <5>2
      <4> QED  BY <4>2, <4>3
    <3>3. CASE k # m + 1 /\ k # 1
      <4>1. k \in 1 .. m /\ i[k] = h[k]
        BY <3>3
      <4>2. k - 1 \in 1 .. m + 1 /\ k - 1 # m + 1
        BY <3>3
      <4>3. i[k-1] = h[k-1]
        BY <4>2
      <4> HIDE DEF i
      <4> QED  BY <2>2, <4>1, <4>3
    <3> QED  BY <3>1, <3>2, <3>3
  <2>4. i = [k \in 1 .. m + 1 |-> i[k]]
    OBVIOUS
  <2> HIDE DEF i
  <2>5. Fronts(name, p, o, m + 1, i)
    BY <2>3, <2>4 DEF Fronts
  <2> QED  BY <2>5
<1>3. Nat \subseteq S
  <2> HIDE DEF S
  <2> QED  BY <1>1, <1>2, InductionOnSet
<1> QED  BY <1>3

\* More known before an instruction is more known after it.
LEMMA ResolveGrows ==
  ASSUME NEW a, NEW type, NEW k1, NEW k2, k1 \subseteq k2
  PROVE  Resolve(a, type, k1) \subseteq Resolve(a, type, k2)
BY DEF Resolve

\* The value of a result stays known,
LEMMA FoldedGrows ==
  ASSUME NEW i, NEW k1, NEW k2, k1 \subseteq k2
  PROVE  NewConstant(i, k1) \subseteq NewConstant(i, k2)
<1>1. ASSUME NEW k PROVE Resolved(i, k, k1) \subseteq Resolved(i, k, k2)
  BY ResolveGrows DEF Resolved
<1> HIDE DEF Resolved
<1>2. Folds(i, k1) => Folds(i, k2)
  BY <1>1 DEF Folds
<1>3. FoldedResult(i, k1) \subseteq FoldedResult(i, k2)
  <2>1. CASE \E k \in DOMAIN i.args : Resolved(i, k, k1) = {}
    BY <2>1 DEF FoldedResult
  <2>2. CASE ~ \E k \in DOMAIN i.args : Resolved(i, k, k1) = {}
    <3>1. ~ \E k \in DOMAIN i.args : Resolved(i, k, k2) = {}
      BY <1>1, <2>2
    <3>2. CASE i.op = "mov"
      BY <1>1, <2>2, <3>1, <3>2 DEF FoldedResult
    <3>3. CASE i.op # "mov"
      <4> DEFINE R(known) == {Arith(i.op, i.type, a, b) : a \in Resolved(i, 1, known), b \in Resolved(i, 2, known)}
      <4>1. R(k1) \subseteq R(k2)
        BY <1>1
      <4>2. /\ FoldedResult(i, k1) = IF i.op = "and" \/ (i.op # "mad" /\ i.type = "u32") THEN R(k1) ELSE {}
            /\ FoldedResult(i, k2) = IF i.op = "and" \/ (i.op # "mad" /\ i.type = "u32") THEN R(k2) ELSE {}
        BY <2>2, <3>1, <3>3 DEF FoldedResult
      <4> QED  BY <4>1, <4>2
    <3> QED  BY <3>2, <3>3
  <2> QED  BY <2>1, <2>2
<1> QED  BY <1>2, <1>3 DEF NewConstant

\* and with it all that is carried past the instruction.
LEMMA TransferGrows ==
  ASSUME NEW i, NEW k1, NEW k2, k1 \subseteq k2
  PROVE  Transfer(i, k1) \subseteq Transfer(i, k2)
<1>1. NewConstant(i, k1) \subseteq NewConstant(i, k2)
  BY FoldedGrows
<1>2. \A r : Forget(k1, r) \subseteq Forget(k2, r)
  BY DEF Forget
<1>3. \A r, type : Learn(k1, r, type, NewConstant(i, k1)) \subseteq Learn(k2, r, type, NewConstant(i, k2))
  BY <1>1, <1>2 DEF Learn
<1> QED  BY <1>3 DEF Transfer

\* So what a block leaves grows with what it is given.
LEMMA TablesGrow ==
  ASSUME NEW p, Len(p) \in Nat, NEW b \in Leaders(p), NEW k1, NEW k2, k1 \subseteq k2,
         NEW g, ExitTable(p, b, k1, g), NEW h, ExitTable(p, b, k2, h), NEW k \in b - 1 .. BlockEnd(p, b)
  PROVE  g[k] \subseteq h[k]
<1> DEFINE e == BlockEnd(p, b)
           S == {m \in Nat : b - 1 + m <= e => g[b - 1 + m] \subseteq h[b - 1 + m]}
<1>1. b \in 1 .. Len(p) + 1 /\ e \in b - 1 .. Len(p)
  BY BlockFacts, LeadersFacts
<1> HIDE DEF e
<1>2. \A l \in b - 1 .. e : /\ g[l] = IF l = b - 1 THEN k1 ELSE Transfer(p[l], g[l-1])
                            /\ h[l] = IF l = b - 1 THEN k2 ELSE Transfer(p[l], h[l-1])
  BY DEF ExitTable, e
<1>3. 0 \in S
  BY <1>1, <1>2
<1>4. ASSUME NEW m \in Nat, m \in S PROVE m + 1 \in S
  <2> DEFINE l == b - 1 + (m + 1)
  <2>1. SUFFICES ASSUME l <= e PROVE g[l] \subseteq h[l]
    OBVIOUS
  <2>2. l \in b - 1 .. e /\ l # b - 1 /\ l - 1 = b - 1 + m /\ b - 1 + m <= e
    BY <1>1, <2>1
  <2> HIDE DEF l
  <2>3. g[l-1] \subseteq h[l-1]
    BY <1>4, <2>2
  <2>4. g[l] = Transfer(p[l], g[l-1]) /\ h[l] = Transfer(p[l], h[l-1])
    BY <1>2, <2>2
  <2> QED  BY <2>3, <2>4, TransferGrows
<1>5. Nat \subseteq S
  <2> HIDE DEF S
  <2> QED  BY <1>3, <1>4, InductionOnSet
<1>6. k - (b - 1) \in Nat /\ b - 1 + (k - (b - 1)) = k /\ k <= e
  BY <1>1 DEF e
<1> QED  BY <1>5, <1>6

\* What a block leaves is what the dataflow carries past its last item.
LEMMA ExitIsFront ==
  ASSUME NEW p, Len(p) \in Nat, Len(p) > 0, NEW o, NEW h, Fronts("dataflow", p, o, Len(p), h), NEW b \in Leaders(p)
  PROVE  /\ ExitOf(p, b, o) = Transfer(p[BlockEnd(p, b)], h[BlockEnd(p, b)])
         /\ \E g : ExitTable(p, b, EntryOf(p, b, o), g) /\ ExitOf(p, b, o) = g[BlockEnd(p, b)]
<1> DEFINE e == BlockEnd(p, b)
           known == EntryOf(p, b, o)
           g == [k \in b - 1 .. e |-> IF k = b - 1 THEN known ELSE Transfer(p[k], h[k])]
<1>1. b \in 1 .. Len(p) /\ e \in b .. Len(p) /\ \A k \in b + 1 .. e : k \notin Leaders(p)
  BY BlockFacts, LeadersFacts
<1>2. \A k \in 1 .. Len(p) : h[k] = IF k \in Leaders(p) THEN EntryOf(p, k, o) ELSE Transfer(p[k-1], h[k-1])
  BY DEF Fronts, CPCarried
<1> HIDE DEF e, known
<1>3. ASSUME NEW k \in b - 1 .. e PROVE g[k] = IF k = b - 1 THEN known ELSE Transfer(p[k], g[k-1])
  <2>1. CASE k = b - 1
    BY <2>1
  <2>2. CASE k # b - 1
    <3>1. k \in b .. e /\ k - 1 \in b - 1 .. e /\ k \in 1 .. Len(p)
      BY <1>1, <2>2
    <3>2. g[k-1] = h[k]
      <4>1. CASE k = b
        <5>1. g[k-1] = known
          BY <3>1, <4>1
        <5> QED  BY <1>2, <3>1, <4>1, <5>1 DEF known
      <4>2. CASE k # b
        <5>1. k \in b + 1 .. e /\ k - 1 # b - 1
          BY <1>1, <3>1, <4>2
        <5>2. g[k-1] = Transfer(p[k-1], h[k-1])
          BY <3>1, <5>1
        <5> QED  BY <1>1, <1>2, <3>1, <5>1, <5>2
      <4> QED  BY <4>1, <4>2
    <3>3. g[k] = Transfer(p[k], h[k])
      BY <2>2
    <3> QED  BY <2>2, <3>2, <3>3
  <2> QED  BY <2>1, <2>2
<1>4. g = [k \in b - 1 .. e |-> g[k]] /\ g[e] = Transfer(p[e], h[e])
  BY <1>1
<1> HIDE DEF g
<1>5. ExitTable(p, b, known, g)
  BY <1>3, <1>4 DEF ExitTable, e
<1> DEFINE f == CHOOSE x : ExitTable(p, b, known, x)
<1>6. ExitTable(p, b, known, f)
  BY <1>5, Zenon
<1>7. ExitOf(p, b, o) = f[e]
  BY DEF ExitOf, known, e
<1> HIDE DEF f
<1>8. f[e] = g[e]
  <2>1. e \in b - 1 .. e
    BY <1>1
  <2>2. f[e] \subseteq g[e] /\ g[e] \subseteq f[e]
    BY <1>5, <1>6, <2>1, TablesGrow DEF e
  <2> QED  BY <2>2
<1> QED  BY <1>4, <1>5, <1>7, <1>8 DEF e, known

\* Each block leaves at least what it left, if its predecessors do.
LEMMA EntryGrows ==
  ASSUME NEW p, NEW b, NEW o1, NEW o2, DOMAIN o1 = DOMAIN o2, \A q \in DOMAIN o1 : o1[q] \subseteq o2[q]
  PROVE  EntryOf(p, b, o1) \subseteq EntryOf(p, b, o2)
BY DEF EntryOf

\* and so does what is carried to its end.
LEMMA ExitGrows ==
  ASSUME NEW p, Len(p) \in Nat, Len(p) > 0, NEW b \in Leaders(p), NEW o1, NEW o2,
         DOMAIN o1 = DOMAIN o2, \A q \in DOMAIN o1 : o1[q] \subseteq o2[q]
  PROVE  ExitOf(p, b, o1) \subseteq ExitOf(p, b, o2)
<1>1. EntryOf(p, b, o1) \subseteq EntryOf(p, b, o2)
  BY EntryGrows
<1>2. ASSUME NEW o PROVE \E g : ExitTable(p, b, EntryOf(p, b, o), g) /\ ExitOf(p, b, o) = g[BlockEnd(p, b)]
  <2>1. PICK h : Fronts("dataflow", p, o, Len(p), h)
    BY FrontsExist
  <2> QED  BY <2>1, ExitIsFront
<1>3. PICK g1 : ExitTable(p, b, EntryOf(p, b, o1), g1) /\ ExitOf(p, b, o1) = g1[BlockEnd(p, b)]
  BY <1>2
<1>4. PICK g2 : ExitTable(p, b, EntryOf(p, b, o2), g2) /\ ExitOf(p, b, o2) = g2[BlockEnd(p, b)]
  BY <1>2
<1>5. BlockEnd(p, b) \in b - 1 .. BlockEnd(p, b)
  BY BlockFacts, LeadersFacts
<1> DEFINE k1 == EntryOf(p, b, o1)
           k2 == EntryOf(p, b, o2)
<1>6. k1 \subseteq k2 /\ ExitTable(p, b, k1, g1) /\ ExitTable(p, b, k2, g2)
  BY <1>1, <1>3, <1>4
<1> HIDE DEF k1, k2
<1>7. ASSUME NEW k \in b - 1 .. BlockEnd(p, b) PROVE g1[k] \subseteq g2[k]
  BY <1>6, TablesGrow
<1> QED  BY <1>3, <1>4, <1>5, <1>7

\* The inductive invariant: out is a function on the blocks, the round is at one
\* of them or through, and visiting a block again would take nothing away.
Grown(p, o) == \A b \in Leaders(p) : Len(p) > 0 => o[b] \subseteq ExitOf(p, b, o)
DataflowInv ==
  stage = "dataflow" =>
    /\ pass = "global-cp" /\ IsProgram(source)
    /\ out = [b \in Leaders(source) |-> out[b]]
    /\ block \in Leaders(source) \cup {Len(source) + 1}
    /\ Grown(source, out)

\* Visiting a block only adds to what it leaves.
LEMMA VisitAdds ==
  ASSUME DataflowInv, VisitBlock, pass' = pass
  PROVE  /\ DOMAIN out' = DOMAIN out /\ \A b \in Leaders(source) : out[b] \subseteq out'[b]
         /\ out'[block] = ExitOf(source, block, out)
         /\ \A b \in Leaders(source) : b # block => out'[b] = out[b]
<1>1. /\ stage = "dataflow" /\ block <= Len(source) /\ source' = source
      /\ out' = [out EXCEPT ![block] = ExitOf(source, block, out)]
  BY ExitsNamed DEF VisitBlock
<1>2. /\ IsProgram(source) /\ out = [b \in Leaders(source) |-> out[b]] /\ Grown(source, out)
      /\ block \in Leaders(source) \cup {Len(source) + 1}
  BY <1>1 DEF DataflowInv
<1>3. Len(source) \in Nat
  BY <1>2, ProgramFacts
<1>4. block \in Leaders(source) /\ Len(source) > 0 /\ DOMAIN out = Leaders(source)
  BY <1>1, <1>2, <1>3, LeadersFacts
<1>5. out[block] \subseteq ExitOf(source, block, out)
  BY <1>2, <1>4 DEF Grown
<1> QED  BY <1>1, <1>4, <1>5

\* The block after a block is another one, or none is left.
LEMMA AfterFacts ==
  ASSUME NEW b \in Leaders(source), Len(source) \in Nat
  PROVE  After(b) \in Leaders(source) \cup {Len(source) + 1}
<1>1. SUFFICES ASSUME Later(source, b) # {} PROVE NextBlock(source, b) \in Leaders(source)
  BY DEF After
<1>2. Later(source, b) \in SUBSET Nat
  BY LeadersFacts DEF Later
<1>3. NextBlock(source, b) \in Later(source, b)
  BY <1>1, <1>2, FirstIsLeast DEF NextBlock
<1> QED  BY <1>3 DEF Later

\* It holds when nothing is known,
LEMMA DataflowStarts == Init => DataflowInv
<1>1. SUFFICES ASSUME Init, stage = "dataflow" PROVE DataflowInv
  BY DEF DataflowInv
<1>2. pass = "global-cp" /\ CPInit
  BY <1>1 DEF Init
<1>3. IsProgram(source) /\ block = 1 /\ out = [b \in Leaders(source) |-> {}]
  BY <1>2, SourcesAssumption DEF CPInit
<1>4. 1 \in Leaders(source) /\ \A b \in Leaders(source) : out[b] = {}
  BY <1>3 DEF Leaders
<1>5. Grown(source, out)
  BY <1>4 DEF Grown
<1> QED  BY <1>2, <1>3, <1>4, <1>5 DEF DataflowInv

\* and every step keeps it.
LEMMA DataflowGoesOn ==
  ASSUME DataflowInv, [Next]_vars
  PROVE  DataflowInv'
<1>1. CASE Propagate /\ VisitBlock
  <2>1. /\ stage = "dataflow" /\ stage' = stage /\ source' = source /\ pass' = pass /\ block <= Len(source)
        /\ block' = After(block) /\ out' = [out EXCEPT ![block] = AtExit(block, AtEntry(block, out))]
    BY <1>1 DEF VisitBlock, Propagate
  <2>2. /\ IsProgram(source) /\ pass = "global-cp" /\ out = [b \in Leaders(source) |-> out[b]] /\ Grown(source, out)
        /\ block \in Leaders(source) \cup {Len(source) + 1}
    BY <2>1 DEF DataflowInv
  <2>3. Len(source) \in Nat
    BY <2>2, ProgramFacts
  <2>4. block \in Leaders(source) /\ Len(source) > 0
    BY <2>1, <2>2, <2>3
  <2>5. /\ DOMAIN out' = DOMAIN out /\ \A b \in Leaders(source) : out[b] \subseteq out'[b]
        /\ out'[block] = ExitOf(source, block, out)
        /\ \A b \in Leaders(source) : b # block => out'[b] = out[b]
    BY <1>1, <2>1, VisitAdds
  <2>6. DOMAIN out = Leaders(source)
    BY <2>2
  <2>7. ASSUME NEW b \in Leaders(source) PROVE out'[b] \subseteq ExitOf(source, b, out')
    <3>1. ExitOf(source, b, out) \subseteq ExitOf(source, b, out')
      BY <2>3, <2>4, <2>5, <2>6, ExitGrows
    <3>2. out'[b] \subseteq ExitOf(source, b, out)
      BY <2>2, <2>4, <2>5 DEF Grown
    <3> QED  BY <3>1, <3>2
  <2>8. Grown(source', out')
    BY <2>1, <2>7 DEF Grown
  <2>9. out' = [b \in Leaders(source') |-> out'[b]]
    BY <2>1, <2>2
  <2>10. block' \in Leaders(source') \cup {Len(source') + 1}
    BY <2>1, <2>3, <2>4, AfterFacts
  <2> QED  BY <2>1, <2>2, <2>8, <2>9, <2>10 DEF DataflowInv
<1>2. CASE Propagate /\ EndRound
  <2>1. stage = "dataflow" /\ source' = source /\ out' = out /\ pass' = pass /\ block' \in {block, 1}
    BY <1>2 DEF Propagate, EndRound
  <2>2. 1 \in Leaders(source)
    BY DEF Leaders
  <2>3. /\ IsProgram(source) /\ pass = "global-cp" /\ out = [b \in Leaders(source) |-> out[b]] /\ Grown(source, out)
        /\ block \in Leaders(source) \cup {Len(source) + 1}
    BY <2>1 DEF DataflowInv
  <2>4. block' \in Leaders(source') \cup {Len(source') + 1}
    BY <2>1, <2>2, <2>3
  <2>5. out' = [b \in Leaders(source') |-> out'[b]] /\ IsProgram(source') /\ pass' = "global-cp"
    BY <2>1, <2>3
  <2>6. Grown(source', out')
    BY <2>1, <2>3
  <2> QED  BY <2>4, <2>5, <2>6 DEF DataflowInv
<1>3. CASE (Propagate /\ Apply) \/ Rewrite
  BY <1>3 DEF Propagate, Apply, Rewrite, DataflowInv
<1>4. CASE UNCHANGED vars
  BY <1>4 DEF vars, cpVars, DataflowInv, Grown
<1> QED  BY <1>1, <1>2, <1>3, <1>4 DEF Next, Propagate, CPNext

\* So it holds throughout.
THEOREM DataflowInvariance == Spec => []DataflowInv
BY DataflowStarts, DataflowGoesOn, PTL DEF Spec

\* A round only adds constants.
THEOREM RoundsOnlyAdd == Spec => ConstantsOnlyGrow
<1>1. DataflowInv /\ [Next]_vars
        => [pass = "global-cp" => \A b \in Leaders(source) : out[b] \subseteq out'[b]]_vars
  <2>1. SUFFICES ASSUME DataflowInv, Next, pass = "global-cp", NEW b \in Leaders(source) PROVE out[b] \subseteq out'[b]
    OBVIOUS
  <2>2. CASE Propagate /\ VisitBlock
    BY <2>1, <2>2, VisitAdds DEF Propagate
  <2>3. CASE (Propagate /\ (EndRound \/ Apply)) \/ Rewrite
    BY <2>3 DEF Propagate, EndRound, Apply, Rewrite
  <2> QED  BY <2>1, <2>2, <2>3 DEF Next, Propagate, CPNext
<1> QED  BY <1>1, DataflowInvariance, PTL DEF Spec, ConstantsOnlyGrow

-----------------------------------------------------------------------------
(* What the dataflow takes for constant is constant on every path.          *)

\* A constant the pass finds is the value the instruction computes.
LEMMA NewConstantIsTrue ==
  ASSUME NEW i \in Items, WellFormed(i), NEW known, NEW lane, Holds(known, lane.regs), NEW x \in FoldedResult(i, known),
         i.op \in FoldableBases
  PROVE  x = Result(i, Operands(i, lane), lane)
<1> DEFINE v == Operands(i, lane)
<1>1. \A k \in DOMAIN i.args : \A y \in Resolved(i, k, known) : y = v[k]
  BY ResolveIsTrue DEF Resolved
<1>2. i.kind = "op" /\ Len(i.args) = Arity(i.op) /\ i.args \in Seq([reg: STRING, imm: Int])
  BY DEF WellFormed, Items, FoldableBases, DestinationBases, PureResultBases
<1>3. 1 \in DOMAIN i.args /\ (i.op # "mov" => 2 \in DOMAIN i.args)
  <2>1. Len(i.args) \in {1, 2, 3} /\ (i.op # "mov" => Len(i.args) \in {2, 3})
    BY <1>2 DEF Arity, FoldableBases
  <2>2. DOMAIN i.args = 1 .. Len(i.args)
    BY <1>2
  <2>3. \A n \in {1, 2, 3} : 1 \in 1 .. n
    OBVIOUS
  <2>4. \A n \in {2, 3} : 2 \in 1 .. n
    OBVIOUS
  <2> QED  BY <2>1, <2>2, <2>3, <2>4
<1> HIDE DEF v
<1>4. CASE i.op = "mov"
  <2>1. x \in Resolved(i, 1, known)
    BY <1>4 DEF FoldedResult
  <2> QED  BY <1>1, <1>3, <1>4, <2>1 DEF Result, v
<1>5. CASE i.op # "mov"
  <2> DEFINE R == {Arith(i.op, i.type, a, b) : a \in Resolved(i, 1, known), b \in Resolved(i, 2, known)}
  <2>1. x \in R /\ i.op # "mad"
    BY <1>5 DEF FoldedResult
  <2>2. PICK a \in Resolved(i, 1, known), b \in Resolved(i, 2, known) : x = Arith(i.op, i.type, a, b)
    BY <2>1
  <2>3. a = v[1] /\ b = v[2]
    BY <1>1, <1>3, <1>5, <2>2
  <2>4. Result(i, v, lane) = Arith(i.op, i.type, v[1], v[2])
    BY <1>5, <2>1 DEF Result, FoldableBases
  <2> QED  BY <2>2, <2>3, <2>4 DEF v
<1> QED  BY <1>4, <1>5

\* The registers the pass can know about: it never learns of another.
ConstantRegs(p) ==
  {p[k].dest : k \in {j \in 1 .. Len(p) : ~IsLabel(p[j]) /\ ~p[j].guarded /\ p[j].op \in FoldableBases}} \ PredRegs
About(p, known) == \A c \in known : c.reg \in ConstantRegs(p)

\* An item teaches the pass of such a register alone.
LEMMA CarriedAbout ==
  ASSUME NEW p, NEW k \in 1 .. Len(p), NEW known, About(p, known), NEW name
  PROVE  About(p, CPCarried(name, p[k], known))
<1> DEFINE i == p[k]
           r == DestinationRegister(i)
           L == Learn(known, r, i.type, NewConstant(i, known))
<1>1. CPCarried(name, i, known) = known \/ (~IsLabel(i) /\ CPCarried(name, i, known) = L)
  BY DEF CPCarried, Transfer, AfterItem
<1>2. ASSUME ~IsLabel(i), NEW c \in L PROVE c.reg \in ConstantRegs(p)
  <2>1. CASE c \in Forget(known, r)
    BY <2>1 DEF Forget, About
  <2>2. CASE c \notin Forget(known, r)
    <3>1. PICK v \in NewConstant(i, known) : c = [reg |-> r, type |-> i.type, value |-> v]
      BY <1>2, <2>2 DEF Learn
    <3>2. Folds(i, known) /\ c.reg = r
      BY <3>1 DEF NewConstant
    <3>3. r = i.dest
      BY <3>2 DEF Folds, DestinationRegister, FoldableBases, DestinationBases, PureResultBases
    <3> QED  BY <1>2, <3>2, <3>3 DEF Folds, ConstantRegs
  <2> QED  BY <2>1, <2>2
<1> QED  BY <1>1, <1>2 DEF About

\* An instruction the dataflow does not notice writes no such register.
LEMMA NothingSpoils ==
  ASSUME NEW p, IsProgram(p), CPAssumes(p), NEW k \in 1 .. Len(p), p[k].kind = "op", p[k].op # "st",
         p[k].guarded \/ p[k].op = "fma"
  PROVE  p[k].dest \notin ConstantRegs(p)
<1>1. SUFFICES ASSUME p[k].dest \in ConstantRegs(p) PROVE FALSE
  OBVIOUS
<1>2. PICK j \in 1 .. Len(p) : /\ ~IsLabel(p[j]) /\ ~p[j].guarded /\ p[j].op \in FoldableBases
                               /\ p[j].dest = p[k].dest /\ p[k].dest \notin PredRegs
  BY <1>1 DEF ConstantRegs
<1>3. p[k] \in Items /\ WellFormed(p[k])
  BY ProgramFacts
<1>4. p[k].dest \in DataRegs /\ ~IsLabel(p[k])
  BY <1>2, <1>3 DEF WellFormed, IsLabel
<1> QED  BY <1>2, <1>4 DEF CPAssumes

\* What is carried past an instruction holds once it is executed.
LEMMA CarriedHolds ==
  ASSUME NEW p, IsProgram(p), CPAssumes(p), NEW a, IsLane(p, a), a.pc \in 1 .. Len(p),
         NEW known, About(p, known), Holds(known, a.regs), NEW name
  PROVE  Holds(CPCarried(name, p[a.pc], known), LaneStep(p, a).regs)
<1> DEFINE i == p[a.pc]
           s == LaneStep(p, a)
           x == Result(i, Operands(i, a), a)
           r == DestinationRegister(i)
           L == Learn(known, r, i.type, NewConstant(i, known))
<1>1. i \in Items /\ WellFormed(i) /\ Effect(p, a, s)
  BY ProgramFacts, StepEffect
<1>2. \/ CPCarried(name, i, known) = known /\ (IsLabel(i) \/ i.guarded \/ ~Defines(i))
      \/ CPCarried(name, i, known) = L /\ ~IsLabel(i) /\ Defines(i)
  BY DEF CPCarried, Transfer, AfterItem
<1>3. ASSUME i.guarded PROVE L \subseteq known
  BY <1>3 DEF Learn, Forget, NewConstant, Folds
<1>4. ASSUME Defines(i) PROVE i.op \in DestinationBases /\ r = i.dest /\ r \notin PredRegs
  BY <1>4 DEF Defines, DestinationRegister
<1> HIDE DEF L
<1>5. CASE ~WritesNow(i, a)
  <2>1. s.regs = a.regs
    BY <1>1, <1>5 DEF Effect
  <2>2. ASSUME Defines(i), ~i.guarded PROVE FALSE
    <3>1. i.kind = "op" /\ i.op # "st"
      BY <1>1, <1>4, <2>2 DEF WellFormed, DestinationBases, PureResultBases
    <3> QED  BY <1>5, <2>2, <3>1 DEF WritesNow, GuardHolds
  <2>3. CPCarried(name, i, known) \subseteq known
    BY <1>2, <1>3, <2>2
  <2> HIDE DEF i, s
  <2> QED  BY <2>1, <2>3 DEF Holds, i, s
<1>6. CASE WritesNow(i, a)
  <2>1. i.kind = "op" /\ i.op # "st" /\ i.op \in DestinationBases \cup {"fma"} /\ i.dest \in DataRegs \cup PredRegs
    BY <1>1, <1>6 DEF WritesNow, WellFormed
  <2>2. s.regs = [a.regs EXCEPT ![i.dest] = x] /\ a.regs = [t \in DataRegs \cup PredRegs |-> a.regs[t]]
    BY <1>1, <1>6 DEF Effect, IsLane
  <2>3. CASE i.guarded \/ ~Defines(i)
    <3>1. i.dest \notin ConstantRegs(p)
      <4>1. CASE i.guarded \/ i.op = "fma"
        BY <2>1, <4>1, NothingSpoils
      <4>2. CASE ~i.guarded /\ i.op # "fma"
        <5>1. r = i.dest /\ r \in PredRegs \cup {""}
          BY <2>1, <2>3, <4>2 DEF Defines, DestinationRegister
        <5>2. i.dest \in PredRegs
          BY <2>1, <5>1, RegistersAssumption
        <5> QED  BY <5>2 DEF ConstantRegs
      <4> QED  BY <4>1, <4>2
    <3> HIDE DEF i, s, x
    <3>2. \A c \in known : c.reg # i.dest
      BY <3>1 DEF About
    <3>3. Holds(known, [a.regs EXCEPT ![i.dest] = x])
      BY <2>2, <3>2, HoldsStill
    <3>4. Holds(known, s.regs)
      BY <2>2, <3>3
    <3>5. CPCarried(name, i, known) \subseteq known
      BY <1>2, <1>3, <2>3
    <3> QED  BY <3>4, <3>5 DEF Holds, i, s
  <2>4. CASE ~i.guarded /\ Defines(i)
    <3>1. CPCarried(name, i, known) = L
      BY <1>2, <2>1, <2>4 DEF IsLabel
    <3>2. \A v \in NewConstant(i, known) : v = x
      BY <1>1, NewConstantIsTrue DEF NewConstant, Folds
    <3>3. Written(a.regs, i.dest, x, s.regs)
      BY <2>1, <2>2 DEF Written
    <3>4. r = i.dest
      BY <1>4, <2>4
    <3> HIDE DEF i, s, x, r
    <3>5. Holds(Learn(known, i.dest, i.type, NewConstant(i, known)), s.regs)
      BY <3>2, <3>3, LearnHolds
    <3> QED  BY <3>1, <3>4, <3>5 DEF L, i, s
  <2> QED  BY <2>3, <2>4
<1> QED  BY <1>5, <1>6

\* Whenever a lane leaves a block for another, what o says of the block holds.
SoundOut(p, o) ==
  \A lane \in LaunchedLanes(p) : \A n \in Nat : \A b \in Leaders(p) :
    RunLane(p, lane, n).pc = BlockEnd(p, b) /\ RunLane(p, lane, n + 1).pc <= Len(p)
      => Holds(o[b], RunLane(p, lane, n + 1).regs)
CPOut(p, o) == DOMAIN o = Leaders(p) /\ (\A b \in Leaders(p) : About(p, o[b])) /\ SoundOut(p, o)

\* Then what every predecessor leaves holds at the entry of a block: one of them
\* was executed, unless the program starts there, and then there is none.
LEMMA EntryHolds ==
  ASSUME NEW p, IsProgram(p), CPAssumes(p), NEW o, CPOut(p, o), NEW lane \in LaunchedLanes(p), NEW n \in Nat,
         RunLane(p, lane, n).pc \in 1 .. Len(p), RunLane(p, lane, n).pc \in Leaders(p)
  PROVE  Holds(EntryOf(p, RunLane(p, lane, n).pc, o), RunLane(p, lane, n).regs)
<1> DEFINE s == RunLane(p, lane, n)
<1>1. Len(p) \in Nat /\ IsLane(p, lane) /\ lane.pc = 1
  BY ProgramFacts, LaunchFacts
<1>2. CASE n = 0
  <2>1. s.pc = 1
    BY <1>1, <1>2, RunZero
  <2>2. {q \in DOMAIN o : 1 \in Successors(p, q)} = {}
    BY DEF CPOut, CPAssumes
  <2>3. EntryOf(p, 1, o) = {}
    BY <2>2 DEF EntryOf
  <2> QED  BY <2>1, <2>3 DEF Holds
<1>3. CASE n # 0
  <2> DEFINE m == n - 1
             a == RunLane(p, lane, m)
  <2>1. m \in Nat /\ m + 1 = n
    BY <1>3
  <2>2. s = LaneStep(p, a) /\ IsLane(p, a)
    <3> HIDE DEF m
    <3> QED  BY <1>1, <2>1, RunSucc, RunIsLane
  <2>3. a.pc \in 1 .. Len(p)
    <3>1. CASE a.pc > Len(p)
      <4>1. s = a
        BY <2>2, <3>1, StoppedStays
      <4> QED  BY <1>1, <3>1, <4>1
    <3> QED  BY <1>1, <2>2, <3>1 DEF IsLane
  <2>4. PICK b \in Leaders(p) : a.pc \in b .. BlockEnd(p, b)
    BY <1>1, <2>3, InSomeBlock
  <2>5. p[a.pc].kind = "ret" => ~p[a.pc].guarded
    BY <2>3 DEF CPAssumes
  <2>6. a.pc = BlockEnd(p, b) /\ s.pc \in Successors(p, b) /\ s.pc <= Len(p)
    <3> HIDE DEF a
    <3> QED  BY <1>1, <2>2, <2>4, <2>5, ControlFollowsTheGraph
  <2>7. Holds(o[b], s.regs)
    <3> HIDE DEF m
    <3> QED  BY <2>1, <2>6 DEF CPOut, SoundOut
  <2>8. EntryOf(p, s.pc, o) \subseteq o[b]
    BY <2>6 DEF EntryOf, CPOut
  <2> QED  BY <2>7, <2>8 DEF Holds
<1> QED  BY <1>2, <1>3

\* So does a block at its entry know of such registers alone,
LEMMA EntryAbout ==
  ASSUME NEW p, NEW o, CPOut(p, o), NEW b
  PROVE  About(p, EntryOf(p, b, o))
BY DEF CPOut, About, EntryOf

\* and so does it in front of each of its items.
LEMMA FrontsAbout ==
  ASSUME NEW p, Len(p) \in Nat, NEW o, CPOut(p, o), NEW name, NEW h, Fronts(name, p, o, Len(p), h),
         NEW k \in 1 .. Len(p)
  PROVE  About(p, h[k])
<1> DEFINE S == {m \in Nat : m \in 1 .. Len(p) => About(p, h[m])}
<1>1. \A m \in 1 .. Len(p) : h[m] = IF m \in Leaders(p) THEN EntryOf(p, m, o) ELSE CPCarried(name, p[m-1], h[m-1])
  BY DEF Fronts
<1>2. 1 \in Leaders(p)
  BY DEF Leaders
<1>3. 0 \in S
  OBVIOUS
<1>4. ASSUME NEW m \in Nat, m \in S PROVE m + 1 \in S
  <2> DEFINE l == m + 1
  <2>1. SUFFICES ASSUME l \in 1 .. Len(p) PROVE About(p, h[l])
    OBVIOUS
  <2>2. CASE l \in Leaders(p)
    <3> HIDE DEF l
    <3> QED  BY <1>1, <2>1, <2>2, EntryAbout
  <2>3. CASE l \notin Leaders(p)
    <3>1. m \in 1 .. Len(p) /\ l - 1 = m
      BY <1>2, <2>1, <2>3
    <3>2. About(p, h[m])
      BY <1>4, <3>1
    <3>3. h[l] = CPCarried(name, p[m], h[m])
      BY <1>1, <2>1, <2>3, <3>1
    <3> HIDE DEF l
    <3> QED  BY <3>1, <3>2, <3>3, CarriedAbout
  <2> QED  BY <2>2, <2>3
<1>5. Nat \subseteq S
  <2> HIDE DEF S
  <2> QED  BY <1>3, <1>4, InductionOnSet
<1> QED  BY <1>5

\* What is carried from the entry of a block holds in front of its items.
LEMMA FrontsHold ==
  ASSUME NEW p, IsProgram(p), CPAssumes(p), NEW o, CPOut(p, o), NEW name, NEW h, Fronts(name, p, o, Len(p), h)
  PROVE  \A lane \in LaunchedLanes(p) : \A n \in Nat :
           RunLane(p, lane, n).pc \in 1 .. Len(p) => Holds(h[RunLane(p, lane, n).pc], RunLane(p, lane, n).regs)
<1> SUFFICES ASSUME NEW lane \in LaunchedLanes(p)
             PROVE  \A n \in Nat : RunLane(p, lane, n).pc \in 1 .. Len(p)
                      => Holds(h[RunLane(p, lane, n).pc], RunLane(p, lane, n).regs)
  OBVIOUS
<1> DEFINE Good(a) == a.pc \in 1 .. Len(p) => Holds(h[a.pc], a.regs)
           S == {m \in Nat : Good(RunLane(p, lane, m))}
<1>1. Len(p) \in Nat /\ IsLane(p, lane) /\ lane.pc = 1 /\ 1 \in Leaders(p)
  BY ProgramFacts, LaunchFacts DEF Leaders
<1>2. \A k \in 1 .. Len(p) : h[k] = IF k \in Leaders(p) THEN EntryOf(p, k, o) ELSE CPCarried(name, p[k-1], h[k-1])
  BY DEF Fronts
<1>3. ASSUME NEW n \in Nat, RunLane(p, lane, n).pc \in 1 .. Len(p), RunLane(p, lane, n).pc \in Leaders(p)
      PROVE  Holds(h[RunLane(p, lane, n).pc], RunLane(p, lane, n).regs)
  BY <1>2, <1>3, EntryHolds
<1>4. 0 \in S
  BY <1>1, <1>3, RunZero
<1>5. ASSUME NEW m \in Nat, m \in S PROVE m + 1 \in S
  <2> DEFINE a == RunLane(p, lane, m)
             s == RunLane(p, lane, m + 1)
  <2>1. Good(a) /\ s = LaneStep(p, a) /\ IsLane(p, a)
    BY <1>1, <1>5, RunSucc, RunIsLane
  <2>2. SUFFICES ASSUME s.pc \in 1 .. Len(p) PROVE Holds(h[s.pc], s.regs)
    OBVIOUS
  <2>3. CASE s.pc \in Leaders(p)
    BY <1>3, <2>2, <2>3
  <2>4. CASE s.pc \notin Leaders(p)
    <3> HIDE DEF a, s
    <3>1. a.pc \in 1 .. Len(p)
      <4>1. CASE a.pc > Len(p)
        <5>1. s = a
          BY <2>1, <4>1, StoppedStays
        <5> QED  BY <1>1, <2>2, <4>1, <5>1
      <4> QED  BY <1>1, <2>1, <4>1 DEF IsLane
    <3>2. PICK b \in Leaders(p) : a.pc \in b .. BlockEnd(p, b)
      BY <1>1, <3>1, InSomeBlock
    <3>3. p[a.pc].kind = "ret" => ~p[a.pc].guarded
      BY <3>1 DEF CPAssumes
    <3>4. s.pc = a.pc + 1
      BY <1>1, <2>1, <2>2, <2>4, <3>2, <3>3, ControlFollowsTheGraph
    <3>5. h[s.pc] = CPCarried(name, p[a.pc], h[a.pc])
      BY <1>1, <1>2, <2>2, <2>4, <3>1, <3>4
    <3>6. About(p, h[a.pc]) /\ Holds(h[a.pc], a.regs)
      BY <1>1, <2>1, <3>1, FrontsAbout
    <3> QED  BY <2>1, <3>1, <3>5, <3>6, CarriedHolds
  <2> QED  BY <2>3, <2>4
<1>6. Nat \subseteq S
  <2> HIDE DEF S
  <2> QED  BY <1>4, <1>5, InductionOnSet
<1> QED  BY <1>6

\* A visit leaves for its block what holds there.
LEMMA VisitIsSound ==
  ASSUME NEW p, IsProgram(p), CPAssumes(p), Len(p) > 0, NEW o, CPOut(p, o), NEW b \in Leaders(p),
         NEW u, u = [o EXCEPT ![b] = ExitOf(p, b, o)]
  PROVE  CPOut(p, u)
<1>1. Len(p) \in Nat
  BY ProgramFacts
<1>2. PICK h : Fronts("dataflow", p, o, Len(p), h)
  BY <1>1, FrontsExist
<1> DEFINE e == BlockEnd(p, b)
<1>3. e \in 1 .. Len(p)
  BY <1>1, BlockFacts, LeadersFacts
<1>4. ExitOf(p, b, o) = CPCarried("dataflow", p[e], h[e])
  BY <1>1, <1>2, ExitIsFront DEF CPCarried
<1> HIDE DEF e
<1>5. About(p, ExitOf(p, b, o))
  <2>1. About(p, h[e])
    BY <1>1, <1>2, <1>3, FrontsAbout
  <2> QED  BY <1>3, <1>4, <2>1, CarriedAbout
<1>6. ASSUME NEW lane \in LaunchedLanes(p), NEW n \in Nat, RunLane(p, lane, n).pc = e
      PROVE  Holds(ExitOf(p, b, o), RunLane(p, lane, n + 1).regs)
  <2> DEFINE a == RunLane(p, lane, n)
  <2>1. RunLane(p, lane, n + 1) = LaneStep(p, a) /\ IsLane(p, a)
    BY RunSucc, RunIsLane, LaunchFacts
  <2>2. Holds(h[a.pc], a.regs) /\ a.pc = e
    BY <1>2, <1>3, <1>6, FrontsHold
  <2>3. About(p, h[e])
    BY <1>1, <1>2, <1>3, FrontsAbout
  <2> HIDE DEF a
  <2>4. Holds(CPCarried("dataflow", p[a.pc], h[a.pc]), LaneStep(p, a).regs)
    BY <1>3, <2>1, <2>2, <2>3, CarriedHolds
  <2> QED  BY <1>4, <2>1, <2>2, <2>4
<1>7. DOMAIN u = Leaders(p) /\ u[b] = ExitOf(p, b, o) /\ \A c \in Leaders(p) : c # b => u[c] = o[c]
  BY DEF CPOut
<1>8. \A c \in Leaders(p) : About(p, u[c])
  BY <1>5, <1>7 DEF CPOut
<1>9. SoundOut(p, u)
  <2>1. SUFFICES ASSUME NEW lane \in LaunchedLanes(p), NEW n \in Nat, NEW c \in Leaders(p),
                        RunLane(p, lane, n).pc = BlockEnd(p, c), RunLane(p, lane, n + 1).pc <= Len(p)
                 PROVE  Holds(u[c], RunLane(p, lane, n + 1).regs)
    BY DEF SoundOut
  <2>2. CASE c = b
    BY <1>6, <1>7, <2>1, <2>2 DEF e
  <2>3. CASE c # b
    BY <1>7, <2>1, <2>3 DEF CPOut, SoundOut
  <2> QED  BY <2>2, <2>3
<1> QED  BY <1>7, <1>8, <1>9 DEF CPOut

\* An item rewritten with constants keeps its place and its label.
LEMMA FoldedItemStays ==
  ASSUME NEW i \in Items, NEW known
  PROVE  FoldedItem(i, known).kind = i.kind /\ FoldedItem(i, known).label = i.label
<1> DEFINE j == FoldedItem(i, known)
<1>1. i \in [kind: {"label", "bra", "ret", "op"}, label: STRING, op: STRING, type: STRING, compare: STRING, guard: STRING,
             guarded: BOOLEAN, negated: BOOLEAN, dest: STRING, args: Seq([reg: STRING, imm: Int])]
  BY DEF Items
<1>2. CASE ~Folds(i, known)
  BY <1>2 DEF FoldedItem
<1>3. CASE Folds(i, known) /\ i.op = "and" /\ FoldedResult(i, known) # {}
  <2> DEFINE w == <<Imm(CHOOSE v \in FoldedResult(i, known) : TRUE)>>
  <2>1. j = [i EXCEPT !.op = "mov", !.args = w]
    BY <1>3 DEF FoldedItem
  <2> HIDE DEF w, j
  <2> QED  BY <1>1, <2>1 DEF j
<1>4. CASE Folds(i, known) /\ ~(i.op = "and" /\ FoldedResult(i, known) # {})
  <2> DEFINE w == [k \in DOMAIN i.args |-> IF Resolved(i, k, known) = {} THEN i.args[k]
                                           ELSE Imm(CHOOSE v \in Resolved(i, k, known) : TRUE)]
  <2>1. j = [i EXCEPT !.args = w]
    BY <1>4 DEF FoldedItem, WithImmediates
  <2> HIDE DEF w, j
  <2> QED  BY <1>1, <2>1 DEF j
<1> QED  BY <1>2, <1>3, <1>4

\* An item rewritten with true constants does what it did.
LEMMA FoldedItemMatches ==
  ASSUME NEW i \in Items, WellFormed(i), NEW known, NEW a, Holds(known, a.regs)
  PROVE  Matches(i, FoldedItem(i, known), a)
<1> DEFINE j == FoldedItem(i, known)
           v == Operands(i, a)
<1>1. CASE ~Folds(i, known)
  BY <1>1 DEF FoldedItem, Matches
<1>2. CASE Folds(i, known)
  <2>1. /\ i.op \in FoldableBases /\ i.kind = "op" /\ i.op # "st"
    BY <1>2 DEF Folds, WellFormed, FoldableBases, DestinationBases, PureResultBases
  <2>2. i \in [kind: {"label", "bra", "ret", "op"}, label: STRING, op: STRING, type: STRING, compare: STRING, guard: STRING,
               guarded: BOOLEAN, negated: BOOLEAN, dest: STRING, args: Seq([reg: STRING, imm: Int])]
    BY DEF Items
  <2>3. CASE i.op = "and" /\ FoldedResult(i, known) # {}
    <3> DEFINE x == CHOOSE y \in FoldedResult(i, known) : TRUE
               w == <<Imm(x)>>
    <3>1. j = [i EXCEPT !.op = "mov", !.args = w]
      BY <1>2, <2>3 DEF FoldedItem
    <3>2. x = Result(i, v, a)
      BY <2>1, <2>3, NewConstantIsTrue
    <3>3. 1 \in DOMAIN w /\ w[1].reg = "" /\ w[1].imm = x
      <4>1. Imm(x).reg = "" /\ Imm(x).imm = x
        BY DEF Imm
      <4> HIDE DEF Imm
      <4>2. ASSUME NEW z PROVE 1 \in DOMAIN << z >> /\ (<< z >>)[1] = z
        OBVIOUS
      <4> QED  BY <4>1, <4>2
    <3> HIDE DEF x, w, j
    <3>4. /\ j.kind = i.kind /\ j.label = i.label /\ j.guarded = i.guarded /\ j.guard = i.guard
          /\ j.negated = i.negated /\ j.dest = i.dest /\ j.op = "mov" /\ j.args = w
      BY <2>2, <3>1
    <3>5. Operands(j, a)[1] = x
      BY <3>3, <3>4 DEF Operands
    <3>6. Result(j, Operands(j, a), a) = x
      BY <3>4, <3>5 DEF Result
    <3>7. Matches(i, j, a)
      BY <2>1, <3>2, <3>4, <3>6 DEF Matches
    <3> QED  BY <3>7 DEF j
  <2>4. CASE ~(i.op = "and" /\ FoldedResult(i, known) # {})
    <3> DEFINE w == [k \in DOMAIN i.args |-> IF Resolved(i, k, known) = {} THEN i.args[k]
                                             ELSE Imm(CHOOSE y \in Resolved(i, k, known) : TRUE)]
    <3>1. j = [i EXCEPT !.args = w]
      BY <1>2, <2>4 DEF FoldedItem, WithImmediates
    <3>2. ASSUME NEW k \in DOMAIN i.args
          PROVE  v[k] = IF w[k].reg = "" THEN w[k].imm ELSE a.regs[w[k].reg]
      <4>1. CASE Resolved(i, k, known) = {}
        <5>1. w[k] = i.args[k]
          BY <4>1
        <5> HIDE DEF w
        <5> QED  BY <5>1 DEF Operands
      <4>2. CASE Resolved(i, k, known) # {}
        <5> DEFINE y == CHOOSE z \in Resolved(i, k, known) : TRUE
        <5>1. y \in Resolved(i, k, known) /\ w[k] = Imm(y)
          BY <4>2
        <5> HIDE DEF w, y
        <5>2. y = v[k]
          BY <5>1, ResolveIsTrue DEF Resolved
        <5>3. Imm(y).reg = "" /\ Imm(y).imm = y
          BY DEF Imm
        <5> HIDE DEF v
        <5> QED  BY <5>1, <5>2, <5>3
      <4> QED  BY <4>1, <4>2
    <3>3. DOMAIN w = DOMAIN i.args
      OBVIOUS
    <3> HIDE DEF w, j
    <3>4. /\ j.kind = i.kind /\ j.label = i.label /\ j.guarded = i.guarded /\ j.guard = i.guard
          /\ j.negated = i.negated /\ j.dest = i.dest /\ j.op = i.op /\ j.type = i.type /\ j.compare = i.compare /\ j.args = w
      BY <2>2, <3>1
    <3>5. Operands(j, a) = v
      BY <3>2, <3>3, <3>4 DEF Operands
    <3> HIDE DEF v
    <3>6. Result(j, v, a) = Result(i, v, a)
      BY <3>4 DEF Result
    <3>7. Matches(i, j, a)
      BY <2>1, <3>4, <3>5, <3>6 DEF Matches, v
    <3> QED  BY <3>7 DEF j
  <2> QED  BY <2>3, <2>4
<1> QED  BY <1>1, <1>2

\* The sweep, by its table.
SweptBy(p, h) == [k \in 1 .. Len(p) |-> IF IsLabel(p[k]) THEN p[k] ELSE FoldedItem(p[k], h[k])]
SweepTable(p, o, h) ==
  h = [k \in 1 .. Len(p) |-> IF k \in Leaders(p) THEN EntryOf(p, k, o) ELSE AfterItem(p[k-1], h[k-1])]

\* What Rewritten leaves is so for some table.
LEMMA SweepIsByTable ==
  ASSUME NEW o, Len(source) \in Nat
  PROVE  \E h : Fronts("sweep", source, o, Len(source), h) /\ Rewritten(o) = SweptBy(source, h)
<1>1. \A b : AtEntry(b, o) = EntryOf(source, b, o)
  BY DEF AtEntry, EntryOf
<1> DEFINE Table(h) == h = [k \in 1 .. Len(source) |-> IF k \in Leaders(source) THEN AtEntry(k, o)
                                                       ELSE AfterItem(source[k-1], h[k-1])]
<1>2. Rewritten(o) = SweptBy(source, CHOOSE h : Table(h))
  BY Zenon DEF Rewritten, SweptBy
<1>3. \A h : Fronts("sweep", source, o, Len(source), h) <=> Table(h)
  BY <1>1 DEF Fronts, CPCarried
<1> HIDE DEF Table
<1>4. \E h : Table(h)
  BY <1>3, FrontsExist
<1>5. Table(CHOOSE h : Table(h))
  BY <1>4, Zenon
<1> QED  BY <1>2, <1>3, <1>5

\* What the sweep leaves does what the program did, if the blocks leave what is true.
LEMMA SweepPreserves ==
  ASSUME NEW p, IsProgram(p), CPAssumes(p), NEW o, CPOut(p, o), NEW h, Fronts("sweep", p, o, Len(p), h)
  PROVE  Preserved(p, SweptBy(p, h))
<1> DEFINE q == SweptBy(p, h)
<1>1. ASSUME NEW k \in 1 .. Len(p)
      PROVE  q[k] = IF IsLabel(p[k]) THEN p[k] ELSE FoldedItem(p[k], h[k])
  BY DEF SweptBy
<1>2. q = [k \in 1 .. Len(p) |-> q[k]]
  BY DEF SweptBy
<1> HIDE DEF q
<1>3. ASSUME NEW k \in 1 .. Len(p) PROVE q[k].kind = p[k].kind /\ q[k].label = p[k].label
  <2>1. p[k] \in Items
    BY ProgramFacts
  <2> QED  BY <1>1, <2>1, FoldedItemStays
<1>4. SameShape(p, q)
  BY <1>2, <1>3 DEF SameShape
<1>5. ASSUME NEW lane \in LaunchedLanes(p), NEW n \in Nat, RunLane(p, lane, n).pc \in 1 .. Len(p)
      PROVE  Matches(p[RunLane(p, lane, n).pc], q[RunLane(p, lane, n).pc], RunLane(p, lane, n))
  <2> DEFINE a == RunLane(p, lane, n)
  <2>1. Holds(h[a.pc], a.regs)
    BY <1>5, FrontsHold
  <2>2. p[a.pc] \in Items /\ WellFormed(p[a.pc])
    BY <1>5, ProgramFacts
  <2>3. q[a.pc] = p[a.pc] \/ q[a.pc] = FoldedItem(p[a.pc], h[a.pc])
    BY <1>1, <1>5
  <2> HIDE DEF a
  <2>4. Matches(p[a.pc], FoldedItem(p[a.pc], h[a.pc]), a)
    BY <2>1, <2>2, FoldedItemMatches
  <2>5. Matches(p[a.pc], q[a.pc], a)
    BY <2>3, <2>4 DEF Matches
  <2> QED  BY <2>5 DEF a
<1>6. Preserved(p, q)
  BY <1>4, <1>5, MatchedPreserved
<1> QED  BY <1>6 DEF q

\* The inductive invariant: on top of DataflowInv, what the blocks leave is true.
SoundInv == stage = "dataflow" /\ CPAssumes(source) => CPOut(source, out)

\* Blocks that leave nothing leave what is true,
LEMMA SoundStarts == Init => SoundInv
<1>1. SUFFICES ASSUME Init, stage = "dataflow" PROVE CPOut(source, out)
  BY DEF SoundInv
<1>2. out = [b \in Leaders(source) |-> {}]
  BY <1>1 DEF Init, CPInit
<1>3. \A b \in Leaders(source) : out[b] = {}
  BY <1>2
<1>4. DOMAIN out = Leaders(source)
  BY <1>2
<1> QED  BY <1>3, <1>4 DEF CPOut, SoundOut, About, Holds

\* and a step of the pass keeps it so.
LEMMA SoundGoesOn ==
  ASSUME DataflowInv, SoundInv, [Next]_vars
  PROVE  SoundInv'
<1>1. CASE Propagate /\ VisitBlock
  <2>1. /\ stage = "dataflow" /\ source' = source /\ block <= Len(source)
        /\ out' = [out EXCEPT ![block] = ExitOf(source, block, out)]
    BY <1>1, ExitsNamed DEF VisitBlock, Propagate
  <2>2. SUFFICES ASSUME CPAssumes(source) PROVE CPOut(source, out')
    BY <2>1 DEF SoundInv
  <2>3. IsProgram(source) /\ block \in Leaders(source) \cup {Len(source) + 1} /\ CPOut(source, out)
    BY <2>1, <2>2 DEF DataflowInv, SoundInv
  <2>4. Len(source) \in Nat
    BY <2>3, ProgramFacts
  <2>5. block \in Leaders(source) /\ Len(source) > 0
    BY <2>1, <2>3, <2>4, LeadersFacts
  <2> DEFINE u == out'
  <2>6. u = [out EXCEPT ![block] = ExitOf(source, block, out)]
    BY <2>1
  <2> HIDE DEF u
  <2>7. CPOut(source, u)
    BY <2>2, <2>3, <2>5, <2>6, VisitIsSound
  <2> QED  BY <2>7 DEF u
<1>2. CASE Propagate /\ EndRound
  BY <1>2 DEF Propagate, EndRound, SoundInv
<1>3. CASE (Propagate /\ Apply) \/ Rewrite
  BY <1>3 DEF Propagate, Apply, Rewrite, SoundInv
<1>4. CASE UNCHANGED vars
  BY <1>4 DEF vars, cpVars, SoundInv
<1> QED  BY <1>1, <1>2, <1>3, <1>4 DEF Next, Propagate, CPNext

\* So whatever lane leaves a block, what the pass believes of its end is true.
THEOREM SoundInvariance == Spec => []SoundInv
<1>1. DataflowInv /\ SoundInv /\ [Next]_vars => SoundInv'
  BY SoundGoesOn
<1> QED  BY <1>1, DataflowInvariance, SoundStarts, PTL DEF Spec

\* After any round the sweep leaves a program that does what it did.
THEOREM ConstantsHoldOnEveryPath == Spec => []GlobalCPPreserves
<1>1. DataflowInv /\ SoundInv => GlobalCPPreserves
  <2>1. SUFFICES ASSUME DataflowInv, SoundInv, stage = "dataflow", CPAssumes(source)
                 PROVE  Preserved(source, Rewritten(out))
    BY DEF GlobalCPPreserves
  <2>2. IsProgram(source) /\ CPOut(source, out)
    BY <2>1 DEF DataflowInv, SoundInv
  <2>3. Len(source) \in Nat
    BY <2>2, ProgramFacts
  <2>4. PICK h : Fronts("sweep", source, out, Len(source), h) /\ Rewritten(out) = SweptBy(source, h)
    BY <2>3, SweepIsByTable
  <2> QED  BY <2>1, <2>2, <2>4, SweepPreserves
<1> QED  BY <1>1, DataflowInvariance, SoundInvariance, PTL

-----------------------------------------------------------------------------
(* The sweeps that rewrite in place. *)

\* What a sweep is given is a program, and what it leaves is its transform.
RewriteInv ==
  /\ stage = "rewrite" => pass \in DOMAIN Programs /\ source \in Programs[pass]
  /\ stage = "done" /\ pass # "global-cp"
       => pass \in DOMAIN Programs /\ source \in Programs[pass] /\ target = Transformed(pass, source)
  /\ stage \in {"dataflow", "apply"} => pass = "global-cp"

\* The single sweeps are done in one step.
LEMMA RewriteInvariance == Spec => []RewriteInv
<1>1. Init => RewriteInv
  BY DEF Init, CPInit, RewriteInv
<1>2. RewriteInv /\ [Next]_vars => RewriteInv'
  <2> SUFFICES ASSUME RewriteInv, [Next]_vars PROVE RewriteInv'
    OBVIOUS
  <2>1. CASE Rewrite
    BY <2>1 DEF Rewrite, RewriteInv
  <2>2. CASE Propagate
    BY <2>2 DEF Propagate, CPNext, VisitBlock, EndRound, Apply, RewriteInv
  <2>3. CASE UNCHANGED vars
    BY <2>3 DEF vars, cpVars, RewriteInv
  <2> QED  BY <2>1, <2>2, <2>3 DEF Next
<1> QED  BY <1>1, <1>2, PTL DEF Spec

\* Within a block a constant is used only until its register is written again.
THEOREM LocalConstantsAreTrue == Spec => []LocalFoldingPreserves
<1>1. RewriteInv => LocalFoldingPreserves
  <2>1. SUFFICES ASSUME RewriteInv, pass = "local-cf", stage = "done" PROVE Preserved(source, target)
    BY DEF LocalFoldingPreserves, Preserves
  <2>2. IsProgram(source) /\ target = Transformed("local-cf", source)
    BY <2>1, ProgramsAssumption DEF RewriteInv
  <2>3. Transformed("local-cf", source) = FoldConstants(source)
    BY DEF Transformed
  <2> QED  BY <2>2, <2>3, FoldPreserves
<1> QED  BY <1>1, RewriteInvariance, PTL

\* A load is taken from an earlier one only while address and memory stand.
THEOREM ReusedLoadsFindTheSame == Spec => []LoadReusePreserves
<1>1. RewriteInv => LoadReusePreserves
  <2>1. SUFFICES ASSUME RewriteInv, pass = "load-reuse", stage = "done", LoadReuseAssumes(source)
                 PROVE  Preserved(source, target)
    BY DEF LoadReusePreserves, Preserves
  <2>2. IsProgram(source) /\ target = Transformed("load-reuse", source)
    BY <2>1, ProgramsAssumption DEF RewriteInv
  <2>3. Transformed("load-reuse", source) = ReuseLoads(source)
    BY DEF Transformed
  <2> QED  BY <2>1, <2>2, <2>3, ReusePreserves
<1> QED  BY <1>1, RewriteInvariance, PTL

-----------------------------------------------------------------------------
(* Passes that drop items: what is left, and where in it an item stands.    *)

\* Kept, with what is left so far named.
LEMMA KeptBySieve ==
  ASSUME NEW p, NEW S
  PROVE  Kept(p, S) = (CHOOSE h : Sieved(p, S, Len(p), h))[Len(p)]
BY Zenon DEF Kept, Sieved

\* A program has no label twice.
LEMMA LabelsAreUnique ==
  ASSUME NEW p, IsProgram(p), NEW k \in LabelPositions(p)
  PROVE  /\ \A j \in LabelPositions(p) : p[j].label = p[k].label => j = k
         /\ LabelAt(p, p[k].label) = k
<1> DEFINE f == [i \in LabelPositions(p) |-> p[i].label]
<1>1. IsFiniteSet(LabelPositions(p))
  <2>1. IsFiniteSet(1 .. Len(p))
    BY ProgramFacts, FS_Interval
  <2>2. LabelPositions(p) \subseteq 1 .. Len(p)
    BY DEF LabelPositions
  <2> QED  BY <2>1, <2>2, FS_Subset
<1>2. f \in Surjection(LabelPositions(p), LabelsOf(p))
  BY DEF Surjection, LabelsOf
<1>3. Cardinality(LabelPositions(p)) = Cardinality(LabelsOf(p))
  BY DEF IsProgram, BuildFails
<1>4. f \in Injection(LabelPositions(p), LabelsOf(p))
  BY <1>1, <1>2, <1>3, FS_SurjSameCardinalityImpliesInj
<1>5. \A j \in LabelPositions(p) : p[j].label = p[k].label => j = k
  BY <1>4 DEF Injection, IsInjective
<1>6. LabelAt(p, p[k].label) \in LabelPositions(p) /\ p[LabelAt(p, p[k].label)].label = p[k].label
  BY Zenon DEF LabelAt
<1> QED  BY <1>5, <1>6

\* The labels of a sequence of items are as many as there are labelled items
\* when no two are the same.
LEMMA DifferentLabels ==
  ASSUME NEW q, Len(q) \in Nat,
         \A j, k \in LabelPositions(q) : q[j].label = q[k].label => j = k
  PROVE  Cardinality(LabelPositions(q)) = Cardinality(LabelsOf(q))
<1> DEFINE f == [i \in LabelPositions(q) |-> q[i].label]
<1>1. IsFiniteSet(LabelPositions(q))
  <2>1. IsFiniteSet(1 .. Len(q))
    BY FS_Interval
  <2>2. LabelPositions(q) \subseteq 1 .. Len(q)
    BY DEF LabelPositions
  <2> QED  BY <2>1, <2>2, FS_Subset
<1>2. f \in Surjection(LabelPositions(q), LabelsOf(q))
  BY DEF Surjection, LabelsOf
<1>3. f \in [LabelPositions(q) -> LabelsOf(q)]
  BY DEF LabelsOf
<1>4. f \in Injection(LabelPositions(q), LabelsOf(q))
  BY <1>3 DEF Injection, IsInjective
<1>5. Cardinality(LabelsOf(q)) = Cardinality(LabelPositions(q))
  BY <1>1, <1>2, <1>4, FS_Surjection
<1> QED  BY <1>5

\* What is left is a program, provided items that stay keep their kind, the
\* target of a branch that stays stays, and so does a first item that has to.
LEMMA SievedProgram ==
  ASSUME NEW p, IsProgram(p), NEW g, NEW S, NEW h, SievedFrom(Items, g, S, Len(p), h),
         \A k \in S \cap (1 .. Len(p)) :
           WellFormed(g[k]) /\ g[k].kind = p[k].kind /\ (IsLabel(p[k]) => g[k].label = p[k].label),
         \A k \in S \cap (1 .. Len(p)) :
           IsBranch(g[k]) => \E j \in S \cap LabelPositions(p) : p[j].label = g[k].label,
         EntryLabel \in LabelsOf(p) => 1 \in S,
         NEW q, q = h[Len(p)]
  PROVE  /\ IsProgram(q)
         /\ \A j \in S \cap LabelPositions(p) : LabelAt(q, p[j].label) = Place(h, j)
<1> DEFINE n == Len(p)
           K == S \cap (1 .. n)
<1>1. n \in Nat
  BY ProgramFacts
<1>2. /\ q \in Seq(Items)
      /\ Place(h, 1) = 1
      /\ \A k \in K : Place(h, k) \in 1 .. Len(q) /\ q[Place(h, k)] = g[k]
      /\ \A m \in 1 .. Len(q) : \E k \in K : Place(h, k) = m
      /\ \A j, k \in K : Place(h, j) = Place(h, k) => j = k
  BY SievePlaces
<1>3. Len(q) \in Nat
  BY <1>2
<1>4. \A m \in 1 .. Len(q) : WellFormed(q[m])
  BY <1>2
<1>5. \A k \in K : g[k].kind = p[k].kind /\ (IsLabel(p[k]) => g[k].label = p[k].label)
  OBVIOUS
<1>6. \A j \in S \cap LabelPositions(p) : j \in K /\ IsLabel(p[j])
  BY DEF LabelPositions
<1> HIDE DEF K
<1>7. ASSUME NEW m \in LabelPositions(q)
      PROVE  \E k \in S \cap LabelPositions(p) : Place(h, k) = m /\ q[m].label = p[k].label
  <2>1. m \in 1 .. Len(q) /\ q[m].kind = "label"
    BY DEF LabelPositions, IsLabel
  <2>2. PICK k \in K : Place(h, k) = m
    BY <1>2, <2>1
  <2>3. p[k].kind = "label" /\ q[m].label = p[k].label
    BY <1>2, <1>5, <2>1, <2>2 DEF IsLabel
  <2> QED  BY <2>2, <2>3 DEF K, LabelPositions, IsLabel
<1>8. ASSUME NEW k \in S \cap LabelPositions(p)
      PROVE  Place(h, k) \in LabelPositions(q) /\ q[Place(h, k)].label = p[k].label
  <2>1. k \in K /\ p[k].kind = "label"
    BY <1>6 DEF IsLabel
  <2>2. Place(h, k) \in 1 .. Len(q) /\ q[Place(h, k)].kind = "label" /\ q[Place(h, k)].label = p[k].label
    BY <1>2, <1>5, <2>1 DEF IsLabel
  <2> QED  BY <2>2 DEF LabelPositions, IsLabel
<1>9. \A j, m \in LabelPositions(q) : q[j].label = q[m].label => j = m
  <2>1. SUFFICES ASSUME NEW j \in LabelPositions(q), NEW m \in LabelPositions(q), q[j].label = q[m].label
                 PROVE  j = m
    OBVIOUS
  <2>2. PICK a \in S \cap LabelPositions(p) : Place(h, a) = j /\ q[j].label = p[a].label
    BY <1>7
  <2>3. PICK b \in S \cap LabelPositions(p) : Place(h, b) = m /\ q[m].label = p[b].label
    BY <1>7
  <2>4. a = b
    BY <2>1, <2>2, <2>3, LabelsAreUnique
  <2> QED  BY <2>2, <2>3, <2>4
<1>10. Cardinality(LabelPositions(q)) = Cardinality(LabelsOf(q))
  BY <1>3, <1>9, DifferentLabels
<1>11. ASSUME NEW m \in 1 .. Len(q), IsBranch(q[m]) PROVE q[m].label \in LabelsOf(q)
  <2>1. PICK k \in K : Place(h, k) = m /\ q[m] = g[k]
    BY <1>2
  <2>2. PICK j \in S \cap LabelPositions(p) : p[j].label = g[k].label
    BY <1>11, <2>1 DEF K
  <2> QED  BY <1>8, <2>1, <2>2 DEF LabelsOf
<1>12. EntryLabel \in LabelsOf(q) => q # << >> /\ IsLabel(q[1])
  <2>1. SUFFICES ASSUME EntryLabel \in LabelsOf(q) PROVE q # << >> /\ IsLabel(q[1])
    OBVIOUS
  <2>2. EntryLabel \in LabelsOf(p)
    BY <1>7, <2>1 DEF LabelsOf
  <2>3. p # << >> /\ IsLabel(p[1]) /\ 1 \in S
    BY <2>2 DEF IsProgram, BuildFails
  <2>4. n # 0
    BY <2>3 DEF IsProgram
  <2>5. 1 \in K
    BY <1>1, <2>3, <2>4 DEF K
  <2>6. 1 \in 1 .. Len(q) /\ q[1] = g[1]
    BY <1>2, <2>5
  <2> QED  BY <1>5, <2>3, <2>5, <2>6, <1>3 DEF IsLabel
<1>13. IsProgram(q)
  BY <1>2, <1>4, <1>10, <1>11, <1>12 DEF IsProgram, BuildFails
<1>14. ASSUME NEW j \in S \cap LabelPositions(p) PROVE LabelAt(q, p[j].label) = Place(h, j)
  <2>1. Place(h, j) \in LabelPositions(q) /\ q[Place(h, j)].label = p[j].label
    BY <1>8
  <2> QED  BY <1>13, <2>1, LabelsAreUnique
<1> QED  BY <1>13, <1>14

-----------------------------------------------------------------------------
(* One program that follows another: item k stands at at[k] or is dropped,  *)
(* and before it lanes may differ in the registers dead[k].                 *)

Stands(p, q, k, at) ==
  /\ at[k] \in 1 .. Len(q) /\ q[at[k]] = [p[k] EXCEPT !.label = q[at[k]].label]
  /\ ~IsLabel(p[k]) => NextPC(q, at[k]) = at[NextPC(p, k)]
  /\ IsLabel(p[k]) \/ p[k].guarded => at[k + 1] = at[k] + 1
Drops(p, k, at) == p[k].op # "st" /\ \A s \in ItemSuccessors(p, k) : at[s] = at[k]

ResultsOf(i) == IF i.kind = "op" /\ i.op # "st" THEN {i.dest} ELSE {}
Overwritten(i) == IF i.guarded THEN {} ELSE ResultsOf(i)

\* Among the items that are seen at all.
Follows(p, q, seen, at, dead) ==
  /\ 1 \in seen /\ at[1] = 1 /\ at[Len(p) + 1] = Len(q) + 1
  /\ \A k \in seen \cap (1 .. Len(p)) :
       /\ ItemSuccessors(p, k) \subseteq seen
       /\ \/ /\ Stands(p, q, k, at)
             /\ IsLabel(p[k]) \/ ReadBy(p[k]) \cap dead[k] = {}
             /\ \A s \in ItemSuccessors(p, k) : dead[k] \ Overwritten(p[k]) \subseteq dead[s]
          \/ /\ Drops(p, k, at)
             /\ \A s \in ItemSuccessors(p, k) : dead[k] \cup ResultsOf(p[k]) \subseteq dead[s]

AgreeBut(a, b, gone) ==
  /\ b.mem = a.mem /\ b.params = a.params /\ b.stores = a.stores
  /\ \A r \in (DataRegs \cup PredRegs) \ gone : b.regs[r] = a.regs[r]
Tracks(p, q, seen, at, dead, a, b) ==
  /\ IsLane(p, a) /\ IsLane(q, b)
  /\ a.pc \in seen /\ b.pc = at[a.pc] /\ AgreeBut(a, b, dead[a.pc])

\* Control goes to one of the successors.
LEMMA StepGoesOn ==
  ASSUME NEW p, IsProgram(p), NEW a, IsLane(p, a), a.pc \in 1 .. Len(p)
  PROVE  /\ LaneStep(p, a).pc \in ItemSuccessors(p, a.pc)
         /\ LaneStep(p, a).pc = IF IsLabel(p[a.pc]) \/ ~GuardHolds(p[a.pc], a) THEN a.pc + 1
                                ELSE NextPC(p, a.pc)
<1> DEFINE i == p[a.pc]
           s == LaneStep(p, a)
<1>1. i \in Items /\ WellFormed(i)
  BY ProgramFacts
<1>2. i.kind \in {"label", "bra", "ret", "op"}
  BY <1>1 DEF Items
<1>3. DOMAIN a = LaneFields /\ LaneFields = {"pc", "regs", "params", "mem", "stores"}
  BY DEF IsLane, LaneFields
<1>4. s.pc = IF IsLabel(i) \/ ~GuardHolds(i, a) THEN a.pc + 1 ELSE NextPC(p, a.pc)
  <2>1. CASE i.kind = "label" \/ ~GuardHolds(i, a)
    <3>1. s = [a EXCEPT !.pc = @ + 1]
      BY <2>1, StepOf
    <3> QED  BY <1>3, <2>1, <3>1 DEF IsLabel
  <2>2. CASE i.kind \in {"bra", "ret"} /\ GuardHolds(i, a)
    <3>1. s = [a EXCEPT !.pc = NextPC(p, @)]
      BY <2>2, StepOf
    <3> QED  BY <1>3, <2>2, <3>1 DEF IsLabel
  <2>3. CASE i.kind = "op" /\ GuardHolds(i, a)
    <3>1. NextPC(p, a.pc) = a.pc + 1
      BY <2>3 DEF NextPC, IsBranch
    <3>2. CASE i.op = "st"
      <4>1. s = AfterStore(i, a)
        BY <2>3, <3>2, StepOf DEF StoresNow
      <4> HIDE DEF s, i
      <4>2. s.pc = a.pc + 1
        BY <1>3, <4>1 DEF AfterStore
      <4> QED  BY <2>3, <3>1, <4>2 DEF IsLabel
    <3>3. CASE i.op # "st"
      <4>1. s = AfterWrite(i, a)
        BY <2>3, <3>3, StepOf DEF WritesNow
      <4> HIDE DEF s, i
      <4>2. s.pc = a.pc + 1
        BY <1>3, <4>1 DEF AfterWrite
      <4> QED  BY <2>3, <3>1, <4>2 DEF IsLabel
    <3> QED  BY <3>2, <3>3
  <2> QED  BY <1>2, <2>1, <2>2, <2>3
<1>5. s.pc \in ItemSuccessors(p, a.pc)
  <2>1. CASE IsLabel(i)
    BY <1>4, <2>1 DEF ItemSuccessors
  <2>2. CASE ~IsLabel(i) /\ ~GuardHolds(i, a)
    <3>1. i.guarded
      BY <2>2 DEF GuardHolds
    <3> QED  BY <1>4, <2>2, <3>1 DEF ItemSuccessors
  <2>3. CASE ~IsLabel(i) /\ GuardHolds(i, a)
    BY <1>4, <2>3 DEF ItemSuccessors
  <2> QED  BY <2>1, <2>2, <2>3
<1> QED  BY <1>4, <1>5

\* A step on a dropped item is one the other lane need not make.
LEMMA DroppedStep ==
  ASSUME NEW p, IsProgram(p), NEW q, NEW seen, NEW at, NEW dead, NEW a, NEW b,
         Tracks(p, q, seen, at, dead, a, b), a.pc \in 1 .. Len(p),
         ItemSuccessors(p, a.pc) \subseteq seen, Drops(p, a.pc, at),
         \A s \in ItemSuccessors(p, a.pc) : dead[a.pc] \cup ResultsOf(p[a.pc]) \subseteq dead[s]
  PROVE  Tracks(p, q, seen, at, dead, LaneStep(p, a), b)
<1> DEFINE i == p[a.pc]
           s == LaneStep(p, a)
<1>1. IsLane(p, a) /\ IsLane(q, b) /\ b.pc = at[a.pc] /\ AgreeBut(a, b, dead[a.pc])
  BY DEF Tracks
<1>2. IsLane(p, s) /\ Effect(p, a, s)
  BY <1>1, StepEffect
<1>3. s.pc \in ItemSuccessors(p, a.pc)
  BY <1>1, StepGoesOn
<1>4. s.pc \in seen /\ at[s.pc] = at[a.pc] /\ dead[a.pc] \cup ResultsOf(i) \subseteq dead[s.pc] /\ i.op # "st"
  BY <1>3 DEF Drops
<1>5. AgreeBut(s, b, dead[s.pc])
  <2>1. s.mem = a.mem /\ s.stores = a.stores /\ s.params = a.params
    BY <1>2, <1>4 DEF Effect, StoresNow
  <2>2. ASSUME NEW r \in (DataRegs \cup PredRegs) \ dead[s.pc] PROVE b.regs[r] = s.regs[r]
    <3>1. b.regs[r] = a.regs[r]
      BY <1>1, <1>4 DEF AgreeBut
    <3>2. CASE WritesNow(i, a)
      <4>1. r # i.dest
        BY <1>4, <3>2 DEF WritesNow, ResultsOf
      <4>2. s.regs = [a.regs EXCEPT ![i.dest] = Result(i, Operands(i, a), a)]
        BY <1>2, <3>2 DEF Effect
      <4>3. r \in DOMAIN a.regs
        BY <1>1 DEF IsLane
      <4> QED  BY <3>1, <4>1, <4>2, <4>3
    <3>3. CASE ~WritesNow(i, a)
      BY <1>2, <3>1, <3>3 DEF Effect
    <3> QED  BY <3>2, <3>3
  <2> QED  BY <1>1, <2>1, <2>2 DEF AgreeBut
<1> QED  BY <1>1, <1>2, <1>4, <1>5 DEF Tracks

\* Lanes that agree on what an instruction reads agree on what it does.
LEMMA SameReading ==
  ASSUME NEW i \in Items, WellFormed(i), ~IsLabel(i), NEW j, j = [i EXCEPT !.label = j.label],
         NEW a, NEW b, NEW gone, AgreeBut(a, b, gone), ReadBy(i) \cap gone = {}
  PROVE  /\ GuardHolds(j, b) = GuardHolds(i, a)
         /\ Operands(j, b) = Operands(i, a)
         /\ j.kind = i.kind /\ j.op = i.op /\ j.dest = i.dest
         /\ Result(j, Operands(j, b), b) = Result(i, Operands(i, a), a)
<1>1. /\ j.kind = i.kind /\ j.op = i.op /\ j.dest = i.dest /\ j.guard = i.guard /\ j.type = i.type
      /\ j.guarded = i.guarded /\ j.negated = i.negated /\ j.args = i.args /\ j.compare = i.compare
  BY DEF Items
<1>2. /\ b.mem = a.mem /\ b.params = a.params /\ b.stores = a.stores
      /\ \A r \in (DataRegs \cup PredRegs) \ gone : b.regs[r] = a.regs[r]
  BY DEF AgreeBut
<1>3. GuardHolds(j, b) = GuardHolds(i, a)
  <2>1. CASE i.guarded
    <3>1. i.guard \in PredRegs /\ i.guard \in ReadBy(i)
      BY <2>1 DEF WellFormed, ReadBy
    <3>2. b.regs[i.guard] = a.regs[i.guard]
      BY <1>2, <3>1
    <3> QED  BY <1>1, <3>2 DEF GuardHolds
  <2>2. CASE ~i.guarded
    BY <1>1, <2>2 DEF GuardHolds
  <2> QED  BY <2>1, <2>2
<1>4. Operands(j, b) = Operands(i, a)
  <2>1. ASSUME NEW k \in DOMAIN i.args, i.args[k].reg # "" PROVE b.regs[i.args[k].reg] = a.regs[i.args[k].reg]
    <3>1. i.args[k] \in {Reg(r) : r \in DataRegs \cup PredRegs} \cup {Imm(i.args[k].imm)}
      BY DEF WellFormed
    <3>2. i.args[k].reg \in DataRegs \cup PredRegs
      <4> DEFINE x == i.args[k]
      <4>1. x \in {Reg(r) : r \in DataRegs \cup PredRegs} \/ x = Imm(x.imm)
        BY <3>1
      <4> HIDE DEF x
      <4>2. CASE x = Imm(x.imm)
        <5> DEFINE v == x.imm
        <5> HIDE DEF v
        <5>1. x = Imm(v)
          BY <4>2 DEF v
        <5>2. x.reg = ""
          BY <5>1 DEF Imm
        <5> QED  BY <2>1, <5>2 DEF x
      <4>3. CASE x \in {Reg(r) : r \in DataRegs \cup PredRegs}
        <5>1. PICK r \in DataRegs \cup PredRegs : x = Reg(r)
          BY <4>3
        <5> QED  BY <5>1 DEF Reg, x
      <4> QED  BY <4>1, <4>2, <4>3
    <3>3. i.args[k].reg \in ReadBy(i)
      BY DEF ReadBy
    <3> QED  BY <1>2, <3>2, <3>3
  <2> QED  BY <1>1, <2>1 DEF Operands
<1>5. Result(j, Operands(j, b), b) = Result(i, Operands(i, a), a)
  BY <1>1, <1>2, <1>4 DEF Result
<1> QED  BY <1>1, <1>3, <1>4, <1>5

\* A step on an item that stands is made by both lanes.
LEMMA StandingStep ==
  ASSUME NEW p, IsProgram(p), NEW q, IsProgram(q), NEW seen, NEW at, NEW dead, NEW a, NEW b,
         Tracks(p, q, seen, at, dead, a, b), a.pc \in 1 .. Len(p),
         ItemSuccessors(p, a.pc) \subseteq seen, Stands(p, q, a.pc, at),
         IsLabel(p[a.pc]) \/ ReadBy(p[a.pc]) \cap dead[a.pc] = {},
         \A s \in ItemSuccessors(p, a.pc) : dead[a.pc] \ Overwritten(p[a.pc]) \subseteq dead[s]
  PROVE  Tracks(p, q, seen, at, dead, LaneStep(p, a), LaneStep(q, b))
<1> DEFINE i == p[a.pc]
           j == q[b.pc]
           s == LaneStep(p, a)
           t == LaneStep(q, b)
<1>1. IsLane(p, a) /\ IsLane(q, b) /\ b.pc = at[a.pc] /\ AgreeBut(a, b, dead[a.pc])
  BY DEF Tracks
<1>2. b.pc \in 1 .. Len(q) /\ j = [i EXCEPT !.label = j.label]
  BY <1>1 DEF Stands
<1>3. IsLane(p, s) /\ IsLane(q, t) /\ Effect(p, a, s) /\ Effect(q, b, t)
  BY <1>1, <1>2, StepEffect
<1>4. /\ s.pc \in ItemSuccessors(p, a.pc)
      /\ s.pc = IF IsLabel(i) \/ ~GuardHolds(i, a) THEN a.pc + 1 ELSE NextPC(p, a.pc)
      /\ t.pc = IF IsLabel(j) \/ ~GuardHolds(j, b) THEN b.pc + 1 ELSE NextPC(q, b.pc)
  BY <1>1, <1>2, StepGoesOn
<1>5. i \in Items /\ WellFormed(i)
  BY ProgramFacts
<1>6. IsLabel(j) = IsLabel(i)
  BY <1>2, <1>5 DEF IsLabel, Items
<1>7. ~IsLabel(i) => /\ GuardHolds(j, b) = GuardHolds(i, a)
                     /\ Operands(j, b) = Operands(i, a)
                     /\ j.kind = i.kind /\ j.op = i.op /\ j.dest = i.dest
                     /\ Result(j, Operands(j, b), b) = Result(i, Operands(i, a), a)
  <2>1. SUFFICES ASSUME ~IsLabel(i) PROVE /\ GuardHolds(j, b) = GuardHolds(i, a)
                     /\ Operands(j, b) = Operands(i, a)
                     /\ j.kind = i.kind /\ j.op = i.op /\ j.dest = i.dest
                     /\ Result(j, Operands(j, b), b) = Result(i, Operands(i, a), a)
    OBVIOUS
  <2>2. ReadBy(i) \cap dead[a.pc] = {}
    BY <2>1
  <2> HIDE DEF i, j
  <2> QED  BY <1>1, <1>2, <1>5, <2>1, <2>2, SameReading
<1>8. t.pc = at[s.pc]
  <2>1. /\ ~IsLabel(i) => NextPC(q, b.pc) = at[NextPC(p, a.pc)]
        /\ IsLabel(i) \/ i.guarded => at[a.pc + 1] = b.pc + 1
    BY <1>1 DEF Stands
  <2>2. ~GuardHolds(i, a) => i.guarded
    BY DEF GuardHolds
  <2> HIDE DEF i, j, s, t
  <2>3. CASE IsLabel(i)
    BY <1>4, <1>6, <2>1, <2>3
  <2>4. CASE ~IsLabel(i)
    BY <1>4, <1>6, <1>7, <2>1, <2>2, <2>4
  <2> QED  BY <2>3, <2>4
<1>9. s.pc \in seen /\ dead[a.pc] \ Overwritten(i) \subseteq dead[s.pc]
  BY <1>4
<1>10. /\ b.mem = a.mem /\ b.params = a.params /\ b.stores = a.stores
       /\ \A r \in (DataRegs \cup PredRegs) \ dead[a.pc] : b.regs[r] = a.regs[r]
  BY <1>1 DEF AgreeBut
<1>11. \A r \in DataRegs \cup PredRegs : r \in DOMAIN a.regs /\ r \in DOMAIN b.regs
  BY <1>1 DEF IsLane
<1>12. t.params = s.params
  BY <1>3, <1>10 DEF Effect
<1>13. t.mem = s.mem /\ t.stores = s.stores
  <2>1. CASE StoresNow(i, a)
    <3>1. StoresNow(j, b) /\ Operands(j, b) = Operands(i, a)
      BY <1>7, <2>1 DEF StoresNow, IsLabel
    <3>2. s = AfterStore(i, a) /\ t = AfterStore(j, b)
      BY <1>1, <1>2, <2>1, <3>1, StepOf
    <3>3. /\ DOMAIN a = LaneFields /\ DOMAIN b = LaneFields
          /\ LaneFields = {"pc", "regs", "params", "mem", "stores"}
      BY <1>1 DEF IsLane, LaneFields
    <3> DEFINE v == Operands(i, a)
    <3> HIDE DEF i, j, s, t, v
    <3>4. s = [a EXCEPT !.pc = @ + 1, !.mem[v[1] % MemoryWords] = v[2],
                        !.stores = Append(@, <<v[1] % MemoryWords, v[2]>>)]
      BY <3>2 DEF AfterStore, v
    <3>5. t = [b EXCEPT !.pc = @ + 1, !.mem[v[1] % MemoryWords] = v[2],
                        !.stores = Append(@, <<v[1] % MemoryWords, v[2]>>)]
      BY <3>1, <3>2 DEF AfterStore, v
    <3> DEFINE m(x) == [x.mem EXCEPT ![v[1] % MemoryWords] = v[2]]
               u(x) == Append(x.stores, <<v[1] % MemoryWords, v[2]>>)
    <3>6. m(a) = m(b) /\ u(a) = u(b)
      BY <1>10
    <3>7. s.mem = m(a) /\ s.stores = u(a) /\ t.mem = m(b) /\ t.stores = u(b)
      BY <3>3, <3>4, <3>5
    <3> QED  BY <3>6, <3>7
  <2>2. CASE ~StoresNow(i, a)
    <3>1. ~StoresNow(j, b)
      BY <1>6, <1>7, <2>2 DEF StoresNow, IsLabel
    <3> QED  BY <1>3, <1>10, <2>2, <3>1 DEF Effect
  <2> QED  BY <2>1, <2>2
<1>14. ASSUME NEW r \in (DataRegs \cup PredRegs) \ dead[s.pc] PROVE t.regs[r] = s.regs[r]
  <2>1. CASE WritesNow(i, a)
    <3>1. WritesNow(j, b) /\ j.dest = i.dest /\ Result(j, Operands(j, b), b) = Result(i, Operands(i, a), a)
      BY <1>7, <2>1 DEF WritesNow, IsLabel
    <3> DEFINE x == Result(i, Operands(i, a), a)
    <3>2. s.regs = [a.regs EXCEPT ![i.dest] = x] /\ t.regs = [b.regs EXCEPT ![i.dest] = x]
      BY <1>3, <2>1, <3>1 DEF Effect
    <3> HIDE DEF x
    <3>3. CASE r = i.dest
      BY <1>11, <3>2, <3>3
    <3>4. CASE r # i.dest
      <4>1. r \notin dead[a.pc]
        BY <1>9, <3>4 DEF Overwritten, ResultsOf
      <4> QED  BY <1>10, <1>11, <3>2, <3>4, <4>1
    <3> QED  BY <3>3, <3>4
  <2>2. CASE ~WritesNow(i, a)
    <3>1. ~WritesNow(j, b)
      BY <1>6, <1>7, <2>2 DEF WritesNow, IsLabel
    <3>2. s.regs = a.regs /\ t.regs = b.regs
      BY <1>3, <2>2, <3>1 DEF Effect
    <3>3. r \notin dead[a.pc]
      <4>1. ~GuardHolds(i, a) => i.guarded
        BY DEF GuardHolds
      <4>2. Overwritten(i) = {}
        BY <2>2, <4>1 DEF WritesNow, Overwritten, ResultsOf
      <4> QED  BY <1>9, <4>2
    <3> QED  BY <1>10, <3>2, <3>3
  <2> QED  BY <2>1, <2>2
<1>15. AgreeBut(s, t, dead[s.pc])
  BY <1>12, <1>13, <1>14 DEF AgreeBut
<1> QED  BY <1>3, <1>8, <1>9, <1>15 DEF Tracks

\* So the other lane has, at every moment, made some of the steps and stored
\* the same.
LEMMA TrackedRuns ==
  ASSUME NEW p, IsProgram(p), NEW q, IsProgram(q), NEW seen, NEW at, NEW dead,
         Follows(p, q, seen, at, dead), NEW lane, IsLane(p, lane), IsLane(q, lane), lane.pc = 1,
         NEW n \in Nat
  PROVE  \E m \in 0 .. n : Tracks(p, q, seen, at, dead, RunLane(p, lane, n), RunLane(q, lane, m))
<1> DEFINE Good(k) == \E m \in 0 .. k : Tracks(p, q, seen, at, dead, RunLane(p, lane, k), RunLane(q, lane, m))
           S == {k \in Nat : Good(k)}
<1>1. 0 \in S
  <2>1. RunLane(p, lane, 0) = lane /\ RunLane(q, lane, 0) = lane
    BY RunZero
  <2>2. Tracks(p, q, seen, at, dead, lane, lane)
    BY DEF Follows, Tracks, AgreeBut
  <2>3. 0 \in 0 .. 0
    OBVIOUS
  <2>4. Good(0)
    BY <2>1, <2>2, <2>3
  <2> QED  BY <2>4
<1>2. ASSUME NEW k \in Nat, k \in S PROVE k + 1 \in S
  <2>1. PICK m \in 0 .. k : Tracks(p, q, seen, at, dead, RunLane(p, lane, k), RunLane(q, lane, m))
    BY <1>2
  <2> DEFINE a == RunLane(p, lane, k)
             b == RunLane(q, lane, m)
  <2>2. RunLane(p, lane, k + 1) = LaneStep(p, a) /\ RunLane(q, lane, m + 1) = LaneStep(q, b)
    BY RunSucc
  <2>3. Tracks(p, q, seen, at, dead, a, b)
    BY <2>1
  <2> HIDE DEF a, b
  <2>4. \/ Tracks(p, q, seen, at, dead, LaneStep(p, a), b)
        \/ Tracks(p, q, seen, at, dead, LaneStep(p, a), LaneStep(q, b))
    <3>1. CASE a.pc > Len(p)
      BY <2>3, <3>1, StoppedStays
    <3>2. CASE ~(a.pc > Len(p))
      <4>1. a.pc \in 1 .. Len(p) /\ a.pc \in seen
        BY <2>3, <3>2, ProgramFacts DEF Tracks, IsLane
      <4>2. /\ ItemSuccessors(p, a.pc) \subseteq seen
            /\ \/ /\ Stands(p, q, a.pc, at)
                  /\ IsLabel(p[a.pc]) \/ ReadBy(p[a.pc]) \cap dead[a.pc] = {}
                  /\ \A s \in ItemSuccessors(p, a.pc) : dead[a.pc] \ Overwritten(p[a.pc]) \subseteq dead[s]
               \/ /\ Drops(p, a.pc, at)
                  /\ \A s \in ItemSuccessors(p, a.pc) : dead[a.pc] \cup ResultsOf(p[a.pc]) \subseteq dead[s]
        BY <4>1 DEF Follows
      <4> QED  BY <2>3, <4>1, <4>2, StandingStep, DroppedStep
    <3> QED  BY <3>1, <3>2
  <2>5. m \in 0 .. k + 1 /\ m + 1 \in 0 .. k + 1
    OBVIOUS
  <2>6. Good(k + 1)
    BY <2>2, <2>4, <2>5 DEF b
  <2> QED  BY <2>6
<1>3. Nat \subseteq S
  <2> HIDE DEF S
  <2> QED  BY <1>1, <1>2, InductionOnSet
<1> QED  BY <1>3

\* A shorter program that follows does what the longer one did.
LEMMA FollowingPreserves ==
  ASSUME NEW p, IsProgram(p), NEW q, IsProgram(q), NEW seen, NEW at, NEW dead,
         Follows(p, q, seen, at, dead)
  PROVE  Preserved(p, q)
<1>1. ASSUME NEW lane \in LaunchedLanes(p),
             NEW a, a = RunLane(p, lane, Steps), NEW b, b = RunLane(q, lane, Steps + Len(p))
      PROVE  /\ IsPrefix(a.stores, b.stores)
             /\ a.pc > Len(p) => b.pc > Len(q) /\ b.stores = a.stores
  <2>1. Steps \in Nat /\ Len(p) \in Nat /\ Len(q) \in Nat
    BY StepsAssumption, ProgramFacts
  <2>2. IsLane(p, lane) /\ lane.pc = 1
    BY LaunchFacts
  <2>3. IsLane(q, lane)
    <3>1. 1 \in 1 .. Len(q) + 1
      BY <2>1
    <3> QED  BY <2>2, <3>1 DEF IsLane
  <2>4. PICK m \in 0 .. Steps : Tracks(p, q, seen, at, dead, a, RunLane(q, lane, m))
    BY <1>1, <2>1, <2>2, <2>3, TrackedRuns
  <2> DEFINE c == RunLane(q, lane, m)
             d == Steps + Len(p) - m
  <2>5. d \in Nat /\ m \in Nat /\ m + d = Steps + Len(p)
    BY <2>1
  <2>6. b = RunLane(q, lane, m + d)
    BY <1>1, <2>5
  <2> HIDE DEF d
  <2>7. IsPrefix(c.stores, b.stores) /\ (c.pc > Len(q) => b = c)
    BY <2>3, <2>5, <2>6, RunsGrow
  <2>8. c.stores = a.stores /\ c.pc = at[a.pc] /\ a.pc \in 1 .. Len(p) + 1
    BY <2>4 DEF Tracks, AgreeBut, IsLane
  <2>9. a.pc > Len(p) => c.pc = Len(q) + 1
    BY <2>1, <2>8 DEF Follows
  <2> HIDE DEF c
  <2> QED  BY <2>1, <2>7, <2>8, <2>9
<1>2. Alike(p, q, Steps + Len(p))
  BY <1>1 DEF Alike
<1> QED  BY <1>2 DEF Preserved, IsProgram

-----------------------------------------------------------------------------
(* Dead results and dead code: dropped items write registers nothing reads. *)

\* Control goes to an item or behind the last one.
LEMMA SuccessorsInside ==
  ASSUME NEW p, IsProgram(p), NEW k \in 1 .. Len(p)
  PROVE  NextPC(p, k) \in 1 .. Len(p) + 1 /\ ItemSuccessors(p, k) \subseteq 1 .. Len(p) + 1
<1>1. Len(p) \in Nat
  BY ProgramFacts
<1>2. IsBranch(p[k]) => LabelAt(p, p[k].label) \in 1 .. Len(p)
  BY ProgramFacts DEF LabelPositions
<1>3. NextPC(p, k) \in 1 .. Len(p) + 1
  BY <1>1, <1>2 DEF NextPC, Stopped
<1>4. ItemSuccessors(p, k) \subseteq {k + 1, NextPC(p, k)}
  BY DEF ItemSuccessors
<1> QED  BY <1>1, <1>3, <1>4

\* Items can be dropped together when what they write is read by none that stays.
LEMMA DropPreserves ==
  ASSUME NEW p, IsProgram(p), NEW S, LabelPositions(p) \subseteq S, NEW D,
         \A k \in (1 .. Len(p)) \ S : p[k].kind = "op" /\ p[k].op # "st" /\ ~p[k].guarded /\ p[k].dest \in D,
         \A k \in S \cap (1 .. Len(p)) : ~IsLabel(p[k]) => ReadBy(p[k]) \cap D = {}
  PROVE  Preserved(p, Kept(p, S))
<1> DEFINE n == Len(p)
           q == Kept(p, S)
           K == S \cap (1 .. n)
<1>1. /\ n \in Nat
      /\ \A k \in 1 .. n : p[k] \in Items /\ WellFormed(p[k])
      /\ \A k \in 1 .. n : IsBranch(p[k]) => LabelAt(p, p[k].label) \in LabelPositions(p)
  BY ProgramFacts
<1>2. PICK h : Sieved(p, S, n, h) /\ q = h[n]
  BY <1>1, SievesExist, KeptBySieve
<1>3. SievedFrom(Items, p, S, n, h)
  BY <1>1, <1>2 DEF SievedFrom
<1>4. /\ Place(h, 1) = 1 /\ Place(h, n + 1) = Len(q) + 1
      /\ \A k \in 1 .. n + 1 : Place(h, k) \in 1 .. Len(q) + 1
      /\ \A k \in 1 .. n : Place(h, k + 1) = IF k \in S THEN Place(h, k) + 1 ELSE Place(h, k)
      /\ \A k \in K : Place(h, k) \in 1 .. Len(q) /\ q[Place(h, k)] = p[k]
  BY <1>2, <1>3, SievePlaces
<1> HIDE DEF q
<1>5. /\ IsProgram(q)
      /\ \A j \in S \cap LabelPositions(p) : LabelAt(q, p[j].label) = Place(h, j)
  <2>1. \A k \in K : WellFormed(p[k])
    BY <1>1
  <2>2. ASSUME NEW k \in K, IsBranch(p[k]) PROVE \E j \in S \cap LabelPositions(p) : p[j].label = p[k].label
    <3>1. LabelAt(p, p[k].label) \in LabelPositions(p)
      BY <1>1, <2>2
    <3>2. p[k].label \in LabelsOf(p)
      BY <2>2 DEF IsProgram, BuildFails
    <3>3. PICK j \in LabelPositions(p) : p[j].label = p[k].label
      BY <3>2 DEF LabelsOf
    <3> QED  BY <3>3
  <2>3. EntryLabel \in LabelsOf(p) => 1 \in S
    <3>1. SUFFICES ASSUME EntryLabel \in LabelsOf(p) PROVE 1 \in LabelPositions(p)
      OBVIOUS
    <3>2. p # << >> /\ IsLabel(p[1])
      BY <3>1 DEF IsProgram, BuildFails
    <3>3. n # 0
      BY <3>2 DEF IsProgram
    <3> QED  BY <1>1, <3>2, <3>3 DEF LabelPositions
  <2> QED  BY <1>2, <1>3, <2>1, <2>2, <2>3, SievedProgram
<1> DEFINE seen == 1 .. n + 1
           at == [k \in seen |-> Place(h, k)]
           dead == [k \in seen |-> D]
<1>6. ASSUME NEW k \in 1 .. n
      PROVE  /\ ItemSuccessors(p, k) \subseteq seen /\ NextPC(p, k) \in seen
             /\ k \in seen /\ k + 1 \in seen
             /\ \A s \in ItemSuccessors(p, k) : dead[s] = D
             /\ dead[k] = D
  BY <1>1, SuccessorsInside
<1>7. ASSUME NEW k \in K PROVE Stands(p, q, k, at)
  <2>1. at[k] = Place(h, k) /\ at[k] \in 1 .. Len(q) /\ q[at[k]] = p[k]
    BY <1>4, <1>6
  <2>2. p[k] = [p[k] EXCEPT !.label = p[k].label]
    <3>1. p[k] \in Items
      BY <1>1
    <3> QED  BY <3>1 DEF Items
  <2>3. at[k + 1] = at[k] + 1
    BY <1>4, <1>6, <2>1
  <2> DEFINE m == at[k]
  <2>4. ASSUME ~IsLabel(p[k]) PROVE NextPC(q, m) = at[NextPC(p, k)]
    <3>0. q[m] = p[k]
      BY <2>1
    <3> HIDE DEF m
    <3>1. CASE IsBranch(p[k])
      <4>1. LabelAt(p, p[k].label) \in S \cap LabelPositions(p)
        BY <1>1, <3>1
      <4>2. p[LabelAt(p, p[k].label)].label = p[k].label
        <5>1. p[k].label \in LabelsOf(p)
          BY <3>1 DEF IsProgram, BuildFails
        <5>2. PICK j \in LabelPositions(p) : p[j].label = p[k].label
          BY <5>1 DEF LabelsOf
        <5> QED  BY <5>2, LabelsAreUnique
      <4>3. LabelAt(q, p[k].label) = Place(h, LabelAt(p, p[k].label))
        BY <1>5, <4>1, <4>2
      <4>4. NextPC(p, k) = LabelAt(p, p[k].label) /\ NextPC(q, m) = LabelAt(q, p[k].label)
        BY <3>0, <3>1 DEF NextPC, IsBranch
      <4> QED  BY <1>6, <4>3, <4>4
    <3>2. CASE ~IsBranch(p[k]) /\ p[k].kind = "ret"
      <4>1. NextPC(p, k) = n + 1 /\ NextPC(q, m) = Len(q) + 1
        BY <3>0, <3>2 DEF NextPC, Stopped
      <4> QED  BY <1>4, <1>6, <4>1
    <3>3. CASE ~IsBranch(p[k]) /\ p[k].kind # "ret"
      <4>1. NextPC(p, k) = k + 1 /\ NextPC(q, m) = m + 1
        BY <3>0, <3>3 DEF NextPC
      <4> QED  BY <2>3, <4>1 DEF m
    <3> QED  BY <3>1, <3>2, <3>3
  <2> HIDE DEF at
  <2> QED  BY <2>1, <2>2, <2>3, <2>4 DEF Stands
<1>8. ASSUME NEW k \in (1 .. n) \ S PROVE Drops(p, k, at) /\ ResultsOf(p[k]) \subseteq D
  <2>1. p[k].kind = "op" /\ p[k].op # "st" /\ ~p[k].guarded /\ p[k].dest \in D
    OBVIOUS
  <2>2. ItemSuccessors(p, k) \subseteq {k + 1}
    BY <2>1 DEF ItemSuccessors, NextPC, IsLabel, IsBranch
  <2>3. at[k + 1] = at[k]
    BY <1>4, <1>6
  <2> HIDE DEF at
  <2> QED  BY <2>1, <2>2, <2>3 DEF Drops, ResultsOf
<1>9. 1 \in seen /\ n + 1 \in seen /\ at[1] = 1 /\ at[n + 1] = Len(q) + 1
  BY <1>1, <1>4
<1>10. ASSUME NEW k \in 1 .. n
       PROVE  \/ /\ Stands(p, q, k, at)
                 /\ IsLabel(p[k]) \/ ReadBy(p[k]) \cap dead[k] = {}
                 /\ \A s \in ItemSuccessors(p, k) : dead[k] \ Overwritten(p[k]) \subseteq dead[s]
              \/ /\ Drops(p, k, at)
                 /\ \A s \in ItemSuccessors(p, k) : dead[k] \cup ResultsOf(p[k]) \subseteq dead[s]
  <2> HIDE DEF at, dead
  <2>1. CASE k \in S
    BY <1>6, <1>7, <2>1
  <2>2. CASE k \notin S
    BY <1>6, <1>8, <2>2
  <2> QED  BY <2>1, <2>2
<1>11. Follows(p, q, seen, at, dead)
  <2> HIDE DEF at, dead
  <2>1. seen \cap (1 .. Len(p)) = 1 .. n
    BY <1>1
  <2> HIDE DEF seen
  <2> QED  BY <1>6, <1>9, <1>10, <2>1 DEF Follows
<1> HIDE DEF seen, at, dead
<1>12. Preserved(p, q)
  BY <1>5, <1>11, FollowingPreserves
<1> QED  BY <1>12 DEF q

\* What an instruction reads, the pass knows it reads.
LEMMA ReadsAreKnown ==
  ASSUME NEW p, IsProgram(p), NEW S, NEW j \in S \cap (1 .. Len(p)), ~IsLabel(p[j]),
         NEW r \in ReadBy(p[j]), r # ""
  PROVE  r \in ReadRegistersOf(p, S)
<1>1. r \in ReadRegisters(p[j])
  BY DEF ReadBy, ReadRegisters
<1> QED  BY <1>1 DEF ReadRegistersOf

\* An instruction the dead-code passes may drop is an operation with a result.
LEMMA PureFacts ==
  ASSUME NEW p, IsProgram(p), NEW k \in 1 .. Len(p), p[k].op \in PureResultBases
  PROVE  /\ p[k].kind = "op" /\ p[k].op # "st" /\ ~IsLabel(p[k])
         /\ DestinationRegister(p[k]) = p[k].dest /\ p[k].dest # ""
<1>1. p[k] \in Items /\ WellFormed(p[k])
  BY ProgramFacts
<1>2. p[k].op \in DestinationBases
  BY DEF DestinationBases
<1>3. p[k].kind = "op" /\ p[k].op # "st"
  BY <1>1, <1>2 DEF WellFormed, PureResultBases
<1>4. p[k].dest # ""
  BY <1>1, <1>3, RegistersAssumption DEF WellFormed
<1> QED  BY <1>2, <1>3, <1>4 DEF DestinationRegister, IsLabel

\* Dropping results that no instruction reads changes nothing.
LEMMA DeadResultsGo ==
  ASSUME NEW p, IsProgram(p)
  PROVE  Preserved(p, EliminateDeadResults(p))
<1> DEFINE S == (1 .. Len(p)) \ DeadResults(p)
           D == {p[k].dest : k \in DeadResults(p)}
<1>1. ASSUME NEW k \in DeadResults(p)
      PROVE  /\ k \in 1 .. Len(p) /\ ~IsLabel(p[k]) /\ ~p[k].guarded /\ p[k].op \in PureResultBases
             /\ p[k].dest \notin ReadRegistersOf(p, 1 .. Len(p))
  BY DEF DeadResults, Boundary
<1>2. LabelPositions(p) \subseteq S
  BY <1>1 DEF LabelPositions
<1>3. ASSUME NEW k \in (1 .. Len(p)) \ S
      PROVE  p[k].kind = "op" /\ p[k].op # "st" /\ ~p[k].guarded /\ p[k].dest \in D
  <2>1. k \in DeadResults(p)
    OBVIOUS
  <2> QED  BY <1>1, <2>1, PureFacts
<1>4. ASSUME NEW j \in S \cap (1 .. Len(p)), ~IsLabel(p[j]) PROVE ReadBy(p[j]) \cap D = {}
  <2>1. SUFFICES ASSUME NEW k \in DeadResults(p), p[k].dest \in ReadBy(p[j]) PROVE FALSE
    OBVIOUS
  <2>2. p[k].dest # ""
    BY <1>1, PureFacts
  <2>3. j \in (1 .. Len(p)) \cap (1 .. Len(p))
    OBVIOUS
  <2> QED  BY <1>1, <1>4, <2>1, <2>2, <2>3, ReadsAreKnown
<1> HIDE DEF S, D
<1>5. Preserved(p, Kept(p, S))
  BY <1>2, <1>3, <1>4, DropPreserves
<1> QED  BY <1>5 DEF S, EliminateDeadResults

\* The chain of sets that ends with the live instructions.
SideEffects(p) == {j \in 1 .. Len(p) : ~IsLabel(p[j]) /\ IsSideEffecting(p[j])}
IsLiveChain(p, n, h) ==
  h = [k \in 0 .. n |-> IF k = 0 THEN SideEffects(p) ELSE h[k-1] \cup Feeders(p, h[k-1])]

\* The definition, with the chain named.
LEMMA LiveByChain ==
  ASSUME NEW p
  PROVE  LiveInstructions(p) = (CHOOSE h : IsLiveChain(p, Len(p), h))[Len(p)]
BY Zenon DEF LiveInstructions, IsLiveChain, SideEffects

\* Such a chain exists.
LEMMA LiveChainsExist ==
  ASSUME NEW p, NEW n \in Nat
  PROVE  \E h : IsLiveChain(p, n, h)
<1> DEFINE first == SideEffects(p)
           T == {m \in Nat : \E h : IsLiveChain(p, m, h)}
<1>1. 0 \in T
  <2> DEFINE h == [k \in 0 .. 0 |-> first]
  <2>1. h = [k \in 0 .. 0 |-> IF k = 0 THEN first ELSE h[k-1] \cup Feeders(p, h[k-1])]
    OBVIOUS
  <2> HIDE DEF h
  <2>2. IsLiveChain(p, 0, h)
    BY <2>1 DEF IsLiveChain
  <2> QED  BY <2>2
<1>2. ASSUME NEW m \in Nat, m \in T PROVE m + 1 \in T
  <2>1. PICK h : IsLiveChain(p, m, h)
    BY <1>2
  <2>2. h = [k \in 0 .. m |-> IF k = 0 THEN first ELSE h[k-1] \cup Feeders(p, h[k-1])]
    BY <2>1 DEF IsLiveChain
  <2> DEFINE last == h[m] \cup Feeders(p, h[m])
             i == [k \in 0 .. m + 1 |-> IF k = m + 1 THEN last ELSE h[k]]
  <2>3. ASSUME NEW k \in 0 .. m + 1
        PROVE  i[k] = IF k = 0 THEN first ELSE i[k-1] \cup Feeders(p, i[k-1])
    <3>1. CASE k = m + 1
      <4>1. k - 1 = m /\ m \in 0 .. m + 1 /\ m # m + 1 /\ k # 0
        BY <3>1
      <4>2. i[k] = last /\ i[m] = h[m]
        BY <3>1, <4>1
      <4> HIDE DEF i
      <4> QED  BY <3>1, <4>1, <4>2
    <3>2. CASE k # m + 1
      <4>1. k \in 0 .. m /\ i[k] = h[k]
        BY <3>2
      <4>2. k # 0 => k - 1 \in 0 .. m + 1 /\ k - 1 # m + 1
        BY <3>2
      <4>3. k # 0 => i[k-1] = h[k-1]
        BY <4>2
      <4> HIDE DEF i
      <4> QED  BY <2>2, <4>1, <4>3
    <3> QED  BY <3>1, <3>2
  <2>4. i = [k \in 0 .. m + 1 |-> i[k]]
    OBVIOUS
  <2> HIDE DEF i
  <2>5. IsLiveChain(p, m + 1, i)
    BY <2>3, <2>4 DEF IsLiveChain
  <2> QED  BY <2>5
<1>3. Nat \subseteq T
  <2> HIDE DEF T
  <2> QED  BY <1>1, <1>2, InductionOnSet
<1> QED  BY <1>3

\* The chain grows until it is closed, which its length leaves room for: the
\* live instructions hold the side effects and what feeds any of them.
LEMMA LiveIsClosed ==
  ASSUME NEW p, IsProgram(p)
  PROVE  /\ \A j \in 1 .. Len(p) : ~IsLabel(p[j]) /\ IsSideEffecting(p[j]) => j \in LiveInstructions(p)
         /\ LiveInstructions(p) \subseteq {j \in 1 .. Len(p) : ~IsLabel(p[j])}
         /\ Feeders(p, LiveInstructions(p)) \subseteq LiveInstructions(p)
<1> DEFINE n == Len(p)
           I == {j \in 1 .. n : ~IsLabel(p[j])}
           first == SideEffects(p)
<1>1. n \in Nat
  BY ProgramFacts
<1>2. PICK h : IsLiveChain(p, n, h) /\ LiveInstructions(p) = h[n]
  BY <1>1, LiveChainsExist, LiveByChain
<1>3. \A S : Feeders(p, S) \subseteq I
  BY DEF Feeders, DefinitionsOf
<1>4. IsFiniteSet(1 .. n) /\ Cardinality(1 .. n) = n
  BY <1>1, FS_Interval, SMTT(40)
<1>5. h[0] = first /\ \A k \in 1 .. n : h[k] = h[k-1] \cup Feeders(p, h[k-1])
  <2>1. h = [k \in 0 .. n |-> IF k = 0 THEN first ELSE h[k-1] \cup Feeders(p, h[k-1])]
    BY <1>2 DEF IsLiveChain
  <2>2. 0 \in 0 .. n /\ \A k \in 1 .. n : k \in 0 .. n /\ k # 0
    BY <1>1
  <2> HIDE DEF first
  <2>3. \A k \in 0 .. n : h[k] = IF k = 0 THEN first ELSE h[k-1] \cup Feeders(p, h[k-1])
    BY <2>1, Zenon
  <2> QED  BY <2>2, <2>3
<1> DEFINE Good(k) == /\ first \subseteq h[k] /\ h[k] \subseteq I
                      /\ Cardinality(h[k]) >= k \/ Feeders(p, h[k]) \subseteq h[k]
           U == {k \in Nat : k <= n => Good(k)}
<1>6. first \subseteq I /\ I \subseteq 1 .. n
  BY DEF SideEffects
<1> HIDE DEF first, I
<1>7. 0 \in U
  <2>1. IsFiniteSet(first)
    BY <1>4, <1>6, FS_Subset
  <2>2. Cardinality(first) \in Nat
    BY <2>1, FS_CardinalityType
  <2>3. Good(0)
    BY <1>5, <1>6, <2>2
  <2> HIDE DEF Good
  <2> QED  BY <2>3
<1>8. ASSUME NEW k \in Nat, k \in U PROVE k + 1 \in U
  <2>1. SUFFICES ASSUME k + 1 <= n PROVE Good(k + 1)
    OBVIOUS
  <2>2. Good(k) /\ k + 1 \in 1 .. n /\ k + 1 - 1 = k
    BY <1>1, <1>8, <2>1
  <2> DEFINE S == h[k]
             T == h[k + 1]
  <2>3. T = S \cup Feeders(p, S)
    BY <1>5, <2>2
  <2>4. first \subseteq S /\ S \subseteq I /\ (Cardinality(S) >= k \/ Feeders(p, S) \subseteq S)
    BY <2>2
  <2> HIDE DEF S, T, Good
  <2>5. first \subseteq T /\ S \subseteq T /\ T \subseteq I
    BY <1>3, <2>3, <2>4
  <2>6. Cardinality(T) >= k + 1 \/ Feeders(p, T) \subseteq T
    <3>1. CASE Feeders(p, S) \subseteq S
      <4>1. T = S
        BY <2>3, <3>1
      <4> QED  BY <3>1, <4>1
    <3>2. CASE ~(Feeders(p, S) \subseteq S)
      <4>1. T # S
        BY <2>3, <3>2
      <4>2. IsFiniteSet(T)
        <5>1. T \subseteq 1 .. n
          BY <1>6, <2>5
        <5> QED  BY <1>4, <5>1, FS_Subset
      <4>3. Cardinality(S) <= Cardinality(T) /\ Cardinality(S) # Cardinality(T) /\ IsFiniteSet(S)
        BY <2>5, <4>1, <4>2, FS_Subset
      <4>4. Cardinality(S) \in Nat /\ Cardinality(T) \in Nat
        BY <4>2, <4>3, FS_CardinalityType
      <4> QED  BY <2>4, <3>2, <4>3, <4>4
    <3> QED  BY <3>1, <3>2
  <2> QED  BY <2>5, <2>6 DEF T, Good
<1>9. Good(n)
  <2> HIDE DEF Good
  <2>1. Nat \subseteq U
    <3> HIDE DEF U
    <3> QED  BY <1>7, <1>8, InductionOnSet
  <2> QED  BY <1>1, <2>1
<1> DEFINE L == h[n]
<1>10. first \subseteq L /\ L \subseteq I /\ (Cardinality(L) >= n \/ Feeders(p, L) \subseteq L)
  BY <1>9
<1> HIDE DEF L, Good, U
<1>11. Feeders(p, L) \subseteq L
  <2>1. CASE Cardinality(L) >= n
    <3>1. L \subseteq 1 .. n
      BY <1>6, <1>10
    <3>2. Cardinality(L) <= Cardinality(1 .. n) /\ IsFiniteSet(L)
      BY <1>4, <3>1, FS_Subset
    <3>3. Cardinality(L) \in Nat
      BY <3>2, FS_CardinalityType
    <3>4. Cardinality(L) = Cardinality(1 .. n)
      BY <1>1, <1>4, <2>1, <3>2, <3>3
    <3>5. L = 1 .. n
      BY <1>4, <3>1, <3>4, FS_Subset
    <3> QED  BY <1>3, <1>6, <3>5
  <2> QED  BY <1>10, <2>1
<1>12. L = LiveInstructions(p)
  BY <1>2 DEF L
<1>13. L \subseteq {j \in 1 .. Len(p) : ~IsLabel(p[j])}
  BY <1>10 DEF I
<1>14. \A j \in 1 .. Len(p) : ~IsLabel(p[j]) /\ IsSideEffecting(p[j]) => j \in L
  BY <1>10 DEF first, SideEffects
<1> QED  BY <1>11, <1>12, <1>13, <1>14

\* Nothing that stays reads a result of what goes.
LEMMA DeadCodeGoes ==
  ASSUME NEW p, IsProgram(p)
  PROVE  Preserved(p, EliminateDeadCode(p))
<1> DEFINE live == LiveInstructions(p)
           S == LabelPositions(p) \cup live
           D == {p[k].dest : k \in (1 .. Len(p)) \ S}
<1>1. /\ \A j \in 1 .. Len(p) : ~IsLabel(p[j]) /\ IsSideEffecting(p[j]) => j \in live
      /\ live \subseteq {j \in 1 .. Len(p) : ~IsLabel(p[j])}
      /\ Feeders(p, live) \subseteq live
  BY LiveIsClosed
<1> HIDE DEF live
<1>2. ASSUME NEW k \in (1 .. Len(p)) \ S
      PROVE  /\ ~IsLabel(p[k]) /\ ~p[k].guarded /\ p[k].op \in PureResultBases
             /\ p[k].dest \notin PredRegs /\ k \notin live
  <2>1. ~IsLabel(p[k]) /\ k \notin live
    BY DEF LabelPositions
  <2>2. ~IsSideEffecting(p[k])
    BY <1>1, <2>1
  <2>3. p[k].op \in PureResultBases
    BY <2>2 DEF IsSideEffecting
  <2>4. DestinationRegister(p[k]) = p[k].dest
    BY <2>3, PureFacts
  <2> QED  BY <2>1, <2>2, <2>3, <2>4 DEF IsSideEffecting
<1>3. ASSUME NEW k \in (1 .. Len(p)) \ S
      PROVE  p[k].kind = "op" /\ p[k].op # "st" /\ ~p[k].guarded /\ p[k].dest \in D
  <2>1. p[k].dest \in D
    OBVIOUS
  <2> HIDE DEF D, S
  <2> QED  BY <1>2, <2>1, PureFacts
<1>4. ASSUME NEW j \in S \cap (1 .. Len(p)), ~IsLabel(p[j]) PROVE ReadBy(p[j]) \cap D = {}
  <2>1. SUFFICES ASSUME NEW k \in (1 .. Len(p)) \ S, p[k].dest \in ReadBy(p[j]) PROVE FALSE
    OBVIOUS
  <2>2. /\ p[k].dest # "" /\ ~IsLabel(p[k]) /\ p[k].dest \notin PredRegs /\ k \notin live
        /\ DestinationRegister(p[k]) = p[k].dest
    BY <1>2, PureFacts
  <2>3. j \in live \cap (1 .. Len(p))
    BY <1>4 DEF LabelPositions
  <2>4. p[k].dest \in ReadRegistersOf(p, live)
    BY <1>4, <2>1, <2>2, <2>3, ReadsAreKnown
  <2>5. k \in DefinitionsOf(p, p[k].dest)
    BY <2>2 DEF DefinitionsOf
  <2>6. k \in Feeders(p, live)
    BY <2>2, <2>4, <2>5 DEF Feeders
  <2> QED  BY <1>1, <2>2, <2>6
<1>5. LabelPositions(p) \subseteq S
  OBVIOUS
<1>6. EliminateDeadCode(p) = Kept(p, S)
  BY DEF EliminateDeadCode, live
<1> HIDE DEF S, D
<1> QED  BY <1>3, <1>4, <1>5, <1>6, DropPreserves

-----------------------------------------------------------------------------
\* A result is removed only when nothing reads it, guards and stores included.
THEOREM UnreadResultsGo == Spec => []DeadResultsPreserve
<1>1. RewriteInv => DeadResultsPreserve
  <2>1. SUFFICES ASSUME RewriteInv, pass = "dre", stage = "done" PROVE Preserved(source, target)
    BY DEF DeadResultsPreserve, Preserves
  <2>2. IsProgram(source) /\ target = Transformed("dre", source)
    BY <2>1, ProgramsAssumption DEF RewriteInv
  <2>3. Transformed("dre", source) = EliminateDeadResults(source)
    BY DEF Transformed
  <2> QED  BY <2>2, <2>3, DeadResultsGo
<1> QED  BY <1>1, RewriteInvariance, PTL

\* What a store, a branch or a later guard depends on stays, whichever of a
\* register's definitions it comes from.
THEOREM WhatFeedsEffectsStays == Spec => []DeadCodePreserves
<1>1. RewriteInv => DeadCodePreserves
  <2>1. SUFFICES ASSUME RewriteInv, pass = "global-dce", stage = "done" PROVE Preserved(source, target)
    BY DEF DeadCodePreserves, Preserves
  <2>2. IsProgram(source) /\ target = Transformed("global-dce", source)
    BY <2>1, ProgramsAssumption DEF RewriteInv
  <2>3. Transformed("global-dce", source) = EliminateDeadCode(source)
    BY DEF Transformed
  <2> QED  BY <2>2, <2>3, DeadCodeGoes
<1> QED  BY <1>1, RewriteInvariance, PTL
-----------------------------------------------------------------------------
(* Block simplification: where control goes, by blocks. *)

\* Control goes from an item to the next one of its block, or from the last one
\* to a successor of the block, or the program ends.
LEMMA StaticControl ==
  ASSUME NEW p, IsProgram(p), ReturnsAreFinal(p), NEW b \in Leaders(p), NEW k \in b .. BlockEnd(p, b),
         NEW s \in ItemSuccessors(p, k)
  PROVE  /\ k \in 1 .. Len(p)
         /\ \/ s = Len(p) + 1
            \/ s = k + 1 /\ k < BlockEnd(p, b) /\ s \notin Leaders(p)
            \/ s \in Successors(p, b) /\ s \in LabelPositions(p) /\ k = BlockEnd(p, b)
                 /\ IsBranch(p[k]) /\ s = LabelAt(p, p[k].label)
            \/ s = k + 1 /\ k = BlockEnd(p, b) /\ s \in Leaders(p) /\ s \in Successors(p, b)
                 /\ FallsThrough(p, b) /\ NextBlock(p, b) = s
<1> DEFINE i == p[k]
           e == BlockEnd(p, b)
           n == Len(p)
<1>1. n \in Nat
  BY ProgramFacts
<1>2. /\ e \in b - 1 .. n /\ b \in 1 .. n + 1 /\ (\A m \in b + 1 .. e : m \notin Leaders(p))
      /\ e # n => e + 1 \in Leaders(p) /\ NextBlock(p, b) = e + 1
  BY <1>1, BlockFacts, LeadersFacts
<1>3. k \in 1 .. n
  BY <1>1, <1>2
<1>4. i \in Items /\ WellFormed(i) /\ (IsBranch(i) => LabelAt(p, i.label) \in LabelPositions(p))
  BY <1>3, ProgramFacts
<1>5. ASSUME EndsBlock(i) PROVE k = e
  <2>1. SUFFICES ASSUME k < e PROVE FALSE
    BY <1>1, <1>2
  <2>2. k \in {j \in 1 .. n - 1 : EndsBlock(p[j])} /\ k + 1 \in b + 1 .. e
    BY <1>1, <1>2, <1>3, <1>5, <2>1
  <2>3. k + 1 \in Leaders(p)
    BY <2>2 DEF Leaders
  <2> QED  BY <1>2, <2>2, <2>3
<1>6. \/ s = k + 1 /\ (~EndsBlock(i) \/ (IsBranch(i) /\ i.guarded))
      \/ s = n + 1 /\ i.kind = "ret"
      \/ s = LabelAt(p, i.label) /\ IsBranch(i)
  <2>1. CASE IsLabel(i)
    BY <2>1 DEF ItemSuccessors, EndsBlock, IsLabel
  <2>2. CASE ~IsLabel(i) /\ s = k + 1 /\ i.guarded
    BY <1>3, <2>2 DEF ReturnsAreFinal, EndsBlock, IsBranch
  <2>3. CASE ~IsLabel(i) /\ s = NextPC(p, k)
    BY <2>3 DEF NextPC, Stopped, EndsBlock, IsBranch
  <2> QED  BY <2>1, <2>2, <2>3 DEF ItemSuccessors
<1>7. CASE s = n + 1
  BY <1>3, <1>7
<1>8. CASE s = LabelAt(p, i.label) /\ IsBranch(i)
  <2>1. k = e
    BY <1>5, <1>8 DEF EndsBlock, IsBranch
  <2>2. k \in Instructions(p, b)
    BY <1>8 DEF Instructions, IsLabel, IsBranch
  <2>3. s \in Successors(p, b)
    BY <1>8, <2>1, <2>2 DEF Successors, BranchTargets
  <2> QED  BY <1>3, <1>4, <1>8, <2>1, <2>3
<1>9. CASE s = k + 1 /\ (~EndsBlock(i) \/ (IsBranch(i) /\ i.guarded)) /\ s # n + 1
  <2>1. CASE k < e
    <3>1. s \in b + 1 .. e
      BY <1>1, <1>2, <1>9, <2>1
    <3> QED  BY <1>2, <1>3, <1>9, <2>1, <3>1
  <2>2. CASE ~(k < e)
    <3>1. k = e /\ e # n /\ e + 1 \in Leaders(p) /\ NextBlock(p, b) = s /\ s = e + 1
      BY <1>1, <1>2, <1>9, <2>2
    <3>2. s \in Later(p, b)
      BY <1>1, <1>2, <3>1 DEF Later
    <3>3. FallsThrough(p, b)
      BY <1>9, <3>1, <3>2 DEF FallsThrough
    <3>4. s \in Successors(p, b)
      BY <3>1, <3>3 DEF Successors
    <3> QED  BY <1>3, <1>9, <3>1, <3>3, <3>4
  <2> QED  BY <2>1, <2>2
<1> QED  BY <1>6, <1>7, <1>8, <1>9

\* The chain of sets that ends with the blocks reached from the entry.
IsReachedChain(g, n, h) ==
  h = [k \in 0 .. n |-> IF k = 0 THEN {g.entry} \ {}
                        ELSE h[k-1] \cup ({e[2] : e \in {x \in g.edges : x[1] \in h[k-1]}} \ {})]

\* The definition, with the chain named.
LEMMA ReachableByChain ==
  ASSUME NEW g
  PROVE  ReachableBlocks(g) = (CHOOSE h : IsReachedChain(g, Cardinality(g.blocks), h))[Cardinality(g.blocks)]
BY Zenon DEF ReachableBlocks, ReachedFrom, IsReachedChain

\* The blocks reached from the entry hold it and the successors of any of them.
LEMMA ReachableIsClosed ==
  ASSUME NEW p, IsProgram(p), Entry(p) \in Leaders(p),
         \A b \in Leaders(p) : Successors(p, b) \subseteq Leaders(p)
  PROVE  /\ Entry(p) \in ReachableBlocks(BuildCFG(p))
         /\ \A b \in Leaders(p) \cap ReachableBlocks(BuildCFG(p)) :
              Successors(p, b) \subseteq ReachableBlocks(BuildCFG(p))
<1> DEFINE g == BuildCFG(p)
           L == Leaders(p)
           edges == UNION {{b} \X Successors(p, b) : b \in L}
           n == Cardinality(L)
           Beyond(S) == {e[2] : e \in {x \in edges : x[1] \in S}}
           F == [a \in Nat \X SUBSET L |-> a[2] \cup Beyond(a[2])]
<1>1. g.blocks = L /\ g.entry = Entry(p) /\ g.edges = edges
  BY DEF BuildCFG
<1>2. IsFiniteSet(L) /\ n \in Nat
  <2>1. IsFiniteSet(1 .. Len(p) + 1)
    BY ProgramFacts, FS_Interval
  <2>2. L \subseteq 1 .. Len(p) + 1
    BY ProgramFacts, LeadersFacts
  <2> QED  BY <2>1, <2>2, FS_Subset, FS_CardinalityType
<1>3. \A S : Beyond(S) \subseteq L
  OBVIOUS
<1>4. \A S : \A b \in L : b \in S => Successors(p, b) \subseteq Beyond(S)
  <2>1. SUFFICES ASSUME NEW b \in L, NEW S, b \in S, NEW c \in Successors(p, b) PROVE c \in Beyond(S)
    OBVIOUS
  <2>2. <<b, c>> \in edges /\ <<b, c>>[1] = b /\ <<b, c>>[2] = c
    BY <2>1
  <2> HIDE DEF edges
  <2> QED  BY <2>1, <2>2
<1> HIDE DEF L
<1>5. F \in [Nat \X SUBSET L -> SUBSET L]
  <2> HIDE DEF Beyond
  <2> QED  BY <1>3
<1>6. {Entry(p)} \in SUBSET L
  BY DEF L
<1>7. PICK h : Recurs(SUBSET L, {Entry(p)}, F, n, h)
  <2> HIDE DEF F, n
  <2> QED  BY <1>2, <1>5, <1>6, Recursion
<1>a. h \in [0 .. n -> SUBSET L] /\ h[0] = {Entry(p)} /\ \A k \in 1 .. n : h[k] = F[<<k, h[k-1]>>]
  BY <1>7 DEF Recurs
<1>8. \A k \in 1 .. n : h[k] = h[k-1] \cup Beyond(h[k-1])
  <2>1. SUFFICES ASSUME NEW k \in 1 .. n PROVE h[k] = h[k-1] \cup Beyond(h[k-1])
    OBVIOUS
  <2>2. k - 1 \in 0 .. n /\ k \in Nat
    BY <1>2
  <2>3. <<k, h[k-1]>> \in Nat \X SUBSET L
    BY <1>a, <2>2
  <2> DEFINE w == <<k, h[k-1]>>
  <2>4. F[w] = w[2] \cup Beyond(w[2]) /\ w[2] = h[k-1] /\ h[k] = F[w]
    <3> HIDE DEF Beyond
    <3> QED  BY <1>a, <2>3
  <2> HIDE DEF w, F, Beyond
  <2> QED  BY <2>4
<1> HIDE DEF Beyond, F
<1>9. IsReachedChain(g, n, h)
  <2>1. ASSUME NEW k \in 0 .. n
        PROVE  h[k] = IF k = 0 THEN {g.entry} \ {}
                      ELSE h[k-1] \cup ({e[2] : e \in {x \in g.edges : x[1] \in h[k-1]}} \ {})
    <3>1. CASE k = 0
      BY <1>1, <1>a, <3>1
    <3>2. CASE k # 0
      <4>1. k \in 1 .. n
        BY <1>2, <3>2
      <4>2. h[k] = h[k-1] \cup Beyond(h[k-1])
        BY <1>8, <4>1
      <4> QED  BY <1>1, <3>2, <4>2 DEF Beyond
    <3> QED  BY <3>1, <3>2
  <2>2. h = [k \in 0 .. n |-> h[k]]
    BY <1>a
  <2> HIDE DEF g
  <2> QED  BY <2>1, <2>2 DEF IsReachedChain
<1> DEFINE f == CHOOSE r : IsReachedChain(g, n, r)
           R == f[n]
<1>10. IsReachedChain(g, n, f) /\ ReachableBlocks(g) = R
  BY <1>1, <1>9, ReachableByChain
<1> HIDE DEF f
<1>11. f[0] = {Entry(p)} /\ \A k \in 1 .. n : f[k] = f[k-1] \cup Beyond(f[k-1])
  <2>1. f = [k \in 0 .. n |-> IF k = 0 THEN {g.entry} \ {}
                        ELSE f[k-1] \cup ({e[2] : e \in {x \in g.edges : x[1] \in f[k-1]}} \ {})]
    BY <1>10 DEF IsReachedChain
  <2> HIDE DEF g
  <2>2. \A k \in 0 .. n : f[k] = IF k = 0 THEN {g.entry} \ {}
                        ELSE f[k-1] \cup ({e[2] : e \in {x \in g.edges : x[1] \in f[k-1]}} \ {})
    BY <2>1, Zenon
  <2>3. f[0] = {Entry(p)}
    <3>1. 0 \in 0 .. n
      BY <1>2
    <3>2. f[0] = {g.entry} \ {}
      BY <2>2, <3>1
    <3> QED  BY <1>1, <3>2
  <2>4. ASSUME NEW k \in 1 .. n PROVE f[k] = f[k-1] \cup Beyond(f[k-1])
    <3>1. k \in 0 .. n /\ k # 0
      BY <1>2
    <3> QED  BY <1>1, <2>2, <3>1 DEF Beyond
  <2> QED  BY <2>3, <2>4
<1> DEFINE U == {k \in Nat : k <= n => Entry(p) \in f[k] /\ f[k] \subseteq L}
<1>12. Nat \subseteq U
  <2>1. 0 \in U
    BY <1>6, <1>11
  <2>2. ASSUME NEW k \in Nat, k \in U PROVE k + 1 \in U
    <3>1. k + 1 <= n => k + 1 \in 1 .. n /\ k + 1 - 1 = k /\ k <= n
      BY <1>2
    <3> QED  BY <1>3, <1>11, <2>2, <3>1
  <2> HIDE DEF U
  <2> QED  BY <2>1, <2>2, InductionOnSet
<1>13. \A k \in 0 .. n : Entry(p) \in f[k] /\ f[k] \subseteq L
  BY <1>2, <1>12
<1>14. R = L \/ (n > 0 /\ R = f[n-1])
  <2>1. \A k \in 0 .. n : f[k] \subseteq L
    BY <1>13
  <2>2. \A k \in 1 .. n : f[k-1] \subseteq f[k]
    BY <1>11
  <2>3. ASSUME NEW k \in 1 .. n, k < n, f[k] = f[k-1] PROVE f[k+1] = f[k]
    <3>1. k + 1 \in 1 .. n /\ k + 1 - 1 = k
      BY <1>2, <2>3
    <3>2. f[k+1] = f[k] \cup Beyond(f[k]) /\ f[k] = f[k-1] \cup Beyond(f[k-1])
      BY <1>11, <3>1
    <3> QED  BY <2>3, <3>2
  <2>4. n <= n
    BY <1>2
  <2> QED  BY <1>2, <2>1, <2>2, <2>3, <2>4, ChainSettles
<1>15. Beyond(R) \subseteq R
  <2>1. CASE R = L
    BY <1>3, <2>1
  <2>2. CASE n > 0 /\ R = f[n-1]
    <3>1. n \in 1 .. n
      BY <1>2, <2>2
    <3> QED  BY <1>11, <2>2, <3>1
  <2> QED  BY <1>14, <2>1, <2>2
<1>16. n \in 0 .. n
  BY <1>2
<1>17. Entry(p) \in R
  BY <1>13, <1>16
<1> HIDE DEF R
<1>18. \A b \in L \cap R : Successors(p, b) \subseteq R
  BY <1>4, <1>15
<1> QED  BY <1>10, <1>17, <1>18 DEF L
-----------------------------------------------------------------------------
(* Where the chains of passed-through blocks end. *)

\* A tabulated function is that function.
LEMMA TabulatedIs ==
  ASSUME NEW f
  PROVE  Tabulated(f) = f
<1>1. Tabulated(f) \in {f}
  BY Zenon DEF Tabulated
<1> QED  BY <1>1

\* The least number of a set is one of it.
LEMMA MinIsOne ==
  ASSUME NEW S \in SUBSET Nat, S # {}
  PROVE  Min(S) \in S
BY LeastElement, Zenon DEF Min

\* The block after b on its chain, and the definition of ChainEnds with its parts
\* named.
Onward(p) ==
  [b \in Leaders(p) |-> IF b \in PassedThrough(p) THEN CHOOSE c \in Successors(p, b) : TRUE ELSE b]
IsAfter(L, step, n, h) ==
  h = [k \in 0 .. n |-> IF k = 0 THEN [b \in L |-> b] ELSE Tabulated([b \in L |-> step[h[k-1][b]]])]
TailsBy(L, n, h) == Tabulated([b \in L |-> {h[k][h[n][b]] : k \in 0 .. n}])
EndBy(L, n, h, tail, b) ==
  h[Min({k \in 0 .. n : h[k][Min({c \in L : tail[c] = tail[b]})] \in tail[b]})][Min({c \in L : tail[c] = tail[b]})]
ChainOf(p) ==
  CHOOSE h : IsAfter(Leaders(p), Tabulated(Onward(p)), Cardinality(PassedThrough(p)), h)

\* ChainEnds in these terms.
LEMMA EndsByChain ==
  ASSUME NEW p
  PROVE  ChainEnds(p)
           = Tabulated([b \in Leaders(p) |->
               EndBy(Leaders(p), Cardinality(PassedThrough(p)), ChainOf(p),
                     TailsBy(Leaders(p), Cardinality(PassedThrough(p)), ChainOf(p)), b)])
BY Zenon DEF ChainEnds, Onward, IsAfter, TailsBy, EndBy, ChainOf

\* What the chain of the definition is: the steps, up to n of them.
LEMMA AfterIsIterates ==
  ASSUME NEW L, NEW step \in [L -> L], NEW n \in Nat, NEW m \in Nat, n <= m, NEW A, Iterates(L, step, m, A),
         NEW h, h = CHOOSE g : IsAfter(L, Tabulated(step), n, g)
  PROVE  \A k \in 0 .. n : h[k] = A[k]
<1>1. /\ A[0] = [b \in L |-> b]
      /\ \A k \in 1 .. n : k \in 1 .. m /\ A[k] = [b \in L |-> step[A[k-1][b]]]
  BY DEF Iterates
<1>2. Tabulated(step) = step
  BY TabulatedIs
<1> DEFINE g == [k \in 0 .. n |-> A[k]]
           Next1(f) == Tabulated([b \in L |-> Tabulated(step)[f[b]]])
<1>3. \A f : Next1(f) = [b \in L |-> step[f[b]]]
  BY <1>2, TabulatedIs
<1>4. \A G : IsAfter(L, Tabulated(step), n, G) <=> G = [k \in 0 .. n |-> IF k = 0 THEN [b \in L |-> b] ELSE Next1(G[k-1])]
  BY DEF IsAfter
<1> HIDE DEF Next1
<1>5. IsAfter(L, Tabulated(step), n, g)
  <2>1. ASSUME NEW k \in 0 .. n PROVE g[k] = IF k = 0 THEN [b \in L |-> b] ELSE Next1(g[k-1])
    <3>1. CASE k = 0
      BY <1>1, <3>1
    <3>2. CASE k # 0
      <4>1. k \in 1 .. n /\ k - 1 \in 0 .. n
        BY <3>2
      <4>2. g[k] = A[k] /\ g[k-1] = A[k-1]
        BY <4>1
      <4> HIDE DEF g
      <4> QED  BY <1>1, <1>3, <3>2, <4>1, <4>2
    <3> QED  BY <3>1, <3>2
  <2>2. g = [k \in 0 .. n |-> g[k]]
    OBVIOUS
  <2> HIDE DEF g
  <2> QED  BY <1>4, <2>1, <2>2
<1>6. IsAfter(L, Tabulated(step), n, h)
  BY <1>5
<1>7. \A k \in 0 .. n : h[k] = IF k = 0 THEN [b \in L |-> b] ELSE Next1(h[k-1])
  <2>1. h = [k \in 0 .. n |-> IF k = 0 THEN [b \in L |-> b] ELSE Next1(h[k-1])]
    BY <1>4, <1>6
  <2> QED  BY <2>1, Zenon
<1> DEFINE U == {k \in Nat : k <= n => h[k] = A[k]}
<1>8. 0 \in U
  <2>1. 0 \in 0 .. n
    OBVIOUS
  <2>2. h[0] = IF 0 = 0 THEN [b \in L |-> b] ELSE Next1(h[0-1])
    BY <1>7, <2>1, Zenon
  <2>3. h[0] = A[0]
    BY <1>1, <2>2
  <2> QED  BY <2>3
<1>9. ASSUME NEW k \in Nat, k \in U PROVE k + 1 \in U
  <2>1. SUFFICES ASSUME k + 1 <= n PROVE h[k + 1] = A[k + 1]
    OBVIOUS
  <2>2. k + 1 \in 0 .. n /\ k + 1 \in 1 .. n /\ k + 1 # 0 /\ k + 1 - 1 = k /\ k <= n
    BY <2>1
  <2>3. h[k] = A[k]
    BY <1>9, <2>2
  <2>a. h[k + 1] = IF k + 1 = 0 THEN [b \in L |-> b] ELSE Next1(h[(k + 1) - 1])
    BY <1>7, <2>2, Zenon
  <2>4. h[k + 1] = Next1(h[k])
    BY <2>2, <2>a
  <2>5. A[k + 1] = [b \in L |-> step[A[k][b]]]
    BY <1>1, <2>2
  <2> QED  BY <1>3, <2>3, <2>4, <2>5
<1>10. Nat \subseteq U
  <2> HIDE DEF U
  <2> QED  BY <1>8, <1>9, InductionOnSet
<1> QED  BY <1>10

\* The same for every element at once.
LEMMA TailsAgreeAll ==
  \A L : \A step \in [L -> L] : \A T \in SUBSET L : \A n \in Nat : \A A :
    IsFiniteSet(T) /\ Cardinality(T) = n /\ (\A c \in L \ T : step[c] = c) /\ Iterates(L, step, n + n + 1, A)
      => \A b \in L : TailOf(A, n, step[b]) = TailOf(A, n, b)
BY TailsAgree

\* Chains end where the next block's chain ends, on the chain; a block that is
\* not passed through ends its own.
LEMMA EndsFacts ==
  ASSUME NEW p, IsProgram(p), Onward(p) \in [Leaders(p) -> Leaders(p)]
  PROVE  /\ ChainEnds(p) \in [Leaders(p) -> Leaders(p)]
         /\ \A b \in Leaders(p) : ChainEnds(p)[b] = ChainEnds(p)[Onward(p)[b]]
         /\ \A b \in Leaders(p) : b \notin PassedThrough(p) => ChainEnds(p)[b] = b
         /\ \A C \in SUBSET Leaders(p) :
              (\A c \in C : Onward(p)[c] \in C) => \A b \in C : ChainEnds(p)[b] \in C
<1> DEFINE L == Leaders(p)
           T == PassedThrough(p)
           n == Cardinality(T)
           m == n + n + 1
           step == Onward(p)
           h == ChainOf(p)
           ends == ChainEnds(p)
<1>1. T \in SUBSET L /\ L \subseteq Nat
  <2>1. Len(p) \in Nat
    BY ProgramFacts
  <2>2. L \subseteq 1 .. Len(p) + 1
    BY <2>1, LeadersFacts
  <2> QED  BY <2>1, <2>2 DEF PassedThrough, EmptyBlocks, JumpBlocks
<1>2. IsFiniteSet(T) /\ n \in Nat
  <2>1. IsFiniteSet(1 .. Len(p) + 1)
    BY ProgramFacts, FS_Interval
  <2>2. T \subseteq 1 .. Len(p) + 1
    BY <1>1, ProgramFacts, LeadersFacts
  <2> QED  BY <2>1, <2>2, FS_Subset, FS_CardinalityType
<1>3. step \in [L -> L] /\ \A c \in L \ T : step[c] = c
  BY DEF Onward
<1>4. m \in Nat /\ n <= m
  BY <1>2
<1>5. ends = Tabulated([b \in L |-> EndBy(L, n, h, TailsBy(L, n, h), b)])
  BY EndsByChain
<1>6. h = CHOOSE g : IsAfter(L, Tabulated(step), n, g)
  BY DEF ChainOf
<1> HIDE DEF L, T, n, m, step, h, ends
<1>7. PICK A : Iterates(L, step, m, A)
  BY <1>3, <1>4, IteratesExist
<1>8. \A k \in 0 .. n : h[k] = A[k]
  BY <1>2, <1>3, <1>4, <1>6, <1>7, AfterIsIterates
<1>9. /\ \A k \in 0 .. m, b \in L : A[k][b] \in L
      /\ \A b \in L : A[0][b] = b
      /\ \A k \in 1 .. m, b \in L : A[k][b] = step[A[k-1][b]]
  BY <1>3, <1>4, <1>7, IterateFacts
<1> DEFINE tail == [b \in L |-> TailOf(A, n, b)]
           FirstOf(X) == Min({c \in L : tail[c] = X})
           MeetsOf(X) == Min({k \in 0 .. n : A[k][FirstOf(X)] \in X})
           EndOf(X) == A[MeetsOf(X)][FirstOf(X)]
<1>10. TailsBy(L, n, h) = tail
  <2>1. \A b \in L : {h[k][h[n][b]] : k \in 0 .. n} = {A[k][A[n][b]] : k \in 0 .. n}
    <3>1. n \in 0 .. n
      BY <1>2
    <3> QED  BY <1>8, <3>1
  <2>2. TailsBy(L, n, h) = [b \in L |-> {h[k][h[n][b]] : k \in 0 .. n}]
    BY TabulatedIs DEF TailsBy
  <2> QED  BY <2>1, <2>2 DEF TailOf
<1>11. \A b \in L : tail[b] = TailOf(A, n, b)
  OBVIOUS
<1> HIDE DEF tail
<1>12. ASSUME NEW b \in L
       PROVE  /\ FirstOf(tail[b]) \in L /\ tail[FirstOf(tail[b])] = tail[b]
              /\ MeetsOf(tail[b]) \in 0 .. n
              /\ EndOf(tail[b]) \in tail[b]
  <2> DEFINE X == tail[b]
             x == FirstOf(X)
             S == {k \in 0 .. n : A[k][x] \in X}
  <2>1. x \in {c \in L : tail[c] = X}
    <3>1. {c \in L : tail[c] = X} \in SUBSET Nat /\ {c \in L : tail[c] = X} # {}
      BY <1>1
    <3> HIDE DEF X
    <3> QED  BY <3>1, MinIsOne
  <2>2. x \in L /\ tail[x] = X
    BY <2>1
  <2> HIDE DEF x, X
  <2>3. n \in S
    <3>1. n \in 0 .. m /\ 0 \in 0 .. n /\ n \in 0 .. n
      BY <1>2, <1>4
    <3>2. A[n][x] \in L
      BY <1>9, <2>2, <3>1
    <3>3. A[0][A[n][x]] = A[n][x]
      BY <1>9, <3>2
    <3>4. A[n][x] \in TailOf(A, n, x)
      BY <3>1, <3>3 DEF TailOf
    <3> QED  BY <1>11, <2>2, <3>1, <3>4
  <2>4. Min(S) \in S
    <3>1. S \in SUBSET Nat /\ S # {}
      BY <1>2, <2>3
    <3> HIDE DEF S
    <3> QED  BY <3>1, MinIsOne
  <2>5. MeetsOf(X) = Min(S) /\ EndOf(X) = A[Min(S)][x]
    BY DEF x
  <2>6. Min(S) \in 0 .. n /\ A[Min(S)][x] \in X
    BY <2>4
  <2> HIDE DEF S, FirstOf, MeetsOf, EndOf
  <2> QED  BY <2>2, <2>5, <2>6 DEF x, X
<1>13. \A b \in L : ends[b] = EndOf(tail[b])
  <2>1. ASSUME NEW b \in L PROVE EndBy(L, n, h, tail, b) = EndOf(tail[b])
    <3> DEFINE x == FirstOf(tail[b])
    <3>1. EndBy(L, n, h, tail, b) = h[Min({k \in 0 .. n : h[k][x] \in tail[b]})][x]
      BY DEF EndBy
    <3> HIDE DEF x
    <3>2. {k \in 0 .. n : h[k][x] \in tail[b]} = {k \in 0 .. n : A[k][x] \in tail[b]}
      BY <1>8
    <3>3. MeetsOf(tail[b]) = Min({k \in 0 .. n : A[k][x] \in tail[b]})
      BY DEF x
    <3>4. EndBy(L, n, h, tail, b) = h[MeetsOf(tail[b])][x]
      BY <3>1, <3>2, <3>3
    <3>5. h[MeetsOf(tail[b])] = A[MeetsOf(tail[b])]
      <4> HIDE DEF MeetsOf
      <4> QED  BY <1>8, <1>12
    <3> HIDE DEF MeetsOf, FirstOf
    <3> QED  BY <3>4, <3>5 DEF x
  <2>2. ends = [b \in L |-> EndBy(L, n, h, tail, b)]
    BY <1>5, <1>10, TabulatedIs
  <2> HIDE DEF EndOf
  <2> QED  BY <2>1, <2>2
<1>14. ends = [b \in L |-> ends[b]]
  <2>1. ends = [b \in L |-> EndBy(L, n, h, tail, b)]
    BY <1>5, <1>10, TabulatedIs
  <2> QED  BY <2>1
<1>15. ASSUME NEW C \in SUBSET L, \A c \in C : step[c] \in C, NEW b \in C PROVE ends[b] \in C
  <2> DEFINE U == {k \in Nat : k <= m => A[k][b] \in C}
  <2>1. 0 \in U
    BY <1>9
  <2>2. ASSUME NEW k \in Nat, k \in U PROVE k + 1 \in U
    <3>1. SUFFICES ASSUME k + 1 <= m PROVE A[k + 1][b] \in C
      OBVIOUS
    <3>2. k + 1 \in 1 .. m /\ k + 1 - 1 = k /\ k <= m
      BY <1>4, <3>1
    <3> QED  BY <1>9, <1>15, <2>2, <3>2
  <2>3. Nat \subseteq U
    <3> HIDE DEF U
    <3> QED  BY <2>1, <2>2, InductionOnSet
  <2>4. \A k \in 0 .. m : A[k][b] \in C
    BY <2>3, <1>4
  <2>5. ends[b] \in TailOf(A, n, b)
    <3> HIDE DEF EndOf
    <3> QED  BY <1>11, <1>12, <1>13
  <2>6. PICK k \in 0 .. n : ends[b] = A[k][A[n][b]]
    BY <2>5 DEF TailOf
  <2>7. A[k][A[n][b]] = A[k + n][b] /\ k + n \in 0 .. m
    <3>1. k \in Nat /\ k + n <= m /\ k + n \in 0 .. m /\ n \in Nat /\ b \in L
      BY <1>2 DEF m
    <3>2. \A i \in Nat : i + n <= m => A[i + n][b] = A[i][A[n][b]]
      BY <1>3, <1>4, <1>7, <3>1, IteratesAdd
    <3> QED  BY <3>1, <3>2
  <2> QED  BY <2>4, <2>6, <2>7
<1>16. \A b \in L : ends[b] = ends[step[b]]
  <2>1. SUFFICES ASSUME NEW b \in L PROVE ends[b] = ends[step[b]]
    OBVIOUS
  <2>2. Iterates(L, step, n + n + 1, A) /\ Cardinality(T) = n
    BY <1>7 DEF m, n
  <2>a. step \in [L -> L] /\ T \in SUBSET L /\ IsFiniteSet(T) /\ n \in Nat /\ \A c \in L \ T : step[c] = c
    BY <1>1, <1>2, <1>3
  <2>3. TailOf(A, n, step[b]) = TailOf(A, n, b)
    BY <2>1, <2>2, <2>a, TailsAgreeAll
  <2>4. step[b] \in L
    BY <1>3
  <2> HIDE DEF EndOf
  <2> QED  BY <1>11, <1>13, <2>3, <2>4
<1>17. ASSUME NEW b \in L, b \notin T PROVE ends[b] = b
  <2>1. step[b] = b
    BY <1>3, <1>17
  <2> DEFINE C == {b}
  <2>2. C \in SUBSET L /\ (\A c \in C : step[c] \in C) /\ b \in C
    BY <2>1
  <2> HIDE DEF C
  <2>3. ends[b] \in C
    BY <1>15, <2>2
  <2> QED  BY <2>3 DEF C
<1>18. ends \in [L -> L]
  <2>1. \A b \in L : ends[b] \in L
    BY <1>3, <1>15
  <2> QED  BY <1>14, <2>1
<1> QED  BY <1>15, <1>16, <1>17, <1>18 DEF L, T, step, ends
-----------------------------------------------------------------------------
(* The blocks the pass goes through, and the labels it drops. *)

\* An edge of the graph leads to a block.
LEMMA SuccessorsAreLeaders ==
  ASSUME NEW p, IsProgram(p), NEW b \in Leaders(p)
  PROVE  Successors(p, b) \subseteq Leaders(p)
<1> DEFINE e == BlockEnd(p, b)
<1>1. Len(p) \in Nat /\ LabelPositions(p) \subseteq Leaders(p) /\ b \in 1 .. Len(p) + 1
  BY ProgramFacts, LeadersFacts
<1>2. BranchTargets(p, b) \subseteq Leaders(p)
  <2>1. SUFFICES ASSUME Instructions(p, b) # {}, IsBranch(p[e]) PROVE LabelAt(p, p[e].label) \in Leaders(p)
    BY DEF BranchTargets
  <2>2. e \in 1 .. Len(p)
    <3>1. e \in b - 1 .. Len(p) /\ (Len(p) > 0 => b <= e)
      BY <1>1, BlockFacts
    <3>2. PICK i \in b .. e : ~IsLabel(p[i])
      BY <2>1 DEF Instructions
    <3> QED  BY <1>1, <3>1, <3>2
  <2> QED  BY <1>1, <2>1, <2>2, ProgramFacts
<1>3. ASSUME FallsThrough(p, b) PROVE NextBlock(p, b) \in Leaders(p)
  <2>1. Later(p, b) \in SUBSET Nat /\ Later(p, b) # {} /\ Later(p, b) \subseteq Leaders(p)
    BY <1>1, <1>3, LeadersFacts DEF FallsThrough, Later
  <2> QED  BY <2>1, FirstIsLeast DEF NextBlock
<1> QED  BY <1>2, <1>3 DEF Successors

\* An empty block is a label in front of another.
LEMMA EmptyFacts ==
  ASSUME NEW p, IsProgram(p), Entry(p) = 1, NEW b \in EmptyBlocks(p)
  PROVE  /\ b \in Leaders(p) /\ b # 1 /\ b \in LabelPositions(p) /\ b + 1 \in LabelPositions(p)
         /\ BlockEnd(p, b) = b
         /\ Successors(p, b) = {b + 1} /\ FallsThrough(p, b) /\ NextBlock(p, b) = b + 1
<1> DEFINE n == Len(p)
           e == BlockEnd(p, b)
<1>1. n \in Nat
  BY ProgramFacts
<1>2. b \in Leaders(p) /\ b # 1 /\ Instructions(p, b) = {} /\ Cardinality(Successors(p, b)) = 1
  BY DEF EmptyBlocks
<1>3. b \in 1 .. n + 1 /\ (n > 0 => b \in 1 .. n) /\ LabelPositions(p) \subseteq 1 .. n
  BY <1>1, <1>2, LeadersFacts DEF LabelPositions
<1>4. n > 0 /\ b \in 1 .. n
  BY <1>1, <1>2, <1>3 DEF Leaders
<1>5. /\ e \in b .. n /\ (\A k \in b + 1 .. e : k \notin Leaders(p))
      /\ e # n => e + 1 \in Leaders(p) /\ NextBlock(p, b) = e + 1
  BY <1>1, <1>2, <1>4, BlockFacts
<1>6. \A i \in b .. e : i \in LabelPositions(p)
  BY <1>2, <1>4, <1>5 DEF Instructions, LabelPositions
<1>7. e = b /\ b \in LabelPositions(p)
  <2>1. ASSUME e > b PROVE FALSE
    <3>1. e \in b + 1 .. e /\ e \in LabelPositions(p)
      BY <1>4, <1>5, <1>6, <2>1
    <3> QED  BY <1>1, <1>5, <3>1, LeadersFacts
  <2> QED  BY <1>4, <1>5, <1>6, <2>1
<1>8. Successors(p, b) = IF FallsThrough(p, b) THEN {NextBlock(p, b)} ELSE {}
  BY <1>2 DEF Successors, BranchTargets
<1>9. FallsThrough(p, b)
  BY <1>2, <1>8, FS_EmptySet
<1>10. e # n
  <2>1. PICK l \in Later(p, b) : TRUE
    BY <1>9 DEF FallsThrough
  <2>2. l \in 1 .. n /\ l > b
    BY <1>1, <1>4, <2>1, LeadersFacts DEF Later
  <2> QED  BY <1>4, <1>7, <2>2
<1>11. b + 1 \in LabelPositions(p)
  <2>1. b + 1 \in Leaders(p) /\ b + 1 # 1
    BY <1>4, <1>5, <1>7, <1>10
  <2>2. ASSUME NEW j \in 1 .. n - 1, EndsBlock(p[j]), b + 1 = j + 1 PROVE FALSE
    <3>1. j = b
      BY <1>4, <2>2
    <3> QED  BY <1>7, <2>2, <3>1 DEF LabelPositions, IsLabel, EndsBlock
  <2> QED  BY <2>1, <2>2 DEF Leaders
<1> QED  BY <1>2, <1>5, <1>7, <1>8, <1>9, <1>10, <1>11

\* A jump block is one branch, with a label in front of it or without one.
LEMMA JumpFacts ==
  ASSUME NEW p, IsProgram(p), Entry(p) = 1, NEW b \in JumpBlocks(p), NEW e, e = BlockEnd(p, b)
  PROVE  /\ b \in Leaders(p) /\ b # 1 /\ e \in 1 .. Len(p)
         /\ IsBranch(p[e]) /\ ~p[e].guarded /\ LabelAt(p, p[e].label) \in LabelPositions(p)
         /\ Successors(p, b) = {LabelAt(p, p[e].label)} /\ ~FallsThrough(p, b)
         /\ b \in LabelPositions(p) => e = b + 1
<1> DEFINE n == Len(p)
<1>1. n \in Nat
  BY ProgramFacts
<1>2. PICK k \in Instructions(p, b) : Instructions(p, b) = {k} /\ IsBranch(p[k]) /\ ~p[k].guarded
  BY DEF JumpBlocks
<1>3. b \in Leaders(p) /\ b # 1 /\ b \in 1 .. n + 1
  BY <1>1, LeadersFacts DEF JumpBlocks
<1>4. /\ e \in b - 1 .. n /\ (n > 0 => b <= e) /\ (\A i \in b + 1 .. e : i \notin Leaders(p))
  BY <1>1, <1>3, BlockFacts
<1>5. k \in b .. e /\ ~IsLabel(p[k])
  BY <1>2 DEF Instructions
<1>6. e \in b .. n /\ e \in 1 .. n
  BY <1>1, <1>3, <1>4, <1>5
<1>7. \A i \in b .. e : i \in LabelPositions(p) => i = b
  <2>1. SUFFICES ASSUME NEW i \in b .. e, i \in LabelPositions(p), i # b PROVE FALSE
    OBVIOUS
  <2>2. i \in b + 1 .. e /\ i \in Leaders(p)
    BY <1>1, <1>3, <1>6, <2>1, LeadersFacts
  <2> QED  BY <1>4, <2>2
<1>8. \A i \in b .. e : i \in LabelPositions(p) \/ i = k
  BY <1>2, <1>3, <1>6 DEF Instructions, LabelPositions
<1>9. k = e
  <2>1. SUFFICES ASSUME k # e PROVE FALSE
    OBVIOUS
  <2>2. e = b
    BY <1>6, <1>7, <1>8, <2>1
  <2> QED  BY <1>3, <1>5, <2>1, <2>2
<1>10. b \in LabelPositions(p) => e = b + 1
  <2>1. SUFFICES ASSUME b \in LabelPositions(p) PROVE e = b + 1
    OBVIOUS
  <2>2. e # b
    BY <1>5, <1>9, <2>1 DEF LabelPositions
  <2>3. b + 1 \in b .. e
    BY <1>3, <1>6, <2>2
  <2> QED  BY <1>3, <1>7, <1>8, <1>9, <2>3
<1>11. ~FallsThrough(p, b)
  BY <1>2, <1>9 DEF FallsThrough, EndsBlock, IsBranch
<1>12. Successors(p, b) = {LabelAt(p, p[e].label)}
  BY <1>2, <1>9, <1>11 DEF Successors, BranchTargets
<1> QED  BY <1>2, <1>3, <1>6, <1>9, <1>10, <1>11, <1>12, ProgramFacts

\* The block a chain goes on to.
LEMMA OnwardFacts ==
  ASSUME NEW p, IsProgram(p), Entry(p) = 1
  PROVE  /\ Onward(p) \in [Leaders(p) -> Leaders(p)]
         /\ \A b \in EmptyBlocks(p) : Onward(p)[b] = b + 1
         /\ \A b \in JumpBlocks(p) : Onward(p)[b] = LabelAt(p, p[BlockEnd(p, b)].label)
         /\ \A b \in Leaders(p) \ PassedThrough(p) : Onward(p)[b] = b
         /\ \A b \in LabelPositions(p) : Onward(p)[b] \in LabelPositions(p)
<1>1. \A x : (CHOOSE c \in {x} : TRUE) = x
  OBVIOUS
<1>2. \A b \in EmptyBlocks(p) : b \in Leaders(p) /\ Successors(p, b) = {b + 1} /\ b + 1 \in LabelPositions(p)
  BY EmptyFacts
<1>3. \A b \in JumpBlocks(p) :
        /\ b \in Leaders(p) /\ Successors(p, b) = {LabelAt(p, p[BlockEnd(p, b)].label)}
        /\ LabelAt(p, p[BlockEnd(p, b)].label) \in LabelPositions(p)
  BY JumpFacts
<1>4. LabelPositions(p) \subseteq Leaders(p)
  BY ProgramFacts, LeadersFacts
<1>5. \A b \in Leaders(p) :
        Onward(p)[b] = IF b \in PassedThrough(p) THEN CHOOSE c \in Successors(p, b) : TRUE ELSE b
  BY DEF Onward
<1>6. \A b \in EmptyBlocks(p) : Onward(p)[b] = b + 1
  BY <1>1, <1>2, <1>5 DEF PassedThrough
<1>7. \A b \in JumpBlocks(p) : Onward(p)[b] = LabelAt(p, p[BlockEnd(p, b)].label)
  BY <1>1, <1>3, <1>5 DEF PassedThrough
<1>8. \A b \in Leaders(p) \ PassedThrough(p) : Onward(p)[b] = b
  BY <1>5
<1>9. \A b \in Leaders(p) : b \in EmptyBlocks(p) \/ b \in JumpBlocks(p) \/ b \notin PassedThrough(p)
  BY DEF PassedThrough
<1>10. \A b \in Leaders(p) : Onward(p)[b] \in Leaders(p)
  BY <1>2, <1>3, <1>4, <1>6, <1>7, <1>8, <1>9
<1>11. Onward(p) \in [Leaders(p) -> Leaders(p)]
  <2>1. Onward(p) = [b \in Leaders(p) |-> Onward(p)[b]]
    BY DEF Onward
  <2> QED  BY <1>10, <2>1
<1>12. \A b \in LabelPositions(p) : Onward(p)[b] \in LabelPositions(p)
  BY <1>2, <1>3, <1>4, <1>6, <1>7, <1>8, <1>9
<1> QED  BY <1>6, <1>7, <1>8, <1>11, <1>12

\* Where chains end, in terms of the blocks on them.
LEMMA ChainFacts ==
  ASSUME NEW p, IsProgram(p), Entry(p) = 1, NEW ends, ends = ChainEnds(p)
  PROVE  /\ \A b \in LabelPositions(p) : ends[b] \in LabelPositions(p)
         /\ \A b \in Leaders(p) : ends[b] \in Leaders(p) /\ ends[ends[b]] = ends[b]
         /\ \A b \in EmptyBlocks(p) : ends[b] = ends[b + 1]
         /\ \A b \in JumpBlocks(p) : ends[b] = ends[LabelAt(p, p[BlockEnd(p, b)].label)]
         /\ \A b \in Leaders(p) \ Redirected(p) : ends[b] = b
         /\ \A b \in Redirected(p) : ends[b] # b /\ b \in PassedThrough(p)
<1>1. /\ ends \in [Leaders(p) -> Leaders(p)]
      /\ \A b \in Leaders(p) : ends[b] = ends[Onward(p)[b]]
      /\ \A b \in Leaders(p) : b \notin PassedThrough(p) => ends[b] = b
      /\ \A C \in SUBSET Leaders(p) : (\A c \in C : Onward(p)[c] \in C) => \A b \in C : ends[b] \in C
  BY OnwardFacts, EndsFacts
<1>2. \A b \in LabelPositions(p) : ends[b] \in LabelPositions(p)
  <2>1. LabelPositions(p) \in SUBSET Leaders(p)
    BY ProgramFacts, LeadersFacts
  <2> QED  BY <1>1, <2>1, OnwardFacts
<1>3. ASSUME NEW b \in Leaders(p) PROVE ends[ends[b]] = ends[b]
  <2> DEFINE C == {c \in Leaders(p) : ends[c] = ends[b]}
  <2>1. \A c \in C : Onward(p)[c] \in C
    BY <1>1, OnwardFacts
  <2>2. b \in C /\ C \in SUBSET Leaders(p)
    OBVIOUS
  <2> HIDE DEF C
  <2>3. ends[b] \in C
    BY <1>1, <2>1, <2>2
  <2> QED  BY <2>3 DEF C
<1>4. \A b \in EmptyBlocks(p) : ends[b] = ends[b + 1]
  BY <1>1, OnwardFacts, EmptyFacts
<1>5. \A b \in JumpBlocks(p) : ends[b] = ends[LabelAt(p, p[BlockEnd(p, b)].label)]
  <2>1. JumpBlocks(p) \subseteq Leaders(p)
    BY DEF JumpBlocks
  <2> QED  BY <1>1, <2>1, OnwardFacts
<1>6. \A b \in Leaders(p) \ Redirected(p) : ends[b] = b
  BY <1>1 DEF Redirected
<1>7. \A b \in Redirected(p) : ends[b] # b /\ b \in PassedThrough(p)
  BY DEF Redirected
<1> QED  BY <1>1, <1>2, <1>3, <1>4, <1>5, <1>6, <1>7

\* A label is its own, other items have that of the item before them.
LEMMA LabelBeforeFacts ==
  ASSUME NEW p, IsProgram(p)
  PROVE  /\ \A k \in LabelPositions(p) : LabelBefore(p, k) = {k}
         /\ \A k \in 1 .. Len(p) : k + 1 \notin LabelPositions(p) => LabelBefore(p, k + 1) = LabelBefore(p, k)
<1>1. LabelPositions(p) \subseteq Nat /\ Len(p) \in Nat
  BY ProgramFacts DEF LabelPositions
<1>2. ASSUME NEW k \in LabelPositions(p) PROVE LabelBefore(p, k) = {k}
  BY <1>1 DEF LabelBefore
<1>3. ASSUME NEW k \in 1 .. Len(p), k + 1 \notin LabelPositions(p) PROVE LabelBefore(p, k + 1) = LabelBefore(p, k)
  <2>1. \A j \in LabelPositions(p) : j <= k + 1 <=> j <= k
    BY <1>1, <1>3
  <2> QED  BY <2>1 DEF LabelBefore
<1> QED  BY <1>2, <1>3

\* So a label goes when its block does, and other items with the one before.
LEMMA DroppedFacts ==
  ASSUME NEW p, IsProgram(p), Entry(p) = 1
  PROVE  /\ Dropped(p) \subseteq 1 .. Len(p) /\ 1 \notin Dropped(p)
         /\ \A k \in LabelPositions(p) : k \in Dropped(p) <=> k \in RemovedBlocks(p)
         /\ \A k \in 1 .. Len(p) : k + 1 \in (1 .. Len(p)) \ LabelPositions(p)
              => (k + 1 \in Dropped(p) <=> k \in Dropped(p))
<1>1. 1 \notin RemovedBlocks(p)
  BY DEF RemovedBlocks
<1>2. LabelBefore(p, 1) \subseteq {1}
  <2>1. LabelPositions(p) \subseteq 1 .. Len(p) /\ Len(p) \in Nat
    BY ProgramFacts DEF LabelPositions
  <2> QED  BY <2>1 DEF LabelBefore
<1>3. \A k \in LabelPositions(p) : k \in 1 .. Len(p)
  BY DEF LabelPositions
<1> QED  BY <1>1, <1>2, <1>3, LabelBeforeFacts DEF Dropped
-----------------------------------------------------------------------------
(* Where a lane of the simplified program stands. *)

\* The items of a labelled block the pass leads control around.
Bypassed(p, b) == {b} \cup (IF b \in JumpBlocks(p) THEN {b + 1} ELSE {})
\* The items control can be at: none of a dropped block but these.
Visited(p) ==
  {Len(p) + 1} \cup
  {k \in 1 .. Len(p) :
     /\ \E c \in Leaders(p) \cap ReachableBlocks(BuildCFG(p)) : k \in c .. BlockEnd(p, c)
     /\ k \in Dropped(p) => \E b \in Redirected(p) \cap LabelPositions(p) : k \in Bypassed(p, b)}
\* The place of an item, or where its chain ends.
Landing(p, h, k) ==
  IF k \in Dropped(p) THEN Place(h, ChainEnds(p)[CHOOSE b \in LabelBefore(p, k) : TRUE]) ELSE Place(h, k)

\* The blocks on a chain that is led around, and what is dropped of them.
LEMMA BypassedFacts ==
  ASSUME NEW p, IsProgram(p), Entry(p) = 1, NEW b \in Redirected(p) \cap LabelPositions(p), NEW k \in Bypassed(p, b)
  PROVE  /\ k \in Dropped(p) /\ LabelBefore(p, k) = {b}
         /\ k \in b .. BlockEnd(p, b) /\ b \in Leaders(p)
         /\ \/ b \in EmptyBlocks(p) /\ k = b
            \/ b \in JumpBlocks(p) /\ k = b /\ BlockEnd(p, b) = b + 1
            \/ b \in JumpBlocks(p) /\ k = b + 1 /\ BlockEnd(p, b) = b + 1
<1>1. b \in PassedThrough(p) /\ b \in Leaders(p) /\ b \in 1 .. Len(p) /\ Len(p) \in Nat
  BY ProgramFacts, LeadersFacts, ChainFacts DEF LabelPositions
<1>2. b \in JumpBlocks(p) \/ b \in EmptyBlocks(p)
  BY <1>1 DEF PassedThrough
<1>3. b # Entry(p)
  BY <1>2 DEF JumpBlocks, EmptyBlocks
<1>4. b \in Dropped(p) /\ LabelBefore(p, b) = {b}
  BY <1>3, DroppedFacts, LabelBeforeFacts DEF RemovedBlocks
<1>5. CASE k = b /\ b \notin JumpBlocks(p)
  BY <1>1, <1>2, <1>4, <1>5, EmptyFacts
<1>6. CASE b \in JumpBlocks(p)
  <2>1. BlockEnd(p, b) = b + 1 /\ b + 1 \in 1 .. Len(p)
    BY <1>6, JumpFacts
  <2>2. b + 1 \notin LabelPositions(p)
    <3>1. IsBranch(p[b + 1])
      BY <1>6, <2>1, JumpFacts
    <3> QED  BY <3>1 DEF LabelPositions, IsLabel, IsBranch
  <2>3. b + 1 \in Dropped(p) /\ LabelBefore(p, b + 1) = {b}
    BY <1>1, <1>4, <2>1, <2>2, DroppedFacts, LabelBeforeFacts
  <2>4. k = b \/ k = b + 1
    BY DEF Bypassed
  <2> QED  BY <1>1, <1>4, <1>6, <2>1, <2>3, <2>4
<1>7. k = b \/ b \in JumpBlocks(p)
  BY DEF Bypassed
<1> QED  BY <1>5, <1>6, <1>7

\* Blocks are apart: an item is in one.
LEMMA InOneBlock ==
  ASSUME NEW p, IsProgram(p), NEW b \in Leaders(p), NEW c \in Leaders(p), NEW k,
         k \in b .. BlockEnd(p, b), k \in c .. BlockEnd(p, c)
  PROVE  b = c
<1>1. Len(p) \in Nat /\ b \in Nat /\ c \in Nat
  BY ProgramFacts, LeadersFacts
<1>2. /\ BlockEnd(p, b) \in b - 1 .. Len(p) /\ (\A i \in b + 1 .. BlockEnd(p, b) : i \notin Leaders(p))
      /\ BlockEnd(p, c) \in c - 1 .. Len(p) /\ (\A i \in c + 1 .. BlockEnd(p, c) : i \notin Leaders(p))
  BY <1>1, BlockFacts
<1>3. b < c => c \in b + 1 .. BlockEnd(p, b)
  BY <1>1, <1>2
<1>4. c < b => b \in c + 1 .. BlockEnd(p, c)
  BY <1>1, <1>2
<1> QED  BY <1>1, <1>2, <1>3, <1>4

\* Control stays among the visited items.
LEMMA VisitedIsClosed ==
  ASSUME NEW p, IsProgram(p), Entry(p) = 1, ReturnsAreFinal(p)
  PROVE  /\ 1 \in Visited(p)
         /\ \A k \in Visited(p) \cap (1 .. Len(p)) : ItemSuccessors(p, k) \subseteq Visited(p)
<1> DEFINE n == Len(p)
           R == ReachableBlocks(BuildCFG(p))
           L == Leaders(p)
<1>1. n \in Nat /\ L \subseteq 1 .. n + 1 /\ 1 \in L /\ LabelPositions(p) \subseteq L /\ LabelPositions(p) \subseteq 1 .. n
  BY ProgramFacts, LeadersFacts DEF LabelPositions
<1>2. 1 \in R /\ \A b \in L \cap R : Successors(p, b) \subseteq R /\ Successors(p, b) \subseteq L
  <2>1. \A b \in L : Successors(p, b) \subseteq L
    BY SuccessorsAreLeaders
  <2>2. Entry(p) \in L
    BY <1>1
  <2> HIDE DEF R, L
  <2>3. Entry(p) \in R /\ \A b \in L \cap R : Successors(p, b) \subseteq R
    BY <2>1, <2>2, ReachableIsClosed DEF R, L
  <2> QED  BY <2>1, <2>3
<1>3. 1 \in Visited(p)
  <2>1. CASE n = 0
    BY <2>1 DEF Visited
  <2>2. CASE n # 0
    <3>1. 1 \in 1 .. n /\ 1 \in 1 .. BlockEnd(p, 1)
      <4>1. BlockEnd(p, 1) \in 1 - 1 .. n /\ 1 <= BlockEnd(p, 1)
        BY <1>1, <2>2, BlockFacts
      <4> QED  BY <1>1, <2>2, <4>1
    <3>2. 1 \notin Dropped(p)
      BY DroppedFacts
    <3> HIDE DEF R
    <3>3. \E c \in L \cap R : 1 \in c .. BlockEnd(p, c)
      BY <1>1, <1>2, <3>1
    <3> QED  BY <3>1, <3>2, <3>3 DEF Visited, R
  <2> QED  BY <2>1, <2>2
<1>4. ASSUME NEW k \in Visited(p) \cap (1 .. n), NEW s \in ItemSuccessors(p, k) PROVE s \in Visited(p)
  <2>1. SUFFICES ASSUME s # n + 1 PROVE s \in Visited(p)
    BY DEF Visited
  <2>2. k # n + 1
    BY <1>1
  <2>3. PICK c \in L \cap R : k \in c .. BlockEnd(p, c)
    BY <2>2 DEF Visited
  <2>4. k \in Dropped(p) => \E b \in Redirected(p) \cap LabelPositions(p) : k \in Bypassed(p, b)
    BY <2>2 DEF Visited
  <2> HIDE DEF R
  <2>5. \/ s = k + 1 /\ k < BlockEnd(p, c) /\ s \notin L
        \/ s \in Successors(p, c) /\ s \in LabelPositions(p)
        \/ s = k + 1 /\ k = BlockEnd(p, c) /\ s \in L /\ s \in Successors(p, c) /\ FallsThrough(p, c)
    <3>1. c \in Leaders(p) /\ k \in c .. BlockEnd(p, c)
      BY <2>3
    <3> QED  BY <2>1, <3>1, StaticControl
  <2>6. s \in 1 .. n
    BY <1>1, <2>1, SuccessorsInside
  <2>7. \E d \in L \cap R : s \in d .. BlockEnd(p, d)
    <3>1. CASE s = k + 1 /\ k < BlockEnd(p, c)
      <4>1. s \in c .. BlockEnd(p, c)
        <5>1. BlockEnd(p, c) \in c - 1 .. n /\ c \in 1 .. n + 1
          BY <1>1, <2>3, BlockFacts
        <5> QED  BY <1>1, <2>3, <3>1, <5>1
      <4> QED  BY <2>3, <4>1
    <3>2. CASE s \in Successors(p, c)
      <4>1. s \in L \cap R
        BY <1>2, <2>3, <3>2
      <4>2. s \in s .. BlockEnd(p, s)
        <5>1. BlockEnd(p, s) \in s - 1 .. n /\ s <= BlockEnd(p, s)
          BY <1>1, <2>6, <4>1, BlockFacts
        <5> QED  BY <2>6, <5>1
      <4> QED  BY <4>1, <4>2
    <3> QED  BY <2>5, <3>1, <3>2
  <2>8. ASSUME s \in Dropped(p) PROVE \E b \in Redirected(p) \cap LabelPositions(p) : s \in Bypassed(p, b)
    <3>1. CASE s \in LabelPositions(p)
      <4>1. s \in RemovedBlocks(p)
        BY <2>8, <3>1, DroppedFacts
      <4>2. s \in L /\ s \in R
        <5>1. s \in L
          BY <1>1, <3>1
        <5>2. PICK d \in L \cap R : s \in d .. BlockEnd(p, d)
          BY <2>7
        <5>3. s \in s .. BlockEnd(p, s)
          <6>1. BlockEnd(p, s) \in s - 1 .. n /\ s <= BlockEnd(p, s)
            BY <1>1, <2>6, <5>1, BlockFacts
          <6> QED  BY <2>6, <6>1
        <5>4. d = s
          BY <5>1, <5>2, <5>3, InOneBlock
        <5> QED  BY <5>1, <5>2, <5>4
      <4>3. s \in Redirected(p)
        BY <4>1, <4>2 DEF RemovedBlocks, UnreachablePure, R
      <4> QED  BY <3>1, <4>3 DEF Bypassed
    <3>2. CASE s \notin LabelPositions(p)
      <4>1. s = k + 1
        BY <2>5, <3>2
      <4>2. k \in Dropped(p)
        BY <2>6, <2>8, <3>2, <4>1, DroppedFacts
      <4>3. PICK b \in Redirected(p) \cap LabelPositions(p) : k \in Bypassed(p, b)
        BY <2>4, <4>2
      <4>4. /\ k \in b .. BlockEnd(p, b) /\ b \in L
            /\ \/ b \in EmptyBlocks(p) /\ k = b
               \/ b \in JumpBlocks(p) /\ k = b /\ BlockEnd(p, b) = b + 1
               \/ b \in JumpBlocks(p) /\ k = b + 1 /\ BlockEnd(p, b) = b + 1
        BY <4>3, BypassedFacts
      <4>5. b = c
        BY <2>3, <4>4, InOneBlock
      <4>6. CASE b \in EmptyBlocks(p) /\ k = b
        BY <3>2, <4>1, <4>6, EmptyFacts
      <4>7. CASE b \in JumpBlocks(p) /\ k = b
        BY <4>1, <4>3, <4>7 DEF Bypassed
      <4>8. CASE b \in JumpBlocks(p) /\ k = b + 1 /\ BlockEnd(p, b) = b + 1
        <5>1. ~FallsThrough(p, c) /\ ~(k < BlockEnd(p, c))
          BY <1>1, <4>5, <4>8, JumpFacts
        <5> QED  BY <2>5, <3>2, <5>1
      <4> QED  BY <4>4, <4>6, <4>7, <4>8
    <3> QED  BY <3>1, <3>2
  <2> QED  BY <2>6, <2>7, <2>8 DEF Visited, R
<1> QED  BY <1>3, <1>4
\* Control that goes on to the next block falls into it.
LEMMA GoingOnFallsThrough ==
  ASSUME NEW p, IsProgram(p), NEW k \in 1 .. Len(p), k + 1 \in LabelPositions(p),
         ~EndsBlock(p[k]) \/ (IsBranch(p[k]) /\ p[k].guarded)
  PROVE  \E c \in Leaders(p) : FallsThrough(p, c) /\ NextBlock(p, c) = k + 1
<1>1. Len(p) \in Nat /\ k + 1 \in Leaders(p) /\ k + 1 \in 1 .. Len(p)
  BY ProgramFacts, LeadersFacts DEF LabelPositions
<1>2. PICK c \in Leaders(p) : k \in c .. BlockEnd(p, c)
  BY <1>1, InSomeBlock
<1>3. /\ BlockEnd(p, c) \in c - 1 .. Len(p) /\ c \in 1 .. Len(p) + 1
      /\ \A i \in c + 1 .. BlockEnd(p, c) : i \notin Leaders(p)
      /\ BlockEnd(p, c) # Len(p) => NextBlock(p, c) = BlockEnd(p, c) + 1
  BY <1>1, BlockFacts, LeadersFacts
<1>4. k = BlockEnd(p, c) /\ k # Len(p)
  <2>1. k < BlockEnd(p, c) => k + 1 \in c + 1 .. BlockEnd(p, c)
    BY <1>1, <1>2, <1>3
  <2> QED  BY <1>1, <1>2, <1>3, <2>1
<1>5. k + 1 \in Later(p, c)
  BY <1>1, <1>2, <1>3 DEF Later
<1> QED  BY <1>3, <1>4, <1>5 DEF FallsThrough

\* What is left of a program by block simplification, item by item.
KeptByBlocks(p) == (1 .. Len(p)) \ Dropped(p)
SimplifiedFrom(p, h) ==
  \E g : /\ \A k \in 1 .. Len(p) : g[k] = Retargeted(p, p[k], ChainEnds(p))
         /\ SievedFrom(Items, g, KeptByBlocks(p), Len(p), h)

\* Empty blocks that are dropped have the place of the block they fall into.
LEMMA ChainPlace ==
  ASSUME NEW p, IsProgram(p), Entry(p) = 1, JumpsAreNotFallenInto(p), NEW h, SimplifiedFrom(p, h)
  PROVE  \A b \in LabelPositions(p) \ JumpBlocks(p) : Place(h, ChainEnds(p)[b]) = Place(h, b)
<1> DEFINE n == Len(p)
           ends == ChainEnds(p)
           Good(b) == b \in LabelPositions(p) \ JumpBlocks(p) => Place(h, ends[b]) = Place(h, b)
           U == {d \in Nat : \A b \in 1 .. n : n - b <= d => Good(b)}
<1>1. n \in Nat /\ LabelPositions(p) \subseteq Leaders(p) /\ LabelPositions(p) \subseteq 1 .. n
  BY ProgramFacts, LeadersFacts DEF LabelPositions
<1>2. PICK g : SievedFrom(Items, g, KeptByBlocks(p), n, h)
  BY DEF SimplifiedFrom
<1>3. \A k \in 1 .. n : k \in Dropped(p) => Place(h, k + 1) = Place(h, k)
  <2>1. \A k \in 1 .. n : Place(h, k + 1) = IF k \in KeptByBlocks(p) THEN Place(h, k) + 1 ELSE Place(h, k)
    BY <1>2, SievePlaces
  <2> QED  BY <2>1 DEF KeptByBlocks
<1>4. ASSUME NEW b \in LabelPositions(p) \ JumpBlocks(p)
      PROVE  \/ ends[b] = b
             \/ /\ ends[b] = ends[b + 1] /\ b + 1 \in LabelPositions(p) \ JumpBlocks(p)
                /\ Place(h, b + 1) = Place(h, b)
  <2>1. SUFFICES ASSUME ends[b] # b
                 PROVE  /\ ends[b] = ends[b + 1] /\ b + 1 \in LabelPositions(p) \ JumpBlocks(p)
                        /\ Place(h, b + 1) = Place(h, b)
    OBVIOUS
  <2>2. b \in Leaders(p)
    BY <1>1
  <2>3. b \in Redirected(p) /\ b \in EmptyBlocks(p)
    <3>1. b \in Redirected(p)
      BY <2>1, <2>2, ChainFacts
    <3>2. b \in PassedThrough(p)
      BY <3>1, ChainFacts
    <3> QED  BY <3>1, <3>2 DEF PassedThrough
  <2>4. /\ ends[b] = ends[b + 1] /\ b + 1 \in LabelPositions(p)
        /\ FallsThrough(p, b) /\ NextBlock(p, b) = b + 1
    BY <2>3, ChainFacts, EmptyFacts
  <2>5. b + 1 \notin JumpBlocks(p)
    BY <2>2, <2>4 DEF JumpsAreNotFallenInto, LabelPositions
  <2>6. b \in Bypassed(p, b)
    BY DEF Bypassed
  <2>7. b \in Dropped(p) /\ b \in 1 .. n
    BY <1>1, <2>3, <2>6, BypassedFacts
  <2> QED  BY <1>3, <2>4, <2>5, <2>7
<1> HIDE DEF ends
<1>5. 0 \in U
  <2>1. SUFFICES ASSUME NEW b \in 1 .. n, n - b <= 0, b \in LabelPositions(p) \ JumpBlocks(p)
                 PROVE  Place(h, ends[b]) = Place(h, b)
    OBVIOUS
  <2>2. b = n
    BY <1>1, <2>1
  <2>3. b + 1 \notin LabelPositions(p)
    BY <1>1, <2>2
  <2> QED  BY <1>4, <2>1, <2>3
<1>6. ASSUME NEW d \in Nat, d \in U PROVE d + 1 \in U
  <2>1. SUFFICES ASSUME NEW b \in 1 .. n, n - b <= d + 1, b \in LabelPositions(p) \ JumpBlocks(p)
                 PROVE  Place(h, ends[b]) = Place(h, b)
    OBVIOUS
  <2>2. CASE ends[b] = b
    BY <2>2
  <2>3. CASE /\ ends[b] = ends[b + 1] /\ b + 1 \in LabelPositions(p) \ JumpBlocks(p)
             /\ Place(h, b + 1) = Place(h, b)
    <3>1. b + 1 \in 1 .. n /\ n - (b + 1) <= d
      BY <1>1, <2>1, <2>3
    <3>2. Good(b + 1)
      BY <1>6, <3>1
    <3> QED  BY <2>3, <3>2
  <2> QED  BY <1>4, <2>1, <2>2, <2>3
<1>7. Nat \subseteq U
  <2> HIDE DEF U
  <2> QED  BY <1>5, <1>6, InductionOnSet
<1>8. \A b \in 1 .. n : n - b \in Nat /\ n - b <= n - b
  BY <1>1
<1>9. \A b \in 1 .. n : Good(b)
  <2> HIDE DEF Good
  <2> QED  BY <1>7, <1>8
<1> QED  BY <1>1, <1>9 DEF ends

\* Where items land: a label where its chain ends, items of a block that is led
\* around with their label, an item that is gone on to behind the item before it.
LEMMA LandingFacts ==
  ASSUME NEW p, IsProgram(p), StartsAtEntry(p), JumpsAreNotFallenInto(p), NEW h, SimplifiedFrom(p, h)
  PROVE  /\ Landing(p, h, 1) = 1 /\ Landing(p, h, Len(p) + 1) = Len(h[Len(p)]) + 1
         /\ \A k \in LabelPositions(p) : Landing(p, h, k) = Place(h, ChainEnds(p)[k])
         /\ \A b \in Redirected(p) \cap LabelPositions(p) : \A k \in Bypassed(p, b) :
              Landing(p, h, k) = Place(h, ChainEnds(p)[b])
         /\ \A k \in KeptByBlocks(p) : Landing(p, h, k) = Place(h, k)
         /\ \A k \in KeptByBlocks(p) :
              ~EndsBlock(p[k]) \/ (IsBranch(p[k]) /\ p[k].guarded)
                => Landing(p, h, k + 1) = Place(h, k) + 1
<1> DEFINE n == Len(p)
           ends == ChainEnds(p)
<1>1. n \in Nat /\ LabelPositions(p) \subseteq Leaders(p) /\ LabelPositions(p) \subseteq 1 .. n
  BY ProgramFacts, LeadersFacts DEF LabelPositions
<1>2. Entry(p) = 1 /\ 1 \notin Dropped(p) /\ Dropped(p) \subseteq 1 .. n
  BY DroppedFacts DEF StartsAtEntry
<1>3. PICK g : SievedFrom(Items, g, KeptByBlocks(p), n, h)
  BY DEF SimplifiedFrom
<1>4. /\ Place(h, 1) = 1 /\ Place(h, n + 1) = Len(h[n]) + 1
      /\ \A k \in 1 .. n : Place(h, k + 1) = IF k \in KeptByBlocks(p) THEN Place(h, k) + 1 ELSE Place(h, k)
  BY <1>3, SievePlaces
<1>5. n + 1 \notin Dropped(p)
  BY <1>1, <1>2
<1>6. \A x : (CHOOSE b \in {x} : TRUE) = x
  OBVIOUS
<1>7. ASSUME NEW k \in LabelPositions(p) PROVE Landing(p, h, k) = Place(h, ends[k])
  <2>1. CASE k \in Dropped(p)
    <3>1. LabelBefore(p, k) = {k}
      BY LabelBeforeFacts
    <3> QED  BY <1>6, <2>1, <3>1 DEF Landing
  <2>2. CASE k \notin Dropped(p)
    <3>1. k \notin RemovedBlocks(p)
      BY <1>2, <2>2, DroppedFacts
    <3>2. k \notin Redirected(p)
      <4>1. Entry(p) \notin Redirected(p)
        BY <1>2 DEF Redirected, PassedThrough, EmptyBlocks, JumpBlocks
      <4> QED  BY <3>1, <4>1 DEF RemovedBlocks
    <3>3. ends[k] = k
      BY <1>1, <1>2, <3>2, ChainFacts
    <3> QED  BY <2>2, <3>3 DEF Landing
  <2> QED  BY <2>1, <2>2
<1>8. ASSUME NEW b \in Redirected(p) \cap LabelPositions(p), NEW k \in Bypassed(p, b)
      PROVE  Landing(p, h, k) = Place(h, ends[b])
  <2>1. k \in Dropped(p) /\ LabelBefore(p, k) = {b}
    BY <1>2, BypassedFacts
  <2> QED  BY <1>6, <2>1 DEF Landing
<1>9. ASSUME NEW k \in KeptByBlocks(p) PROVE Landing(p, h, k) = Place(h, k)
  BY DEF Landing, KeptByBlocks
<1>10. ASSUME NEW k \in KeptByBlocks(p), ~EndsBlock(p[k]) \/ (IsBranch(p[k]) /\ p[k].guarded)
       PROVE  Landing(p, h, k + 1) = Place(h, k) + 1
  <2>1. k \in 1 .. n /\ k \notin Dropped(p) /\ Place(h, k + 1) = Place(h, k) + 1
    BY <1>4 DEF KeptByBlocks
  <2>2. CASE k + 1 \notin LabelPositions(p)
    <3>1. k + 1 \notin Dropped(p)
      BY <1>2, <2>1, <2>2, DroppedFacts
    <3> QED  BY <2>1, <3>1 DEF Landing
  <2>3. CASE k + 1 \in LabelPositions(p)
    <3>1. PICK c \in Leaders(p) : FallsThrough(p, c) /\ NextBlock(p, c) = k + 1
      BY <1>10, <2>1, <2>3, GoingOnFallsThrough
    <3>2. k + 1 \notin JumpBlocks(p)
      BY <2>3, <3>1 DEF JumpsAreNotFallenInto, LabelPositions
    <3>3. Place(h, ends[k + 1]) = Place(h, k + 1)
      BY <1>2, <2>3, <3>2, ChainPlace
    <3> QED  BY <1>7, <2>1, <2>3, <3>3
  <2> QED  BY <2>2, <2>3
<1>11. Landing(p, h, 1) = 1 /\ Landing(p, h, n + 1) = Len(h[n]) + 1
  BY <1>2, <1>4, <1>5 DEF Landing
<1> QED  BY <1>7, <1>8, <1>9, <1>10, <1>11

\* A branch that stays is led to a label that stays.
LEMMA RetargetedFacts ==
  ASSUME NEW p, IsProgram(p), StartsAtEntry(p), DeadBlocksAreNotTargets(p), NEW k \in KeptByBlocks(p),
         NEW j, j = Retargeted(p, p[k], ChainEnds(p))
  PROVE  /\ j \in Items /\ WellFormed(j) /\ j.kind = p[k].kind /\ j = [p[k] EXCEPT !.label = j.label]
         /\ ~IsBranch(p[k]) => j = p[k]
         /\ IsBranch(p[k]) => /\ ChainEnds(p)[LabelAt(p, p[k].label)] \in KeptByBlocks(p) \cap LabelPositions(p)
                              /\ j.label = p[ChainEnds(p)[LabelAt(p, p[k].label)]].label
<1> DEFINE i == p[k]
           ends == ChainEnds(p)
           t == LabelAt(p, i.label)
<1>1. k \in 1 .. Len(p) /\ k \notin Dropped(p) /\ Entry(p) = 1
  BY DEF KeptByBlocks, StartsAtEntry
<1>2. i \in Items /\ WellFormed(i)
  BY <1>1, ProgramFacts
<1>3. ASSUME IsBranch(i)
      PROVE  /\ t \in LabelPositions(p) /\ p[t].label = i.label
             /\ ends[t] \in LabelPositions(p) /\ ends[t] \in KeptByBlocks(p)
  <2>1. t \in LabelPositions(p)
    BY <1>1, <1>3, ProgramFacts
  <2>2. p[t].label = i.label
    <3>1. i.label \in LabelsOf(p)
      BY <1>1, <1>3 DEF IsProgram, BuildFails
    <3>2. PICK m \in LabelPositions(p) : p[m].label = i.label
      BY <3>1 DEF LabelsOf
    <3> QED  BY <3>2, LabelsAreUnique
  <2>3. t \in Leaders(p) /\ LabelPositions(p) \subseteq 1 .. Len(p)
    BY <2>1, ProgramFacts, LeadersFacts DEF LabelPositions
  <2>4. ends[t] \in LabelPositions(p) /\ ends[ends[t]] = ends[t]
    BY <1>1, <2>1, <2>3, ChainFacts
  <2>5. ends[t] \notin UnreachablePure(p)
    BY <1>1, <1>3 DEF DeadBlocksAreNotTargets
  <2> HIDE DEF ends, t
  <2>6. ends[t] \notin Redirected(p)
    BY <1>1, <2>4, ChainFacts DEF ends
  <2>7. ends[t] \notin Dropped(p)
    BY <1>1, <2>4, <2>5, <2>6, DroppedFacts DEF RemovedBlocks
  <2> QED  BY <2>1, <2>2, <2>3, <2>4, <2>7 DEF KeptByBlocks
<1>4. i = [i EXCEPT !.label = i.label]
  BY <1>2 DEF Items
<1>5. CASE ~IsBranch(i)
  <2>1. j = i
    BY <1>5 DEF Retargeted
  <2> QED  BY <1>2, <1>4, <1>5, <2>1
<1>6. CASE IsBranch(i) /\ ends[t] = t
  <2>1. j = i
    BY <1>6 DEF Retargeted
  <2> QED  BY <1>2, <1>3, <1>4, <1>6, <2>1
<1>7. CASE IsBranch(i) /\ ends[t] # t
  <2> DEFINE l == p[ends[t]].label
  <2>1. j = [i EXCEPT !.label = l]
    BY <1>7 DEF Retargeted, IsLabel, IsBranch
  <2>2. l \in STRING
    <3>1. ends[t] \in 1 .. Len(p)
      BY <1>3, <1>7 DEF LabelPositions
    <3>2. p[ends[t]] \in Items
      BY <3>1, ProgramFacts
    <3> HIDE DEF ends, t
    <3> QED  BY <3>2 DEF Items
  <2>3. ends[t] \in KeptByBlocks(p) /\ ends[t] \in LabelPositions(p)
    BY <1>3, <1>7
  <2> HIDE DEF l, i
  <2>4. j \in Items /\ j.label = l
    BY <1>2, <2>1, <2>2 DEF Items
  <2>5. /\ j.kind = i.kind /\ j.op = i.op /\ j.dest = i.dest /\ j.guard = i.guard /\ j.guarded = i.guarded
        /\ j.args = i.args /\ j.compare = i.compare
    BY <1>2, <2>1 DEF Items
  <2>6. WellFormed(j)
    BY <1>2, <2>5 DEF WellFormed
  <2> QED  BY <1>7, <2>1, <2>3, <2>4, <2>5, <2>6 DEF l, i
<1> QED  BY <1>5, <1>6, <1>7
\* The simplified program goes where the given one goes, but for the blocks it
\* is led around.
LEMMA BlocksSimplify ==
  ASSUME NEW p, IsProgram(p), SimplificationAssumes(p)
  PROVE  Preserved(p, SimplifyBlocks(p))
<1> DEFINE n == Len(p)
           S == KeptByBlocks(p)
           ends == ChainEnds(p)
           g == [k \in 1 .. n |-> Retargeted(p, p[k], ends)]
           q == SimplifyBlocks(p)
<1>1. n \in Nat /\ StartsAtEntry(p) /\ ReturnsAreFinal(p) /\ JumpsAreNotFallenInto(p) /\ DeadBlocksAreNotTargets(p)
  BY ProgramFacts DEF SimplificationAssumes
<1>2. Entry(p) = 1 /\ S \subseteq 1 .. n
  BY <1>1 DEF StartsAtEntry, KeptByBlocks
<1>3. ASSUME NEW k \in S
      PROVE  /\ g[k] \in Items /\ WellFormed(g[k]) /\ g[k].kind = p[k].kind
             /\ g[k] = [p[k] EXCEPT !.label = g[k].label]
             /\ ~IsBranch(p[k]) => g[k] = p[k]
             /\ IsBranch(p[k]) => /\ ends[LabelAt(p, p[k].label)] \in S \cap LabelPositions(p)
                                  /\ g[k].label = p[ends[LabelAt(p, p[k].label)]].label
  <2>1. g[k] = Retargeted(p, p[k], ends)
    BY <1>2
  <2> HIDE DEF g
  <2> QED  BY <1>1, <2>1, RetargetedFacts
<1>4. q = Kept(g, S) /\ Len(g) = n
  <2>1. q = Kept(g, S)
    BY DEF SimplifyBlocks, KeptByBlocks
  <2>2. Len(g) = n
    BY <1>1
  <2> QED  BY <2>1, <2>2
<1>5. \A k \in 1 .. n : g[k] = Retargeted(p, p[k], ends)
  OBVIOUS
<1> HIDE DEF g, q
<1>6. PICK h : Sieved(g, S, n, h) /\ q = h[n]
  BY <1>1, <1>4, SievesExist, KeptBySieve
<1>7. SievedFrom(Items, g, S, n, h)
  BY <1>1, <1>3, <1>6 DEF SievedFrom
<1>8. SimplifiedFrom(p, h)
  BY <1>5, <1>7 DEF SimplifiedFrom
<1>9. /\ IsProgram(q)
      /\ \A j \in S \cap LabelPositions(p) : LabelAt(q, p[j].label) = Place(h, j)
  <2>1. \A k \in S \cap (1 .. n) :
           WellFormed(g[k]) /\ g[k].kind = p[k].kind /\ (IsLabel(p[k]) => g[k].label = p[k].label)
    BY <1>3 DEF IsLabel, IsBranch
  <2>2. \A k \in S \cap (1 .. n) : IsBranch(g[k]) => \E j \in S \cap LabelPositions(p) : p[j].label = g[k].label
    BY <1>3 DEF IsBranch
  <2>3. EntryLabel \in LabelsOf(p) => 1 \in S
    <3>1. SUFFICES ASSUME EntryLabel \in LabelsOf(p) PROVE 1 \in S
      OBVIOUS
    <3>2. p # << >>
      BY <3>1 DEF IsProgram, BuildFails
    <3>3. n # 0
      BY <3>2 DEF IsProgram
    <3> QED  BY <1>1, <1>2, <3>3, DroppedFacts DEF KeptByBlocks
  <2> QED  BY <1>6, <1>7, <2>1, <2>2, <2>3, SievedProgram
<1>10. \A k \in S : Place(h, k) \in 1 .. Len(q) /\ q[Place(h, k)] = g[k]
  BY <1>2, <1>6, <1>7, SievePlaces
<1> DEFINE seen == Visited(p)
           at == [k \in seen |-> Landing(p, h, k)]
           dead == [k \in seen |-> {}]
<1>11. /\ at[1] = 1 /\ n + 1 \in seen /\ at[n + 1] = Len(q) + 1 /\ 1 \in seen
  <2>1. 1 \in seen /\ n + 1 \in seen
    BY <1>1, <1>2, VisitedIsClosed DEF Visited
  <2> QED  BY <1>1, <1>6, <1>8, <2>1, LandingFacts
<1>12. ASSUME NEW k \in seen \cap (1 .. n), NEW s \in ItemSuccessors(p, k)
       PROVE  s \in seen /\ at[s] = Landing(p, h, s) /\ dead[s] = {}
  <2>1. s \in seen
    BY <1>1, <1>2, <1>12, VisitedIsClosed
  <2> HIDE DEF seen
  <2> QED  BY <2>1
<1>13. ASSUME NEW k \in seen PROVE at[k] = Landing(p, h, k) /\ dead[k] = {}
  BY <1>13
<1> HIDE DEF at, dead, seen
<1>14. ASSUME NEW k \in seen \cap S PROVE Stands(p, q, k, at)
  <2>1. k \in 1 .. n /\ k \in S
    BY <1>2
  <2>2. at[k] = Place(h, k)
    BY <1>1, <1>8, <1>13, <2>1, LandingFacts
  <2>3. at[k] \in 1 .. Len(q) /\ q[at[k]] = g[k]
    BY <1>10, <2>1, <2>2
  <2>4. ~EndsBlock(p[k]) \/ (IsBranch(p[k]) /\ p[k].guarded) => Landing(p, h, k + 1) = at[k] + 1
    BY <1>1, <1>8, <2>1, <2>2, LandingFacts
  <2>5. ~EndsBlock(p[k]) \/ (IsBranch(p[k]) /\ p[k].guarded) => k + 1 \in ItemSuccessors(p, k)
    BY DEF ItemSuccessors, NextPC, EndsBlock, IsBranch, IsLabel
  <2>6. IsLabel(p[k]) \/ p[k].guarded => at[k + 1] = at[k] + 1
    <3>1. IsLabel(p[k]) \/ p[k].guarded => ~EndsBlock(p[k]) \/ (IsBranch(p[k]) /\ p[k].guarded)
      BY <1>1, <2>1 DEF ReturnsAreFinal, EndsBlock, IsBranch, IsLabel
    <3> QED  BY <1>12, <2>1, <2>4, <2>5, <3>1
  <2> DEFINE m == at[k]
  <2>7. ASSUME ~IsLabel(p[k]) PROVE NextPC(q, m) = at[NextPC(p, k)]
    <3>0. q[m] = g[k] /\ g[k].kind = p[k].kind
      BY <1>3, <2>1, <2>3
    <3>a. NextPC(p, k) \in ItemSuccessors(p, k)
      BY <2>7 DEF ItemSuccessors
    <3>b. at[NextPC(p, k)] = Landing(p, h, NextPC(p, k))
      BY <1>12, <2>1, <3>a
    <3> HIDE DEF m
    <3>1. CASE IsBranch(p[k])
      <4> DEFINE t == LabelAt(p, p[k].label)
      <4>1. t \in LabelPositions(p) /\ ends[t] \in S \cap LabelPositions(p) /\ g[k].label = p[ends[t]].label
        BY <1>3, <2>1, <3>1, ProgramFacts
      <4>2. NextPC(p, k) = t /\ NextPC(q, m) = LabelAt(q, g[k].label)
        BY <3>0, <3>1 DEF NextPC, IsBranch
      <4> HIDE DEF t, ends
      <4>3. LabelAt(q, g[k].label) = Place(h, ends[t])
        BY <1>9, <4>1
      <4>4. Landing(p, h, t) = Place(h, ends[t])
        BY <1>1, <1>8, <4>1, LandingFacts DEF ends
      <4> QED  BY <3>b, <4>2, <4>3, <4>4
    <3>2. CASE ~IsBranch(p[k]) /\ p[k].kind = "ret"
      <4>1. NextPC(p, k) = n + 1 /\ NextPC(q, m) = Len(q) + 1
        BY <3>0, <3>2 DEF NextPC, Stopped, IsBranch
      <4> QED  BY <1>11, <4>1
    <3>3. CASE ~IsBranch(p[k]) /\ p[k].kind # "ret"
      <4>1. NextPC(p, k) = k + 1 /\ NextPC(q, m) = m + 1
        BY <3>0, <3>3 DEF NextPC, IsBranch
      <4>2. ~EndsBlock(p[k])
        BY <3>3 DEF EndsBlock, IsBranch
      <4> QED  BY <2>4, <3>b, <4>1, <4>2 DEF m
    <3> QED  BY <3>1, <3>2, <3>3
  <2>8. q[at[k]] = [p[k] EXCEPT !.label = q[at[k]].label]
    BY <1>3, <2>1, <2>3
  <2> QED  BY <2>3, <2>6, <2>7, <2>8 DEF Stands
<1>15. ASSUME NEW k \in seen \cap (1 .. n), k \notin S PROVE Drops(p, k, at) /\ ResultsOf(p[k]) = {}
  <2>1. PICK b \in Redirected(p) \cap LabelPositions(p) : k \in Bypassed(p, b)
    <3>1. k \in Dropped(p) /\ k # n + 1
      BY <1>1, <1>15 DEF KeptByBlocks
    <3> QED  BY <3>1 DEF seen, Visited
  <2>2. at[k] = Place(h, ends[b])
    BY <1>1, <1>8, <1>13, <2>1, LandingFacts
  <2>3. \/ b \in EmptyBlocks(p) /\ k = b
        \/ b \in JumpBlocks(p) /\ k = b /\ BlockEnd(p, b) = b + 1
        \/ b \in JumpBlocks(p) /\ k = b + 1 /\ BlockEnd(p, b) = b + 1
    BY <1>2, <2>1, BypassedFacts
  <2>4. p[k].kind # "op" /\ p[k].op # "st"
    <3>1. IsLabel(p[k]) \/ IsBranch(p[k])
      BY <1>2, <2>1, <2>3, JumpFacts DEF LabelPositions
    <3>2. WellFormed(p[k])
      BY <1>15, ProgramFacts
    <3> QED  BY <3>1, <3>2 DEF IsLabel, IsBranch, WellFormed
  <2>5. \A s \in ItemSuccessors(p, k) : Landing(p, h, s) = Place(h, ends[b])
    <3>1. CASE b \in EmptyBlocks(p) /\ k = b
      <4>1. b + 1 \in LabelPositions(p) /\ ends[b] = ends[b + 1]
        BY <1>2, <3>1, EmptyFacts, ChainFacts
      <4>2. ItemSuccessors(p, k) = {b + 1}
        BY <2>1, <3>1 DEF ItemSuccessors, LabelPositions
      <4> QED  BY <1>1, <1>8, <4>1, <4>2, LandingFacts
    <3>2. CASE b \in JumpBlocks(p) /\ k = b
      <4>1. b + 1 \in Bypassed(p, b)
        BY <3>2 DEF Bypassed
      <4>2. ItemSuccessors(p, k) = {b + 1}
        BY <2>1, <3>2 DEF ItemSuccessors, LabelPositions
      <4> QED  BY <1>1, <1>8, <2>1, <4>1, <4>2, LandingFacts
    <3>3. CASE b \in JumpBlocks(p) /\ k = b + 1 /\ BlockEnd(p, b) = b + 1
      <4> DEFINE t == LabelAt(p, p[k].label)
      <4>1. IsBranch(p[k]) /\ ~p[k].guarded /\ t \in LabelPositions(p) /\ ends[b] = ends[t]
        BY <1>2, <3>3, JumpFacts, ChainFacts
      <4>2. ItemSuccessors(p, k) = {t}
        BY <4>1 DEF ItemSuccessors, NextPC, IsBranch, IsLabel
      <4> HIDE DEF t
      <4> QED  BY <1>1, <1>8, <4>1, <4>2, LandingFacts
    <3> QED  BY <2>3, <3>1, <3>2, <3>3
  <2>6. \A s \in ItemSuccessors(p, k) : at[s] = at[k]
    BY <1>12, <1>15, <2>2, <2>5
  <2> QED  BY <2>4, <2>6 DEF Drops, ResultsOf
<1>16. Follows(p, q, seen, at, dead)
  <2>1. ASSUME NEW k \in seen \cap (1 .. Len(p))
        PROVE  /\ ItemSuccessors(p, k) \subseteq seen
               /\ \/ /\ Stands(p, q, k, at)
                     /\ IsLabel(p[k]) \/ ReadBy(p[k]) \cap dead[k] = {}
                     /\ \A s \in ItemSuccessors(p, k) : dead[k] \ Overwritten(p[k]) \subseteq dead[s]
                  \/ /\ Drops(p, k, at)
                     /\ \A s \in ItemSuccessors(p, k) : dead[k] \cup ResultsOf(p[k]) \subseteq dead[s]
    <3>1. dead[k] = {}
      BY <1>13
    <3>2. CASE k \in S
      BY <1>12, <1>14, <2>1, <3>1, <3>2
    <3>3. CASE k \notin S
      BY <1>12, <1>15, <2>1, <3>1, <3>3
    <3> QED  BY <3>2, <3>3
  <2> QED  BY <1>11, <2>1 DEF Follows
<1>17. Preserved(p, q)
  BY <1>9, <1>16, FollowingPreserves
<1> QED  BY <1>17 DEF q

\* Removing and threading blocks keeps every path and every branch target.
THEOREM SimplifiedBlocksKeepPaths == Spec => []BlockSimplifyPreserves
<1>1. RewriteInv => BlockSimplifyPreserves
  <2>1. SUFFICES ASSUME RewriteInv, pass = "block-simplify", stage = "done", SimplificationAssumes(source)
                 PROVE  Preserved(source, target)
    BY DEF BlockSimplifyPreserves, Preserves
  <2>2. IsProgram(source) /\ target = Transformed("block-simplify", source)
    BY <2>1, ProgramsAssumption DEF RewriteInv
  <2>3. Transformed("block-simplify", source) = SimplifyBlocks(source)
    BY DEF Transformed
  <2> QED  BY <2>1, <2>2, <2>3, BlocksSimplify
<1> QED  BY <1>1, RewriteInvariance, PTL

-----------------------------------------------------------------------------
(* Liveness is closed: what is read is live, and what is live behind an     *)
(* item that does not set it is live in front of it.                        *)

LiveReads(p, r) == {k \in 1 .. Len(p) : ~IsLabel(p[k]) /\ r \in ReadBy(p[k])}
LiveKills(p, r) == {k \in 1 .. Len(p) : ~IsLabel(p[k]) /\ ~p[k].guarded /\ p[k].dest = r}
LiveFront(p, r, S) == {k \in (1 .. Len(p)) \ LiveKills(p, r) : ItemSuccessors(p, k) \cap S # {}}
IsLivenessChain(p, r, n, h) ==
  h = [k \in 0 .. n |-> IF k = 0 THEN LiveReads(p, r) ELSE h[k-1] \cup LiveFront(p, r, h[k-1])]

\* The definition, with the chain named.
LEMMA LivenessByChain ==
  ASSUME NEW p, NEW r
  PROVE  LiveBefore(p, r) = (CHOOSE h : IsLivenessChain(p, r, Len(p), h))[Len(p)]
BY Zenon DEF LiveBefore, IsLivenessChain, LiveReads, LiveKills, LiveFront

LEMMA LivenessIsClosed ==
  ASSUME NEW p, IsProgram(p), NEW r
  PROVE  /\ \A k \in 1 .. Len(p) : ~IsLabel(p[k]) /\ r \in ReadBy(p[k]) => k \in LiveBefore(p, r)
         /\ \A k \in 1 .. Len(p) : \A s \in ItemSuccessors(p, k) :
              s \in LiveBefore(p, r) /\ ~(~IsLabel(p[k]) /\ ~p[k].guarded /\ p[k].dest = r)
                => k \in LiveBefore(p, r)
<1> DEFINE n == Len(p)
           I == 1 .. n
           reads == LiveReads(p, r)
           Ahead(S) == LiveFront(p, r, S)
           F == [x \in Nat \X SUBSET I |-> x[2] \cup Ahead(x[2])]
<1>1. n \in Nat /\ IsFiniteSet(I) /\ Cardinality(I) <= n
  <2>1. n \in Nat
    BY ProgramFacts
  <2>2. IsFiniteSet(I) /\ Cardinality(I) = n
    BY <2>1, FS_Interval, SMTT(40)
  <2> QED  BY <2>1, <2>2
<1>2. (\A S : Ahead(S) \subseteq I) /\ reads \in SUBSET I
  BY DEF LiveFront, LiveReads
<1> HIDE DEF reads, Ahead
<1>3. F \in [Nat \X SUBSET I -> SUBSET I]
  BY <1>2
<1>4. PICK g : Recurs(SUBSET I, reads, F, n, g)
  <2> HIDE DEF F, n, I
  <2> QED  BY <1>1, <1>2, <1>3, Recursion
<1>5. g \in [0 .. n -> SUBSET I] /\ g[0] = reads /\ \A k \in 1 .. n : g[k] = F[<<k, g[k-1]>>]
  BY <1>4 DEF Recurs
<1>6. ASSUME NEW k \in 1 .. n PROVE g[k] = g[k-1] \cup Ahead(g[k-1])
  <2>1. k - 1 \in 0 .. n /\ k \in Nat
    BY <1>1
  <2>2. <<k, g[k-1]>> \in Nat \X SUBSET I
    BY <1>5, <2>1
  <2> DEFINE w == <<k, g[k-1]>>
  <2>3. F[w] = w[2] \cup Ahead(w[2]) /\ w[2] = g[k-1] /\ g[k] = F[w]
    BY <1>5, <2>2
  <2> HIDE DEF w, F
  <2> QED  BY <2>3
<1> HIDE DEF F
<1>7. IsLivenessChain(p, r, n, g)
  <2>1. ASSUME NEW k \in 0 .. n
        PROVE  g[k] = IF k = 0 THEN LiveReads(p, r) ELSE g[k-1] \cup LiveFront(p, r, g[k-1])
    <3>1. CASE k = 0
      BY <1>5, <3>1 DEF reads
    <3>2. CASE k # 0
      <4>1. k \in 1 .. n
        BY <1>1, <3>2
      <4>2. g[k] = g[k-1] \cup Ahead(g[k-1])
        BY <1>6, <4>1
      <4> QED  BY <3>2, <4>2 DEF Ahead
    <3> QED  BY <3>1, <3>2
  <2>2. g = [k \in 0 .. n |-> g[k]]
    BY <1>5
  <2> QED  BY <2>1, <2>2 DEF IsLivenessChain
<1> DEFINE f == CHOOSE h : IsLivenessChain(p, r, n, h)
           R == f[n]
<1>8. IsLivenessChain(p, r, n, f) /\ LiveBefore(p, r) = R
  BY <1>7, LivenessByChain
<1> HIDE DEF f
<1>9. f[0] = reads /\ \A k \in 1 .. n : f[k] = f[k-1] \cup Ahead(f[k-1])
  <2>1. f = [k \in 0 .. n |-> IF k = 0 THEN LiveReads(p, r) ELSE f[k-1] \cup LiveFront(p, r, f[k-1])]
    BY <1>8 DEF IsLivenessChain
  <2>2. \A k \in 0 .. n : f[k] = IF k = 0 THEN LiveReads(p, r) ELSE f[k-1] \cup LiveFront(p, r, f[k-1])
    BY <2>1, Zenon
  <2>3. 0 \in 0 .. n /\ \A k \in 1 .. n : k \in 0 .. n /\ k # 0
    BY <1>1
  <2> QED  BY <2>2, <2>3 DEF reads, Ahead
<1> DEFINE U == {k \in Nat : k <= n => reads \subseteq f[k] /\ f[k] \subseteq I}
<1>10. Nat \subseteq U
  <2>1. 0 \in U
    BY <1>2, <1>9
  <2>2. ASSUME NEW k \in Nat, k \in U PROVE k + 1 \in U
    <3>1. k + 1 <= n => k + 1 \in 1 .. n /\ k + 1 - 1 = k /\ k <= n
      BY <1>1
    <3> HIDE DEF I
    <3> QED  BY <1>2, <1>9, <2>2, <3>1
  <2> HIDE DEF U
  <2> QED  BY <2>1, <2>2, InductionOnSet
<1>11. \A k \in 0 .. n : reads \subseteq f[k] /\ f[k] \subseteq I
  BY <1>1, <1>10
<1>12. R = I \/ (n > 0 /\ R = f[n-1])
  <2>1. \A k \in 0 .. n : f[k] \subseteq I
    BY <1>11
  <2>2. \A k \in 1 .. n : f[k-1] \subseteq f[k]
    BY <1>9
  <2>3. ASSUME NEW k \in 1 .. n, k < n, f[k] = f[k-1] PROVE f[k+1] = f[k]
    <3>1. k + 1 \in 1 .. n /\ k + 1 - 1 = k
      BY <1>1, <2>3
    <3>2. f[k+1] = f[k] \cup Ahead(f[k]) /\ f[k] = f[k-1] \cup Ahead(f[k-1])
      BY <1>9, <3>1
    <3> QED  BY <2>3, <3>2
  <2> HIDE DEF n, I
  <2> QED  BY <1>1, <2>1, <2>2, <2>3, ChainSettles
<1>13. Ahead(R) \subseteq R
  <2>1. CASE R = I
    BY <1>2, <2>1
  <2>2. CASE n > 0 /\ R = f[n-1]
    <3>1. n \in 1 .. n
      BY <1>1, <2>2
    <3> QED  BY <1>9, <2>2, <3>1
  <2> QED  BY <1>12, <2>1, <2>2
<1>14. reads \subseteq R
  <2>1. n \in 0 .. n
    BY <1>1
  <2> QED  BY <1>11, <2>1
<1> HIDE DEF R
<1>15. ASSUME NEW k \in 1 .. n, ~IsLabel(p[k]), r \in ReadBy(p[k]) PROVE k \in R
  BY <1>14, <1>15 DEF reads, LiveReads
<1>16. ASSUME NEW k \in 1 .. n, NEW s \in ItemSuccessors(p, k), s \in R,
              ~(~IsLabel(p[k]) /\ ~p[k].guarded /\ p[k].dest = r)
       PROVE  k \in R
  <2>1. k \notin LiveKills(p, r)
    BY <1>16 DEF LiveKills
  <2>2. k \in Ahead(R)
    BY <1>16, <2>1 DEF Ahead, LiveFront
  <2> QED  BY <1>13, <2>2
<1> QED  BY <1>8, <1>15, <1>16

-----------------------------------------------------------------------------
(* Scopes. *)

InScope(p, k) == k \in 1 .. Len(p) /\ ~IsLabel(p[k]) /\ ~CSEBoundary(p[k])

\* A scope is a stretch of the text.
LEMMA ScopeFacts ==
  ASSUME NEW p, IsProgram(p), NEW k \in 1 .. Len(p), InScope(p, k)
  PROVE  /\ ScopeOf(p, k) \subseteq {j \in 1 .. Len(p) : InScope(p, j)}
         /\ k \in ScopeOf(p, k)
         /\ k + 1 \in ScopeOf(p, k) <=> InScope(p, k + 1)
         /\ InScope(p, k + 1) => ScopeOf(p, k + 1) = ScopeOf(p, k)
<1> DEFINE inside(j) == ~IsLabel(p[j]) /\ ~CSEBoundary(p[j])
<1>1. Len(p) \in Nat /\ inside(k)
  BY ProgramFacts DEF InScope
<1>2. ASSUME NEW m, NEW j
      PROVE  j \in ScopeOf(p, m) <=> /\ j \in 1 .. Len(p)
                                     /\ \A l \in j .. m : inside(l)
                                     /\ \A l \in m .. j : inside(l)
  BY Zenon DEF ScopeOf
<1>3. \A j : InScope(p, j) <=> j \in 1 .. Len(p) /\ inside(j)
  BY DEF InScope
<1> HIDE DEF inside
<1>4. ASSUME NEW j \in ScopeOf(p, k) PROVE j \in 1 .. Len(p) /\ inside(j)
  <2>1. /\ j \in 1 .. Len(p)
        /\ \A l \in j .. k : inside(l)
        /\ \A l \in k .. j : inside(l)
    BY <1>2
  <2>2. j \in j .. k \/ j \in k .. j
    BY <2>1
  <2> QED  BY <2>1, <2>2
<1>5. k \in ScopeOf(p, k)
  <2>1. \A l \in k .. k : l = k
    OBVIOUS
  <2> QED  BY <1>1, <1>2, <2>1
<1>6. ASSUME InScope(p, k + 1) PROVE k + 1 \in ScopeOf(p, k)
  <2>1. (\A l \in k .. k + 1 : l = k \/ l = k + 1) /\ (\A l \in k + 1 .. k : FALSE)
    OBVIOUS
  <2> QED  BY <1>1, <1>2, <1>3, <1>6, <2>1
<1>7. ASSUME InScope(p, k + 1) PROVE ScopeOf(p, k + 1) = ScopeOf(p, k)
  <2>0. inside(k + 1)
    BY <1>3, <1>7
  <2>1. ASSUME NEW j \in 1 .. Len(p)
        PROVE  /\ (\A l \in j .. k : inside(l)) <=> (\A l \in j .. k + 1 : inside(l))
               /\ (\A l \in k .. j : inside(l)) <=> (\A l \in k + 1 .. j : inside(l))
    <3>1. ASSUME \A l \in j .. k : inside(l), NEW l \in j .. k + 1 PROVE inside(l)
      <4>1. l \in j .. k \/ l = k + 1
        OBVIOUS
      <4> QED  BY <2>0, <3>1, <4>1
    <3>2. (\A l \in j .. k + 1 : inside(l)) => (\A l \in j .. k : inside(l))
      <4>1. \A l \in j .. k : l \in j .. k + 1
        OBVIOUS
      <4> QED  BY <4>1
    <3>3. ASSUME \A l \in k + 1 .. j : inside(l), NEW l \in k .. j PROVE inside(l)
      <4>1. l \in k + 1 .. j \/ l = k
        OBVIOUS
      <4> QED  BY <1>1, <3>3, <4>1
    <3>4. (\A l \in k .. j : inside(l)) => (\A l \in k + 1 .. j : inside(l))
      <4>1. \A l \in k + 1 .. j : l \in k .. j
        OBVIOUS
      <4> QED  BY <4>1
    <3> QED  BY <3>1, <3>2, <3>3, <3>4
  <2>2. \A j : j \in ScopeOf(p, k + 1) <=> j \in ScopeOf(p, k)
    BY <1>2, <2>1
  <2> QED  BY <2>2
<1> QED  BY <1>3, <1>4, <1>5, <1>6, <1>7

\* An instruction in a scope is an unguarded operation with a result.
LEMMA InScopeFacts ==
  ASSUME NEW p, IsProgram(p), NEW k \in 1 .. Len(p), InScope(p, k)
  PROVE  /\ p[k] \in Items /\ WellFormed(p[k]) /\ p[k].kind = "op" /\ p[k].op # "st" /\ ~p[k].guarded
         /\ p[k].op \in PureResultBases /\ ~IsLabel(p[k])
         /\ DestinationRegister(p[k]) = p[k].dest
         /\ p[k].dest \in (DataRegs \cup PredRegs) \cap STRING
         /\ ItemSuccessors(p, k) = {k + 1} /\ NextPC(p, k) = k + 1
         /\ \A m \in DOMAIN p[k].args : p[k].args[m].reg # "" =>
              p[k].args[m].reg \in (DataRegs \cup PredRegs) \cap STRING /\ p[k].args[m].reg \in ReadRegisters(p[k])
<1> DEFINE i == p[k]
<1>1. ~IsLabel(i) /\ ~i.guarded /\ i.op \in PureResultBases
  BY DEF InScope, CSEBoundary, Boundary
<1>2. i \in Items /\ WellFormed(i) /\ i.kind = "op" /\ i.op # "st" /\ DestinationRegister(i) = i.dest
  BY <1>1, ProgramFacts, PureFacts
<1>3. i.dest \in (DataRegs \cup PredRegs) \cap STRING
  BY <1>2 DEF WellFormed, Items
<1>4. NextPC(p, k) = k + 1
  BY <1>2 DEF NextPC, IsBranch
<1>5. ItemSuccessors(p, k) = {k + 1}
  BY <1>1, <1>4 DEF ItemSuccessors
<1>6. ASSUME NEW m \in DOMAIN i.args, i.args[m].reg # ""
      PROVE  i.args[m].reg \in (DataRegs \cup PredRegs) \cap STRING /\ i.args[m].reg \in ReadRegisters(i)
  <2> DEFINE x == i.args[m]
  <2>1. x \in {Reg(r) : r \in DataRegs \cup PredRegs} \/ x = Imm(x.imm)
    BY <1>2 DEF WellFormed
  <2>2. x.reg \in STRING
    <3>1. i.args \in Seq([reg : STRING, imm : Int])
      BY <1>2 DEF Items
    <3>2. x \in [reg : STRING, imm : Int]
      <4> DEFINE T == [reg : STRING, imm : Int]
                 s == i.args
      <4>1. s \in Seq(T) /\ m \in DOMAIN s
        BY <3>1
      <4> HIDE DEF T, s
      <4>2. s[m] \in T
        BY <4>1
      <4> QED  BY <4>2 DEF s, T
    <3> QED  BY <3>2
  <2>3. x.reg \in ReadRegisters(i)
    BY <1>6 DEF ReadRegisters
  <2>4. x.reg \in DataRegs \cup PredRegs
    <3> HIDE DEF x
    <3>1. CASE x = Imm(x.imm)
      <4> DEFINE v == x.imm
      <4> HIDE DEF v
      <4>1. x = Imm(v)
        BY <3>1 DEF v
      <4>2. x.reg = ""
        BY <4>1 DEF Imm
      <4> QED  BY <1>6, <4>2 DEF x
    <3>2. CASE x \in {Reg(r) : r \in DataRegs \cup PredRegs}
      <4>1. PICK r \in DataRegs \cup PredRegs : x = Reg(r)
        BY <3>2
      <4> QED  BY <4>1 DEF Reg
    <3> QED  BY <2>1, <3>1, <3>2
  <2> QED  BY <2>2, <2>3, <2>4
<1> QED  BY <1>1, <1>2, <1>3, <1>4, <1>5, <1>6

Names == (DataRegs \cup PredRegs) \cap STRING

-----------------------------------------------------------------------------
(* What a register stands for. *)

Hop(A, c) == IF \E a \in A : a[1] = c THEN (CHOOSE a \in A : a[1] = c)[2] ELSE c
IsHops(A, r, n, h) == h = [k \in 0 .. n |-> IF k = 0 THEN r ELSE Hop(A, h[k-1])]

\* The definition, with the hops named.
LEMMA TargetByHops ==
  ASSUME NEW A, NEW r
  PROVE  AliasTarget(r, A) = (CHOOSE h : IsHops(A, r, Cardinality(A), h))[Cardinality(A)]
BY Zenon DEF AliasTarget, IsHops, Hop

\* A register without an alias stands for itself, one with an alias to a
\* register without an alias for that.
LEMMA AliasTargets ==
  ASSUME NEW N, NEW A, IsFiniteSet(A), \A x \in A : x[2] \in N, NEW r \in N
  PROVE  /\ AliasTarget(r, A) \in N
         /\ (\A x \in A : x[1] # r) => AliasTarget(r, A) = r
         /\ \A x \in A : x[1] = r /\ (\A y \in A : y[1] = r => y = x) /\ (\A y \in A : y[1] # x[2])
              => AliasTarget(r, A) = x[2]
<1> DEFINE n == Cardinality(A)
           F == [x \in Nat \X N |-> Hop(A, x[2])]
<1>1. n \in Nat
  BY FS_CardinalityType
<1>2. ASSUME NEW c \in N PROVE Hop(A, c) \in N
  <2>1. CASE \E a \in A : a[1] = c
    <3>1. (CHOOSE a \in A : a[1] = c) \in A
      BY <2>1, Zenon
    <3> QED  BY <2>1, <3>1 DEF Hop
  <2>2. CASE ~(\E a \in A : a[1] = c)
    BY <2>2 DEF Hop
  <2> QED  BY <2>1, <2>2
<1>3. F \in [Nat \X N -> N]
  BY <1>2
<1>4. PICK g : Recurs(N, r, F, n, g)
  <2> HIDE DEF F, n
  <2> QED  BY <1>1, <1>3, Recursion
<1>5. g \in [0 .. n -> N] /\ g[0] = r /\ \A k \in 1 .. n : g[k] = F[<<k, g[k-1]>>]
  BY <1>4 DEF Recurs
<1>6. ASSUME NEW k \in 1 .. n PROVE g[k] = Hop(A, g[k-1])
  <2>1. k - 1 \in 0 .. n /\ k \in Nat
    BY <1>1
  <2>2. <<k, g[k-1]>> \in Nat \X N
    BY <1>5, <2>1
  <2> DEFINE w == <<k, g[k-1]>>
  <2>3. F[w] = Hop(A, w[2]) /\ w[2] = g[k-1] /\ g[k] = F[w]
    BY <1>5, <2>2
  <2> HIDE DEF w, F
  <2> QED  BY <2>3
<1> HIDE DEF F
<1>7. IsHops(A, r, n, g)
  <2>1. ASSUME NEW k \in 0 .. n PROVE g[k] = IF k = 0 THEN r ELSE Hop(A, g[k-1])
    <3>1. k # 0 => k \in 1 .. n
      BY <1>1
    <3> QED  BY <1>5, <1>6, <3>1
  <2>2. g = [k \in 0 .. n |-> g[k]]
    BY <1>5
  <2> QED  BY <2>1, <2>2 DEF IsHops
<1> DEFINE f == CHOOSE h : IsHops(A, r, n, h)
<1>8. IsHops(A, r, n, f) /\ AliasTarget(r, A) = f[n]
  BY <1>7, TargetByHops
<1> HIDE DEF f
<1>9. f[0] = r /\ \A k \in 1 .. n : f[k] = Hop(A, f[k-1])
  <2>1. f = [k \in 0 .. n |-> IF k = 0 THEN r ELSE Hop(A, f[k-1])]
    BY <1>8 DEF IsHops
  <2>2. \A k \in 0 .. n : f[k] = IF k = 0 THEN r ELSE Hop(A, f[k-1])
    BY <2>1, Zenon
  <2>3. 0 \in 0 .. n /\ \A k \in 1 .. n : k \in 0 .. n /\ k # 0
    BY <1>1
  <2> QED  BY <2>2, <2>3
\* Whatever contains r and is not left by a hop contains the target.
<1>10. ASSUME NEW S, r \in S, \A c \in S : Hop(A, c) \in S PROVE f[n] \in S
  <2> DEFINE U == {k \in Nat : k <= n => f[k] \in S}
  <2>1. 0 \in U
    BY <1>9, <1>10
  <2>2. ASSUME NEW k \in Nat, k \in U PROVE k + 1 \in U
    <3>1. k + 1 <= n => k + 1 \in 1 .. n /\ k + 1 - 1 = k /\ k <= n
      BY <1>1
    <3> QED  BY <1>9, <1>10, <2>2, <3>1
  <2>3. Nat \subseteq U
    <3> HIDE DEF U
    <3> QED  BY <2>1, <2>2, InductionOnSet
  <2> QED  BY <1>1, <2>3
<1>11. AliasTarget(r, A) \in N
  BY <1>2, <1>8, <1>10
<1>12. ASSUME \A x \in A : x[1] # r PROVE AliasTarget(r, A) = r
  <2>1. Hop(A, r) = r
    BY <1>12 DEF Hop
  <2>2. f[n] \in {r}
    BY <1>10, <2>1
  <2> QED  BY <1>8, <2>2
<1>13. ASSUME NEW x \in A, x[1] = r, \A y \in A : y[1] = r => y = x, \A y \in A : y[1] # x[2]
       PROVE  AliasTarget(r, A) = x[2]
  <2>1. Hop(A, x[2]) = x[2]
    BY <1>13 DEF Hop
  <2>2. Hop(A, r) = x[2]
    <3>1. \E a \in A : a[1] = r
      BY <1>13
    <3>2. (CHOOSE a \in A : a[1] = r) \in A /\ (CHOOSE a \in A : a[1] = r)[1] = r
      BY <3>1, Zenon
    <3>3. (CHOOSE a \in A : a[1] = r) = x
      BY <1>13, <3>2
    <3> QED  BY <3>1, <3>3 DEF Hop
  <2>3. n # 0
    BY <1>13, FS_EmptySet
  <2> DEFINE U == {k \in Nat : k + 1 <= n => f[k + 1] = x[2]}
  <2>4. 0 \in U
    <3>1. 1 \in 1 .. n /\ 1 - 1 = 0
      BY <1>1, <2>3
    <3> QED  BY <1>9, <2>2, <3>1
  <2>5. ASSUME NEW k \in Nat, k \in U PROVE k + 1 \in U
    <3>1. k + 1 + 1 <= n => k + 1 + 1 \in 1 .. n /\ k + 1 + 1 - 1 = k + 1 /\ k + 1 <= n
      BY <1>1
    <3> QED  BY <1>9, <2>1, <2>5, <3>1
  <2>6. Nat \subseteq U
    <3> HIDE DEF U
    <3> QED  BY <2>4, <2>5, InductionOnSet
  <2>7. n - 1 \in Nat /\ n - 1 + 1 = n /\ n <= n
    BY <1>1, <2>3
  <2>8. f[n - 1 + 1] = x[2]
    BY <2>6, <2>7
  <2> QED  BY <1>8, <2>7, <2>8
<1> QED  BY <1>11, <1>12, <1>13

\* The item i is j with other operands, which are registers where j's are.
IsRewritten(j, A, i) ==
  /\ i \in Items /\ WellFormed(i)
  /\ i.kind = "op" /\ i.op = j.op /\ i.type = j.type /\ i.compare = j.compare /\ i.dest = j.dest
  /\ ~i.guarded /\ i.label = j.label
  /\ DOMAIN i.args = DOMAIN j.args
  /\ \A m \in DOMAIN i.args :
       /\ j.args[m].reg = "" => i.args[m] = j.args[m]
       /\ j.args[m].reg # "" => /\ i.args[m].reg = AliasTarget(j.args[m].reg, A)
                                /\ i.args[m].reg \in Names /\ i.args[m].reg # ""

\* Rewritten sources are operands again.
LEMMA RewrittenFacts ==
  ASSUME NEW p, IsProgram(p), NEW k \in 1 .. Len(p), InScope(p, k),
         NEW A, IsFiniteSet(A), \A x \in A : x[2] \in Names
  PROVE  IsRewritten(p[k], A, RewriteSources(p[k], A))
<1> DEFINE j == p[k]
           i == RewriteSources(j, A)
           N == Names
           args == [m \in DOMAIN j.args |-> IF j.args[m].reg = "" THEN j.args[m]
                                            ELSE Reg(AliasTarget(j.args[m].reg, A))]
           T == [reg : STRING, imm : Int]
<1>1. /\ j \in Items /\ WellFormed(j) /\ j.kind = "op" /\ j.op # "st" /\ ~j.guarded
      /\ \A m \in DOMAIN j.args : j.args[m].reg # "" => j.args[m].reg \in N
  BY InScopeFacts DEF Names
<1>2. i = [j EXCEPT !.args = args]
  BY DEF RewriteSources
<1> HIDE DEF i
<1>3. j.args \in Seq(T)
  BY <1>1 DEF Items
<1>4. ASSUME NEW m \in DOMAIN j.args, j.args[m].reg # ""
      PROVE  AliasTarget(j.args[m].reg, A) \in N
  <2>1. j.args[m].reg \in N
    BY <1>1, <1>4
  <2> HIDE DEF j, N
  <2> QED  BY <2>1, AliasTargets DEF N
<1>5. args \in Seq(T) /\ Len(args) = Len(j.args) /\ DOMAIN args = DOMAIN j.args
  <2> DEFINE s == j.args
  <2>1. s \in Seq(T) /\ Len(s) \in Nat /\ DOMAIN s = 1 .. Len(s)
    BY <1>3
  <2>2. ASSUME NEW m \in DOMAIN s PROVE args[m] \in T
    <3>1. s[m] \in T
      <4> HIDE DEF T, s
      <4> QED  BY <2>1
    <3>2. CASE s[m].reg = ""
      BY <3>1, <3>2
    <3>3. CASE s[m].reg # ""
      <4> DEFINE r == AliasTarget(s[m].reg, A)
      <4>1. args[m] = Reg(r) /\ r \in STRING
        BY <1>4, <3>3 DEF Names
      <4> HIDE DEF r, args
      <4>2. Reg(r) \in T
        BY <4>1 DEF Reg
      <4> QED  BY <4>1, <4>2
    <3> QED  BY <3>2, <3>3
  <2>3. DOMAIN args = DOMAIN s
    OBVIOUS
  <2>4. args = [m \in 1 .. Len(s) |-> args[m]]
    BY <2>1, <2>3
  <2> HIDE DEF args, T, s
  <2>5. args \in Seq(T) /\ Len(args) = Len(s)
    BY <2>1, <2>2, <2>3, <2>4
  <2> QED  BY <2>3, <2>5 DEF s
<1>6. ASSUME NEW m \in DOMAIN j.args
      PROVE  /\ j.args[m].reg = "" => args[m] = j.args[m]
             /\ j.args[m].reg # "" => args[m] = Reg(AliasTarget(j.args[m].reg, A))
  OBVIOUS
<1> HIDE DEF args
<1>7. /\ i.args = args /\ i.kind = "op" /\ i.op = j.op /\ i.type = j.type /\ i.dest = j.dest
      /\ ~i.guarded /\ i.guard = j.guard /\ i.label = j.label /\ i.negated = j.negated /\ i.compare = j.compare
  BY <1>1, <1>2 DEF Items
<1>8. i \in Items
  <2>1. \A base \in {"bra", "ret"} : i.kind = base <=> i.op = base
    BY <1>1, <1>7 DEF Items
  <2>2. i \in [kind: {"label", "bra", "ret", "op"}, label: STRING, op: STRING, type: STRING, compare: STRING, guard: STRING,
          guarded: BOOLEAN, negated: BOOLEAN, dest: STRING, args: Seq([reg: STRING, imm: Int])]
    <3> HIDE DEF j
    <3> QED  BY <1>1, <1>2, <1>5 DEF Items
  <2> QED  BY <2>1, <2>2 DEF Items
<1>9. ASSUME NEW m \in DOMAIN i.args
      PROVE  /\ j.args[m].reg = "" => i.args[m] = j.args[m]
             /\ j.args[m].reg # "" => /\ i.args[m].reg = AliasTarget(j.args[m].reg, A)
                                      /\ i.args[m].reg \in N /\ i.args[m].reg # ""
             /\ i.args[m] \in {Reg(r) : r \in DataRegs \cup PredRegs} \cup {Imm(i.args[m].imm)}
  <2>0. m \in DOMAIN j.args
    BY <1>5, <1>7
  <2>1. CASE j.args[m].reg = ""
    <3>1. i.args[m] = j.args[m]
      BY <1>6, <1>7, <2>0, <2>1
    <3>2. j.args[m] \in {Reg(r) : r \in DataRegs \cup PredRegs} \cup {Imm(j.args[m].imm)}
      BY <1>1, <2>0 DEF WellFormed
    <3> QED  BY <2>1, <3>1, <3>2
  <2>2. CASE j.args[m].reg # ""
    <3> DEFINE r == AliasTarget(j.args[m].reg, A)
    <3>1. i.args[m] = Reg(r) /\ r \in N
      BY <1>4, <1>6, <1>7, <2>0, <2>2
    <3> HIDE DEF r
    <3>2. r # "" /\ r \in DataRegs \cup PredRegs
      BY <3>1, RegistersAssumption DEF Names
    <3>3. Reg(r).reg = r
      BY DEF Reg
    <3> QED  BY <2>2, <3>1, <3>2, <3>3 DEF r
  <2> QED  BY <2>1, <2>2
<1>10. WellFormed(i)
  <2>1. /\ j.kind = "op" <=> j.op \in DestinationBases \cup {"fma", "st"}
        /\ Len(j.args) = Arity(j.op)
        /\ j.dest \in DataRegs \cup PredRegs
    BY <1>1 DEF WellFormed
  <2>2. Len(i.args) = Arity(i.op)
    BY <1>5, <1>7, <2>1
  <2> HIDE DEF j
  <2> QED  BY <1>1, <1>7, <1>9, <2>1, <2>2 DEF WellFormed
<1>11. DOMAIN i.args = DOMAIN j.args
  BY <1>5, <1>7
<1>12. \A m \in DOMAIN i.args :
         /\ j.args[m].reg = "" => i.args[m] = j.args[m]
         /\ j.args[m].reg # "" => /\ i.args[m].reg = AliasTarget(j.args[m].reg, A)
                                  /\ i.args[m].reg \in Names /\ i.args[m].reg # ""
  BY <1>9
<1> HIDE DEF j, N
<1>13. IsRewritten(j, A, i)
  BY <1>7, <1>8, <1>10, <1>11, <1>12 DEF IsRewritten
<1> QED  BY <1>13 DEF i, j

-----------------------------------------------------------------------------
(* The tables of the sweep. *)

NothingShared == [exprs |-> {}, aliases |-> {}, items |-> << >>]
Shared(p, k, s) ==
  IF IsLabel(p[k]) \/ CSEBoundary(p[k])
  THEN [exprs |-> {}, aliases |-> {}, items |-> Append(s.items, p[k])] ELSE CSEStep(p, k, s)
IsSharing(p, n, h) == h = [k \in 0 .. n |-> IF k = 0 THEN NothingShared ELSE Shared(p, k, h[k-1])]

\* The definition, with the tables named.
LEMMA SharingByTable ==
  ASSUME NEW p
  PROVE  ShareExpressions(p) = (CHOOSE h : IsSharing(p, Len(p), h))[Len(p)].items
BY Zenon DEF ShareExpressions, IsSharing, Shared, NothingShared

\* There are such tables.
LEMMA SharingExists ==
  ASSUME NEW p, NEW n \in Nat
  PROVE  \E h : IsSharing(p, n, h)
<1> DEFINE T == {m \in Nat : \E h : IsSharing(p, m, h)}
<1>1. 0 \in T
  <2> DEFINE h == [k \in 0 .. 0 |-> NothingShared]
  <2>1. h = [k \in 0 .. 0 |-> IF k = 0 THEN NothingShared ELSE Shared(p, k, h[k-1])]
    OBVIOUS
  <2> HIDE DEF h
  <2>2. IsSharing(p, 0, h)
    BY <2>1 DEF IsSharing
  <2> QED  BY <2>2
<1>2. ASSUME NEW m \in Nat, m \in T PROVE m + 1 \in T
  <2>1. PICK h : IsSharing(p, m, h)
    BY <1>2
  <2>2. h = [k \in 0 .. m |-> IF k = 0 THEN NothingShared ELSE Shared(p, k, h[k-1])]
    BY <2>1 DEF IsSharing
  <2> DEFINE i == [k \in 0 .. m + 1 |-> IF k = m + 1 THEN Shared(p, m + 1, h[m]) ELSE h[k]]
  <2>3. ASSUME NEW k \in 0 .. m + 1
        PROVE  i[k] = IF k = 0 THEN NothingShared ELSE Shared(p, k, i[k-1])
    <3>1. CASE k = m + 1
      <4>1. k - 1 = m /\ m \in 0 .. m + 1 /\ m # m + 1 /\ k # 0
        BY <3>1
      <4>2. i[k] = Shared(p, m + 1, h[m]) /\ i[m] = h[m]
        BY <3>1, <4>1
      <4> HIDE DEF i
      <4> QED  BY <3>1, <4>1, <4>2
    <3>2. CASE k # m + 1
      <4>1. k \in 0 .. m /\ i[k] = h[k]
        BY <3>2
      <4>2. k # 0 => k - 1 \in 0 .. m + 1 /\ k - 1 # m + 1
        BY <3>2
      <4>3. k # 0 => i[k-1] = h[k-1]
        BY <4>2
      <4> HIDE DEF i
      <4> QED  BY <2>2, <4>1, <4>3
    <3> QED  BY <3>1, <3>2
  <2>4. i = [k \in 0 .. m + 1 |-> i[k]]
    OBVIOUS
  <2> HIDE DEF i
  <2>5. IsSharing(p, m + 1, i)
    BY <2>3, <2>4 DEF IsSharing
  <2> QED  BY <2>5
<1>3. Nat \subseteq T
  <2> HIDE DEF T
  <2> QED  BY <1>1, <1>2, InductionOnSet
<1> QED  BY <1>3

StillAliases(p, k, s) == {a \in s.aliases : a[1] # p[k].dest}
Prior(p, k, s) ==
  {e \in Surviving(s.exprs, p[k].dest) : e.key = ExpressionKey(RewriteSources(p[k], s.aliases))}
SharedResult(p, k, s) == AliasTarget((CHOOSE e \in Prior(p, k, s) : TRUE).dest, StillAliases(p, k, s))
\* The instruction is dropped, and its result taken from an earlier one.
Shares(p, k, s) ==
  /\ p[k].dest \notin OutsideReads(p, k) /\ Prior(p, k, s) # {}
  /\ ~AliasReadLate(p, k, p[k].dest, SharedResult(p, k, s))

\* One instruction of a scope.
LEMMA SharedStep ==
  ASSUME NEW p, IsProgram(p), NEW k \in 1 .. Len(p), InScope(p, k), NEW s,
         NEW t, t = Shared(p, k, s), NEW i, i = RewriteSources(p[k], s.aliases)
  PROVE  /\ Shares(p, k, s) => /\ t.exprs = Surviving(s.exprs, p[k].dest) /\ t.items = s.items
                               /\ t.aliases = StillAliases(p, k, s) \cup {<<p[k].dest, SharedResult(p, k, s)>>}
         /\ ~Shares(p, k, s) => /\ t.aliases = StillAliases(p, k, s) /\ t.items = Append(s.items, i)
                                /\ t.exprs \subseteq Surviving(s.exprs, p[k].dest)
                                                       \cup {[key |-> ExpressionKey(i), dest |-> p[k].dest]}
<1>1. t = CSEStep(p, k, s)
  BY DEF Shared, InScope
<1>2. i.dest = p[k].dest
  <2>1. p[k] \in Items
    BY ProgramFacts
  <2> QED  BY <2>1 DEF RewriteSources, Items
<1> DEFINE d == p[k].dest
           exprs == Surviving(s.exprs, d)
           aliases == StillAliases(p, k, s)
           prior == Prior(p, k, s)
           result == SharedResult(p, k, s)
           entry == [key |-> ExpressionKey(i), dest |-> d]
           keep(e) == [exprs |-> e, aliases |-> aliases, items |-> Append(s.items, i)]
<1>3. t = IF d \in OutsideReads(p, k) THEN keep(exprs)
          ELSE IF prior = {} \/ AliasReadLate(p, k, d, result) THEN keep((exprs \ prior) \cup {entry})
          ELSE [exprs |-> exprs, aliases |-> aliases \cup {<<d, result>>}, items |-> s.items]
  <2>1. RewriteSources(p[k], s.aliases).dest = p[k].dest
    BY <1>2
  <2> QED  BY <1>1, <2>1, Zenon DEF CSEStep, StillAliases, Prior, SharedResult
<1>4. Shares(p, k, s) <=> d \notin OutsideReads(p, k) /\ prior # {} /\ ~AliasReadLate(p, k, d, result)
  BY DEF Shares
<1> HIDE DEF d, exprs, aliases, prior, result
<1>5. CASE Shares(p, k, s)
  <2>1. t = [exprs |-> exprs, aliases |-> aliases \cup {<<d, result>>}, items |-> s.items]
    BY <1>3, <1>4, <1>5
  <2>2. t.exprs = exprs /\ t.aliases = aliases \cup {<<d, result>>} /\ t.items = s.items
    BY <2>1
  <2> QED  BY <1>5, <2>2 DEF d, exprs, aliases, result
<1>6. CASE ~Shares(p, k, s)
  <2>1. t = keep(exprs) \/ t = keep((exprs \ prior) \cup {entry})
    BY <1>3, <1>4, <1>6
  <2> HIDE DEF entry
  <2>2. t.aliases = aliases /\ t.items = Append(s.items, i) /\ t.exprs \subseteq exprs \cup {entry}
    BY <2>1
  <2> QED  BY <1>6, <2>2 DEF d, exprs, aliases, entry
<1> QED  BY <1>5, <1>6

-----------------------------------------------------------------------------
(* What the tables are like, whatever lane comes by. *)

\* r is read later in the scope of k.
ReadAfter(p, k, r) == \E l \in ScopeOf(p, k) : l > k /\ r \in ReadRegisters(p[l])
\* Nothing behind the scope of k reads what r holds at its end.
EndsDead(p, k, r) == \A j \in ScopeOf(p, k) : j + 1 \notin ScopeOf(p, k) => j + 1 \notin LiveBefore(p, r)

\* The register of an expression that reads it holds another value by now: the
\* expression is not met before it is forgotten.
ReadsItsOwn(e) == \E m \in DOMAIN e.key.args : e.key.args[m].reg = e.dest
NotMet(p, k, e) ==
  \A l \in ScopeOf(p, k) : l > k /\ MetAgain(p[l], e.key, e.dest) =>
    \E j \in ScopeOf(p, k) : k < j /\ j <= l /\ p[j].dest = e.dest

\* The state c of the sweep behind item k: an alias that is still to be read
\* stands for a register that has none itself, and so does what is at hand.
Standing(p, k, c) ==
  /\ IsFiniteSet(c.aliases)
  /\ \A x \in c.aliases : x[1] \in Names /\ x[2] \in Names /\ x = <<x[1], x[2]>>
  /\ \A x, y \in c.aliases : x[1] = y[1] => x = y
  /\ \A x \in c.aliases : InScope(p, k) /\ ~AliasReadLate(p, k, x[1], x[2]) /\ EndsDead(p, k, x[1])
  /\ \A x \in c.aliases : ReadAfter(p, k, x[1]) => \A y \in c.aliases : y[1] # x[2]
  /\ \A e \in c.exprs : /\ InScope(p, k) /\ NotMet(p, k, e) /\ e.dest \in Names
                        /\ \A m \in DOMAIN e.key.args : e.key.args[m].reg = "" \/ e.key.args[m].reg \in Names
                        /\ \A x \in c.aliases :
                             /\ x[1] # e.dest
                             /\ ReadsItsOwn(e) /\ ReadAfter(p, k, x[1]) => x[2] # e.dest
  /\ \A e, f \in c.exprs : e.dest = f.dest => e = f

\* What was not read late is not from the next instruction on.
LEMMA LateStays ==
  ASSUME NEW p, IsProgram(p), NEW j \in 1 .. Len(p), NEW k, k = j + 1, InScope(p, j), InScope(p, k), NEW r, NEW t
  PROVE  /\ ~AliasReadLate(p, j, r, t) => ~AliasReadLate(p, k, r, t)
         /\ ~AliasReadLate(p, j, r, t) /\ p[k].dest = t => ~ReadAfter(p, k, r) /\ r \notin ReadRegisters(p[k])
         /\ EndsDead(p, j, r) => EndsDead(p, k, r)
         /\ ReadAfter(p, k, r) \/ r \in ReadRegisters(p[k]) => ReadAfter(p, j, r)
<1>1. k \in 1 .. Len(p) /\ Len(p) \in Nat
  BY ProgramFacts DEF InScope
<1>2. ScopeOf(p, k) = ScopeOf(p, j) /\ k \in ScopeOf(p, j) /\ \A l \in ScopeOf(p, j) : l \in Nat
  BY <1>1, ScopeFacts
<1>3. DestinationRegister(p[k]) = p[k].dest
  BY <1>1, InScopeFacts
<1>4. k > j /\ \A l \in ScopeOf(p, j) : l > k => l > j /\ l >= k
  BY <1>1, <1>2
<1>5. ~AliasReadLate(p, j, r, t) => ~AliasReadLate(p, k, r, t)
  BY <1>2, <1>4 DEF AliasReadLate
<1>6. ASSUME ~AliasReadLate(p, j, r, t), p[k].dest = t PROVE ~ReadAfter(p, k, r) /\ r \notin ReadRegisters(p[k])
  <2>1. \A l \in ScopeOf(p, j) : l > j /\ k <= l => r \notin ReadRegisters(p[l])
    BY <1>2, <1>3, <1>4, <1>6 DEF AliasReadLate
  <2>2. k <= k /\ \A l \in ScopeOf(p, j) : l > k => k <= l
    BY <1>1, <1>2
  <2> QED  BY <1>2, <1>4, <2>1, <2>2 DEF ReadAfter
<1>7. EndsDead(p, j, r) => EndsDead(p, k, r)
  BY <1>2 DEF EndsDead
<1>8. ReadAfter(p, k, r) \/ r \in ReadRegisters(p[k]) => ReadAfter(p, j, r)
  BY <1>2, <1>4 DEF ReadAfter
<1> QED  BY <1>5, <1>6, <1>7, <1>8

\* What is read is named, before and behind the table.
LEMMA RewrittenNames ==
  ASSUME NEW p, IsProgram(p), NEW k \in 1 .. Len(p), InScope(p, k),
         NEW A, IsFiniteSet(A), \A x \in A : x[1] \in Names /\ x[2] \in Names /\ x = <<x[1], x[2]>>
  PROVE  \A m \in DOMAIN RewriteSources(p[k], A).args :
           RewriteSources(p[k], A).args[m].reg = "" \/ RewriteSources(p[k], A).args[m].reg \in Names
<1> DEFINE i == RewriteSources(p[k], A)
<1>1. IsRewritten(p[k], A, i)
  BY RewrittenFacts
<1> HIDE DEF i
<1>2. \A m \in DOMAIN i.args : i.args[m].reg = "" \/ i.args[m].reg \in Names
  BY <1>1 DEF IsRewritten
<1> QED  BY <1>2 DEF i

\* Register c is read by item k for r: it is r, or r has an alias, which stands.
ReadFor(p, k, s, r, c) ==
  /\ r \in Names /\ c \in Names /\ r \in ReadRegisters(p[k])
  /\ \/ c = r /\ \A x \in s.aliases : x[1] # r
     \/ \E x \in s.aliases : /\ x[1] = r /\ x[2] = c /\ c # p[k].dest
                             /\ k - 1 \in 1 .. Len(p) /\ InScope(p, k - 1) /\ ReadAfter(p, k - 1, r)

LEMMA AliasFollowed ==
  ASSUME NEW p, IsProgram(p), NEW k \in 1 .. Len(p), InScope(p, k), NEW s, Standing(p, k - 1, s),
         NEW r \in Names, r \in ReadRegisters(p[k])
  PROVE  ReadFor(p, k, s, r, AliasTarget(r, s.aliases))
<1> DEFINE A == s.aliases
           N == Names
           o == k - 1
           c == AliasTarget(r, A)
<1>1. /\ IsFiniteSet(A)
      /\ \A x \in A : x[1] \in N /\ x[2] \in N
      /\ \A x, y \in A : x[1] = y[1] => x = y
      /\ \A x \in A : InScope(p, o) /\ ~AliasReadLate(p, o, x[1], x[2])
      /\ \A x \in A : ReadAfter(p, o, x[1]) => \A y \in A : y[1] # x[2]
  BY DEF Standing
<1>2. IsFiniteSet(A) /\ (\A x \in A : x[2] \in N) /\ r \in N
  BY <1>1
<1>3. Len(p) \in Nat
  BY ProgramFacts
<1> HIDE DEF A, N
<1>4. c \in N
  BY <1>2, AliasTargets
<1>5. CASE \A x \in A : x[1] # r
  <2>1. AliasTarget(r, A) = r
    BY <1>2, <1>5, AliasTargets
  <2> QED  BY <1>4, <1>5, <2>1 DEF A, N, ReadFor
<1>6. CASE \E x \in A : x[1] = r
  <2>1. PICK x \in A : x[1] = r
    BY <1>6
  <2>2. \A y \in A : y[1] = r => y = x
    BY <1>1, <2>1
  <2> DEFINE z == x[2]
  <2>3. InScope(p, o) /\ ~AliasReadLate(p, o, r, z)
    BY <1>1, <2>1
  <2>4. o \in 1 .. Len(p) /\ k = o + 1
    BY <1>3, <2>3 DEF InScope
  <2> HIDE DEF z, o, c
  <2>5. /\ p[k].dest = z => r \notin ReadRegisters(p[k])
        /\ ReadAfter(p, o, r)
    BY <2>3, <2>4, LateStays
  <2>6. \A y \in A : y[1] # z
    BY <1>1, <2>1, <2>5 DEF z
  <2>7. \A w \in A : w[1] = r /\ (\A y \in A : y[1] = r => y = w) /\ (\A y \in A : y[1] # w[2])
                       => AliasTarget(r, A) = w[2]
    BY <1>2, AliasTargets
  <2>8. c = z
    BY <2>1, <2>2, <2>6, <2>7 DEF z, c
  <2> QED  BY <1>4, <2>1, <2>3, <2>4, <2>5, <2>8 DEF A, N, o, z, c, ReadFor
<1> QED  BY <1>5, <1>6

\* A rewritten operand is read for what it was.
LEMMA RewrittenArguments ==
  ASSUME NEW p, IsProgram(p), NEW k \in 1 .. Len(p), InScope(p, k), NEW s, Standing(p, k - 1, s),
         NEW i, i = RewriteSources(p[k], s.aliases)
  PROVE  /\ IsRewritten(p[k], s.aliases, i)
         /\ \A m \in DOMAIN p[k].args : p[k].args[m].reg # "" => ReadFor(p, k, s, p[k].args[m].reg, i.args[m].reg)
<1> DEFINE A == s.aliases
<1>1. IsFiniteSet(A) /\ \A x \in A : x[2] \in Names
  BY DEF Standing
<1>2. IsRewritten(p[k], A, i)
  <2> HIDE DEF A
  <2>1. IsRewritten(p[k], A, RewriteSources(p[k], A))
    BY <1>1, RewrittenFacts
  <2> QED  BY <2>1 DEF A
<1>3. \A m \in DOMAIN p[k].args : p[k].args[m].reg # "" =>
         p[k].args[m].reg \in Names /\ p[k].args[m].reg \in ReadRegisters(p[k])
  BY InScopeFacts DEF Names
<1>4. \A m \in DOMAIN p[k].args : p[k].args[m].reg # "" => i.args[m].reg = AliasTarget(p[k].args[m].reg, A)
  BY <1>2 DEF IsRewritten
<1>5. \A r \in Names : r \in ReadRegisters(p[k]) => ReadFor(p, k, s, r, AliasTarget(r, A))
  BY AliasFollowed
<1> QED  BY <1>2, <1>3, <1>4, <1>5

\* Met at the next instruction, its register is written there.
LEMMA MetWhereWritten ==
  ASSUME NEW p, IsProgram(p), NEW o \in 1 .. Len(p), NEW k, k = o + 1, InScope(p, o), InScope(p, k), NEW e,
         NotMet(p, o, e), MetAgain(p[k], e.key, e.dest)
  PROVE  p[k].dest = e.dest
<1>1. k \in ScopeOf(p, o) /\ \A l \in ScopeOf(p, o) : l \in Nat
  BY ScopeFacts
<1>2. o \in Nat /\ k > o
  BY ProgramFacts
<1>3. PICK j \in ScopeOf(p, o) : o < j /\ j <= k /\ p[j].dest = e.dest
  BY <1>1, <1>2 DEF NotMet
<1>4. j = k
  <2>1. j \in Nat
    BY <1>1, Zenon
  <2>2. o < j /\ j <= k
    BY <1>3, Zenon
  <2>3. k = o + 1
    OBVIOUS
  <2> QED  BY <1>2, <2>1, <2>2, <2>3
<1> QED  BY <1>3, <1>4

\* What is taken instead of a dropped result is at hand, under the key the
\* instruction has, and not out of date.
LEMMA SharedResultFacts ==
  ASSUME NEW p, IsProgram(p), NEW k \in 1 .. Len(p), InScope(p, k), NEW s, Standing(p, k - 1, s),
         Prior(p, k, s) # {}
  PROVE  \E e \in s.exprs :
           /\ SharedResult(p, k, s) = e.dest /\ e.dest # p[k].dest /\ e.dest \in Names
           /\ e.key = ExpressionKey(RewriteSources(p[k], s.aliases))
           /\ (\A x \in s.aliases : x[1] # e.dest) /\ ~ReadsItsOwn(e)
<1> DEFINE e == CHOOSE c \in Prior(p, k, s) : TRUE
           A == StillAliases(p, k, s)
<1>1. e \in Prior(p, k, s)
  BY Zenon
<1>2. SharedResult(p, k, s) = AliasTarget(e.dest, A)
  BY DEF SharedResult
<1> HIDE DEF e
<1>3. /\ e \in s.exprs /\ e.dest # p[k].dest
      /\ e.key = ExpressionKey(RewriteSources(p[k], s.aliases))
  BY <1>1 DEF Prior, Surviving
<1>4. e.dest \in Names /\ (\A x \in s.aliases : x[1] # e.dest)
  BY <1>3 DEF Standing
<1>5. IsFiniteSet(A) /\ A \subseteq s.aliases /\ \A x \in A : x[2] \in Names
  <2>1. A \subseteq s.aliases
    BY DEF StillAliases
  <2>2. IsFiniteSet(s.aliases) /\ \A x \in s.aliases : x[2] \in Names
    BY DEF Standing
  <2> QED  BY <2>1, <2>2, FS_Subset
<1>6. AliasTarget(e.dest, A) = e.dest
  <2>1. \A x \in A : x[1] # e.dest
    BY <1>4, <1>5
  <2> DEFINE N == Names
             r == e.dest
  <2>2. IsFiniteSet(A) /\ (\A x \in A : x[2] \in N) /\ r \in N /\ \A x \in A : x[1] # r
    BY <1>4, <1>5, <2>1
  <2> HIDE DEF A, N, r
  <2>3. AliasTarget(r, A) = r
    BY <2>2, AliasTargets
  <2> QED  BY <2>3 DEF r
<1>7. ~ReadsItsOwn(e)
  <2> HIDE DEF A
  <2>1. SUFFICES ASSUME ReadsItsOwn(e) PROVE FALSE
    OBVIOUS
  <2> DEFINE i == RewriteSources(p[k], s.aliases)
  <2>2. /\ IsRewritten(p[k], s.aliases, i)
        /\ \A m \in DOMAIN p[k].args : p[k].args[m].reg # "" => ReadFor(p, k, s, p[k].args[m].reg, i.args[m].reg)
    BY RewrittenArguments
  <2>3. e.key.args = i.args /\ e.key.op = i.op /\ e.key.type = i.type
    BY <1>3 DEF ExpressionKey
  <2>4. PICK m \in DOMAIN i.args : i.args[m].reg = e.dest
    BY <2>1, <2>3 DEF ReadsItsOwn
  <2>5. m \in DOMAIN p[k].args /\ e.dest # ""
    BY <1>4, <2>2, <2>4, RegistersAssumption DEF IsRewritten, Names
  <2>6. p[k].args[m].reg # "" /\ p[k].op = i.op /\ p[k].type = i.type
    BY <2>2, <2>4, <2>5 DEF IsRewritten
  <2>7. InScope(p, k - 1) /\ NotMet(p, k - 1, e)
    BY <1>3 DEF Standing
  <2> DEFINE o == k - 1
             r == p[k].args[m].reg
             c == i.args[m].reg
  <2>8. ReadFor(p, k, s, r, c)
    BY <2>2, <2>5, <2>6
  <2>9. c = r
    <3>1. \A x \in s.aliases : ReadAfter(p, o, x[1]) => x[2] # e.dest
      BY <1>3, <2>1 DEF Standing
    <3>2. c = e.dest
      BY <2>4
    <3>3. c = r \/ \E x \in s.aliases : x[1] = r /\ x[2] = c /\ ReadAfter(p, o, r)
      <4> HIDE DEF c, r
      <4> QED  BY <2>8 DEF ReadFor
    <3> HIDE DEF o, r, i, c
    <3> QED  BY <3>1, <3>2, <3>3
  <2>10. o \in 1 .. Len(p) /\ k = o + 1 /\ InScope(p, o) /\ InScope(p, o + 1) /\ NotMet(p, o, e) /\ Len(p) \in Nat
    BY <2>7, ProgramFacts DEF InScope
  <2>11. MetAgain(p[k], e.key, e.dest)
    <3> HIDE DEF i
    <3> QED  BY <2>3, <2>4, <2>5, <2>6, <2>9 DEF MetAgain
  <2> HIDE DEF o
  <2>12. p[k].dest = e.dest
    BY <2>10, <2>11, MetWhereWritten
  <2> QED  BY <1>3, <2>12
<1> QED  BY <1>2, <1>3, <1>4, <1>6, <1>7

\* The sweep keeps its tables so.
LEMMA StandingGoesOn ==
  ASSUME NEW p, IsProgram(p), CSEAssumes(p), NEW k \in 1 .. Len(p), NEW s, Standing(p, k - 1, s),
         NEW t, t = Shared(p, k, s)
  PROVE  Standing(p, k, t)
<1>1. CASE ~InScope(p, k)
  <2>1. t.exprs = {} /\ t.aliases = {}
    BY <1>1 DEF InScope, Shared
  <2> QED  BY <2>1, FS_EmptySet DEF Standing
<1>2. CASE InScope(p, k)
  <2> DEFINE d == p[k].dest
             A == StillAliases(p, k, s)
             i == RewriteSources(p[k], s.aliases)
             r == SharedResult(p, k, s)
             entry == [key |-> ExpressionKey(i), dest |-> d]
             j == k - 1
  <2>1. /\ IsFiniteSet(s.aliases)
        /\ \A x \in s.aliases : x[1] \in Names /\ x[2] \in Names /\ x = <<x[1], x[2]>>
        /\ \A x, y \in s.aliases : x[1] = y[1] => x = y
        /\ \A x \in s.aliases : InScope(p, j) /\ ~AliasReadLate(p, j, x[1], x[2]) /\ EndsDead(p, j, x[1])
        /\ \A x \in s.aliases : ReadAfter(p, j, x[1]) => \A y \in s.aliases : y[1] # x[2]
        /\ \A e \in s.exprs : /\ InScope(p, j) /\ NotMet(p, j, e) /\ e.dest \in Names
                              /\ \A m \in DOMAIN e.key.args : e.key.args[m].reg = "" \/ e.key.args[m].reg \in Names
                              /\ \A x \in s.aliases :
                                   /\ x[1] # e.dest
                                   /\ ReadsItsOwn(e) /\ ReadAfter(p, j, x[1]) => x[2] # e.dest
        /\ \A e, f \in s.exprs : e.dest = f.dest => e = f
    BY DEF Standing
  <2>2. A \subseteq s.aliases /\ IsFiniteSet(A) /\ \A x \in A : x[1] # d
    <3>1. A \subseteq s.aliases /\ \A x \in A : x[1] # d
      BY DEF StillAliases
    <3> QED  BY <2>1, <3>1, FS_Subset
  <2>3. d \in Names
    BY <1>2, InScopeFacts DEF Names
  <2>4. /\ Shares(p, k, s) => t.exprs = Surviving(s.exprs, d) /\ t.aliases = A \cup {<<d, r>>}
        /\ ~Shares(p, k, s) => t.aliases = A /\ t.exprs \subseteq Surviving(s.exprs, d) \cup {entry}
    BY <1>2, SharedStep
  <2>5. Surviving(s.exprs, d) \subseteq s.exprs /\ \A e \in Surviving(s.exprs, d) : e.dest # d
    BY DEF Surviving
  <2>6. entry.dest = d /\ \A m \in DOMAIN entry.key.args : entry.key.args[m].reg = "" \/ entry.key.args[m].reg \in Names
    <3>1. \A m \in DOMAIN i.args : i.args[m].reg = "" \/ i.args[m].reg \in Names
      BY <1>2, <2>1, RewrittenNames
    <3>2. entry.key.args = i.args
      BY DEF ExpressionKey
    <3> QED  BY <3>1, <3>2
  <2>7. ASSUME NEW x \in s.aliases
        PROVE  /\ ~AliasReadLate(p, k, x[1], x[2]) /\ EndsDead(p, k, x[1])
               /\ ReadAfter(p, k, x[1]) => ReadAfter(p, j, x[1]) /\ x[2] # d
    <3>1. InScope(p, j) /\ ~AliasReadLate(p, j, x[1], x[2]) /\ EndsDead(p, j, x[1])
      BY <2>1
    <3>2. j \in 1 .. Len(p) /\ k = j + 1
      BY <3>1 DEF InScope
    <3> HIDE DEF j
    <3> QED  BY <1>2, <3>1, <3>2, LateStays
  <2>8. ASSUME NEW e \in Surviving(s.exprs, d) PROVE NotMet(p, k, e)
    <3>1. InScope(p, j) /\ NotMet(p, j, e) /\ e.dest # d
      BY <2>1, <2>5
    <3>2. j \in 1 .. Len(p) /\ k = j + 1
      BY <3>1 DEF InScope
    <3> HIDE DEF j
    <3>3. ScopeOf(p, k) = ScopeOf(p, j) /\ ScopeOf(p, j) \subseteq {l \in 1 .. Len(p) : InScope(p, l)}
      BY <1>2, <3>1, <3>2, ScopeFacts
    <3>4. ASSUME NEW l \in ScopeOf(p, k), l > k, MetAgain(p[l], e.key, e.dest)
          PROVE  \E o \in ScopeOf(p, k) : k < o /\ o <= l /\ p[o].dest = e.dest
      <4>1. l \in ScopeOf(p, j) /\ l > j
        BY <3>2, <3>3, <3>4
      <4>2. PICK o \in ScopeOf(p, j) : j < o /\ o <= l /\ p[o].dest = e.dest
        BY <3>1, <3>4, <4>1 DEF NotMet
      <4>3. o # k /\ o \in Nat
        BY <3>1, <3>3, <4>2
      <4> QED  BY <3>2, <3>3, <4>2, <4>3
    <3> QED  BY <3>4 DEF NotMet
  <2>9. NotMet(p, k, entry)
    <3>1. /\ IsRewritten(p[k], s.aliases, i)
          /\ \A m \in DOMAIN p[k].args : p[k].args[m].reg # "" => ReadFor(p, k, s, p[k].args[m].reg, i.args[m].reg)
      BY <1>2, RewrittenArguments
    <3> DEFINE key == ExpressionKey(p[k])
    <3>2. entry.dest = d /\ entry.key.args = i.args /\ entry.key.op = i.op /\ entry.key.type = i.type
      BY DEF ExpressionKey
    <3>3. key.args = p[k].args /\ key.op = p[k].op /\ key.type = p[k].type
      BY DEF ExpressionKey
    <3>4. \A m \in DOMAIN i.args : i.args[m].reg = d => p[k].args[m].reg = d
      <4>1. d # ""
        BY <2>3, RegistersAssumption DEF Names
      <4> HIDE DEF i, d
      <4>2. \A m \in DOMAIN i.args : i.args[m].reg = d => m \in DOMAIN p[k].args /\ p[k].args[m].reg # ""
        BY <3>1, <4>1 DEF IsRewritten
      <4>3. \A u : ReadFor(p, k, s, u, d) => u = d
        BY DEF ReadFor, d
      <4> QED  BY <3>1, <4>2, <4>3
    <3> HIDE DEF key, entry, i, d
    <3>5. ASSUME NEW l \in ScopeOf(p, k), MetAgain(p[l], entry.key, entry.dest) PROVE MetAgain(p[l], key, d)
      <4>1. i.op = p[k].op /\ i.type = p[k].type /\ DOMAIN i.args = DOMAIN p[k].args
        BY <3>1 DEF IsRewritten
      <4>2. /\ p[l].op = entry.key.op /\ p[l].type = entry.key.type
            /\ \E m \in DOMAIN p[l].args \cap DOMAIN entry.key.args :
                  p[l].args[m].reg = entry.dest /\ entry.key.args[m].reg = entry.dest
        BY <3>5 DEF MetAgain
      <4>3. PICK m : /\ m \in DOMAIN p[l].args /\ m \in DOMAIN i.args
                     /\ p[l].args[m].reg = d /\ i.args[m].reg = d
        BY <3>2, <4>2
      <4>4. m \in DOMAIN p[l].args \cap DOMAIN key.args /\ key.args[m].reg = d
        BY <3>3, <3>4, <4>1, <4>3
      <4>5. p[l].op = key.op /\ p[l].type = key.type
        BY <3>2, <3>3, <4>1, <4>2
      <4> QED  BY <4>3, <4>4, <4>5 DEF MetAgain
    <3>6. \A l \in ScopeOf(p, k) : l > k /\ MetAgain(p[l], key, d) =>
             \E o \in ScopeOf(p, k) : k < o /\ o <= l /\ p[o].dest = d
      <4>1. ~IsLabel(p[k]) /\ ~CSEBoundary(p[k])
        BY <1>2 DEF InScope
      <4> QED  BY <4>1 DEF CSEAssumes, d, key
    <3> QED  BY <3>2, <3>5, <3>6 DEF NotMet
  <2> HIDE DEF entry, i, A, r, j
  <2>10. CASE ~Shares(p, k, s)
    <3>1. t.aliases = A /\ t.exprs \subseteq Surviving(s.exprs, d) \cup {entry}
      BY <2>4, <2>10
    <3> HIDE DEF d
    <3>2. \A x \in A : ReadAfter(p, k, x[1]) => \A y \in A : y[1] # x[2]
      BY <2>1, <2>2, <2>7
    <3>3. \A e \in t.exprs : /\ InScope(p, k) /\ NotMet(p, k, e) /\ e.dest \in Names
                             /\ \A m \in DOMAIN e.key.args : e.key.args[m].reg = "" \/ e.key.args[m].reg \in Names
                             /\ \A x \in A :
                                  /\ x[1] # e.dest
                                  /\ ReadsItsOwn(e) /\ ReadAfter(p, k, x[1]) => x[2] # e.dest
      <4>1. SUFFICES ASSUME NEW e \in t.exprs
                     PROVE  /\ InScope(p, k) /\ NotMet(p, k, e) /\ e.dest \in Names
                            /\ \A m \in DOMAIN e.key.args : e.key.args[m].reg = "" \/ e.key.args[m].reg \in Names
                            /\ \A x \in A :
                                 /\ x[1] # e.dest
                                 /\ ReadsItsOwn(e) /\ ReadAfter(p, k, x[1]) => x[2] # e.dest
        OBVIOUS
      <4>2. CASE e \in Surviving(s.exprs, d)
        BY <1>2, <2>1, <2>2, <2>5, <2>7, <2>8, <4>2
      <4>3. CASE e = entry
        BY <1>2, <2>2, <2>3, <2>6, <2>7, <2>9, <4>3
      <4> QED  BY <3>1, <4>2, <4>3
    <3>5. \A e, f \in t.exprs : e.dest = f.dest => e = f
      <4>1. \A e, f \in t.exprs : e \in Surviving(s.exprs, d) /\ f \in Surviving(s.exprs, d) /\ e.dest = f.dest => e = f
        BY <2>1, <2>5
      <4>2. \A e \in t.exprs : e \in Surviving(s.exprs, d) \/ e = entry
        BY <3>1
      <4> QED  BY <2>5, <2>6, <4>1, <4>2
    <3>4. /\ IsFiniteSet(A)
          /\ \A x \in A : x[1] \in Names /\ x[2] \in Names /\ x = <<x[1], x[2]>>
          /\ \A x, y \in A : x[1] = y[1] => x = y
          /\ \A x \in A : InScope(p, k) /\ ~AliasReadLate(p, k, x[1], x[2]) /\ EndsDead(p, k, x[1])
      BY <1>2, <2>1, <2>2, <2>7
    <3> QED  BY <3>1, <3>2, <3>3, <3>4, <3>5 DEF Standing
  <2>11. CASE Shares(p, k, s)
    <3> DEFINE new == <<d, r>>
               B == A \cup {new}
    <3>1. t.aliases = B /\ t.exprs = Surviving(s.exprs, d)
      BY <2>4, <2>11
    <3>2. d \notin OutsideReads(p, k) /\ Prior(p, k, s) # {} /\ ~AliasReadLate(p, k, d, r)
      BY <2>11 DEF Shares, r
    <3>3. PICK e \in s.exprs : r = e.dest /\ e.dest # d /\ e.dest \in Names /\ ~ReadsItsOwn(e)
                             /\ \A x \in s.aliases : x[1] # e.dest
      <4>1. \E e \in s.exprs :
              /\ SharedResult(p, k, s) = e.dest /\ e.dest # p[k].dest /\ e.dest \in Names
              /\ e.key = ExpressionKey(RewriteSources(p[k], s.aliases))
              /\ (\A x \in s.aliases : x[1] # e.dest) /\ ~ReadsItsOwn(e)
        BY <1>2, <3>2, SharedResultFacts
      <4> QED  BY <4>1 DEF r
    <3>4. EndsDead(p, k, d)
      <4>1. ~IsLabel(p[k]) /\ ~CSEBoundary(p[k])
        BY <1>2 DEF InScope
      <4>2. d \in OutsideReads(p, k) \/ \A l \in ScopeOf(p, k) : l + 1 \notin ScopeOf(p, k) => l + 1 \notin LiveBefore(p, d)
        BY <4>1 DEF CSEAssumes
      <4> QED  BY <3>2, <4>2 DEF EndsDead
    <3>5. new[1] = d /\ new[2] = r
      OBVIOUS
    <3> HIDE DEF new, d
    <3>6. IsFiniteSet(B)
      BY <2>2, FS_AddElement
    <3>7. \A x \in B : /\ x[1] \in Names /\ x[2] \in Names /\ x = <<x[1], x[2]>>
                       /\ InScope(p, k) /\ ~AliasReadLate(p, k, x[1], x[2]) /\ EndsDead(p, k, x[1])
      <4>1. \A x \in A : /\ x[1] \in Names /\ x[2] \in Names /\ x = <<x[1], x[2]>>
                         /\ InScope(p, k) /\ ~AliasReadLate(p, k, x[1], x[2]) /\ EndsDead(p, k, x[1])
        BY <1>2, <2>1, <2>2, <2>7
      <4>2. /\ new[1] \in Names /\ new[2] \in Names /\ new = <<new[1], new[2]>>
            /\ InScope(p, k) /\ ~AliasReadLate(p, k, new[1], new[2]) /\ EndsDead(p, k, new[1])
        BY <1>2, <2>3, <3>2, <3>3, <3>4, <3>5 DEF new
      <4> QED  BY <4>1, <4>2
    <3>8. \A x, y \in B : x[1] = y[1] => x = y
      BY <2>1, <2>2, <3>5
    <3>9. ASSUME NEW x \in B, ReadAfter(p, k, x[1]), NEW y \in B PROVE y[1] # x[2]
      <4>1. CASE x \in A /\ y \in A
        BY <2>1, <2>2, <2>7, <3>9, <4>1
      <4>2. CASE x \in A /\ y = new
        BY <2>2, <2>7, <3>5, <3>9, <4>2
      <4>3. CASE x = new
        BY <2>2, <3>3, <3>5, <4>3
      <4> QED  BY <4>1, <4>2, <4>3
    <3>10. \A c \in t.exprs : /\ InScope(p, k) /\ NotMet(p, k, c) /\ c.dest \in Names
                              /\ \A m \in DOMAIN c.key.args : c.key.args[m].reg = "" \/ c.key.args[m].reg \in Names
                              /\ \A x \in B :
                                   /\ x[1] # c.dest
                                   /\ ReadsItsOwn(c) /\ ReadAfter(p, k, x[1]) => x[2] # c.dest
      <4>1. SUFFICES ASSUME NEW c \in t.exprs
                     PROVE  /\ InScope(p, k) /\ NotMet(p, k, c) /\ c.dest \in Names
                            /\ \A m \in DOMAIN c.key.args : c.key.args[m].reg = "" \/ c.key.args[m].reg \in Names
                            /\ \A x \in B :
                                 /\ x[1] # c.dest
                                 /\ ReadsItsOwn(c) /\ ReadAfter(p, k, x[1]) => x[2] # c.dest
        OBVIOUS
      <4>2. c \in s.exprs /\ c.dest # d /\ NotMet(p, k, c)
        BY <2>5, <2>8, <3>1
      <4>3. ReadsItsOwn(c) => new[2] # c.dest
        BY <2>1, <3>3, <3>5, <4>2
      <4>4. \A x \in A : x[1] # c.dest /\ (ReadsItsOwn(c) /\ ReadAfter(p, k, x[1]) => x[2] # c.dest)
        BY <2>1, <2>2, <2>7, <4>2
      <4> HIDE DEF new
      <4>5. \A x \in B : x \in A \/ x = new
        OBVIOUS
      <4> QED  BY <1>2, <2>1, <3>5, <4>2, <4>3, <4>4, <4>5
    <3>11. \A e1, e2 \in t.exprs : e1.dest = e2.dest => e1 = e2
      BY <2>1, <2>5, <3>1
    <3> HIDE DEF B
    <3> QED  BY <3>1, <3>6, <3>7, <3>8, <3>9, <3>10, <3>11 DEF Standing
  <2> QED  BY <2>10, <2>11
<1> QED  BY <1>1, <1>2

\* The tables one after the other.
LEMMA SharingSteps ==
  ASSUME NEW p, IsProgram(p), CSEAssumes(p), NEW h, IsSharing(p, Len(p), h)
  PROVE  /\ h[0] = NothingShared
         /\ \A k \in 1 .. Len(p) : h[k] = Shared(p, k, h[k-1])
         /\ \A k \in 0 .. Len(p) : Standing(p, k, h[k])
<1> DEFINE n == Len(p)
           U == {k \in Nat : k <= n => Standing(p, k, h[k])}
<1>1. n \in Nat
  BY ProgramFacts
<1>2. h[0] = NothingShared /\ \A k \in 1 .. n : h[k] = Shared(p, k, h[k-1])
  <2>1. h = [k \in 0 .. n |-> IF k = 0 THEN NothingShared ELSE Shared(p, k, h[k-1])]
    BY DEF IsSharing
  <2>2. \A k \in 0 .. n : h[k] = IF k = 0 THEN NothingShared ELSE Shared(p, k, h[k-1])
    BY <2>1, Zenon
  <2>3. 0 \in 0 .. n /\ \A k \in 1 .. n : k \in 0 .. n /\ k # 0
    BY <1>1
  <2> QED  BY <2>2, <2>3
<1>3. 0 \in U
  <2>1. h[0].aliases = {} /\ h[0].exprs = {}
    BY <1>2 DEF NothingShared
  <2>2. Standing(p, 0, h[0])
    BY <2>1, FS_EmptySet DEF Standing
  <2> QED  BY <2>2
<1>4. ASSUME NEW k \in Nat, k \in U PROVE k + 1 \in U
  <2>1. SUFFICES ASSUME k + 1 <= n PROVE Standing(p, k + 1, h[k + 1])
    OBVIOUS
  <2>2. k + 1 \in 1 .. n /\ k + 1 - 1 = k /\ k <= n
    BY <1>1, <2>1
  <2>3. Standing(p, k + 1 - 1, h[k]) /\ h[k + 1] = Shared(p, k + 1, h[k])
    BY <1>2, <1>4, <2>2
  <2> HIDE DEF n
  <2> QED  BY <2>2, <2>3, StandingGoesOn DEF n
<1>5. Nat \subseteq U
  <2> HIDE DEF U
  <2> QED  BY <1>3, <1>4, InductionOnSet
<1> QED  BY <1>1, <1>2, <1>5

-----------------------------------------------------------------------------
(* What is left of the program, and where. *)

Turned(p, h, k) == IF InScope(p, k) THEN RewriteSources(p[k], h[k-1].aliases) ELSE p[k]
Left(p, h) == {k \in 1 .. Len(p) : InScope(p, k) => ~Shares(p, k, h[k-1])}
ItemsLeft(p, h) == [k \in 0 .. Len(p) |-> h[k].items]
LeftAt(p, h) == [k \in 1 .. Len(p) + 1 |-> Place(ItemsLeft(p, h), k)]

LEMMA SharingSieves ==
  ASSUME NEW p, IsProgram(p), CSEAssumes(p), NEW h, IsSharing(p, Len(p), h)
  PROVE  /\ SievedFrom(Items, [k \in 1 .. Len(p) |-> Turned(p, h, k)], Left(p, h), Len(p), ItemsLeft(p, h))
         /\ \A k \in 1 .. Len(p) : InScope(p, k) => IsRewritten(p[k], h[k-1].aliases, Turned(p, h, k))
<1> DEFINE n == Len(p)
           S == Left(p, h)
           g == [k \in 1 .. n |-> Turned(p, h, k)]
           v == ItemsLeft(p, h)
<1>1. n \in Nat /\ \A k \in 1 .. n : p[k] \in Items
  BY ProgramFacts
<1>2. /\ h[0] = NothingShared
      /\ \A k \in 1 .. n : h[k] = Shared(p, k, h[k-1])
      /\ \A k \in 0 .. n : Standing(p, k, h[k])
  BY SharingSteps
<1>3. ASSUME NEW k \in 1 .. n, InScope(p, k) PROVE IsRewritten(p[k], h[k-1].aliases, Turned(p, h, k))
  <2> DEFINE A == h[k-1].aliases
  <2>1. k - 1 \in 0 .. n
    BY <1>1
  <2>2. IsFiniteSet(A) /\ \A x \in A : x[2] \in Names
    BY <1>2, <2>1 DEF Standing
  <2>3. Turned(p, h, k) = RewriteSources(p[k], A)
    BY <1>3 DEF Turned
  <2> HIDE DEF A
  <2>4. IsRewritten(p[k], A, RewriteSources(p[k], A))
    BY <1>3, <2>2, RewrittenFacts
  <2> QED  BY <2>3, <2>4 DEF A
<1>4. \A k \in 1 .. n : g[k] \in Items
  <2>1. SUFFICES ASSUME NEW k \in 1 .. n PROVE Turned(p, h, k) \in Items
    OBVIOUS
  <2>2. CASE InScope(p, k)
    BY <1>3, <2>2 DEF IsRewritten
  <2>3. CASE ~InScope(p, k)
    BY <1>1, <2>3 DEF Turned
  <2> QED  BY <2>2, <2>3
<1>5. ASSUME NEW k \in 1 .. n
      PROVE  h[k].items = IF k \in S THEN Append(h[k-1].items, g[k]) ELSE h[k-1].items
  <2>1. h[k] = Shared(p, k, h[k-1])
    BY <1>2
  <2>2. CASE ~InScope(p, k)
    <3>1. h[k].items = Append(h[k-1].items, p[k])
      BY <2>1, <2>2 DEF Shared, InScope
    <3>2. k \in S /\ g[k] = p[k]
      BY <2>2 DEF Left, Turned
    <3> QED  BY <3>1, <3>2
  <2>3. CASE InScope(p, k)
    <3> DEFINE s == h[k-1]
               i == RewriteSources(p[k], s.aliases)
    <3>1. g[k] = i /\ (k \in S <=> ~Shares(p, k, s))
      BY <2>3 DEF Left, Turned
    <3> HIDE DEF s, i, g, S
    <3>2. h[k] = Shared(p, k, s) /\ i = RewriteSources(p[k], s.aliases)
      BY <2>1 DEF s, i
    <3>3. /\ Shares(p, k, s) => h[k].items = s.items
          /\ ~Shares(p, k, s) => h[k].items = Append(s.items, i)
      BY <2>3, <3>2, SharedStep
    <3> QED  BY <3>1, <3>3 DEF s
  <2> QED  BY <2>2, <2>3
<1> HIDE DEF g, S
<1>6. \A k \in 0 .. n : v[k] = IF k = 0 THEN << >> ELSE IF k \in S THEN Append(v[k-1], g[k]) ELSE v[k-1]
  <2>1. SUFFICES ASSUME NEW k \in 0 .. n
                 PROVE  v[k] = IF k = 0 THEN << >> ELSE IF k \in S THEN Append(v[k-1], g[k]) ELSE v[k-1]
    OBVIOUS
  <2>2. v[k] = h[k].items
    BY DEF ItemsLeft
  <2>3. CASE k = 0
    BY <1>2, <2>2, <2>3 DEF NothingShared
  <2>4. CASE k # 0
    <3>1. k \in 1 .. n /\ k - 1 \in 0 .. n
      BY <1>1, <2>4
    <3>2. v[k-1] = h[k-1].items
      BY <3>1 DEF ItemsLeft
    <3> QED  BY <1>5, <2>2, <2>4, <3>1, <3>2
  <2> QED  BY <2>3, <2>4
<1>7. v = [k \in 0 .. n |-> v[k]]
  BY DEF ItemsLeft
<1> HIDE DEF v
<1>8. Sieved(g, S, n, v)
  BY <1>6, <1>7 DEF Sieved
<1>9. SievedFrom(Items, g, S, n, v)
  BY <1>1, <1>4, <1>8 DEF SievedFrom
<1> QED  BY <1>3, <1>9 DEF g, S, v

\* The places of what is left.
LEMMA SharingPlaces ==
  ASSUME NEW p, IsProgram(p), CSEAssumes(p), NEW h, IsSharing(p, Len(p), h),
         NEW q, q = h[Len(p)].items, NEW at, at = LeftAt(p, h)
  PROVE  /\ IsProgram(q)
         /\ at[1] = 1 /\ at[Len(p) + 1] = Len(q) + 1
         /\ \A k \in 1 .. Len(p) + 1 : at[k] \in 1 .. Len(q) + 1
         /\ \A k \in 1 .. Len(p) : k \notin Left(p, h) => at[k + 1] = at[k]
         /\ \A k \in Left(p, h) : at[k + 1] = at[k] + 1 /\ at[k] \in 1 .. Len(q) /\ q[at[k]] = Turned(p, h, k)
         /\ \A k \in LabelPositions(p) : LabelAt(q, p[k].label) = at[k]
<1> DEFINE n == Len(p)
           S == Left(p, h)
           g == [k \in 1 .. n |-> Turned(p, h, k)]
           v == ItemsLeft(p, h)
<1>1. n \in Nat /\ \A k \in 1 .. n : p[k] \in Items /\ WellFormed(p[k])
  BY ProgramFacts
<1>2. SievedFrom(Items, g, S, n, v)
  BY SharingSieves
<1>3. \A k \in 1 .. n : InScope(p, k) => IsRewritten(p[k], h[k-1].aliases, g[k])
  BY SharingSieves
<1>4. \A k \in 1 .. n : ~InScope(p, k) => g[k] = p[k] /\ k \in S
  BY DEF Turned, Left
<1>5. q = v[n]
  BY <1>1 DEF ItemsLeft
<1>6. \A k \in 1 .. n + 1 : at[k] = Place(v, k)
  BY <1>1 DEF LeftAt
<1>7. S \subseteq 1 .. n
  BY DEF Left
<1>8. \A k \in 1 .. n : g[k] = Turned(p, h, k)
  OBVIOUS
<1>9. \A k \in LabelPositions(p) : k \in S /\ k \in 1 .. n
  <2>1. \A k \in LabelPositions(p) : k \in 1 .. n /\ IsLabel(p[k])
    BY DEF LabelPositions
  <2> QED  BY <1>4, <2>1 DEF InScope
<1> HIDE DEF g, v, S
<1>10. \A k \in S \cap (1 .. n) :
         WellFormed(g[k]) /\ g[k].kind = p[k].kind /\ (IsLabel(p[k]) => g[k].label = p[k].label)
  <2>1. SUFFICES ASSUME NEW k \in 1 .. n
                 PROVE  WellFormed(g[k]) /\ g[k].kind = p[k].kind /\ (IsLabel(p[k]) => g[k].label = p[k].label)
    OBVIOUS
  <2>2. CASE InScope(p, k)
    <3>1. IsRewritten(p[k], h[k-1].aliases, g[k])
      BY <1>3, <2>2
    <3>2. p[k].kind = "op"
      BY <2>2, InScopeFacts
    <3> QED  BY <3>1, <3>2 DEF IsRewritten
  <2>3. CASE ~InScope(p, k)
    BY <1>1, <1>4, <2>3
  <2> QED  BY <2>2, <2>3
<1>11. ASSUME NEW k \in S \cap (1 .. n), IsBranch(g[k])
       PROVE  \E j \in S \cap LabelPositions(p) : p[j].label = g[k].label
  <2>1. ~InScope(p, k)
    <3>1. SUFFICES ASSUME InScope(p, k) PROVE FALSE
      OBVIOUS
    <3>2. IsRewritten(p[k], h[k-1].aliases, g[k])
      BY <1>3, <3>1
    <3>3. g[k].kind = "op"
      BY <3>2 DEF IsRewritten
    <3> QED  BY <1>11, <3>3 DEF IsBranch
  <2>2. g[k] = p[k]
    BY <1>4, <2>1
  <2>3. p[k].label \in LabelsOf(p)
    BY <1>11, <2>2 DEF IsProgram, BuildFails
  <2>4. PICK j \in LabelPositions(p) : p[j].label = p[k].label
    BY <2>3 DEF LabelsOf
  <2> QED  BY <1>9, <2>2, <2>4
<1>12. EntryLabel \in LabelsOf(p) => 1 \in S
  <2>1. SUFFICES ASSUME EntryLabel \in LabelsOf(p) PROVE 1 \in S
    OBVIOUS
  <2>2. p # << >> /\ IsLabel(p[1]) /\ p \in Seq(Items)
    BY <2>1 DEF IsProgram, BuildFails
  <2>3. 1 \in 1 .. n
    BY <2>2
  <2> QED  BY <1>4, <2>2, <2>3 DEF InScope
<1>13. /\ IsProgram(q)
       /\ \A j \in S \cap LabelPositions(p) : LabelAt(q, p[j].label) = Place(v, j)
  BY <1>2, <1>5, <1>10, <1>11, <1>12, SievedProgram
<1>14. /\ Place(v, 1) = 1 /\ Place(v, n + 1) = Len(v[n]) + 1
       /\ \A k \in 1 .. n + 1 : Place(v, k) \in 1 .. Len(v[n]) + 1
       /\ \A k \in 1 .. n : Place(v, k + 1) = IF k \in S THEN Place(v, k) + 1 ELSE Place(v, k)
       /\ \A k \in S \cap (1 .. n) : Place(v, k) \in 1 .. Len(v[n]) /\ v[n][Place(v, k)] = g[k]
  BY <1>2, SievePlaces
<1>15. /\ 1 \in 1 .. n + 1 /\ n + 1 \in 1 .. n + 1
       /\ \A k \in 1 .. n : k \in 1 .. n + 1 /\ k + 1 \in 1 .. n + 1
  BY <1>1
<1>16. at[1] = 1 /\ at[n + 1] = Len(q) + 1 /\ \A k \in 1 .. n + 1 : at[k] \in 1 .. Len(q) + 1
  BY <1>5, <1>6, <1>14, <1>15
<1>17. \A k \in 1 .. n : k \notin S => at[k + 1] = at[k]
  BY <1>6, <1>14, <1>15
<1>18. \A k \in S : at[k + 1] = at[k] + 1 /\ at[k] \in 1 .. Len(q) /\ q[at[k]] = Turned(p, h, k)
  BY <1>5, <1>6, <1>7, <1>8, <1>14, <1>15
<1>19. \A k \in LabelPositions(p) : LabelAt(q, p[k].label) = at[k]
  BY <1>6, <1>9, <1>13, <1>15
<1> QED  BY <1>13, <1>16, <1>17, <1>18, <1>19 DEF S

-----------------------------------------------------------------------------
(* Two lanes, one in the program and one in what is left of it.  Before     *)
(* item k they may differ in what is not live and in what has an alias.     *)

AliasesAt(p, h, k) == IF InScope(p, k) THEN h[k-1].aliases ELSE {}
ExprsAt(p, h, k) == IF InScope(p, k) THEN h[k-1].exprs ELSE {}
NotLive(p, k) == {r \in DataRegs \cup PredRegs : k \notin LiveBefore(p, r)}
Apart(p, h) == [k \in 1 .. Len(p) + 1 |-> NotLive(p, k) \cup {x[1] : x \in AliasesAt(p, h, k)}]

\* What an alias stands for is in the register that was kept, and what is at
\* hand is what it is the result of.
StandsFor(p, h, a, b) ==
  /\ \A x \in AliasesAt(p, h, a.pc) :
       ReadAfter(p, a.pc, x[1]) \/ x[1] \in ReadRegisters(p[a.pc]) => a.regs[x[1]] = b.regs[x[2]]
  /\ \A e \in ExprsAt(p, h, a.pc) : ~ReadsItsOwn(e) => b.regs[e.dest] = Result(e.key, Operands(e.key, b), b)
Alongside(p, h, q, a, b) ==
  Tracks(p, q, 1 .. Len(p) + 1, LeftAt(p, h), Apart(p, h), a, b) /\ StandsFor(p, h, a, b)

\* Behind an instruction of a scope, its table says what has an alias, even if
\* the scope ends there: what still had one is dead.
LEMMA ApartBehind ==
  ASSUME NEW p, IsProgram(p), CSEAssumes(p), NEW h, IsSharing(p, Len(p), h), NEW k \in 1 .. Len(p), InScope(p, k)
  PROVE  /\ \A x \in h[k].aliases : x[1] \in Apart(p, h)[k + 1]
         /\ \A r \in NotLive(p, k) : r # p[k].dest => r \in Apart(p, h)[k + 1]
         /\ \A r \in Apart(p, h)[k + 1] : r \in NotLive(p, k + 1) \/ \E x \in h[k].aliases : r = x[1]
         /\ \A x \in h[k-1].aliases : x[1] \in Apart(p, h)[k]
<1> DEFINE n == Len(p)
<1>1. n \in Nat
  BY ProgramFacts
<1>2. Standing(p, k, h[k])
  <2>1. k \in 0 .. n
    BY <1>1
  <2> QED  BY <2>1, SharingSteps
<1>3. Apart(p, h)[k + 1] = NotLive(p, k + 1) \cup {x[1] : x \in AliasesAt(p, h, k + 1)}
  <2>1. k + 1 \in 1 .. n + 1
    BY <1>1
  <2> QED  BY <2>1 DEF Apart
<1>4. Apart(p, h)[k] = NotLive(p, k) \cup {x[1] : x \in h[k-1].aliases}
  <2>1. k \in 1 .. n + 1
    BY <1>1
  <2> QED  BY <2>1 DEF Apart, AliasesAt
<1>5. k + 1 - 1 = k
  OBVIOUS
<1>6. ASSUME NEW x \in h[k].aliases PROVE x[1] \in Apart(p, h)[k + 1]
  <2>1. x[1] \in Names /\ EndsDead(p, k, x[1])
    BY <1>2 DEF Standing
  <2>2. CASE InScope(p, k + 1)
    BY <1>3, <1>5, <2>2 DEF AliasesAt
  <2>3. CASE ~InScope(p, k + 1)
    <3>1. k \in ScopeOf(p, k) /\ k + 1 \notin ScopeOf(p, k)
      BY <2>3, ScopeFacts
    <3>2. k + 1 \notin LiveBefore(p, x[1])
      BY <2>1, <3>1 DEF EndsDead
    <3> QED  BY <1>3, <2>1, <3>2 DEF NotLive, Names
  <2> QED  BY <2>2, <2>3
<1>7. ASSUME NEW r \in NotLive(p, k), r # p[k].dest PROVE r \in Apart(p, h)[k + 1]
  <2>1. k \notin LiveBefore(p, r) /\ r \in DataRegs \cup PredRegs
    BY DEF NotLive
  <2>2. ItemSuccessors(p, k) = {k + 1}
    BY InScopeFacts
  <2>3. k + 1 \notin LiveBefore(p, r)
    BY <1>7, <2>1, <2>2, LivenessIsClosed
  <2> QED  BY <1>3, <2>1, <2>3 DEF NotLive
<1>8. ASSUME NEW r \in Apart(p, h)[k + 1] PROVE r \in NotLive(p, k + 1) \/ \E x \in h[k].aliases : r = x[1]
  BY <1>3, <1>5 DEF AliasesAt
<1> QED  BY <1>4, <1>6, <1>7, <1>8

\* What the rewritten instruction reads is what the instruction did.
LEMMA RewrittenReads ==
  ASSUME NEW p, IsProgram(p), CSEAssumes(p), NEW h, IsSharing(p, Len(p), h), NEW q, NEW a, NEW b,
         Alongside(p, h, q, a, b), NEW k, k = a.pc, k \in 1 .. Len(p), InScope(p, k),
         NEW j, j = RewriteSources(p[k], h[k-1].aliases)
  PROVE  /\ Operands(j, b) = Operands(p[k], a)
         /\ Result(j, Operands(j, b), b) = Result(p[k], Operands(p[k], a), a)
<1> DEFINE i == p[k]
           A == h[k-1].aliases
           n == Len(p)
<1>1. n \in Nat /\ k - 1 \in 0 .. n /\ k \in 1 .. n + 1
  BY ProgramFacts
<1>2. Standing(p, k - 1, h[k-1])
  BY <1>1, SharingSteps
<1>3. /\ IsRewritten(i, A, j)
      /\ \A m \in DOMAIN i.args : i.args[m].reg # "" => ReadFor(p, k, h[k-1], i.args[m].reg, j.args[m].reg)
  <2> DEFINE s == h[k-1]
  <2>1. Standing(p, k - 1, s) /\ j = RewriteSources(p[k], s.aliases)
    BY <1>2
  <2> HIDE DEF s
  <2>2. /\ IsRewritten(p[k], s.aliases, j)
        /\ \A m \in DOMAIN p[k].args : p[k].args[m].reg # "" => ReadFor(p, k, s, p[k].args[m].reg, j.args[m].reg)
    BY <2>1, RewrittenArguments
  <2> QED  BY <2>2 DEF s
<1>4. /\ \A r \in (DataRegs \cup PredRegs) \ Apart(p, h)[k] : b.regs[r] = a.regs[r]
      /\ b.mem = a.mem /\ b.params = a.params
  BY DEF Alongside, Tracks, AgreeBut
<1>5. \A x \in A : x[1] \in ReadRegisters(i) => a.regs[x[1]] = b.regs[x[2]]
  BY DEF Alongside, StandsFor, AliasesAt
<1>6. Apart(p, h)[k] = NotLive(p, k) \cup {x[1] : x \in A}
  BY <1>1 DEF Apart, AliasesAt
<1>7. ASSUME NEW r, NEW c, ReadFor(p, k, h[k-1], r, c) PROVE b.regs[c] = a.regs[r] /\ c # "" /\ r # ""
  <2>1. /\ r \in Names /\ c \in Names /\ r \in ReadRegisters(i)
        /\ \/ c = r /\ \A x \in A : x[1] # r
           \/ \E x \in A : x[1] = r /\ x[2] = c
    BY <1>7 DEF ReadFor
  <2>2. c # "" /\ r # ""
    BY <2>1, RegistersAssumption DEF Names
  <2>3. r \in ReadBy(i)
    <3>1. i.op \in DestinationBases
      BY DEF InScope, CSEBoundary, Boundary, PureResultBases, DestinationBases
    <3> HIDE DEF i
    <3> QED  BY <2>1, <3>1 DEF ReadBy, ReadRegisters
  <2>a. ~IsLabel(p[k])
    BY DEF InScope
  <2>4. k \in LiveBefore(p, r)
    BY <2>3, <2>a, LivenessIsClosed
  <2> HIDE DEF A, i
  <2>5. CASE \E x \in A : x[1] = r /\ x[2] = c
    BY <1>5, <2>1, <2>2, <2>5
  <2>6. CASE c = r /\ \A x \in A : x[1] # r
    <3>1. r \notin Apart(p, h)[k] /\ r \in DataRegs \cup PredRegs
      BY <1>6, <2>1, <2>4, <2>6 DEF NotLive, Names
    <3> QED  BY <1>4, <2>2, <2>6, <3>1
  <2> QED  BY <2>1, <2>5, <2>6
<1>8. /\ DOMAIN j.args = DOMAIN i.args /\ j.op = i.op /\ j.type = i.type /\ j.compare = i.compare
      /\ \A m \in DOMAIN i.args : i.args[m].reg = "" => j.args[m] = i.args[m]
  BY <1>3 DEF IsRewritten
<1>9. Operands(j, b) = Operands(i, a)
  <2>1. \A m \in DOMAIN i.args : (IF j.args[m].reg = "" THEN j.args[m].imm ELSE b.regs[j.args[m].reg])
                                 = (IF i.args[m].reg = "" THEN i.args[m].imm ELSE a.regs[i.args[m].reg])
    <3>1. SUFFICES ASSUME NEW m \in DOMAIN i.args, i.args[m].reg # ""
                   PROVE  j.args[m].reg # "" /\ b.regs[j.args[m].reg] = a.regs[i.args[m].reg]
      <4> HIDE DEF i
      <4> QED  BY <1>8
    <3> DEFINE r == i.args[m].reg
               c == j.args[m].reg
    <3>2. ReadFor(p, k, h[k-1], r, c)
      BY <1>3, <3>1
    <3> HIDE DEF r, c
    <3>3. b.regs[c] = a.regs[r] /\ c # ""
      BY <1>7, <3>2
    <3> QED  BY <3>3 DEF r, c
  <2> HIDE DEF i
  <2> QED  BY <1>8, <2>1 DEF Operands
<1>10. Result(j, Operands(j, b), b) = Result(i, Operands(i, a), a)
  <2> HIDE DEF i
  <2> QED  BY <1>4, <1>8, <1>9 DEF Result
<1> QED  BY <1>9, <1>10

\* A step on an item outside every scope is made by both.
LEMMA OutsideStep ==
  ASSUME NEW p, IsProgram(p), CSEAssumes(p), NEW h, IsSharing(p, Len(p), h), NEW q, q = h[Len(p)].items,
         NEW a, NEW b, Alongside(p, h, q, a, b), a.pc \in 1 .. Len(p), ~InScope(p, a.pc)
  PROVE  Alongside(p, h, q, LaneStep(p, a), LaneStep(q, b))
<1> DEFINE k == a.pc
           i == p[k]
           n == Len(p)
           at == LeftAt(p, h)
           dead == Apart(p, h)
           seen == 1 .. n + 1
           s == LaneStep(p, a)
<1>1. n \in Nat /\ \A l \in 1 .. n : p[l] \in Items /\ WellFormed(p[l])
  BY ProgramFacts
<1>2. Tracks(p, q, seen, at, dead, a, b)
  BY DEF Alongside
<1>3. /\ IsProgram(q) /\ at[n + 1] = Len(q) + 1
      /\ \A l \in Left(p, h) : at[l + 1] = at[l] + 1 /\ at[l] \in 1 .. Len(q) /\ q[at[l]] = Turned(p, h, l)
      /\ \A l \in LabelPositions(p) : LabelAt(q, p[l].label) = at[l]
  BY SharingPlaces
<1>4. k \in Left(p, h) /\ Turned(p, h, k) = i
  BY DEF Left, Turned
<1>5. at[k + 1] = at[k] + 1 /\ at[k] \in 1 .. Len(q) /\ q[at[k]] = i
  BY <1>3, <1>4
<1>6. ItemSuccessors(p, k) \subseteq seen
  BY SuccessorsInside
<1>7. NextPC(q, at[k]) = at[NextPC(p, k)]
  <2>1. CASE IsBranch(i)
    <3>1. LabelAt(p, i.label) \in LabelPositions(p)
      BY <2>1, ProgramFacts
    <3>2. p[LabelAt(p, i.label)].label = i.label
      <4>1. i.label \in LabelsOf(p)
        BY <2>1 DEF IsProgram, BuildFails
      <4>2. PICK l \in LabelPositions(p) : p[l].label = i.label
        BY <4>1 DEF LabelsOf
      <4> QED  BY <4>2, Zenon DEF LabelAt
    <3>3. LabelAt(q, i.label) = at[LabelAt(p, i.label)]
      BY <1>3, <3>1, <3>2
    <3>4. NextPC(p, k) = LabelAt(p, i.label)
      BY <2>1 DEF NextPC, IsBranch
    <3> DEFINE m == at[k]
    <3>5. q[m] = i
      BY <1>5
    <3> HIDE DEF m, at, i
    <3>6. NextPC(q, m) = LabelAt(q, i.label)
      BY <2>1, <3>5 DEF NextPC, IsBranch
    <3> QED  BY <3>3, <3>4, <3>6 DEF m
  <2>2. CASE ~IsBranch(i) /\ i.kind = "ret"
    <3>1. NextPC(p, k) = n + 1 /\ NextPC(q, at[k]) = Len(q) + 1
      BY <1>5, <2>2 DEF NextPC, Stopped
    <3> QED  BY <1>3, <3>1
  <2>3. CASE ~IsBranch(i) /\ i.kind # "ret"
    <3>1. NextPC(p, k) = k + 1 /\ NextPC(q, at[k]) = at[k] + 1
      BY <1>5, <2>3 DEF NextPC
    <3> QED  BY <1>5, <3>1
  <2> QED  BY <2>1, <2>2, <2>3
<1>8. Stands(p, q, k, at)
  <2>1. i = [i EXCEPT !.label = i.label]
    <3>1. i \in Items
      BY <1>1
    <3> HIDE DEF i
    <3> QED  BY <3>1 DEF Items
  <2> HIDE DEF i, at
  <2> QED  BY <1>5, <1>7, <2>1 DEF Stands, i
<1>9. dead[k] = NotLive(p, k)
  <2>1. k \in 1 .. n + 1
    BY <1>1
  <2> QED  BY <2>1 DEF Apart, AliasesAt
<1>10. IsLabel(i) \/ ReadBy(i) \cap dead[k] = {}
  BY <1>9, LivenessIsClosed DEF NotLive
<1>11. ASSUME NEW l \in ItemSuccessors(p, k) PROVE dead[k] \ Overwritten(i) \subseteq dead[l]
  <2>1. SUFFICES ASSUME NEW r \in NotLive(p, k), r \notin Overwritten(i) PROVE r \in dead[l]
    BY <1>9
  <2>2. r \in DataRegs \cup PredRegs /\ k \notin LiveBefore(p, r) /\ r # ""
    BY RegistersAssumption DEF NotLive
  <2>3. ~(~IsLabel(i) /\ ~i.guarded /\ i.dest = r)
    <3>1. i.kind # "op" \/ i.op = "st" => i.dest = ""
      BY <1>1 DEF WellFormed
    <3> QED  BY <2>1, <2>2, <3>1 DEF Overwritten, ResultsOf
  <2>4. l \notin LiveBefore(p, r)
    BY <2>2, <2>3, LivenessIsClosed
  <2>5. l \in 1 .. n + 1
    BY <1>6
  <2> QED  BY <2>2, <2>4, <2>5 DEF Apart, NotLive
<1>12. Tracks(p, q, seen, at, dead, s, LaneStep(q, b))
  <2> HIDE DEF at, dead, seen, s, i
  <2> QED  BY <1>2, <1>3, <1>6, <1>8, <1>10, <1>11, StandingStep DEF i, s
<1>13. AliasesAt(p, h, s.pc) = {} /\ ExprsAt(p, h, s.pc) = {}
  <2>1. CASE ~InScope(p, s.pc)
    BY <2>1 DEF AliasesAt, ExprsAt
  <2>2. CASE InScope(p, s.pc)
    <3>1. IsLane(p, a)
      BY <1>2 DEF Tracks
    <3>2. s.pc = k + 1 \/ s.pc \in LabelPositions(p) \cup {n + 1}
      BY <3>1, StepEffect DEF Effect
    <3>3. s.pc \in 1 .. n /\ ~IsLabel(p[s.pc])
      BY <2>2 DEF InScope
    <3>4. s.pc = k + 1
      BY <1>1, <3>2, <3>3 DEF LabelPositions
    <3>5. h[k] = Shared(p, k, h[k-1])
      BY SharingSteps
    <3>6. h[k].aliases = {} /\ h[k].exprs = {}
      BY <3>5 DEF Shared, InScope
    <3>7. s.pc - 1 = k
      BY <3>4
    <3> QED  BY <3>6, <3>7 DEF AliasesAt, ExprsAt
  <2> QED  BY <2>1, <2>2
<1> HIDE DEF s
<1>14. StandsFor(p, h, s, LaneStep(q, b))
  BY <1>13 DEF StandsFor
<1> QED  BY <1>12, <1>14 DEF Alongside, s

\* A dropped instruction is executed by the one lane only: what it computes is
\* at hand in the other.
LEMMA DroppedResult ==
  ASSUME NEW p, IsProgram(p), CSEAssumes(p), NEW h, IsSharing(p, Len(p), h), NEW q, q = h[Len(p)].items,
         NEW a, NEW b, Alongside(p, h, q, a, b), a.pc \in 1 .. Len(p), InScope(p, a.pc),
         Shares(p, a.pc, h[a.pc - 1])
  PROVE  Alongside(p, h, q, LaneStep(p, a), b)
<1> DEFINE k == a.pc
           i == p[k]
           d == i.dest
           n == Len(p)
           at == LeftAt(p, h)
           dead == Apart(p, h)
           seen == 1 .. n + 1
           s == LaneStep(p, a)
           c == h[k-1]
           w == Result(i, Operands(i, a), a)
<1>1. n \in Nat /\ k - 1 \in 0 .. n /\ k \in 1 .. n + 1
  BY ProgramFacts
<1>2. Tracks(p, q, seen, at, dead, a, b) /\ StandsFor(p, h, a, b) /\ IsLane(p, a)
  BY DEF Alongside, Tracks
<1>3. /\ i \in Items /\ WellFormed(i) /\ i.kind = "op" /\ i.op # "st" /\ ~i.guarded
      /\ i.dest \in (DataRegs \cup PredRegs) \cap STRING /\ ItemSuccessors(p, k) = {k + 1}
  BY InScopeFacts
<1>4. /\ h[k] = Shared(p, k, c) /\ Standing(p, k - 1, c) /\ Standing(p, k, h[k])
  BY <1>1, SharingSteps
<1>5. at[k + 1] = at[k]
  <2>1. k \notin Left(p, h)
    BY DEF Left
  <2> QED  BY <2>1, SharingPlaces
<1>6. Prior(p, k, c) # {}
  BY DEF Shares
<1>7. PICK e \in c.exprs :
           /\ SharedResult(p, k, c) = e.dest /\ e.dest # p[k].dest /\ e.dest \in Names
           /\ e.key = ExpressionKey(RewriteSources(p[k], c.aliases))
           /\ (\A x \in c.aliases : x[1] # e.dest) /\ ~ReadsItsOwn(e)
  <2>1. k \in 1 .. n /\ InScope(p, k)
    OBVIOUS
  <2> HIDE DEF k, c
  <2> QED  BY <1>4, <1>6, <2>1, SharedResultFacts
<1>8. /\ h[k].exprs \subseteq c.exprs
      /\ h[k].aliases = StillAliases(p, k, c) \cup {<<d, e.dest>>}
  <2> DEFINE t == h[k]
             j == RewriteSources(p[k], c.aliases)
  <2>1. t = Shared(p, k, c) /\ j = RewriteSources(p[k], c.aliases) /\ Shares(p, k, c)
    BY <1>4
  <2>2. k \in 1 .. n /\ InScope(p, k)
    OBVIOUS
  <2> HIDE DEF t, j, c, k, n
  <2>3. t.exprs = Surviving(c.exprs, p[k].dest)
        /\ t.aliases = StillAliases(p, k, c) \cup {<<p[k].dest, SharedResult(p, k, c)>>}
    BY <2>1, <2>2, SharedStep DEF n
  <2> QED  BY <1>7, <2>3 DEF Surviving, t
<1>9. b.regs[e.dest] = w
  <2> DEFINE j == RewriteSources(p[k], c.aliases)
  <2>1. Result(j, Operands(j, b), b) = w
    BY RewrittenReads
  <2>2. b.regs[e.dest] = Result(e.key, Operands(e.key, b), b)
    BY <1>2, <1>7 DEF StandsFor, ExprsAt
  <2> HIDE DEF j, w
  <2>3. e.key = [op |-> j.op, type |-> j.type, args |-> j.args]
    BY <1>7 DEF ExpressionKey, j
  <2>4. e.key.op = j.op /\ e.key.type = j.type /\ e.key.args = j.args
    BY <2>3
  <2>5. Result(e.key, Operands(e.key, b), b) = Result(j, Operands(j, b), b)
    BY <2>4 DEF Result, Operands
  <2> QED  BY <2>1, <2>2, <2>5
<1>10. IsLane(p, s) /\ s.pc = k + 1 /\ s.regs = [a.regs EXCEPT ![d] = w]
  <2>1. WritesNow(i, a)
    BY <1>3 DEF WritesNow, GuardHolds
  <2>2. IsLane(p, s) /\ Effect(p, a, s) /\ s.pc \in ItemSuccessors(p, k)
    BY <1>2, StepEffect, StepGoesOn
  <2> QED  BY <1>3, <2>1, <2>2 DEF Effect
<1>11. s.regs[d] = w /\ \A r \in DataRegs \cup PredRegs : r # d => s.regs[r] = a.regs[r]
  <2>1. \A r \in DataRegs \cup PredRegs : r \in DOMAIN a.regs
    BY <1>2 DEF IsLane
  <2> HIDE DEF s, w
  <2> QED  BY <1>3, <1>10, <2>1
<1>12. /\ \A x \in h[k].aliases : x[1] \in dead[k + 1]
       /\ \A r \in NotLive(p, k) : r # d => r \in dead[k + 1]
  BY ApartBehind
<1>13. dead[k] = NotLive(p, k) \cup {x[1] : x \in c.aliases}
  BY <1>1 DEF Apart, AliasesAt
<1>14. d \in dead[k + 1] /\ \A x \in c.aliases : x[1] # d => x[1] \in dead[k + 1]
  <2> HIDE DEF dead
  <2>1. <<d, e.dest>>[1] \in dead[k + 1]
    BY <1>8, <1>12
  <2>2. \A x \in c.aliases : x[1] # d => x \in h[k].aliases
    BY <1>8 DEF StillAliases
  <2> QED  BY <1>12, <2>1, <2>2
<1>15. \A l \in ItemSuccessors(p, k) : dead[k] \cup ResultsOf(i) \subseteq dead[l]
  <2> HIDE DEF dead
  <2> QED  BY <1>3, <1>12, <1>13, <1>14 DEF ResultsOf
<1>16. Tracks(p, q, seen, at, dead, s, b)
  <2>1. Drops(p, k, at)
    BY <1>3, <1>5 DEF Drops
  <2>2. ItemSuccessors(p, k) \subseteq seen
    BY SuccessorsInside
  <2> HIDE DEF at, dead, seen, s, i
  <2> QED  BY <1>2, <1>15, <2>1, <2>2, DroppedStep DEF i, s
<1>17. ASSUME NEW x \in AliasesAt(p, h, k + 1), ReadAfter(p, k + 1, x[1]) \/ x[1] \in ReadRegisters(p[k + 1])
       PROVE  s.regs[x[1]] = b.regs[x[2]]
  <2>1. InScope(p, k + 1) /\ x \in h[k].aliases
    BY <1>1 DEF AliasesAt
  <2>2. CASE x = <<d, e.dest>>
    BY <1>9, <1>11, <2>2
  <2>3. CASE x \in StillAliases(p, k, c)
    <3>1. x \in c.aliases /\ x[1] # d /\ x[1] \in Names
      BY <1>4, <2>3 DEF StillAliases, Standing
    <3>2. ReadAfter(p, k, x[1])
      <4> DEFINE l == k + 1
                 r == x[1]
      <4>1. l = k + 1 /\ InScope(p, l) /\ InScope(p, k) /\ k \in 1 .. Len(p)
            /\ (ReadAfter(p, l, r) \/ r \in ReadRegisters(p[l]))
        BY <1>17, <2>1
      <4> HIDE DEF l, r, k
      <4>2. ReadAfter(p, k, r)
        BY <4>1, LateStays
      <4> QED  BY <4>2 DEF r
    <3>3. a.regs[x[1]] = b.regs[x[2]]
      BY <1>2, <3>1, <3>2 DEF StandsFor, AliasesAt
    <3>4. x[1] \in DataRegs \cup PredRegs
      BY <3>1 DEF Names
    <3> QED  BY <1>11, <3>1, <3>3, <3>4
  <2> QED  BY <1>8, <2>1, <2>2, <2>3
<1>18. ASSUME NEW x \in ExprsAt(p, h, k + 1), ~ReadsItsOwn(x)
       PROVE  b.regs[x.dest] = Result(x.key, Operands(x.key, b), b)
  <2>1. x \in h[k].exprs
    BY <1>1 DEF ExprsAt
  <2>2. x \in ExprsAt(p, h, k)
    BY <1>8, <2>1 DEF ExprsAt
  <2> QED  BY <1>2, <1>18, <2>2 DEF StandsFor
<1>19. StandsFor(p, h, s, b)
  <2> HIDE DEF s
  <2> QED  BY <1>10, <1>17, <1>18 DEF StandsFor
<1> QED  BY <1>16, <1>19 DEF Alongside

\* A kept instruction is executed by both lanes, with other operands that hold
\* the same.
LEMMA KeptResult ==
  ASSUME NEW p, IsProgram(p), CSEAssumes(p), NEW h, IsSharing(p, Len(p), h), NEW q, q = h[Len(p)].items,
         NEW a, NEW b, Alongside(p, h, q, a, b), a.pc \in 1 .. Len(p), InScope(p, a.pc),
         ~Shares(p, a.pc, h[a.pc - 1])
  PROVE  Alongside(p, h, q, LaneStep(p, a), LaneStep(q, b))
<1> DEFINE k == a.pc
           i == p[k]
           d == i.dest
           n == Len(p)
           at == LeftAt(p, h)
           dead == Apart(p, h)
           seen == 1 .. n + 1
           s == LaneStep(p, a)
           t == LaneStep(q, b)
           c == h[k-1]
           j == RewriteSources(p[k], c.aliases)
           w == Result(i, Operands(i, a), a)
<1>1. n \in Nat /\ k - 1 \in 0 .. n /\ k \in 1 .. n + 1 /\ k + 1 \in 1 .. n + 1
  BY ProgramFacts
<1>2. Tracks(p, q, seen, at, dead, a, b) /\ StandsFor(p, h, a, b)
  BY DEF Alongside
<1>3. IsLane(p, a) /\ IsLane(q, b) /\ b.pc = at[k] /\ AgreeBut(a, b, dead[k])
  BY <1>2 DEF Tracks
<1>4. /\ i \in Items /\ WellFormed(i) /\ i.kind = "op" /\ i.op # "st" /\ ~i.guarded
      /\ d \in (DataRegs \cup PredRegs) \cap STRING /\ ItemSuccessors(p, k) = {k + 1}
  BY InScopeFacts
<1>5. /\ h[k] = Shared(p, k, c) /\ Standing(p, k - 1, c) /\ Standing(p, k, h[k])
  BY <1>1, SharingSteps
<1>6. /\ IsProgram(q) /\ at[k + 1] = at[k] + 1 /\ at[k] \in 1 .. Len(q) /\ q[at[k]] = j
      /\ at[k + 1] \in 1 .. Len(q) + 1
  <2>1. k \in Left(p, h) /\ Turned(p, h, k) = j
    BY DEF Left, Turned
  <2> HIDE DEF at, j, k
  <2> QED  BY <1>1, <2>1, SharingPlaces, SMTT(40) DEF at
<1>7. IsRewritten(i, c.aliases, j)
  <2>1. Turned(p, h, k) = j
    BY DEF Turned
  <2> HIDE DEF j, i, c
  <2>2. IsRewritten(p[k], h[k-1].aliases, Turned(p, h, k))
    BY SharingSieves
  <2> QED  BY <2>1, <2>2 DEF i, c
<1>8. j.kind = "op" /\ j.op # "st" /\ ~j.guarded /\ j.dest = d
  BY <1>4, <1>7 DEF IsRewritten
<1>9. Result(j, Operands(j, b), b) = w
  <2>1. k = a.pc /\ k \in 1 .. Len(p) /\ InScope(p, k) /\ j = RewriteSources(p[k], h[k-1].aliases)
    OBVIOUS
  <2> HIDE DEF k, j
  <2>2. Result(j, Operands(j, b), b) = Result(p[k], Operands(p[k], a), a)
    BY <2>1, RewrittenReads
  <2> QED  BY <2>2
<1>10. IsLane(p, s) /\ Effect(p, a, s) /\ s.pc = k + 1
  BY <1>3, <1>4, StepEffect, StepGoesOn
<1>11. IsLane(q, t) /\ Effect(q, b, t) /\ q[b.pc] = j /\ b.pc \in 1 .. Len(q)
  BY <1>3, <1>6, StepEffect
<1> HIDE DEF j, w
<1>12. t.pc = at[k + 1]
  <2>1. t.pc = IF IsLabel(j) \/ ~GuardHolds(j, b) THEN b.pc + 1 ELSE NextPC(q, b.pc)
    BY <1>3, <1>6, <1>11, StepGoesOn
  <2>2. NextPC(q, b.pc) = b.pc + 1
    BY <1>8, <1>11 DEF NextPC, IsBranch
  <2> QED  BY <1>3, <1>6, <2>1, <2>2
<1>13. /\ s.mem = a.mem /\ s.stores = a.stores /\ s.params = a.params /\ s.regs = [a.regs EXCEPT ![d] = w]
       /\ t.mem = b.mem /\ t.stores = b.stores /\ t.params = b.params /\ t.regs = [b.regs EXCEPT ![d] = w]
  <2>1. WritesNow(i, a) /\ ~StoresNow(i, a)
    BY <1>4 DEF WritesNow, StoresNow, GuardHolds
  <2>2. WritesNow(j, b) /\ ~StoresNow(j, b)
    BY <1>8 DEF WritesNow, StoresNow, GuardHolds
  <2>3. /\ s.mem = a.mem /\ s.stores = a.stores /\ s.params = a.params /\ s.regs = [a.regs EXCEPT ![d] = w]
    BY <1>10, <2>1 DEF Effect, w
  <2>4. t.regs = [b.regs EXCEPT ![j.dest] = Result(j, Operands(j, b), b)] /\ t.mem = b.mem /\ t.stores = b.stores
        /\ t.params = b.params
    <3> HIDE DEF t
    <3> QED  BY <1>11, <2>2 DEF Effect
  <2> QED  BY <1>8, <1>9, <2>3, <2>4
<1>14. /\ s.regs[d] = w /\ t.regs[d] = w
       /\ \A r \in DataRegs \cup PredRegs : r # d => s.regs[r] = a.regs[r] /\ t.regs[r] = b.regs[r]
  <2>1. \A r \in DataRegs \cup PredRegs : r \in DOMAIN a.regs /\ r \in DOMAIN b.regs
    BY <1>3 DEF IsLane
  <2> HIDE DEF s, t
  <2> QED  BY <1>4, <1>13, <2>1
<1>15. /\ \A x \in h[k].aliases : x[1] \in dead[k + 1]
       /\ \A r \in NotLive(p, k) : r # d => r \in dead[k + 1]
  BY ApartBehind
<1>16. dead[k] = NotLive(p, k) \cup {x[1] : x \in c.aliases}
  BY <1>1 DEF Apart, AliasesAt
<1>17. /\ h[k].aliases = StillAliases(p, k, c)
       /\ h[k].exprs \subseteq Surviving(c.exprs, d) \cup {[key |-> ExpressionKey(j), dest |-> d]}
  <2> DEFINE u == h[k]
  <2>1. u = Shared(p, k, c) /\ j = RewriteSources(p[k], c.aliases) /\ ~Shares(p, k, c)
    BY <1>5 DEF j
  <2>2. k \in 1 .. n /\ InScope(p, k)
    OBVIOUS
  <2> HIDE DEF u, c, k, n
  <2>3. /\ u.aliases = StillAliases(p, k, c)
        /\ u.exprs \subseteq Surviving(c.exprs, p[k].dest) \cup {[key |-> ExpressionKey(j), dest |-> p[k].dest]}
    BY <2>1, <2>2, SharedStep DEF n
  <2> QED  BY <2>3 DEF u
<1>18. \A r \in dead[k] : r # d => r \in dead[k + 1]
  <2> HIDE DEF dead
  <2>1. \A x \in c.aliases : x[1] # d => x \in h[k].aliases
    BY <1>17 DEF StillAliases
  <2> QED  BY <1>15, <1>16, <2>1
<1>19. Tracks(p, q, seen, at, dead, s, t)
  <2> HIDE DEF dead, at, s, t
  <2>1. \A r \in (DataRegs \cup PredRegs) \ dead[k] : b.regs[r] = a.regs[r]
    BY <1>3 DEF AgreeBut
  <2>2. \A r \in (DataRegs \cup PredRegs) \ dead[k + 1] : t.regs[r] = s.regs[r]
    BY <1>14, <1>18, <2>1
  <2>3. b.mem = a.mem /\ b.params = a.params /\ b.stores = a.stores
    BY <1>3 DEF AgreeBut
  <2>4. AgreeBut(s, t, dead[k + 1])
    BY <1>13, <2>2, <2>3 DEF AgreeBut
  <2> QED  BY <1>1, <1>10, <1>11, <1>12, <2>4 DEF Tracks
<1>20. ASSUME NEW x \in AliasesAt(p, h, k + 1), ReadAfter(p, k + 1, x[1]) \/ x[1] \in ReadRegisters(p[k + 1])
       PROVE  s.regs[x[1]] = t.regs[x[2]]
  <2>1. InScope(p, k + 1) /\ x \in StillAliases(p, k, c)
    BY <1>1, <1>17 DEF AliasesAt
  <2>2. x \in c.aliases /\ x[1] # d /\ x[1] \in Names /\ x[2] \in Names
    BY <1>5, <2>1 DEF StillAliases, Standing
  <2>3. ReadAfter(p, k, x[1])
    <3> DEFINE l == k + 1
               r == x[1]
    <3>1. l = k + 1 /\ InScope(p, l) /\ InScope(p, k) /\ k \in 1 .. Len(p)
          /\ (ReadAfter(p, l, r) \/ r \in ReadRegisters(p[l]))
      BY <1>20, <2>1
    <3> HIDE DEF l, r, k
    <3>2. ReadAfter(p, k, r)
      BY <3>1, LateStays
    <3> QED  BY <3>2 DEF r
  <2>4. x[2] # d
    <3> DEFINE o == k - 1
               r == x[1]
               z == x[2]
    <3>1. InScope(p, o) /\ ~AliasReadLate(p, o, r, z)
      BY <1>5, <2>2 DEF Standing
    <3>2. o \in 1 .. Len(p) /\ k = o + 1 /\ InScope(p, k)
      BY <1>1, <3>1 DEF InScope
    <3> HIDE DEF o, r, z
    <3>3. p[k].dest = z => ~ReadAfter(p, k, r)
      BY <3>1, <3>2, LateStays
    <3> QED  BY <2>3, <3>3 DEF r, z
  <2>5. a.regs[x[1]] = b.regs[x[2]]
    BY <1>2, <2>2, <2>3 DEF StandsFor, AliasesAt
  <2>6. x[1] \in DataRegs \cup PredRegs /\ x[2] \in DataRegs \cup PredRegs
    BY <2>2 DEF Names
  <2> HIDE DEF s, t
  <2> QED  BY <1>14, <2>2, <2>4, <2>5, <2>6
<1>21. ASSUME NEW x \in ExprsAt(p, h, k + 1), ~ReadsItsOwn(x)
       PROVE  t.regs[x.dest] = Result(x.key, Operands(x.key, t), t)
  <2>1. x \in h[k].exprs
    BY <1>1 DEF ExprsAt
  <2> DEFINE y == x.key
  <2> HIDE DEF s, t
  <2>2. CASE x \in Surviving(c.exprs, d)
    <3>1. x \in c.exprs /\ x.dest # d /\ \A m \in DOMAIN y.args : y.args[m].reg # d
      BY <2>2 DEF Surviving
    <3>2. b.regs[x.dest] = Result(y, Operands(y, b), b)
      BY <1>2, <1>21, <3>1 DEF StandsFor, ExprsAt
    <3>3. x.dest \in Names /\ \A m \in DOMAIN y.args : y.args[m].reg = "" \/ y.args[m].reg \in Names
      BY <1>5, <3>1 DEF Standing
    <3> HIDE DEF y
    <3>4. \A m \in DOMAIN y.args : y.args[m].reg # "" => t.regs[y.args[m].reg] = b.regs[y.args[m].reg]
      BY <1>14, <3>1, <3>3 DEF Names
    <3>5. Operands(y, t) = Operands(y, b)
      BY <3>4 DEF Operands
    <3>6. Result(y, Operands(y, t), t) = Result(y, Operands(y, b), b)
      BY <1>13, <3>5 DEF Result
    <3>7. t.regs[x.dest] = b.regs[x.dest]
      BY <1>14, <3>1, <3>3 DEF Names
    <3> QED  BY <3>2, <3>6, <3>7 DEF y
  <2>3. CASE x = [key |-> ExpressionKey(j), dest |-> d]
    <3>1. x.dest = d /\ y = [op |-> j.op, type |-> j.type, args |-> j.args]
      BY <2>3 DEF ExpressionKey
    <3> HIDE DEF y
    <3>2. y.op = j.op /\ y.type = j.type /\ y.args = j.args
      BY <3>1
    <3>3. \A m \in DOMAIN j.args : j.args[m].reg = "" \/ j.args[m].reg \in Names
      <4>1. \A m \in DOMAIN i.args : i.args[m].reg = "" => j.args[m] = i.args[m]
        BY <1>7 DEF IsRewritten
      <4>2. DOMAIN j.args = DOMAIN i.args /\ \A m \in DOMAIN j.args : i.args[m].reg # "" => j.args[m].reg \in Names
        BY <1>7 DEF IsRewritten
      <4> QED  BY <4>1, <4>2
    <3>7. \A m \in DOMAIN j.args : j.args[m].reg # d
      <4>1. \A m \in DOMAIN x.key.args : x.key.args[m].reg # x.dest
        BY <1>21 DEF ReadsItsOwn
      <4>2. x.key.args = j.args
        BY <3>2 DEF y
      <4> QED  BY <3>1, <4>1, <4>2
    <3>4. \A m \in DOMAIN j.args : j.args[m].reg # "" => t.regs[j.args[m].reg] = b.regs[j.args[m].reg]
      BY <1>14, <3>3, <3>7 DEF Names
    <3>5. Operands(y, t) = Operands(j, b)
      BY <3>2, <3>4 DEF Operands
    <3>6. Result(y, Operands(y, t), t) = Result(j, Operands(j, b), b)
      BY <1>13, <3>2, <3>5 DEF Result
    <3> QED  BY <1>9, <1>14, <3>1, <3>6 DEF y
  <2> QED  BY <1>17, <2>1, <2>2, <2>3
<1>22. StandsFor(p, h, s, t)
  <2> HIDE DEF s, t
  <2> QED  BY <1>10, <1>20, <1>21 DEF StandsFor
<1> QED  BY <1>19, <1>22 DEF Alongside

\* R has, for every number of steps of the one lane, a number of steps of the
\* other after which they have stored the same.
LEMMA LinkedRuns ==
  ASSUME NEW p, IsProgram(p), NEW q, IsProgram(q), NEW lane, IsLane(p, lane), IsLane(q, lane), NEW R,
         <<0, 0>> \in R,
         \A n, m \in Nat : <<n, m>> \in R =>
           /\ <<n + 1, m>> \in R \/ <<n + 1, m + 1>> \in R
           /\ RunLane(q, lane, m).stores = RunLane(p, lane, n).stores
           /\ RunLane(p, lane, n).pc > Len(p) => RunLane(q, lane, m).pc > Len(q),
         NEW a, a = RunLane(p, lane, Steps), NEW b, b = RunLane(q, lane, Steps + Len(p))
  PROVE  /\ IsPrefix(a.stores, b.stores)
         /\ a.pc > Len(p) => b.pc > Len(q) /\ b.stores = a.stores
<1> DEFINE U == {n \in Nat : \E m \in 0 .. n : <<n, m>> \in R}
<1>1. 0 \in U
  <2>1. 0 \in 0 .. 0
    OBVIOUS
  <2> QED  BY <2>1
<1>2. ASSUME NEW n \in Nat, n \in U PROVE n + 1 \in U
  <2>1. PICK m \in 0 .. n : <<n, m>> \in R
    BY <1>2
  <2>2. m \in Nat /\ m \in 0 .. n + 1 /\ m + 1 \in 0 .. n + 1 /\ n + 1 \in Nat
    OBVIOUS
  <2>3. <<n + 1, m>> \in R \/ <<n + 1, m + 1>> \in R
    BY <2>1, <2>2
  <2> QED  BY <2>2, <2>3
<1>3. Nat \subseteq U
  <2> HIDE DEF U
  <2> QED  BY <1>1, <1>2, InductionOnSet
<1>4. Steps \in Nat /\ Len(p) \in Nat /\ Len(q) \in Nat
  BY StepsAssumption, ProgramFacts
<1>5. PICK m \in 0 .. Steps : <<Steps, m>> \in R
  BY <1>3, <1>4
<1> DEFINE c == RunLane(q, lane, m)
           d == Steps + Len(p) - m
<1>6. d \in Nat /\ m \in Nat /\ m + d = Steps + Len(p)
  BY <1>4
<1>7. b = RunLane(q, lane, m + d)
  BY <1>6
<1>8. c.stores = a.stores /\ (a.pc > Len(p) => c.pc > Len(q))
  BY <1>4, <1>5, <1>6
<1> HIDE DEF d
<1>9. IsPrefix(c.stores, b.stores) /\ (c.pc > Len(q) => b = c)
  <2>1. /\ IsPrefix(RunLane(q, lane, m).stores, RunLane(q, lane, m + d).stores)
        /\ RunLane(q, lane, m).pc > Len(q) => RunLane(q, lane, m + d) = RunLane(q, lane, m)
    BY <1>6, RunsGrow
  <2> QED  BY <1>7, <2>1
<1> HIDE DEF c
<1> QED  BY <1>8, <1>9

\* The pass preserves what the program stores.
LEMMA SharingPreserves ==
  ASSUME NEW p, IsProgram(p), CSEAssumes(p)
  PROVE  Preserved(p, ShareExpressions(p))
<1> DEFINE n == Len(p)
           h == CHOOSE g : IsSharing(p, Len(p), g)
           q == h[n].items
<1>1. n \in Nat
  BY ProgramFacts
<1>2. IsSharing(p, n, h)
  BY <1>1, SharingExists
<1>3. ShareExpressions(p) = q
  BY SharingByTable
<1> HIDE DEF h, q
<1>a. q = h[n].items
  BY DEF q
<1>4. /\ IsProgram(q) /\ LeftAt(p, h)[1] = 1 /\ LeftAt(p, h)[n + 1] = Len(q) + 1
  BY <1>2, <1>a, SharingPlaces
<1>5. ASSUME NEW a, NEW b, Alongside(p, h, q, a, b)
      PROVE  /\ Alongside(p, h, q, LaneStep(p, a), b) \/ Alongside(p, h, q, LaneStep(p, a), LaneStep(q, b))
             /\ b.stores = a.stores /\ (a.pc > n => b.pc > Len(q))
  <2>1. IsLane(p, a) /\ AgreeBut(a, b, Apart(p, h)[a.pc]) /\ b.pc = LeftAt(p, h)[a.pc] /\ a.pc \in 1 .. n + 1
    BY <1>5 DEF Alongside, Tracks
  <2>2. CASE a.pc > n
    <3>1. LaneStep(p, a) = a
      BY <2>2, StoppedStays
    <3>2. a.pc = n + 1 /\ Len(q) \in Nat
      BY <1>1, <1>4, <2>1, <2>2, ProgramFacts
    <3> QED  BY <1>4, <1>5, <2>1, <3>1, <3>2 DEF AgreeBut
  <2>3. CASE ~(a.pc > n)
    <3>1. a.pc \in 1 .. n
      BY <1>1, <2>1, <2>3
    <3>2. CASE ~InScope(p, a.pc)
      BY <1>2, <1>5, <1>a, <2>1, <2>3, <3>1, <3>2, OutsideStep DEF AgreeBut
    <3>3. CASE InScope(p, a.pc) /\ Shares(p, a.pc, h[a.pc - 1])
      BY <1>2, <1>5, <1>a, <2>1, <2>3, <3>1, <3>3, DroppedResult DEF AgreeBut
    <3>4. CASE InScope(p, a.pc) /\ ~Shares(p, a.pc, h[a.pc - 1])
      BY <1>2, <1>5, <1>a, <2>1, <2>3, <3>1, <3>4, KeptResult DEF AgreeBut
    <3> QED  BY <3>2, <3>3, <3>4
  <2> QED  BY <2>2, <2>3
<1>6. ASSUME NEW lane \in LaunchedLanes(p),
             NEW a, a = RunLane(p, lane, Steps), NEW b, b = RunLane(q, lane, Steps + Len(p))
      PROVE  /\ IsPrefix(a.stores, b.stores)
             /\ a.pc > Len(p) => b.pc > Len(q) /\ b.stores = a.stores
  <2> DEFINE R == {x \in Nat \X Nat : Alongside(p, h, q, RunLane(p, lane, x[1]), RunLane(q, lane, x[2]))}
  <2>1. IsLane(p, lane) /\ lane.pc = 1
    BY LaunchFacts
  <2>2. IsLane(q, lane)
    <3>1. 1 \in 1 .. Len(q) + 1
      BY <1>4, ProgramFacts
    <3> QED  BY <2>1, <3>1 DEF IsLane
  <2>3. Alongside(p, h, q, lane, lane)
    <3>1. 1 \in 1 .. n + 1
      BY <1>1
    <3>2. Tracks(p, q, 1 .. n + 1, LeftAt(p, h), Apart(p, h), lane, lane)
      BY <1>4, <2>1, <2>2, <3>1 DEF Tracks, AgreeBut
    <3>3. AliasesAt(p, h, 1) = {} /\ ExprsAt(p, h, 1) = {}
      <4>1. h[0] = NothingShared
        BY <1>2, SharingSteps
      <4>2. h[1-1].aliases = {} /\ h[1-1].exprs = {}
        BY <4>1 DEF NothingShared
      <4> QED  BY <4>2 DEF AliasesAt, ExprsAt
    <3> QED  BY <2>1, <3>2, <3>3 DEF Alongside, StandsFor
  <2>4. <<0, 0>> \in R
    <3>1. RunLane(p, lane, 0) = lane /\ RunLane(q, lane, 0) = lane
      BY RunZero
    <3> QED  BY <2>3, <3>1
  <2>5. ASSUME NEW k \in Nat, NEW m \in Nat, <<k, m>> \in R
        PROVE  /\ <<k + 1, m>> \in R \/ <<k + 1, m + 1>> \in R
               /\ RunLane(q, lane, m).stores = RunLane(p, lane, k).stores
               /\ RunLane(p, lane, k).pc > n => RunLane(q, lane, m).pc > Len(q)
    <3> DEFINE c == RunLane(p, lane, k)
               d == RunLane(q, lane, m)
    <3>1. Alongside(p, h, q, c, d)
      BY <2>5
    <3>2. RunLane(p, lane, k + 1) = LaneStep(p, c) /\ RunLane(q, lane, m + 1) = LaneStep(q, d)
      BY RunSucc
    <3> HIDE DEF c, d
    <3>3. /\ Alongside(p, h, q, LaneStep(p, c), d) \/ Alongside(p, h, q, LaneStep(p, c), LaneStep(q, d))
          /\ d.stores = c.stores /\ (c.pc > n => d.pc > Len(q))
      BY <1>5, <3>1
    <3> QED  BY <3>2, <3>3 DEF c, d
  <2> HIDE DEF R
  <2> QED  BY <1>4, <1>6, <2>1, <2>2, <2>4, <2>5, LinkedRuns
<1>7. Alike(p, q, Steps + Len(p))
  BY <1>6 DEF Alike
<1> QED  BY <1>3, <1>4, <1>7 DEF Preserved, IsProgram

\* Common subexpression elimination (passes/local_scalar.py): the register of
\* an earlier equal expression holds what the dropped instruction would have
\* computed at every place that is rewritten to read it, on every path into
\* and out of the scope, so the same words are stored in the same order.
THEOREM SharedExpressionsStand == Spec => []CSEPreserves
<1>1. RewriteInv => CSEPreserves
  <2>1. SUFFICES ASSUME RewriteInv, pass = "cse", stage = "done", CSEAssumes(source) PROVE Preserved(source, target)
    BY DEF CSEPreserves, Preserves
  <2>2. IsProgram(source) /\ target = Transformed("cse", source)
    BY <2>1, ProgramsAssumption DEF RewriteInv
  <2>3. Transformed("cse", source) = ShareExpressions(source)
    BY DEF Transformed
  <2> QED  BY <2>1, <2>2, <2>3, SharingPreserves
<1> QED  BY <1>1, RewriteInvariance, PTL

-----------------------------------------------------------------------------
(* Moves, in the order in which they are put in one place.                  *)

Quadruples == Nat \X Nat \X Nat \X Nat

\* By the loop's tail, its header, and the item.
LEMMA EarlierMeans ==
  ASSUME NEW m \in Quadruples, NEW n \in Quadruples
  PROVE  MovedEarlier(m, n) <=> \/ m[1] < n[1]
                                \/ m[1] = n[1] /\ m[2] < n[2]
                                \/ m[1] = n[1] /\ m[2] = n[2] /\ m[3] < n[3]
<1>1. ASSUME MovedEarlier(m, n)
      PROVE  m[1] < n[1] \/ (m[1] = n[1] /\ m[2] < n[2]) \/ (m[1] = n[1] /\ m[2] = n[2] /\ m[3] < n[3])
  <2>1. PICK c \in 1 .. 3 : m[c] < n[c] /\ \A d \in 1 .. c - 1 : m[d] = n[d]
    BY <1>1 DEF MovedEarlier
  <2>2. CASE c = 1
    BY <2>1, <2>2
  <2>3. CASE c = 2
    <3>1. 1 \in 1 .. c - 1
      BY <2>3
    <3> QED  BY <2>1, <2>3, <3>1
  <2>4. CASE c = 3
    <3>1. 1 \in 1 .. c - 1 /\ 2 \in 1 .. c - 1
      BY <2>4
    <3> QED  BY <2>1, <2>4, <3>1
  <2> QED  BY <2>2, <2>3, <2>4
<1>2. ASSUME NEW c \in 1 .. 3, m[c] < n[c], \A d \in 1 .. c - 1 : m[d] = n[d] PROVE MovedEarlier(m, n)
  BY <1>2 DEF MovedEarlier
<1>3. ASSUME m[1] < n[1] PROVE MovedEarlier(m, n)
  <2>1. 1 \in 1 .. 3 /\ \A d \in 1 .. 1 - 1 : m[d] = n[d]
    OBVIOUS
  <2> QED  BY <1>2, <1>3, <2>1
<1>4. ASSUME m[1] = n[1], m[2] < n[2] PROVE MovedEarlier(m, n)
  <2>1. 2 \in 1 .. 3 /\ \A d \in 1 .. 2 - 1 : m[d] = n[d]
    BY <1>4
  <2> QED  BY <1>2, <1>4, <2>1
<1>5. ASSUME m[1] = n[1], m[2] = n[2], m[3] < n[3] PROVE MovedEarlier(m, n)
  <2>1. 3 \in 1 .. 3 /\ \A d \in 1 .. 3 - 1 : d = 1 \/ d = 2
    OBVIOUS
  <2>2. \A d \in 1 .. 3 - 1 : m[d] = n[d]
    BY <1>5, <2>1
  <2> QED  BY <1>2, <1>5, <2>1, <2>2
<1> QED  BY <1>1, <1>3, <1>4, <1>5

\* A strict order, total among the moves to one place.
LEMMA EarlierIsOrder ==
  /\ \A m \in Quadruples : ~MovedEarlier(m, m)
  /\ \A l, m, n \in Quadruples : MovedEarlier(l, m) /\ MovedEarlier(m, n) => MovedEarlier(l, n)
  /\ \A m, n \in Quadruples : m[4] = n[4] /\ m # n => MovedEarlier(m, n) \/ MovedEarlier(n, m)
<1>1. \A m \in Quadruples : m[1] \in Nat /\ m[2] \in Nat /\ m[3] \in Nat
  BY DEF Quadruples
<1>2. ASSUME NEW m \in Quadruples PROVE ~MovedEarlier(m, m)
  BY <1>1, EarlierMeans
<1>3. ASSUME NEW l \in Quadruples, NEW m \in Quadruples, NEW n \in Quadruples,
             MovedEarlier(l, m), MovedEarlier(m, n)
      PROVE  MovedEarlier(l, n)
  BY <1>1, <1>3, EarlierMeans
<1>4. ASSUME NEW m \in Quadruples, NEW n \in Quadruples, m[4] = n[4], m # n
      PROVE  MovedEarlier(m, n) \/ MovedEarlier(n, m)
  <2>1. ~(m[1] = n[1] /\ m[2] = n[2] /\ m[3] = n[3])
    BY <1>4 DEF Quadruples
  <2> QED  BY <1>1, <2>1, EarlierMeans
<1> QED  BY <1>2, <1>3, <1>4

Sorted(S, s) ==
  /\ s \in [1 .. Cardinality(S) -> S]
  /\ \A i, j \in DOMAIN s : i < j => MovedEarlier(s[i], s[j])

\* Finitely many moves to one place can be put in order: each by how many come
\* before it.
LEMMA SortingExists ==
  ASSUME NEW S, IsFiniteSet(S), S \subseteq Quadruples, NEW k, \A m \in S : m[4] = k
  PROVE  \E s : Sorted(S, s)
<1> DEFINE Before(m) == {l \in S : MovedEarlier(l, m)}
           c == Cardinality(S)
           rank == [m \in S |-> Cardinality(Before(m)) + 1]
<1>1. \A m \in S : IsFiniteSet(Before(m)) /\ Cardinality(Before(m)) \in Nat
  <2>1. \A m \in S : Before(m) \subseteq S
    OBVIOUS
  <2> HIDE DEF Before
  <2> QED  BY <2>1, FS_Subset, FS_CardinalityType
<1>2. c \in Nat
  BY FS_CardinalityType
<1>3. ASSUME NEW m \in S PROVE rank[m] \in 1 .. c
  <2>1. m \notin Before(m) /\ Before(m) \subseteq S
    BY EarlierIsOrder
  <2>2. Cardinality(Before(m)) <= c /\ (Cardinality(Before(m)) = c => Before(m) = S)
    <3> HIDE DEF Before
    <3> QED  BY <2>1, FS_Subset
  <2> HIDE DEF Before, c
  <2>3. Cardinality(Before(m)) \in Nat /\ Cardinality(Before(m)) < c
    BY <1>1, <1>2, <2>1, <2>2
  <2> QED  BY <1>2, <2>3
<1>4. ASSUME NEW l \in S, NEW m \in S, MovedEarlier(l, m) PROVE rank[l] < rank[m]
  <2>1. Before(l) \subseteq Before(m) /\ l \in Before(m) /\ l \notin Before(l)
    BY <1>4, EarlierIsOrder
  <2>2. Cardinality(Before(l)) <= Cardinality(Before(m))
        /\ (Cardinality(Before(l)) = Cardinality(Before(m)) => Before(l) = Before(m))
    <3> HIDE DEF Before
    <3> QED  BY <1>1, <2>1, FS_Subset
  <2> HIDE DEF Before
  <2>3. Cardinality(Before(l)) < Cardinality(Before(m))
    BY <1>1, <2>1, <2>2
  <2> QED  BY <1>1, <2>3
<1> HIDE DEF rank, c
<1>5. \A m \in S : rank[m] \in Nat
  BY <1>2, <1>3
<1>6. rank \in Injection(S, 1 .. c)
  <2>1. rank \in [S -> 1 .. c]
    <3>1. rank = [m \in S |-> rank[m]]
      BY DEF rank
    <3> QED  BY <1>3, <3>1
  <2>2. ASSUME NEW l \in S, NEW m \in S, rank[l] = rank[m] PROVE l = m
    <3>1. SUFFICES ASSUME l # m PROVE FALSE
      OBVIOUS
    <3>2. MovedEarlier(l, m) \/ MovedEarlier(m, l)
      BY <3>1, EarlierIsOrder
    <3> QED  BY <1>4, <1>5, <2>2, <3>2
  <2> QED  BY <2>1, <2>2 DEF Injection, IsInjective
<1>7. IsFiniteSet(1 .. c) /\ Cardinality(1 .. c) = c
  BY <1>2, FS_Interval
<1>8. rank \in Surjection(S, 1 .. c)
  BY <1>6, <1>7, FS_Injection DEF c
<1>9. \A i \in 1 .. c : \E m \in S : rank[m] = i
  BY <1>8 DEF Surjection
<1> DEFINE s == [i \in 1 .. c |-> CHOOSE m \in S : rank[m] = i]
<1>10. \A i \in 1 .. c : s[i] \in S /\ rank[s[i]] = i
  BY <1>9
<1>11. ASSUME NEW i \in 1 .. c, NEW j \in 1 .. c, i < j PROVE MovedEarlier(s[i], s[j])
  <2> DEFINE x == s[i]
             y == s[j]
  <2>1. x \in S /\ y \in S /\ rank[x] = i /\ rank[y] = j
    BY <1>10
  <2> HIDE DEF x, y
  <2>2. x # y
    BY <1>11, <2>1
  <2>3. ~MovedEarlier(y, x)
    <3>1. SUFFICES ASSUME MovedEarlier(y, x) PROVE FALSE
      OBVIOUS
    <3>2. rank[y] < rank[x]
      BY <1>4, <2>1, <3>1
    <3> QED  BY <1>11, <2>1, <3>2
  <2>4. MovedEarlier(x, y)
    BY <2>1, <2>2, <2>3, EarlierIsOrder
  <2> QED  BY <2>4 DEF x, y
<1>12. s \in [1 .. c -> S]
  BY <1>10
<1> HIDE DEF s
<1>13. DOMAIN s = 1 .. c
  BY <1>12
<1>14. Sorted(S, s)
  BY <1>11, <1>12, <1>13 DEF Sorted, c
<1> QED  BY <1>14

MovesTo(moves, k) == {m \in moves : m[4] = k}

\* What is put in front of item k: every move there, once, in order.
LEMMA InsertedFacts ==
  ASSUME NEW moves, IsFiniteSet(moves), moves \subseteq Quadruples, NEW k, NEW s, s = InsertedAt(moves, k)
  PROVE  /\ Sorted(MovesTo(moves, k), s)
         /\ Cardinality(MovesTo(moves, k)) \in Nat
         /\ \A m \in MovesTo(moves, k) : \E j \in DOMAIN s : s[j] = m
         /\ \A i, j \in DOMAIN s : MovedEarlier(s[i], s[j]) => i < j
<1> DEFINE S == MovesTo(moves, k)
           c == Cardinality(S)
<1>1. IsFiniteSet(S) /\ S \subseteq Quadruples /\ (\A m \in S : m[4] = k) /\ c \in Nat
  <2>1. S \subseteq moves
    BY DEF MovesTo
  <2> QED  BY <2>1, FS_Subset, FS_CardinalityType DEF MovesTo
<1>2. Sorted(S, s)
  <2>1. \E t : Sorted(S, t)
    <3> HIDE DEF S
    <3> QED  BY <1>1, SortingExists
  <2>2. s = CHOOSE t \in [1 .. c -> S] : \A i, j \in DOMAIN t : i < j => MovedEarlier(t[i], t[j])
    BY DEF InsertedAt, MovesTo
  <2>3. \E t \in [1 .. c -> S] : \A i, j \in DOMAIN t : i < j => MovedEarlier(t[i], t[j])
    BY <2>1 DEF Sorted
  <2> HIDE DEF S
  <2> QED  BY <2>2, <2>3, Zenon DEF Sorted
<1> HIDE DEF S, c
<1>3. s \in [1 .. c -> S] /\ DOMAIN s = 1 .. c /\ \A i, j \in 1 .. c : i < j => MovedEarlier(s[i], s[j])
  <2>1. s \in [1 .. c -> S] /\ \A i, j \in DOMAIN s : i < j => MovedEarlier(s[i], s[j])
    BY <1>2 DEF Sorted, c
  <2> QED  BY <2>1
<1>4. ASSUME NEW i \in 1 .. c, NEW j \in 1 .. c, MovedEarlier(s[i], s[j]) PROVE i < j
  <2>1. s[i] \in Quadruples /\ s[j] \in Quadruples
    BY <1>1, <1>3
  <2>2. i # j
    BY <1>4, <2>1, EarlierIsOrder
  <2>3. ~(j < i)
    <3>1. SUFFICES ASSUME j < i PROVE FALSE
      OBVIOUS
    <3>2. MovedEarlier(s[j], s[i])
      BY <1>3, <3>1
    <3>3. MovedEarlier(s[i], s[i])
      BY <1>4, <2>1, <3>2, EarlierIsOrder
    <3> QED  BY <2>1, <3>3, EarlierIsOrder
  <2> QED  BY <1>1, <2>2, <2>3
<1>5. s \in Injection(1 .. c, S)
  <2>1. ASSUME NEW i \in 1 .. c, NEW j \in 1 .. c, s[i] = s[j] PROVE i = j
    <3>1. s[i] \in Quadruples
      BY <1>1, <1>3
    <3>2. ~MovedEarlier(s[i], s[j]) /\ ~MovedEarlier(s[j], s[i])
      BY <2>1, <3>1, EarlierIsOrder
    <3>3. ~(i < j) /\ ~(j < i)
      BY <1>3, <3>2
    <3> QED  BY <1>1, <3>3
  <2> QED  BY <1>3, <2>1 DEF Injection, IsInjective
<1>6. IsFiniteSet(1 .. c) /\ Cardinality(1 .. c) = c
  BY <1>1, FS_Interval
<1>7. s \in Surjection(1 .. c, S)
  BY <1>1, <1>5, <1>6, FS_Injection DEF c
<1>8. \A m \in S : \E j \in 1 .. c : s[j] = m
  BY <1>7 DEF Surjection
<1> QED  BY <1>1, <1>2, <1>3, <1>4, <1>8 DEF S, c

-----------------------------------------------------------------------------
(* Loops: control enters one behind its preheader and nowhere else.         *)

\* The definition, with the chain of NaturalOrder named.
LEMMA ReachedByChain ==
  ASSUME NEW g, NEW start, NEW avoid
  PROVE  ReachedFrom(g, start, avoid)
           = (CHOOSE h : IsReachChain(g, start, avoid, Cardinality(g.blocks), h))[Cardinality(g.blocks)]
BY Zenon DEF ReachedFrom, IsReachChain, OneEdgeOn

\* What is reached is the least closed set that holds the start.
LEMMA ReachedIsLeast ==
  ASSUME NEW g, IsFiniteSet(g.blocks), g.edges \subseteq g.blocks \X g.blocks, NEW start \in SUBSET g.blocks, NEW avoid
  PROVE  /\ start \ avoid \subseteq ReachedFrom(g, start, avoid)
         /\ ReachedFrom(g, start, avoid) \subseteq g.blocks \ avoid
         /\ Closed(g, ReachedFrom(g, start, avoid), avoid)
         /\ \A C : start \ avoid \subseteq C /\ Closed(g, C, avoid) => ReachedFrom(g, start, avoid) \subseteq C
<1> DEFINE n == Cardinality(g.blocks)
           R == (CHOOSE h : IsReachChain(g, start, avoid, n, h))[n]
<1>1. IsFiniteSet(g.blocks) /\ g.edges \subseteq g.blocks \X g.blocks
  OBVIOUS
<1>2. ReachedFrom(g, start, avoid) = R
  BY Zenon, ReachedByChain
<1>3. /\ start \ avoid \subseteq R /\ R \subseteq g.blocks \ avoid /\ Closed(g, R, avoid)
      /\ \A C : start \ avoid \subseteq C /\ Closed(g, C, avoid) => R \subseteq C
  BY <1>1, Zenon, ReachChainIsLeast
<1> HIDE DEF R
<1> QED  BY <1>2, <1>3

\* The graph of a program is one.
LEMMA GraphFacts ==
  ASSUME NEW p, IsProgram(p)
  PROVE  LET g == BuildCFG(p)
         IN  /\ g.blocks = Leaders(p) /\ IsFiniteSet(g.blocks) /\ g.edges \subseteq g.blocks \X g.blocks
             /\ \A b, c : <<b, c>> \in g.edges <=> b \in Leaders(p) /\ c \in Successors(p, b)
<1> DEFINE g == BuildCFG(p)
           edges == UNION {{b} \X Successors(p, b) : b \in Leaders(p)}
<1>1. g.blocks = Leaders(p) /\ g.edges = edges
  BY DEF BuildCFG
<1>2. IsFiniteSet(Leaders(p))
  <2>1. IsFiniteSet(1 .. Len(p) + 1)
    BY ProgramFacts, FS_Interval
  <2>2. Leaders(p) \subseteq 1 .. Len(p) + 1
    BY ProgramFacts, LeadersFacts
  <2> QED  BY <2>1, <2>2, FS_Subset
<1>3. \A b, c : <<b, c>> \in edges <=> b \in Leaders(p) /\ c \in Successors(p, b)
  OBVIOUS
<1>4. edges \subseteq Leaders(p) \X Leaders(p)
  <2>1. \A b \in Leaders(p) : Successors(p, b) \subseteq Leaders(p)
    BY SuccessorsAreLeaders
  <2> QED  BY <2>1
<1> HIDE DEF g, edges
<1> QED  BY <1>1, <1>2, <1>3, <1>4 DEF g

\* A block from which control goes to a block of a loop is in the loop, unless
\* that block is the header.
LEMMA BodyIsClosed ==
  ASSUME NEW p, IsProgram(p), NEW t, NEW hd \in Leaders(p), NEW b \in LoopBody(BuildCFG(p), t, hd), b # hd,
         NEW c \in Leaders(p), b \in Successors(p, c)
  PROVE  c \in LoopBody(BuildCFG(p), t, hd)
<1> DEFINE g == BuildCFG(p)
           R(x) == ReachedFrom(g, {x}, {hd})
<1>1. /\ g.blocks = Leaders(p) /\ IsFiniteSet(g.blocks) /\ g.edges \subseteq g.blocks \X g.blocks
      /\ <<c, b>> \in g.edges
  BY GraphFacts
<1>2. LoopBody(g, t, hd) = {hd} \cup {x \in g.blocks : t \in R(x)}
  BY DEF LoopBody
<1>3. b \in g.blocks /\ t \in R(b)
  BY <1>2
<1>4. CASE c = hd
  BY <1>2, <1>4
<1>5. CASE c # hd
  <2>1. {b} \in SUBSET g.blocks /\ {c} \in SUBSET g.blocks /\ {b} \ {hd} = {b} /\ {c} \ {hd} = {c}
    BY <1>1, <1>3, <1>5
  <2>2. c \in R(c) /\ Closed(g, R(c), {hd})
    <3> HIDE DEF g
    <3> QED  BY <1>1, <2>1, ReachedIsLeast
  <2>3. \A C : b \in C /\ Closed(g, C, {hd}) => R(b) \subseteq C
    <3> HIDE DEF g
    <3>1. \A C : {b} \ {hd} \subseteq C /\ Closed(g, C, {hd}) => R(b) \subseteq C
      BY <1>1, <2>1, ReachedIsLeast
    <3> QED  BY <2>1, <3>1
  <2>4. b \in R(c)
    <3> DEFINE e == <<c, b>>
    <3>1. e \in g.edges /\ e[1] = c /\ e[2] = b
      BY <1>1
    <3> HIDE DEF e, g
    <3> QED  BY <2>2, <3>1 DEF Closed
  <2>5. t \in R(c)
    BY <1>3, <2>2, <2>3, <2>4
  <2>6. c \in LoopBody(g, t, hd)
    <3> HIDE DEF g, R
    <3> QED  BY <1>1, <1>2, <2>5
  <2> QED  BY <2>6
<1> QED  BY <1>4, <1>5

\* Item k is in the loop.
Inside(p, l, k) == \E b \in l.blocks : k \in b .. BlockEnd(p, b)

\* A loop a pass moves out of: its blocks, and where its preheader ends.
LEMMA HoistableFacts ==
  ASSUME NEW p, IsProgram(p), NEW l \in Hoistable(p)
  PROVE  /\ l.blocks = LoopBody(BuildCFG(p), l.tail, l.header) /\ l.blocks \subseteq Leaders(p)
         /\ l.tail \in Leaders(p) /\ l.header \in Leaders(p) /\ l.header \in l.blocks
         /\ l = [tail |-> l.tail, header |-> l.header, blocks |-> LoopBody(BuildCFG(p), l.tail, l.header)]
         /\ InsertBefore(p, l) \in 1 .. Len(p) /\ ~IsLabel(p[InsertBefore(p, l)])
         /\ \A c \in Leaders(p) : l.header \in Successors(p, c) /\ c \notin l.blocks => InsertBefore(p, l) = BlockEnd(p, c)
<1> DEFINE g == BuildCFG(p)
<1>1. /\ g.blocks = Leaders(p) /\ IsFiniteSet(g.blocks) /\ g.edges \subseteq g.blocks \X g.blocks
      /\ \A b, c : <<b, c>> \in g.edges <=> b \in Leaders(p) /\ c \in Successors(p, b)
  BY GraphFacts
<1>2. PICK e \in BackEdges(g) : l = [tail |-> e[1], header |-> e[2], blocks |-> LoopBody(g, e[1], e[2])]
  BY DEF Hoistable, Loops
<1>3. e[1] \in Leaders(p) /\ e[2] \in Leaders(p)
  <2> HIDE DEF g
  <2>1. e \in g.edges
    BY DEF BackEdges
  <2> QED  BY <1>1, <2>1
<1>4. l.blocks = LoopBody(g, e[1], e[2]) /\ l.tail = e[1] /\ l.header = e[2]
  BY <1>2
<1>5. l.blocks \subseteq Leaders(p) /\ l.header \in l.blocks
  <2> HIDE DEF g
  <2> QED  BY <1>1, <1>3, <1>4 DEF LoopBody
<1>6. PICK b \in Preheaders(p, l) : Preheaders(p, l) = {b} /\ Instructions(p, b) # {}
  BY DEF Hoistable
<1>7. b \in Leaders(p) /\ InsertBefore(p, l) = Max(Instructions(p, b))
  <2>1. b \in g.blocks
    BY <1>6 DEF Preheaders, Pred
  <2>2. (CHOOSE c \in Preheaders(p, l) : TRUE) = b
    BY <1>6
  <2> QED  BY <1>1, <2>1, <2>2 DEF InsertBefore
<1>8. BlockEnd(p, b) \in Instructions(p, b) /\ BlockEnd(p, b) \in 1 .. Len(p)
  <2>1. PICK k \in b .. BlockEnd(p, b) : ~IsLabel(p[k])
    BY <1>6 DEF Instructions
  <2>2. /\ Len(p) \in Nat /\ BlockEnd(p, b) \in b - 1 .. Len(p) /\ b \in 1 .. Len(p) + 1
        /\ (\A j \in b + 1 .. BlockEnd(p, b) : j \notin Leaders(p)) /\ LabelPositions(p) \subseteq Leaders(p)
    BY <1>7, BlockFacts, LeadersFacts, ProgramFacts
  <2>3. BlockEnd(p, b) \in b .. BlockEnd(p, b) /\ BlockEnd(p, b) \in 1 .. Len(p)
    BY <2>1, <2>2
  <2>4. ~IsLabel(p[BlockEnd(p, b)])
    <3>1. CASE BlockEnd(p, b) = b
      BY <2>1, <2>2, <3>1
    <3>2. CASE BlockEnd(p, b) # b
      <4>1. BlockEnd(p, b) \notin Leaders(p)
        BY <2>2, <2>3, <3>2
      <4> QED  BY <2>2, <2>3, <4>1 DEF LabelPositions
    <3> QED  BY <3>1, <3>2
  <2> QED  BY <2>3, <2>4 DEF Instructions
<1>9. InsertBefore(p, l) = BlockEnd(p, b)
  <2> DEFINE S == Instructions(p, b)
             m == BlockEnd(p, b)
  <2>1. m \in S /\ S \subseteq Int /\ \A k \in S : m >= k
    BY <1>8, <1>7, LeadersFacts, ProgramFacts DEF Instructions
  <2>2. Max(S) \in S /\ \A k \in S : Max(S) >= k
    <3> HIDE DEF S, m
    <3> QED  BY <2>1, Zenon DEF Max
  <2>3. Max(S) = m
    <3> DEFINE x == Max(S)
    <3>1. x \in S /\ x >= m /\ m >= x /\ m \in Int /\ x \in Int
      <4> HIDE DEF S, m
      <4> QED  BY <2>1, <2>2
    <3> HIDE DEF S, m, x
    <3>2. x = m
      BY <3>1
    <3> QED  BY <3>2 DEF x
  <2> QED  BY <1>7, <2>3
<1>10. ~IsLabel(p[BlockEnd(p, b)])
  BY <1>8 DEF Instructions
<1>11. ASSUME NEW c \in Leaders(p), l.header \in Successors(p, c), c \notin l.blocks PROVE c = b
  <2>1. <<c, l.header>> \in g.edges
    BY <1>1, <1>11
  <2>2. c \in Preheaders(p, l)
    <3> HIDE DEF g
    <3>1. c \in Pred(g, l.header)
      BY <1>1, <1>11, <2>1 DEF Pred
    <3> QED  BY <1>11, <3>1 DEF Preheaders, g
  <2> QED  BY <1>6, <2>2
<1> QED  BY <1>2, <1>3, <1>4, <1>5, <1>8, <1>9, <1>10, <1>11

\* Control comes into a loop from behind its preheader.
LEMMA LoopEntered ==
  ASSUME NEW p, IsProgram(p), ReturnsAreFinal(p), NEW l \in Hoistable(p), NEW x \in 1 .. Len(p),
         NEW y \in ItemSuccessors(p, x), y <= Len(p), Inside(p, l, y)
  PROVE  Inside(p, l, x) \/ x = InsertBefore(p, l)
<1>1. Len(p) \in Nat /\ Len(p) > 0 /\ Leaders(p) \subseteq 1 .. Len(p) /\ LabelPositions(p) \subseteq Leaders(p)
  BY ProgramFacts, LeadersFacts
<1>2. PICK b \in Leaders(p) : x \in b .. BlockEnd(p, b)
  BY <1>1, InSomeBlock
<1>3. /\ l.blocks = LoopBody(BuildCFG(p), l.tail, l.header) /\ l.blocks \subseteq Leaders(p)
      /\ l.header \in Leaders(p)
      /\ \A c \in Leaders(p) : l.header \in Successors(p, c) /\ c \notin l.blocks => InsertBefore(p, l) = BlockEnd(p, c)
  BY HoistableFacts
<1>4. PICK d \in l.blocks : y \in d .. BlockEnd(p, d)
  BY DEF Inside
<1>5. d \in Leaders(p)
  BY <1>3
<1>6. ASSUME y \notin Leaders(p), y = x + 1, x < BlockEnd(p, b) PROVE d = b
  <2>1. y \in b .. BlockEnd(p, b)
    BY <1>1, <1>2, <1>6, BlockFacts
  <2> QED  BY <1>4, <1>5, <2>1, InOneBlock
<1>7. ASSUME y \in Leaders(p), y \in Successors(p, b), x = BlockEnd(p, b)
      PROVE  b \in l.blocks \/ x = InsertBefore(p, l)
  <2>1. y \in y .. BlockEnd(p, y)
    BY <1>1, <1>7, BlockFacts
  <2>2. y = d
    BY <1>4, <1>5, <1>7, <2>1, InOneBlock
  <2>3. CASE d = l.header
    BY <1>3, <1>7, <2>2, <2>3
  <2>4. CASE d # l.header
    <3>1. b \in LoopBody(BuildCFG(p), l.tail, l.header)
      BY <1>3, <1>7, <2>2, <2>4, BodyIsClosed
    <3> QED  BY <1>3, <3>1
  <2> QED  BY <2>3, <2>4
<1>8. \/ y = x + 1 /\ x < BlockEnd(p, b) /\ y \notin Leaders(p)
      \/ y \in Leaders(p) /\ y \in Successors(p, b) /\ x = BlockEnd(p, b)
  BY <1>1, <1>2, StaticControl
<1> QED  BY <1>2, <1>6, <1>7, <1>8 DEF Inside

-----------------------------------------------------------------------------
(* What both passes make of a program: each item of it with what is moved   *)
(* in front of it, or that alone.                                           *)

ArgRegs(i) == {i.args[k].reg : k \in DOMAIN i.args} \ {""}

\* The move m takes an instruction out of a loop that does not change what it
\* computes, and what it reads of the loop goes with it.
IsMove(p, moves, m) ==
  /\ m \in Quadruples /\ LoopOf(p, m) \in Hoistable(p)
  /\ m[3] \in Repeated(p, m) /\ m[4] = InsertBefore(p, LoopOf(p, m))
  /\ ~p[m[3]].guarded /\ p[m[3]].op \in PureResultBases \cup {"ld"}
  /\ LoopDefinitions(p, LoopOf(p, m), p[m[3]].dest) = {m[3]}
  /\ p[m[3]].op = "ld" => ~LoopWithStore(p, LoopOf(p, m))
  /\ \A r \in ArgRegs(p[m[3]]) : \A d \in LoopDefinitions(p, LoopOf(p, m), r) : <<m[1], m[2], d, m[4]>> \in moves
Moving(p, moves) == IsFiniteSet(moves) /\ \A m \in moves : IsMove(p, moves, m)

IsMoved(moves, k) == \E m \in moves : m[3] = k

\* The items of a loop.
LEMMA LoopItemFacts ==
  ASSUME NEW p, IsProgram(p), NEW l \in Hoistable(p), NEW k
  PROVE  k \in LoopInstructions(p, l) <=> k \in 1 .. Len(p) /\ ~IsLabel(p[k]) /\ Inside(p, l, k)
<1>1. l.blocks \subseteq Leaders(p)
  BY HoistableFacts
<1>2. \A b \in l.blocks : b \in 1 .. Len(p) + 1 /\ BlockEnd(p, b) \in b - 1 .. Len(p)
  BY <1>1, BlockFacts, LeadersFacts, ProgramFacts
<1>3. Len(p) \in Nat
  BY ProgramFacts
<1>4. \A b \in l.blocks : \A j \in b .. BlockEnd(p, b) : j \in 1 .. Len(p)
  BY <1>2, <1>3
<1> QED  BY <1>4 DEF LoopInstructions, Instructions, Inside

\* What is moved, and where it stood and where it goes.
LEMMA MoveFacts ==
  ASSUME NEW p, IsProgram(p), NEW moves, Moving(p, moves), NEW m \in moves
  PROVE  /\ IsMove(p, moves, m)
         /\ m[3] \in 1 .. Len(p) /\ ~IsLabel(p[m[3]]) /\ p[m[3]] \in Items /\ WellFormed(p[m[3]])
         /\ p[m[3]].kind = "op" /\ p[m[3]].op # "st" /\ p[m[3]].dest \in DataRegs \cup PredRegs
         /\ m[4] \in 1 .. Len(p) /\ ~IsLabel(p[m[4]])
         /\ Inside(p, LoopOf(p, m), m[3])
<1>1. IsMove(p, moves, m)
  BY DEF Moving
<1>2. LoopOf(p, m) \in Hoistable(p) /\ m[3] \in LoopInstructions(p, LoopOf(p, m)) /\ m[4] = InsertBefore(p, LoopOf(p, m))
      /\ p[m[3]].op \in PureResultBases \cup {"ld"}
  BY <1>1 DEF IsMove, Repeated
<1>3. m[3] \in 1 .. Len(p) /\ ~IsLabel(p[m[3]]) /\ Inside(p, LoopOf(p, m), m[3])
  BY <1>2, LoopItemFacts
<1>4. p[m[3]] \in Items /\ WellFormed(p[m[3]])
  BY <1>3, ProgramFacts
<1>5. p[m[3]].kind = "op" /\ p[m[3]].op # "st"
  BY <1>2, <1>4 DEF WellFormed, PureResultBases, DestinationBases
<1>6. p[m[3]].dest \in DataRegs \cup PredRegs
  BY <1>4, <1>5 DEF WellFormed
<1>7. m[4] \in 1 .. Len(p) /\ ~IsLabel(p[m[4]])
  BY <1>2, HoistableFacts
<1> QED  BY <1>1, <1>3, <1>4, <1>5, <1>6, <1>7

\* There are finitely many moves.
LEMMA MovingFacts ==
  ASSUME NEW p, NEW moves, Moving(p, moves)
  PROVE  IsFiniteSet(moves) /\ moves \subseteq Quadruples
BY DEF Moving, IsMove

\* What stands where item k stood.
LEMMA PieceFacts ==
  ASSUME NEW p, IsProgram(p), NEW moves, Moving(p, moves), NEW k \in 1 .. Len(p),
         NEW s, s = InsertedAt(moves, k), NEW g, g = Piece(p, moves, k)
  PROVE  /\ Len(s) \in Nat /\ DOMAIN s = 1 .. Len(s) /\ g \in Seq(Items)
         /\ Len(g) = IF IsMoved(moves, k) THEN Len(s) ELSE Len(s) + 1
         /\ \A j \in 1 .. Len(s) : s[j] \in moves /\ s[j][4] = k /\ g[j] = p[s[j][3]]
         /\ ~IsMoved(moves, k) => g[Len(s) + 1] = p[k]
         /\ \A m \in moves : m[4] = k => \E j \in 1 .. Len(s) : s[j] = m
         /\ \A i, j \in 1 .. Len(s) : MovedEarlier(s[i], s[j]) => i < j
<1> DEFINE S == MovesTo(moves, k)
           c == Cardinality(S)
           u == [j \in DOMAIN s |-> p[s[j][3]]]
           v == IF IsMoved(moves, k) THEN << >> ELSE <<p[k]>>
<1>1. /\ s \in [1 .. c -> S] /\ c \in Nat
      /\ \A m \in S : \E j \in DOMAIN s : s[j] = m
      /\ \A i, j \in DOMAIN s : MovedEarlier(s[i], s[j]) => i < j
  BY MovingFacts, InsertedFacts DEF Sorted
<1>2. \A m \in S : m \in moves /\ m[4] = k
  BY DEF MovesTo
<1>3. \A m \in moves : m[4] = k => m \in S
  BY DEF MovesTo
<1> HIDE DEF S, c
<1>4. DOMAIN s = 1 .. c /\ Len(s) = c
  BY <1>1
<1>5. \A j \in 1 .. c : s[j] \in moves /\ s[j][4] = k /\ p[s[j][3]] \in Items
  BY <1>1, <1>2, MoveFacts
<1>6. u \in Seq(Items) /\ Len(u) = c /\ \A j \in 1 .. c : u[j] = p[s[j][3]]
  BY <1>1, <1>4, <1>5
<1>7. p[k] \in Items
  BY ProgramFacts
<1>8. v \in Seq(Items) /\ Len(v) = (IF IsMoved(moves, k) THEN 0 ELSE 1) /\ (~IsMoved(moves, k) => v[1] = p[k])
  BY <1>7
<1>9. g = u \o v
  BY DEF Piece, IsMoved
<1> HIDE DEF u, v
<1>10. g \in Seq(Items) /\ Lengthened(u, v, g)
  BY <1>6, <1>8, <1>9, ConcatLengthens
<1>11. /\ Len(g) = c + Len(v)
       /\ \A j \in 1 .. c : g[j] = u[j]
       /\ \A j \in 1 .. Len(v) : g[c + j] = v[j]
  BY <1>6, <1>10 DEF Lengthened
<1>12. ~IsMoved(moves, k) => g[c + 1] = p[k]
  <2>1. SUFFICES ASSUME ~IsMoved(moves, k) PROVE g[c + 1] = p[k]
    OBVIOUS
  <2>2. 1 \in 1 .. Len(v)
    BY <1>8, <2>1
  <2> QED  BY <1>8, <1>11, <2>1, <2>2
<1>13. Len(g) = IF IsMoved(moves, k) THEN c ELSE c + 1
  BY <1>1, <1>8, <1>11
<1> QED  BY <1>1, <1>3, <1>4, <1>5, <1>6, <1>10, <1>11, <1>12, <1>13

\* Where the pieces stand in q: that of item k begins at at[k], with the moves
\* put[k].
Layout(p, moves, q, at, put) ==
  /\ IsProgram(q)
  /\ at[1] = 1 /\ at[Len(p) + 1] = Len(q) + 1
  /\ \A k \in 1 .. Len(p) + 1 : at[k] \in 1 .. Len(q) + 1
  /\ \A k \in 1 .. Len(p) :
       /\ IsLabel(p[k]) => LabelAt(q, p[k].label) = at[k] /\ put[k] = << >>
       /\ Len(put[k]) \in Nat
       /\ \A j \in 1 .. Len(put[k]) : /\ put[k][j] \in moves /\ put[k][j][4] = k
                                      /\ at[k] + j - 1 \in 1 .. Len(q)
                                      /\ q[at[k] + j - 1] = p[put[k][j][3]]
       /\ \A m \in moves : m[4] = k => \E j \in 1 .. Len(put[k]) : put[k][j] = m
       /\ \A i, j \in 1 .. Len(put[k]) : MovedEarlier(put[k][i], put[k][j]) => i < j
       /\ IF IsMoved(moves, k) THEN at[k + 1] = at[k] + Len(put[k])
          ELSE /\ at[k + 1] = at[k] + Len(put[k]) + 1
               /\ at[k] + Len(put[k]) \in 1 .. Len(q) /\ q[at[k] + Len(put[k])] = p[k]

\* They stand somewhere.
LEMMA RebuiltLayout ==
  ASSUME NEW p, IsProgram(p), NEW moves, Moving(p, moves)
  PROVE  \E at, put : Layout(p, moves, Rebuilt(p, moves), at, put)
<1> DEFINE n == Len(p)
           g == [k \in 1 .. n |-> Piece(p, moves, k)]
           h == CHOOSE f : Joined(g, n, f)
           q == h[n]
           at == [k \in 1 .. n + 1 |-> Place(h, k)]
           put == [k \in 1 .. n |-> InsertedAt(moves, k)]
<1>1. n \in Nat
  BY ProgramFacts
<1>2. ASSUME NEW k \in 1 .. n
      PROVE  LET s == put[k]
             IN  /\ Len(s) \in Nat /\ g[k] \in Seq(Items)
                 /\ Len(g[k]) = IF IsMoved(moves, k) THEN Len(s) ELSE Len(s) + 1
                 /\ \A j \in 1 .. Len(s) : s[j] \in moves /\ s[j][4] = k /\ g[k][j] = p[s[j][3]]
                 /\ ~IsMoved(moves, k) => g[k][Len(s) + 1] = p[k]
                 /\ \A m \in moves : m[4] = k => \E j \in 1 .. Len(s) : s[j] = m
                 /\ \A i, j \in 1 .. Len(s) : MovedEarlier(s[i], s[j]) => i < j
                 /\ DOMAIN s = 1 .. Len(s)
  <2> DEFINE s == put[k]
             t == g[k]
  <2>1. s = InsertedAt(moves, k) /\ t = Piece(p, moves, k)
    OBVIOUS
  <2> HIDE DEF s, t
  <2>2. /\ Len(s) \in Nat /\ t \in Seq(Items)
        /\ Len(t) = IF IsMoved(moves, k) THEN Len(s) ELSE Len(s) + 1
        /\ \A j \in 1 .. Len(s) : s[j] \in moves /\ s[j][4] = k /\ t[j] = p[s[j][3]]
        /\ ~IsMoved(moves, k) => t[Len(s) + 1] = p[k]
        /\ \A m \in moves : m[4] = k => \E j \in 1 .. Len(s) : s[j] = m
        /\ \A i, j \in 1 .. Len(s) : MovedEarlier(s[i], s[j]) => i < j
        /\ DOMAIN s = 1 .. Len(s)
    <3>1. k \in 1 .. Len(p)
      OBVIOUS
    <3> HIDE DEF g, h, n
    <3>2. Len(s) \in Nat /\ DOMAIN s = 1 .. Len(s) /\ t \in Seq(Items)
      BY <2>1, <3>1, PieceFacts
    <3>3. Len(t) = IF IsMoved(moves, k) THEN Len(s) ELSE Len(s) + 1
      BY <2>1, <3>1, PieceFacts
    <3>4. /\ \A j \in 1 .. Len(s) : s[j] \in moves /\ s[j][4] = k /\ t[j] = p[s[j][3]]
          /\ ~IsMoved(moves, k) => t[Len(s) + 1] = p[k]
      BY <2>1, <3>1, PieceFacts
    <3>5. /\ \A m \in moves : m[4] = k => \E j \in 1 .. Len(s) : s[j] = m
          /\ \A i, j \in 1 .. Len(s) : MovedEarlier(s[i], s[j]) => i < j
      BY <2>1, <3>1, PieceFacts, SMTT(40)
    <3> QED  BY <3>2, <3>3, <3>4, <3>5
  <2> QED  BY <2>2 DEF s, t
<1>3. g \in [1 .. n -> Seq(Items)]
  <2> HIDE DEF put
  <2>1. \A k \in 1 .. n : g[k] \in Seq(Items)
    BY <1>2
  <2> QED  BY <2>1
<1>4. Rebuilt(p, moves) = q
  <2>1. Rebuilt(p, moves) = (CHOOSE f : f = [k \in 0 .. n |-> IF k = 0 THEN << >> ELSE f[k-1] \o Piece(p, moves, k)])[n]
    BY Zenon DEF Rebuilt
  <2>2. ASSUME NEW f
        PROVE  (f = [k \in 0 .. n |-> IF k = 0 THEN << >> ELSE f[k-1] \o Piece(p, moves, k)]) <=> Joined(g, n, f)
    <3>1. ASSUME NEW k \in 0 .. n, k # 0 PROVE g[k] = Piece(p, moves, k)
      <4>1. k \in 1 .. n
        BY <1>1, <3>1
      <4> QED  BY <4>1
    <3> HIDE DEF g, n
    <3>2. [k \in 0 .. n |-> IF k = 0 THEN << >> ELSE f[k-1] \o Piece(p, moves, k)]
            = [k \in 0 .. n |-> IF k = 0 THEN << >> ELSE f[k-1] \o g[k]]
      BY <3>1, Zenon
    <3> QED  BY <3>2, Zenon DEF Joined
  <2> HIDE DEF g, n
  <2> QED  BY <2>1, <2>2, Zenon
<1>5. Joined(g, n, h)
  <2> HIDE DEF g
  <2>1. \E f : Joined(g, n, f)
    BY <1>1, <1>3, JoinsExist
  <2> QED  BY <2>1, Zenon
<1> HIDE DEF g, h, put, n
<1>6. JoinedFrom(Items, g, n, h)
  BY <1>1, <1>3, <1>5 DEF JoinedFrom
<1>7. /\ q \in Seq(Items) /\ Len(q) \in Nat
      /\ Place(h, 1) = 1 /\ Place(h, n + 1) = Len(q) + 1
      /\ \A k \in 1 .. n + 1 : Place(h, k) \in 1 .. Len(q) + 1
      /\ \A k \in 1 .. n : Place(h, k + 1) = Place(h, k) + Len(g[k])
      /\ \A k \in 1 .. n : \A i \in 1 .. Len(g[k]) :
           /\ Place(h, k) + i - 1 \in 1 .. Len(q)
           /\ q[Place(h, k) + i - 1] = g[k][i]
      /\ \A m \in 1 .. Len(q) : \E k \in 1 .. n : \E i \in 1 .. Len(g[k]) : m = Place(h, k) + i - 1
  <2>1. q \in Seq(Items) => Len(q) \in Nat
    OBVIOUS
  <2>2. /\ h[n] \in Seq(Items)
        /\ Place(h, 1) = 1 /\ Place(h, n + 1) = Len(h[n]) + 1
        /\ \A k \in 1 .. n + 1 : Place(h, k) \in 1 .. Len(h[n]) + 1
        /\ \A k \in 1 .. n : \A i \in 1 .. Len(g[k]) :
             /\ Place(h, k) + i - 1 \in 1 .. Len(h[n])
             /\ h[n][Place(h, k) + i - 1] = g[k][i]
        /\ \A m \in 1 .. Len(h[n]) : \E k \in 1 .. n : \E i \in 1 .. Len(g[k]) : m = Place(h, k) + i - 1
    <3> HIDE DEF Items
    <3>1. h[n] \in Seq(Items)
      BY <1>6, JoinPlaces
    <3>2. Place(h, 1) = 1
      BY <1>6, JoinPlaces
    <3> QED  BY <1>6, JoinPlaces, SMTT(40)
  <2>3. \A k \in 1 .. n : Place(h, k + 1) = Place(h, k) + Len(g[k])
    BY <1>6, JoinLengths
  <2> QED  BY <2>1, <2>2, <2>3
<1>8. \A k \in 1 .. n + 1 : at[k] = Place(h, k)
  OBVIOUS
<1>9. /\ at[1] = 1 /\ at[n + 1] = Len(q) + 1
      /\ \A k \in 1 .. n + 1 : at[k] \in 1 .. Len(q) + 1
      /\ \A k \in 1 .. n : at[k + 1] = at[k] + Len(g[k])
      /\ \A k \in 1 .. n : \A i \in 1 .. Len(g[k]) :
           /\ at[k] + i - 1 \in 1 .. Len(q)
           /\ q[at[k] + i - 1] = g[k][i]
      /\ \A m \in 1 .. Len(q) : \E k \in 1 .. n : \E i \in 1 .. Len(g[k]) : m = at[k] + i - 1
      /\ \A j, k \in 1 .. n : \A x \in 1 .. Len(g[j]) : \A y \in 1 .. Len(g[k]) :
           at[j] + x - 1 = at[k] + y - 1 => j = k /\ x = y
  <2>1. 1 \in 1 .. n + 1 /\ n + 1 \in 1 .. n + 1 /\ \A k \in 1 .. n : k \in 1 .. n + 1 /\ k + 1 \in 1 .. n + 1
    BY <1>1
  <2>2. \A j, k \in 1 .. n : \A x \in 1 .. Len(g[j]) : \A y \in 1 .. Len(g[k]) :
           Place(h, j) + x - 1 = Place(h, k) + y - 1 => j = k /\ x = y
    BY <1>6, JoinedApart
  <2> HIDE DEF at, q
  <2>3. at[1] = 1 /\ at[n + 1] = Len(q) + 1 /\ \A k \in 1 .. n + 1 : at[k] \in 1 .. Len(q) + 1
    BY <1>7, <1>8, <2>1
  <2>4. \A k \in 1 .. n : at[k] = Place(h, k) /\ at[k + 1] = Place(h, k + 1)
    BY <1>8, <2>1
  <2>5. \A k \in 1 .. n : at[k + 1] = at[k] + Len(g[k])
    BY <1>7, <2>4
  <2>6. \A k \in 1 .. n : \A i \in 1 .. Len(g[k]) :
           /\ at[k] + i - 1 \in 1 .. Len(q)
           /\ q[at[k] + i - 1] = g[k][i]
    BY <1>7, <2>4
  <2>7. \A m \in 1 .. Len(q) : \E k \in 1 .. n : \E i \in 1 .. Len(g[k]) : m = at[k] + i - 1
    BY <1>7, <2>4
  <2>8. \A j, k \in 1 .. n : \A x \in 1 .. Len(g[j]) : \A y \in 1 .. Len(g[k]) :
           at[j] + x - 1 = at[k] + y - 1 => j = k /\ x = y
    BY <2>2, <2>4
  <2> QED  BY <2>3, <2>5, <2>6, <2>7, <2>8
<1>a. q \in Seq(Items) /\ Len(q) \in Nat
  BY <1>7
<1> HIDE DEF q, at
\* Labels stay where they are, in front of their piece.
<1>10. ASSUME NEW k \in 1 .. n, NEW i \in 1 .. Len(g[k]) 
       PROVE  /\ ~IsLabel(p[k]) => ~IsLabel(g[k][i])
              /\ WellFormed(g[k][i]) /\ (IsBranch(g[k][i]) => g[k][i] = p[k])
              /\ IsLabel(p[k]) => i = 1 /\ g[k][i] = p[k]
  <2> DEFINE s == put[k]
  <2>1. /\ Len(s) \in Nat
        /\ Len(g[k]) = IF IsMoved(moves, k) THEN Len(s) ELSE Len(s) + 1
        /\ \A j \in 1 .. Len(s) : s[j] \in moves /\ s[j][4] = k /\ g[k][j] = p[s[j][3]]
        /\ ~IsMoved(moves, k) => g[k][Len(s) + 1] = p[k]
    BY <1>2
  <2> HIDE DEF s
  <2>2. CASE i \in 1 .. Len(s)
    <3>1. s[i] \in moves /\ s[i][4] = k /\ g[k][i] = p[s[i][3]]
      BY <2>1, <2>2
    <3>2. ~IsLabel(p[k]) /\ ~IsLabel(g[k][i]) /\ WellFormed(g[k][i]) /\ g[k][i].kind = "op"
      BY <3>1, MoveFacts
    <3> QED  BY <3>2 DEF IsBranch
  <2>3. CASE ~(i \in 1 .. Len(s))
    <3>1. i = Len(s) + 1 /\ ~IsMoved(moves, k) /\ g[k][i] = p[k]
      BY <2>1, <2>3
    <3>2. WellFormed(p[k])
      BY ProgramFacts DEF n
    <3>3. IsLabel(p[k]) => i = 1
      <4>1. SUFFICES ASSUME IsLabel(p[k]), Len(s) # 0 PROVE FALSE
        BY <2>1, <3>1
      <4>2. 1 \in 1 .. Len(s)
        BY <2>1, <4>1
      <4>3. s[1] \in moves /\ s[1][4] = k
        BY <2>1, <4>2
      <4> QED  BY <4>1, <4>3, MoveFacts
    <3> QED  BY <3>1, <3>2, <3>3
  <2> QED  BY <2>2, <2>3
<1>11. ASSUME NEW k \in 1 .. n, IsLabel(p[k])
       PROVE  ~IsMoved(moves, k) /\ Len(put[k]) = 0 /\ 1 \in 1 .. Len(g[k]) /\ at[k] \in 1 .. Len(q) /\ q[at[k]] = p[k]
  <2>1. ~IsMoved(moves, k)
    BY <1>11, MoveFacts DEF IsMoved
  <2>2. Len(put[k]) = 0
    <3>1. SUFFICES ASSUME Len(put[k]) # 0 PROVE FALSE
      OBVIOUS
    <3>2. 1 \in 1 .. Len(put[k])
      BY <1>2, <3>1
    <3>3. put[k][1] \in moves /\ put[k][1][4] = k
      BY <1>2, <3>2
    <3> QED  BY <1>11, <3>3, MoveFacts
  <2>3. 1 \in 1 .. Len(g[k]) /\ g[k][1] = p[k]
    BY <1>2, <2>1, <2>2
  <2>4. at[k] \in 1 .. Len(q) + 1 /\ at[k] + 1 - 1 \in 1 .. Len(q) /\ q[at[k] + 1 - 1] = g[k][1]
    <3>1. k \in 1 .. n + 1
      BY <1>1
    <3> QED  BY <1>9, <2>3, <3>1
  <2>5. at[k] + 1 - 1 = at[k]
    BY <1>a, <2>4
  <2> QED  BY <2>1, <2>2, <2>3, <2>4, <2>5
<1>12. ASSUME NEW m \in LabelPositions(q) PROVE \E k \in LabelPositions(p) : m = at[k] /\ q[m] = p[k]
  <2>1. m \in 1 .. Len(q) /\ IsLabel(q[m])
    BY DEF LabelPositions
  <2>2. PICK k \in 1 .. n : \E i \in 1 .. Len(g[k]) : m = at[k] + i - 1
    BY <1>9, <2>1
  <2>3. PICK i \in 1 .. Len(g[k]) : m = at[k] + i - 1
    BY <2>2
  <2>4. q[m] = g[k][i]
    BY <1>9, <2>3
  <2>5. IsLabel(p[k]) /\ i = 1 /\ q[m] = p[k]
    BY <1>10, <2>1, <2>4
  <2>6. m = at[k]
    <3>1. k \in 1 .. n + 1
      BY <1>1
    <3>2. at[k] \in 1 .. Len(q) + 1
      BY <1>9, <3>1
    <3> QED  BY <1>a, <2>3, <2>5, <3>2
  <2> QED  BY <2>5, <2>6 DEF LabelPositions, n
<1>13. ASSUME NEW k \in LabelPositions(p) PROVE at[k] \in LabelPositions(q) /\ q[at[k]] = p[k]
  BY <1>11 DEF LabelPositions, n
<1>14. \A j, m \in LabelPositions(q) : q[j].label = q[m].label => j = m
  <2>1. SUFFICES ASSUME NEW j \in LabelPositions(q), NEW m \in LabelPositions(q), q[j].label = q[m].label
                 PROVE  j = m
    OBVIOUS
  <2>2. PICK a \in LabelPositions(p) : j = at[a] /\ q[j] = p[a]
    BY <1>12
  <2>3. PICK b \in LabelPositions(p) : m = at[b] /\ q[m] = p[b]
    BY <1>12
  <2>4. a = b
    BY <2>1, <2>2, <2>3, LabelsAreUnique
  <2> QED  BY <2>2, <2>3, <2>4
<1>15. Cardinality(LabelPositions(q)) = Cardinality(LabelsOf(q))
  BY <1>a, <1>14, DifferentLabels
<1>16. ASSUME NEW m \in 1 .. Len(q)
       PROVE  WellFormed(q[m]) /\ (IsBranch(q[m]) => q[m].label \in LabelsOf(q))
  <2>1. PICK k \in 1 .. n : \E i \in 1 .. Len(g[k]) : m = at[k] + i - 1
    BY <1>9
  <2>2. PICK i \in 1 .. Len(g[k]) : m = at[k] + i - 1
    BY <2>1
  <2>3. q[m] = g[k][i]
    BY <1>9, <2>2
  <2>4. WellFormed(q[m]) /\ (IsBranch(q[m]) => q[m] = p[k])
    BY <1>10, <2>3
  <2>5. IsBranch(p[k]) => \E j \in LabelPositions(p) : p[j].label = p[k].label
    BY DEF IsProgram, BuildFails, LabelsOf, n
  <2>6. IsBranch(q[m]) => \E j \in LabelPositions(p) : p[j].label = q[m].label
    BY <2>4, <2>5
  <2> QED  BY <1>13, <2>4, <2>6 DEF LabelsOf
<1>17. EntryLabel \in LabelsOf(q) => q # << >> /\ IsLabel(q[1])
  <2>1. SUFFICES ASSUME EntryLabel \in LabelsOf(q) PROVE q # << >> /\ IsLabel(q[1])
    OBVIOUS
  <2>2. EntryLabel \in LabelsOf(p)
    BY <1>12, <2>1 DEF LabelsOf
  <2>3. p # << >> /\ IsLabel(p[1])
    BY <2>2 DEF IsProgram, BuildFails
  <2>4. n # 0
    BY <2>3 DEF IsProgram, n
  <2>5. 1 \in 1 .. n
    BY <1>1, <2>4
  <2>6. at[1] \in 1 .. Len(q) /\ q[at[1]] = p[1] /\ at[1] = 1
    BY <1>9, <1>11, <2>3, <2>5
  <2> QED  BY <1>a, <2>3, <2>6
<1>18. IsProgram(q)
  BY <1>a, <1>15, <1>16, <1>17 DEF IsProgram, BuildFails
<1>19. ASSUME NEW k \in 1 .. n, IsLabel(p[k]) PROVE LabelAt(q, p[k].label) = at[k] /\ put[k] = << >>
  <2>1. k \in LabelPositions(p)
    BY <1>19 DEF LabelPositions, n
  <2>2. at[k] \in LabelPositions(q) /\ q[at[k]].label = p[k].label
    BY <1>13, <2>1
  <2>3. LabelAt(q, p[k].label) = at[k]
    BY <1>18, <2>2, LabelsAreUnique
  <2>4. put[k] = << >>
    <3>1. DOMAIN put[k] = {} /\ put[k] = InsertedAt(moves, k)
      <4>1. DOMAIN put[k] = 1 .. Len(put[k]) /\ Len(put[k]) = 0
        BY <1>2, <1>11, <1>19
      <4>2. DOMAIN put[k] = {}
        BY <4>1
      <4> QED  BY <4>2 DEF put
    <3>2. Sorted(MovesTo(moves, k), InsertedAt(moves, k))
      BY MovingFacts, InsertedFacts
    <3> QED  BY <3>1, <3>2 DEF Sorted
  <2> QED  BY <2>3, <2>4
<1>20. ASSUME NEW k \in 1 .. n
       PROVE  /\ Len(put[k]) \in Nat
              /\ \A j \in 1 .. Len(put[k]) : /\ put[k][j] \in moves /\ put[k][j][4] = k
                                             /\ at[k] + j - 1 \in 1 .. Len(q)
                                             /\ q[at[k] + j - 1] = p[put[k][j][3]]
              /\ \A m \in moves : m[4] = k => \E j \in 1 .. Len(put[k]) : put[k][j] = m
              /\ \A i, j \in 1 .. Len(put[k]) : MovedEarlier(put[k][i], put[k][j]) => i < j
              /\ IF IsMoved(moves, k) THEN at[k + 1] = at[k] + Len(put[k])
                 ELSE /\ at[k + 1] = at[k] + Len(put[k]) + 1
                      /\ at[k] + Len(put[k]) \in 1 .. Len(q) /\ q[at[k] + Len(put[k])] = p[k]
  <2> DEFINE c == Len(put[k])
             d == Len(g[k])
             x == at[k]
  <2>1. /\ c \in Nat /\ d = (IF IsMoved(moves, k) THEN c ELSE c + 1)
        /\ \A j \in 1 .. c : put[k][j] \in moves /\ put[k][j][4] = k /\ g[k][j] = p[put[k][j][3]]
        /\ ~IsMoved(moves, k) => g[k][c + 1] = p[k]
        /\ \A m \in moves : m[4] = k => \E j \in 1 .. c : put[k][j] = m
        /\ \A i, j \in 1 .. c : MovedEarlier(put[k][i], put[k][j]) => i < j
    BY <1>2
  <2>2. /\ x \in 1 .. Len(q) + 1 /\ at[k + 1] = x + d
        /\ \A i \in 1 .. d : x + i - 1 \in 1 .. Len(q) /\ q[x + i - 1] = g[k][i]
    <3>1. k \in 1 .. n + 1
      BY <1>1
    <3> QED  BY <1>9, <3>1
  <2> HIDE DEF c, d, x
  <2>3. ASSUME NEW j \in 1 .. c PROVE x + j - 1 \in 1 .. Len(q) /\ q[x + j - 1] = p[put[k][j][3]]
    <3>1. j \in 1 .. d
      BY <2>1
    <3> QED  BY <2>1, <2>2, <3>1
  <2>4. ~IsMoved(moves, k) => at[k + 1] = x + c + 1 /\ x + c \in 1 .. Len(q) /\ q[x + c] = p[k]
    <3>1. SUFFICES ASSUME ~IsMoved(moves, k) PROVE at[k + 1] = x + c + 1 /\ x + c \in 1 .. Len(q) /\ q[x + c] = p[k]
      OBVIOUS
    <3>2. d = c + 1 /\ c + 1 \in 1 .. d /\ x + (c + 1) - 1 = x + c /\ x + (c + 1) = x + c + 1
      BY <1>a, <2>1, <2>2, <3>1
    <3>3. x + (c + 1) - 1 \in 1 .. Len(q) /\ q[x + (c + 1) - 1] = g[k][c + 1]
      BY <2>2, <3>2
    <3> QED  BY <2>1, <2>2, <3>1, <3>2, <3>3
  <2>5. IsMoved(moves, k) => at[k + 1] = x + c
    BY <2>1, <2>2
  <2> QED  BY <2>1, <2>3, <2>4, <2>5 DEF c, x
<1>21. Layout(p, moves, q, at, put)
  BY <1>9, <1>18, <1>19, <1>20 DEF Layout, n
<1> QED  BY <1>4, <1>21

-----------------------------------------------------------------------------
(* Two lanes, one in the program and one in what the moves make of it.      *)

\* The result of item e is in its register.
Ready(p, e, b) == b.regs[p[e].dest] = Result(p[e], Operands(p[e], b), b)

\* The lanes are in front of the same item: what is live is the same, and the
\* results moved out of the loops around it are there.
Unread(p) == [k \in 1 .. Len(p) + 1 |-> NotLive(p, k)]
Hoisted(p, moves, q, at, a, b) ==
  /\ Tracks(p, q, 1 .. Len(p) + 1, at, Unread(p), a, b)
  /\ \A m \in moves : a.pc <= Len(p) /\ Inside(p, LoopOf(p, m), a.pc) => Ready(p, m[3], b)

\* The other lane has done j of the instructions moved to that item.
Placing(p, moves, q, at, put, j, a, b) ==
  /\ IsLane(p, a) /\ IsLane(q, b) /\ a.pc \in 1 .. Len(p)
  /\ j \in 0 .. Len(put[a.pc]) /\ b.pc = at[a.pc] + j
  /\ AgreeBut(a, b, NotLive(p, a.pc))
  /\ \A m \in moves : Inside(p, LoopOf(p, m), a.pc) \/ (\E i \in 1 .. j : put[a.pc][i] = m) => Ready(p, m[3], b)

\* A result stays where nothing writes it or what it was computed from.
LEMMA ReadyStays ==
  ASSUME NEW p, NEW e, NEW b, NEW t, Ready(p, e, b),
         \A r \in ArgRegs(p[e]) \cup {p[e].dest} : t.regs[r] = b.regs[r],
         p[e].op = "ld" => t.mem = b.mem, t.params = b.params
  PROVE  Ready(p, e, t)
<1> DEFINE i == p[e]
<1>1. \A k \in DOMAIN i.args : i.args[k].reg = "" \/ t.regs[i.args[k].reg] = b.regs[i.args[k].reg]
  BY DEF ArgRegs
<1>2. Operands(i, t) = Operands(i, b)
  BY <1>1 DEF Operands
<1>3. t.regs[i.dest] = b.regs[i.dest]
  OBVIOUS
<1> HIDE DEF i
<1>4. Result(i, Operands(i, t), t) = Result(i, Operands(i, b), b)
  <2> DEFINE v == Operands(i, b)
  <2>1. i.op = "ld" => t.mem = b.mem
    BY DEF i
  <2> HIDE DEF v
  <2>2. Result(i, v, t) = Result(i, v, b)
    BY <2>1 DEF Result
  <2> QED  BY <1>2, <2>2 DEF v
<1> QED  BY <1>3, <1>4 DEF Ready, i

\* What is moved to an item writes what a result is made of only where that is
\* written already.
LEMMA WrittenAlready ==
  ASSUME NEW p, IsProgram(p), NEW moves, Moving(p, moves), HoistingAssumes(p, moves), NEW q, NEW at, NEW put,
         Layout(p, moves, q, at, put), NEW j, NEW a, NEW b, Placing(p, moves, q, at, put, j, a, b),
         NEW m \in moves, Inside(p, LoopOf(p, m), a.pc) \/ (\E i \in 1 .. j : put[a.pc][i] = m),
         NEW l \in moves, l[4] = a.pc, p[l[3]].dest \in ArgRegs(p[m[3]]) \cup {p[m[3]].dest}
  PROVE  Ready(p, l[3], b)
<1> DEFINE x == a.pc
           e == l[3]
           f == m[3]
           w == p[e].dest
<1>1. x \in 1 .. Len(p) /\ j \in 0 .. Len(put[x]) /\ Len(put[x]) \in Nat
  BY DEF Placing, Layout
<1>2. /\ \A i \in 1 .. Len(put[x]) : put[x][i] \in moves /\ put[x][i][4] = x
      /\ \A o \in moves : o[4] = x => \E i \in 1 .. Len(put[x]) : put[x][i] = o
      /\ \A i, k \in 1 .. Len(put[x]) : MovedEarlier(put[x][i], put[x][k]) => i < k
  BY <1>1 DEF Layout
<1>3. \A o \in moves : Inside(p, LoopOf(p, o), x) \/ (\E i \in 1 .. j : put[x][i] = o) => Ready(p, o[3], b)
  BY DEF Placing
<1>4. IsMove(p, moves, m) /\ IsMove(p, moves, l) /\ ~IsLabel(p[x]) /\ e \in 1 .. Len(p) /\ f \in 1 .. Len(p)
      /\ ~IsLabel(p[e])
  BY MoveFacts
<1>5. /\ m \in Quadruples /\ l \in Quadruples /\ LoopOf(p, m) \in Hoistable(p)
      /\ LoopDefinitions(p, LoopOf(p, m), p[f].dest) = {f}
      /\ \A r \in ArgRegs(p[f]) : \A d \in LoopDefinitions(p, LoopOf(p, m), r) : <<m[1], m[2], d, m[4]>> \in moves
      /\ p[e].op \in DestinationBases
  BY <1>4 DEF IsMove, DestinationBases
<1>6. ArgRegs(p[f]) \subseteq ReadRegisters(p[f])
  BY DEF ArgRegs, ReadRegisters
<1>7. w \in Involved(p[f])
  BY <1>6 DEF Involved
<1>8. x = m[4] \/ x \in Repeated(p, m)
  BY <1>1, <1>2, <1>4, <1>5, LoopItemFacts, SMTT(40) DEF Repeated
<1>9. e \in Repeated(p, m)
  BY <1>7, <1>8 DEF HoistingAssumes, MovesStayApart
<1>10. e \in LoopDefinitions(p, LoopOf(p, m), w)
  BY <1>4, <1>5, <1>9 DEF LoopDefinitions, DefinitionsOf, DestinationRegister, Repeated
<1> HIDE DEF x, e, f, w
<1>11. CASE w = p[f].dest
  <2>1. e = f
    BY <1>5, <1>10, <1>11
  <2> QED  BY <1>3, <2>1 DEF e, f, x
<1>12. CASE w \in ArgRegs(p[f])
  <2> DEFINE o == <<m[1], m[2], e, m[4]>>
  <2>1. o \in moves
    BY <1>5, <1>10, <1>12
  <2>2. o[1] = m[1] /\ o[2] = m[2] /\ o[3] = e /\ o[4] = m[4]
    OBVIOUS
  <2> HIDE DEF o
  <2>3. LoopOf(p, o) = LoopOf(p, m)
    BY <2>2 DEF LoopOf
  <2>4. CASE Inside(p, LoopOf(p, m), x)
    BY <1>3, <2>1, <2>2, <2>3, <2>4 DEF e
  <2>5. CASE \E i \in 1 .. j : put[x][i] = m
    <3>1. PICK i \in 1 .. j : put[x][i] = m
      BY <2>5
    <3>2. i \in 1 .. Len(put[x]) /\ m[4] = x
      BY <1>1, <1>2, <3>1
    <3>3. PICK k \in 1 .. Len(put[x]) : put[x][k] = o
      BY <1>2, <2>1, <2>2, <3>2
    <3>4. e < f
      <4>1. SameLoop(m, o) /\ p[o[3]].dest \in ReadRegisters(p[m[3]])
        BY <1>6, <1>12, <2>2 DEF SameLoop, w, f
      <4>2. o[3] < m[3]
        BY <2>1, <4>1 DEF HoistingAssumes, MovedInOrder
      <4> QED  BY <2>2, <4>2 DEF f
    <3>5. MovedEarlier(o, m)
      <4>1. o \in Quadruples
        BY <2>1, MovingFacts
      <4> QED  BY <1>5, <2>2, <3>4, <4>1, EarlierMeans DEF f
    <3>6. k < i
      BY <1>2, <3>1, <3>2, <3>3, <3>5
    <3>7. k \in 1 .. j
      BY <1>1, <3>6
    <3> QED  BY <1>3, <2>1, <2>2, <3>3, <3>7 DEF e
  <2> QED  BY <2>4, <2>5 DEF x
<1> QED  BY <1>11, <1>12 DEF w, f, e

\* What is left to read behind an instruction that writes a register.
LEMMA MovedWrites ==
  ASSUME NEW p, IsProgram(p), NEW b, IsLane(p, b), b.pc \in 1 .. Len(p), NEW i, i = p[b.pc],
         i.kind = "op", i.op # "st", ~i.guarded, NEW t, t = LaneStep(p, b)
  PROVE  /\ IsLane(p, t) /\ t.pc = b.pc + 1
         /\ t.regs = [b.regs EXCEPT ![i.dest] = Result(i, Operands(i, b), b)]
         /\ t.mem = b.mem /\ t.stores = b.stores /\ t.params = b.params
<1>1. GuardHolds(i, b) /\ ~IsLabel(i) /\ ~IsBranch(i)
  BY DEF GuardHolds, IsLabel, IsBranch
<1>2. WritesNow(i, b) /\ ~StoresNow(i, b)
  BY <1>1 DEF WritesNow, StoresNow
<1>3. IsLane(p, t) /\ Effect(p, b, t)
  BY StepEffect
<1>4. t.pc = b.pc + 1
  <2>1. t.pc = NextPC(p, b.pc)
    BY <1>1, StepGoesOn
  <2>2. NextPC(p, b.pc) = b.pc + 1
    BY <1>1 DEF NextPC, IsBranch
  <2> QED  BY <2>1, <2>2
<1> QED  BY <1>2, <1>3, <1>4 DEF Effect

\* One of the instructions in front of the item is executed.
LEMMA PlacedStep ==
  ASSUME NEW p, IsProgram(p), NEW moves, Moving(p, moves), HoistingAssumes(p, moves), NEW q, NEW at, NEW put,
         Layout(p, moves, q, at, put), NEW j, NEW a, NEW b, Placing(p, moves, q, at, put, j, a, b),
         j < Len(put[a.pc])
  PROVE  Placing(p, moves, q, at, put, j + 1, a, LaneStep(q, b))
<1> DEFINE x == a.pc
           nm == put[x][j + 1]
           i == p[nm[3]]
           w == i.dest
           t == LaneStep(q, b)
<1>1. /\ x \in 1 .. Len(p) /\ j \in 0 .. Len(put[x]) /\ Len(put[x]) \in Nat /\ at[x] \in 1 .. Len(q) + 1
      /\ IsLane(p, a) /\ IsLane(q, b) /\ b.pc = at[x] + j /\ AgreeBut(a, b, NotLive(p, x)) /\ IsProgram(q)
      /\ Len(q) \in Nat
  <2>1. IsProgram(q) /\ x \in 1 .. Len(p) /\ Len(p) \in Nat
    BY ProgramFacts DEF Layout, Placing
  <2>2. x \in 1 .. Len(p) + 1 /\ Len(q) \in Nat
    BY <2>1, ProgramFacts
  <2> QED  BY <2>1, <2>2 DEF Placing, Layout
<1>2. j + 1 \in 1 .. Len(put[x]) /\ j + 1 \in 0 .. Len(put[x]) /\ at[x] + (j + 1) - 1 = b.pc
  BY <1>1
<1>3. nm \in moves /\ nm[4] = x /\ b.pc \in 1 .. Len(q) /\ q[b.pc] = i
  <2>1. /\ nm \in moves /\ nm[4] = x /\ at[x] + (j + 1) - 1 \in 1 .. Len(q)
        /\ q[at[x] + (j + 1) - 1] = p[nm[3]]
    BY <1>1, <1>2 DEF Layout
  <2> QED  BY <1>2, <2>1
<1>4. \A m \in moves : Inside(p, LoopOf(p, m), x) \/ (\E k \in 1 .. j : put[x][k] = m) => Ready(p, m[3], b)
  BY DEF Placing
<1>5. /\ i \in Items /\ i.kind = "op" /\ i.op # "st" /\ w \in DataRegs \cup PredRegs /\ ~i.guarded
      /\ nm[3] \in 1 .. Len(p)
  BY <1>3, MoveFacts DEF IsMove
<1>6. \A m \in moves : (Inside(p, LoopOf(p, m), x) \/ (\E k \in 1 .. j : put[x][k] = m))
                         /\ w \in ArgRegs(p[m[3]]) \cup {p[m[3]].dest} => Ready(p, nm[3], b)
  BY <1>3, WrittenAlready
<1>7. w \notin ArgRegs(i)
  <2>1. SUFFICES ASSUME w \in ArgRegs(i) PROVE FALSE
    OBVIOUS
  <2>2. w \in ReadRegisters(i)
    BY <2>1 DEF ArgRegs, ReadRegisters
  <2>3. SameLoop(nm, nm)
    BY DEF SameLoop
  <2>4. nm[3] < nm[3]
    BY <1>3, <2>2, <2>3 DEF HoistingAssumes, MovedInOrder
  <2> QED  BY <1>5, <2>4
<1>8. w \in NotLive(p, x)
  BY <1>3, <1>5 DEF HoistingAssumes, ResultsAreNotAwaited, NotLive
<1>e. nm[3] \in 1 .. Len(p) /\ i = p[nm[3]]
  BY <1>5
<1>f. t = LaneStep(q, b)
  OBVIOUS
<1> HIDE DEF x, nm, i, w, t
<1>9. /\ IsLane(q, t) /\ t.pc = b.pc + 1
      /\ t.regs = [b.regs EXCEPT ![w] = Result(i, Operands(i, b), b)]
      /\ t.mem = b.mem /\ t.stores = b.stores /\ t.params = b.params
  BY <1>1, <1>3, <1>5, <1>f, MovedWrites, SMTT(40) DEF w
<1>10. b.regs = [r \in DataRegs \cup PredRegs |-> b.regs[r]]
  BY <1>1 DEF IsLane
<1>11. AgreeBut(a, t, NotLive(p, x))
  BY <1>1, <1>8, <1>9, <1>10 DEF AgreeBut
<1>12. Ready(p, nm[3], t)
  <2>1. \A k \in DOMAIN i.args : i.args[k].reg # "" => t.regs[i.args[k].reg] = b.regs[i.args[k].reg]
    <3>1. \A r : r # w => t.regs[r] = b.regs[r]
      BY <1>9, <1>10
    <3>2. \A k \in DOMAIN i.args : i.args[k].reg # "" => i.args[k].reg # w
      BY <1>7 DEF ArgRegs
    <3> QED  BY <3>1, <3>2
  <2>2. Operands(i, t) = Operands(i, b)
    BY <2>1 DEF Operands
  <2> DEFINE v == Operands(i, b)
  <2> HIDE DEF v
  <2>3. Result(i, v, t) = Result(i, v, b)
    BY <1>9 DEF Result
  <2>4. t.regs[w] = Result(i, v, b)
    <3> DEFINE y == Result(i, v, b)
    <3>1. t.regs = [b.regs EXCEPT ![w] = y] /\ w \in DataRegs \cup PredRegs
      BY <1>5, <1>9 DEF v, w
    <3> HIDE DEF y
    <3>2. t.regs[w] = y
      BY <1>10, <3>1
    <3> QED  BY <3>2 DEF y
  <2> QED  BY <1>e, <2>2, <2>3, <2>4 DEF Ready, v, w
<1>13. ASSUME Ready(p, nm[3], b) PROVE t.regs = b.regs
  <2> DEFINE y == Result(i, Operands(i, b), b)
  <2>1. b.regs[w] = y
    BY <1>13, <1>e DEF Ready, w
  <2> HIDE DEF y
  <2>2. t.regs = [b.regs EXCEPT ![w] = y]
    BY <1>9 DEF y
  <2> QED  BY <1>10, <2>1, <2>2
<1>14. ASSUME NEW m \in moves, Inside(p, LoopOf(p, m), x) \/ (\E k \in 1 .. j : put[x][k] = m)
       PROVE  Ready(p, m[3], t)
  <2>1. Ready(p, m[3], b)
    BY <1>4, <1>14
  <2>2. CASE w \in ArgRegs(p[m[3]]) \cup {p[m[3]].dest}
    <3>1. t.regs = b.regs
      BY <1>6, <1>13, <1>14, <2>2
    <3> QED  BY <1>9, <2>1, <3>1, ReadyStays
  <2>3. CASE w \notin ArgRegs(p[m[3]]) \cup {p[m[3]].dest}
    <3>1. \A r : r # w => t.regs[r] = b.regs[r]
      BY <1>9, <1>10
    <3> QED  BY <1>9, <2>1, <2>3, <3>1, ReadyStays
  <2> QED  BY <2>2, <2>3
<1>15. ASSUME NEW m \in moves, Inside(p, LoopOf(p, m), x) \/ (\E k \in 1 .. j + 1 : put[x][k] = m)
       PROVE  Ready(p, m[3], t)
  <2>1. \A k \in 1 .. j + 1 : k \in 1 .. j \/ k = j + 1
    BY <1>1
  <2>2. Inside(p, LoopOf(p, m), x) \/ (\E k \in 1 .. j : put[x][k] = m) \/ m = put[x][j + 1]
    BY <1>15, <2>1
  <2> QED  BY <1>12, <1>14, <2>2 DEF nm
<1>16. t.pc = at[x] + (j + 1)
  <2> DEFINE y == at[x]
             z == b.pc
             u == t.pc
  <2>1. y \in Int /\ j \in Int /\ z = y + j /\ u = z + 1
    BY <1>1, <1>9
  <2> HIDE DEF y, z, u
  <2>2. u = y + (j + 1)
    BY <2>1
  <2> QED  BY <2>2 DEF y, u
<1> QED  BY <1>1, <1>2, <1>9, <1>11, <1>15, <1>16 DEF Placing, x, t

\* What is not live in front of an item is not behind it, unless set there.
LEMMA UnreadBehind ==
  ASSUME NEW p, IsProgram(p), NEW k \in 1 .. Len(p)
  PROVE  /\ IsLabel(p[k]) \/ ReadBy(p[k]) \cap NotLive(p, k) = {}
         /\ \A s \in ItemSuccessors(p, k) : NotLive(p, k) \ Overwritten(p[k]) \subseteq NotLive(p, s)
<1>1. \A r : /\ ~IsLabel(p[k]) /\ r \in ReadBy(p[k]) => k \in LiveBefore(p, r)
             /\ \A s \in ItemSuccessors(p, k) :
                  s \in LiveBefore(p, r) /\ ~(~IsLabel(p[k]) /\ ~p[k].guarded /\ p[k].dest = r) => k \in LiveBefore(p, r)
  BY LivenessIsClosed
<1>2. IsLabel(p[k]) \/ ReadBy(p[k]) \cap NotLive(p, k) = {}
  BY <1>1 DEF NotLive
<1>3. ASSUME NEW s \in ItemSuccessors(p, k), NEW r \in NotLive(p, k), r \notin Overwritten(p[k])
      PROVE  r \in NotLive(p, s)
  <2>1. r \in DataRegs \cup PredRegs /\ k \notin LiveBefore(p, r)
    BY DEF NotLive
  <2>2. SUFFICES ASSUME s \in LiveBefore(p, r) PROVE FALSE
    BY <2>1 DEF NotLive
  <2>3. ~p[k].guarded /\ p[k].dest = r
    BY <1>1, <2>1, <2>2
  <2>4. r # ""
    BY <2>1, RegistersAssumption
  <2>5. p[k].kind = "op" /\ p[k].op # "st"
    BY <2>3, <2>4, ProgramFacts DEF WellFormed
  <2> QED  BY <1>3, <2>3, <2>5 DEF Overwritten, ResultsOf
<1> QED  BY <1>2, <1>3

\* At first nothing has been done.
LEMMA PlacingStarts ==
  ASSUME NEW p, IsProgram(p), NEW moves, NEW q, NEW at, NEW put, Layout(p, moves, q, at, put),
         NEW a, NEW b, Hoisted(p, moves, q, at, a, b), a.pc <= Len(p)
  PROVE  Placing(p, moves, q, at, put, 0, a, b)
<1>1. /\ IsLane(p, a) /\ IsLane(q, b) /\ b.pc = at[a.pc] /\ AgreeBut(a, b, Unread(p)[a.pc])
      /\ \A m \in moves : a.pc <= Len(p) /\ Inside(p, LoopOf(p, m), a.pc) => Ready(p, m[3], b)
  BY DEF Hoisted, Tracks
<1>2. a.pc \in 1 .. Len(p) /\ a.pc \in 1 .. Len(p) + 1 /\ Len(p) \in Nat
  BY <1>1, ProgramFacts DEF IsLane
<1>3. Unread(p)[a.pc] = NotLive(p, a.pc)
  BY <1>2 DEF Unread
<1>4. Len(put[a.pc]) \in Nat /\ at[a.pc] \in 1 .. Len(q) + 1 /\ IsProgram(q)
  BY <1>2 DEF Layout
<1>5. at[a.pc] + 0 = at[a.pc] /\ 0 \in 0 .. Len(put[a.pc])
  <2>1. Len(q) \in Nat
    BY <1>4, ProgramFacts
  <2> QED  BY <1>4, <2>1
<1> QED  BY <1>1, <1>2, <1>3, <1>5 DEF Placing

\* When all of it has been done, what is moved here is ready, and so is what is
\* ready in the loops that control can come to from here.
Around(p, m, k) == Inside(p, LoopOf(p, m), k) \/ m[4] = k
\* What is ready when all is done that was moved to an item.
LEMMA AllPlaced ==
  ASSUME NEW p, IsProgram(p), NEW moves, Moving(p, moves), HoistingAssumes(p, moves), NEW q, NEW at, NEW put,
         Layout(p, moves, q, at, put), NEW a, NEW b, Placing(p, moves, q, at, put, Len(put[a.pc]), a, b)
  PROVE  /\ \A m \in moves : Around(p, m, a.pc) => Ready(p, m[3], b)
         /\ \A s \in ItemSuccessors(p, a.pc) : \A m \in moves :
              s <= Len(p) /\ Inside(p, LoopOf(p, m), s) => Around(p, m, a.pc)
<1>1. a.pc \in 1 .. Len(p)
  BY DEF Placing
<1>2. \A m \in moves : m[4] = a.pc => \E j \in 1 .. Len(put[a.pc]) : put[a.pc][j] = m
  BY <1>1 DEF Layout
<1>3. ReturnsAreFinal(p)
  BY DEF HoistingAssumes
<1>4. \A m \in moves : LoopOf(p, m) \in Hoistable(p) /\ m[4] = InsertBefore(p, LoopOf(p, m))
  BY MoveFacts DEF IsMove
<1> QED  BY <1>1, <1>2, <1>3, <1>4, LoopEntered DEF Placing, Around

\* An item that is moved is behind the lane: its result is there.
LEMMA MovedAway ==
  ASSUME NEW p, IsProgram(p), NEW moves, Moving(p, moves), HoistingAssumes(p, moves), NEW q, NEW at, NEW put,
         Layout(p, moves, q, at, put), NEW a, NEW b, Placing(p, moves, q, at, put, Len(put[a.pc]), a, b),
         IsMoved(moves, a.pc)
  PROVE  Hoisted(p, moves, q, at, LaneStep(p, a), b)
<1> DEFINE x == a.pc
           i == p[x]
           w == i.dest
           s == LaneStep(p, a)
<1>1. /\ x \in 1 .. Len(p) /\ IsLane(p, a) /\ IsLane(q, b) /\ b.pc = at[x] + Len(put[x])
      /\ AgreeBut(a, b, NotLive(p, x))
  BY DEF Placing
<1>2. at[x + 1] = b.pc
  BY <1>1 DEF Layout
<1>3. PICK m \in moves : m[3] = x
  BY DEF IsMoved
<1>4. /\ IsMove(p, moves, m) /\ ~IsLabel(i) /\ i \in Items /\ WellFormed(i) /\ i.kind = "op" /\ i.op # "st"
      /\ w \in DataRegs \cup PredRegs /\ Inside(p, LoopOf(p, m), x)
  BY <1>3, MoveFacts
<1>5. ~i.guarded
  BY <1>3, <1>4 DEF IsMove
<1>6. Ready(p, x, b)
  <2>1. Around(p, m, a.pc)
    BY <1>4 DEF Around
  <2> HIDE DEF w, i
  <2> QED  BY <1>3, <2>1, AllPlaced
<1>7. /\ IsLane(p, s) /\ s.pc = x + 1
      /\ s.regs = [a.regs EXCEPT ![w] = Result(i, Operands(i, a), a)]
      /\ s.mem = a.mem /\ s.stores = a.stores /\ s.params = a.params
  BY <1>1, <1>4, <1>5, MovedWrites
<1>8. x + 1 \in ItemSuccessors(p, x)
  BY <1>1, <1>7, StepGoesOn
<1>9. /\ ReadBy(i) \cap NotLive(p, x) = {}
      /\ NotLive(p, x) \ {w} \subseteq NotLive(p, x + 1)
  BY <1>1, <1>4, <1>8, UnreadBehind DEF Overwritten, ResultsOf
<1>10. Result(i, Operands(i, b), b) = Result(i, Operands(i, a), a)
  <2> DEFINE gone == NotLive(p, x)
  <2>1. i = [i EXCEPT !.label = i.label]
    BY <1>4 DEF Items
  <2>2. i \in Items /\ WellFormed(i) /\ ~IsLabel(i) /\ AgreeBut(a, b, gone) /\ ReadBy(i) \cap gone = {}
    BY <1>1, <1>4, <1>9
  <2> HIDE DEF i, gone
  <2> QED  BY <2>1, <2>2, SameReading
<1>11. b.regs[w] = Result(i, Operands(i, a), a)
  BY <1>6, <1>10 DEF Ready
<1>12. AgreeBut(s, b, NotLive(p, x + 1))
  <2> DEFINE y == Result(i, Operands(i, a), a)
  <2>1. s.regs = [a.regs EXCEPT ![w] = y] /\ b.regs[w] = y
    BY <1>7, <1>11
  <2> HIDE DEF y, i, s
  <2>2. a.regs = [r \in DataRegs \cup PredRegs |-> a.regs[r]]
    BY <1>1 DEF IsLane
  <2>3. \A r \in (DataRegs \cup PredRegs) \ NotLive(p, x + 1) : b.regs[r] = s.regs[r]
    BY <1>1, <1>9, <2>1, <2>2 DEF AgreeBut
  <2> QED  BY <1>1, <1>7, <2>3 DEF AgreeBut
<1>13. x + 1 \in 1 .. Len(p) + 1
  BY <1>1, ProgramFacts
<1>14. Tracks(p, q, 1 .. Len(p) + 1, at, Unread(p), s, b)
  BY <1>1, <1>2, <1>7, <1>12, <1>13 DEF Tracks, Unread
<1>15. \A l \in moves : s.pc <= Len(p) /\ Inside(p, LoopOf(p, l), s.pc) => Ready(p, l[3], b)
  <2>1. \A l \in moves : Around(p, l, x) => Ready(p, l[3], b)
    BY AllPlaced
  <2>2. \A l \in moves : x + 1 <= Len(p) /\ Inside(p, LoopOf(p, l), x + 1) => Around(p, l, x)
    BY <1>8, AllPlaced
  <2> HIDE DEF s, x
  <2> QED  BY <1>7, <2>1, <2>2
<1> QED  BY <1>14, <1>15 DEF Hoisted

\* An item that stays leaves the results alone that were moved to it, or out of
\* a loop around it.
LEMMA KeptLeavesReady ==
  ASSUME NEW p, IsProgram(p), NEW moves, Moving(p, moves), HoistingAssumes(p, moves), NEW x \in 1 .. Len(p),
         ~IsMoved(moves, x), NEW m \in moves, Around(p, m, x),
         NEW q, IsProgram(q), NEW b, IsLane(q, b), b.pc \in 1 .. Len(q), q[b.pc] = p[x], Ready(p, m[3], b)
  PROVE  Ready(p, m[3], LaneStep(q, b))
<1> DEFINE i == p[x]
           f == m[3]
           t == LaneStep(q, b)
<1>1. i \in Items /\ WellFormed(i) /\ i = q[b.pc]
  BY ProgramFacts
<1>2. IsLane(q, t) /\ Effect(q, b, t)
  BY StepEffect
<1>3. /\ IsMove(p, moves, m) /\ m \in Quadruples /\ LoopOf(p, m) \in Hoistable(p)
      /\ LoopDefinitions(p, LoopOf(p, m), p[f].dest) = {f}
      /\ p[f].op = "ld" => ~LoopWithStore(p, LoopOf(p, m))
      /\ \A r \in ArgRegs(p[f]) : \A d \in LoopDefinitions(p, LoopOf(p, m), r) : <<m[1], m[2], d, m[4]>> \in moves
  <2>1. IsMove(p, moves, m)
    BY MoveFacts
  <2> QED  BY <2>1 DEF IsMove
<1>4. ArgRegs(p[f]) \cup {p[f].dest} \subseteq Involved(p[f])
  BY DEF ArgRegs, ReadRegisters, Involved
<1>5. i.kind = "op" /\ Inside(p, LoopOf(p, m), x) => x \in Repeated(p, m)
  BY <1>3, LoopItemFacts DEF Repeated, IsLabel
<1>b. Inside(p, LoopOf(p, m), x) \/ m[4] = x
  BY DEF Around
<1>6. \A d \in moves : d[3] # x
  BY DEF IsMoved
<1>7. ASSUME i.kind = "op", i.op # "st" PROVE i.dest \notin ArgRegs(p[f]) \cup {p[f].dest}
  <2>1. SUFFICES ASSUME i.dest \in ArgRegs(p[f]) \cup {p[f].dest} PROVE FALSE
    OBVIOUS
  <2>2. i.dest \in Involved(p[f])
    BY <1>4, <2>1
  <2>3. m[4] # x
    BY <2>2 DEF HoistingAssumes, PreheadersEndApart
  <2>4. x \in Repeated(p, m)
    BY <1>5, <1>7, <1>b, <2>3
  <2>5. i.op # "fma"
    BY <2>2, <2>4 DEF HoistingAssumes, FmaStaysApart
  <2>6. i.op \in DestinationBases /\ ~IsLabel(i)
    BY <1>1, <1>7, <2>5 DEF WellFormed, IsLabel
  <2>7. x \in LoopDefinitions(p, LoopOf(p, m), i.dest)
    BY <2>4, <2>6 DEF LoopDefinitions, DefinitionsOf, DestinationRegister, Repeated
  <2>8. CASE i.dest = p[f].dest
    <3>1. x = f
      BY <1>3, <2>7, <2>8
    <3> QED  BY <1>6, <3>1
  <2>9. CASE i.dest \in ArgRegs(p[f])
    <3> DEFINE o == <<m[1], m[2], x, m[4]>>
    <3>1. o \in moves
      BY <1>3, <2>7, <2>9
    <3>2. o[3] = x
      OBVIOUS
    <3> HIDE DEF o
    <3> QED  BY <1>6, <3>1, <3>2
  <2> QED  BY <2>1, <2>8, <2>9
<1>8. ASSUME i.kind = "op", i.op = "st" PROVE p[f].op # "ld"
  <2>1. SUFFICES ASSUME p[f].op = "ld" PROVE FALSE
    OBVIOUS
  <2>2. m[4] # x
    BY <1>8, <2>1 DEF HoistingAssumes, PreheadersEndApart
  <2>3. x \in Repeated(p, m)
    BY <1>5, <1>8, <1>b, <2>2
  <2> QED  BY <1>3, <1>8, <2>1, <2>3 DEF LoopWithStore, Repeated
<1> HIDE DEF i, f, t
<1>9. p[f].op = "ld" => t.mem = b.mem
  BY <1>1, <1>2, <1>8 DEF Effect, StoresNow
<1>10. t.params = b.params
  BY <1>2 DEF Effect
<1>11. \A r \in ArgRegs(p[f]) \cup {p[f].dest} : t.regs[r] = b.regs[r]
  <2>1. CASE WritesNow(i, b)
    <3> DEFINE y == Result(i, Operands(i, b), b)
    <3>1. t.regs = [b.regs EXCEPT ![i.dest] = y]
      BY <1>1, <1>2, <2>1 DEF Effect
    <3>2. i.dest \notin ArgRegs(p[f]) \cup {p[f].dest}
      BY <1>7, <2>1 DEF WritesNow
    <3>3. b.regs = [r \in DataRegs \cup PredRegs |-> b.regs[r]]
      BY DEF IsLane
    <3> HIDE DEF y
    <3> QED  BY <3>1, <3>2, <3>3
  <2>2. CASE ~WritesNow(i, b)
    BY <1>1, <1>2, <2>2 DEF Effect
  <2> QED  BY <2>1, <2>2
<1> QED  BY <1>9, <1>10, <1>11, ReadyStays DEF f, t

\* An item that stays is executed by both lanes.
LEMMA KeptStep ==
  ASSUME NEW p, IsProgram(p), NEW moves, Moving(p, moves), HoistingAssumes(p, moves), NEW q, NEW at, NEW put,
         Layout(p, moves, q, at, put), NEW a, NEW b, Placing(p, moves, q, at, put, Len(put[a.pc]), a, b),
         ~IsMoved(moves, a.pc)
  PROVE  Hoisted(p, moves, q, at, LaneStep(p, a), LaneStep(q, b))
<1> DEFINE x == a.pc
           i == p[x]
           n == Len(p)
           y == b.pc
           s == LaneStep(p, a)
           t == LaneStep(q, b)
<1>a. /\ \A m \in moves : Around(p, m, a.pc) => Ready(p, m[3], b)
      /\ \A k \in ItemSuccessors(p, a.pc) : \A m \in moves :
           k <= Len(p) /\ Inside(p, LoopOf(p, m), k) => Around(p, m, a.pc)
  BY AllPlaced
<1>1. /\ x \in 1 .. n /\ IsLane(p, a) /\ IsLane(q, b) /\ AgreeBut(a, b, NotLive(p, x)) /\ IsProgram(q)
      /\ y = at[x] + Len(put[x])
  BY DEF Placing, Layout
<1>2. /\ y \in 1 .. Len(q) /\ q[y] = i /\ at[x + 1] = y + 1
      /\ at[n + 1] = Len(q) + 1 /\ \A k \in 1 .. n : IsLabel(p[k]) => LabelAt(q, p[k].label) = at[k]
  BY <1>1, SMTT(40) DEF Layout
<1>3. /\ n \in Nat /\ i \in Items /\ WellFormed(i) /\ (IsBranch(i) => LabelAt(p, i.label) \in LabelPositions(p))
      /\ NextPC(p, x) \in 1 .. n + 1 /\ ItemSuccessors(p, x) \subseteq 1 .. n + 1
  BY <1>1, ProgramFacts, SuccessorsInside
<1> DEFINE walk == [k \in 1 .. n + 1 |-> IF k = x THEN y ELSE at[k]]
<1>4. x \in 1 .. n + 1 /\ x + 1 \in 1 .. n + 1 /\ x + 1 # x /\ n + 1 # x /\ n + 1 \in 1 .. n + 1
  BY <1>1, <1>3
<1>5. walk[x] = y /\ \A k \in 1 .. n + 1 : k # x => walk[k] = at[k]
  BY <1>4
<1>6. ASSUME NEW k \in ItemSuccessors(p, x) PROVE k # x
  <2>1. CASE k = x + 1
    BY <1>4, <2>1
  <2>2. CASE k = NextPC(p, x)
    <3>1. CASE IsBranch(i)
      <4>1. NextPC(p, x) \in LabelPositions(p)
        BY <1>3, <3>1 DEF NextPC, IsBranch
      <4>2. ~IsLabel(i)
        BY <3>1 DEF IsLabel, IsBranch
      <4> QED  BY <2>2, <4>1, <4>2 DEF LabelPositions
    <3>2. CASE ~IsBranch(i)
      BY <1>4, <2>2, <3>2 DEF NextPC, Stopped
    <3> QED  BY <3>1, <3>2
  <2> QED  BY <2>1, <2>2 DEF ItemSuccessors
<1>7. ~IsLabel(i) => NextPC(q, y) = walk[NextPC(p, x)]
  <2>1. SUFFICES ASSUME ~IsLabel(i) PROVE NextPC(q, y) = walk[NextPC(p, x)]
    OBVIOUS
  <2>2. NextPC(p, x) \in ItemSuccessors(p, x)
    BY <2>1 DEF ItemSuccessors
  <2>3. walk[NextPC(p, x)] = at[NextPC(p, x)]
    BY <1>3, <1>5, <1>6, <2>2
  <2> HIDE DEF walk
  <2>4. CASE IsBranch(i)
    <3>1. NextPC(p, x) = LabelAt(p, i.label) /\ NextPC(q, y) = LabelAt(q, i.label)
      BY <1>2, <2>4 DEF NextPC, IsBranch
    <3>2. PICK j \in LabelPositions(p) : j = LabelAt(p, i.label)
      BY <1>3, <2>4
    <3>3. p[j].label = i.label
      <4>1. i.label \in LabelsOf(p)
        BY <1>1, <2>4 DEF IsProgram, BuildFails
      <4>2. PICK l \in LabelPositions(p) : p[l].label = i.label
        BY <4>1 DEF LabelsOf
      <4>3. LabelAt(p, i.label) = l
        BY <4>2, LabelsAreUnique
      <4> QED  BY <3>2, <4>2, <4>3
    <3>4. j \in 1 .. n /\ IsLabel(p[j])
      BY DEF LabelPositions
    <3> QED  BY <1>2, <2>3, <3>1, <3>2, <3>3, <3>4
  <2>5. CASE ~IsBranch(i) /\ i.kind = "ret"
    <3>1. NextPC(p, x) = n + 1 /\ NextPC(q, y) = Len(q) + 1
      BY <1>2, <2>5 DEF NextPC, Stopped
    <3> QED  BY <1>2, <2>3, <3>1
  <2>6. CASE ~IsBranch(i) /\ i.kind # "ret"
    <3>1. NextPC(p, x) = x + 1 /\ NextPC(q, y) = y + 1
      BY <1>2, <2>6 DEF NextPC
    <3> QED  BY <1>2, <2>3, <3>1
  <2> QED  BY <2>4, <2>5, <2>6
<1>8. Stands(p, q, x, walk)
  <2>1. i = [i EXCEPT !.label = i.label]
    BY <1>3 DEF Items
  <2>2. walk[x + 1] = y + 1
    BY <1>2, <1>4, <1>5
  <2> HIDE DEF walk, i, y
  <2> QED  BY <1>2, <1>5, <1>7, <2>1, <2>2 DEF Stands, i
<1>9. Tracks(p, q, 1 .. n + 1, walk, Unread(p), a, b)
  BY <1>1, <1>4, <1>5 DEF Tracks, Unread
<1>10. /\ IsLabel(i) \/ ReadBy(i) \cap Unread(p)[x] = {}
       /\ \A k \in ItemSuccessors(p, x) : Unread(p)[x] \ Overwritten(i) \subseteq Unread(p)[k]
  <2>1. Unread(p)[x] = NotLive(p, x) /\ \A k \in ItemSuccessors(p, x) : Unread(p)[k] = NotLive(p, k)
    BY <1>3, <1>4 DEF Unread
  <2> QED  BY <1>1, <2>1, UnreadBehind
<1>11. Tracks(p, q, 1 .. n + 1, walk, Unread(p), s, t)
  <2> HIDE DEF walk
  <2> QED  BY <1>1, <1>3, <1>8, <1>9, <1>10, StandingStep
<1>12. s.pc \in ItemSuccessors(p, x)
  BY <1>1, StepGoesOn
<1>13. walk[s.pc] = at[s.pc]
  BY <1>3, <1>5, <1>6, <1>12
<1>14. Tracks(p, q, 1 .. n + 1, at, Unread(p), s, t)
  <2> HIDE DEF walk, s, t
  <2> QED  BY <1>11, <1>13 DEF Tracks
<1>15. ASSUME NEW m \in moves, s.pc <= n, Inside(p, LoopOf(p, m), s.pc) PROVE Ready(p, m[3], t)
  <2>1. Around(p, m, x)
    <3> HIDE DEF s, walk
    <3> QED  BY <1>a, <1>12, <1>15
  <2>2. Ready(p, m[3], b)
    BY <1>a, <2>1
  <2>3. q[b.pc] = p[x] /\ b.pc \in 1 .. Len(q) /\ x \in 1 .. Len(p) /\ ~IsMoved(moves, x) /\ IsProgram(q) /\ IsLane(q, b)
    BY <1>1, <1>2
  <2> HIDE DEF s, x, walk, n, y, i
  <2> QED  BY <2>1, <2>2, <2>3, KeptLeavesReady
<1> HIDE DEF s, t
<1> QED  BY <1>14, <1>15 DEF Hoisted, s, t

\* The other lane comes to the end of what is put in front of an item.
LEMMA PlacingEnds ==
  ASSUME NEW p, IsProgram(p), NEW moves, Moving(p, moves), HoistingAssumes(p, moves), NEW q, NEW at, NEW put,
         Layout(p, moves, q, at, put), NEW a, NEW lane, NEW m \in Nat, a.pc <= Len(p),
         Hoisted(p, moves, q, at, a, RunLane(q, lane, m))
  PROVE  /\ Len(put[a.pc]) \in Nat
         /\ Placing(p, moves, q, at, put, Len(put[a.pc]), a, RunLane(q, lane, m + Len(put[a.pc])))
<1> DEFINE c == Len(put[a.pc])
           S == {j \in Nat : j <= c => Placing(p, moves, q, at, put, j, a, RunLane(q, lane, m + j))}
<1>1. Placing(p, moves, q, at, put, 0, a, RunLane(q, lane, m))
  BY PlacingStarts
<1>2. c \in Nat
  <2>1. a.pc \in 1 .. Len(p)
    BY <1>1 DEF Placing
  <2> QED  BY <2>1 DEF Layout
<1>3. 0 \in S
  <2>1. m + 0 = m
    OBVIOUS
  <2> QED  BY <1>1, <2>1
<1>4. ASSUME NEW j \in Nat, j \in S PROVE j + 1 \in S
  <2>1. SUFFICES ASSUME j + 1 <= c PROVE Placing(p, moves, q, at, put, j + 1, a, RunLane(q, lane, m + (j + 1)))
    OBVIOUS
  <2>2. j < Len(put[a.pc]) /\ m + j \in Nat /\ m + (j + 1) = (m + j) + 1
    BY <1>2, <2>1
  <2>3. Placing(p, moves, q, at, put, j, a, RunLane(q, lane, m + j))
    BY <1>2, <1>4, <2>1
  <2>4. RunLane(q, lane, (m + j) + 1) = LaneStep(q, RunLane(q, lane, m + j))
    BY <2>2, RunSucc
  <2> DEFINE b == RunLane(q, lane, m + j)
  <2>5. Placing(p, moves, q, at, put, j, a, b)
    BY <2>3
  <2>6. RunLane(q, lane, m + (j + 1)) = LaneStep(q, b)
    BY <2>2, <2>4
  <2> HIDE DEF b
  <2>7. Placing(p, moves, q, at, put, j + 1, a, LaneStep(q, b))
    BY <2>2, <2>5, PlacedStep
  <2> QED  BY <2>6, <2>7
<1>5. Nat \subseteq S
  <2> HIDE DEF S
  <2> QED  BY <1>3, <1>4, InductionOnSet
<1>6. c \in S /\ c <= c
  BY <1>2, <1>5
<1> QED  BY <1>2, <1>6

\* A step of the one lane is made by at most as many of the other as there are
\* items.
LEMMA HoistedStep ==
  ASSUME NEW p, IsProgram(p), NEW moves, Moving(p, moves), HoistingAssumes(p, moves), NEW q, NEW at, NEW put,
         Layout(p, moves, q, at, put), NEW a, NEW lane, NEW m \in Nat, Hoisted(p, moves, q, at, a, RunLane(q, lane, m))
  PROVE  \E d \in 0 .. Len(q) : Hoisted(p, moves, q, at, LaneStep(p, a), RunLane(q, lane, m + d))
<1>1. IsLane(p, a) /\ IsProgram(q)
  BY DEF Hoisted, Tracks, Layout
<1>2. Len(p) \in Nat /\ Len(q) \in Nat /\ a.pc \in 1 .. Len(p) + 1
  BY <1>1, ProgramFacts DEF IsLane
<1>3. CASE a.pc > Len(p)
  <2>1. LaneStep(p, a) = a /\ m + 0 = m /\ 0 \in 0 .. Len(q)
    BY <1>2, <1>3, StoppedStays
  <2> QED  BY <2>1
<1>4. CASE ~(a.pc > Len(p))
  <2> DEFINE x == a.pc
             c == Len(put[x])
             b == RunLane(q, lane, m + c)
  <2>1. x \in 1 .. Len(p) /\ x <= Len(p)
    BY <1>2, <1>4
  <2>2. c \in Nat /\ Placing(p, moves, q, at, put, Len(put[a.pc]), a, b)
    BY <2>1, PlacingEnds
  <2>3. at[x] \in 1 .. Len(q) + 1 /\ at[x + 1] \in 1 .. Len(q) + 1
    <3>1. x \in 1 .. Len(p) + 1 /\ x + 1 \in 1 .. Len(p) + 1
      BY <1>2, <2>1
    <3> QED  BY <3>1 DEF Layout
  <2>4. IF IsMoved(moves, x) THEN at[x + 1] = at[x] + c ELSE at[x + 1] = at[x] + c + 1
    BY <2>1 DEF Layout
  <2>5. CASE IsMoved(moves, x)
    <3>1. c \in 0 .. Len(q)
      <4> DEFINE u == at[x]
                 v == at[x + 1]
      <4>1. u \in 1 .. Len(q) + 1 /\ v \in 1 .. Len(q) + 1 /\ v = u + c
        BY <2>3, <2>4, <2>5
      <4> HIDE DEF u, v, c
      <4> QED  BY <1>2, <2>2, <4>1
    <3> HIDE DEF b
    <3>2. Hoisted(p, moves, q, at, LaneStep(p, a), b)
      BY <2>2, <2>5, MovedAway
    <3> QED  BY <3>1, <3>2 DEF b
  <2>6. CASE ~IsMoved(moves, x)
    <3>1. c + 1 \in 0 .. Len(q) /\ m + (c + 1) = (m + c) + 1 /\ m + c \in Nat
      <4> DEFINE u == at[x]
                 v == at[x + 1]
      <4>1. u \in 1 .. Len(q) + 1 /\ v \in 1 .. Len(q) + 1 /\ v = u + c + 1
        BY <2>3, <2>4, <2>6
      <4> HIDE DEF u, v, c
      <4> QED  BY <1>2, <2>2, <4>1
    <3>2. RunLane(q, lane, m + (c + 1)) = LaneStep(q, b)
      BY <3>1, RunSucc
    <3> HIDE DEF b
    <3>3. Hoisted(p, moves, q, at, LaneStep(p, a), LaneStep(q, b))
      BY <2>2, <2>6, KeptStep
    <3> QED  BY <3>1, <3>2, <3>3
  <2> QED  BY <2>5, <2>6
<1> QED  BY <1>3, <1>4

\* The two are together at the start, and after every step of the one.
LEMMA HoistedRuns ==
  ASSUME NEW p, IsProgram(p), NEW moves, Moving(p, moves), HoistingAssumes(p, moves), NEW q, NEW at, NEW put,
         Layout(p, moves, q, at, put), NEW lane, IsLane(p, lane), IsLane(q, lane), lane.pc = 1, NEW n \in Nat
  PROVE  \E m \in 0 .. n * Len(q) : Hoisted(p, moves, q, at, RunLane(p, lane, n), RunLane(q, lane, m))
<1> DEFINE Good(k) == \E m \in 0 .. k * Len(q) : Hoisted(p, moves, q, at, RunLane(p, lane, k), RunLane(q, lane, m))
           S == {k \in Nat : Good(k)}
           w == Len(q)
<1>a. w \in Nat /\ Len(p) \in Nat
  BY ProgramFacts DEF Layout
<1>1. 0 \in S
  <2>1. RunLane(p, lane, 0) = lane /\ RunLane(q, lane, 0) = lane
    BY RunZero
  <2>2. Tracks(p, q, 1 .. Len(p) + 1, at, Unread(p), lane, lane)
    <3>1. 1 \in 1 .. Len(p) + 1
      BY <1>a
    <3> QED  BY <3>1 DEF Layout, Tracks, AgreeBut
  <2>3. ASSUME NEW m \in moves, lane.pc <= Len(p) PROVE ~Inside(p, LoopOf(p, m), lane.pc)
    <3>1. 1 \in 1 .. Len(p)
      BY <1>a, <2>3
    <3>2. LoopOf(p, m) \in Hoistable(p)
      BY MoveFacts DEF IsMove
    <3>3. LoopOf(p, m).blocks \subseteq Leaders(p)
      BY <3>2, HoistableFacts
    <3>4. 1 \notin LoopOf(p, m).blocks
      BY DEF HoistingAssumes, LoopsAreEntered
    <3>5. ASSUME NEW b \in LoopOf(p, m).blocks, 1 \in b .. BlockEnd(p, b) PROVE FALSE
      <4>1. b \in Nat /\ b # 0
        BY <3>3, LeadersFacts, <1>a
      <4>2. b = 1
        BY <3>5, <4>1
      <4> QED  BY <3>4, <4>2
    <3> QED  BY <3>5 DEF Inside
  <2>4. Hoisted(p, moves, q, at, lane, lane)
    BY <2>2, <2>3 DEF Hoisted
  <2>5. 0 \in 0 .. 0 * w
    BY <1>a
  <2> QED  BY <2>1, <2>4, <2>5
<1>2. ASSUME NEW k \in Nat, k \in S PROVE k + 1 \in S
  <2>1. PICK m \in 0 .. k * w : Hoisted(p, moves, q, at, RunLane(p, lane, k), RunLane(q, lane, m))
    BY <1>2
  <2> DEFINE a == RunLane(p, lane, k)
  <2>2. RunLane(p, lane, k + 1) = LaneStep(p, a)
    BY RunSucc
  <2>3. m \in Nat /\ Hoisted(p, moves, q, at, a, RunLane(q, lane, m))
    <3>1. k * w \in Nat
      BY <1>a
    <3> QED  BY <2>1, <3>1
  <2> HIDE DEF a
  <2>4. PICK d \in 0 .. w : Hoisted(p, moves, q, at, LaneStep(p, a), RunLane(q, lane, m + d))
    BY <2>3, HoistedStep
  <2>5. m + d \in 0 .. (k + 1) * w
    <3>1. (k + 1) * w = k * w + w
      BY <1>a
    <3>2. k * w \in Nat
      BY <1>a
    <3> DEFINE z == k * w
    <3> HIDE DEF z
    <3> QED  BY <1>a, <3>1, <3>2 DEF z
  <2> QED  BY <2>2, <2>4, <2>5
<1>3. Nat \subseteq S
  <2> HIDE DEF S
  <2> QED  BY <1>1, <1>2, InductionOnSet
<1> QED  BY <1>3

\* So the moves preserve what the program does.
LEMMA MovesPreserve ==
  ASSUME NEW p, IsProgram(p), NEW moves, Moving(p, moves), HoistingAssumes(p, moves), NEW q, q = Rebuilt(p, moves)
  PROVE  ~BuildFails(q) /\ Alike(p, q, Steps * Len(q))
<1>1. PICK at, put : Layout(p, moves, q, at, put)
  BY RebuiltLayout
<1>2. IsProgram(q)
  BY <1>1 DEF Layout
<1>3. ASSUME NEW lane \in LaunchedLanes(p),
             NEW a, a = RunLane(p, lane, Steps), NEW b, b = RunLane(q, lane, Steps * Len(q))
      PROVE  /\ IsPrefix(a.stores, b.stores)
             /\ a.pc > Len(p) => b.pc > Len(q) /\ b.stores = a.stores
  <2>1. Steps \in Nat /\ Len(p) \in Nat /\ Len(q) \in Nat /\ Steps * Len(q) \in Nat
    BY <1>2, StepsAssumption, ProgramFacts
  <2>2. IsLane(p, lane) /\ lane.pc = 1
    BY LaunchFacts
  <2>3. IsLane(q, lane)
    <3>1. 1 \in 1 .. Len(q) + 1
      BY <2>1
    <3> QED  BY <2>2, <3>1 DEF IsLane
  <2>4. PICK m \in 0 .. Steps * Len(q) : Hoisted(p, moves, q, at, a, RunLane(q, lane, m))
    BY <1>1, <1>3, <2>1, <2>2, <2>3, HoistedRuns
  <2> DEFINE c == RunLane(q, lane, m)
             z == Steps * Len(q)
             d == z - m
  <2>5. d \in Nat /\ m \in Nat /\ m + d = z
    <3> HIDE DEF z
    <3> QED  BY <2>1, <2>4 DEF z
  <2>6. b = RunLane(q, lane, m + d)
    BY <1>3, <2>5
  <2> HIDE DEF d, z
  <2>7. IsPrefix(c.stores, b.stores) /\ (c.pc > Len(q) => b = c)
    BY <1>2, <2>3, <2>5, <2>6, RunsGrow
  <2>8. c.stores = a.stores /\ c.pc = at[a.pc] /\ a.pc \in 1 .. Len(p) + 1
    BY <2>4 DEF Hoisted, Tracks, AgreeBut, IsLane
  <2>9. a.pc > Len(p) => c.pc = Len(q) + 1
    BY <1>1, <2>1, <2>8 DEF Layout
  <2> HIDE DEF c
  <2> QED  BY <2>1, <2>7, <2>8, <2>9
<1>4. Alike(p, q, Steps * Len(q))
  BY <1>3 DEF Alike
<1> QED  BY <1>2, <1>4 DEF IsProgram

-----------------------------------------------------------------------------
(* Both passes make moves of that kind.                                     *)

\* The block an item is in.
LEMMA BlockOfItem ==
  ASSUME NEW p, IsProgram(p), NEW b \in Leaders(p), NEW k \in b .. BlockEnd(p, b)
  PROVE  BlockOf(p, k) = b
<1> DEFINE Q(c) == c \in Leaders(p) /\ c <= k /\ \A l \in Later(p, c) : k < l
<1>1. Leaders(p) \subseteq 1 .. Len(p) + 1 /\ Len(p) \in Nat
  BY ProgramFacts, LeadersFacts
<1>2. BlockEnd(p, b) \in b - 1 .. Len(p) /\ \A j \in b + 1 .. BlockEnd(p, b) : j \notin Leaders(p)
  BY <1>1, BlockFacts
<1>3. b \in Nat /\ k \in Nat /\ b <= k /\ k <= BlockEnd(p, b) /\ BlockEnd(p, b) \in Int
  BY <1>1, <1>2
<1>4. ASSUME NEW l \in Leaders(p), l > b PROVE k < l
  BY <1>1, <1>2, <1>3, <1>4
<1>5. Q(b)
  BY <1>3, <1>4 DEF Later
<1>6. ASSUME NEW c, Q(c) PROVE c = b
  <2>1. c \in Nat /\ c \in Leaders(p) /\ c <= k
    BY <1>1, <1>6
  <2>2. ~(c < b)
    <3>1. SUFFICES ASSUME c < b PROVE FALSE
      OBVIOUS
    <3>2. b \in Later(p, c)
      BY <1>3, <2>1, <3>1 DEF Later
    <3> QED  BY <1>3, <1>6, <3>2
  <2>3. ~(b < c)
    BY <1>3, <1>4, <2>1
  <2> QED  BY <1>3, <2>1, <2>2, <2>3
<1>7. Q(BlockOf(p, k))
  <2>1. BlockOf(p, k) = CHOOSE c : Q(c)
    BY Zenon DEF BlockOf
  <2> HIDE DEF Q
  <2> QED  BY <1>5, <2>1, Zenon
<1> QED  BY <1>6, <1>7

\* The moves of the instructions K[l] of the loops L.
TakenFrom(p, L, K) == UNION {{<<l.tail, l.header, k, InsertBefore(p, l)>> : k \in K[l]} : l \in L}

\* The loop, the item and the place can be read off a move.
LEMMA TakenFacts ==
  ASSUME NEW p, IsProgram(p), NEW L \in SUBSET Hoistable(p), NEW K, \A l \in L : K[l] \subseteq LoopInstructions(p, l),
         NEW moves, moves = TakenFrom(p, L, K)
  PROVE  /\ IsFiniteSet(moves)
         /\ \A m \in moves : /\ m \in Quadruples /\ LoopOf(p, m) \in L /\ m[3] \in K[LoopOf(p, m)]
                             /\ m[4] = InsertBefore(p, LoopOf(p, m))
         /\ \A l \in L : \A k \in K[l] : <<l.tail, l.header, k, InsertBefore(p, l)>> \in moves
<1> DEFINE X == 0 .. Len(p) + 1
<1>1. Len(p) \in Nat /\ Leaders(p) \subseteq X /\ X \subseteq Nat
  BY ProgramFacts, LeadersFacts
<1>2. \A l \in L : \A k \in K[l] : <<l.tail, l.header, k, InsertBefore(p, l)>> \in moves
  BY DEF TakenFrom
<1>3. ASSUME NEW m \in moves
      PROVE  /\ m \in X \X X \X X \X X
             /\ LoopOf(p, m) \in L /\ m[3] \in K[LoopOf(p, m)]
             /\ m[4] = InsertBefore(p, LoopOf(p, m))
  <2>1. PICK l \in L : \E k \in K[l] : m = <<l.tail, l.header, k, InsertBefore(p, l)>>
    BY DEF TakenFrom
  <2>2. PICK k \in K[l] : m = <<l.tail, l.header, k, InsertBefore(p, l)>>
    BY <2>1
  <2>3. /\ l.tail \in Leaders(p) /\ l.header \in Leaders(p) /\ InsertBefore(p, l) \in 1 .. Len(p)
        /\ l = [tail |-> l.tail, header |-> l.header, blocks |-> LoopBody(BuildCFG(p), l.tail, l.header)]
    BY HoistableFacts
  <2>4. k \in 1 .. Len(p)
    BY LoopItemFacts
  <2>5. k \in X /\ InsertBefore(p, l) \in X
    BY <1>1, <2>3, <2>4
  <2>6. m \in X \X X \X X \X X /\ m[1] = l.tail /\ m[2] = l.header /\ m[3] = k /\ m[4] = InsertBefore(p, l)
    BY <1>1, <2>2, <2>3, <2>5
  <2>7. LoopOf(p, m) = l
    BY <2>3, <2>6 DEF LoopOf
  <2> QED  BY <1>2, <2>6, <2>7
<1>4. IsFiniteSet(moves)
  <2> DEFINE Y == X \X X
             f == [m \in moves |-> <<<<m[1], m[2]>>, <<m[3], m[4]>>>>]
  <2>1. IsFiniteSet(X)
    BY <1>1, FS_Interval
  <2>2. IsFiniteSet(Y)
    BY <2>1, FS_Product
  <2>3. IsFiniteSet(Y \X Y)
    BY <2>2, FS_Product
  <2>4. \A m \in moves : m \in X \X X \X X \X X
    BY <1>3
  <2> HIDE DEF X
  <2>5. \A m \in moves : m = <<m[1], m[2], m[3], m[4]>> /\ m[1] \in X /\ m[2] \in X /\ m[3] \in X /\ m[4] \in X
    BY <2>4
  <2>6. f \in [moves -> Y \X Y]
    BY <2>5
  <2>7. ASSUME NEW m \in moves, NEW o \in moves, f[m] = f[o] PROVE m = o
    <3>1. <<<<m[1], m[2]>>, <<m[3], m[4]>>>> = <<<<o[1], o[2]>>, <<o[3], o[4]>>>>
      BY <2>7
    <3>2. m[1] = o[1] /\ m[2] = o[2] /\ m[3] = o[3] /\ m[4] = o[4]
      BY <3>1
    <3> QED  BY <2>5, <3>2
  <2> HIDE DEF f, Y
  <2>8. f \in Injection(moves, Y \X Y)
    BY <2>6, <2>7 DEF Injection, IsInjective
  <2> QED  BY <2>3, <2>8, FS_Injection
<1>5. \A m \in moves : m \in Quadruples
  <2>1. X \X X \X X \X X \subseteq Quadruples
    BY <1>1 DEF Quadruples
  <2> QED  BY <1>3, <2>1
<1> QED  BY <1>2, <1>3, <1>4, <1>5

\* What makes them moves of that kind.
LEMMA TakenMoves ==
  ASSUME NEW p, IsProgram(p), NEW L \in SUBSET Hoistable(p), NEW K, NEW moves, moves = TakenFrom(p, L, K),
         \A l \in L : K[l] \subseteq LoopInstructions(p, l),
         \A l \in L : \A k \in K[l] :
           /\ ~p[k].guarded /\ p[k].op \in PureResultBases \cup {"ld"}
           /\ LoopDefinitions(p, l, p[k].dest) = {k}
           /\ p[k].op = "ld" => ~LoopWithStore(p, l)
           /\ \A r \in ArgRegs(p[k]) : LoopDefinitions(p, l, r) \subseteq K[l]
  PROVE  Moving(p, moves)
<1>1. /\ IsFiniteSet(moves)
      /\ \A m \in moves : /\ m \in Quadruples /\ LoopOf(p, m) \in L /\ m[3] \in K[LoopOf(p, m)]
                          /\ m[4] = InsertBefore(p, LoopOf(p, m))
                          /\ \A d \in K[LoopOf(p, m)] : <<m[1], m[2], d, m[4]>> \in moves
  <2>1. IsFiniteSet(moves)
    BY TakenFacts
  <2>2. ASSUME NEW m \in moves
        PROVE  /\ m \in Quadruples /\ LoopOf(p, m) \in L /\ m[3] \in K[LoopOf(p, m)]
               /\ m[4] = InsertBefore(p, LoopOf(p, m))
               /\ \A d \in K[LoopOf(p, m)] : <<m[1], m[2], d, m[4]>> \in moves
    <3>1. m \in Quadruples /\ LoopOf(p, m) \in L /\ m[3] \in K[LoopOf(p, m)]
      BY TakenFacts
    <3>2. m[4] = InsertBefore(p, LoopOf(p, m))
      BY TakenFacts
    <3>3. ASSUME NEW d \in K[LoopOf(p, m)] PROVE <<m[1], m[2], d, m[4]>> \in moves
      <4> DEFINE l == LoopOf(p, m)
      <4>1. l.tail = m[1] /\ l.header = m[2]
        BY DEF LoopOf
      <4> HIDE DEF l
      <4>2. l \in L /\ d \in K[l] /\ m[4] = InsertBefore(p, l)
        BY <3>1, <3>2 DEF l
      <4>3. <<l.tail, l.header, d, InsertBefore(p, l)>> \in moves
        BY <4>2, TakenFacts
      <4> QED  BY <4>1, <4>2, <4>3
    <3> QED  BY <3>1, <3>2, <3>3
  <2> QED  BY <2>1, <2>2
<1>2. ASSUME NEW m \in moves PROVE IsMove(p, moves, m)
  <2> DEFINE l == LoopOf(p, m)
             k == m[3]
  <2>1. /\ l \in L /\ k \in K[l] /\ l \in Hoistable(p) /\ m \in Quadruples /\ m[4] = InsertBefore(p, l)
        /\ \A d \in K[l] : <<m[1], m[2], d, m[4]>> \in moves
    BY <1>1
  <2>2. /\ ~p[k].guarded /\ p[k].op \in PureResultBases \cup {"ld"} /\ k \in LoopInstructions(p, l)
        /\ LoopDefinitions(p, l, p[k].dest) = {k}
        /\ p[k].op = "ld" => ~LoopWithStore(p, l)
        /\ \A r \in ArgRegs(p[k]) : LoopDefinitions(p, l, r) \subseteq K[l]
    BY <2>1
  <2>3. \A r \in ArgRegs(p[k]) : \A d \in LoopDefinitions(p, l, r) : <<m[1], m[2], d, m[4]>> \in moves
    BY <2>1, <2>2
  <2> QED  BY <2>1, <2>2, <2>3 DEF IsMove, Repeated
<1> QED  BY <1>1, <1>2 DEF Moving

\* The definitions of a register in a loop.
LEMMA LoopDefinitionFacts ==
  ASSUME NEW p, IsProgram(p), NEW l \in Hoistable(p), NEW i, NEW r \in ArgRegs(i), NEW d \in LoopDefinitions(p, l, r)
  PROVE  d \in LoopInstructions(p, l) /\ p[d].dest = r /\ p[d].op \in DestinationBases /\ BlockOf(p, d) \in l.blocks
<1>1. d \in LoopInstructions(p, l) /\ p[d].dest = r /\ p[d].op \in DestinationBases
  BY DEF LoopDefinitions, DefinitionsOf, DestinationRegister, ArgRegs
<1>2. Inside(p, l, d)
  BY <1>1, LoopItemFacts
<1>3. PICK b \in l.blocks : d \in b .. BlockEnd(p, b)
  BY <1>2 DEF Inside
<1>4. b \in Leaders(p)
  BY HoistableFacts
<1> QED  BY <1>1, <1>3, <1>4, BlockOfItem

\* A register with one definition in a loop has no other.
LEMMA OneLoopDefinition ==
  ASSUME NEW p, IsProgram(p), NEW l, NEW r, Cardinality(LoopDefinitions(p, l, r)) <= 1,
         NEW d \in LoopDefinitions(p, l, r)
  PROVE  LoopDefinitions(p, l, r) = {d}
<1> DEFINE S == LoopDefinitions(p, l, r)
<1>1. IsFiniteSet(1 .. Len(p))
  BY ProgramFacts, FS_Interval
<1>2. S \subseteq 1 .. Len(p)
  BY DEF LoopDefinitions, DefinitionsOf
<1> HIDE DEF S
<1>3. IsFiniteSet(S) /\ Cardinality(S) \in Nat
  BY <1>1, <1>2, FS_Subset, FS_CardinalityType
<1>4. Cardinality(S) # 0 /\ Cardinality(S) <= 1
  BY <1>3, FS_EmptySet DEF S
<1>5. Cardinality(S) = 1
  BY <1>3, <1>4
<1>6. PICK x : S = {x}
  BY <1>3, <1>5, FS_Singleton
<1> QED  BY <1>6 DEF S

\* What the hypothesis on definitions says of an instruction that is moved.
LEMMA SeenDefinition ==
  ASSUME NEW p, IsProgram(p), NEW moves, DefinitionsAreSeen(p, moves), NEW l \in Hoistable(p), NEW k,
         <<l.tail, l.header, k, InsertBefore(p, l)>> \in moves, NEW r \in ArgRegs(p[k]), NEW d \in LoopDefinitions(p, l, r)
  PROVE  /\ d \in LastDefinition(p, r) /\ LoopDefinitions(p, l, r) = {d} /\ p[d].dest = r
         /\ BlockOf(p, d) \in l.blocks /\ d \in LoopInstructions(p, l)
<1> DEFINE m == <<l.tail, l.header, k, InsertBefore(p, l)>>
<1>1. m \in moves /\ m[1] = l.tail /\ m[2] = l.header /\ m[3] = k
  OBVIOUS
<1> HIDE DEF m
<1>2. LoopOf(p, m) = l
  BY <1>1, HoistableFacts DEF LoopOf
<1>3. r \in ReadRegisters(p[m[3]])
  BY <1>1 DEF ArgRegs, ReadRegisters
<1>4. /\ LoopDefinitions(p, l, r) # {} => \E e \in LastDefinition(p, r) : e \in Repeated(p, m)
      /\ Cardinality(LoopDefinitions(p, l, r)) <= 1
  BY <1>1, <1>2, <1>3 DEF DefinitionsAreSeen
<1>5. PICK e \in LastDefinition(p, r) : e \in Repeated(p, m)
  BY <1>4
<1>6. e \in LoopDefinitions(p, l, r)
  BY <1>2, <1>5 DEF Repeated, LastDefinition, LoopDefinitions
<1>7. LoopDefinitions(p, l, r) = {d}
  BY <1>4, OneLoopDefinition
<1>8. d = e
  BY <1>6, <1>7
<1>9. p[d].dest = r /\ BlockOf(p, d) \in l.blocks /\ d \in LoopInstructions(p, l)
  BY LoopDefinitionFacts
<1> QED  BY <1>5, <1>7, <1>8, <1>9

\* Loads are.
LEMMA LoadsAreMoves ==
  ASSUME NEW p, IsProgram(p), DefinitionsAreSeen(p, LoadMoves(p))
  PROVE  Moving(p, LoadMoves(p))
<1> DEFINE L == {l \in Hoistable(p) : ~LoopWithStore(p, l)}
           K == [l \in L |-> {k \in LoopInstructions(p, l) : HoistableLoad(p, l, k)}]
           moves == LoadMoves(p)
<1>1. moves = TakenFrom(p, L, K)
  BY DEF LoadMoves, TakenFrom
<1>2. L \in SUBSET Hoistable(p) /\ \A l \in L : K[l] \subseteq LoopInstructions(p, l)
  OBVIOUS
<1>3. ASSUME NEW l \in L, NEW k \in K[l]
      PROVE  /\ ~p[k].guarded /\ p[k].op \in PureResultBases \cup {"ld"}
             /\ LoopDefinitions(p, l, p[k].dest) = {k}
             /\ p[k].op = "ld" => ~LoopWithStore(p, l)
             /\ \A r \in ArgRegs(p[k]) : LoopDefinitions(p, l, r) \subseteq K[l]
  <2>1. /\ l \in Hoistable(p) /\ ~LoopWithStore(p, l) /\ k \in LoopInstructions(p, l)
        /\ p[k].op = "ld" /\ ~p[k].guarded
        /\ Cardinality(LoopDefinitions(p, l, p[k].dest)) <= 1
        /\ \A d \in LastDefinition(p, p[k].args[1].reg) : BlockOf(p, d) \notin l.blocks
    BY DEF HoistableLoad
  <2>2. k \in 1 .. Len(p) /\ ~IsLabel(p[k])
    BY <2>1, LoopItemFacts
  <2>3. p[k] \in Items /\ WellFormed(p[k])
    BY <2>2, ProgramFacts
  <2>4. p[k].kind = "op"
    BY <2>1, <2>3 DEF WellFormed, DestinationBases
  <2>6. k \in LoopDefinitions(p, l, p[k].dest)
    BY <2>1, <2>2 DEF LoopDefinitions, DefinitionsOf, DestinationRegister, DestinationBases
  <2>7. LoopDefinitions(p, l, p[k].dest) = {k}
    BY <2>1, <2>6, OneLoopDefinition
  <2>8. <<l.tail, l.header, k, InsertBefore(p, l)>> \in moves
    BY <2>1 DEF LoadMoves
  <2>9. \A r \in ArgRegs(p[k]) : r = p[k].args[1].reg
    <3>1. Len(p[k].args) = 1 /\ p[k].args \in Seq([reg: STRING, imm: Int])
      BY <2>1, <2>3, <2>4 DEF WellFormed, Arity, Items
    <3>2. DOMAIN p[k].args = {1}
      BY <3>1
    <3> QED  BY <3>2 DEF ArgRegs
  <2>10. ASSUME NEW r \in ArgRegs(p[k]), NEW d \in LoopDefinitions(p, l, r) PROVE FALSE
    <3>1. d \in LastDefinition(p, r) /\ BlockOf(p, d) \in l.blocks
      BY <2>1, <2>8, <2>10, SeenDefinition
    <3> QED  BY <2>1, <2>9, <3>1
  <2> QED  BY <2>1, <2>7, <2>10
<1> HIDE DEF L, K, moves
<1>4. Moving(p, moves)
  BY <1>1, <1>2, <1>3, TakenMoves
<1> QED  BY <1>4 DEF moves

\* What InvariantInstructions starts from, one round of it, and its chain.
PureInstructions(p, l) == {k \in LoopInstructions(p, l) : ~p[k].guarded /\ p[k].op \in PureResultBases}
InvariantGiven(p, l, known) ==
  {k \in PureInstructions(p, l) : \A r \in ReadRegisters(p[k]) : OperandInvariant(p, l, r, known)}
IsInvariantChain(p, l, n, h) == h = [k \in 0 .. n |-> IF k = 0 THEN {} ELSE InvariantGiven(p, l, h[k-1])]

\* InvariantInstructions, with its chain named.
LEMMA InvariantByChain ==
  ASSUME NEW p, NEW l
  PROVE  InvariantInstructions(p, l)
           = (CHOOSE h : IsInvariantChain(p, l, Cardinality(PureInstructions(p, l)), h))[Cardinality(PureInstructions(p, l))]
BY Zenon DEF InvariantInstructions, PureInstructions, InvariantGiven, IsInvariantChain

\* More known instructions make more invariant ones.
LEMMA InvariantGrows ==
  ASSUME NEW p, NEW l, NEW S, NEW T, S \subseteq T
  PROVE  InvariantGiven(p, l, S) \subseteq InvariantGiven(p, l, T)
BY DEF InvariantGiven, OperandInvariant

\* What is invariant is pure, and what it reads of the loop is invariant, too.
LEMMA InvariantFacts ==
  ASSUME NEW p, IsProgram(p), NEW l \in Hoistable(p)
  PROVE  InvariantInstructions(p, l) \subseteq InvariantGiven(p, l, InvariantInstructions(p, l))
<1> DEFINE P == PureInstructions(p, l)
           V == SUBSET P
           n == Cardinality(P)
           F == [x \in Nat \X V |-> InvariantGiven(p, l, x[2])]
           h == CHOOSE f : IsInvariantChain(p, l, n, f)
<1>1. n \in Nat
  <2>1. IsFiniteSet(1 .. Len(p))
    BY ProgramFacts, FS_Interval
  <2>2. P \subseteq 1 .. Len(p)
    BY LoopItemFacts DEF PureInstructions
  <2> HIDE DEF P
  <2> QED  BY <2>1, <2>2, FS_Subset, FS_CardinalityType
<1>2. \A S : InvariantGiven(p, l, S) \in V
  BY DEF InvariantGiven
<1> HIDE DEF V
<1>3. F \in [Nat \X V -> V]
  BY <1>2
<1>4. {} \in V
  BY DEF V
<1>5. PICK c : Recurs(V, {}, F, n, c)
  <2> HIDE DEF F, n
  <2> QED  BY <1>1, <1>3, <1>4, Recursion
<1>6. IsInvariantChain(p, l, n, c)
  <2>1. c \in [0 .. n -> V] /\ c[0] = {} /\ \A k \in 1 .. n : c[k] = F[<<k, c[k-1]>>]
    BY <1>5 DEF Recurs
  <2>2. ASSUME NEW k \in 0 .. n PROVE c[k] = IF k = 0 THEN {} ELSE InvariantGiven(p, l, c[k-1])
    <3>1. CASE k = 0
      BY <2>1, <3>1
    <3>2. CASE k # 0
      <4>1. k \in 1 .. n /\ k - 1 \in 0 .. n /\ k \in Nat
        BY <1>1, <3>2
      <4>2. <<k, c[k-1]>> \in Nat \X V
        BY <2>1, <4>1
      <4>3. F[<<k, c[k-1]>>] = InvariantGiven(p, l, c[k-1])
        BY <4>2
      <4> QED  BY <2>1, <3>2, <4>1, <4>3
    <3> QED  BY <3>1, <3>2
  <2>3. c = [k \in 0 .. n |-> c[k]]
    BY <2>1
  <2> HIDE DEF n, F
  <2> QED  BY <2>2, <2>3 DEF IsInvariantChain
<1>7. IsInvariantChain(p, l, n, h)
  <2> HIDE DEF n
  <2> QED  BY <1>6, Zenon
<1>8. InvariantInstructions(p, l) = h[n]
  BY InvariantByChain
<1> HIDE DEF h, n, F, P
<1>9. h[0] = {} /\ \A k \in 1 .. n : h[k] = InvariantGiven(p, l, h[k-1])
  <2>1. h = [k \in 0 .. n |-> IF k = 0 THEN {} ELSE InvariantGiven(p, l, h[k-1])]
    BY <1>7 DEF IsInvariantChain
  <2>2. \A k \in 0 .. n : h[k] = IF k = 0 THEN {} ELSE InvariantGiven(p, l, h[k-1])
    BY <2>1, Zenon
  <2>3. 0 \in 0 .. n /\ \A k \in 1 .. n : k \in 0 .. n /\ k # 0
    BY <1>1
  <2> QED  BY <2>2, <2>3
<1> DEFINE S == {k \in Nat : k + 1 <= n => h[k] \subseteq h[k + 1]}
<1>10. 0 \in S
  BY <1>9
<1>11. ASSUME NEW k \in Nat, k \in S PROVE k + 1 \in S
  <2>1. SUFFICES ASSUME (k + 1) + 1 <= n PROVE h[k + 1] \subseteq h[(k + 1) + 1]
    OBVIOUS
  <2>2. k + 1 \in 1 .. n /\ (k + 1) + 1 \in 1 .. n /\ k + 1 - 1 = k /\ (k + 1) + 1 - 1 = k + 1 /\ k + 1 <= n
    BY <1>1, <2>1
  <2>3. h[k] \subseteq h[k + 1]
    BY <1>11, <2>2
  <2>4. h[k + 1] = InvariantGiven(p, l, h[k]) /\ h[(k + 1) + 1] = InvariantGiven(p, l, h[k + 1])
    <3>1. \A j \in 1 .. n : h[j] = InvariantGiven(p, l, h[j - 1])
      BY <1>9
    <3>2. h[k + 1] = InvariantGiven(p, l, h[k + 1 - 1])
      BY <2>2, <3>1
    <3>3. h[(k + 1) + 1] = InvariantGiven(p, l, h[(k + 1) + 1 - 1])
      BY <2>2, <3>1
    <3> QED  BY <2>2, <3>2, <3>3
  <2> QED  BY <2>3, <2>4, InvariantGrows
<1>12. Nat \subseteq S
  <2> HIDE DEF S
  <2> QED  BY <1>10, <1>11, InductionOnSet
<1>13. CASE n = 0
  BY <1>8, <1>9, <1>13
<1>14. CASE n # 0
  <2>1. n - 1 \in Nat /\ n - 1 + 1 = n /\ n \in 1 .. n /\ n - 1 + 1 <= n
    BY <1>1, <1>14
  <2>2. h[n - 1] \subseteq h[n]
    <3>1. n - 1 \in S
      BY <1>12, <2>1
    <3> QED  BY <2>1, <3>1
  <2>3. h[n] = InvariantGiven(p, l, h[n - 1])
    BY <1>9, <2>1
  <2>4. h[n] \subseteq InvariantGiven(p, l, h[n])
    BY <2>2, <2>3, InvariantGrows
  <2> QED  BY <1>8, <2>4
<1> QED  BY <1>13, <1>14

\* And so is the invariant code.
LEMMA InvariantsAreMoves ==
  ASSUME NEW p, IsProgram(p), DefinitionsAreSeen(p, InvariantMoves(p))
  PROVE  Moving(p, InvariantMoves(p))
<1> DEFINE L == Hoistable(p)
           K == [l \in L |-> {k \in InvariantInstructions(p, l) : SafeToHoist(p, l, k)}]
           moves == InvariantMoves(p)
<1>1. moves = TakenFrom(p, L, K)
  BY DEF InvariantMoves, TakenFrom
<1>2. ASSUME NEW l \in L, NEW k \in K[l]
      PROVE  /\ k \in LoopInstructions(p, l) /\ ~p[k].guarded /\ p[k].op \in PureResultBases
             /\ Cardinality(LoopDefinitions(p, l, p[k].dest)) = 1
             /\ \A r \in ReadRegisters(p[k]) : OperandInvariant(p, l, r, InvariantInstructions(p, l))
             /\ <<l.tail, l.header, k, InsertBefore(p, l)>> \in moves
  <2>1. k \in InvariantInstructions(p, l) /\ SafeToHoist(p, l, k)
    OBVIOUS
  <2>2. k \in InvariantGiven(p, l, InvariantInstructions(p, l))
    BY <2>1, InvariantFacts
  <2>3. <<l.tail, l.header, k, InsertBefore(p, l)>> \in moves
    BY <2>1 DEF InvariantMoves
  <2> HIDE DEF moves, K, L
  <2> QED  BY <2>1, <2>2, <2>3 DEF InvariantGiven, PureInstructions, SafeToHoist
<1>3. ASSUME NEW l \in L, NEW k \in K[l]
      PROVE  /\ ~p[k].guarded /\ p[k].op \in PureResultBases \cup {"ld"}
             /\ LoopDefinitions(p, l, p[k].dest) = {k}
             /\ p[k].op = "ld" => ~LoopWithStore(p, l)
             /\ \A r \in ArgRegs(p[k]) : LoopDefinitions(p, l, r) \subseteq K[l]
  <2>1. /\ k \in LoopInstructions(p, l) /\ ~p[k].guarded /\ p[k].op \in PureResultBases
        /\ Cardinality(LoopDefinitions(p, l, p[k].dest)) = 1
        /\ \A r \in ReadRegisters(p[k]) : OperandInvariant(p, l, r, InvariantInstructions(p, l))
        /\ <<l.tail, l.header, k, InsertBefore(p, l)>> \in moves
    BY <1>2
  <2>2. k \in 1 .. Len(p) /\ ~IsLabel(p[k])
    BY <2>1, LoopItemFacts
  <2>3. k \in LoopDefinitions(p, l, p[k].dest)
    BY <2>1, <2>2 DEF LoopDefinitions, DefinitionsOf, DestinationRegister, DestinationBases
  <2>4. LoopDefinitions(p, l, p[k].dest) = {k}
    BY <2>1, <2>3, OneLoopDefinition
  <2>5. p[k].op # "ld"
    BY <2>1 DEF PureResultBases
  <2>6. ASSUME NEW r \in ArgRegs(p[k]), NEW d \in LoopDefinitions(p, l, r) PROVE d \in K[l]
    <3>1. /\ d \in LastDefinition(p, r) /\ LoopDefinitions(p, l, r) = {d} /\ p[d].dest = r
          /\ BlockOf(p, d) \in l.blocks
      BY <2>1, SeenDefinition
    <3>2. r \in ReadRegisters(p[k])
      BY DEF ArgRegs, ReadRegisters
    <3>3. d \in InvariantInstructions(p, l)
      BY <2>1, <3>1, <3>2 DEF OperandInvariant
    <3>4. SafeToHoist(p, l, d)
      BY <3>1, FS_Singleton DEF SafeToHoist
    <3> QED  BY <3>3, <3>4
  <2> QED  BY <2>1, <2>4, <2>5, <2>6
<1>4. L \in SUBSET Hoistable(p) /\ \A l \in L : K[l] \subseteq LoopInstructions(p, l)
  BY <1>2
<1> HIDE DEF L, K, moves
<1>5. Moving(p, moves)
  BY <1>1, <1>3, <1>4, TakenMoves
<1> QED  BY <1>5 DEF moves

\* LICM preserves a program that is as it expects.
THEOREM InvariantCodeMayMove == Spec => []LICMPreserves
<1>1. RewriteInv => LICMPreserves
  <2>1. SUFFICES ASSUME RewriteInv, pass = "licm", stage = "done", HoistingAssumes(source, InvariantMoves(source))
                 PROVE  ~BuildFails(target) /\ Alike(source, target, Steps * Len(target))
    BY DEF LICMPreserves, HoistPreserves
  <2>2. IsProgram(source) /\ target = Transformed("licm", source)
    BY <2>1, ProgramsAssumption DEF RewriteInv
  <2>3. Transformed("licm", source) = Rebuilt(source, InvariantMoves(source))
    BY DEF Transformed, HoistInvariants
  <2>4. Moving(source, InvariantMoves(source))
    BY <2>1, <2>2, InvariantsAreMoves DEF HoistingAssumes
  <2> QED  BY <2>1, <2>2, <2>3, <2>4, MovesPreserve
<1> QED  BY <1>1, RewriteInvariance, PTL

\* So does load hoisting.
THEOREM LoadsMayMove == Spec => []LoadHoistingPreserves
<1>1. RewriteInv => LoadHoistingPreserves
  <2>1. SUFFICES ASSUME RewriteInv, pass = "load-hoisting", stage = "done", HoistingAssumes(source, LoadMoves(source))
                 PROVE  ~BuildFails(target) /\ Alike(source, target, Steps * Len(target))
    BY DEF LoadHoistingPreserves, HoistPreserves
  <2>2. IsProgram(source) /\ target = Transformed("load-hoisting", source)
    BY <2>1, ProgramsAssumption DEF RewriteInv
  <2>3. Transformed("load-hoisting", source) = Rebuilt(source, LoadMoves(source))
    BY DEF Transformed, HoistLoads
  <2>4. Moving(source, LoadMoves(source))
    BY <2>1, <2>2, LoadsAreMoves DEF HoistingAssumes
  <2> QED  BY <2>1, <2>2, <2>3, <2>4, MovesPreserve
<1> QED  BY <1>1, RewriteInvariance, PTL
=============================================================================
