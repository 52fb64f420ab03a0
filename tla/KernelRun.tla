------------------------------ MODULE KernelRun ------------------------------
(***************************************************************************)
(* A kernel from its items to the stores of its threads: the Lowerer makes *)
(* a binary (Lowering), the binary is decoded and run (Warp).  What each   *)
(* thread has stored is compared with a lane that executes the items by    *)
(* itself (PTXSemantics): lockstep, guards in place of branches, and the   *)
(* encoding must not show.                                                 *)
(***************************************************************************)
EXTENDS Lowering, Warp

CONSTANTS
  Inputs,      \* the parameters a kernel is launched with
  Memory,      \* global memory at the launch
  LaneSteps    \* how far a lane by itself is followed

\* The items are parsed ones, and a parameter is addressed by a number, its offset.
ASSUME OperandsAssumption ==
  \A p \in Programs : /\ IsProgram(p)
                      /\ \A k \in 1 .. Len(p) : p[k].op = "param" => IsImmediate(p[k], 1)

\* Registers with different names have different numbers, below the temporaries.
ASSUME DistinctNumbersAssumption ==
  /\ \A r, s \in DOMAIN RegNumber : RegNumber[r] < TempBase /\ (RegNumber[r] = RegNumber[s] => r = s)
  /\ \A r, s \in PredRegs : PredNumber[r] = PredNumber[s] => r = s
  /\ Specials \cap (DOMAIN RegNumber \cup PredRegs) = {}

\* A special register that is called uniform is: all threads of a warp see the same.
ASSUME WarpsAssumption ==
  /\ Threads \in Nat /\ WarpSize \in Nat \ {0}
  /\ {RegNumber[r] : r \in DOMAIN RegNumber} \cup (TempBase .. TempBase + 2) \subseteq RegisterFile
  /\ \A r \in UniformSpecials : \A n \in 0 .. Threads : \A s, t \in WarpThreads(n * WarpSize) :
       SpecialValues(SpecialNumber[r], s) = SpecialValues(SpecialNumber[r], t)

vars == <<loweringVars, warpVars>>

Init == LoweringInit /\ WarpInit
Lower == LoweringNext /\ UNCHANGED warpVars
Start ==
  /\ stage = "done" /\ status = "idle"
  /\ \E params \in Inputs : Launch([j \in DOMAIN binary |-> Decode(binary[j])], params, Memory)
  /\ UNCHANGED loweringVars
Run == WarpNext /\ UNCHANGED loweringVars

Next == Lower \/ Start \/ Run
Spec == Init /\ [][Next]_vars
FairSpec == Spec /\ WF_vars(Run)

-----------------------------------------------------------------------------
(* What the lowering relies on without asking. *)

\* Guards are lost on a return and on a parameter load.
GuardsAreKept ==
  \A k \in 1 .. Len(source) : source[k].guarded => source[k].kind # "ret" /\ source[k].op # "param"

\* Nothing in a region changes its guard, and nothing in it but the branch of a
\* loop has a guard of its own: that would replace the region's.
GuardsStand ==
  \A k \in skipped : \A j \in Region(source, k) :
    /\ source[j].dest # source[k].guard
    /\ source[j].guarded => IsBranch(source[j])

\* A region is entered at its top and left at its bottom.
RegionsAreClosed ==
  \A k \in skipped : \A j \in 1 .. Len(source) :
    IsBranch(source[j]) /\ j # k =>
      (j \in Region(source, k) <=> Target(source, j) \in k + 1 .. Target(source, k) - 1)

\* What every lane executes in a region, those that skip it included, is not
\* read behind it.
ControlStaysInside ==
  \A k \in skipped : \A j \in UniformControl(source, Region(source, k)) :
    source[j].dest # "" => Target(source, k) \notin LiveBefore(source, source[j].dest)

LoweringAssumes == GuardsAreKept /\ GuardsStand /\ RegionsAreClosed /\ ControlStaysInside

\* The sweep judges by the last definition in the text.  That is right where, all
\* along what the predicate depends on, a register's definitions agree with that
\* verdict and no lane passes over one.
DefinitionsAgree(k) ==
  \A j \in Slice(source, DOMAIN source, {k}) : \A r \in Uses(source[j]) : \A d \in DefinitionItems(source, r) :
    /\ ResultUniformity(source[d], Values(source)[d - 1]) = Values(source)[j - 1][r]
    /\ ~source[d].guarded /\ guards[d] = NoGuard

-----------------------------------------------------------------------------
(* Properties. *)

Alone(p, t) ==
  LET start == StartLane(pmem, Memory)
      known == [r \in DOMAIN start.regs |->
                  IF r \in Specials THEN SpecialValues(SpecialNumber[r], t) ELSE 0]
  IN  RunLane(p, [start EXCEPT !.regs = known], LaneSteps)

\* When the launch has come to its end, every thread has stored what its lane
\* stores by itself, in the same order.
ThreadsStoreTheSame ==
  status = "returned" /\ LoweringAssumes =>
    \A t \in ThreadIds : \A lane \in {Alone(source, t)} : lane.pc > Len(source) /\ lane.stores = stores[t]

\* A branch the analysis called uniform does not diverge.
UniformBranchesAgree ==
  status = "non-uniform BRX" => \A k \in UniformBranches :
    origin[wpc + 1] = k => ~DefinitionsAgree(k)

\* The program in which every region is entered.
Entered ==
  [k \in DOMAIN source |-> IF k \in skipped THEN [source[k] EXCEPT !.kind = "label", !.label = ""] ELSE source[k]]

\* The threads that return by themselves, at a launch that nothing of the above
\* stands in the way of.  A lane that skips a region executes what controls the
\* loops in it all the same: they have to end for it as well.
Returning ==
  IF /\ status = "running" /\ steps = 0 /\ warpStart = 0 /\ LoweringAssumes /\ varying = {}
     /\ \A k \in UniformBranches : DefinitionsAgree(k)
     /\ \A k \in skipped : \A j \in Region(source, k) : source[j].kind # "ret"
  THEN {t \in ThreadIds : \A p \in {source, Entered} : Alone(p, t).pc > Len(source)} ELSE {}

\* Where every thread returns by itself, the launch returns: no warp waits for a
\* lane that has left a loop, or runs off the code.
KernelsReturn == Returning = ThreadIds ~> status = "returned"
=============================================================================
