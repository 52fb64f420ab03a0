-------------------------------- MODULE Warp --------------------------------
(***************************************************************************)
(* sim.py, run and _run_warp: the warps of a launch one after the other,   *)
(* the lanes of a warp in lockstep under one program counter.  An          *)
(* instruction is executed by the lanes whose guard holds; a branch is     *)
(* taken by all or by none, and anything else is an error.                 *)
(*                                                                         *)
(* Words have Width bits, and memory wraps around: nothing is out of       *)
(* range.  Arithmetic is that of PTXSemantics.                             *)
(***************************************************************************)
EXTENDS ISA, PTXSemantics

CONSTANTS
  Threads, WarpSize,      \* total_threads, warp_size
  MaxSteps,               \* max_steps
  RegisterFile,           \* the registers of R0 .. R255 that the programs use
  SpecialValues(_, _)     \* _special_value: (selector, thread) -> word

VARIABLES
  program,                \* the decoded instructions
  pmem, gmem,             \* parameter memory, global memory
  warpStart, wpc, steps,  \* of the warp that runs
  lanes,                  \* thread -> its registers and predicates
  stores,                 \* thread -> the words it stored (accesses)
  status                  \* "idle", "running", "returned", or the error

warpVars == <<program, pmem, gmem, warpStart, wpc, steps, lanes, stores, status>>

ThreadIds == 0 .. Threads - 1
WarpThreads(start) == {t \in ThreadIds : start <= t /\ t < start + WarpSize}
FreshLanes(start) ==
  [t \in WarpThreads(start) |-> [regs |-> [r \in RegisterFile |-> 0], preds |-> [q \in 0 .. 7 |-> FALSE]]]

WarpInit ==
  /\ program = << >> /\ pmem = << >> /\ gmem = << >> /\ status = "idle"
  /\ warpStart = 0 /\ wpc = 0 /\ steps = 0 /\ lanes = << >> /\ stores = << >>

\* run, with the decoded code, the parameters and the memory.
Launch(instructions, params, mem) ==
  /\ program' = instructions /\ pmem' = params /\ gmem' = mem /\ status' = "running"
  /\ warpStart' = 0 /\ wpc' = 0 /\ steps' = 0 /\ lanes' = FreshLanes(0)
  /\ stores' = [t \in ThreadIds |-> << >>]

-----------------------------------------------------------------------------
Stop(reason) ==
  /\ status' = reason
  /\ UNCHANGED <<program, pmem, gmem, warpStart, wpc, steps, lanes, stores>>

InRange == 0 <= wpc /\ wpc < Len(program)
RunsOff == status = "running" /\ ~InRange /\ Stop("PC out of range")
OutOfSteps == status = "running" /\ InRange /\ steps >= MaxSteps /\ Stop("step limit exceeded")

At(opcodes) == status = "running" /\ InRange /\ steps < MaxSteps /\ program[wpc + 1].opcode \in opcodes
Inst == program[wpc + 1]

Goto(target) == wpc' = target /\ steps' = steps + 1 /\ UNCHANGED <<program, pmem, warpStart, status>>

GuardedControl == At({"HALT", "BR"}) /\ Inst.predicate # -1 /\ Stop("illegal guard")

\* The warp is through; the next one starts, if there are threads left.
Halt ==
  /\ At({"HALT"}) /\ Inst.predicate = -1
  /\ LET next == warpStart + WarpSize
     IN  IF next < Threads
         THEN /\ warpStart' = next /\ wpc' = 0 /\ steps' = 0 /\ lanes' = FreshLanes(next)
              /\ UNCHANGED <<program, pmem, gmem, stores, status>>
         ELSE Stop("returned")

Jump == At({"BR"}) /\ Inst.predicate = -1 /\ Goto(Inst.imm) /\ UNCHANGED <<gmem, lanes, stores>>

\* _branchx_next_pc, and _guard_passes for the others.
Holds(t) == Inst.predicate = -1 \/ lanes[t].preds[Inst.predicate] # Inst.negated

BranchX ==
  /\ At({"BRX"})
  /\ \A s, t \in DOMAIN lanes : Holds(s) = Holds(t)
  /\ Goto(IF \A t \in DOMAIN lanes : Holds(t) THEN Inst.imm ELSE wpc + 1)
  /\ UNCHANGED <<gmem, lanes, stores>>

Diverge == At({"BRX"}) /\ (\E s, t \in DOMAIN lanes : Holds(s) # Holds(t)) /\ Stop("non-uniform BRX")

-----------------------------------------------------------------------------
(* _execute_lane, for every lane whose guard holds. *)

Arithmetic == [ADD |-> "add", SUB |-> "sub", MUL |-> "mul", AND |-> "and"]

\* The word an instruction puts into its destination.
LaneResult(t) ==
  LET r == lanes[t].regs
      a == r[Inst.src1]
      b == r[Inst.src2]
  IN  CASE Inst.opcode = "LOADI" -> Inst.imm % 2^Width
        [] Inst.opcode = "CPY"   -> IF Inst.src1 >= 256 THEN SpecialValues(Inst.src1, t) ELSE a
        [] Inst.opcode = "LD"    -> IF Inst.space = "pmem" THEN pmem[a] ELSE gmem[a % MemoryWords]
        [] Inst.opcode \in {"MAD", "FMA"} ->
             Arith("add", Inst.type, Arith("mul", Inst.type, a, b), r[Inst.src3])
        [] OTHER -> Arith(Arithmetic[Inst.opcode], Inst.type, a, b)

Compute ==
  /\ At(DOMAIN OpcodeNumbers \ {"HALT", "BR", "BRX", "ST", "CMPP"})
  /\ lanes' = [t \in DOMAIN lanes |->
                 IF Holds(t) THEN [lanes[t] EXCEPT !.regs[Inst.dest] = LaneResult(t)] ELSE lanes[t]]
  /\ Goto(wpc + 1) /\ UNCHANGED <<gmem, stores>>

Compare ==
  /\ At({"CMPP"})
  /\ lanes' = [t \in DOMAIN lanes |->
                 IF Holds(t) THEN [lanes[t] EXCEPT !.preds[Inst.dest] =
                                     Compares(Inst.compare, lanes[t].regs[Inst.src1], lanes[t].regs[Inst.src2])]
                 ELSE lanes[t]]
  /\ Goto(wpc + 1) /\ UNCHANGED <<gmem, stores>>

\* The lanes store one after the other: the last to write a word wins.
StoreWords ==
  /\ At({"ST"})
  /\ LET address(t) == lanes[t].regs[Inst.src1] % MemoryWords
         value(t)   == lanes[t].regs[Inst.src2]
         writers(a) == {t \in DOMAIN lanes : Holds(t) /\ address(t) = a}
     IN  /\ gmem' = [a \in Addresses |-> IF writers(a) = {} THEN gmem[a]
                       ELSE value(CHOOSE t \in writers(a) : \A s \in writers(a) : s <= t)]
         /\ stores' = [t \in ThreadIds |-> IF t \in DOMAIN lanes /\ Holds(t)
                                           THEN Append(stores[t], <<address(t), value(t)>>) ELSE stores[t]]
  /\ Goto(wpc + 1) /\ UNCHANGED lanes

WarpNext ==
  \/ RunsOff \/ OutOfSteps \/ GuardedControl \/ Halt \/ Jump \/ BranchX \/ Diverge
  \/ Compute \/ Compare \/ StoreWords
=============================================================================
