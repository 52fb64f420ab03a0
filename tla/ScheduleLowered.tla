-------------------------- MODULE ScheduleLowered ---------------------------
(***************************************************************************)
(* passes/scheduler.py, schedule_lowered: cut the lowered program at its   *)
(* leaders, give every block of more than two instructions to the list     *)
(* scheduler, and write the result back in the block's place.  Branches    *)
(* keep their targets, which are positions of the program, so the program  *)
(* stays well formed only if every control instruction stays where it is.  *)
(*                                                                         *)
(* The variables of ListScheduler are those of the call for the current    *)
(* block.                                                                  *)
(***************************************************************************)
EXTENDS ListScheduler

CONSTANT Programs             \* the lowered programs that may be scheduled

VARIABLES
  stage,          \* "leaders", "pick", "schedule" or "return"
  original,       \* lowered.instructions
  instructions,   \* the copy that is rewritten block by block
  leaders,        \* the first positions of the blocks
  start           \* the current block's first position

outer == <<stage, original, instructions, leaders, start>>
allVars == <<vars, outer>>

Positions == 1 .. Len(original)

\* Variant for the mutants: HALT does not end a block.
LeadersWithoutHalt(prog) ==
  {1} \cup {prog[i].imm + 1 : i \in
             {j \in 1 .. Len(prog) : /\ prog[j].opcode \in {"BR", "BRX"}
                                     /\ prog[j].imm < Len(prog)}}
      \cup {i + 1 : i \in {j \in 1 .. Len(prog) - 1 :
                             prog[j].opcode \in {"BR", "BRX"}}}

\* Branch targets, and what follows a branch or HALT.
Leaders(prog) ==
  {1} \cup {prog[i].imm + 1 : i \in
             {j \in 1 .. Len(prog) : /\ prog[j].opcode \in {"BR", "BRX"}
                                     /\ prog[j].imm < Len(prog)}}
      \cup {i + 1 : i \in {j \in 1 .. Len(prog) - 1 :
                             prog[j].opcode \in {"BR", "BRX", "HALT"}}}

\* The first position after the block of prog that starts at s.
BlockEnd(prog, firsts, s) ==
  LET later == {l \in firsts : l > s}
  IN  IF later = {} THEN Len(prog) + 1
      ELSE CHOOSE l \in later : \A m \in later : l <= m
End(s) == BlockEnd(original, leaders, s)

\* The lowering emits no CALL and no RET, which the scheduler ranks with the
\* control instructions but does not cut behind.
ASSUME ProgramsAssumption ==
  \A p \in Programs : /\ p \in Seq(Instruction)
                      /\ \A i \in 1 .. Len(p) : p[i].opcode \notin {"CALL", "RET"}

\* The blocks _schedule_block is given are those that are cut from a program.
CutBlocks(prog) ==
  {SubSeq(prog, s, BlockEnd(prog, Leaders(prog), s) - 1) : s \in Leaders(prog)}
ASSUME CutBlocksAssumption == Blocks = UNION {CutBlocks(p) : p \in Programs}

\* A call of _schedule_block starts with empty tables.
CallWith(b) ==
  /\ pc' = "build"
  /\ block' = b
  /\ idx' = 1
  /\ lastDef' = [r \in Gpr |-> 0]
  /\ pendingReads' = [r \in Gpr |-> {}]
  /\ lastStore' = 0
  /\ edges' = {}
  /\ depCount' = [i \in 1 .. Len(b) |-> 0]
  /\ ready' = {}
  /\ scheduled' = << >>

ProgramInit ==
  /\ original \in Programs
  /\ instructions = original
  /\ stage = "leaders" /\ leaders = {} /\ start = 1
  /\ pc = "done" /\ block = << >> /\ idx = 1      \* no block is scheduled yet
  /\ lastDef = [r \in Gpr |-> 0] /\ pendingReads = [r \in Gpr |-> {}]
  /\ lastStore = 0 /\ edges = {} /\ depCount = << >> /\ ready = {}
  /\ scheduled = << >>

FindLeaders ==
  /\ stage = "leaders"
  /\ IF Len(instructions) <= 2
     THEN stage' = "return" /\ UNCHANGED leaders
     ELSE stage' = "pick" /\ leaders' = Leaders(instructions)
  /\ UNCHANGED <<vars, original, instructions, start>>

SkipShortBlock ==
  /\ stage = "pick" /\ start <= Len(original) /\ End(start) - start <= 2
  /\ start' = End(start)
  /\ UNCHANGED <<vars, stage, original, instructions, leaders>>

ScheduleBlock ==
  /\ stage = "pick" /\ start <= Len(original) /\ End(start) - start > 2
  /\ CallWith(SubSeq(instructions, start, End(start) - 1))
  /\ stage' = "schedule"
  /\ UNCHANGED <<original, instructions, leaders, start>>

RunScheduler ==
  /\ stage = "schedule"
  /\ Next
  /\ UNCHANGED outer

\* Variant for the mutants: the block is written one position too late.
WriteBackShifted ==
  /\ stage = "schedule" /\ pc = "done"
  /\ instructions' = [i \in Positions |->
       IF i \in start + 1 .. End(start) - 1 THEN block[scheduled[i - start]]
                                            ELSE instructions[i]]
  /\ start' = End(start)
  /\ stage' = "pick"
  /\ UNCHANGED <<vars, original, leaders>>

WriteBack ==
  /\ stage = "schedule" /\ pc = "done"
  /\ instructions' = [i \in Positions |->
       IF i \in start .. End(start) - 1 THEN block[scheduled[i - start + 1]]
                                        ELSE instructions[i]]
  /\ start' = End(start)
  /\ stage' = "pick"
  /\ UNCHANGED <<vars, original, leaders>>

Return ==
  /\ stage = "pick" /\ start > Len(original)
  /\ stage' = "return"
  /\ UNCHANGED <<vars, original, instructions, leaders, start>>

ProgramNext == \/ FindLeaders \/ SkipShortBlock \/ ScheduleBlock
               \/ RunScheduler \/ WriteBack \/ Return

ProgramSpec == ProgramInit /\ [][ProgramNext]_allVars /\ WF_allVars(ProgramNext)

-----------------------------------------------------------------------------
(* Properties. *)

\* Control instructions never move: each stands where it stood, at every
\* moment, so branch targets, leaders and fall-throughs mean what they meant.
ControlStaysInPlace ==
  /\ \A i \in Positions :
       (InstKind(original[i]) = "CONTROL" \/ InstKind(instructions[i]) = "CONTROL")
         => instructions[i] = original[i]
  /\ stage \in {"pick", "schedule"} => leaders = Leaders(instructions)

\* What the theorems of SchedulerProofs assume of a block holds of every
\* block that schedule_lowered cuts: only its last instruction is a control
\* instruction.
CutBlocksEndAtControl ==
  stage = "schedule" =>
    \A i \in Indices : Kind(i) = "CONTROL" => i = Len(block)

\* The instructions of a block, repetitions included, are those it had: nothing
\* is lost, duplicated or moved across a leader.
Count(prog, from, to, inst) ==
  Cardinality({i \in from .. to : prog[i] = inst})
BlocksKeepTheirInstructions ==
  stage \in {"pick", "return"} =>
    \A s \in leaders : \A i \in s .. End(s) - 1 :
      Count(instructions, s, End(s) - 1, original[i])
        = Count(original, s, End(s) - 1, original[i])

\* Every program is returned.
ProgramReturns == <>(stage = "return")

=============================================================================
