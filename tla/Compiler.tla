------------------------------ MODULE Compiler ------------------------------
(***************************************************************************)
(* The compiler from end to end: compiler.py main and compile_ptx_detailed,*)
(* PassManager.run (passes/manager.py), the pipelines (passes/pipelines.py)*)
(* and the AnalysisManager's cache (analysis/manager.py).                  *)
(*                                                                         *)
(* The program is its version: every transform that changes it makes the   *)
(* next version.  A cached fact, the materialised blocks, the recorded     *)
(* uniformity, the register mapping, the lowered code, the binary and the  *)
(* report are each the version they were computed from, 0 for none.        *)
(***************************************************************************)
EXTENDS Integers, Sequences

CONSTANT Levels           \* the optimisation levels tried: "0", "2", "3"

ASSUME LevelsAssumption == Levels \subseteq {"0", "2", "3"}

Analyses == {"cfg", "liveness", "uniformity"}

Partial == -1             \* a file of which only a part was written

\* build_pipeline: the three pipelines, and two variants for the mutants (the
\* scan in front of the unroller at O2, no refresh at the end of O3).
O0 == <<"validate", "materialize-cfg">>
O2 == <<"validate", "dre", "cse", "local-cf", "global-cp", "load-reuse", "materialize-cfg",
        "record-uniformity", "global-dce", "record-loops", "licm", "materialize-cfg", "record-uniformity",
        "block-simplify", "materialize-cfg", "record-uniformity", "load-hoisting", "materialize-cfg",
        "record-uniformity", "loop-unroll", "materialize-cfg", "record-uniformity", "linear-scan",
        "materialize-cfg", "record-uniformity">>
O3 == <<"validate", "dre", "cse", "local-cf", "load-reuse", "materialize-cfg", "record-uniformity",
        "global-cp", "global-dce", "materialize-cfg", "record-uniformity", "record-loops",
        "block-simplify", "licm", "load-hoisting", "linear-scan", "loop-unroll", "materialize-cfg",
        "record-uniformity">>
O2ScanEarly == SubSeq(O2, 1, 19) \o SubSeq(O2, 23, 25) \o SubSeq(O2, 20, 22)
O3NoLastRefresh == SubSeq(O3, 1, 17)

PipelineScanEarly(level) ==
  IF level = "0" THEN O0 ELSE IF level = "2" THEN O2ScanEarly ELSE O3
PipelineNoLastRefresh(level) ==
  IF level = "0" THEN O0 ELSE IF level = "2" THEN O2 ELSE O3NoLastRefresh
Pipeline(level) ==
  IF level = "0" THEN O0 ELSE IF level = "2" THEN O2 ELSE O3

Transforms == {"dre", "cse", "local-cf", "global-cp", "load-reuse", "global-dce",
               "licm", "block-simplify", "load-hoisting", "loop-unroll"}

\* The analyses a pass asks the manager for.
Gets(pass) ==
  CASE pass = "record-uniformity" -> {"uniformity"}
    [] pass = "linear-scan" -> {"liveness", "cfg"}
    [] pass \in {"materialize-cfg", "record-loops", "global-cp", "licm", "block-simplify",
                 "load-hoisting", "loop-unroll"} -> {"cfg"}
    [] OTHER -> {}

\* Variant for the mutants: LICM forgets the CFG.
InvalidatesNothingForLICM(pass) ==
  IF pass \in Transforms \ {"licm"} THEN {"cfg", "uniformity"} ELSE {}

\* invalidated_analyses of a pass that changed the program ("loops", which
\* three of them name as well, is not an analysis the manager has).
Invalidates(pass) == IF pass \in Transforms THEN {"cfg", "uniformity"} ELSE {}

VARIABLES
  pc,             \* the stage of main
  level,
  wantsReport,    \* --report was given
  pos,            \* the pass to run
  version,        \* of module.function.program
  cache,          \* analysis -> version, 0 when not cached
  blocks,         \* version materialised in function.blocks
  uniformity,     \* version counted in metadata["uniformity"]
  mapping,        \* version metadata["register_mapping"] was computed for
  lowered,        \* version lowered to machine code
  scheduled,
  binary, report, \* versions written to disk
  exit            \* exit status, 2 while running

vars == <<pc, level, wantsReport, pos, version, cache, blocks, uniformity,
          mapping, lowered, scheduled, binary, report, exit>>

Passes == Pipeline(level)
Pass == Passes[pos]

Init ==
  /\ pc = "parse" /\ level \in Levels /\ wantsReport \in BOOLEAN
  /\ pos = 1 /\ version = 1 /\ cache = [a \in Analyses |-> 0]
  /\ blocks = 0 /\ uniformity = 0 /\ mapping = 0
  /\ lowered = 0 /\ scheduled = FALSE /\ binary = 0 /\ report = 0 /\ exit = 2

-----------------------------------------------------------------------------
(* main's except clause: any stage may raise, nothing is undone.           *)

Fail(stage) ==
  /\ pc = stage
  /\ pc' = "exit" /\ exit' = 1
  /\ UNCHANGED <<level, wantsReport, pos, version, blocks, uniformity, mapping,
                 lowered, scheduled, binary, report>>

ParseFails == Fail("parse") /\ UNCHANGED cache

Parse ==
  /\ pc = "parse"
  /\ pc' = "passes"
  /\ UNCHANGED <<level, wantsReport, pos, version, cache, blocks, uniformity,
                 mapping, lowered, scheduled, binary, report, exit>>

(* PassManager.run: one pass, then the invalidation it asks for.           *)

\* AnalysisManager.get for each analysis of the pass.
Fetched(pass) ==
  [a \in Analyses |-> IF a \in Gets(pass) /\ cache[a] = 0 THEN version ELSE cache[a]]

\* A transform may find nothing to do; only the scan returns without a mapping.
RunPass ==
  /\ pc = "passes" /\ pos <= Len(Passes)
  /\ \E changes \in IF Pass \in Transforms \cup {"linear-scan"} THEN BOOLEAN ELSE {TRUE} :
       /\ version' = IF changes /\ Pass \in Transforms THEN version + 1 ELSE version
       /\ cache' = [a \in Analyses |->
                      IF changes /\ a \in Invalidates(Pass) THEN 0 ELSE Fetched(Pass)[a]]
       /\ mapping' = IF changes /\ Pass = "linear-scan" THEN Fetched(Pass)["liveness"]
                                                        ELSE mapping
  /\ blocks' = IF Pass = "materialize-cfg" THEN Fetched(Pass)["cfg"] ELSE blocks
  /\ uniformity' = IF Pass = "record-uniformity" THEN Fetched(Pass)["uniformity"]
                                                 ELSE uniformity
  /\ pos' = pos + 1
  /\ pc' = IF pos = Len(Passes) THEN "lower" ELSE "passes"
  /\ UNCHANGED <<level, wantsReport, lowered, scheduled, binary, report, exit>>

\* The validation fails, or a fresh CFG cannot be built (the scan catches that).
PassFails ==
  /\ Fail("passes")
  /\ \/ Pass = "validate"
     \/ Pass # "linear-scan" /\ "cfg" \in Gets(Pass) /\ cache["cfg"] = 0
  /\ UNCHANGED cache

(* The Lowerer builds its own CFG and uniformity from the final program.   *)
Lower ==
  /\ pc = "lower"
  /\ lowered' = version
  /\ pc' = IF level \in {"2", "3"} THEN "schedule" ELSE "write binary"
  /\ UNCHANGED <<level, wantsReport, pos, version, cache, blocks, uniformity,
                 mapping, scheduled, binary, report, exit>>

LowerFails == Fail("lower") /\ UNCHANGED cache

\* Variants for the mutants: the report is written before the binary; the
\* scheduled code is lowered again.
ScheduleThenReport ==
  /\ pc = "schedule"
  /\ scheduled' = TRUE
  /\ pc' = IF wantsReport THEN "write report" ELSE "write binary"
  /\ UNCHANGED <<level, wantsReport, pos, version, cache, blocks, uniformity,
                 mapping, lowered, binary, report, exit>>
Schedule ==
  /\ pc = "schedule"
  /\ scheduled' = TRUE
  /\ pc' = "write binary"
  /\ UNCHANGED <<level, wantsReport, pos, version, cache, blocks, uniformity,
                 mapping, lowered, binary, report, exit>>

WriteBinary ==
  /\ pc = "write binary"
  /\ binary' = lowered
  /\ IF wantsReport THEN pc' = "write report" /\ UNCHANGED exit
                    ELSE pc' = "exit" /\ exit' = 0
  /\ UNCHANGED <<level, wantsReport, pos, version, cache, blocks, uniformity,
                 mapping, lowered, scheduled, report>>

\* write_bytes may raise after it has truncated the file or written a part.
WriteBinaryFails ==
  /\ pc = "write binary"
  /\ binary' \in {0, Partial}
  /\ pc' = "exit" /\ exit' = 1
  /\ UNCHANGED <<level, wantsReport, pos, version, cache, blocks, uniformity,
                 mapping, lowered, scheduled, report>>

\* build_metrics counts the materialised blocks and the final program.
WriteReport ==
  /\ pc = "write report"
  /\ report' = blocks
  /\ pc' = "exit" /\ exit' = 0
  /\ UNCHANGED <<level, wantsReport, pos, version, cache, blocks, uniformity,
                 mapping, lowered, scheduled, binary>>

WriteReportFails ==
  /\ pc = "write report"
  /\ report' \in {0, Partial}
  /\ pc' = "exit" /\ exit' = 1
  /\ UNCHANGED <<level, wantsReport, pos, version, cache, blocks, uniformity,
                 mapping, lowered, scheduled, binary>>

Next == \/ Parse \/ ParseFails \/ RunPass \/ PassFails \/ Lower \/ LowerFails
        \/ Schedule \/ WriteBinary \/ WriteBinaryFails \/ WriteReport \/ WriteReportFails

Spec == Init /\ [][Next]_vars

-----------------------------------------------------------------------------
(* Properties. *)

\* No pass is handed facts about an older program (analysis/manager.py 22-25:
\* passes invalidate explicitly; a missing name would go unnoticed).
FreshReads ==
  pc = "passes" => \A a \in Gets(Pass) : cache[a] \in {0, version}

\* The mapping the Lowerer is given was computed for the program it lowers.
\* (At O3 loop unrolling comes after the allocation, by design not so.)
MappingIsCurrent ==
  pc \in {"lower", "schedule", "write binary"} /\ level # "3" => mapping \in {0, version}

\* After exit status 0 the binary was lowered from the final program and the
\* report, if asked for, counts the blocks of that same program.
OutputsAgree ==
  exit = 0 => binary = version /\ (wantsReport => report = binary)

\* A complete binary next to exit status 1 means exactly that the report could
\* not be written; a report is never there without its binary.
FailureIsTheReport ==
  /\ exit = 1 /\ binary > 0 => wantsReport /\ report <= 0
  /\ report # 0 => binary = version
=============================================================================
