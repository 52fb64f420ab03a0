--------------------------- MODULE CompilerProofs ---------------------------
(***************************************************************************)
(* Proofs about Compiler: the four properties of the pipelines and of what *)
(* is written, for every run of every pipeline.                            *)
(*                                                                         *)
(* What is needed of the pipelines is PipelineShape: each scans at most    *)
(* once, no transform follows the last CFG that is materialised, and below *)
(* O3 none follows the scan.                                               *)
(***************************************************************************)
EXTENDS Compiler, TLAPS

\* Where a pipeline scans, 0 when it does not, and where it materialises last.
ScanAt(l) == IF l = "0" THEN 0 ELSE IF l = "2" THEN 23 ELSE 16
LastCFG(l) == IF l = "0" THEN 2 ELSE IF l = "2" THEN 24 ELSE 18

\* Where each pipeline runs its last CFG construction, its scan and its
\* transforms.
LEMMA PipelineShape ==
  ASSUME NEW l \in {"0", "2", "3"}
  PROVE  /\ Len(Pipeline(l)) \in Nat \ {0}
         /\ LastCFG(l) \in 1 .. Len(Pipeline(l))
         /\ Pipeline(l)[LastCFG(l)] = "materialize-cfg"
         /\ \A j \in 1 .. Len(Pipeline(l)) :
              /\ Pipeline(l)[j] = "linear-scan" => j = ScanAt(l)
              /\ Pipeline(l)[j] \in Transforms => j < LastCFG(l)
              /\ Pipeline(l)[j] \in Transforms /\ l # "3" => ScanAt(l) = 0 \/ j < ScanAt(l)
<1>1. CASE l = "0"
  BY <1>1 DEF Pipeline, O0, ScanAt, LastCFG, Transforms
<1>2. CASE l = "2"
  BY <1>2 DEF Pipeline, O2, ScanAt, LastCFG, Transforms
<1>3. CASE l = "3"
  BY <1>3 DEF Pipeline, O3, ScanAt, LastCFG, Transforms
<1> QED
  BY <1>1, <1>2, <1>3

-----------------------------------------------------------------------------
(* The inductive invariant. *)

AfterPasses == {"lower", "schedule", "write binary", "write report"}

TypeOK ==
  /\ pc \in {"parse", "passes", "exit"} \cup AfterPasses
  /\ level \in {"0", "2", "3"} /\ wantsReport \in BOOLEAN
  /\ pos \in Nat \ {0} /\ version \in Nat \ {0}
  /\ cache \in [Analyses -> Nat] /\ mapping \in Nat

\* The manager never holds a fact of an older program that a pass may ask for,
\* and has the lifetimes only once the scan, which alone asks, has run.
CacheInv ==
  /\ cache["cfg"] \in {0, version} /\ cache["uniformity"] \in {0, version}
  /\ cache["liveness"] # 0 => pos > ScanAt(level)
  /\ mapping # 0 => pos > ScanAt(level) /\ ScanAt(level) # 0
  /\ level # "3" => mapping \in {0, version}
  /\ pos > LastCFG(level) => blocks = version

ProgressInv ==
  /\ pc = "parse" => pos = 1
  /\ pc = "passes" => pos <= Len(Passes)
  /\ pc \in AfterPasses => pos > LastCFG(level)
  /\ pc \in {"schedule", "write binary"} => lowered = version
  /\ pc = "write report" => binary = version /\ wantsReport
  /\ pc \notin {"write report", "exit"} => binary = 0
  /\ pc # "exit" => report = 0 /\ exit = 2

IInv == TypeOK /\ CacheInv /\ ProgressInv /\ OutputsAgree /\ FailureIsTheReport

\* Nothing is cached, mapped or written before the first pass.
LEMMA InitInv == Init => IInv
<1> SUFFICES ASSUME Init PROVE IInv
  OBVIOUS
<1> level \in {"0", "2", "3"}
  BY LevelsAssumption DEF Init
<1> QED
  BY PipelineShape DEF Init, IInv, TypeOK, CacheInv, ProgressInv, OutputsAgree, FailureIsTheReport, AfterPasses,
     ScanAt, LastCFG, Analyses, Passes

\* A stage that fails keeps what is there and returns 1 with nothing written.
LEMMA FailInv ==
  ASSUME IInv, NEW stage \in {"parse", "passes", "lower"}, Fail(stage), UNCHANGED cache
  PROVE  IInv'
<1>1. TypeOK' /\ CacheInv' /\ ProgressInv'
  BY DEF IInv, Fail, TypeOK, CacheInv, ProgressInv, AfterPasses, Passes
<1>2. binary' = 0 /\ report' = 0 /\ exit' = 1
  BY DEF IInv, Fail, ProgressInv
<1>3. OutputsAgree' /\ FailureIsTheReport'
  BY <1>2 DEF OutputsAgree, FailureIsTheReport
<1> QED
  BY <1>1, <1>3 DEF IInv

\* What the scan and the others are handed.
LEMMA FetchedFacts ==
  ASSUME IInv, pc = "passes"
  PROVE  /\ Pass = "linear-scan" => pos = ScanAt(level)
         /\ Fetched(Pass) \in [Analyses -> Nat]
         /\ Fetched(Pass)["cfg"] \in {0, version} /\ Fetched(Pass)["uniformity"] \in {0, version}
         /\ Pass = "linear-scan" => Fetched(Pass)["liveness"] = version
         /\ Pass # "linear-scan" => Fetched(Pass)["liveness"] = cache["liveness"]
         /\ Pass = "materialize-cfg" => Fetched(Pass)["cfg"] = version
<1>1. pos \in 1 .. Len(Passes) /\ level \in {"0", "2", "3"}
  BY PipelineShape DEF IInv, TypeOK, ProgressInv, Passes
<1>2. Pass = "linear-scan" => pos = ScanAt(level)
  BY <1>1, PipelineShape DEF Pass, Passes
<1>3. Pass = "linear-scan" => cache["liveness"] = 0
  BY <1>2 DEF IInv, CacheInv, TypeOK, Analyses
<1>4. /\ "liveness" \in Gets(Pass) <=> Pass = "linear-scan"
      /\ Pass = "materialize-cfg" => "cfg" \in Gets(Pass)
  BY DEF Gets
<1> QED
  BY <1>2, <1>3, <1>4 DEF Fetched, IInv, CacheInv, TypeOK, Analyses

\* A pass may change the program, but only before the last CFG construction.
LEMMA RunPassInv == IInv /\ RunPass => IInv'
<1> SUFFICES ASSUME IInv, RunPass PROVE IInv'
  OBVIOUS
<1>1. pc = "passes" /\ pos \in 1 .. Len(Passes) /\ level \in {"0", "2", "3"} /\ level' = level /\ pos' = pos + 1
  BY PipelineShape DEF IInv, TypeOK, RunPass, Passes
<1>2. PICK changes \in BOOLEAN :
        /\ version' = IF changes /\ Pass \in Transforms THEN version + 1 ELSE version
        /\ cache' = [a \in Analyses |-> IF changes /\ a \in Invalidates(Pass) THEN 0 ELSE Fetched(Pass)[a]]
        /\ mapping' = IF changes /\ Pass = "linear-scan" THEN Fetched(Pass)["liveness"] ELSE mapping
  BY DEF RunPass
<1>3. /\ Pass = "linear-scan" => pos = ScanAt(level) /\ ScanAt(level) # 0
      /\ Pass \in Transforms => pos < LastCFG(level)
      /\ Pass \in Transforms /\ level # "3" => mapping = 0
      /\ pos = LastCFG(level) => Pass = "materialize-cfg"
      /\ LastCFG(level) \in 1 .. Len(Passes)
  <2>1. /\ Pass = "linear-scan" => pos = ScanAt(level)
        /\ Pass \in Transforms => pos < LastCFG(level)
        /\ Pass \in Transforms /\ level # "3" => ScanAt(level) = 0 \/ pos < ScanAt(level)
        /\ pos = LastCFG(level) => Pass = "materialize-cfg"
        /\ LastCFG(level) \in 1 .. Len(Passes)
    BY <1>1, PipelineShape DEF Pass, Passes
  <2> QED
    BY <2>1, <1>1 DEF IInv, CacheInv, ScanAt
<1>4. TypeOK'
  <2>1. version' \in Nat \ {0} /\ mapping' \in Nat
    BY <1>1, <1>2, FetchedFacts DEF IInv, TypeOK, Analyses
  <2>2. cache' \in [Analyses -> Nat]
    BY <1>1, <1>2, FetchedFacts
  <2>3. pos' \in Nat \ {0} /\ pc' \in {"lower", "passes"} /\ wantsReport' = wantsReport
    BY <1>1 DEF RunPass
  <2> QED
    BY <1>1, <2>1, <2>2, <2>3 DEF IInv, TypeOK, AfterPasses
<1>5. CacheInv'
  <2>1. cache'["cfg"] \in {0, version'} /\ cache'["uniformity"] \in {0, version'}
    BY <1>1, <1>2, FetchedFacts DEF Analyses, Invalidates
  <2>2. cache'["liveness"] # 0 => pos' > ScanAt(level)
    <3>1. cache'["liveness"] = Fetched(Pass)["liveness"]
      BY <1>2 DEF Analyses, Invalidates
    <3>2. ScanAt(level) \in Nat
      BY DEF ScanAt
    <3> QED
      BY <1>1, <3>1, <3>2, FetchedFacts DEF IInv, CacheInv, TypeOK
  <2>3. /\ mapping' # 0 => pos' > ScanAt(level) /\ ScanAt(level) # 0
        /\ level # "3" => mapping' \in {0, version'}
    <3>1. ScanAt(level) \in Nat
      BY DEF ScanAt
    <3>2. CASE changes /\ Pass = "linear-scan"
      <4>1. mapping' = version /\ version' = version
        BY <3>2, <1>1, <1>2, FetchedFacts DEF Transforms
      <4> QED
        BY <4>1, <3>1, <3>2, <1>1, <1>3
    <3>3. CASE ~(changes /\ Pass = "linear-scan")
      <4>1. mapping' = mapping
        BY <3>3, <1>2
      <4> QED
        BY <4>1, <3>1, <1>1, <1>2, <1>3 DEF IInv, CacheInv, TypeOK
    <3> QED
      BY <3>2, <3>3
  <2>4. pos' > LastCFG(level) => blocks' = version'
    <3> SUFFICES ASSUME pos >= LastCFG(level) PROVE blocks' = version'
      BY <1>1, <1>3
    <3>1. version' = version
      BY <1>1, <1>2, <1>3
    <3>2. CASE Pass = "materialize-cfg"
      BY <3>1, <3>2, <1>1, FetchedFacts DEF RunPass
    <3>3. CASE Pass # "materialize-cfg"
      <4>1. pos > LastCFG(level) /\ blocks' = blocks
        BY <3>3, <1>1, <1>3 DEF RunPass
      <4> QED
        BY <4>1, <3>1 DEF IInv, CacheInv
    <3> QED
      BY <3>2, <3>3
  <2> QED
    BY <1>1, <2>1, <2>2, <2>3, <2>4 DEF CacheInv
<1>6. ProgressInv' /\ OutputsAgree' /\ FailureIsTheReport'
  BY <1>1, <1>3, PipelineShape DEF IInv, ProgressInv, OutputsAgree, FailureIsTheReport, RunPass, AfterPasses, Passes
<1> QED
  BY <1>4, <1>5, <1>6 DEF IInv

\* Lowering, scheduling and the two files.
LEMMA WriteInv ==
  ASSUME IInv,
         \/ Parse \/ Lower \/ Schedule \/ WriteBinary \/ WriteBinaryFails \/ WriteReport \/ WriteReportFails
  PROVE  IInv'
<1>1. CASE Parse
  BY <1>1, PipelineShape DEF IInv, Parse, TypeOK, CacheInv, ProgressInv, OutputsAgree, FailureIsTheReport, AfterPasses, Passes
<1>2. CASE Lower
  BY <1>2 DEF IInv, Lower, TypeOK, CacheInv, ProgressInv, OutputsAgree, FailureIsTheReport, AfterPasses, Passes
<1>3. CASE Schedule
  BY <1>3 DEF IInv, Schedule, TypeOK, CacheInv, ProgressInv, OutputsAgree, FailureIsTheReport, AfterPasses, Passes
<1>4. CASE WriteBinary
  <2>1. TypeOK' /\ CacheInv' /\ ProgressInv'
    BY <1>4 DEF IInv, WriteBinary, TypeOK, CacheInv, ProgressInv, AfterPasses, Passes
  <2>2. binary' = version' /\ report' = 0 /\ exit' \in {0, 2} /\ (exit' = 0 => wantsReport' = FALSE)
    <3>1. binary' = version' /\ report' = 0 /\ exit = 2 /\ wantsReport' = wantsReport
      <4>1. pc = "write binary" /\ binary' = lowered /\ UNCHANGED <<version, report, wantsReport>>
        BY <1>4, Zenon DEF WriteBinary
      <4>2. lowered = version /\ report = 0 /\ exit = 2
        BY <4>1 DEF IInv, ProgressInv
      <4> QED
        BY <4>1, <4>2
    <3>2. CASE wantsReport = TRUE
      <4>1. exit' = exit
        BY <1>4, <3>2, Zenon DEF WriteBinary
      <4> QED
        BY <4>1, <3>1
    <3>3. CASE wantsReport = FALSE
      <4>1. exit' = 0
        BY <1>4, <3>3, Zenon DEF WriteBinary
      <4> QED
        BY <4>1, <3>1, <3>3
    <3> QED
      BY <3>2, <3>3 DEF IInv, TypeOK
  <2>3. OutputsAgree' /\ FailureIsTheReport'
    BY <2>2 DEF OutputsAgree, FailureIsTheReport
  <2> QED
    BY <2>1, <2>3 DEF IInv
<1>5. CASE WriteBinaryFails
  <2>1. TypeOK' /\ CacheInv' /\ ProgressInv'
    BY <1>5 DEF IInv, WriteBinaryFails, TypeOK, CacheInv, ProgressInv, AfterPasses, Passes
  <2>2. binary' \in {0, -1} /\ report' = 0 /\ exit' = 1
    BY <1>5 DEF IInv, WriteBinaryFails, ProgressInv, Partial
  <2>3. OutputsAgree' /\ FailureIsTheReport'
    BY <2>2 DEF OutputsAgree, FailureIsTheReport
  <2> QED
    BY <2>1, <2>3 DEF IInv
<1>6. CASE WriteReport
  BY <1>6 DEF IInv, WriteReport, TypeOK, CacheInv, ProgressInv, OutputsAgree, FailureIsTheReport, AfterPasses, Passes
<1>7. CASE WriteReportFails
  <2>1. TypeOK' /\ CacheInv' /\ ProgressInv'
    BY <1>7 DEF IInv, WriteReportFails, TypeOK, CacheInv, ProgressInv, AfterPasses, Passes
  <2>2. binary' = version' /\ report' \in {0, -1} /\ exit' = 1 /\ wantsReport' = TRUE
    BY <1>7 DEF IInv, TypeOK, WriteReportFails, ProgressInv, Partial
  <2>3. OutputsAgree' /\ FailureIsTheReport'
    BY <2>2 DEF OutputsAgree, FailureIsTheReport
  <2> QED
    BY <2>1, <2>3 DEF IInv
<1> QED
  BY <1>1, <1>2, <1>3, <1>4, <1>5, <1>6, <1>7

\* Every step of a compilation keeps the invariant.
LEMMA NextInv == IInv /\ [Next]_vars => IInv'
<1> SUFFICES ASSUME IInv, [Next]_vars PROVE IInv'
  OBVIOUS
<1>1. CASE ParseFails \/ PassFails \/ LowerFails
  BY <1>1, FailInv DEF ParseFails, PassFails, LowerFails
<1>2. CASE RunPass
  BY <1>2, RunPassInv
<1>3. CASE Parse \/ Lower \/ Schedule \/ WriteBinary \/ WriteBinaryFails \/ WriteReport \/ WriteReportFails
  BY <1>3, WriteInv
<1>4. CASE UNCHANGED vars
  <2>1. TypeOK' /\ CacheInv' /\ ProgressInv'
    BY <1>4, ZenonT(40) DEF IInv, vars, TypeOK, CacheInv, ProgressInv, AfterPasses, Passes
  <2>2. OutputsAgree' /\ FailureIsTheReport'
    BY <1>4, Zenon DEF IInv, vars, OutputsAgree, FailureIsTheReport
  <2> QED
    BY <2>1, <2>2 DEF IInv
<1> QED
  BY <1>1, <1>2, <1>3, <1>4 DEF Next

\* The invariant of a compilation.
LEMMA Invariance == Spec => []IInv
BY InitInv, NextInv, PTL DEF Spec

-----------------------------------------------------------------------------

\* No pass of any pipeline is handed facts about an older program.
THEOREM PassesReadFreshFacts == Spec => []FreshReads
<1>1. IInv => FreshReads
  <2> SUFFICES ASSUME IInv, pc = "passes", NEW a \in Gets(Pass) PROVE cache[a] \in {0, version}
    BY DEF FreshReads
  <2>1. a \in {"cfg", "uniformity"} \/ (a = "liveness" /\ Pass = "linear-scan")
    BY DEF Gets
  <2>2. Pass = "linear-scan" => cache["liveness"] = 0
    BY FetchedFacts DEF IInv, CacheInv, TypeOK, Analyses, ScanAt
  <2> QED
    BY <2>1, <2>2 DEF IInv, CacheInv
<1> QED
  BY <1>1, Invariance, PTL

\* Below O3 the register mapping belongs to the program that is lowered.
THEOREM MappingsAreCurrent == Spec => []MappingIsCurrent
<1>1. IInv => MappingIsCurrent
  BY DEF IInv, CacheInv, MappingIsCurrent
<1> QED
  BY <1>1, Invariance, PTL

\* After exit status 0, binary and report are of the same, final program.
THEOREM BinaryAndReportAgree == Spec => []OutputsAgree
<1>1. IInv => OutputsAgree
  BY DEF IInv
<1> QED
  BY <1>1, Invariance, PTL

\* Exit status 1 next to a complete binary means that the report alone failed.
THEOREM FailureKeepsTheBinary == Spec => []FailureIsTheReport
<1>1. IInv => FailureIsTheReport
  BY DEF IInv
<1> QED
  BY <1>1, Invariance, PTL
=============================================================================
