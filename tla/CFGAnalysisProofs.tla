-------------------------- MODULE CFGAnalysisProofs --------------------------
(***************************************************************************)
(* Proofs about CFGAnalysis, for every control-flow graph and every order  *)
(* in which blocks are visited: no dominator is lost while the iteration   *)
(* runs, at its end the dominators are exact, and the loops are the        *)
(* natural ones.                                                           *)
(*                                                                         *)
(* ReachedFrom counts steps with a recursive function; that what it        *)
(* computes is the least closed set is proved first (ReachedIsLeast), and  *)
(* everything else rests on that.                                          *)
(***************************************************************************)
EXTENDS CFGAnalysis, NaturalOrder, SequenceTheorems

-----------------------------------------------------------------------------
(* ReachedFrom yields the least closed set. *)

\* The definition, with the chain of NaturalOrder named.
LEMMA ReachedByChain ==
  ASSUME NEW g, NEW start, NEW avoid
  PROVE  ReachedFrom(g, start, avoid)
           = (CHOOSE h : IsReachChain(g, start, avoid, Cardinality(g.blocks), h))[Cardinality(g.blocks)]
BY Zenon DEF ReachedFrom, IsReachChain, OneEdgeOn

\* What is reached is the least closed set that holds the start.
LEMMA ReachedIsLeast ==
  ASSUME NEW g, IsCFG(g), NEW start \in SUBSET g.blocks, NEW avoid
  PROVE  /\ start \ avoid \subseteq ReachedFrom(g, start, avoid)
         /\ ReachedFrom(g, start, avoid) \subseteq g.blocks \ avoid
         /\ Closed(g, ReachedFrom(g, start, avoid), avoid)
         /\ \A C : start \ avoid \subseteq C /\ Closed(g, C, avoid) => ReachedFrom(g, start, avoid) \subseteq C
<1> DEFINE n == Cardinality(g.blocks)
           R == (CHOOSE h : IsReachChain(g, start, avoid, n, h))[n]
<1>1. IsFiniteSet(g.blocks) /\ g.edges \subseteq g.blocks \X g.blocks
  BY DEF IsCFG
<1>2. ReachedFrom(g, start, avoid) = R
  BY Zenon, ReachedByChain
<1>3. /\ start \ avoid \subseteq R /\ R \subseteq g.blocks \ avoid /\ Closed(g, R, avoid)
      /\ \A C : start \ avoid \subseteq C /\ Closed(g, C, avoid) => R \subseteq C
  BY <1>1, Zenon, ReachChainIsLeast
<1> HIDE DEF R
<1> QED  BY <1>2, <1>3

-----------------------------------------------------------------------------
(* What the reference definitions promise, in the form the proofs use.     *)

\* The reachable blocks: the entry, closed under edges, and nothing more.
LEMMA ReachableIsLeast ==
  ASSUME NEW g, IsCFG(g)
  PROVE  /\ g.entry \in ReachableBlocks(g)
         /\ ReachableBlocks(g) \subseteq g.blocks
         /\ \A e \in g.edges : e[1] \in ReachableBlocks(g) => e[2] \in ReachableBlocks(g)
         /\ \A C : g.entry \in C /\ (\A e \in g.edges : e[1] \in C => e[2] \in C)
                     => ReachableBlocks(g) \subseteq C
<1>1. {g.entry} \in SUBSET g.blocks
  BY DEF IsCFG
<1>2. /\ {g.entry} \ {} \subseteq ReachedFrom(g, {g.entry}, {})
      /\ ReachedFrom(g, {g.entry}, {}) \subseteq g.blocks \ {}
      /\ Closed(g, ReachedFrom(g, {g.entry}, {}), {})
      /\ \A C : {g.entry} \ {} \subseteq C /\ Closed(g, C, {}) => ReachedFrom(g, {g.entry}, {}) \subseteq C
  BY <1>1, ReachedIsLeast
<1> QED  BY <1>2 DEF ReachableBlocks, Closed

\* A reachable block other than the entry has a reachable predecessor.
LEMMA ReachableHasPred ==
  ASSUME NEW g, IsCFG(g), NEW b \in ReachableBlocks(g), b # g.entry
  PROVE  Pred(g, b) \cap ReachableBlocks(g) # {}
<1> DEFINE R == ReachableBlocks(g)
<1>1. SUFFICES ASSUME Pred(g, b) \cap R = {} PROVE FALSE
  OBVIOUS
<1>2. ASSUME NEW e \in g.edges, e[1] \in R \ {b} PROVE e[2] \in R \ {b}
  <2>1. e[2] \in R
    BY <1>2, ReachableIsLeast
  <2>2. e = <<e[1], e[2]>>
    BY DEF IsCFG
  <2>3. e[1] \in g.blocks
    BY DEF IsCFG
  <2>4. e[2] # b
    BY <1>1, <1>2, <2>2, <2>3 DEF Pred
  <2> QED  BY <2>1, <2>4
<1>3. g.entry \in R \ {b}
  BY ReachableIsLeast
<1>4. R \subseteq R \ {b}
  <2> HIDE DEF R
  <2>1. \A C : g.entry \in C /\ (\A e \in g.edges : e[1] \in C => e[2] \in C) => R \subseteq C
    BY ReachableIsLeast DEF R
  <2> QED  BY <1>2, <1>3, <2>1
<1> QED  BY <1>4

\* A block dominates itself; nothing but the entry dominates the entry.
LEMMA DominatorsOfEntry ==
  ASSUME NEW g, IsCFG(g)
  PROVE  /\ Dominators(g, g.entry) = {g.entry}
         /\ \A b \in ReachableBlocks(g) : b \in Dominators(g, b)
<1>1. \A b \in ReachableBlocks(g) : b \in Dominators(g, b)
  BY DEF Dominators
<1>2. g.entry \in ReachableBlocks(g)
  BY ReachableIsLeast
<1>3. ASSUME NEW d \in Dominators(g, g.entry), d # g.entry PROVE FALSE
  <2>1. {g.entry} \in SUBSET g.blocks
    BY DEF IsCFG
  <2>2. {g.entry} \ {d} \subseteq ReachedFrom(g, {g.entry}, {d})
    BY <2>1, ReachedIsLeast
  <2> QED  BY <1>3, <2>2 DEF Dominators
<1> QED  BY <1>1, <1>2, <1>3

\* What strictly dominates a block dominates its reachable predecessors.
LEMMA DominatorsStep ==
  ASSUME NEW g, IsCFG(g), NEW b \in ReachableBlocks(g), NEW c \in Pred(g, b) \cap ReachableBlocks(g),
         NEW d \in Dominators(g, b), d # b
  PROVE  d \in Dominators(g, c)
<1>1. <<c, b>> \in g.edges /\ d \in ReachableBlocks(g) /\ b \notin ReachedFrom(g, {g.entry}, {d})
  BY DEF Pred, Dominators
<1>2. {g.entry} \in SUBSET g.blocks
  BY DEF IsCFG
<1>3. Closed(g, ReachedFrom(g, {g.entry}, {d}), {d})
  BY <1>2, ReachedIsLeast
<1>4. c \notin ReachedFrom(g, {g.entry}, {d})
  <2>1. <<c, b>>[1] = c /\ <<c, b>>[2] = b
    OBVIOUS
  <2> QED  BY <1>1, <1>3, <2>1 DEF Closed
<1> QED  BY <1>1, <1>4 DEF Dominators

\* F claims no more of a block than of its predecessors.
Sound(g, F) ==
  /\ F \in [ReachableBlocks(g) -> SUBSET ReachableBlocks(g)]
  /\ F[g.entry] = {g.entry}
  /\ \A b \in ReachableBlocks(g) \ {g.entry} : \A d \in F[b] \ {b} :
       \A c \in Pred(g, b) \cap ReachableBlocks(g) : d \in F[c]

\* Such claims are true.
LEMMA SoundIsDominators ==
  ASSUME NEW g, IsCFG(g), NEW F, Sound(g, F), NEW b \in ReachableBlocks(g), NEW d \in F[b]
  PROVE  d \in Dominators(g, b)
<1> DEFINE R == ReachableBlocks(g)
<1>1. d \in R
  BY DEF Sound
<1>2. SUFFICES ASSUME d # b PROVE b \notin ReachedFrom(g, {g.entry}, {d})
  BY <1>1 DEF Dominators
<1> DEFINE C == {x \in R : d \notin F[x]}
<1>3. {g.entry} \in SUBSET g.blocks
  BY DEF IsCFG
<1>4. {g.entry} \ {d} \subseteq C
  BY ReachableIsLeast DEF Sound
<1>5. Closed(g, C, {d})
  <2>1. SUFFICES ASSUME NEW e \in g.edges, e[1] \in C, e[2] \notin {d} PROVE e[2] \in C
    BY DEF Closed
  <2>2. e[2] \in R
    BY <2>1, ReachableIsLeast
  <2>3. CASE e[2] = g.entry
    BY <1>4, <2>1, <2>3
  <2>4. CASE e[2] # g.entry
    <3>1. e[1] \in Pred(g, e[2])
      <4>1. e = <<e[1], e[2]>> /\ e[1] \in g.blocks
        BY DEF IsCFG
      <4> QED  BY <4>1 DEF Pred
    <3>2. ASSUME d \in F[e[2]] PROVE FALSE
      BY <2>1, <2>2, <2>4, <3>1, <3>2 DEF Sound
    <3> QED  BY <2>2, <3>2
  <2> QED  BY <2>3, <2>4
<1>6. ReachedFrom(g, {g.entry}, {d}) \subseteq C
  <2> HIDE DEF C
  <2>1. \A X : {g.entry} \ {d} \subseteq X /\ Closed(g, X, {d}) => ReachedFrom(g, {g.entry}, {d}) \subseteq X
    BY <1>3, ReachedIsLeast
  <2> QED  BY <1>4, <1>5, <2>1
<1> QED  BY <1>6

\* The body of a loop: its header and tail, and backward closed up to the header.
LEMMA BodyIsClosed ==
  ASSUME NEW g, IsCFG(g), NEW t \in g.blocks, NEW h \in g.blocks
  PROVE  /\ {t, h} \subseteq LoopBody(g, t, h)
         /\ \A b \in LoopBody(g, t, h) \ {h} : \A c \in Pred(g, b) : c \in LoopBody(g, t, h)
<1>1. t \in LoopBody(g, t, h)
  <2>1. CASE t # h
    <3>1. {t} \ {h} \subseteq ReachedFrom(g, {t}, {h})
      BY ReachedIsLeast
    <3> QED  BY <2>1, <3>1 DEF LoopBody
  <2> QED  BY <2>1 DEF LoopBody
<1>2. ASSUME NEW b \in LoopBody(g, t, h) \ {h}, NEW c \in Pred(g, b), c # h
      PROVE  c \in LoopBody(g, t, h)
  <2>1. b \in g.blocks /\ t \in ReachedFrom(g, {b}, {h})
    BY DEF LoopBody
  <2>2. c \in g.blocks /\ <<c, b>> \in g.edges
    BY DEF Pred
  <2> DEFINE C == ReachedFrom(g, {c}, {h})
  <2>3. {c} \ {h} \subseteq C /\ Closed(g, C, {h})
    BY <2>2, ReachedIsLeast
  <2>4. b \in C
    <3>1. <<c, b>>[1] = c /\ <<c, b>>[2] = b
      OBVIOUS
    <3> QED  BY <1>2, <2>2, <2>3, <3>1 DEF Closed
  <2>5. ReachedFrom(g, {b}, {h}) \subseteq C
    <3> HIDE DEF C
    <3>1. \A X : {b} \ {h} \subseteq X /\ Closed(g, X, {h}) => ReachedFrom(g, {b}, {h}) \subseteq X
      BY <2>1, ReachedIsLeast
    <3> QED  BY <2>3, <2>4, <3>1
  <2> QED  BY <2>1, <2>2, <2>5 DEF LoopBody
<1> QED  BY <1>1, <1>2 DEF LoopBody

\* It is the least such set.
LEMMA BodyIsLeast ==
  ASSUME NEW g, IsCFG(g), NEW t \in g.blocks, NEW h \in g.blocks, NEW S,
         {t, h} \subseteq S, \A b \in S \ {h} : \A c \in Pred(g, b) : c = h \/ c \in S
  PROVE  LoopBody(g, t, h) \subseteq S
<1>1. SUFFICES ASSUME NEW b \in g.blocks, t \in ReachedFrom(g, {b}, {h}), b \notin S PROVE FALSE
  BY DEF LoopBody
<1> DEFINE C == g.blocks \ S
<1>2. {b} \ {h} \subseteq C
  BY <1>1
<1>3. Closed(g, C, {h})
  <2>1. SUFFICES ASSUME NEW e \in g.edges, e[1] \in C, e[2] # h PROVE e[2] \in C
    BY DEF Closed
  <2>2. e = <<e[1], e[2]>> /\ e[1] \in g.blocks /\ e[2] \in g.blocks
    BY DEF IsCFG
  <2>3. e[1] \in Pred(g, e[2])
    BY <2>2 DEF Pred
  <2> QED  BY <2>1, <2>2, <2>3
<1>4. ReachedFrom(g, {b}, {h}) \subseteq C
  <2> HIDE DEF C
  <2>1. \A X : {b} \ {h} \subseteq X /\ Closed(g, X, {h}) => ReachedFrom(g, {b}, {h}) \subseteq X
    BY ReachedIsLeast
  <2> QED  BY <1>2, <1>3, <2>1
<1> QED  BY <1>1, <1>4
-----------------------------------------------------------------------------
(* The inductive invariants. *)

\* The search: what was visited is reachable, is still open or was left, and
\* what was left has all its successors visited.
VisitInv ==
  /\ cfg \in Graphs
  /\ visited \subseteq ReachableBlocks(cfg) /\ cfg.entry \in visited
  /\ stack \in Seq(visited) /\ postorder \in Seq(visited)
  /\ \A b \in visited : \/ \E i \in 1 .. Len(stack) : stack[i] = b
                        \/ \E i \in 1 .. Len(postorder) : postorder[i] = b
  /\ \A i \in 1 .. Len(postorder) : Succ(cfg, postorder[i]) \subseteq visited
  /\ pc # "visit" => stack = << >>

\* The block is the entry or its entry of doms agrees with its predecessors'.
Settled(b) == b = cfg.entry \/ Meet(b) = doms[b]

\* The iteration: no true dominator is lost, and while nothing changed in this
\* round every block passed is settled.
DomInv ==
  pc # "visit" =>
    /\ pos \in Nat \ {0}
    /\ doms \in [visited -> SUBSET visited]
    /\ doms[cfg.entry] = {cfg.entry}
    /\ \A b \in visited : Dominators(cfg, b) \subseteq doms[b]
    /\ pc = "dominate" /\ ~changed => \A i \in 1 .. Len(postorder) : i < pos => Settled(RPO[i])
    /\ pc # "dominate" => \A b \in visited : doms[b] = Dominators(cfg, b)

LoopOf(e) == <<e[1], e[2], LoopBody(cfg, e[1], e[2])>>

\* The flood of the loop under construction: inside the loop, and closed under
\* predecessors but for the blocks on the worklist.
FloodInv ==
  pc = "flood" =>
    /\ edge \in BackEdges(cfg) \ pending
    /\ {edge[1], edge[2]} \subseteq body
    /\ body \subseteq LoopBody(cfg, edge[1], edge[2])
    /\ worklist \subseteq body \ {edge[2]}
    /\ \A b \in body \ ({edge[2]} \cup worklist) : \A c \in Pred(cfg, b) : c = edge[2] \/ c \in body

\* Every back edge is pending, under construction, or has its loop recorded.
Recorded == BackEdges(cfg) \ (pending \cup (IF pc = "flood" THEN {edge} ELSE {}))
LoopInv ==
  pc \in {"loops", "flood", "done"} =>
    pending \subseteq BackEdges(cfg) /\ loops = {LoopOf(e) : e \in Recorded}

\* No loop is recorded before the floods, no back edge is pending after them.
PCInv ==
  /\ pc \in {"visit", "dominate", "loops", "flood", "done"}
  /\ pc \in {"visit", "dominate"} => loops = {}
  /\ pc = "done" => pending = {}

CFGInv == PCInv /\ VisitInv /\ DomInv /\ FloodInv /\ LoopInv

-----------------------------------------------------------------------------
(* Consequences of the invariants. *)

\* The graph under analysis is well formed.
LEMMA GraphsAreCFGs == ASSUME VisitInv PROVE IsCFG(cfg)
BY GraphsAssumption DEF VisitInv

\* When the search is over it has visited exactly the reachable blocks.
LEMMA SearchIsComplete ==
  ASSUME VisitInv, stack = << >>
  PROVE  /\ visited = ReachableBlocks(cfg)
         /\ \A b \in visited : \E i \in 1 .. Len(postorder) : RPO[i] = b
<1>1. \A b \in visited : \E i \in 1 .. Len(postorder) : postorder[i] = b
  BY DEF VisitInv
<1>2. ASSUME NEW e \in cfg.edges, e[1] \in visited PROVE e[2] \in visited
  <2>1. e = <<e[1], e[2]>> /\ e[2] \in cfg.blocks
    BY GraphsAreCFGs DEF IsCFG
  <2>2. e[2] \in Succ(cfg, e[1])
    BY <2>1 DEF Succ
  <2> QED  BY <1>1, <1>2, <2>2 DEF VisitInv
<1>3. ReachableBlocks(cfg) \subseteq visited
  <2>1. cfg.entry \in visited
    BY DEF VisitInv
  <2> QED  BY <1>2, <2>1, GraphsAreCFGs, ReachableIsLeast
<1>4. visited = ReachableBlocks(cfg)
  BY <1>3 DEF VisitInv
<1>5. ASSUME NEW b \in visited PROVE \E i \in 1 .. Len(postorder) : RPO[i] = b
  <2>1. PICK j \in 1 .. Len(postorder) : postorder[j] = b
    BY <1>1
  <2>2. Len(postorder) \in Nat
    BY DEF VisitInv
  <2>3. Len(postorder) + 1 - j \in 1 .. Len(postorder)
    BY <2>2
  <2>4. RPO[Len(postorder) + 1 - j] = postorder[Len(postorder) + 1 - (Len(postorder) + 1 - j)]
    BY <2>3 DEF RPO
  <2>5. Len(postorder) + 1 - (Len(postorder) + 1 - j) = j
    BY <2>2
  <2> QED  BY <2>1, <2>3, <2>4, <2>5
<1> QED  BY <1>4, <1>5

\* The blocks of the reverse postorder were visited.
LEMMA OrderIsVisited ==
  ASSUME VisitInv
  PROVE  Len(RPO) = Len(postorder) /\ \A i \in 1 .. Len(postorder) : RPO[i] \in visited
<1>1. Len(postorder) \in Nat
  BY DEF VisitInv
<1>2. Len(RPO) = Len(postorder)
  BY <1>1 DEF RPO
<1>3. ASSUME NEW i \in 1 .. Len(postorder) PROVE RPO[i] \in visited
  <2>1. RPO[i] = postorder[Len(postorder) + 1 - i]
    BY DEF RPO
  <2>2. Len(postorder) + 1 - i \in 1 .. Len(postorder)
    BY <1>1
  <2> QED  BY <2>1, <2>2 DEF VisitInv
<1> QED  BY <1>2, <1>3

\* The meet keeps the true dominators, when the predecessors have them.
LEMMA MeetKeepsDominators ==
  ASSUME VisitInv, visited = ReachableBlocks(cfg),
         \A c \in visited : Dominators(cfg, c) \subseteq doms[c],
         NEW b \in visited, b # cfg.entry
  PROVE  Dominators(cfg, b) \subseteq Meet(b)
<1>1. SUFFICES ASSUME NEW d \in Dominators(cfg, b), d # b PROVE d \in Meet(b)
  BY DEF Meet
<1>2. d \in visited
  BY DEF Dominators
<1>3. Pred(cfg, b) \cap visited # {}
  BY GraphsAreCFGs, ReachableHasPred
<1>4. ASSUME NEW c \in Pred(cfg, b) \cap visited PROVE d \in doms[c]
  BY <1>1, GraphsAreCFGs, DominatorsStep
<1> QED  BY <1>2, <1>3, <1>4 DEF Meet

\* When every block is settled the entries are exact.
LEMMA SettledIsExact ==
  ASSUME VisitInv, visited = ReachableBlocks(cfg),
         doms \in [visited -> SUBSET visited], doms[cfg.entry] = {cfg.entry},
         \A c \in visited : Dominators(cfg, c) \subseteq doms[c],
         \A c \in visited : Settled(c)
  PROVE  \A b \in visited : doms[b] = Dominators(cfg, b)
<1>1. ASSUME NEW b \in visited \ {cfg.entry}, NEW d \in doms[b] \ {b},
             NEW c \in Pred(cfg, b) \cap visited
      PROVE  d \in doms[c]
  <2>1. d \in Meet(b) /\ d # b
    BY <1>1 DEF Settled
  <2> QED  BY <2>1 DEF Meet
<1>2. Sound(cfg, doms)
  BY <1>1 DEF Sound
<1>3. ASSUME NEW b \in visited PROVE doms[b] \subseteq Dominators(cfg, b)
  BY <1>2, GraphsAreCFGs, SoundIsDominators
<1> QED  BY <1>3

\* A back edge joins blocks of the graph.
LEMMA BackEdgesInGraph ==
  ASSUME VisitInv, NEW e \in BackEdges(cfg)
  PROVE  e[1] \in cfg.blocks /\ e[2] \in cfg.blocks
BY GraphsAreCFGs DEF BackEdges, IsCFG

\* A flood that has run dry has found the whole loop.
LEMMA FloodIsComplete ==
  ASSUME VisitInv, FloodInv, pc = "flood", worklist = {}
  PROVE  body = LoopBody(cfg, edge[1], edge[2])
<1>1. edge[1] \in cfg.blocks /\ edge[2] \in cfg.blocks
  BY BackEdgesInGraph DEF FloodInv
<1>2. {edge[1], edge[2]} \subseteq body /\ body \subseteq LoopBody(cfg, edge[1], edge[2])
  BY DEF FloodInv
<1>3. \A b \in body \ {edge[2]} : \A c \in Pred(cfg, b) : c = edge[2] \/ c \in body
  BY DEF FloodInv
<1>4. LoopBody(cfg, edge[1], edge[2]) \subseteq body
  BY <1>1, <1>2, <1>3, GraphsAreCFGs, BodyIsLeast
<1> QED  BY <1>2, <1>4
-----------------------------------------------------------------------------
(* The invariants hold initially and every step keeps them. *)

\* The invariants hold of the initial states.
LEMMA InitInv == ASSUME Init PROVE CFGInv
<1>1. PCInv /\ DomInv /\ FloodInv /\ LoopInv
  BY DEF Init, PCInv, DomInv, FloodInv, LoopInv
<1>2. cfg.entry \in ReachableBlocks(cfg)
  BY GraphsAssumption, ReachableIsLeast DEF Init
<1>3. VisitInv
  <2>1. stack = <<cfg.entry>> /\ visited = {cfg.entry} /\ postorder = << >> /\ cfg \in Graphs
    BY DEF Init
  <2>2. stack \in Seq(visited) /\ postorder \in Seq(visited) /\ Len(postorder) = 0 /\ Len(stack) = 1
    BY <2>1
  <2>3. \A b \in visited : \E i \in 1 .. Len(stack) : stack[i] = b
    <3>1. 1 \in 1 .. Len(stack) /\ stack[1] = cfg.entry
      BY <2>1, <2>2
    <3> QED  BY <2>1, <3>1
  <2>4. pc = "visit"
    BY DEF Init
  <2> QED  BY <1>2, <2>1, <2>2, <2>3, <2>4 DEF VisitInv
<1> QED  BY <1>1, <1>3 DEF CFGInv

\* Entering a successor: it is reachable, and on the stack.
LEMMA VisitKeepsInv == ASSUME CFGInv, Visit PROVE CFGInv'
<1>1. pc = "visit" /\ UNCHANGED <<cfg, pc, postorder, loops>>
  BY DEF Visit
<1>2. PICK s \in Succ(cfg, stack[Len(stack)]) \ visited :
        stack' = Append(stack, s) /\ visited' = visited \cup {s}
  BY DEF Visit
<1>3. VisitInv /\ stack # << >>
  BY DEF CFGInv, Visit
<1> DEFINE n == Len(stack)
<1>4. n \in Nat \ {0} /\ stack \in Seq(visited) /\ stack[n] \in visited
  BY <1>3 DEF VisitInv
<1>5. s \in ReachableBlocks(cfg)
  <2>1. stack[n] \in ReachableBlocks(cfg)
    BY <1>3, <1>4 DEF VisitInv
  <2>2. <<stack[n], s>> \in cfg.edges
    BY <1>2 DEF Succ
  <2>3. <<stack[n], s>>[1] = stack[n] /\ <<stack[n], s>>[2] = s
    OBVIOUS
  <2> QED  BY <1>3, <2>1, <2>2, <2>3, GraphsAreCFGs, ReachableIsLeast
<1>6. stack \in Seq(visited') /\ postorder' \in Seq(visited') /\ s \in visited' /\ visited \subseteq visited'
  BY <1>1, <1>2, <1>3 DEF VisitInv
<1>7. /\ stack' \in Seq(visited') /\ Len(stack') = n + 1 /\ stack'[n + 1] = s
      /\ \A i \in 1 .. n : stack'[i] = stack[i]
  BY <1>2, <1>4, <1>6
<1>8. ASSUME NEW b \in visited'
      PROVE  \/ \E i \in 1 .. Len(stack') : stack'[i] = b
             \/ \E i \in 1 .. Len(postorder') : postorder'[i] = b
  <2>1. CASE b = s
    <3>1. n + 1 \in 1 .. Len(stack')
      BY <1>4, <1>7
    <3> QED  BY <1>7, <2>1, <3>1
  <2>2. CASE b \in visited
    <3>1. CASE \E i \in 1 .. n : stack[i] = b
      <4>1. PICK i \in 1 .. n : stack[i] = b
        BY <3>1
      <4>2. i \in 1 .. Len(stack')
        BY <1>4, <1>7, <4>1
      <4> QED  BY <1>7, <4>1, <4>2
    <3>2. CASE \E i \in 1 .. Len(postorder) : postorder[i] = b
      BY <1>1, <3>2
    <3> QED  BY <1>3, <2>2, <3>1, <3>2 DEF VisitInv
  <2> QED  BY <1>2, <2>1, <2>2
<1>9. \A i \in 1 .. Len(postorder') : Succ(cfg', postorder'[i]) \subseteq visited'
  BY <1>1, <1>3, <1>6 DEF VisitInv
<1>10. VisitInv'
  <2>1. visited' \subseteq ReachableBlocks(cfg') /\ cfg'.entry \in visited' /\ cfg' \in Graphs
    BY <1>1, <1>2, <1>3, <1>5 DEF VisitInv
  <2> QED  BY <1>1, <1>6, <1>7, <1>8, <1>9, <2>1 DEF VisitInv
<1> QED  BY <1>1, <1>10 DEF CFGInv, PCInv, DomInv, FloodInv, LoopInv

\* Leaving a block: it moves from the stack to the postorder.
LEMMA LeaveKeepsInv == ASSUME CFGInv, Leave PROVE CFGInv'
<1>1. /\ pc = "visit" /\ UNCHANGED <<cfg, pc, visited, loops>>
      /\ Succ(cfg, stack[Len(stack)]) \subseteq visited
      /\ postorder' = Append(postorder, stack[Len(stack)])
      /\ stack' = SubSeq(stack, 1, Len(stack) - 1)
  BY DEF Leave
<1>2. VisitInv /\ stack # << >>
  BY DEF CFGInv, Leave
<1> DEFINE n == Len(stack)
           m == Len(postorder)
<1>3. n \in Nat \ {0} /\ stack \in Seq(visited) /\ stack[n] \in visited /\ postorder \in Seq(visited) /\ m \in Nat
  BY <1>2 DEF VisitInv
<1>4. /\ stack' \in Seq(visited) /\ Len(stack') = n - 1
      /\ \A i \in 1 .. n - 1 : stack'[i] = stack[i]
  <2>1. stack' = SubSeq(stack, 1, n - 1)
    BY <1>1
  <2>2. n - 1 \in (1 - 1) .. n
    BY <1>3
  <2> HIDE DEF n
  <2>3. /\ SubSeq(stack, 1, n - 1) \in Seq(visited)
        /\ Len(SubSeq(stack, 1, n - 1)) = IF 1 <= n - 1 THEN n - 1 - 1 + 1 ELSE 0
        /\ \A i \in 1 .. n - 1 - 1 + 1 : SubSeq(stack, 1, n - 1)[i] = stack[1 + i - 1]
    BY <1>3, <2>2, SubSeqProperties DEF n
  <2>4. Len(stack') = n - 1
    BY <1>3, <2>1, <2>3
  <2>5. ASSUME NEW i \in 1 .. n - 1 PROVE stack'[i] = stack[i]
    BY <1>3, <2>1, <2>3
  <2> QED  BY <2>1, <2>3, <2>4, <2>5
<1>5. /\ postorder' \in Seq(visited) /\ Len(postorder') = m + 1 /\ postorder'[m + 1] = stack[n]
      /\ \A i \in 1 .. m : postorder'[i] = postorder[i]
  BY <1>1, <1>3
<1> HIDE DEF n, m
<1>6. ASSUME NEW b \in visited
      PROVE  \/ \E i \in 1 .. n - 1 : stack'[i] = b
             \/ \E i \in 1 .. m + 1 : postorder'[i] = b
  <2>1. CASE \E i \in 1 .. n : stack[i] = b
    <3>1. PICK i \in 1 .. n : stack[i] = b
      BY <2>1
    <3>2. CASE i = n
      <4>1. m + 1 \in 1 .. m + 1
        BY <1>3
      <4> QED  BY <1>5, <3>1, <3>2, <4>1
    <3>3. CASE i # n
      <4>1. i \in 1 .. n - 1
        BY <1>3, <3>3
      <4> QED  BY <1>4, <3>1, <4>1
    <3> QED  BY <3>2, <3>3
  <2>2. CASE \E i \in 1 .. m : postorder[i] = b
    <3>1. PICK i \in 1 .. m : postorder[i] = b
      BY <2>2
    <3>2. i \in 1 .. m + 1
      BY <1>3
    <3> QED  BY <1>5, <3>1, <3>2
  <2> QED  BY <1>2, <2>1, <2>2 DEF VisitInv, n, m
<1>7. ASSUME NEW i \in 1 .. m + 1 PROVE Succ(cfg, postorder'[i]) \subseteq visited
  <2>1. CASE i = m + 1
    BY <1>1, <1>5, <2>1 DEF n
  <2>2. CASE i # m + 1
    <3>1. i \in 1 .. m
      BY <1>3, <2>2
    <3> QED  BY <1>2, <1>5, <3>1 DEF VisitInv, m
  <2> QED  BY <2>1, <2>2
<1>8. VisitInv'
  <2>1. visited' = visited /\ cfg' = cfg /\ pc' = "visit"
    BY <1>1
  <2>2. visited \subseteq ReachableBlocks(cfg) /\ cfg.entry \in visited /\ cfg \in Graphs
    BY <1>2 DEF VisitInv
  <2> QED  BY <1>4, <1>5, <1>6, <1>7, <2>1, <2>2 DEF VisitInv
<1> QED  BY <1>1, <1>8 DEF CFGInv, PCInv, DomInv, FloodInv, LoopInv

\* The steps after the search leave its result alone.
LEMMA SearchIsKept ==
  ASSUME VisitInv, pc # "visit", UNCHANGED <<cfg, stack, visited, postorder>>
  PROVE  VisitInv'
BY DEF VisitInv

\* The first entries of doms: everything visited.
LEMMA StartDominatorsKeepsInv == ASSUME CFGInv, StartDominators PROVE CFGInv'
<1>1. /\ pc = "visit" /\ stack = << >>
      /\ doms' = [b \in visited |-> IF b = cfg.entry THEN {b} ELSE visited]
      /\ pos' = 1 /\ changed' = FALSE /\ pc' = "dominate"
      /\ UNCHANGED <<cfg, stack, visited, postorder, loops>>
  BY DEF StartDominators
<1>2. VisitInv
  BY DEF CFGInv
<1>3. VisitInv'
  BY <1>1, <1>2 DEF VisitInv
<1>4. visited = ReachableBlocks(cfg) /\ cfg.entry \in visited
  BY <1>1, <1>2, SearchIsComplete DEF VisitInv
<1>5. \A b \in visited : Dominators(cfg, b) \subseteq doms'[b]
  <2>1. Dominators(cfg, cfg.entry) = {cfg.entry}
    BY <1>2, GraphsAreCFGs, DominatorsOfEntry
  <2>2. \A b \in visited : Dominators(cfg, b) \subseteq visited
    BY <1>4 DEF Dominators
  <2> QED  BY <1>1, <2>1, <2>2
<1>6. DomInv'
  <2>1. ~\E i \in 1 .. Len(postorder') : i < pos'
    BY <1>1
  <2> QED  BY <1>1, <1>4, <1>5, <2>1 DEF DomInv
<1> QED  BY <1>1, <1>3, <1>6 DEF CFGInv, PCInv, FloodInv, LoopInv

\* One block of a round: its new entry still holds its dominators.
LEMMA DominateKeepsInv == ASSUME CFGInv, Dominate PROVE CFGInv'
<1> DEFINE b == RPO[pos]
           N == Len(postorder)
<1>1. /\ pc = "dominate" /\ pos <= Len(RPO) /\ pos' = pos + 1
      /\ UNCHANGED <<cfg, pc, stack, visited, postorder, loops>>
  BY DEF Dominate
<1>2. IF b # cfg.entry /\ Meet(b) # doms[b]
      THEN doms' = [doms EXCEPT ![b] = Meet(b)] /\ changed' = TRUE
      ELSE UNCHANGED <<doms, changed>>
  BY DEF Dominate
<1>3. VisitInv /\ DomInv
  BY DEF CFGInv
<1>4. VisitInv'
  BY <1>1, <1>3, SearchIsKept
<1>5. visited = ReachableBlocks(cfg) /\ cfg.entry \in visited
  BY <1>1, <1>3, SearchIsComplete DEF VisitInv
<1>6. /\ pos \in Nat \ {0} /\ doms \in [visited -> SUBSET visited] /\ doms[cfg.entry] = {cfg.entry}
      /\ \A c \in visited : Dominators(cfg, c) \subseteq doms[c]
      /\ ~changed => \A i \in 1 .. N : i < pos => Settled(RPO[i])
  BY <1>1, <1>3 DEF DomInv
<1>7. N \in Nat /\ Len(RPO) = N /\ pos \in 1 .. N /\ b \in visited
  <2>1. N \in Nat
    BY <1>3 DEF VisitInv
  <2>2. Len(RPO) = N /\ \A i \in 1 .. N : RPO[i] \in visited
    BY <1>3, OrderIsVisited
  <2> QED  BY <1>1, <1>6, <2>1, <2>2
<1>8. RPO' = RPO /\ N' = N
  BY <1>1 DEF RPO
<1> HIDE DEF b, N
<1>9. DomInv'
  <2>1. CASE b # cfg.entry /\ Meet(b) # doms[b]
    <3>1. doms' = [doms EXCEPT ![b] = Meet(b)] /\ changed' = TRUE
      BY <1>2, <2>1
    <3>2. Meet(b) \subseteq visited
      BY <1>7 DEF Meet
    <3>3. doms' \in [visited -> SUBSET visited] /\ doms'[cfg.entry] = {cfg.entry}
      BY <1>5, <1>6, <1>7, <2>1, <3>1, <3>2
    <3>4. Dominators(cfg, b) \subseteq Meet(b)
      BY <1>3, <1>5, <1>6, <1>7, <2>1, MeetKeepsDominators
    <3>5. ASSUME NEW c \in visited PROVE Dominators(cfg, c) \subseteq doms'[c]
      BY <1>6, <1>7, <3>1, <3>4
    <3>6. pos' \in Nat \ {0}
      BY <1>1, <1>6
    <3> QED  BY <1>1, <3>1, <3>3, <3>5, <3>6 DEF DomInv
  <2>2. CASE ~(b # cfg.entry /\ Meet(b) # doms[b])
    <3>1. doms' = doms /\ changed' = changed
      BY <1>2, <2>2
    <3>2. Settled(b)
      BY <2>2 DEF Settled
    <3>3. ASSUME ~changed, NEW i \in 1 .. N, i < pos' PROVE Settled(RPO[i])
      <4>1. CASE i = pos
        BY <3>2, <4>1 DEF b
      <4>2. CASE i # pos
        <5>1. i < pos
          BY <1>1, <1>6, <3>3, <4>2
        <5> QED  BY <1>6, <3>3, <5>1
      <4> QED  BY <4>1, <4>2
    <3>4. \A c : Settled(c)' <=> Settled(c)
      BY <1>1, <3>1 DEF Settled, Meet
    <3>5. pos' \in Nat \ {0}
      BY <1>1, <1>6
    <3>6. ASSUME ~changed', NEW i \in 1 .. Len(postorder'), i < pos' PROVE Settled(RPO[i])'
      <4>1. i \in 1 .. N /\ ~changed
        BY <1>8, <3>1, <3>6 DEF N
      <4>2. Settled(RPO[i])
        BY <3>3, <3>6, <4>1
      <4> QED  BY <1>1, <1>8, <3>1, <4>2 DEF Settled, Meet
    <3>7. /\ doms' \in [visited' -> SUBSET visited'] /\ doms'[cfg'.entry] = {cfg'.entry}
          /\ \A c \in visited' : Dominators(cfg', c) \subseteq doms'[c]
          /\ pc' = "dominate"
      BY <1>1, <1>6, <3>1
    <3> QED  BY <3>5, <3>6, <3>7 DEF DomInv
  <2> QED  BY <2>1, <2>2
<1> QED  BY <1>1, <1>4, <1>9 DEF CFGInv, PCInv, FloodInv, LoopInv

\* The end of a round: with nothing changed, every block is settled.
LEMMA NextRoundKeepsInv == ASSUME CFGInv, NextRound PROVE CFGInv'
<1>1. /\ pc = "dominate" /\ pos > Len(RPO)
      /\ UNCHANGED <<cfg, stack, visited, postorder, doms, loops>>
  BY DEF NextRound
<1>2. VisitInv /\ DomInv /\ LoopInv
  BY DEF CFGInv
<1>3. VisitInv'
  BY <1>1, <1>2, SearchIsKept
<1>4. visited = ReachableBlocks(cfg) /\ \A b \in visited : \E i \in 1 .. Len(postorder) : RPO[i] = b
  BY <1>1, <1>2, SearchIsComplete DEF VisitInv
<1>5. /\ pos \in Nat \ {0} /\ doms \in [visited -> SUBSET visited] /\ doms[cfg.entry] = {cfg.entry}
      /\ \A c \in visited : Dominators(cfg, c) \subseteq doms[c]
      /\ ~changed => \A i \in 1 .. Len(postorder) : i < pos => Settled(RPO[i])
  BY <1>1, <1>2 DEF DomInv
<1>6. CASE changed
  <2>1. pos' = 1 /\ changed' = FALSE /\ UNCHANGED <<pc, pending>>
    BY <1>6 DEF NextRound
  <2>2. ~\E i \in 1 .. Len(postorder') : i < pos'
    BY <2>1
  <2>3. DomInv'
    BY <1>1, <1>5, <2>1, <2>2 DEF DomInv
  <2> QED  BY <1>1, <1>3, <2>1, <2>3 DEF CFGInv, PCInv, FloodInv, LoopInv
<1>7. CASE ~changed
  <2>1. /\ pending' = {e \in cfg.edges : e[1] \in visited /\ e[2] \in doms[e[1]]}
        /\ pc' = "loops" /\ UNCHANGED <<pos, changed>>
    BY <1>7 DEF NextRound
  <2>2. ASSUME NEW b \in visited PROVE Settled(b)
    <3>1. PICK i \in 1 .. Len(postorder) : RPO[i] = b
      BY <1>4
    <3>2. Len(postorder) \in Nat /\ Len(RPO) = Len(postorder)
      BY <1>2, OrderIsVisited DEF VisitInv
    <3>3. i < pos
      BY <1>1, <1>5, <3>2
    <3> QED  BY <1>5, <1>7, <3>1, <3>3
  <2>3. \A b \in visited : doms[b] = Dominators(cfg, b)
    BY <1>2, <1>4, <1>5, <2>2, SettledIsExact
  <2>4. pending' = BackEdges(cfg)
    BY <1>4, <2>1, <2>3 DEF BackEdges
  <2>5. DomInv'
    BY <1>1, <1>5, <2>1, <2>3 DEF DomInv
  <2>6. loops' = {}
    BY <1>1 DEF CFGInv, PCInv
  <2>7. LoopInv'
    <3>1. Recorded' = {}
      BY <1>1, <2>1, <2>4 DEF Recorded, BackEdges
    <3>2. pending' \subseteq BackEdges(cfg')
      BY <1>1, <2>4
    <3> QED  BY <2>6, <3>1, <3>2 DEF LoopInv
  <2> QED  BY <1>1, <1>3, <2>1, <2>5, <2>7 DEF CFGInv, PCInv, FloodInv
<1> QED  BY <1>6, <1>7

\* A back edge is taken up: header and tail belong to its loop.
LEMMA StartLoopKeepsInv == ASSUME CFGInv, StartLoop PROVE CFGInv'
<1>1. /\ pc = "loops" /\ pc' = "flood"
      /\ UNCHANGED <<cfg, stack, visited, postorder, pos, doms, changed, loops>>
  BY DEF StartLoop
<1>2. PICK e \in pending :
        /\ edge' = e /\ pending' = pending \ {e}
        /\ body' = {e[1], e[2]}
        /\ worklist' = IF e[1] = e[2] THEN {} ELSE {e[1]}
  BY DEF StartLoop
<1>3. VisitInv /\ DomInv /\ LoopInv
  BY DEF CFGInv
<1>4. VisitInv' /\ DomInv'
  BY <1>1, <1>3, SearchIsKept DEF DomInv
<1>5. pending \subseteq BackEdges(cfg) /\ loops = {LoopOf(x) : x \in Recorded}
  BY <1>1, <1>3 DEF LoopInv
<1>6. e[1] \in cfg.blocks /\ e[2] \in cfg.blocks
  BY <1>2, <1>3, <1>5, BackEdgesInGraph
<1>7. body' \subseteq LoopBody(cfg, e[1], e[2])
  BY <1>2, <1>3, <1>6, GraphsAreCFGs, BodyIsClosed
<1>8. FloodInv'
  <2>1. edge' \in BackEdges(cfg') \ pending'
    BY <1>1, <1>2, <1>5
  <2>2. worklist' \subseteq body' \ {edge'[2]}
    BY <1>2
  <2>3. body' \ ({edge'[2]} \cup worklist') = {}
    BY <1>2
  <2>4. {edge'[1], edge'[2]} \subseteq body' /\ body' \subseteq LoopBody(cfg', edge'[1], edge'[2])
    BY <1>1, <1>2, <1>7
  <2> QED  BY <2>1, <2>2, <2>3, <2>4 DEF FloodInv
<1>9. LoopInv'
  <2>1. Recorded' = Recorded
    BY <1>1, <1>2 DEF Recorded, BackEdges
  <2>2. loops' = {LoopOf(x)' : x \in Recorded'}
    BY <1>1, <1>5, <2>1 DEF LoopOf
  <2>3. pending' \subseteq BackEdges(cfg')
    BY <1>1, <1>2, <1>5
  <2> QED  BY <1>1, <2>2, <2>3 DEF LoopInv, LoopOf
<1> QED  BY <1>1, <1>4, <1>8, <1>9 DEF CFGInv, PCInv

\* A block of the worklist: its predecessors belong to the loop.
LEMMA FloodKeepsInv == ASSUME CFGInv, Flood PROVE CFGInv'
<1>1. /\ pc = "flood"
      /\ UNCHANGED <<cfg, pc, stack, visited, postorder, pos, doms, changed, pending, edge, loops>>
  BY DEF Flood
<1>2. PICK b \in worklist :
        /\ body' = body \cup NewBlocks(b)
        /\ worklist' = (worklist \ {b}) \cup NewBlocks(b)
  BY DEF Flood
<1>3. VisitInv /\ DomInv /\ LoopInv /\ FloodInv
  BY DEF CFGInv
<1>4. VisitInv' /\ DomInv' /\ LoopInv'
  BY <1>1, <1>3, SearchIsKept DEF DomInv, LoopInv, LoopOf, Recorded
<1> DEFINE h == edge[2]
           L == LoopBody(cfg, edge[1], edge[2])
<1>5. /\ edge \in BackEdges(cfg) \ pending /\ {edge[1], h} \subseteq body /\ body \subseteq L
      /\ worklist \subseteq body \ {h}
      /\ \A x \in body \ ({h} \cup worklist) : \A c \in Pred(cfg, x) : c = h \/ c \in body
  BY <1>1, <1>3 DEF FloodInv
<1>6. edge[1] \in cfg.blocks /\ edge[2] \in cfg.blocks
  BY <1>3, <1>5, BackEdgesInGraph
<1>7. \A x \in L \ {h} : \A c \in Pred(cfg, x) : c \in L
  BY <1>3, <1>6, GraphsAreCFGs, BodyIsClosed
<1> HIDE DEF h, L
<1>8. NewBlocks(b) = {c \in Pred(cfg, b) : c # h /\ c \notin body}
  BY DEF NewBlocks, h
<1>9. b \in L \ {h}
  BY <1>2, <1>5
<1>10. body' \subseteq L
  BY <1>2, <1>5, <1>7, <1>8, <1>9
<1>11. worklist' \subseteq body' \ {h}
  BY <1>2, <1>5, <1>8
<1>12. ASSUME NEW x \in body' \ ({h} \cup worklist'), NEW c \in Pred(cfg, x)
       PROVE  c = h \/ c \in body'
  <2>1. x = b \/ x \in body \ ({h} \cup worklist)
    BY <1>2, <1>8, <1>12
  <2>2. CASE x = b
    BY <1>2, <1>8, <1>12, <2>2
  <2>3. CASE x \in body \ ({h} \cup worklist)
    BY <1>2, <1>5, <1>12, <2>3
  <2> QED  BY <2>1, <2>2, <2>3
<1>13. FloodInv'
  <2>1. {edge'[1], edge'[2]} \subseteq body'
    BY <1>1, <1>2, <1>5 DEF h
  <2>2. body' \subseteq LoopBody(cfg', edge'[1], edge'[2])
    BY <1>1, <1>10 DEF L
  <2>3. \A x \in body' \ ({edge'[2]} \cup worklist') : \A c \in Pred(cfg', x) : c = edge'[2] \/ c \in body'
    BY <1>1, <1>12 DEF h
  <2>4. edge' \in BackEdges(cfg') \ pending' /\ worklist' \subseteq body' \ {edge'[2]}
    BY <1>1, <1>5, <1>11 DEF h
  <2> QED  BY <2>1, <2>2, <2>3, <2>4 DEF FloodInv
<1> QED  BY <1>1, <1>4, <1>13 DEF CFGInv, PCInv

\* The flood has run dry: the loop recorded is the whole one.
LEMMA RecordLoopKeepsInv == ASSUME CFGInv, RecordLoop PROVE CFGInv'
<1>1. /\ pc = "flood" /\ worklist = {} /\ pc' = "loops"
      /\ loops' = loops \cup {<<edge[1], edge[2], body>>}
      /\ UNCHANGED <<cfg, stack, visited, postorder, pos, doms, changed, pending, edge, body, worklist>>
  BY DEF RecordLoop
<1>2. VisitInv /\ DomInv /\ LoopInv /\ FloodInv
  BY DEF CFGInv
<1>3. VisitInv' /\ DomInv' /\ FloodInv'
  BY <1>1, <1>2, SearchIsKept DEF DomInv, FloodInv
<1>4. body = LoopBody(cfg, edge[1], edge[2])
  BY <1>1, <1>2, FloodIsComplete
<1>5. pending \subseteq BackEdges(cfg) /\ loops = {LoopOf(x) : x \in Recorded}
  BY <1>1, <1>2 DEF LoopInv
<1>6. edge \in BackEdges(cfg) \ pending
  BY <1>1, <1>2 DEF FloodInv
<1>7. Recorded' = Recorded \cup {edge}
  <2>1. Recorded = BackEdges(cfg) \ (pending \cup {edge})
    BY <1>1 DEF Recorded
  <2>2. Recorded' = BackEdges(cfg) \ pending
    BY <1>1 DEF Recorded
  <2> QED  BY <1>6, <2>1, <2>2
<1>8. loops' = {LoopOf(x) : x \in Recorded'}
  BY <1>1, <1>4, <1>5, <1>7 DEF LoopOf
<1>9. LoopInv'
  BY <1>1, <1>5, <1>8 DEF LoopInv, LoopOf
<1> QED  BY <1>1, <1>3, <1>9 DEF CFGInv, PCInv

\* No back edge is left.
LEMMA ReturnKeepsInv == ASSUME CFGInv, Return PROVE CFGInv'
<1>1. /\ pc = "loops" /\ pending = {} /\ pc' = "done"
      /\ UNCHANGED <<cfg, stack, visited, postorder, pos, doms, changed, pending, edge, body, worklist, loops>>
  BY DEF Return
<1>2. VisitInv /\ DomInv /\ LoopInv
  BY DEF CFGInv
<1>3. VisitInv' /\ DomInv' /\ FloodInv'
  BY <1>1, <1>2, SearchIsKept DEF DomInv, FloodInv
<1>4. Recorded' = Recorded
  BY <1>1 DEF Recorded
<1>5. LoopInv'
  BY <1>1, <1>2, <1>4 DEF LoopInv, LoopOf
<1> QED  BY <1>1, <1>3, <1>5 DEF CFGInv, PCInv

\* The invariants are about the variables alone.
LEMMA StutterKeepsInv == ASSUME CFGInv, UNCHANGED vars PROVE CFGInv'
<1>1. UNCHANGED <<cfg, pc, stack, visited, postorder, pos, doms, changed, pending, edge, body, worklist, loops>>
  BY DEF vars
<1>2. PCInv' /\ VisitInv'
  BY <1>1 DEF CFGInv, PCInv, VisitInv
<1>3. FloodInv' /\ LoopInv'
  BY <1>1 DEF CFGInv, FloodInv, LoopInv, LoopOf, Recorded
<1>4. DomInv'
  BY <1>1 DEF CFGInv, DomInv, Settled, Meet, RPO
<1> QED  BY <1>2, <1>3, <1>4 DEF CFGInv

\* The search, the iteration and the floods keep their invariants, whatever the
\* graph and the order in which blocks are visited.
THEOREM CFGInvariants == Spec => []CFGInv
<1>1. Init => CFGInv
  BY InitInv
<1>2. CFGInv /\ [Next]_vars => CFGInv'
  BY VisitKeepsInv, LeaveKeepsInv, StartDominatorsKeepsInv, DominateKeepsInv, NextRoundKeepsInv,
     StartLoopKeepsInv, FloodKeepsInv, RecordLoopKeepsInv, ReturnKeepsInv, StutterKeepsInv DEF Next
<1> QED  BY <1>1, <1>2, PTL DEF Spec

-----------------------------------------------------------------------------
(* The theorems. *)

\* CFG.dominators never drops a block that lies on every path to another, at
\* any point of its iteration: for every graph and every visiting order.
THEOREM NoTrueDominatorIsDropped == Spec => []NoDominatorIsLost
<1>1. CFGInv => NoDominatorIsLost
  BY DEF CFGInv, DomInv, NoDominatorIsLost
<1> QED  BY <1>1, CFGInvariants, PTL

\* When CFG.dominators stops, a block's entry is exactly the set of the
\* reachable blocks that every path from the entry to it passes.
THEOREM DominatorsAreThePathOnes == Spec => []DominatorsAreExact
<1>1. CFGInv => DominatorsAreExact
  BY DEF CFGInv, DomInv, DominatorsAreExact
<1> QED  BY <1>1, CFGInvariants, PTL

\* CFG.natural_loops returns one loop for each back edge, made of the header
\* and the blocks that reach the tail without it, and each is entered from the
\* reachable blocks only through its header.
THEOREM LoopsEnterAtTheHeader == Spec => []LoopsAreNatural
<1>1. ASSUME CFGInv, pc = "done" PROVE LoopsAreNatural
  <2>1. VisitInv /\ LoopInv /\ pending = {}
    BY <1>1 DEF CFGInv, PCInv
  <2>2. loops = {LoopOf(e) : e \in BackEdges(cfg)}
    BY <1>1, <2>1 DEF LoopInv, Recorded
  <2>3. ASSUME NEW l \in loops, NEW b \in l[3] \ {l[2]} PROVE Pred(cfg, b) \subseteq l[3]
    <3>1. PICK e \in BackEdges(cfg) : l = LoopOf(e)
      BY <2>2
    <3>2. l[2] = e[2] /\ l[3] = LoopBody(cfg, e[1], e[2])
      BY <3>1 DEF LoopOf
    <3>3. e[1] \in cfg.blocks /\ e[2] \in cfg.blocks
      BY <2>1, BackEdgesInGraph
    <3>4. \A x \in LoopBody(cfg, e[1], e[2]) \ {e[2]} : \A c \in Pred(cfg, x) : c \in LoopBody(cfg, e[1], e[2])
      BY <2>1, <3>3, GraphsAreCFGs, BodyIsClosed
    <3> QED  BY <2>3, <3>2, <3>4
  <2> QED  BY <2>2, <2>3 DEF LoopsAreNatural, LoopOf
<1>2. CFGInv => LoopsAreNatural
  BY <1>1 DEF LoopsAreNatural
<1> QED  BY <1>2, CFGInvariants, PTL
=============================================================================
