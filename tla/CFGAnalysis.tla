---------------------------- MODULE CFGAnalysis ----------------------------
(***************************************************************************)
(* analysis/cfg.py, the analyses of a CFG: reverse_postorder (a depth-first*)
(* search), dominators (iteration to a fixed point), backedges and         *)
(* natural_loops (a flood from the tail of each back edge).  The order in  *)
(* which the code visits a set of block names is left open.                *)
(***************************************************************************)
EXTENDS PTXGraph

CONSTANT Graphs           \* the CFGs build_cfg may return

ASSUME GraphsAssumption == \A g \in Graphs : IsCFG(g)

VARIABLES
  cfg,
  pc,             \* "visit", "dominate", "loops", "flood" or "done"
  stack,          \* the open calls of visit()
  visited,
  postorder,
  pos,            \* the position in the reverse postorder
  doms,           \* block -> its dominators so far
  changed,
  pending,        \* back edges whose loop is not built yet
  edge,           \* the back edge whose loop is being built
  body,           \* loop_blocks
  worklist,
  loops           \* set of <<tail, header, blocks>>

vars == <<cfg, pc, stack, visited, postorder, pos, doms, changed,
          pending, edge, body, worklist, loops>>

RPO == [i \in 1 .. Len(postorder) |-> postorder[Len(postorder) + 1 - i]]

Init ==
  /\ cfg \in Graphs
  /\ pc = "visit"
  /\ stack = <<cfg.entry>> /\ visited = {cfg.entry} /\ postorder = << >>
  /\ pos = 1 /\ doms = << >> /\ changed = FALSE
  /\ pending = {} /\ edge = <<0, 0>> /\ body = {} /\ worklist = {} /\ loops = {}

-----------------------------------------------------------------------------
(* reverse_postorder *)

Visit ==
  /\ pc = "visit" /\ stack # << >>
  /\ \E s \in Succ(cfg, stack[Len(stack)]) \ visited :
       /\ stack' = Append(stack, s)
       /\ visited' = visited \cup {s}
  /\ UNCHANGED <<cfg, pc, postorder, pos, doms, changed, pending, edge, body, worklist, loops>>

Leave ==
  /\ pc = "visit" /\ stack # << >>
  /\ Succ(cfg, stack[Len(stack)]) \subseteq visited
  /\ postorder' = Append(postorder, stack[Len(stack)])
  /\ stack' = SubSeq(stack, 1, Len(stack) - 1)
  /\ UNCHANGED <<cfg, pc, visited, pos, doms, changed, pending, edge, body, worklist, loops>>

(* dominators *)

StartDominators ==
  /\ pc = "visit" /\ stack = << >>
  /\ doms' = [b \in visited |-> IF b = cfg.entry THEN {b} ELSE visited]
  /\ pos' = 1 /\ changed' = FALSE /\ pc' = "dominate"
  /\ UNCHANGED <<cfg, stack, visited, postorder, pending, edge, body, worklist, loops>>

\* Variant for the mutants: unreachable predecessors are not left out.
MeetUnfiltered(b) ==
  {b} \cup {d \in visited : Pred(cfg, b) # {} /\ \A c \in Pred(cfg, b) : c \in visited /\ d \in doms[c]}

Meet(b) == LET preds == Pred(cfg, b) \cap visited
           IN  {b} \cup {d \in visited : preds # {} /\ \A c \in preds : d \in doms[c]}

Dominate ==
  /\ pc = "dominate" /\ pos <= Len(RPO)
  /\ LET b == RPO[pos]
     IN  IF b # cfg.entry /\ Meet(b) # doms[b]
         THEN doms' = [doms EXCEPT ![b] = Meet(b)] /\ changed' = TRUE
         ELSE UNCHANGED <<doms, changed>>
  /\ pos' = pos + 1
  /\ UNCHANGED <<cfg, pc, stack, visited, postorder, pending, edge, body, worklist, loops>>

\* Variants for the mutants: one round only; changed is never cleared.
DominateOnce ==
  /\ pc = "dominate" /\ pos > Len(RPO)
  /\ pending' = {e \in cfg.edges : e[1] \in visited /\ e[2] \in doms[e[1]]}
  /\ pc' = "loops"
  /\ UNCHANGED <<cfg, stack, visited, postorder, pos, doms, changed, edge, body, worklist, loops>>

NextRoundKeepsChanged ==
  /\ pc = "dominate" /\ pos > Len(RPO)
  /\ IF changed THEN /\ pos' = 1
                     /\ UNCHANGED <<pc, changed, pending>>
     ELSE /\ pending' = {e \in cfg.edges : e[1] \in visited /\ e[2] \in doms[e[1]]}
          /\ pc' = "loops"
          /\ UNCHANGED <<pos, changed>>
  /\ UNCHANGED <<cfg, stack, visited, postorder, doms, edge, body, worklist, loops>>

\* while changed
NextRound ==
  /\ pc = "dominate" /\ pos > Len(RPO)
  /\ IF changed THEN /\ pos' = 1 /\ changed' = FALSE
                     /\ UNCHANGED <<pc, pending>>
     ELSE /\ pending' = {e \in cfg.edges :                 \* backedges
                           e[1] \in visited /\ e[2] \in doms[e[1]]}
          /\ pc' = "loops"
          /\ UNCHANGED <<pos, changed>>
  /\ UNCHANGED <<cfg, stack, visited, postorder, doms, edge, body, worklist, loops>>

(* natural_loops *)

StartLoop ==
  /\ pc = "loops"
  /\ \E e \in pending :
       /\ edge' = e /\ pending' = pending \ {e}
       /\ body' = {e[1], e[2]}
       /\ worklist' = IF e[1] = e[2] THEN {} ELSE {e[1]}    \* self-loop
  /\ pc' = "flood"
  /\ UNCHANGED <<cfg, stack, visited, postorder, pos, doms, changed, loops>>

\* Variant for the mutants: the flood goes forward.
NewBlocksForward(b) == {c \in Succ(cfg, b) : c # edge[2] /\ c \notin body}
NewBlocks(b) == {c \in Pred(cfg, b) : c # edge[2] /\ c \notin body}

Flood ==
  /\ pc = "flood"
  /\ \E b \in worklist :
       /\ body' = body \cup NewBlocks(b)
       /\ worklist' = (worklist \ {b}) \cup NewBlocks(b)
  /\ UNCHANGED <<cfg, pc, stack, visited, postorder, pos, doms, changed, pending, edge, loops>>

RecordLoop ==
  /\ pc = "flood" /\ worklist = {}
  /\ loops' = loops \cup {<<edge[1], edge[2], body>>}
  /\ pc' = "loops"
  /\ UNCHANGED <<cfg, stack, visited, postorder, pos, doms, changed, pending, edge, body, worklist>>

Return ==
  /\ pc = "loops" /\ pending = {}
  /\ pc' = "done"
  /\ UNCHANGED <<cfg, stack, visited, postorder, pos, doms, changed, pending, edge, body, worklist, loops>>

Next == \/ Visit \/ Leave \/ StartDominators \/ Dominate \/ NextRound
        \/ StartLoop \/ Flood \/ RecordLoop \/ Return

Spec == Init /\ [][Next]_vars
FairSpec == Spec /\ WF_vars(Next)

-----------------------------------------------------------------------------
(* Properties. *)

\* At every moment of the iteration no true dominator has been thrown away.
NoDominatorIsLost ==
  pc \in {"dominate", "loops", "flood", "done"} =>
    \A b \in visited : Dominators(cfg, b) \subseteq doms[b]

\* The fixed point is exact: b's entry holds the blocks on every path to b.
DominatorsAreExact ==
  pc \in {"loops", "flood", "done"} =>
    \A b \in visited : doms[b] = Dominators(cfg, b)

\* Every back edge has its loop, with the blocks that reach the tail without
\* passing the header, and nothing else is a loop.  Such a loop is entered only
\* through its header: LICM and load hoisting move code in front of the header
\* on the strength of this.
LoopsAreNatural ==
  pc = "done" =>
    /\ loops = {<<e[1], e[2], LoopBody(cfg, e[1], e[2])>> : e \in BackEdges(cfg)}
    /\ \A l \in loops : \A b \in l[3] \ {l[2]} : Pred(cfg, b) \cap visited \subseteq l[3]

\* The analyses end.
Returns == <>(pc = "done")
=============================================================================
