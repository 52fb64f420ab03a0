SPECIFICATION FairSpec
CONSTANTS
  EntryLabel = "entry"
  Size = 6
  Graphs <- MCGraphs
INVARIANTS NoDominatorIsLost DominatorsAreExact LoopsAreNatural
PROPERTIES Returns
CHECK_DEADLOCK FALSE
