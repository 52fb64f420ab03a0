------------------------- MODULE MCLowererRegisters -------------------------
(***************************************************************************)
(* Every pre-mapping of some of the virtual registers into a small file,   *)
(* pairs on even registers as the linear scan places them.                 *)
(***************************************************************************)
EXTENDS LowererRegisters

MCPreMappings ==
  {m \in UNION {[D -> 1 .. TempBase - 1] : D \in SUBSET Vregs} :
     \A v \in DOMAIN m \cap Pairs : m[v] % 2 = 0 /\ m[v] + 1 < TempBase}
=============================================================================
