---------------------------- MODULE MCLinearScan ----------------------------
(***************************************************************************)
(* Every sorted list of NumRanges ranges over the points 1..MaxPoint.      *)
(***************************************************************************)
EXTENDS LinearScan

CONSTANTS NumRanges, MaxPoint

Points == [1 .. NumRanges -> 1 .. MaxPoint]
Increasing == {f \in Points : \A i \in 2 .. NumRanges : f[i - 1] < f[i]}
NoEarlier(f) == {l \in Points : \A i \in 1 .. NumRanges : f[i] <= l[i]}

MixedRanges ==
  UNION {{[i \in 1 .. NumRanges |-> [first |-> f[i], last |-> l[i], pair |-> k[i]]] :
            l \in NoEarlier(f), k \in [1 .. NumRanges -> BOOLEAN]} : f \in Increasing}
=============================================================================
