-------------------------- MODULE LinearScanProofs --------------------------
(***************************************************************************)
(* For every register file and every sorted list of ranges: until the pair *)
(* fallback has put a register on the free list that was not free, ranges  *)
(* that overlap share no register.  The invariant keeps the registers on   *)
(* the free list and those of the active entries apart, and says that a    *)
(* range still alive where the current one begins holds all of its own.    *)
(* Then no register is missing: each is on the free list, held by an       *)
(* active entry, or on its way from one to the other, once.                *)
(*                                                                         *)
(* For every program laid out in order: the ranges the pass makes of it    *)
(* meet wherever a path writes one register while another is still to be   *)
(* read, so the scan keeps the two apart.  A path is followed down the     *)
(* text; where it goes up, it closes a loop, and the loops' span holds     *)
(* what lies between.                                                      *)
(***************************************************************************)
EXTENDS RegisterAllocation, NaturalOrder, SequenceTheorems

-----------------------------------------------------------------------------
(* Sequences. *)

Different(s) == \A i, j \in 1 .. Len(s) : s[i] = s[j] => i = j

\* An entry of a sequence is of its element type.
LEMMA ElementOf ==
  ASSUME NEW S, NEW s \in Seq(S), NEW i \in 1 .. Len(s)
  PROVE  s[i] \in S
  OBVIOUS

\* list.pop(i) removes one entry and keeps the others, in order.
LEMMA DropAtProps ==
  ASSUME NEW S, NEW s \in Seq(S), NEW i \in 1 .. Len(s)
  PROVE  /\ DropAt(s, i) \in Seq(S)
         /\ Len(DropAt(s, i)) = Len(s) - 1
         /\ \A k \in 1 .. Len(s) - 1 : DropAt(s, i)[k] = IF k < i THEN s[k] ELSE s[k + 1]
<1> DEFINE t == [k \in 1 .. Len(s) - 1 |-> IF k < i THEN s[k] ELSE s[k + 1]]
<1>1. Len(s) \in Nat /\ Len(s) - 1 \in Nat
  OBVIOUS
<1>2. \A k \in 1 .. Len(s) - 1 : (IF k < i THEN s[k] ELSE s[k + 1]) \in S
  BY <1>1
<1>3. t \in Seq(S)
  BY <1>1, <1>2
<1>4. Len(t) = Len(s) - 1
  BY <1>1, <1>3
<1> QED
  BY <1>3, <1>4 DEF DropAt

\* What is left of a sequence of different elements does not hold the one
\* removed.
LEMMA DropAtDifferent ==
  ASSUME NEW S, NEW s \in Seq(S), NEW i \in 1 .. Len(s), Different(s)
  PROVE  /\ Different(DropAt(s, i))
         /\ \A k \in 1 .. Len(DropAt(s, i)) :
              \E m \in 1 .. Len(s) : m # i /\ DropAt(s, i)[k] = s[m]
         /\ \A k \in 1 .. Len(DropAt(s, i)) : DropAt(s, i)[k] # s[i]
<1> DEFINE t == DropAt(s, i)
<1>1. /\ Len(s) \in Nat /\ Len(t) = Len(s) - 1
      /\ \A k \in 1 .. Len(t) : t[k] = IF k < i THEN s[k] ELSE s[k + 1]
  BY DropAtProps
<1> HIDE DEF t
<1>2. \A k \in 1 .. Len(t) : \E m \in 1 .. Len(s) : m # i /\ t[k] = s[m]
  BY <1>1
<1>3. \A k \in 1 .. Len(t) : t[k] # s[i]
  BY <1>2 DEF Different
<1>4. ASSUME NEW k \in 1 .. Len(t), NEW l \in 1 .. Len(t), t[k] = t[l] PROVE k = l
  <2>1. CASE k < i /\ l < i
    BY <2>1, <1>1, <1>4 DEF Different
  <2>2. CASE k < i /\ ~(l < i)
    BY <2>2, <1>1, <1>4 DEF Different
  <2>3. CASE ~(k < i) /\ l < i
    BY <2>3, <1>1, <1>4 DEF Different
  <2>4. CASE ~(k < i) /\ ~(l < i)
    <3>1. k + 1 \in 1 .. Len(s) /\ l + 1 \in 1 .. Len(s) /\ s[k + 1] = s[l + 1]
      BY <2>4, <1>1, <1>4
    <3> QED  BY <3>1 DEF Different
  <2> QED  BY <2>1, <2>2, <2>3, <2>4
<1> QED
  BY <1>2, <1>3, <1>4 DEF t, Different

\* The first of the entries of the free list that hold a given register.
LEMMA FirstEntry ==
  ASSUME NEW s, Len(s) \in Nat, NEW r, NEW h \in 1 .. Len(s), s[h] = r
  PROVE  \E k \in 1 .. Len(s) : s[k] = r /\ \A l \in 1 .. k - 1 : s[l] # r
<1> DEFINE K == {k \in 1 .. Len(s) : s[k] = r}
<1>1. K \in SUBSET Nat /\ K # {}
  OBVIOUS
<1>2. PICK m \in K : \A k \in K : m <= k
  BY <1>1, LeastElement
<1>3. ASSUME NEW l \in 1 .. m - 1 PROVE s[l] # r
  BY <1>2, <1>3
<1> QED
  BY <1>2, <1>3

\* Taking a pair removes two entries, the pair's registers when they differ.
LEMMA WithoutPairProps ==
  ASSUME NEW S, freeList \in Seq(S), NEW i \in PairEntries, S \subseteq Int
  PROVE  /\ WithoutPair(i) \in Seq(S)
         /\ Different(freeList) =>
              /\ Different(WithoutPair(i))
              /\ \A k \in 1 .. Len(WithoutPair(i)) :
                   /\ WithoutPair(i)[k] \in FreeRegisters
                   /\ WithoutPair(i)[k] \notin {freeList[i], freeList[i] + 1}
<1> DEFINE p == freeList[i]
           Foremost(k) == /\ freeList[k] = p + 1
                       /\ \A l \in 1 .. k - 1 : freeList[l] # p + 1
           j == CHOOSE k \in 1 .. Len(freeList) : Foremost(k)
           fl == freeList
<1> HIDE DEF j, Foremost
<1>1. i \in 1 .. Len(fl) /\ Len(fl) \in Nat /\ p \in Int
  <2>1. i \in 1 .. Len(fl)
    BY DEF PairEntries
  <2>2. Len(fl) \in Nat /\ fl[i] \in S
    BY <2>1
  <2> QED  BY <2>1, <2>2
<1>2. PICK h \in 1 .. Len(fl) : fl[h] = p + 1
  BY DEF PairEntries
<1>3. \E k \in 1 .. Len(fl) : Foremost(k)
  BY <1>1, <1>2, FirstEntry DEF Foremost
<1>4. j \in 1 .. Len(fl) /\ fl[j] = p + 1
  BY <1>3 DEF j, Foremost
<1>5. j # i
  BY <1>1, <1>4
<1>6. WithoutPair(i) = IF i > j THEN DropAt(DropAt(fl, i), j) ELSE DropAt(DropAt(fl, j), i)
  BY DEF WithoutPair, j, Foremost
<1>7. ASSUME NEW a \in 1 .. Len(fl), NEW b \in 1 .. Len(fl), b < a
      PROVE  /\ DropAt(DropAt(fl, a), b) \in Seq(S)
             /\ Different(fl) =>
                  /\ Different(DropAt(DropAt(fl, a), b))
                  /\ \A k \in 1 .. Len(DropAt(DropAt(fl, a), b)) :
                       /\ DropAt(DropAt(fl, a), b)[k] \in FreeRegisters
                       /\ DropAt(DropAt(fl, a), b)[k] \notin {fl[a], fl[b]}
  <2> DEFINE t == DropAt(fl, a)
             u == DropAt(t, b)
  <2>1. t \in Seq(S) /\ Len(t) = Len(fl) - 1 /\ b \in 1 .. Len(t) /\ t[b] = fl[b]
    <3>1. /\ t \in Seq(S) /\ Len(t) = Len(fl) - 1
          /\ \A k \in 1 .. Len(fl) - 1 : t[k] = IF k < a THEN fl[k] ELSE fl[k + 1]
      BY DropAtProps
    <3>2. b \in 1 .. Len(fl) - 1
      BY <1>7, <1>1
    <3> HIDE DEF t
    <3> QED  BY <3>1, <3>2, <1>7
  <2>2. u \in Seq(S)
    BY <2>1, DropAtProps
  <2>3. ASSUME Different(fl)
        PROVE  /\ Different(u)
               /\ \A k \in 1 .. Len(u) : u[k] \in FreeRegisters /\ u[k] \notin {fl[a], fl[b]}
    <3>1. /\ Different(t)
          /\ \A k \in 1 .. Len(t) : \E m \in 1 .. Len(fl) : t[k] = fl[m]
          /\ \A k \in 1 .. Len(t) : t[k] # fl[a]
      BY <2>3, DropAtDifferent
    <3> HIDE DEF t
    <3>2. /\ Different(u)
          /\ \A k \in 1 .. Len(u) : \E m \in 1 .. Len(t) : u[k] = t[m]
          /\ \A k \in 1 .. Len(u) : u[k] # t[b]
      BY <2>1, <3>1, DropAtDifferent
    <3> HIDE DEF u
    <3> QED  BY <3>1, <3>2, <2>1 DEF FreeRegisters
  <2> QED  BY <2>2, <2>3
<1>8. CASE i > j
  BY <1>8, <1>1, <1>4, <1>6, <1>7
<1>9. CASE ~(i > j)
  <2>1. i < j
    BY <1>9, <1>1, <1>4, <1>5
  <2> QED  BY <2>1, <1>9, <1>1, <1>4, <1>6, <1>7
<1> QED
  BY <1>8, <1>9

-----------------------------------------------------------------------------
(* The invariant. *)

\* The part of IInv that holds until the fallback releases a register.
Sound == Apart /\ AliveIsHeld /\ NoSharing /\ NoZero

\* The free list starts with R1 .. R(MaxGpr), each once.
LEMMA StartInv ==
  ASSUME ranges \in Seq(LiveRange), SortedRanges(ranges), Start
  PROVE  IInv
<1> USE MaxGprAssumption DEF Start
<1>1. ranges \in Seq(LiveRange) /\ SortedRanges(ranges)
  OBVIOUS
<1>2. Len(ranges) \in Nat
  BY <1>1
<1>3. freeList \in Seq(0 .. MaxGpr) /\ Len(freeList) = MaxGpr
  OBVIOUS
<1>4. TypeOK
  <2>1. cur \in 1 .. Len(ranges) + 1 /\ scan \in 1 .. Len(active) + 1
    BY <1>2
  <2>2. mapping \in [1 .. Len(ranges) -> {Unmapped} \cup 0 .. MaxGpr]
    OBVIOUS
  <2>3. active \in Seq(Nat \X (0 .. MaxGpr)) /\ stillActive \in Seq(Nat \X (0 .. MaxGpr))
    OBVIOUS
  <2> QED  BY <1>1, <1>3, <2>1, <2>2, <2>3 DEF TypeOK
<1>5. PhaseInv
  <2>1. ranges # << >> => Len(ranges) >= 1
    BY <1>1, <1>2
  <2> QED  BY <1>2, <2>1 DEF PhaseInv
<1>6. Apart
  BY <1>3 DEF Apart
<1>7. AliveIsHeld
  BY <1>2 DEF AliveIsHeld
<1>8. NoSharing
  BY DEF NoSharing, Registers
<1>9. NoZero
  BY <1>3 DEF NoZero
<1> QED
  BY <1>4, <1>5, <1>6, <1>7, <1>8, <1>9 DEF IInv

\* The scan starts in the invariant, whatever its input.
LEMMA InitInv == Init => IInv
BY StartInv, InputsAssumption DEF Init

\* Where the expiry stands, in terms of what the invariant says of its entry.
LEMMA EntryApart ==
  ASSUME TypeOK, Apart, NoZero, scan \in 1 .. Len(active)
  PROVE  /\ active[scan] \in Nat \X (0 .. MaxGpr)
         /\ active[scan][2] # 0 /\ active[scan][2] \in 0 .. MaxGpr
         /\ \A i \in 1 .. Len(freeList) : freeList[i] # active[scan][2]
         /\ \A i \in 1 .. Len(stillActive) : stillActive[i][2] # active[scan][2]
         /\ \A j \in scan + 1 .. Len(active) : active[j][2] # active[scan][2]
         /\ \A j \in scan + 1 .. Len(active) : j \in scan .. Len(active)
<1>1. scan \in Nat /\ Len(active) \in Nat /\ scan \in scan .. Len(active)
  BY DEF TypeOK
<1>2. active[scan] \in Nat \X (0 .. MaxGpr)
  BY DEF TypeOK
<1>3. \A j \in scan + 1 .. Len(active) : j \in scan .. Len(active) /\ j # scan
  BY <1>1
<1>4. active[scan][2] # 0
  BY DEF NoZero
<1>5. \A i \in 1 .. Len(freeList) : freeList[i] # active[scan][2]
  BY <1>1 DEF Apart
<1>6. \A i \in 1 .. Len(stillActive) : stillActive[i][2] # active[scan][2]
  BY <1>1 DEF Apart
<1>7. \A j \in scan + 1 .. Len(active) : active[j][2] # active[scan][2]
  BY <1>1, <1>3 DEF Apart
<1>8. active[scan][2] \in 0 .. MaxGpr
  BY <1>2
<1> QED
  BY <1>2, <1>3, <1>4, <1>5, <1>6, <1>7, <1>8

\* Appending an element that is not there keeps the elements different.
LEMMA AppendProps ==
  ASSUME NEW S, NEW s \in Seq(S), NEW x \in S
  PROVE  /\ Append(s, x) \in Seq(S) /\ Len(Append(s, x)) = Len(s) + 1 /\ Len(s) \in Nat
         /\ \A i \in 1 .. Len(s) : Append(s, x)[i] = s[i] /\ i \in 1 .. Len(s) + 1
         /\ Append(s, x)[Len(s) + 1] = x /\ Len(s) + 1 \in 1 .. Len(s) + 1
         /\ \A i \in 1 .. Len(s) + 1 : i \in 1 .. Len(s) \/ i = Len(s) + 1
  OBVIOUS

\* The expiry moves one entry: to the free list, or to the entries kept.
LEMMA ExpireEntryInv ==
  ASSUME IInv, ExpireEntry
  PROVE  IInv'
<1> DEFINE e == active[scan]
           r == active[scan][2]
           more == scan + 1 .. Len(active)
<1>1. /\ pc = "expire" /\ scan \in 1 .. Len(active) /\ scan' = scan + 1
      /\ UNCHANGED <<pc, ranges, cur, mapping, active, fellBack>>
      /\ active \in Seq(Nat \X (0 .. MaxGpr)) /\ stillActive \in Seq(Nat \X (0 .. MaxGpr))
      /\ freeList \in Seq(0 .. MaxGpr) /\ cur \in 1 .. Len(ranges)
      /\ ranges \in Seq(LiveRange) /\ SortedRanges(ranges)
  BY DEF ExpireEntry, IInv, TypeOK, PhaseInv
<1>2. e \in Nat \X (0 .. MaxGpr) /\ r \in 0 .. MaxGpr /\ e[1] \in Nat /\ Len(active) \in Nat
      /\ scan + 1 \in 1 .. Len(active) + 1
  BY <1>1
<1>3. PhaseInv'
  BY <1>1 DEF IInv, PhaseInv
<1>4. NoSharing => NoSharing'
  BY <1>1 DEF NoSharing, Registers, Overlap
<1>5. \A v : Registers(v)' = Registers(v)
  BY <1>1 DEF Registers
<1>6. ASSUME Sound
      PROVE  /\ \A i \in 1 .. Len(freeList) : freeList[i] # r
             /\ \A i \in 1 .. Len(stillActive) : stillActive[i][2] # r
             /\ \A j \in more : active[j][2] # r
             /\ \A j \in more : j \in scan .. Len(active)
             /\ r # 0
  BY <1>1, <1>6, EntryApart DEF Sound, IInv
<1>7. CASE e[1] < ranges[cur].first
  <2>1. freeList' = Append(freeList, r) /\ stillActive' = stillActive
    BY <1>1, <1>7 DEF ExpireEntry
  <2> DEFINE n == Len(freeList)
  <2>2. /\ freeList' \in Seq(0 .. MaxGpr) /\ Len(freeList') = n + 1 /\ n \in Nat
        /\ \A i \in 1 .. n : freeList'[i] = freeList[i]
        /\ freeList'[n + 1] = r
        /\ \A i \in 1 .. n + 1 : i \in 1 .. n \/ i = n + 1
    <3> HIDE DEF r
    <3>1. r \in 0 .. MaxGpr /\ freeList \in Seq(0 .. MaxGpr) /\ freeList' = Append(freeList, r)
      BY <1>1, <1>2, <2>1
    <3>2. /\ Append(freeList, r) \in Seq(0 .. MaxGpr) /\ Len(Append(freeList, r)) = n + 1
          /\ n \in Nat /\ Append(freeList, r)[n + 1] = r
          /\ \A i \in 1 .. n : Append(freeList, r)[i] = freeList[i]
      BY <3>1, AppendProps
    <3>3. \A i \in 1 .. n + 1 : i \in 1 .. n \/ i = n + 1
      BY <3>2
    <3> QED  BY <3>1, <3>2, <3>3
  <2>3. TypeOK'
    BY <1>1, <1>2, <2>1, <2>2 DEF IInv, TypeOK
  <2>4. ASSUME Sound PROVE Sound'
    <3> HIDE DEF r, more, n
    <3>1. \A i, j \in 1 .. Len(freeList') : freeList'[i] = freeList'[j] => i = j
      <4> SUFFICES ASSUME NEW i \in 1 .. n + 1, NEW j \in 1 .. n + 1, freeList'[i] = freeList'[j]
                   PROVE  i = j
        BY <2>2
      <4>1. \A k, l \in 1 .. n : freeList[k] = freeList[l] => k = l
        BY <2>4 DEF Sound, Apart, n
      <4>2. \A k \in 1 .. n : freeList[k] # r
        BY <1>6, <2>4 DEF n
      <4> QED  BY <4>1, <4>2, <2>2
    <3>2. \A i \in 1 .. Len(freeList'), j \in 1 .. Len(stillActive) :
            freeList'[i] # stillActive[j][2]
      <4> SUFFICES ASSUME NEW i \in 1 .. n + 1, NEW j \in 1 .. Len(stillActive)
                   PROVE  freeList'[i] # stillActive[j][2]
        BY <2>2
      <4>1. CASE i \in 1 .. n
        BY <4>1, <2>2, <2>4 DEF Sound, Apart, n
      <4>2. CASE i = n + 1
        BY <4>2, <2>2, <1>6, <2>4
      <4> QED  BY <4>1, <4>2, <2>2
    <3>3. \A i \in 1 .. Len(freeList'), j \in more : freeList'[i] # active[j][2]
      <4> SUFFICES ASSUME NEW i \in 1 .. n + 1, NEW j \in more
                   PROVE  freeList'[i] # active[j][2]
        BY <2>2
      <4>1. CASE i \in 1 .. n
        BY <4>1, <2>2, <2>4, <1>6 DEF Sound, Apart, n
      <4>2. CASE i = n + 1
        BY <4>2, <2>2, <1>6, <2>4
      <4> QED  BY <4>1, <4>2, <2>2
    <3>4. Apart'
      <4>1. \A i, j \in more : active[i][2] = active[j][2] => i = j
        BY <2>4, <1>6 DEF Sound, Apart
      <4>2. \A i \in 1 .. Len(stillActive), j \in more : stillActive[i][2] # active[j][2]
        BY <2>4, <1>6 DEF Sound, Apart
      <4>3. \A i, j \in 1 .. Len(stillActive) : stillActive[i][2] = stillActive[j][2] => i = j
        BY <2>4 DEF Sound, Apart
      <4> QED  BY <1>1, <2>1, <4>1, <4>2, <4>3, <3>1, <3>2, <3>3 DEF Apart, more
    <3>5. AliveIsHeld'
      <4> SUFFICES ASSUME NEW v \in 1 .. cur - 1, ranges[v].last >= ranges[cur].first,
                          NEW q \in Registers(v)
                   PROVE  HeldUntil(ranges[v].last, q)'
        BY <1>1, <1>5 DEF AliveIsHeld
      <4>1. HeldUntil(ranges[v].last, q)
        <5>1. AliveIsHeld
          BY <2>4 DEF Sound
        <5>2. cur <= Len(ranges)
          BY <1>1
        <5> QED  BY <5>1, <5>2 DEF AliveIsHeld
      <4>2. v \in 1 .. Len(ranges)
        BY <1>1
      <4>3. ranges[v] \in LiveRange /\ ranges[cur] \in LiveRange
        BY <1>1, <4>2
      <4>4. ranges[v].last \in Nat /\ ranges[cur].first \in Nat
        BY <4>3 DEF LiveRange
      <4>5. active[scan] # <<ranges[v].last, q>>
        BY <4>4, <1>7, <1>2
      <4>6. \A j \in scan .. Len(active) : j = scan \/ j \in scan + 1 .. Len(active)
        BY <1>1
      <4>7. \/ \E j \in 1 .. Len(stillActive) : stillActive[j] = <<ranges[v].last, q>>
            \/ \E j \in scan + 1 .. Len(active) : active[j] = <<ranges[v].last, q>>
        BY <4>1, <4>5, <4>6 DEF HeldUntil
      <4> QED  BY <4>7, <1>1, <2>1 DEF HeldUntil
    <3>6. NoZero'
      <4>1. \A i \in 1 .. n + 1 : freeList'[i] # 0
        BY <2>2, <2>4, <1>6 DEF Sound, NoZero, n
      <4> QED  BY <4>1, <1>1, <2>1, <2>2, <2>4 DEF Sound, NoZero
    <3> QED  BY <3>4, <3>5, <3>6, <1>4, <2>4 DEF Sound
  <2> QED
    BY <1>1, <1>3, <2>3, <2>4 DEF IInv, Sound
<1>8. CASE ~(e[1] < ranges[cur].first)
  <2>1. stillActive' = Append(stillActive, e) /\ freeList' = freeList
    BY <1>1, <1>8 DEF ExpireEntry
  <2> DEFINE n == Len(stillActive)
  <2>2. /\ stillActive' \in Seq(Nat \X (0 .. MaxGpr)) /\ Len(stillActive') = n + 1 /\ n \in Nat
        /\ \A i \in 1 .. n : stillActive'[i] = stillActive[i] /\ i \in 1 .. n + 1
        /\ stillActive'[n + 1] = e /\ n + 1 \in 1 .. n + 1
        /\ \A i \in 1 .. n + 1 : i \in 1 .. n \/ i = n + 1
    BY <1>1, <1>2, <2>1, AppendProps
  <2>3. TypeOK'
    BY <1>1, <1>2, <2>1, <2>2 DEF IInv, TypeOK
  <2>4. ASSUME Sound PROVE Sound'
    <3>0. stillActive'[n + 1][2] = r
      BY <2>2
    <3> HIDE DEF r, more, n, e
    <3>1. \A i, j \in 1 .. Len(stillActive') : stillActive'[i][2] = stillActive'[j][2] => i = j
      <4> SUFFICES ASSUME NEW i \in 1 .. n + 1, NEW j \in 1 .. n + 1,
                          stillActive'[i][2] = stillActive'[j][2]
                   PROVE  i = j
        BY <2>2
      <4>1. \A k, l \in 1 .. n : stillActive[k][2] = stillActive[l][2] => k = l
        BY <2>4 DEF Sound, Apart, n
      <4>2. \A k \in 1 .. n : stillActive[k][2] # r
        BY <1>6, <2>4 DEF n
      <4> QED  BY <4>1, <4>2, <2>2, <3>0
    <3>2. \A i \in 1 .. Len(freeList), j \in 1 .. Len(stillActive') :
            freeList[i] # stillActive'[j][2]
      <4> SUFFICES ASSUME NEW i \in 1 .. Len(freeList), NEW j \in 1 .. n + 1
                   PROVE  freeList[i] # stillActive'[j][2]
        BY <2>2
      <4>1. CASE j \in 1 .. n
        <5>1. stillActive'[j][2] = stillActive[j][2]
          BY <4>1, <2>2
        <5> QED  BY <4>1, <5>1, <2>4 DEF Sound, Apart, n
      <4>2. CASE j = n + 1
        BY <4>2, <3>0, <1>6, <2>4
      <4> QED  BY <4>1, <4>2, <2>2
    <3>3. \A i \in 1 .. Len(stillActive'), j \in more : stillActive'[i][2] # active[j][2]
      <4> SUFFICES ASSUME NEW i \in 1 .. n + 1, NEW j \in more
                   PROVE  stillActive'[i][2] # active[j][2]
        BY <2>2
      <4>1. CASE i \in 1 .. n
        <5>1. stillActive'[i][2] = stillActive[i][2]
          BY <4>1, <2>2
        <5> QED  BY <4>1, <5>1, <2>4, <1>6 DEF Sound, Apart, n
      <4>2. CASE i = n + 1
        BY <4>2, <3>0, <1>6, <2>4
      <4> QED  BY <4>1, <4>2, <2>2
    <3>4. Apart'
      <4>1. \A i, j \in more : active[i][2] = active[j][2] => i = j
        BY <2>4, <1>6 DEF Sound, Apart
      <4>2. \A i \in 1 .. Len(freeList), j \in more : freeList[i] # active[j][2]
        BY <2>4, <1>6 DEF Sound, Apart
      <4>3. \A i, j \in 1 .. Len(freeList) : freeList[i] = freeList[j] => i = j
        BY <2>4 DEF Sound, Apart
      <4> QED  BY <1>1, <2>1, <4>1, <4>2, <4>3, <3>1, <3>2, <3>3 DEF Apart, more
    <3>5. AliveIsHeld'
      <4> SUFFICES ASSUME NEW v \in 1 .. cur - 1, ranges[v].last >= ranges[cur].first,
                          NEW q \in Registers(v)
                   PROVE  HeldUntil(ranges[v].last, q)'
        BY <1>1, <1>5 DEF AliveIsHeld
      <4> DEFINE x == <<ranges[v].last, q>>
      <4>1. HeldUntil(ranges[v].last, q)
        <5>1. AliveIsHeld
          BY <2>4 DEF Sound
        <5>2. cur <= Len(ranges)
          BY <1>1
        <5> QED  BY <5>1, <5>2 DEF AliveIsHeld
      <4>2. \A j \in scan .. Len(active) : j = scan \/ j \in scan + 1 .. Len(active)
        BY <1>1
      <4> HIDE DEF x
      <4>3. CASE \E j \in 1 .. n : stillActive[j] = x
        <5>1. \E j \in 1 .. Len(stillActive') : stillActive'[j] = x
          BY <4>3, <2>2
        <5> QED  BY <5>1, <1>1 DEF HeldUntil, x
      <4>4. CASE \E j \in scan .. Len(active) : active[j] = x
        <5>1. CASE active[scan] = x
          <6>1. \E j \in 1 .. Len(stillActive') : stillActive'[j] = x
            BY <5>1, <2>2 DEF e
          <6> QED  BY <6>1, <1>1 DEF HeldUntil, x
        <5>2. CASE \E j \in scan + 1 .. Len(active) : active[j] = x
          BY <5>2, <1>1 DEF HeldUntil, x
        <5> QED  BY <4>4, <4>2, <5>1, <5>2
      <4> QED  BY <4>1, <4>3, <4>4 DEF HeldUntil, x, n
    <3>6. NoZero'
      <4>1. \A i \in 1 .. n + 1 : stillActive'[i][2] # 0
        BY <2>2, <3>0, <2>4, <1>6 DEF Sound, NoZero, n
      <4> QED  BY <4>1, <1>1, <2>1, <2>2, <2>4 DEF Sound, NoZero
    <3> QED  BY <3>4, <3>5, <3>6, <1>4, <2>4 DEF Sound
  <2> QED
    BY <1>1, <1>3, <2>3, <2>4 DEF IInv, Sound
<1> QED
  BY <1>7, <1>8

\* The expiry is over: every entry was released or kept, the kept ones are the
\* active list.
LEMMA ExpiryDoneInv ==
  ASSUME IInv, ExpiryDone
  PROVE  IInv'
<1>0. scan = Len(active) + 1 /\ Len(active) \in Nat
  <2>1. Len(active) \in Nat
    BY DEF IInv, TypeOK
  <2> QED  BY <2>1 DEF ExpiryDone, IInv, TypeOK
<1>1. /\ pc = "expire" /\ scan = Len(active) + 1 /\ Len(active) \in Nat
      /\ active' = stillActive /\ scan' = 1 /\ stillActive' = << >> /\ pc' = "assign"
      /\ UNCHANGED <<ranges, cur, mapping, freeList, fellBack>>
      /\ cur <= Len(ranges) /\ stillActive \in Seq(Nat \X (0 .. MaxGpr))
      /\ Len(stillActive) \in Nat
  BY <1>0 DEF ExpiryDone, IInv, TypeOK, PhaseInv
<1>2. TypeOK'
  <2>1. scan' \in 1 .. Len(active') + 1 /\ stillActive' \in Seq(Nat \X (0 .. MaxGpr))
    BY <1>1
  <2> QED  BY <1>1, <2>1 DEF IInv, TypeOK
<1>3. PhaseInv'
  BY <1>1 DEF IInv, PhaseInv
<1>4. ASSUME Sound PROVE Sound'
  <2>1. scan .. Len(active) = {} /\ scan' .. Len(active') = 1 .. Len(stillActive)
        /\ 1 .. Len(stillActive') = {}
    BY <1>1
  <2>2. Apart'
    BY <1>1, <2>1, <1>4 DEF Sound, Apart
  <2>3. AliveIsHeld'
    <3> SUFFICES ASSUME NEW v \in 1 .. cur - 1, ranges[v].last >= ranges[cur].first,
                        NEW r \in Registers(v)
                 PROVE  HeldUntil(ranges[v].last, r)'
      BY <1>1 DEF AliveIsHeld, Registers
    <3>1. HeldUntil(ranges[v].last, r)
      BY <1>1, <1>4 DEF Sound, AliveIsHeld
    <3> QED  BY <3>1, <2>1, <1>1 DEF HeldUntil
  <2>4. NoSharing' /\ NoZero'
    BY <1>1, <2>1, <1>4 DEF Sound, NoSharing, Registers, Overlap, NoZero
  <2> QED  BY <2>2, <2>3, <2>4 DEF Sound
<1> QED
  BY <1>1, <1>2, <1>3, <1>4 DEF IInv, Sound

-----------------------------------------------------------------------------
(* What the four assignments have in common. *)

Entries == Seq(Nat \X (0 .. MaxGpr))
Added == Len(active) + 1 .. Len(active')

\* The shape of an assignment: entries are added to the active list and the
\* mapping changes at the current range only.
Assigns ==
  /\ pc = "assign" /\ NextRange
  /\ mapping' \in [1 .. Len(ranges) -> {Unmapped} \cup 0 .. MaxGpr]
  /\ \A v \in 1 .. Len(ranges) : v # cur => mapping'[v] = mapping[v]
  /\ active' \in Entries /\ Len(active) <= Len(active')
  /\ \A i \in 1 .. Len(active) : active'[i] = active[i]
  /\ freeList' \in Seq(0 .. MaxGpr)
  /\ fellBack' \in BOOLEAN

\* The registers of the added entries come from the free list and leave it.
TakesFromFree ==
  /\ Different(freeList)'
  /\ FreeRegisters' \subseteq FreeRegisters
  /\ \A i \in Added : active'[i][2] \in FreeRegisters \ FreeRegisters'
  /\ \A i, j \in Added : active'[i][2] = active'[j][2] => i = j
  /\ \A v \in {cur} : \A r \in Registers(v)' :
       \E i \in Added : active'[i] = <<ranges[cur].last, r>>

\* Every assignment keeps the invariant's types and phases.
LEMMA AssignsTypes ==
  ASSUME IInv, Assigns
  PROVE  TypeOK' /\ PhaseInv'
<1>1. /\ cur \in 1 .. Len(ranges) /\ Len(ranges) \in Nat /\ scan = 1 /\ stillActive = << >>
      /\ cur' = cur + 1 /\ pc' = IF cur = Len(ranges) THEN "done" ELSE "expire"
      /\ UNCHANGED <<ranges, scan, stillActive>>
  BY DEF Assigns, IInv, TypeOK, PhaseInv, NextRange
<1>2. cur' \in 1 .. Len(ranges) + 1 /\ pc' \in {"expire", "assign", "done"}
  BY <1>1
<1>3. scan' \in 1 .. Len(active') + 1
  BY <1>1 DEF Assigns, Entries
<1>4. TypeOK'
  BY <1>1, <1>2, <1>3 DEF Assigns, Entries, IInv, TypeOK
<1>5. \A v \in cur' .. Len(ranges) : v \in cur .. Len(ranges) /\ v # cur /\ v \in 1 .. Len(ranges)
  BY <1>1
<1>6. PhaseInv'
  <2>1. pc' # "assign" /\ (pc' # "done" => cur' <= Len(ranges'))
    BY <1>1
  <2>2. \A v \in cur' .. Len(ranges') : mapping'[v] = Unmapped
    BY <1>1, <1>5 DEF Assigns, IInv, PhaseInv
  <2> QED  BY <2>1, <2>2 DEF PhaseInv
<1> QED
  BY <1>4, <1>6

\* An assignment that takes its registers from the free list is sound.
LEMMA AssignsSound ==
  ASSUME IInv, Sound, Assigns, TakesFromFree
  PROVE  Sound'
<1> DEFINE n == Len(active)
           m == Len(active')
<1>1. /\ cur \in 1 .. Len(ranges) /\ Len(ranges) \in Nat /\ scan = 1 /\ stillActive = << >>
      /\ cur' = cur + 1 /\ scan' = 1 /\ stillActive' = << >> /\ ranges' = ranges
      /\ ranges \in Seq(LiveRange) /\ SortedRanges(ranges)
      /\ n \in Nat /\ m \in Nat /\ n <= m
  BY DEF Assigns, IInv, TypeOK, PhaseInv, NextRange, Entries
<1>2. \A i \in 1 .. m : i \in 1 .. n \/ i \in Added
  BY <1>1 DEF Added
<1>3. \A i \in 1 .. n : i \in 1 .. m /\ active'[i] = active[i]
  BY <1>1 DEF Assigns
<1>4. \A i \in 1 .. n : active'[i][2] \notin FreeRegisters
  <2>1. \A i \in 1 .. n : active[i][2] \notin FreeRegisters
    BY <1>1 DEF Sound, Apart, FreeRegisters
  <2> QED  BY <2>1, <1>3
<1>5. \A i \in Added : i \in 1 .. m /\ active'[i][2] \in FreeRegisters /\ active'[i][2] \notin FreeRegisters'
  BY <1>1 DEF TakesFromFree, Added
<1>6. \A i \in 1 .. m : active'[i][2] \notin FreeRegisters'
  BY <1>2, <1>4, <1>5 DEF TakesFromFree
<1>7. \A i, j \in 1 .. m : active'[i][2] = active'[j][2] => i = j
  <2> SUFFICES ASSUME NEW i \in 1 .. m, NEW j \in 1 .. m, active'[i][2] = active'[j][2]
               PROVE  i = j
    OBVIOUS
  <2>1. CASE i \in 1 .. n /\ j \in 1 .. n
    <3>1. active[i][2] = active[j][2]
      BY <2>1, <1>3
    <3> QED  BY <3>1, <2>1, <1>1 DEF Sound, Apart
  <2>2. CASE i \in Added /\ j \in Added
    BY <2>2 DEF TakesFromFree
  <2>3. CASE i \in 1 .. n /\ j \in Added
    BY <2>3, <1>4, <1>5
  <2>4. CASE i \in Added /\ j \in 1 .. n
    BY <2>4, <1>4, <1>5
  <2> QED  BY <1>2, <2>1, <2>2, <2>3, <2>4
<1>8. Apart'
  <2>1. \A i \in 1 .. Len(freeList'), j \in 1 .. m : freeList'[i] # active'[j][2]
    BY <1>6 DEF FreeRegisters
  <2>2. \A i, j \in 1 .. Len(freeList') : freeList'[i] = freeList'[j] => i = j
    BY DEF TakesFromFree, Different
  <2>3. 1 .. Len(stillActive') = {} /\ scan' .. Len(active') = 1 .. m
    BY <1>1
  <2> QED  BY <1>7, <2>1, <2>2, <2>3 DEF Apart
<1>9. \A v \in 1 .. Len(ranges) : v # cur => Registers(v)' = Registers(v)
  BY <1>1 DEF Assigns, Registers
<1>10. \A v \in 1 .. cur - 1 : ranges[v].last >= ranges[cur].first =>
         \A r \in Registers(v) : \E j \in 1 .. n : active[j] = <<ranges[v].last, r>>
  <2>1. scan .. Len(active) = 1 .. n /\ 1 .. Len(stillActive) = {}
    BY <1>1
  <2>2. cur <= Len(ranges)
    BY <1>1
  <2> QED  BY <2>1, <2>2 DEF Sound, AliveIsHeld, HeldUntil
<1>11. AliveIsHeld'
  <2> SUFFICES ASSUME NEW v \in 1 .. cur, cur + 1 <= Len(ranges),
                      ranges[v].last >= ranges[cur + 1].first, NEW r \in Registers(v)'
               PROVE  \E j \in 1 .. m : active'[j] = <<ranges[v].last, r>>
    <3>1. cur' - 1 = cur /\ scan' .. Len(active') = 1 .. m /\ ranges' = ranges /\ cur' = cur + 1
      BY <1>1
    <3> QED  BY <3>1 DEF AliveIsHeld, HeldUntil
  <2>1. CASE v = cur
    BY <2>1, <1>5 DEF TakesFromFree
  <2>2. CASE v # cur
    <3>1. v \in 1 .. cur - 1 /\ v \in 1 .. Len(ranges) /\ cur + 1 \in 1 .. Len(ranges)
      BY <2>2, <1>1
    <3>2. ranges[v] \in LiveRange /\ ranges[cur] \in LiveRange /\ ranges[cur + 1] \in LiveRange
      BY <3>1, <1>1
    <3>3. ranges[cur].first < ranges[cur + 1].first
      BY <3>1, <1>1 DEF SortedRanges
    <3>4. ranges[v].last >= ranges[cur].first
      BY <3>2, <3>3 DEF LiveRange
    <3>5. r \in Registers(v)
      BY <3>1, <2>2, <1>9
    <3>6. PICK j \in 1 .. n : active[j] = <<ranges[v].last, r>>
      BY <3>1, <3>4, <3>5, <1>10
    <3> QED  BY <3>6, <1>3
  <2> QED  BY <2>1, <2>2
<1>12. \A v, w \in 1 .. Len(ranges) : v = cur /\ w # cur /\ Overlap(v, w)
          => Registers(v)' \cap Registers(w) = {}
  <2> SUFFICES ASSUME NEW v \in {cur}, NEW w \in 1 .. Len(ranges), w # cur, Overlap(v, w),
                      NEW r \in Registers(v)', r \in Registers(w)
               PROVE  FALSE
    OBVIOUS
  <2>1. r \in FreeRegisters
    BY <1>5 DEF TakesFromFree
  <2>2. w \notin cur .. Len(ranges)
    BY DEF IInv, PhaseInv, Registers
  <2>3. w \in 1 .. cur - 1
    BY <2>2, <1>1
  <2>4. ranges[w] \in LiveRange /\ ranges[cur] \in LiveRange
    BY <1>1
  <2>5. ranges[w].last >= ranges[cur].first
    BY <2>4 DEF Overlap, LiveRange
  <2>6. PICK j \in 1 .. n : active[j] = <<ranges[w].last, r>>
    BY <2>3, <2>5, <1>10
  <2>7. active'[j][2] = r
    BY <2>6, <1>3
  <2> QED  BY <2>1, <2>7, <1>4
<1>13. NoSharing'
  <2> SUFFICES ASSUME NEW v \in 1 .. Len(ranges), NEW w \in 1 .. Len(ranges), v # w, Overlap(v, w)
               PROVE  Registers(v)' \cap Registers(w)' = {}
    BY <1>1 DEF NoSharing, Overlap
  <2>1. CASE v # cur /\ w # cur
    BY <2>1, <1>9 DEF Sound, NoSharing
  <2>2. CASE v = cur
    BY <2>2, <1>9, <1>12
  <2>3. CASE w = cur
    <3>1. Overlap(cur, v)
      BY <2>3 DEF Overlap
    <3> QED  BY <2>3, <3>1, <1>9, <1>12
  <2> QED  BY <2>1, <2>2, <2>3
<1>14. NoZero'
  <2>1. 0 \notin FreeRegisters
    BY DEF Sound, NoZero, FreeRegisters
  <2>2. \A i \in 1 .. m : active'[i][2] # 0
    <3> SUFFICES ASSUME NEW i \in 1 .. m PROVE active'[i][2] # 0
      OBVIOUS
    <3>1. CASE i \in 1 .. n
      BY <3>1, <1>3 DEF Sound, NoZero
    <3>2. CASE i \in Added
      BY <3>2, <1>5, <2>1
    <3> QED  BY <3>1, <3>2, <1>2
  <2>3. \A i \in 1 .. Len(freeList') : freeList'[i] # 0
    BY <2>1 DEF TakesFromFree, FreeRegisters
  <2>4. 1 .. Len(stillActive') = {}
    BY <1>1
  <2> QED  BY <2>2, <2>3, <2>4 DEF NoZero
<1> QED
  BY <1>8, <1>11, <1>13, <1>14 DEF Sound
-----------------------------------------------------------------------------
(* The four assignments. *)

\* What every assignment starts from.
LEMMA AtAssign ==
  ASSUME IInv, pc = "assign"
  PROVE  /\ cur \in 1 .. Len(ranges) /\ Len(ranges) \in Nat
         /\ ranges[cur] \in LiveRange /\ ranges[cur].last \in Nat
         /\ ranges[cur].pair \in BOOLEAN
         /\ freeList \in Seq(0 .. MaxGpr) /\ Len(freeList) \in Nat
         /\ active \in Entries /\ Len(active) \in Nat
         /\ fellBack \in BOOLEAN
         /\ mapping \in [1 .. Len(ranges) -> {Unmapped} \cup 0 .. MaxGpr]
         /\ mapping[cur] = Unmapped
         /\ Sound => Different(freeList)
<1>1. cur \in 1 .. Len(ranges) /\ Len(ranges) \in Nat /\ cur \in cur .. Len(ranges)
  BY DEF IInv, TypeOK, PhaseInv
<1>2. ranges[cur] \in LiveRange
  BY <1>1 DEF IInv, TypeOK
<1>3. Sound => Different(freeList)
  BY DEF Sound, Apart, Different
<1> QED
  BY <1>1, <1>2, <1>3 DEF IInv, TypeOK, PhaseInv, LiveRange, Entries

\* The last entry, of an active list with one or two entries more.
LEMMA OneMore ==
  ASSUME NEW s \in Entries, NEW a \in Nat \X (0 .. MaxGpr)
  PROVE  /\ Append(s, a) \in Entries /\ Len(Append(s, a)) = Len(s) + 1
         /\ \A i \in 1 .. Len(s) : Append(s, a)[i] = s[i]
         /\ Append(s, a)[Len(s) + 1] = a
  BY DEF Entries

\* Appending the two halves of a pair to a list of entries.
LEMMA TwoMore ==
  ASSUME NEW s \in Entries, NEW a \in Nat \X (0 .. MaxGpr), NEW b \in Nat \X (0 .. MaxGpr)
  PROVE  /\ s \o <<a, b>> \in Entries /\ Len(s \o <<a, b>>) = Len(s) + 2
         /\ \A i \in 1 .. Len(s) : (s \o <<a, b>>)[i] = s[i]
         /\ (s \o <<a, b>>)[Len(s) + 1] = a /\ (s \o <<a, b>>)[Len(s) + 2] = b
<1>1. <<a, b>> \in Seq(Nat \X (0 .. MaxGpr)) /\ Len(<<a, b>>) = 2 /\ Len(s) \in Nat
  BY DEF Entries
<1> QED
  BY <1>1 DEF Entries

\* A single register is popped from the free list.
LEMMA AssignSingleInv ==
  ASSUME IInv, AssignSingle
  PROVE  IInv'
<1> DEFINE n == Len(freeList)
           phys == freeList[n]
           a == <<ranges[cur].last, phys>>
           l == Len(active)
<1>1. pc = "assign" /\ ~ranges[cur].pair /\ freeList # << >> /\ NextRange /\ fellBack' = fellBack
      /\ mapping' = [mapping EXCEPT ![cur] = phys]
      /\ active' = Append(active, a)
      /\ freeList' = DropAt(freeList, n)
  BY DEF AssignSingle
<1>2. n \in 1 .. n /\ phys \in 0 .. MaxGpr /\ a \in Nat \X (0 .. MaxGpr) /\ l \in Nat
  <2>1. n \in Nat /\ n # 0
    BY <1>1, AtAssign
  <2>2. n \in 1 .. n
    BY <2>1
  <2>3. freeList \in Seq(0 .. MaxGpr)
    BY <1>1, AtAssign
  <2>4. phys \in 0 .. MaxGpr
    BY <2>2, <2>3, ElementOf
  <2> HIDE DEF phys, n
  <2> QED  BY <2>2, <2>4, <1>1, AtAssign
<1>3. active' \in Entries /\ Len(active') = l + 1 /\ active'[l + 1] = a
      /\ \A i \in 1 .. l : active'[i] = active[i]
  <2> HIDE DEF a
  <2> QED  BY <1>1, <1>2, AtAssign, OneMore
<1>4. freeList' \in Seq(0 .. MaxGpr)
  BY <1>1, <1>2, AtAssign, DropAtProps
<1>5. Assigns
  <2>1. mapping' \in [1 .. Len(ranges) -> {Unmapped} \cup 0 .. MaxGpr]
    BY <1>1, <1>2, AtAssign
  <2>2. \A v \in 1 .. Len(ranges) : v # cur => mapping'[v] = mapping[v]
    BY <1>1, AtAssign
  <2>3. fellBack' \in BOOLEAN
    BY <1>1, AtAssign
  <2> HIDE DEF a, phys
  <2> QED  BY <2>1, <2>2, <2>3, <1>1, <1>2, <1>3, <1>4 DEF Assigns
<1>6. ASSUME Sound PROVE TakesFromFree
  <2>1. Different(freeList) /\ freeList \in Seq(0 .. MaxGpr)
    BY <1>6, <1>1, AtAssign
  <2>2. /\ Different(freeList')
        /\ \A k \in 1 .. Len(freeList') : \E j \in 1 .. n : freeList'[k] = freeList[j]
        /\ \A k \in 1 .. Len(freeList') : freeList'[k] # phys
    <3> HIDE DEF n
    <3>1. n \in 1 .. Len(freeList)
      BY <1>2 DEF n
    <3>2. /\ Different(DropAt(freeList, n))
          /\ \A k \in 1 .. Len(DropAt(freeList, n)) :
               \E q \in 1 .. Len(freeList) : q # n /\ DropAt(freeList, n)[k] = freeList[q]
          /\ \A k \in 1 .. Len(DropAt(freeList, n)) : DropAt(freeList, n)[k] # freeList[n]
      BY <2>1, <3>1, DropAtDifferent
    <3> QED  BY <1>1, <3>2 DEF n
  <2>3. Added = {l + 1}
    BY <1>2, <1>3 DEF Added
  <2>4. phys \in FreeRegisters
    BY <1>2 DEF FreeRegisters
  <2>5. active'[l + 1][2] = phys
    BY <1>3
  <2>6. \A v \in {cur} : Registers(v)' = {phys}
    <3>1. mapping'[cur] = phys /\ ranges' = ranges
      BY <1>1, AtAssign DEF NextRange
    <3>2. phys # Unmapped
      BY <1>2 DEF Unmapped
    <3> QED  BY <3>1, <3>2, <1>1 DEF Registers
  <2> HIDE DEF phys
  <2>7. FreeRegisters' \subseteq FreeRegisters /\ phys \notin FreeRegisters'
    BY <2>2 DEF FreeRegisters
  <2> QED  BY <2>2, <2>3, <2>4, <2>5, <2>6, <2>7, <1>3 DEF TakesFromFree, Different
<1> QED
  BY <1>1, <1>5, <1>6, AssignsTypes, AssignsSound DEF IInv, Sound

\* A pair takes an even register and its successor, both free.
LEMMA AssignPairInv ==
  ASSUME IInv, AssignPair
  PROVE  IInv'
<1>1. PICK i \in PairEntries :
        /\ mapping' = [mapping EXCEPT ![cur] = freeList[i]]
        /\ active' = active \o << <<ranges[cur].last, freeList[i]>>,
                                  <<ranges[cur].last, freeList[i] + 1>> >>
        /\ freeList' = WithoutPair(i)
  BY DEF AssignPair
<1> DEFINE p == freeList[i]
           a == <<ranges[cur].last, p>>
           b == <<ranges[cur].last, p + 1>>
           l == Len(active)
<1>2. pc = "assign" /\ ranges[cur].pair /\ NextRange /\ fellBack' = fellBack
  BY DEF AssignPair
<1>3. /\ p \in 0 .. MaxGpr /\ p + 1 \in 0 .. MaxGpr /\ l \in Nat
      /\ p \in FreeRegisters /\ p + 1 \in FreeRegisters
  <2>1. i \in 1 .. Len(freeList)
    BY DEF PairEntries
  <2>2. PICK j \in 1 .. Len(freeList) : freeList[j] = p + 1
    BY DEF PairEntries
  <2>0. freeList \in Seq(0 .. MaxGpr)
    BY <1>2, AtAssign
  <2>3. freeList[i] \in 0 .. MaxGpr /\ freeList[j] \in 0 .. MaxGpr
    BY <2>0, <2>1, <2>2, ElementOf
  <2> QED  BY <2>1, <2>2, <2>3, <1>2, AtAssign DEF FreeRegisters
<1>4. a \in Nat \X (0 .. MaxGpr) /\ b \in Nat \X (0 .. MaxGpr)
  <2> HIDE DEF p
  <2> QED  BY <1>2, <1>3, AtAssign
<1>5. /\ active' \in Entries /\ Len(active') = l + 2
      /\ active'[l + 1] = a /\ active'[l + 2] = b
      /\ \A k \in 1 .. l : active'[k] = active[k]
  <2>1. active' = active \o <<a, b>>
    BY <1>1
  <2> HIDE DEF a, b
  <2> QED  BY <2>1, <1>2, <1>4, AtAssign, TwoMore
<1>6. /\ freeList' \in Seq(0 .. MaxGpr)
      /\ Different(freeList) =>
           /\ Different(freeList')
           /\ \A k \in 1 .. Len(freeList') :
                freeList'[k] \in FreeRegisters /\ freeList'[k] \notin {p, p + 1}
  <2>1. freeList \in Seq(0 .. MaxGpr) /\ 0 .. MaxGpr \subseteq Int
    BY <1>2, AtAssign
  <2> QED  BY <2>1, <1>1, WithoutPairProps
<1>7. Assigns
  <2>1. mapping' \in [1 .. Len(ranges) -> {Unmapped} \cup 0 .. MaxGpr]
    BY <1>1, <1>2, <1>3, AtAssign
  <2>2. \A v \in 1 .. Len(ranges) : v # cur => mapping'[v] = mapping[v]
    BY <1>1, <1>2, AtAssign
  <2>3. fellBack' \in BOOLEAN
    BY <1>2, AtAssign
  <2>4. Len(active) <= Len(active')
    BY <1>3, <1>5
  <2> HIDE DEF p
  <2> QED  BY <2>1, <2>2, <2>3, <2>4, <1>2, <1>5, <1>6 DEF Assigns
<1>8. ASSUME Sound PROVE TakesFromFree
  <2>1. Different(freeList') /\ FreeRegisters' \subseteq FreeRegisters
        /\ p \notin FreeRegisters' /\ p + 1 \notin FreeRegisters'
    BY <1>8, <1>2, <1>6, AtAssign DEF FreeRegisters
  <2>2. Added = {l + 1, l + 2}
    BY <1>3, <1>5 DEF Added
  <2>3. active'[l + 1][2] = p /\ active'[l + 2][2] = p + 1
    BY <1>5
  <2>4. \A v \in {cur} : Registers(v)' = {p, p + 1}
    <3>1. mapping'[cur] = p /\ ranges' = ranges
      BY <1>1, <1>2, AtAssign DEF NextRange
    <3>2. p # Unmapped
      BY <1>3 DEF Unmapped
    <3> QED  BY <3>1, <3>2, <1>2 DEF Registers
  <2>5. p # p + 1
    BY <1>3
  <2> HIDE DEF p
  <2>6. \A x \in Added : active'[x][2] \in FreeRegisters \ FreeRegisters'
    BY <2>1, <2>2, <2>3, <1>3
  <2>7. \A x, y \in Added : active'[x][2] = active'[y][2] => x = y
    BY <2>2, <2>3, <2>5
  <2>8. \A v \in {cur} : \A r \in Registers(v)' : \E x \in Added : active'[x] = <<ranges[cur].last, r>>
    BY <2>2, <2>4, <1>5
  <2> QED  BY <2>1, <2>6, <2>7, <2>8 DEF TakesFromFree, Different
<1> QED
  BY <1>2, <1>7, <1>8, AssignsTypes, AssignsSound DEF IInv, Sound

\* Until the fallback has released a register, a search that assigns no pair has
\* found none: it leaves the free list as it was.
LEMMA AfterSearchProps ==
  ASSUME IInv, pc = "assign", NoPairAssigned
  PROVE  /\ AfterSearch \in Seq(0 .. MaxGpr)
         /\ Sound => AfterSearch = freeList
<1> DEFINE Top(i) == \A k \in PairEntries : k <= i
<1>1. PairEntries \subseteq 1 .. Len(freeList) /\ freeList \in Seq(0 .. MaxGpr)
      /\ Len(freeList) \in Nat
  BY AtAssign DEF PairEntries
<1>2. CASE PairEntries = {}
  BY <1>1, <1>2 DEF AfterSearch
<1>3. CASE PairEntries # {}
  <2>1. PICK i \in PairEntries : Top(i)
    <3>1. PairEntries \in SUBSET (0 .. Len(freeList))
      BY <1>1
    <3> QED  BY <1>1, <1>3, <3>1, GreatestElement
  <2>2. ~Sound
    <3>1. freeList[i] = 0 /\ i \in 1 .. Len(freeList)
      BY <2>1, <1>1 DEF NoPairAssigned
    <3> QED  BY <3>1 DEF Sound, NoZero
  <2> DEFINE c == CHOOSE x \in PairEntries : Top(x)
  <2>3. c \in PairEntries
    BY <2>1
  <2>4. AfterSearch = WithoutPair(c)
    BY <1>3 DEF AfterSearch
  <2> HIDE DEF c
  <2>5. 0 .. MaxGpr \subseteq Int
    BY MaxGprAssumption
  <2>6. WithoutPair(c) \in Seq(0 .. MaxGpr)
    BY <2>3, <2>5, <1>1, WithoutPairProps
  <2> QED  BY <2>2, <2>4, <2>6
<1> QED
  BY <1>2, <1>3

\* An assignment that changes nothing but the cursor, and may put back on the
\* free list what it has just taken off.
LEMMA AssignsNothing ==
  ASSUME IInv, Assigns, active' = active, mapping' = mapping, Sound, freeList' = freeList
  PROVE  TakesFromFree
<1>1. pc = "assign"
  BY DEF Assigns
<1>2. Added = {}
  BY <1>1, AtAssign DEF Added
<1>3. \A v \in {cur} : Registers(v)' = {}
  BY <1>1, AtAssign DEF Registers
<1>4. Different(freeList)
  BY <1>1, AtAssign
<1> QED
  BY <1>2, <1>3, <1>4 DEF TakesFromFree, Different, FreeRegisters

\* No register is left: the range stays unmapped.
LEMMA LeaveUnmappedInv ==
  ASSUME IInv, LeaveUnmapped
  PROVE  IInv'
<1>1. /\ pc = "assign" /\ NextRange
      /\ mapping' = mapping /\ active' = active /\ fellBack' = fellBack
      /\ freeList' = IF ranges[cur].pair THEN AfterSearch ELSE freeList
      /\ ranges[cur].pair => NoPairAssigned
  <2>1. pc = "assign"
    BY DEF LeaveUnmapped
  <2>2. ranges[cur].pair \in BOOLEAN
    BY <2>1, AtAssign
  <2>3. ranges[cur].pair => NoPairAssigned
    BY <2>2 DEF LeaveUnmapped
  <2> QED  BY <2>1, <2>3 DEF LeaveUnmapped
<1>2. freeList' \in Seq(0 .. MaxGpr) /\ (Sound => freeList' = freeList)
  <2>1. freeList \in Seq(0 .. MaxGpr)
    BY <1>1, AtAssign
  <2>2. CASE ranges[cur].pair
    <3>1. freeList' = AfterSearch /\ NoPairAssigned
      BY <1>1, <2>2
    <3>2. AfterSearch \in Seq(0 .. MaxGpr) /\ (Sound => AfterSearch = freeList)
      BY <1>1, <3>1, AfterSearchProps
    <3> QED  BY <3>1, <3>2
  <2>3. CASE ~ranges[cur].pair
    <3>1. freeList' = freeList
      BY <1>1, <2>3
    <3> QED  BY <3>1, <2>1
  <2> QED  BY <2>2, <2>3
<1>3. Assigns
  BY <1>1, <1>2, AtAssign DEF Assigns
<1> QED
  BY <1>1, <1>2, <1>3, AssignsTypes, AssignsSound, AssignsNothing DEF IInv, Sound

\* Putting the last entry back after it was popped changes nothing.
LEMMA PopPush ==
  ASSUME NEW S, NEW s \in Seq(S), s # << >>
  PROVE  Append(DropAt(s, Len(s)), s[Len(s)]) = s
<1> DEFINE n == Len(s)
           t == DropAt(s, n)
<1>1. n \in Nat /\ n \in 1 .. n /\ s[n] \in S
  <2>1. n \in Nat /\ n # 0
    OBVIOUS
  <2> QED  BY <2>1
<1>2. t \in Seq(S) /\ Len(t) = n - 1 /\ \A k \in 1 .. n - 1 : t[k] = IF k < n THEN s[k] ELSE s[k + 1]
  BY <1>1, DropAtProps
<1> HIDE DEF t
<1> DEFINE u == Append(t, s[n])
<1>3. u \in Seq(S) /\ Len(u) = n /\ u[n] = s[n] /\ \A k \in 1 .. n - 1 : u[k] = t[k]
  BY <1>1, <1>2
<1> HIDE DEF u
<1>4. \A k \in 1 .. n : u[k] = s[k]
  <2> SUFFICES ASSUME NEW k \in 1 .. n PROVE u[k] = s[k]
    OBVIOUS
  <2>1. CASE k = n
    BY <2>1, <1>3
  <2>2. CASE k \in 1 .. n - 1
    BY <2>2, <1>2, <1>3, <1>1
  <2> QED  BY <2>1, <2>2, <1>1
<1>5. u = s
  BY <1>3, <1>4
<1> QED
  BY <1>5 DEF u, t

\* The fallback either releases a register that was not free, and says so, or
\* puts back the one it popped.
LEMMA PairFallbackInv ==
  ASSUME IInv, PairFallback
  PROVE  IInv'
<1> DEFINE s == AfterSearch
           n == Len(s)
           top == s[n]
           phys == IF top % 2 = 1 THEN top - 1 ELSE top
           rest == DropAt(s, n)
           Foremost(k) == rest[k] = phys + 1 /\ \A l \in 1 .. k - 1 : rest[l] # phys + 1
           j == CHOOSE k \in 1 .. Len(rest) : Foremost(k)
           taken == phys > 0 /\ phys + 1 <= MaxGpr
           pair == << <<ranges[cur].last, phys>>, <<ranges[cur].last, phys + 1>> >>
<1>1. pc = "assign" /\ NextRange /\ n >= 2 /\ NoPairAssigned
  BY DEF PairFallback
<1>2. s \in Seq(0 .. MaxGpr) /\ (Sound => s = freeList)
  BY <1>1, AfterSearchProps
<1> HIDE DEF s
<1>3. n \in 1 .. n /\ top \in 0 .. MaxGpr /\ n \in Nat
  <2>1. n \in Nat
    BY <1>2
  <2>2. n \in 1 .. n
    BY <2>1, <1>1
  <2>3. s[n] \in 0 .. MaxGpr
    BY <2>2, <1>2, ElementOf
  <2> QED  BY <2>1, <2>2, <2>3
<1>4. phys \in 0 .. MaxGpr /\ phys \in Nat
  <2> HIDE DEF top
  <2>1. top % 2 = 1 => top # 0
    BY <1>3
  <2>2. top \in Nat /\ top <= MaxGpr /\ MaxGpr \in Nat
    BY <1>3, MaxGprAssumption
  <2>3. CASE top % 2 = 1
    BY <2>1, <2>2, <2>3
  <2>4. CASE top % 2 # 1
    BY <2>2, <2>4
  <2> QED  BY <2>3, <2>4
<1>5. rest \in Seq(0 .. MaxGpr) /\ Len(rest) = n - 1
  BY <1>2, <1>3, DropAtProps
<1>6. IF \E k \in 1 .. Len(rest) : rest[k] = phys + 1
      THEN /\ freeList' = DropAt(rest, j)
           /\ mapping' = IF taken THEN [mapping EXCEPT ![cur] = phys] ELSE mapping
           /\ active' = IF taken THEN active \o pair ELSE active
           /\ fellBack' = TRUE
      ELSE /\ freeList' = Append(rest, phys)
           /\ fellBack' = (fellBack \/ phys # top)
           /\ UNCHANGED <<mapping, active>>
  BY DEF PairFallback, s
<1> HIDE DEF rest, phys
<1>7. CASE \E k \in 1 .. Len(rest) : rest[k] = phys + 1
  <2>1. \E k \in 1 .. Len(rest) : Foremost(k)
    <3>1. PICK h \in 1 .. Len(rest) : rest[h] = phys + 1
      BY <1>7
    <3>2. Len(rest) \in Nat
      BY <1>3, <1>5
    <3> QED  BY <3>1, <3>2, FirstEntry
  <2>2. j \in 1 .. Len(rest)
    BY <2>1
  <2> HIDE DEF j
  <2>3. freeList' \in Seq(0 .. MaxGpr)
    BY <1>5, <1>6, <1>7, <2>2, DropAtProps
  <2>4. mapping' \in [1 .. Len(ranges) -> {Unmapped} \cup 0 .. MaxGpr]
        /\ \A v \in 1 .. Len(ranges) : v # cur => mapping'[v] = mapping[v]
    BY <1>1, <1>4, <1>6, <1>7, AtAssign
  <2>5. active' \in Entries /\ Len(active) <= Len(active')
        /\ \A i \in 1 .. Len(active) : active'[i] = active[i]
    <3>1. CASE taken
      <4>1. phys + 1 \in 0 .. MaxGpr
        BY <3>1, <1>4, MaxGprAssumption
      <4>2. <<ranges[cur].last, phys>> \in Nat \X (0 .. MaxGpr)
            /\ <<ranges[cur].last, phys + 1>> \in Nat \X (0 .. MaxGpr)
        BY <4>1, <1>1, <1>4, AtAssign
      <4>3. active' = active \o pair
        BY <3>1, <1>6, <1>7
      <4>4. active \in Entries /\ Len(active) \in Nat
        BY <1>1, AtAssign
      <4>5. /\ active \o pair \in Entries /\ Len(active \o pair) = Len(active) + 2
            /\ \A i \in 1 .. Len(active) : (active \o pair)[i] = active[i]
        BY <4>2, <4>4, TwoMore
      <4> HIDE DEF pair
      <4> QED  BY <4>3, <4>4, <4>5
    <3>2. CASE ~taken
      BY <3>2, <1>1, <1>6, <1>7, AtAssign
    <3> QED  BY <3>1, <3>2
  <2>6. fellBack' = TRUE
    BY <1>6, <1>7
  <2>7. Assigns
    BY <1>1, <2>3, <2>4, <2>5, <2>6 DEF Assigns
  <2> QED  BY <2>6, <2>7, AssignsTypes DEF IInv
<1>8. CASE ~(\E k \in 1 .. Len(rest) : rest[k] = phys + 1)
  <2>1. freeList' = Append(rest, phys) /\ fellBack' = (fellBack \/ phys # top)
        /\ mapping' = mapping /\ active' = active
    BY <1>6, <1>8
  <2>2. freeList' \in Seq(0 .. MaxGpr)
    BY <2>1, <1>4, <1>5
  <2>3. Assigns
    BY <1>1, <2>1, <2>2, AtAssign DEF Assigns
  <2>4. ASSUME Sound, ~fellBack' PROVE freeList' = freeList
    <3>1. s = freeList /\ phys = top
      BY <2>1, <2>4, <1>2
    <3>2. s # << >>
      BY <1>1, <1>2
    <3>3. Append(DropAt(s, Len(s)), s[Len(s)]) = s
      BY <3>2, <1>2, PopPush
    <3> QED  BY <2>1, <3>1, <3>3 DEF rest
  <2> QED  BY <2>1, <2>3, <2>4, AssignsTypes, AssignsSound, AssignsNothing DEF IInv, Sound
<1> QED
  BY <1>7, <1>8

-----------------------------------------------------------------------------
(* The theorems. *)

\* Every step of the scan keeps the invariant.
LEMMA NextInv ==
  ASSUME IInv, [Next]_vars
  PROVE  IInv'
<1>1. CASE UNCHANGED vars
  <2>1. UNCHANGED <<pc, ranges, cur, mapping, active, scan, stillActive, freeList, fellBack>>
    BY <1>1 DEF vars
  <2>2. TypeOK' /\ PhaseInv'
    BY <2>1 DEF IInv, TypeOK, PhaseInv
  <2>3. Apart => Apart'
    BY <2>1 DEF Apart
  <2>4. AliveIsHeld => AliveIsHeld'
    BY <2>1 DEF AliveIsHeld, HeldUntil, Registers
  <2>5. NoSharing => NoSharing'
    BY <2>1 DEF NoSharing, Registers, Overlap
  <2>6. NoZero => NoZero'
    BY <2>1 DEF NoZero
  <2> QED  BY <2>1, <2>2, <2>3, <2>4, <2>5, <2>6 DEF IInv
<1> QED
  BY <1>1, ExpireEntryInv, ExpiryDoneInv, AssignSingleInv, AssignPairInv,
     PairFallbackInv, LeaveUnmappedInv DEF Next

\* The invariant holds in every run, for every register file and every sorted
\* list of ranges.
THEOREM ScanInvariance == Spec => []IInv
<1>1. Init => IInv
  BY InitInv
<1>2. IInv /\ [Next]_vars => IInv'
  BY NextInv
<1> QED
  BY <1>1, <1>2, PTL DEF Spec

\* Ranges that overlap share no register, pair halves included, as long as the
\* fallback of lines 138-149 has not released a register it did not take.
THEOREM OverlappingRangesDoNotShare == Spec => []NoSharingBeforeFallback
<1>1. IInv => NoSharingBeforeFallback
  BY DEF IInv, NoSharingBeforeFallback
<1> QED
  BY <1>1, ScanInvariance, PTL

-----------------------------------------------------------------------------
(* No register is lost. *)

\* The registers of the entries the expiry has kept and has yet to look at.
Held == RegistersOf(stillActive) \cup {active[i][2] : i \in scan .. Len(active)}

CountInv ==
  /\ pc # "expire" => scan = 1 /\ stillActive = << >>
  /\ ~fellBack =>
       /\ Len(freeList) + Len(stillActive) + Len(active) + 1 = MaxGpr + scan
       /\ 1 .. MaxGpr \subseteq FreeRegisters \cup Held

\* Lengths and the index of the expiry are numbers.
LEMMA Lengths ==
  ASSUME TypeOK
  PROVE  /\ Len(freeList) \in Nat /\ Len(stillActive) \in Nat /\ Len(active) \in Nat
         /\ scan \in 1 .. Len(active) + 1 /\ MaxGpr \in Nat
BY MaxGprAssumption DEF TypeOK

-----------------------------------------------------------------------------
(* Taking entries off the free list leaves the others on it. *)

\* An entry other than the one dropped is still there.
LEMMA DropAtKeeps ==
  ASSUME NEW S, NEW s \in Seq(S), NEW i \in 1 .. Len(s), NEW m \in 1 .. Len(s), m # i
  PROVE  LET k == IF m < i THEN m ELSE m - 1
         IN  k \in 1 .. Len(DropAt(s, i)) /\ DropAt(s, i)[k] = s[m]
<1>1. /\ Len(s) \in Nat /\ Len(DropAt(s, i)) = Len(s) - 1
      /\ \A k \in 1 .. Len(s) - 1 : DropAt(s, i)[k] = IF k < i THEN s[k] ELSE s[k + 1]
  <2>1. Len(s) \in Nat
    OBVIOUS
  <2>2. /\ Len(DropAt(s, i)) = Len(s) - 1
        /\ \A k \in 1 .. Len(s) - 1 : DropAt(s, i)[k] = IF k < i THEN s[k] ELSE s[k + 1]
    BY DropAtProps, Zenon
  <2> QED  BY <2>1, <2>2
<1>2. CASE m < i
  BY <1>1, <1>2
<1>3. CASE m > i
  <2>1. m - 1 \in 1 .. Len(s) - 1 /\ ~(m - 1 < i)
    BY <1>1, <1>3
  <2> QED  BY <1>1, <1>3, <2>1
<1> QED  BY <1>1, <1>2, <1>3

\* Without a pair the list is two entries shorter, and has all the others.
LEMMA WithoutPairKeeps ==
  ASSUME NEW S, freeList \in Seq(S), NEW i \in PairEntries, S \subseteq Int
  PROVE  /\ Len(WithoutPair(i)) = Len(freeList) - 2
         /\ \A r \in FreeRegisters :
              \/ \E k \in 1 .. Len(WithoutPair(i)) : WithoutPair(i)[k] = r
              \/ r \in {freeList[i], freeList[i] + 1}
<1> DEFINE p == freeList[i]
           Foremost(k) == /\ freeList[k] = p + 1
                       /\ \A l \in 1 .. k - 1 : freeList[l] # p + 1
           j == CHOOSE k \in 1 .. Len(freeList) : Foremost(k)
           fl == freeList
<1> HIDE DEF j, Foremost
<1>1. i \in 1 .. Len(fl) /\ Len(fl) \in Nat /\ p \in Int
  <2>1. i \in 1 .. Len(fl)
    BY DEF PairEntries
  <2>2. Len(fl) \in Nat /\ fl[i] \in S
    BY <2>1
  <2> QED  BY <2>1, <2>2
<1>2. PICK h \in 1 .. Len(fl) : fl[h] = p + 1
  BY DEF PairEntries
<1>3. \E k \in 1 .. Len(fl) : Foremost(k)
  BY <1>1, <1>2, FirstEntry DEF Foremost
<1>4. j \in 1 .. Len(fl) /\ fl[j] = p + 1
  BY <1>3 DEF j, Foremost
<1>5. j # i
  BY <1>1, <1>4
<1>6. WithoutPair(i) = IF i > j THEN DropAt(DropAt(fl, i), j) ELSE DropAt(DropAt(fl, j), i)
  BY DEF WithoutPair, j, Foremost
<1>7. ASSUME NEW a \in 1 .. Len(fl), NEW b \in 1 .. Len(fl), b < a
      PROVE  /\ Len(DropAt(DropAt(fl, a), b)) = Len(fl) - 2
             /\ \A m \in 1 .. Len(fl) : m \notin {a, b} =>
                  \E k \in 1 .. Len(DropAt(DropAt(fl, a), b)) : DropAt(DropAt(fl, a), b)[k] = fl[m]
  <2> DEFINE t == DropAt(fl, a)
             u == DropAt(t, b)
  <2>1. t \in Seq(S) /\ Len(t) = Len(fl) - 1
    BY DropAtProps
  <2>2. b \in 1 .. Len(t)
    BY <1>1, <1>7, <2>1
  <2>3. Len(u) = Len(fl) - 2
    <3> HIDE DEF t
    <3>1. Len(u) = Len(t) - 1
      BY <2>1, <2>2, DropAtProps
    <3> HIDE DEF u
    <3> QED  BY <1>1, <2>1, <3>1
  <2>4. ASSUME NEW m \in 1 .. Len(fl), m \notin {a, b}
        PROVE  \E k \in 1 .. Len(u) : u[k] = fl[m]
    <3> DEFINE n == IF m < a THEN m ELSE m - 1
    <3>1. n \in 1 .. Len(t) /\ t[n] = fl[m]
      BY <2>4, DropAtKeeps
    <3>2. n # b
      BY <1>1, <1>7, <2>4
    <3> HIDE DEF n, t
    <3> DEFINE k == IF n < b THEN n ELSE n - 1
    <3>3. k \in 1 .. Len(u) /\ u[k] = t[n]
      BY <2>1, <2>2, <3>1, <3>2, DropAtKeeps
    <3> QED  BY <3>1, <3>3
  <2> QED  BY <2>3, <2>4
<1>8. \E a, b \in 1 .. Len(fl) :
        b < a /\ {a, b} = {i, j} /\ WithoutPair(i) = DropAt(DropAt(fl, a), b)
  <2>1. CASE i > j
    BY <1>1, <1>4, <1>6, <2>1
  <2>2. CASE j > i
    BY <1>1, <1>4, <1>6, <2>2
  <2>3. i > j \/ j > i
    BY <1>1, <1>4, <1>5
  <2> QED  BY <2>1, <2>2, <2>3
<1>9. PICK a \in 1 .. Len(fl), b \in 1 .. Len(fl) :
        b < a /\ {a, b} = {i, j} /\ WithoutPair(i) = DropAt(DropAt(fl, a), b)
  BY <1>8
<1>10. Len(WithoutPair(i)) = Len(fl) - 2
  BY <1>7, <1>9
<1>11. ASSUME NEW r \in FreeRegisters, r \notin {p, p + 1}
       PROVE  \E k \in 1 .. Len(WithoutPair(i)) : WithoutPair(i)[k] = r
  <2>1. PICK m \in 1 .. Len(fl) : fl[m] = r
    BY DEF FreeRegisters
  <2>2. m \notin {a, b}
    BY <1>4, <1>9, <1>11, <2>1
  <2> DEFINE u == DropAt(DropAt(fl, a), b)
  <2>3. \E k \in 1 .. Len(u) : u[k] = fl[m]
    BY <1>7, <1>9, <2>2
  <2>4. WithoutPair(i) = u
    BY <1>9
  <2> HIDE DEF u
  <2> QED  BY <2>1, <2>3, <2>4
<1> QED  BY <1>10, <1>11

-----------------------------------------------------------------------------
(* The invariant holds at the start, and every step keeps it. *)

\* At the start every register but R0 is free.
LEMMA CountAtStart == Init => CountInv
<1> SUFFICES ASSUME Init PROVE CountInv
  OBVIOUS
<1> USE MaxGprAssumption DEF Init, Start
<1>1. Len(freeList) = MaxGpr /\ Len(stillActive) = 0 /\ Len(active) = 0 /\ scan = 1
  OBVIOUS
<1>2. ASSUME NEW r \in 1 .. MaxGpr PROVE r \in FreeRegisters
  <2>1. MaxGpr + 1 - r \in 1 .. Len(freeList) /\ freeList[MaxGpr + 1 - r] = r
    BY <1>1
  <2> QED  BY <2>1 DEF FreeRegisters
<1> QED  BY <1>1, <1>2 DEF CountInv

\* An expired entry's register goes to the free list, any other is kept.
LEMMA ExpireEntryCount ==
  ASSUME IInv, CountInv, ExpireEntry
  PROVE  CountInv'
<1> DEFINE e == active[scan]
<1>1. /\ pc = "expire" /\ scan <= Len(active) /\ scan' = scan + 1
      /\ UNCHANGED <<pc, active, fellBack>>
      /\ \/ freeList' = Append(freeList, e[2]) /\ stillActive' = stillActive
         \/ stillActive' = Append(stillActive, e) /\ freeList' = freeList
  BY DEF ExpireEntry
<1>2. TypeOK /\ scan \in Nat /\ scan \in 1 .. Len(active)
  BY <1>1, Lengths DEF IInv
<1>3. /\ freeList \in Seq(0 .. MaxGpr) /\ stillActive \in Entries
      /\ e \in Nat \X (0 .. MaxGpr) /\ e[2] \in 0 .. MaxGpr
  <2>1. active \in Entries /\ freeList \in Seq(0 .. MaxGpr) /\ stillActive \in Entries
    BY <1>2 DEF TypeOK, Entries
  <2>2. e \in Nat \X (0 .. MaxGpr)
    BY <1>2, <2>1, ElementOf DEF Entries
  <2> QED  BY <2>1, <2>2
<1> HIDE DEF e
<1>4. ASSUME ~fellBack
      PROVE  /\ Len(freeList') + Len(stillActive') + Len(active) + 1 = MaxGpr + scan + 1
             /\ \A r \in FreeRegisters \cup Held : r \in FreeRegisters' \cup Held'
  <2>1. /\ Len(freeList) \in Nat /\ Len(stillActive) \in Nat /\ Len(active) \in Nat /\ MaxGpr \in Nat
        /\ Len(freeList) + Len(stillActive) + Len(active) + 1 = MaxGpr + scan
    BY <1>2, <1>4, Lengths DEF CountInv
  <2>2. ASSUME NEW r \in {active[i][2] : i \in scan .. Len(active)}
        PROVE  r = e[2] \/ r \in {active[i][2] : i \in scan + 1 .. Len(active)}
    BY <1>2, <2>1 DEF e
  <2>3. CASE freeList' = Append(freeList, e[2]) /\ stillActive' = stillActive
    <3>1. /\ Len(freeList') = Len(freeList) + 1
          /\ \A i \in 1 .. Len(freeList) : freeList'[i] = freeList[i] /\ i \in 1 .. Len(freeList) + 1
          /\ freeList'[Len(freeList) + 1] = e[2] /\ Len(freeList) + 1 \in 1 .. Len(freeList) + 1
      BY <1>3, <2>3, AppendProps
    <3>2. FreeRegisters \subseteq FreeRegisters' /\ e[2] \in FreeRegisters'
      BY <3>1 DEF FreeRegisters
    <3>3. RegistersOf(stillActive') = RegistersOf(stillActive)
      BY <2>3
    <3>4. Held' = RegistersOf(stillActive') \cup {active[i][2] : i \in scan + 1 .. Len(active)}
      BY <1>1 DEF Held, RegistersOf
    <3>5. \A r \in FreeRegisters \cup Held : r \in FreeRegisters' \cup Held'
      BY <2>2, <3>2, <3>3, <3>4 DEF Held
    <3> QED  BY <1>2, <2>1, <2>3, <3>1, <3>5
  <2>4. CASE stillActive' = Append(stillActive, e) /\ freeList' = freeList
    <3>1. /\ Len(stillActive') = Len(stillActive) + 1
          /\ \A i \in 1 .. Len(stillActive) :
               stillActive'[i] = stillActive[i] /\ i \in 1 .. Len(stillActive) + 1
          /\ stillActive'[Len(stillActive) + 1] = e /\ Len(stillActive) + 1 \in 1 .. Len(stillActive) + 1
      BY <1>3, <2>4, AppendProps DEF Entries
    <3>2. RegistersOf(stillActive) \subseteq RegistersOf(stillActive') /\ e[2] \in RegistersOf(stillActive')
      BY <3>1 DEF RegistersOf
    <3>3. FreeRegisters' = FreeRegisters
      BY <2>4 DEF FreeRegisters
    <3>4. Held' = RegistersOf(stillActive') \cup {active[i][2] : i \in scan + 1 .. Len(active)}
      BY <1>1 DEF Held, RegistersOf
    <3>5. \A r \in FreeRegisters \cup Held : r \in FreeRegisters' \cup Held'
      BY <2>2, <3>2, <3>3, <3>4 DEF Held
    <3> QED  BY <1>2, <2>1, <2>4, <3>1, <3>5
  <2> QED  BY <1>1, <2>3, <2>4
<1>5. ASSUME ~fellBack
      PROVE  /\ Len(freeList') + Len(stillActive') + Len(active') + 1 = MaxGpr + scan'
             /\ 1 .. MaxGpr \subseteq FreeRegisters' \cup Held'
  <2>1. Len(freeList') + Len(stillActive') + Len(active') + 1 = MaxGpr + scan + 1
    BY <1>1, <1>4, <1>5
  <2>2. MaxGpr + scan + 1 = MaxGpr + scan'
    BY <1>1, <1>2, Lengths
  <2>3. 1 .. MaxGpr \subseteq FreeRegisters \cup Held
    BY <1>5 DEF CountInv
  <2> QED  BY <1>4, <1>5, <2>1, <2>2, <2>3
<1> QED  BY <1>1, <1>5 DEF CountInv

\* The kept entries become the active ones.
LEMMA ExpiryDoneCount ==
  ASSUME IInv, CountInv, ExpiryDone
  PROVE  CountInv'
<1>1. /\ scan = Len(active) + 1 /\ active' = stillActive /\ scan' = 1 /\ stillActive' = << >>
      /\ UNCHANGED <<freeList, fellBack>>
  BY Lengths DEF ExpiryDone, IInv
<1>2. /\ Len(freeList) \in Nat /\ Len(stillActive) \in Nat /\ Len(active) \in Nat /\ MaxGpr \in Nat
      /\ Len(stillActive') = 0
  BY <1>1, Lengths DEF IInv
<1>3. scan .. Len(active) = {}
  BY <1>1, <1>2
<1>4. RegistersOf(stillActive) \subseteq Held' /\ FreeRegisters' = FreeRegisters
  BY <1>1 DEF Held, RegistersOf, FreeRegisters
<1>5. Held = RegistersOf(stillActive)
  BY <1>3 DEF Held
<1>6. ASSUME ~fellBack
      PROVE  /\ Len(freeList') + Len(stillActive') + Len(active') + 1 = MaxGpr + scan'
             /\ 1 .. MaxGpr \subseteq FreeRegisters' \cup Held'
  BY <1>1, <1>2, <1>4, <1>5, <1>6 DEF CountInv
<1> QED  BY <1>1, <1>6 DEF CountInv

\* An assignment keeps the invariant when what leaves the free list is held.
LEMMA AssignCount ==
  ASSUME IInv, CountInv, pc = "assign", NextRange,
         ~fellBack' =>
           /\ ~fellBack
           /\ Len(freeList') + Len(active') = Len(freeList) + Len(active)
           /\ Len(freeList') \in Nat /\ Len(active) <= Len(active') /\ Len(active') \in Nat
           /\ \A i \in 1 .. Len(active) : active'[i] = active[i]
           /\ \A r \in FreeRegisters : r \in FreeRegisters' \/ \E i \in 1 .. Len(active') : active'[i][2] = r
  PROVE  CountInv'
<1>1. scan = 1 /\ stillActive = << >> /\ scan' = 1 /\ stillActive' = << >>
  BY DEF IInv, PhaseInv, NextRange
<1>2. Len(freeList) \in Nat /\ Len(active) \in Nat /\ MaxGpr \in Nat /\ Len(stillActive) = 0 /\ Len(stillActive') = 0
  BY <1>1, Lengths DEF IInv
<1>3. RegistersOf(stillActive) = {} /\ Held = {active[i][2] : i \in 1 .. Len(active)}
  BY <1>1 DEF Held, RegistersOf
<1>4. {active'[i][2] : i \in 1 .. Len(active')} \subseteq Held'
  BY <1>1 DEF Held
<1>5. ASSUME ~fellBack'
      PROVE  /\ Len(freeList') + Len(stillActive') + Len(active') + 1 = MaxGpr + scan'
             /\ 1 .. MaxGpr \subseteq FreeRegisters' \cup Held'
  <2>1. Len(freeList) + Len(active) = MaxGpr /\ 1 .. MaxGpr \subseteq FreeRegisters \cup Held
    BY <1>1, <1>2, <1>5 DEF CountInv
  <2>2. \A i \in 1 .. Len(active) : active[i][2] \in {active'[k][2] : k \in 1 .. Len(active')}
    BY <1>2, <1>5
  <2>3. \A r \in Held : r \in Held'
    BY <1>3, <1>4, <2>2
  <2>4. \A r \in FreeRegisters : r \in FreeRegisters' \cup Held'
    BY <1>4, <1>5
  <2> QED  BY <1>1, <1>2, <1>5, <2>1, <2>3, <2>4
<1> QED  BY <1>1, <1>5 DEF CountInv

\* A single range takes one register off the free list.
LEMMA AssignSingleCount ==
  ASSUME IInv, CountInv, AssignSingle
  PROVE  CountInv'
<1> DEFINE n == Len(freeList)
           a == <<ranges[cur].last, freeList[n]>>
<1>1. /\ pc = "assign" /\ NextRange /\ fellBack' = fellBack /\ freeList # << >>
      /\ active' = Append(active, a) /\ freeList' = DropAt(freeList, n)
  BY DEF AssignSingle
<1>2. freeList \in Seq(0 .. MaxGpr) /\ active \in Entries /\ Len(active) \in Nat /\ ranges[cur].last \in Nat
  BY <1>1, AtAssign
<1>3. n \in Nat /\ n \in 1 .. n /\ freeList[n] \in 0 .. MaxGpr
  <2>1. n \in Nat /\ n # 0
    BY <1>1, <1>2
  <2>2. n \in 1 .. n
    BY <2>1
  <2>3. freeList[n] \in 0 .. MaxGpr
    BY <1>2, <2>2, ElementOf
  <2> QED  BY <2>1, <2>2, <2>3
<1>4. /\ Len(active') = Len(active) + 1 /\ \A i \in 1 .. Len(active) : active'[i] = active[i]
      /\ active'[Len(active) + 1] = a
  <2>1. a \in Nat \X (0 .. MaxGpr)
    BY <1>2, <1>3
  <2> HIDE DEF a
  <2> QED  BY <1>1, <1>2, <2>1, OneMore
<1>5. Len(freeList') = n - 1 /\ \A k \in 1 .. n - 1 : freeList'[k] = freeList[k]
  <2>1. /\ Len(freeList') = n - 1
        /\ \A k \in 1 .. n - 1 : freeList'[k] = IF k < n THEN freeList[k] ELSE freeList[k + 1]
    BY <1>1, <1>2, <1>3, DropAtProps
  <2> QED  BY <1>3, <2>1
<1>6. ASSUME NEW r \in FreeRegisters
      PROVE  r \in FreeRegisters' \/ \E i \in 1 .. Len(active') : active'[i][2] = r
  <2>1. PICK k \in 1 .. n : freeList[k] = r
    BY DEF FreeRegisters
  <2>2. CASE k = n
    BY <1>2, <1>4, <2>1, <2>2
  <2>3. CASE k \in 1 .. n - 1
    BY <1>5, <2>1, <2>3 DEF FreeRegisters
  <2> QED  BY <1>3, <2>2, <2>3
<1>7. Len(freeList') + Len(active') = n + Len(active) /\ Len(freeList') \in Nat /\ Len(active') \in Nat
      /\ Len(active) <= Len(active')
  BY <1>2, <1>3, <1>4, <1>5
<1> QED  BY <1>1, <1>4, <1>6, <1>7, AssignCount

\* A pair takes two.
LEMMA AssignPairCount ==
  ASSUME IInv, CountInv, AssignPair
  PROVE  CountInv'
<1>1. PICK i \in PairEntries :
        /\ active' = active \o << <<ranges[cur].last, freeList[i]>>,
                                  <<ranges[cur].last, freeList[i] + 1>> >>
        /\ freeList' = WithoutPair(i)
  BY DEF AssignPair
<1> DEFINE p == freeList[i]
           a == <<ranges[cur].last, p>>
           b == <<ranges[cur].last, p + 1>>
           l == Len(active)
<1>2. pc = "assign" /\ NextRange /\ fellBack' = fellBack
  BY DEF AssignPair
<1>3. /\ freeList \in Seq(0 .. MaxGpr) /\ active \in Entries /\ l \in Nat /\ ranges[cur].last \in Nat
      /\ Len(freeList) \in Nat
  BY <1>2, AtAssign
<1>4. i \in 1 .. Len(freeList) /\ p \in 0 .. MaxGpr /\ p + 1 \in 0 .. MaxGpr
  <2>1. i \in 1 .. Len(freeList)
    BY DEF PairEntries
  <2>2. PICK j \in 1 .. Len(freeList) : freeList[j] = p + 1
    BY DEF PairEntries
  <2>3. freeList[i] \in 0 .. MaxGpr /\ freeList[j] \in 0 .. MaxGpr
    BY <1>3, <2>1, <2>2, ElementOf
  <2> QED  BY <2>1, <2>2, <2>3
<1>5. /\ Len(active') = l + 2 /\ active'[l + 1] = a /\ active'[l + 2] = b
      /\ \A k \in 1 .. l : active'[k] = active[k]
  <2>1. active' = active \o <<a, b>>
    BY <1>1
  <2>2. a \in Nat \X (0 .. MaxGpr) /\ b \in Nat \X (0 .. MaxGpr)
    <3> HIDE DEF p
    <3> QED  BY <1>3, <1>4
  <2> HIDE DEF a, b
  <2> QED  BY <1>3, <2>1, <2>2, TwoMore
<1>6. /\ Len(freeList') = Len(freeList) - 2
      /\ \A r \in FreeRegisters : r \in FreeRegisters' \/ r \in {p, p + 1}
  <2>1. 0 .. MaxGpr \subseteq Int
    OBVIOUS
  <2>2. /\ Len(freeList') = Len(freeList) - 2
        /\ \A r \in FreeRegisters : (\E k \in 1 .. Len(freeList') : freeList'[k] = r) \/ r \in {p, p + 1}
    BY <1>1, <1>3, <2>1, WithoutPairKeeps
  <2> QED  BY <2>2 DEF FreeRegisters
<1>7. Len(freeList) >= 2
  <2>1. PICK j \in 1 .. Len(freeList) : freeList[j] = p + 1
    BY DEF PairEntries
  <2>2. i # j
    BY <1>4, <2>1
  <2> QED  BY <1>3, <1>4, <2>2
<1>8. ASSUME NEW r \in FreeRegisters
      PROVE  r \in FreeRegisters' \/ \E k \in 1 .. Len(active') : active'[k][2] = r
  <2>1. l + 1 \in 1 .. Len(active') /\ l + 2 \in 1 .. Len(active')
    BY <1>3, <1>5
  <2>2. active'[l + 1][2] = p /\ active'[l + 2][2] = p + 1
    BY <1>5
  <2> HIDE DEF p
  <2> QED  BY <1>6, <2>1, <2>2
<1>9. Len(freeList') + Len(active') = Len(freeList) + l /\ Len(freeList') \in Nat /\ Len(active') \in Nat
      /\ l <= Len(active')
  BY <1>3, <1>5, <1>6, <1>7
<1> QED  BY <1>2, <1>5, <1>8, <1>9, AssignCount

\* A step that takes nothing, or that makes fellBack true, keeps the count.
LEMMA NothingTaken ==
  ASSUME IInv, CountInv, pc = "assign", NextRange,
         ~fellBack' => ~fellBack /\ freeList' = freeList /\ active' = active
  PROVE  CountInv'
<1>1. Len(freeList) \in Nat /\ Len(active) \in Nat
  BY AtAssign
<1>2. ASSUME ~fellBack' PROVE FreeRegisters' = FreeRegisters
  BY <1>2 DEF FreeRegisters
<1> QED  BY <1>1, <1>2, AssignCount

\* A range left unmapped takes nothing.
LEMMA LeaveUnmappedCount ==
  ASSUME IInv, CountInv, LeaveUnmapped
  PROVE  CountInv'
<1>1. /\ pc = "assign" /\ NextRange /\ active' = active /\ fellBack' = fellBack
      /\ freeList' = IF ranges[cur].pair THEN AfterSearch ELSE freeList
  BY DEF LeaveUnmapped
<1>2. ASSUME ~fellBack PROVE freeList' = freeList
  <2>1. Sound
    BY <1>2 DEF IInv, Sound
  <2>2. CASE ranges[cur].pair
    <3>1. NoPairAssigned
      BY <2>2 DEF LeaveUnmapped
    <3>2. AfterSearch = freeList
      BY <1>1, <2>1, <3>1, AfterSearchProps
    <3> QED  BY <1>1, <2>2, <3>2
  <2>3. CASE ~ranges[cur].pair
    BY <1>1, <2>3
  <2> QED  BY <2>2, <2>3
<1> QED  BY <1>1, <1>2, NothingTaken

\* The fallback takes two registers it popped, or makes fellBack true.
LEMMA PairFallbackCount ==
  ASSUME IInv, CountInv, PairFallback
  PROVE  CountInv'
<1> DEFINE s == AfterSearch
           n == Len(s)
           top == s[n]
           phys == IF top % 2 = 1 THEN top - 1 ELSE top
           rest == DropAt(s, n)
<1>1. pc = "assign" /\ NextRange /\ n >= 2 /\ NoPairAssigned
  BY DEF PairFallback
<1>2. \/ fellBack' = TRUE
      \/ freeList' = Append(rest, phys) /\ fellBack' = (fellBack \/ phys # top) /\ active' = active
  BY DEF PairFallback
<1>3. s \in Seq(0 .. MaxGpr) /\ (Sound => s = freeList)
  BY <1>1, AfterSearchProps
<1> HIDE DEF s
<1>4. ASSUME ~fellBack'
      PROVE  ~fellBack /\ freeList' = freeList /\ active' = active
  <2>1. freeList' = Append(rest, phys) /\ active' = active /\ ~fellBack /\ phys = top
    BY <1>2, <1>4
  <2>2. s # << >>
    BY <1>1, <1>3
  <2>3. Append(DropAt(s, Len(s)), s[Len(s)]) = s
    BY <1>3, <2>2, PopPush
  <2>4. Sound
    BY <2>1 DEF IInv, Sound
  <2> HIDE DEF phys
  <2> QED  BY <1>3, <2>1, <2>3, <2>4
<1> QED  BY <1>1, <1>4, NothingTaken

\* Every step of the scan keeps the count.
LEMMA NextCount ==
  ASSUME IInv, CountInv, [Next]_vars
  PROVE  CountInv'
<1>1. CASE UNCHANGED vars
  <2>1. UNCHANGED <<pc, active, scan, stillActive, freeList, fellBack>>
    BY <1>1 DEF vars
  <2>2. FreeRegisters' = FreeRegisters /\ Held' = Held
    BY <2>1 DEF FreeRegisters, Held, RegistersOf
  <2> QED  BY <2>1, <2>2 DEF CountInv
<1> QED
  BY <1>1, ExpireEntryCount, ExpiryDoneCount, AssignSingleCount, AssignPairCount, PairFallbackCount,
     LeaveUnmappedCount DEF Next

-----------------------------------------------------------------------------
(* The theorems. *)

\* Counting registers and knowing where each is, is an invariant.
THEOREM CountInvariance == Spec => []CountInv
<1>1. Init => CountInv
  BY CountAtStart
<1>2. IInv /\ CountInv /\ [Next]_vars => CountInv'
  BY NextCount
<1> QED
  BY <1>1, <1>2, ScanInvariance, PTL DEF Spec

\* What is held, in the words of the property.
LEMMA HeldIsHeld ==
  ASSUME TypeOK, CountInv
  PROVE  LET held == IF pc = "expire" THEN stillActive \o Pending ELSE active
         IN  /\ Len(held) + scan = Len(stillActive) + Len(active) + 1
             /\ RegistersOf(held) = Held
<1>1. /\ Len(stillActive) \in Nat /\ Len(active) \in Nat /\ scan \in 1 .. Len(active) + 1
      /\ stillActive \in Entries /\ active \in Entries
  BY Lengths DEF TypeOK, Entries
<1>2. CASE pc # "expire"
  <2>1. scan = 1 /\ stillActive = << >>
    BY <1>2 DEF CountInv
  <2>2. RegistersOf(stillActive) = {} /\ Len(stillActive) = 0
    BY <2>1 DEF RegistersOf
  <2>3. RegistersOf(active) = Held
    BY <2>1, <2>2 DEF RegistersOf, Held
  <2> QED  BY <1>1, <1>2, <2>1, <2>2, <2>3
<1>3. CASE pc = "expire"
  <2> DEFINE u == Pending
             h == stillActive \o u
  <2>1. /\ u \in Entries /\ Len(u) = Len(active) - scan + 1
        /\ \A i \in 1 .. Len(u) : u[i] = active[scan + i - 1]
    BY <1>1 DEF Pending, Entries
  <2> HIDE DEF u
  <2>2. /\ Len(h) = Len(stillActive) + Len(u)
        /\ \A i \in 1 .. Len(stillActive) : h[i] = stillActive[i]
        /\ \A i \in 1 .. Len(u) : h[Len(stillActive) + i] = u[i]
    <3>1. /\ Len(h) = Len(stillActive) + Len(u)
          /\ \A i \in 1 .. Len(stillActive) + Len(u) :
               h[i] = IF i <= Len(stillActive) THEN stillActive[i] ELSE u[i - Len(stillActive)]
      BY <1>1, <2>1, ConcatProperties DEF Entries
    <3>2. Len(u) \in Nat
      BY <2>1 DEF Entries
    <3> HIDE DEF h
    <3>3. ASSUME NEW i \in 1 .. Len(u) PROVE h[Len(stillActive) + i] = u[i]
      <4>1. /\ Len(stillActive) + i \in 1 .. Len(stillActive) + Len(u)
            /\ ~(Len(stillActive) + i <= Len(stillActive)) /\ Len(stillActive) + i - Len(stillActive) = i
        BY <1>1, <3>2
      <4> QED  BY <3>1, <4>1
    <3>4. ASSUME NEW i \in 1 .. Len(stillActive) PROVE h[i] = stillActive[i]
      BY <1>1, <3>1, <3>2
    <3> QED  BY <3>1, <3>3, <3>4
  <2> HIDE DEF h
  <2>3. ASSUME NEW i \in 1 .. Len(h)
        PROVE  h[i][2] \in Held
    <3>1. CASE i <= Len(stillActive)
      BY <1>1, <2>2, <3>1 DEF Held, RegistersOf
    <3>2. CASE i > Len(stillActive)
      <4> DEFINE k == i - Len(stillActive)
      <4>1. k \in 1 .. Len(u) /\ i = Len(stillActive) + k
        BY <1>1, <2>1, <2>2, <3>2
      <4> HIDE DEF k
      <4>2. h[i] = u[k] /\ u[k] = active[scan + k - 1]
        BY <2>1, <2>2, <4>1
      <4>3. scan + k - 1 \in scan .. Len(active)
        BY <1>1, <2>1, <4>1
      <4> QED  BY <4>2, <4>3 DEF Held
    <3> QED  BY <1>1, <2>1, <2>2, <3>1, <3>2
  <2>4. ASSUME NEW r \in Held
        PROVE  r \in RegistersOf(h)
    <3>1. CASE r \in RegistersOf(stillActive)
      <4>1. PICK i \in 1 .. Len(stillActive) : stillActive[i][2] = r
        BY <3>1 DEF RegistersOf
      <4>2. i \in 1 .. Len(h) /\ h[i][2] = r
        BY <1>1, <2>1, <2>2, <4>1
      <4> QED  BY <4>2 DEF RegistersOf
    <3>2. CASE r \in {active[i][2] : i \in scan .. Len(active)}
      <4>1. PICK i \in scan .. Len(active) : active[i][2] = r
        BY <3>2
      <4> DEFINE k == i - scan + 1
      <4>2. k \in 1 .. Len(u) /\ i = scan + k - 1
        BY <1>1, <2>1
      <4> HIDE DEF k
      <4>3. Len(stillActive) + k \in 1 .. Len(h)
        BY <1>1, <2>1, <2>2, <4>2
      <4>4. h[Len(stillActive) + k] = u[k] /\ u[k] = active[i]
        BY <2>1, <2>2, <4>2
      <4> QED  BY <4>1, <4>3, <4>4 DEF RegistersOf
    <3> QED  BY <3>1, <3>2 DEF Held
  <2>5. RegistersOf(h) = Held
    BY <2>3, <2>4 DEF RegistersOf
  <2> QED  BY <1>1, <1>3, <2>1, <2>2, <2>5 DEF u, h
<1> QED  BY <1>2, <1>3

\* No register is lost or doubled until the fallback has released one: free and
\* held ones are together R1 .. R(MaxGpr), and as many.
THEOREM RegistersAreConserved == Spec => []Conserved
<1>1. IInv /\ CountInv => Conserved
  <2> SUFFICES ASSUME IInv, CountInv, ~fellBack PROVE Conserved
    BY DEF Conserved
  <2> DEFINE held == IF pc = "expire" THEN stillActive \o Pending ELSE active
  <2>1. Len(held) + scan = Len(stillActive) + Len(active) + 1 /\ RegistersOf(held) = Held
    BY HeldIsHeld DEF IInv
  <2>2. /\ Len(freeList) \in Nat /\ Len(stillActive) \in Nat /\ Len(active) \in Nat /\ MaxGpr \in Nat
        /\ scan \in Nat
    BY Lengths DEF IInv
  <2>3. Len(freeList) + Len(stillActive) + Len(active) + 1 = MaxGpr + scan
        /\ 1 .. MaxGpr \subseteq FreeRegisters \cup Held
    BY DEF CountInv
  <2>4. FreeRegisters \cup Held \subseteq 1 .. MaxGpr
    <3>1. freeList \in Seq(0 .. MaxGpr) /\ active \in Entries /\ stillActive \in Entries /\ NoZero
      BY DEF IInv, TypeOK, Entries
    <3>2. \A i \in 1 .. Len(freeList) : freeList[i] \in 0 .. MaxGpr /\ freeList[i] # 0
      BY <3>1, ElementOf DEF NoZero
    <3>3. \A i \in 1 .. Len(active) : active[i][2] \in 0 .. MaxGpr /\ active[i][2] # 0
      <4>1. \A i \in 1 .. Len(active) : active[i] \in Nat \X (0 .. MaxGpr)
        BY <3>1, ElementOf DEF Entries
      <4> QED  BY <3>1, <4>1 DEF NoZero
    <3>4. \A i \in 1 .. Len(stillActive) : stillActive[i][2] \in 0 .. MaxGpr /\ stillActive[i][2] # 0
      <4>1. \A i \in 1 .. Len(stillActive) : stillActive[i] \in Nat \X (0 .. MaxGpr)
        BY <3>1, ElementOf DEF Entries
      <4> QED  BY <3>1, <4>1 DEF NoZero
    <3>5. \A i \in scan .. Len(active) : i \in 1 .. Len(active)
      BY Lengths DEF IInv
    <3> QED  BY <2>2, <3>2, <3>3, <3>4, <3>5 DEF FreeRegisters, Held, RegistersOf
  <2> HIDE DEF held
  <2>5. Len(held) \in Int
    <3>1. CASE pc = "expire"
      BY <2>2, Lengths DEF held, Pending, IInv, TypeOK
    <3>2. CASE pc # "expire"
      BY <2>2, <3>2 DEF held
    <3> QED  BY <3>1, <3>2
  <2>6. Len(freeList) + Len(held) = MaxGpr
    BY <2>1, <2>2, <2>3, <2>5
  <2>7. FreeRegisters \cup RegistersOf(held) = 1 .. MaxGpr
    BY <2>1, <2>3, <2>4
  <2> QED  BY <2>6, <2>7 DEF Conserved, held
<1> QED  BY <1>1, ScanInvariance, CountInvariance, PTL

-----------------------------------------------------------------------------
(* Who holds a register.                                                   *)

\* An entry is a register of a range already allocated, until that range ends.
Owned(e) == \E w \in 1 .. cur - 1 : e[2] \in Registers(w) /\ ranges[w].last = e[1]

\* What the expiry keeps, and what is active when a register is assigned, belongs
\* to ranges that have not ended where the current one begins.
OwnedInv ==
  ~fellBack =>
    /\ \A i \in 1 .. Len(active) : Owned(active[i])
    /\ \A i \in 1 .. Len(stillActive) : Owned(stillActive[i]) /\ stillActive[i][1] >= ranges[cur].first
    /\ pc = "assign" => \A i \in 1 .. Len(active) : active[i][1] >= ranges[cur].first

\* An entry is kept because its range has not ended.
LEMMA ExpireEntryOwned ==
  ASSUME IInv, OwnedInv, ExpireEntry
  PROVE  OwnedInv'
<1> DEFINE e == active[scan]
<1>1. /\ pc = "expire" /\ scan <= Len(active) /\ UNCHANGED <<pc, ranges, cur, mapping, active, fellBack>>
      /\ \/ stillActive' = stillActive
         \/ stillActive' = Append(stillActive, e) /\ ~(e[1] < ranges[cur].first)
  BY DEF ExpireEntry
<1>2. /\ scan \in 1 .. Len(active) /\ stillActive \in Entries /\ active \in Entries
      /\ cur \in 1 .. Len(ranges) /\ ranges \in Seq(LiveRange)
  BY <1>1, Lengths DEF IInv, TypeOK, PhaseInv, Entries
<1>3. e \in Nat \X (0 .. MaxGpr) /\ ranges[cur].first \in Nat
  <2>1. active[scan] \in Nat \X (0 .. MaxGpr)
    BY <1>2 DEF Entries
  <2>2. ranges[cur] \in LiveRange
    BY <1>2
  <2> QED  BY <2>1, <2>2 DEF LiveRange
<1>4. \A x : Owned(x)' <=> Owned(x)
  BY <1>1 DEF Owned, Registers
<1>5. ASSUME ~fellBack, NEW i \in 1 .. Len(stillActive')
      PROVE  Owned(stillActive'[i]) /\ stillActive'[i][1] >= ranges[cur].first
  <2>1. \A k \in 1 .. Len(stillActive) : Owned(stillActive[k]) /\ stillActive[k][1] >= ranges[cur].first
    BY <1>5 DEF OwnedInv
  <2>2. CASE stillActive' = stillActive
    BY <1>5, <2>1, <2>2
  <2>3. CASE stillActive' = Append(stillActive, e) /\ ~(e[1] < ranges[cur].first)
    <3>1. Owned(e) /\ e[1] >= ranges[cur].first
      BY <1>2, <1>3, <1>5, <2>3 DEF OwnedInv
    <3>2. \/ i \in 1 .. Len(stillActive) /\ stillActive'[i] = stillActive[i]
          \/ stillActive'[i] = e
      <4> HIDE DEF e
      <4> QED  BY <1>2, <1>3, <1>5, <2>3, AppendProps DEF Entries
    <3> HIDE DEF e
    <3> QED  BY <2>1, <3>1, <3>2
  <2> QED  BY <1>1, <2>2, <2>3
<1>6. ASSUME ~fellBack, NEW i \in 1 .. Len(active) PROVE Owned(active[i])
  BY <1>6 DEF OwnedInv
<1> QED  BY <1>1, <1>4, <1>5, <1>6 DEF OwnedInv

\* The kept entries become the active ones.
LEMMA ExpiryDoneOwned ==
  ASSUME IInv, OwnedInv, ExpiryDone
  PROVE  OwnedInv'
<1>1. /\ active' = stillActive /\ stillActive' = << >>
      /\ UNCHANGED <<ranges, cur, mapping, fellBack>>
  BY DEF ExpiryDone
<1>2. \A x : Owned(x)' <=> Owned(x)
  BY <1>1 DEF Owned, Registers
<1> QED  BY <1>1, <1>2 DEF OwnedInv

\* An assignment keeps that when what becomes active is what the range takes.
LEMMA AssignOwned ==
  ASSUME IInv, OwnedInv, pc = "assign", NextRange,
         ~fellBack' =>
           /\ ~fellBack
           /\ \A v \in 1 .. Len(ranges) : v # cur => mapping'[v] = mapping[v]
           /\ \A v \in {cur}, i \in 1 .. Len(active') :
                \/ i \in 1 .. Len(active) /\ active'[i] = active[i]
                \/ active'[i][1] = ranges[v].last /\ active'[i][2] \in Registers(v)'
  PROVE  OwnedInv'
<1>1. /\ stillActive' = << >> /\ cur' = cur + 1 /\ ranges' = ranges /\ pc' # "assign"
      /\ cur \in 1 .. Len(ranges) /\ Len(ranges) \in Nat
  BY AtAssign DEF IInv, PhaseInv, NextRange
<1>2. ASSUME ~fellBack', NEW i \in 1 .. Len(active') PROVE Owned(active[i])'
  <2>1. CASE i \in 1 .. Len(active) /\ active'[i] = active[i]
    <3>1. PICK w \in 1 .. cur - 1 : active[i][2] \in Registers(w) /\ ranges[w].last = active[i][1]
      BY <1>2, <2>1 DEF OwnedInv, Owned
    <3>2. w \in 1 .. cur' - 1 /\ w \in 1 .. Len(ranges) /\ w # cur
      BY <1>1
    <3>3. Registers(w)' = Registers(w)
      BY <1>1, <1>2, <3>2 DEF Registers
    <3> QED  BY <1>1, <2>1, <3>1, <3>2, <3>3 DEF Owned
  <2>2. CASE ~(i \in 1 .. Len(active) /\ active'[i] = active[i])
    <3>1. \A v \in {cur} : /\ active'[i][1] = ranges'[v].last /\ active'[i][2] \in Registers(v)'
                           /\ v \in 1 .. cur' - 1
      BY <1>1, <1>2, <2>2
    <3> QED  BY <3>1 DEF Owned
  <2> QED  BY <2>1, <2>2
<1> QED  BY <1>1, <1>2 DEF OwnedInv

\* A single range takes the register that becomes active.
LEMMA AssignSingleOwned ==
  ASSUME IInv, OwnedInv, AssignSingle
  PROVE  OwnedInv'
<1> DEFINE n == Len(freeList)
           phys == freeList[n]
           a == <<ranges[cur].last, phys>>
<1>1. /\ pc = "assign" /\ NextRange /\ fellBack' = fellBack /\ ~ranges[cur].pair /\ freeList # << >>
      /\ mapping' = [mapping EXCEPT ![cur] = phys] /\ active' = Append(active, a)
  BY DEF AssignSingle
<1>2. phys \in 0 .. MaxGpr
  <2>1. n \in Nat /\ n # 0 /\ freeList \in Seq(0 .. MaxGpr)
    BY <1>1, AtAssign
  <2>2. n \in 1 .. Len(freeList)
    BY <2>1
  <2> QED  BY <2>1, <2>2, ElementOf
<1> HIDE DEF phys
<1>3. /\ Len(active') = Len(active) + 1 /\ Len(active) \in Nat
      /\ \A i \in 1 .. Len(active) : active'[i] = active[i]
      /\ active'[Len(active) + 1] = a
  <2>1. a \in Nat \X (0 .. MaxGpr) /\ active \in Entries /\ Len(active) \in Nat
    BY <1>1, <1>2, AtAssign
  <2> HIDE DEF a
  <2> QED  BY <1>1, <2>1, OneMore
<1>4. \A v \in {cur} : phys \in Registers(v)'
  <2>1. mapping'[cur] = phys /\ ranges' = ranges /\ phys # Unmapped
    BY <1>1, <1>2, AtAssign DEF NextRange, Unmapped
  <2> QED  BY <1>1, <2>1 DEF Registers
<1>5. \A v \in 1 .. Len(ranges) : v # cur => mapping'[v] = mapping[v]
  BY <1>1, AtAssign
<1>6. \A i \in 1 .. Len(active') : i \in 1 .. Len(active) \/ i = Len(active) + 1
  BY <1>3
<1>7. a[1] = ranges[cur].last /\ a[2] = phys
  OBVIOUS
<1> HIDE DEF a
<1> QED  BY <1>1, <1>3, <1>4, <1>5, <1>6, <1>7, AssignOwned, AtAssign

\* A pair takes the two that become active.
LEMMA AssignPairOwned ==
  ASSUME IInv, OwnedInv, AssignPair
  PROVE  OwnedInv'
<1>1. PICK i \in PairEntries :
        /\ mapping' = [mapping EXCEPT ![cur] = freeList[i]]
        /\ active' = active \o << <<ranges[cur].last, freeList[i]>>,
                                  <<ranges[cur].last, freeList[i] + 1>> >>
  BY DEF AssignPair
<1> DEFINE p == freeList[i]
           a == <<ranges[cur].last, p>>
           b == <<ranges[cur].last, p + 1>>
           l == Len(active)
<1>2. pc = "assign" /\ NextRange /\ fellBack' = fellBack /\ ranges[cur].pair
  BY DEF AssignPair
<1>3. p \in 0 .. MaxGpr /\ p + 1 \in 0 .. MaxGpr
  <2>1. i \in 1 .. Len(freeList) /\ freeList \in Seq(0 .. MaxGpr)
    BY <1>2, AtAssign DEF PairEntries
  <2>2. PICK j \in 1 .. Len(freeList) : freeList[j] = p + 1
    BY DEF PairEntries
  <2> QED  BY <2>1, <2>2, ElementOf
<1>4. /\ Len(active') = l + 2 /\ active'[l + 1] = a /\ active'[l + 2] = b /\ l \in Nat
      /\ \A k \in 1 .. l : active'[k] = active[k]
  <2>1. active' = active \o <<a, b>> /\ active \in Entries /\ l \in Nat /\ ranges[cur].last \in Nat
    BY <1>1, <1>2, AtAssign
  <2>2. a \in Nat \X (0 .. MaxGpr) /\ b \in Nat \X (0 .. MaxGpr)
    <3> HIDE DEF p
    <3> QED  BY <1>3, <2>1
  <2> HIDE DEF a, b
  <2> QED  BY <2>1, <2>2, TwoMore
<1>5. \A v \in {cur} : p \in Registers(v)' /\ p + 1 \in Registers(v)'
  <2>1. mapping'[cur] = p /\ ranges' = ranges
    BY <1>1, <1>2, AtAssign DEF NextRange
  <2>2. p # Unmapped
    BY <1>3 DEF Unmapped
  <2> HIDE DEF p
  <2> QED  BY <1>2, <2>1, <2>2 DEF Registers
<1>6. \A v \in 1 .. Len(ranges) : v # cur => mapping'[v] = mapping[v]
  BY <1>1, <1>2, AtAssign
<1>7. \A k \in 1 .. Len(active') : k \in 1 .. l \/ k = l + 1 \/ k = l + 2
  BY <1>4
<1>8. a[1] = ranges[cur].last /\ a[2] = p /\ b[1] = ranges[cur].last /\ b[2] = p + 1
  OBVIOUS
<1> HIDE DEF a, b, p
<1>9. \A v \in {cur}, k \in 1 .. Len(active') :
        \/ k \in 1 .. Len(active) /\ active'[k] = active[k]
        \/ active'[k][1] = ranges[v].last /\ active'[k][2] \in Registers(v)'
  BY <1>4, <1>5, <1>7, <1>8
<1>10. ~fellBack' => ~fellBack
  BY <1>2
<1> QED  BY <1>2, <1>6, <1>9, <1>10, AssignOwned

\* A step that takes nothing, or that makes fellBack true, keeps it.
LEMMA NothingOwned ==
  ASSUME IInv, OwnedInv, pc = "assign", NextRange,
         ~fellBack' => ~fellBack /\ mapping' = mapping /\ active' = active
  PROVE  OwnedInv'
BY AssignOwned

\* Every step of the scan keeps it.
LEMMA NextOwned ==
  ASSUME IInv, OwnedInv, [Next]_vars
  PROVE  OwnedInv'
<1>1. CASE UNCHANGED vars
  <2>1. UNCHANGED <<pc, ranges, cur, mapping, active, stillActive, fellBack>>
    BY <1>1 DEF vars
  <2>2. \A x : Owned(x)' <=> Owned(x)
    BY <2>1 DEF Owned, Registers
  <2> QED  BY <2>1, <2>2 DEF OwnedInv
<1>2. CASE PairFallback
  <2>1. pc = "assign" /\ NextRange
    BY <1>2 DEF PairFallback
  <2>2. ~fellBack' => ~fellBack /\ mapping' = mapping /\ active' = active
    BY <1>2 DEF PairFallback
  <2> QED  BY <2>1, <2>2, NothingOwned
<1>3. CASE LeaveUnmapped
  <2>1. pc = "assign" /\ NextRange /\ mapping' = mapping /\ active' = active /\ fellBack' = fellBack
    BY <1>3 DEF LeaveUnmapped
  <2> QED  BY <2>1, NothingOwned
<1> QED
  BY <1>1, <1>2, <1>3, ExpireEntryOwned, ExpiryDoneOwned, AssignSingleOwned, AssignPairOwned DEF Next

\* Every entry of the active list belongs to a range, in every run.
THEOREM OwnedInvariance == Spec => []OwnedInv
<1>1. Init => OwnedInv
  BY DEF Init, Start, OwnedInv
<1>2. IInv /\ OwnedInv /\ [Next]_vars => OwnedInv'
  BY NextOwned
<1> QED  BY <1>1, <1>2, ScanInvariance, PTL DEF Spec

\* A register that is not free when a register is assigned is one of a range that
\* has not ended.
LEMMA NotFreeIsAlive ==
  ASSUME IInv, CountInv, OwnedInv, pc = "assign", ~fellBack, NEW r \in 1 .. MaxGpr, r \notin FreeRegisters
  PROVE  r \in AliveRegisters(cur)
<1>1. scan = 1 /\ stillActive = << >>
  BY DEF CountInv
<1>2. Held = {active[i][2] : i \in 1 .. Len(active)}
  BY <1>1 DEF Held, RegistersOf
<1>3. PICK i \in 1 .. Len(active) : active[i][2] = r
  BY <1>2 DEF CountInv
<1>4. active[i][1] >= ranges[cur].first /\ Owned(active[i])
  BY DEF OwnedInv
<1> QED  BY <1>3, <1>4 DEF Owned, AliveRegisters

\* A range of one register stays unmapped (line 151) only when all
\* MaxGpr registers belong to ranges that have begun and not ended, as long as
\* the pair fallback has not released a register.
THEOREM UnmappedMeansExhausted == Spec => UnmappedOnlyUnderPressure
<1>1. IInv /\ CountInv /\ OwnedInv /\ [Next]_vars
        => [\A v \in 1 .. Len(ranges) :
              /\ v = cur /\ pc = "assign" /\ cur' # cur
              /\ ~ranges[v].pair /\ mapping'[v] = Unmapped /\ ~fellBack
              => Cardinality(AliveRegisters(v)) = MaxGpr]_vars
  <2>1. SUFFICES ASSUME IInv, CountInv, OwnedInv, Next, pc = "assign", ~ranges[cur].pair,
                        mapping'[cur] = Unmapped, ~fellBack
                 PROVE  Cardinality(AliveRegisters(cur)) = MaxGpr
    OBVIOUS
  <2>2. freeList = << >>
    <3>1. AssignSingle \/ LeaveUnmapped
      BY <2>1 DEF Next, ExpireEntry, ExpiryDone, AssignPair, PairFallback
    <3>2. CASE AssignSingle
      <4> DEFINE n == Len(freeList)
      <4>1. n \in Nat /\ freeList # << >> /\ freeList \in Seq(0 .. MaxGpr) /\ mapping' = [mapping EXCEPT ![cur] = freeList[n]]
        BY <2>1, <3>2, AtAssign DEF AssignSingle
      <4>2. n \in 1 .. Len(freeList)
        BY <4>1
      <4>3. freeList[n] \in 0 .. MaxGpr
        BY <4>1, <4>2, ElementOf
      <4>4. mapping'[cur] = freeList[n]
        BY <2>1, <4>1, AtAssign
      <4> HIDE DEF n
      <4> QED  BY <2>1, <4>3, <4>4 DEF Unmapped
    <3>3. CASE LeaveUnmapped
      BY <2>1, <3>3 DEF LeaveUnmapped
    <3> QED  BY <3>1, <3>2, <3>3
  <2>3. AliveRegisters(cur) = 1 .. MaxGpr
    <3>1. FreeRegisters = {}
      BY <2>2 DEF FreeRegisters
    <3>2. 1 .. MaxGpr \subseteq AliveRegisters(cur)
      BY <2>1, <3>1, NotFreeIsAlive
    <3> QED  BY <3>2 DEF AliveRegisters
  <2>4. Cardinality(1 .. MaxGpr) = MaxGpr
    <3>1. Cardinality(1 .. MaxGpr) = IF 1 > MaxGpr THEN 0 ELSE MaxGpr - 1 + 1
      BY MaxGprAssumption, FS_Interval
    <3> QED  BY <3>1, MaxGprAssumption
  <2> QED  BY <2>3, <2>4
<1> QED  BY <1>1, ScanInvariance, CountInvariance, OwnedInvariance, PTL DEF Spec, UnmappedOnlyUnderPressure

\* A search that finds nothing it may use has found nothing: R0 is never free.
LEMMA NothingFound ==
  ASSUME IInv, pc = "assign", ~fellBack, NoPairAssigned
  PROVE  PairEntries = {}
<1>1. SUFFICES ASSUME PairEntries # {} PROVE FALSE
  OBVIOUS
<1>2. Len(freeList) \in Nat /\ PairEntries \in SUBSET (0 .. Len(freeList)) /\ PairEntries \subseteq 1 .. Len(freeList)
  BY AtAssign DEF PairEntries
<1>3. PICK i \in PairEntries : \A k \in PairEntries : k <= i
  BY <1>1, <1>2, GreatestElement
<1>4. freeList[i] = 0
  BY <1>3 DEF NoPairAssigned
<1> QED  BY <1>2, <1>3, <1>4 DEF IInv, NoZero

\* So of every pair of registers one is not free.
LEMMA NoPairIsFree ==
  ASSUME IInv, pc = "assign", ~fellBack, NoPairAssigned, NEW r \in 1 .. MaxGpr - 1, r % 2 = 0
  PROVE  r \notin FreeRegisters \/ r + 1 \notin FreeRegisters
<1>1. SUFFICES ASSUME NEW i \in 1 .. Len(freeList), freeList[i] = r, NEW j \in 1 .. Len(freeList), freeList[j] = r + 1
               PROVE  FALSE
  BY DEF FreeRegisters
<1>2. i \in PairEntries
  BY <1>1 DEF PairEntries
<1> QED  BY <1>2, NothingFound

\* A range of two registers gets none, or an even register that was not free
\* (lines 138-149), only when of every pair of registers one belongs to a range
\* that has begun and not ended: the search misses no pair, whatever the
\* order in which expired registers have come back.
THEOREM NoPairMeansNoneFree == Spec => NoPairOnlyUnderPressure
<1>1. IInv /\ CountInv /\ OwnedInv /\ [Next]_vars
        => [\A v \in 1 .. Len(ranges) :
              /\ v = cur /\ pc = "assign" /\ cur' # cur
              /\ ranges[v].pair /\ ~fellBack /\ (mapping'[v] = Unmapped \/ fellBack')
              => \A r \in 1 .. MaxGpr - 1 : r % 2 = 0 => {r, r + 1} \cap AliveRegisters(v) # {}]_vars
  <2>1. SUFFICES ASSUME IInv, CountInv, OwnedInv, Next, pc = "assign", ranges[cur].pair, ~fellBack,
                        mapping'[cur] = Unmapped \/ fellBack', NEW r \in 1 .. MaxGpr - 1, r % 2 = 0
                 PROVE  {r, r + 1} \cap AliveRegisters(cur) # {}
    OBVIOUS
  <2>2. NoPairAssigned
    <3>1. AssignPair \/ PairFallback \/ LeaveUnmapped
      BY <2>1 DEF Next, ExpireEntry, ExpiryDone, AssignSingle
    <3>2. ~AssignPair
      <4>1. SUFFICES ASSUME AssignPair PROVE FALSE
        OBVIOUS
      <4>2. PICK i \in PairEntries : mapping' = [mapping EXCEPT ![cur] = freeList[i]]
        BY <4>1 DEF AssignPair
      <4>3. i \in 1 .. Len(freeList) /\ freeList \in Seq(0 .. MaxGpr)
        BY <2>1, AtAssign DEF PairEntries
      <4>4. freeList[i] \in 0 .. MaxGpr
        BY <4>3, ElementOf
      <4>5. mapping'[cur] = freeList[i]
        BY <2>1, <4>2, AtAssign
      <4>6. ~fellBack'
        BY <2>1, <4>1 DEF AssignPair
      <4> QED  BY <2>1, <4>4, <4>5, <4>6 DEF Unmapped
    <3> QED  BY <2>1, <3>1, <3>2 DEF PairFallback, LeaveUnmapped
  <2>3. r \in 1 .. MaxGpr /\ r + 1 \in 1 .. MaxGpr
    BY <2>1, MaxGprAssumption
  <2>4. r \notin FreeRegisters \/ r + 1 \notin FreeRegisters
    BY <2>1, <2>2, NoPairIsFree
  <2> QED  BY <2>1, <2>3, <2>4, NotFreeIsAlive
<1> QED  BY <1>1, ScanInvariance, CountInvariance, OwnedInvariance, PTL DEF Spec, NoPairOnlyUnderPressure

-----------------------------------------------------------------------------
(* Blocks. *)

\* The least element of a set of naturals is First of it.
LEMMA FirstIsLeast ==
  ASSUME NEW S \in SUBSET Nat, S # {}
  PROVE  First(S) \in S /\ \A m \in S : First(S) <= m
<1>1. \E m \in S : \A k \in S : m <= k
  BY LeastElement
<1> QED  BY <1>1, Zenon DEF First

\* Leaders are positions of the program, the first one and the labels among them.
LEMMA LeadersFacts ==
  ASSUME NEW p, Len(p) \in Nat
  PROVE  Leaders(p) \subseteq 1 .. Len(p) + 1 /\ 1 \in Leaders(p) /\ LabelPositions(p) \subseteq Leaders(p)
         /\ (Len(p) > 0 => Leaders(p) \subseteq 1 .. Len(p))
BY DEF Leaders, LabelPositions

\* A block goes from its leader to the item before the next leader.
LEMMA BlockFacts ==
  ASSUME NEW p, Len(p) \in Nat, NEW b \in Leaders(p)
  PROVE  /\ BlockEnd(p, b) \in b - 1 .. Len(p) /\ (Len(p) > 0 => b <= BlockEnd(p, b))
         /\ \A k \in b + 1 .. BlockEnd(p, b) : k \notin Leaders(p)
         /\ BlockEnd(p, b) # Len(p) => BlockEnd(p, b) + 1 \in Leaders(p) /\ NextBlock(p, b) = BlockEnd(p, b) + 1
<1> DEFINE S == {l - 1 : l \in Later(p, b)} \cup {Len(p)}
<1>1. b \in 1 .. Len(p) + 1 /\ Leaders(p) \subseteq 1 .. Len(p) + 1 /\ (Len(p) > 0 => Leaders(p) \subseteq 1 .. Len(p))
  BY LeadersFacts
<1>2. Later(p, b) \subseteq b + 1 .. Len(p) + 1
  BY <1>1 DEF Later
<1>3. S \in SUBSET Nat /\ S # {} /\ BlockEnd(p, b) = First(S)
  BY <1>1, <1>2 DEF BlockEnd
<1> HIDE DEF S
<1>4. First(S) \in S /\ \A m \in S : First(S) <= m
  BY <1>3, FirstIsLeast
<1>5. BlockEnd(p, b) \in S /\ \A m \in S : BlockEnd(p, b) <= m
  BY <1>3, <1>4
<1>6. BlockEnd(p, b) \in b - 1 .. Len(p) /\ (Len(p) > 0 => b <= BlockEnd(p, b))
  BY <1>1, <1>2, <1>5 DEF S
<1>7. ASSUME NEW k \in b + 1 .. BlockEnd(p, b) PROVE k \notin Leaders(p)
  <2>1. SUFFICES ASSUME k \in Leaders(p) PROVE FALSE
    OBVIOUS
  <2>2. k \in Later(p, b)
    BY <1>1, <1>6, <2>1 DEF Later
  <2>3. k - 1 \in S
    BY <2>2 DEF S
  <2> QED  BY <1>1, <1>5, <1>6, <2>3
<1>8. ASSUME BlockEnd(p, b) # Len(p)
      PROVE  BlockEnd(p, b) + 1 \in Leaders(p) /\ NextBlock(p, b) = BlockEnd(p, b) + 1
  <2>1. PICK l \in Later(p, b) : BlockEnd(p, b) = l - 1
    BY <1>5, <1>8 DEF S
  <2>2. l \in Leaders(p) /\ BlockEnd(p, b) + 1 = l
    BY <1>2, <2>1 DEF Later
  <2>3. Later(p, b) \in SUBSET Nat /\ Later(p, b) # {}
    BY <1>1, <1>2, <2>1
  <2>4. NextBlock(p, b) \in Later(p, b) /\ \A m \in Later(p, b) : NextBlock(p, b) <= m
    BY <2>3, FirstIsLeast DEF NextBlock
  <2>5. NextBlock(p, b) - 1 \in S
    BY <2>4 DEF S
  <2>6. NextBlock(p, b) <= l /\ l - 1 <= NextBlock(p, b) - 1
    BY <1>5, <2>1, <2>4, <2>5
  <2> QED  BY <1>2, <2>1, <2>2, <2>4, <2>6
<1> QED  BY <1>6, <1>7, <1>8

\* Every item is in the block of its leader.
LEMMA InSomeBlock ==
  ASSUME NEW p, Len(p) \in Nat, NEW k \in 1 .. Len(p)
  PROVE  \E b \in Leaders(p) : k \in b .. BlockEnd(p, b)
<1> DEFINE S == {l \in Leaders(p) : l <= k}
<1>1. Leaders(p) \subseteq 1 .. Len(p) + 1 /\ 1 \in Leaders(p)
  BY LeadersFacts
<1>2. S \in SUBSET (0 .. k) /\ S # {} /\ k \in Nat
  BY <1>1
<1>3. PICK b \in S : \A l \in S : l <= b
  <2> HIDE DEF S
  <2>1. \A n \in Nat : \A T \in SUBSET (0 .. n) : T # {} => \E m \in T : \A l \in T : l <= m
    BY GreatestElement
  <2> QED  BY <1>2, <2>1
<1>4. b \in Leaders(p) /\ b <= k /\ b \in 1 .. Len(p) + 1
  BY <1>1
<1>5. /\ BlockEnd(p, b) \in b - 1 .. Len(p)
      /\ BlockEnd(p, b) # Len(p) => BlockEnd(p, b) + 1 \in Leaders(p)
  BY <1>4, BlockFacts
<1>6. ASSUME BlockEnd(p, b) < k PROVE FALSE
  <2>1. (BlockEnd(p, b) + 1 \in S /\ ~(BlockEnd(p, b) + 1 <= b)) \/ BlockEnd(p, b) = b - 1
    BY <1>4, <1>5, <1>6
  <2>2. b <= BlockEnd(p, b)
    BY <1>4, BlockFacts
  <2> QED  BY <1>3, <1>4, <1>5, <2>1, <2>2
<1> QED  BY <1>4, <1>5, <1>6

-----------------------------------------------------------------------------
(* The graph.                                                              *)

\* The definition, with the chain of NaturalOrder named.
LEMMA ReachedByChain ==
  ASSUME NEW g, NEW start, NEW avoid
  PROVE  ReachedFrom(g, start, avoid)
           = (CHOOSE h : IsReachChain(g, start, avoid, Cardinality(g.blocks), h))[Cardinality(g.blocks)]
BY Zenon DEF ReachedFrom, IsReachChain, OneEdgeOn

\* What is reached is the least closed set that holds the start.
LEMMA ReachedIsLeast ==
  ASSUME NEW g, IsCFG(g), NEW start \in SUBSET g.blocks, NEW avoid
  PROVE  /\ start \ avoid \subseteq ReachedFrom(g, start, avoid)
         /\ ReachedFrom(g, start, avoid) \subseteq g.blocks
         /\ Closed(g, ReachedFrom(g, start, avoid), avoid)
         /\ \A C : start \ avoid \subseteq C /\ Closed(g, C, avoid) => ReachedFrom(g, start, avoid) \subseteq C
<1> DEFINE n == Cardinality(g.blocks)
           R == (CHOOSE h : IsReachChain(g, start, avoid, n, h))[n]
<1>1. IsFiniteSet(g.blocks) /\ g.edges \subseteq g.blocks \X g.blocks
  BY DEF IsCFG
<1>2. ReachedFrom(g, start, avoid) = R
  BY Zenon, ReachedByChain
<1>3. /\ start \ avoid \subseteq R /\ R \subseteq g.blocks \ avoid /\ Closed(g, R, avoid)
      /\ \A C : start \ avoid \subseteq C /\ Closed(g, C, avoid) => R \subseteq C
  BY <1>1, Zenon, ReachChainIsLeast
<1> HIDE DEF R
<1>4. R \subseteq g.blocks
  BY <1>3
<1> QED  BY <1>2, <1>3, <1>4

\* The reachable blocks: the entry, closed under edges, and nothing more.
LEMMA ReachableIsLeast ==
  ASSUME NEW g, IsCFG(g)
  PROVE  /\ g.entry \in ReachableBlocks(g)
         /\ ReachableBlocks(g) \subseteq g.blocks
         /\ \A e \in g.edges : e[1] \in ReachableBlocks(g) => e[2] \in ReachableBlocks(g)
         /\ \A C : g.entry \in C /\ (\A e \in g.edges : e[1] \in C => e[2] \in C)
                     => ReachableBlocks(g) \subseteq C
<1>1. {g.entry} \in SUBSET g.blocks
  BY DEF IsCFG
<1>2. /\ {g.entry} \ {} \subseteq ReachedFrom(g, {g.entry}, {})
      /\ ReachedFrom(g, {g.entry}, {}) \subseteq g.blocks
      /\ Closed(g, ReachedFrom(g, {g.entry}, {}), {})
      /\ \A C : {g.entry} \ {} \subseteq C /\ Closed(g, C, {}) => ReachedFrom(g, {g.entry}, {}) \subseteq C
  BY <1>1, ReachedIsLeast
<1> QED  BY <1>2 DEF ReachableBlocks, Closed

-----------------------------------------------------------------------------
(* Programs and their items.                                               *)

IsProgram(p) == p \in Seq(Items) /\ ~BuildFails(p)

\* What a program for which build_cfg returns a graph is made of.
LEMMA ProgramFacts ==
  ASSUME NEW p, IsProgram(p)
  PROVE  /\ Len(p) \in Nat
         /\ \A i \in 1 .. Len(p) : p[i] \in Items
         /\ \A i \in 1 .. Len(p) : IsBranch(p[i]) => LabelAt(p, p[i].label) \in LabelPositions(p)
         /\ Entry(p) \in Leaders(p)
<1>1. Len(p) \in Nat /\ \A i \in 1 .. Len(p) : p[i] \in Items
  BY DEF IsProgram
<1>2. ASSUME NEW l \in LabelsOf(p) PROVE LabelAt(p, l) \in LabelPositions(p)
  <2>1. \E i \in LabelPositions(p) : p[i].label = l
    BY DEF LabelsOf
  <2> QED  BY <2>1, Zenon DEF LabelAt
<1>3. \A i \in 1 .. Len(p) : IsBranch(p[i]) => p[i].label \in LabelsOf(p)
  BY DEF IsProgram, BuildFails
<1>4. Entry(p) \in Leaders(p)
  BY <1>2 DEF Entry, Leaders
<1> QED  BY <1>1, <1>2, <1>3, <1>4

\* An item is an instruction or a label.
LEMMA ItemFacts ==
  ASSUME NEW x \in Items
  PROVE  /\ IsLabel(x) => ~IsBranch(x) /\ ~EndsBlock(x) /\ x.guarded = FALSE
         /\ ~IsLabel(x) => x.guarded \in BOOLEAN /\ x.dest \in {0} \cup Vregs /\ x.srcs \subseteq Vregs
BY DEF Items, IsLabel, IsBranch, EndsBlock

\* Where a block leads.
LEMMA SuccessorsAreLeaders ==
  ASSUME NEW p, IsProgram(p), Len(p) > 0, NEW b \in Leaders(p)
  PROVE  Successors(p, b) \subseteq Leaders(p)
<1>1. Len(p) \in Nat /\ Leaders(p) \subseteq 1 .. Len(p) /\ LabelPositions(p) \subseteq Leaders(p)
  BY ProgramFacts, LeadersFacts
<1>2. BlockEnd(p, b) \in 1 .. Len(p)
  <2>1. BlockEnd(p, b) \in b - 1 .. Len(p) /\ b <= BlockEnd(p, b)
    BY <1>1, BlockFacts
  <2> QED  BY <1>1, <2>1
<1>3. BranchTargets(p, b) \subseteq Leaders(p)
  <2>1. IsBranch(p[BlockEnd(p, b)]) => LabelAt(p, p[BlockEnd(p, b)].label) \in LabelPositions(p)
    BY <1>2, ProgramFacts
  <2> QED  BY <1>1, <2>1 DEF BranchTargets
<1>4. Later(p, b) # {} => NextBlock(p, b) \in Leaders(p)
  <2>1. Later(p, b) \in SUBSET Nat /\ Later(p, b) \subseteq Leaders(p)
    BY <1>1 DEF Later
  <2> QED  BY <2>1, FirstIsLeast DEF NextBlock
<1> QED  BY <1>3, <1>4 DEF Successors, FallsThrough

\* build_cfg returns a graph.
LEMMA GraphFacts ==
  ASSUME NEW p, IsProgram(p), Len(p) > 0
  PROVE  /\ IsCFG(BuildCFG(p))
         /\ BuildCFG(p).blocks = Leaders(p) /\ BuildCFG(p).entry = Entry(p)
         /\ \A b, c : <<b, c>> \in BuildCFG(p).edges <=> b \in Leaders(p) /\ c \in Successors(p, b)
<1>1. /\ BuildCFG(p).blocks = Leaders(p) /\ BuildCFG(p).entry = Entry(p)
      /\ BuildCFG(p).edges = UNION {{b} \X Successors(p, b) : b \in Leaders(p)}
  BY DEF BuildCFG
<1>2. IsFiniteSet(Leaders(p))
  <2>1. Leaders(p) \subseteq 1 .. Len(p) /\ Len(p) \in Nat
    BY ProgramFacts, LeadersFacts
  <2>2. IsFiniteSet(1 .. Len(p))
    BY <2>1, FS_Interval
  <2> QED  BY <2>1, <2>2, FS_Subset
<1>3. Entry(p) \in Leaders(p)
  BY ProgramFacts
<1>4. \A b, c : <<b, c>> \in BuildCFG(p).edges <=> b \in Leaders(p) /\ c \in Successors(p, b)
  BY <1>1
<1>5. BuildCFG(p).edges \subseteq Leaders(p) \X Leaders(p)
  <2>1. \A b \in Leaders(p) : Successors(p, b) \subseteq Leaders(p)
    BY SuccessorsAreLeaders
  <2> QED  BY <1>1, <2>1
<1> QED  BY <1>1, <1>2, <1>3, <1>4, <1>5 DEF IsCFG

\* The block of an item is the one whose items it is among.
LEMMA BlockOfFacts ==
  ASSUME NEW p, Len(p) \in Nat, NEW i \in 1 .. Len(p)
  PROVE  /\ BlockOf(p, i) \in Leaders(p) /\ i \in BlockOf(p, i) .. BlockEnd(p, BlockOf(p, i))
         /\ \A b \in Leaders(p) : i \in b .. BlockEnd(p, b) => BlockOf(p, i) = b
<1> DEFINE Holds(b) == b <= i /\ \A l \in Later(p, b) : i < l
<1>1. Leaders(p) \subseteq 1 .. Len(p)
  BY LeadersFacts
<1>2. ASSUME NEW b \in Leaders(p), i \in b .. BlockEnd(p, b) PROVE Holds(b)
  <2>1. ASSUME NEW l \in Later(p, b) PROVE i < l
    <3>1. l \in Leaders(p) /\ b < l /\ l \in 1 .. Len(p)
      BY <1>1 DEF Later
    <3>2. l \notin b + 1 .. BlockEnd(p, b) /\ BlockEnd(p, b) \in b - 1 .. Len(p)
      BY <3>1, BlockFacts
    <3> QED  BY <1>1, <1>2, <3>1, <3>2
  <2> QED  BY <1>1, <1>2, <2>1
<1>3. ASSUME NEW b \in Leaders(p), Holds(b), NEW c \in Leaders(p), Holds(c) PROVE b = c
  <2>1. ASSUME NEW x \in Leaders(p), NEW y \in Leaders(p), Holds(x), Holds(y) PROVE ~(x < y)
    <3>1. x < y => y \in Later(p, x)
      BY DEF Later
    <3> QED  BY <1>1, <2>1, <3>1
  <2> QED  BY <1>1, <1>3, <2>1
<1>4. PICK b \in Leaders(p) : i \in b .. BlockEnd(p, b)
  BY InSomeBlock
<1>5. BlockOf(p, i) \in Leaders(p) /\ Holds(BlockOf(p, i))
  <2>1. \E x \in Leaders(p) : Holds(x)
    BY <1>2, <1>4
  <2>2. BlockOf(p, i) = CHOOSE x \in Leaders(p) : Holds(x)
    BY Zenon DEF BlockOf
  <2> HIDE DEF Holds
  <2> QED  BY <2>1, <2>2
<1> HIDE DEF Holds
<1>6. \A c \in Leaders(p) : i \in c .. BlockEnd(p, c) => BlockOf(p, i) = c
  BY <1>2, <1>3, <1>5
<1> QED  BY <1>4, <1>5, <1>6

\* A step of the program stays in its block or follows an edge to a leader.
LEMMA StepsFollowTheGraph ==
  ASSUME NEW p, IsProgram(p), NEW i \in 1 .. Len(p), NEW s \in ItemSucc(p, i)
  PROVE  /\ s \in 1 .. Len(p)
         /\ \/ s = i + 1 /\ BlockOf(p, s) = BlockOf(p, i)
            \/ BlockOf(p, s) = s /\ <<BlockOf(p, i), s>> \in BuildCFG(p).edges
         /\ s <= i => IsBranch(p[i]) /\ s \in LabelPositions(p) /\ BlockOf(p, s) = s
                        /\ i = BlockEnd(p, BlockOf(p, i))
<1> DEFINE b == BlockOf(p, i)
           e == BlockEnd(p, b)
<1>1. /\ Len(p) \in Nat /\ p[i] \in Items /\ Len(p) > 0
      /\ IsBranch(p[i]) => LabelAt(p, p[i].label) \in LabelPositions(p)
  BY ProgramFacts
<1>2. /\ Leaders(p) \subseteq 1 .. Len(p) /\ LabelPositions(p) \subseteq Leaders(p)
      /\ LabelPositions(p) \subseteq 1 .. Len(p)
  BY <1>1, LeadersFacts DEF LabelPositions
<1>3. b \in Leaders(p) /\ i \in b .. e
  BY <1>1, BlockOfFacts
<1>4. /\ e \in b - 1 .. Len(p) /\ (\A k \in b + 1 .. e : k \notin Leaders(p))
      /\ e # Len(p) => e + 1 \in Leaders(p) /\ NextBlock(p, b) = e + 1
  BY <1>1, <1>3, BlockFacts
<1>5. ASSUME NEW c \in Leaders(p) PROVE BlockOf(p, c) = c
  <2>1. c <= BlockEnd(p, c) /\ BlockEnd(p, c) \in c - 1 .. Len(p) /\ c \in 1 .. Len(p)
    BY <1>1, <1>2, BlockFacts
  <2>2. c \in c .. BlockEnd(p, c)
    BY <2>1
  <2> QED  BY <1>1, <2>1, <2>2, BlockOfFacts
<1>6. ASSUME NEW c \in Successors(p, b) PROVE <<b, c>> \in BuildCFG(p).edges
  BY <1>1, <1>3, GraphFacts
<1>7. ASSUME EndsBlock(p[i]) PROVE i = e
  <2>1. SUFFICES ASSUME i < e PROVE FALSE
    BY <1>2, <1>3, <1>4
  <2>2. i \in {j \in 1 .. Len(p) - 1 : EndsBlock(p[j])} /\ i + 1 \in b + 1 .. e
    BY <1>2, <1>3, <1>4, <1>7, <2>1
  <2>3. i + 1 \in Leaders(p)
    BY <2>2 DEF Leaders
  <2> QED  BY <1>4, <2>2, <2>3
<1>8. CASE ~IsLabel(p[i]) /\ IsBranch(p[i]) /\ s = LabelAt(p, p[i].label)
  <2>1. i = e /\ s \in LabelPositions(p)
    BY <1>1, <1>7, <1>8 DEF IsBranch, EndsBlock
  <2>2. i \in Instructions(p, b)
    BY <1>3, <1>8 DEF Instructions
  <2>3. s \in BranchTargets(p, b)
    BY <1>8, <2>1, <2>2 DEF BranchTargets
  <2>4. s \in Successors(p, b) /\ s \in Leaders(p) /\ s \in 1 .. Len(p)
    BY <1>2, <2>1, <2>3 DEF Successors
  <2> QED  BY <1>5, <1>6, <1>8, <2>1, <2>4
<1>9. CASE ~(~IsLabel(p[i]) /\ IsBranch(p[i]) /\ s = LabelAt(p, p[i].label))
  <2>1. /\ s = i + 1 /\ i < Len(p)
        /\ ~EndsBlock(p[i]) \/ (IsBranch(p[i]) /\ p[i].guarded)
    <3>1. IsLabel(p[i]) => ~EndsBlock(p[i])
      BY <1>1, ItemFacts
    <3> QED  BY <1>9, <3>1 DEF ItemSucc
  <2>2. s \in 1 .. Len(p) /\ ~(s <= i)
    BY <2>1
  <2>3. CASE i < e
    <3>1. s \in b .. e
      BY <1>2, <1>3, <1>4, <2>1, <2>3
    <3> QED  BY <1>1, <1>3, <2>1, <2>2, <3>1, BlockOfFacts
  <2>4. CASE i = e
    <3>1. s \in Leaders(p) /\ NextBlock(p, b) = s
      BY <1>4, <2>1, <2>4
    <3>2. s \in Later(p, b)
      BY <1>2, <1>3, <2>1, <3>1 DEF Later
    <3>3. FallsThrough(p, b)
      BY <2>1, <2>4, <3>2 DEF FallsThrough
    <3>4. s \in Successors(p, b)
      BY <3>1, <3>3 DEF Successors
    <3> QED  BY <1>5, <1>6, <2>2, <3>1, <3>4
  <2> QED  BY <1>2, <1>3, <1>4, <2>3, <2>4
<1> QED  BY <1>8, <1>9

-----------------------------------------------------------------------------
(* Paths and the text.                                                     *)

\* An edge is a step from the last item of its block.
LEMMA EdgesAreSteps ==
  ASSUME NEW p, IsProgram(p), Len(p) > 0, NEW b \in Leaders(p), NEW c \in Successors(p, b)
  PROVE  BlockEnd(p, b) \in 1 .. Len(p) /\ c \in ItemSucc(p, BlockEnd(p, b))
<1> DEFINE e == BlockEnd(p, b)
<1>1. Len(p) \in Nat /\ Leaders(p) \subseteq 1 .. Len(p)
  BY ProgramFacts, LeadersFacts
<1>2. /\ e \in b - 1 .. Len(p) /\ b <= e /\ (\A k \in b + 1 .. e : k \notin Leaders(p))
      /\ e # Len(p) => NextBlock(p, b) = e + 1
  BY <1>1, BlockFacts
<1>3. e \in 1 .. Len(p) /\ p[e] \in Items
  BY <1>1, <1>2, ProgramFacts
<1>4. CASE c \in BranchTargets(p, b)
  <2>1. IsBranch(p[e]) /\ c = LabelAt(p, p[e].label) /\ ~IsLabel(p[e])
    BY <1>3, <1>4, ItemFacts DEF BranchTargets
  <2> QED  BY <1>3, <2>1 DEF ItemSucc
<1>5. CASE c \notin BranchTargets(p, b)
  <2>1. FallsThrough(p, b) /\ c = NextBlock(p, b)
    BY <1>5 DEF Successors
  <2>2. PICK l \in Leaders(p) : l > b
    BY <2>1 DEF FallsThrough, Later
  <2>3. e < Len(p) /\ c = e + 1
    BY <1>1, <1>2, <2>1, <2>2
  <2>4. CASE Instructions(p, b) = {}
    <3>1. IsLabel(p[e])
      BY <1>1, <1>2, <2>4 DEF Instructions
    <3> QED  BY <1>3, <2>3, <3>1, ItemFacts DEF ItemSucc
  <2>5. CASE ~EndsBlock(p[e]) \/ (IsBranch(p[e]) /\ p[e].guarded)
    <3>1. IsBranch(p[e]) => ~IsLabel(p[e])
      BY <1>3, ItemFacts
    <3> QED  BY <1>3, <2>3, <2>5, <3>1 DEF ItemSucc
  <2> QED  BY <2>1, <2>4, <2>5 DEF FallsThrough
<1> QED  BY <1>4, <1>5

\* The items that some path executes.
Runs(p) == {i \in 1 .. Len(p) : BlockOf(p, i) \in ReachableBlocks(BuildCFG(p))}

\* A path goes on where it is.
LEMMA StepsRun ==
  ASSUME NEW p, IsProgram(p), NEW i \in Runs(p), NEW s \in ItemSucc(p, i)
  PROVE  s \in Runs(p)
<1>1. i \in 1 .. Len(p) /\ Len(p) > 0
  BY ProgramFacts DEF Runs
<1>2. IsCFG(BuildCFG(p))
  BY <1>1, GraphFacts
<1>3. /\ s \in 1 .. Len(p)
      /\ BlockOf(p, s) = BlockOf(p, i) \/ (BlockOf(p, s) = s /\ <<BlockOf(p, i), s>> \in BuildCFG(p).edges)
  BY <1>1, StepsFollowTheGraph
<1>4. \A e \in BuildCFG(p).edges : e[1] \in ReachableBlocks(BuildCFG(p)) => e[2] \in ReachableBlocks(BuildCFG(p))
  BY <1>2, ReachableIsLeast
<1> QED  BY <1>3, <1>4 DEF Runs

\* Sets that hold the entry and what steps down the text lead to.
ForwardClosed(p, S) ==
  Entry(p) \in S /\ \A i \in 1 .. Len(p) : \A s \in ItemSucc(p, i) : i \in S /\ i < s => s \in S

\* A block is walked from its leader.
LEMMA BlocksAreWalked ==
  ASSUME NEW p, IsProgram(p), Len(p) > 0, NEW S, ForwardClosed(p, S), NEW b \in Leaders(p), b \in S
  PROVE  b .. BlockEnd(p, b) \subseteq S
<1> DEFINE e == BlockEnd(p, b)
           T == {k \in Nat : b + k <= e => b + k \in S}
<1>1. Len(p) \in Nat /\ Leaders(p) \subseteq 1 .. Len(p)
  BY ProgramFacts, LeadersFacts
<1>2. e \in b - 1 .. Len(p) /\ \A k \in b + 1 .. e : k \notin Leaders(p)
  BY <1>1, BlockFacts
<1> HIDE DEF e
<1>3. 0 \in T
  BY <1>1
<1>4. ASSUME NEW k \in Nat, k \in T PROVE k + 1 \in T
  <2>1. SUFFICES ASSUME b + (k + 1) <= e PROVE b + (k + 1) \in S
    OBVIOUS
  <2> DEFINE j == b + k
  <2>2. j \in 1 .. Len(p) - 1 /\ j + 1 \in b + 1 .. e /\ j + 1 = b + (k + 1) /\ j \in S
    BY <1>1, <1>2, <1>4, <2>1
  <2> HIDE DEF j
  <2>3. ~EndsBlock(p[j])
    <3>1. EndsBlock(p[j]) => j + 1 \in Leaders(p)
      BY <2>2 DEF Leaders
    <3> QED  BY <1>2, <2>2, <3>1
  <2>4. j + 1 \in ItemSucc(p, j) /\ j \in 1 .. Len(p) /\ j < j + 1
    BY <1>1, <2>2, <2>3 DEF ItemSucc
  <2>5. j + 1 \in S
    BY <2>2, <2>4 DEF ForwardClosed
  <2> QED  BY <2>2, <2>5
<1>5. Nat \subseteq T
  <2> HIDE DEF T
  <2> QED  BY <1>3, <1>4, InductionOnSet
<1>6. ASSUME NEW i \in b .. e PROVE i \in S
  <2>1. i - b \in Nat /\ b + (i - b) = i /\ i <= e
    BY <1>1, <1>2
  <2>2. i - b \in T
    BY <1>5, <2>1
  <2> QED  BY <2>1, <2>2
<1> QED  BY <1>6 DEF e

\* When every edge up the text closes a loop, what runs is reached down the text.
LEMMA RunsFollowTheText ==
  ASSUME NEW p, IsProgram(p), Len(p) > 0, LaidOutInOrder(p), NEW S, ForwardClosed(p, S)
  PROVE  Runs(p) \subseteq S
<1> DEFINE g == BuildCFG(p)
           R == ReachableBlocks(g)
           F == {b \in Leaders(p) : \A T : ForwardClosed(p, T) => b \in T}
<1>1. /\ IsCFG(g) /\ g.blocks = Leaders(p) /\ g.entry = Entry(p)
      /\ \A b, c : <<b, c>> \in g.edges <=> b \in Leaders(p) /\ c \in Successors(p, b)
  BY GraphFacts
<1>2. /\ g.entry \in R /\ R \subseteq g.blocks
      /\ \A e \in g.edges : e[1] \in R => e[2] \in R
      /\ \A C : g.entry \in C /\ (\A e \in g.edges : e[1] \in C => e[2] \in C) => R \subseteq C
  BY <1>1, ReachableIsLeast
<1>3. g.edges \subseteq g.blocks \X g.blocks
  BY <1>1 DEF IsCFG
<1>4. \A e \in g.edges : e[1] \in R /\ e[2] <= e[1] => e \in BackEdges(g)
  BY DEF LaidOutInOrder
<1>5. Len(p) \in Nat /\ Leaders(p) \subseteq 1 .. Len(p) /\ Entry(p) \in Leaders(p)
  BY ProgramFacts, LeadersFacts
<1>6. Entry(p) \in F
  BY <1>5 DEF ForwardClosed
<1>7. ASSUME NEW b \in Leaders(p) PROVE BlockOf(p, b) = b
  <2>1. b \in b .. BlockEnd(p, b) /\ b \in 1 .. Len(p)
    BY <1>5, BlockFacts
  <2> QED  BY <1>5, <2>1, BlockOfFacts
<1> HIDE DEF g, R, F
<1>8. ASSUME NEW b \in R \cap F, NEW c, <<b, c>> \in g.edges PROVE c \in F
  <2>1. b \in Leaders(p) /\ c \in Leaders(p) /\ c \in Successors(p, b)
    BY <1>1, <1>3, <1>8
  <2>2. SUFFICES ASSUME NEW T, ForwardClosed(p, T), c \notin T PROVE FALSE
    BY <2>1 DEF F
  <2>3. b \in T /\ \A X : ForwardClosed(p, X) => b \in X
    BY <2>2 DEF F
  <2>4. CASE b < c
    <3>1. b .. BlockEnd(p, b) \subseteq T
      BY <2>1, <2>2, <2>3, BlocksAreWalked
    <3>2. BlockEnd(p, b) \in 1 .. Len(p) /\ c \in ItemSucc(p, BlockEnd(p, b))
      BY <2>1, EdgesAreSteps
    <3>3. /\ BlockEnd(p, b) \in b - 1 .. Len(p) /\ b <= BlockEnd(p, b)
          /\ \A k \in b + 1 .. BlockEnd(p, b) : k \notin Leaders(p)
      BY <1>5, <2>1, BlockFacts
    <3>4. BlockEnd(p, b) < c /\ BlockEnd(p, b) \in T
      BY <1>5, <2>1, <2>4, <3>1, <3>3
    <3> QED  BY <2>2, <3>2, <3>4 DEF ForwardClosed
  <2>5. CASE ~(b < c)
    <3>1. <<b, c>> \in BackEdges(g) /\ b # c
      BY <1>4, <1>5, <1>8, <2>1, <2>2, <2>3, <2>5
    <3> DEFINE Q == ReachedFrom(g, {g.entry}, {c})
    <3>2. b \notin Q
      BY <3>1 DEF BackEdges, Dominators
    <3>3. {g.entry} \ {c} \subseteq Q /\ Closed(g, Q, {c})
      <4>1. {g.entry} \in SUBSET g.blocks
        BY <1>1 DEF IsCFG
      <4> QED  BY <1>1, <4>1, ReachedIsLeast
    <3> HIDE DEF Q
    <3> DEFINE X == {i \in T : BlockOf(p, i) \in Q}
    <3>4. Entry(p) \in X
      <4>1. Entry(p) \in T /\ Entry(p) # c
        BY <2>2 DEF ForwardClosed
      <4> QED  BY <1>1, <1>5, <1>7, <3>3, <4>1
    <3>5. ASSUME NEW i \in 1 .. Len(p), NEW s \in ItemSucc(p, i), i \in X, i < s PROVE s \in X
      <4>1. s \in T
        BY <2>2, <3>5 DEF ForwardClosed
      <4>2. BlockOf(p, s) = BlockOf(p, i) \/ (BlockOf(p, s) = s /\ <<BlockOf(p, i), s>> \in g.edges)
        BY StepsFollowTheGraph DEF g
      <4>3. CASE BlockOf(p, s) = s /\ <<BlockOf(p, i), s>> \in g.edges
        <5>1. s \in Q \cup {c}
          BY <3>3, <3>5, <4>3 DEF Closed
        <5>2. s # c
          BY <2>2, <4>1
        <5> QED  BY <4>1, <4>3, <5>1, <5>2
      <4> QED  BY <3>5, <4>1, <4>2, <4>3
    <3>6. ForwardClosed(p, X)
      <4> HIDE DEF X
      <4> QED  BY <3>4, <3>5 DEF ForwardClosed
    <3>7. b \in X
      BY <2>3, <3>6
    <3> QED  BY <1>7, <2>1, <3>2, <3>7
  <2> QED  BY <2>4, <2>5
<1>9. R \subseteq F
  <2>1. ASSUME NEW e \in g.edges, e[1] \in R \cap F PROVE e[2] \in R \cap F
    <3>1. e = <<e[1], e[2]>>
      BY <1>3
    <3>2. e[2] \in F
      BY <1>8, <2>1, <3>1
    <3> QED  BY <1>2, <2>1, <3>2
  <2>2. g.entry \in R \cap F
    BY <1>1, <1>2, <1>6
  <2>3. R \subseteq R \cap F
    BY <1>2, <2>1, <2>2
  <2> QED  BY <2>3
<1>10. ASSUME NEW i \in Runs(p) PROVE i \in S
  <2>1. i \in 1 .. Len(p) /\ BlockOf(p, i) \in F
    BY <1>9 DEF Runs, R, g
  <2>2. BlockOf(p, i) \in Leaders(p) /\ BlockOf(p, i) \in S
    BY <2>1 DEF F
  <2>3. i \in BlockOf(p, i) .. BlockEnd(p, BlockOf(p, i))
    BY <1>5, <2>1, BlockOfFacts
  <2> QED  BY <2>2, <2>3, BlocksAreWalked
<1> QED  BY <1>10

\* A label among labels has a block of its own, which falls into the next.
LEMMA LabelsFallThrough ==
  ASSUME NEW p, IsProgram(p), NEW l \in LabelPositions(p), l + 1 \in LabelPositions(p)
  PROVE  l \in Leaders(p) /\ BlockEnd(p, l) = l /\ Successors(p, l) = {l + 1}
<1>1. /\ Len(p) \in Nat /\ LabelPositions(p) \subseteq Leaders(p)
      /\ l \in 1 .. Len(p) /\ l + 1 \in 1 .. Len(p) /\ IsLabel(p[l]) /\ p[l] \in Items
  BY ProgramFacts, LeadersFacts DEF LabelPositions
<1>2. l \in Leaders(p) /\ l + 1 \in Leaders(p)
  BY <1>1
<1>3. BlockEnd(p, l) = l /\ NextBlock(p, l) = l + 1
  <2>1. /\ BlockEnd(p, l) \in l - 1 .. Len(p) /\ l <= BlockEnd(p, l)
        /\ \A k \in l + 1 .. BlockEnd(p, l) : k \notin Leaders(p)
        /\ BlockEnd(p, l) # Len(p) => NextBlock(p, l) = BlockEnd(p, l) + 1
    BY <1>1, <1>2, BlockFacts
  <2>2. l + 1 \notin l + 1 .. BlockEnd(p, l)
    BY <1>2, <2>1
  <2> QED  BY <1>1, <2>1, <2>2
<1>4. Instructions(p, l) = {}
  BY <1>1, <1>3 DEF Instructions
<1>5. Later(p, l) # {}
  BY <1>1, <1>2 DEF Later
<1> QED  BY <1>2, <1>3, <1>4, <1>5 DEF Successors, BranchTargets, FallsThrough

\* What a step up the text jumps over and to is in the loops, or so close in
\* front of them that only labels are between.
LEMMA LoopsCoverTheJump ==
  ASSUME NEW p, IsProgram(p), LaidOutInOrder(p),
         NEW x \in Runs(p), NEW y \in ItemSucc(p, x), y <= x
  PROVE  /\ x \in LoopItems(p)
         /\ \A u \in y .. Len(p) : ~IsLabel(p[u]) => \E m \in LoopItems(p) : m <= u
<1> DEFINE g == BuildCFG(p)
           R == ReachableBlocks(g)
           b == BlockOf(p, x)
<1>1. /\ x \in 1 .. Len(p) /\ b \in R /\ Len(p) \in Nat /\ Len(p) > 0
      /\ Leaders(p) \subseteq 1 .. Len(p) /\ LabelPositions(p) \subseteq Leaders(p)
      /\ LabelPositions(p) \subseteq 1 .. Len(p)
  BY ProgramFacts, LeadersFacts DEF Runs, LabelPositions
<1>2. /\ IsCFG(g) /\ g.blocks = Leaders(p) /\ g.entry = Entry(p)
      /\ \A i, j : <<i, j>> \in g.edges <=> i \in Leaders(p) /\ j \in Successors(p, i)
  BY <1>1, GraphFacts
<1>3. /\ IsBranch(p[x]) /\ y \in LabelPositions(p) /\ BlockOf(p, y) = y
      /\ x = BlockEnd(p, b) /\ y \in 1 .. Len(p)
      /\ <<b, y>> \in g.edges
  <2>1. /\ IsBranch(p[x]) /\ y \in LabelPositions(p) /\ BlockOf(p, y) = y
        /\ x = BlockEnd(p, b) /\ y \in 1 .. Len(p)
        /\ \/ y = x + 1 /\ BlockOf(p, y) = BlockOf(p, x)
           \/ BlockOf(p, y) = y /\ <<b, y>> \in g.edges
    BY <1>1, StepsFollowTheGraph
  <2> QED  BY <1>1, <2>1
<1>4. /\ b \in Leaders(p) /\ x \in b .. BlockEnd(p, b) /\ ~IsLabel(p[x])
      /\ \A k \in b + 1 .. BlockEnd(p, b) : k \notin Leaders(p)
  <2>1. b \in Leaders(p) /\ x \in b .. BlockEnd(p, b)
    BY <1>1, BlockOfFacts
  <2>2. p[x] \in Items
    BY <1>1, ProgramFacts
  <2> QED  BY <1>1, <1>3, <2>1, <2>2, BlockFacts, ItemFacts
<1> HIDE DEF g, R, b
<1>5. y <= b
  <2>1. y \notin b + 1 .. BlockEnd(p, b)
    BY <1>1, <1>3, <1>4
  <2> QED  BY <1>1, <1>3, <1>4, <2>1
<1>6. <<b, y>> \in BackEdges(g)
  BY <1>1, <1>3, <1>5 DEF LaidOutInOrder, g, R
<1>7. ASSUME NEW c \in LoopBody(g, b, y) PROVE Instructions(p, c) \subseteq LoopItems(p)
  BY <1>6, <1>7 DEF LoopItems, g
<1>8. x \in LoopItems(p)
  <2>1. {b} \ {y} \subseteq ReachedFrom(g, {b}, {y})
    <3>1. {b} \in SUBSET g.blocks
      BY <1>2, <1>4
    <3> QED  BY <1>2, <3>1, ReachedIsLeast
  <2>2. b \in LoopBody(g, b, y)
    BY <1>2, <1>4, <2>1 DEF LoopBody
  <2>3. x \in Instructions(p, b)
    BY <1>4 DEF Instructions
  <2> QED  BY <1>7, <2>2, <2>3
<1>9. ASSUME NEW u \in y .. Len(p), ~IsLabel(p[u]) PROVE \E m \in LoopItems(p) : m <= u
  <2> DEFINE N == {k \in y .. Len(p) : ~IsLabel(p[k])}
  <2>1. PICK m \in N : \A k \in N : m <= k
    <3>1. N \in SUBSET Nat /\ N # {}
      BY <1>1, <1>3, <1>9
    <3> HIDE DEF N
    <3> QED  BY <3>1, LeastElement
  <2>2. m \in y .. Len(p) /\ ~IsLabel(p[m]) /\ m <= u /\ m <= x
    <3>1. x \in N /\ u \in N
      BY <1>1, <1>3, <1>4, <1>9
    <3> QED  BY <2>1, <3>1
  <2>3. \A k \in y .. m - 1 : k \in LabelPositions(p)
    BY <1>1, <1>3, <2>1, <2>2 DEF LabelPositions
  <2>4. y < m /\ m - 1 \in y .. m - 1 /\ m \in 2 .. Len(p)
    BY <1>1, <1>3, <2>2 DEF LabelPositions
  <2>5. m - 1 \in Leaders(p) /\ m \in Instructions(p, m - 1)
    <3>1. m - 1 \in LabelPositions(p) /\ m - 1 \in Leaders(p)
      BY <1>1, <2>3, <2>4
    <3>2. m \notin Leaders(p)
      <4>1. ~EndsBlock(p[m - 1])
        <5>1. m - 1 \in 1 .. Len(p) /\ IsLabel(p[m - 1])
          BY <3>1 DEF LabelPositions
        <5> QED  BY <5>1, ProgramFacts, ItemFacts
      <4>2. \A j \in 1 .. Len(p) - 1 : j + 1 = m => j = m - 1
        OBVIOUS
      <4> QED  BY <2>2, <2>4, <4>1, <4>2 DEF Leaders, LabelPositions
    <3>3. /\ BlockEnd(p, m - 1) \in m - 1 - 1 .. Len(p) /\ m - 1 <= BlockEnd(p, m - 1)
          /\ BlockEnd(p, m - 1) # Len(p) => BlockEnd(p, m - 1) + 1 \in Leaders(p)
      BY <1>1, <3>1, BlockFacts
    <3>4. m - 1 + 1 = m /\ BlockEnd(p, m - 1) # m - 1
      BY <2>4, <3>2, <3>3
    <3>5. m \in m - 1 .. BlockEnd(p, m - 1)
      BY <2>4, <3>3, <3>4
    <3> QED  BY <2>2, <3>1, <3>5 DEF Instructions
  <2>6. m - 1 \in LoopBody(g, b, y)
    <3>1. CASE m - 1 = y
      BY <3>1 DEF LoopBody
    <3>2. CASE m - 1 # y
      <4> DEFINE A == ReachedFrom(g, {g.entry}, {y})
                 Z == ReachedFrom(g, {m - 1}, {y})
                 S == A \cup Z \cup (y .. m - 2)
      <4>1. y < m - 1 /\ y \in y .. m - 2
        BY <1>1, <1>3, <2>4, <3>2
      <4>2. {g.entry} \ {y} \subseteq A /\ Closed(g, A, {y})
        <5>1. {g.entry} \in SUBSET g.blocks
          BY <1>2 DEF IsCFG
        <5> QED  BY <1>2, <5>1, ReachedIsLeast
      <4>3. {m - 1} \ {y} \subseteq Z /\ Closed(g, Z, {y})
        <5>1. {m - 1} \in SUBSET g.blocks
          BY <1>2, <2>5
        <5> QED  BY <1>2, <5>1, ReachedIsLeast
      <4>4. b \notin A \/ b = y
        BY <1>6 DEF BackEdges, Dominators
      <4> HIDE DEF A, Z
      <4>5. ASSUME NEW l \in y .. m - 2
            PROVE  l \in Leaders(p) /\ BlockEnd(p, l) = l /\ Successors(p, l) = {l + 1} /\ IsLabel(p[l])
        <5>1. l \in y .. m - 1 /\ l + 1 \in y .. m - 1
          BY <1>1, <1>3, <2>4
        <5>2. l \in LabelPositions(p) /\ l + 1 \in LabelPositions(p)
          BY <2>3, <5>1
        <5> QED  BY <5>2, LabelsFallThrough DEF LabelPositions
      <4>6. ASSUME NEW e \in g.edges, e[1] \in S PROVE e[2] \in S
        <5>1. e = <<e[1], e[2]>>
          BY <1>2 DEF IsCFG
        <5>2. CASE e[1] \in A \/ e[1] \in Z
          <6>1. e[2] \in A \/ e[2] \in Z \/ e[2] = y
            BY <4>2, <4>3, <5>2 DEF Closed
          <6> QED  BY <4>1, <6>1
        <5>3. CASE e[1] \in y .. m - 2
          <6>1. e[2] = e[1] + 1
            <7>1. e[2] \in Successors(p, e[1])
              BY <1>2, <5>1
            <7> QED  BY <4>5, <5>3, <7>1
          <6>2. e[2] \in y .. m - 2 \/ e[2] = m - 1
            BY <1>1, <1>3, <2>4, <5>3, <6>1
          <6> QED  BY <3>2, <4>3, <6>2
        <5> QED  BY <4>6, <5>2, <5>3
      <4>7. g.entry \in S
        BY <4>1, <4>2
      <4>8. b \in S
        <5> HIDE DEF S
        <5>1. \A C : g.entry \in C /\ (\A e \in g.edges : e[1] \in C => e[2] \in C) => R \subseteq C
          BY <1>2, ReachableIsLeast DEF R
        <5> QED  BY <1>1, <4>6, <4>7, <5>1
      <4>9. b \notin y .. m - 2
        <5>1. b \in y .. m - 2 => x = b /\ IsLabel(p[b])
          BY <1>3, <4>5
        <5> QED  BY <1>4, <5>1
      <4>10. b \in Z
        BY <4>1, <4>4, <4>8, <4>9
      <4> QED  BY <1>2, <2>5, <4>10 DEF LoopBody, Z
    <3> QED  BY <3>1, <3>2
  <2> QED  BY <1>7, <2>2, <2>5, <2>6
<1> QED  BY <1>8, <1>9

-----------------------------------------------------------------------------
(* Liveness is the least set that holds the uses and is closed backwards.   *)

\* One round of LiveBefore, and the chain of sets it takes.
Through(p, v) == {e \in ItemEdges(p) : e[1] \notin Defs(p, v) \/ p[e[1]].guarded}
LiveFront(p, v, S) == {e[1] : e \in {x \in Through(p, v) : x[2] \in S}}
IsLiveChain(p, v, n, h) ==
  h = [k \in 0 .. n |-> IF k = 0 THEN Uses(p, v) ELSE h[k-1] \cup LiveFront(p, v, h[k-1])]

\* The definition, with the chain named.
LEMMA LiveByChain ==
  ASSUME NEW p, NEW v
  PROVE  LiveBefore(p, v) = (CHOOSE h : IsLiveChain(p, v, Len(p), h))[Len(p)]
BY Zenon DEF LiveBefore, IsLiveChain, LiveFront, Through

\* What is read is live, what is live is live in front of an item that does not
\* write it, and nothing else is live.
LEMMA LiveIsLeast ==
  ASSUME NEW p, Len(p) \in Nat, NEW v
  PROVE  /\ Uses(p, v) \subseteq LiveBefore(p, v)
         /\ \A i \in 1 .. Len(p) : \A s \in ItemSucc(p, i) :
              s \in LiveBefore(p, v) /\ i \notin Defs(p, v) => i \in LiveBefore(p, v)
         /\ \A C : /\ Uses(p, v) \subseteq C
                   /\ \A i \in 1 .. Len(p) : \A s \in ItemSucc(p, i) : s \in C => i \in C
                   => LiveBefore(p, v) \subseteq C
<1> DEFINE B == 1 .. Len(p)
           n == Len(p)
           F == [S \in SUBSET B |-> LiveFront(p, v, S)]
           base == Uses(p, v)
<1>1. IsFiniteSet(B) /\ Cardinality(B) <= n
  BY FS_Interval
<1>2. \A e : e \in ItemEdges(p) <=> \E i \in B : \E s \in ItemSucc(p, i) : e = <<i, s>>
  BY DEF ItemEdges
<1>3. \A S : LiveFront(p, v, S) \subseteq B
  BY <1>2 DEF LiveFront, Through
<1>4. F \in [SUBSET B -> SUBSET B] /\ base \in SUBSET B
  BY <1>3 DEF Uses
<1>5. PICK c : Grows(B, base, F, n, c)
  <2> HIDE DEF B, F, base
  <2> QED  BY <1>4, ChainExists
<1>6. c \in [0 .. n -> SUBSET B] /\ c[0] = base /\ \A k \in 1 .. n : c[k] = c[k-1] \cup F[c[k-1]]
  BY <1>5 DEF Grows
<1>7. IsLiveChain(p, v, n, c)
  <2>1. ASSUME NEW k \in 0 .. n
        PROVE  c[k] = IF k = 0 THEN Uses(p, v) ELSE c[k-1] \cup LiveFront(p, v, c[k-1])
    <3>1. CASE k = 0
      BY <1>6, <3>1
    <3>2. CASE k # 0
      <4>1. k \in 1 .. n /\ k - 1 \in 0 .. n
        BY <3>2
      <4>2. c[k-1] \in SUBSET B
        BY <1>6, <4>1
      <4> QED  BY <1>6, <3>2, <4>1, <4>2
    <3> QED  BY <3>1, <3>2
  <2>2. c = [k \in 0 .. n |-> c[k]]
    BY <1>6
  <2> QED  BY <2>1, <2>2 DEF IsLiveChain
<1> DEFINE f == CHOOSE h : IsLiveChain(p, v, n, h)
           R == f[n]
<1>8. IsLiveChain(p, v, n, f) /\ LiveBefore(p, v) = R
  BY <1>7, LiveByChain
<1> HIDE DEF f
<1>9. f[0] = base /\ \A k \in 1 .. n : f[k-1] \in SUBSET B => f[k] = f[k-1] \cup F[f[k-1]]
  <2>1. f = [k \in 0 .. n |-> IF k = 0 THEN Uses(p, v) ELSE f[k-1] \cup LiveFront(p, v, f[k-1])]
    BY <1>8 DEF IsLiveChain
  <2>2. \A k \in 0 .. n : f[k] = IF k = 0 THEN Uses(p, v) ELSE f[k-1] \cup LiveFront(p, v, f[k-1])
    BY <2>1, Zenon
  <2>3. 0 \in 0 .. n /\ \A k \in 1 .. n : k \in 0 .. n /\ k # 0
    OBVIOUS
  <2> QED  BY <2>2, <2>3
<1>10. IsLeast(B, base, F, R)
  <2> HIDE DEF B, F, base
  <2> QED  BY <1>1, <1>4, <1>9, ChainIsLeast
<1>11. /\ R \in SUBSET B /\ base \subseteq R /\ F[R] \subseteq R
       /\ \A C : base \subseteq C /\ (\A S \in SUBSET B : S \subseteq C => F[S] \subseteq C) => R \subseteq C
  BY <1>10 DEF IsLeast
<1> HIDE DEF R
<1>12. ASSUME NEW i \in B, NEW s \in ItemSucc(p, i), s \in R, i \notin Defs(p, v) PROVE i \in R
  <2>1. <<i, s>> \in Through(p, v)
    BY <1>2, <1>12 DEF Through
  <2>2. i \in LiveFront(p, v, R)
    BY <1>12, <2>1 DEF LiveFront
  <2> QED  BY <1>11, <2>2
<1>13. ASSUME NEW C, Uses(p, v) \subseteq C,
              \A i \in B : \A s \in ItemSucc(p, i) : s \in C => i \in C
       PROVE  R \subseteq C
  <2>1. ASSUME NEW S \in SUBSET B, S \subseteq C PROVE F[S] \subseteq C
    <3>1. ASSUME NEW z \in LiveFront(p, v, S) PROVE z \in C
      <4>1. PICK e \in ItemEdges(p) : e[2] \in S /\ z = e[1]
        BY DEF LiveFront, Through
      <4>2. PICK i \in B : \E s \in ItemSucc(p, i) : e = <<i, s>>
        BY <1>2, Zenon
      <4>3. PICK s \in ItemSucc(p, i) : e = <<i, s>>
        BY <4>2, Zenon
      <4>4. s \in C /\ z = i
        BY <2>1, <4>1, <4>3
      <4> QED  BY <1>13, <4>4, Zenon
    <3> QED  BY <3>1
  <2> HIDE DEF F
  <2> QED  BY <1>11, <1>13, <2>1
<1> QED  BY <1>8, <1>11, <1>12, <1>13

-----------------------------------------------------------------------------
(* Values and ranges.                                                      *)

\* A value that is live where a path passes was written further up the text.
LEMMA LiveIsWritten ==
  ASSUME NEW p, IsProgram(p), LaidOutInOrder(p), NEW v, Entry(p) \notin LiveBefore(p, v),
         NEW i \in Runs(p), i \in LiveBefore(p, v)
  PROVE  \E d \in Defs(p, v) : d < i
<1>1. SUFFICES ASSUME \A d \in Defs(p, v) : ~(d < i) PROVE FALSE
  OBVIOUS
<1>2. i \in 1 .. Len(p) /\ Len(p) \in Nat /\ Len(p) > 0
  BY ProgramFacts DEF Runs
<1> DEFINE S == {j \in 1 .. Len(p) : j <= i => j \notin LiveBefore(p, v)}
<1>3. Entry(p) \in S
  <2>1. Entry(p) \in Leaders(p) /\ Leaders(p) \subseteq 1 .. Len(p)
    BY <1>2, ProgramFacts, LeadersFacts
  <2> QED  BY <2>1
<1>4. ASSUME NEW j \in 1 .. Len(p), NEW s \in ItemSucc(p, j), j \in S, j < s PROVE s \in S
  <2>1. s \in 1 .. Len(p)
    BY StepsFollowTheGraph
  <2>2. ASSUME s <= i, s \in LiveBefore(p, v) PROVE FALSE
    <3>1. j < i /\ j \notin LiveBefore(p, v)
      BY <1>2, <1>4, <2>1, <2>2
    <3>2. j \notin Defs(p, v)
      BY <1>1, <3>1
    <3> QED  BY <1>2, <2>2, <3>1, <3>2, LiveIsLeast
  <2> QED  BY <2>1, <2>2
<1>5. ForwardClosed(p, S)
  <2> HIDE DEF S
  <2> QED  BY <1>3, <1>4 DEF ForwardClosed
<1>6. i \in S
  <2> HIDE DEF S
  <2> QED  BY <1>2, <1>5, RunsFollowTheText
<1> QED  BY <1>2, <1>6

\* The least and the greatest of some positions.
LEMMA SmallestFacts ==
  ASSUME NEW n \in Nat, NEW S \in SUBSET (1 .. n), S # {}
  PROVE  /\ Smallest(S) \in S /\ \A k \in S : Smallest(S) <= k
         /\ Largest(S) \in S /\ \A k \in S : k <= Largest(S)
<1>1. \E m \in S : \A k \in S : m <= k
  BY LeastElement
<1>2. \E m \in S : \A k \in S : k <= m
  <2>1. S \in SUBSET (0 .. n)
    OBVIOUS
  <2> QED  BY <2>1, GreatestElement
<1>3. Smallest(S) \in S /\ \A k \in S : Smallest(S) <= k
  BY <1>1, Zenon DEF Smallest
<1>4. Largest(S) \in S /\ \A k \in S : k <= Largest(S)
  BY <1>2, Zenon DEF Largest
<1> QED  BY <1>3, <1>4

\* The loops hold positions of the program.
LEMMA LoopItemsAreItems ==
  ASSUME NEW p, IsProgram(p)
  PROVE  LoopItems(p) \subseteq 1 .. Len(p)
<1> DEFINE g == BuildCFG(p)
<1>1. SUFFICES ASSUME NEW i \in LoopItems(p) PROVE i \in 1 .. Len(p)
  OBVIOUS
<1>2. PICK e \in BackEdges(g) : \E b \in LoopBody(g, e[1], e[2]) : i \in Instructions(p, b)
  BY DEF LoopItems
<1>3. PICK b \in LoopBody(g, e[1], e[2]) : i \in Instructions(p, b)
  BY <1>2
<1>4. Len(p) \in Nat /\ g.blocks = Leaders(p) /\ Leaders(p) \subseteq 1 .. Len(p) + 1
  BY ProgramFacts, LeadersFacts DEF BuildCFG
<1>5. e[2] \in Leaders(p)
  <2>1. e \in g.edges /\ g.edges = UNION {{c} \X Successors(p, c) : c \in Leaders(p)}
    BY DEF BackEdges, BuildCFG
  <2>2. PICK c \in Leaders(p) : e \in {c} \X Successors(p, c)
    BY <2>1
  <2>3. e[2] \in Successors(p, c)
    BY <2>2
  <2>4. Len(p) > 0
    <3>1. SUFFICES ASSUME Len(p) = 0 PROVE FALSE
      BY <1>4
    <3>2. BlockEnd(p, c) \in c - 1 .. 0 /\ c = 1
      BY <1>4, <2>2, <3>1, BlockFacts
    <3>3. Instructions(p, c) = {} /\ Later(p, c) = {}
      BY <1>4, <3>1, <3>2 DEF Instructions, Later
    <3> QED  BY <2>3, <3>3 DEF Successors, BranchTargets, FallsThrough
  <2> QED  BY <2>2, <2>3, <2>4, SuccessorsAreLeaders
<1>6. b \in Leaders(p)
  BY <1>3, <1>4, <1>5 DEF LoopBody
<1>7. BlockEnd(p, b) \in b - 1 .. Len(p)
  BY <1>4, <1>6, BlockFacts
<1> QED  BY <1>3, <1>4, <1>6, <1>7 DEF Instructions

\* A value that is live where a path passes is read further down, or in the
\* loops when that place is no further down than they are.
ReadAround(p, i, u) ==
  \/ i <= u
  \/ LoopItems(p) # {} /\ Within(LoopItems(p), u) /\ i <= Largest(LoopItems(p))

\* Such a read exists, on a path.
LEMMA LiveIsRead ==
  ASSUME NEW p, IsProgram(p), LaidOutInOrder(p), NEW v,
         NEW i \in Runs(p), i \in LiveBefore(p, v)
  PROVE  \E u \in Uses(p, v) \cap Runs(p) : ReadAround(p, i, u)
<1> DEFINE items == LoopItems(p)
           S == {j \in 1 .. Len(p) : j \in Runs(p) => \E u \in Uses(p, v) \cap Runs(p) : ReadAround(p, j, u)}
<1>1. Len(p) \in Nat /\ Uses(p, v) \subseteq 1 .. Len(p) /\ items \subseteq 1 .. Len(p)
  BY ProgramFacts, LoopItemsAreItems DEF Uses
<1>2. Uses(p, v) \subseteq S
  BY <1>1 DEF ReadAround
<1>3. ASSUME NEW x \in 1 .. Len(p), NEW s \in ItemSucc(p, x), s \in S PROVE x \in S
  <2>1. SUFFICES ASSUME x \in Runs(p) PROVE \E u \in Uses(p, v) \cap Runs(p) : ReadAround(p, x, u)
    OBVIOUS
  <2>2. s \in Runs(p) /\ s \in 1 .. Len(p)
    BY <2>1, StepsRun DEF Runs
  <2>3. PICK u \in Uses(p, v) \cap Runs(p) : ReadAround(p, s, u)
    BY <1>3, <2>2
  <2>4. u \in 1 .. Len(p) /\ ~IsLabel(p[u])
    BY DEF Uses
  <2>5. items # {} => /\ Smallest(items) \in items /\ \A k \in items : Smallest(items) <= k
                      /\ Largest(items) \in items /\ \A k \in items : k <= Largest(items)
    BY <1>1, SmallestFacts
  <2>6. items # {} => Smallest(items) \in 1 .. Len(p) /\ Largest(items) \in 1 .. Len(p)
    BY <1>1, <2>5
  <2>7. CASE x < s
    BY <2>2, <2>3, <2>4, <2>6, <2>7 DEF ReadAround
  <2>8. CASE s <= x
    <3>1. x \in items /\ \A w \in s .. Len(p) : ~IsLabel(p[w]) => \E m \in items : m <= w
      BY <2>1, <2>8, LoopsCoverTheJump
    <3>2. items # {} /\ x <= Largest(items)
      BY <2>5, <3>1
    <3>3. CASE x <= u
      BY <3>3 DEF ReadAround
    <3>4. CASE ~(x <= u)
      <4>1. Smallest(items) <= u
        <5>1. CASE s <= u
          <6>1. u \in s .. Len(p)
            BY <2>2, <2>4, <5>1
          <6>2. PICK m \in items : m <= u
            BY <2>4, <3>1, <6>1
          <6> QED  BY <1>1, <2>4, <2>5, <2>6, <6>2
        <5>2. CASE ~(s <= u)
          BY <2>3, <5>2 DEF ReadAround, Within
        <5> QED  BY <5>1, <5>2
      <4>2. u <= Largest(items)
        BY <2>4, <2>6, <3>2, <3>4
      <4> QED  BY <3>2, <4>1, <4>2 DEF ReadAround, Within
    <3> QED  BY <3>3, <3>4
  <2> QED  BY <2>2, <2>7, <2>8
<1>4. LiveBefore(p, v) \subseteq S
  <2> HIDE DEF S
  <2> QED  BY <1>1, <1>2, <1>3, LiveIsLeast
<1> QED  BY <1>4

\* What a merged range spans before the loops extend it.
LEMMA RangeFacts ==
  ASSUME NEW p, IsProgram(p), NEW v \in Defined(p)
  PROVE  /\ FirstDef(p, v) \in Defs(p, v) /\ FirstDef(p, v) \in 1 .. Len(p)
         /\ LastUse(p, v) \in 1 .. Len(p) /\ UseIndices(p, v) \subseteq Uses(p, v)
         /\ \A d \in Defs(p, v) : FirstDef(p, v) <= d /\ d <= LastUse(p, v)
         /\ \A u \in Uses(p, v) : FirstDef(p, v) < u => u <= LastUse(p, v)
<1> DEFINE D == Defs(p, v)
           n == Len(p)
<1>1. n \in Nat /\ D \subseteq 1 .. n /\ D # {} /\ Uses(p, v) \subseteq 1 .. n
  BY ProgramFacts DEF Defs, Uses, Defined
<1>2. FirstDef(p, v) \in D /\ \A d \in D : FirstDef(p, v) <= d
  BY <1>1, SmallestFacts DEF FirstDef
<1>3. UseIndices(p, v) \subseteq Uses(p, v)
  BY DEF UseIndices, UsesOf
<1>4. /\ LastUse(p, v) \in D \cup UseIndices(p, v)
      /\ \A k \in D \cup UseIndices(p, v) : k <= LastUse(p, v)
  <2>1. D \cup UseIndices(p, v) \in SUBSET (1 .. n) /\ D \cup UseIndices(p, v) # {}
    BY <1>1, <1>3
  <2> QED  BY <1>1, <2>1, SmallestFacts DEF LastUse
<1>5. ASSUME NEW u \in Uses(p, v), FirstDef(p, v) < u, u \notin D PROVE u \in UseIndices(p, v)
  <2> DEFINE E == {d \in D : d < u}
             later(d) == {e \in D : e > d}
             next(d) == IF later(d) = {} THEN n + 1 ELSE Smallest(later(d))
  <2>1. E \in SUBSET (1 .. n) /\ E # {}
    BY <1>1, <1>2, <1>5
  <2>2. PICK d \in E : \A k \in E : k <= d
    <3> HIDE DEF E
    <3> QED  BY <1>1, <2>1, SmallestFacts
  <2>3. d \in D /\ d < u /\ d \in 1 .. n /\ u \in 1 .. n
    BY <1>1, <2>2
  <2>4. u < next(d)
    <3>1. CASE later(d) = {}
      BY <1>1, <2>3, <3>1
    <3>2. CASE later(d) # {}
      <4>1. Smallest(later(d)) \in later(d)
        <5>1. later(d) \in SUBSET (1 .. n)
          BY <1>1
        <5> HIDE DEF later
        <5> QED  BY <1>1, <3>2, <5>1, SmallestFacts
      <4>2. Smallest(later(d)) \in D /\ Smallest(later(d)) > d /\ Smallest(later(d)) \in 1 .. n
        BY <1>1, <4>1
      <4>3. Smallest(later(d)) \notin E
        BY <2>2, <2>3, <4>2
      <4>4. ~(Smallest(later(d)) < u) /\ Smallest(later(d)) # u
        BY <1>5, <4>2, <4>3
      <4> QED  BY <2>3, <3>2, <4>2, <4>4
    <3> QED  BY <3>1, <3>2
  <2>5. next(d) \in Nat
    <3>1. later(d) # {} => Smallest(later(d)) \in later(d)
      <4>1. later(d) \in SUBSET (1 .. n)
        BY <1>1
      <4> HIDE DEF later
      <4> QED  BY <1>1, <4>1, SmallestFacts
    <3> QED  BY <1>1, <3>1
  <2>6. u \in UsesOf(p, v, d)
    <3>1. UsesOf(p, v, d) = IF d = Smallest(D) THEN {k \in Uses(p, v) : d <= k /\ k <= next(d)}
                                             ELSE {k \in Uses(p, v) : d < k /\ k < next(d)}
      BY DEF UsesOf
    <3> HIDE DEF next, D
    <3> QED  BY <1>5, <2>3, <2>4, <2>5, <3>1
  <2> QED  BY <2>3, <2>6 DEF UseIndices
<1>6. LastUse(p, v) \in 1 .. n /\ FirstDef(p, v) \in 1 .. n
  BY <1>1, <1>2, <1>3, <1>4
<1> QED  BY <1>2, <1>3, <1>4, <1>5, <1>6

\* The extension only extends.
LEMMA EndFacts ==
  ASSUME NEW p, IsProgram(p), NEW v \in Defined(p)
  PROVE  /\ EndOfRange(p, v) \in 1 .. Len(p) /\ LastUse(p, v) <= EndOfRange(p, v)
         /\ LoopItems(p) # {} /\ (\E u \in UseIndices(p, v) : Within(LoopItems(p), u))
              => Largest(LoopItems(p)) \in 1 .. Len(p) /\ Largest(LoopItems(p)) <= EndOfRange(p, v)
<1> DEFINE items == LoopItems(p)
<1>1. Len(p) \in Nat /\ items \subseteq 1 .. Len(p) /\ LastUse(p, v) \in 1 .. Len(p)
  BY ProgramFacts, LoopItemsAreItems, RangeFacts
<1>2. items # {} => Largest(items) \in 1 .. Len(p)
  BY <1>1, SmallestFacts
<1>3. EndOfRange(p, v) = IF /\ items # {} /\ \E u \in UseIndices(p, v) : Within(items, u)
                            /\ LastUse(p, v) < Largest(items)
                         THEN Largest(items) ELSE LastUse(p, v)
  BY DEF EndOfRange
<1> HIDE DEF items
<1>4. /\ EndOfRange(p, v) \in 1 .. Len(p) /\ LastUse(p, v) <= EndOfRange(p, v)
      /\ items # {} /\ (\E u \in UseIndices(p, v) : Within(items, u))
           => Largest(items) \in 1 .. Len(p) /\ Largest(items) <= EndOfRange(p, v)
  BY <1>1, <1>2, <1>3
<1> QED  BY <1>4 DEF items

\* Where a path passes, the range of a value that is still to be read holds the
\* place of every other register that is written.
LEMMA RangesMeet ==
  ASSUME NEW p, IsProgram(p), LaidOutInOrder(p), LoopReadsAreSeen(p), NothingUndefinedIsRead(p),
         NEW v \in Vregs, NEW w \in Vregs \ {v}, NEW i \in Defs(p, w) \cap Runs(p), LiveAfter(p, i, v)
  PROVE  /\ v \in Defined(p) /\ w \in Defined(p)
         /\ FirstDef(p, v) <= i /\ i <= EndOfRange(p, v)
         /\ FirstDef(p, w) <= i /\ i <= EndOfRange(p, w)
<1>1. /\ Len(p) \in Nat /\ i \in 1 .. Len(p) /\ i \notin Defs(p, v)
      /\ \A x : Uses(p, x) \subseteq 1 .. Len(p) /\ Defs(p, x) \subseteq 1 .. Len(p)
  BY ProgramFacts DEF Runs, Defs, Uses
<1>2. Entry(p) \notin LiveBefore(p, v)
  BY DEF NothingUndefinedIsRead
<1>3. i \in LiveBefore(p, v)
  <2>1. PICK s \in ItemSucc(p, i) : s \in LiveBefore(p, v)
    BY DEF LiveAfter
  <2> QED  BY <1>1, <2>1, LiveIsLeast
<1>4. PICK d \in Defs(p, v) : d < i
  BY <1>2, <1>3, LiveIsWritten
<1>5. v \in Defined(p) /\ w \in Defined(p)
  BY DEF Defined
<1>6. FirstDef(p, v) \in 1 .. Len(p) /\ FirstDef(p, v) <= i
  <2>1. FirstDef(p, v) \in 1 .. Len(p) /\ FirstDef(p, v) <= d
    BY <1>5, RangeFacts
  <2> QED  BY <1>1, <1>4, <2>1
<1>7. PICK u \in Uses(p, v) \cap Runs(p) : ReadAround(p, i, u)
  BY <1>3, LiveIsRead
<1>8. u \in 1 .. Len(p) /\ FirstDef(p, v) < u
  <2>1. u \in LiveBefore(p, v)
    BY <1>1, LiveIsLeast
  <2>2. PICK e \in Defs(p, v) : e < u
    BY <1>2, <2>1, LiveIsWritten
  <2>3. FirstDef(p, v) <= e
    BY <1>5, RangeFacts
  <2> QED  BY <1>1, <1>6, <2>2, <2>3
<1>9. /\ LastUse(p, v) \in 1 .. Len(p) /\ u <= LastUse(p, v)
      /\ EndOfRange(p, v) \in 1 .. Len(p) /\ LastUse(p, v) <= EndOfRange(p, v)
  BY <1>5, <1>8, RangeFacts, EndFacts
<1>10. i <= EndOfRange(p, v)
  <2>1. CASE i <= u
    BY <1>1, <1>8, <1>9, <2>1
  <2>2. CASE LoopItems(p) # {} /\ Within(LoopItems(p), u) /\ i <= Largest(LoopItems(p))
    <3>1. \E k \in UseIndices(p, v) : Within(LoopItems(p), k)
      BY <1>5, <1>8, <2>2 DEF LoopReadsAreSeen
    <3>2. Largest(LoopItems(p)) \in 1 .. Len(p) /\ Largest(LoopItems(p)) <= EndOfRange(p, v)
      BY <1>5, <2>2, <3>1, EndFacts
    <3> QED  BY <1>1, <1>9, <2>2, <3>2
  <2> QED  BY <1>7, <2>1, <2>2 DEF ReadAround
<1>11. FirstDef(p, w) <= i /\ i <= EndOfRange(p, w)
  <2>1. /\ FirstDef(p, w) <= i /\ i <= LastUse(p, w) /\ LastUse(p, w) \in 1 .. Len(p)
        /\ EndOfRange(p, w) \in 1 .. Len(p) /\ LastUse(p, w) <= EndOfRange(p, w)
    BY <1>5, RangeFacts, EndFacts
  <2> QED  BY <1>1, <2>1
<1> QED  BY <1>5, <1>6, <1>10, <1>11

-----------------------------------------------------------------------------
(* The order of the scan.                                                  *)

\* The registers defined no later than v.
UpTo(p, v) == {w \in Defined(p) : FirstDef(p, w) <= FirstDef(p, v)}

\* Two registers are not defined by the same instruction.
LEMMA FirstDefsDiffer ==
  ASSUME NEW p, IsProgram(p), NEW v \in Defined(p), NEW w \in Defined(p), FirstDef(p, v) = FirstDef(p, w)
  PROVE  v = w
<1>1. FirstDef(p, v) \in Defs(p, v) /\ FirstDef(p, v) \in Defs(p, w)
  BY RangeFacts
<1> QED  BY <1>1 DEF Defs

\* What is not among the first has an earliest member, which is the next one.
LEMMA NextDefined ==
  ASSUME NEW p, IsProgram(p), NEW S \in SUBSET Defined(p), S # {}
  PROVE  \E m \in S : \A w \in S : FirstDef(p, m) <= FirstDef(p, w)
<1> DEFINE N == {FirstDef(p, w) : w \in S}
<1>1. N \in SUBSET Nat /\ N # {}
  <2>1. \A w \in S : FirstDef(p, w) \in 1 .. Len(p)
    BY RangeFacts
  <2> QED  BY <2>1
<1>2. PICK k \in N : \A l \in N : k <= l
  <2> HIDE DEF N
  <2> QED  BY <1>1, LeastElement
<1> QED  BY <1>2

\* Every position of the scan has its register.
LEMMA RanksAreTaken ==
  ASSUME NEW p, IsProgram(p), NEW i \in 1 .. Cardinality(Defined(p))
  PROVE  \E v \in Defined(p) : Cardinality(UpTo(p, v)) = i
<1> DEFINE D == Defined(p)
           T == {k \in Nat : k + 1 <= Cardinality(D) => \E v \in D : Cardinality(UpTo(p, v)) = k + 1}
<1>1. IsFiniteSet(D) /\ Cardinality(D) \in Nat
  <2>1. IsFiniteSet(Vregs) /\ D \subseteq Vregs
    BY VregsAssumption DEF Defined
  <2>2. IsFiniteSet(D)
    BY <2>1, FS_Subset
  <2> QED  BY <2>2, FS_CardinalityType
<1>2. \A v \in D : UpTo(p, v) \subseteq D /\ v \in UpTo(p, v) /\ FirstDef(p, v) \in 1 .. Len(p)
  BY RangeFacts DEF UpTo
<1> HIDE DEF D
<1>3. ASSUME NEW A \in SUBSET D, A # D, \A v \in A : UpTo(p, v) \subseteq A
      PROVE  \E m \in D \ A : UpTo(p, m) = A \cup {m}
  <2>1. PICK m \in D \ A : \A w \in D \ A : FirstDef(p, m) <= FirstDef(p, w)
    BY <1>3, NextDefined DEF D
  <2>2. ASSUME NEW w \in UpTo(p, m), w \notin A PROVE w = m
    <3>1. w \in D /\ FirstDef(p, w) <= FirstDef(p, m) /\ FirstDef(p, m) <= FirstDef(p, w)
      BY <2>1, <2>2 DEF UpTo, D
    <3>2. FirstDef(p, w) = FirstDef(p, m)
      BY <1>2, <2>1, <3>1
    <3> QED  BY <2>1, <3>1, <3>2, FirstDefsDiffer DEF D
  <2>3. ASSUME NEW w \in A PROVE w \in UpTo(p, m)
    <3>1. m \notin UpTo(p, w)
      BY <1>3, <2>1
    <3>2. ~(FirstDef(p, m) <= FirstDef(p, w))
      BY <2>1, <3>1 DEF UpTo, D
    <3> QED  BY <1>2, <2>1, <3>2 DEF UpTo, D
  <2> QED  BY <1>2, <2>1, <2>2, <2>3
<1>4. 0 \in T
  <2>1. SUFFICES ASSUME 1 <= Cardinality(D) PROVE \E v \in D : Cardinality(UpTo(p, v)) = 1
    OBVIOUS
  <2>2. {} # D
    BY <2>1, FS_EmptySet
  <2>3. PICK m \in D : UpTo(p, m) = {} \cup {m}
    BY <1>3, <2>2
  <2>4. UpTo(p, m) = {m}
    BY <2>3
  <2> QED  BY <2>4, FS_Singleton
<1>5. ASSUME NEW k \in Nat, k \in T PROVE k + 1 \in T
  <2>1. SUFFICES ASSUME k + 1 + 1 <= Cardinality(D)
                 PROVE  \E v \in D : Cardinality(UpTo(p, v)) = k + 1 + 1
    OBVIOUS
  <2>2. PICK v \in D : Cardinality(UpTo(p, v)) = k + 1
    BY <1>1, <1>5, <2>1
  <2> DEFINE A == UpTo(p, v)
  <2>3. A \in SUBSET D /\ A # D
    BY <1>1, <1>2, <2>1, <2>2
  <2>4. \A w \in A : UpTo(p, w) \subseteq A
    BY <1>2, <2>2 DEF UpTo, D
  <2>5. IsFiniteSet(A)
    BY <1>1, <2>3, FS_Subset
  <2> HIDE DEF A
  <2>6. PICK m \in D \ A : UpTo(p, m) = A \cup {m}
    BY <1>3, <2>3, <2>4
  <2>7. Cardinality(A \cup {m}) = Cardinality(A) + 1
    BY <2>5, <2>6, FS_AddElement
  <2> QED  BY <2>2, <2>6, <2>7 DEF A
<1>6. Nat \subseteq T
  <2> HIDE DEF T
  <2> QED  BY <1>4, <1>5, InductionOnSet
<1>7. i - 1 \in T /\ i - 1 + 1 = i /\ i <= Cardinality(D)
  BY <1>1, <1>6 DEF D
<1> QED  BY <1>7 DEF D

\* sorted_regs: each position of the scan has its own register, and their first
\* definitions come in the order of the positions.
LEMMA ScanOrderFacts ==
  ASSUME NEW p, IsProgram(p)
  PROVE  /\ Cardinality(Defined(p)) \in Nat
         /\ DOMAIN ScanOrder(p) = 1 .. Cardinality(Defined(p))
         /\ \A i \in DOMAIN ScanOrder(p) : ScanOrder(p)[i] \in Defined(p)
         /\ \A i, j \in DOMAIN ScanOrder(p) :
              i < j => FirstDef(p, ScanOrder(p)[i]) < FirstDef(p, ScanOrder(p)[j])
<1> DEFINE D == Defined(p)
           n == Cardinality(D)
           At(i) == CHOOSE v \in D : Cardinality(UpTo(p, v)) = i
<1>1. IsFiniteSet(D) /\ n \in Nat
  <2>1. IsFiniteSet(Vregs) /\ D \subseteq Vregs
    BY VregsAssumption DEF Defined
  <2>2. IsFiniteSet(D)
    BY <2>1, FS_Subset
  <2> QED  BY <2>2, FS_CardinalityType
<1>2. ScanOrder(p) = [i \in 1 .. n |-> At(i)]
  BY Zenon DEF ScanOrder, UpTo
<1>3. ASSUME NEW i \in 1 .. n PROVE At(i) \in D /\ Cardinality(UpTo(p, At(i))) = i
  <2>1. \E v \in D : Cardinality(UpTo(p, v)) = i
    BY RanksAreTaken
  <2> HIDE DEF D
  <2> QED  BY <2>1
<1>4. ASSUME NEW i \in 1 .. n, NEW j \in 1 .. n, i < j
      PROVE  FirstDef(p, At(i)) < FirstDef(p, At(j))
  <2>1. At(i) \in D /\ At(j) \in D /\ Cardinality(UpTo(p, At(i))) = i /\ Cardinality(UpTo(p, At(j))) = j
    BY <1>3
  <2> HIDE DEF At, D
  <2>2. FirstDef(p, At(i)) \in 1 .. Len(p) /\ FirstDef(p, At(j)) \in 1 .. Len(p)
        /\ \A v \in D : FirstDef(p, v) \in 1 .. Len(p)
    BY <2>1, RangeFacts DEF D
  <2>3. SUFFICES ASSUME FirstDef(p, At(j)) <= FirstDef(p, At(i)) PROVE FALSE
    BY <2>2
  <2>4. UpTo(p, At(j)) \subseteq UpTo(p, At(i)) /\ UpTo(p, At(i)) \subseteq D
    BY <2>1, <2>2, <2>3 DEF UpTo, D
  <2>5. IsFiniteSet(UpTo(p, At(i)))
    BY <1>1, <2>4, FS_Subset
  <2>6. Cardinality(UpTo(p, At(j))) <= Cardinality(UpTo(p, At(i)))
    BY <2>4, <2>5, FS_Subset
  <2> QED  BY <1>4, <2>1, <2>6
<1> HIDE DEF At, D, n
<1>5. DOMAIN ScanOrder(p) = 1 .. n /\ \A i \in 1 .. n : ScanOrder(p)[i] = At(i)
  BY <1>2
<1> QED  BY <1>1, <1>3, <1>4, <1>5 DEF D, n

\* The ranges of a program are what the scan takes.
LEMMA RangesAreSorted ==
  ASSUME NEW p, IsProgram(p)
  PROVE  /\ RangesOf(p) \in Seq(LiveRange) /\ SortedRanges(RangesOf(p))
         /\ 1 .. Len(RangesOf(p)) = DOMAIN ScanOrder(p)
         /\ \A i \in DOMAIN ScanOrder(p) :
              /\ RangesOf(p)[i].first = FirstDef(p, ScanOrder(p)[i])
              /\ RangesOf(p)[i].last = EndOfRange(p, ScanOrder(p)[i])
<1> DEFINE n == Cardinality(Defined(p))
           r(i) == [first |-> FirstDef(p, ScanOrder(p)[i]), last |-> EndOfRange(p, ScanOrder(p)[i]),
                    pair |-> ScanOrder(p)[i] \in Pairs]
<1>1. /\ n \in Nat /\ DOMAIN ScanOrder(p) = 1 .. n
      /\ \A i \in 1 .. n : ScanOrder(p)[i] \in Defined(p)
      /\ \A i, j \in 1 .. n : i < j => FirstDef(p, ScanOrder(p)[i]) < FirstDef(p, ScanOrder(p)[j])
  BY ScanOrderFacts
<1> HIDE DEF n
<1>2. RangesOf(p) = [i \in 1 .. n |-> r(i)]
  BY <1>1 DEF RangesOf
<1>3. ASSUME NEW i \in 1 .. n
      PROVE  /\ r(i) \in LiveRange /\ r(i).first = FirstDef(p, ScanOrder(p)[i])
             /\ r(i).last = EndOfRange(p, ScanOrder(p)[i]) /\ r(i).first <= r(i).last
  <2> DEFINE v == ScanOrder(p)[i]
  <2>1. v \in Defined(p)
    BY <1>1
  <2> HIDE DEF v
  <2>2. /\ FirstDef(p, v) \in 1 .. Len(p) /\ LastUse(p, v) \in 1 .. Len(p)
        /\ EndOfRange(p, v) \in 1 .. Len(p) /\ LastUse(p, v) <= EndOfRange(p, v)
        /\ FirstDef(p, v) <= LastUse(p, v) /\ Len(p) \in Nat
    BY <2>1, RangeFacts, EndFacts, ProgramFacts
  <2>3. FirstDef(p, v) \in Nat /\ EndOfRange(p, v) \in Nat /\ FirstDef(p, v) <= EndOfRange(p, v)
    BY <2>2
  <2> QED  BY <2>3 DEF v, LiveRange
<1> HIDE DEF r
<1>4. RangesOf(p) \in Seq(LiveRange) /\ Len(RangesOf(p)) = n
  BY <1>1, <1>2, <1>3
<1>5. \A i \in 1 .. n : RangesOf(p)[i] = r(i)
  BY <1>2
<1>6. SortedRanges(RangesOf(p))
  BY <1>1, <1>3, <1>4, <1>5 DEF SortedRanges
<1> QED  BY <1>1, <1>3, <1>4, <1>5, <1>6

-----------------------------------------------------------------------------
(* The pass.                                                               *)

\* The program stays, and with it what the scan reads.
AllocInv ==
  /\ IInv
  /\ IsProgram(prog) /\ NothingUndefinedIsRead(prog)
  /\ ranges = RangesOf(prog)

\* The pass starts with the ranges of its program.
LEMMA AllocInitInv == AllocInit => AllocInv
<1> SUFFICES ASSUME AllocInit PROVE AllocInv
  OBVIOUS
<1>1. IsProgram(prog) /\ NothingUndefinedIsRead(prog) /\ ranges = RangesOf(prog) /\ Start
  BY ProgramsAssumption DEF AllocInit, IsProgram
<1>2. ranges \in Seq(LiveRange) /\ SortedRanges(ranges)
  BY <1>1, RangesAreSorted
<1> QED  BY <1>1, <1>2, StartInv DEF AllocInv

\* No step of the scan changes the ranges.
LEMMA RangesStay ==
  ASSUME [Next]_vars
  PROVE  ranges' = ranges
BY DEF Next, vars, ExpireEntry, ExpiryDone, AssignSingle, AssignPair, PairFallback, LeaveUnmapped, NextRange

\* The invariant of the scan holds for the ranges the pass makes of a program.
THEOREM AllocInvariance == AllocSpec => []AllocInv
<1>1. AllocInit => AllocInv
  BY AllocInitInv
<1>2. AllocInv /\ [AllocNext]_<<vars, prog>> => AllocInv'
  <2> SUFFICES ASSUME AllocInv, [AllocNext]_<<vars, prog>> PROVE AllocInv'
    OBVIOUS
  <2>1. [Next]_vars /\ prog' = prog
    BY DEF AllocNext
  <2>2. IInv'
    BY <2>1, NextInv DEF AllocInv
  <2>3. ranges' = ranges
    BY <2>1, RangesStay
  <2> QED  BY <2>1, <2>2, <2>3 DEF AllocInv
<1> QED  BY <1>1, <1>2, PTL DEF AllocSpec

\* No instruction that some path executes overwrites the register of a value
\* that a path from there still reads, whatever the program, the registers and
\* the choice of pairs.
THEOREM NothingLiveIsOverwritten == AllocSpec => []NoClobber
<1>1. AllocInv => NoClobber
  <2> SUFFICES ASSUME AllocInv, pc = "done", ~fellBack, LaidOutInOrder(prog), LoopReadsAreSeen(prog),
                      NEW v \in Vregs, NEW w \in Vregs \ {v}, NEW i \in Defs(prog, w),
                      LiveAfter(prog, i, v), BlockOf(prog, i) \in ReachableBlocks(BuildCFG(prog)),
                      NEW r \in RegistersFor(v) \cap RegistersFor(w)
               PROVE  FALSE
    BY DEF NoClobber
  <2>1. NoSharing /\ ranges = RangesOf(prog) /\ IsProgram(prog) /\ NothingUndefinedIsRead(prog)
    BY DEF AllocInv, IInv
  <2>2. PICK j \in DOMAIN ScanOrder(prog) : ScanOrder(prog)[j] = v /\ r \in Registers(j)
    BY DEF RegistersFor
  <2>3. PICK k \in DOMAIN ScanOrder(prog) : ScanOrder(prog)[k] = w /\ r \in Registers(k)
    BY DEF RegistersFor
  <2>4. j # k /\ j \in 1 .. Len(ranges) /\ k \in 1 .. Len(ranges)
    BY <2>1, <2>2, <2>3, RangesAreSorted
  <2>5. /\ ranges[j].first = FirstDef(prog, v) /\ ranges[j].last = EndOfRange(prog, v)
        /\ ranges[k].first = FirstDef(prog, w) /\ ranges[k].last = EndOfRange(prog, w)
    BY <2>1, <2>2, <2>3, RangesAreSorted
  <2>6. i \in Defs(prog, w) \cap Runs(prog)
    BY DEF Runs, Defs
  <2>7. /\ v \in Defined(prog) /\ w \in Defined(prog)
        /\ FirstDef(prog, v) <= i /\ i <= EndOfRange(prog, v)
        /\ FirstDef(prog, w) <= i /\ i <= EndOfRange(prog, w)
    BY <2>1, <2>6, RangesMeet
  <2>8. /\ i \in 1 .. Len(prog) /\ Len(prog) \in Nat
        /\ FirstDef(prog, v) \in 1 .. Len(prog) /\ EndOfRange(prog, v) \in 1 .. Len(prog)
        /\ FirstDef(prog, w) \in 1 .. Len(prog) /\ EndOfRange(prog, w) \in 1 .. Len(prog)
    BY <2>1, <2>6, <2>7, RangeFacts, EndFacts, ProgramFacts DEF Runs
  <2>9. Overlap(j, k)
    BY <2>5, <2>7, <2>8 DEF Overlap
  <2> QED  BY <2>1, <2>2, <2>3, <2>4, <2>9 DEF NoSharing
<1> QED
  BY <1>1, AllocInvariance, PTL

=============================================================================
