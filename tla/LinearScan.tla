----------------------------- MODULE LinearScan -----------------------------
(***************************************************************************)
(* passes/register_allocation.py, LinearScanRegisterAllocationPass.run from*)
(* line 97 on: the scan over the merged live ranges in the order of their  *)
(* first definition.  Each range first returns the registers of the ranges *)
(* that ended to the free list (one entry of the active list per step),    *)
(* then takes a register, or an even/odd pair for a 64-bit virtual         *)
(* register.                                                               *)
(*                                                                         *)
(* free_list is a stack: the code pops from its end and appends to it.     *)
(***************************************************************************)
EXTENDS Integers, Sequences, FiniteSets

CONSTANTS
  MaxGpr,       \* R1 .. R(MaxGpr) may be allocated; 239 in the code
  Inputs        \* the sorted lists of ranges: [first, last, pair]

Unmapped == -1

ASSUME MaxGprAssumption == MaxGpr \in Nat \ {0}

LiveRange == [first: Nat, last: Nat, pair: BOOLEAN]

\* sorted_regs: ordered by first definition (an instruction defines at most one
\* register, so no two are equal), none ends before it begins.
SortedRanges(s) ==
  /\ \A i \in 1 .. Len(s) : s[i].first <= s[i].last
  /\ \A i, j \in 1 .. Len(s) : i < j => s[i].first < s[j].first

ASSUME InputsAssumption ==
  Inputs \subseteq {s \in Seq(LiveRange) : SortedRanges(s)}

VARIABLES
  pc,           \* "expire", "assign" or "done"
  ranges,       \* sorted_regs
  cur,          \* the range being allocated
  mapping,      \* range -> its register, or Unmapped
  active,       \* sequence of <<end, register>>
  scan,         \* the entry of active the expiry loop looks at
  stillActive,
  freeList,
  fellBack      \* history: the pair fallback has released a register

vars == <<pc, ranges, cur, mapping, active, scan, stillActive, freeList, fellBack>>

Start ==
  /\ pc = IF ranges = << >> THEN "done" ELSE "expire"
  /\ cur = 1
  /\ mapping = [v \in 1 .. Len(ranges) |-> Unmapped]
  /\ active = << >> /\ scan = 1 /\ stillActive = << >>
  /\ freeList = [i \in 1 .. MaxGpr |-> MaxGpr + 1 - i]     \* R1 on top
  /\ fellBack = FALSE

Init == ranges \in Inputs /\ Start

-----------------------------------------------------------------------------
(* Expiry. *)

\* Variant for the mutants: a range that ends where the next begins is expired.
ExpireEntryEarly ==
  /\ pc = "expire" /\ scan <= Len(active)
  /\ IF active[scan][1] <= ranges[cur].first
     THEN /\ freeList' = Append(freeList, active[scan][2])
          /\ UNCHANGED stillActive
     ELSE /\ stillActive' = Append(stillActive, active[scan])
          /\ UNCHANGED freeList
  /\ scan' = scan + 1
  /\ UNCHANGED <<pc, ranges, cur, mapping, active, fellBack>>

ExpireEntry ==
  /\ pc = "expire" /\ scan <= Len(active)
  /\ IF active[scan][1] < ranges[cur].first
     THEN /\ freeList' = Append(freeList, active[scan][2])
          /\ UNCHANGED stillActive
     ELSE /\ stillActive' = Append(stillActive, active[scan])
          /\ UNCHANGED freeList
  /\ scan' = scan + 1
  /\ UNCHANGED <<pc, ranges, cur, mapping, active, fellBack>>

\* Variant for the mutants: the entries that are still active are forgotten.
ExpiryDoneForgets ==
  /\ pc = "expire" /\ scan > Len(active)
  /\ active' = << >>
  /\ scan' = 1 /\ stillActive' = << >>
  /\ pc' = "assign"
  /\ UNCHANGED <<ranges, cur, mapping, freeList, fellBack>>

ExpiryDone ==
  /\ pc = "expire" /\ scan > Len(active)
  /\ active' = stillActive
  /\ scan' = 1 /\ stillActive' = << >>
  /\ pc' = "assign"
  /\ UNCHANGED <<ranges, cur, mapping, freeList, fellBack>>

-----------------------------------------------------------------------------
(* Assignment. *)

\* list.pop(i)
DropAt(s, i) == [k \in 1 .. Len(s) - 1 |-> IF k < i THEN s[k] ELSE s[k + 1]]

\* The loop's next iteration.
NextRange ==
  /\ cur' = cur + 1
  /\ pc' = IF cur = Len(ranges) THEN "done" ELSE "expire"
  /\ UNCHANGED <<ranges, scan, stillActive>>

AssignSingle ==
  /\ pc = "assign" /\ ~ranges[cur].pair /\ freeList # << >>
  /\ LET phys == freeList[Len(freeList)]
     IN  /\ mapping' = [mapping EXCEPT ![cur] = phys]
         /\ active' = Append(active, <<ranges[cur].last, phys>>)
         /\ freeList' = DropAt(freeList, Len(freeList))
  /\ NextRange
  /\ UNCHANGED fellBack

\* Variant for the mutants: the successor is looked for below the entry only,
\* where it is in the list the scan begins with.
PairEntriesBelow ==
  {i \in 1 .. Len(freeList) :
     /\ freeList[i] % 2 = 0
     /\ \E j \in 1 .. i - 1 : freeList[j] = freeList[i] + 1}

\* The even entries of the free list whose successor is free as well.
PairEntries ==
  {i \in 1 .. Len(freeList) :
     /\ freeList[i] % 2 = 0
     /\ \E j \in 1 .. Len(freeList) : freeList[j] = freeList[i] + 1}

\* The free list without entry i and without the first entry of its successor.
WithoutPair(i) ==
  LET j == CHOOSE k \in 1 .. Len(freeList) :
             /\ freeList[k] = freeList[i] + 1
             /\ \A l \in 1 .. k - 1 : freeList[l] # freeList[i] + 1
  IN  IF i > j THEN DropAt(DropAt(freeList, i), j)
               ELSE DropAt(DropAt(freeList, j), i)

\* The search runs from the top of the stack, so the highest entry is taken.
AssignPair ==
  /\ pc = "assign" /\ ranges[cur].pair
  /\ \E i \in PairEntries :
       /\ \A k \in PairEntries : k <= i
       /\ freeList[i] # 0
       /\ mapping' = [mapping EXCEPT ![cur] = freeList[i]]
       /\ active' = active \o << <<ranges[cur].last, freeList[i]>>,
                                 <<ranges[cur].last, freeList[i] + 1>> >>
       /\ freeList' = WithoutPair(i)
  /\ NextRange
  /\ UNCHANGED fellBack

\* No pair was assigned.  (R0 cannot be: a search that found it has removed
\* R0 and R1 from the free list.)  What is left of the free list:
AfterSearch ==
  IF PairEntries = {} THEN freeList
  ELSE WithoutPair(CHOOSE i \in PairEntries : \A k \in PairEntries : k <= i)
NoPairAssigned == \A i \in PairEntries :
                    (\A k \in PairEntries : k <= i) => freeList[i] = 0

\* The fallback pops one register and steps down to an even number; only the
\* popped register was free.  If the next register is free the pair is taken,
\* otherwise the even number goes on the free list.
PairFallback ==
  /\ pc = "assign" /\ ranges[cur].pair /\ NoPairAssigned
  /\ Len(AfterSearch) >= 2
  /\ LET top  == AfterSearch[Len(AfterSearch)]
         phys == IF top % 2 = 1 THEN top - 1 ELSE top
         rest == DropAt(AfterSearch, Len(AfterSearch))
     IN  IF \E j \in 1 .. Len(rest) : rest[j] = phys + 1
         THEN LET j == CHOOSE k \in 1 .. Len(rest) :
                         /\ rest[k] = phys + 1
                         /\ \A l \in 1 .. k - 1 : rest[l] # phys + 1
                  taken == phys > 0 /\ phys + 1 <= MaxGpr
              IN  /\ freeList' = DropAt(rest, j)
                  /\ mapping' = IF taken THEN [mapping EXCEPT ![cur] = phys]
                                         ELSE mapping
                  /\ active' = IF taken
                               THEN active \o << <<ranges[cur].last, phys>>,
                                                 <<ranges[cur].last, phys + 1>> >>
                               ELSE active
                  /\ fellBack' = TRUE
         ELSE /\ freeList' = Append(rest, phys)
              /\ fellBack' = (fellBack \/ phys # top)
              /\ UNCHANGED <<mapping, active>>
  /\ NextRange

\* Registers are exhausted: the range stays unmapped, there is no spilling.
LeaveUnmapped ==
  /\ pc = "assign"
  /\ IF ranges[cur].pair THEN NoPairAssigned /\ Len(AfterSearch) < 2
                         ELSE freeList = << >>
  /\ freeList' = IF ranges[cur].pair THEN AfterSearch ELSE freeList
  /\ NextRange
  /\ UNCHANGED <<mapping, active, fellBack>>

Next == \/ ExpireEntry \/ ExpiryDone
        \/ AssignSingle \/ AssignPair \/ PairFallback \/ LeaveUnmapped

Spec == Init /\ [][Next]_vars

-----------------------------------------------------------------------------
(* Properties. *)

Registers(v) == IF mapping[v] = Unmapped THEN {}
                ELSE IF ranges[v].pair THEN {mapping[v], mapping[v] + 1}
                ELSE {mapping[v]}
Overlap(v, w) == ranges[v].first <= ranges[w].last
                   /\ ranges[w].first <= ranges[v].last
RegistersOf(s) == {s[i][2] : i \in 1 .. Len(s)}
FreeRegisters == {freeList[i] : i \in 1 .. Len(freeList)}

TypeOK ==
  /\ pc \in {"expire", "assign", "done"}
  /\ ranges \in Seq(LiveRange) /\ SortedRanges(ranges)
  /\ cur \in 1 .. Len(ranges) + 1
  /\ mapping \in [1 .. Len(ranges) -> {Unmapped} \cup 0 .. MaxGpr]
  /\ active \in Seq(Nat \X (0 .. MaxGpr))
  /\ stillActive \in Seq(Nat \X (0 .. MaxGpr))
  /\ scan \in 1 .. Len(active) + 1
  /\ freeList \in Seq(0 .. MaxGpr)
  /\ fellBack \in BOOLEAN

\* Two ranges that overlap never share a register, pair halves included.
NoSharing ==
  \A v, w \in 1 .. Len(ranges) :
    v # w /\ Overlap(v, w) => Registers(v) \cap Registers(w) = {}

\* As long as the pair fallback has not stepped down to a register that was not
\* free, overlapping ranges do not share.
NoSharingBeforeFallback == ~fellBack => NoSharing

\* Every register is accounted for: free, active, or on its way from the active
\* list to the free list, exactly once.  What a range releases is what it took.
Pending == SubSeq(active, scan, Len(active))
Conserved ==
  ~fellBack =>
    LET held == IF pc = "expire" THEN stillActive \o Pending ELSE active
    IN  /\ Len(freeList) + Len(held) = MaxGpr
        /\ FreeRegisters \cup RegistersOf(held) = 1 .. MaxGpr

\* The registers of earlier ranges that are alive where range v begins.
AliveRegisters(v) ==
  {r \in 1 .. MaxGpr : \E w \in 1 .. cur - 1 : r \in Registers(w) /\ ranges[w].last >= ranges[v].first}

\* Single registers are left unmapped only under real pressure: when none is
\* free, MaxGpr registers are held by ranges that are still alive.
UnmappedOnlyUnderPressure ==
  [][\A v \in 1 .. Len(ranges) :
       /\ v = cur /\ pc = "assign" /\ cur' # cur
       /\ ~ranges[v].pair /\ mapping'[v] = Unmapped /\ ~fellBack
       => Cardinality(AliveRegisters(v)) = MaxGpr]_vars

\* A 64-bit range is left without a pair, or steps down to a register that was
\* not free, only when there is no pair to be had: every even register or the
\* one behind it is held by a range that is still alive.
NoPairOnlyUnderPressure ==
  [][\A v \in 1 .. Len(ranges) :
       /\ v = cur /\ pc = "assign" /\ cur' # cur
       /\ ranges[v].pair /\ ~fellBack /\ (mapping'[v] = Unmapped \/ fellBack')
       => \A r \in 1 .. MaxGpr - 1 : r % 2 = 0 => {r, r + 1} \cap AliveRegisters(v) # {}]_vars

-----------------------------------------------------------------------------
(* The inductive invariant behind NoSharingBeforeFallback. *)

\* The registers on the free list, of the entries the expiry has kept and of
\* those it has not looked at are pairwise different.
Apart ==
  /\ \A i, j \in 1 .. Len(freeList) : freeList[i] = freeList[j] => i = j
  /\ \A i, j \in 1 .. Len(stillActive) : stillActive[i][2] = stillActive[j][2] => i = j
  /\ \A i, j \in scan .. Len(active) : active[i][2] = active[j][2] => i = j
  /\ \A i \in 1 .. Len(stillActive), j \in scan .. Len(active) :
       stillActive[i][2] # active[j][2]
  /\ \A i \in 1 .. Len(freeList), j \in 1 .. Len(stillActive) :
       freeList[i] # stillActive[j][2]
  /\ \A i \in 1 .. Len(freeList), j \in scan .. Len(active) :
       freeList[i] # active[j][2]

HeldUntil(end, r) ==
  \/ \E j \in 1 .. Len(stillActive) : stillActive[j] = <<end, r>>
  \/ \E j \in scan .. Len(active) : active[j] = <<end, r>>

\* Every register of a range that is alive where the current one begins is held.
AliveIsHeld ==
  \A v \in 1 .. cur - 1 :
    cur <= Len(ranges) /\ ranges[v].last >= ranges[cur].first =>
      \A r \in Registers(v) : HeldUntil(ranges[v].last, r)

\* R0 is neither free nor held.
NoZero ==
  /\ \A i \in 1 .. Len(freeList) : freeList[i] # 0
  /\ \A i \in 1 .. Len(stillActive) : stillActive[i][2] # 0
  /\ \A i \in 1 .. Len(active) : active[i][2] # 0

PhaseInv ==
  /\ pc # "done" => cur <= Len(ranges)
  /\ pc = "assign" => scan = 1 /\ stillActive = << >>
  /\ \A v \in cur .. Len(ranges) : mapping[v] = Unmapped

IInv ==
  /\ TypeOK /\ PhaseInv
  /\ ~fellBack => Apart /\ AliveIsHeld /\ NoSharing /\ NoZero
=============================================================================
