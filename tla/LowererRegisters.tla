-------------------------- MODULE LowererRegisters --------------------------
(***************************************************************************)
(* legacy_lowering.py, RegisterAllocator under Lowerer.lower: how the      *)
(* lowering names the physical register of a virtual register.  A register *)
(* the linear scan mapped keeps its mapping; any other takes, at its first *)
(* use, the next registers nobody has reserved and keeps them for good;    *)
(* immediates and parameter addresses take temporaries, which start over   *)
(* with every item.                                                        *)
(***************************************************************************)
EXTENDS Integers, FiniteSets

CONSTANTS
  Vregs,         \* virtual registers of the program
  Pairs,         \* those with 64 bits (%rd, %bd): two physical registers
  ByName,        \* those _ptx_reg knows to be pairs by their name (%rd)
  TempBase,      \* the first temporary, 240
  LastReg,       \* the last register of the file, 255
  PreMappings    \* the mappings the linear scan may hand over

Width(v) == IF v \in Pairs THEN 2 ELSE 1
Span(v, r) == r .. r + Width(v) - 1

ASSUME LowererAssumption ==
  /\ ByName \subseteq Pairs /\ Pairs \subseteq Vregs /\ 0 \notin Vregs
  /\ TempBase \in Nat \ {0} /\ LastReg \in Nat /\ TempBase <= LastReg

\* A pre-mapping is partial; it lies in R1 .. R(TempBase-1), pairs included.
ASSUME PreMappingsAssumption ==
  \A m \in PreMappings : \A v \in DOMAIN m :
    v \in Vregs /\ m[v] \in Nat \ {0} /\ m[v] + Width(v) <= TempBase

VARIABLES
  pre,           \* _pre_mapping
  mapping,       \* _mapping, a partial function
  reserved,      \* _reserved
  next,          \* _next
  temp,          \* _temp_next
  failed         \* a CompileError was raised

vars == <<pre, mapping, reserved, next, temp, failed>>

\* Variant for the mutants: the second half of a pair is not reserved.
ReservedByFirstHalf(m) == {m[v] : v \in DOMAIN m}
ReservedBy(m) == UNION {Span(v, m[v]) : v \in DOMAIN m}

Init ==
  /\ pre \in PreMappings
  /\ mapping = pre /\ reserved = ReservedBy(pre)
  /\ next = 1 /\ temp = TempBase /\ failed = FALSE

\* The widths reg may be asked for.  _ptx_reg corrects the call site only for
\* the names it knows; a load asks one register for its destination whatever
\* its type, a move asks two for a 64-bit one.
Asked(v) == IF v \in ByName THEN {2} ELSE IF v \in Pairs THEN {1, 2} ELSE {1}

\* The bases _allocate may return: even for a pair, unreserved, below the
\* temporaries.  It takes the least.
Bases(width) == {b \in next .. TempBase - 1 :
                   /\ width = 2 => b % 2 = 0
                   /\ (b .. b + width - 1) \cap reserved = {}
                   /\ b + width <= TempBase}
Allocate(v) ==
  /\ ~failed /\ v \notin DOMAIN mapping
  /\ \E width \in Asked(v) : \E b \in Bases(width) :
       /\ \A c \in Bases(width) : b <= c
       /\ mapping' = [w \in DOMAIN mapping \cup {v} |-> IF w = v THEN b ELSE mapping[w]]
       /\ reserved' = reserved \cup (b .. b + width - 1)
       /\ next' = b + width
  /\ UNCHANGED <<pre, temp, failed>>

OutOfRegisters(v) ==
  /\ ~failed /\ v \notin DOMAIN mapping
  /\ \E width \in Asked(v) : Bases(width) = {}
  /\ failed' = TRUE
  /\ UNCHANGED <<pre, mapping, reserved, next, temp>>

TakeTemp ==
  /\ ~failed /\ temp <= LastReg
  /\ temp' = temp + 1
  /\ UNCHANGED <<pre, mapping, reserved, next, failed>>

OutOfTemps ==
  /\ ~failed /\ temp > LastReg
  /\ failed' = TRUE
  /\ UNCHANGED <<pre, mapping, reserved, next, temp>>

\* lower(): the next item starts with all temporaries.
NextItem ==
  /\ ~failed /\ temp' = TempBase
  /\ UNCHANGED <<pre, mapping, reserved, next, failed>>

Next == \/ \E v \in Vregs : Allocate(v) \/ OutOfRegisters(v)
        \/ TakeTemp \/ OutOfTemps \/ NextItem

Spec == Init /\ [][Next]_vars

-----------------------------------------------------------------------------
(* Properties. *)

Registers(v) == Span(v, mapping[v])

TypeOK ==
  /\ pre \in PreMappings
  /\ DOMAIN mapping \subseteq Vregs
  /\ \A v \in DOMAIN mapping : mapping[v] \in 1 .. TempBase - 1
  /\ reserved \subseteq 1 .. TempBase - 1
  /\ next \in 1 .. TempBase
  /\ temp \in TempBase .. LastReg + 1
  /\ failed \in BOOLEAN

\* A register the lowering allocates itself is never shared: not with a pair
\* half, not with anything the linear scan mapped (whose own sharing rests on
\* live ranges the lowering knows nothing of).
NoSharedRegister ==
  \A v \in DOMAIN mapping : \A w \in DOMAIN mapping \ {v} :
    v \notin DOMAIN pre => Registers(v) \cap Registers(w) = {}

\* No virtual register reaches into the temporaries.
TempsAreApart == \A v \in DOMAIN mapping : Registers(v) \cap TempBase .. LastReg = {}

\* The strengthening: what is mapped is reserved, and a pre-mapped register keeps
\* its place.
IInv ==
  /\ TypeOK /\ NoSharedRegister /\ TempsAreApart
  /\ \A v \in DOMAIN mapping : Registers(v) \subseteq reserved
  /\ DOMAIN pre \subseteq DOMAIN mapping
=============================================================================
