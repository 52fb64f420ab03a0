----------------------- MODULE LowererRegistersProofs -----------------------
(***************************************************************************)
(* For every set of virtual registers, every file size and every           *)
(* pre-mapping: what the lowering allocates is never shared and never a    *)
(* temporary, provided every 64-bit register is one by its name.           *)
(***************************************************************************)
EXTENDS LowererRegisters, TLAPS

\* What _ptx_reg relies on (for %bd names it does not hold).
NamesTellWidths == Pairs = ByName

\* Names used throughout.
LEMMA WidthIsOneOrTwo ==
  ASSUME NEW v
  PROVE  /\ Width(v) \in {1, 2}
         /\ NamesTellWidths /\ v \in Vregs => Asked(v) = {Width(v)}
  BY DEF Width, Asked, NamesTellWidths

\* The invariant holds at the start: the pre-mapping's registers are reserved.
LEMMA InitInv == Init => IInv
<1> SUFFICES ASSUME Init PROVE IInv
  OBVIOUS
<1> USE LowererAssumption, PreMappingsAssumption
<1>1. \A v \in DOMAIN pre : /\ v \in Vregs /\ pre[v] \in Nat \ {0}
                            /\ pre[v] + Width(v) <= TempBase
  BY DEF Init
<1>2. \A v : Width(v) \in {1, 2}
  BY WidthIsOneOrTwo
<1>3. \A v \in DOMAIN mapping : Registers(v) \subseteq reserved
  BY DEF Init, ReservedBy, Registers
<1>4. reserved \subseteq 1 .. TempBase - 1
  <2> SUFFICES ASSUME NEW v \in DOMAIN pre, NEW r \in Span(v, pre[v])
               PROVE  r \in 1 .. TempBase - 1
    BY DEF Init, ReservedBy
  <2> QED  BY <1>1, <1>2 DEF Span
<1>5. TypeOK
  <2>1. \A v \in DOMAIN mapping : mapping[v] \in 1 .. TempBase - 1
    <3> SUFFICES ASSUME NEW v \in DOMAIN pre PROVE pre[v] \in 1 .. TempBase - 1
      BY DEF Init
    <3>1. Width(v) >= 1 /\ Width(v) \in Nat
      BY <1>2
    <3> QED  BY <1>1, <3>1
  <2>2. next \in 1 .. TempBase /\ temp \in TempBase .. LastReg + 1
    BY DEF Init
  <2>3. DOMAIN mapping \subseteq Vregs /\ pre \in PreMappings /\ failed \in BOOLEAN
    BY <1>1 DEF Init
  <2> QED  BY <1>4, <2>1, <2>2, <2>3 DEF TypeOK
<1>6. NoSharedRegister
  BY DEF Init, NoSharedRegister
<1>7. TempsAreApart
  BY <1>3, <1>4 DEF TempsAreApart
<1> QED
  BY <1>3, <1>5, <1>6, <1>7 DEF Init, IInv

\* An allocation takes registers nobody has reserved, below the temporaries.
LEMMA AllocateInv ==
  ASSUME NamesTellWidths, IInv, NEW v \in Vregs, Allocate(v)
  PROVE  IInv'
<1> USE LowererAssumption DEF IInv
<1>1. PICK b \in Bases(Width(v)) :
        /\ mapping' = [w \in DOMAIN mapping \cup {v} |-> IF w = v THEN b ELSE mapping[w]]
        /\ reserved' = reserved \cup (b .. b + Width(v) - 1)
        /\ next' = b + Width(v)
  BY WidthIsOneOrTwo DEF Allocate
<1>2. /\ Width(v) \in {1, 2} /\ b \in Nat /\ 1 <= b /\ b + Width(v) <= TempBase
      /\ Span(v, b) \cap reserved = {}
  BY <1>1, WidthIsOneOrTwo DEF Bases, Span, TypeOK
<1>3. v \notin DOMAIN mapping /\ UNCHANGED <<pre, temp, failed>>
  BY DEF Allocate
<1>4. /\ DOMAIN mapping' = DOMAIN mapping \cup {v} /\ mapping'[v] = b
      /\ \A w \in DOMAIN mapping : mapping'[w] = mapping[w] /\ w # v
  BY <1>1, <1>3
<1>5. /\ Registers(v)' = Span(v, b)
      /\ \A w \in DOMAIN mapping : Registers(w)' = Registers(w)
  BY <1>4 DEF Registers
<1>6. reserved' = reserved \cup Span(v, b)
  BY <1>1 DEF Span
<1>7. (\A w \in DOMAIN mapping : Registers(w) \subseteq reserved)'
  BY <1>4, <1>5, <1>6
<1>8. TypeOK'
  <2>1. reserved' \subseteq 1 .. TempBase - 1
    <3>1. Span(v, b) \subseteq 1 .. TempBase - 1
      BY <1>2 DEF Span
    <3> QED  BY <1>6, <3>1 DEF TypeOK
  <2>2. next' \in 1 .. TempBase
    BY <1>1, <1>2
  <2>3. \A w \in DOMAIN mapping' : mapping'[w] \in 1 .. TempBase - 1
    BY <1>2, <1>4 DEF TypeOK
  <2> QED  BY <1>3, <1>4, <2>1, <2>2, <2>3 DEF TypeOK
<1>9. NoSharedRegister'
  <2> SUFFICES ASSUME NEW w \in DOMAIN mapping', NEW x \in DOMAIN mapping',
                      x # w, w \notin DOMAIN pre
               PROVE  Registers(w)' \cap Registers(x)' = {}
    BY <1>3 DEF NoSharedRegister
  <2>1. CASE w = v
    BY <2>1, <1>2, <1>4, <1>5
  <2>2. CASE x = v
    BY <2>2, <1>2, <1>4, <1>5
  <2>3. CASE w # v /\ x # v
    BY <2>3, <1>4, <1>5 DEF NoSharedRegister
  <2> QED  BY <2>1, <2>2, <2>3
<1>10. TempsAreApart'
  BY <1>7, <1>8 DEF TempsAreApart, TypeOK
<1> QED
  BY <1>3, <1>4, <1>7, <1>8, <1>9, <1>10

\* Every step keeps the invariant.
LEMMA NextInv ==
  ASSUME NamesTellWidths, IInv, [Next]_vars
  PROVE  IInv'
<1> USE LowererAssumption
<1>1. ASSUME NEW v \in Vregs, Allocate(v) PROVE IInv'
  BY <1>1, AllocateInv
<1>2. ASSUME UNCHANGED <<pre, mapping, reserved, next>>,
             temp' \in TempBase .. LastReg + 1, failed' \in BOOLEAN
      PROVE  IInv'
  <2> DEFINE keep == <<pre, mapping, reserved, next>>
  <2>1. TypeOK'
    BY <1>2 DEF IInv, TypeOK
  <2> QED
    BY <1>2, <2>1 DEF IInv, NoSharedRegister, TempsAreApart, Registers
<1>3. ASSUME NEW v \in Vregs, OutOfRegisters(v) PROVE IInv'
  BY <1>2, <1>3 DEF OutOfRegisters, IInv, TypeOK
<1>4. CASE TakeTemp
  BY <1>2, <1>4 DEF TakeTemp, IInv, TypeOK
<1>5. CASE OutOfTemps
  BY <1>2, <1>5 DEF OutOfTemps, IInv, TypeOK
<1>6. CASE NextItem
  BY <1>2, <1>6 DEF NextItem, IInv, TypeOK
<1>7. CASE UNCHANGED vars
  BY <1>2, <1>7 DEF vars, IInv, TypeOK
<1> QED
  BY <1>1, <1>3, <1>4, <1>5, <1>6, <1>7 DEF Next

\* What is mapped is reserved, in every reachable state.
THEOREM Invariance == NamesTellWidths => (Spec => []IInv)
<1> SUFFICES ASSUME NamesTellWidths PROVE Spec => []IInv
  OBVIOUS
<1>1. Init => IInv
  BY InitInv
<1>2. IInv /\ [Next]_vars => IInv'
  BY NextInv
<1> QED
  BY <1>1, <1>2, PTL DEF Spec

\* A register the lowering allocates itself is shared with no other.
THEOREM OwnRegistersAreNotShared == NamesTellWidths => (Spec => []NoSharedRegister)
<1> SUFFICES ASSUME NamesTellWidths PROVE Spec => []NoSharedRegister
  OBVIOUS
<1>1. IInv => NoSharedRegister
  BY DEF IInv
<1> QED
  BY <1>1, Invariance, PTL

\* No virtual register reaches into the temporaries.
THEOREM TempsStayApart == NamesTellWidths => (Spec => []TempsAreApart)
<1> SUFFICES ASSUME NamesTellWidths PROVE Spec => []TempsAreApart
  OBVIOUS
<1>1. IInv => TempsAreApart
  BY DEF IInv
<1> QED
  BY <1>1, Invariance, PTL
=============================================================================
