-------------------------- MODULE VirqTableProofs --------------------------
(***************************************************************************)
(* The tables implement HandleMap and never change a slot in use, for      *)
(* every set of IRQs, number of slots and list of registrations.  The      *)
(* search for a handle and the search for a free slot both start at slot   *)
(* 0; they agree because the used slots come before the free ones.         *)
(***************************************************************************)
EXTENDS VirqTable, LeastElement, FiniteSetTheorems

(* The used slots come before the free ones. *)
Packed == \A i, j \in Slots :
              vspis[i].virq # VIRQ_INVALID /\ vspis[j].virq = VIRQ_INVALID => i < j

IInv == TypeOK /\ Packed

LEMMA SlotFacts ==
    /\ Slots \subseteq Nat /\ IsFiniteSet(Slots)
    /\ VIRQ_INVALID \notin Irqs /\ Unused.virq = VIRQ_INVALID /\ Unused.ack_fn = NoHandle
    /\ LocalIrqs \cap SpiIrqs = {}
    /\ \A irq \in LocalIrqs : irq < NUM_VCPU_LOCAL_VIRQS
    /\ \A irq \in SpiIrqs : ~(irq < NUM_VCPU_LOCAL_VIRQS)
<1>1. Slots \subseteq Nat /\ IsFiniteSet(Slots)
  BY SlotAssumption, FS_Interval DEF Slots
<1>2. VIRQ_INVALID \notin Irqs
  BY LocalAssumption, SpiAssumption DEF VIRQ_INVALID, Irqs, NUM_VCPU_LOCAL_VIRQS
<1>3. Unused.virq = VIRQ_INVALID /\ Unused.ack_fn = NoHandle
  BY DEF Unused
<1>4. \A irq \in LocalIrqs : irq < NUM_VCPU_LOCAL_VIRQS
  BY LocalAssumption DEF NUM_VCPU_LOCAL_VIRQS
<1>5. \A irq \in SpiIrqs : ~(irq < NUM_VCPU_LOCAL_VIRQS)
  BY SpiAssumption DEF NUM_VCPU_LOCAL_VIRQS
<1> QED BY <1>1, <1>2, <1>3, <1>4, <1>5

(* What one registration does to the tables. *)
AddsSpi(h, i) ==
    /\ i \in Slots /\ vspis[i].virq = VIRQ_INVALID
    /\ \A j \in Slots : vspis[j].virq = VIRQ_INVALID => i <= j
    /\ err' = TRUE
    /\ vspis' = [vspis EXCEPT ![i] = h]
    /\ UNCHANGED local_virqs

RefusesSpi ==
    /\ \A i \in Slots : vspis[i].virq # VIRQ_INVALID
    /\ err' = FALSE
    /\ UNCHANGED <<vspis, local_virqs>>

LEMMA SpiAddCases ==
    ASSUME NEW h, virq_spi_add(h)
    PROVE  RefusesSpi \/ \E i \in Slots : AddsSpi(h, i)
<1>1. CASE FreeSlots = {}
  BY <1>1 DEF virq_spi_add, FreeSlots, RefusesSpi
<1>2. CASE FreeSlots # {}
  <2>1. FreeSlots \in SUBSET Nat /\ FreeSlots \subseteq Slots
    BY SlotFacts DEF FreeSlots
  <2>2. Min(FreeSlots) \in FreeSlots /\ \A j \in FreeSlots : Min(FreeSlots) <= j
    BY <1>2, <2>1, MinNat
  <2>3. AddsSpi(h, Min(FreeSlots))
    BY <1>2, <2>1, <2>2 DEF virq_spi_add, FreeSlots, AddsSpi
  <2> QED BY <2>1, <2>2, <2>3
<1> QED BY <1>1, <1>2

(* A registration step of init() is a registration of one of its calls. *)
LEMMA RegisterCall ==
    ASSUME TypeOK, RegisterIrq
    PROVE  LET h == calls[done + 1]
           IN  /\ done + 1 \in 1 .. Len(calls) /\ done' = done + 1
               /\ h \in VirqHandles /\ h.virq \in Irqs /\ h.ack_fn \in AckFns
               /\ \/ h.virq \in LocalIrqs /\ virq_sgi_ppi_add(h)
                  \/ h.virq \in SpiIrqs /\ virq_spi_add(h)
<1> DEFINE h == calls[done + 1]
<1>1. done \in 0 .. Len(calls) /\ done < Len(calls) /\ Len(calls) \in Nat /\ done' = done + 1
  BY DEF TypeOK, RegisterIrq
<1>2. done + 1 \in 1 .. Len(calls)
  BY <1>1
<1>3. h \in VirqHandles
  BY <1>2 DEF TypeOK
<1>4. h.virq \in Irqs /\ h.ack_fn \in AckFns /\ h = [virq |-> h.virq, ack_fn |-> h.ack_fn]
  BY <1>3 DEF VirqHandles
<1>5. virq_add(h)
  BY <1>4 DEF RegisterIrq, vgic_register_irq
<1> HIDE DEF h
<1>6. \/ h.virq \in LocalIrqs /\ virq_sgi_ppi_add(h)
      \/ h.virq \in SpiIrqs /\ virq_spi_add(h)
  BY <1>4, <1>5, SlotFacts DEF virq_add, Irqs
<1> QED BY <1>1, <1>2, <1>3, <1>4, <1>6 DEF h

LEMMA InitInv == Init => IInv
<1> SUFFICES ASSUME Init PROVE IInv
  OBVIOUS
<1>1. calls \in Seq(VirqHandles)
  <2>1. PICK n \in 1 .. MaxCalls : calls \in [1 .. n -> VirqHandles]
    BY DEF Init
  <2>2. n \in Nat
    BY CallsAssumption
  <2> QED BY <2>1, <2>2
<1>2. done \in 0 .. Len(calls)
  BY <1>1 DEF Init
<1>3. TypeOK
  BY <1>1, <1>2, SlotFacts DEF Init, TypeOK
<1>4. Packed
  BY SlotFacts DEF Init, Packed
<1> QED BY <1>3, <1>4 DEF IInv

LEMMA NextInv == IInv /\ [Next]_vars => IInv'
<1> SUFFICES ASSUME TypeOK, Packed, [Next]_vars PROVE IInv'
  BY DEF IInv
<1>1. CASE RegisterIrq
  <2> DEFINE h == calls[done + 1]
  <2>1. /\ done + 1 \in 1 .. Len(calls) /\ done' = done + 1
        /\ h \in VirqHandles /\ h.virq \in Irqs /\ h.ack_fn \in AckFns
        /\ \/ h.virq \in LocalIrqs /\ virq_sgi_ppi_add(h)
           \/ h.virq \in SpiIrqs /\ virq_spi_add(h)
    BY <1>1, RegisterCall
  <2>2. /\ calls' = calls /\ calls' \in Seq(VirqHandles) /\ done' \in 0 .. Len(calls')
        /\ guest' \in {"off", "started", "abandoned"}
    BY <1>1, <2>1 DEF RegisterIrq, TypeOK
  <2> HIDE DEF h
  <2>3. CASE h.virq \in LocalIrqs /\ virq_sgi_ppi_add(h)
    <3>1. TypeOK'
      BY <2>1, <2>2, <2>3 DEF TypeOK, virq_sgi_ppi_add
    <3>2. Packed'
      BY <2>3 DEF Packed, virq_sgi_ppi_add
    <3> QED BY <3>1, <3>2 DEF IInv
  <2>4. CASE RefusesSpi
    BY <2>2, <2>4 DEF IInv, TypeOK, Packed, RefusesSpi
  <2>5. ASSUME h.virq \in SpiIrqs, NEW i \in Slots, AddsSpi(h, i) PROVE IInv'
    <3>1. h \in [virq : SpiIrqs, ack_fn : AckFns] /\ h.virq # VIRQ_INVALID
      BY <2>1, <2>5, SlotFacts DEF VirqHandles
    <3>2. TypeOK'
      BY <2>2, <2>5, <3>1 DEF TypeOK, AddsSpi
    <3>3. ASSUME NEW k \in Slots, NEW j \in Slots,
                 vspis'[k].virq # VIRQ_INVALID, vspis'[j].virq = VIRQ_INVALID
          PROVE  k < j
      <4>1. j # i /\ vspis[j].virq = VIRQ_INVALID
        BY <2>5, <3>1, <3>3 DEF AddsSpi, TypeOK
      <4>2. i <= j /\ i \in Nat /\ j \in Nat
        BY <2>5, <4>1, SlotFacts DEF AddsSpi
      <4>3. k = i \/ vspis[k].virq # VIRQ_INVALID
        BY <2>5, <3>3 DEF AddsSpi, TypeOK
      <4>4. CASE k = i
        BY <4>1, <4>2, <4>4
      <4>5. CASE vspis[k].virq # VIRQ_INVALID
        BY <4>1, <4>5 DEF Packed
      <4> QED BY <4>3, <4>4, <4>5
    <3> QED BY <3>2, <3>3 DEF IInv, Packed
  <2> QED BY <2>1, <2>3, <2>4, <2>5, SpiAddCases
<1>2. CASE StartGuest
  BY <1>2 DEF StartGuest, table, IInv, TypeOK, Packed
<1>3. CASE UNCHANGED vars
  BY <1>3 DEF vars, IInv, TypeOK, Packed
<1> QED BY <1>1, <1>2, <1>3 DEF Next

LEMMA Invariant == Spec => []IInv
BY InitInv, NextInv, PTL DEF Spec

(* Slots are unused or hold a handle of their kind, whatever init()        *)
(* registers.                                                              *)
THEOREM TypeCorrect == Spec => []TypeOK
BY Invariant, PTL DEF IInv

----------------------------------------------------------------------------
(* No registration changes a slot in use (virq.h:119-145). *)
THEOREM StableSlots == Spec => SlotsStable
<1> DEFINE Stable ==
        /\ \A i \in Slots : vspis[i] # Unused => vspis'[i] = vspis[i]
        /\ \A irq \in LocalIrqs :
              local_virqs[irq] # Unused => local_virqs'[irq] = local_virqs[irq]
<1>1. IInv /\ [Next]_vars => [Stable]_vars
  <2> SUFFICES ASSUME TypeOK, [Next]_vars PROVE Stable \/ UNCHANGED vars
    BY DEF IInv
  <2>1. CASE RegisterIrq
    <3> DEFINE h == calls[done + 1]
    <3>1. \/ h.virq \in LocalIrqs /\ virq_sgi_ppi_add(h)
          \/ h.virq \in SpiIrqs /\ virq_spi_add(h)
      BY <2>1, RegisterCall
    <3> HIDE DEF h
    <3>2. CASE h.virq \in LocalIrqs /\ virq_sgi_ppi_add(h)
      <4>1. local_virqs[h.virq].virq = VIRQ_INVALID => local_virqs[h.virq] = Unused
        BY <3>2, SlotFacts DEF TypeOK, VirqHandles
      <4> QED BY <3>2, <4>1 DEF virq_sgi_ppi_add, TypeOK
    <3>3. CASE RefusesSpi
      BY <3>3 DEF RefusesSpi
    <3>4. ASSUME NEW i \in Slots, AddsSpi(h, i) PROVE Stable
      <4>1. vspis[i] = Unused
        BY <3>4, SlotFacts DEF AddsSpi, TypeOK, Irqs
      <4> QED BY <3>4, <4>1 DEF AddsSpi, TypeOK
    <3> QED BY <3>1, <3>2, <3>3, <3>4, SpiAddCases
  <2>2. CASE StartGuest
    BY <2>2 DEF StartGuest, table
  <2> QED BY <2>1, <2>2 DEF Next
<1> QED BY <1>1, Invariant, PTL DEF Spec, SlotsStable

----------------------------------------------------------------------------
(* What the search for a handle finds. *)
Found ==
    /\ \A irq \in LocalIrqs : virq_find_irq_data(irq) = local_virqs[irq]
    /\ \A irq \in SpiIrqs :
          \/ /\ \A i \in Slots : vspis[i].virq # irq
             /\ virq_find_irq_data(irq) = Unused
          \/ \E i \in Slots :
                /\ vspis[i].virq = irq
                /\ \A j \in Slots : vspis[j].virq = irq => i <= j
                /\ virq_find_irq_data(irq) = vspis[i]

LEMMA Finds == TypeOK => Found
<1> SUFFICES ASSUME TypeOK PROVE Found
  OBVIOUS
<1>1. ASSUME NEW irq \in LocalIrqs PROVE virq_find_irq_data(irq) = local_virqs[irq]
  BY SlotFacts DEF virq_find_irq_data, virq_get_sgi_ppi
<1>2. ASSUME NEW irq \in SpiIrqs
      PROVE  \/ /\ \A i \in Slots : vspis[i].virq # irq
                /\ virq_find_irq_data(irq) = Unused
             \/ \E i \in Slots :
                   /\ vspis[i].virq = irq
                   /\ \A j \in Slots : vspis[j].virq = irq => i <= j
                   /\ virq_find_irq_data(irq) = vspis[i]
  <2>1. virq_find_irq_data(irq) = virq_find_spi_irq_data(irq)
    BY <1>2, SlotFacts DEF virq_find_irq_data
  <2>2. irq # VIRQ_INVALID
    BY SlotFacts DEF Irqs
  <2>3. SlotsOf(irq) = {i \in Slots : vspis[i].virq = irq}
    BY <2>2 DEF SlotsOf
  <2>4. CASE SlotsOf(irq) = {}
    BY <2>1, <2>3, <2>4 DEF virq_find_spi_irq_data
  <2>5. CASE SlotsOf(irq) # {}
    <3>1. SlotsOf(irq) \in SUBSET Nat
      BY SlotFacts DEF SlotsOf
    <3>2. Min(SlotsOf(irq)) \in SlotsOf(irq) /\ \A y \in SlotsOf(irq) : Min(SlotsOf(irq)) <= y
      BY <2>5, <3>1, MinNat
    <3> QED BY <2>1, <2>3, <2>5, <3>2 DEF virq_find_spi_irq_data
  <2> QED BY <2>4, <2>5
<1> QED BY <1>1, <1>2 DEF Found

LEMMA FindsNext == TypeOK' => Found'
BY Finds, PTL

(* The handle found is one that was registered for the IRQ. *)
LEMMA HandleFound ==
    ASSUME TypeOK, NEW irq \in Irqs
    PROVE  /\ virq_find_irq_data(irq) # Unused => virq_find_irq_data(irq).virq = irq
           /\ virq_find_irq_data(irq) = Unused <=> virq_find_irq_data(irq).ack_fn = NoHandle
<1>1. Found
  BY Finds
<1>2. CASE irq \in LocalIrqs
  BY <1>1, <1>2, AckAssumption, SlotFacts DEF Found, TypeOK, VirqHandles
<1>3. CASE irq \in SpiIrqs
  BY <1>1, <1>3, AckAssumption, SlotFacts DEF Found, TypeOK, Irqs
<1> QED BY <1>2, <1>3 DEF Irqs

(* The handle of an IRQ before and after a registration. *)
LEMMA HandleAfterSpi ==
    ASSUME IInv, TypeOK', NEW h \in VirqHandles, h.virq \in SpiIrqs,
           NEW i \in Slots, AddsSpi(h, i), NEW irq \in Irqs
    PROVE  virq_find_irq_data(irq)' =
               IF irq = h.virq /\ virq_find_irq_data(irq) = Unused
               THEN h ELSE virq_find_irq_data(irq)
<1> USE DEF IInv
<1>1. Found /\ Found'
  BY Finds, FindsNext
<1>2. vspis' = [vspis EXCEPT ![i] = h] /\ local_virqs' = local_virqs
  BY DEF AddsSpi
<1>3. /\ \A j \in Slots : j # i => vspis'[j] = vspis[j]
      /\ vspis'[i] = h /\ vspis[i].virq = VIRQ_INVALID
  BY <1>2 DEF TypeOK, AddsSpi
<1>4. CASE irq \in LocalIrqs
  BY <1>1, <1>2, <1>4, SlotFacts DEF Found
<1>5. CASE irq \in SpiIrqs
  <2>1. irq # VIRQ_INVALID /\ \A j \in Slots : j \in Nat
    BY <1>5, SlotFacts DEF Irqs
  <2>2. CASE \A j \in Slots : vspis[j].virq # irq
    <3>1. virq_find_irq_data(irq) = Unused
      BY <1>1, <1>5, <2>2 DEF Found
    <3>2. CASE irq = h.virq
      <4>1. virq_find_irq_data(irq)' = vspis'[i]
        BY <1>1, <1>3, <1>5, <2>2, <3>2 DEF Found
      <4> QED BY <1>3, <3>1, <3>2, <4>1, SlotFacts
    <3>3. CASE irq # h.virq
      <4>1. virq_find_irq_data(irq)' = Unused
        BY <1>1, <1>3, <1>5, <2>2, <3>3 DEF Found
      <4> QED BY <3>1, <3>3, <4>1
    <3> QED BY <3>2, <3>3
  <2>3. ASSUME NEW k \in Slots, vspis[k].virq = irq,
               \A j \in Slots : vspis[j].virq = irq => k <= j,
               virq_find_irq_data(irq) = vspis[k]
        PROVE  virq_find_irq_data(irq)' =
                   IF irq = h.virq /\ virq_find_irq_data(irq) = Unused
                   THEN h ELSE virq_find_irq_data(irq)
    <3>1. k # i /\ k < i
      BY <1>3, <2>1, <2>3 DEF Packed
    <3>2. vspis'[k].virq = irq /\ vspis'[k] = vspis[k]
      BY <1>3, <2>3, <3>1
    <3>3. \A j \in Slots : vspis'[j].virq = irq => k <= j
      BY <1>3, <2>1, <2>3, <3>1
    <3>4. PICK l \in Slots : /\ vspis'[l].virq = irq
                             /\ \A j \in Slots : vspis'[j].virq = irq => l <= j
                             /\ virq_find_irq_data(irq)' = vspis'[l]
      BY <1>1, <1>5, <3>2 DEF Found
    <3>5. l = k
      BY <2>1, <3>2, <3>3, <3>4
    <3>6. vspis[k] # Unused
      BY <2>1, <2>3, SlotFacts
    <3> QED BY <2>3, <3>2, <3>4, <3>5, <3>6
  <2> QED BY <1>1, <1>5, <2>2, <2>3 DEF Found
<1> QED BY <1>4, <1>5 DEF Irqs

LEMMA HandleAfterLocal ==
    ASSUME IInv, TypeOK', NEW h \in VirqHandles, h.virq \in LocalIrqs,
           virq_sgi_ppi_add(h), NEW irq \in Irqs
    PROVE  /\ virq_find_irq_data(irq)' =
                 IF irq = h.virq /\ virq_find_irq_data(irq) = Unused
                 THEN h ELSE virq_find_irq_data(irq)
           /\ irq = h.virq => err' = (virq_find_irq_data(irq) = Unused)
<1> USE DEF IInv
<1>1. Found /\ Found'
  BY Finds, FindsNext
<1>2. vspis' = vspis
  BY DEF virq_sgi_ppi_add
<1>3. CASE irq \in LocalIrqs
  <2>1. local_virqs[irq].virq = VIRQ_INVALID <=> local_virqs[irq] = Unused
    BY <1>3, SlotFacts DEF TypeOK, VirqHandles
  <2>2. virq_find_irq_data(irq) = local_virqs[irq] /\ virq_find_irq_data(irq)' = local_virqs'[irq]
    BY <1>1, <1>3 DEF Found
  <2> QED BY <1>3, <2>1, <2>2 DEF virq_sgi_ppi_add, TypeOK
<1>4. CASE irq \in SpiIrqs
  <2>1. virq_find_irq_data(irq)' = virq_find_irq_data(irq)
    BY <1>2, <1>4, SlotFacts DEF virq_find_irq_data, virq_find_spi_irq_data, SlotsOf
  <2>2. irq # h.virq
    BY <1>4, SlotFacts
  <2> QED BY <2>1, <2>2
<1> QED BY <1>3, <1>4 DEF Irqs

(* The room taken is the number of SPI registrations. *)
LEMMA RoomTaken ==
    ASSUME TypeOK
    PROVE  /\ Cardinality(UsedSlots) \in Nat
           /\ (\E i \in Slots : vspis[i].virq = VIRQ_INVALID)
                 => Cardinality(UsedSlots) < NUM_SLOTS_SPI_VIRQ
           /\ (\A i \in Slots : vspis[i].virq # VIRQ_INVALID)
                 => Cardinality(UsedSlots) = NUM_SLOTS_SPI_VIRQ
           /\ IsFiniteSet(UsedSlots)
<1>1. UsedSlots \in SUBSET Slots /\ IsFiniteSet(Slots)
  BY SlotFacts DEF UsedSlots
<1>2. Cardinality(Slots) = NUM_SLOTS_SPI_VIRQ
  BY SlotAssumption, FS_Interval DEF Slots
<1>3. /\ IsFiniteSet(UsedSlots)
      /\ Cardinality(UsedSlots) <= Cardinality(Slots)
      /\ Cardinality(Slots) = Cardinality(UsedSlots) => Slots = UsedSlots
  BY <1>1, FS_Subset
<1>4. Cardinality(UsedSlots) \in Nat
  BY <1>3, FS_CardinalityType
<1>5. (\A i \in Slots : vspis[i].virq # VIRQ_INVALID) => UsedSlots = Slots
  BY DEF UsedSlots
<1>6. (\E i \in Slots : vspis[i].virq = VIRQ_INVALID) => UsedSlots # Slots
  BY DEF UsedSlots
<1> QED BY <1>2, <1>3, <1>4, <1>5, <1>6, SlotAssumption

(* The tables implement one handle per IRQ, the first registered, for      *)
(* every number of slots.                                                  *)
THEOREM RefinesMap == Spec => ImplementsMap
<1> DEFINE H == [irq \in Irqs |-> virq_find_irq_data(irq).ack_fn]
<1>1. Init => Map!Init
  <2> SUFFICES ASSUME Init PROVE Map!Init
    OBVIOUS
  <2>1. Found
    BY InitInv, Finds DEF IInv
  <2>2. \A irq \in Irqs : virq_find_irq_data(irq).ack_fn = NoHandle
    BY <2>1, SlotFacts DEF Init, Found, Irqs
  <2>3. UsedSlots = {}
    BY SlotFacts DEF Init, UsedSlots
  <2> QED BY <2>2, <2>3, FS_EmptySet DEF Init, Map!Init, Irqs
<1>2. IInv /\ IInv' /\ [Next]_vars => [Map!Next]_(Map!vars)
  <2> SUFFICES ASSUME IInv, IInv', [Next]_vars PROVE [Map!Next]_(Map!vars)
    OBVIOUS
  <2>1. CASE RegisterIrq
    <3> DEFINE h == calls[done + 1]
    <3>1. /\ h \in VirqHandles /\ h.virq \in Irqs /\ h.ack_fn \in AckFns
          /\ \/ h.virq \in LocalIrqs /\ virq_sgi_ppi_add(h)
             \/ h.virq \in SpiIrqs /\ virq_spi_add(h)
      BY <2>1, RegisterCall DEF IInv
    <3> HIDE DEF h
    <3>2. CASE h.virq \in LocalIrqs /\ virq_sgi_ppi_add(h)
      <4>1. /\ H' = IF H[h.virq] = NoHandle THEN [H EXCEPT ![h.virq] = h.ack_fn] ELSE H
            /\ err' = (H[h.virq] = NoHandle)
        BY <3>1, <3>2, HandleAfterLocal, HandleFound DEF IInv
      <4>2. Cardinality(UsedSlots)' = Cardinality(UsedSlots)
        BY <3>2 DEF virq_sgi_ppi_add, UsedSlots
      <4> QED BY <3>1, <3>2, <4>1, <4>2 DEF Map!Next, Map!RegisterLocal
    <3>3. CASE RefusesSpi
      <4>1. Cardinality(UsedSlots) = NUM_SLOTS_SPI_VIRQ
        BY <3>3, RoomTaken DEF RefusesSpi, IInv
      <4>2. Cardinality(UsedSlots)' = Cardinality(UsedSlots)
        BY <3>3 DEF RefusesSpi, UsedSlots
      <4>3. H' = H
        BY <3>3 DEF RefusesSpi, virq_find_irq_data, virq_find_spi_irq_data, SlotsOf,
                    virq_get_sgi_ppi
      <4> QED BY <3>3, <4>1, <4>2, <4>3 DEF RefusesSpi, Map!Next, Map!Refuse
    <3>4. ASSUME NEW i \in Slots, AddsSpi(h, i), h.virq \in SpiIrqs PROVE Map!Next
      <4>1. H' = IF H[h.virq] = NoHandle THEN [H EXCEPT ![h.virq] = h.ack_fn] ELSE H
        BY <3>1, <3>4, HandleAfterSpi, HandleFound DEF IInv
      <4>2. h.virq # VIRQ_INVALID
        BY <3>1, SlotFacts
      <4>3. UsedSlots' = UsedSlots \cup {i} /\ i \notin UsedSlots
        BY <3>4, <4>2 DEF AddsSpi, UsedSlots, IInv, TypeOK
      <4>4. Cardinality(UsedSlots)' = Cardinality(UsedSlots) + 1
        BY <4>3, RoomTaken, FS_AddElement DEF IInv
      <4>5. Cardinality(UsedSlots) < NUM_SLOTS_SPI_VIRQ
        BY <3>4, RoomTaken DEF AddsSpi, IInv
      <4> QED BY <3>1, <3>4, <4>1, <4>4, <4>5 DEF AddsSpi, Map!Next, Map!RegisterSpi
    <3> QED BY <3>1, <3>2, <3>3, <3>4, SpiAddCases
  <2>2. ASSUME UNCHANGED table PROVE UNCHANGED Map!vars
    BY <2>2 DEF table, Map!vars, UsedSlots, virq_find_irq_data, virq_find_spi_irq_data,
                SlotsOf, virq_get_sgi_ppi
  <2>3. CASE StartGuest
    BY <2>2, <2>3 DEF StartGuest
  <2>4. CASE UNCHANGED vars
    BY <2>2, <2>4 DEF vars, table
  <2> QED BY <2>1, <2>3, <2>4 DEF Next
<1> QED BY <1>1, <1>2, Invariant, PTL DEF Spec, ImplementsMap, Map!Spec

----------------------------------------------------------------------------
(* A call that init() has made and whose result it looked at. *)
Settled(k) ==
    \E j \in 1 .. k :
        /\ calls[j].virq = calls[k].virq
        /\ virq_find_irq_data(calls[k].virq) = calls[j]
        /\ calls[k].virq \in LocalIrqs => j = k

(* The slots hold what init() has registered, and every call it has        *)
(* checked is settled.                                                     *)
FromCalls ==
    /\ \A i \in Slots : vspis[i] # Unused => \E j \in 1 .. done : vspis[i] = calls[j]
    /\ guest # "abandoned" => \A k \in 1 .. done : k < Len(calls) => Settled(k)

LEMMA NextFromCalls == IInv /\ IInv' /\ FromCalls /\ [Next]_vars => FromCalls'
<1> SUFFICES ASSUME IInv, IInv', FromCalls, [Next]_vars PROVE FromCalls'
  OBVIOUS
<1>1. CASE RegisterIrq
  <2>1. PICK n \in 1 .. Len(calls) : n = done + 1
    BY <1>1, RegisterCall DEF IInv
  <2>2. PICK h \in VirqHandles : h = calls[n]
    BY <1>1, <2>1, RegisterCall DEF IInv
  <2>3. /\ n = done + 1 /\ done' = n /\ n \in 1 .. Len(calls)
        /\ h \in VirqHandles /\ h.virq \in Irqs
        /\ \/ h.virq \in LocalIrqs /\ virq_sgi_ppi_add(h)
           \/ h.virq \in SpiIrqs /\ virq_spi_add(h)
    BY <1>1, <2>1, <2>2, RegisterCall DEF IInv
  <2>4. calls' = calls /\ done \in Nat /\ Len(calls) \in Nat
    BY <1>1 DEF RegisterIrq, IInv, TypeOK
  <2>5. guest' # "abandoned" /\ done' < Len(calls) => err'
    BY <1>1, <2>3, <2>4 DEF RegisterIrq, IInv, TypeOK
  <2>6. guest' # "abandoned" => guest # "abandoned"
    BY <1>1 DEF RegisterIrq
  <2>7. \A k \in 1 .. done : calls[k] \in VirqHandles /\ calls[k].virq \in Irqs
    <3>1. calls \in Seq(VirqHandles) /\ \A k \in 1 .. done : k \in 1 .. Len(calls)
      BY <2>4 DEF IInv, TypeOK
    <3>2. \A k \in 1 .. done : calls[k] \in VirqHandles
      BY <3>1
    <3> QED BY <3>2 DEF VirqHandles
  <2>8. ASSUME NEW k \in 1 .. done, Settled(k),
               \A irq \in Irqs : virq_find_irq_data(irq) # Unused
                  => virq_find_irq_data(irq)' = virq_find_irq_data(irq)
        PROVE  Settled(k)'
    <3>1. PICK irq \in Irqs : irq = calls[k].virq
      BY <2>7
    <3>2. PICK j \in 1 .. k : /\ calls[j].virq = irq
                              /\ virq_find_irq_data(irq) = calls[j]
                              /\ irq \in LocalIrqs => j = k
      BY <2>8, <3>1 DEF Settled
    <3>3. j \in 1 .. done
      BY <2>4, <3>2
    <3>4. calls[j] # Unused
      BY <2>7, <3>3, SlotFacts
    <3> QED BY <2>4, <2>8, <3>1, <3>2, <3>4 DEF Settled
  <2>9. CASE h.virq \in LocalIrqs /\ virq_sgi_ppi_add(h)
    <3>1. \A k \in 1 .. done : Settled(k) => Settled(k)'
      BY <2>3, <2>7, <2>8, <2>9, HandleAfterLocal DEF IInv
    <3>2. err' => virq_find_irq_data(h.virq)' = h
      BY <2>3, <2>9, HandleAfterLocal DEF IInv
    <3>3. err' => Settled(n)'
      BY <2>3, <2>4, <2>2, <3>2 DEF Settled
    <3>4. vspis' = vspis
      BY <2>9 DEF virq_sgi_ppi_add
    <3> QED BY <2>3, <2>4, <2>5, <2>6, <3>1, <3>3, <3>4 DEF FromCalls
  <2>10. CASE RefusesSpi
    <3>1. \A k \in 1 .. done : Settled(k) => Settled(k)'
      BY <2>4, <2>10 DEF Settled, RefusesSpi, virq_find_irq_data, virq_find_spi_irq_data,
                        SlotsOf, virq_get_sgi_ppi
    <3> QED BY <2>3, <2>4, <2>5, <2>6, <2>10, <3>1 DEF FromCalls, RefusesSpi
  <2>11. ASSUME NEW i \in Slots, AddsSpi(h, i), h.virq \in SpiIrqs PROVE FromCalls'
    <3>1. \A k \in 1 .. done : Settled(k) => Settled(k)'
      BY <2>3, <2>7, <2>8, <2>11, HandleAfterSpi DEF IInv
    <3>2. \A m \in Slots : vspis'[m] # Unused =>
              vspis'[m] = h \/ \E j \in 1 .. done : vspis'[m] = calls[j]
      BY <2>11 DEF AddsSpi, FromCalls, IInv, TypeOK
    <3>3. \A m \in Slots : vspis'[m] # Unused => \E j \in 1 .. done' : vspis'[m] = calls'[j]
      BY <2>3, <2>4, <2>2, <3>2
    <3>4. Settled(n)'
      <4>1. CASE virq_find_irq_data(h.virq) = Unused
        <5>1. virq_find_irq_data(h.virq)' = h
          BY <2>3, <2>11, <4>1, HandleAfterSpi DEF IInv
        <5> QED BY <2>3, <2>4, <2>2, <5>1 DEF Settled
      <4>2. CASE virq_find_irq_data(h.virq) # Unused
        <5>1. virq_find_irq_data(h.virq)' = virq_find_irq_data(h.virq)
          BY <2>3, <2>11, <4>2, HandleAfterSpi DEF IInv
        <5>2. virq_find_irq_data(h.virq).virq = h.virq
          BY <2>3, <4>2, HandleFound DEF IInv
        <5>3. \E m \in Slots : virq_find_irq_data(h.virq) = vspis[m]
          BY <2>11, <4>2, Finds DEF Found, IInv
        <5>4. PICK j \in 1 .. done : virq_find_irq_data(h.virq) = calls[j]
          BY <4>2, <5>3 DEF FromCalls
        <5>5. h.virq \notin LocalIrqs
          BY <2>11, SlotFacts
        <5> QED BY <2>3, <2>4, <2>2, <5>1, <5>2, <5>4, <5>5 DEF Settled
      <4> QED BY <4>1, <4>2
    <3> QED BY <2>3, <2>4, <2>6, <3>1, <3>3, <3>4 DEF FromCalls
  <2> QED BY <2>3, <2>9, <2>10, <2>11, SpiAddCases
<1>2. ASSUME UNCHANGED <<table, calls, done>>, guest' # "abandoned" => guest # "abandoned"
      PROVE  FromCalls'
  BY <1>2 DEF table, FromCalls, Settled, virq_find_irq_data, virq_find_spi_irq_data,
              SlotsOf, virq_get_sgi_ppi
<1>3. CASE StartGuest
  BY <1>2, <1>3 DEF StartGuest
<1>4. CASE UNCHANGED vars
  BY <1>2, <1>4 DEF vars, table
<1> QED BY <1>1, <1>3, <1>4 DEF Next

(* The guest is started when every call has been made. *)
AllMade == guest = "started" => done = Len(calls)

(* A guest that runs has a handle for every interrupt init() registered    *)
(* and checked, for every list of registrations (vmm.c:261-281).           *)
THEOREM RegisteredBeforeStart == Spec => []StartedRegistered
<1>1. Init => FromCalls /\ AllMade
  BY SlotFacts DEF Init, FromCalls, AllMade
<1>2. IInv /\ AllMade /\ [Next]_vars => AllMade'
  BY DEF IInv, TypeOK, AllMade, Next, RegisterIrq, StartGuest, vars
<1>3. IInv /\ FromCalls /\ AllMade => StartedRegistered
  <2> SUFFICES ASSUME IInv, FromCalls, AllMade, guest = "started",
                      NEW k \in 1 .. Len(calls) - 1
               PROVE  Settled(k)
    BY DEF StartedRegistered, Settled
  <2>1. k \in 1 .. done /\ k < Len(calls)
    BY DEF AllMade, IInv, TypeOK
  <2> QED BY <2>1 DEF FromCalls
<1> QED BY <1>1, <1>2, <1>3, Invariant, NextFromCalls, PTL DEF Spec
=============================================================================
