----------------------------- MODULE VirqTable -----------------------------
(***************************************************************************)
(* The tables of virtual interrupt handles (vgic/virq.h) and the start-up  *)
(* that fills them, init() in vmm.c: a slot per local IRQ, a list of slots *)
(* for the SPIs, and a VMM that registers its interrupts one by one and    *)
(* starts the guest.                                                       *)
(*                                                                         *)
(* Which interrupts a VMM registers is a property of its board; init() is  *)
(* modelled for every list of registrations.  It gives up when one of them *)
(* fails, but for the last, whose result it ignores.                       *)
(***************************************************************************)
EXTENDS Integers, Sequences, FiniteSets, FiniteSetsExt

CONSTANTS LocalIrqs,           \* SGIs and PPIs
          SpiIrqs,
          AckFns,
          NUM_SLOTS_SPI_VIRQ,
          MaxCalls             \* bound: the registrations of one VMM

NUM_VCPU_LOCAL_VIRQS == 32
VIRQ_INVALID         == -1
NoHandle             == "none"

ASSUME LocalAssumption == LocalIrqs \subseteq 0 .. NUM_VCPU_LOCAL_VIRQS - 1
ASSUME SpiAssumption == SpiIrqs \subseteq Nat /\ \A irq \in SpiIrqs : irq >= NUM_VCPU_LOCAL_VIRQS
ASSUME AckAssumption == NoHandle \notin AckFns
ASSUME SlotAssumption == NUM_SLOTS_SPI_VIRQ \in Nat
ASSUME CallsAssumption == MaxCalls \in Nat \ {0}

Irqs  == LocalIrqs \cup SpiIrqs
Slots == 0 .. NUM_SLOTS_SPI_VIRQ - 1

(* struct virq_handle; every user passes NULL as its ack_data. *)
VirqHandles == [virq : Irqs, ack_fn : AckFns]
Unused == [virq |-> VIRQ_INVALID, ack_fn |-> NoHandle]

VARIABLES vspis,         \* the slots of the SPIs
          local_virqs,   \* the slots of the local IRQs
          err,           \* what the last vgic_register_irq returned
          calls,         \* the registrations of this VMM's init()
          done,          \* how many of them init() has made
          guest          \* "off", "started", or "abandoned" by init()

table == <<vspis, local_virqs, err>>
vars == <<vspis, local_virqs, err, calls, done, guest>>

(* vgic_init *)
Init ==
    /\ vspis = [i \in Slots |-> Unused]
    /\ local_virqs = [irq \in LocalIrqs |-> Unused]
    /\ err = TRUE
    /\ calls \in UNION {[1 .. n -> VirqHandles] : n \in 1 .. MaxCalls}
    /\ done = 0
    /\ guest = "off"

----------------------------------------------------------------------------
(* The first slot that holds the SPI, or none. *)
SlotsOf(irq) == {i \in Slots : vspis[i].virq # VIRQ_INVALID /\ vspis[i].virq = irq}
virq_find_spi_irq_data(irq) ==
    IF SlotsOf(irq) = {} THEN Unused ELSE vspis[Min(SlotsOf(irq))]

virq_get_sgi_ppi(irq) == local_virqs[irq]

virq_find_irq_data(irq) ==
    IF irq < NUM_VCPU_LOCAL_VIRQS THEN virq_get_sgi_ppi(irq)
    ELSE virq_find_spi_irq_data(irq)

FreeSlots == {i \in Slots : vspis[i].virq = VIRQ_INVALID}

(* The search stops a slot early. *)
MutantMissesLast(h) ==
    /\ IF FreeSlots \ {NUM_SLOTS_SPI_VIRQ - 1} = {}
       THEN err' = FALSE /\ UNCHANGED vspis
       ELSE err' = TRUE /\ vspis' = [vspis EXCEPT ![Min(FreeSlots)] = h]
    /\ UNCHANGED local_virqs
virq_spi_add(h) ==
    /\ IF FreeSlots = {}
       THEN err' = FALSE /\ UNCHANGED vspis
       ELSE err' = TRUE /\ vspis' = [vspis EXCEPT ![Min(FreeSlots)] = h]
    /\ UNCHANGED local_virqs

(* A local IRQ that is registered again gets the new handle. *)
MutantOverwrites(h) ==
    /\ err' = TRUE
    /\ local_virqs' = [local_virqs EXCEPT ![h.virq] = h]
    /\ UNCHANGED vspis
virq_sgi_ppi_add(h) ==
    /\ IF local_virqs[h.virq].virq # VIRQ_INVALID
       THEN err' = FALSE /\ UNCHANGED local_virqs
       ELSE err' = TRUE /\ local_virqs' = [local_virqs EXCEPT ![h.virq] = h]
    /\ UNCHANGED vspis

(* Local IRQs go into the list of the SPIs as well. *)
MutantAllInList(h) == virq_spi_add(h)
virq_add(h) ==
    IF h.virq < NUM_VCPU_LOCAL_VIRQS THEN virq_sgi_ppi_add(h) ELSE virq_spi_add(h)

vgic_register_irq(virq_num, ack_fn) == virq_add([virq |-> virq_num, ack_fn |-> ack_fn])

(* A failed registration does not stop init(). *)
MutantUnchecked ==
    /\ guest = "off" /\ done < Len(calls)
    /\ vgic_register_irq(calls[done + 1].virq, calls[done + 1].ack_fn)
    /\ done' = done + 1
    /\ UNCHANGED <<calls, guest>>
(* init() makes its next call of vgic_register_irq and looks at the result *)
(* unless it is the last.                                                  *)
RegisterIrq ==
    /\ guest = "off" /\ done < Len(calls)
    /\ vgic_register_irq(calls[done + 1].virq, calls[done + 1].ack_fn)
    /\ done' = done + 1
    /\ guest' = IF err' \/ done' = Len(calls) THEN guest ELSE "abandoned"
    /\ UNCHANGED calls

(* sel4cp_vm_restart *)
StartGuest ==
    /\ guest = "off" /\ done = Len(calls)
    /\ guest' = "started"
    /\ UNCHANGED <<table, calls, done>>

Next == RegisterIrq \/ StartGuest

Spec == Init /\ [][Next]_vars

----------------------------------------------------------------------------
(* Properties *)

(* Slots are unused or hold a handle of their kind (virq.h:149-155): a     *)
(* local IRQ is in its own slot, the SPI list holds SPIs.                  *)
TypeOK ==
    /\ vspis \in [Slots -> [virq : SpiIrqs, ack_fn : AckFns] \cup {Unused}]
    /\ local_virqs \in [LocalIrqs -> VirqHandles \cup {Unused}]
    /\ \A irq \in LocalIrqs : local_virqs[irq].virq \in {irq, VIRQ_INVALID}
    /\ err \in BOOLEAN
    /\ calls \in Seq(VirqHandles)
    /\ done \in 0 .. Len(calls)
    /\ guest \in {"off", "started", "abandoned"}

(* The two tables implement one handle per IRQ, the first registered, in a *)
(* bounded space.                                                          *)
UsedSlots == {i \in Slots : vspis[i].virq # VIRQ_INVALID}
Map == INSTANCE HandleMap
           WITH Room <- NUM_SLOTS_SPI_VIRQ,
                handle <- [irq \in Irqs |-> virq_find_irq_data(irq).ack_fn],
                used <- Cardinality(UsedSlots),
                result <- err
ImplementsMap == Map!Spec

(* A slot in use never changes: no registration overwrites the handle of   *)
(* an earlier one, a second registration of the same IRQ included          *)
(* (virq_spi_add, virq_sgi_ppi_add).                                       *)
SlotsStable ==
    [][/\ \A i \in Slots : vspis[i] # Unused => vspis'[i] = vspis[i]
       /\ \A irq \in LocalIrqs :
             local_virqs[irq] # Unused => local_virqs'[irq] = local_virqs[irq]]_vars

(* A guest that was started has every interrupt init() checked: a local    *)
(* one with the ack function it was registered with, an SPI with that of   *)
(* its first registration.  Without a handle the VMM would follow a NULL   *)
(* pointer at the first interrupt (vmm.c:279-280).                         *)
StartedRegistered ==
    guest = "started" =>
        \A k \in 1 .. Len(calls) - 1 :
            \E j \in 1 .. k :
                /\ calls[j].virq = calls[k].virq
                /\ virq_find_irq_data(calls[k].virq) = calls[j]
                /\ calls[k].virq \in LocalIrqs => j = k
=============================================================================
