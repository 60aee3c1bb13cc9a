------------------------------ MODULE VgicOps ------------------------------
(***************************************************************************)
(* The virtual GIC driver's functions (vgic/virq.h, vgic/vdist.h,          *)
(* vgic/vgic.c, vgic/vgic_v2.c, vgic/vgic_v3.c) as operators over one      *)
(* record, the driver's state.  An operator has the name of the C function *)
(* it stands for, takes the state the function is called in and is the     *)
(* state it returns in.                                                    *)
(*                                                                         *)
(* Fields of the state record g:                                           *)
(*   ctlr       GICD_CTLR: 0 unless the distributor forwards interrupts    *)
(*   enable     the IRQs whose enable_set bit is set                       *)
(*   pending    the IRQs whose pending_set bit is set                      *)
(*   lr_shadow  the driver's copy of the list registers                    *)
(*   irq_queue  the overflow ring buffer, as the sequence it holds         *)
(*              (IrqQueue shows that the ring buffer implements it)        *)
(*   hw_lr      external: the vCPU's list registers, kept by the kernel    *)
(*   masked     external: the lines the kernel holds masked until an ack   *)
(*   status     "ok", or why the VMM stopped: a failed assertion spins     *)
(*              forever, a NULL handle faults the VMM                      *)
(*                                                                         *)
(* A virq_handle is represented by the number in its virq field; its       *)
(* ack_fn is a function of that number, as init() in vmm.c registers it.   *)
(***************************************************************************)
EXTENDS Integers, Sequences, FiniteSetsExt

CONSTANTS IRQS,              \* the interrupt numbers that occur
          Registered,        \* those passed to vgic_register_irq
          NUM_LIST_REGS,
          MAX_IRQ_QUEUE_LEN,
          Board              \* the BOARD_* macro of the build

NUM_SGI_VIRQS        == 16
NUM_VCPU_LOCAL_VIRQS == 32
VIRQ_INVALID         == -1
NULL                 == -2   \* "no such handle", distinct from a handle that is unused
SERIAL_IRQ_CH        == 1

Boards == {"qemu_arm_virt_hyp", "odroidc2", "imx8mm_evk"}

(* vgic_v3.c is compiled in on the one board with a GICv3. *)
GIC_V3 == Board = "imx8mm_evk"

(* What a guest writes to GICD_CTLR to switch the distributor on, and what *)
(* the driver then keeps: GICv3 leaves out the group 0 bit.                *)
GIC_500_GRP0    == 1
GIC_500_GRP1_NS == 2
GIC_500_ARE_S   == 16
GIC_ENABLED == IF GIC_V3 THEN GIC_500_ARE_S + GIC_500_GRP1_NS + GIC_500_GRP0 ELSE 1
CtlrOn      == IF GIC_V3 THEN GIC_500_ARE_S + GIC_500_GRP1_NS ELSE GIC_ENABLED

ASSUME IrqAssumption == IRQS \subseteq Nat /\ Registered \subseteq IRQS
(* Above, struct gic_dist_map has no bits of its own for an IRQ: see       *)
(* DistRegs, which shows that below it does.                               *)
ASSUME IrqRangeAssumption == \A irq \in IRQS : irq < 992
ASSUME ListRegAssumption == NUM_LIST_REGS \in Nat \ {0}
ASSUME QueueAssumption == MAX_IRQ_QUEUE_LEN \in Nat /\ MAX_IRQ_QUEUE_LEN > 1
ASSUME BoardAssumption == Board \in Boards

ListRegs == 0 .. NUM_LIST_REGS - 1
Sgis     == {irq \in IRQS : irq < NUM_SGI_VIRQS}
Ppis     == {irq \in IRQS : NUM_SGI_VIRQS <= irq /\ irq < NUM_VCPU_LOCAL_VIRQS}
Spis     == {irq \in IRQS : NUM_VCPU_LOCAL_VIRQS <= irq}

Statuses == {"ok", "null_handle", "queue_full", "list_reg_busy",
             "spurious_maintenance", "maintenance_failed", "unset_err", "unimplemented"}

VgicStates ==
    [ctlr      : {0, CtlrOn},
     enable    : SUBSET IRQS,
     pending   : SUBSET IRQS,
     lr_shadow : [ListRegs -> IRQS \cup {VIRQ_INVALID}],
     irq_queue : Seq(IRQS),
     hw_lr     : [ListRegs -> IRQS \cup {VIRQ_INVALID}],
     masked    : SUBSET IRQS,
     status    : Statuses]

(* An assertion that fails, or the NULL pointer that is dereferenced. *)
Stop(g, why) == [g EXCEPT !.status = why]

----------------------------------------------------------------------------
(* The enable bits vgic_dist_reset() sets: the SGIs'.  On GICv3 it sets    *)
(* them in enable_set[0], a word that belongs to no IRQ (DistRegs), and    *)
(* the SGIs' word, enable_set0, stays zero.                                *)
vgic_dist_reset == IF GIC_V3 THEN {} ELSE Sgis

(* The state vgic_init() leaves: dist is zero but for those bits. *)
vgic_init ==
    [ctlr      |-> 0,
     enable    |-> vgic_dist_reset,
     pending   |-> {},
     lr_shadow |-> [i \in ListRegs |-> VIRQ_INVALID],
     irq_queue |-> << >>,
     hw_lr     |-> [i \in ListRegs |-> VIRQ_INVALID],
     masked    |-> {},
     status    |-> "ok"]

(* The handle of an IRQ: its own slot among the 32 local ones, which may be *)
(* unused, or the SPI slot that holds it, which may not exist.              *)
virq_find_irq_data(irq) ==
    IF irq \in Registered THEN irq
    ELSE IF irq < NUM_VCPU_LOCAL_VIRQS THEN VIRQ_INVALID
    ELSE NULL

set_pending(g, irq) == [g EXCEPT !.pending = @ \cup {irq}]

(* A maintenance handler that forgets to clear the pending flag. *)
MutantKeepsPending(g, irq) == g
unset_pending(g, irq) == [g EXCEPT !.pending = @ \ {irq}]

set_enable(g, irq) == [g EXCEPT !.enable = @ \cup {irq}]
unset_enable(g, irq) == [g EXCEPT !.enable = @ \ {irq}]

(* A ring buffer believed to hold one IRQ more than it can. *)
MutantFullLate(g) == Len(g.irq_queue) = MAX_IRQ_QUEUE_LEN
(* The overflow queue.  The ring buffer keeps one slot free. *)
vgic_irq_full(g) == Len(g.irq_queue) = MAX_IRQ_QUEUE_LEN - 1
vgic_irq_enqueue(g, irq) == [g EXCEPT !.irq_queue = Append(@, irq)]
vgic_irq_dequeue(g) == [g EXCEPT !.irq_queue = Tail(@)]

EmptyListRegs(g) == {i \in ListRegs : g.lr_shadow[i] = VIRQ_INVALID}

(* Only the first list register is ever looked at. *)
MutantFirstListReg(g) == IF 0 \in EmptyListRegs(g) THEN 0 ELSE -1
vgic_find_empty_list_reg(g) ==
    IF EmptyListRegs(g) = {} THEN -1
    ELSE Min(EmptyListRegs(g))

(* A load that does not record the IRQ in the shadow. *)
MutantNoShadow(g, idx, virq) == [g EXCEPT !.hw_lr[idx] = virq]
(* The kernel refuses a list register that is in use; the driver asserts   *)
(* that it never is.                                                       *)
vgic_vcpu_load_list_reg(g, idx, virq) ==
    IF g.hw_lr[idx] # VIRQ_INVALID
    THEN Stop(g, "list_reg_busy")
    ELSE [g EXCEPT !.hw_lr[idx] = virq, !.lr_shadow[idx] = virq]

----------------------------------------------------------------------------
vgic_dist_is_enabled(g) ==
    IF GIC_V3 THEN (g.ctlr \div GIC_500_GRP1_NS) % 2 = 1 ELSE g.ctlr = GIC_ENABLED

(* The enable bit is not looked at. *)
MutantIgnoresEnable(g, irq) ==
    virq_find_irq_data(irq) = VIRQ_INVALID \/ ~vgic_dist_is_enabled(g)
(* vgic_dist_set_pending_irq returns false: the interrupt is dropped. *)
Dropped(g, irq) ==
    \/ virq_find_irq_data(irq) = VIRQ_INVALID
    \/ ~vgic_dist_is_enabled(g)
    \/ irq \notin g.enable

(* STATE c): the interrupt becomes pending, enters the queue and, when a   *)
(* list register is empty, the head of the queue is loaded into it.        *)
vgic_dist_set_pending_irq(g, irq) ==
    IF virq_find_irq_data(irq) = NULL THEN Stop(g, "null_handle")
    ELSE IF Dropped(g, irq) \/ irq \in g.pending THEN g
    ELSE LET p == set_pending(g, irq)
             q == vgic_irq_enqueue(p, irq)
             idx == vgic_find_empty_list_reg(q)
         IN  IF vgic_irq_full(p) THEN Stop(p, "queue_full")
             ELSE IF idx < 0 THEN q
             ELSE vgic_vcpu_load_list_reg(vgic_irq_dequeue(q), idx,
                                          Head(q.irq_queue))

vgic_inject_irq(g, irq) == vgic_dist_set_pending_irq(g, irq)

(* The pending flag is cleared; queue and list registers keep the IRQ. *)
vgic_dist_clr_pending_irq(g, irq) == unset_pending(g, irq)

(* Disabling also withdraws the pending flag. *)
MutantDisableClears(g, irq) == unset_pending(unset_enable(g, irq), irq)
(* The SGIs are disabled like the other IRQs. *)
MutantDisablesSgis(g, irq) == unset_enable(g, irq)
(* STATE g): the SGIs cannot be disabled. *)
vgic_dist_disable_irq(g, irq) ==
    IF irq >= NUM_SGI_VIRQS THEN unset_enable(g, irq) ELSE g

----------------------------------------------------------------------------
(* sel4cp_arm_vcpu_ack_vppi and sel4cp_irq_ack: the kernel unmasks. *)
kernel_irq_ack(g, irq) == [g EXCEPT !.masked = @ \ {irq}]

vppi_event_ack(g, irq) == kernel_irq_ack(g, irq)
sgi_ack(g, irq) == g

(* On odroidc2 the second call passes the channel number as an IRQ number; *)
(* on imx8mm_evk the function is empty.                                    *)
serial_ack(g, irq) ==
    CASE Board = "qemu_arm_virt_hyp" -> kernel_irq_ack(g, irq)
      [] Board = "odroidc2" -> vgic_inject_irq(kernel_irq_ack(g, irq), SERIAL_IRQ_CH)
      [] Board = "imx8mm_evk" -> g

(* No acknowledgement reaches the kernel. *)
MutantNoAck(g, irq) == g
virq_ack(g, irq) ==
    IF irq < NUM_SGI_VIRQS THEN sgi_ack(g, irq)
    ELSE IF irq < NUM_VCPU_LOCAL_VIRQS THEN vppi_event_ack(g, irq)
    ELSE serial_ack(g, irq)

(* Enabling an IRQ acknowledges it whether or not it is pending. *)
MutantEnableAlwaysAcks(g, irq) ==
    IF irq \in Registered THEN virq_ack(set_enable(g, irq), irq)
    ELSE set_enable(g, irq)
(* Enabling an IRQ only sets its bit. *)
MutantEnableNeverAcks(g, irq) == set_enable(g, irq)
(* STATE b): an enabled IRQ that is not pending is acknowledged, in case   *)
(* it was dropped while it was disabled.                                   *)
vgic_dist_enable_irq(g, irq) ==
    LET e == set_enable(g, irq)
    IN  IF virq_find_irq_data(irq) \in {NULL, VIRQ_INVALID} \/ irq \in e.pending
        THEN e
        ELSE virq_ack(e, irq)

----------------------------------------------------------------------------
(* The slot is not freed. *)
MutantKeepsSlot(g, idx, err) ==
    virq_ack(unset_pending(g, g.lr_shadow[idx]), g.lr_shadow[idx])
(* STATE d): the guest has completed the IRQ in list register idx.  err is *)
(* a local variable that is assigned only when the overflow queue holds an *)
(* IRQ, and then to the result of the load, which is true when it worked.  *)
handle_vgic_maintenance(g, idx, err) ==
    LET virq    == g.lr_shadow[idx]
        cleared == unset_pending([g EXCEPT !.lr_shadow[idx] = VIRQ_INVALID], virq)
        acked   == virq_ack(cleared, virq)
        loaded  == vgic_vcpu_load_list_reg(vgic_irq_dequeue(acked), idx,
                                           Head(acked.irq_queue))
    IN  IF virq = VIRQ_INVALID THEN Stop(g, "spurious_maintenance")
        ELSE IF acked.status # "ok" THEN acked
        ELSE IF acked.irq_queue = << >>
        THEN IF err = 0 THEN acked ELSE Stop(acked, "unset_err")
        ELSE IF loaded.status # "ok" THEN loaded
        ELSE Stop(loaded, "maintenance_failed")

(* A dropped virtual timer interrupt is acknowledged at once. *)
handle_vppi_event(g, irq) ==
    LET injected == vgic_inject_irq(g, irq)
    IN  IF Dropped(g, irq) THEN kernel_irq_ack(injected, irq) ELSE injected

vgic_dist_enable(g)  == [g EXCEPT !.ctlr = CtlrOn]
vgic_dist_disable(g) == [g EXCEPT !.ctlr = 0]

(* A write to GICD_CTLR: an encoding other than the two is reported only. *)
vgic_dist_ctlr_write(g, data) ==
    IF data = GIC_ENABLED THEN vgic_dist_enable(g)
    ELSE IF data = 0 THEN vgic_dist_disable(g)
    ELSE g

(* The SGIR target filters; every known one injects into the only vCPU. *)
GIC_DIST_SGI_TARGET_LIST_SPEC   == 0
GIC_DIST_SGI_TARGET_LIST_OTHERS == 1
GIC_DIST_SGI_TARGET_SELF        == 2
vgic_dist_sgir_write(g, virq, mode) ==
    IF mode \in {GIC_DIST_SGI_TARGET_LIST_SPEC, GIC_DIST_SGI_TARGET_LIST_OTHERS,
                 GIC_DIST_SGI_TARGET_SELF}
    THEN vgic_inject_irq(g, virq)
    ELSE g
=============================================================================
