-------------------------------- MODULE Vgic --------------------------------
(***************************************************************************)
(* The virtual interrupt path of one VM as a state machine: the guest, the *)
(* seL4 kernel with the GIC hardware, the devices, and the VMM's event     *)
(* loop, whose handlers are the operators of VgicOps.                      *)
(*                                                                         *)
(* The VMM is single threaded.  It takes one event at a time: a            *)
(* notification of a device interrupt (notified() in vmm.c) or a fault of  *)
(* the guest (fault() in vmm.c), in either order when both wait.  The      *)
(* guest is blocked from its fault until the handler replies.  A write to  *)
(* a set or clear register is a loop over the bits of the value; a step of *)
(* the model is one iteration, so that devices interrupt between two.      *)
(***************************************************************************)
EXTENDS VgicOps

CONSTANTS GuestMay,    \* what the guest does beyond an orderly driver, see below
          UninitErr    \* what handle_vgic_maintenance may find in its unset err

(* The freedoms of the guest:                                              *)
(*   "ISPENDR", "ICPENDR"  it writes the pending registers itself, which   *)
(*                         vgic_v2.c (NOTE, lines 38-40) assumes it never  *)
(*                         does;                                           *)
(*   "gate"                it turns the distributor off while a hardware   *)
(*                         line is enabled, or enables one before turning  *)
(*                         it on;                                          *)
(*   "CPENDSGIR"           it writes the SGI pending registers.            *)
Freedoms == {"ISPENDR", "ICPENDR", "gate", "CPENDSGIR"}

ASSUME FreedomAssumption == GuestMay \subseteq Freedoms
ASSUME UninitAssumption == UninitErr \subseteq Int /\ UninitErr # {}

VARIABLES vgic,    \* the state record of VgicOps
          vmm,     \* "idle", or "write" inside a register write's loop
          fault,   \* the guest's outstanding fault
          notif,   \* SPIs whose notification waits for the VMM
          eisr     \* list registers the guest completed, not yet reported

vars == <<vgic, vmm, fault, notif, eisr>>

----------------------------------------------------------------------------
(* Hardware lines: the virtual timer's PPI, raised by the kernel as a      *)
(* VPPIEvent fault, and the SPI the board's .system file binds to the      *)
(* VMM's channel.  imx8mm_evk's binds none.                                *)
VppiLines == Ppis \cap Registered
SpiLines  == IF Board = "imx8mm_evk" THEN {} ELSE Spis \cap Registered
HwLines   == VppiLines \cup SpiLines

(* The set and clear registers: the distributor's, and the redistributor's *)
(* for the local IRQs of a GICv3.                                          *)
DistBitRegisters   == {"ISENABLER", "ICENABLER", "ISPENDR", "ICPENDR"}
RedistBitRegisters == {"GICR_ISENABLER0", "GICR_ICENABLER0"}
BitRegisters == DistBitRegisters \cup RedistBitRegisters
EnableRegisters == {"ISENABLER", "GICR_ISENABLER0"}
FaultKinds == BitRegisters \cup
    {"none", "CTLR", "SGIR", "CPENDSGIR", "other", "VPPIEvent", "VGICMaintenance"}

NoFault == [kind |-> "none", bits |-> {}, arg |-> 0, mode |-> 0]
Fault(kind, bits, arg, mode) ==
    [kind |-> kind, bits |-> bits, arg |-> arg, mode |-> mode]

CtlrData == {0, GIC_ENABLED, 2}    \* 2: an encoding the driver does not know
SgirModes == 0 .. 3                \* 3: the reserved target filter

(* The bits of one 32-bit register. *)
InOneWord(D) == \E w \in {irq \div 32 : irq \in D} : \A irq \in D : irq \div 32 = w

GuestRuns == fault = NoFault /\ vgic.status = "ok"
VmmReady  == vmm = "idle" /\ vgic.status = "ok"

----------------------------------------------------------------------------
(* init() in vmm.c: the driver is reset, the lines are registered, the     *)
(* serial channel is acknowledged and the guest is started.  Interrupts    *)
(* may already wait for the VMM's first turn in the event loop.            *)
Init ==
    /\ \E fired \in SUBSET SpiLines :
          /\ notif = fired
          /\ vgic = [vgic_init EXCEPT !.masked = fired]
    /\ vmm = "idle"
    /\ fault = NoFault
    /\ eisr = {}

----------------------------------------------------------------------------
(* The guest: accesses to the distributor fault. *)

GuestWritesBits(reg, D) ==
    /\ GuestRuns
    /\ D # {} /\ InOneWord(D)
    /\ reg \in RedistBitRegisters => GIC_V3 /\ D \cap Spis = {}
    /\ reg \in {"ISPENDR", "ICPENDR"} => reg \in GuestMay
    /\ reg \in EnableRegisters /\ D \cap HwLines # {}
          => vgic_dist_is_enabled(vgic) \/ "gate" \in GuestMay
    /\ fault' = Fault(reg, D, 0, 0)
    /\ UNCHANGED <<vgic, vmm, notif, eisr>>

GuestWritesCtlr(data) ==
    /\ GuestRuns
    /\ data = 0 => vgic.enable \cap HwLines = {} \/ "gate" \in GuestMay
    /\ fault' = Fault("CTLR", {}, data, 0)
    /\ UNCHANGED <<vgic, vmm, notif, eisr>>

GuestWritesSgir(sgi, mode) ==
    /\ GuestRuns
    /\ fault' = Fault("SGIR", {}, sgi, mode)
    /\ UNCHANGED <<vgic, vmm, notif, eisr>>

GuestWritesCpendsgir ==
    /\ GuestRuns
    /\ "CPENDSGIR" \in GuestMay
    /\ fault' = Fault("CPENDSGIR", {}, 0, 0)
    /\ UNCHANGED <<vgic, vmm, notif, eisr>>

(* A read, or a write to a register that does not concern delivery. *)
GuestAccessesOther ==
    /\ GuestRuns
    /\ fault' = Fault("other", {}, 0, 0)
    /\ UNCHANGED <<vgic, vmm, notif, eisr>>

(* The guest takes the interrupt in list register idx and completes it.    *)
GuestEOI(idx) ==
    /\ GuestRuns
    /\ vgic.hw_lr[idx] # VIRQ_INVALID
    /\ vgic' = [vgic EXCEPT !.hw_lr[idx] = VIRQ_INVALID]
    /\ eisr' = eisr \cup {idx}
    /\ UNCHANGED <<vmm, fault, notif>>

----------------------------------------------------------------------------
(* The kernel and the devices. *)

(* A completed list register is reported as a fault of the guest. *)
MaintenanceIrq(idx) ==
    /\ GuestRuns
    /\ idx \in eisr
    /\ eisr' = eisr \ {idx}
    /\ fault' = Fault("VGICMaintenance", {}, idx, 0)
    /\ UNCHANGED <<vgic, vmm, notif>>

(* The virtual timer fires while the guest runs; the kernel masks it. *)
VppiFires(irq) ==
    /\ GuestRuns
    /\ irq \in VppiLines \ vgic.masked
    /\ vgic' = [vgic EXCEPT !.masked = @ \cup {irq}]
    /\ fault' = Fault("VPPIEvent", {}, irq, 0)
    /\ UNCHANGED <<vmm, notif, eisr>>

(* A device raises its line at any time; the kernel masks it and notifies. *)
DeviceFires(irq) ==
    /\ vgic.status = "ok"
    /\ irq \in SpiLines \ vgic.masked
    /\ vgic' = [vgic EXCEPT !.masked = @ \cup {irq}]
    /\ notif' = notif \cup {irq}
    /\ UNCHANGED <<vmm, fault, eisr>>

----------------------------------------------------------------------------
(* The VMM's event handlers. *)

(* reply_to_fault(), also at the end of fault_advance_vcpu(): a handler    *)
(* that stopped never gets there.                                          *)
Reply == fault' = IF vgic'.status = "ok" THEN NoFault ELSE fault

Notified(irq) ==
    /\ VmmReady
    /\ irq \in notif
    /\ notif' = notif \ {irq}
    /\ vgic' = vgic_inject_irq(vgic, irq)
    /\ UNCHANGED <<vmm, fault, eisr>>

HandleVppiEvent ==
    /\ VmmReady
    /\ fault.kind = "VPPIEvent"
    /\ vgic' = handle_vppi_event(vgic, fault.arg)
    /\ Reply
    /\ UNCHANGED <<vmm, notif, eisr>>

HandleVgicMaintenance ==
    /\ VmmReady
    /\ fault.kind = "VGICMaintenance"
    /\ \E err \in UninitErr :
          vgic' = handle_vgic_maintenance(vgic, fault.arg, err)
    /\ Reply
    /\ UNCHANGED <<vmm, notif, eisr>>

HandleCtlrWrite ==
    /\ VmmReady
    /\ fault.kind = "CTLR"
    /\ vgic' = vgic_dist_ctlr_write(vgic, fault.arg)
    /\ Reply
    /\ UNCHANGED <<vmm, notif, eisr>>

HandleSgirWrite ==
    /\ VmmReady
    /\ fault.kind = "SGIR"
    /\ vgic' = vgic_dist_sgir_write(vgic, fault.arg, fault.mode)
    /\ Reply
    /\ UNCHANGED <<vmm, notif, eisr>>

HandleCpendsgirWrite ==
    /\ VmmReady
    /\ fault.kind = "CPENDSGIR"
    /\ vgic' = Stop(vgic, "unimplemented")
    /\ Reply
    /\ UNCHANGED <<vmm, notif, eisr>>

HandleOther ==
    /\ VmmReady
    /\ fault.kind = "other"
    /\ fault' = NoFault
    /\ UNCHANGED <<vgic, vmm, notif, eisr>>

(* A write to a set or clear register: the loop takes the lowest bit first *)
(* and the guest is resumed when none is left.                             *)
BeginBitWrite ==
    /\ VmmReady
    /\ fault.kind \in BitRegisters
    /\ vmm' = "write"
    /\ UNCHANGED <<vgic, fault, notif, eisr>>

BitStep(reg, result(_, _)) ==
    /\ vmm = "write" /\ vgic.status = "ok"
    /\ fault.kind = reg
    /\ fault.bits # {}
    /\ vgic' = result(vgic, Min(fault.bits))
    /\ fault' = [fault EXCEPT !.bits = @ \ {Min(@)}]
    /\ UNCHANGED <<vmm, notif, eisr>>

WriteIsenabler == BitStep("ISENABLER", vgic_dist_enable_irq)
WriteIcenabler == BitStep("ICENABLER", vgic_dist_disable_irq)
WriteIspendr   == BitStep("ISPENDR", vgic_dist_set_pending_irq)
WriteIcpendr   == BitStep("ICPENDR", vgic_dist_clr_pending_irq)

(* handle_vgic_redist_write_fault: a clear goes past vgic_dist_disable_irq *)
(* straight to the bit.                                                    *)
WriteGicrIsenabler0 == BitStep("GICR_ISENABLER0", vgic_dist_enable_irq)
WriteGicrIcenabler0 == BitStep("GICR_ICENABLER0", unset_enable)

(* The handler returns to the event loop without resuming the guest. *)
MutantNoReply ==
    /\ vmm = "write" /\ vgic.status = "ok"
    /\ fault.bits = {}
    /\ vmm' = "idle"
    /\ UNCHANGED <<vgic, fault, notif, eisr>>
EndBitWrite ==
    /\ vmm = "write" /\ vgic.status = "ok"
    /\ fault.bits = {}
    /\ vmm' = "idle"
    /\ fault' = NoFault
    /\ UNCHANGED <<vgic, notif, eisr>>

(* The endless loop of assert_fail(). *)
Spin ==
    /\ vgic.status # "ok"
    /\ UNCHANGED vars

----------------------------------------------------------------------------
GuestStep ==
    \/ \E reg \in BitRegisters, D \in SUBSET IRQS : GuestWritesBits(reg, D)
    \/ \E data \in CtlrData : GuestWritesCtlr(data)
    \/ \E sgi \in Sgis, mode \in SgirModes : GuestWritesSgir(sgi, mode)
    \/ GuestWritesCpendsgir
    \/ GuestAccessesOther
    \/ \E idx \in ListRegs : GuestEOI(idx)

KernelStep ==
    \/ \E idx \in ListRegs : MaintenanceIrq(idx)
    \/ \E irq \in VppiLines : VppiFires(irq)
    \/ \E irq \in SpiLines : DeviceFires(irq)

FaultStep ==
    \/ HandleVppiEvent
    \/ HandleVgicMaintenance
    \/ HandleCtlrWrite
    \/ HandleSgirWrite
    \/ HandleCpendsgirWrite
    \/ HandleOther
    \/ BeginBitWrite
    \/ WriteIsenabler
    \/ WriteIcenabler
    \/ WriteIspendr
    \/ WriteIcpendr
    \/ WriteGicrIsenabler0
    \/ WriteGicrIcenabler0
    \/ EndBitWrite

Next ==
    \/ GuestStep
    \/ KernelStep
    \/ \E irq \in SpiLines : Notified(irq)
    \/ FaultStep
    \/ Spin

Spec == Init /\ [][Next]_vars
(* What makes progress.  The VMM runs above the guest, and a fault it has  *)
(* received or that waits for it can be handled until it is (WF); its      *)
(* receive takes a waiting notification when the loop comes round (SF).    *)
(* The maintenance interrupt is level triggered, so it is raised again     *)
(* whenever the guest is resumed (SF).  Of the guest only this is assumed: *)
(* it completes an interrupt it can take (SF).                             *)
Fairness ==
    /\ WF_vars(FaultStep)
    /\ \A irq \in SpiLines : SF_vars(Notified(irq))
    /\ \A idx \in ListRegs : SF_vars(MaintenanceIrq(idx)) /\ SF_vars(GuestEOI(idx))

FairSpec == Spec /\ Fairness

----------------------------------------------------------------------------
(* Properties *)

(* The overflow queue never exceeds its length, list registers and flags   *)
(* hold IRQs of the model, and a bit-by-bit write is in progress exactly   *)
(* as vgic_dist_reg_write() leaves it.                                     *)
TypeOK ==
    /\ vgic \in VgicStates
    /\ Len(vgic.irq_queue) < MAX_IRQ_QUEUE_LEN
    /\ vmm \in {"idle", "write"}
    /\ fault \in [kind : FaultKinds, bits : SUBSET IRQS, arg : Int, mode : SgirModes]
    /\ fault.kind = "VGICMaintenance" => fault.arg \in ListRegs
    /\ fault.kind = "VPPIEvent" => fault.arg \in VppiLines
    /\ fault.kind = "SGIR" => fault.arg \in Sgis
    /\ vmm = "write" => fault.kind \in BitRegisters
    /\ notif \in SUBSET SpiLines
    /\ eisr \in SUBSET ListRegs

(* The list registers and queue positions that hold an IRQ. *)
InListReg(g, irq) == \E i \in ListRegs : g.lr_shadow[i] = irq
InQueue(g, irq)   == \E k \in DOMAIN g.irq_queue : g.irq_queue[k] = irq
InFlight(g, irq)  == InListReg(g, irq) \/ InQueue(g, irq)

(* List registers the guest has completed and the VMM has yet to free. *)
Completed == eisr \cup {i \in ListRegs : fault.kind = "VGICMaintenance" /\ fault.arg = i}

(* The shadow mirrors the hardware but for the completed registers C. *)
Mirrors(g, C) ==
    \A i \in ListRegs :
        IF i \in C
        THEN g.hw_lr[i] = VIRQ_INVALID /\ g.lr_shadow[i] # VIRQ_INVALID
        ELSE g.hw_lr[i] = g.lr_shadow[i]

(* Whatever the guest writes, an IRQ whose pending flag is set is in a     *)
(* list register or in the queue: the flag makes vgic_dist_set_pending_irq *)
(* return early, so a flag without an IRQ in flight would silence the line *)
(* for good.                                                               *)
PendingInFlight ==
    vgic.status = "ok" => \A irq \in vgic.pending : InFlight(vgic, irq)

(* "Mirrors the GIC's vCPU list registers" (virq.h:71): the shadow agrees  *)
(* with the hardware but for the registers the guest has completed, which  *)
(* are empty in hardware and still occupied in the shadow until the        *)
(* maintenance handler runs.  The assertions in handle_vgic_maintenance    *)
(* and vgic_vcpu_load_list_reg rest on it.                                 *)
MirrorsListRegs == vgic.status = "ok" => Mirrors(vgic, Completed)

(* The queue only holds IRQs while every list register is taken: no IRQ    *)
(* waits in the queue for a maintenance interrupt that nothing will raise. *)
WorkConserving ==
    vgic.status = "ok" /\ vgic.irq_queue # << >> => EmptyListRegs(vgic) = {}

(* Between the guest, the kernel and the VMM somebody owes the ack of      *)
(* every masked line: its event has not reached the VMM yet, or its IRQ is *)
(* in flight and completing it acks, or the guest has it disabled and      *)
(* enabling it acks (the doc's states b, c and d).  Otherwise the line     *)
(* "will never occur again" (vgic_v2.c:38-40).                             *)
AckOwed ==
    vgic.status = "ok" =>
        \A irq \in vgic.masked :
            \/ irq \in notif
            \/ fault.kind = "VPPIEvent" /\ fault.arg = irq
            \/ InFlight(vgic, irq)
            \/ irq \notin vgic.enable

(* With a guest that leaves the pending registers alone, an IRQ is in      *)
(* flight exactly when it is pending, and then once: no interrupt is       *)
(* delivered twice for one event.                                          *)
SingleDelivery ==
    vgic.status = "ok" =>
        /\ \A irq \in IRQS : InFlight(vgic, irq) <=> irq \in vgic.pending
        /\ \A i, j \in ListRegs :
              vgic.lr_shadow[i] = vgic.lr_shadow[j] /\ vgic.lr_shadow[i] # VIRQ_INVALID
                  => i = j
        /\ \A k, l \in DOMAIN vgic.irq_queue :
              vgic.irq_queue[k] = vgic.irq_queue[l] => k = l
        /\ \A i \in ListRegs : ~InQueue(vgic, vgic.lr_shadow[i])

(* No assertion of the VMM fails and no NULL handle is followed, but for   *)
(* the assertion of handle_vgic_maintenance that tests err although        *)
(* nothing has set it (vgic.c:22), which may fail at any time.             *)
StopsOnlyOnUnsetErr == vgic.status \in {"ok", "unset_err"}

(* Line by line, the path does what the comment that opens vgic_v2.c says  *)
(* in its states b, c, d and g: a masked line is acknowledged when its     *)
(* interrupt is completed, when it is enabled and not pending, or when it  *)
(* is a dropped VPPI event, and by nothing else.                           *)
Waiting == notif \cup {irq \in VppiLines : fault.kind = "VPPIEvent" /\ fault.arg = irq}
Line == INSTANCE IrqLine
            WITH Lines    <- HwLines,
                 Vppis    <- VppiLines,
                 on       <- vgic_dist_is_enabled(vgic),
                 enabled  <- vgic.enable \cap HwLines,
                 masked   <- vgic.masked \cap HwLines,
                 waiting  <- Waiting,
                 pending  <- vgic.pending \cap HwLines,
                 resident <- {irq \in HwLines : InFlight(vgic, irq)},
                 halted   <- vgic.status # "ok"
ImplementsLine == Line!Spec

(* An SGI that is enabled stays enabled, whatever the guest writes: "It is *)
(* IMPLEMENTATION DEFINED if a GIC allows disabling SGIs.  Our vGIC        *)
(* implementation does not allows it" (vdist.h:160-161).                   *)
SgisStayEnabled == [][Sgis \cap vgic.enable \subseteq vgic'.enable]_vars

(* An IRQ that the guest has disabled, or that arrives while it has the    *)
(* distributor off, is not put in flight: what the guest is delivered it   *)
(* had asked for when the event was taken.                                 *)
OnlyEnabledTaken ==
    [][\A irq \in IRQS :
          ~InFlight(vgic, irq) /\ InFlight(vgic', irq)
              => vgic_dist_is_enabled(vgic) /\ irq \in vgic.enable]_vars

(* Every fault of the guest is answered. *)
FaultAnswered == fault # NoFault ~> fault = NoFault

(* An enabled line that the kernel masked is opened again. *)
LineReopens ==
    \A irq \in HwLines :
        (irq \in vgic.masked /\ irq \in vgic.enable)
            ~> (irq \notin vgic.masked \/ irq \notin vgic.enable)

(* Every interrupt the driver accepted is completed by the guest and its   *)
(* pending flag cleared.                                                   *)
PendingCompleted == \A irq \in Registered : irq \in vgic.pending ~> irq \notin vgic.pending

(* A maintenance interrupt is handled to its end: handle_vgic_maintenance  *)
(* never reaches its assert(0) (vgic.c:60).                                *)
MaintenanceNeverFails == vgic.status \notin {"maintenance_failed", "unset_err"}
=============================================================================
