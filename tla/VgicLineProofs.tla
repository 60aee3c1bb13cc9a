--------------------------- MODULE VgicLineProofs ---------------------------
(***************************************************************************)
(* What a step of Vgic does to the hardware lines, and the theorems that   *)
(* follow: the driver implements the protocol of IrqLine, a masked line is *)
(* owed its acknowledgement, only enabled interrupts are taken, SGIs stay  *)
(* enabled on GICv2, an interrupt is delivered once, and a VMM with enough *)
(* list registers never stops.                                             *)
(***************************************************************************)
EXTENDS VgicSafetyProofs, FiniteSetTheorems

(* The forms of a step, by what the driver does in it. *)
Untouched == vgic' = vgic /\ Waiting' = Waiting

Completes ==
    \E idx \in ListRegs : vgic' = Emptied(vgic, idx) /\ Waiting' = Waiting

Fires ==
    \E irq \in HwLines \ vgic.masked :
        /\ vgic' = WithMasked(vgic, vgic.masked \cup {irq})
        /\ Waiting' = Waiting \cup {irq}

Takes ==
    \E irq \in Waiting :
        /\ irq \in VppiLines => ~Dropped(vgic, irq)
        /\ vgic' = vgic_dist_set_pending_irq(vgic, irq)
        /\ vgic'.status = "ok" => Waiting' = Waiting \ {irq}

Rejects ==
    \E irq \in VppiLines \cap Waiting :
        /\ Dropped(vgic, irq)
        /\ vgic' = WithMasked(vgic, vgic.masked \ {irq})
        /\ vgic'.status = "ok" => Waiting' = Waiting \ {irq}

Injects ==
    \E irq \in IRQS :
        /\ irq \in Sgis \/ fault.kind = "ISPENDR"
        /\ vgic' = vgic_dist_set_pending_irq(vgic, irq)
        /\ Waiting' = Waiting

Maintains ==
    /\ fault.kind = "VGICMaintenance"
    /\ \E err \in UninitErr : vgic' = handle_vgic_maintenance(vgic, fault.arg, err)
    /\ vgic'.status = "ok" => fault' = NoFault
    /\ Waiting' = Waiting /\ eisr' = eisr

Switches ==
    /\ fault.kind = "CTLR"
    /\ \E c \in {0, CtlrOn} : (c = 0 => fault.arg = 0) /\ vgic' = WithCtlr(vgic, c)
    /\ Waiting' = Waiting

Enables ==
    /\ fault.kind \in EnableRegisters
    /\ \E irq \in fault.bits : vgic' = vgic_dist_enable_irq(vgic, irq)
    /\ Waiting' = Waiting

Disables ==
    /\ \E irq \in IRQS :
          /\ irq >= NUM_SGI_VIRQS \/ fault.kind \in RedistBitRegisters
          /\ vgic' = WithEnable(vgic, vgic.enable \ {irq})
    /\ Waiting' = Waiting

Clears ==
    /\ fault.kind = "ICPENDR"
    /\ \E irq \in IRQS : vgic' = unset_pending(vgic, irq)
    /\ Waiting' = Waiting

Unimplemented == fault.kind = "CPENDSGIR" /\ vgic' = Stop(vgic, "unimplemented")

DriverStep ==
    \/ Untouched \/ Completes \/ Fires \/ Takes \/ Rejects \/ Injects
    \/ Maintains \/ Switches \/ Enables \/ Disables \/ Clears \/ Unimplemented

(* What a guest of the constant GuestMay may have as its fault. *)
FaultAllowed ==
    /\ fault.kind \in {"ISPENDR", "ICPENDR", "CPENDSGIR"} => fault.kind \in GuestMay
    /\ fault.kind \in RedistBitRegisters => GIC_V3
    /\ "gate" \notin GuestMay =>
          /\ fault.kind = "CTLR" /\ fault.arg = 0 => vgic.enable \cap HwLines = {}
          /\ fault.kind \in EnableRegisters /\ fault.bits \cap HwLines # {}
                => vgic_dist_is_enabled(vgic)

(* A step raises an allowed fault, or the fault stays, loses bits or is    *)
(* answered.                                                               *)
FaultStays == fault'.kind = fault.kind /\ fault'.arg = fault.arg /\ fault'.bits \subseteq fault.bits
FaultMoves == FaultAllowed' \/ FaultStays \/ fault' = NoFault

LEMMA RegisteredHandle ==
    ASSUME NEW irq \in Registered
    PROVE  /\ irq \in IRQS /\ virq_find_irq_data(irq) = irq
           /\ virq_find_irq_data(irq) # NULL /\ virq_find_irq_data(irq) # VIRQ_INVALID
BY IrqAssumption DEF virq_find_irq_data, NULL, VIRQ_INVALID

(* The timer's lines and the devices' are distinct, and registered. *)
LEMMA HwSets ==
    /\ VppiLines \cap SpiLines = {} /\ HwLines \subseteq Registered
    /\ HwLines \subseteq IRQS /\ VppiLines \subseteq HwLines /\ SpiLines \subseteq HwLines
    /\ \A irq \in HwLines : irq >= NUM_SGI_VIRQS /\ irq \notin Sgis
    /\ \A irq \in VppiLines : irq < NUM_VCPU_LOCAL_VIRQS
    /\ \A irq \in SpiLines : irq >= NUM_VCPU_LOCAL_VIRQS /\ Board # "imx8mm_evk"
<1>1. \A irq \in VppiLines :
          irq \in Registered /\ irq \in IRQS /\ irq \in Nat /\ 16 <= irq /\ irq < 32
  BY IrqAssumption DEF VppiLines, Ppis, NUM_SGI_VIRQS, NUM_VCPU_LOCAL_VIRQS
<1>2. \A irq \in SpiLines :
          irq \in Registered /\ irq \in IRQS /\ irq \in Nat /\ 32 <= irq
  BY IrqAssumption DEF SpiLines, Spis, NUM_VCPU_LOCAL_VIRQS
<1>3. \A irq \in SpiLines : Board # "imx8mm_evk"
  BY DEF SpiLines
<1>4. VppiLines \cap SpiLines = {}
  BY <1>1, <1>2
<1>5. \A irq \in HwLines : irq \in Registered /\ irq \in IRQS /\ irq \in Nat /\ 16 <= irq
  BY <1>1, <1>2 DEF HwLines
<1>6. VppiLines \subseteq HwLines /\ SpiLines \subseteq HwLines
  BY DEF HwLines
<1>7. \A irq \in HwLines : irq >= NUM_SGI_VIRQS /\ irq \notin Sgis
  BY <1>5 DEF Sgis, NUM_SGI_VIRQS
<1>8. /\ \A irq \in VppiLines : irq < NUM_VCPU_LOCAL_VIRQS
      /\ \A irq \in SpiLines : irq >= NUM_VCPU_LOCAL_VIRQS
  BY <1>1, <1>2 DEF NUM_VCPU_LOCAL_VIRQS
<1> QED BY <1>3, <1>4, <1>5, <1>6, <1>7, <1>8

LEMMA WaitingOf ==
    /\ fault.kind # "VPPIEvent" => Waiting = notif
    /\ fault.kind = "VPPIEvent" /\ fault.arg \in VppiLines => Waiting = notif \cup {fault.arg}
BY DEF Waiting

LEMMA WaitingOfNext ==
    /\ fault'.kind # "VPPIEvent" => Waiting' = notif'
    /\ fault'.kind = "VPPIEvent" /\ fault'.arg \in VppiLines => Waiting' = notif' \cup {fault'.arg}
BY DEF Waiting
(* A guest without a fault has nothing of the VMM's to wait for but its    *)
(* notifications.                                                          *)
LEMMA NoFaultWaits ==
    /\ fault = NoFault => Waiting = notif
    /\ fault' = NoFault => Waiting' = notif'
BY WaitingOf, WaitingOfNext, NoFaultKind

(* Every step has one of the forms, and deals with the fault as said. *)
LEMMA StepForms ==
    ASSUME TypeOK, [Next]_vars
    PROVE  /\ DriverStep /\ FaultMoves
           /\ vgic.status # "ok" => UNCHANGED vars
<1> USE TypeParts
<1> DEFINE Goal == DriverStep /\ FaultMoves /\ vgic.status = "ok"
<1>1. ASSUME NEW reg \in BitRegisters, NEW D \in SUBSET IRQS, GuestWritesBits(reg, D)
      PROVE  Goal
  <2>1. /\ vgic.status = "ok" /\ fault = NoFault /\ fault' = Fault(reg, D, 0, 0)
        /\ vgic' = vgic /\ notif' = notif
        /\ reg \in RedistBitRegisters => GIC_V3
        /\ reg \in {"ISPENDR", "ICPENDR"} => reg \in GuestMay
        /\ reg \in EnableRegisters /\ D \cap HwLines # {}
              => vgic_dist_is_enabled(vgic) \/ "gate" \in GuestMay
    BY <1>1 DEF GuestWritesBits, GuestRuns
  <2>2. fault'.kind = reg /\ fault'.bits = D
    BY <2>1 DEF Fault
  <2>3. reg \notin {"VPPIEvent", "CPENDSGIR", "CTLR"}
    BY DEF BitRegisters, DistBitRegisters, RedistBitRegisters
  <2>4. FaultAllowed'
    BY <2>1, <2>2, <2>3 DEF FaultAllowed
  <2> QED BY <2>1, <2>2, <2>3, <2>4, NoFaultWaits, WaitingOfNext DEF FaultMoves, DriverStep, Untouched
<1>2. ASSUME NEW data \in CtlrData, GuestWritesCtlr(data) PROVE Goal
  <2>1. /\ vgic.status = "ok" /\ fault = NoFault /\ fault' = Fault("CTLR", {}, data, 0)
        /\ vgic' = vgic /\ notif' = notif
        /\ data = 0 => vgic.enable \cap HwLines = {} \/ "gate" \in GuestMay
    BY <1>2 DEF GuestWritesCtlr, GuestRuns
  <2>2. fault'.kind = "CTLR" /\ fault'.arg = data
    BY <2>1 DEF Fault
  <2>3. FaultAllowed'
    BY <2>1, <2>2 DEF FaultAllowed, RedistBitRegisters, EnableRegisters
  <2> QED BY <2>1, <2>2, <2>3, NoFaultWaits, WaitingOfNext DEF FaultMoves, DriverStep, Untouched
<1>3. ASSUME NEW sgi \in Sgis, NEW mode \in SgirModes, GuestWritesSgir(sgi, mode)
      PROVE  Goal
  <2>1. /\ vgic.status = "ok" /\ fault = NoFault /\ fault'.kind = "SGIR"
        /\ vgic' = vgic /\ notif' = notif
    BY <1>3, RaisedKind DEF GuestWritesSgir, GuestRuns
  <2>2. FaultAllowed'
    BY <2>1 DEF FaultAllowed, RedistBitRegisters, EnableRegisters
  <2> QED BY <2>1, <2>2, NoFaultWaits, WaitingOfNext DEF FaultMoves, DriverStep, Untouched
<1>4. ASSUME GuestWritesCpendsgir PROVE Goal
  <2>1. /\ vgic.status = "ok" /\ fault = NoFault /\ fault'.kind = "CPENDSGIR"
        /\ "CPENDSGIR" \in GuestMay /\ vgic' = vgic /\ notif' = notif
    BY <1>4, RaisedKind DEF GuestWritesCpendsgir, GuestRuns
  <2>2. FaultAllowed'
    BY <2>1 DEF FaultAllowed, RedistBitRegisters, EnableRegisters
  <2> QED BY <2>1, <2>2, NoFaultWaits, WaitingOfNext DEF FaultMoves, DriverStep, Untouched
<1>5. ASSUME GuestAccessesOther PROVE Goal
  <2>1. /\ vgic.status = "ok" /\ fault = NoFault /\ fault'.kind = "other"
        /\ vgic' = vgic /\ notif' = notif
    BY <1>5, RaisedKind DEF GuestAccessesOther, GuestRuns
  <2>2. FaultAllowed'
    BY <2>1 DEF FaultAllowed, RedistBitRegisters, EnableRegisters
  <2> QED BY <2>1, <2>2, NoFaultWaits, WaitingOfNext DEF FaultMoves, DriverStep, Untouched
<1>6. ASSUME NEW idx \in ListRegs, GuestEOI(idx) PROVE Goal
  <2>1. /\ vgic.status = "ok" /\ fault = NoFault /\ fault' = NoFault /\ notif' = notif
        /\ vgic' = Emptied(vgic, idx)
    BY <1>6 DEF GuestEOI, GuestRuns, Emptied
  <2> QED BY <2>1, NoFaultWaits DEF FaultMoves, DriverStep, Completes
<1>7. ASSUME NEW idx \in ListRegs, MaintenanceIrq(idx) PROVE Goal
  <2>1. /\ vgic.status = "ok" /\ fault = NoFault /\ fault'.kind = "VGICMaintenance"
        /\ vgic' = vgic /\ notif' = notif
    BY <1>7, RaisedKind DEF MaintenanceIrq, GuestRuns
  <2>2. FaultAllowed'
    BY <2>1 DEF FaultAllowed, RedistBitRegisters, EnableRegisters
  <2> QED BY <2>1, <2>2, NoFaultWaits, WaitingOfNext DEF FaultMoves, DriverStep, Untouched
<1>8. ASSUME NEW irq \in VppiLines, VppiFires(irq) PROVE Goal
  <2>1. /\ vgic.status = "ok" /\ fault = NoFault /\ notif' = notif
        /\ fault'.kind = "VPPIEvent" /\ fault'.arg = irq
        /\ irq \notin vgic.masked
        /\ vgic' = WithMasked(vgic, vgic.masked \cup {irq})
    BY <1>8, RaisedKind DEF VppiFires, GuestRuns, WithMasked
  <2>2. FaultAllowed'
    BY <2>1 DEF FaultAllowed, RedistBitRegisters, EnableRegisters
  <2>3. Waiting' = Waiting \cup {irq} /\ irq \in HwLines \ vgic.masked
    BY <2>1, NoFaultWaits, WaitingOfNext, HwSets
  <2> QED BY <2>1, <2>2, <2>3 DEF FaultMoves, DriverStep, Fires
<1>9. ASSUME NEW irq \in SpiLines, DeviceFires(irq) PROVE Goal
  <2>1. /\ vgic.status = "ok" /\ fault' = fault /\ notif' = notif \cup {irq}
        /\ irq \notin vgic.masked
        /\ vgic' = WithMasked(vgic, vgic.masked \cup {irq})
    BY <1>9 DEF DeviceFires, WithMasked
  <2>2. Waiting' = Waiting \cup {irq} /\ irq \in HwLines \ vgic.masked
    BY <2>1, HwSets DEF Waiting
  <2> QED BY <2>1, <2>2 DEF FaultMoves, FaultStays, DriverStep, Fires
<1>10. ASSUME NEW irq \in SpiLines, Notified(irq) PROVE Goal
  <2>1. /\ vgic.status = "ok" /\ fault' = fault /\ notif' = notif \ {irq} /\ irq \in notif
        /\ vgic' = vgic_dist_set_pending_irq(vgic, irq)
    BY <1>10 DEF Notified, VmmReady, vgic_inject_irq
  <2>2. Waiting' = Waiting \ {irq} /\ irq \in Waiting /\ irq \notin VppiLines
    BY <2>1, HwSets DEF Waiting
  <2> QED BY <2>1, <2>2 DEF FaultMoves, FaultStays, DriverStep, Takes
<1>11. ASSUME HandleVppiEvent PROVE Goal
  <2>1. /\ vgic.status = "ok" /\ fault.kind = "VPPIEvent" /\ fault.arg \in VppiLines
        /\ vgic' = handle_vppi_event(vgic, fault.arg) /\ notif' = notif
        /\ IF vgic'.status = "ok" THEN fault' = NoFault ELSE fault' = fault
    BY <1>11 DEF HandleVppiEvent, VmmReady, FaultTyped, Reply
  <2>2. fault.arg \in Waiting /\ fault.arg \notin notif /\ Waiting = notif \cup {fault.arg}
    BY <2>1, WaitingOf, HwSets
  <2>3. vgic'.status = "ok" => Waiting' = Waiting \ {fault.arg}
    BY <2>1, <2>2, NoFaultWaits
  <2>4. FaultMoves
    BY <2>1 DEF FaultMoves, FaultStays
  <2>5. CASE ~Dropped(vgic, fault.arg)
    <3>1. vgic' = vgic_dist_set_pending_irq(vgic, fault.arg)
      BY <2>1, <2>5, VppiCases
    <3> QED BY <2>1, <2>2, <2>3, <2>4, <2>5, <3>1 DEF DriverStep, Takes
  <2>6. CASE Dropped(vgic, fault.arg)
    <3>1. vgic_dist_set_pending_irq(vgic, fault.arg) = vgic
      BY <2>1, <2>6, RegisteredHandle, HwSets DEF vgic_dist_set_pending_irq
    <3>2. vgic' = WithMasked(vgic, vgic.masked \ {fault.arg})
      BY <2>1, <2>6, <3>1, VppiCases
    <3> QED BY <2>1, <2>2, <2>3, <2>4, <2>6, <3>2 DEF DriverStep, Rejects
  <2> QED BY <2>5, <2>6
<1>12. ASSUME HandleVgicMaintenance PROVE Goal
  <2>1. /\ vgic.status = "ok" /\ fault.kind = "VGICMaintenance" /\ fault.arg \in ListRegs
        /\ \E err \in UninitErr : vgic' = handle_vgic_maintenance(vgic, fault.arg, err)
        /\ IF vgic'.status = "ok" THEN fault' = NoFault ELSE fault' = fault
        /\ notif' = notif /\ eisr' = eisr
    BY <1>12 DEF HandleVgicMaintenance, VmmReady, FaultTyped, Reply
  <2>2. Waiting = notif /\ Waiting' = notif
    BY <2>1, WaitingOf, WaitingOfNext, NoFaultKind
  <2> QED BY <2>1, <2>2 DEF FaultMoves, FaultStays, DriverStep, Maintains
<1>13. ASSUME HandleCtlrWrite PROVE Goal
  <2>1. /\ vgic.status = "ok" /\ fault.kind = "CTLR" /\ notif' = notif
        /\ vgic' = vgic_dist_ctlr_write(vgic, fault.arg)
        /\ IF vgic'.status = "ok" THEN fault' = NoFault ELSE fault' = fault
    BY <1>13 DEF HandleCtlrWrite, VmmReady, Reply
  <2>2. Waiting' = Waiting
    BY <2>1, WaitingOf, WaitingOfNext, NoFaultKind
  <2>3. vgic' = vgic \/ \E c \in {0, CtlrOn} : (c = 0 => fault.arg = 0) /\ vgic' = WithCtlr(vgic, c)
    <3>1. CtlrOn # 0
      BY DEF CtlrOn, GIC_ENABLED, GIC_500_ARE_S, GIC_500_GRP1_NS
    <3> QED BY <2>1, <3>1 DEF vgic_dist_ctlr_write, vgic_dist_enable, vgic_dist_disable, WithCtlr
  <2> QED BY <2>1, <2>2, <2>3 DEF FaultMoves, FaultStays, DriverStep, Switches, Untouched
<1>14. ASSUME HandleSgirWrite PROVE Goal
  <2>1. /\ vgic.status = "ok" /\ fault.kind = "SGIR" /\ fault.arg \in Sgis
        /\ vgic' = vgic_dist_sgir_write(vgic, fault.arg, fault.mode) /\ notif' = notif
        /\ IF vgic'.status = "ok" THEN fault' = NoFault ELSE fault' = fault
    BY <1>14 DEF HandleSgirWrite, VmmReady, FaultTyped, Reply
  <2>2. Waiting' = Waiting /\ fault.arg \in IRQS
    BY <2>1, WaitingOf, WaitingOfNext, NoFaultKind, LineSets
  <2>3. vgic' = vgic \/ vgic' = vgic_dist_set_pending_irq(vgic, fault.arg)
    BY <2>1 DEF vgic_dist_sgir_write, vgic_inject_irq
  <2> QED BY <2>1, <2>2, <2>3 DEF FaultMoves, FaultStays, DriverStep, Injects, Untouched
<1>15. ASSUME HandleCpendsgirWrite PROVE Goal
  BY <1>15 DEF HandleCpendsgirWrite, VmmReady, Reply, FaultMoves, FaultStays, DriverStep,
               Unimplemented
<1>16. ASSUME HandleOther PROVE Goal
  <2>1. /\ vgic.status = "ok" /\ fault.kind = "other" /\ fault' = NoFault
        /\ vgic' = vgic /\ notif' = notif
    BY <1>16 DEF HandleOther, VmmReady
  <2> QED BY <2>1, WaitingOf, NoFaultWaits DEF FaultMoves, DriverStep, Untouched
<1>17. ASSUME BeginBitWrite PROVE Goal
  BY <1>17 DEF BeginBitWrite, VmmReady, FaultMoves, FaultStays, DriverStep, Untouched, Waiting
<1>18. ASSUME fault.bits # {}, fault' = [fault EXCEPT !.bits = @ \ {Min(@)}],
              UNCHANGED <<vmm, notif, eisr>>
       PROVE  /\ FaultMoves /\ Waiting' = Waiting
              /\ Min(fault.bits) \in fault.bits /\ Min(fault.bits) \in IRQS
  <2>1. FaultStays
    BY <1>18, BitTyped DEF FaultStays
  <2>2. Waiting' = Waiting
    BY <1>18, <2>1 DEF Waiting, FaultStays
  <2> QED BY <1>18, <2>1, <2>2, BitIrq DEF FaultMoves
<1>19. ASSUME WriteIsenabler \/ WriteGicrIsenabler0 PROVE Goal
  <2>1. /\ vgic.status = "ok" /\ fault.kind \in EnableRegisters /\ fault.bits # {}
        /\ vgic' = vgic_dist_enable_irq(vgic, Min(fault.bits))
        /\ fault' = [fault EXCEPT !.bits = @ \ {Min(@)}] /\ UNCHANGED <<vmm, notif, eisr>>
    BY <1>19 DEF WriteIsenabler, WriteGicrIsenabler0, BitStep, EnableRegisters
  <2> QED BY <1>18, <2>1 DEF DriverStep, Enables
<1>20. ASSUME WriteIcenabler PROVE Goal
  <2>1. /\ vgic.status = "ok" /\ fault.kind = "ICENABLER" /\ fault.bits # {}
        /\ vgic' = vgic_dist_disable_irq(vgic, Min(fault.bits))
        /\ fault' = [fault EXCEPT !.bits = @ \ {Min(@)}] /\ UNCHANGED <<vmm, notif, eisr>>
    BY <1>20 DEF WriteIcenabler, BitStep
  <2>2. \/ vgic' = vgic
        \/ /\ Min(fault.bits) >= NUM_SGI_VIRQS
           /\ vgic' = WithEnable(vgic, vgic.enable \ {Min(fault.bits)})
    BY <2>1 DEF vgic_dist_disable_irq, unset_enable, WithEnable
  <2> QED BY <1>18, <2>1, <2>2 DEF DriverStep, Disables, Untouched
<1>21. ASSUME WriteGicrIcenabler0 PROVE Goal
  <2>1. /\ vgic.status = "ok" /\ fault.kind \in RedistBitRegisters /\ fault.bits # {}
        /\ vgic' = WithEnable(vgic, vgic.enable \ {Min(fault.bits)})
        /\ fault' = [fault EXCEPT !.bits = @ \ {Min(@)}] /\ UNCHANGED <<vmm, notif, eisr>>
    BY <1>21 DEF WriteGicrIcenabler0, BitStep, RedistBitRegisters, unset_enable, WithEnable
  <2> QED BY <1>18, <2>1 DEF DriverStep, Disables
<1>22. ASSUME WriteIspendr PROVE Goal
  <2>1. /\ vgic.status = "ok" /\ fault.kind = "ISPENDR" /\ fault.bits # {}
        /\ vgic' = vgic_dist_set_pending_irq(vgic, Min(fault.bits))
        /\ fault' = [fault EXCEPT !.bits = @ \ {Min(@)}] /\ UNCHANGED <<vmm, notif, eisr>>
    BY <1>22 DEF WriteIspendr, BitStep
  <2> QED BY <1>18, <2>1 DEF DriverStep, Injects
<1>23. ASSUME WriteIcpendr PROVE Goal
  <2>1. /\ vgic.status = "ok" /\ fault.kind = "ICPENDR" /\ fault.bits # {}
        /\ vgic' = unset_pending(vgic, Min(fault.bits))
        /\ fault' = [fault EXCEPT !.bits = @ \ {Min(@)}] /\ UNCHANGED <<vmm, notif, eisr>>
    BY <1>23 DEF WriteIcpendr, BitStep, vgic_dist_clr_pending_irq
  <2> QED BY <1>18, <2>1 DEF DriverStep, Clears
<1>24. ASSUME EndBitWrite PROVE Goal
  <2>1. /\ vgic.status = "ok" /\ fault.kind \in BitRegisters
        /\ fault' = NoFault /\ vgic' = vgic /\ notif' = notif
    BY <1>24 DEF EndBitWrite, FaultTyped
  <2>2. fault.kind # "VPPIEvent"
    BY <2>1 DEF BitRegisters, DistBitRegisters, RedistBitRegisters
  <2> QED BY <2>1, <2>2, WaitingOf, NoFaultWaits DEF FaultMoves, DriverStep, Untouched
<1>25. ASSUME UNCHANGED vars PROVE DriverStep /\ FaultMoves
  BY <1>25 DEF vars, DriverStep, Untouched, Waiting, FaultMoves, FaultStays
<1> HIDE DEF Goal
<1>26. Goal \/ UNCHANGED vars
  BY <1>1, <1>2, <1>3, <1>4, <1>5, <1>6, <1>7, <1>8, <1>9, <1>10, <1>11, <1>12, <1>13,
     <1>14, <1>15, <1>16, <1>17, <1>19, <1>20, <1>21, <1>22, <1>23, <1>24
     DEF Next, GuestStep, KernelStep, FaultStep, Spin
<1> QED BY <1>25, <1>26 DEF Goal
----------------------------------------------------------------------------
(* What may newly be in flight when r follows g: at most irq, and only if  *)
(* it is enabled and the distributor on.                                   *)
TakenOnly(g, r, irq) ==
    /\ r.enable = g.enable /\ r.ctlr = g.ctlr
    /\ \A j \in IRQS : InFlight(r, j) => InFlight(g, j) \/ (j = irq /\ ~Dropped(g, irq))

LEMMA StopSame ==
    ASSUME NEW g \in VgicStates, NEW why
    PROVE  LET r == Stop(g, why)
           IN  /\ r.irq_queue = g.irq_queue /\ r.pending = g.pending
               /\ r.lr_shadow = g.lr_shadow /\ r.hw_lr = g.hw_lr
               /\ r.ctlr = g.ctlr /\ r.enable = g.enable /\ r.masked = g.masked
BY DEF VgicStates, Stop

(* The places an IRQ can be in after it was appended to the queue and the  *)
(* head was taken.                                                         *)
LEMMA ShiftedFrom ==
    ASSUME NEW s \in Seq(IRQS), NEW irq \in IRQS
    PROVE  LET a == Append(s, irq)
               From(j) == j = irq \/ \E k \in DOMAIN s : s[k] = j
           IN  /\ \A k \in DOMAIN a : From(a[k])
               /\ \A k \in DOMAIN Tail(a) : From(Tail(a)[k])
               /\ From(Head(a))
<1> DEFINE a == Append(s, irq)
           From(j) == j = irq \/ \E k \in DOMAIN s : s[k] = j
<1>1. /\ a \in Seq(IRQS) /\ Tail(a) \in Seq(IRQS) /\ Len(s) \in Nat
      /\ Len(a) = Len(s) + 1 /\ Len(Tail(a)) = Len(s) /\ Head(a) = a[1]
      /\ \A k \in 1 .. Len(s) : a[k] = s[k] /\ Tail(a)[k] = a[k + 1]
      /\ a[Len(s) + 1] = irq
  BY QueueShift
<1> HIDE DEF a
<1>2. DOMAIN s = 1 .. Len(s) /\ DOMAIN a = 1 .. Len(s) + 1 /\ DOMAIN Tail(a) = 1 .. Len(s)
  BY <1>1
<1>3. ASSUME NEW k \in 1 .. Len(s) + 1 PROVE From(a[k])
  <2>1. k \in 1 .. Len(s) \/ k = Len(s) + 1
    BY <1>1
  <2> QED BY <1>1, <1>2, <2>1
<1>4. \A k \in 1 .. Len(s) : k + 1 \in 1 .. Len(s) + 1
  BY <1>1
<1>5. 1 \in 1 .. Len(s) + 1
  BY <1>1
<1> QED BY <1>1, <1>2, <1>3, <1>4, <1>5 DEF a

(* Whatever becomes of it, vgic_dist_set_pending_irq puts nothing but its  *)
(* IRQ in flight, and that only when it does not drop it.                  *)
LEMMA SetPendingFrom ==
    ASSUME NEW g, Typed(g), NEW irq \in IRQS
    PROVE  TakenOnly(g, vgic_dist_set_pending_irq(g, irq), irq)
<1> DEFINE r == vgic_dist_set_pending_irq(g, irq)
           a == Append(g.irq_queue, irq)
           p == set_pending(g, irq)
           q == vgic_irq_enqueue(p, irq)
           d == vgic_irq_dequeue(q)
           From(j) == j = irq \/ \E k \in DOMAIN g.irq_queue : g.irq_queue[k] = j
<1>1. /\ g \in VgicStates /\ g.irq_queue \in Seq(IRQS) /\ g.pending \cup {irq} \in SUBSET IRQS
      /\ g.lr_shadow \in [ListRegs -> IRQS \cup {VIRQ_INVALID}]
  BY DEF Typed, VgicStates
<1>2. a \in Seq(IRQS) /\ Head(a) \in IRQS /\ Tail(a) \in Seq(IRQS)
  BY <1>1, QueueShift
<1>3. /\ \A k \in DOMAIN a : From(a[k])
      /\ \A k \in DOMAIN Tail(a) : From(Tail(a)[k])
      /\ From(Head(a))
  BY <1>1, ShiftedFrom
<1> HIDE DEF a
<1>4. /\ p \in VgicStates /\ p.irq_queue = g.irq_queue /\ p.lr_shadow = g.lr_shadow
      /\ p.ctlr = g.ctlr /\ p.enable = g.enable
  <2>1. p = WithPending(g, g.pending \cup {irq})
    BY DEF set_pending, WithPending
  <2> HIDE DEF p
  <2> QED BY <1>1, <2>1, PendingFields
<1>5. /\ q \in VgicStates /\ q.irq_queue = a /\ q.lr_shadow = g.lr_shadow
      /\ q.ctlr = g.ctlr /\ q.enable = g.enable
  <2>1. q = WithQueue(p, a)
    BY <1>4 DEF vgic_irq_enqueue, WithQueue, a
  <2> HIDE DEF p, q
  <2> QED BY <1>2, <1>4, <2>1, SetQueue
<1>6. /\ d \in VgicStates /\ d.irq_queue = Tail(a) /\ d.lr_shadow = g.lr_shadow
      /\ d.ctlr = g.ctlr /\ d.enable = g.enable
  <2>1. d = WithQueue(q, Tail(a))
    BY <1>5 DEF vgic_irq_dequeue, WithQueue
  <2> HIDE DEF q, d
  <2> QED BY <1>2, <1>5, <2>1, SetQueue
<1>7. \/ r = Stop(g, "null_handle")
      \/ r = g
      \/ r = Stop(p, "queue_full")
      \/ ~Dropped(g, irq) /\ r = q
      \/ /\ ~Dropped(g, irq)
         /\ \E idx \in ListRegs : r = vgic_vcpu_load_list_reg(d, idx, Head(q.irq_queue))
  BY SetPendingCases
<1> HIDE DEF p, q, d, r
<1>8. CASE r = g \/ r = Stop(g, "null_handle") \/ r = Stop(p, "queue_full")
  <2>1. /\ r.irq_queue = g.irq_queue /\ r.lr_shadow = g.lr_shadow
        /\ r.enable = g.enable /\ r.ctlr = g.ctlr
    BY <1>1, <1>4, <1>8, StopSame
  <2> QED BY <2>1 DEF r, TakenOnly, InFlight, InListReg, InQueue
<1>9. ASSUME r.enable = g.enable, r.ctlr = g.ctlr, ~Dropped(g, irq),
             \A k \in DOMAIN r.irq_queue : From(r.irq_queue[k]),
             \A i \in ListRegs : r.lr_shadow[i] = g.lr_shadow[i] \/ From(r.lr_shadow[i])
      PROVE  TakenOnly(g, r, irq)
  BY <1>9 DEF TakenOnly, InFlight, InListReg, InQueue
<1>10. CASE ~Dropped(g, irq) /\ r = q
  BY <1>3, <1>5, <1>9, <1>10 DEF r
<1>11. CASE /\ ~Dropped(g, irq)
            /\ \E idx \in ListRegs : r = vgic_vcpu_load_list_reg(d, idx, Head(q.irq_queue))
  <2> PICK idx \in ListRegs : r = vgic_vcpu_load_list_reg(d, idx, Head(a))
    BY <1>5, <1>11
  <2>1. CASE r = Stop(d, "list_reg_busy")
    <3>1. /\ r.irq_queue = Tail(a) /\ r.lr_shadow = g.lr_shadow
          /\ r.enable = g.enable /\ r.ctlr = g.ctlr
      BY <1>6, <2>1, StopSame
    <3> QED BY <1>3, <1>9, <1>11, <3>1 DEF r
  <2>2. CASE r = Loaded(d, idx, Head(a))
    <3>1. /\ r.irq_queue = Tail(a) /\ r.lr_shadow = [g.lr_shadow EXCEPT ![idx] = Head(a)]
          /\ r.enable = g.enable /\ r.ctlr = g.ctlr
      <4> DEFINE l == Loaded(d, idx, Head(a))
      <4>1. /\ l.irq_queue = d.irq_queue
            /\ l.lr_shadow = [d.lr_shadow EXCEPT ![idx] = Head(a)]
            /\ l.enable = d.enable /\ l.ctlr = d.ctlr
        BY <1>2, <1>6, LoadedFields
      <4> HIDE DEF l
      <4> QED BY <1>6, <2>2, <4>1 DEF l
    <3>2. \A i \in ListRegs : r.lr_shadow[i] = g.lr_shadow[i] \/ From(r.lr_shadow[i])
      BY <1>1, <1>3, <3>1
    <3> QED BY <1>3, <1>9, <1>11, <3>1, <3>2 DEF r
  <2> QED BY <2>1, <2>2 DEF vgic_vcpu_load_list_reg, Loaded
<1> QED BY <1>7, <1>8, <1>10, <1>11 DEF r

(* TakenOnly is about the enable bits, the switch, the list registers and  *)
(* the queue.                                                              *)
LEMMA TakenSame ==
    ASSUME NEW g, NEW h, NEW r, NEW irq, TakenOnly(h, r, irq),
           h.enable = g.enable, h.ctlr = g.ctlr,
           \A j \in IRQS : InFlight(h, j) => InFlight(g, j)
    PROVE  TakenOnly(g, r, irq)
<1>1. Dropped(h, irq) <=> Dropped(g, irq)
  BY DEF Dropped, vgic_dist_is_enabled
<1> QED BY <1>1 DEF TakenOnly

LEMMA AckFrom ==
    ASSUME NEW g, Typed(g), NEW irq \in IRQS
    PROVE  /\ TakenOnly(g, virq_ack(g, irq), SERIAL_IRQ_CH)
           /\ irq = SERIAL_IRQ_CH => virq_ack(g, irq) = g
<1> DEFINE m == WithMasked(g, g.masked \ {irq})
<1>1. g.masked \ {irq} \in SUBSET IRQS
  BY DEF Typed, VgicStates
<1>2. /\ Typed(m) /\ m.irq_queue = g.irq_queue /\ m.lr_shadow = g.lr_shadow
      /\ m.ctlr = g.ctlr /\ m.enable = g.enable
  BY <1>1, MaskedTyped
<1> HIDE DEF m
<1>3. \A j : InFlight(m, j) <=> InFlight(g, j)
  BY <1>2 DEF InFlight, InListReg, InQueue
<1>4. TakenOnly(g, g, SERIAL_IRQ_CH) /\ TakenOnly(g, m, SERIAL_IRQ_CH)
  BY <1>2, <1>3 DEF TakenOnly
<1>5. SERIAL_IRQ_CH \in IRQS =>
          TakenOnly(g, vgic_dist_set_pending_irq(m, SERIAL_IRQ_CH), SERIAL_IRQ_CH)
  BY <1>2, <1>3, SetPendingFrom, TakenSame
<1>6. TakenOnly(g, virq_ack(g, irq), SERIAL_IRQ_CH)
  BY <1>4, <1>5, AckCases DEF m
<1>7. irq = SERIAL_IRQ_CH => virq_ack(g, irq) = g
  BY DEF virq_ack, sgi_ack, SERIAL_IRQ_CH, NUM_SGI_VIRQS
<1> QED BY <1>6, <1>7

(* Freeing a list register puts nothing in flight. *)
LEMMA FreedFrom ==
    ASSUME NEW g, Typed(g), NEW idx \in ListRegs, NEW virq
    PROVE  LET f == unset_pending(Freed(g, idx), virq)
           IN  /\ Typed(f) /\ f.enable = g.enable /\ f.ctlr = g.ctlr
               /\ \A j \in IRQS : InFlight(f, j) => InFlight(g, j)
<1> DEFINE h == Freed(g, idx)
           f == unset_pending(h, virq)
<1>1. /\ Typed(h) /\ h.irq_queue = g.irq_queue
      /\ h.lr_shadow = [g.lr_shadow EXCEPT ![idx] = VIRQ_INVALID]
      /\ h.ctlr = g.ctlr /\ h.enable = g.enable
  BY FreedTyped
<1> HIDE DEF h
<1>2. /\ Typed(f) /\ f.irq_queue = g.irq_queue
      /\ f.lr_shadow = [g.lr_shadow EXCEPT ![idx] = VIRQ_INVALID]
      /\ f.ctlr = g.ctlr /\ f.enable = g.enable
  BY <1>1, ClearTyped
<1> HIDE DEF f
<1>3. g.lr_shadow \in [ListRegs -> IRQS \cup {VIRQ_INVALID}]
  BY DEF Typed, VgicStates
<1>4. \A j \in IRQS : InFlight(f, j) => InFlight(g, j)
  BY <1>2, <1>3, IrqValid DEF InFlight, InListReg, InQueue
<1> QED BY <1>2, <1>4 DEF f, h

(* Neither does moving the head of the queue to a list register. *)
LEMMA MoveFrom ==
    ASSUME NEW g, Typed(g), g.irq_queue # << >>, NEW idx \in ListRegs
    PROVE  LET l == vgic_vcpu_load_list_reg(vgic_irq_dequeue(g), idx, Head(g.irq_queue))
           IN  /\ l \in VgicStates /\ l.enable = g.enable /\ l.ctlr = g.ctlr
               /\ \A j \in IRQS : InFlight(l, j) => InFlight(g, j)
<1> DEFINE s == g.irq_queue
           d == vgic_irq_dequeue(g)
           l == vgic_vcpu_load_list_reg(d, idx, Head(s))
<1>1. /\ g \in VgicStates /\ s \in Seq(IRQS) /\ Len(s) \in Nat
      /\ Len(s) < MAX_IRQ_QUEUE_LEN
      /\ g.lr_shadow \in [ListRegs -> IRQS \cup {VIRQ_INVALID}]
  BY DEF Typed, VgicStates
<1>2. /\ Head(s) \in IRQS /\ Tail(s) \in Seq(IRQS) /\ Head(s) = s[1]
      /\ Len(Tail(s)) = Len(s) - 1 /\ 1 \in DOMAIN s
      /\ \A k \in DOMAIN Tail(s) : k + 1 \in DOMAIN s /\ Tail(s)[k] = s[k + 1]
  BY <1>1
<1>3. Len(Tail(s)) < MAX_IRQ_QUEUE_LEN
  BY <1>1, <1>2, QueueAssumption
<1>4. d = WithQueue(g, Tail(s))
  BY DEF vgic_irq_dequeue, WithQueue
<1> HIDE DEF d, s
<1>5. /\ d \in VgicStates /\ d.irq_queue = Tail(s) /\ d.lr_shadow = g.lr_shadow
      /\ d.ctlr = g.ctlr /\ d.enable = g.enable
  BY <1>1, <1>2, <1>4, SetQueue
<1>6. Typed(d)
  BY <1>3, <1>5 DEF Typed
<1>7. Typed(l)
  BY <1>2, <1>6, LoadTyped
<1>8. CASE l = Stop(d, "list_reg_busy")
  <2> HIDE DEF l
  <2>1. /\ l.irq_queue = Tail(s) /\ l.lr_shadow = g.lr_shadow
        /\ l.enable = g.enable /\ l.ctlr = g.ctlr
    BY <1>5, <1>8, StopSame
  <2>2. \A j \in IRQS : InFlight(l, j) => InFlight(g, j)
    BY <1>2, <2>1 DEF s, InFlight, InListReg, InQueue
  <2> QED BY <1>7, <2>1, <2>2 DEF l, d, s, Typed
<1>9. CASE l = Loaded(d, idx, Head(s))
  <2> DEFINE n == Loaded(d, idx, Head(s))
  <2>1. /\ n.irq_queue = d.irq_queue
        /\ n.lr_shadow = [d.lr_shadow EXCEPT ![idx] = Head(s)]
        /\ n.enable = d.enable /\ n.ctlr = d.ctlr
    BY <1>2, <1>5, LoadedFields
  <2> HIDE DEF n, l
  <2>2. /\ l.irq_queue = Tail(s) /\ l.lr_shadow = [g.lr_shadow EXCEPT ![idx] = Head(s)]
        /\ l.enable = g.enable /\ l.ctlr = g.ctlr
    BY <1>5, <1>9, <2>1 DEF n
  <2>3. \A j \in IRQS : InFlight(l, j) => InFlight(g, j)
    <3>1. ASSUME NEW j \in IRQS, InQueue(l, j) PROVE InQueue(g, j)
      BY <1>2, <2>2, <3>1 DEF s, InQueue
    <3>2. ASSUME NEW j \in IRQS, InListReg(l, j) PROVE InListReg(g, j) \/ InQueue(g, j)
      <4>1. PICK i \in ListRegs : l.lr_shadow[i] = j
        BY <3>2 DEF InListReg
      <4>2. g.lr_shadow[i] = j \/ s[1] = j
        BY <1>1, <1>2, <2>2, <4>1
      <4> QED BY <1>2, <4>2 DEF s, InListReg, InQueue
    <3> QED BY <3>1, <3>2 DEF InFlight
  <2> QED BY <1>7, <2>2, <2>3 DEF l, d, s, Typed
<1> QED BY <1>8, <1>9 DEF vgic_vcpu_load_list_reg, Loaded, d, s

(* The maintenance handler may put the channel number in flight that       *)
(* serial_ack() of odroidc2 injects, and nothing else.                     *)
LEMMA MaintenanceFrom ==
    ASSUME NEW g, Typed(g), NEW idx \in ListRegs, NEW err
    PROVE  TakenOnly(g, handle_vgic_maintenance(g, idx, err), SERIAL_IRQ_CH)
<1> DEFINE virq  == g.lr_shadow[idx]
           f     == unset_pending(Freed(g, idx), virq)
           acked == virq_ack(f, virq)
           load  == vgic_vcpu_load_list_reg(vgic_irq_dequeue(acked), idx, Head(acked.irq_queue))
           r     == handle_vgic_maintenance(g, idx, err)
           Same(h) == /\ h.enable = acked.enable /\ h.ctlr = acked.ctlr
                      /\ \A j \in IRQS : InFlight(h, j) => InFlight(acked, j)
<1>1. r = IF virq = VIRQ_INVALID THEN Stop(g, "spurious_maintenance")
          ELSE IF acked.status # "ok" THEN acked
          ELSE IF acked.irq_queue = << >>
          THEN IF err = 0 THEN acked ELSE Stop(acked, "unset_err")
          ELSE IF load.status # "ok" THEN load
          ELSE Stop(load, "maintenance_failed")
  BY DEF handle_vgic_maintenance, Freed
<1>2. Typed(f) /\ f.enable = g.enable /\ f.ctlr = g.ctlr
      /\ \A j \in IRQS : InFlight(f, j) => InFlight(g, j)
  BY FreedFrom
<1>3. virq \in IRQS \cup {VIRQ_INVALID}
  BY DEF Typed, VgicStates
<1> HIDE DEF f, virq, r
<1>4. CASE virq = VIRQ_INVALID
  <2>1. r = Stop(g, "spurious_maintenance") /\ g \in VgicStates
    BY <1>1, <1>4 DEF Typed
  <2>2. /\ r.enable = g.enable /\ r.ctlr = g.ctlr
        /\ r.lr_shadow = g.lr_shadow /\ r.irq_queue = g.irq_queue
    BY <2>1, StopSame
  <2> QED BY <2>2 DEF r, TakenOnly, InFlight, InListReg, InQueue
<1>5. CASE virq # VIRQ_INVALID
  <2>1. Typed(acked) /\ TakenOnly(f, acked, SERIAL_IRQ_CH)
    BY <1>2, <1>3, <1>5, AckFrom, AckTyped
  <2>2. TakenOnly(g, acked, SERIAL_IRQ_CH)
    BY <1>2, <2>1, TakenSame
  <2>3. acked.irq_queue # << >> => load \in VgicStates /\ Same(load)
    BY <2>1, MoveFrom
  <2> HIDE DEF acked, load
  <2>4. ASSUME NEW h \in VgicStates, NEW why PROVE Same(h) => Same(Stop(h, why))
    BY StopSame DEF InFlight, InListReg, InQueue
  <2>5. Same(acked) /\ Same(Stop(acked, "unset_err"))
    BY <2>1, <2>4 DEF Typed
  <2>6. acked.irq_queue # << >> => Same(Stop(load, "maintenance_failed"))
    BY <2>3, <2>4
  <2> HIDE DEF Same
  <2>7. Same(r)
    BY <1>1, <1>5, <2>3, <2>5, <2>6
  <2> QED BY <2>2, <2>7 DEF Same, TakenOnly, r
<1> QED BY <1>4, <1>5

----------------------------------------------------------------------------
(* What was not in flight and is after the step was asked for. *)
Asked ==
    \A irq \in IRQS :
        ~InFlight(vgic, irq) /\ InFlight(vgic', irq)
            => vgic_dist_is_enabled(vgic) /\ irq \in vgic.enable

(* The distributor is switched by a write to CTLR, and a line is enabled   *)
(* by a write to an enable register.                                       *)
CtlrMoves ==
    \/ vgic'.ctlr = vgic.ctlr
    \/ /\ fault.kind = "CTLR" /\ vgic'.enable = vgic.enable
       /\ fault.arg = 0 \/ vgic'.ctlr = CtlrOn
EnableMoves ==
    \/ vgic'.enable \subseteq vgic.enable
    \/ /\ fault.kind \in EnableRegisters
       /\ \E irq \in fault.bits : vgic'.enable \subseteq vgic.enable \cup {irq}

LEMMA TakenAsked ==
    ASSUME NEW irq, TakenOnly(vgic, vgic', irq)
    PROVE  Asked /\ vgic'.enable = vgic.enable /\ vgic'.ctlr = vgic.ctlr
BY DEF TakenOnly, Asked, Dropped

LEMMA SameAsked ==
    ASSUME vgic'.irq_queue = vgic.irq_queue, vgic'.lr_shadow = vgic.lr_shadow
    PROVE  Asked
BY DEF Asked, InFlight, InListReg, InQueue

LEMMA AskedStep ==
    ASSUME TypeOK, [Next]_vars
    PROVE  /\ Asked
           /\ fault.kind \notin RedistBitRegisters => Sgis \cap vgic.enable \subseteq vgic'.enable
           /\ CtlrMoves /\ EnableMoves
<1> USE DEF CtlrMoves, EnableMoves
<1>1. DriverStep /\ Typed(vgic) /\ FaultTyped
  BY StepForms, TypeParts
<1>2. CASE Untouched
  BY <1>2, SameAsked DEF Untouched
<1>3. CASE Completes
  <2>1. PICK idx \in ListRegs : vgic' = Emptied(vgic, idx)
    BY <1>3 DEF Completes
  <2>2. /\ vgic'.irq_queue = vgic.irq_queue /\ vgic'.lr_shadow = vgic.lr_shadow
        /\ vgic'.enable = vgic.enable /\ vgic'.ctlr = vgic.ctlr
    BY <1>1, <2>1, EmptiedTyped
  <2> QED BY <2>2, SameAsked
<1>4. CASE Fires
  <2>1. PICK irq \in HwLines : vgic' = WithMasked(vgic, vgic.masked \cup {irq})
    BY <1>4 DEF Fires
  <2>2. vgic.masked \cup {irq} \in SUBSET IRQS
    BY <1>1, HwSets DEF Typed, VgicStates
  <2> QED BY <1>1, <2>1, <2>2, MaskedTyped, SameAsked
<1>5. CASE Takes
  <2>1. PICK irq \in Waiting : vgic' = vgic_dist_set_pending_irq(vgic, irq)
    BY <1>5 DEF Takes
  <2>2. irq \in IRQS
    BY <2>1, LineSets, TypeParts DEF Waiting
  <2> QED BY <1>1, <2>1, <2>2, SetPendingFrom, TakenAsked
<1>6. CASE Rejects
  <2>1. PICK irq : vgic' = WithMasked(vgic, vgic.masked \ {irq})
    BY <1>6 DEF Rejects
  <2>2. vgic.masked \ {irq} \in SUBSET IRQS
    BY <1>1 DEF Typed, VgicStates
  <2> QED BY <1>1, <2>1, <2>2, MaskedTyped, SameAsked
<1>7. CASE Injects
  BY <1>1, <1>7, SetPendingFrom, TakenAsked DEF Injects
<1>8. CASE Maintains
  BY <1>1, <1>8, MaintenanceFrom, TakenAsked DEF Maintains, FaultTyped
<1>9. CASE Switches
  <2>1. PICK c \in {0, CtlrOn} : (c = 0 => fault.arg = 0) /\ vgic' = WithCtlr(vgic, c)
    BY <1>9 DEF Switches
  <2>2. /\ vgic'.irq_queue = vgic.irq_queue /\ vgic'.lr_shadow = vgic.lr_shadow
        /\ vgic'.enable = vgic.enable /\ vgic'.ctlr = c
    BY <1>1, <2>1, CtlrTyped
  <2> QED BY <1>9, <2>1, <2>2, SameAsked DEF Switches
<1>10. CASE Enables
  <2>1. PICK irq \in fault.bits : vgic' = vgic_dist_enable_irq(vgic, irq)
    BY <1>10 DEF Enables
  <2>2. irq \in IRQS
    BY <1>1, <2>1 DEF FaultTyped
  <2> DEFINE e == WithEnable(vgic, vgic.enable \cup {irq})
  <2>3. vgic.enable \cup {irq} \in SUBSET IRQS
    BY <1>1, <2>2 DEF Typed, VgicStates
  <2>4. /\ Typed(e) /\ e.enable = vgic.enable \cup {irq} /\ e.ctlr = vgic.ctlr
        /\ e.irq_queue = vgic.irq_queue /\ e.lr_shadow = vgic.lr_shadow
    BY <1>1, <2>3, EnableTyped
  <2>5. vgic' = e \/ vgic' = virq_ack(e, irq)
    BY <1>1, <2>1, <2>2, EnableCases
  <2> HIDE DEF e
  <2>6. CASE vgic' = e
    BY <1>10, <2>1, <2>4, <2>6, SameAsked DEF Enables
  <2>7. CASE vgic' = virq_ack(e, irq) /\ irq # SERIAL_IRQ_CH
    <3>1. TakenOnly(e, vgic', SERIAL_IRQ_CH)
      BY <2>2, <2>4, <2>7, AckFrom
    <3>2. \A j : InFlight(e, j) <=> InFlight(vgic, j)
      BY <2>4 DEF InFlight, InListReg, InQueue
    <3>3. ~Dropped(e, SERIAL_IRQ_CH) =>
              vgic_dist_is_enabled(vgic) /\ SERIAL_IRQ_CH \in vgic.enable
      BY <2>4, <2>7 DEF Dropped, vgic_dist_is_enabled
    <3> QED BY <1>10, <2>1, <2>4, <3>1, <3>2, <3>3 DEF TakenOnly, Asked, Enables
  <2> QED BY <2>2, <2>4, <2>5, <2>6, <2>7, AckFrom
<1>11. CASE Disables
  <2>1. PICK irq \in IRQS : /\ irq >= NUM_SGI_VIRQS \/ fault.kind \in RedistBitRegisters
                            /\ vgic' = WithEnable(vgic, vgic.enable \ {irq})
    BY <1>11 DEF Disables
  <2>2. vgic.enable \ {irq} \in SUBSET IRQS
    BY <1>1 DEF Typed, VgicStates
  <2>3. /\ vgic'.irq_queue = vgic.irq_queue /\ vgic'.lr_shadow = vgic.lr_shadow
        /\ vgic'.enable = vgic.enable \ {irq} /\ vgic'.ctlr = vgic.ctlr
    BY <1>1, <2>1, <2>2, EnableTyped
  <2>4. irq >= NUM_SGI_VIRQS => irq \notin Sgis
    BY IrqAssumption DEF Sgis, NUM_SGI_VIRQS
  <2> QED BY <2>1, <2>3, <2>4, SameAsked
<1>12. CASE Clears
  BY <1>1, <1>12, ClearTyped, SameAsked DEF Clears
<1>13. CASE Unimplemented
  BY <1>1, <1>13, StopSame, SameAsked DEF Unimplemented, Typed
<1> QED BY <1>1, <1>2, <1>3, <1>4, <1>5, <1>6, <1>7, <1>8, <1>9, <1>10, <1>11, <1>12, <1>13
        DEF DriverStep

(* No interrupt that the guest has disabled is put in flight, by any       *)
(* handler and whatever the guest does: vgic_dist_set_pending_irq drops it *)
(* and no other path leads into the queue.                                 *)
THEOREM TakenIfEnabled == Spec => OnlyEnabledTaken
<1>1. TypeOK /\ [Next]_vars
          => [\A irq \in IRQS :
                 ~InFlight(vgic, irq) /\ InFlight(vgic', irq)
                     => vgic_dist_is_enabled(vgic) /\ irq \in vgic.enable]_vars
  BY AskedStep DEF Asked
<1>2. Init => TypeOK
  BY InitTyped
<1>3. TypeOK /\ [Next]_vars => TypeOK'
  BY NextTyped
<1> QED BY <1>1, <1>2, <1>3, PTL DEF Spec, OnlyEnabledTaken

(* The registers the guest writes are those it may, and only a GICv3 has   *)
(* redistributor registers to fault on.                                    *)
KindAllowed ==
    /\ fault.kind \in {"ISPENDR", "ICPENDR", "CPENDSGIR"} => fault.kind \in GuestMay
    /\ fault.kind \in RedistBitRegisters => GIC_V3

LEMMA KindInvariant == Spec => [](TypeOK /\ KindAllowed)
<1>1. Init => TypeOK /\ KindAllowed
  BY InitTyped, NoFaultKind DEF Init, KindAllowed, RedistBitRegisters
<1>2. TypeOK /\ KindAllowed /\ [Next]_vars => (TypeOK /\ KindAllowed)'
  <2> SUFFICES ASSUME TypeOK, KindAllowed, [Next]_vars PROVE KindAllowed'
    BY NextTyped
  <2>1. FaultMoves
    BY StepForms
  <2> QED BY <2>1, NoFaultKind
          DEF FaultMoves, FaultAllowed, FaultStays, KindAllowed, RedistBitRegisters
<1> QED BY <1>1, <1>2, PTL DEF Spec

(* With a GICv2 no guest disables an SGI: vgic_dist_disable_irq refuses,   *)
(* and only the redistributor's handler goes past it (run gicv3_sgis).     *)
THEOREM SgisKept ==
    ASSUME ~GIC_V3
    PROVE  Spec => SgisStayEnabled
<1>1. TypeOK /\ KindAllowed /\ [Next]_vars
          => [Sgis \cap vgic.enable \subseteq vgic'.enable]_vars
  BY AskedStep DEF KindAllowed
<1> QED BY <1>1, KindInvariant, PTL DEF Spec, SgisStayEnabled

----------------------------------------------------------------------------
LEMMA CtlrValues ==
    ASSUME NEW g
    PROVE  /\ g.ctlr = CtlrOn => vgic_dist_is_enabled(g)
           /\ g.ctlr = 0 => ~vgic_dist_is_enabled(g)
<1>1. CASE GIC_V3
  <2>1. CtlrOn = 18 /\ GIC_500_GRP1_NS = 2
    BY <1>1 DEF CtlrOn, GIC_500_ARE_S, GIC_500_GRP1_NS
  <2>2. 18 \div 2 = 9 /\ 9 % 2 = 1 /\ 0 \div 2 = 0 /\ 0 % 2 = 0
    OBVIOUS
  <2> QED BY <1>1, <2>1, <2>2 DEF vgic_dist_is_enabled
<1>2. CASE ~GIC_V3
  BY <1>2 DEF CtlrOn, GIC_ENABLED, vgic_dist_is_enabled
<1> QED BY <1>1, <1>2

(* The enabled lines of an orderly guest are forwarded. *)
Gated == vgic.enable \cap HwLines # {} => vgic_dist_is_enabled(vgic)

LEMMA GatedInvariant ==
    ASSUME "gate" \notin GuestMay
    PROVE  Spec => [](TypeOK /\ FaultAllowed /\ Gated)
<1>1. Init => TypeOK /\ FaultAllowed /\ Gated
  <2> SUFFICES ASSUME Init PROVE FaultAllowed /\ Gated
    BY InitTyped
  <2>1. PICK fired : vgic = [vgic_init EXCEPT !.masked = fired]
    BY DEF Init
  <2>2. vgic.enable \subseteq Sgis
    BY <2>1 DEF vgic_init, vgic_dist_reset
  <2>3. Gated
    BY <2>2, HwSets DEF Gated
  <2>4. fault.kind = "none"
    BY NoFaultKind DEF Init
  <2> QED BY <2>3, <2>4 DEF FaultAllowed, RedistBitRegisters, EnableRegisters
<1>2. TypeOK /\ FaultAllowed /\ Gated /\ [Next]_vars => (TypeOK /\ FaultAllowed /\ Gated)'
  <2> SUFFICES ASSUME TypeOK, FaultAllowed, Gated, [Next]_vars
               PROVE  FaultAllowed' /\ Gated'
    BY NextTyped
  <2>1. FaultMoves /\ CtlrMoves /\ EnableMoves
    BY StepForms, AskedStep
  <2>2. vgic'.ctlr = vgic.ctlr => (vgic_dist_is_enabled(vgic)' <=> vgic_dist_is_enabled(vgic))
    BY DEF vgic_dist_is_enabled
  <2>3. vgic'.ctlr = CtlrOn => vgic_dist_is_enabled(vgic)'
    <3>1. vgic'.ctlr = CtlrOn => vgic_dist_is_enabled(vgic')
      BY CtlrValues
    <3> QED BY <3>1 DEF vgic_dist_is_enabled
  <2>4. "CTLR" \notin EnableRegisters
    BY DEF EnableRegisters
  <2>5. Gated'
    <3>1. CASE vgic'.ctlr = vgic.ctlr /\ vgic'.enable \subseteq vgic.enable
      BY <2>2, <3>1 DEF Gated
    <3>2. CASE /\ vgic'.ctlr = vgic.ctlr /\ fault.kind \in EnableRegisters
               /\ \E irq \in fault.bits : vgic'.enable \subseteq vgic.enable \cup {irq}
      <4>1. PICK irq \in fault.bits : vgic'.enable \subseteq vgic.enable \cup {irq}
        BY <3>2
      <4>2. irq \in HwLines => vgic_dist_is_enabled(vgic)
        BY <3>2 DEF FaultAllowed
      <4> QED BY <2>2, <3>2, <4>1, <4>2 DEF Gated
    <3>3. CASE /\ fault.kind = "CTLR" /\ vgic'.enable = vgic.enable
               /\ fault.arg = 0 \/ vgic'.ctlr = CtlrOn
      BY <2>3, <3>3 DEF Gated, FaultAllowed
    <3> QED BY <2>1, <2>4, <3>1, <3>2, <3>3 DEF CtlrMoves, EnableMoves
  <2>6. FaultAllowed'
    <3>1. CASE FaultStays
      <4>1. /\ fault.kind = "CTLR" => vgic'.enable \subseteq vgic.enable
            /\ fault.kind \in EnableRegisters => vgic'.ctlr = vgic.ctlr
        BY <2>1, <2>4 DEF CtlrMoves, EnableMoves
      <4> QED BY <2>2, <3>1, <4>1 DEF FaultStays, FaultAllowed
    <3>2. CASE fault' = NoFault
      BY <3>2, NoFaultKind DEF FaultAllowed, RedistBitRegisters, EnableRegisters
    <3> QED BY <2>1, <3>1, <3>2 DEF FaultMoves
  <2> QED BY <2>5, <2>6
<1> QED BY <1>1, <1>2, PTL DEF Spec

----------------------------------------------------------------------------
(* An injection that does not stop the VMM does nothing to an IRQ it drops *)
(* and leaves any other pending and in flight.                             *)
LEMMA SetPendingAdds ==
    ASSUME NEW g, Typed(g), NEW C, Mirrors(g, C), Flags(g), NEW irq \in IRQS,
           vgic_dist_set_pending_irq(g, irq).status = "ok"
    PROVE  LET r == vgic_dist_set_pending_irq(g, irq)
           IN  /\ r.enable = g.enable /\ r.ctlr = g.ctlr /\ r.masked = g.masked
               /\ Dropped(g, irq) => r = g
               /\ ~Dropped(g, irq) =>
                     /\ r.pending = g.pending \cup {irq}
                     /\ \A j \in IRQS : InFlight(r, j) <=> InFlight(g, j) \/ j = irq
<1> DEFINE r == vgic_dist_set_pending_irq(g, irq)
<1>1. Injected(g, irq, r, C)
  BY SetPendingEffect
<1>2. TakenOnly(g, r, irq)
  BY SetPendingFrom
<1>3. /\ \A j \in IRQS : InFlight(g, j) => InFlight(r, j)
      /\ Dropped(g, irq) \/ irq \in g.pending \/ InFlight(r, irq)
  BY SetPendingInFlight
<1> HIDE DEF r
<1>4. r.enable = g.enable /\ r.ctlr = g.ctlr /\ r.masked = g.masked
  BY <1>1 DEF Injected
<1>5. Dropped(g, irq) => r = g
  BY <1>1 DEF Injected
<1>6. ~Dropped(g, irq) => r.pending = g.pending \cup {irq}
  BY <1>1 DEF Injected
<1>7. ASSUME ~Dropped(g, irq), NEW j \in IRQS
      PROVE  InFlight(r, j) <=> InFlight(g, j) \/ j = irq
  <2>1. InFlight(r, irq)
    BY <1>3, <1>7 DEF Flags
  <2> QED BY <1>2, <1>3, <2>1 DEF TakenOnly
<1> QED BY <1>4, <1>5, <1>6, <1>7 DEF r

(* What an acknowledgement does to the lines: it unmasks its own. *)
LEMMA AckEffect ==
    ASSUME NEW g, Typed(g), NEW C, Mirrors(g, C), Flags(g), NEW irq \in IRQS,
           virq_ack(g, irq).status = "ok"
    PROVE  LET r == virq_ack(g, irq)
           IN  /\ r.enable = g.enable /\ r.ctlr = g.ctlr
               /\ r.masked \subseteq g.masked
               /\ r.masked \cap HwLines = (g.masked \cap HwLines) \ {irq}
               /\ r.pending \cap HwLines = g.pending \cap HwLines
               /\ \A j \in HwLines : InFlight(r, j) <=> InFlight(g, j)
<1> DEFINE r == virq_ack(g, irq)
           m == WithMasked(g, g.masked \ {irq})
<1>1. g.masked \ {irq} \in SUBSET IRQS
  BY DEF Typed, VgicStates
<1>2. /\ Typed(m) /\ m.irq_queue = g.irq_queue /\ m.pending = g.pending
      /\ m.lr_shadow = g.lr_shadow /\ m.hw_lr = g.hw_lr
      /\ m.ctlr = g.ctlr /\ m.enable = g.enable /\ m.masked = g.masked \ {irq}
  BY <1>1, MaskedTyped
<1> HIDE DEF m
<1>3. Flags(m) /\ Mirrors(m, C) /\ \A j : InFlight(g, j) <=> InFlight(m, j)
  BY <1>2, SameTables
<1>4. irq \in HwLines => r # g \/ irq \notin g.masked
  <2>1. irq \in VppiLines => r = m
    <3>1. kernel_irq_ack(g, irq) = m
      BY DEF kernel_irq_ack, m, WithMasked
    <3>2. irq \in VppiLines => irq >= 16 /\ irq < 32 /\ irq \in Nat
      BY HwSets, IrqAssumption DEF NUM_SGI_VIRQS, NUM_VCPU_LOCAL_VIRQS
    <3>3. irq \in VppiLines => r = vppi_event_ack(g, irq)
      BY <3>2 DEF virq_ack, NUM_SGI_VIRQS, NUM_VCPU_LOCAL_VIRQS
    <3> HIDE DEF r
    <3> QED BY <3>1, <3>3 DEF vppi_event_ack
  <2>2. irq \in SpiLines => r = m \/ r = vgic_dist_set_pending_irq(m, SERIAL_IRQ_CH)
    <3>1. kernel_irq_ack(g, irq) = m
      BY DEF kernel_irq_ack, m, WithMasked
    <3>2. irq \in SpiLines => Board \in {"qemu_arm_virt_hyp", "odroidc2"} /\ irq >= 32 /\ irq \in Nat
      BY HwSets, BoardAssumption, IrqAssumption DEF Boards, NUM_VCPU_LOCAL_VIRQS
    <3>3. irq \in SpiLines => r = serial_ack(g, irq)
      BY <3>2 DEF virq_ack, NUM_SGI_VIRQS, NUM_VCPU_LOCAL_VIRQS
    <3> HIDE DEF r
    <3> QED BY <3>1, <3>2, <3>3 DEF serial_ack, vgic_inject_irq
  <2>3. (irq \in SpiLines /\ SERIAL_IRQ_CH \in IRQS) \/ r = m \/ irq \notin SpiLines
    <3>1. SERIAL_IRQ_CH \notin IRQS => vgic_dist_set_pending_irq(m, SERIAL_IRQ_CH) = m
      BY InjectChannel DEF vgic_inject_irq
    <3> HIDE DEF r
    <3> QED BY <2>2, <3>1
  <2>4. ASSUME r = vgic_dist_set_pending_irq(m, SERIAL_IRQ_CH), SERIAL_IRQ_CH \in IRQS
        PROVE  r.masked = m.masked
    <3>1. vgic_dist_set_pending_irq(m, SERIAL_IRQ_CH).status = "ok"
      BY <2>4
    <3> HIDE DEF r
    <3> QED BY <1>2, <1>3, <2>4, <3>1, SetPendingAdds
  <2> HIDE DEF r
  <2>5. irq \in HwLines => r.masked = m.masked
    BY <2>1, <2>2, <2>3, <2>4 DEF HwLines
  <2> QED BY <1>2, <2>5
<1>5. CASE r = g
  BY <1>4, <1>5
<1>6. CASE r = m
  <2> HIDE DEF r
  <2>1. r.masked \cap HwLines = (g.masked \cap HwLines) \ {irq}
    BY <1>2, <1>6
  <2> QED BY <1>2, <1>3, <1>6, <2>1 DEF r
<1>7. CASE SERIAL_IRQ_CH \in IRQS /\ r = vgic_dist_set_pending_irq(m, SERIAL_IRQ_CH)
  <2>1. vgic_dist_set_pending_irq(m, SERIAL_IRQ_CH).status = "ok"
    BY <1>7
  <2>2. SERIAL_IRQ_CH \notin HwLines
    BY HwSets, IrqAssumption DEF SERIAL_IRQ_CH, NUM_SGI_VIRQS
  <2>3. HwLines \subseteq IRQS
    BY HwSets
  <2> DEFINE n == vgic_dist_set_pending_irq(m, SERIAL_IRQ_CH)
  <2>4. /\ n.enable = m.enable /\ n.ctlr = m.ctlr /\ n.masked = m.masked
        /\ n = m \/ /\ n.pending = m.pending \cup {SERIAL_IRQ_CH}
                    /\ \A j \in IRQS : InFlight(n, j) <=> InFlight(m, j) \/ j = SERIAL_IRQ_CH
    BY <1>2, <1>3, <1>7, <2>1, SetPendingAdds
  <2> HIDE DEF r, n
  <2>5. r = n
    BY <1>7 DEF n
  <2>6. n.pending \cap HwLines = m.pending \cap HwLines
    BY <2>2, <2>4
  <2>7. \A j \in HwLines : InFlight(n, j) <=> InFlight(m, j)
    BY <2>2, <2>3, <2>4
  <2>8. n.masked \cap HwLines = (g.masked \cap HwLines) \ {irq}
    BY <1>2, <2>4
  <2> QED BY <1>2, <1>3, <2>4, <2>5, <2>6, <2>7, <2>8 DEF r
<1> QED BY <1>5, <1>6, <1>7, AckCases DEF m

----------------------------------------------------------------------------
Resident(g) == {irq \in HwLines : InFlight(g, irq)}

LEMMA LinePrimes ==
    /\ vgic_dist_is_enabled(vgic)' = vgic_dist_is_enabled(vgic')
    /\ {irq \in HwLines : InFlight(vgic, irq)}' = Resident(vgic')
    /\ {irq \in HwLines : InFlight(vgic, irq)} = Resident(vgic)
    /\ vgic'.ctlr = vgic.ctlr => vgic_dist_is_enabled(vgic') = vgic_dist_is_enabled(vgic)
<1>1. vgic_dist_is_enabled(vgic)' = vgic_dist_is_enabled(vgic')
  BY DEF vgic_dist_is_enabled
<1>2. {irq \in HwLines : InFlight(vgic, irq)}' = Resident(vgic')
  BY DEF Resident, InFlight, InListReg, InQueue
<1>3. vgic'.ctlr = vgic.ctlr => vgic_dist_is_enabled(vgic') = vgic_dist_is_enabled(vgic)
  BY DEF vgic_dist_is_enabled
<1> QED BY <1>1, <1>2, <1>3 DEF Resident

LEMMA LineInit == Init => Line!Init
<1> SUFFICES ASSUME Init PROVE Line!Init
  OBVIOUS
<1> PICK fired \in SUBSET SpiLines :
        notif = fired /\ vgic = [vgic_init EXCEPT !.masked = fired]
  BY DEF Init
<1>1. /\ vgic.ctlr = 0 /\ vgic.enable \subseteq Sgis /\ vgic.pending = {}
      /\ vgic.masked = fired /\ vgic.status = "ok" /\ vgic.irq_queue = << >>
      /\ vgic.lr_shadow = [i \in ListRegs |-> VIRQ_INVALID]
  BY DEF vgic_init, vgic_dist_reset
<1>2. ~vgic_dist_is_enabled(vgic)
  BY <1>1, CtlrValues
<1>3. vgic.enable \cap HwLines = {} /\ vgic.pending \cap HwLines = {}
  BY <1>1, HwSets
<1>4. vgic.masked \cap HwLines = fired /\ fired \in SUBSET (HwLines \ VppiLines)
  BY <1>1, HwSets
<1>5. Waiting = fired
  BY NoFaultWaits DEF Init
<1>6. \A irq \in HwLines : ~InFlight(vgic, irq)
  <2>1. DOMAIN vgic.irq_queue = {}
    BY <1>1
  <2> QED BY <1>1, <2>1, IrqValid, HwSets DEF InFlight, InListReg, InQueue
<1> QED BY <1>1, <1>2, <1>3, <1>4, <1>5, <1>6 DEF Line!Init

LEMMA LineStutter ==
    ASSUME vgic'.ctlr = vgic.ctlr, vgic.status = "ok", vgic'.status = "ok",
           vgic'.enable \cap HwLines = vgic.enable \cap HwLines,
           vgic'.masked \cap HwLines = vgic.masked \cap HwLines,
           vgic'.pending \cap HwLines = vgic.pending \cap HwLines,
           Resident(vgic') = Resident(vgic), Waiting' = Waiting
    PROVE  UNCHANGED Line!vars
BY LinePrimes DEF Line!vars

LEMMA ResidentSame ==
    ASSUME NEW g, NEW r, r.irq_queue = g.irq_queue, r.lr_shadow = g.lr_shadow
    PROVE  Resident(r) = Resident(g)
BY DEF Resident, InFlight, InListReg, InQueue

(* A step that does not stop the VMM is a step of one line, or of none. *)
LEMMA LineStep ==
    ASSUME CoreInv, [Next]_vars, vgic.status = "ok", vgic'.status = "ok"
    PROVE  [Line!Next]_(Line!vars)
<1> USE TypeParts
<1>1. /\ TypeOK /\ Typed(vgic) /\ FaultTyped /\ Flags(vgic) /\ Mirrors(vgic, Completed)
      /\ vgic \in VgicStates /\ vgic.masked \subseteq IRQS /\ vgic.enable \subseteq IRQS
      /\ Waiting \subseteq HwLines /\ DriverStep
  <2>1. Typed(vgic) /\ vgic \in VgicStates /\ notif \subseteq SpiLines
    BY DEF CoreInv, Typed
  <2>2. Waiting \subseteq HwLines
    BY <2>1, HwSets DEF Waiting
  <2> QED BY <2>1, <2>2, StepForms DEF CoreInv, Good, VgicStates
<1>2. CASE Untouched
  BY <1>2, LineStutter DEF Untouched
<1>3. CASE Completes
  <2>1. PICK idx \in ListRegs : vgic' = Emptied(vgic, idx) /\ Waiting' = Waiting
    BY <1>3 DEF Completes
  <2>2. /\ vgic'.ctlr = vgic.ctlr /\ vgic'.enable = vgic.enable
        /\ vgic'.masked = vgic.masked /\ vgic'.pending = vgic.pending
        /\ vgic'.irq_queue = vgic.irq_queue /\ vgic'.lr_shadow = vgic.lr_shadow
    BY <1>1, <2>1, EmptiedTyped
  <2>3. Resident(vgic') = Resident(vgic)
    BY <2>2, ResidentSame
  <2> QED BY <2>1, <2>2, <2>3, LineStutter
<1>4. CASE Fires
  <2>1. PICK irq \in HwLines \ vgic.masked :
            /\ vgic' = WithMasked(vgic, vgic.masked \cup {irq})
            /\ Waiting' = Waiting \cup {irq}
    BY <1>4 DEF Fires
  <2>2. vgic.masked \cup {irq} \in SUBSET IRQS
    BY <1>1, HwSets
  <2>3. /\ vgic'.ctlr = vgic.ctlr /\ vgic'.enable = vgic.enable
        /\ vgic'.masked = vgic.masked \cup {irq} /\ vgic'.pending = vgic.pending
        /\ vgic'.irq_queue = vgic.irq_queue /\ vgic'.lr_shadow = vgic.lr_shadow
    BY <1>1, <2>1, <2>2, MaskedTyped
  <2>4. Resident(vgic') = Resident(vgic)
    BY <2>3, ResidentSame
  <2>5. Line!Fire(irq)
    BY <2>1, <2>3, <2>4, LinePrimes DEF Line!Fire
  <2> QED BY <2>5 DEF Line!Next
<1>5. CASE Takes
  <2>1. PICK irq \in Waiting :
            /\ irq \in VppiLines => ~Dropped(vgic, irq)
            /\ vgic' = vgic_dist_set_pending_irq(vgic, irq)
            /\ Waiting' = Waiting \ {irq}
    BY <1>5 DEF Takes
  <2>2. irq \in HwLines /\ irq \in IRQS /\ virq_find_irq_data(irq) # VIRQ_INVALID
    BY <1>1, <2>1, HwSets, RegisteredHandle
  <2>3. /\ vgic'.enable = vgic.enable /\ vgic'.ctlr = vgic.ctlr /\ vgic'.masked = vgic.masked
        /\ Dropped(vgic, irq) => vgic' = vgic
        /\ ~Dropped(vgic, irq) =>
              /\ vgic'.pending = vgic.pending \cup {irq}
              /\ \A j \in IRQS : InFlight(vgic', j) <=> InFlight(vgic, j) \/ j = irq
    BY <1>1, <2>1, <2>2, SetPendingAdds
  <2>4. CASE Dropped(vgic, irq)
    <3>1. ~(vgic_dist_is_enabled(vgic) /\ irq \in vgic.enable \cap HwLines)
      BY <2>2, <2>4 DEF Dropped
    <3>2. Line!Drop(irq)
      BY <2>1, <2>3, <2>4, <3>1, LinePrimes DEF Line!Drop
    <3> QED BY <2>2, <3>2 DEF Line!Next
  <2>5. CASE ~Dropped(vgic, irq)
    <3>1. vgic_dist_is_enabled(vgic) /\ irq \in vgic.enable \cap HwLines
      BY <2>2, <2>5 DEF Dropped
    <3>2. Resident(vgic') = Resident(vgic) \cup {irq}
      BY <2>2, <2>3, <2>5, HwSets DEF Resident
    <3>3. vgic'.pending \cap HwLines = (vgic.pending \cap HwLines) \cup {irq}
      BY <2>2, <2>3, <2>5
    <3>4. Line!Accept(irq)
      BY <2>1, <2>3, <3>1, <3>2, <3>3, LinePrimes DEF Line!Accept
    <3> QED BY <2>2, <3>4 DEF Line!Next
  <2> QED BY <2>4, <2>5
<1>6. CASE Rejects
  <2>1. PICK irq \in VppiLines \cap Waiting :
            /\ Dropped(vgic, irq)
            /\ vgic' = WithMasked(vgic, vgic.masked \ {irq})
            /\ Waiting' = Waiting \ {irq}
    BY <1>6 DEF Rejects
  <2>2. vgic.masked \ {irq} \in SUBSET IRQS
    BY <1>1
  <2>3. /\ vgic'.ctlr = vgic.ctlr /\ vgic'.enable = vgic.enable
        /\ vgic'.masked = vgic.masked \ {irq} /\ vgic'.pending = vgic.pending
        /\ vgic'.irq_queue = vgic.irq_queue /\ vgic'.lr_shadow = vgic.lr_shadow
    BY <1>1, <2>1, <2>2, MaskedTyped
  <2>4. irq \in HwLines /\ virq_find_irq_data(irq) # VIRQ_INVALID
    BY <1>1, <2>1, HwSets, RegisteredHandle
  <2>5. ~(vgic_dist_is_enabled(vgic) /\ irq \in vgic.enable \cap HwLines)
    BY <2>1, <2>4 DEF Dropped
  <2>6. vgic'.masked \cap HwLines = (vgic.masked \cap HwLines) \ {irq}
    BY <2>3
  <2>7. Resident(vgic') = Resident(vgic)
    BY <2>3, ResidentSame
  <2>8. Line!Drop(irq)
    BY <2>1, <2>3, <2>5, <2>6, <2>7, LinePrimes DEF Line!Drop
  <2> QED BY <2>4, <2>8 DEF Line!Next
<1>7. CASE Injects
  <2>1. PICK irq \in IRQS :
            vgic' = vgic_dist_set_pending_irq(vgic, irq) /\ Waiting' = Waiting
    BY <1>7 DEF Injects
  <2>2. /\ vgic'.enable = vgic.enable /\ vgic'.ctlr = vgic.ctlr /\ vgic'.masked = vgic.masked
        /\ Dropped(vgic, irq) => vgic' = vgic
        /\ ~Dropped(vgic, irq) =>
              /\ vgic'.pending = vgic.pending \cup {irq}
              /\ \A j \in IRQS : InFlight(vgic', j) <=> InFlight(vgic, j) \/ j = irq
    BY <1>1, <2>1, SetPendingAdds
  <2>3. CASE Dropped(vgic, irq)
    BY <2>1, <2>2, <2>3, LineStutter
  <2>4. CASE ~Dropped(vgic, irq) /\ irq \in HwLines
    <3>1. vgic_dist_is_enabled(vgic) /\ irq \in vgic.enable \cap HwLines
      BY <2>4 DEF Dropped
    <3>2. Resident(vgic') = Resident(vgic) \cup {irq}
      BY <2>2, <2>4, HwSets DEF Resident
    <3>3. vgic'.pending \cap HwLines = (vgic.pending \cap HwLines) \cup {irq}
      BY <2>2, <2>4
    <3>4. Line!SetPending(irq)
      BY <2>1, <2>2, <3>1, <3>2, <3>3, LinePrimes DEF Line!SetPending
    <3> QED BY <2>4, <3>4 DEF Line!Next
  <2>5. CASE ~Dropped(vgic, irq) /\ irq \notin HwLines
    <3>1. Resident(vgic') = Resident(vgic)
      BY <2>2, <2>5, HwSets DEF Resident
    <3>2. vgic'.pending \cap HwLines = vgic.pending \cap HwLines
      BY <2>2, <2>5
    <3> QED BY <2>1, <2>2, <3>1, <3>2, LineStutter
  <2> QED BY <2>3, <2>4, <2>5
<1>8. CASE Maintains
  <2> DEFINE idx  == fault.arg
             virq == vgic.lr_shadow[idx]
             f    == unset_pending(Freed(vgic, idx), virq)
  <2>1. idx \in ListRegs /\ Waiting' = Waiting /\ fault.kind = "VGICMaintenance"
    BY <1>1, <1>8 DEF Maintains, FaultTyped
  <2>2. vgic' = virq_ack(f, virq) /\ virq # VIRQ_INVALID
    <3>1. PICK err \in UninitErr : vgic' = handle_vgic_maintenance(vgic, idx, err)
      BY <1>8 DEF Maintains
    <3> QED BY <1>1, <2>1, <3>1, MaintenanceCases
  <2>3. virq \in IRQS
    BY <1>1, <2>1, <2>2 DEF VgicStates
  <2>4. idx \in Completed
    BY <2>1, CompletedOf
  <2>5. /\ Typed(f) /\ Flags(f) /\ Mirrors(f, Completed \ {idx})
        /\ \A j \in IRQS : InFlight(vgic, j) => InFlight(f, j) \/ j = virq
        /\ f.enable = vgic.enable /\ f.ctlr = vgic.ctlr /\ f.masked = vgic.masked
        /\ f.pending = vgic.pending \ {virq}
    BY <1>1, <2>1, <2>4, FreedGood
  <2>6. \A j \in IRQS : InFlight(f, j) => InFlight(vgic, j)
    BY <1>1, <2>1, FreedFrom
  <2>7. InFlight(vgic, virq)
    BY <2>1 DEF InFlight, InListReg
  <2> HIDE DEF f, virq, idx
  <2>8. /\ vgic'.enable = f.enable /\ vgic'.ctlr = f.ctlr
        /\ vgic'.masked \cap HwLines = (f.masked \cap HwLines) \ {virq}
        /\ vgic'.pending \cap HwLines = f.pending \cap HwLines
        /\ \A j \in HwLines : InFlight(vgic', j) <=> InFlight(f, j)
    BY <2>2, <2>3, <2>5, AckEffect
  <2>9. \A j \in HwLines : j # virq => (InFlight(vgic', j) <=> InFlight(vgic, j))
    BY <2>5, <2>6, <2>8, HwSets
  <2>10. vgic'.pending \cap HwLines = (vgic.pending \cap HwLines) \ {virq}
    BY <2>5, <2>8
  <2>11. vgic'.masked \cap HwLines = (vgic.masked \cap HwLines) \ {virq}
    BY <2>5, <2>8
  <2>12. CASE virq \in HwLines
    <3>1. Resident(vgic') \in {Resident(vgic), Resident(vgic) \ {virq}} /\ virq \in Resident(vgic)
      <4>1. InFlight(vgic', virq) => Resident(vgic') = Resident(vgic)
        BY <2>7, <2>9 DEF Resident
      <4>2. ~InFlight(vgic', virq) => Resident(vgic') = Resident(vgic) \ {virq}
        BY <2>9 DEF Resident
      <4> QED BY <2>7, <2>12, <4>1, <4>2 DEF Resident
    <3>2. Line!Complete(virq)
      BY <2>1, <2>5, <2>8, <2>10, <2>11, <3>1, LinePrimes DEF Line!Complete
    <3> QED BY <2>12, <3>2 DEF Line!Next
  <2>13. CASE virq \notin HwLines
    <3>1. Resident(vgic') = Resident(vgic)
      BY <2>9, <2>13 DEF Resident
    <3> QED BY <2>1, <2>5, <2>8, <2>10, <2>11, <2>13, <3>1, LineStutter
  <2> QED BY <2>12, <2>13
<1>9. CASE Switches
  <2>1. PICK c \in {0, CtlrOn} : vgic' = WithCtlr(vgic, c)
    BY <1>9 DEF Switches
  <2>2. /\ vgic'.enable = vgic.enable
        /\ vgic'.masked = vgic.masked /\ vgic'.pending = vgic.pending
        /\ vgic'.irq_queue = vgic.irq_queue /\ vgic'.lr_shadow = vgic.lr_shadow
    BY <1>1, <2>1, CtlrTyped
  <2>3. Resident(vgic') = Resident(vgic)
    BY <2>2, ResidentSame
  <2>4. vgic_dist_is_enabled(vgic') \in BOOLEAN
    BY DEF vgic_dist_is_enabled
  <2>5. Waiting' = Waiting
    BY <1>9 DEF Switches
  <2>6. Line!Switch
    BY <2>2, <2>3, <2>4, <2>5, LinePrimes DEF Line!Switch
  <2> QED BY <2>6 DEF Line!Next
<1>10. CASE Enables
  <2>1. PICK irq \in fault.bits : vgic' = vgic_dist_enable_irq(vgic, irq)
    BY <1>10 DEF Enables
  <2>2. irq \in IRQS /\ Waiting' = Waiting
    BY <1>1, <1>10, <2>1 DEF FaultTyped, Enables
  <2> DEFINE e == WithEnable(vgic, vgic.enable \cup {irq})
  <2>3. vgic.enable \cup {irq} \in SUBSET IRQS
    BY <1>1, <2>2
  <2>4. /\ Typed(e) /\ e.enable = vgic.enable \cup {irq} /\ e.ctlr = vgic.ctlr
        /\ e.irq_queue = vgic.irq_queue /\ e.lr_shadow = vgic.lr_shadow
        /\ e.hw_lr = vgic.hw_lr /\ e.pending = vgic.pending /\ e.masked = vgic.masked
    BY <1>1, <2>3, EnableTyped
  <2>5. \/ vgic' = e /\ (irq \notin Registered \/ irq \in vgic.pending)
        \/ vgic' = virq_ack(e, irq) /\ irq \notin vgic.pending
    BY <1>1, <2>1, <2>2, EnableCases
  <2> HIDE DEF e
  <2>6. Flags(e) /\ Mirrors(e, Completed) /\ Resident(e) = Resident(vgic)
    BY <1>1, <2>4, SameTables, ResidentSame
  <2>7. /\ vgic'.enable = vgic.enable \cup {irq} /\ vgic'.ctlr = vgic.ctlr
        /\ vgic'.pending \cap HwLines = vgic.pending \cap HwLines
        /\ vgic'.masked \cap HwLines = IF irq \in vgic.pending \cap HwLines
                                       THEN vgic.masked \cap HwLines
                                       ELSE (vgic.masked \cap HwLines) \ {irq}
        /\ Resident(vgic') = Resident(vgic)
    <3>1. CASE vgic' = e /\ (irq \notin Registered \/ irq \in vgic.pending)
      <4>1. irq \notin Registered => irq \notin HwLines
        BY HwSets
      <4>2. irq \notin HwLines => (vgic.masked \cap HwLines) \ {irq} = vgic.masked \cap HwLines
        OBVIOUS
      <4> QED BY <2>4, <2>6, <3>1, <4>1, <4>2
    <3>2. CASE vgic' = virq_ack(e, irq) /\ irq \notin vgic.pending
      <4>1. /\ vgic'.enable = e.enable /\ vgic'.ctlr = e.ctlr
            /\ vgic'.masked \cap HwLines = (e.masked \cap HwLines) \ {irq}
            /\ vgic'.pending \cap HwLines = e.pending \cap HwLines
            /\ \A j \in HwLines : InFlight(vgic', j) <=> InFlight(e, j)
        BY <2>2, <2>4, <2>6, <3>2, AckEffect
      <4>2. Resident(vgic') = Resident(e)
        BY <4>1 DEF Resident
      <4> QED BY <2>4, <2>6, <3>2, <4>1, <4>2
    <3> QED BY <2>5, <3>1, <3>2
  <2>8. CASE irq \in HwLines
    <3>1. vgic'.enable \cap HwLines = (vgic.enable \cap HwLines) \cup {irq}
      BY <2>7, <2>8
    <3>2. Line!Enable(irq)
      BY <2>2, <2>7, <3>1, LinePrimes DEF Line!Enable
    <3> QED BY <2>8, <3>2 DEF Line!Next
  <2>9. CASE irq \notin HwLines
    <3>1. /\ vgic'.enable \cap HwLines = vgic.enable \cap HwLines
          /\ vgic'.masked \cap HwLines = vgic.masked \cap HwLines
      BY <2>7, <2>9
    <3> QED BY <2>2, <2>7, <3>1, LineStutter
  <2> QED BY <2>8, <2>9
<1>11. CASE Disables
  <2>1. PICK irq \in IRQS : vgic' = WithEnable(vgic, vgic.enable \ {irq})
    BY <1>11 DEF Disables
  <2>2. vgic.enable \ {irq} \in SUBSET IRQS
    BY <1>1
  <2>3. /\ vgic'.ctlr = vgic.ctlr /\ vgic'.enable = vgic.enable \ {irq}
        /\ vgic'.masked = vgic.masked /\ vgic'.pending = vgic.pending
        /\ vgic'.irq_queue = vgic.irq_queue /\ vgic'.lr_shadow = vgic.lr_shadow
    BY <1>1, <2>1, <2>2, EnableTyped
  <2>4. /\ vgic'.enable \cap HwLines = (vgic.enable \cap HwLines) \ {irq}
        /\ irq \notin HwLines => vgic'.enable \cap HwLines = vgic.enable \cap HwLines
    BY <2>3
  <2>5. Resident(vgic') = Resident(vgic) /\ Waiting' = Waiting
    BY <1>11, <2>3, ResidentSame DEF Disables
  <2>6. CASE irq \in HwLines
    <3>1. Line!Disable(irq)
      BY <2>3, <2>4, <2>5, LinePrimes DEF Line!Disable
    <3> QED BY <2>6, <3>1 DEF Line!Next
  <2> QED BY <2>3, <2>4, <2>5, <2>6, LineStutter
<1>12. CASE Clears
  <2>1. PICK irq \in IRQS : vgic' = unset_pending(vgic, irq)
    BY <1>12 DEF Clears
  <2>2. /\ vgic'.ctlr = vgic.ctlr /\ vgic'.enable = vgic.enable
        /\ vgic'.masked = vgic.masked /\ vgic'.pending = vgic.pending \ {irq}
        /\ vgic'.irq_queue = vgic.irq_queue /\ vgic'.lr_shadow = vgic.lr_shadow
    BY <1>1, <2>1, ClearTyped
  <2>3. /\ vgic'.pending \cap HwLines = (vgic.pending \cap HwLines) \ {irq}
        /\ irq \notin HwLines => vgic'.pending \cap HwLines = vgic.pending \cap HwLines
    BY <2>2
  <2>4. Resident(vgic') = Resident(vgic) /\ Waiting' = Waiting
    BY <1>12, <2>2, ResidentSame DEF Clears
  <2>5. CASE irq \in HwLines
    <3>1. Line!ClearPending(irq)
      BY <2>2, <2>3, <2>4, LinePrimes DEF Line!ClearPending
    <3> QED BY <2>5, <3>1 DEF Line!Next
  <2> QED BY <2>2, <2>3, <2>4, <2>5, LineStutter
<1>13. ~Unimplemented
  BY <1>1, StopFields DEF Unimplemented
<1> QED BY <1>1, <1>2, <1>3, <1>4, <1>5, <1>6, <1>7, <1>8, <1>9, <1>10, <1>11, <1>12, <1>13
        DEF DriverStep

(* Line by line, for every guest, board and size of the tables, the driver *)
(* follows the protocol that the comment opening vgic_v2.c describes: a    *)
(* masked line is acknowledged when its interrupt is completed, when it is *)
(* enabled and not pending or when a VPPI event is dropped, never else.    *)
THEOREM LineProtocol == Spec => ImplementsLine
<1>1. CoreInv /\ [Next]_vars => [Line!Next]_(Line!vars)
  <2> SUFFICES ASSUME CoreInv, [Next]_vars PROVE [Line!Next]_(Line!vars)
    OBVIOUS
  <2>1. CASE vgic.status # "ok"
    <3>1. UNCHANGED vars
      BY <2>1, StepForms DEF CoreInv
    <3>2. vgic' = vgic /\ Waiting' = Waiting
      BY <3>1 DEF vars, Waiting
    <3>3. vgic'.status # "ok"
      BY <2>1, <3>2
    <3>4. Line!Halt
      BY <3>3 DEF Line!Halt
    <3> QED BY <3>4 DEF Line!Next
  <2>2. CASE vgic'.status # "ok"
    <3>1. Line!Halt
      BY <2>2 DEF Line!Halt
    <3> QED BY <3>1 DEF Line!Next
  <2> QED BY <2>1, <2>2, LineStep
<1> QED BY <1>1, LineInit, CoreInvariant, PTL DEF Spec, ImplementsLine, Line!Spec

----------------------------------------------------------------------------
(* The kernel masks hardware lines only, and the driver none. *)
LEMMA MaskedStep ==
    ASSUME CoreInv, [Next]_vars, vgic.status = "ok", vgic'.status = "ok"
    PROVE  vgic'.masked \subseteq vgic.masked \cup HwLines
<1> USE TypeParts
<1>1. /\ TypeOK /\ Typed(vgic) /\ FaultTyped /\ Flags(vgic) /\ Mirrors(vgic, Completed)
      /\ vgic \in VgicStates /\ vgic.masked \subseteq IRQS /\ vgic.enable \subseteq IRQS
      /\ Waiting \subseteq IRQS /\ DriverStep
  <2>1. Typed(vgic) /\ vgic \in VgicStates /\ notif \subseteq SpiLines
    BY DEF CoreInv, Typed
  <2>2. Waiting \subseteq IRQS
    BY <2>1, HwSets DEF Waiting
  <2> QED BY <2>1, <2>2, StepForms DEF CoreInv, Good, VgicStates
<1>2. CASE \E irq \in IRQS : vgic' = vgic_dist_set_pending_irq(vgic, irq)
  BY <1>1, <1>2, SetPendingAdds
<1>3. CASE Maintains
  <2> DEFINE idx  == fault.arg
             virq == vgic.lr_shadow[idx]
             f    == unset_pending(Freed(vgic, idx), virq)
  <2>1. idx \in ListRegs /\ idx \in Completed
    BY <1>1, <1>3, CompletedOf DEF Maintains, FaultTyped
  <2>2. vgic' = virq_ack(f, virq)
    <3>1. PICK err \in UninitErr : vgic' = handle_vgic_maintenance(vgic, idx, err)
      BY <1>3 DEF Maintains
    <3> QED BY <1>1, <2>1, <3>1, MaintenanceCases
  <2>3. Typed(f) /\ Flags(f) /\ Mirrors(f, Completed \ {idx}) /\ f.masked = vgic.masked
    BY <1>1, <2>1, FreedGood
  <2> HIDE DEF f, virq, idx
  <2> QED BY <2>2, <2>3, AckGood
<1>4. CASE Enables
  <2>1. PICK irq \in fault.bits : vgic' = vgic_dist_enable_irq(vgic, irq)
    BY <1>4 DEF Enables
  <2>2. irq \in IRQS
    BY <1>1, <2>1 DEF FaultTyped
  <2> DEFINE e == WithEnable(vgic, vgic.enable \cup {irq})
  <2>3. vgic.enable \cup {irq} \in SUBSET IRQS
    BY <1>1, <2>2
  <2>4. /\ Typed(e) /\ e.irq_queue = vgic.irq_queue /\ e.lr_shadow = vgic.lr_shadow
        /\ e.hw_lr = vgic.hw_lr /\ e.pending = vgic.pending /\ e.masked = vgic.masked
    BY <1>1, <2>3, EnableTyped
  <2>5. vgic' = e \/ vgic' = virq_ack(e, irq)
    BY <1>1, <2>1, <2>2, EnableCases
  <2> HIDE DEF e
  <2>6. Flags(e) /\ Mirrors(e, Completed)
    BY <1>1, <2>4, SameTables
  <2>7. vgic' = virq_ack(e, irq) => vgic'.masked \subseteq e.masked
    BY <2>4, <2>6, AckGood
  <2> QED BY <2>4, <2>5, <2>7
<1>5. CASE Fires \/ Rejects
  <2>1. PICK irq \in HwLines : \/ vgic' = WithMasked(vgic, vgic.masked \cup {irq})
                               \/ vgic' = WithMasked(vgic, vgic.masked \ {irq})
    BY <1>5, HwSets DEF Fires, Rejects
  <2>2. vgic.masked \cup {irq} \in SUBSET IRQS /\ vgic.masked \ {irq} \in SUBSET IRQS
    BY <1>1, HwSets
  <2>3. vgic'.masked = vgic.masked \cup {irq} \/ vgic'.masked = vgic.masked \ {irq}
    BY <1>1, <2>1, <2>2, MaskedTyped
  <2> QED BY <2>3
<1>6. CASE Untouched \/ Completes \/ Switches \/ Disables \/ Clears
  <2>1. \A irq : vgic.enable \ {irq} \in SUBSET IRQS
    BY <1>1
  <2>2. Completes => vgic'.masked = vgic.masked
    <3> SUFFICES ASSUME NEW idx \in ListRegs, vgic' = Emptied(vgic, idx)
                 PROVE  vgic'.masked = vgic.masked
      BY DEF Completes
    <3> QED BY <1>1, EmptiedTyped
  <2>3. Switches => vgic'.masked = vgic.masked
    BY <1>1, CtlrTyped DEF Switches
  <2>4. Disables => vgic'.masked = vgic.masked
    BY <1>1, <2>1, EnableTyped DEF Disables
  <2>5. Clears => vgic'.masked = vgic.masked
    BY <1>1, ClearTyped DEF Clears
  <2> QED BY <1>6, <2>2, <2>3, <2>4, <2>5 DEF Untouched
<1>7. ~Unimplemented
  BY <1>1, StopFields DEF Unimplemented
<1>8. Takes \/ Injects => \E irq \in IRQS : vgic' = vgic_dist_set_pending_irq(vgic, irq)
  BY <1>1 DEF Takes, Injects
<1> QED BY <1>1, <1>2, <1>3, <1>4, <1>5, <1>6, <1>7, <1>8 DEF DriverStep

(* The acknowledgement of a masked line is owed; in the terms of IrqLine. *)
Owed ==
    \A irq \in vgic.masked \cap HwLines :
        irq \in Waiting \/ irq \in Resident(vgic) \/ irq \notin vgic.enable \cap HwLines

(* A line's step keeps it owed if no enabled line is dropped: the gate is  *)
(* open, or the line is a timer's, whose dropped event is acknowledged.    *)
LEMMA OwedStep ==
    ASSUME Owed, Flags(vgic), vgic.pending \subseteq IRQS, [Line!Next]_(Line!vars),
           vgic.status = "ok", vgic'.status = "ok", Gated \/ SpiLines = {}
    PROVE  Owed'
<1> DEFINE On == vgic_dist_is_enabled(vgic)
           En == vgic.enable \cap HwLines
           Ma == vgic.masked \cap HwLines
           Pe == vgic.pending \cap HwLines
           Re == {irq \in HwLines : InFlight(vgic, irq)}
<1>1. Owed <=> \A irq \in Ma : irq \in Waiting \/ irq \in Re \/ irq \notin En
  BY DEF Owed, Resident
<1>2. Owed' <=> \A irq \in Ma' : irq \in Waiting' \/ irq \in Re' \/ irq \notin En'
  <2>1. Re' = Resident(vgic') /\ Re' = Resident(vgic)'
    BY LinePrimes DEF Resident
  <2> QED BY <2>1 DEF Owed
<1>3. Pe \subseteq Re
  BY DEF Flags
<1>4. En # {} /\ SpiLines # {} => On
  BY DEF Gated
<1>5. ASSUME UNCHANGED Line!vars PROVE Owed'
  <2>1. Ma' = Ma /\ Waiting' = Waiting /\ Re' = Re /\ En' = En
    BY <1>5 DEF Line!vars
  <2> HIDE DEF Ma, Re, En
  <2> QED BY <1>1, <1>2, <2>1
<1>6. ASSUME Line!Switch PROVE Owed'
  <2>1. Ma' = Ma /\ Waiting' = Waiting /\ Re' = Re /\ En' = En
    BY <1>6 DEF Line!Switch
  <2> HIDE DEF Ma, Re, En
  <2> QED BY <1>1, <1>2, <2>1
<1>7. ASSUME NEW irq \in HwLines, Line!Fire(irq) PROVE Owed'
  <2>1. Ma' = Ma \cup {irq} /\ Waiting' = Waiting \cup {irq} /\ Re' = Re /\ En' = En
    BY <1>7 DEF Line!Fire
  <2> HIDE DEF Ma, Re, En
  <2> QED BY <1>1, <1>2, <2>1
<1>8. ASSUME NEW irq \in HwLines, Line!Accept(irq) PROVE Owed'
  <2>1. Ma' = Ma /\ Waiting' = Waiting \ {irq} /\ Re' = Re \cup {irq} /\ En' = En
    BY <1>8 DEF Line!Accept
  <2> HIDE DEF Ma, Re, En
  <2> QED BY <1>1, <1>2, <2>1
<1>9. ASSUME NEW irq \in HwLines, Line!Drop(irq) PROVE Owed'
  <2>1. /\ Ma' = (IF irq \in VppiLines THEN Ma \ {irq} ELSE Ma) /\ Waiting' = Waiting \ {irq}
        /\ Re' = Re /\ En' = En /\ ~(On /\ irq \in En)
    BY <1>9 DEF Line!Drop
  <2>2. irq \in VppiLines \/ irq \notin En
    BY <1>4, <2>1 DEF HwLines
  <2> HIDE DEF Ma, Re, En, On
  <2> QED BY <1>1, <1>2, <2>1, <2>2
<1>10. ASSUME NEW irq \in HwLines, Line!Enable(irq) PROVE Owed'
  <2>1. /\ Ma' = (IF irq \in Pe THEN Ma ELSE Ma \ {irq}) /\ Waiting' = Waiting
        /\ Re' = Re /\ En' = En \cup {irq}
    BY <1>10 DEF Line!Enable
  <2> HIDE DEF Ma, Re, En, Pe
  <2> QED BY <1>1, <1>2, <1>3, <2>1
<1>11. ASSUME NEW irq \in HwLines, Line!Disable(irq) PROVE Owed'
  <2>1. Ma' = Ma /\ Waiting' = Waiting /\ Re' = Re /\ En' = En \ {irq}
    BY <1>11 DEF Line!Disable
  <2> HIDE DEF Ma, Re, En
  <2> QED BY <1>1, <1>2, <2>1
<1>12. ASSUME NEW irq \in HwLines, Line!Complete(irq) PROVE Owed'
  <2>1. Ma' = Ma \ {irq} /\ Waiting' = Waiting /\ Re' \in {Re, Re \ {irq}} /\ En' = En
    BY <1>12 DEF Line!Complete
  <2> HIDE DEF Ma, Re, En
  <2> QED BY <1>1, <1>2, <2>1
<1>13. ASSUME NEW irq \in HwLines, Line!SetPending(irq) PROVE Owed'
  <2>1. Ma' = Ma /\ Waiting' = Waiting /\ Re' = Re \cup {irq} /\ En' = En
    BY <1>13 DEF Line!SetPending
  <2> HIDE DEF Ma, Re, En
  <2> QED BY <1>1, <1>2, <2>1
<1>14. ASSUME NEW irq \in HwLines, Line!ClearPending(irq) PROVE Owed'
  <2>1. Ma' = Ma /\ Waiting' = Waiting /\ Re' = Re /\ En' = En
    BY <1>14 DEF Line!ClearPending
  <2> HIDE DEF Ma, Re, En
  <2> QED BY <1>1, <1>2, <2>1
<1>15. ~Line!Halt
  BY DEF Line!Halt
<1> QED BY <1>5, <1>6, <1>7, <1>8, <1>9, <1>10, <1>11, <1>12, <1>13, <1>14, <1>15 DEF Line!Next

(* Somebody owes the ack of every masked line, unless the guest switches   *)
(* the distributor off under an enabled device line: then the driver drops *)
(* the device's event and nothing acknowledges it (run vgic_gate).         *)
THEOREM AcksOwed ==
    ASSUME "gate" \notin GuestMay \/ SpiLines = {}
    PROVE  Spec => []AckOwed
<1> DEFINE GateInv == Gated \/ SpiLines = {}
           Inv == vgic.status = "ok" => vgic.masked \subseteq HwLines /\ Owed
<1>1. Spec => []GateInv
  <2>1. CASE "gate" \notin GuestMay
    <3>1. Spec => [](TypeOK /\ FaultAllowed /\ Gated)
      BY <2>1, GatedInvariant
    <3>2. TypeOK /\ FaultAllowed /\ Gated => GateInv
      OBVIOUS
    <3> QED BY <3>1, <3>2, PTL
  <2>2. CASE SpiLines = {}
    <3>1. GateInv
      BY <2>2
    <3> QED BY <3>1, PTL
  <2> QED BY <2>1, <2>2
<1>2. Init => Inv
  <2> SUFFICES ASSUME Init PROVE vgic.masked \subseteq HwLines /\ Owed
    OBVIOUS
  <2>1. PICK fired \in SUBSET SpiLines :
            notif = fired /\ vgic = [vgic_init EXCEPT !.masked = fired]
    BY DEF Init
  <2>2. vgic.masked = fired /\ Waiting = fired
    BY <2>1, NoFaultWaits DEF Init, vgic_init
  <2> QED BY <2>2, HwSets DEF Owed
<1>3. CoreInv /\ GateInv /\ Inv /\ [Next]_vars => Inv'
  <2> SUFFICES ASSUME CoreInv, GateInv, Inv, [Next]_vars, vgic'.status = "ok"
               PROVE  vgic'.masked \subseteq HwLines /\ Owed'
    OBVIOUS
  <2>1. CASE vgic.status = "ok"
    <3>1. vgic'.masked \subseteq HwLines
      BY <2>1, MaskedStep
    <3>2. Flags(vgic) /\ vgic.pending \subseteq IRQS
      BY <2>1, TypeParts DEF CoreInv, Good, Typed, VgicStates
    <3>3. [Line!Next]_(Line!vars)
      BY <2>1, LineStep
    <3> QED BY <2>1, <3>1, <3>2, <3>3, OwedStep
  <2>2. CASE vgic.status # "ok"
    <3>1. UNCHANGED vars
      BY <2>2, StepForms DEF CoreInv
    <3> QED BY <2>2, <3>1 DEF vars
  <2> QED BY <2>1, <2>2
<1>4. CoreInv /\ Inv => AckOwed
  <2> SUFFICES ASSUME CoreInv, Inv, vgic.status = "ok", NEW irq \in vgic.masked
               PROVE  \/ irq \in notif
                      \/ fault.kind = "VPPIEvent" /\ fault.arg = irq
                      \/ InFlight(vgic, irq) \/ irq \notin vgic.enable
    BY DEF AckOwed
  <2>1. irq \in HwLines
    OBVIOUS
  <2> QED BY <2>1 DEF Owed, Waiting, Resident
<1> QED BY <1>1, <1>2, <1>3, <1>4, CoreInvariant, PTL DEF Spec

----------------------------------------------------------------------------
(* SingleDelivery, of a state record: the list registers and the queue     *)
(* hold the pending IRQs, each in one place.                               *)
Single(g) ==
    /\ \A irq \in IRQS : InFlight(g, irq) <=> irq \in g.pending
    /\ \A i, j \in ListRegs :
          g.lr_shadow[i] = g.lr_shadow[j] /\ g.lr_shadow[i] # VIRQ_INVALID => i = j
    /\ \A k, l \in DOMAIN g.irq_queue : g.irq_queue[k] = g.irq_queue[l] => k = l
    /\ \A i \in ListRegs : ~InQueue(g, g.lr_shadow[i])

LEMMA SingleSame ==
    ASSUME NEW g, NEW r, Single(g), r.pending = g.pending,
           r.irq_queue = g.irq_queue, r.lr_shadow = g.lr_shadow
    PROVE  Single(r)
<1>1. \A j : (InFlight(r, j) <=> InFlight(g, j)) /\ (InQueue(r, j) <=> InQueue(g, j))
  BY DEF InFlight, InListReg, InQueue
<1> QED BY <1>1 DEF Single

(* The queue with a fresh IRQ at its end, and the same without its head. *)
LEMMA ShiftedOnce ==
    ASSUME NEW s \in Seq(IRQS), NEW irq \in IRQS,
           \A k, l \in DOMAIN s : s[k] = s[l] => k = l,
           \A k \in DOMAIN s : s[k] # irq
    PROVE  LET a == Append(s, irq)
           IN  /\ \A k, l \in DOMAIN a : a[k] = a[l] => k = l
               /\ \A k, l \in DOMAIN Tail(a) : Tail(a)[k] = Tail(a)[l] => k = l
               /\ \A k \in DOMAIN Tail(a) : Tail(a)[k] # Head(a)
<1> DEFINE a == Append(s, irq)
<1>1. /\ a \in Seq(IRQS) /\ Tail(a) \in Seq(IRQS) /\ Len(s) \in Nat
      /\ Len(a) = Len(s) + 1 /\ Len(Tail(a)) = Len(s) /\ Head(a) = a[1]
      /\ \A k \in 1 .. Len(s) : a[k] = s[k] /\ Tail(a)[k] = a[k + 1]
      /\ a[Len(s) + 1] = irq
  BY QueueShift
<1> HIDE DEF a
<1>2. DOMAIN s = 1 .. Len(s) /\ DOMAIN a = 1 .. Len(s) + 1 /\ DOMAIN Tail(a) = 1 .. Len(s)
  BY <1>1
<1>3. ASSUME NEW k \in 1 .. Len(s) + 1, NEW l \in 1 .. Len(s) + 1, a[k] = a[l]
      PROVE  k = l
  <2>1. k \in 1 .. Len(s) \/ k = Len(s) + 1
    BY <1>1
  <2>2. l \in 1 .. Len(s) \/ l = Len(s) + 1
    BY <1>1
  <2>3. k \in 1 .. Len(s) /\ l \in 1 .. Len(s) => s[k] = s[l]
    BY <1>1, <1>3
  <2>4. k \in 1 .. Len(s) /\ l = Len(s) + 1 => s[k] = irq
    BY <1>1, <1>3
  <2>5. l \in 1 .. Len(s) /\ k = Len(s) + 1 => s[l] = irq
    BY <1>1, <1>3
  <2> QED BY <1>2, <2>1, <2>2, <2>3, <2>4, <2>5
<1>4. \A k \in 1 .. Len(s) : k + 1 \in 1 .. Len(s) + 1 /\ k + 1 # 1 /\ k \in Nat
  BY <1>1
<1>5. 1 \in 1 .. Len(s) + 1
  BY <1>1
<1>6. ASSUME NEW k \in 1 .. Len(s), NEW l \in 1 .. Len(s), Tail(a)[k] = Tail(a)[l]
      PROVE  k = l
  <2>1. k + 1 = l + 1
    BY <1>1, <1>3, <1>4, <1>6
  <2> QED BY <1>4, <2>1
<1>7. \A k \in 1 .. Len(s) : Tail(a)[k] # a[1]
  BY <1>1, <1>3, <1>4, <1>5
<1> QED BY <1>1, <1>2, <1>3, <1>6, <1>7 DEF a

(* An injection puts its IRQ in one place: the pending flag that is not    *)
(* set says that it is nowhere yet.                                        *)
LEMMA SetPendingSingle ==
    ASSUME NEW g, Typed(g), NEW C, Mirrors(g, C), Single(g), NEW irq \in IRQS,
           vgic_dist_set_pending_irq(g, irq).status = "ok"
    PROVE  Single(vgic_dist_set_pending_irq(g, irq))
<1> DEFINE r == vgic_dist_set_pending_irq(g, irq)
           s == g.irq_queue
           a == Append(s, irq)
           From(j) == j = irq \/ \E k \in DOMAIN s : s[k] = j
<1>0. /\ s \in Seq(IRQS) /\ g.pending \subseteq IRQS
      /\ g.lr_shadow \in [ListRegs -> IRQS \cup {VIRQ_INVALID}]
  BY DEF Typed, VgicStates
<1>1. Flags(g)
  BY <1>0 DEF Flags, Single
<1>2. Injected(g, irq, r, C)
  BY SetPendingEffect
<1>3. /\ Dropped(g, irq) => r = g
      /\ ~Dropped(g, irq) => /\ r.pending = g.pending \cup {irq}
                             /\ \A j \in IRQS : InFlight(r, j) <=> InFlight(g, j) \/ j = irq
  BY <1>1, SetPendingAdds
<1> HIDE DEF r
<1>4. CASE r = g
  BY <1>4 DEF r
<1>5. ASSUME ~Dropped(g, irq), irq \notin g.pending PROVE
      /\ ~InFlight(g, irq)
      /\ \A j \in IRQS : InFlight(r, j) <=> j \in r.pending
      /\ \A k, l \in DOMAIN a : a[k] = a[l] => k = l
      /\ \A k, l \in DOMAIN Tail(a) : Tail(a)[k] = Tail(a)[l] => k = l
      /\ \A k \in DOMAIN Tail(a) : Tail(a)[k] # Head(a)
      /\ \A i \in ListRegs : ~From(g.lr_shadow[i])
      /\ \A k \in DOMAIN a : From(a[k])
      /\ \A k \in DOMAIN Tail(a) : From(Tail(a)[k])
      /\ From(Head(a)) /\ Head(a) \in IRQS
  <2>1. ~InFlight(g, irq)
    BY <1>5 DEF Single
  <2>2. \A j \in IRQS : InFlight(r, j) <=> j \in r.pending
    BY <1>3, <1>5 DEF Single
  <2>3. /\ \A k, l \in DOMAIN s : s[k] = s[l] => k = l
        /\ \A k \in DOMAIN s : s[k] # irq
    BY <2>1 DEF Single, InFlight, InQueue
  <2>4. \A i \in ListRegs : ~From(g.lr_shadow[i])
    BY <2>1 DEF Single, InFlight, InListReg, InQueue
  <2>5. /\ \A k, l \in DOMAIN a : a[k] = a[l] => k = l
        /\ \A k, l \in DOMAIN Tail(a) : Tail(a)[k] = Tail(a)[l] => k = l
        /\ \A k \in DOMAIN Tail(a) : Tail(a)[k] # Head(a)
    BY <1>0, <2>3, ShiftedOnce
  <2>6. /\ \A k \in DOMAIN a : From(a[k])
        /\ \A k \in DOMAIN Tail(a) : From(Tail(a)[k])
        /\ From(Head(a))
    BY <1>0, ShiftedFrom
  <2>7. Head(a) \in IRQS
    BY <1>0, QueueShift
  <2> QED BY <2>1, <2>2, <2>4, <2>5, <2>6, <2>7
<1> HIDE DEF a, From
<1>6. CASE /\ ~Dropped(g, irq) /\ irq \notin g.pending
           /\ r.irq_queue = a /\ r.lr_shadow = g.lr_shadow
  <2>1. \A i \in ListRegs : ~InQueue(r, r.lr_shadow[i])
    BY <1>5, <1>6 DEF InQueue
  <2> QED BY <1>5, <1>6, <2>1 DEF r, Single
<1>7. CASE /\ ~Dropped(g, irq) /\ irq \notin g.pending
           /\ \E idx \in ListRegs :
                 /\ g.lr_shadow[idx] = VIRQ_INVALID
                 /\ r.irq_queue = Tail(a)
                 /\ r.lr_shadow = [g.lr_shadow EXCEPT ![idx] = Head(a)]
  <2> PICK idx \in ListRegs :
          /\ g.lr_shadow[idx] = VIRQ_INVALID
          /\ r.irq_queue = Tail(a)
          /\ r.lr_shadow = [g.lr_shadow EXCEPT ![idx] = Head(a)]
    BY <1>7
  <2>1. /\ r.lr_shadow[idx] = Head(a)
        /\ \A i \in ListRegs : i # idx => r.lr_shadow[i] = g.lr_shadow[i]
    BY <1>0
  <2>2. \A i \in ListRegs : ~InQueue(r, r.lr_shadow[i])
    BY <1>5, <1>7, <2>1 DEF InQueue
  <2>3. \A i \in ListRegs : i # idx => r.lr_shadow[i] # Head(a)
    BY <1>5, <1>7, <2>1
  <2>4. ASSUME NEW i \in ListRegs, NEW j \in ListRegs,
               r.lr_shadow[i] = r.lr_shadow[j], r.lr_shadow[i] # VIRQ_INVALID
        PROVE  i = j
    BY <2>1, <2>3, <2>4 DEF Single
  <2>5. \A k, l \in DOMAIN r.irq_queue : r.irq_queue[k] = r.irq_queue[l] => k = l
    BY <1>5, <1>7
  <2>6. \A j \in IRQS : InFlight(r, j) <=> j \in r.pending
    BY <1>5, <1>7
  <2>7. Single(r)
    BY <2>2, <2>4, <2>5, <2>6 DEF Single
  <2> QED BY <2>7 DEF r
<1> QED BY <1>2, <1>4, <1>6, <1>7 DEF Injected, a

LEMMA AckSingle ==
    ASSUME NEW g, Typed(g), NEW C, Mirrors(g, C), Single(g), NEW irq,
           virq_ack(g, irq).status = "ok"
    PROVE  Single(virq_ack(g, irq))
<1> DEFINE m == WithMasked(g, g.masked \ {irq})
<1>1. g.masked \ {irq} \in SUBSET IRQS
  BY DEF Typed, VgicStates
<1>2. /\ Typed(m) /\ m.irq_queue = g.irq_queue /\ m.pending = g.pending
      /\ m.lr_shadow = g.lr_shadow /\ m.hw_lr = g.hw_lr
  BY <1>1, MaskedTyped
<1> HIDE DEF m
<1>3. Single(m) /\ Mirrors(m, C)
  BY <1>2, SingleSame, SameTables
<1>4. CASE virq_ack(g, irq) = g \/ virq_ack(g, irq) = m
  BY <1>3, <1>4
<1>5. CASE /\ SERIAL_IRQ_CH \in IRQS
           /\ virq_ack(g, irq) = vgic_dist_set_pending_irq(m, SERIAL_IRQ_CH)
  BY <1>2, <1>3, <1>5, SetPendingSingle
<1> QED BY <1>4, <1>5, AckCases DEF m

(* The maintenance handler takes the only copy of the completed IRQ and    *)
(* clears its flag.                                                        *)
LEMMA FreedSingle ==
    ASSUME NEW g, Typed(g), Single(g), NEW idx \in ListRegs,
           g.lr_shadow[idx] # VIRQ_INVALID
    PROVE  LET f == unset_pending(Freed(g, idx), g.lr_shadow[idx])
           IN  Single(f) /\ f.irq_queue = g.irq_queue
<1> DEFINE h == Freed(g, idx)
           v == g.lr_shadow[idx]
           f == unset_pending(h, v)
<1>1. /\ Typed(h) /\ h.irq_queue = g.irq_queue /\ h.pending = g.pending
      /\ h.lr_shadow = [g.lr_shadow EXCEPT ![idx] = VIRQ_INVALID]
  BY FreedTyped
<1> HIDE DEF h
<1>2. /\ f.irq_queue = g.irq_queue /\ f.pending = g.pending \ {v}
      /\ f.lr_shadow = [g.lr_shadow EXCEPT ![idx] = VIRQ_INVALID]
  BY <1>1, ClearTyped
<1> HIDE DEF f
<1>3. /\ g.lr_shadow \in [ListRegs -> IRQS \cup {VIRQ_INVALID}]
      /\ g.irq_queue \in Seq(IRQS) /\ v \in IRQS
  BY DEF Typed, VgicStates
<1>4. /\ f.lr_shadow[idx] = VIRQ_INVALID
      /\ \A i \in ListRegs : i # idx => f.lr_shadow[i] = g.lr_shadow[i]
      /\ \A j : InQueue(f, j) <=> InQueue(g, j)
  BY <1>2, <1>3 DEF InQueue
<1>5. ~InFlight(f, v)
  <2>1. ~InQueue(g, v)
    BY DEF Single
  <2>2. \A i \in ListRegs : i # idx => g.lr_shadow[i] # v
    BY DEF Single
  <2>3. VIRQ_INVALID # v
    OBVIOUS
  <2> HIDE DEF v
  <2> QED BY <1>4, <2>1, <2>2, <2>3 DEF InFlight, InListReg
<1>6. \A j \in IRQS : j # v => (InFlight(f, j) <=> InFlight(g, j))
  <2>1. \A j \in IRQS : InListReg(f, j) => InListReg(g, j)
    BY <1>4, IrqValid DEF InListReg
  <2>2. \A j \in IRQS : j # v /\ InListReg(g, j) => InListReg(f, j)
    BY <1>4 DEF InListReg
  <2> HIDE DEF v
  <2> QED BY <1>4, <2>1, <2>2 DEF InFlight
<1>7. \A j \in IRQS : InFlight(f, j) <=> j \in f.pending
  <2> HIDE DEF v
  <2> QED BY <1>2, <1>5, <1>6 DEF Single
<1>8. ~InQueue(g, VIRQ_INVALID)
  BY <1>3, IrqValid DEF InQueue
<1>9. \A i \in ListRegs : ~InQueue(f, f.lr_shadow[i])
  BY <1>4, <1>8 DEF Single
<1>10. \A i, j \in ListRegs :
           f.lr_shadow[i] = f.lr_shadow[j] /\ f.lr_shadow[i] # VIRQ_INVALID => i = j
  BY <1>4 DEF Single
<1>11. Single(f)
  BY <1>2, <1>7, <1>9, <1>10 DEF Single
<1> QED BY <1>2, <1>11 DEF f, h, v

LEMMA SingleStep ==
    ASSUME CoreInv, Single(vgic), fault.kind # "ICPENDR", [Next]_vars,
           vgic.status = "ok", vgic'.status = "ok"
    PROVE  Single(vgic')
<1> USE TypeParts
<1>1. /\ TypeOK /\ Typed(vgic) /\ FaultTyped /\ Mirrors(vgic, Completed)
      /\ vgic \in VgicStates /\ vgic.masked \subseteq IRQS /\ vgic.enable \subseteq IRQS
      /\ Waiting \subseteq IRQS /\ DriverStep
  <2>1. Typed(vgic) /\ vgic \in VgicStates /\ notif \subseteq SpiLines
    BY DEF CoreInv, Typed
  <2>2. Waiting \subseteq IRQS
    BY <2>1, HwSets DEF Waiting
  <2> QED BY <2>1, <2>2, StepForms DEF CoreInv, Good, VgicStates
<1>2. CASE Untouched
  BY <1>2 DEF Untouched
<1>3. CASE Completes
  <2>1. PICK idx \in ListRegs : vgic' = Emptied(vgic, idx)
    BY <1>3 DEF Completes
  <2>2. /\ vgic'.pending = vgic.pending
        /\ vgic'.irq_queue = vgic.irq_queue /\ vgic'.lr_shadow = vgic.lr_shadow
    BY <1>1, <2>1, EmptiedTyped
  <2> QED BY <2>2, SingleSame
<1>4. CASE Fires \/ Rejects
  <2>1. PICK irq \in HwLines : \/ vgic' = WithMasked(vgic, vgic.masked \cup {irq})
                               \/ vgic' = WithMasked(vgic, vgic.masked \ {irq})
    BY <1>4, HwSets DEF Fires, Rejects
  <2>2. vgic.masked \cup {irq} \in SUBSET IRQS /\ vgic.masked \ {irq} \in SUBSET IRQS
    BY <1>1, HwSets
  <2> QED BY <1>1, <2>1, <2>2, MaskedTyped, SingleSame
<1>5. CASE Takes \/ Injects
  <2>1. PICK irq \in IRQS : vgic' = vgic_dist_set_pending_irq(vgic, irq)
    BY <1>1, <1>5 DEF Takes, Injects
  <2> QED BY <1>1, <2>1, SetPendingSingle
<1>6. CASE Maintains
  <2> DEFINE idx  == fault.arg
             virq == vgic.lr_shadow[idx]
             f    == unset_pending(Freed(vgic, idx), virq)
  <2>1. idx \in ListRegs /\ idx \in Completed
    BY <1>1, <1>6, CompletedOf DEF Maintains, FaultTyped
  <2>2. vgic' = virq_ack(f, virq) /\ virq # VIRQ_INVALID
    <3>1. PICK err \in UninitErr : vgic' = handle_vgic_maintenance(vgic, idx, err)
      BY <1>6 DEF Maintains
    <3> QED BY <1>1, <2>1, <3>1, MaintenanceCases
  <2>3. Typed(f) /\ Mirrors(f, Completed \ {idx})
    BY <1>1, <2>1, FreedGood DEF CoreInv, Good
  <2>4. Single(f)
    BY <1>1, <2>1, <2>2, FreedSingle
  <2> HIDE DEF f, virq, idx
  <2> QED BY <2>2, <2>3, <2>4, AckSingle
<1>7. CASE Switches
  <2>1. PICK c \in {0, CtlrOn} : vgic' = WithCtlr(vgic, c)
    BY <1>7 DEF Switches
  <2> QED BY <1>1, <2>1, CtlrTyped, SingleSame
<1>8. CASE Enables
  <2>1. PICK irq \in fault.bits : vgic' = vgic_dist_enable_irq(vgic, irq)
    BY <1>8 DEF Enables
  <2>2. irq \in IRQS
    BY <1>1, <2>1 DEF FaultTyped
  <2> DEFINE e == WithEnable(vgic, vgic.enable \cup {irq})
  <2>3. vgic.enable \cup {irq} \in SUBSET IRQS
    BY <1>1, <2>2
  <2>4. /\ Typed(e) /\ e.irq_queue = vgic.irq_queue /\ e.lr_shadow = vgic.lr_shadow
        /\ e.hw_lr = vgic.hw_lr /\ e.pending = vgic.pending
    BY <1>1, <2>3, EnableTyped
  <2>5. vgic' = e \/ vgic' = virq_ack(e, irq)
    BY <1>1, <2>1, <2>2, EnableCases
  <2> HIDE DEF e
  <2>6. Single(e) /\ Mirrors(e, Completed)
    BY <1>1, <2>4, SameTables, SingleSame
  <2> QED BY <2>4, <2>5, <2>6, AckSingle
<1>9. CASE Disables
  <2>1. PICK irq \in IRQS : vgic' = WithEnable(vgic, vgic.enable \ {irq})
    BY <1>9 DEF Disables
  <2>2. vgic.enable \ {irq} \in SUBSET IRQS
    BY <1>1
  <2> QED BY <1>1, <2>1, <2>2, EnableTyped, SingleSame
<1>10. ~Unimplemented /\ ~Clears
  BY <1>1, StopFields DEF Unimplemented, Clears
<1> QED BY <1>1, <1>2, <1>3, <1>4, <1>5, <1>6, <1>7, <1>8, <1>9, <1>10 DEF DriverStep

SingleInv == vgic.status = "ok" => Single(vgic)

LEMMA SingleInvariant ==
    ASSUME "ICPENDR" \notin GuestMay
    PROVE  Spec => []SingleInv
<1>1. Init => SingleInv
  <2> SUFFICES ASSUME Init PROVE Single(vgic)
    BY DEF SingleInv
  <2>1. PICK fired : vgic = [vgic_init EXCEPT !.masked = fired]
    BY DEF Init
  <2>2. /\ vgic.pending = {} /\ vgic.irq_queue = << >>
        /\ vgic.lr_shadow = [i \in ListRegs |-> VIRQ_INVALID]
    BY <2>1 DEF vgic_init
  <2>3. DOMAIN vgic.irq_queue = {}
    BY <2>2
  <2> QED BY <2>2, <2>3, IrqValid DEF Single, InFlight, InListReg, InQueue
<1>2. CoreInv /\ KindAllowed /\ SingleInv /\ [Next]_vars => SingleInv'
  <2> SUFFICES ASSUME CoreInv, KindAllowed, SingleInv, [Next]_vars, vgic'.status = "ok"
               PROVE  Single(vgic)'
    BY DEF SingleInv
  <2>1. vgic.status = "ok"
    <3>1. vgic.status # "ok" => UNCHANGED vars
      BY StepForms DEF CoreInv
    <3> QED BY <3>1 DEF vars
  <2>2. Single(vgic')
    BY <2>1, SingleStep DEF KindAllowed, SingleInv
  <2> QED BY <2>2 DEF Single, InFlight, InListReg, InQueue
<1>3. TypeOK /\ KindAllowed => KindAllowed
  OBVIOUS
<1> QED BY <1>1, <1>2, <1>3, KindInvariant, CoreInvariant, PTL DEF Spec

(* Unless the guest clears pending flags itself, no interrupt is in two    *)
(* places at once: the flag that vgic_dist_set_pending_irq tests and the   *)
(* maintenance handler clears keeps it from being delivered twice.         *)
THEOREM DeliveredOnce ==
    ASSUME "ICPENDR" \notin GuestMay
    PROVE  Spec => []SingleDelivery
<1>1. SingleInv => SingleDelivery
  BY DEF SingleInv, Single, SingleDelivery
<1> QED BY <1>1, SingleInvariant, PTL

----------------------------------------------------------------------------
(* A VMM whose lines all fit the list registers: it has not stopped, its   *)
(* queue is empty and what is pending is registered and in one place.      *)
Clear(g) ==
    /\ g.status = "ok" /\ g.irq_queue = << >>
    /\ g.pending \subseteq Registered /\ Single(g)

(* So it was, or it stopped at the test of the unset err. *)
ClearOrUnset(g) == Clear(g) \/ g.status = "unset_err"

Enough == IsFiniteSet(Registered) /\ Cardinality(Registered) <= NUM_LIST_REGS

(* A registered IRQ that is not pending finds a list register empty: the   *)
(* others cannot fill them all.                                            *)
LEMMA Roomy ==
    ASSUME Enough, NEW g, Typed(g), Clear(g), NEW irq \in Registered, irq \notin g.pending
    PROVE  EmptyListRegs(g) # {}
<1> SUFFICES ASSUME EmptyListRegs(g) = {} PROVE FALSE
  OBVIOUS
<1> DEFINE T == Registered \ {irq}
<1>1. g.lr_shadow \in [ListRegs -> IRQS \cup {VIRQ_INVALID}]
  BY DEF Typed, VgicStates
<1>2. ASSUME NEW i \in ListRegs PROVE g.lr_shadow[i] \in T /\ g.lr_shadow[i] # VIRQ_INVALID
  <2>1. g.lr_shadow[i] \in IRQS /\ g.lr_shadow[i] # VIRQ_INVALID
    BY <1>1 DEF EmptyListRegs
  <2>2. g.lr_shadow[i] \in g.pending
    BY <2>1 DEF Clear, Single, InFlight, InListReg
  <2> QED BY <2>1, <2>2 DEF Clear
<1>3. g.lr_shadow \in [ListRegs -> T]
  BY <1>1, <1>2
<1>4. IsFiniteSet(ListRegs) /\ Cardinality(ListRegs) = NUM_LIST_REGS
  <2>1. 0 \in Int /\ NUM_LIST_REGS - 1 \in Int /\ ~(0 > NUM_LIST_REGS - 1)
    BY ListRegAssumption
  <2>2. /\ IsFiniteSet(0 .. NUM_LIST_REGS - 1)
        /\ Cardinality(0 .. NUM_LIST_REGS - 1) = (NUM_LIST_REGS - 1) - 0 + 1
    BY <2>1, FS_Interval
  <2> QED BY <2>2, ListRegAssumption DEF ListRegs
<1>5. /\ IsFiniteSet(T) /\ Cardinality(T) = Cardinality(Registered) - 1
      /\ Cardinality(Registered) \in Nat
  BY FS_RemoveElement, FS_CardinalityType DEF Enough
<1>6. Cardinality(T) < Cardinality(ListRegs)
  BY <1>4, <1>5, ListRegAssumption DEF Enough
<1> HIDE DEF T
<1>7. \E i, j \in ListRegs : i # j /\ g.lr_shadow[i] = g.lr_shadow[j]
  BY <1>3, <1>4, <1>5, <1>6, FS_PigeonHole
<1> QED BY <1>2, <1>7 DEF Clear, Single

LEMMA SetPendingClear ==
    ASSUME Enough, NEW g, Typed(g), NEW C, Mirrors(g, C), Clear(g), NEW irq \in IRQS,
           virq_find_irq_data(irq) # NULL
    PROVE  Clear(vgic_dist_set_pending_irq(g, irq))
<1> DEFINE r == vgic_dist_set_pending_irq(g, irq)
           q == vgic_irq_enqueue(set_pending(g, irq), irq)
           d == vgic_irq_dequeue(q)
<1>1. g \in VgicStates /\ g.status = "ok" /\ g.irq_queue = << >> /\ g.pending \subseteq Registered
  BY DEF Typed, Clear
<1>2. ~Dropped(g, irq) => irq \in Registered
  BY DEF Dropped, virq_find_irq_data
<1>3. ~Dropped(g, irq) /\ irq \notin g.pending => EmptyListRegs(g) # {}
  BY <1>2, Roomy
<1>4. Len(g.irq_queue) # MAX_IRQ_QUEUE_LEN - 1
  BY <1>1, QueueAssumption
<1>5. d.hw_lr = g.hw_lr /\ d.status = "ok"
  BY <1>1 DEF VgicStates, set_pending, vgic_irq_enqueue, vgic_irq_dequeue
<1>6. \/ r = g
      \/ \E idx \in ListRegs : /\ g.lr_shadow[idx] = VIRQ_INVALID
                               /\ r = vgic_vcpu_load_list_reg(d, idx, Head(q.irq_queue))
  BY <1>3, <1>4, SetPendingCases
<1>7. r.status = "ok"
  <2> HIDE DEF r, q, d
  <2>1. ASSUME NEW idx \in ListRegs, g.lr_shadow[idx] = VIRQ_INVALID,
               r = vgic_vcpu_load_list_reg(d, idx, Head(q.irq_queue))
        PROVE  r.status = "ok"
    <3>1. g.hw_lr[idx] = VIRQ_INVALID
      BY <2>1 DEF Mirrors
    <3>2. r = [d EXCEPT !.hw_lr[idx] = Head(q.irq_queue), !.lr_shadow[idx] = Head(q.irq_queue)]
      BY <1>5, <2>1, <3>1 DEF vgic_vcpu_load_list_reg
    <3> QED BY <1>5, <3>2
  <2> QED BY <1>1, <1>6, <2>1
<1>8. Single(r)
  BY <1>7, SetPendingSingle DEF Clear
<1>9. Injected(g, irq, r, C)
  BY <1>7, SetPendingEffect
<1>10. Tail(Append(<< >>, irq)) = << >>
  <2>1. << >> \in Seq(IRQS) /\ Len(<< >>) = 0
    OBVIOUS
  <2>2. Tail(Append(<< >>, irq)) \in Seq(IRQS) /\ Len(Tail(Append(<< >>, irq))) = 0
    BY <2>1, QueueShift
  <2> QED BY <2>2
<1> HIDE DEF r
<1>11. r.irq_queue = << >> /\ r.pending \subseteq Registered
  BY <1>1, <1>2, <1>3, <1>9, <1>10 DEF Injected
<1> QED BY <1>7, <1>8, <1>11 DEF r, Clear

LEMMA ClearSame ==
    ASSUME NEW g, NEW r, Clear(g), r.status = g.status, r.pending = g.pending,
           r.irq_queue = g.irq_queue, r.lr_shadow = g.lr_shadow
    PROVE  Clear(r)
BY SingleSame DEF Clear

LEMMA AckClear ==
    ASSUME Enough, NEW g, Typed(g), NEW C, Mirrors(g, C), Clear(g), NEW irq
    PROVE  Clear(virq_ack(g, irq))
<1> DEFINE m == WithMasked(g, g.masked \ {irq})
<1>1. g.masked \ {irq} \in SUBSET IRQS
  BY DEF Typed, VgicStates
<1>2. /\ Typed(m) /\ m.irq_queue = g.irq_queue /\ m.pending = g.pending
      /\ m.lr_shadow = g.lr_shadow /\ m.hw_lr = g.hw_lr /\ m.status = g.status
  BY <1>1, MaskedTyped
<1> HIDE DEF m
<1>3. Clear(m) /\ Mirrors(m, C)
  BY <1>2, ClearSame, SameTables
<1>4. virq_find_irq_data(SERIAL_IRQ_CH) # NULL
  BY DEF virq_find_irq_data, SERIAL_IRQ_CH, NUM_VCPU_LOCAL_VIRQS, NULL, VIRQ_INVALID
<1>5. SERIAL_IRQ_CH \in IRQS => Clear(vgic_dist_set_pending_irq(m, SERIAL_IRQ_CH))
  BY <1>2, <1>3, <1>4, SetPendingClear
<1> QED BY <1>3, <1>5, AckCases DEF m

(* The maintenance handler finds the completed IRQ in the shadow and an    *)
(* empty queue, and gets past its assertion unless err is not 0.       *)
LEMMA MaintenanceClear ==
    ASSUME Enough, NEW g, Typed(g), NEW C, Mirrors(g, C), Clear(g),
           NEW idx \in ListRegs, idx \in C, NEW err
    PROVE  ClearOrUnset(handle_vgic_maintenance(g, idx, err))
<1> DEFINE virq  == g.lr_shadow[idx]
           f     == unset_pending(Freed(g, idx), virq)
           acked == virq_ack(f, virq)
<1>1. virq # VIRQ_INVALID
  BY DEF Mirrors
<1>2. Flags(g)
  BY DEF Flags, Clear, Single, Typed, VgicStates
<1>3. Typed(f) /\ Mirrors(f, C \ {idx}) /\ f.pending = g.pending \ {virq}
  BY <1>2, FreedGood
<1>4. Single(f) /\ f.irq_queue = g.irq_queue
  BY <1>1, FreedSingle DEF Clear
<1>5. f.status = g.status
  <2> DEFINE h == Freed(g, idx)
  <2>1. Typed(h) /\ h.status = g.status
    BY FreedTyped
  <2> HIDE DEF h
  <2>2. unset_pending(h, virq).status = h.status
    BY <2>1, ClearTyped
  <2> QED BY <2>1, <2>2 DEF h
<1> HIDE DEF f, virq
<1>6. Clear(f)
  BY <1>3, <1>4, <1>5 DEF Clear
<1>7. Clear(acked)
  BY <1>3, <1>6, AckClear
<1>8. acked.status = "ok" /\ acked.irq_queue = << >>
  BY <1>7 DEF Clear
<1>9. handle_vgic_maintenance(g, idx, err) = IF err = 0 THEN acked ELSE Stop(acked, "unset_err")
  <2>1. acked = virq_ack(unset_pending([g EXCEPT !.lr_shadow[idx] = VIRQ_INVALID],
                                       g.lr_shadow[idx]), g.lr_shadow[idx])
    BY DEF f, virq, Freed
  <2> HIDE DEF acked
  <2> QED BY <1>1, <1>8, <2>1 DEF handle_vgic_maintenance, virq
<1>10. Stop(acked, "unset_err").status = "unset_err"
  <2>1. Typed(acked)
    BY <1>3, AckTyped
  <2> HIDE DEF acked
  <2> QED BY <2>1 DEF Typed, VgicStates, Stop
<1> HIDE DEF acked
<1> QED BY <1>7, <1>9, <1>10 DEF ClearOrUnset

(* What keeps the VMM of a guest from stopping: a list register for every  *)
(* registered IRQ, and a guest that leaves the flags alone and sets none   *)
(* for an SPI without a handle.                                            *)
Tame ==
    /\ Enough
    /\ "ICPENDR" \notin GuestMay /\ "CPENDSGIR" \notin GuestMay
    /\ "ISPENDR" \in GuestMay => Spis \subseteq Registered

LEMMA ClearStep ==
    ASSUME Tame, CoreInv, KindAllowed, Clear(vgic), [Next]_vars
    PROVE  ClearOrUnset(vgic')
<1> USE TypeParts DEF ClearOrUnset
<1>1. /\ TypeOK /\ Typed(vgic) /\ FaultTyped /\ Mirrors(vgic, Completed) /\ Enough
      /\ vgic \in VgicStates /\ vgic.masked \subseteq IRQS /\ vgic.enable \subseteq IRQS
      /\ Waiting \subseteq HwLines /\ DriverStep
  <2>1. Typed(vgic) /\ vgic \in VgicStates /\ notif \subseteq SpiLines
    BY DEF CoreInv, Typed
  <2>2. Waiting \subseteq HwLines
    BY <2>1, HwSets DEF Waiting
  <2> QED BY <2>1, <2>2, StepForms DEF CoreInv, Clear, Good, VgicStates, Tame
<1>2. CASE Untouched
  BY <1>2 DEF Untouched
<1>3. CASE Completes
  <2>1. PICK idx \in ListRegs : vgic' = Emptied(vgic, idx)
    BY <1>3 DEF Completes
  <2>2. /\ vgic'.pending = vgic.pending /\ vgic'.status = vgic.status
        /\ vgic'.irq_queue = vgic.irq_queue /\ vgic'.lr_shadow = vgic.lr_shadow
    BY <1>1, <2>1, EmptiedTyped
  <2> QED BY <2>2, ClearSame
<1>4. CASE Fires \/ Rejects
  <2>1. PICK irq \in HwLines : \/ vgic' = WithMasked(vgic, vgic.masked \cup {irq})
                               \/ vgic' = WithMasked(vgic, vgic.masked \ {irq})
    BY <1>4, HwSets DEF Fires, Rejects
  <2>2. vgic.masked \cup {irq} \in SUBSET IRQS /\ vgic.masked \ {irq} \in SUBSET IRQS
    BY <1>1, HwSets
  <2> QED BY <1>1, <2>1, <2>2, MaskedTyped, ClearSame
<1>5. CASE Takes
  <2>1. PICK irq \in Waiting : vgic' = vgic_dist_set_pending_irq(vgic, irq)
    BY <1>5 DEF Takes
  <2>2. irq \in IRQS /\ virq_find_irq_data(irq) # NULL
    BY <1>1, <2>1, HwSets, RegisteredHandle
  <2> QED BY <1>1, <2>1, <2>2, SetPendingClear
<1>6. CASE Injects
  <2>1. PICK irq \in IRQS : /\ irq \in Sgis \/ fault.kind = "ISPENDR"
                            /\ vgic' = vgic_dist_set_pending_irq(vgic, irq)
    BY <1>6 DEF Injects
  <2>2. virq_find_irq_data(irq) # NULL
    <3>1. irq < NUM_VCPU_LOCAL_VIRQS \/ irq \in Registered
      <4>1. CASE irq \in Sgis
        BY <4>1, IrqAssumption DEF Sgis, NUM_SGI_VIRQS, NUM_VCPU_LOCAL_VIRQS
      <4>2. CASE fault.kind = "ISPENDR"
        <5>1. Spis \subseteq Registered
          BY <4>2 DEF KindAllowed, Tame
        <5> QED BY <5>1, IrqAssumption DEF Spis, NUM_VCPU_LOCAL_VIRQS
      <4> QED BY <2>1, <4>1, <4>2
    <3> QED BY <3>1, IrqAssumption DEF virq_find_irq_data, NULL, VIRQ_INVALID
  <2> QED BY <1>1, <2>1, <2>2, SetPendingClear
<1>7. CASE Maintains
  <2>1. fault.arg \in ListRegs /\ fault.arg \in Completed
    BY <1>1, <1>7, CompletedOf DEF Maintains, FaultTyped
  <2>2. PICK err \in UninitErr : vgic' = handle_vgic_maintenance(vgic, fault.arg, err)
    BY <1>7 DEF Maintains
  <2> QED BY <1>1, <2>1, <2>2, MaintenanceClear
<1>8. CASE Switches
  <2>1. PICK c \in {0, CtlrOn} : vgic' = WithCtlr(vgic, c)
    BY <1>8 DEF Switches
  <2> QED BY <1>1, <2>1, CtlrTyped, ClearSame
<1>9. CASE Enables
  <2>1. PICK irq \in fault.bits : vgic' = vgic_dist_enable_irq(vgic, irq)
    BY <1>9 DEF Enables
  <2>2. irq \in IRQS
    BY <1>1, <2>1 DEF FaultTyped
  <2> DEFINE e == WithEnable(vgic, vgic.enable \cup {irq})
  <2>3. vgic.enable \cup {irq} \in SUBSET IRQS
    BY <1>1, <2>2
  <2>4. /\ Typed(e) /\ e.irq_queue = vgic.irq_queue /\ e.lr_shadow = vgic.lr_shadow
        /\ e.hw_lr = vgic.hw_lr /\ e.pending = vgic.pending /\ e.status = vgic.status
    BY <1>1, <2>3, EnableTyped
  <2>5. vgic' = e \/ vgic' = virq_ack(e, irq)
    BY <1>1, <2>1, <2>2, EnableCases
  <2> HIDE DEF e
  <2>6. Clear(e) /\ Mirrors(e, Completed)
    BY <1>1, <2>4, SameTables, ClearSame
  <2> QED BY <1>1, <2>4, <2>5, <2>6, AckClear
<1>10. CASE Disables
  <2>1. PICK irq \in IRQS : vgic' = WithEnable(vgic, vgic.enable \ {irq})
    BY <1>10 DEF Disables
  <2>2. vgic.enable \ {irq} \in SUBSET IRQS
    BY <1>1
  <2> QED BY <1>1, <2>1, <2>2, EnableTyped, ClearSame
<1>11. ~Unimplemented /\ ~Clears
  BY DEF Unimplemented, Clears, KindAllowed, Tame
<1> QED BY <1>1, <1>2, <1>3, <1>4, <1>5, <1>6, <1>7, <1>8, <1>9, <1>10, <1>11 DEF DriverStep

(* With a list register for every registered IRQ, as for the four that     *)
(* init() registers on qemu_arm_virt_hyp, and a guest that clears no       *)
(* pending flag and sets those of registered IRQs only (Tame), the test of *)
(* the unset err in handle_vgic_maintenance is all that can stop the VMM,  *)
(* whatever values err may have: no other assertion fails and no NULL      *)
(* handle is followed.                                                     *)
(* The overflow queue stays empty, so the maintenance handler never loads  *)
(* a list register, which it would report as a failure (run                *)
(* vgic_overflow).                                                         *)
THEOREM OnlyUnsetErrStopsVmm ==
    ASSUME Tame
    PROVE  Spec => []StopsOnlyOnUnsetErr
<1> DEFINE Inv == ClearOrUnset(vgic)
<1>1. Init => Inv
  <2> SUFFICES ASSUME Init PROVE Clear(vgic)
    BY DEF ClearOrUnset
  <2>1. PICK fired : vgic = [vgic_init EXCEPT !.masked = fired]
    BY DEF Init
  <2>2. /\ vgic.pending = {} /\ vgic.irq_queue = << >> /\ vgic.status = "ok"
        /\ vgic.lr_shadow = [i \in ListRegs |-> VIRQ_INVALID]
    BY <2>1 DEF vgic_init
  <2>3. DOMAIN vgic.irq_queue = {}
    BY <2>2
  <2> QED BY <2>2, <2>3, IrqValid DEF Clear, Single, InFlight, InListReg, InQueue
<1>2. CoreInv /\ KindAllowed /\ Inv /\ [Next]_vars => Inv'
  <2> SUFFICES ASSUME CoreInv, KindAllowed, Inv, [Next]_vars PROVE Inv'
    OBVIOUS
  <2>1. CASE Clear(vgic)
    <3>1. ClearOrUnset(vgic')
      BY <2>1, ClearStep
    <3> QED BY <3>1 DEF ClearOrUnset, Clear, Single, InFlight, InListReg, InQueue
  <2>2. CASE vgic.status = "unset_err"
    <3>1. vgic' = vgic
      BY <2>2, StepForms DEF CoreInv, vars
    <3> QED BY <2>2, <3>1 DEF ClearOrUnset
  <2> QED BY <2>1, <2>2 DEF ClearOrUnset
<1>3. TypeOK /\ KindAllowed => KindAllowed
  OBVIOUS
<1>4. Inv => StopsOnlyOnUnsetErr
  BY DEF ClearOrUnset, Clear, StopsOnlyOnUnsetErr
<1> QED BY <1>1, <1>2, <1>3, <1>4, KindInvariant, CoreInvariant, PTL DEF Spec
=============================================================================
