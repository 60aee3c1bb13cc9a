----------------------------- MODULE VgicProofs -----------------------------
(***************************************************************************)
(* Type correctness of Vgic and its core safety invariants, for every set  *)
(* of IRQs and registrations, number of list registers, queue length,      *)
(* board and guest.                                                        *)
(***************************************************************************)
EXTENDS Vgic, LeastElement, TLAPS

(* The state record has its type and the queue keeps a slot free. *)
Typed(g) == g \in VgicStates /\ Len(g.irq_queue) < MAX_IRQ_QUEUE_LEN

----------------------------------------------------------------------------
(* vgic_find_empty_list_reg returns an empty list register, or a negative  *)
(* number when there is none.                                              *)
LEMMA FindEmpty ==
    ASSUME NEW g
    PROVE  \/ EmptyListRegs(g) = {} /\ vgic_find_empty_list_reg(g) = -1
           \/ /\ vgic_find_empty_list_reg(g) \in EmptyListRegs(g)
              /\ vgic_find_empty_list_reg(g) \in ListRegs
              /\ ~(vgic_find_empty_list_reg(g) < 0)
<1>1. CASE EmptyListRegs(g) = {}
  BY <1>1 DEF vgic_find_empty_list_reg
<1>2. CASE EmptyListRegs(g) # {}
  <2>1. EmptyListRegs(g) \subseteq ListRegs /\ ListRegs \subseteq Nat
    BY ListRegAssumption DEF EmptyListRegs, ListRegs
  <2>2. Min(EmptyListRegs(g)) \in EmptyListRegs(g)
    BY <1>2, <2>1, MinNat
  <2>3. Min(EmptyListRegs(g)) \in ListRegs /\ Min(EmptyListRegs(g)) \in Nat
    BY <2>1, <2>2
  <2>4. vgic_find_empty_list_reg(g) = Min(EmptyListRegs(g))
    BY <1>2 DEF vgic_find_empty_list_reg
  <2>5. \A n \in Nat : ~(n < 0)
    OBVIOUS
  <2> QED BY <2>2, <2>3, <2>4, <2>5
<1> QED BY <1>1, <1>2

(* A stopped state keeps its type. *)
LEMMA StopTyped ==
    ASSUME NEW g, Typed(g), NEW why \in Statuses
    PROVE  Typed(Stop(g, why))
BY DEF Typed, VgicStates, Stop

(* Loading a list register keeps the type. *)
LEMMA LoadTyped ==
    ASSUME NEW g, Typed(g), NEW idx \in ListRegs, NEW virq \in IRQS
    PROVE  Typed(vgic_vcpu_load_list_reg(g, idx, virq))
<1>1. "list_reg_busy" \in Statuses
  BY DEF Statuses
<1> QED BY <1>1, StopTyped DEF Typed, VgicStates, vgic_vcpu_load_list_reg

(* What vgic_dist_set_pending_irq does, by cases: it stops, it drops the   *)
(* IRQ or finds it pending, it queues it behind full list registers, or it *)
(* queues it and loads the head of the queue into an empty list register.  *)
LEMMA SetPendingCases ==
    ASSUME NEW g, Typed(g), NEW irq \in IRQS
    PROVE  LET r == vgic_dist_set_pending_irq(g, irq)
               p == set_pending(g, irq)
               q == vgic_irq_enqueue(p, irq)
           IN  \/ r = Stop(g, "null_handle") /\ virq_find_irq_data(irq) = NULL
               \/ r = g /\ (Dropped(g, irq) \/ irq \in g.pending)
               \/ r = Stop(p, "queue_full") /\ Len(g.irq_queue) = MAX_IRQ_QUEUE_LEN - 1
               \/ /\ Len(g.irq_queue) < MAX_IRQ_QUEUE_LEN - 1
                  /\ ~Dropped(g, irq) /\ irq \notin g.pending
                  /\ EmptyListRegs(g) = {}
                  /\ r = q
               \/ /\ Len(g.irq_queue) < MAX_IRQ_QUEUE_LEN - 1
                  /\ ~Dropped(g, irq) /\ irq \notin g.pending
                  /\ \E idx \in ListRegs :
                        /\ g.lr_shadow[idx] = VIRQ_INVALID
                        /\ r = vgic_vcpu_load_list_reg(vgic_irq_dequeue(q), idx,
                                                       Head(q.irq_queue))
<1> DEFINE p == set_pending(g, irq)
           q == vgic_irq_enqueue(p, irq)
           idx == vgic_find_empty_list_reg(q)
<1>1. p.irq_queue = g.irq_queue /\ q.lr_shadow = g.lr_shadow
  BY DEF Typed, VgicStates, set_pending, vgic_irq_enqueue
<1>2. EmptyListRegs(q) = EmptyListRegs(g)
  BY <1>1 DEF EmptyListRegs
<1>3. \/ EmptyListRegs(g) = {} /\ idx = -1
      \/ idx \in ListRegs /\ ~(idx < 0) /\ g.lr_shadow[idx] = VIRQ_INVALID
  BY <1>2, FindEmpty DEF EmptyListRegs
<1>4. /\ vgic_irq_full(p) => Len(g.irq_queue) = MAX_IRQ_QUEUE_LEN - 1
      /\ ~vgic_irq_full(p) => Len(g.irq_queue) < MAX_IRQ_QUEUE_LEN - 1
  BY <1>1, QueueAssumption DEF vgic_irq_full, Typed, VgicStates
<1> HIDE DEF p, q, idx
<1> QED BY <1>3, <1>4 DEF vgic_dist_set_pending_irq, p, q, idx
(* The queue after an IRQ was appended and the head taken. *)
LEMMA QueueShift ==
    ASSUME NEW s \in Seq(IRQS), NEW irq \in IRQS
    PROVE  LET a == Append(s, irq)
           IN  /\ a \in Seq(IRQS) /\ Len(a) = Len(s) + 1
               /\ Head(a) \in IRQS /\ Head(a) = a[1]
               /\ Tail(a) \in Seq(IRQS) /\ Len(Tail(a)) = Len(s)
               /\ \A k \in 1 .. Len(s) : a[k] = s[k] /\ Tail(a)[k] = a[k + 1]
               /\ a[Len(s) + 1] = irq
<1> DEFINE a == Append(s, irq)
<1>1. a \in Seq(IRQS) /\ Len(a) = Len(s) + 1 /\ Len(s) \in Nat
  OBVIOUS
<1>2. a # << >>
  BY <1>1
<1>3. (\A k \in 1 .. Len(s) : a[k] = s[k]) /\ a[Len(s) + 1] = irq
  OBVIOUS
<1> HIDE DEF a
<1>4. Head(a) = a[1] /\ Head(a) \in IRQS
  BY <1>1, <1>2
<1>5. Tail(a) \in Seq(IRQS) /\ Len(Tail(a)) = Len(s)
  BY <1>1, <1>2
<1>6. \A k \in 1 .. Len(s) : Tail(a)[k] = a[k + 1]
  BY <1>1, <1>2
<1> QED BY <1>1, <1>3, <1>4, <1>5, <1>6 DEF a

WithQueue(g, s) == [g EXCEPT !.irq_queue = s]

(* Replacing the queue of a state changes nothing else. *)
LEMMA SetQueue ==
    ASSUME NEW g \in VgicStates, NEW s \in Seq(IRQS)
    PROVE  LET r == WithQueue(g, s)
           IN  /\ r \in VgicStates
               /\ r.irq_queue = s /\ r.pending = g.pending
               /\ r.lr_shadow = g.lr_shadow /\ r.hw_lr = g.hw_lr
               /\ r.ctlr = g.ctlr /\ r.enable = g.enable
               /\ r.masked = g.masked /\ r.status = g.status
BY DEF VgicStates, WithQueue

(* vgic_dist_set_pending_irq keeps the type. *)
LEMMA SetPendingTyped ==
    ASSUME NEW g, Typed(g), NEW irq \in IRQS
    PROVE  Typed(vgic_dist_set_pending_irq(g, irq))
<1> DEFINE p == set_pending(g, irq)
           q == vgic_irq_enqueue(p, irq)
           d == vgic_irq_dequeue(q)
<1>1. g.irq_queue \in Seq(IRQS) /\ Len(g.irq_queue) \in Nat
  BY DEF Typed, VgicStates
<1>2. Typed(p)
  BY DEF Typed, VgicStates, set_pending
<1>3. p.irq_queue = g.irq_queue
  BY DEF Typed, VgicStates, set_pending
<1>4. q.irq_queue = Append(g.irq_queue, irq)
  BY <1>2, <1>3 DEF Typed, VgicStates, vgic_irq_enqueue
<1>5. ASSUME Len(g.irq_queue) < MAX_IRQ_QUEUE_LEN - 1 PROVE Typed(q)
  <2>1. Len(Append(g.irq_queue, irq)) < MAX_IRQ_QUEUE_LEN
    BY <1>1, <1>5, QueueAssumption
  <2>2. Append(g.irq_queue, irq) \in Seq(IRQS)
    BY <1>1
  <2>3. q = WithQueue(p, Append(g.irq_queue, irq))
    BY <1>3 DEF vgic_irq_enqueue, WithQueue
  <2> HIDE DEF p, q
  <2> QED BY <1>2, <2>1, <2>2, <2>3, SetQueue DEF Typed
<1>6. ASSUME Len(g.irq_queue) < MAX_IRQ_QUEUE_LEN - 1
      PROVE  Typed(d) /\ Head(q.irq_queue) \in IRQS
  <2>1. Typed(q)
    BY <1>5, <1>6
  <2>2. /\ Head(q.irq_queue) \in IRQS /\ Tail(q.irq_queue) \in Seq(IRQS)
        /\ Len(Tail(q.irq_queue)) < MAX_IRQ_QUEUE_LEN
    BY <1>1, <1>4, QueueShift DEF Typed
  <2> HIDE DEF q
  <2>3. d = WithQueue(q, Tail(q.irq_queue))
    BY DEF vgic_irq_dequeue, WithQueue
  <2> HIDE DEF d
  <2> QED BY <2>1, <2>2, <2>3, SetQueue DEF Typed
<1>7. {"null_handle", "queue_full"} \subseteq Statuses
  BY DEF Statuses
<1> HIDE DEF p, q, d
<1> QED BY <1>2, <1>5, <1>6, <1>7, SetPendingCases, StopTyped, LoadTyped DEF p, q, d
(* The serial ack of odroidc2 passes a channel number as an IRQ number: it *)
(* is either an IRQ of the system or unregistered and dropped.             *)
LEMMA InjectChannel ==
    ASSUME NEW g
    PROVE  SERIAL_IRQ_CH \in IRQS \/ vgic_inject_irq(g, SERIAL_IRQ_CH) = g
<1> SUFFICES ASSUME SERIAL_IRQ_CH \notin IRQS
             PROVE  vgic_inject_irq(g, SERIAL_IRQ_CH) = g
  OBVIOUS
<1>1. virq_find_irq_data(SERIAL_IRQ_CH) = VIRQ_INVALID
  BY IrqAssumption DEF virq_find_irq_data, SERIAL_IRQ_CH, NUM_VCPU_LOCAL_VIRQS
<1>2. VIRQ_INVALID # NULL
  BY DEF VIRQ_INVALID, NULL
<1> QED BY <1>1, <1>2 DEF vgic_inject_irq, vgic_dist_set_pending_irq, Dropped

WithMasked(g, m) == [g EXCEPT !.masked = m]

(* An acknowledgement unmasks the line at most, or also injects. *)
LEMMA AckCases ==
    ASSUME NEW g, NEW irq
    PROVE  \/ virq_ack(g, irq) = g
           \/ virq_ack(g, irq) = WithMasked(g, g.masked \ {irq})
           \/ /\ SERIAL_IRQ_CH \in IRQS
              /\ virq_ack(g, irq) =
                    vgic_dist_set_pending_irq(WithMasked(g, g.masked \ {irq}), SERIAL_IRQ_CH)
<1>1. kernel_irq_ack(g, irq) = WithMasked(g, g.masked \ {irq})
  BY DEF kernel_irq_ack, WithMasked
<1>2. \/ serial_ack(g, irq) = g
      \/ serial_ack(g, irq) = WithMasked(g, g.masked \ {irq})
      \/ /\ SERIAL_IRQ_CH \in IRQS
         /\ serial_ack(g, irq) =
               vgic_dist_set_pending_irq(WithMasked(g, g.masked \ {irq}), SERIAL_IRQ_CH)
  BY <1>1, InjectChannel, BoardAssumption DEF serial_ack, vgic_inject_irq, Boards
<1> QED BY <1>1, <1>2 DEF virq_ack, sgi_ack, vppi_event_ack

LEMMA MaskedTyped ==
    ASSUME NEW g, Typed(g), NEW m \in SUBSET IRQS
    PROVE  /\ Typed(WithMasked(g, m))
           /\ LET r == WithMasked(g, m)
              IN  /\ r.irq_queue = g.irq_queue /\ r.pending = g.pending
                  /\ r.lr_shadow = g.lr_shadow /\ r.hw_lr = g.hw_lr
                  /\ r.ctlr = g.ctlr /\ r.enable = g.enable
                  /\ r.masked = m /\ r.status = g.status
BY DEF Typed, VgicStates, WithMasked

LEMMA AckTyped ==
    ASSUME NEW g, Typed(g), NEW irq
    PROVE  Typed(virq_ack(g, irq))
<1>1. g.masked \ {irq} \in SUBSET IRQS
  BY DEF Typed, VgicStates
<1>2. Typed(WithMasked(g, g.masked \ {irq}))
  BY <1>1, MaskedTyped
<1> QED BY <1>2, AckCases, SetPendingTyped

WithEnable(g, e) == [g EXCEPT !.enable = e]

LEMMA EnableTyped ==
    ASSUME NEW g, Typed(g), NEW e \in SUBSET IRQS
    PROVE  /\ Typed(WithEnable(g, e))
           /\ LET r == WithEnable(g, e)
              IN  /\ r.irq_queue = g.irq_queue /\ r.pending = g.pending
                  /\ r.lr_shadow = g.lr_shadow /\ r.hw_lr = g.hw_lr
                  /\ r.ctlr = g.ctlr /\ r.enable = e
                  /\ r.masked = g.masked /\ r.status = g.status
BY DEF Typed, VgicStates, WithEnable

(* Enabling and disabling, by what they do to the enable bits. *)
LEMMA EnableCases ==
    ASSUME NEW g, Typed(g), NEW irq \in IRQS
    PROVE  LET e == WithEnable(g, g.enable \cup {irq})
           IN  \/ /\ vgic_dist_enable_irq(g, irq) = e
                  /\ irq \notin Registered \/ irq \in g.pending
               \/ /\ vgic_dist_enable_irq(g, irq) = virq_ack(e, irq)
                  /\ irq \in Registered /\ irq \notin g.pending
<1> DEFINE e == set_enable(g, irq)
<1>1. e = WithEnable(g, g.enable \cup {irq})
  BY DEF set_enable, WithEnable
<1>2. e.pending = g.pending
  BY DEF Typed, VgicStates, set_enable
<1>3. virq_find_irq_data(irq) \in {NULL, VIRQ_INVALID} <=> irq \notin Registered
  BY IrqAssumption DEF virq_find_irq_data, NULL, VIRQ_INVALID
<1> HIDE DEF e
<1>4. vgic_dist_enable_irq(g, irq) =
          IF irq \notin Registered \/ irq \in g.pending THEN e ELSE virq_ack(e, irq)
  BY <1>2, <1>3 DEF vgic_dist_enable_irq, e
<1> QED BY <1>1, <1>4

LEMMA DisableCases ==
    ASSUME NEW g, NEW irq \in IRQS
    PROVE  \/ vgic_dist_disable_irq(g, irq) = g
           \/ vgic_dist_disable_irq(g, irq) = WithEnable(g, g.enable \ {irq})
BY DEF vgic_dist_disable_irq, unset_enable, WithEnable

LEMMA ClearTyped ==
    ASSUME NEW g, Typed(g), NEW irq
    PROVE  LET r == unset_pending(g, irq)
           IN  /\ Typed(r)
               /\ r.irq_queue = g.irq_queue /\ r.pending = g.pending \ {irq}
               /\ r.lr_shadow = g.lr_shadow /\ r.hw_lr = g.hw_lr
               /\ r.ctlr = g.ctlr /\ r.enable = g.enable
               /\ r.masked = g.masked /\ r.status = g.status
BY DEF Typed, VgicStates, unset_pending
Freed(g, idx) == [g EXCEPT !.lr_shadow[idx] = VIRQ_INVALID]

LEMMA FreedTyped ==
    ASSUME NEW g, Typed(g), NEW idx \in ListRegs
    PROVE  LET r == Freed(g, idx)
           IN  /\ Typed(r)
               /\ r.irq_queue = g.irq_queue /\ r.pending = g.pending
               /\ r.lr_shadow = [g.lr_shadow EXCEPT ![idx] = VIRQ_INVALID]
               /\ r.hw_lr = g.hw_lr
               /\ r.ctlr = g.ctlr /\ r.enable = g.enable
               /\ r.masked = g.masked /\ r.status = g.status
BY DEF Typed, VgicStates, Freed

(* The maintenance handler stops, or it ends with an empty queue after it  *)
(* freed the list register, cleared the flag and acknowledged the IRQ.     *)
LEMMA MaintenanceCases ==
    ASSUME NEW g, Typed(g), NEW idx \in ListRegs, NEW err
    PROVE  LET virq  == g.lr_shadow[idx]
               acked == virq_ack(unset_pending(Freed(g, idx), virq), virq)
               r     == handle_vgic_maintenance(g, idx, err)
           IN  /\ Typed(r)
               /\ \/ r.status # "ok"
                  \/ r = acked /\ acked.irq_queue = << >> /\ virq # VIRQ_INVALID
<1> DEFINE virq  == g.lr_shadow[idx]
           acked == virq_ack(unset_pending(Freed(g, idx), virq), virq)
           deq   == vgic_irq_dequeue(acked)
           load  == vgic_vcpu_load_list_reg(deq, idx, Head(acked.irq_queue))
           r     == handle_vgic_maintenance(g, idx, err)
<1>1. Typed(unset_pending(Freed(g, idx), virq))
  BY FreedTyped, ClearTyped
<1>2. Typed(acked)
  BY <1>1, AckTyped
<1>3. r = IF virq = VIRQ_INVALID THEN Stop(g, "spurious_maintenance")
          ELSE IF acked.status # "ok" THEN acked
          ELSE IF acked.irq_queue = << >>
          THEN IF err = 0 THEN acked ELSE Stop(acked, "unset_err")
          ELSE IF load.status # "ok" THEN load
          ELSE Stop(load, "maintenance_failed")
  BY DEF handle_vgic_maintenance, Freed
<1> HIDE DEF virq, acked, r
<1>4. ASSUME acked.irq_queue # << >> PROVE Typed(load)
  <2>1. acked.irq_queue \in Seq(IRQS) /\ Len(acked.irq_queue) < MAX_IRQ_QUEUE_LEN
    BY <1>2 DEF Typed, VgicStates
  <2>2. /\ Head(acked.irq_queue) \in IRQS /\ Tail(acked.irq_queue) \in Seq(IRQS)
        /\ Len(Tail(acked.irq_queue)) = Len(acked.irq_queue) - 1
    BY <1>4, <2>1
  <2>3. Len(Tail(acked.irq_queue)) < MAX_IRQ_QUEUE_LEN
    BY <2>1, <2>2, QueueAssumption
  <2>4. deq = WithQueue(acked, Tail(acked.irq_queue))
    BY DEF vgic_irq_dequeue, WithQueue
  <2> HIDE DEF deq
  <2>5. Typed(deq)
    BY <1>2, <2>2, <2>3, <2>4, SetQueue DEF Typed
  <2> QED BY <2>2, <2>5, LoadTyped
<1> HIDE DEF load
<1>5. /\ {"spurious_maintenance", "maintenance_failed", "unset_err"} \subseteq Statuses
      /\ "spurious_maintenance" # "ok" /\ "maintenance_failed" # "ok" /\ "unset_err" # "ok"
  BY DEF Statuses
<1>6. ASSUME NEW h, Typed(h), NEW why PROVE Stop(h, why).status = why
  BY <1>6 DEF Typed, VgicStates, Stop
<1>7. Typed(r)
  BY <1>2, <1>3, <1>4, <1>5, StopTyped
<1>8. \/ r.status # "ok"
      \/ r = acked /\ acked.irq_queue = << >> /\ virq # VIRQ_INVALID
  <2>1. ASSUME acked.irq_queue # << >>, load.status = "ok"
        PROVE  Stop(load, "maintenance_failed").status # "ok"
    BY <1>4, <1>5, <1>6, <2>1
  <2> QED BY <1>2, <1>3, <1>5, <1>6, <2>1
<1> QED BY <1>7, <1>8 DEF r, acked, virq
----------------------------------------------------------------------------
(* The variables other than the driver's record. *)
FaultTyped ==
    /\ fault \in [kind : FaultKinds, bits : SUBSET IRQS, arg : Int, mode : SgirModes]
    /\ fault.kind = "VGICMaintenance" => fault.arg \in ListRegs
    /\ fault.kind = "VPPIEvent" => fault.arg \in VppiLines
    /\ fault.kind = "SGIR" => fault.arg \in Sgis
    /\ vmm = "write" => fault.kind \in BitRegisters

LEMMA TypeParts ==
    TypeOK <=> /\ Typed(vgic)
               /\ vmm \in {"idle", "write"}
               /\ FaultTyped
               /\ notif \in SUBSET SpiLines
               /\ eisr \in SUBSET ListRegs
BY DEF TypeOK, Typed, FaultTyped

LEMMA TypePartsNext ==
    TypeOK' <=> /\ Typed(vgic')
                /\ vmm' \in {"idle", "write"}
                /\ FaultTyped'
                /\ notif' \in SUBSET SpiLines
                /\ eisr' \in SUBSET ListRegs
BY DEF TypeOK, Typed, FaultTyped

(* The sets the parameters of the actions range over. *)
LEMMA LineSets ==
    /\ VppiLines \subseteq IRQS /\ SpiLines \subseteq IRQS /\ Sgis \subseteq IRQS
    /\ IRQS \subseteq Int /\ ListRegs \subseteq Int
BY IrqAssumption, ListRegAssumption
   DEF VppiLines, SpiLines, Ppis, Spis, Sgis, ListRegs

LEMMA NoFaultKind == NoFault.kind = "none" /\ NoFault.bits = {}
BY DEF NoFault

(* A guest without a fault, or with one of the kinds it raises itself. *)
LEMMA NewFaultTyped ==
    ASSUME NEW kind \in FaultKinds, NEW bits \in SUBSET IRQS, NEW arg \in Int,
           NEW mode \in SgirModes,
           kind = "VGICMaintenance" => arg \in ListRegs,
           kind = "VPPIEvent" => arg \in VppiLines,
           kind = "SGIR" => arg \in Sgis,
           fault' = Fault(kind, bits, arg, mode),
           vmm' = "idle"
    PROVE  FaultTyped'
BY DEF FaultTyped, Fault

LEMMA NoFaultTyped ==
    ASSUME fault' = NoFault, vmm' = "idle"
    PROVE  FaultTyped'
BY DEF FaultTyped, NoFault, FaultKinds, SgirModes

(* In the initial state the driver is reset and the guest runs. *)
LEMMA InitTyped == Init => TypeOK
<1> SUFFICES ASSUME Init PROVE TypeOK
  OBVIOUS
<1> PICK fired \in SUBSET SpiLines :
        notif = fired /\ vgic = [vgic_init EXCEPT !.masked = fired]
  BY DEF Init
<1>1. Typed(vgic_init)
  BY QueueAssumption DEF Typed, VgicStates, vgic_init, vgic_dist_reset, Sgis, Statuses
<1>2. Typed(vgic)
  BY <1>1, LineSets, MaskedTyped DEF WithMasked
<1>3. FaultTyped
  BY DEF Init, FaultTyped, NoFault, FaultKinds, SgirModes
<1> QED BY <1>2, <1>3, TypeParts DEF Init
Emptied(g, idx) == [g EXCEPT !.hw_lr[idx] = VIRQ_INVALID]

LEMMA EmptiedTyped ==
    ASSUME NEW g, Typed(g), NEW idx \in ListRegs
    PROVE  LET r == Emptied(g, idx)
           IN  /\ Typed(r)
               /\ r.irq_queue = g.irq_queue /\ r.pending = g.pending
               /\ r.lr_shadow = g.lr_shadow
               /\ r.hw_lr = [g.hw_lr EXCEPT ![idx] = VIRQ_INVALID]
               /\ r.ctlr = g.ctlr /\ r.enable = g.enable
               /\ r.masked = g.masked /\ r.status = g.status
BY DEF Typed, VgicStates, Emptied

WithCtlr(g, c) == [g EXCEPT !.ctlr = c]

LEMMA CtlrTyped ==
    ASSUME NEW g, Typed(g), NEW c \in {0, CtlrOn}
    PROVE  LET r == WithCtlr(g, c)
           IN  /\ Typed(r)
               /\ r.irq_queue = g.irq_queue /\ r.pending = g.pending
               /\ r.lr_shadow = g.lr_shadow /\ r.hw_lr = g.hw_lr
               /\ r.ctlr = c /\ r.enable = g.enable
               /\ r.masked = g.masked /\ r.status = g.status
BY DEF Typed, VgicStates, WithCtlr

LEMMA VppiCases ==
    ASSUME NEW g, NEW irq
    PROVE  LET r == handle_vppi_event(g, irq)
               j == vgic_dist_set_pending_irq(g, irq)
           IN  \/ r = j /\ ~Dropped(g, irq)
               \/ r = WithMasked(j, j.masked \ {irq}) /\ Dropped(g, irq)
BY DEF handle_vppi_event, vgic_inject_irq, kernel_irq_ack, WithMasked

(* An answered fault leaves no fault, a handler that stopped leaves it. *)
LEMMA ReplyTyped ==
    ASSUME FaultTyped, Reply, vmm' = "idle", vmm = "idle"
    PROVE  FaultTyped'
BY NoFaultTyped DEF Reply, FaultTyped

(* One iteration of a register write's loop. *)
LEMMA BitTyped ==
    ASSUME FaultTyped, fault' = [fault EXCEPT !.bits = @ \ {Min(@)}], vmm' = vmm
    PROVE  /\ FaultTyped'
           /\ fault'.kind = fault.kind /\ fault'.arg = fault.arg
           /\ fault'.bits = fault.bits \ {Min(fault.bits)}
BY DEF FaultTyped

LEMMA BitIrq ==
    ASSUME FaultTyped, fault.bits # {}
    PROVE  Min(fault.bits) \in fault.bits /\ Min(fault.bits) \in IRQS
<1>1. fault.bits \in SUBSET IRQS /\ fault.bits \in SUBSET Nat
  BY IrqAssumption DEF FaultTyped
<1> QED BY <1>1, MinNat

(* Every step keeps the types: one case per action. *)
LEMMA NextTyped == TypeOK /\ [Next]_vars => TypeOK'
<1> SUFFICES ASSUME TypeOK, [Next]_vars PROVE TypeOK'
  OBVIOUS
<1> USE TypeParts, TypePartsNext
<1>1. ASSUME NEW reg \in BitRegisters, NEW D \in SUBSET IRQS, GuestWritesBits(reg, D)
      PROVE  TypeOK'
  <2>1. fault' = Fault(reg, D, 0, 0) /\ UNCHANGED <<vgic, vmm, notif, eisr>>
    BY <1>1 DEF GuestWritesBits
  <2>2. fault = NoFault
    BY <1>1 DEF GuestWritesBits, GuestRuns
  <2>3. vmm = "idle"
    BY <2>2, NoFaultKind
       DEF FaultTyped, BitRegisters, DistBitRegisters, RedistBitRegisters
  <2>4. FaultTyped'
    <3>1. reg \in FaultKinds /\ 0 \in SgirModes
      BY DEF FaultKinds, SgirModes
    <3>2. reg \notin {"VGICMaintenance", "VPPIEvent", "SGIR"}
      BY DEF BitRegisters, DistBitRegisters, RedistBitRegisters
    <3> QED BY <2>1, <2>3, <3>1, <3>2, NewFaultTyped
  <2> QED BY <2>1, <2>4 DEF Typed
<1>2. ASSUME NEW data \in CtlrData, GuestWritesCtlr(data) PROVE TypeOK'
  <2>1. fault' = Fault("CTLR", {}, data, 0) /\ UNCHANGED <<vgic, vmm, notif, eisr>>
    BY <1>2 DEF GuestWritesCtlr
  <2>2. vmm = "idle"
    BY <1>2, NoFaultKind DEF GuestWritesCtlr, GuestRuns, FaultTyped, BitRegisters,
                        DistBitRegisters, RedistBitRegisters
  <2>3. "CTLR" \in FaultKinds /\ 0 \in SgirModes /\ data \in Int
    BY DEF FaultKinds, SgirModes, CtlrData, GIC_ENABLED, GIC_500_GRP0, GIC_500_GRP1_NS,
           GIC_500_ARE_S
  <2>4. FaultTyped'
    BY <2>1, <2>2, <2>3, NewFaultTyped
  <2> QED BY <2>1, <2>4 DEF Typed
<1>3. ASSUME NEW sgi \in Sgis, NEW mode \in SgirModes, GuestWritesSgir(sgi, mode)
      PROVE  TypeOK'
  <2>1. fault' = Fault("SGIR", {}, sgi, mode) /\ UNCHANGED <<vgic, vmm, notif, eisr>>
    BY <1>3 DEF GuestWritesSgir
  <2>2. vmm = "idle"
    BY <1>3, NoFaultKind DEF GuestWritesSgir, GuestRuns, FaultTyped, BitRegisters,
                        DistBitRegisters, RedistBitRegisters
  <2>3. "SGIR" \in FaultKinds /\ sgi \in Int
    BY LineSets DEF FaultKinds
  <2>4. FaultTyped'
    BY <2>1, <2>2, <2>3, NewFaultTyped
  <2> QED BY <2>1, <2>4 DEF Typed
<1>4. ASSUME GuestWritesCpendsgir PROVE TypeOK'
  <2>1. fault' = Fault("CPENDSGIR", {}, 0, 0) /\ UNCHANGED <<vgic, vmm, notif, eisr>>
    BY <1>4 DEF GuestWritesCpendsgir
  <2>2. vmm = "idle"
    BY <1>4, NoFaultKind DEF GuestWritesCpendsgir, GuestRuns, FaultTyped, BitRegisters,
                        DistBitRegisters, RedistBitRegisters
  <2>3. "CPENDSGIR" \in FaultKinds /\ 0 \in SgirModes
    BY DEF FaultKinds, SgirModes
  <2>4. FaultTyped'
    BY <2>1, <2>2, <2>3, NewFaultTyped
  <2> QED BY <2>1, <2>4 DEF Typed
<1>5. ASSUME GuestAccessesOther PROVE TypeOK'
  <2>1. fault' = Fault("other", {}, 0, 0) /\ UNCHANGED <<vgic, vmm, notif, eisr>>
    BY <1>5 DEF GuestAccessesOther
  <2>2. vmm = "idle"
    BY <1>5, NoFaultKind DEF GuestAccessesOther, GuestRuns, FaultTyped, BitRegisters,
                        DistBitRegisters, RedistBitRegisters
  <2>3. "other" \in FaultKinds /\ 0 \in SgirModes
    BY DEF FaultKinds, SgirModes
  <2>4. FaultTyped'
    BY <2>1, <2>2, <2>3, NewFaultTyped
  <2> QED BY <2>1, <2>4 DEF Typed
<1>6. ASSUME NEW idx \in ListRegs, GuestEOI(idx) PROVE TypeOK'
  <2>1. vgic' = Emptied(vgic, idx) /\ eisr' = eisr \cup {idx}
    BY <1>6 DEF GuestEOI, Emptied
  <2>2. Typed(vgic')
    BY <2>1, EmptiedTyped
  <2>3. FaultTyped'
    BY <1>6 DEF GuestEOI, FaultTyped
  <2> QED BY <1>6, <2>1, <2>2, <2>3 DEF GuestEOI
<1>7. ASSUME NEW idx \in ListRegs, MaintenanceIrq(idx) PROVE TypeOK'
  <2>1. /\ fault' = Fault("VGICMaintenance", {}, idx, 0) /\ eisr' = eisr \ {idx}
        /\ UNCHANGED <<vgic, vmm, notif>>
    BY <1>7 DEF MaintenanceIrq
  <2>2. vmm = "idle"
    BY <1>7, NoFaultKind DEF MaintenanceIrq, GuestRuns, FaultTyped, BitRegisters,
                        DistBitRegisters, RedistBitRegisters
  <2>3. "VGICMaintenance" \in FaultKinds /\ 0 \in SgirModes /\ idx \in Int
    BY LineSets DEF FaultKinds, SgirModes
  <2>4. FaultTyped'
    BY <2>1, <2>2, <2>3, NewFaultTyped
  <2> QED BY <2>1, <2>4 DEF Typed
<1>8. ASSUME NEW irq \in VppiLines, VppiFires(irq) PROVE TypeOK'
  <2>1. /\ fault' = Fault("VPPIEvent", {}, irq, 0)
        /\ vgic' = WithMasked(vgic, vgic.masked \cup {irq})
        /\ UNCHANGED <<vmm, notif, eisr>>
    BY <1>8 DEF VppiFires, WithMasked
  <2>2. vmm = "idle"
    BY <1>8, NoFaultKind DEF VppiFires, GuestRuns, FaultTyped, BitRegisters,
                        DistBitRegisters, RedistBitRegisters
  <2>3. "VPPIEvent" \in FaultKinds /\ 0 \in SgirModes /\ irq \in Int
    BY LineSets DEF FaultKinds, SgirModes
  <2>4. FaultTyped'
    BY <2>1, <2>2, <2>3, NewFaultTyped
  <2>5. vgic.masked \cup {irq} \in SUBSET IRQS
    BY LineSets DEF Typed, VgicStates
  <2>6. Typed(vgic')
    BY <2>1, <2>5, MaskedTyped
  <2> QED BY <2>1, <2>4, <2>6
<1>9. ASSUME NEW irq \in SpiLines, DeviceFires(irq) PROVE TypeOK'
  <2>1. vgic' = WithMasked(vgic, vgic.masked \cup {irq}) /\ notif' = notif \cup {irq}
    BY <1>9 DEF DeviceFires, WithMasked
  <2>2. vgic.masked \cup {irq} \in SUBSET IRQS
    BY LineSets DEF Typed, VgicStates
  <2>3. Typed(vgic')
    BY <2>1, <2>2, MaskedTyped
  <2>4. FaultTyped'
    BY <1>9 DEF DeviceFires, FaultTyped
  <2> QED BY <1>9, <2>1, <2>3, <2>4 DEF DeviceFires
<1>10. ASSUME NEW irq \in SpiLines, Notified(irq) PROVE TypeOK'
  <2>1. vgic' = vgic_dist_set_pending_irq(vgic, irq) /\ notif' = notif \ {irq}
    BY <1>10 DEF Notified, vgic_inject_irq
  <2>2. Typed(vgic')
    BY <2>1, SetPendingTyped, LineSets
  <2>3. FaultTyped'
    BY <1>10 DEF Notified, FaultTyped
  <2> QED BY <1>10, <2>1, <2>2, <2>3 DEF Notified
<1>11. ASSUME HandleVppiEvent PROVE TypeOK'
  <2>1. /\ fault.arg \in IRQS
        /\ vgic' = handle_vppi_event(vgic, fault.arg) /\ Reply
        /\ vmm = "idle" /\ UNCHANGED <<vmm, notif, eisr>>
    BY <1>11, LineSets DEF HandleVppiEvent, VmmReady, FaultTyped
  <2>2. Typed(vgic_dist_set_pending_irq(vgic, fault.arg))
    BY <2>1, SetPendingTyped
  <2>3. vgic_dist_set_pending_irq(vgic, fault.arg).masked \ {fault.arg} \in SUBSET IRQS
    BY <2>2 DEF Typed, VgicStates
  <2>4. Typed(vgic')
    <3> DEFINE j == vgic_dist_set_pending_irq(vgic, fault.arg)
    <3>1. Typed(WithMasked(j, j.masked \ {fault.arg}))
      BY <2>2, <2>3, MaskedTyped
    <3> QED BY <2>1, <2>2, <3>1, VppiCases
  <2> QED BY <2>1, <2>4, ReplyTyped
<1>12. ASSUME HandleVgicMaintenance PROVE TypeOK'
  <2>1. /\ fault.arg \in ListRegs /\ Reply
        /\ vmm = "idle" /\ UNCHANGED <<vmm, notif, eisr>>
    BY <1>12 DEF HandleVgicMaintenance, VmmReady, FaultTyped
  <2>2. PICK err \in UninitErr : vgic' = handle_vgic_maintenance(vgic, fault.arg, err)
    BY <1>12 DEF HandleVgicMaintenance
  <2>3. Typed(vgic')
    BY <2>1, <2>2, MaintenanceCases
  <2> QED BY <2>1, <2>3, ReplyTyped
<1>13. ASSUME HandleCtlrWrite PROVE TypeOK'
  <2>1. /\ vgic' = vgic_dist_ctlr_write(vgic, fault.arg) /\ Reply
        /\ vmm = "idle" /\ UNCHANGED <<vmm, notif, eisr>>
    BY <1>13 DEF HandleCtlrWrite, VmmReady
  <2>2. vgic' = vgic \/ \E c \in {0, CtlrOn} : vgic' = WithCtlr(vgic, c)
    BY <2>1 DEF vgic_dist_ctlr_write, vgic_dist_enable, vgic_dist_disable, WithCtlr
  <2>3. Typed(vgic')
    BY <2>2, CtlrTyped
  <2> QED BY <2>1, <2>3, ReplyTyped
<1>14. ASSUME HandleSgirWrite PROVE TypeOK'
  <2>1. /\ fault.arg \in IRQS
        /\ vgic' = vgic_dist_sgir_write(vgic, fault.arg, fault.mode) /\ Reply
        /\ vmm = "idle" /\ UNCHANGED <<vmm, notif, eisr>>
    BY <1>14, LineSets DEF HandleSgirWrite, VmmReady, FaultTyped
  <2>2. vgic' = vgic \/ vgic' = vgic_dist_set_pending_irq(vgic, fault.arg)
    BY <2>1 DEF vgic_dist_sgir_write, vgic_inject_irq
  <2>3. Typed(vgic')
    BY <2>1, <2>2, SetPendingTyped
  <2> QED BY <2>1, <2>3, ReplyTyped
<1>15. ASSUME HandleCpendsgirWrite PROVE TypeOK'
  <2>1. /\ vgic' = Stop(vgic, "unimplemented") /\ Reply
        /\ vmm = "idle" /\ UNCHANGED <<vmm, notif, eisr>>
    BY <1>15 DEF HandleCpendsgirWrite, VmmReady
  <2>2. "unimplemented" \in Statuses
    BY DEF Statuses
  <2>3. Typed(vgic')
    BY <2>1, <2>2, StopTyped
  <2> QED BY <2>1, <2>3, ReplyTyped
<1>16. ASSUME HandleOther PROVE TypeOK'
  <2>1. fault' = NoFault /\ vmm = "idle" /\ UNCHANGED <<vgic, vmm, notif, eisr>>
    BY <1>16 DEF HandleOther, VmmReady
  <2> QED BY <2>1, NoFaultTyped DEF Typed
<1>17. ASSUME BeginBitWrite PROVE TypeOK'
  BY <1>17 DEF BeginBitWrite, FaultTyped, Typed
<1>18. ASSUME WriteIsenabler \/ WriteGicrIsenabler0 PROVE TypeOK'
  <2>1. /\ fault.bits # {} /\ vgic' = vgic_dist_enable_irq(vgic, Min(fault.bits))
        /\ fault' = [fault EXCEPT !.bits = @ \ {Min(@)}] /\ UNCHANGED <<vmm, notif, eisr>>
    BY <1>18 DEF WriteIsenabler, WriteGicrIsenabler0, BitStep
  <2>2. Min(fault.bits) \in IRQS
    BY <2>1, BitIrq
  <2>3. vgic.enable \cup {Min(fault.bits)} \in SUBSET IRQS
    BY <2>2 DEF Typed, VgicStates
  <2>4. Typed(vgic')
    <3>1. Typed(WithEnable(vgic, vgic.enable \cup {Min(fault.bits)}))
      BY <2>3, EnableTyped
    <3> QED BY <2>1, <2>2, <3>1, EnableCases, AckTyped
  <2> QED BY <2>1, <2>4, BitTyped
<1>19. ASSUME WriteIcenabler \/ WriteGicrIcenabler0 PROVE TypeOK'
  <2>1. /\ fault.bits # {}
        /\ \/ vgic' = vgic_dist_disable_irq(vgic, Min(fault.bits))
           \/ vgic' = WithEnable(vgic, vgic.enable \ {Min(fault.bits)})
        /\ fault' = [fault EXCEPT !.bits = @ \ {Min(@)}] /\ UNCHANGED <<vmm, notif, eisr>>
    BY <1>19 DEF WriteIcenabler, WriteGicrIcenabler0, BitStep, unset_enable, WithEnable
  <2>2. Min(fault.bits) \in IRQS
    BY <2>1, BitIrq
  <2>3. vgic.enable \ {Min(fault.bits)} \in SUBSET IRQS
    BY DEF Typed, VgicStates
  <2>4. Typed(vgic')
    <3>1. Typed(WithEnable(vgic, vgic.enable \ {Min(fault.bits)}))
      BY <2>3, EnableTyped
    <3> QED BY <2>1, <2>2, <3>1, DisableCases
  <2> QED BY <2>1, <2>4, BitTyped
<1>20. ASSUME WriteIspendr PROVE TypeOK'
  <2>1. /\ fault.bits # {} /\ vgic' = vgic_dist_set_pending_irq(vgic, Min(fault.bits))
        /\ fault' = [fault EXCEPT !.bits = @ \ {Min(@)}] /\ UNCHANGED <<vmm, notif, eisr>>
    BY <1>20 DEF WriteIspendr, BitStep
  <2> QED BY <2>1, BitIrq, SetPendingTyped, BitTyped
<1>21. ASSUME WriteIcpendr PROVE TypeOK'
  <2>1. /\ fault.bits # {} /\ vgic' = unset_pending(vgic, Min(fault.bits))
        /\ fault' = [fault EXCEPT !.bits = @ \ {Min(@)}] /\ UNCHANGED <<vmm, notif, eisr>>
    BY <1>21 DEF WriteIcpendr, BitStep, vgic_dist_clr_pending_irq
  <2> QED BY <2>1, ClearTyped, BitTyped
<1>22. ASSUME EndBitWrite PROVE TypeOK'
  <2>1. fault' = NoFault /\ vmm' = "idle" /\ UNCHANGED <<vgic, notif, eisr>>
    BY <1>22 DEF EndBitWrite
  <2> QED BY <2>1, NoFaultTyped DEF Typed
<1>23. ASSUME UNCHANGED vars PROVE TypeOK'
  BY <1>23 DEF vars, FaultTyped, Typed
<1> QED
  BY <1>1, <1>2, <1>3, <1>4, <1>5, <1>6, <1>7, <1>8, <1>9, <1>10, <1>11, <1>12,
     <1>13, <1>14, <1>15, <1>16, <1>17, <1>18, <1>19, <1>20, <1>21, <1>22, <1>23
     DEF Next, GuestStep, KernelStep, FaultStep, Spin

(* Type correctness: the driver's tables, the list register indices of     *)
(* faults and the queue bound hold in every reachable state.               *)
THEOREM TypeCorrect == Spec => []TypeOK
BY InitTyped, NextTyped, PTL DEF Spec
=============================================================================
