-------------------------- MODULE VgicSafetyProofs --------------------------
(***************************************************************************)
(* The invariants that tie the pending flags, the shadow, the hardware     *)
(* list registers and the queue together hold for every guest, board and   *)
(* size of the tables.                                                     *)
(***************************************************************************)
EXTENDS VgicProofs

(* Every pending IRQ is in flight. *)
Flags(g) == \A irq \in g.pending : InFlight(g, irq)

(* No IRQ is queued while a list register is empty. *)
Drained(g) == g.irq_queue # << >> => EmptyListRegs(g) = {}

----------------------------------------------------------------------------
WithPending(g, s) == [g EXCEPT !.pending = s]
Loaded(g, idx, virq) == [g EXCEPT !.hw_lr[idx] = virq, !.lr_shadow[idx] = virq]

LEMMA PendingFields ==
    ASSUME NEW g \in VgicStates, NEW s \in SUBSET IRQS
    PROVE  LET r == WithPending(g, s)
           IN  /\ r \in VgicStates
               /\ r.irq_queue = g.irq_queue /\ r.pending = s
               /\ r.lr_shadow = g.lr_shadow /\ r.hw_lr = g.hw_lr
               /\ r.ctlr = g.ctlr /\ r.enable = g.enable
               /\ r.masked = g.masked /\ r.status = g.status
BY DEF VgicStates, WithPending

LEMMA LoadedFields ==
    ASSUME NEW g \in VgicStates, NEW idx \in ListRegs, NEW virq \in IRQS
    PROVE  LET r == Loaded(g, idx, virq)
           IN  /\ r.irq_queue = g.irq_queue /\ r.pending = g.pending
               /\ r.lr_shadow = [g.lr_shadow EXCEPT ![idx] = virq]
               /\ r.hw_lr = [g.hw_lr EXCEPT ![idx] = virq]
               /\ r.ctlr = g.ctlr /\ r.enable = g.enable
               /\ r.masked = g.masked /\ r.status = g.status
BY DEF VgicStates, Loaded

LEMMA StopFields ==
    ASSUME NEW g \in VgicStates, NEW why
    PROVE  Stop(g, why).status = why
BY DEF VgicStates, Stop

(* What vgic_dist_set_pending_irq turns g into when it does not stop: the  *)
(* IRQ is dropped or already pending, or it becomes pending and is queued  *)
(* behind full list registers, or the head of the queue is loaded into a   *)
(* list register that is empty.                                            *)
Injected(g, irq, r, C) ==
    \/ r = g /\ (Dropped(g, irq) \/ irq \in g.pending)
    \/ /\ ~Dropped(g, irq) /\ irq \notin g.pending
       /\ r.pending = g.pending \cup {irq}
       /\ r.ctlr = g.ctlr /\ r.enable = g.enable
       /\ r.masked = g.masked /\ r.status = g.status
       /\ \/ /\ EmptyListRegs(g) = {}
             /\ r.irq_queue = Append(g.irq_queue, irq)
             /\ r.lr_shadow = g.lr_shadow /\ r.hw_lr = g.hw_lr
          \/ \E idx \in ListRegs :
                /\ g.lr_shadow[idx] = VIRQ_INVALID
                /\ idx \notin C
                /\ r.irq_queue = Tail(Append(g.irq_queue, irq))
                /\ r.lr_shadow = [g.lr_shadow EXCEPT ![idx] = Head(Append(g.irq_queue, irq))]
                /\ r.hw_lr = [g.hw_lr EXCEPT ![idx] = Head(Append(g.irq_queue, irq))]

(* The list register it loads is empty in hardware too because the shadow  *)
(* mirrors it.                                                             *)
LEMMA SetPendingEffect ==
    ASSUME NEW g, Typed(g), NEW C, Mirrors(g, C), NEW irq \in IRQS,
           vgic_dist_set_pending_irq(g, irq).status = "ok"
    PROVE  Injected(g, irq, vgic_dist_set_pending_irq(g, irq), C)
<1> DEFINE r == vgic_dist_set_pending_irq(g, irq)
           a == Append(g.irq_queue, irq)
           p == set_pending(g, irq)
           q == vgic_irq_enqueue(p, irq)
           d == vgic_irq_dequeue(q)
<1>1. g \in VgicStates /\ g.irq_queue \in Seq(IRQS) /\ g.pending \cup {irq} \in SUBSET IRQS
  BY DEF Typed, VgicStates
<1>2. a \in Seq(IRQS) /\ Head(a) \in IRQS /\ Tail(a) \in Seq(IRQS)
  BY <1>1, QueueShift
<1> HIDE DEF a
<1>3. /\ p \in VgicStates
      /\ p.irq_queue = g.irq_queue /\ p.pending = g.pending \cup {irq}
      /\ p.lr_shadow = g.lr_shadow /\ p.hw_lr = g.hw_lr
      /\ p.ctlr = g.ctlr /\ p.enable = g.enable
      /\ p.masked = g.masked /\ p.status = g.status
  <2>1. p = WithPending(g, g.pending \cup {irq})
    BY DEF set_pending, WithPending
  <2> QED BY <1>1, <2>1, PendingFields
<1>4. /\ q \in VgicStates
      /\ q.irq_queue = a /\ q.pending = g.pending \cup {irq}
      /\ q.lr_shadow = g.lr_shadow /\ q.hw_lr = g.hw_lr
      /\ q.ctlr = g.ctlr /\ q.enable = g.enable
      /\ q.masked = g.masked /\ q.status = g.status
  <2>1. q = WithQueue(p, a)
    BY <1>3 DEF vgic_irq_enqueue, WithQueue, a
  <2> HIDE DEF p, q
  <2> QED BY <1>2, <1>3, <2>1, SetQueue
<1>5. /\ d \in VgicStates
      /\ d.irq_queue = Tail(a) /\ d.pending = g.pending \cup {irq}
      /\ d.lr_shadow = g.lr_shadow /\ d.hw_lr = g.hw_lr
      /\ d.ctlr = g.ctlr /\ d.enable = g.enable
      /\ d.masked = g.masked /\ d.status = g.status
  <2>1. d = WithQueue(q, Tail(a))
    BY <1>4 DEF vgic_irq_dequeue, WithQueue
  <2> HIDE DEF q, d
  <2> QED BY <1>2, <1>4, <2>1, SetQueue
<1>6. \/ r = Stop(g, "null_handle")
      \/ r = g /\ (Dropped(g, irq) \/ irq \in g.pending)
      \/ r = Stop(p, "queue_full")
      \/ /\ ~Dropped(g, irq) /\ irq \notin g.pending
         /\ EmptyListRegs(g) = {}
         /\ r = q
      \/ /\ ~Dropped(g, irq) /\ irq \notin g.pending
         /\ \E idx \in ListRegs :
               /\ g.lr_shadow[idx] = VIRQ_INVALID
               /\ r = vgic_vcpu_load_list_reg(d, idx, Head(q.irq_queue))
  BY SetPendingCases
<1> HIDE DEF p, q, d, r
<1>7. CASE r = Stop(g, "null_handle") \/ r = Stop(p, "queue_full")
  <2>1. r.status # "ok"
    BY <1>1, <1>3, <1>7, StopFields
  <2> QED BY <2>1 DEF r
<1>8. CASE r = g /\ (Dropped(g, irq) \/ irq \in g.pending)
  BY <1>8 DEF r, Injected
<1>9. CASE ~Dropped(g, irq) /\ irq \notin g.pending /\ EmptyListRegs(g) = {} /\ r = q
  BY <1>4, <1>9 DEF r, a, Injected
<1>10. CASE /\ ~Dropped(g, irq) /\ irq \notin g.pending
            /\ \E idx \in ListRegs :
                  /\ g.lr_shadow[idx] = VIRQ_INVALID
                  /\ r = vgic_vcpu_load_list_reg(d, idx, Head(q.irq_queue))
  <2> PICK idx \in ListRegs :
          /\ g.lr_shadow[idx] = VIRQ_INVALID
          /\ r = vgic_vcpu_load_list_reg(d, idx, Head(q.irq_queue))
    BY <1>10
  <2>1. g.hw_lr[idx] = VIRQ_INVALID /\ idx \notin C
    BY DEF Mirrors
  <2>2. r = Loaded(d, idx, Head(a))
    BY <1>4, <1>5, <2>1 DEF vgic_vcpu_load_list_reg, Loaded
  <2>3. /\ r.irq_queue = Tail(a) /\ r.pending = g.pending \cup {irq}
        /\ r.lr_shadow = [g.lr_shadow EXCEPT ![idx] = Head(a)]
        /\ r.hw_lr = [g.hw_lr EXCEPT ![idx] = Head(a)]
        /\ r.ctlr = g.ctlr /\ r.enable = g.enable
        /\ r.masked = g.masked /\ r.status = g.status
    BY <1>2, <1>5, <2>2, LoadedFields
  <2> QED BY <1>10, <2>1, <2>3 DEF r, a, Injected
<1> QED BY <1>6, <1>7, <1>8, <1>9, <1>10
----------------------------------------------------------------------------
(* An IRQ number is never the mark of an empty list register. *)
LEMMA IrqValid == \A irq \in IRQS : irq # VIRQ_INVALID
BY IrqAssumption DEF VIRQ_INVALID

(* An IRQ in flight stays in flight when another one is injected, and the  *)
(* injected one is in flight unless it was dropped or already pending.     *)
LEMMA SetPendingInFlight ==
    ASSUME NEW g, Typed(g), NEW C, Mirrors(g, C), NEW irq \in IRQS,
           vgic_dist_set_pending_irq(g, irq).status = "ok"
    PROVE  LET r == vgic_dist_set_pending_irq(g, irq)
           IN  /\ \A j \in IRQS : InFlight(g, j) => InFlight(r, j)
               /\ Dropped(g, irq) \/ irq \in g.pending \/ InFlight(r, irq)
<1> DEFINE r == vgic_dist_set_pending_irq(g, irq)
           s == g.irq_queue
           a == Append(s, irq)
<1> SUFFICES /\ \A j \in IRQS : InFlight(g, j) => InFlight(r, j)
             /\ Dropped(g, irq) \/ irq \in g.pending \/ InFlight(r, irq)
  OBVIOUS
<1>0. Injected(g, irq, r, C)
  BY SetPendingEffect
<1>1. s \in Seq(IRQS) /\ Len(s) \in Nat /\ g.lr_shadow \in [ListRegs -> IRQS \cup {VIRQ_INVALID}]
  BY DEF Typed, VgicStates
<1>2. /\ DOMAIN s = 1 .. Len(s) /\ DOMAIN a = 1 .. Len(s) + 1
      /\ DOMAIN Tail(a) = 1 .. Len(s)
      /\ Head(a) = a[1]
      /\ \A k \in 1 .. Len(s) : a[k] = s[k] /\ Tail(a)[k] = a[k + 1]
      /\ a[Len(s) + 1] = irq
  BY <1>1, QueueShift
<1>3. \A j : InQueue(g, j) \/ j = irq => \E k \in 1 .. Len(s) + 1 : a[k] = j
  <2>1. Len(s) + 1 \in 1 .. Len(s) + 1 /\ \A k \in 1 .. Len(s) : k \in 1 .. Len(s) + 1
    BY <1>1
  <2> HIDE DEF a
  <2> QED BY <1>2, <2>1 DEF InQueue
<1> HIDE DEF a, r
<1>4. CASE r = g /\ (Dropped(g, irq) \/ irq \in g.pending)
  BY <1>4
<1>5. CASE r.irq_queue = a /\ r.lr_shadow = g.lr_shadow
  <2>1. \A j : (\E k \in 1 .. Len(s) + 1 : a[k] = j) => InQueue(r, j)
    BY <1>2, <1>5 DEF InQueue
  <2>2. \A j : InListReg(g, j) => InListReg(r, j)
    BY <1>5 DEF InListReg
  <2> QED BY <1>3, <2>1, <2>2 DEF InFlight
<1>6. CASE \E idx \in ListRegs :
              /\ g.lr_shadow[idx] = VIRQ_INVALID
              /\ r.irq_queue = Tail(a)
              /\ r.lr_shadow = [g.lr_shadow EXCEPT ![idx] = Head(a)]
  <2> PICK idx \in ListRegs :
          /\ g.lr_shadow[idx] = VIRQ_INVALID
          /\ r.irq_queue = Tail(a)
          /\ r.lr_shadow = [g.lr_shadow EXCEPT ![idx] = Head(a)]
    BY <1>6
  <2>1. \A j \in IRQS : InListReg(g, j) => InListReg(r, j)
    BY <1>1, IrqValid DEF InListReg
  <2>2. InListReg(r, a[1])
    BY <1>1, <1>2 DEF InListReg
  <2>3. ASSUME NEW k \in 1 .. Len(s) + 1, k # 1 PROVE InQueue(r, a[k])
    <3>1. k - 1 \in 1 .. Len(s) /\ (k - 1) + 1 = k
      BY <1>1, <2>3
    <3>2. Tail(a)[k - 1] = a[(k - 1) + 1]
      BY <1>2, <3>1
    <3>3. r.irq_queue[k - 1] = a[k] /\ k - 1 \in DOMAIN r.irq_queue
      BY <1>2, <3>1, <3>2
    <3> QED BY <3>3 DEF InQueue
  <2>4. \A j : (\E k \in 1 .. Len(s) + 1 : a[k] = j) => InFlight(r, j)
    BY <2>2, <2>3 DEF InFlight
  <2>5. \A j \in IRQS : InFlight(g, j) => InFlight(r, j)
    BY <1>3, <2>1, <2>4 DEF InFlight
  <2> QED BY <1>3, <2>4, <2>5
<1> QED BY <1>0, <1>4, <1>5, <1>6 DEF Injected, a

(* Injecting an IRQ keeps the flags, the mirror and the drained queue. *)
LEMMA SetPendingGood ==
    ASSUME NEW g, Typed(g), NEW C, Mirrors(g, C), Flags(g), NEW irq \in IRQS,
           vgic_dist_set_pending_irq(g, irq).status = "ok"
    PROVE  LET r == vgic_dist_set_pending_irq(g, irq)
           IN  Flags(r) /\ Mirrors(r, C) /\ (Drained(g) => Drained(r))
<1> DEFINE r == vgic_dist_set_pending_irq(g, irq)
           s == g.irq_queue
           a == Append(s, irq)
<1> SUFFICES Flags(r) /\ Mirrors(r, C) /\ (Drained(g) => Drained(r))
  OBVIOUS
<1>0. Injected(g, irq, r, C)
  BY SetPendingEffect
<1>1. /\ s \in Seq(IRQS) /\ Len(s) \in Nat /\ g.pending \subseteq IRQS
      /\ g.lr_shadow \in [ListRegs -> IRQS \cup {VIRQ_INVALID}]
      /\ g.hw_lr \in [ListRegs -> IRQS \cup {VIRQ_INVALID}]
  BY DEF Typed, VgicStates
<1>2. Head(a) \in IRQS /\ Tail(a) \in Seq(IRQS) /\ Len(Tail(a)) = Len(s)
  BY <1>1, QueueShift
<1>3. /\ \A j \in IRQS : InFlight(g, j) => InFlight(r, j)
      /\ Dropped(g, irq) \/ irq \in g.pending \/ InFlight(r, irq)
  BY SetPendingInFlight
<1> HIDE DEF a, r
<1>4. CASE r = g
  BY <1>4
<1>5. ASSUME r.pending = g.pending \cup {irq}, ~Dropped(g, irq), irq \notin g.pending
      PROVE  Flags(r)
  BY <1>1, <1>3, <1>5 DEF Flags
<1>6. CASE /\ ~Dropped(g, irq) /\ irq \notin g.pending
           /\ r.pending = g.pending \cup {irq}
           /\ EmptyListRegs(g) = {}
           /\ r.lr_shadow = g.lr_shadow /\ r.hw_lr = g.hw_lr
  <2>1. Mirrors(r, C)
    BY <1>6 DEF Mirrors
  <2>2. Drained(r)
    BY <1>6 DEF Drained, EmptyListRegs
  <2> QED BY <1>5, <1>6, <2>1, <2>2
<1>7. CASE /\ ~Dropped(g, irq) /\ irq \notin g.pending
           /\ r.pending = g.pending \cup {irq}
           /\ \E idx \in ListRegs :
                 /\ g.lr_shadow[idx] = VIRQ_INVALID
                 /\ idx \notin C
                 /\ r.irq_queue = Tail(a)
                 /\ r.lr_shadow = [g.lr_shadow EXCEPT ![idx] = Head(a)]
                 /\ r.hw_lr = [g.hw_lr EXCEPT ![idx] = Head(a)]
  <2> PICK idx \in ListRegs :
          /\ g.lr_shadow[idx] = VIRQ_INVALID
          /\ idx \notin C
          /\ r.irq_queue = Tail(a)
          /\ r.lr_shadow = [g.lr_shadow EXCEPT ![idx] = Head(a)]
          /\ r.hw_lr = [g.hw_lr EXCEPT ![idx] = Head(a)]
    BY <1>7
  <2>1. Mirrors(r, C)
    BY <1>1 DEF Mirrors
  <2>2. Drained(g) => Drained(r)
    <3> SUFFICES ASSUME Drained(g) PROVE Drained(r)
      OBVIOUS
    <3>1. idx \in EmptyListRegs(g)
      BY DEF EmptyListRegs
    <3>2. s = << >>
      BY <3>1 DEF Drained
    <3>3. Len(Tail(a)) = 0
      BY <1>2, <3>2
    <3>4. r.irq_queue = << >>
      BY <1>2, <3>3
    <3> QED BY <3>4 DEF Drained
  <2> QED BY <1>5, <1>7, <2>1, <2>2
<1> QED BY <1>0, <1>4, <1>6, <1>7 DEF Injected, a
(* The three facts depend on the flags, the list registers and the queue   *)
(* only, and clearing flags does not hurt them.                            *)
LEMMA SameTables ==
    ASSUME NEW g, NEW r, NEW C,
           r.pending \subseteq g.pending, r.irq_queue = g.irq_queue,
           r.lr_shadow = g.lr_shadow, r.hw_lr = g.hw_lr
    PROVE  /\ \A j : InFlight(g, j) <=> InFlight(r, j)
           /\ Flags(g) => Flags(r)
           /\ Mirrors(g, C) => Mirrors(r, C)
           /\ Drained(g) => Drained(r)
<1>1. \A j : InFlight(g, j) <=> InFlight(r, j)
  BY DEF InFlight, InListReg, InQueue
<1>2. Flags(g) => Flags(r)
  BY <1>1 DEF Flags
<1>3. Mirrors(g, C) => Mirrors(r, C)
  BY DEF Mirrors
<1>4. Drained(g) => Drained(r)
  BY DEF Drained, EmptyListRegs
<1> QED BY <1>1, <1>2, <1>3, <1>4

(* An acknowledgement keeps all three, on odroidc2 too, where it injects.  *)
LEMMA AckGood ==
    ASSUME NEW g, Typed(g), NEW C, Mirrors(g, C), Flags(g), NEW irq,
           virq_ack(g, irq).status = "ok"
    PROVE  LET r == virq_ack(g, irq)
           IN  /\ Flags(r) /\ Mirrors(r, C) /\ (Drained(g) => Drained(r))
               /\ \A j \in IRQS : InFlight(g, j) => InFlight(r, j)
               /\ r.enable = g.enable /\ r.ctlr = g.ctlr
               /\ r.masked \subseteq g.masked
<1> DEFINE m == WithMasked(g, g.masked \ {irq})
<1>1. g.masked \ {irq} \in SUBSET IRQS
  BY DEF Typed, VgicStates
<1>2. /\ Typed(m) /\ m.irq_queue = g.irq_queue /\ m.pending = g.pending
      /\ m.lr_shadow = g.lr_shadow /\ m.hw_lr = g.hw_lr
      /\ m.ctlr = g.ctlr /\ m.enable = g.enable /\ m.masked = g.masked \ {irq}
  BY <1>1, MaskedTyped
<1> HIDE DEF m
<1>3. /\ Flags(m) /\ Mirrors(m, C) /\ (Drained(g) => Drained(m))
      /\ \A j : InFlight(g, j) <=> InFlight(m, j)
  BY <1>2, SameTables
<1>4. CASE virq_ack(g, irq) = g
  BY <1>4
<1>5. CASE virq_ack(g, irq) = m
  BY <1>2, <1>3, <1>5
<1>6. CASE /\ SERIAL_IRQ_CH \in IRQS
           /\ virq_ack(g, irq) = vgic_dist_set_pending_irq(m, SERIAL_IRQ_CH)
  <2> DEFINE r == vgic_dist_set_pending_irq(m, SERIAL_IRQ_CH)
  <2>1. r.status = "ok" /\ SERIAL_IRQ_CH \in IRQS
    BY <1>6
  <2>2. Flags(r) /\ Mirrors(r, C) /\ (Drained(m) => Drained(r))
    BY <1>2, <1>3, <2>1, SetPendingGood
  <2>3. \A j \in IRQS : InFlight(m, j) => InFlight(r, j)
    BY <1>2, <1>3, <2>1, SetPendingInFlight
  <2>4. Injected(m, SERIAL_IRQ_CH, r, C)
    BY <1>2, <1>3, <2>1, SetPendingEffect
  <2> HIDE DEF r
  <2>5. r.enable = m.enable /\ r.ctlr = m.ctlr /\ r.masked = m.masked
    BY <2>4 DEF Injected
  <2> QED BY <1>2, <1>3, <1>6, <2>2, <2>3, <2>5 DEF r
<1> QED BY <1>4, <1>5, <1>6, AckCases DEF m

(* The state between the two halves of the maintenance handler: the list   *)
(* register is freed in the shadow as the hardware freed it, and the only  *)
(* flag that lost its IRQ is cleared.                                      *)
LEMMA FreedGood ==
    ASSUME NEW g, Typed(g), NEW C, NEW idx \in ListRegs,
           Flags(g), Mirrors(g, C), idx \in C
    PROVE  LET f == unset_pending(Freed(g, idx), g.lr_shadow[idx])
           IN  /\ Typed(f) /\ Flags(f) /\ Mirrors(f, C \ {idx})
               /\ \A j \in IRQS : InFlight(g, j) => InFlight(f, j) \/ j = g.lr_shadow[idx]
               /\ f.enable = g.enable /\ f.ctlr = g.ctlr /\ f.masked = g.masked
               /\ f.pending = g.pending \ {g.lr_shadow[idx]}
<1> DEFINE h == Freed(g, idx)
           f == unset_pending(h, g.lr_shadow[idx])
<1>1. /\ Typed(h) /\ h.irq_queue = g.irq_queue /\ h.pending = g.pending
      /\ h.lr_shadow = [g.lr_shadow EXCEPT ![idx] = VIRQ_INVALID]
      /\ h.hw_lr = g.hw_lr
      /\ h.ctlr = g.ctlr /\ h.enable = g.enable /\ h.masked = g.masked
  BY FreedTyped
<1> HIDE DEF h
<1>2. /\ Typed(f) /\ f.irq_queue = g.irq_queue
      /\ f.pending = g.pending \ {g.lr_shadow[idx]}
      /\ f.lr_shadow = [g.lr_shadow EXCEPT ![idx] = VIRQ_INVALID]
      /\ f.hw_lr = g.hw_lr
      /\ f.ctlr = g.ctlr /\ f.enable = g.enable /\ f.masked = g.masked
  BY <1>1, ClearTyped
<1> HIDE DEF f
<1>3. g.lr_shadow \in [ListRegs -> IRQS \cup {VIRQ_INVALID}] /\ g.pending \subseteq IRQS
  BY DEF Typed, VgicStates
<1>4. \A j \in IRQS : InFlight(g, j) => InFlight(f, j) \/ j = g.lr_shadow[idx]
  BY <1>2, <1>3 DEF InFlight, InListReg, InQueue
<1>5. Flags(f)
  BY <1>2, <1>3, <1>4 DEF Flags
<1>6. Mirrors(f, C \ {idx})
  BY <1>2, <1>3 DEF Mirrors
<1> QED BY <1>2, <1>4, <1>5, <1>6 DEF f, h
----------------------------------------------------------------------------
(* The inductive invariant.  Besides the three facts it says that a list   *)
(* register is reported by the kernel once per completion.                 *)
Good ==
    /\ Flags(vgic)
    /\ Mirrors(vgic, Completed)
    /\ Drained(vgic)
    /\ fault.kind = "VGICMaintenance" => fault.arg \notin eisr
CoreInv == TypeOK /\ (vgic.status = "ok" => Good)

LEMMA GoodInit == Init => CoreInv
<1> SUFFICES ASSUME Init PROVE CoreInv
  OBVIOUS
<1>1. TypeOK
  BY InitTyped
<1> PICK fired \in SUBSET SpiLines : vgic = [vgic_init EXCEPT !.masked = fired]
  BY DEF Init
<1>2. /\ vgic.pending = {} /\ vgic.irq_queue = << >>
      /\ vgic.lr_shadow = [i \in ListRegs |-> VIRQ_INVALID]
      /\ vgic.hw_lr = [i \in ListRegs |-> VIRQ_INVALID]
  BY DEF vgic_init
<1>3. Completed = {}
  BY NoFaultKind DEF Init, Completed
<1>4. Flags(vgic) /\ Mirrors(vgic, Completed) /\ Drained(vgic)
  BY <1>2, <1>3 DEF Flags, Mirrors, Drained
<1> QED BY <1>1, <1>4, NoFaultKind DEF Init, CoreInv, Good

(* The completed list registers, by the kind of the outstanding fault. *)
LEMMA CompletedOf ==
    /\ fault.kind # "VGICMaintenance" => Completed = eisr
    /\ fault.kind = "VGICMaintenance" /\ fault.arg \in ListRegs
           => Completed = eisr \cup {fault.arg}
BY DEF Completed

LEMMA CompletedOfNext ==
    /\ fault'.kind # "VGICMaintenance" => Completed' = eisr'
    /\ fault'.kind = "VGICMaintenance" /\ fault'.arg \in ListRegs
           => Completed' = eisr' \cup {fault'.arg}
BY DEF Completed

(* A step that leaves the list registers and the queue alone, sets no flag *)
(* and raises or answers a fault other than a maintenance fault.           *)
LEMMA QuietStep ==
    ASSUME Good, eisr' = eisr,
           fault.kind # "VGICMaintenance", fault'.kind # "VGICMaintenance",
           vgic'.pending \subseteq vgic.pending, vgic'.irq_queue = vgic.irq_queue,
           vgic'.lr_shadow = vgic.lr_shadow, vgic'.hw_lr = vgic.hw_lr
    PROVE  Good'
<1>1. Completed = eisr /\ Completed' = eisr
  BY CompletedOf, CompletedOfNext
<1>2. Flags(vgic') /\ Mirrors(vgic', eisr) /\ Drained(vgic')
  BY <1>1, SameTables DEF Good
<1>3. Flags(vgic)' /\ Mirrors(vgic, Completed)' /\ Drained(vgic)'
  BY <1>1, <1>2 DEF Flags, Mirrors, Drained, EmptyListRegs, InFlight, InListReg, InQueue
<1> QED BY <1>3 DEF Good

(* A step that calls vgic_dist_set_pending_irq and answers its fault. *)
LEMMA InjectStep ==
    ASSUME TypeOK, Good, eisr' = eisr, NEW irq \in IRQS,
           vgic' = vgic_dist_set_pending_irq(vgic, irq), vgic'.status = "ok",
           Completed' = Completed, fault' = fault \/ fault'.kind # "VGICMaintenance"
    PROVE  Good'
<1>1. Flags(vgic') /\ Mirrors(vgic', Completed) /\ Drained(vgic')
  BY TypeParts, SetPendingGood DEF Good
<1>2. Flags(vgic)' /\ Mirrors(vgic, Completed)' /\ Drained(vgic)'
  BY <1>1 DEF Flags, Mirrors, Drained, EmptyListRegs, InFlight, InListReg, InQueue
<1> QED BY <1>2 DEF Good
(* The kinds of fault a running guest raises are not maintenance faults. *)
LEMMA RaisedKind ==
    ASSUME NEW kind, NEW bits, NEW arg, NEW mode
    PROVE  /\ Fault(kind, bits, arg, mode).kind = kind
           /\ Fault(kind, bits, arg, mode).arg = arg
BY DEF Fault

LEMMA GoodNext == CoreInv /\ [Next]_vars => CoreInv'
<1> SUFFICES ASSUME TypeOK, vgic.status = "ok" => Good, [Next]_vars, vgic'.status = "ok"
             PROVE  Good'
  BY NextTyped DEF CoreInv
<1> USE TypeParts
<1>1. ASSUME NEW reg \in BitRegisters, NEW D \in SUBSET IRQS, GuestWritesBits(reg, D)
      PROVE  Good'
  BY <1>1, QuietStep, RaisedKind, NoFaultKind DEF GuestWritesBits, GuestRuns, BitRegisters,
                                                       DistBitRegisters, RedistBitRegisters
<1>2. ASSUME NEW data \in CtlrData, GuestWritesCtlr(data) PROVE Good'
  BY <1>2, QuietStep, RaisedKind, NoFaultKind DEF GuestWritesCtlr, GuestRuns
<1>3. ASSUME NEW sgi \in Sgis, NEW mode \in SgirModes, GuestWritesSgir(sgi, mode)
      PROVE  Good'
  BY <1>3, QuietStep, RaisedKind, NoFaultKind DEF GuestWritesSgir, GuestRuns
<1>4. ASSUME GuestWritesCpendsgir PROVE Good'
  BY <1>4, QuietStep, RaisedKind, NoFaultKind DEF GuestWritesCpendsgir, GuestRuns
<1>5. ASSUME GuestAccessesOther PROVE Good'
  BY <1>5, QuietStep, RaisedKind, NoFaultKind DEF GuestAccessesOther, GuestRuns
<1>6. ASSUME NEW idx \in ListRegs, GuestEOI(idx) PROVE Good'
  <2>1. /\ vgic.status = "ok" /\ fault = NoFault /\ fault' = fault
        /\ vgic.hw_lr[idx] # VIRQ_INVALID
        /\ vgic' = Emptied(vgic, idx) /\ eisr' = eisr \cup {idx}
    BY <1>6 DEF GuestEOI, GuestRuns, Emptied
  <2>2. Completed = eisr /\ Completed' = eisr \cup {idx}
    BY <2>1, NoFaultKind, CompletedOf, CompletedOfNext
  <2>3. /\ vgic'.irq_queue = vgic.irq_queue /\ vgic'.pending = vgic.pending
        /\ vgic'.lr_shadow = vgic.lr_shadow
        /\ vgic'.hw_lr = [vgic.hw_lr EXCEPT ![idx] = VIRQ_INVALID]
    BY <2>1, EmptiedTyped
  <2>4. vgic.hw_lr \in [ListRegs -> IRQS \cup {VIRQ_INVALID}]
    BY DEF Typed, VgicStates
  <2>5. Mirrors(vgic, Completed)'
    BY <2>1, <2>2, <2>3, <2>4 DEF Good, Mirrors
  <2>6. Flags(vgic)' /\ Drained(vgic)'
    BY <2>1, <2>3 DEF Good, Flags, Drained, EmptyListRegs, InFlight, InListReg, InQueue
  <2> QED BY <2>1, <2>5, <2>6, NoFaultKind DEF Good
<1>7. ASSUME NEW idx \in ListRegs, MaintenanceIrq(idx) PROVE Good'
  <2>1. /\ vgic.status = "ok" /\ fault = NoFault /\ vgic' = vgic
        /\ idx \in eisr /\ eisr' = eisr \ {idx}
        /\ fault' = Fault("VGICMaintenance", {}, idx, 0)
    BY <1>7 DEF MaintenanceIrq, GuestRuns
  <2>2. fault'.kind = "VGICMaintenance" /\ fault'.arg = idx
    BY <2>1, RaisedKind
  <2>3. Completed = eisr /\ Completed' = eisr
    BY <2>1, <2>2, NoFaultKind, CompletedOf, CompletedOfNext
  <2> QED BY <2>1, <2>2, <2>3
          DEF Good, Mirrors, Flags, Drained, EmptyListRegs, InFlight, InListReg, InQueue
<1>8. ASSUME NEW irq \in VppiLines, VppiFires(irq) PROVE Good'
  <2>1. /\ vgic.status = "ok" /\ fault = NoFault /\ eisr' = eisr
        /\ fault' = Fault("VPPIEvent", {}, irq, 0)
        /\ vgic' = WithMasked(vgic, vgic.masked \cup {irq})
    BY <1>8 DEF VppiFires, GuestRuns, WithMasked
  <2>2. vgic.masked \cup {irq} \in SUBSET IRQS
    BY LineSets DEF Typed, VgicStates
  <2>3. /\ vgic'.pending = vgic.pending /\ vgic'.irq_queue = vgic.irq_queue
        /\ vgic'.lr_shadow = vgic.lr_shadow /\ vgic'.hw_lr = vgic.hw_lr
    BY <2>1, <2>2, MaskedTyped
  <2>4. fault.kind = "none" /\ fault'.kind = "VPPIEvent"
    BY <2>1, RaisedKind, NoFaultKind
  <2> QED BY <2>1, <2>3, <2>4, QuietStep
<1>9. ASSUME NEW irq \in SpiLines, DeviceFires(irq) PROVE Good'
  <2>1. /\ vgic.status = "ok" /\ fault' = fault /\ eisr' = eisr
        /\ vgic' = WithMasked(vgic, vgic.masked \cup {irq})
    BY <1>9 DEF DeviceFires, WithMasked
  <2>2. vgic.masked \cup {irq} \in SUBSET IRQS
    BY LineSets DEF Typed, VgicStates
  <2>3. /\ vgic'.pending = vgic.pending /\ vgic'.irq_queue = vgic.irq_queue
        /\ vgic'.lr_shadow = vgic.lr_shadow /\ vgic'.hw_lr = vgic.hw_lr
    BY <2>1, <2>2, MaskedTyped
  <2>4. Completed' = Completed
    BY <2>1 DEF Completed
  <2>5. Flags(vgic)' /\ Drained(vgic)'
    <3>1. Flags(vgic) /\ Drained(vgic)
      BY <2>1 DEF Good
    <3>2. Flags(vgic)'
      BY <3>1, <2>3 DEF Flags, InFlight, InListReg, InQueue
    <3>3. Drained(vgic)'
      BY <3>1, <2>3 DEF Drained, EmptyListRegs
    <3> QED BY <3>2, <3>3
  <2>6. Mirrors(vgic, Completed)'
    BY <2>1, <2>3, <2>4 DEF Good, Mirrors
  <2> QED BY <2>1, <2>5, <2>6 DEF Good
<1>10. ASSUME NEW irq \in SpiLines, Notified(irq) PROVE Good'
  <2>1. /\ vgic.status = "ok" /\ fault' = fault /\ eisr' = eisr
        /\ vgic' = vgic_dist_set_pending_irq(vgic, irq)
    BY <1>10 DEF Notified, VmmReady, vgic_inject_irq
  <2>2. Completed' = Completed /\ irq \in IRQS
    BY <2>1, LineSets DEF Completed
  <2> QED BY <2>1, <2>2, InjectStep
<1>11. ASSUME HandleVppiEvent PROVE Good'
  <2>1. /\ vgic.status = "ok" /\ fault.kind = "VPPIEvent" /\ fault.arg \in IRQS
        /\ vgic' = handle_vppi_event(vgic, fault.arg) /\ fault' = NoFault
        /\ eisr' = eisr
    BY <1>11, LineSets DEF HandleVppiEvent, VmmReady, FaultTyped, Reply
  <2> DEFINE j == vgic_dist_set_pending_irq(vgic, fault.arg)
  <2>2. CASE vgic' = j
    <3>1. Completed' = Completed
      BY <2>1, NoFaultKind, CompletedOf, CompletedOfNext
    <3> QED BY <2>1, <2>2, <3>1, NoFaultKind, InjectStep
  <2>3. CASE vgic' = WithMasked(j, j.masked \ {fault.arg})
             /\ Dropped(vgic, fault.arg)
    <3>1. virq_find_irq_data(fault.arg) # NULL
      <4>1. fault.arg \in Registered /\ fault.arg \in Nat
        BY <2>1, IrqAssumption DEF FaultTyped, VppiLines
      <4>2. virq_find_irq_data(fault.arg) = fault.arg
        BY <4>1 DEF virq_find_irq_data
      <4> QED BY <4>1, <4>2 DEF NULL
    <3>2. j = vgic
      BY <2>3, <3>1 DEF vgic_dist_set_pending_irq
    <3>3. vgic.masked \ {fault.arg} \in SUBSET IRQS
      BY DEF Typed, VgicStates
    <3> HIDE DEF j
    <3> QED BY <2>1, <2>3, <3>2, <3>3, MaskedTyped, QuietStep, NoFaultKind
  <2> QED BY <2>1, <2>2, <2>3, VppiCases
<1>12. ASSUME HandleVgicMaintenance PROVE Good'
  <2>1. /\ vgic.status = "ok" /\ fault.kind = "VGICMaintenance" /\ fault.arg \in ListRegs
        /\ fault' = NoFault /\ eisr' = eisr
    BY <1>12 DEF HandleVgicMaintenance, VmmReady, FaultTyped, Reply
  <2>2. PICK err \in UninitErr : vgic' = handle_vgic_maintenance(vgic, fault.arg, err)
    BY <1>12 DEF HandleVgicMaintenance
  <2> DEFINE idx  == fault.arg
             virq == vgic.lr_shadow[idx]
             f    == unset_pending(Freed(vgic, idx), virq)
  <2>3. vgic' = virq_ack(f, virq) /\ vgic'.irq_queue = << >>
    BY <2>1, <2>2, MaintenanceCases
  <2>4. Completed = eisr \cup {idx} /\ idx \notin eisr /\ Completed' = eisr
    BY <2>1, NoFaultKind, CompletedOf, CompletedOfNext DEF Good
  <2>5. Typed(f) /\ Flags(f) /\ Mirrors(f, Completed \ {idx})
    BY <2>1, <2>4, FreedGood DEF Good
  <2>6. Completed \ {idx} = eisr
    BY <2>4
  <2> HIDE DEF f, virq
  <2>7. Flags(vgic') /\ Mirrors(vgic', eisr)
    BY <2>3, <2>5, <2>6, AckGood
  <2>8. Flags(vgic)' /\ Mirrors(vgic, Completed)' /\ Drained(vgic)'
    BY <2>3, <2>4, <2>7
       DEF Flags, Mirrors, Drained, EmptyListRegs, InFlight, InListReg, InQueue
  <2> QED BY <2>1, <2>8, NoFaultKind DEF Good
<1>13. ASSUME HandleCtlrWrite PROVE Good'
  <2>1. /\ vgic.status = "ok" /\ fault.kind = "CTLR" /\ fault' = NoFault /\ eisr' = eisr
        /\ vgic' = vgic_dist_ctlr_write(vgic, fault.arg)
    BY <1>13 DEF HandleCtlrWrite, VmmReady, Reply
  <2>2. vgic' = vgic \/ \E c \in {0, CtlrOn} : vgic' = WithCtlr(vgic, c)
    BY <2>1 DEF vgic_dist_ctlr_write, vgic_dist_enable, vgic_dist_disable, WithCtlr
  <2>3. /\ vgic'.pending = vgic.pending /\ vgic'.irq_queue = vgic.irq_queue
        /\ vgic'.lr_shadow = vgic.lr_shadow /\ vgic'.hw_lr = vgic.hw_lr
    BY <2>2, CtlrTyped
  <2> QED BY <2>1, <2>3, QuietStep, NoFaultKind
<1>14. ASSUME HandleSgirWrite PROVE Good'
  <2>1. /\ vgic.status = "ok" /\ fault.kind = "SGIR" /\ fault.arg \in IRQS
        /\ fault' = NoFault /\ eisr' = eisr
        /\ vgic' = vgic_dist_sgir_write(vgic, fault.arg, fault.mode)
    BY <1>14, LineSets DEF HandleSgirWrite, VmmReady, FaultTyped, Reply
  <2>2. vgic' = vgic \/ vgic' = vgic_dist_set_pending_irq(vgic, fault.arg)
    BY <2>1 DEF vgic_dist_sgir_write, vgic_inject_irq
  <2>3. Completed' = Completed
    BY <2>1, NoFaultKind, CompletedOf, CompletedOfNext
  <2>4. CASE vgic' = vgic
    BY <2>1, <2>4, QuietStep, NoFaultKind
  <2>5. CASE vgic' = vgic_dist_set_pending_irq(vgic, fault.arg)
    BY <2>1, <2>3, <2>5, InjectStep, NoFaultKind
  <2> QED BY <2>2, <2>4, <2>5
<1>15. ASSUME HandleCpendsgirWrite PROVE Good'
  <2>1. vgic' = Stop(vgic, "unimplemented") /\ vgic \in VgicStates
    BY <1>15 DEF HandleCpendsgirWrite, Typed
  <2> QED BY <2>1, StopFields
<1>16. ASSUME HandleOther PROVE Good'
  BY <1>16, QuietStep, NoFaultKind DEF HandleOther, VmmReady
<1>17. ASSUME BeginBitWrite PROVE Good'
  BY <1>17, QuietStep DEF BeginBitWrite, VmmReady, BitRegisters, DistBitRegisters, RedistBitRegisters
<1>18. ASSUME WriteIsenabler \/ WriteGicrIsenabler0 PROVE Good'
  <2>1. /\ vgic.status = "ok" /\ fault.kind # "VGICMaintenance" /\ fault.bits # {}
        /\ vgic' = vgic_dist_enable_irq(vgic, Min(fault.bits))
        /\ fault' = [fault EXCEPT !.bits = @ \ {Min(@)}] /\ UNCHANGED <<vmm, notif, eisr>>
    BY <1>18 DEF WriteIsenabler, WriteGicrIsenabler0, BitStep
  <2>2. fault'.kind # "VGICMaintenance" /\ Min(fault.bits) \in IRQS
    BY <2>1, BitTyped, BitIrq
  <2> DEFINE irq == Min(fault.bits)
             e   == WithEnable(vgic, vgic.enable \cup {irq})
  <2>3. vgic.enable \cup {irq} \in SUBSET IRQS
    BY <2>2 DEF Typed, VgicStates
  <2>4. /\ Typed(e) /\ e.irq_queue = vgic.irq_queue /\ e.pending = vgic.pending
        /\ e.lr_shadow = vgic.lr_shadow /\ e.hw_lr = vgic.hw_lr
    BY <2>3, EnableTyped
  <2>5. vgic' = e \/ vgic' = virq_ack(e, irq)
    BY <2>1, <2>2, EnableCases
  <2> HIDE DEF e, irq
  <2>6. CASE vgic' = e
    BY <2>1, <2>2, <2>4, <2>6, QuietStep
  <2>7. CASE vgic' = virq_ack(e, irq)
    <3>1. Completed = eisr /\ Completed' = eisr
      BY <2>1, <2>2, CompletedOf, CompletedOfNext
    <3>2. Flags(e) /\ Mirrors(e, eisr) /\ Drained(e)
      BY <2>1, <2>4, <3>1, SameTables DEF Good
    <3>3. Flags(vgic') /\ Mirrors(vgic', eisr) /\ Drained(vgic')
      BY <2>4, <2>7, <3>2, AckGood
    <3>4. Flags(vgic)' /\ Mirrors(vgic, Completed)' /\ Drained(vgic)'
      BY <3>1, <3>3
         DEF Flags, Mirrors, Drained, EmptyListRegs, InFlight, InListReg, InQueue
    <3> QED BY <2>2, <3>4 DEF Good
  <2> QED BY <2>5, <2>6, <2>7
<1>19. ASSUME WriteIcenabler \/ WriteGicrIcenabler0 PROVE Good'
  <2>1. /\ vgic.status = "ok" /\ fault.kind # "VGICMaintenance" /\ fault.bits # {}
        /\ \/ vgic' = vgic_dist_disable_irq(vgic, Min(fault.bits))
           \/ vgic' = WithEnable(vgic, vgic.enable \ {Min(fault.bits)})
        /\ fault' = [fault EXCEPT !.bits = @ \ {Min(@)}] /\ UNCHANGED <<vmm, notif, eisr>>
    BY <1>19 DEF WriteIcenabler, WriteGicrIcenabler0, BitStep, unset_enable, WithEnable
  <2>2. fault'.kind # "VGICMaintenance" /\ Min(fault.bits) \in IRQS
    BY <2>1, BitTyped, BitIrq
  <2>3. vgic.enable \ {Min(fault.bits)} \in SUBSET IRQS
    BY DEF Typed, VgicStates
  <2>4. /\ vgic'.irq_queue = vgic.irq_queue /\ vgic'.pending = vgic.pending
        /\ vgic'.lr_shadow = vgic.lr_shadow /\ vgic'.hw_lr = vgic.hw_lr
    <3> DEFINE e == WithEnable(vgic, vgic.enable \ {Min(fault.bits)})
    <3>1. /\ e.irq_queue = vgic.irq_queue /\ e.pending = vgic.pending
          /\ e.lr_shadow = vgic.lr_shadow /\ e.hw_lr = vgic.hw_lr
      BY <2>3, EnableTyped
    <3>2. vgic' = vgic \/ vgic' = e
      BY <2>1, <2>2, DisableCases
    <3> HIDE DEF e
    <3> QED BY <3>1, <3>2
  <2> QED BY <2>1, <2>2, <2>4, QuietStep
<1>20. ASSUME WriteIspendr PROVE Good'
  <2>1. /\ vgic.status = "ok" /\ fault.kind = "ISPENDR" /\ fault.bits # {}
        /\ vgic' = vgic_dist_set_pending_irq(vgic, Min(fault.bits))
        /\ fault' = [fault EXCEPT !.bits = @ \ {Min(@)}] /\ UNCHANGED <<vmm, notif, eisr>>
    BY <1>20 DEF WriteIspendr, BitStep
  <2>2. fault'.kind = "ISPENDR" /\ Min(fault.bits) \in IRQS
    BY <2>1, BitTyped, BitIrq
  <2>3. Completed' = Completed
    BY <2>1, <2>2, CompletedOf, CompletedOfNext
  <2> QED BY <2>1, <2>2, <2>3, InjectStep
<1>21. ASSUME WriteIcpendr PROVE Good'
  <2>1. /\ vgic.status = "ok" /\ fault.kind = "ICPENDR" /\ fault.bits # {}
        /\ vgic' = unset_pending(vgic, Min(fault.bits))
        /\ fault' = [fault EXCEPT !.bits = @ \ {Min(@)}] /\ UNCHANGED <<vmm, notif, eisr>>
    BY <1>21 DEF WriteIcpendr, BitStep, vgic_dist_clr_pending_irq
  <2>2. fault'.kind = "ICPENDR"
    BY <2>1, BitTyped
  <2> QED BY <2>1, <2>2, ClearTyped, QuietStep
<1>22. ASSUME EndBitWrite PROVE Good'
  <2>1. /\ vgic.status = "ok" /\ fault.kind \in BitRegisters
        /\ fault' = NoFault /\ UNCHANGED <<vgic, notif, eisr>>
    BY <1>22 DEF EndBitWrite, FaultTyped
  <2> QED BY <2>1, QuietStep, NoFaultKind DEF BitRegisters, DistBitRegisters, RedistBitRegisters
<1>23. ASSUME UNCHANGED vars PROVE Good'
  BY <1>23 DEF vars, Good, Completed, Mirrors, Flags, Drained, EmptyListRegs, InFlight,
               InListReg, InQueue
<1> QED
  BY <1>1, <1>2, <1>3, <1>4, <1>5, <1>6, <1>7, <1>8, <1>9, <1>10, <1>11, <1>12,
     <1>13, <1>14, <1>15, <1>16, <1>17, <1>18, <1>19, <1>20, <1>21, <1>22, <1>23
     DEF Next, GuestStep, KernelStep, FaultStep, Spin

LEMMA CoreInvariant == Spec => []CoreInv
BY GoodInit, GoodNext, PTL DEF Spec

(* No pending flag outlives its IRQ: the early return of                   *)
(* vgic_dist_set_pending_irq on a pending flag never silences a line.      *)
THEOREM FlagsInFlight == Spec => []PendingInFlight
<1>1. CoreInv => PendingInFlight
  BY DEF CoreInv, Good, Flags, PendingInFlight
<1> QED BY <1>1, CoreInvariant, PTL

(* The shadow mirrors the hardware list registers, so the assertions on a  *)
(* valid slot and on a successful load rest on solid ground.               *)
THEOREM ShadowMirrors == Spec => []MirrorsListRegs
<1>1. CoreInv => MirrorsListRegs
  BY DEF CoreInv, Good, MirrorsListRegs
<1> QED BY <1>1, CoreInvariant, PTL

(* An IRQ waits in the queue only while every list register is taken. *)
THEOREM QueueDrained == Spec => []WorkConserving
<1>1. CoreInv => WorkConserving
  BY DEF CoreInv, Good, Drained, WorkConserving
<1> QED BY <1>1, CoreInvariant, PTL
=============================================================================
