--------------------------- MODULE IrqQueueProofs ---------------------------
(***************************************************************************)
(* The ring buffer of IrqQueue stays inside its bounds and implements the  *)
(* bounded queue of BoundedFifo, for every length and every set of handles.*)
(***************************************************************************)
EXTENDS IrqQueue, TLAPS

(* Masking the successor of an index is a wrap to 0 at the end of the      *)
(* buffer and an increment everywhere else.                                *)
LEMMA NextWraps ==
    ASSUME NEW i \in Slots
    PROVE  IRQ_QUEUE_NEXT(i) = IF i = MAX_IRQ_QUEUE_LEN - 1 THEN 0 ELSE i + 1
<1>1. MAX_IRQ_QUEUE_LEN \in Nat /\ MAX_IRQ_QUEUE_LEN > 1
  BY LenAssumption
<1> QED BY <1>1, Z3 DEF IRQ_QUEUE_NEXT, Slots

(* head and tail are indices of the buffer in every reachable state.       *)
THEOREM TypeCorrect == Spec => []TypeOK
<1> USE LenAssumption
<1>1. Init => TypeOK
  BY DEF Init, TypeOK, Slots
<1>2. TypeOK /\ [Next]_vars => TypeOK'
  <2> SUFFICES ASSUME TypeOK, [Next]_vars PROVE TypeOK'
    OBVIOUS
  <2>1. IRQ_QUEUE_NEXT(head) \in Slots /\ IRQ_QUEUE_NEXT(tail) \in Slots
    BY NextWraps DEF TypeOK, Slots
  <2>2. ASSUME NEW irq \in Handles, vgic_irq_enqueue(irq) PROVE TypeOK'
    BY <2>1, <2>2 DEF vgic_irq_enqueue, TypeOK
  <2>3. ASSUME vgic_irq_dequeue PROVE TypeOK'
    BY <2>1, <2>3 DEF vgic_irq_dequeue, TypeOK
  <2>4. ASSUME UNCHANGED vars PROVE TypeOK'
    BY <2>4 DEF vars, TypeOK
  <2> QED BY <2>2, <2>3, <2>4 DEF Next
<1> QED BY <1>1, <1>2, PTL DEF Spec
(* The queued handles form a sequence with a free slot left in the buffer. *)
LEMMA ContentsType ==
    ASSUME TypeOK
    PROVE  /\ Count \in 0 .. MAX_IRQ_QUEUE_LEN - 1
           /\ \A k \in 1 .. Count : Slot(k) \in Slots
           /\ Len(Contents) = Count
           /\ DOMAIN Contents = 1 .. Count
           /\ Contents = << >> <=> Count = 0
<1> USE LenAssumption
<1>1. Count \in 0 .. MAX_IRQ_QUEUE_LEN - 1
  BY DEF TypeOK, Slots, Count
<1>2. \A k \in 1 .. Count : Slot(k) \in Slots
  BY <1>1 DEF TypeOK, Slots, Slot
<1>3. Len(Contents) = Count /\ DOMAIN Contents = 1 .. Count
  BY <1>1 DEF Contents
<1>4. Contents = << >> <=> Count = 0
  BY <1>1, <1>3 DEF Contents
<1> QED BY <1>1, <1>2, <1>3, <1>4

(* Every step of the ring buffer is a step of the bounded queue. *)
THEOREM RefinesFifo == Spec => ImplementsFifo
<1> USE LenAssumption
<1>1. Init => Fifo!Init
  <2> SUFFICES ASSUME Init PROVE Fifo!Init
    OBVIOUS
  <2>1. TypeOK /\ Count = 0
    BY DEF Init, TypeOK, Slots, Count
  <2> QED BY <2>1, ContentsType DEF Init, Fifo!Init
<1>2. TypeOK /\ TypeOK' /\ [Next]_vars => [Fifo!Next]_(Fifo!vars)
  <2> SUFFICES ASSUME TypeOK, TypeOK', [Next]_vars PROVE [Fifo!Next]_(Fifo!vars)
    OBVIOUS
  <2>1. /\ IRQ_QUEUE_NEXT(head) = IF head = MAX_IRQ_QUEUE_LEN - 1 THEN 0 ELSE head + 1
        /\ IRQ_QUEUE_NEXT(tail) = IF tail = MAX_IRQ_QUEUE_LEN - 1 THEN 0 ELSE tail + 1
    BY NextWraps DEF TypeOK
  <2>2. ASSUME NEW irq \in Handles, vgic_irq_enqueue(irq)
        PROVE  Fifo!Next
    <3>1. CASE IRQ_QUEUE_NEXT(tail) = head
      <4>1. Count = MAX_IRQ_QUEUE_LEN - 1
        BY <2>1, <3>1 DEF Count, TypeOK, Slots
      <4>2. ret' = -1 /\ Contents' = Contents
        BY <2>2, <3>1 DEF vgic_irq_enqueue, Contents, Count, Slot
      <4> QED BY <4>1, <4>2, ContentsType DEF Fifo!Next, Fifo!EnqueueFull
    <3>2. CASE IRQ_QUEUE_NEXT(tail) # head
      <4>1. /\ irqs' = [irqs EXCEPT ![tail] = irq]
            /\ tail' = IRQ_QUEUE_NEXT(tail) /\ head' = head /\ ret' = 0
        BY <2>2, <3>2 DEF vgic_irq_enqueue
      <4>2. Count < MAX_IRQ_QUEUE_LEN - 1 /\ Count' = Count + 1
        BY <2>1, <3>2, <4>1 DEF Count, TypeOK, Slots
      <4>3. \A k \in 1 .. Count : Slot(k) # tail
        BY DEF Count, Slot, TypeOK, Slots
      <4>4. Slot(Count + 1) = tail
        BY DEF Count, Slot, TypeOK, Slots
      <4>5. \A k : Slot(k)' = Slot(k)
        BY <4>1 DEF Slot
      <4>6. Contents' = Append(Contents, irq)
        <5>1. Contents' = [k \in 1 .. Count + 1 |-> irqs'[Slot(k)]]
          BY <4>2, <4>5 DEF Contents
        <5>2. \A k \in 1 .. Count + 1 :
                  irqs'[Slot(k)] = IF k = Count + 1 THEN irq ELSE irqs[Slot(k)]
          BY <4>1, <4>3, <4>4, ContentsType DEF TypeOK
        <5>3. Append(Contents, irq)
                  = [k \in 1 .. Count + 1 |-> IF k = Count + 1 THEN irq ELSE Contents[k]]
          BY ContentsType DEF Contents
        <5>4. \A k \in 1 .. Count + 1 : k # Count + 1 => Contents[k] = irqs[Slot(k)]
          BY ContentsType DEF Contents
        <5> QED BY <5>1, <5>2, <5>3, <5>4
      <4> QED BY <4>1, <4>2, <4>6, ContentsType DEF Fifo!Next, Fifo!Enqueue
    <3> QED BY <3>1, <3>2
  <2>3. ASSUME vgic_irq_dequeue PROVE Fifo!Next
    <3>1. CASE head = tail
      <4>1. Count = 0
        BY <3>1 DEF Count, TypeOK, Slots
      <4>2. ret' = NULL /\ Contents' = Contents
        BY <2>3, <3>1 DEF vgic_irq_dequeue, Contents, Count, Slot
      <4> QED BY <4>1, <4>2, ContentsType DEF Fifo!Next, Fifo!DequeueEmpty
    <3>2. CASE head # tail
      <4>1. /\ ret' = irqs[head]
            /\ head' = IRQ_QUEUE_NEXT(head) /\ tail' = tail /\ irqs' = irqs
        BY <2>3, <3>2 DEF vgic_irq_dequeue
      <4>2. Count > 0 /\ Count' = Count - 1
        BY <2>1, <3>2, <4>1 DEF Count, TypeOK, Slots
      <4>3. \A k \in 1 .. Count - 1 : Slot(k)' = Slot(k + 1)
        BY <2>1, <4>1, <4>2 DEF Slot, Count, TypeOK, Slots
      <4>4. Slot(1) = head
        BY DEF Slot, TypeOK, Slots
      <4>5. ret' = Head(Contents)
        BY <4>1, <4>2, <4>4, ContentsType DEF Contents
      <4>6. Contents' = Tail(Contents)
        <5>1. Contents' = [k \in 1 .. Count - 1 |-> irqs[Slot(k)']]
          BY <4>1, <4>2 DEF Contents
        <5>2. Tail(Contents) = [k \in 1 .. Count - 1 |-> Contents[k + 1]]
          BY <4>2, ContentsType DEF Contents
        <5>3. \A k \in 1 .. Count - 1 : Contents[k + 1] = irqs[Slot(k + 1)]
          BY ContentsType DEF Contents
        <5> QED BY <4>3, <5>1, <5>2, <5>3
      <4> QED BY <4>2, <4>5, <4>6, ContentsType DEF Fifo!Next, Fifo!Dequeue
    <3> QED BY <3>1, <3>2
  <2>4. ASSUME UNCHANGED vars PROVE UNCHANGED Fifo!vars
    BY <2>4 DEF vars, Fifo!vars, Contents, Count, Slot
  <2> QED BY <2>2, <2>3, <2>4 DEF Next
<1> QED BY <1>1, <1>2, TypeCorrect, PTL DEF Spec, ImplementsFifo, Fifo!Spec
=============================================================================
