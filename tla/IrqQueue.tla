------------------------------ MODULE IrqQueue ------------------------------
(***************************************************************************)
(* struct irq_queue of vgic/virq.h: the ring buffer of virq_handle         *)
(* pointers behind the list registers, with head and tail indices and one  *)
(* slot that stays free.  A handle is a member of Handles.  dequeue leaves *)
(* the old pointer in its slot, as the code does.                          *)
(***************************************************************************)
EXTENDS Integers, Sequences

CONSTANTS Handles, NULL, MAX_IRQ_QUEUE_LEN

(* static_assert in virq.h: the length is a power of two (and it fits the  *)
(* uint64_t of the indices).                                               *)
ASSUME LenAssumption ==
    /\ MAX_IRQ_QUEUE_LEN \in Nat /\ MAX_IRQ_QUEUE_LEN > 1
    /\ \E n \in 1 .. 63 : MAX_IRQ_QUEUE_LEN = 2 ^ n
ASSUME NullAssumption == NULL \notin Handles

VARIABLES irqs,   \* the circular buffer
          head,
          tail,
          ret     \* what the last call returned

vars == <<irqs, head, tail, ret>>

Slots == 0 .. MAX_IRQ_QUEUE_LEN - 1

(* The index runs past the end of the buffer before it wraps. *)
MutantLateWrap(i) == (i + 1) % (MAX_IRQ_QUEUE_LEN + 1)
(* Masking with a power of two minus one is the remainder. *)
IRQ_QUEUE_NEXT(i) == (i + 1) % MAX_IRQ_QUEUE_LEN

Init ==
    /\ irqs = [i \in Slots |-> NULL]
    /\ head = 0
    /\ tail = 0
    /\ ret = 0

(* No test for a full buffer. *)
MutantNoFullTest(irq) ==
    /\ irqs' = [irqs EXCEPT ![tail] = irq]
    /\ tail' = IRQ_QUEUE_NEXT(tail)
    /\ ret' = 0
    /\ UNCHANGED head
vgic_irq_enqueue(irq) ==
    IF IRQ_QUEUE_NEXT(tail) = head
    THEN ret' = -1 /\ UNCHANGED <<irqs, head, tail>>
    ELSE /\ irqs' = [irqs EXCEPT ![tail] = irq]
         /\ tail' = IRQ_QUEUE_NEXT(tail)
         /\ ret' = 0
         /\ UNCHANGED head

vgic_irq_dequeue ==
    IF head # tail
    THEN /\ ret' = irqs[head]
         /\ head' = IRQ_QUEUE_NEXT(head)
         /\ UNCHANGED <<irqs, tail>>
    ELSE ret' = NULL /\ UNCHANGED <<irqs, head, tail>>

Next ==
    \/ \E irq \in Handles : vgic_irq_enqueue(irq)
    \/ vgic_irq_dequeue

Spec == Init /\ [][Next]_vars

----------------------------------------------------------------------------
(* The indices stay inside the buffer. *)
TypeOK ==
    /\ irqs \in [Slots -> Handles \cup {NULL}]
    /\ head \in Slots
    /\ tail \in Slots
    /\ ret \in Handles \cup {NULL, 0, -1}

(* The handles between head and tail, oldest first. *)
Count == IF head <= tail THEN tail - head ELSE tail - head + MAX_IRQ_QUEUE_LEN
Slot(k) == IF head + k - 1 < MAX_IRQ_QUEUE_LEN THEN head + k - 1
           ELSE head + k - 1 - MAX_IRQ_QUEUE_LEN
Contents == [k \in 1 .. Count |-> irqs[Slot(k)]]

Fifo == INSTANCE BoundedFifo
            WITH queue <- Contents, Capacity <- MAX_IRQ_QUEUE_LEN - 1

(* The ring buffer is a first-in, first-out queue of MAX_IRQ_QUEUE_LEN - 1 *)
(* handles through every wrap of its indices: vgic_irq_enqueue refuses     *)
(* exactly when that many are queued, and vgic_irq_dequeue returns the     *)
(* oldest.                                                                 *)
ImplementsFifo == Fifo!Spec
=============================================================================
