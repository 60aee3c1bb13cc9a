------------------------------ MODULE IrqLine ------------------------------
(***************************************************************************)
(* What the virtual interrupt path promises of a hardware line: the states *)
(* b, c, d and g of the comment that opens vgic_v2.c and vgic_v3.c, for    *)
(* each line separately, without the tables the driver keeps.  Vgic        *)
(* implements it for every guest (ImplementsLine).                         *)
(***************************************************************************)
EXTENDS Integers

CONSTANTS Lines,    \* the hardware lines
          Vppis     \* those of them that the kernel raises as VPPI events

VARIABLES on,        \* the distributor forwards interrupts
          enabled,   \* the lines the guest has enabled
          masked,    \* the lines the kernel holds back until it gets an ack
          waiting,   \* the lines whose event has not reached the VMM
          pending,   \* the lines whose pending flag is set
          resident,  \* the lines whose interrupt the guest has yet to complete
          halted     \* the VMM has stopped and promises nothing any more

vars == <<on, enabled, masked, waiting, pending, resident, halted>>

Init ==
    /\ on = FALSE
    /\ enabled = {}
    /\ masked \in SUBSET (Lines \ Vppis)
    /\ waiting = masked
    /\ pending = {}
    /\ resident = {}
    /\ halted = FALSE

(* "seL4 disables the IRQ and sends an async message". *)
Fire(irq) ==
    /\ irq \notin masked
    /\ masked' = masked \cup {irq}
    /\ waiting' = waiting \cup {irq}
    /\ UNCHANGED <<on, enabled, pending, resident, halted>>

(* c), enabled: "we set the pending flag in the VM and inject". *)
Accept(irq) ==
    /\ irq \in waiting
    /\ on /\ irq \in enabled
    /\ waiting' = waiting \ {irq}
    /\ pending' = pending \cup {irq}
    /\ resident' = resident \cup {irq}
    /\ UNCHANGED <<on, enabled, masked, halted>>

(* c), disabled: "the VMM takes no further action, leading to state b)",   *)
(* but for a VPPI event, which is acknowledged at once.                    *)
Drop(irq) ==
    /\ irq \in waiting
    /\ ~(on /\ irq \in enabled)
    /\ waiting' = waiting \ {irq}
    /\ masked' = IF irq \in Vppis THEN masked \ {irq} ELSE masked
    /\ UNCHANGED <<on, enabled, pending, resident, halted>>

(* b): acknowledged unless it is pending. *)
Enable(irq) ==
    /\ enabled' = enabled \cup {irq}
    /\ masked' = IF irq \in pending THEN masked ELSE masked \ {irq}
    /\ UNCHANGED <<on, waiting, pending, resident, halted>>

(* g): "We allow this IRQ to be delivered". *)
Disable(irq) ==
    /\ enabled' = enabled \ {irq}
    /\ UNCHANGED <<on, masked, waiting, pending, resident, halted>>

(* d): "it clears the pending flag and acks the IRQ with seL4".  A guest   *)
(* that cleared the flag itself may have the IRQ in two places.            *)
Complete(irq) ==
    /\ irq \in resident
    /\ pending' = pending \ {irq}
    /\ masked' = masked \ {irq}
    /\ resident' \in {resident, resident \ {irq}}
    /\ UNCHANGED <<on, enabled, waiting, halted>>

(* The guest switches the distributor and writes the pending registers. *)
Switch == on' \in BOOLEAN /\ UNCHANGED <<enabled, masked, waiting, pending, resident, halted>>

SetPending(irq) ==
    /\ on /\ irq \in enabled
    /\ pending' = pending \cup {irq}
    /\ resident' = resident \cup {irq}
    /\ UNCHANGED <<on, enabled, masked, waiting, halted>>

ClearPending(irq) ==
    /\ pending' = pending \ {irq}
    /\ UNCHANGED <<on, enabled, masked, waiting, resident, halted>>

(* A failed assertion of the VMM, part of the way through a step. *)
Halt == halted' = TRUE

Next ==
    \/ /\ ~halted
       /\ \/ Switch
          \/ \E irq \in Lines :
                \/ Fire(irq)
                \/ Accept(irq)
                \/ Drop(irq)
                \/ Enable(irq)
                \/ Disable(irq)
                \/ Complete(irq)
                \/ SetPending(irq)
                \/ ClearPending(irq)
    \/ Halt

Spec == Init /\ [][Next]_vars
=============================================================================
