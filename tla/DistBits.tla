------------------------------ MODULE DistBits ------------------------------
(***************************************************************************)
(* What the distributor's register file promises the rest of the driver:   *)
(* one enable bit and one pending bit per IRQ, each changed by the         *)
(* operation on that IRQ.  VgicOps keeps these bits as sets of IRQs;       *)
(* DistRegs shows how far the memory layout of struct gic_dist_map         *)
(* implements them.  A GICv3 starts with its SGIs disabled and can disable *)
(* them.  On odroidc2 the acknowledgement of the serial IRQ, which is part *)
(* of enabling and of completing it, makes IRQ 1 pending; nothing else     *)
(* reaches an IRQ it does not name.                                        *)
(***************************************************************************)
EXTENDS Integers

CONSTANTS IRQS, Registered

VARIABLES board,    \* the board, for good
          on, enable, pending

vars == <<board, on, enable, pending>>

v3 == board = "imx8mm_evk"

(* What acknowledging an IRQ makes pending, with these IRQs enabled. *)
AckPends(irq, enabled) ==
    IF /\ board = "odroidc2" /\ irq = 225
       /\ on /\ 1 \in Registered \cap enabled
    THEN {1} ELSE {}

Init ==
    /\ board \in {"qemu_arm_virt_hyp", "odroidc2", "imx8mm_evk"}
    /\ on = FALSE
    /\ enable = {irq \in IRQS : irq < 16 /\ ~v3}
    /\ pending = {}

Switch == on' \in BOOLEAN /\ UNCHANGED <<board, enable, pending>>

(* A line that is enabled with no interrupt of its own outstanding is      *)
(* acknowledged.                                                           *)
Enable(irq) ==
    /\ enable' = enable \cup {irq}
    /\ pending' = pending \cup (IF irq \in Registered \ pending
                                THEN AckPends(irq, enable \cup {irq}) ELSE {})
    /\ UNCHANGED <<board, on>>

Disable(irq) ==
    /\ irq >= 16 \/ v3
    /\ enable' = enable \ {irq}
    /\ UNCHANGED <<board, on, pending>>

SetPending(irq) ==
    /\ on
    /\ irq \in Registered \cap enable
    /\ pending' = pending \cup {irq}
    /\ UNCHANGED <<board, on, enable>>

ClearPending(irq) == pending' = pending \ {irq} /\ UNCHANGED <<board, on, enable>>

Complete(irq) ==
    /\ irq \in Registered
    /\ pending' = (pending \ {irq}) \cup AckPends(irq, enable)
    /\ UNCHANGED <<board, on, enable>>

Next ==
    \/ Switch
    \/ \E irq \in IRQS :
          \/ Enable(irq)
          \/ Disable(irq)
          \/ SetPending(irq)
          \/ ClearPending(irq)
          \/ Complete(irq)

Spec == Init /\ [][Next]_vars
=============================================================================
