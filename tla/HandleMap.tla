----------------------------- MODULE HandleMap -----------------------------
(***************************************************************************)
(* What registering interrupts promises: every IRQ has at most one handle, *)
(* the first one registered, and keeps it.  A local IRQ is refused a       *)
(* second handle.  An SPI is not, but the call uses up room that another   *)
(* SPI could have had.                                                     *)
(***************************************************************************)
EXTENDS Integers

CONSTANTS LocalIrqs, SpiIrqs, AckFns, NoHandle,
          Room           \* how many registrations of SPIs succeed

VARIABLES handle,   \* the ack function of each IRQ
          used,     \* the room taken
          result    \* whether the last registration succeeded

vars == <<handle, used, result>>

Init ==
    /\ handle = [irq \in LocalIrqs \cup SpiIrqs |-> NoHandle]
    /\ used = 0
    /\ result = TRUE

RegisterLocal(irq, ack) ==
    /\ result' = (handle[irq] = NoHandle)
    /\ handle' = IF handle[irq] = NoHandle THEN [handle EXCEPT ![irq] = ack] ELSE handle
    /\ UNCHANGED used

RegisterSpi(irq, ack) ==
    /\ used < Room
    /\ result' = TRUE
    /\ used' = used + 1
    /\ handle' = IF handle[irq] = NoHandle THEN [handle EXCEPT ![irq] = ack] ELSE handle

Refuse == used = Room /\ result' = FALSE /\ UNCHANGED <<handle, used>>

Next ==
    \/ \E ack \in AckFns :
          \/ \E irq \in LocalIrqs : RegisterLocal(irq, ack)
          \/ \E irq \in SpiIrqs : RegisterSpi(irq, ack)
    \/ Refuse

Spec == Init /\ [][Next]_vars
=============================================================================
