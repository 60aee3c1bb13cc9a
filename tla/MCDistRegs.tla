----------------------------- MODULE MCDistRegs -----------------------------
(***************************************************************************)
(* The guests DistRegs is checked with.                                    *)
(***************************************************************************)
EXTENDS DistRegs

SetClearWords == {"CTLR", "ISENABLER", "ICENABLER", "ISPENDR", "ICPENDR"}

(* Words of the control, set and clear registers. *)
WordsV2 == [board |-> "qemu_arm_virt_hyp", banks |-> SetClearWords, irqs |-> {1, 33, 987},
            widths |-> {4}, values |-> {{0}, {1, 27}}, zr |-> FALSE]
(* The board whose serial line, IRQ 225, injects IRQ 1 when acknowledged. *)
WordsSerial == [board |-> "odroidc2", banks |-> SetClearWords, irqs |-> {1, 225},
                widths |-> {4}, values |-> {{0}, {1, 27}}, zr |-> FALSE]
WordsV3 == [board |-> "imx8mm_evk",
            banks |-> (SetClearWords \ {"ICPENDR"}) \cup {"GICR_ISENABLER0", "GICR_ICENABLER0"},
            irqs |-> {1, 33}, widths |-> {4}, values |-> {{0, 1, 4}, {1, 27}}, zr |-> FALSE]

(* Every width of the group registers, which are plain memory. *)
LanesV2 == [board |-> "qemu_arm_virt_hyp", banks |-> {"IGROUPR"}, irqs |-> {9, 33},
            widths |-> {1, 2, 4, 8}, values |-> {{0, 9, 40}}, zr |-> TRUE]
LanesV3 == [board |-> "imx8mm_evk",
            banks |-> {"GICR_IGROUPR0", "GICR_ICACTIVER0", "IGROUPR", "ISACTIVER"},
            irqs |-> {9, 33}, widths |-> {4}, values |-> {{0, 9, 40}}, zr |-> TRUE]

AllGuests == {WordsV2, WordsSerial, WordsV3, LanesV2, LanesV3}
WordGuest == {WordsV2}
=============================================================================
