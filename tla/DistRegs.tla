------------------------------ MODULE DistRegs ------------------------------
(***************************************************************************)
(* The memory behind the emulated distributor (struct gic_dist_map in      *)
(* vgic_v2.h and vgic_v3.h, which agree on these offsets) and the guest's  *)
(* loads and stores of it, on GICv3 through the redistributor too: the     *)
(* address decoding of vdist.h and vgic_v3.c, the width, mask and shift of *)
(* fault.c, and the bit accessors the rest of the driver uses.             *)
(*                                                                         *)
(* A guest is a record: its board, the register banks and the IRQs whose   *)
(* bits it accesses, the widths in bytes, the values of its operand        *)
(* register, and whether it loads into the zero register, to discard.      *)
(*                                                                         *)
(* A 32- or 64-bit value is the set of its one bits.  The memory is a      *)
(* function from word numbers (byte offset / 4) to 32-bit values, for the  *)
(* control register and the registers with one bit per IRQ; the read-only  *)
(* and the unused registers hold no state.  NUM_VCPUS is 1.                *)
(***************************************************************************)
EXTENDS Integers, FiniteSetsExt

CONSTANTS IRQS,         \* the IRQs of the properties
          Registered,   \* those with a handle
          Guests        \* the guests, see above

ASSUME IrqsAssumption == IRQS \subseteq 0 .. 1023 /\ Registered \subseteq IRQS

Bits32 == 0 .. 31
Bits64 == 0 .. 63

NUM_SGI_VIRQS        == 16
NUM_VCPU_LOCAL_VIRQS == 32

(* The boards of vmm.c; the Makefile builds the GICv3 driver for the last. *)
Boards == {"qemu_arm_virt_hyp", "odroidc2", "imx8mm_evk"}
Gic(board) == IF board = "imx8mm_evk" THEN "GICv3" ELSE "GICv2"

(* The serial line of odroidc2, and its channel number. *)
SERIAL_IRQ    == 225
SERIAL_IRQ_CH == 1

(* The value that switches the distributor on, by its one bits. *)
GIC_ENABLED(gic) == IF gic = "GICv3" THEN {0, 1, 4} ELSE {0}

(* The register banks with one bit per IRQ, by their first byte offset. *)
Base == [IGROUPR   |-> 128, ISENABLER |-> 256, ICENABLER |-> 384, ISPENDR |-> 512,
         ICPENDR   |-> 640, ISACTIVER |-> 768, ICACTIVER |-> 896]
Banks == DOMAIN Base

(* The redistributor's registers for the local IRQs. *)
RedistBase == [GICR_IGROUPR0   |-> 65664, GICR_ISENABLER0 |-> 65792,
               GICR_ICENABLER0 |-> 65920, GICR_ICACTIVER0 |-> 66432]
RedistBanks == DOMAIN RedistBase

(* A bank in struct gic_dist_map is a word for the 32 local IRQs followed  *)
(* by an array of 31.  The struct has no padding: element 31 of the array, *)
(* past its end, is the next bank's first word.                            *)
local_word(bank) == Base[bank] \div 4
array_word(bank, i) == Base[bank] \div 4 + 1 + i

(* The redistributor's registers are accessed by words, as GICv3 requires. *)
ASSUME GuestsAssumption ==
    \A g \in Guests :
        /\ g.board \in Boards
        /\ g.banks \subseteq Banks \cup {"CTLR"} \cup RedistBanks
        /\ g.banks \cap RedistBanks # {} => g.board = "imx8mm_evk" /\ g.widths = {4}
        /\ g.irqs \subseteq 0 .. 1023
        /\ g.widths \subseteq {1, 2, 4, 8}
        /\ g.values \subseteq SUBSET (0 .. 63)
        /\ g.zr \in BOOLEAN

CtlrWord == 0
Words == {CtlrWord} \cup (32 .. 255)

----------------------------------------------------------------------------
(* The accessors of vdist.h. *)
IRQ_IDX(irq) == irq \div 32
IRQ_BIT(irq) == irq % 32

irq_word(bank, irq) ==
    IF irq < NUM_VCPU_LOCAL_VIRQS THEN local_word(bank)
    ELSE array_word(bank, IRQ_IDX(irq))

is_pending(d, irq) == IRQ_BIT(irq) \in d[irq_word("ISPENDR", irq)]
is_enabled(d, irq) == IRQ_BIT(irq) \in d[irq_word("ISENABLER", irq)]

(* The set and the clear register both hold the bit. *)
set_pending(d, irq) ==
    [d EXCEPT ![irq_word("ISPENDR", irq)] = @ \cup {IRQ_BIT(irq)},
              ![irq_word("ICPENDR", irq)] = @ \cup {IRQ_BIT(irq)}]
unset_pending(d, irq) ==
    [d EXCEPT ![irq_word("ISPENDR", irq)] = @ \ {IRQ_BIT(irq)},
              ![irq_word("ICPENDR", irq)] = @ \ {IRQ_BIT(irq)}]
set_enable(d, irq) ==
    [d EXCEPT ![irq_word("ISENABLER", irq)] = @ \cup {IRQ_BIT(irq)},
              ![irq_word("ICENABLER", irq)] = @ \cup {IRQ_BIT(irq)}]
(* The clear register keeps the bit. *)
MutantKeepsClr(d, irq) ==
    [d EXCEPT ![irq_word("ISENABLER", irq)] = @ \ {IRQ_BIT(irq)}]
unset_enable(d, irq) ==
    [d EXCEPT ![irq_word("ISENABLER", irq)] = @ \ {IRQ_BIT(irq)},
              ![irq_word("ICENABLER", irq)] = @ \ {IRQ_BIT(irq)}]

(* GICv3 looks at the bit of group 1 and switches that and ARE_S. *)
vgic_dist_is_enabled(gic, d) ==
    IF gic = "GICv3" THEN 1 \in d[CtlrWord] ELSE d[CtlrWord] = GIC_ENABLED(gic)
vgic_dist_enable(gic, d) ==
    [d EXCEPT ![CtlrWord] = IF gic = "GICv3" THEN @ \cup {1, 4} ELSE GIC_ENABLED(gic)]
vgic_dist_disable(gic, d) ==
    [d EXCEPT ![CtlrWord] = IF gic = "GICv3" THEN @ \ {1, 4} ELSE {}]

(* The effect on the register file of injecting an IRQ. *)
vgic_dist_set_pending_irq(gic, d, irq) ==
    IF /\ irq \in Registered
       /\ vgic_dist_is_enabled(gic, d)
       /\ is_enabled(d, irq)
       /\ ~is_pending(d, irq)
    THEN set_pending(d, irq) ELSE d

(* The ack_fn of a line.  On odroidc2 serial_ack() injects an IRQ whose    *)
(* number is the channel's; the others leave the register file alone.      *)
virq_ack(board, d, irq) ==
    IF board = "odroidc2" /\ irq = SERIAL_IRQ
    THEN vgic_dist_set_pending_irq(Gic(board), d, SERIAL_IRQ_CH) ELSE d

(* Enabling acknowledges a line whether or not it is pending. *)
MutantAlwaysAcks(board, d, irq) ==
    IF irq \in Registered THEN virq_ack(board, set_enable(d, irq), irq) ELSE set_enable(d, irq)
(* Enabling a line acknowledges it, unless its interrupt is pending. *)
vgic_dist_enable_irq(board, d, irq) ==
    LET e == set_enable(d, irq)
    IN  IF irq \in Registered /\ ~is_pending(e, irq) THEN virq_ack(board, e, irq) ELSE e

vgic_dist_disable_irq(d, irq) ==
    IF irq >= NUM_SGI_VIRQS THEN unset_enable(d, irq) ELSE d

(* Every bit is zero but 16 of two words: on GICv2 the SGIs are enabled;   *)
(* GICv3 sets the first words of the arrays, which no accessor looks at.   *)
vgic_dist_reset(gic) ==
    LET words == IF gic = "GICv3"
                 THEN {array_word("ISENABLER", 0), array_word("ICENABLER", 0)}
                 ELSE {local_word("ISENABLER"), local_word("ICENABLER")}
    IN  [w \in Words |-> IF w \in words THEN 0 .. NUM_SGI_VIRQS - 1 ELSE {}]

----------------------------------------------------------------------------
(* fault.c: masks and shifts of an access of width bytes at addr.  The     *)
(* accesses to device memory are aligned, so its assertions hold.          *)
ShiftLeft(v, s)  == {b + s : b \in v} \cap Bits64
ShiftRight(v, s) == {b - s : b \in {c \in v : c >= s}}
AddrShift(addr)  == (addr % 4) * 8

(* Every access is taken for a byte access. *)
MutantByteMask(addr, width) == ShiftLeft(0 .. 7, AddrShift(addr))
fault_get_data_mask(addr, width) ==
    ShiftLeft(IF width = 8 THEN Bits64 ELSE 0 .. 8 * width - 1, AddrShift(addr))

(* The lane is not moved to, or from, the low bits. *)
MutantNoShift(reg, addr, width, reg_val, read) ==
    LET m == fault_get_data_mask(addr, width)
    IN  (reg \ m) \cup (reg_val \cap m)
fault_emulate(reg, addr, width, reg_val, read) ==
    LET s == AddrShift(addr)
        m == fault_get_data_mask(addr, width)
    IN  IF read
        THEN (reg \ ShiftRight(m, s)) \cup ShiftRight(reg_val \cap m, s)
        ELSE (reg \ m) \cup (ShiftLeft(reg_val, s) \cap m)

(* The word a load or an emulated store of a byte offset gets. *)
reg_word(bank, offset) ==
    IF offset < Base[bank] + 4 THEN local_word(bank)
    ELSE array_word(bank, (offset - (Base[bank] + 4)) \div 4)

(* The redistributor has no memory of its own for the local IRQs. *)
redist_word(bank) ==
    CASE bank = "GICR_IGROUPR0"   -> local_word("IGROUPR")
      [] bank = "GICR_ICACTIVER0" -> local_word("ISACTIVER")

register_word(bank, offset) ==
    CASE bank = "CTLR"         -> CtlrWord
      [] bank \in RedistBanks -> redist_word(bank)
      [] OTHER                 -> reg_word(bank, offset)

(* Bit b of a word stored at offset is this IRQ's. *)
MutantNoOffset(bank, offset, b) == b
irq_of_bit(bank, offset, b) ==
    IF bank \in RedistBanks THEN b ELSE b + (offset - Base[bank]) * 8

----------------------------------------------------------------------------
VARIABLES guest,  \* the guest, one of Guests, for good
          dist,   \* the memory
          acc,    \* the guest's faulting access and how far its handler is
          rt,     \* the operand register of the guest's instruction
          wzr     \* what fault.c keeps for the zero register

vars == <<guest, dist, acc, rt, wzr>>

NoAccess == [op |-> "none", bank |-> "CTLR", offset |-> 0, width |-> 4,
             zr |-> FALSE, data |-> {}]
Access(op, bank, offset, width, zr) ==
    [op |-> op, bank |-> bank, offset |-> offset, width |-> width, zr |-> zr,
     data |-> {}]

(* The aligned offsets the guest accesses: those with the bit of an IRQ. *)
Offsets(bank, width) ==
    CASE bank = "CTLR" -> {0}
      [] bank \in RedistBanks -> {RedistBase[bank]}
      [] OTHER -> {Base[bank] + ((irq \div 8) \div width) * width : irq \in guest.irqs}

EmulatedBanks == {"IGROUPR", "ISACTIVER", "ICACTIVER", "GICR_IGROUPR0", "GICR_ICACTIVER0"}
SetClearBanks == {"ISENABLER", "ICENABLER", "ISPENDR", "ICPENDR",
                  "GICR_ISENABLER0", "GICR_ICENABLER0"}
(* handle_vgic_redist_read_fault does not know these. *)
UnreadableBanks == RedistBanks \ {"GICR_IGROUPR0"}

fault_get_data == IF acc.zr THEN wzr ELSE rt

Init ==
    /\ guest \in Guests
    /\ dist = vgic_dist_reset(Gic(guest.board))
    /\ acc = NoAccess
    /\ rt = {}
    /\ wzr = {}

----------------------------------------------------------------------------
(* The guest executes a load or a store, which faults. *)
GuestStores(bank, offset, width, v) ==
    /\ acc.op = "none"
    /\ rt' = v
    /\ acc' = Access("store", bank, offset, width, FALSE)
    /\ UNCHANGED <<guest, dist, wzr>>

GuestStoresZr(bank, offset, width) ==
    /\ acc.op = "none"
    /\ acc' = Access("store", bank, offset, width, TRUE)
    /\ UNCHANGED <<guest, dist, rt, wzr>>

GuestLoads(bank, offset, width, zr) ==
    /\ acc.op = "none"
    /\ zr => guest.zr
    /\ acc' = Access("load", bank, offset, width, zr)
    /\ UNCHANGED <<guest, dist, rt, wzr>>

(* vgic_dist_reg_read, handle_vgic_redist_read_fault and fault_advance. *)
HandleLoad ==
    /\ acc.op = "load" /\ acc.bank \notin UnreadableBanks
    /\ LET mask == fault_get_data_mask(acc.offset, acc.width) \cap Bits32
           new  == fault_emulate(fault_get_data, acc.offset, acc.width,
                                 dist[register_word(acc.bank, acc.offset)] \cap mask, TRUE)
       IN  IF acc.zr THEN wzr' = new /\ UNCHANGED rt
           ELSE rt' = new /\ UNCHANGED wzr
    /\ acc' = NoAccess
    /\ UNCHANGED <<guest, dist>>

(* A register that is not known is stepped over: the operand stays. *)
HandleUnknownLoad ==
    /\ acc.op = "load" /\ acc.bank \in UnreadableBanks
    /\ acc' = NoAccess
    /\ UNCHANGED <<guest, dist, rt, wzr>>

(* A store to GICD_CTLR looks at the whole operand. *)
HandleCtlrStore ==
    /\ acc.op = "store" /\ acc.bank = "CTLR"
    /\ LET data == fault_get_data \cap Bits32
       IN  dist' = CASE data = GIC_ENABLED(Gic(guest.board)) -> vgic_dist_enable(Gic(guest.board), dist)
                     [] data = {} -> vgic_dist_disable(Gic(guest.board), dist)
                     [] OTHER -> dist
    /\ acc' = NoAccess
    /\ UNCHANGED <<guest, rt, wzr>>

(* The value is stored without the truncation to uint32_t. *)
MutantNoTruncation ==
    /\ acc.op = "store" /\ acc.bank \in EmulatedBanks
    /\ dist' = [dist EXCEPT ![register_word(acc.bank, acc.offset)] =
                    fault_emulate(@, acc.offset, acc.width, fault_get_data, FALSE)]
    /\ acc' = NoAccess
    /\ UNCHANGED <<guest, rt, wzr>>
(* emulate_reg_write_access: group and active registers are plain memory. *)
HandleEmulatedStore ==
    /\ acc.op = "store" /\ acc.bank \in EmulatedBanks
    /\ dist' = [dist EXCEPT ![register_word(acc.bank, acc.offset)] =
                    fault_emulate(@, acc.offset, acc.width, fault_get_data, FALSE)
                        \cap Bits32]
    /\ acc' = NoAccess
    /\ UNCHANGED <<guest, rt, wzr>>

(* A store to a set or clear register: the operand is masked, then each of *)
(* its bits, lowest first, is an operation on one IRQ.                     *)
BeginStore ==
    /\ acc.op = "store" /\ acc.bank \in SetClearBanks
    /\ acc' = [acc EXCEPT
                  !.op = "loop",
                  !.data = fault_get_data \cap Bits32
                               \cap fault_get_data_mask(acc.offset, acc.width)]
    /\ UNCHANGED <<guest, dist, rt, wzr>>

StoreBit(bank, result(_, _)) ==
    /\ acc.op = "loop" /\ acc.bank = bank /\ acc.data # {}
    /\ dist' = result(dist, irq_of_bit(bank, acc.offset, Min(acc.data)))
    /\ acc' = [acc EXCEPT !.data = @ \ {Min(@)}]
    /\ UNCHANGED <<guest, rt, wzr>>

StoreIsenabler ==
    StoreBit("ISENABLER", LAMBDA d, irq : vgic_dist_enable_irq(guest.board, d, irq))
StoreIcenabler == StoreBit("ICENABLER", vgic_dist_disable_irq)
StoreIcpendr   == StoreBit("ICPENDR", unset_pending)

(* handle_vgic_redist_write_fault: a clear reaches the bits of the SGIs. *)
StoreGicrIsenabler0 ==
    StoreBit("GICR_ISENABLER0", LAMBDA d, irq : vgic_dist_enable_irq(guest.board, d, irq))
StoreGicrIcenabler0 == StoreBit("GICR_ICENABLER0", unset_enable)

(* virq_find_irq_data returns NULL for an SPI without a handle, and the    *)
(* VMM faults on it.                                                       *)
HandleIsNull ==
    LET irq == irq_of_bit("ISPENDR", acc.offset, Min(acc.data))
    IN  irq >= NUM_VCPU_LOCAL_VIRQS /\ irq \notin Registered

StoreIspendr ==
    /\ StoreBit("ISPENDR", LAMBDA d, irq : vgic_dist_set_pending_irq(Gic(guest.board), d, irq))
    /\ ~HandleIsNull

StoreIspendrFaults ==
    /\ acc.op = "loop" /\ acc.bank = "ISPENDR" /\ acc.data # {}
    /\ HandleIsNull
    /\ acc' = [acc EXCEPT !.op = "stopped"]
    /\ UNCHANGED <<guest, dist, rt, wzr>>

Stopped == acc.op = "stopped" /\ UNCHANGED vars

EndStore ==
    /\ acc.op = "loop" /\ acc.data = {}
    /\ acc' = NoAccess
    /\ UNCHANGED <<guest, dist, rt, wzr>>

(* Between two faults the VMM injects an IRQ, or clears the flag of one    *)
(* the guest has completed and acknowledges it.                            *)
Inject(irq) ==
    /\ acc.op \notin {"loop", "stopped"}
    /\ dist' = vgic_dist_set_pending_irq(Gic(guest.board), dist, irq)
    /\ UNCHANGED <<guest, acc, rt, wzr>>

Complete(irq) ==
    /\ acc.op \notin {"loop", "stopped"}
    /\ dist' = virq_ack(guest.board, unset_pending(dist, irq), irq)
    /\ UNCHANGED <<guest, acc, rt, wzr>>

----------------------------------------------------------------------------
GuestStep ==
    \E bank \in guest.banks, width \in guest.widths :
        \E offset \in Offsets(bank, width) :
            \/ \E v \in guest.values : GuestStores(bank, offset, width, v)
            \/ GuestStoresZr(bank, offset, width)
            \/ \E zr \in BOOLEAN : GuestLoads(bank, offset, width, zr)

HandlerStep ==
    \/ HandleLoad
    \/ HandleUnknownLoad
    \/ HandleCtlrStore
    \/ HandleEmulatedStore
    \/ BeginStore
    \/ StoreIsenabler
    \/ StoreIcenabler
    \/ StoreIspendr
    \/ StoreIspendrFaults
    \/ StoreIcpendr
    \/ StoreGicrIsenabler0
    \/ StoreGicrIcenabler0
    \/ EndStore

Next ==
    \/ GuestStep
    \/ HandlerStep
    \/ \E irq \in Registered : Inject(irq) \/ Complete(irq)
    \/ Stopped

Spec == Init /\ [][Next]_vars

----------------------------------------------------------------------------
(* Properties *)

(* The memory holds words, and a register write in progress has bits left  *)
(* of one word: the values vgic_dist_reg_write() and emulate_reg_write_    *)
(* access() store are truncated to a register's width.                     *)
TypeOK ==
    /\ guest \in Guests
    /\ dist \in [Words -> SUBSET Bits32]
    /\ acc.op \in {"none", "load", "store", "loop", "stopped"}
    /\ acc.bank \in guest.banks \cup {"CTLR"}
    /\ acc.width \in {1, 2, 4, 8}
    /\ acc.offset \in Nat
    /\ acc.zr \in BOOLEAN
    /\ acc.data \in SUBSET Bits32
    /\ rt \in SUBSET Bits64
    /\ wzr \in SUBSET Bits64

(* The set and the clear register of every IRQ agree, so the guest reads   *)
(* the same enable and pending state from either.                          *)
ClearViewAgrees ==
    \A irq \in IRQS :
        /\ is_enabled(dist, irq)
              <=> IRQ_BIT(irq) \in dist[irq_word("ICENABLER", irq)]
        /\ is_pending(dist, irq)
              <=> IRQ_BIT(irq) \in dist[irq_word("ICPENDR", irq)]

(* The IRQs that a store addresses: those of the bytes at its offset. *)
Addressed ==
    {irq_number \in 0 .. 1023 :
        LET b == irq_number - 8 * (IF acc.bank \in RedistBanks THEN 0
                                   ELSE acc.offset - Base[acc.bank])
        IN  ~acc.zr /\ b \in rt /\ b < 8 * acc.width}

(* When a store to a set or clear register ends, every IRQ it addressed    *)
(* has been enabled, disabled, made pending or cleared (the loops of       *)
(* vgic_dist_reg_write).                                                   *)
StoreTakesEffect ==
    acc.op = "loop" /\ acc.data = {} =>
        \A irq \in IRQS \cap Addressed :
            /\ acc.bank \in {"ISENABLER", "GICR_ISENABLER0"} => is_enabled(dist, irq)
            /\ acc.bank = "ICENABLER" => irq < NUM_SGI_VIRQS \/ ~is_enabled(dist, irq)
            /\ acc.bank = "GICR_ICENABLER0" => ~is_enabled(dist, irq)
            /\ acc.bank = "ISPENDR" =>
                  \/ is_pending(dist, irq)
                  \/ irq \notin Registered
                  \/ ~vgic_dist_is_enabled(Gic(guest.board), dist)
                  \/ ~is_enabled(dist, irq)
            /\ acc.bank = "ICPENDR" => ~is_pending(dist, irq)

(* The IRQ that the acknowledgement inside a store injects: IRQ 1, when    *)
(* the store enables the serial line of odroidc2 and the distributor       *)
(* accepts IRQ 1.                                                          *)
InjectedByAck(irq) ==
    /\ guest.board = "odroidc2" /\ irq = SERIAL_IRQ_CH
    /\ acc.bank = "ISENABLER" /\ SERIAL_IRQ \in Addressed \cap Registered
    /\ irq \in Registered /\ is_enabled(dist, irq)
    /\ vgic_dist_is_enabled(Gic(guest.board), dist)

(* A store to a set or clear register leaves the enable bit of every IRQ   *)
(* it did not address as it was, and the pending bit too; the one          *)
(* exception is the IRQ that serial_ack() injects on odroidc2, which may   *)
(* become pending.                                                         *)
StoreTouchesOnly ==
    [][acc.op = "loop" =>
          \A irq \in IRQS \ Addressed :
              /\ is_enabled(dist', irq) = is_enabled(dist, irq)
              /\ \/ is_pending(dist', irq) = is_pending(dist, irq)
                 \/ InjectedByAck(irq) /\ is_pending(dist', irq)]_vars

(* The memory behaves as one enable and one pending bit per IRQ, which is  *)
(* how VgicOps represents it, the injection inside serial_ack() included.  *)
Bits == INSTANCE DistBits
            WITH board <- guest.board,
                 on <- vgic_dist_is_enabled(Gic(guest.board), dist),
                 enable <- {irq \in IRQS : is_enabled(dist, irq)},
                 pending <- {irq \in IRQS : is_pending(dist, irq)}
ImplementsBits == Bits!Spec

(* A load of a byte, a halfword or a word delivers the bytes at its offset *)
(* in the low bytes of the operand register (fault_emulate on a read).  Of *)
(* a doubleword only the lower word is emulated; this says nothing of it.  *)
LoadedLanes ==
    [][HandleLoad /\ ~acc.zr /\ acc.bank # "CTLR" /\ acc.width <= 4 =>
          \A b \in 0 .. 8 * acc.width - 1 :
              b \in rt' <=>
                  b + AddrShift(acc.offset) \in dist[register_word(acc.bank, acc.offset)]]_vars

(* A store of a byte, a halfword or a word to a group or active register   *)
(* changes the bytes at its offset to the low bytes of the operand and no  *)
(* other bit of the memory (fault_emulate on a write).                     *)
StoredLanes ==
    [][HandleEmulatedStore /\ ~acc.zr /\ acc.width <= 4 =>
          \A w \in Words, b \in Bits32 :
              LET lane == b - AddrShift(acc.offset)
              IN  b \in dist'[w] <=>
                      IF /\ w = register_word(acc.bank, acc.offset)
                         /\ lane \in 0 .. 8 * acc.width - 1
                      THEN lane \in rt
                      ELSE b \in dist[w]]_vars

(* The guest reads the enable bit of an IRQ where the memory map of        *)
(* vgic_v2.h places it: bit irq % 32 of ISENABLER<irq / 32>.               *)
EnableReadsBack ==
    \A irq \in IRQS :
        is_enabled(dist, irq) <=>
            IRQ_BIT(irq) \in dist[reg_word("ISENABLER", Base["ISENABLER"] + 4 * (irq \div 32))]
=============================================================================
