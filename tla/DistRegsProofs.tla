--------------------------- MODULE DistRegsProofs ---------------------------
(***************************************************************************)
(* Theorems about the memory of the emulated distributor, for every guest: *)
(* its types and the bytes a load or an emulated store reaches; and, for   *)
(* guests that access the set and clear registers by words and for IRQs    *)
(* below 992, that the memory is one enable and one pending bit per IRQ.   *)
(***************************************************************************)
EXTENDS DistRegs, LeastElement

Memory == [Words -> SUBSET Bits32]

AllBanks == {"IGROUPR", "ISENABLER", "ICENABLER", "ISPENDR", "ICPENDR", "ISACTIVER",
             "ICACTIVER"}
AllRedistBanks == {"GICR_IGROUPR0", "GICR_ISENABLER0", "GICR_ICENABLER0", "GICR_ICACTIVER0"}

(* The offsets of the banks. *)
LEMMA BankBase ==
    /\ Banks = AllBanks
    /\ RedistBanks = AllRedistBanks
    /\ Base["IGROUPR"] = 128 /\ Base["ISENABLER"] = 256 /\ Base["ICENABLER"] = 384
    /\ Base["ISPENDR"] = 512 /\ Base["ICPENDR"] = 640 /\ Base["ISACTIVER"] = 768
    /\ Base["ICACTIVER"] = 896
    /\ RedistBase["GICR_IGROUPR0"] = 65664 /\ RedistBase["GICR_ISENABLER0"] = 65792
    /\ RedistBase["GICR_ICENABLER0"] = 65920 /\ RedistBase["GICR_ICACTIVER0"] = 66432
BY DEF Banks, RedistBanks, Base, RedistBase, AllBanks, AllRedistBanks

(* The bytes of a bank that an access can start at. *)
LEMMA ByteOffsets ==
    ASSUME NEW n \in 0 .. 1023
    PROVE  /\ ((n \div 8) \div 1) * 1 \in 0 .. 127
           /\ ((n \div 8) \div 2) * 2 \in 0 .. 127
           /\ ((n \div 8) \div 4) * 4 \in 0 .. 127
           /\ ((n \div 8) \div 8) * 8 \in 0 .. 127
           /\ (((n \div 8) \div 4) * 4) % 4 = 0
           /\ (((n \div 8) \div 8) * 8) % 4 = 0
           /\ n \in 0 .. 991 => ((n \div 8) \div 4) * 4 \in 0 .. 120
OBVIOUS

(* The types of the access and of the guest it belongs to. *)
AccessOK ==
    /\ acc \in [op : {"none", "load", "store", "loop", "stopped"},
                bank : AllBanks \cup AllRedistBanks \cup {"CTLR"},
                offset : Nat, width : {1, 2, 4, 8}, zr : BOOLEAN, data : SUBSET Bits32]
    /\ acc.op # "none" => /\ acc.bank \in guest.banks
                          /\ acc.width \in guest.widths
                          /\ acc.offset \in Offsets(acc.bank, acc.width)
    /\ acc.op = "load" /\ acc.zr => guest.zr
    /\ acc.op \in {"loop", "stopped"} => acc.bank \in SetClearBanks

(* Where an access of one bit per IRQ starts. *)
LEMMA OffsetIn ==
    ASSUME guest \in Guests, NEW bank \in AllBanks, NEW width \in {1, 2, 4, 8},
           NEW offset \in Offsets(bank, width)
    PROVE  /\ offset \in Base[bank] .. Base[bank] + 127
           /\ width \in {4, 8} => offset % 4 = 0
           /\ width = 4 /\ guest.irqs \subseteq 0 .. 991 =>
                 \E n \in 0 .. 30 : offset = Base[bank] + 4 * n
<1>1. bank \notin RedistBanks /\ bank # "CTLR"
  BY BankBase DEF AllBanks, AllRedistBanks
<1>2. PICK n \in guest.irqs : offset = Base[bank] + ((n \div 8) \div width) * width
  BY <1>1 DEF Offsets
<1>3. n \in 0 .. 1023
  BY GuestsAssumption
<1>4. Base[bank] \in {128, 256, 384, 512, 640, 768, 896}
  BY BankBase DEF AllBanks
<1>5. ((n \div 8) \div width) * width \in 0 .. 127
  BY <1>3, ByteOffsets
<1>6. width \in {4, 8} => offset % 4 = 0
  BY <1>2, <1>3, <1>4, ByteOffsets
<1>7. ASSUME width = 4, guest.irqs \subseteq 0 .. 991
      PROVE  \E k \in 0 .. 30 : offset = Base[bank] + 4 * k
  <2>1. n \in 0 .. 991
    BY <1>7
  <2>2. (n \div 8) \div 4 \in 0 .. 30
    BY <2>1
  <2>3. offset = Base[bank] + 4 * ((n \div 8) \div 4)
    BY <1>2, <1>4, <1>7, <2>2
  <2> QED BY <2>2, <2>3
<1> QED BY <1>2, <1>4, <1>5, <1>6, <1>7

----------------------------------------------------------------------------
(* Types, for every guest. *)

TypeInv == TypeOK /\ AccessOK

LEMMA BitsOf ==
    ASSUME NEW irq \in Int
    PROVE  IRQ_BIT(irq) \in Bits32
BY DEF IRQ_BIT, Bits32

(* Each operation on one bit leaves words. *)
LEMMA OpTypes ==
    ASSUME NEW d \in Memory, NEW irq \in Int, NEW board, NEW gic
    PROVE  /\ set_enable(d, irq) \in Memory
           /\ unset_enable(d, irq) \in Memory
           /\ set_pending(d, irq) \in Memory
           /\ unset_pending(d, irq) \in Memory
           /\ vgic_dist_disable_irq(d, irq) \in Memory
           /\ vgic_dist_set_pending_irq(gic, d, irq) \in Memory
           /\ virq_ack(board, d, irq) \in Memory
<1> DEFINE b == IRQ_BIT(irq)
<1>1. b \in Bits32 /\ IRQ_BIT(SERIAL_IRQ_CH) \in Bits32
  BY BitsOf DEF SERIAL_IRQ_CH
<1>2. \A v, w : [d EXCEPT ![v] = @ \cup {b}, ![w] = @ \cup {b}] \in Memory
  BY <1>1 DEF Memory
<1>3. \A v, w : [d EXCEPT ![v] = @ \ {b}, ![w] = @ \ {b}] \in Memory
  BY <1>1 DEF Memory
<1> HIDE DEF b
<1>4. set_enable(d, irq) \in Memory /\ set_pending(d, irq) \in Memory
  BY <1>2, Zenon DEF b, set_enable, set_pending
<1>5. unset_enable(d, irq) \in Memory /\ unset_pending(d, irq) \in Memory
  BY <1>3, Zenon DEF b, unset_enable, unset_pending
<1>6. set_pending(d, SERIAL_IRQ_CH) \in Memory
  <2> DEFINE c == IRQ_BIT(SERIAL_IRQ_CH)
  <2>1. \A v, w : [d EXCEPT ![v] = @ \cup {c}, ![w] = @ \cup {c}] \in Memory
    BY <1>1 DEF Memory
  <2> HIDE DEF c
  <2> QED BY <2>1, Zenon DEF c, set_pending
<1> QED BY <1>4, <1>5, <1>6 DEF vgic_dist_disable_irq, vgic_dist_set_pending_irq, virq_ack

LEMMA EnableTypes ==
    ASSUME NEW d \in Memory, NEW irq \in Int, NEW board
    PROVE  vgic_dist_enable_irq(board, d, irq) \in Memory
<1> DEFINE e == set_enable(d, irq)
<1>1. e \in Memory
  BY OpTypes
<1> HIDE DEF e
<1>2. virq_ack(board, e, irq) \in Memory
  BY <1>1, OpTypes
<1> QED BY <1>1, <1>2 DEF vgic_dist_enable_irq, e

(* Shifts by whole bytes stay inside 64 bits. *)
LEMMA Shifts ==
    ASSUME NEW v \in SUBSET Bits64, NEW s \in Nat
    PROVE  ShiftRight(v, s) \subseteq Bits64 /\ ShiftLeft(v, s) \subseteq Bits64
BY DEF ShiftRight, ShiftLeft, Bits64

LEMMA AddrShiftIn ==
    ASSUME NEW addr \in Nat
    PROVE  AddrShift(addr) \in {0, 8, 16, 24}
BY DEF AddrShift

LEMMA TypeInit == Init => TypeInv
<1> SUFFICES ASSUME Init PROVE TypeInv
  OBVIOUS
<1>1. vgic_dist_reset(Gic(guest.board)) \in Memory
  BY DEF vgic_dist_reset, Memory, Bits32, NUM_SGI_VIRQS
<1> QED BY <1>1 DEF Init, TypeInv, TypeOK, AccessOK, NoAccess, Memory

(* The IRQ of a bit of a store in progress. *)
LEMMA LoopBit ==
    ASSUME TypeInv, acc.op = "loop", acc.data # {}
    PROVE  /\ Min(acc.data) \in acc.data
           /\ Min(acc.data) \in Bits32
           /\ irq_of_bit(acc.bank, acc.offset, Min(acc.data)) \in Int
<1>1. acc.data \in SUBSET Nat /\ acc.data \in SUBSET Bits32
  BY DEF TypeInv, TypeOK, Bits32
<1>2. Min(acc.data) \in acc.data
  BY <1>1, MinNat
<1>3. acc.bank \in AllBanks \cup AllRedistBanks /\ acc.offset \in Nat
  BY DEF TypeInv, AccessOK, SetClearBanks, AllBanks, AllRedistBanks
<1>4. acc.bank \in AllBanks => Base[acc.bank] \in Nat
  BY BankBase DEF AllBanks
<1> QED BY <1>1, <1>2, <1>3, <1>4, BankBase DEF irq_of_bit, Bits32

LEMMA TypeStep == TypeInv /\ [Next]_vars => TypeInv'
<1> SUFFICES ASSUME TypeInv, [Next]_vars PROVE TypeInv'
  OBVIOUS
<1> USE DEF TypeInv
<1>0. dist \in Memory /\ guest \in Guests /\ acc.offset \in Nat
  BY DEF TypeOK, Memory, AccessOK
<1>1. ASSUME NEW bank \in guest.banks, NEW width \in guest.widths,
             NEW offset \in Offsets(bank, width),
             \/ \E v \in guest.values : GuestStores(bank, offset, width, v)
             \/ GuestStoresZr(bank, offset, width)
             \/ \E zr \in BOOLEAN : GuestLoads(bank, offset, width, zr)
      PROVE  TypeInv'
  <2>1. /\ bank \in AllBanks \cup AllRedistBanks \cup {"CTLR"}
        /\ width \in {1, 2, 4, 8}
    BY <1>0, GuestsAssumption, BankBase
  <2>2. bank \in AllBanks => offset \in Nat
    <3>1. bank \in AllBanks => Base[bank] \in Nat
      BY BankBase DEF AllBanks
    <3> QED BY <3>1, <1>0, <2>1, OffsetIn
  <2>3. bank \notin AllBanks => offset \in Nat
    BY <2>1, BankBase DEF Offsets, AllBanks, AllRedistBanks
  <2>4. \A v \in guest.values : v \in SUBSET Bits64
    BY <1>0, GuestsAssumption DEF Bits64
  <2>5. PICK op \in {"load", "store"}, zr \in BOOLEAN :
             /\ acc' = Access(op, bank, offset, width, zr)
             /\ op = "load" /\ zr => guest.zr
    BY <1>1 DEF GuestStores, GuestStoresZr, GuestLoads
  <2>6. guest' = guest /\ dist' = dist /\ wzr' = wzr /\ rt' \in SUBSET Bits64
    BY <1>1, <2>4 DEF GuestStores, GuestStoresZr, GuestLoads, TypeOK
  <2>7. AccessOK'
    BY <2>1, <2>2, <2>3, <2>5, <2>6 DEF AccessOK, Access, Offsets
  <2> QED BY <2>1, <2>2, <2>3, <2>5, <2>6, <2>7 DEF Access, TypeOK
<1>2. ASSUME acc' = NoAccess, guest' = guest, dist' \in Memory, rt' \in SUBSET Bits64,
             wzr' \in SUBSET Bits64
      PROVE  TypeInv'
  BY <1>2, <1>0 DEF NoAccess, TypeOK, AccessOK, Memory
<1>3. ASSUME HandleLoad PROVE TypeInv'
  <2> DEFINE s == AddrShift(acc.offset)
             m == fault_get_data_mask(acc.offset, acc.width)
             x == dist[register_word(acc.bank, acc.offset)] \cap (m \cap Bits32)
             new == fault_emulate(fault_get_data, acc.offset, acc.width, x, TRUE)
  <2>1. s \in Nat
    BY <1>0, AddrShiftIn
  <2>2. x \cap m \in SUBSET Bits64
    BY DEF Bits32, Bits64
  <2>3. ShiftRight(x \cap m, s) \subseteq Bits64
    <3> HIDE DEF x, m, s
    <3> QED BY <2>1, <2>2, Shifts
  <2>4. fault_get_data \in SUBSET Bits64
    BY DEF fault_get_data, TypeOK
  <2>5. new \in SUBSET Bits64
    <3>1. new = (fault_get_data \ ShiftRight(m, s)) \cup ShiftRight(x \cap m, s)
      BY DEF fault_emulate
    <3> HIDE DEF new, m, s, x
    <3> QED BY <3>1, <2>3, <2>4
  <2>6. rt' \in {rt, new} /\ wzr' \in {wzr, new} /\ acc' = NoAccess /\ dist' = dist
        /\ guest' = guest
    BY <1>3 DEF HandleLoad
  <2> HIDE DEF new
  <2> QED BY <2>5, <2>6, <1>0, <1>2 DEF TypeOK
<1>4. ASSUME HandleUnknownLoad \/ EndStore PROVE TypeInv'
  BY <1>4, <1>0, <1>2 DEF HandleUnknownLoad, EndStore, TypeOK
<1>5. ASSUME HandleCtlrStore PROVE TypeInv'
  <2>1. vgic_dist_enable(Gic(guest.board), dist) \in Memory
    <3>1. dist[CtlrWord] \subseteq Bits32
      BY <1>0 DEF Memory, CtlrWord, Words
    <3>2. dist[CtlrWord] \cup {1, 4} \in SUBSET Bits32 /\ {0} \in SUBSET Bits32
      BY <3>1 DEF Bits32
    <3>3. \A v \in SUBSET Bits32 : [dist EXCEPT ![CtlrWord] = v] \in Memory
      BY <1>0 DEF Memory
    <3>4. Gic(guest.board) \in {"GICv2", "GICv3"}
      BY DEF Gic
    <3> QED BY <3>2, <3>3, <3>4 DEF vgic_dist_enable, GIC_ENABLED
  <2>2. vgic_dist_disable(Gic(guest.board), dist) \in Memory
    BY <1>0 DEF vgic_dist_disable, Memory
  <2>3. dist' \in Memory
    BY <1>5, <1>0, <2>1, <2>2 DEF HandleCtlrStore
  <2> QED BY <1>5, <1>2, <2>3 DEF HandleCtlrStore, TypeOK
<1>6. ASSUME HandleEmulatedStore PROVE TypeInv'
  <2>1. \A w, v : [dist EXCEPT ![w] = v \cap Bits32] \in Memory
    BY <1>0 DEF Memory
  <2>2. dist' \in Memory
    BY <1>6, <2>1, Zenon DEF HandleEmulatedStore
  <2> QED BY <1>6, <1>2, <2>2 DEF HandleEmulatedStore, TypeOK
<1>7. ASSUME BeginStore PROVE TypeInv'
  <2> DEFINE v == fault_get_data \cap Bits32 \cap fault_get_data_mask(acc.offset, acc.width)
  <2>1. v \in SUBSET Bits32
    OBVIOUS
  <2> HIDE DEF v
  <2>2. /\ acc' = [acc EXCEPT !.op = "loop", !.data = v]
        /\ acc.op = "store" /\ acc.bank \in SetClearBanks
        /\ UNCHANGED <<guest, dist, rt, wzr>>
    BY <1>7 DEF BeginStore, v
  <2>3. acc \in [op : {"none", "load", "store", "loop", "stopped"},
                 bank : AllBanks \cup AllRedistBanks \cup {"CTLR"},
                 offset : Nat, width : {1, 2, 4, 8}, zr : BOOLEAN, data : SUBSET Bits32]
    BY DEF AccessOK
  <2>4. acc' \in [op : {"none", "load", "store", "loop", "stopped"},
                  bank : AllBanks \cup AllRedistBanks \cup {"CTLR"},
                  offset : Nat, width : {1, 2, 4, 8}, zr : BOOLEAN, data : SUBSET Bits32]
    BY <2>1, <2>2, <2>3
  <2>5. /\ acc'.op = "loop" /\ acc'.bank = acc.bank /\ acc'.width = acc.width
        /\ acc'.offset = acc.offset
    BY <2>2, <2>3
  <2>6. acc'.offset \in Offsets(acc.bank, acc.width)'
    BY <2>2, <2>5 DEF AccessOK, Offsets
  <2>7. AccessOK'
    BY <2>2, <2>4, <2>5, <2>6 DEF AccessOK
  <2> QED BY <2>1, <2>2, <2>4, <2>5, <2>7 DEF TypeOK, AccessOK
<1>8. ASSUME acc.op = "loop", acc.data # {}, dist' \in Memory,
             acc' = [acc EXCEPT !.data = @ \ {Min(@)}], UNCHANGED <<guest, rt, wzr>>
      PROVE  TypeInv'
  BY <1>8 DEF TypeOK, AccessOK, Memory, Offsets
<1>9. ASSUME \/ StoreIsenabler \/ StoreIcenabler \/ StoreIspendr \/ StoreIcpendr
             \/ StoreGicrIsenabler0 \/ StoreGicrIcenabler0
      PROVE  TypeInv'
  <2> DEFINE irq == irq_of_bit(acc.bank, acc.offset, Min(acc.data))
  <2>1. acc.op = "loop" /\ acc.data # {}
    BY <1>9 DEF StoreIsenabler, StoreIcenabler, StoreIspendr, StoreIcpendr,
                StoreGicrIsenabler0, StoreGicrIcenabler0, StoreBit
  <2>2. irq \in Int
    BY <2>1, LoopBit
  <2>3. \/ dist' = vgic_dist_enable_irq(guest.board, dist, irq)
        \/ dist' = unset_enable(dist, irq)
        \/ dist' = unset_pending(dist, irq)
        \/ dist' = vgic_dist_disable_irq(dist, irq)
        \/ dist' = vgic_dist_set_pending_irq(Gic(guest.board), dist, irq)
    BY <1>9 DEF StoreIsenabler, StoreIcenabler, StoreIspendr, StoreIcpendr,
                StoreGicrIsenabler0, StoreGicrIcenabler0, StoreBit
  <2>4. dist' \in Memory
    <3> HIDE DEF irq
    <3> QED BY <1>0, <2>2, <2>3, OpTypes, EnableTypes
  <2>5. acc' = [acc EXCEPT !.data = @ \ {Min(@)}] /\ UNCHANGED <<guest, rt, wzr>>
    BY <1>9 DEF StoreIsenabler, StoreIcenabler, StoreIspendr, StoreIcpendr,
                StoreGicrIsenabler0, StoreGicrIcenabler0, StoreBit
  <2> QED BY <1>8, <2>1, <2>4, <2>5
<1>10. ASSUME StoreIspendrFaults PROVE TypeInv'
  BY <1>10 DEF StoreIspendrFaults, TypeOK, AccessOK, Offsets
<1>11. ASSUME NEW irq \in Registered, Inject(irq) \/ Complete(irq) PROVE TypeInv'
  <2>1. irq \in Int
    BY IrqsAssumption
  <2>2. dist' \in Memory
    <3>1. unset_pending(dist, irq) \in Memory
      BY <1>0, <2>1, OpTypes
    <3>2. virq_ack(guest.board, unset_pending(dist, irq), irq) \in Memory
      BY <2>1, <3>1, OpTypes
    <3> QED BY <1>0, <1>11, <2>1, <3>2, OpTypes DEF Inject, Complete
  <2>3. UNCHANGED <<guest, acc, rt, wzr>>
    BY <1>11 DEF Inject, Complete
  <2> QED BY <2>2, <2>3 DEF TypeOK, AccessOK, Memory, Offsets
<1>12. ASSUME UNCHANGED vars PROVE TypeInv'
  BY <1>12 DEF vars, TypeOK, AccessOK, Offsets
<1> QED BY <1>1, <1>3, <1>4, <1>5, <1>6, <1>7, <1>9, <1>10, <1>11, <1>12
        DEF Next, GuestStep, HandlerStep, Stopped

LEMMA TypeInvariant == Spec => []TypeInv
<1>1. Init => TypeInv
  BY TypeInit
<1>2. TypeInv /\ [Next]_vars => TypeInv'
  BY TypeStep
<1> QED BY <1>1, <1>2, PTL DEF Spec

(* Every word of the memory keeps 32 bits, a store in progress has bits of *)
(* one word left, and the operand registers keep 64 bits, for every guest, *)
(* IRQ, width and value: vgic_dist_reg_write, emulate_reg_write_access and *)
(* fault_emulate.                                                          *)
THEOREM TypeCorrect == Spec => []TypeOK
<1>1. TypeInv => TypeOK
  BY DEF TypeInv
<1> QED BY <1>1, TypeInvariant, PTL

----------------------------------------------------------------------------
(* The bytes of an access, for every guest. *)

(* The word of an access inside a bank is a word of the bank. *)
LEMMA BankWord ==
    ASSUME TypeInv, acc.op # "none", acc.bank \in AllBanks
    PROVE  reg_word(acc.bank, acc.offset) \in
               Base[acc.bank] \div 4 .. Base[acc.bank] \div 4 + 31
<1>1. acc.offset \in Base[acc.bank] .. Base[acc.bank] + 127
  BY OffsetIn DEF TypeInv, TypeOK, AccessOK
<1>2. Base[acc.bank] \in {128, 256, 384, 512, 640, 768, 896}
  BY BankBase DEF AllBanks
<1> QED BY <1>1, <1>2 DEF reg_word, local_word, array_word

(* The word of a load, or of an emulated store, is in the memory.          *)
LEMMA AccessWord ==
    ASSUME TypeInv, acc.op # "none",
           acc.bank \in AllBanks \cup {"CTLR", "GICR_IGROUPR0", "GICR_ICACTIVER0"}
    PROVE  register_word(acc.bank, acc.offset) \in Words
<1>1. CASE acc.bank \in AllBanks
  <2>1. acc.bank # "CTLR" /\ acc.bank \notin RedistBanks
    BY <1>1, BankBase DEF AllBanks, AllRedistBanks
  <2>2. register_word(acc.bank, acc.offset) = reg_word(acc.bank, acc.offset)
    BY <2>1 DEF register_word
  <2>3. Base[acc.bank] \in {128, 256, 384, 512, 640, 768, 896}
    BY <1>1, BankBase DEF AllBanks
  <2> QED BY <1>1, <2>2, <2>3, BankWord DEF Words
<1>2. CASE acc.bank = "CTLR"
  BY <1>2, BankBase DEF register_word, Words, AllRedistBanks
<1>3. CASE acc.bank \in {"GICR_IGROUPR0", "GICR_ICACTIVER0"}
  BY <1>3, BankBase DEF register_word, redist_word, local_word, Words, AllRedistBanks
<1> QED BY <1>1, <1>2, <1>3

(* Which bits the mask of an access has. *)
LEMMA MaskBits ==
    ASSUME NEW addr \in Nat, NEW width \in {1, 2, 4, 8}, NEW b \in Int
    PROVE  b \in fault_get_data_mask(addr, width) <=>
               b - AddrShift(addr) \in 0 .. 8 * width - 1 /\ b \in Bits64
<1> DEFINE s == AddrShift(addr)
<1>1. s \in {0, 8, 16, 24}
  BY AddrShiftIn
<1>2. (IF width = 8 THEN Bits64 ELSE 0 .. 8 * width - 1) = 0 .. 8 * width - 1
  <2>1. width = 8 => 8 * width - 1 = 63
    OBVIOUS
  <2> QED BY <2>1 DEF Bits64
<1>3. fault_get_data_mask(addr, width) = {c + s : c \in 0 .. 8 * width - 1} \cap Bits64
  BY <1>2 DEF fault_get_data_mask, ShiftLeft
<1> HIDE DEF s
<1>4. \A c \in 0 .. 8 * width - 1 : b = c + s <=> c = b - s
  BY <1>1
<1> QED BY <1>1, <1>3, <1>4 DEF s

LEMMA RightBits ==
    ASSUME NEW v \in SUBSET Int, NEW s \in Nat, NEW b \in Nat
    PROVE  b \in ShiftRight(v, s) <=> b + s \in v
<1>1. \A c \in v : c >= s => (b = c - s <=> c = b + s)
  OBVIOUS
<1> QED BY <1>1 DEF ShiftRight

LEMMA LeftBits ==
    ASSUME NEW v \in SUBSET Int, NEW s \in Nat, NEW b \in Bits64
    PROVE  b \in ShiftLeft(v, s) <=> b - s \in v
<1>1. \A c \in v : b = c + s <=> c = b - s
  BY DEF Bits64
<1> QED BY <1>1 DEF ShiftLeft

LEMMA LoadStep ==
    ASSUME TypeInv, HandleLoad, ~acc.zr, acc.bank # "CTLR", acc.width <= 4, NEW b \in 0 .. 8 * acc.width - 1
    PROVE  b \in rt' <=>
               b + AddrShift(acc.offset) \in dist[register_word(acc.bank, acc.offset)]
<1> DEFINE s == AddrShift(acc.offset)
           m == fault_get_data_mask(acc.offset, acc.width)
           word == dist[register_word(acc.bank, acc.offset)]
           x == word \cap (m \cap Bits32)
<1>1. /\ acc.op = "load" /\ acc.bank \in AllBanks \cup AllRedistBanks
      /\ acc.offset \in Nat /\ acc.width \in {1, 2, 4, 8}
      /\ acc.bank \notin UnreadableBanks
      /\ acc.width \in guest.widths /\ acc.bank \in guest.banks /\ guest \in Guests
  BY DEF TypeInv, TypeOK, AccessOK, HandleLoad
<1>2. acc.bank \in AllBanks \cup {"GICR_IGROUPR0"}
  BY <1>1, BankBase DEF UnreadableBanks
<1>3. word \in SUBSET Bits32
  <2>1. register_word(acc.bank, acc.offset) \in Words
    BY <1>1, <1>2, AccessWord
  <2> QED BY <2>1 DEF TypeInv, TypeOK
<1>4. rt' = (rt \ ShiftRight(m, s)) \cup ShiftRight(x \cap m, s)
  BY DEF HandleLoad, fault_emulate, fault_get_data
<1>5. s \in {0, 8, 16, 24}
  BY <1>1, AddrShiftIn
<1>7. m \in SUBSET Int
  BY DEF fault_get_data_mask, ShiftLeft, Bits64
<1>8. b \in Nat /\ b + s \in Bits64 /\ b + s - s = b
  BY <1>1, <1>5 DEF Bits64
<1>9. b + s \in m
  <2>1. b + s \in Int
    BY <1>5, <1>8
  <2>2. \A c \in Int : c \in m <=> c - s \in 0 .. 8 * acc.width - 1 /\ c \in Bits64
    BY <1>1, MaskBits, Zenon
  <2> HIDE DEF m, s
  <2> QED BY <1>1, <1>5, <1>8, <2>1, <2>2
<1> HIDE DEF m, s, word
<1>10. b \in ShiftRight(m, s)
  BY <1>5, <1>7, <1>8, <1>9, RightBits
<1>11. b \in ShiftRight(x \cap m, s) <=> b + s \in x \cap m
  BY <1>5, <1>7, <1>8, RightBits
<1>12. b + s \in x \cap m <=> b + s \in word
  BY <1>3, <1>9
<1>13. b \in rt' <=> b + s \in word
  BY <1>4, <1>10, <1>11, <1>12
<1> QED BY <1>13 DEF s, word

LEMMA EmulatedLanes ==
    ASSUME TypeInv, HandleEmulatedStore, ~acc.zr, NEW w \in Words, NEW b \in Bits32
    PROVE  LET lane == b - AddrShift(acc.offset)
           IN  b \in dist'[w] <=>
                   IF /\ w = register_word(acc.bank, acc.offset)
                      /\ lane \in 0 .. 8 * acc.width - 1
                   THEN lane \in rt
                   ELSE b \in dist[w]
<1> DEFINE s == AddrShift(acc.offset)
           m == fault_get_data_mask(acc.offset, acc.width)
           word == register_word(acc.bank, acc.offset)
<1>1. /\ acc.op = "store" /\ acc.offset \in Nat /\ acc.width \in {1, 2, 4, 8}
      /\ dist \in Memory /\ rt \in SUBSET Int
  BY DEF TypeInv, TypeOK, AccessOK, HandleEmulatedStore, Memory, Bits64
<1>2. dist' = [dist EXCEPT ![word] =
                  ((dist[word] \ m) \cup (ShiftLeft(rt, s) \cap m)) \cap Bits32]
  BY DEF HandleEmulatedStore, fault_emulate, fault_get_data
<1>3. s \in {0, 8, 16, 24}
  BY <1>1, AddrShiftIn
<1>4. b \in Int /\ b \in Bits64
  BY DEF Bits32, Bits64
<1>5. b \in m <=> b - s \in 0 .. 8 * acc.width - 1
  BY <1>1, <1>4, MaskBits
<1> HIDE DEF m, s, word
<1>6. b \in ShiftLeft(rt, s) <=> b - s \in rt
  BY <1>1, <1>3, <1>4, LeftBits
<1>7. CASE w = word
  BY <1>1, <1>2, <1>5, <1>6, <1>7 DEF Memory, s, word
<1>8. CASE w # word
  BY <1>1, <1>2, <1>8 DEF Memory, word
<1> QED BY <1>7, <1>8

(* A load of up to a word delivers the bytes at its offset in the low      *)
(* bytes of the operand register, for every guest and offset: the mask and *)
(* the shift of fault_emulate on a read agree.  Nothing is said of the     *)
(* doubleword, of which the code emulates the lower word only.             *)
THEOREM LoadsLanes == Spec => LoadedLanes
<1>1. TypeInv =>
        [HandleLoad /\ ~acc.zr /\ acc.bank # "CTLR" /\ acc.width <= 4 =>
          \A b \in 0 .. 8 * acc.width - 1 :
              b \in rt' <=>
                  b + AddrShift(acc.offset) \in dist[register_word(acc.bank, acc.offset)]]_vars
  BY LoadStep
<1> QED BY <1>1, TypeInvariant, PTL DEF LoadedLanes

(* A store of up to a word to a group or active register, of the           *)
(* distributor or of the redistributor, changes the bytes at its offset to *)
(* the low bytes of the operand and no other bit of the memory, for every  *)
(* guest and offset (emulate_reg_write_access).                            *)
THEOREM StoresLanes == Spec => StoredLanes
<1>1. TypeInv =>
        [HandleEmulatedStore /\ ~acc.zr /\ acc.width <= 4 =>
          \A w \in Words, b \in Bits32 :
              LET lane == b - AddrShift(acc.offset)
              IN  b \in dist'[w] <=>
                      IF /\ w = register_word(acc.bank, acc.offset)
                         /\ lane \in 0 .. 8 * acc.width - 1
                      THEN lane \in rt
                      ELSE b \in dist[w]]_vars
  BY EmulatedLanes
<1> QED BY <1>1, TypeInvariant, PTL DEF StoredLanes

----------------------------------------------------------------------------
(* One bit per IRQ.  From here on the guests access the set and clear      *)
(* registers by words and discard no load, and IRQs are below 992.  The    *)
(* code promises no more: a narrow store at an unaligned offset loses its  *)
(* bits, a discarded load is what the next store of the zero register      *)
(* stores, and the word of IRQ 992 is the first of the next bank.          *)

Numbers == 0 .. 991

WordAccesses ==
    /\ IRQS \subseteq Numbers
    /\ \A g \in Guests :
          g.banks \cap SetClearBanks # {} =>
              g.widths = {4} /\ ~g.zr /\ g.irqs \subseteq Numbers

(* The word of an IRQ inside its bank. *)
Slot(irq) == IF irq < 32 THEN 0 ELSE 1 + irq \div 32

LEMMA WordOf ==
    ASSUME NEW irq \in Numbers
    PROVE  /\ Slot(irq) \in 0 .. 31
           /\ IRQ_BIT(irq) \in Bits32
           /\ irq_word("ISENABLER", irq) = 64 + Slot(irq)
           /\ irq_word("ICENABLER", irq) = 96 + Slot(irq)
           /\ irq_word("ISPENDR", irq) = 128 + Slot(irq)
           /\ irq_word("ICPENDR", irq) = 160 + Slot(irq)
BY BankBase DEF Numbers, Slot, irq_word, local_word, array_word, IRQ_IDX, IRQ_BIT,
                Bits32, NUM_VCPU_LOCAL_VIRQS

LEMMA OneBitEach ==
    ASSUME NEW i \in Numbers, NEW j \in Numbers, Slot(i) = Slot(j), IRQ_BIT(i) = IRQ_BIT(j)
    PROVE  i = j
BY DEF Numbers, Slot, IRQ_BIT

(* The set and the clear bank hold the same words. *)
Agree(d) == \A k \in 0 .. 31 : d[64 + k] = d[96 + k] /\ d[128 + k] = d[160 + k]

EnabledIn(d) == {irq \in Numbers : is_enabled(d, irq)}
PendingIn(d) == {irq \in Numbers : is_pending(d, irq)}

(* d becomes e with these enable and pending bits and the rest as it was. *)
Becomes(d, e, enable, pending) ==
    /\ Agree(e)
    /\ e[CtlrWord] = d[CtlrWord]
    /\ EnabledIn(e) = enable
    /\ PendingIn(e) = pending

(* A bit of one word is the bit of one IRQ. *)
LEMMA BitInWord ==
    ASSUME NEW i \in Numbers, NEW j \in Numbers, NEW v
    PROVE  /\ Slot(i) = Slot(j) =>
                 /\ IRQ_BIT(j) \in v \cup {IRQ_BIT(i)} <=> IRQ_BIT(j) \in v \/ i = j
                 /\ IRQ_BIT(j) \in v \ {IRQ_BIT(i)} <=> IRQ_BIT(j) \in v /\ i # j
           /\ Slot(i) # Slot(j) => i # j
BY OneBitEach

(* A word of a set bank and the same word of its clear bank are replaced. *)
Replaced(d, e, set, clr, k, v) == e = [d EXCEPT ![set + k] = v, ![clr + k] = v]

(* The enable banks. *)
LEMMA EnableWords ==
    ASSUME NEW d \in Memory, Agree(d), NEW k \in 0 .. 31, NEW v, NEW e,
           Replaced(d, e, 64, 96, k, v)
    PROVE  /\ Agree(e)
           /\ e[CtlrWord] = d[CtlrWord]
           /\ \A n \in 0 .. 31 : /\ e[64 + n] = IF n = k THEN v ELSE d[64 + n]
                                 /\ e[128 + n] = d[128 + n]
<1>1. \A w \in Words : e[w] = IF w = 64 + k \/ w = 96 + k THEN v ELSE d[w]
  BY DEF Memory, Replaced
<1>2. ASSUME NEW n \in 0 .. 31
      PROVE  /\ e[64 + n] = IF n = k THEN v ELSE d[64 + n]
             /\ e[96 + n] = IF n = k THEN v ELSE d[96 + n]
             /\ e[128 + n] = d[128 + n]
             /\ e[160 + n] = d[160 + n]
  <2>1. 64 + n \in Words /\ 96 + n \in Words /\ 128 + n \in Words /\ 160 + n \in Words
    BY DEF Words
  <2>2. 64 + n # 96 + k /\ 96 + n # 64 + k
    OBVIOUS
  <2>3. 128 + n # 96 + k /\ 128 + n # 64 + k /\ 160 + n # 96 + k /\ 160 + n # 64 + k
    OBVIOUS
  <2>4. (64 + n = 64 + k <=> n = k) /\ (96 + n = 96 + k <=> n = k)
    OBVIOUS
  <2>5. e[64 + n] = IF n = k THEN v ELSE d[64 + n]
    BY <1>1, <2>1, <2>2, <2>4
  <2>6. e[96 + n] = IF n = k THEN v ELSE d[96 + n]
    BY <1>1, <2>1, <2>2, <2>4
  <2>7. e[128 + n] = d[128 + n] /\ e[160 + n] = d[160 + n]
    BY <1>1, <2>1, <2>3
  <2> QED BY <2>5, <2>6, <2>7
<1>3. Agree(e)
  BY <1>2 DEF Agree
<1>4. e[CtlrWord] = d[CtlrWord]
  <2>1. CtlrWord \in Words /\ CtlrWord # 64 + k /\ CtlrWord # 96 + k
    BY DEF Words, CtlrWord
  <2> QED BY <1>1, <2>1
<1> QED BY <1>2, <1>3, <1>4

(* The pending banks. *)
LEMMA PendingWords ==
    ASSUME NEW d \in Memory, Agree(d), NEW k \in 0 .. 31, NEW v, NEW e,
           Replaced(d, e, 128, 160, k, v)
    PROVE  /\ Agree(e)
           /\ e[CtlrWord] = d[CtlrWord]
           /\ \A n \in 0 .. 31 : /\ e[128 + n] = IF n = k THEN v ELSE d[128 + n]
                                 /\ e[64 + n] = d[64 + n]
<1>1. \A w \in Words : e[w] = IF w = 128 + k \/ w = 160 + k THEN v ELSE d[w]
  BY DEF Memory, Replaced
<1>2. ASSUME NEW n \in 0 .. 31
      PROVE  /\ e[128 + n] = IF n = k THEN v ELSE d[128 + n]
             /\ e[160 + n] = IF n = k THEN v ELSE d[160 + n]
             /\ e[64 + n] = d[64 + n]
             /\ e[96 + n] = d[96 + n]
  <2>1. 128 + n \in Words /\ 160 + n \in Words /\ 64 + n \in Words /\ 96 + n \in Words
    BY DEF Words
  <2>2. 128 + n # 160 + k /\ 160 + n # 128 + k
    OBVIOUS
  <2>3. 64 + n # 160 + k /\ 64 + n # 128 + k /\ 96 + n # 160 + k /\ 96 + n # 128 + k
    OBVIOUS
  <2>4. (128 + n = 128 + k <=> n = k) /\ (160 + n = 160 + k <=> n = k)
    OBVIOUS
  <2>5. e[128 + n] = IF n = k THEN v ELSE d[128 + n]
    BY <1>1, <2>1, <2>2, <2>4
  <2>6. e[160 + n] = IF n = k THEN v ELSE d[160 + n]
    BY <1>1, <2>1, <2>2, <2>4
  <2>7. e[64 + n] = d[64 + n] /\ e[96 + n] = d[96 + n]
    BY <1>1, <2>1, <2>3
  <2> QED BY <2>5, <2>6, <2>7
<1>3. Agree(e)
  BY <1>2 DEF Agree
<1>4. e[CtlrWord] = d[CtlrWord]
  <2>1. CtlrWord \in Words /\ CtlrWord # 128 + k /\ CtlrWord # 160 + k
    BY DEF Words, CtlrWord
  <2> QED BY <1>1, <2>1
<1> QED BY <1>2, <1>3, <1>4

(* What the four operations do to the bits. *)
LEMMA SetEnable ==
    ASSUME NEW d \in Memory, Agree(d), NEW irq \in Numbers
    PROVE  Becomes(d, set_enable(d, irq), EnabledIn(d) \cup {irq}, PendingIn(d))
<1> DEFINE e == set_enable(d, irq)
           k == Slot(irq)
           b == IRQ_BIT(irq)
           v == d[64 + k] \cup {b}
<1>1. k \in 0 .. 31
  BY WordOf
<1>2. Replaced(d, e, 64, 96, k, v)
  <2>1. e = [d EXCEPT ![64 + k] = @ \cup {b}, ![96 + k] = @ \cup {b}]
    BY WordOf DEF set_enable
  <2>2. d[96 + k] = d[64 + k] /\ 64 + k # 96 + k
    BY <1>1 DEF Agree
  <2> HIDE DEF e, k, b
  <2> QED BY <2>1, <2>2 DEF Memory, Replaced
<1> HIDE DEF e, k, b, v
<1>3. /\ Agree(e)
      /\ e[CtlrWord] = d[CtlrWord]
      /\ \A n \in 0 .. 31 : /\ e[64 + n] = IF n = k THEN v ELSE d[64 + n]
                            /\ e[128 + n] = d[128 + n]
  BY <1>1, <1>2, EnableWords
<1>4. ASSUME NEW j \in Numbers
      PROVE  /\ is_enabled(e, j) <=> is_enabled(d, j) \/ j = irq
             /\ is_pending(e, j) <=> is_pending(d, j)
  <2>1. /\ Slot(j) \in 0 .. 31
        /\ irq_word("ISENABLER", j) = 64 + Slot(j)
        /\ irq_word("ISPENDR", j) = 128 + Slot(j)
    BY WordOf
  <2>2. /\ is_enabled(e, j) <=> IRQ_BIT(j) \in e[64 + Slot(j)]
        /\ is_enabled(d, j) <=> IRQ_BIT(j) \in d[64 + Slot(j)]
        /\ is_pending(e, j) <=> IRQ_BIT(j) \in e[128 + Slot(j)]
        /\ is_pending(d, j) <=> IRQ_BIT(j) \in d[128 + Slot(j)]
    BY <2>1 DEF is_enabled, is_pending
  <2> QED BY <1>3, <2>1, <2>2, BitInWord DEF k, b, v
<1>5. EnabledIn(e) = EnabledIn(d) \cup {irq} /\ PendingIn(e) = PendingIn(d)
  BY <1>4 DEF EnabledIn, PendingIn
<1> QED BY <1>3, <1>5 DEF Becomes, e

LEMMA UnsetEnable ==
    ASSUME NEW d \in Memory, Agree(d), NEW irq \in Numbers
    PROVE  Becomes(d, unset_enable(d, irq), EnabledIn(d) \ {irq}, PendingIn(d))
<1> DEFINE e == unset_enable(d, irq)
           k == Slot(irq)
           b == IRQ_BIT(irq)
           v == d[64 + k] \ {b}
<1>1. k \in 0 .. 31
  BY WordOf
<1>2. Replaced(d, e, 64, 96, k, v)
  <2>1. e = [d EXCEPT ![64 + k] = @ \ {b}, ![96 + k] = @ \ {b}]
    BY WordOf DEF unset_enable
  <2>2. d[96 + k] = d[64 + k] /\ 64 + k # 96 + k
    BY <1>1 DEF Agree
  <2> HIDE DEF e, k, b
  <2> QED BY <2>1, <2>2 DEF Memory, Replaced
<1> HIDE DEF e, k, b, v
<1>3. /\ Agree(e)
      /\ e[CtlrWord] = d[CtlrWord]
      /\ \A n \in 0 .. 31 : /\ e[64 + n] = IF n = k THEN v ELSE d[64 + n]
                            /\ e[128 + n] = d[128 + n]
  BY <1>1, <1>2, EnableWords
<1>4. ASSUME NEW j \in Numbers
      PROVE  /\ is_enabled(e, j) <=> is_enabled(d, j) /\ j # irq
             /\ is_pending(e, j) <=> is_pending(d, j)
  <2>1. /\ Slot(j) \in 0 .. 31
        /\ irq_word("ISENABLER", j) = 64 + Slot(j)
        /\ irq_word("ISPENDR", j) = 128 + Slot(j)
    BY WordOf
  <2>2. /\ is_enabled(e, j) <=> IRQ_BIT(j) \in e[64 + Slot(j)]
        /\ is_enabled(d, j) <=> IRQ_BIT(j) \in d[64 + Slot(j)]
        /\ is_pending(e, j) <=> IRQ_BIT(j) \in e[128 + Slot(j)]
        /\ is_pending(d, j) <=> IRQ_BIT(j) \in d[128 + Slot(j)]
    BY <2>1 DEF is_enabled, is_pending
  <2> QED BY <1>3, <2>1, <2>2, BitInWord DEF k, b, v
<1>5. EnabledIn(e) = EnabledIn(d) \ {irq} /\ PendingIn(e) = PendingIn(d)
  BY <1>4 DEF EnabledIn, PendingIn
<1> QED BY <1>3, <1>5 DEF Becomes, e

LEMMA SetPending ==
    ASSUME NEW d \in Memory, Agree(d), NEW irq \in Numbers
    PROVE  Becomes(d, set_pending(d, irq), EnabledIn(d), PendingIn(d) \cup {irq})
<1> DEFINE e == set_pending(d, irq)
           k == Slot(irq)
           b == IRQ_BIT(irq)
           v == d[128 + k] \cup {b}
<1>1. k \in 0 .. 31
  BY WordOf
<1>2. Replaced(d, e, 128, 160, k, v)
  <2>1. e = [d EXCEPT ![128 + k] = @ \cup {b}, ![160 + k] = @ \cup {b}]
    BY WordOf DEF set_pending
  <2>2. d[160 + k] = d[128 + k] /\ 128 + k # 160 + k
    BY <1>1 DEF Agree
  <2> HIDE DEF e, k, b
  <2> QED BY <2>1, <2>2 DEF Memory, Replaced
<1> HIDE DEF e, k, b, v
<1>3. /\ Agree(e)
      /\ e[CtlrWord] = d[CtlrWord]
      /\ \A n \in 0 .. 31 : /\ e[128 + n] = IF n = k THEN v ELSE d[128 + n]
                            /\ e[64 + n] = d[64 + n]
  BY <1>1, <1>2, PendingWords
<1>4. ASSUME NEW j \in Numbers
      PROVE  /\ is_pending(e, j) <=> is_pending(d, j) \/ j = irq
             /\ is_enabled(e, j) <=> is_enabled(d, j)
  <2>1. /\ Slot(j) \in 0 .. 31
        /\ irq_word("ISPENDR", j) = 128 + Slot(j)
        /\ irq_word("ISENABLER", j) = 64 + Slot(j)
    BY WordOf
  <2>2. /\ is_pending(e, j) <=> IRQ_BIT(j) \in e[128 + Slot(j)]
        /\ is_pending(d, j) <=> IRQ_BIT(j) \in d[128 + Slot(j)]
        /\ is_enabled(e, j) <=> IRQ_BIT(j) \in e[64 + Slot(j)]
        /\ is_enabled(d, j) <=> IRQ_BIT(j) \in d[64 + Slot(j)]
    BY <2>1 DEF is_enabled, is_pending
  <2> QED BY <1>3, <2>1, <2>2, BitInWord DEF k, b, v
<1>5. EnabledIn(e) = EnabledIn(d) /\ PendingIn(e) = PendingIn(d) \cup {irq}
  BY <1>4 DEF EnabledIn, PendingIn
<1> QED BY <1>3, <1>5 DEF Becomes, e

LEMMA UnsetPending ==
    ASSUME NEW d \in Memory, Agree(d), NEW irq \in Numbers
    PROVE  Becomes(d, unset_pending(d, irq), EnabledIn(d), PendingIn(d) \ {irq})
<1> DEFINE e == unset_pending(d, irq)
           k == Slot(irq)
           b == IRQ_BIT(irq)
           v == d[128 + k] \ {b}
<1>1. k \in 0 .. 31
  BY WordOf
<1>2. Replaced(d, e, 128, 160, k, v)
  <2>1. e = [d EXCEPT ![128 + k] = @ \ {b}, ![160 + k] = @ \ {b}]
    BY WordOf DEF unset_pending
  <2>2. d[160 + k] = d[128 + k] /\ 128 + k # 160 + k
    BY <1>1 DEF Agree
  <2> HIDE DEF e, k, b
  <2> QED BY <2>1, <2>2 DEF Memory, Replaced
<1> HIDE DEF e, k, b, v
<1>3. /\ Agree(e)
      /\ e[CtlrWord] = d[CtlrWord]
      /\ \A n \in 0 .. 31 : /\ e[128 + n] = IF n = k THEN v ELSE d[128 + n]
                            /\ e[64 + n] = d[64 + n]
  BY <1>1, <1>2, PendingWords
<1>4. ASSUME NEW j \in Numbers
      PROVE  /\ is_pending(e, j) <=> is_pending(d, j) /\ j # irq
             /\ is_enabled(e, j) <=> is_enabled(d, j)
  <2>1. /\ Slot(j) \in 0 .. 31
        /\ irq_word("ISPENDR", j) = 128 + Slot(j)
        /\ irq_word("ISENABLER", j) = 64 + Slot(j)
    BY WordOf
  <2>2. /\ is_pending(e, j) <=> IRQ_BIT(j) \in e[128 + Slot(j)]
        /\ is_pending(d, j) <=> IRQ_BIT(j) \in d[128 + Slot(j)]
        /\ is_enabled(e, j) <=> IRQ_BIT(j) \in e[64 + Slot(j)]
        /\ is_enabled(d, j) <=> IRQ_BIT(j) \in d[64 + Slot(j)]
    BY <2>1 DEF is_enabled, is_pending
  <2> QED BY <1>3, <2>1, <2>2, BitInWord DEF k, b, v
<1>5. EnabledIn(e) = EnabledIn(d) /\ PendingIn(e) = PendingIn(d) \ {irq}
  BY <1>4 DEF EnabledIn, PendingIn
<1> QED BY <1>3, <1>5 DEF Becomes, e

(* A step that leaves the enable and the pending banks alone. *)
LEMMA KeptWords ==
    ASSUME NEW d \in Memory, NEW e, Agree(d), \A w \in 64 .. 191 : e[w] = d[w]
    PROVE  Agree(e) /\ EnabledIn(e) = EnabledIn(d) /\ PendingIn(e) = PendingIn(d)
<1>1. \A n \in 0 .. 31 : /\ e[64 + n] = d[64 + n] /\ e[96 + n] = d[96 + n]
                         /\ e[128 + n] = d[128 + n] /\ e[160 + n] = d[160 + n]
  <2> SUFFICES ASSUME NEW n \in 0 .. 31
               PROVE  /\ e[64 + n] = d[64 + n] /\ e[96 + n] = d[96 + n]
                      /\ e[128 + n] = d[128 + n] /\ e[160 + n] = d[160 + n]
    OBVIOUS
  <2>1. /\ 64 + n \in 64 .. 191 /\ 96 + n \in 64 .. 191
        /\ 128 + n \in 64 .. 191 /\ 160 + n \in 64 .. 191
    OBVIOUS
  <2> QED BY <2>1
<1>2. \A j \in Numbers : is_enabled(e, j) = is_enabled(d, j) /\ is_pending(e, j) = is_pending(d, j)
  <2> SUFFICES ASSUME NEW j \in Numbers
               PROVE  is_enabled(e, j) = is_enabled(d, j) /\ is_pending(e, j) = is_pending(d, j)
    OBVIOUS
  <2> QED BY <1>1, WordOf DEF is_enabled, is_pending
<1> QED BY <1>1, <1>2 DEF Agree, EnabledIn, PendingIn

LEMMA CtlrKeeps ==
    ASSUME TypeInv, Agree(dist), HandleCtlrStore
    PROVE  /\ Agree(dist')
           /\ EnabledIn(dist') = EnabledIn(dist)
           /\ PendingIn(dist') = PendingIn(dist)
<1>1. dist \in Memory
  BY DEF TypeInv, TypeOK, Memory
<1>2. \A w \in 64 .. 191 : w # CtlrWord /\ w \in Words
  BY DEF CtlrWord, Words
<1>3. \A w \in 64 .. 191 : dist'[w] = dist[w]
  BY <1>1, <1>2 DEF HandleCtlrStore, vgic_dist_enable, vgic_dist_disable, Memory
<1> QED BY <1>1, <1>3, KeptWords

LEMMA EmulatedKeeps ==
    ASSUME TypeInv, Agree(dist), HandleEmulatedStore
    PROVE  Becomes(dist, dist', EnabledIn(dist), PendingIn(dist))
<1> DEFINE word == register_word(acc.bank, acc.offset)
<1>1. dist \in Memory
  BY DEF TypeInv, TypeOK, Memory
<1>2. word \notin 64 .. 191 /\ word # CtlrWord
  <2>1. CASE acc.bank \in {"IGROUPR", "ISACTIVER", "ICACTIVER"}
    <3>1. acc.bank \in AllBanks /\ acc.bank # "CTLR" /\ acc.bank \notin RedistBanks
      BY <2>1, BankBase DEF AllBanks, AllRedistBanks
    <3>2. word = reg_word(acc.bank, acc.offset)
      BY <3>1 DEF register_word
    <3>3. Base[acc.bank] \in {128, 768, 896}
      BY <2>1, BankBase
    <3> QED BY <3>1, <3>2, <3>3, BankWord DEF HandleEmulatedStore, CtlrWord
  <2>2. CASE acc.bank \in {"GICR_IGROUPR0", "GICR_ICACTIVER0"}
    BY <2>2, BankBase DEF register_word, redist_word, local_word, CtlrWord, AllRedistBanks
  <2> QED BY <2>1, <2>2 DEF HandleEmulatedStore, EmulatedBanks
<1>3. \A w \in Words : w # word => dist'[w] = dist[w]
  BY <1>1 DEF HandleEmulatedStore, Memory
<1> HIDE DEF word
<1>4. \A w \in 64 .. 191 : w \in Words
  BY DEF Words
<1>5. \A w \in 64 .. 191 : dist'[w] = dist[w]
  BY <1>2, <1>3, <1>4
<1>6. dist'[CtlrWord] = dist[CtlrWord]
  BY <1>2, <1>3 DEF Words
<1> QED BY <1>1, <1>5, <1>6, KeptWords DEF Becomes

----------------------------------------------------------------------------
(* A store in progress. *)

(* The IRQ of bit 0 of the operand. *)
FirstIrq == 8 * (IF acc.bank \in RedistBanks THEN 0 ELSE acc.offset - Base[acc.bank])
LoopIrq == irq_of_bit(acc.bank, acc.offset, Min(acc.data))

(* A word access to a set or clear register. *)
LEMMA WordStore ==
    ASSUME WordAccesses, TypeInv, acc.op # "none", acc.bank \in SetClearBanks
    PROVE  /\ acc.width = 4 /\ acc.offset % 4 = 0 /\ ~guest.zr
           /\ guest.banks \cap SetClearBanks # {}
           /\ FirstIrq \in 0 .. 960
           /\ acc.bank \in RedistBanks => guest.board = "imx8mm_evk"
           /\ \A b \in Bits32 : /\ irq_of_bit(acc.bank, acc.offset, b) = b + FirstIrq
                                /\ b + FirstIrq \in Numbers
<1>1. /\ guest \in Guests /\ acc.bank \in guest.banks /\ acc.width \in guest.widths
      /\ acc.offset \in Offsets(acc.bank, acc.width) /\ acc.offset \in Nat
      /\ acc.width \in {1, 2, 4, 8}
  BY DEF TypeInv, TypeOK, AccessOK
<1>2. guest.banks \cap SetClearBanks # {}
  BY <1>1
<1>3. acc.width = 4 /\ ~guest.zr /\ guest.irqs \subseteq 0 .. 991
  BY <1>1, <1>2 DEF WordAccesses, Numbers
<1>4. CASE acc.bank \in AllBanks
  <2>1. acc.bank \notin RedistBanks
    BY <1>4, BankBase DEF AllBanks, AllRedistBanks
  <2>2. acc.offset % 4 = 0 /\ \E n \in 0 .. 30 : acc.offset = Base[acc.bank] + 4 * n
    BY <1>1, <1>3, <1>4, OffsetIn
  <2>3. PICK n \in 0 .. 30 : acc.offset = Base[acc.bank] + 4 * n
    BY <2>2
  <2>4. Base[acc.bank] \in {128, 256, 384, 512, 640, 768, 896}
    BY <1>4, BankBase DEF AllBanks
  <2>5. acc.offset - Base[acc.bank] = 4 * n
    BY <2>3, <2>4
  <2>6. FirstIrq = 32 * n
    BY <2>1, <2>5 DEF FirstIrq
  <2>7. \A b \in Bits32 : irq_of_bit(acc.bank, acc.offset, b) = b + 32 * n
    BY <2>1, <2>5 DEF irq_of_bit, Bits32
  <2>8. \A b \in Bits32 : b + 32 * n \in Numbers
    BY DEF Bits32, Numbers
  <2> QED BY <1>2, <1>3, <2>1, <2>2, <2>6, <2>7, <2>8
<1>5. CASE acc.bank \in AllRedistBanks
  <2>1. acc.bank \in RedistBanks /\ acc.bank # "CTLR"
    BY <1>5, BankBase DEF AllRedistBanks
  <2>2. acc.offset = RedistBase[acc.bank]
    BY <1>1, <2>1 DEF Offsets
  <2>3. acc.offset % 4 = 0
    BY <1>5, <2>2, BankBase DEF AllRedistBanks
  <2>4. FirstIrq = 0
    BY <2>1 DEF FirstIrq
  <2>5. \A b \in Bits32 : irq_of_bit(acc.bank, acc.offset, b) = b + 0 /\ b + 0 \in Numbers
    BY <2>1 DEF irq_of_bit, Bits32, Numbers
  <2>6. guest.board = "imx8mm_evk"
    BY <1>1, <2>1, GuestsAssumption
  <2> QED BY <1>2, <1>3, <2>3, <2>4, <2>5, <2>6
<1> QED BY <1>4, <1>5 DEF SetClearBanks, AllBanks, AllRedistBanks

LEMMA LoopIrqIn ==
    ASSUME WordAccesses, TypeInv, acc.op = "loop", acc.data # {}
    PROVE  /\ Min(acc.data) \in acc.data /\ Min(acc.data) \in Bits32
           /\ LoopIrq = Min(acc.data) + FirstIrq
           /\ LoopIrq \in Numbers
<1>1. Min(acc.data) \in acc.data /\ Min(acc.data) \in Bits32
  BY LoopBit
<1>2. acc.bank \in SetClearBanks
  BY DEF TypeInv, AccessOK
<1> QED BY <1>1, <1>2, WordStore DEF LoopIrq

(* What a bit of a store does, register by register. *)
On(d) == vgic_dist_is_enabled(Gic(guest.board), d)

(* What acknowledging an IRQ makes pending, with these IRQs enabled. *)
AckPends(irq, enabled) ==
    IF /\ guest.board = "odroidc2" /\ irq = SERIAL_IRQ
       /\ On(dist) /\ SERIAL_IRQ_CH \in Registered \cap enabled
    THEN {SERIAL_IRQ_CH} ELSE {}
EnablePends(irq) ==
    IF irq \in Registered \ PendingIn(dist) THEN AckPends(irq, EnabledIn(dist) \cup {irq})
    ELSE {}

StoredBit ==
    \/ /\ acc.bank \in {"ISENABLER", "GICR_ISENABLER0"}
       /\ Becomes(dist, dist', EnabledIn(dist) \cup {LoopIrq},
                  PendingIn(dist) \cup EnablePends(LoopIrq))
    \/ /\ acc.bank = "ICENABLER" /\ LoopIrq >= NUM_SGI_VIRQS
       /\ Becomes(dist, dist', EnabledIn(dist) \ {LoopIrq}, PendingIn(dist))
    \/ /\ acc.bank = "ICENABLER" /\ LoopIrq < NUM_SGI_VIRQS
       /\ dist' = dist
    \/ /\ acc.bank = "GICR_ICENABLER0"
       /\ Becomes(dist, dist', EnabledIn(dist) \ {LoopIrq}, PendingIn(dist))
    \/ /\ acc.bank = "ISPENDR"
       /\ LoopIrq \in Registered /\ On(dist) /\ LoopIrq \in EnabledIn(dist)
       /\ Becomes(dist, dist', EnabledIn(dist), PendingIn(dist) \cup {LoopIrq})
    \/ /\ acc.bank = "ISPENDR"
       /\ \/ LoopIrq \notin Registered \/ ~On(dist)
          \/ LoopIrq \notin EnabledIn(dist) \/ LoopIrq \in PendingIn(dist)
       /\ dist' = dist
    \/ /\ acc.bank = "ICPENDR"
       /\ Becomes(dist, dist', EnabledIn(dist), PendingIn(dist) \ {LoopIrq})

LoopStep ==
    /\ acc.op = "loop" /\ acc.data # {}
    /\ StoredBit
    /\ acc' = [acc EXCEPT !.data = @ \ {Min(@)}]
    /\ UNCHANGED <<guest, rt, wzr>>

(* What happens to the memory between stores. *)
OtherStep ==
    /\ acc.op # "loop" /\ guest' = guest
    /\ \/ /\ Agree(dist')
          /\ EnabledIn(dist') = EnabledIn(dist) /\ PendingIn(dist') = PendingIn(dist)
       \/ \E irq \in Registered :
             \/ /\ On(dist) /\ irq \in EnabledIn(dist)
                /\ Becomes(dist, dist', EnabledIn(dist), PendingIn(dist) \cup {irq})
             \/ Becomes(dist, dist', EnabledIn(dist),
                        (PendingIn(dist) \ {irq}) \cup AckPends(irq, EnabledIn(dist)))

(* An acknowledgement, of a register file with the control register of the *)
(* current one.                                                            *)
LEMMA AckEffect ==
    ASSUME NEW d \in Memory, Agree(d), d[CtlrWord] = dist[CtlrWord], NEW irq
    PROVE  Becomes(d, virq_ack(guest.board, d, irq), EnabledIn(d),
                   PendingIn(d) \cup AckPends(irq, EnabledIn(d)))
<1>1. SERIAL_IRQ_CH \in Numbers
  BY DEF SERIAL_IRQ_CH, Numbers
<1>2. Becomes(d, set_pending(d, SERIAL_IRQ_CH), EnabledIn(d), PendingIn(d) \cup {SERIAL_IRQ_CH})
  BY <1>1, SetPending
<1>3. Becomes(d, d, EnabledIn(d), PendingIn(d))
  BY DEF Becomes
<1>4. vgic_dist_is_enabled(Gic(guest.board), d) = On(dist)
  BY DEF On, vgic_dist_is_enabled
<1>5. /\ is_enabled(d, SERIAL_IRQ_CH) <=> SERIAL_IRQ_CH \in EnabledIn(d)
      /\ is_pending(d, SERIAL_IRQ_CH) <=> SERIAL_IRQ_CH \in PendingIn(d)
  BY <1>1 DEF EnabledIn, PendingIn
<1>6. CASE AckPends(irq, EnabledIn(d)) = {}
  <2>1. virq_ack(guest.board, d, irq) = d
    BY <1>4, <1>5, <1>6 DEF AckPends, virq_ack, vgic_dist_set_pending_irq
  <2>2. PendingIn(d) \cup AckPends(irq, EnabledIn(d)) = PendingIn(d)
    BY <1>6
  <2> QED BY <1>3, <2>1, <2>2
<1>7. CASE AckPends(irq, EnabledIn(d)) # {}
  <2>1. /\ guest.board = "odroidc2" /\ irq = SERIAL_IRQ /\ On(dist)
        /\ SERIAL_IRQ_CH \in Registered /\ SERIAL_IRQ_CH \in EnabledIn(d)
        /\ AckPends(irq, EnabledIn(d)) = {SERIAL_IRQ_CH}
    BY <1>7 DEF AckPends
  <2>2. CASE SERIAL_IRQ_CH \in PendingIn(d)
    <3>1. virq_ack(guest.board, d, irq) = d
      BY <1>5, <2>2 DEF virq_ack, vgic_dist_set_pending_irq
    <3>2. PendingIn(d) \cup AckPends(irq, EnabledIn(d)) = PendingIn(d)
      BY <2>1, <2>2
    <3> QED BY <1>3, <3>1, <3>2
  <2>3. CASE SERIAL_IRQ_CH \notin PendingIn(d)
    <3>1. virq_ack(guest.board, d, irq) = set_pending(d, SERIAL_IRQ_CH)
      BY <1>4, <1>5, <2>1, <2>3 DEF virq_ack, vgic_dist_set_pending_irq
    <3> QED BY <1>2, <2>1, <3>1
  <2> QED BY <2>2, <2>3
<1> QED BY <1>6, <1>7

LEMMA EnableEffect ==
    ASSUME dist \in Memory, Agree(dist), NEW irq \in Numbers
    PROVE  Becomes(dist, vgic_dist_enable_irq(guest.board, dist, irq),
                   EnabledIn(dist) \cup {irq}, PendingIn(dist) \cup EnablePends(irq))
<1> DEFINE e == set_enable(dist, irq)
<1>1. e \in Memory
  BY OpTypes DEF Numbers
<1>2. /\ Agree(e) /\ e[CtlrWord] = dist[CtlrWord]
      /\ EnabledIn(e) = EnabledIn(dist) \cup {irq} /\ PendingIn(e) = PendingIn(dist)
  BY SetEnable DEF Becomes
<1> HIDE DEF e
<1>3. Becomes(e, virq_ack(guest.board, e, irq), EnabledIn(e),
              PendingIn(e) \cup AckPends(irq, EnabledIn(e)))
  BY <1>1, <1>2, AckEffect
<1>4. is_pending(e, irq) <=> irq \in PendingIn(dist)
  BY <1>2 DEF PendingIn
<1>5. CASE irq \in Registered \ PendingIn(dist)
  <2>1. vgic_dist_enable_irq(guest.board, dist, irq) = virq_ack(guest.board, e, irq)
    BY <1>4, <1>5 DEF vgic_dist_enable_irq, e
  <2>2. EnablePends(irq) = AckPends(irq, EnabledIn(e))
    BY <1>2, <1>5 DEF EnablePends
  <2> QED BY <1>2, <1>3, <2>1, <2>2 DEF Becomes
<1>6. CASE irq \notin Registered \ PendingIn(dist)
  <2>1. vgic_dist_enable_irq(guest.board, dist, irq) = e
    BY <1>4, <1>6 DEF vgic_dist_enable_irq, e
  <2>2. PendingIn(dist) \cup EnablePends(irq) = PendingIn(dist)
    BY <1>6 DEF EnablePends
  <2> QED BY <1>2, <2>1, <2>2 DEF Becomes
<1> QED BY <1>5, <1>6

LEMMA CompleteEffect ==
    ASSUME dist \in Memory, Agree(dist), NEW irq \in Numbers
    PROVE  Becomes(dist, virq_ack(guest.board, unset_pending(dist, irq), irq), EnabledIn(dist),
                   (PendingIn(dist) \ {irq}) \cup AckPends(irq, EnabledIn(dist)))
<1> DEFINE e == unset_pending(dist, irq)
<1>1. e \in Memory
  BY OpTypes DEF Numbers
<1>2. /\ Agree(e) /\ e[CtlrWord] = dist[CtlrWord]
      /\ EnabledIn(e) = EnabledIn(dist) /\ PendingIn(e) = PendingIn(dist) \ {irq}
  BY UnsetPending DEF Becomes
<1> HIDE DEF e
<1>3. Becomes(e, virq_ack(guest.board, e, irq), EnabledIn(e),
              PendingIn(e) \cup AckPends(irq, EnabledIn(e)))
  BY <1>1, <1>2, AckEffect
<1> QED BY <1>2, <1>3 DEF Becomes, e

LEMMA InjectEffect ==
    ASSUME WordAccesses, TypeInv, Agree(dist), NEW irq \in Numbers,
           dist' = vgic_dist_set_pending_irq(Gic(guest.board), dist, irq)
    PROVE  \/ /\ irq \in Registered /\ On(dist) /\ irq \in EnabledIn(dist)
              /\ Becomes(dist, dist', EnabledIn(dist), PendingIn(dist) \cup {irq})
           \/ /\ \/ irq \notin Registered \/ ~On(dist)
                 \/ irq \notin EnabledIn(dist) \/ irq \in PendingIn(dist)
              /\ dist' = dist
<1>1. dist \in Memory
  BY DEF TypeInv, TypeOK, Memory
<1>2. Becomes(dist, set_pending(dist, irq), EnabledIn(dist), PendingIn(dist) \cup {irq})
  BY <1>1, SetPending
<1> QED BY <1>2 DEF vgic_dist_set_pending_irq, On, EnabledIn, PendingIn

(* Every step is one of these, or ends a store and leaves the memory. *)
LEMMA MemorySteps ==
    ASSUME WordAccesses, TypeInv, Agree(dist), Next
    PROVE  \/ LoopStep
           \/ OtherStep
           \/ acc.op = "loop" /\ acc'.op # "loop" /\ UNCHANGED <<guest, dist>>
           \/ UNCHANGED vars
<1>1. dist \in Memory
  BY DEF TypeInv, TypeOK, Memory
<1>2. ASSUME NEW bank \in guest.banks, NEW width \in guest.widths,
             NEW offset \in Offsets(bank, width),
             \/ \E v \in guest.values : GuestStores(bank, offset, width, v)
             \/ GuestStoresZr(bank, offset, width)
             \/ \E zr \in BOOLEAN : GuestLoads(bank, offset, width, zr)
      PROVE  OtherStep
  BY <1>2 DEF GuestStores, GuestStoresZr, GuestLoads, OtherStep
<1>3. ASSUME HandleLoad \/ HandleUnknownLoad \/ BeginStore PROVE OtherStep
  BY <1>3 DEF HandleLoad, HandleUnknownLoad, BeginStore, OtherStep
<1>4. ASSUME HandleCtlrStore PROVE OtherStep
  BY <1>4, CtlrKeeps DEF HandleCtlrStore, OtherStep
<1>5. ASSUME HandleEmulatedStore PROVE OtherStep
  BY <1>5, EmulatedKeeps DEF HandleEmulatedStore, OtherStep, Becomes
<1>6. ASSUME StoreIspendrFaults \/ EndStore
      PROVE  acc.op = "loop" /\ acc'.op # "loop" /\ UNCHANGED <<guest, dist>>
  <2>1. acc \in [op : {"none", "load", "store", "loop", "stopped"},
                 bank : AllBanks \cup AllRedistBanks \cup {"CTLR"},
                 offset : Nat, width : {1, 2, 4, 8}, zr : BOOLEAN, data : SUBSET Bits32]
    BY DEF TypeInv, AccessOK
  <2> QED BY <1>6, <2>1 DEF StoreIspendrFaults, EndStore, NoAccess
<1>7. ASSUME NEW irq \in Registered, Inject(irq) \/ Complete(irq) PROVE OtherStep
  <2>1. irq \in Numbers
    BY IrqsAssumption DEF WordAccesses
  <2>2. CASE Inject(irq)
    <3>1. \/ /\ On(dist) /\ irq \in EnabledIn(dist)
             /\ Becomes(dist, dist', EnabledIn(dist), PendingIn(dist) \cup {irq})
          \/ dist' = dist
      BY <2>1, <2>2, InjectEffect DEF Inject
    <3> QED BY <2>2, <3>1 DEF Inject, OtherStep
  <2>3. CASE Complete(irq)
    BY <1>1, <2>1, <2>3, CompleteEffect DEF Complete, OtherStep
  <2> QED BY <1>7, <2>2, <2>3
<1>8. ASSUME \/ StoreIsenabler \/ StoreIcenabler \/ StoreIspendr \/ StoreIcpendr
             \/ StoreGicrIsenabler0 \/ StoreGicrIcenabler0
      PROVE  LoopStep
  <2>1. /\ acc.op = "loop" /\ acc.data # {}
        /\ acc' = [acc EXCEPT !.data = @ \ {Min(@)}]
        /\ UNCHANGED <<guest, rt, wzr>>
    BY <1>8 DEF StoreIsenabler, StoreIcenabler, StoreIspendr, StoreIcpendr,
                StoreGicrIsenabler0, StoreGicrIcenabler0, StoreBit
  <2>2. LoopIrq \in Numbers
    BY <2>1, LoopIrqIn
  <2>3. CASE StoreIsenabler \/ StoreGicrIsenabler0
    <3>1. /\ acc.bank \in {"ISENABLER", "GICR_ISENABLER0"}
          /\ dist' = vgic_dist_enable_irq(guest.board, dist, LoopIrq)
      BY <2>3 DEF StoreIsenabler, StoreGicrIsenabler0, StoreBit, LoopIrq
    <3> QED BY <1>1, <2>1, <2>2, <3>1, EnableEffect DEF LoopStep, StoredBit
  <2>4. CASE StoreIcenabler
    <3>1. acc.bank = "ICENABLER" /\ dist' = vgic_dist_disable_irq(dist, LoopIrq)
      BY <2>4 DEF StoreIcenabler, StoreBit, LoopIrq
    <3>2. LoopIrq >= NUM_SGI_VIRQS \/ LoopIrq < NUM_SGI_VIRQS
      BY <2>2 DEF Numbers, NUM_SGI_VIRQS
    <3>3. LoopIrq < NUM_SGI_VIRQS => ~(LoopIrq >= NUM_SGI_VIRQS)
      BY <2>2 DEF Numbers, NUM_SGI_VIRQS
    <3>4. Becomes(dist, unset_enable(dist, LoopIrq), EnabledIn(dist) \ {LoopIrq},
                  PendingIn(dist))
      BY <1>1, <2>2, UnsetEnable
    <3> QED BY <2>1, <3>1, <3>2, <3>3, <3>4 DEF LoopStep, StoredBit, vgic_dist_disable_irq
  <2>5. CASE StoreGicrIcenabler0
    <3>1. acc.bank = "GICR_ICENABLER0" /\ dist' = unset_enable(dist, LoopIrq)
      BY <2>5 DEF StoreGicrIcenabler0, StoreBit, LoopIrq
    <3> QED BY <1>1, <2>1, <2>2, <3>1, UnsetEnable DEF LoopStep, StoredBit
  <2>6. CASE StoreIspendr
    <3>1. acc.bank = "ISPENDR" /\ dist' = vgic_dist_set_pending_irq(Gic(guest.board), dist, LoopIrq)
      BY <2>6 DEF StoreIspendr, StoreBit, LoopIrq
    <3>2. \/ /\ LoopIrq \in Registered /\ On(dist) /\ LoopIrq \in EnabledIn(dist)
             /\ Becomes(dist, dist', EnabledIn(dist), PendingIn(dist) \cup {LoopIrq})
          \/ /\ \/ LoopIrq \notin Registered \/ ~On(dist)
                \/ LoopIrq \notin EnabledIn(dist) \/ LoopIrq \in PendingIn(dist)
             /\ dist' = dist
      BY <2>2, <3>1, InjectEffect
    <3> QED BY <2>1, <3>1, <3>2 DEF LoopStep, StoredBit
  <2>7. CASE StoreIcpendr
    <3>1. acc.bank = "ICPENDR" /\ dist' = unset_pending(dist, LoopIrq)
      BY <2>7 DEF StoreIcpendr, StoreBit, LoopIrq
    <3> QED BY <1>1, <2>1, <2>2, <3>1, UnsetPending DEF LoopStep, StoredBit
  <2> QED BY <1>8, <2>3, <2>4, <2>5, <2>6, <2>7
<1>9. ASSUME Stopped PROVE UNCHANGED vars
  BY <1>9 DEF Stopped
<1> QED BY <1>2, <1>3, <1>4, <1>5, <1>6, <1>7, <1>8, <1>9 DEF Next, GuestStep, HandlerStep

----------------------------------------------------------------------------
(* The set and the clear registers agree. *)

AgreeInv == TypeInv /\ Agree(dist)

(* The words that vgic_dist_reset sets: word k of the two enable banks. *)
ResetTo(e, k) ==
    /\ \A n \in 0 .. 31 : e[64 + n] = (IF n = k THEN 0 .. 15 ELSE {}) /\ e[128 + n] = {}
    /\ Agree(e)
    /\ e[CtlrWord] = {}

LEMMA ResetWords ==
    ASSUME NEW gic
    PROVE  ResetTo(vgic_dist_reset(gic), IF gic = "GICv3" THEN 1 ELSE 0)
<1> DEFINE e == vgic_dist_reset(gic)
           k == IF gic = "GICv3" THEN 1 ELSE 0
<1>1. e = [w \in Words |-> IF w \in {64 + k, 96 + k} THEN 0 .. 15 ELSE {}]
  BY BankBase DEF vgic_dist_reset, local_word, array_word, NUM_SGI_VIRQS
<1>2. k \in {0, 1}
  OBVIOUS
<1> HIDE DEF e, k
<1>3. ASSUME NEW n \in 0 .. 31
      PROVE  /\ e[64 + n] = (IF n = k THEN 0 .. 15 ELSE {}) /\ e[128 + n] = {}
             /\ e[64 + n] = e[96 + n] /\ e[128 + n] = e[160 + n]
  <2> DEFINE v == IF n = k THEN 0 .. 15 ELSE {}
             z == {}
  <2>1. 64 + n \in Words /\ 96 + n \in Words /\ 128 + n \in Words /\ 160 + n \in Words
    BY DEF Words
  <2>2. /\ 64 + n # 96 + k /\ 96 + n # 64 + k
        /\ 128 + n # 64 + k /\ 128 + n # 96 + k /\ 160 + n # 64 + k /\ 160 + n # 96 + k
        /\ (64 + n = 64 + k <=> n = k) /\ (96 + n = 96 + k <=> n = k)
    BY <1>2
  <2>3. e[64 + n] = v /\ e[96 + n] = v /\ e[128 + n] = z /\ e[160 + n] = z
    BY <1>1, <2>1, <2>2
  <2> HIDE DEF v, z
  <2>4. e[64 + n] = e[96 + n] /\ e[128 + n] = e[160 + n]
    BY <2>3
  <2> QED BY <2>3, <2>4 DEF v, z
<1>4. e[CtlrWord] = {}
  BY <1>1, <1>2 DEF CtlrWord, Words
<1>5. Agree(e)
  BY <1>3 DEF Agree
<1>6. \A n \in 0 .. 31 : e[64 + n] = (IF n = k THEN 0 .. 15 ELSE {}) /\ e[128 + n] = {}
  BY <1>3
<1>7. ResetTo(e, k)
  BY <1>4, <1>5, <1>6 DEF ResetTo
<1> QED BY <1>7 DEF e, k

LEMMA ResetBits ==
    ASSUME Init
    PROVE  /\ Agree(dist)
           /\ PendingIn(dist) = {}
           /\ EnabledIn(dist) = {irq \in Numbers : irq < 16 /\ Gic(guest.board) # "GICv3"}
           /\ ~On(dist)
<1> DEFINE k == IF Gic(guest.board) = "GICv3" THEN 1 ELSE 0
<1>1. ResetTo(dist, k)
  BY ResetWords DEF Init
<1> HIDE DEF k
<1>2. Agree(dist)
  BY <1>1 DEF ResetTo
<1>3. ASSUME NEW j \in Numbers
      PROVE  ~is_pending(dist, j) /\ (is_enabled(dist, j) <=> j < 16 /\ Gic(guest.board) # "GICv3")
  <2>1. /\ Slot(j) \in 0 .. 31
        /\ irq_word("ISENABLER", j) = 64 + Slot(j)
        /\ irq_word("ISPENDR", j) = 128 + Slot(j)
    BY WordOf
  <2>2. /\ is_enabled(dist, j) <=> IRQ_BIT(j) \in IF Slot(j) = k THEN 0 .. 15 ELSE {}
        /\ ~is_pending(dist, j)
    BY <1>1, <2>1 DEF is_enabled, is_pending, ResetTo
  <2>3. /\ Slot(j) # 1
        /\ Slot(j) = 0 <=> j < 32
        /\ j < 32 => IRQ_BIT(j) = j
        /\ j < 16 <=> j \in 0 .. 15
        /\ j < 16 => j < 32
    BY DEF Slot, IRQ_BIT, Numbers
  <2> QED BY <2>2, <2>3 DEF k
<1>4. ~On(dist)
  BY <1>1 DEF On, vgic_dist_is_enabled, GIC_ENABLED, ResetTo
<1> QED BY <1>2, <1>3, <1>4 DEF EnabledIn, PendingIn

LEMMA AgreeStep ==
    ASSUME WordAccesses, AgreeInv, [Next]_vars
    PROVE  AgreeInv'
<1>1. TypeInv'
  BY TypeStep DEF AgreeInv
<1>2. CASE Next
  <2>1. Agree(dist')
    BY <1>2, MemorySteps DEF AgreeInv, LoopStep, StoredBit, OtherStep, Becomes, vars
  <2> QED BY <1>1, <2>1 DEF AgreeInv, Agree
<1>3. CASE UNCHANGED vars
  BY <1>1, <1>3 DEF AgreeInv, Agree, vars
<1> QED BY <1>2, <1>3

LEMMA AgreeInvariant ==
    ASSUME WordAccesses
    PROVE  Spec => []AgreeInv
<1>1. Init => AgreeInv
  BY TypeInit, ResetBits DEF AgreeInv
<1>2. AgreeInv /\ [Next]_vars => AgreeInv'
  BY AgreeStep
<1> QED BY <1>1, <1>2, PTL DEF Spec

(* The set and the clear register of every IRQ below 992 hold the same     *)
(* enable and pending bits, so the guest reads the same state from either, *)
(* however many word stores, injections and completions went before.       *)
THEOREM ViewsAgree ==
    ASSUME WordAccesses
    PROVE  Spec => []ClearViewAgrees
<1>1. AgreeInv => ClearViewAgrees
  <2> SUFFICES ASSUME AgreeInv, NEW irq \in IRQS
               PROVE  /\ is_enabled(dist, irq)
                           <=> IRQ_BIT(irq) \in dist[irq_word("ICENABLER", irq)]
                      /\ is_pending(dist, irq)
                           <=> IRQ_BIT(irq) \in dist[irq_word("ICPENDR", irq)]
    BY DEF ClearViewAgrees
  <2>1. irq \in Numbers
    BY DEF WordAccesses
  <2> QED BY <2>1, WordOf DEF AgreeInv, Agree, is_enabled, is_pending
<1> QED BY <1>1, AgreeInvariant, PTL

----------------------------------------------------------------------------
(* The memory implements one bit per IRQ. *)

LEMMA BitsInit == Init /\ WordAccesses => Bits!Init
<1> SUFFICES ASSUME Init, WordAccesses PROVE Bits!Init
  OBVIOUS
<1>1. \A irq \in IRQS : irq \in Numbers
  BY DEF WordAccesses
<1>2. vgic_dist_is_enabled(Gic(guest.board), dist) = FALSE
  BY ResetBits DEF On, vgic_dist_is_enabled
<1>3. \A irq \in IRQS : ~is_pending(dist, irq)
                        /\ (is_enabled(dist, irq) <=> irq < 16 /\ Gic(guest.board) # "GICv3")
  BY <1>1, ResetBits DEF EnabledIn, PendingIn
<1>4. guest.board \in Boards /\ (Gic(guest.board) = "GICv3" <=> guest.board = "imx8mm_evk")
  BY GuestsAssumption DEF Init, Gic
<1> QED BY <1>2, <1>3, <1>4 DEF Bits!Init, Bits!v3, Boards

(* How the bits of the properties follow from those of all the IRQs. *)
EnableSet(d) == {irq \in IRQS : is_enabled(d, irq)}
PendingSet(d) == {irq \in IRQS : is_pending(d, irq)}

LEMMA BitsOfIrqs ==
    ASSUME WordAccesses, NEW d
    PROVE  EnableSet(d) = EnabledIn(d) \cap IRQS /\ PendingSet(d) = PendingIn(d) \cap IRQS
BY DEF WordAccesses, EnableSet, PendingSet, EnabledIn, PendingIn

LEMMA BitsStep ==
    ASSUME WordAccesses, AgreeInv, [Next]_vars
    PROVE  [Bits!Next]_Bits!vars
<1> DEFINE E == EnableSet(dist)  Enew == EnableSet(dist')
           P == PendingSet(dist) Pnew == PendingSet(dist')
<1> USE DEF AgreeInv
<1>1. /\ E = EnabledIn(dist) \cap IRQS /\ P = PendingIn(dist) \cap IRQS
      /\ Enew = EnabledIn(dist') \cap IRQS /\ Pnew = PendingIn(dist') \cap IRQS
  BY BitsOfIrqs
<1>2. ASSUME NEW irq, NEW X, NEW Y, Y = X \cap IRQS
      PROVE  AckPends(irq, X) = Bits!AckPends(irq, Y) /\ Bits!AckPends(irq, Y) \subseteq IRQS
  BY <1>2, IrqsAssumption DEF AckPends, Bits!AckPends, On, SERIAL_IRQ, SERIAL_IRQ_CH
<1>3. CASE UNCHANGED vars
  BY <1>3 DEF vars, Bits!vars
<1>4. CASE OtherStep
  <2>1. guest' = guest
    BY <1>4 DEF OtherStep
  <2>2. CASE Enew = E /\ Pnew = P
    <3>0. vgic_dist_is_enabled(Gic(guest.board), dist)' \in BOOLEAN
      <4>1. CASE Gic(guest'.board) = "GICv3"
        <5>1. (1 \in dist'[CtlrWord]) \in BOOLEAN
          OBVIOUS
        <5>2. vgic_dist_is_enabled(Gic(guest.board), dist)' = (1 \in dist'[CtlrWord])
          BY <4>1 DEF vgic_dist_is_enabled
        <5> QED BY <5>1, <5>2
      <4>2. CASE Gic(guest'.board) # "GICv3"
        BY <4>2, Zenon DEF vgic_dist_is_enabled
      <4> QED BY <4>1, <4>2
    <3>1. Bits!Switch
      BY <2>1, <2>2, <3>0 DEF Bits!Switch, EnableSet, PendingSet
    <3> QED BY <3>1 DEF Bits!Next
  <2>3. ASSUME NEW irq \in Registered, On(dist), irq \in EnabledIn(dist),
               Becomes(dist, dist', EnabledIn(dist), PendingIn(dist) \cup {irq})
        PROVE  Bits!Next
    <3>1. irq \in IRQS
      BY IrqsAssumption
    <3>2. Enew = E /\ Pnew = P \cup {irq} /\ irq \in E /\ dist'[CtlrWord] = dist[CtlrWord]
      BY <1>1, <2>3, <3>1 DEF Becomes
    <3>3. Bits!SetPending(irq)
      BY <2>1, <2>3, <3>2 DEF Bits!SetPending, EnableSet, PendingSet, On, vgic_dist_is_enabled
    <3> QED BY <3>1, <3>3 DEF Bits!Next
  <2>4. ASSUME NEW irq \in Registered,
               Becomes(dist, dist', EnabledIn(dist),
                       (PendingIn(dist) \ {irq}) \cup AckPends(irq, EnabledIn(dist)))
        PROVE  Bits!Next
    <3>1. irq \in IRQS
      BY IrqsAssumption
    <3>2. AckPends(irq, EnabledIn(dist)) = Bits!AckPends(irq, E)
      BY <1>1, <1>2
    <3>3. Bits!AckPends(irq, E) \subseteq IRQS
      BY <1>1, <1>2
    <3>4. Enew = E /\ dist'[CtlrWord] = dist[CtlrWord]
          /\ Pnew = (P \ {irq}) \cup Bits!AckPends(irq, E)
      BY <1>1, <2>4, <3>1, <3>2, <3>3 DEF Becomes
    <3>5. Bits!Complete(irq)
      BY <2>1, <3>4 DEF Bits!Complete, EnableSet, PendingSet, vgic_dist_is_enabled
    <3> QED BY <3>1, <3>5 DEF Bits!Next
  <2> QED BY <1>1, <1>4, <2>2, <2>3, <2>4 DEF OtherStep
<1>5. CASE acc.op = "loop" /\ acc'.op # "loop" /\ UNCHANGED <<guest, dist>>
  BY <1>5 DEF Bits!vars
<1>6. CASE LoopStep
  <2> DEFINE irq == LoopIrq
  <2>1. guest' = guest /\ irq \in Numbers /\ StoredBit
    BY <1>6, LoopIrqIn DEF LoopStep
  <2>2. CASE dist' = dist
    BY <2>1, <2>2 DEF Bits!vars
  <2>3. acc.bank = "GICR_ICENABLER0" => Gic(guest.board) = "GICv3"
    <3>1. acc.bank = "GICR_ICENABLER0" => acc.bank \in RedistBanks
      BY BankBase DEF AllRedistBanks
    <3>2. acc.op # "none" /\ acc.bank \in SetClearBanks
      BY <1>6 DEF LoopStep, TypeInv, AccessOK
    <3>3. guest.board = "imx8mm_evk" => Gic(guest.board) = "GICv3"
      BY DEF Gic
    <3> QED BY <3>1, <3>2, <3>3, WordStore
  <2> HIDE DEF irq
  <2>4. ASSUME dist'[CtlrWord] = dist[CtlrWord], Enew = E, Pnew = P
        PROVE  UNCHANGED Bits!vars
    BY <2>1, <2>4 DEF Bits!vars, EnableSet, PendingSet, vgic_dist_is_enabled
  <2>5. CASE Becomes(dist, dist', EnabledIn(dist) \cup {irq},
                     PendingIn(dist) \cup EnablePends(irq))
    <3>1. /\ dist'[CtlrWord] = dist[CtlrWord] /\ Enew = (E \cup {irq}) \cap IRQS
          /\ Pnew = P \cup (EnablePends(irq) \cap IRQS)
      BY <1>1, <2>5 DEF Becomes
    <3>2. CASE irq \in IRQS
      <4> DEFINE X == IF irq \in Registered \ P THEN Bits!AckPends(irq, E \cup {irq}) ELSE {}
      <4>1. Enew = E \cup {irq} /\ E \cup {irq} = (EnabledIn(dist) \cup {irq}) \cap IRQS
        BY <3>1, <3>2, <1>1
      <4>2. irq \in P <=> irq \in PendingIn(dist)
        BY <1>1, <3>2
      <4>3. /\ AckPends(irq, EnabledIn(dist) \cup {irq}) = Bits!AckPends(irq, E \cup {irq})
            /\ Bits!AckPends(irq, E \cup {irq}) \subseteq IRQS
        BY <1>2, <4>1
      <4>4. EnablePends(irq) = X /\ X \subseteq IRQS
        BY <4>2, <4>3 DEF EnablePends
      <4>5. Pnew = P \cup X
        BY <3>1, <4>4
      <4>6. Bits!Enable(irq)
        BY <2>1, <3>1, <4>1, <4>5 DEF Bits!Enable, EnableSet, PendingSet, vgic_dist_is_enabled
      <4> QED BY <3>2, <4>6 DEF Bits!Next
    <3>3. CASE irq \notin IRQS
      <4>1. Enew = E
        BY <3>1, <3>3, <1>1
      <4>2. EnablePends(irq) = {}
        BY <3>3, IrqsAssumption DEF EnablePends
      <4>3. Pnew = P
        BY <3>1, <4>2
      <4> QED BY <2>4, <3>1, <4>1, <4>3
    <3> QED BY <3>2, <3>3
  <2>6. CASE /\ Becomes(dist, dist', EnabledIn(dist) \ {irq}, PendingIn(dist))
             /\ irq >= NUM_SGI_VIRQS \/ Gic(guest.board) = "GICv3"
    <3>1. dist'[CtlrWord] = dist[CtlrWord] /\ Enew = E \ {irq} /\ Pnew = P
      BY <1>1, <2>6 DEF Becomes
    <3>2. CASE irq \in IRQS
      <4>1. Bits!Disable(irq)
        BY <2>1, <2>6, <3>1
           DEF Bits!Disable, Bits!v3, EnableSet, PendingSet, vgic_dist_is_enabled,
               NUM_SGI_VIRQS, Gic
      <4> QED BY <3>2, <4>1 DEF Bits!Next
    <3>3. CASE irq \notin IRQS
      <4>1. Enew = E
        BY <3>1, <3>3, <1>1
      <4> QED BY <2>4, <3>1, <4>1
    <3> QED BY <3>2, <3>3
  <2>7. CASE /\ irq \in Registered /\ On(dist) /\ irq \in EnabledIn(dist)
             /\ Becomes(dist, dist', EnabledIn(dist), PendingIn(dist) \cup {irq})
    <3>1. irq \in IRQS
      BY <2>7, IrqsAssumption
    <3>2. Enew = E /\ Pnew = P \cup {irq} /\ irq \in E /\ dist'[CtlrWord] = dist[CtlrWord]
      BY <1>1, <2>7, <3>1 DEF Becomes
    <3>3. Bits!SetPending(irq)
      BY <2>1, <2>7, <3>2 DEF Bits!SetPending, EnableSet, PendingSet, On, vgic_dist_is_enabled
    <3> QED BY <3>1, <3>3 DEF Bits!Next
  <2>8. CASE Becomes(dist, dist', EnabledIn(dist), PendingIn(dist) \ {irq})
    <3>1. dist'[CtlrWord] = dist[CtlrWord] /\ Enew = E /\ Pnew = P \ {irq}
      BY <1>1, <2>8 DEF Becomes
    <3>2. CASE irq \in IRQS
      <4>1. Bits!ClearPending(irq)
        BY <2>1, <3>1 DEF Bits!ClearPending, EnableSet, PendingSet, vgic_dist_is_enabled
      <4> QED BY <3>2, <4>1 DEF Bits!Next
    <3>3. CASE irq \notin IRQS
      <4>1. Pnew = P
        BY <3>1, <3>3, <1>1
      <4> QED BY <2>4, <3>1, <4>1
    <3> QED BY <3>2, <3>3
  <2> QED BY <2>1, <2>2, <2>3, <2>5, <2>6, <2>7, <2>8 DEF StoredBit, irq
<1> QED BY <1>3, <1>4, <1>5, <1>6, MemorySteps

(* For guests that access the set and clear registers by words, and IRQs   *)
(* below 992, the memory of struct gic_dist_map implements DistBits: one   *)
(* enable and one pending bit per IRQ, each changed by the operation on    *)
(* that IRQ and by nothing else, on every board, but for the IRQ that      *)
(* serial_ack() injects on odroidc2 when the serial line is enabled or     *)
(* completed.                                                              *)
THEOREM RefinesBits ==
    ASSUME WordAccesses
    PROVE  Spec => ImplementsBits
<1>1. Init => Bits!Init
  BY BitsInit
<1>2. AgreeInv /\ [Next]_vars => [Bits!Next]_Bits!vars
  BY BitsStep
<1> QED BY <1>1, <1>2, AgreeInvariant, PTL DEF Spec, ImplementsBits, Bits!Spec

----------------------------------------------------------------------------
(* What a store addresses and what it does. *)

(* The bits a store has left are bits of its operand, which is zero when   *)
(* it stores the zero register: no load was discarded before.              *)
DataInv ==
    /\ guest.banks \cap SetClearBanks # {} => wzr = {}
    /\ acc.op = "loop" => acc.data \subseteq (IF acc.zr THEN {} ELSE rt)

(* The effect of a store on one IRQ. *)
Done(irq) ==
    /\ acc.bank \in {"ISENABLER", "GICR_ISENABLER0"} => is_enabled(dist, irq)
    /\ acc.bank = "ICENABLER" => irq < NUM_SGI_VIRQS \/ ~is_enabled(dist, irq)
    /\ acc.bank = "GICR_ICENABLER0" => ~is_enabled(dist, irq)
    /\ acc.bank = "ISPENDR" =>
          \/ is_pending(dist, irq)
          \/ irq \notin Registered
          \/ ~vgic_dist_is_enabled(Gic(guest.board), dist)
          \/ ~is_enabled(dist, irq)
    /\ acc.bank = "ICPENDR" => ~is_pending(dist, irq)

(* It has reached every addressed IRQ whose bit is not left. *)
DoneInv ==
    acc.op = "loop" =>
        \A irq \in IRQS \cap Addressed : irq - FirstIrq \notin acc.data => Done(irq)

LoopInv == AgreeInv /\ DataInv /\ DoneInv

LEMMA WordMask ==
    ASSUME WordAccesses, TypeInv, acc.op # "none", acc.bank \in SetClearBanks
    PROVE  Bits32 \subseteq fault_get_data_mask(acc.offset, acc.width)
<1>1. acc.width = 4 /\ acc.offset % 4 = 0 /\ acc.offset \in Nat
  BY WordStore DEF TypeInv, TypeOK
<1>2. AddrShift(acc.offset) = 0
  BY <1>1 DEF AddrShift
<1>3. \A b \in Bits32 : b \in Int /\ b - 0 \in 0 .. 8 * 4 - 1 /\ b \in Bits64
  BY DEF Bits32, Bits64
<1> QED BY <1>1, <1>2, <1>3, MaskBits

(* The bits of the operand that a word store addresses. *)
LEMMA AddressedBits ==
    ASSUME WordAccesses, TypeInv, acc.op # "none", acc.bank \in SetClearBanks, NEW irq \in Int
    PROVE  irq \in Addressed <=> ~acc.zr /\ irq - FirstIrq \in rt \cap Bits32
<1>1. acc.width = 4 /\ FirstIrq \in 0 .. 960 /\ rt \subseteq Bits64
  BY WordStore DEF TypeInv, TypeOK
<1>2. irq \in Addressed <=> irq \in 0 .. 1023 /\ ~acc.zr /\ irq - FirstIrq \in rt
                            /\ irq - FirstIrq < 8 * acc.width
  BY DEF Addressed, FirstIrq
<1>3. irq - FirstIrq \in Bits64 /\ irq - FirstIrq < 32 <=> irq - FirstIrq \in Bits32
  BY <1>1 DEF Bits32, Bits64
<1>4. irq - FirstIrq \in Bits32 => irq \in 0 .. 1023
  BY <1>1 DEF Bits32
<1> QED BY <1>1, <1>2, <1>3, <1>4

LEMMA DataStep ==
    ASSUME WordAccesses, AgreeInv, DataInv, [Next]_vars
    PROVE  DataInv'
<1> USE DEF AgreeInv
<1>0. /\ acc \in [op : {"none", "load", "store", "loop", "stopped"},
                  bank : AllBanks \cup AllRedistBanks \cup {"CTLR"},
                  offset : Nat, width : {1, 2, 4, 8}, zr : BOOLEAN, data : SUBSET Bits32]
      /\ acc.op = "load" /\ acc.zr => guest.zr
      /\ guest \in Guests
  BY DEF TypeInv, TypeOK, AccessOK
<1>1. ASSUME guest' = guest, wzr' = wzr, acc'.op # "loop" PROVE DataInv'
  BY <1>1 DEF DataInv
<1>2. ASSUME NEW bank \in guest.banks, NEW width \in guest.widths,
             NEW offset \in Offsets(bank, width),
             \/ \E v \in guest.values : GuestStores(bank, offset, width, v)
             \/ GuestStoresZr(bank, offset, width)
             \/ \E zr \in BOOLEAN : GuestLoads(bank, offset, width, zr)
      PROVE  DataInv'
  BY <1>1, <1>2 DEF GuestStores, GuestStoresZr, GuestLoads, Access
<1>3. ASSUME HandleLoad PROVE DataInv'
  <2>1. guest' = guest /\ acc'.op # "loop" /\ acc.op = "load"
    BY <1>3 DEF HandleLoad, NoAccess
  <2>2. CASE acc.zr
    <3>1. guest.banks \cap SetClearBanks = {}
      BY <1>0, <2>1, <2>2 DEF WordAccesses
    <3> QED BY <2>1, <3>1 DEF DataInv
  <2>3. CASE ~acc.zr
    BY <1>1, <1>3, <2>1, <2>3 DEF HandleLoad
  <2> QED BY <2>2, <2>3
<1>4. ASSUME HandleUnknownLoad \/ HandleCtlrStore \/ HandleEmulatedStore \/ EndStore
      PROVE  DataInv'
  <2>1. acc' = NoAccess /\ guest' = guest /\ wzr' = wzr
    <3>1. CASE HandleUnknownLoad \/ EndStore
      BY <3>1 DEF HandleUnknownLoad, EndStore
    <3>2. CASE HandleCtlrStore
      BY <3>2, Zenon DEF HandleCtlrStore
    <3>3. CASE HandleEmulatedStore
      BY <3>3, Zenon DEF HandleEmulatedStore
    <3> QED BY <1>4, <3>1, <3>2, <3>3
  <2> QED BY <1>1, <2>1 DEF NoAccess
<1>5. ASSUME StoreIspendrFaults PROVE DataInv'
  BY <1>0, <1>1, <1>5 DEF StoreIspendrFaults
<1>6. ASSUME BeginStore PROVE DataInv'
  <2>1. /\ acc'.zr = acc.zr /\ acc'.data \subseteq fault_get_data
        /\ guest' = guest /\ wzr' = wzr /\ rt' = rt
    BY <1>0, <1>6 DEF BeginStore
  <2>2. guest.banks \cap SetClearBanks # {}
    BY <1>6 DEF BeginStore, TypeInv, AccessOK
  <2>3. fault_get_data = IF acc.zr THEN {} ELSE rt
    BY <2>2 DEF fault_get_data, DataInv
  <2> QED BY <2>1, <2>3 DEF DataInv
<1>7. ASSUME \/ StoreIsenabler \/ StoreIcenabler \/ StoreIspendr \/ StoreIcpendr
             \/ StoreGicrIsenabler0 \/ StoreGicrIcenabler0
      PROVE  DataInv'
  <2>1. /\ acc.op = "loop"
        /\ acc' = [acc EXCEPT !.data = @ \ {Min(@)}]
        /\ UNCHANGED <<guest, rt, wzr>>
    BY <1>7 DEF StoreIsenabler, StoreIcenabler, StoreIspendr, StoreIcpendr,
                StoreGicrIsenabler0, StoreGicrIcenabler0, StoreBit
  <2>2. acc'.zr = acc.zr /\ acc'.data \subseteq acc.data
    BY <1>0, <2>1
  <2> QED BY <2>1, <2>2 DEF DataInv
<1>8. ASSUME NEW irq \in Registered, Inject(irq) \/ Complete(irq) PROVE DataInv'
  BY <1>8 DEF Inject, Complete, DataInv
<1>9. ASSUME UNCHANGED vars PROVE DataInv'
  BY <1>9 DEF vars, DataInv
<1> QED BY <1>2, <1>3, <1>4, <1>5, <1>6, <1>7, <1>8, <1>9
        DEF Next, GuestStep, HandlerStep, Stopped

(* A bit of a store touches the IRQ of that bit alone, which it addresses, *)
(* and the IRQ an acknowledgement injects.                                 *)
LEMMA LoopTouches ==
    ASSUME WordAccesses, AgreeInv, DataInv, LoopStep
    PROVE  /\ LoopIrq \in Addressed
           /\ dist'[CtlrWord] = dist[CtlrWord]
           /\ \A irq \in Numbers \ {LoopIrq} :
                 /\ is_enabled(dist', irq) = is_enabled(dist, irq)
                 /\ \/ is_pending(dist', irq) = is_pending(dist, irq)
                    \/ InjectedByAck(irq) /\ is_pending(dist', irq)
<1> USE DEF AgreeInv
<1>1. /\ Min(acc.data) \in acc.data /\ Min(acc.data) \in Bits32
      /\ LoopIrq = Min(acc.data) + FirstIrq /\ LoopIrq \in Numbers
  BY LoopIrqIn DEF LoopStep
<1>2. acc.op # "none" /\ acc.bank \in SetClearBanks
  BY DEF LoopStep, TypeInv, AccessOK
<1>3. FirstIrq \in 0 .. 960
  BY <1>2, WordStore
<1>4. LoopIrq - FirstIrq = Min(acc.data) /\ LoopIrq \in Int
  BY <1>1, <1>3 DEF Bits32
<1>5. ~acc.zr /\ Min(acc.data) \in rt
  BY <1>1 DEF LoopStep, DataInv
<1>6. LoopIrq \in Addressed
  BY <1>1, <1>2, <1>4, <1>5, AddressedBits
<1>7. /\ dist'[CtlrWord] = dist[CtlrWord]
      /\ \A irq \in Numbers \ {LoopIrq} : irq \in EnabledIn(dist') <=> irq \in EnabledIn(dist)
      /\ \/ \A irq \in Numbers \ {LoopIrq} : irq \in PendingIn(dist') <=> irq \in PendingIn(dist)
         \/ /\ acc.bank \in {"ISENABLER", "GICR_ISENABLER0"}
            /\ PendingIn(dist') = PendingIn(dist) \cup EnablePends(LoopIrq)
  BY DEF LoopStep, StoredBit, Becomes
<1>8. ASSUME NEW irq \in Numbers \ {LoopIrq}, irq \in EnablePends(LoopIrq),
             acc.bank \in {"ISENABLER", "GICR_ISENABLER0"}
      PROVE  InjectedByAck(irq)
  <2>1. /\ guest.board = "odroidc2" /\ LoopIrq = SERIAL_IRQ /\ LoopIrq \in Registered
        /\ irq = SERIAL_IRQ_CH /\ irq \in Registered /\ irq \in EnabledIn(dist) /\ On(dist)
    BY <1>8 DEF EnablePends, AckPends
  <2>2. acc.bank = "ISENABLER"
    BY <1>2, <1>8, <2>1, WordStore, BankBase DEF AllRedistBanks
  <2> QED BY <1>6, <2>1, <2>2 DEF InjectedByAck, On, EnabledIn
<1>9. ASSUME NEW irq \in Numbers \ {LoopIrq}
      PROVE  /\ is_enabled(dist', irq) = is_enabled(dist, irq)
             /\ \/ is_pending(dist', irq) = is_pending(dist, irq)
                \/ InjectedByAck(irq) /\ is_pending(dist', irq)
  <2>1. is_enabled(dist', irq) = is_enabled(dist, irq)
    BY <1>7 DEF EnabledIn, is_enabled
  <2>2. CASE irq \in PendingIn(dist') <=> irq \in PendingIn(dist)
    BY <2>1, <2>2 DEF PendingIn, is_pending
  <2>3. CASE ~(irq \in PendingIn(dist') <=> irq \in PendingIn(dist))
    <3>1. /\ acc.bank \in {"ISENABLER", "GICR_ISENABLER0"}
          /\ PendingIn(dist') = PendingIn(dist) \cup EnablePends(LoopIrq)
      BY <1>7, <2>3
    <3>2. irq \in EnablePends(LoopIrq) /\ irq \in PendingIn(dist')
      BY <2>3, <3>1
    <3>3. is_pending(dist', irq)
      BY <3>2 DEF PendingIn
    <3> QED BY <1>8, <2>1, <3>1, <3>2, <3>3
  <2> QED BY <2>2, <2>3
<1> QED BY <1>6, <1>7, <1>9

LEMMA DoneStep ==
    ASSUME WordAccesses, LoopInv, [Next]_vars
    PROVE  DoneInv'
<1> USE DEF LoopInv, AgreeInv
<1>0. acc \in [op : {"none", "load", "store", "loop", "stopped"},
               bank : AllBanks \cup AllRedistBanks \cup {"CTLR"},
               offset : Nat, width : {1, 2, 4, 8}, zr : BOOLEAN, data : SUBSET Bits32]
  BY DEF TypeInv, AccessOK
<1>1. CASE UNCHANGED vars
  BY <1>1 DEF vars, DoneInv, Done, Addressed, FirstIrq, is_enabled, is_pending,
              vgic_dist_is_enabled
<1>2. CASE acc'.op # "loop"
  BY <1>2 DEF DoneInv
<1>3. CASE BeginStore
  <2>1. /\ acc.op = "store" /\ acc.bank \in SetClearBanks
        /\ acc' = [acc EXCEPT !.op = "loop",
                              !.data = fault_get_data \cap Bits32
                                   \cap fault_get_data_mask(acc.offset, acc.width)]
        /\ rt' = rt
    BY <1>3 DEF BeginStore
  <2>2. /\ acc'.bank = acc.bank /\ acc'.offset = acc.offset /\ acc'.width = acc.width
        /\ acc'.zr = acc.zr
        /\ acc'.data = fault_get_data \cap Bits32
                           \cap fault_get_data_mask(acc.offset, acc.width)
    BY <1>0, <2>1
  <2>3. Addressed' = Addressed /\ FirstIrq' = FirstIrq
    BY <2>1, <2>2 DEF Addressed, FirstIrq
  <2>4. ASSUME NEW irq \in IRQS \cap Addressed PROVE irq - FirstIrq \in acc'.data
    <3>1. irq \in Int
      BY IrqsAssumption
    <3>2. ~acc.zr /\ irq - FirstIrq \in rt \cap Bits32
      BY <2>1, <2>4, <3>1, AddressedBits
    <3>3. irq - FirstIrq \in fault_get_data_mask(acc.offset, acc.width)
      BY <2>1, <3>2, WordMask
    <3> QED BY <2>2, <3>2, <3>3 DEF fault_get_data
  <2> QED BY <2>3, <2>4 DEF DoneInv
<1>4. CASE LoopStep
  <2>1. /\ acc.op = "loop" /\ acc.data # {} /\ StoredBit
        /\ acc' = [acc EXCEPT !.data = @ \ {Min(@)}]
        /\ rt' = rt /\ guest' = guest
    BY <1>4 DEF LoopStep
  <2>2. /\ acc'.bank = acc.bank /\ acc'.offset = acc.offset /\ acc'.width = acc.width
        /\ acc'.zr = acc.zr /\ acc'.data = acc.data \ {Min(acc.data)}
    BY <1>0, <2>1
  <2>3. Addressed' = Addressed /\ FirstIrq' = FirstIrq
    BY <2>1, <2>2 DEF Addressed, FirstIrq
  <2>4. /\ Min(acc.data) \in acc.data /\ Min(acc.data) \in Bits32
        /\ LoopIrq = Min(acc.data) + FirstIrq /\ LoopIrq \in Numbers
    BY <2>1, LoopIrqIn
  <2>5. FirstIrq \in 0 .. 960
    BY <2>1, WordStore DEF TypeInv, AccessOK
  <2>6. /\ dist'[CtlrWord] = dist[CtlrWord]
        /\ \A irq \in Numbers \ {LoopIrq} :
              /\ is_enabled(dist', irq) = is_enabled(dist, irq)
              /\ \/ is_pending(dist', irq) = is_pending(dist, irq)
                 \/ acc.bank = "ISENABLER"
    BY <1>4, LoopTouches DEF InjectedByAck
  <2>7. ASSUME NEW irq \in IRQS \cap Addressed, irq - FirstIrq \notin acc'.data
        PROVE  Done(irq)'
    <3>1. irq \in Numbers
      BY DEF WordAccesses
    <3>2. CASE irq # LoopIrq
      <4>1. irq - FirstIrq # Min(acc.data)
        BY <2>4, <2>5, <3>1, <3>2 DEF Numbers, Bits32
      <4>2. irq - FirstIrq \notin acc.data
        BY <2>2, <2>7, <4>1
      <4>3. Done(irq)
        BY <2>1, <4>2 DEF DoneInv
      <4>4. vgic_dist_is_enabled(Gic(guest.board), dist') = vgic_dist_is_enabled(Gic(guest.board), dist)
        BY <2>6 DEF vgic_dist_is_enabled
      <4>5. /\ is_enabled(dist', irq) = is_enabled(dist, irq)
            /\ \/ is_pending(dist', irq) = is_pending(dist, irq)
               \/ acc.bank = "ISENABLER"
        BY <2>6, <3>1, <3>2
      <4> QED BY <2>1, <2>2, <4>3, <4>4, <4>5 DEF Done
    <3>3. CASE irq = LoopIrq
      <4>1. On(dist') = On(dist)
        BY <2>6 DEF On, vgic_dist_is_enabled
      <4>2. /\ is_enabled(dist', irq) <=> irq \in EnabledIn(dist')
            /\ is_pending(dist', irq) <=> irq \in PendingIn(dist')
        BY <3>1 DEF EnabledIn, PendingIn
      <4>3. /\ acc.bank \in {"ISENABLER", "GICR_ISENABLER0"} => irq \in EnabledIn(dist')
            /\ acc.bank = "ICENABLER" => irq < NUM_SGI_VIRQS \/ irq \notin EnabledIn(dist')
            /\ acc.bank = "GICR_ICENABLER0" => irq \notin EnabledIn(dist')
            /\ acc.bank = "ISPENDR" => \/ irq \in PendingIn(dist') \/ irq \notin Registered
                                       \/ ~On(dist) \/ irq \notin EnabledIn(dist')
            /\ acc.bank = "ICPENDR" => irq \notin PendingIn(dist')
        BY <2>1, <3>3 DEF StoredBit, Becomes
      <4> QED BY <2>1, <2>2, <4>1, <4>2, <4>3 DEF Done, On
    <3> QED BY <3>2, <3>3
  <2> QED BY <2>3, <2>7 DEF DoneInv
<1>5. ASSUME Next, acc'.op = "loop" PROVE BeginStore \/ LoopStep \/ UNCHANGED vars
  <2>1. CASE acc.op = "loop"
    BY <1>5, <2>1, MemorySteps DEF OtherStep
  <2>2. CASE acc.op # "loop"
    <3>1. ASSUME NEW bank \in guest.banks, NEW width \in guest.widths,
                 NEW offset \in Offsets(bank, width),
                 \/ \E v \in guest.values : GuestStores(bank, offset, width, v)
                 \/ GuestStoresZr(bank, offset, width)
                 \/ \E zr \in BOOLEAN : GuestLoads(bank, offset, width, zr)
          PROVE  FALSE
      BY <1>5, <3>1 DEF GuestStores, GuestStoresZr, GuestLoads, Access
    <3>2. ASSUME HandleLoad \/ HandleUnknownLoad \/ HandleCtlrStore \/ HandleEmulatedStore
          PROVE  FALSE
      <4>1. acc' = NoAccess
        BY <3>2, Zenon DEF HandleLoad, HandleUnknownLoad, HandleCtlrStore,
                           HandleEmulatedStore
      <4> QED BY <1>5, <4>1 DEF NoAccess
    <3>3. ASSUME NEW irq \in Registered, Inject(irq) \/ Complete(irq) PROVE FALSE
      BY <1>5, <2>2, <3>3 DEF Inject, Complete
    <3>4. ASSUME \/ StoreIsenabler \/ StoreIcenabler \/ StoreIspendr \/ StoreIcpendr
                 \/ StoreGicrIsenabler0 \/ StoreGicrIcenabler0
                 \/ StoreIspendrFaults \/ EndStore
          PROVE  FALSE
      BY <2>2, <3>4 DEF StoreIsenabler, StoreIcenabler, StoreIspendr, StoreIcpendr,
                        StoreGicrIsenabler0, StoreGicrIcenabler0, StoreBit,
                        StoreIspendrFaults, EndStore
    <3> QED BY <1>5, <3>1, <3>2, <3>3, <3>4 DEF Next, GuestStep, HandlerStep, Stopped
  <2> QED BY <2>1, <2>2
<1> QED BY <1>1, <1>2, <1>3, <1>4, <1>5

LEMMA LoopInvariant ==
    ASSUME WordAccesses
    PROVE  Spec => []LoopInv
<1>1. Init => LoopInv
  <2> SUFFICES ASSUME Init PROVE LoopInv
    OBVIOUS
  <2>1. AgreeInv
    BY TypeInit, ResetBits DEF AgreeInv
  <2>2. acc.op = "none" /\ wzr = {}
    BY DEF Init, NoAccess
  <2> QED BY <2>1, <2>2 DEF LoopInv, DataInv, DoneInv
<1>2. LoopInv /\ [Next]_vars => LoopInv'
  BY AgreeStep, DataStep, DoneStep DEF LoopInv
<1> QED BY <1>1, <1>2, PTL DEF Spec

(* When a word store to a set or clear register ends, every IRQ it         *)
(* addressed has been enabled, disabled, made pending or cleared, however  *)
(* many bits the operand has (the loops of vgic_dist_reg_write and         *)
(* handle_vgic_redist_write_fault).                                        *)
THEOREM StoresTakeEffect ==
    ASSUME WordAccesses
    PROVE  Spec => []StoreTakesEffect
<1>1. LoopInv => StoreTakesEffect
  BY DEF LoopInv, DoneInv, Done, StoreTakesEffect
<1> QED BY <1>1, LoopInvariant, PTL

(* A word store to a set or clear register leaves the enable and the       *)
(* pending bit of every IRQ it did not address as they were, but for the   *)
(* IRQ that serial_ack() injects when the store enables the serial line of *)
(* odroidc2; a store of the zero register changes none.                    *)
THEOREM StoresTouchOnly ==
    ASSUME WordAccesses
    PROVE  Spec => StoreTouchesOnly
<1>1. LoopInv /\ [Next]_vars =>
        [acc.op = "loop" =>
          \A irq \in IRQS \ Addressed :
              /\ is_enabled(dist', irq) = is_enabled(dist, irq)
              /\ \/ is_pending(dist', irq) = is_pending(dist, irq)
                 \/ InjectedByAck(irq) /\ is_pending(dist', irq)]_vars
  <2> SUFFICES ASSUME LoopInv, Next, acc.op = "loop", NEW irq \in IRQS \ Addressed
               PROVE  /\ is_enabled(dist', irq) = is_enabled(dist, irq)
                      /\ \/ is_pending(dist', irq) = is_pending(dist, irq)
                         \/ InjectedByAck(irq) /\ is_pending(dist', irq)
    OBVIOUS
  <2>1. CASE LoopStep
    <3>1. irq \in Numbers
      BY DEF WordAccesses
    <3> QED BY <2>1, <3>1, LoopTouches DEF LoopInv
  <2>2. CASE dist' = dist
    BY <2>2
  <2> QED BY <2>1, <2>2, MemorySteps DEF LoopInv, AgreeInv, OtherStep, vars
<1> QED BY <1>1, LoopInvariant, PTL DEF Spec, StoreTouchesOnly
=============================================================================
