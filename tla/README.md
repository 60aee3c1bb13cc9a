# Verification of the seL4CP virtual machine monitor

TLA+ models of the VMM in `src/src`: a single-threaded program on the seL4 Core
Platform that runs one guest (Linux) on one vCPU, emulates the distributor of a
GICv2 or GICv3 for it, delivers device, timer and software interrupts to it, and
answers its faults. TLC checks the models on small instances, TLAPS proves the main
safety properties for every instance.

## The system

| part | state | operations | interacts with |
| --- | --- | --- | --- |
| overflow queue (`vgic/virq.h`) | `irq_queue`: buffer, `head`, `tail` | `vgic_irq_enqueue`, `vgic_irq_dequeue` | virtual interrupt delivery |
| virtual interrupt delivery (`vgic/virq.h`, `vgic/vdist.h`, `vgic/vgic.c`, `vgic/vgic_v2.c`) | enable and pending flags, `lr_shadow`, the queue; outside the VMM the list registers and the kernel's mask of each line | inject, enable, disable, set and clear pending, maintenance, acknowledge | called by the event loop and by stores to the distributor; calls the kernel to load a list register and to acknowledge a line |
| distributor registers (`vgic/vdist.h`, `vgic/vgic_v2.h`) | `struct gic_dist_map` | loads and stores of the guest | the flags of the delivery are bits of this memory |
| fault emulation (`fault.c`) | `wzr`, the stand-in for the zero register | width, mask, shift and operand of an access; advance the program counter and resume | every emulated instruction |
| event loop (`vmm.c`) | none of its own | `init`, `notified`, `fault` and its handlers | seL4: notifications, fault messages, replies, the guest's registers |
| SMC and PSCI (`smc.c`, `psci.c`) | none | decode a call, return a value | event loop, fault emulation |
| interrupt registration (`vgic/virq.h`, `vgic/vgic.c`) | `vspis` and `local_virqs`, the slot tables of handles | `vgic_register_irq`, `virq_add` and its two searches | `init` fills the tables; the overflow queue keeps pointers into them |
| GICv3 (`vgic/vgic_v3.*`) | the same `struct gic_dist_map` | control register, reset, loads and stores of the redistributor | built in place of `vgic_v2.c` for imx8mm_evk |

The VMM takes one event at a time. A device interrupt is a notification: the
kernel masks the line and the VMM has to acknowledge it before it can fire
again. Everything else is a fault message of the guest, which is blocked until
the VMM replies: an access to the distributor, the virtual timer, the vGIC's
maintenance interrupt (the guest has completed an interrupt), a system call, an
SMC, a WFI.

What is hard about it, and what correctness means:

* an interrupt moves through a flag, a queue, a shadow and a hardware register
  that three parties change (guest, kernel, VMM). The pieces must agree in
  every interleaving, no interrupt may be lost, delivered twice or left
  waiting for an event that never comes;
* a line that is masked and that nobody will acknowledge is dead. The comment
  at the head of `vgic_v2.c` describes the protocol that prevents it;
* the overflow queue and the list registers have limits, and the assertions
  around them stop the VMM for good;
* handles are registered in bounded tables, and `init` has to notice when one
  does not fit;
* bits of IRQs are found by arithmetic on offsets, widths and array indices;
* the guest may run before the handler that resumed it has finished.

`PROJECT.json` lists these hazards at their lines.

## Modules

**`IrqQueue`** is the ring buffer with its indices, one action per C function
(`vgic_irq_enqueue` also with its result when the buffer is full). **`BoundedFifo`**
is what it promises: a sequence of at most `MAX_IRQ_QUEUE_LEN - 1` handles.
`ImplementsFifo` is the refinement. The other modules use the sequence.

**`VirqTable`** is the pair of handle tables and the start-up of a VMM: an
arbitrary list of registrations, made one by one, abandoned when one fails and
followed by the start of the guest (`init` ignores the result of the last call).
**`HandleMap`** is what it promises: one handle per IRQ, the first one
registered; a local IRQ is refused a second one, an SPI only when there is no
room. `ImplementsMap` is the refinement.

**`VgicOps`** has the driver's functions as operators on one record, named as in
C. A failed assertion, or the use of a NULL handle, sets its `status`. The
flags are sets of IRQs, which `DistRegs` justifies for IRQs below 992, and
`Registered` stands for the filled tables of `VirqTable`. The kernel's part
(list registers, masks) is modelled from the calls the VMM makes. `Board`
selects what differs between the builds: the acknowledgement of the serial
line, and on imx8mm_evk the GICv3 with its control register and its reset,
after which the SGIs are disabled.

**`Vgic`** is the state machine around it: `GuestStep` (stores to the
distributor and the redistributor, completion of an interrupt), `KernelStep`
(timer, device and maintenance interrupts), `Notified`, and `FaultStep` with one
action per handler. A store to a set or clear register is a loop in C; each
iteration is a step, so that device interrupts arrive between two. `GuestMay`
says what the guest does beyond an orderly driver: write the pending registers,
turn the distributor off under an enabled line, write the SGI pending
registers. `UninitErr` holds the values that the unset variable `err` of
`handle_vgic_maintenance` may have.

**`IrqLine`** is the protocol that the comment at the head of `vgic_v2.c` and
`vgic_v3.c` describes, states b, c, d and g, for each hardware line by itself:
no list registers, no queue, no order. `ImplementsLine` maps `Vgic` to it: a
line is acknowledged when its interrupt is completed, when it is enabled and
not pending, or when it is a dropped VPPI event, and by nothing else. A step in
which the VMM stops maps to `Halt`, after which nothing is promised.

**`DistRegs`** is the memory of the distributor, a function from word numbers to
sets of bits, with the guest's loads and stores: `reg_word`, `irq_of_bit` and
the accessors are the address arithmetic of `vdist.h`, `redist_word` that of
`vgic_v3.c`, `fault_get_data_mask` and `fault_emulate` the masks and shifts of
`fault.c`. The variable `guest` never changes: it is the kind of guest a
behaviour is about (its board, the registers and widths it uses, the values it
stores, whether it loads into the zero register). Enabling a line and completing
its interrupt acknowledge it in the same step, and on odroidc2 the
acknowledgement of the serial line, IRQ 225, injects IRQ 1, whatever IRQ the
guest's store addresses. **`MCDistRegs`** has the five guests of the run.
**`DistBits`** is the abstract view, one enable and one pending bit per IRQ and the
interrupt that an acknowledgement makes pending; `ImplementsBits` is the
refinement.

**`Vmm`** is the dispatch of faults. The guest is a straight-line program of
`MaxPc` instructions that executes or faults at each, in any of the ways the VMM
distinguishes, and that is interrupted between any two. The two ways of
resuming it are separate actions: `fault_advance_vcpu` writes the registers with
the resume flag, so the guest already runs when `reply_to_fault` is sent.
`count` is a history variable. Assertions of the virtual GIC are the field
`fails` of a message, chosen freely (`Vgic` says when they fail); an access to
the page after the redistributor, which the case range of `handle_vm_fault`
includes, always fails one.

**`IrqQueueProofs`, `VirqTableProofs`, `VgicProofs`, `VgicSafetyProofs`,
`VgicLineProofs`, `DistRegsProofs`, `VmmProofs`** hold the theorems,
**`LeastElement`** the lemma about `Min` of a set of numbers that the searches
for a slot, a list register or the next bit of a store need.

A definition named `Mutant...` is a plausible bug in the definition below it;
it is used by no action. `PROJECT.json` names the property that detects it.

## Runs that pass

| run | instance | shows |
| --- | --- | --- |
| `irq_queue` | 4 slots, 3 handles | indices stay in range, the buffer is a FIFO, over every wrap of both indices |
| `virq_table` | every list of up to 4 registrations of 2 local IRQs and 2 SPIs with 2 handles each, room for 2 SPIs | `ImplementsMap`; `SlotsStable`: a slot in use never changes; `StartedRegistered`: a guest that was started has every interrupt `init` checked |
| `vgic_linux` | the registrations of `init()` on qemu_arm_virt_hyp (SGIs 0 and 1, timer 27, serial 33), 4 list registers, orderly guest, any value of `err` | `SingleDelivery`: an IRQ is in flight exactly while it is pending, and once. `StopsOnlyOnUnsetErr`: nothing but the test of the unset `err` stops the VMM. `AckOwed`: every masked line has somebody who will acknowledge it. `ImplementsLine` |
| `vgic_any_guest` | odroidc2, whose serial acknowledgement injects an SGI; 2 list registers, 3 queue places; an unregistered SPI; a guest that does anything; any value of `err` | `PendingInFlight`, `MirrorsListRegs`, `WorkConserving`, `SgisStayEnabled`, `OnlyEnabledTaken`, `ImplementsLine` |
| `vgic_gicv3` | imx8mm_evk: the redistributor, 2 SGIs, the timer and an SPI that no device raises, 2 list registers, a guest that switches the distributor at any time, any value of `err` | `SingleDelivery`, `AckOwed`, `OnlyEnabledTaken`, `ImplementsLine` |
| `vgic_live` | timer and serial line, fairness | `FaultAnswered`, `LineReopens`, `PendingCompleted` |
| `dist_regs` | five guests: word accesses to the control, set and clear registers on each of the three boards, with odroidc2's serial line for the one whose acknowledgement injects; accesses of 1, 2, 4 and 8 bytes to the group registers of a GICv2 and of words to the group and active registers of a GICv3, zero register included; an SGI, an SPI and an SPI of the last usable register | `ClearViewAgrees`; `StoreTakesEffect`; `StoreTouchesOnly`: a store to a set or clear register changes no IRQ it does not address, but for the pending bit of IRQ 1 when it acknowledges odroidc2's serial line; `ImplementsBits`; `LoadedLanes`, `StoredLanes`: accesses of up to a word reach exactly the bytes at their offset |
| `vmm` | programs of 4 instructions, every page of the two GIC devices, SMC services inside and outside the standard service, known, unknown and out-of-range functions | `ExecutedOnce`, `NoBlindReply`, `OnlyReportedFaultsBlock`: no reply is lost, only a handler that never sends one leaves the guest blocked. `AnsweredResumes` |

Bounds. With two list registers and three IRQs a guest that clears pending
flags keeps several copies of an IRQ in flight, so the list registers fill and
the queue reaches its limit; with four list registers and the four registered
IRQs a guest that clears no pending flags never needs the queue, which is why
`StopsOnlyOnUnsetErr` holds there. `MAX_IRQ_QUEUE_LEN` is 64 in the code; the runs that fill the queue make
it 4, and the theorems hold for every value. In `vgic_gicv3` the two list
registers fill too, so interrupts wait in the queue. Four registrations and two
places for SPIs (`NUM_SLOTS_SPI_VIRQ` is 200) cover a table that fills, an SPI
registered twice before and after it is full, a local IRQ registered twice, and
a failure of the first, a middle and the last call. `MaxPc` = 4 gives room for a
fault, an interrupt and a second fault before and after each other. The five
guests of `dist_regs` share no state, so they are five checks in one run.

`UninitErr` is `{0, 1}`, zero and a value that is not, in `vgic_linux`,
`vgic_any_guest` and `vgic_gicv3`. It is `{0}` in `vgic_live`,
since with another value the VMM may stop at any maintenance interrupt and
promises nothing afterwards, and in the failing runs that are about something
else.

CHECK_DEADLOCK is off in `vmm`, where the guest's program ends and a fault that
no handler answers ends it early, and in `virq_table`, where `init` ends.

Fairness. `Vgic`: a fault that waits is handled (weak, `FaultStep`: the VMM is a
thread of its own above the guest); a notification that waits is taken
(strong, since the loop handles faults in between); the maintenance interrupt is
level triggered and comes back whenever the guest runs (strong); the guest
completes an interrupt it can take (strong). Nothing is assumed of devices, or
of the guest's stores. `Vmm`: weak fairness of the VMM's steps, nothing of the
guest.

## Runs that fail, and what they show

| run | property | what the code does |
| --- | --- | --- |
| `vgic_overflow` | `MaintenanceNeverFails` | `vgic.c:53` takes the success of `vgic_vcpu_load_list_reg` for an error: as soon as an interrupt waits in the overflow queue, the maintenance interrupt that loads it stops the VMM. `vdist.h:206` relies on that path |
| `vgic_gate` | `AckOwed` | an interrupt of an enabled line that arrives while the distributor is off is dropped and never acknowledged, also not when the distributor is turned on (state c of the comment in `vgic_v2.c` has only the enable bit) |
| `dist_read_back` | `EnableReadsBack` | the accessors index the SPI arrays from IRQ 0, the read path from IRQ 32: the guest reads the bits of SPI n in the register of SPI n + 32 |
| `gicv3_sgis` | `SgisStayEnabled` | a store to GICR_ICENABLER0 clears the enable bit of an SGI (`vgic_v3.c:138`), which `vdist.h:160` says the vGIC does not allow |

Also in the models, outside the runs' instances:

* for IRQs 992 to 1019 the index of an SPI leaves its array and reaches the next
  bank's first word (`DistRegs` with IRQ 1019 in `IRQS` violates
  `StoreTouchesOnly`; `dist_regs` stays below);
* a store narrower than a word to a set or clear register, at an offset that is
  not a multiple of four, is masked before it is shifted and has no effect: a
  guest with byte accesses to the registers of IRQ 9 violates `StoreTakesEffect`;
* after a load into the zero register a store of that register stores the
  loaded value (`WordsV2` with `zr` violates `StoreTouchesOnly`);
* a load of a redistributor register that `handle_vgic_redist_read_fault` does
  not know, its enable registers among them, leaves the operand register as it
  was (`HandleUnknownLoad`);
* the GICv3 reset sets the SGIs' bits in `enable_set[0]`, an element that belongs
  to no IRQ by the accessors, so the SGIs start disabled;
* an SGI for "all VCPUs except the requesting VCPU" (`vdist.h:547`) goes to the
  requesting one;
* `err` (`vgic.c:22`) is set only when the overflow queue gave an IRQ
  (`vgic.c:54`) and is tested in any case (`vgic.c:56`). With an empty queue, the
  usual one, a maintenance interrupt may therefore take the branch that reports
  a failure and stop in `assert(0)` although nothing failed: with the constants
  of `VgicLinux.cfg` TLC finds `MaintenanceNeverFails` violated by the first
  maintenance interrupt whose `err` is not zero. `StopsOnlyOnUnsetErr` shows that
  nothing else stops the VMM there;
* of an access of eight bytes only one 32-bit register is emulated: a load
  delivers zeros in bytes 4 to 7, and the upper half of a store is lost.
  `LoadedLanes` and `StoredLanes` say nothing of such accesses;
* a second registration of an SPI succeeds and takes a slot that no search ever
  finds (`HandleMap`, `RegisterSpi`).

The redistributor is modelled with word accesses only, as GICv3 requires of a
guest. The code's handling of a narrower load is not modelled: it reads
GICR_IGROUPR0 at the unaligned address and then shifts again (`vgic_v3.c:75`).

## Proofs

For every value of the constants that satisfies the named assumptions:

* `IrqQueueProofs`: `TypeCorrect` and `RefinesFifo`. The refinement maps the
  slots from `head` to `tail` to a sequence; the lemmas are about the modulus
  that `IRQ_QUEUE_NEXT` computes with a mask. Assumption: the length is a
  power of two and at least 2, as `virq.h` demands.
* `VirqTableProofs`: `TypeCorrect`, `StableSlots` (`SlotsStable`), `RefinesMap`
  (`ImplementsMap`) and `RegisteredBeforeStart` (`StartedRegistered`), for every
  size of the table and every list of registrations. The refinement needs the
  type invariant and that the slots in use come first (`Packed`), so that a
  search finds the first registration and the number of slots in use grows by
  one. `StartedRegistered` needs that every handle in the tables comes from a
  call already made and that every call `init` has checked is settled
  (`FromCalls`), and that the guest starts after the last call (`AllMade`).
* `VgicProofs`: `TypeCorrect`, the bound of the queue included: the type
  of each operator of `VgicOps`, then one step per action.
* `VgicSafetyProofs`: `FlagsInFlight` (`PendingInFlight`), `ShadowMirrors`
  (`MirrorsListRegs`) and `QueueDrained` (`WorkConserving`), for every guest and
  board and any value of `err`. None is inductive alone: that a newly pending
  IRQ ends up in flight needs the queue to be empty when a list register is,
  and the assertion that the loaded register is empty in hardware needs the
  shadow to lag behind in the completed registers only. The invariant is their
  conjunction with the type invariant. The core is one lemma about
  `vgic_dist_set_pending_irq`, in the two situations in which it is called:
  from the event loop, and from an acknowledgement inside the maintenance
  handler.
* `VgicLineProofs`: what each handler does to one interrupt line. `StepForms`
  shows that every step of `Vgic` is one of twelve forms (`DriverStep`: a device
  fires, an injection, a clear, an enable with or without its acknowledgement,
  a disable, a maintenance, ...); the theorems have one step per form.
  * `LineProtocol` (`ImplementsLine`), for every guest, board, number of list
    registers and queue length. It needs the converse of the lemmas of
    `VgicSafetyProofs`: a step puts in flight the injected IRQ and those an
    acknowledgement injects, and nothing else, and takes out the completed ones
    only (`SetPendingAdds`, `AckEffect`, `Resident`).
  * `TakenIfEnabled` (`OnlyEnabledTaken`), for every guest and board.
  * `SgisKept` (`SgisStayEnabled`), on the boards with a GICv2. `gicv3_sgis`
    shows that it fails on the other.
  * `AcksOwed` (`AckOwed`), for guests that do not turn the distributor off
    under an enabled device line, or boards without such a line. It is proved of
    the abstract protocol, and carried over by the refinement: the actions of
    `IrqLine` keep `Owed` as long as an enabled line implies that the
    distributor is on (`Gated`). `vgic_gate` shows that the hypothesis is needed.
  * `DeliveredOnce` (`SingleDelivery`), for guests that do not write ICPENDR. The
    invariant `Single` adds that no two slots of the list registers and the
    queue hold the same IRQ; the pending flag alone does not say so.
  * `OnlyUnsetErrStopsVmm` (`StopsOnlyOnUnsetErr`), under `Tame`: at least as many
    list registers as registered IRQs, a guest that does not clear pending
    flags, set that of an SPI without a handle or write the SGI pending
    registers, which the VMM does not implement. Nothing is assumed of the unset
    variable `err`; the theorem says that its test is the one thing that can
    stop the VMM. By the pigeonhole principle
    the queue stays empty (`Clear`, `Roomy`), and the path of
    `handle_vgic_maintenance` that takes success for failure is never
    entered. `vgic_overflow` shows what happens when a guest clears pending
    flags and an interrupt has to wait in the queue.
* `DistRegsProofs`: `TypeCorrect` for every guest, width, offset and value,
  `LoadsLanes` (`LoadedLanes`) and `StoresLanes` (`StoredLanes`) for every access
  of up to a word. On every board, under `WordAccesses`
  (IRQs below 992; a guest that uses the set and clear registers accesses them
  by words and loads nothing into the zero register) `ViewsAgree`
  (`ClearViewAgrees`), `RefinesBits` (`ImplementsBits`), `StoresTakeEffect`
  (`StoreTakesEffect`) and `StoresTouchOnly` (`StoreTouchesOnly`). The section
  above lists what the code does outside these hypotheses. The inductive
  invariant is that the set and the clear banks agree word by word (`Agree`),
  the words that belong to no IRQ included; every operation then writes the same
  value in both (`Replaced`), an acknowledgement makes at most one other IRQ
  pending (`AckEffect`), and an IRQ is determined by its word and bit
  (`OneBitEach`). A store in progress adds that its remaining bits are bits of
  the operand (`DataInv`: `wzr` is zero) and that every addressed IRQ whose bit
  is gone has been reached (`DoneInv`).
* `VmmProofs`: `TypeCorrect`, `InstructionsOnce` (`ExecutedOnce`),
  `RepliesNotBlind` (`NoBlindReply`) and `BlocksOnlyReported`
  (`OnlyReportedFaultsBlock`). The invariant adds what a handler relies on: while
  it runs, the guest is blocked on the fault being handled, the handler's copy
  of the registers is current and no other fault is queued; and a queued fault
  of an instruction was raised inside the program. The last theorem adds
  `Replying`: a handler about to reply to a blocked guest holds its reply
  capability, or the guest has faulted again since it was resumed.

Only model-checked: the liveness properties `FaultAnswered`, `LineReopens`,
`PendingCompleted` and `AnsweredResumes`, since fairness is outside the provers'
reach. Every invariant and action property of the passing runs is a theorem; the
hypotheses of each are those of the instances that check it.

## Not modelled

The RISC-V VMM, whose handlers only print the fault and return; console output;
the copying of the guest's images in `init`, which happens once before the guest
runs; the registers of the distributor and redistributor that are constant or
ignore stores (type, priority, target, configuration, identification, wake);
failures of kernel calls other than loading a list register, which the VMM turns
into a failed assertion; several vCPUs, which the code does not support either
(`NUM_VCPUS` is 1).

## Plan

1. `Vgic` as an implementation of `DistBits` too: its enable and pending sets are
   then by theorem the bits that `DistRegs` keeps in memory.
2. Composition of `Vmm` with `Vgic`: the handlers' `fails` decided by the
   virtual GIC's state, one guest.
