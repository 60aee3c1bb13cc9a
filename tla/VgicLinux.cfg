\* The interrupts init() registers on QEMU and a guest that leaves the
\* pending flags alone: no list register is ever missing.
SPECIFICATION Spec
CONSTANTS
    IRQS = {0, 1, 27, 33}
    Registered = {0, 1, 27, 33}
    NUM_LIST_REGS = 4
    MAX_IRQ_QUEUE_LEN = 64
    Board = "qemu_arm_virt_hyp"
    GuestMay = {}
    UninitErr = {0, 1}
INVARIANTS
    SingleDelivery
    StopsOnlyOnUnsetErr
    AckOwed
PROPERTIES
    ImplementsLine
