\* The board with a GICv3: local IRQs are enabled and disabled through the
\* redistributor, and no device interrupts the VMM.
SPECIFICATION Spec
CONSTANTS
    IRQS = {0, 1, 27, 79}
    Registered = {0, 1, 27, 79}
    NUM_LIST_REGS = 2
    MAX_IRQ_QUEUE_LEN = 4
    Board = "imx8mm_evk"
    GuestMay = {"gate"}
    UninitErr = {0, 1}
INVARIANTS
    SingleDelivery
    AckOwed
PROPERTIES
    OnlyEnabledTaken
    ImplementsLine
