\* A guest that writes any register, on the board whose serial ack injects an
\* IRQ of its own; an overflow queue that fills; an SPI nobody registered.
SPECIFICATION Spec
CONSTANTS
    IRQS = {1, 225, 226}
    Registered = {1, 225}
    NUM_LIST_REGS = 2
    MAX_IRQ_QUEUE_LEN = 4
    Board = "odroidc2"
    GuestMay = {"ISPENDR", "ICPENDR", "gate", "CPENDSGIR"}
    UninitErr = {0, 1}
INVARIANTS
    TypeOK
    PendingInFlight
    MirrorsListRegs
    WorkConserving
PROPERTIES
    SgisStayEnabled
    OnlyEnabledTaken
    ImplementsLine
