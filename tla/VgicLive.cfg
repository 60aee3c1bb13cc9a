\* An orderly guest, the timer and a device, under fairness.
SPECIFICATION FairSpec
CONSTANTS
    IRQS = {27, 33}
    Registered = {27, 33}
    NUM_LIST_REGS = 2
    MAX_IRQ_QUEUE_LEN = 4
    Board = "qemu_arm_virt_hyp"
    GuestMay = {}
    UninitErr = {0}
PROPERTIES
    FaultAnswered
    LineReopens
    PendingCompleted
