\* A guest that turns the distributor off over an enabled line.
SPECIFICATION Spec
CONSTANTS
    IRQS = {1, 33}
    Registered = {1, 33}
    NUM_LIST_REGS = 4
    MAX_IRQ_QUEUE_LEN = 64
    Board = "qemu_arm_virt_hyp"
    GuestMay = {"gate"}
    UninitErr = {0}
INVARIANTS
    AckOwed
