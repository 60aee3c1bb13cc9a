\* Clearing the pending flags of in-flight IRQs fills the queue.
SPECIFICATION Spec
CONSTANTS
    IRQS = {0, 1}
    Registered = {0, 1}
    NUM_LIST_REGS = 4
    MAX_IRQ_QUEUE_LEN = 64
    Board = "qemu_arm_virt_hyp"
    GuestMay = {"ICPENDR"}
    UninitErr = {0}
INVARIANTS
    MaintenanceNeverFails
