\* A GICv3 guest clears the enable bit of an SGI through the redistributor.
SPECIFICATION Spec
CONSTANTS
    IRQS = {1, 27}
    Registered = {1, 27}
    NUM_LIST_REGS = 4
    MAX_IRQ_QUEUE_LEN = 64
    Board = "imx8mm_evk"
    GuestMay = {}
    UninitErr = {0}
PROPERTIES
    SgisStayEnabled
