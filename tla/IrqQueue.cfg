SPECIFICATION Spec
CONSTANTS
    Handles = {virq0, virq27, virq33}
    NULL = NULL
    MAX_IRQ_QUEUE_LEN = 4
INVARIANTS
    TypeOK
PROPERTIES
    ImplementsFifo
