\* Every list of up to four registrations of two local IRQs and two SPIs, with
\* room for two.
SPECIFICATION Spec
CONSTANTS
    LocalIrqs = {0, 27}
    SpiIrqs = {33, 79}
    AckFns = {"ack_a", "ack_b"}
    NUM_SLOTS_SPI_VIRQ = 2
    MaxCalls = 4
INVARIANTS
    TypeOK
    StartedRegistered
PROPERTIES
    ImplementsMap
    SlotsStable
\* init() ends.
CHECK_DEADLOCK FALSE
