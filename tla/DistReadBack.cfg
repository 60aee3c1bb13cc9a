\* The enable bit of an SPI as the guest reads it.
SPECIFICATION Spec
CONSTANTS
    IRQS = {1, 33}
    Registered = {1, 33}
    Guests <- WordGuest
INVARIANTS
    EnableReadsBack
