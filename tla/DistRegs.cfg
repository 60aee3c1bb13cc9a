\* Word accesses to the set and clear registers and accesses of every width to
\* the group registers, on the three boards.  IRQs below 992.
SPECIFICATION Spec
CONSTANTS
    IRQS = {1, 33, 225, 987}
    Registered = {1, 33, 225}
    Guests <- AllGuests
INVARIANTS
    TypeOK
    ClearViewAgrees
    StoreTakesEffect
PROPERTIES
    StoreTouchesOnly
    ImplementsBits
    LoadedLanes
    StoredLanes
