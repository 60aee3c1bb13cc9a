\* Every kind of fault, at every instruction of a program of four.
SPECIFICATION FairSpec
CONSTANTS
    MaxPc = 4
    Services = {0, 4, 48}
    Functions = {0, 3, 9, 30, 31}
INVARIANTS
    TypeOK
    ExecutedOnce
    NoBlindReply
    OnlyReportedFaultsBlock
PROPERTIES
    AnsweredResumes
\* The guest's program ends, and a fault without an answer ends it early.
CHECK_DEADLOCK FALSE
