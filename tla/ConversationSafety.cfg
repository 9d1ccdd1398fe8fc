CONSTANTS
    Worker = {w1, w2}
    NoWorker = NoWorker
    Value <- MCValue
    NoValue = NoValue
    Messages <- MCMessages
    Reset = Reset
    Operation <- MCOperation
    NoOperation = NoOperation
    MaxMade = 2
    MaxSent = 3
SPECIFICATION Spec
SYMMETRY Symmetry
INVARIANTS
    TypeOK
    ExecutesWhatWasPrompted
    TurnsAreSerial
    ClosedStaysClosed
    DoneIsCommitted
    ConfirmedOnce
CHECK_DEADLOCK FALSE
