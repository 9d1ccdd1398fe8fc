CONSTANTS
    Client = {c1, c2}
    NoClient = NoClient
    Reservation = {r1, r2}
    NoCode = NoCode
    NumTables = 2
    Capacity <- MCCapacity
    MaxParty = 4
    Duration = 2
    MaxNow = 1
    CreateRequests <- MCCreateRequests
    UpdateRequests <- MCUpdateRequests
SPECIFICATION Spec
SYMMETRY Symmetry
INVARIANTS
    TypeOK
    NoDoubleBooking
    SeatedWithinCapacity
    WriterIsSafe
    AckedIsCommitted
PROPERTY ImplementsBook
