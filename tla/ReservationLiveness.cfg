CONSTANTS
    Client = {c1, c2}
    NoClient = NoClient
    Reservation = {r1, r2}
    NoCode = NoCode
    NumTables = 2
    Capacity <- MCCapacity
    MaxParty = 4
    Duration = 2
    MaxNow = 0
    CreateRequests <- FewCreateRequests
    UpdateRequests <- FewUpdateRequests
SPECIFICATION FairSpec
PROPERTY EveryRequestAnswered
