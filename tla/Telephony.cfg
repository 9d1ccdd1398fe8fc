\* One call: two requests handled at a time, the second miss goes to staff.
SPECIFICATION Spec
CONSTANTS
    Handler = {h1, h2}
    NoHandler = NoHandler
    NoRow = NoRow
    NoSnapshot = NoSnapshot
    Unread = Unread
    MaxRetries = 2
    Callback <- Lifecycle
    MaxRequests = 5
SYMMETRY HandlerSymmetry
\* A call comes to its end.
CHECK_DEADLOCK FALSE
INVARIANTS
    TypeOK
    RepromptsBounded
    EscalatedForCause
    FinalHasEnd
    TransferIsRecorded
    AnsweredIsAudited
PROPERTIES
    RecordedStays
