CONSTANTS
    Worker = {w1}
    NoWorker = NoWorker
    Value <- MCValue
    NoValue = NoValue
    Messages <- FewMessages
    Reset = Reset
    Operation <- FewOperation
    NoOperation = NoOperation
    MaxMade = 2
    MaxSent = 2
SPECIFICATION Spec
INVARIANT PromptIsComplete
CHECK_DEADLOCK FALSE
