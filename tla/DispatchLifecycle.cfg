CONSTANTS
    Worker = {w1, w2}
    Operation = {create}
    NoOperation = NoOperation
    Lookups = {}
    MaxMade = 1
SPECIFICATION Spec
PROPERTY FailedDidNotApply
