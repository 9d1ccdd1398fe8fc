CONSTANTS
    Worker = {w1, w2, w3}
    Operation = {create}
    NoOperation = NoOperation
    Lookups = {}
    MaxMade = 2
SPECIFICATION Spec
SYMMETRY Symmetry
INVARIANTS
    AppliedOnce
    SuccessIsCommitted
