CONSTANTS
    Worker = {w1, w2}
    Operation = {create, cancel}
    NoOperation = NoOperation
    Lookups = {cancel}
    MaxMade = 1
SPECIFICATION Spec
INVARIANT UnavailableOnlyOnFault
