CONSTANTS
    Worker = {w1, w2, w3}
    NoWorker = NoWorker
SPECIFICATION Spec
INVARIANTS
    MutualExclusion
