\* Two processes, two requests, two documents of three versions: one has a wordless chunk, one repeats a chunk.
SPECIFICATION Spec
CONSTANTS
    Process = {server, script}
    NoProcess = NoProcess
    Request = {r1, r2}
    NoRequest = NoRequest
    menu = menu
    policy = policy
    Source = {menu, policy}
    Doc = {words, rule, twice}
    NoDoc = NoDoc
    Wordless = {rule}
    Repeated = {twice}
    Directory <- TwoFiles
    MaxRequests = 3
SYMMETRY RequestSymmetry
INVARIANTS
    TypeOK
    ReportIsKept
    ReplacedNotMissing
    LexicalIsCopy
