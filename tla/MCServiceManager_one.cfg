\* One client process that may exit at any point (also mid-extraction) and
\* run start() again; two pids.
CONSTANTS
    Clients = {c1}
    Pids = {p1, p2}
    NoPid = NoPid
    NoClient = NoClient
    Supported = TRUE
    PollLimit = 1
SPECIFICATION Spec
SYMMETRY Symmetry
INVARIANTS
    InstallIntegrity
