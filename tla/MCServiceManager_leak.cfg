\* A service slower to register than the 3.5 s deadline, and a second launch.
CONSTANTS
    Clients = {c1}
    Pids = {p1, p2}
    NoPid = NoPid
    NoClient = NoClient
    Supported = TRUE
    PollLimit = 1
SPECIFICATION Spec
INVARIANT NoLeakedService
