\* start() again after a start() whose service never registered in time.
CONSTANTS
    Clients = {c1}
    Pids = {p1}
    NoPid = NoPid
    NoClient = NoClient
    Supported = TRUE
    PollLimit = 1
SPECIFICATION Spec
INVARIANT ReadyHasPort
