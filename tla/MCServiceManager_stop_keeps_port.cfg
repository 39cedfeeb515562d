\* stop() of a manager that adopted a running service.
CONSTANTS
    Clients = {c1}
    Pids = {p1}
    NoPid = NoPid
    NoClient = NoClient
    Supported = TRUE
    PollLimit = 1
SPECIFICATION Spec
INVARIANT StopClearsPort
