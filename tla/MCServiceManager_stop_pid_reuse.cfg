\* stop() after the service named by the run file died and its pid was reused.
CONSTANTS
    Clients = {c1}
    Pids = {p1}
    NoPid = NoPid
    NoClient = NoClient
    Supported = TRUE
    PollLimit = 1
SPECIFICATION Spec
PROPERTY StopSignalsOnlyServices
