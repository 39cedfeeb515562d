\* Discovery of a run file whose pid is alive but does not serve.
CONSTANTS
    Clients = {c1}
    Pids = {p1}
    NoPid = NoPid
    NoClient = NoClient
    Supported = TRUE
    PollLimit = 1
SPECIFICATION Spec
PROPERTY AttachOnlyToServing
