\* Two clients provisioning the binary at the same time.
CONSTANTS
    Clients = {c1, c2}
    Pids = {p1}
    NoPid = NoPid
    NoClient = NoClient
    Supported = TRUE
    PollLimit = 1
SPECIFICATION Spec
INVARIANT InstallIntegrity
