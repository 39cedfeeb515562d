\* Two clients racing on one machine with two pids: concurrent discovery,
\* provisioning and launch, stop of an adopted service, pid reuse; and,
\* under weak fairness of the steps inside a call, that every call returns
\* (no symmetry: liveness is checked).
CONSTANTS
    Clients = {c1, c2}
    Pids = {p1, p2}
    NoPid = NoPid
    NoClient = NoClient
    Supported = TRUE
    PollLimit = 1
SPECIFICATION FairSpec
INVARIANTS
    TypeOK
    OwnedChildTracked
PROPERTIES
    CallsReturn
    ChildNeverReplaced
