\* One session with non-default payloads: every wrapper path and action of
\* the five trees, every set() plan, the Config, Drive and Course lifecycles
\* with transport failures, three service handles.
CONSTANTS
    Names = {n1}
    Values = {v1}
    Zero = zero
    Slices = {s1}
    SSHPorts = {0, 22}
    MaxHandles = 3
SPECIFICATION Spec
INVARIANTS
    TypeOK
    IssuedHandlesOnly
    RoundTrip
