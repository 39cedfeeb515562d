\* set() with a default scalar (the empty string, 0, b""): does the bound
\* Op still carry the set field the round-trip property asks for?
CONSTANTS
    Names = {n1}
    Values = {zero}
    Zero = zero
    Slices = {s1}
    SSHPorts = {0, 22}
    MaxHandles = 1
SPECIFICATION Spec
INVARIANT RoundTrip
