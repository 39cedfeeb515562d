\* Signer.set with both a key and a password: is it rejected before any
\* remote call?
CONSTANTS
    Names = {n1}
    Values = {v1}
    Zero = zero
    Slices = {s1}
    SSHPorts = {0, 22}
    MaxHandles = 1
SPECIFICATION Spec
INVARIANT ValidationBeforeCalls
