\* Does the client stop using a config, drive or course handle once it
\* has been released?
CONSTANTS
    Names = {n1}
    Values = {v1}
    Zero = zero
    Slices = {s1}
    SSHPorts = {0, 22}
    MaxHandles = 2
SPECIFICATION Spec
PROPERTY NoUseAfterFree
