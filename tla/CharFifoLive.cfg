\* Reads always return, under the fairness of CharFifo!Fairness.
CONSTANTS
    p1 = p1
    p2 = p2
    p3 = p3
    NoOne = NoOne
    Procs <- MCPair
    Admins <- MCAdmins
    Fsize = 2
    Width = 2
    NrUsers = 5
    Counts = {1, 2}
    UsrsValues = {2}
    Signals = FALSE
    MaxBytes = 3
SPECIFICATION Spec
PROPERTY ReadCompletes
CHECK_DEADLOCK FALSE
