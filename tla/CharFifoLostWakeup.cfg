\* A writer sleeps on although a read has made room for it.
CONSTANTS
    p1 = p1
    p2 = p2
    p3 = p3
    NoOne = NoOne
    Procs <- MCPair
    Admins <- MCAdmins
    Fsize = 2
    Width = 2
    NrUsers = 5
    Counts = {1, 2}
    UsrsValues = {2}
    Signals = FALSE
    MaxBytes = 3
SPECIFICATION Spec
PROPERTY WriterWoken
CHECK_DEADLOCK FALSE
