\* Safety of the FIFO with signals: refinement of a bounded FIFO, and the cached avail.
CONSTANTS
    p1 = p1
    p2 = p2
    p3 = p3
    NoOne = NoOne
    Procs <- MCProcs
    Admins <- MCAdmins
    Fsize = 2
    Width = 2
    NrUsers = 5
    Counts = {1, 2}
    UsrsValues = {2}
    Signals = TRUE
    MaxBytes = 5
SYMMETRY MCSymmetry
SPECIFICATION Spec
 
PROPERTY RefinesFifo
CHECK_DEADLOCK FALSE
