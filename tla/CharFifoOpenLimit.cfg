\* Two opens both pass the user-count test before either increments ref_cntr.
CONSTANTS
    p1 = p1
    p2 = p2
    p3 = p3
    NoOne = NoOne
    Procs <- MCProcs
    Admins <- MCAdmins
    Fsize = 2
    Width = 2
    NrUsers = 5
    Counts = {1, 2}
    UsrsValues = {2}
    Signals = FALSE
    MaxBytes = 2
SYMMETRY MCSymmetry
SPECIFICATION Spec
PROPERTY OpenLimit
CHECK_DEADLOCK FALSE
