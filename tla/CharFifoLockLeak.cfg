\* A signal during the wait for room returns with w_f_lock held.
CONSTANTS
    p1 = p1
    p2 = p2
    p3 = p3
    NoOne = NoOne
    Procs <- MCProcs
    Admins <- MCAdmins
    Fsize = 2
    Width = 2
    NrUsers = 5
    Counts = {1, 2}
    UsrsValues = {2}
    Signals = TRUE
    MaxBytes = 3
SYMMETRY MCSymmetry
SPECIFICATION Spec
INVARIANT NoLockHeldInUser
CHECK_DEADLOCK FALSE
