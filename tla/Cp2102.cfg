\* Transfers that always succeed and locals that happen to be 0: the modem
\* lines alone.  Garbage <- MCGarbage and UsbCanFail = TRUE add the other
\* disagreements.
CONSTANTS
    Bauds <- MCBauds
    Parities <- MCParities
    Garbage = {0}
    UsbCanFail = FALSE
    MaxCalls = 4
SPECIFICATION Spec
INVARIANT ChipFollowsTty
CHECK_DEADLOCK FALSE
