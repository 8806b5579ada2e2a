\* The chains of chardrvs, pltdrv_attr and pltdrv_attr_dt, two users each.
CONSTANTS
    u1 = u1
    u2 = u2
    Users <- MCUsers
    Drivers <- MCSoundDrivers
    Steps <- MCSteps
    Unwind <- MCUnwind
    Teardown <- MCTeardown
    Harmless <- MCHarmless
    Nested <- MCNested
    Entry <- MCEntry
    Uses <- MCUses
    Drains <- MCDrains
    ExitWhileOpen <- MCExitWhileOpen
SPECIFICATION Spec
INVARIANT NoLeak
PROPERTY ReleaseOnlyHeld
CHECK_DEADLOCK FALSE
