\* Two rows, two requests of the rows in flight at once, one change by another manager.
CONSTANTS
    r1 = r1
    r2 = r2
    k1 = k1
    k2 = k2
    Absent = Absent
    None = None
    Rows <- MCRows
    Team <- MCTeam
    Hours <- MCHours
    Slots <- MCSlots
    MaxOther = 1
SYMMETRY MCSymmetry
SPECIFICATION Spec
INVARIANTS
    ScreenSafe
    Converges
    SealedIsDeclared
PROPERTIES
    FrozenWhenClosed
CHECK_DEADLOCK FALSE
