SPECIFICATION Spec
CONSTANTS
    Procs = {P1, P2}
    Inodes = {i1, i2, i3, i4}
    NoInode = NoInode
    Nobody = Nobody
    Original = Original
    Cut = Cut
    Good = Good
    Broken = Broken
    Lockout = Lockout
    Unreadable = Unreadable
    Texts <- FourTexts
    Verdict <- VerdictOf
    Granular = TRUE
    MaxTime = 1
SYMMETRY SymBoth
VIEW LiveView
INVARIANTS
    SessionsExclusive
CHECK_DEADLOCK FALSE
