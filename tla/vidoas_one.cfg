SPECIFICATION Spec
CONSTANTS
    Procs = {P1}
    Inodes = {i1, i2, i3, i4}
    NoInode = NoInode
    Nobody = Nobody
    Original = Original
    Cut = Cut
    Good = Good
    Broken = Broken
    Lockout = Lockout
    Unreadable = Unreadable
    Texts <- AllTexts
    Verdict <- VerdictOfAll
    Granular = TRUE
    MaxTime = 3
SYMMETRY SymInodes
VIEW LiveView
INVARIANTS
    TypeOK
    ConfIsVetted
    ConfStaysUsable
    CutNeedsReuse
    EarlyReturnLosesNothing
    PrivateWhileEdited
CHECK_DEADLOCK FALSE
