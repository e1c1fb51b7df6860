SPECIFICATION Spec
CONSTANTS
    P1 = P1
    P2 = P2
    K1 = K1
    K2 = K2
    G1 = G1
    G2 = G2
    Procs = {P1}
    Keys = {K1}
    Gids = {G1}
    Rules <- TimeRules
    Inodes = {i1, i2, i3}
    NoKey = NoKey
    NoFile = NoFile
    DirGid = DirGid
    WallSteps <- BothSteps
    Downtimes <- Short
    MaxBoot = 3
    MaxReal = 4
SYMMETRY SymInodes
VIEW LiveView
INVARIANTS
    HonestStampNotTooFar
    RebootWindow
    PassIsEarned
