SPECIFICATION Spec
CONSTANTS
    P1 = P1
    P2 = P2
    K1 = K1
    K2 = K2
    G1 = G1
    G2 = G2
    Procs = {P1, P2}
    Keys = {K1}
    Gids = {G1}
    Rules <- RaceRules
    Inodes = {i1, i2, i3}
    NoKey = NoKey
    NoFile = NoFile
    DirGid = DirGid
    WallSteps <- NoSteps
    Downtimes <- NoSteps
    MaxBoot = 2
    MaxReal = 2
SYMMETRY SymBoth
VIEW LiveView
INVARIANTS
    TypeOK
    LinkedFilesReady
    PassIsEarned
    ClearRevokes
    PasswordRoot
