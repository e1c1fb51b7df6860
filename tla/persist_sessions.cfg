SPECIFICATION Spec
CONSTANTS
    P1 = P1
    P2 = P2
    K1 = K1
    K2 = K2
    G1 = G1
    G2 = G2
    Procs = {P1, P2}
    Keys = {K1, K2}
    Gids = {G1, G2}
    Rules <- ShortRule
    Inodes = {i1, i2, i3}
    NoKey = NoKey
    NoFile = NoFile
    DirGid = DirGid
    WallSteps <- NoSteps
    Downtimes <- NoSteps
    MaxBoot = 0
    MaxReal = 0
SYMMETRY SymNames
VIEW LiveView
PROPERTIES
    ImplementsTickets
