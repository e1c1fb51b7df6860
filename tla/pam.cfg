SPECIFICATION Spec
CONSTANTS
    Bytes = {b1}
    Nul = Nul
    Capacity = 1
    Prompt = 2
    MaxMsgs = 2
    MaxTalks = 2
INVARIANTS
    TypeOK
    GrantedMeansProven
    NothingRemains
    TerminalRestored
PROPERTIES
    AuthEnds
    AuthAdvances
CHECK_DEADLOCK FALSE
