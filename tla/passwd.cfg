SPECIFICATION Spec
CONSTANTS
    Bytes = {b1, b2}
    Nul = Nul
    Capacity = 4
    Prompt = 3
INVARIANTS
    TypeOK
    StarsMatchBuffer
    PasswordTerminated
CHECK_DEADLOCK FALSE
