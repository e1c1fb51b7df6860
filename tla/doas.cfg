SPECIFICATION Spec
CONSTANTS
    ArgLists <- SmallArgLists
    NotUtf8 <- SmallNotUtf8
    PwNam <- SmallPwNam
    GrNam <- SmallGrNam
    Number <- SmallNumber
    UidMax = 9
    GidMax = 29
    NoName = "none"
    Callers <- SmallCallers
    Passwd <- SmallPasswd
    Programs <- SmallPrograms
    Slashed <- SmallSlashed
    RuleSet <- SmallRules
    MaxRules = 2
    CallerEnvs <- SmallEnvs
INVARIANTS
    TypeOK
    CommandIsSuffix
    OneRequest
    Identities
    CheckRunsAsCaller
    LastMatchDecides
    EnvIsPrescribed
