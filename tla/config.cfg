SPECIFICATION Spec
CONSTANTS
    Longest <- ShortTokens
    Words <- SmallWords
    Durations <- SmallDurations
    HugeDuration = "huge"
VIEW LiveView
INVARIANTS
    TypeOK
    QuotedInRange
    AcceptedIsWholeFile
    OneRulePerLine
    QuotedIsNeverBare
    PanicNeedsUnclosed
