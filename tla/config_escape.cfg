SPECIFICATION Spec
CONSTANTS
    Longest <- ShortTokens
    Words <- SmallWords
    Durations <- SmallDurations
    HugeDuration = "huge"
VIEW LiveView
INVARIANTS
    OnlyBackslashContinues
