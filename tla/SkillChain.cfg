CONSTANTS
    Claimer = {}
    MaxRank = 1
    MaxInstant = 1
    MaxGains = 3
    MaxCalls = 2
    MaxWriteFails = 0
    NoLevel = NoLevel
SPECIFICATION SkillSpec
INVARIANT LevelKeepsUp
CHECK_DEADLOCK FALSE
