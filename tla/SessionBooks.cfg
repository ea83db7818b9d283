CONSTANTS
    None = None
    MaxTime = 3
    Tool = {a, b}
    Slots = 1
    Group <- Groups
    MaxShots = 2
    MaxGroups = 2
    MaxArrivals = 3
    MaxActs = 2
    p = p
    q = q
    small = small
    large = large
    HarvestTool = {p, q}
    Tier = {small, large}
    Guardrails <- SmallAndMaybeLarge
    MaxSwings = 3
    MaxEquips = 1
    MaxFailures = 1
    Healer = {chip, hot}
    Direct = {chip}
    Lasting = {hot}
    Reload = 2
    EffectTime = 1
    MaxHeals = 2
    MaxIntents = 2
    Claimer = {c1, c2}
    MaxRank = 2
    MaxInstant = 1
    MaxGains = 2
    MaxCalls = 4
    MaxWriteFails = 1
    NoLevel = NoLevel
    Hand = {h1, h2}
    Pages = {2}
    MaxGrabs = 2
    MaxScans = 2
    MaxSaves = 1
SPECIFICATION BooksSpec
SYMMETRY Weapons
INVARIANTS
    KillsSound
    InferredIsBacked
    HealsSound
    SkillBooksAgree
    ListenersCurrent
PROPERTY
    EvidenceStands
CHECK_DEADLOCK FALSE
