CONSTANTS
    sig = sig
    man = man
    Chat <- TwoLogs
    Quest = {sig, man}
    Signal = {sig}
    Manual = {man}
    Named = {sig}
    Session = {d1}
    NoSession = NoSession
    MaxTicks = 2
    MaxRuns = 2
    MaxCommands = 5
    Retention = 1
    Items = {"board", "cube"}
    Equipment = {ring}
    Known = {"short", "hunt"}
    Unattributed = "unattributed"
    LootRows <- Recorded
    Recipes <- Recycling
    Ammo = {"cube"}
    Quantities = {2, 3}
    Charges = {TRUE}
    MaxFacts = 3
    MaxEdits = 1
    NoItem = NoItem
SPECIFICATION RewardsSpec
CONSTRAINT TwoAtATime
INVARIANTS
    QuestBooksSound
    RewardsOnce
    FactsBalance
    MarketSound
PROPERTIES
    EndedRunsFinal
    HoldingsKept
CHECK_DEADLOCK FALSE
