CONSTANTS
    Session = {s1, s2}
    NoSession = NoSession
    Kind = {quest, segment}
    Subject = {a, b}
    MaxIntervals = 3
    MaxStamps = 1
    Unstated = Unstated
    Absent = Absent
    vested = vested
    ghost = ghost
    plate = plate
    SessionId = {s1, s2}
    Armour = {vested, ghost}
    Plates = {plate}
    Limited = {vested}
    Loadout <- Setups
    MaxHits = 2
    MaxSetups = 2
    MaxCosts = 2
    MaxValue = 1
SPECIFICATION EngineAndArmourSpec
SYMMETRY Symmetric
INVARIANTS
    IntervalsTypeOK
    ContextNamesOpenSet
    OpenRowsAreStanding
    ContextsStayInSession
    LeftOpenIsLastContext
    CostsReachSessions
PROPERTIES
    ImplementsDeclaredPlay
    SettledStays
CHECK_DEADLOCK FALSE
