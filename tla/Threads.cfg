CONSTANTS
    Thread <- AllThreads
    MaxClaims = 2
    Second = {1, 2}
    MaxLines = 2
    MaxEffort = 4
    Quarter = 6
    MaxOffset = 12
    MaxLag = 1
    Confirmations = 3
    Delay <- Delays
    ZoneQuarters <- FiveZones
    Unset = Unset
    Session = {s1, s2}
    NoSession = NoSession
    Probe = {p1}
    Nobody = Nobody
    MaxTicks = 2
    MaxPresses = 1
    MaxStops = 1
SPECIFICATION ThreadsSpec
SYMMETRY SymmetricSessions
INVARIANTS
    ClaimsSound
    TailSound
    OffsetProved
    WaitsSound
    CallsAbsorbed
    AttributedInPlace
CHECK_DEADLOCK FALSE
