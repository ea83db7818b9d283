CONSTANTS
    Session = {s1, s2}
    NoSession = NoSession
    Probe = {p1}
    Nobody = Nobody
    MaxTicks = 1
    MaxPresses = 1
    MaxStops = 1
    Reader = {r1, r2}
    Writer = w
    Caller = c
    MaxJobs = 3
    MaxHandles = 2
SPECIFICATION WaitsSpec
INVARIANT
    PoolSound
PROPERTIES
    EveryCallReturns
    PoolEnds
CHECK_DEADLOCK FALSE
