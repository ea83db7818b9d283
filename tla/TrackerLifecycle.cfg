CONSTANTS
    Session = {s1, s2}
    NoSession = NoSession
    Unstated = Unstated
    None = None
    Kind = {"modifier", "segment", "quest", "protection"}
    Subject = {ten}
    Quest = {}
    Segment = {}
    Boost = {ten}
    Positive = {ten}
    Loadout = {}
    MaxIntervals = 2
    MaxStamps = 1
    MaxGains = 1
SPECIFICATION TrackerSpec
SYMMETRY SymmetricSessions
INVARIANTS
    OneLiveSession
PROPERTIES
    DrivesEngine
    GainsStampedLikeEvents
    EndedForGood
