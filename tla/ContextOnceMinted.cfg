CONSTANTS
    Session = {s1}
    NoSession = NoSession
    Unstated = Unstated
    None = None
    Kind = {"modifier", "segment", "quest", "protection"}
    Subject = {ten}
    Quest = {}
    Segment = {}
    Boost = {ten}
    Positive = {ten}
    Loadout = {}
    MaxIntervals = 1
    MaxStamps = 0
    MaxGains = 0
SPECIFICATION TrackerSpec
INVARIANTS
    ContextOnceMinted
