CONSTANTS
    Session = {s1}
    NoSession = NoSession
    Unstated = Unstated
    None = None
    Kind = {"modifier", "segment", "quest", "protection"}
    Subject = {q1, q2, seg1, seg2, none, ten, suit}
    Quest = {q1, q2}
    Segment = {seg1, seg2}
    Boost = {none, ten}
    Positive = {ten}
    Loadout = {suit}
    MaxIntervals = 3
    MaxStamps = 0
    MaxGains = 0
    Pin = {a, b, c}
    NoPin = NoPin
    MaxUpsets = 2
    MaxCooled = 1
SPECIFICATION CommandsSpec
SYMMETRY SymmetricSubjects
INVARIANTS
    DeclarationsSound
    RouteSound
PROPERTIES
    StretchNeverSplit
    ProgressKept
