CONSTANTS
    Items = {"board", "cube"}
    Equipment = {ring}
    Known = {"short", "hunt"}
    Unattributed = "unattributed"
    LootRows <- Recorded
    Recipes <- Recycling
    Ammo = {}
    Quantities = {1, 2}
    Charges = {TRUE}
    MaxFacts = 3
    MaxEdits = 0
    NoItem = NoItem
SPECIFICATION RecordedSpec
INVARIANT
    HoldingsNotNegative
CHECK_DEADLOCK FALSE
