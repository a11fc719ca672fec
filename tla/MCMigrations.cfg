SPECIFICATION StartSpec
CONSTANTS
    MaxCrashes = 1
    MaxDowngrades = 1
    a = a
    b = b
    u1 = u1
    u2 = u2
    u3 = u3
    x = x
    y = y
    Calls = {i1, i2}
    Users = {u1, u2, u3}
    Paths = {p1, p2, p3, p4}
    Numbers = {1, 2}
    Phones = {x, y}
    MaxEdits = 1
    Schools <- SmallSchools
    Uploads <- Sheets
    None = None
CHECK_DEADLOCK FALSE
INVARIANTS
    TypesOK
    UpgradesEndWhole
    RulesHold
    ImportsHold
PROPERTIES
    BlankCellsKeep
