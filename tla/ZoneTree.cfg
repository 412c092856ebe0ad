SPECIFICATION TreeSpec
CONSTANTS
    p1 = p1
    ZoneIds = {1, 2, 3}
    ZoneNames <- MCNames
    Tenants = {a}
    PoolIds = {p1}
    Places <- MCPlaces
    Threads = {c1}
    MaxUpsets = 0
PROPERTY SubzonesKeepTheirParent
CHECK_DEADLOCK FALSE
