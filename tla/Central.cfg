SPECIFICATION Spec
CONSTANTS
    tenant1 = tenant1
    tenant2 = tenant2
    pool1 = pool1
    pool2 = pool2
    ZoneIds = {1, 2, 3}
    ZoneNames <- MCNames
    Tenants = {tenant1, tenant2}
    PoolIds = {pool1, pool2}
    Places <- MCPlaces
    Threads = {c1, c2}
    MaxUpsets = 1
    Users <- MCUsers
    Nobody = Nobody
    RecordSetIds = {o1, o2}
    OfferIds = {o1, o2}
    Calls = {c1, c2}
    Adders = {c1, c2}
    Setters = {s1, s2}
    DefaultLimit = 1
    Limits <- MCLimits
    MaxItems = 2
    MaxUsed = 6
    Apex = "apex"
    OtherNames = {"www", "sub"}
    ChildNames = {"sub"}
    Types = {"A", "MX", "CNAME"}
    Inserters = {c1, c2}
    PoolNames = {o1, o2}
    Hostnames = {tenant1, tenant2}
    MemberIds = {1, 2}
    Movers = {c1, c2}
    MaxCalls = 4
    PoolRows = {p1, p2}
    DefaultPool = p1
    Attributes = {o1, o2}
    FilterChains <- MCChains
    MaxPoolChanges = 3
    Ids = {1}
    Projects = {tenant1, tenant2}
    NoProject = NoProject
    Callers = {c1, c2}
    Fields = {"f"}
    Values = {0, 1}
    MaxWrites = 4
    RequestIds = {c1, c2}
    MaxRetries = 2
    MaxMishaps = 3
    RowIds = {1, 2, 3}
    Times = {1, 2}
    PageSize = 2
    MaxMoves = 5
SYMMETRY Symmetry
INVARIANTS CentralTypeOK TenantsAreApart ParentsAreAbove NoStrangers OverrunIsBounded CnamesStandAlone
    PoolsAreFollowed PlacedAsAsked LastWordStands PagesMissNothing
PROPERTIES TakenFromWhoOffers RequestsAreAtomic
CHECK_DEADLOCK FALSE
