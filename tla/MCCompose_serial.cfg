SPECIFICATION Spec
CONSTANTS
    web = web
    cache = cache
    db = db
    None = None
    Services = {web, cache, db}
    Required <- Chain
    VisitAll <- Visits
    Files <- Edited
    Selections = {{cache}}
    OwnNamed = {db}
    Networks = {"net"}
    Volumes = {"vol"}
    Size = 5
    Gateway = 1
    Static <- DbStatic
INVARIANTS
    AddressesDistinct
    UpStartsAll
    DownLeavesNothing
    ProjectIsRecorded
PROPERTIES
    DependencyOrder
