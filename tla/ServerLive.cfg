SPECIFICATION ServerFairSpec
CONSTANTS
    r1 = r1
    r2 = r2
    r3 = r3
    ann = ann
    bob = bob
    nobody = nobody
    trip = trip
    work = work
    noname = noname
    toolong = toolong
    Requests = {r1, r2, r3}
    Users = {ann}
    NoUser = nobody
    PoolSize = 2
    Faults = {"pool", "userinfo"}
    Registry0 <- MCRegistry0
    Past <- MCPast
    Names = {trip}
    NoName = noname
    Sessions0 = {}
    Routes = {"create"}
    BadNames = {}
    RawIds <- MCFewRawIds
    IntOf <- MCFewInts
    MaxCrashes = 0
PROPERTY
    Answered
