SPECIFICATION ServerSpec
CONSTANTS
    r1 = r1
    r2 = r2
    r3 = r3
    ann = ann
    bob = bob
    nobody = nobody
    trip = trip
    work = work
    noname = noname
    toolong = toolong
    Requests = {r1, r2}
    Users = {ann, bob}
    NoUser = nobody
    PoolSize = 2
    Faults = {"userinfo"}
    Registry0 <- MCRegistry0
    Past <- MCPast
    Names = {trip, work}
    NoName = noname
    Sessions0 <- MCSessions0
    Routes = {"create"}
    BadNames = {toolong}
    RawIds <- MCFewRawIds
    IntOf <- MCFewInts
    MaxCrashes = 0
INVARIANT
    RegisteredBeforeCreate
