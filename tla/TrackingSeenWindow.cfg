SPECIFICATION TrackSpec
CONSTANTS
    r1 = r1
    r2 = r2
    r3 = r3
    ann = ann
    bob = bob
    cat = cat
    nobody = nobody
    Requests = {r1, r2, r3}
    Users = {ann, bob, cat}
    NoUser = nobody
    PoolSize = 2
    Faults = {}
    Registry0 <- MCRegistry0
    Past <- MCPast
INVARIANT
    SeenWindow
