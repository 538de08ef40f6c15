SPECIFICATION CliFairSpec
CONSTANTS
    p1 = p1
    p2 = p2
    p3 = p3
    trip = trip
    work = work
    noname = noname
    nobody = nobody
    Processes = {p1, p2, p3}
    Names = {trip, work}
    NoName = noname
    NoProcess = nobody
    MaxTurns = 1
INVARIANTS
    CliTypeOK
    OneNameOneSession
    ClashNeedsRace
    ListShowsOpened
    Resumes
PROPERTIES
    ImplementsCatalog
    Arrives
