SPECIFICATION CliSpec
CONSTANTS
    p1 = p1
    p2 = p2
    p3 = p3
    trip = trip
    work = work
    noname = noname
    nobody = nobody
    Processes = {p1, p2}
    Names = {trip}
    NoName = noname
    NoProcess = nobody
    MaxTurns = 1
INVARIANT
    CreateOrContinue
