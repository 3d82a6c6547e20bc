SPECIFICATION ServicesSpec
CONSTANTS
    Workers = {w1, w2, w3}
    Limit = 2
    dest = dest
    alias = alias
    part = part
    aliasPart = aliasPart
    LocalKeys = {dest, alias, part, aliasPart}
    RemoteKeys = {r1}
    PartialOf <- MCPartialOf
    Aliases <- MCAliases
    Callers = {c1, c2}
    MaxCalls = 3
    MaxGeneration = 4
INVARIANTS
    LeasesCounted
    LocalWritersExclusive
    ReservationsOwned
    TurnsAreConsistent
PROPERTIES
    StopEndsTheWait
    JoinReturns
    QuestionsEnd
CHECK_DEADLOCK FALSE
