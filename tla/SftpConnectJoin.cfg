SPECIFICATION FairSpec
CONSTANTS
    Sessions = {s1, s2}
    s1 = s1
    s2 = s2
    Hosts = {h1}
    h1 = h1
    Keys = {k1}
    k1 = k1
    Kinds = {"Agent"}
    NoKey = NoKey
    Nobody = Nobody
    OneTab = FALSE
    MaxAddresses = 1
    MaxRotations = 0
PROPERTIES JoinReturns
CHECK_DEADLOCK FALSE
