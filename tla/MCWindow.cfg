SPECIFICATION WindowSpec
CONSTANTS
    None = None
    Root = Root
    TabIds = {ta, tb}
    Tabs = {ta, tb}
    e1 = e1
    e2 = e2
    s1 = s1
    s2 = s2
    c1 = c1
    c2 = c2
    Endpoints = {e1, e2}
    SiteIds = {s1, s2}
    SiteLists <- MCSiteLists
    Configurations <- MCConfigurations
    MaxHistory = 2
    MaxEvents = 2
    MaxActions = 4
    MaxTabs = 2
    MaxFailures = 1
    d1 = d1
    d2 = d2
    i1 = i1
    i2 = i2
    i3 = i3
    g1 = g1
    g2 = g2
    g3 = g3
    g4 = g4
    Trees <- MCTrees
    Exports <- MCExports
    Names <- MCNames
    FreshIds <- MCFreshIds
    MaxEdits = 2
    Directories = {x1, x2}
    x1 = x1
    x2 = x2
    Nowhere = Nowhere
    MaxWorkers = 2
    MaxLoads = 3
CHECK_DEADLOCK FALSE
INVARIANTS ForgottenStaysForgotten ShownIsConnected ManagerStaysValid PanesSettle
PROPERTIES CredentialsInUseStay DropsLand
