SPECIFICATION SessionsSpec
CONSTANTS
    Top = {a, d}
    a = a
    d = d
    new = new
    t = t
    Parent = d
    Child = new
    Temp = t
    MaxCommands = 2
    MaxForeign = 1
    Sessions = {s1, s2}
    s1 = s1
    s2 = s2
    Hosts = {h1, h2}
    h1 = h1
    h2 = h2
    Keys = {k1, k2}
    k1 = k1
    k2 = k2
    Kinds = {"KeyboardInteractive", "PasswordKeyboardInteractive", "PrivateKey", "Agent"}
    NoKey = NoKey
    Nobody = Nobody
    OneTab = TRUE
    MaxAddresses = 2
    MaxRotations = 1
    FtpSessions = {browser, worker}
    browser = browser
    worker = worker
    Certificates = {ca, self1, self2, expired}
    ca = ca
    self1 = self1
    self2 = self2
    expired = expired
    TrustedRoot = {ca}
    SelfSigned = {self1, self2}
    NoPin = NoPin
    MaxChanges = 2
    Workers = {w1, w2}
    w1 = w1
    w2 = w2
    Jobs = {j1, j2, j3}
    j1 = j1
    j2 = j2
    j3 = j3
    Policies = {p1, p2}
    p1 = p1
    p2 = p2
    None = None
    MaxAnswers = 2
    MaxStarts = 1
SYMMETRY Symmetry
INVARIANTS PaneIsHonest SecretsFollowTrust PasswordFollowsTrust
PROPERTIES UnaskedReplacesNothing AcceptedKeysStay AskedOnce
