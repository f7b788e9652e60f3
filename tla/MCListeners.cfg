SPECIFICATION ListenersSpec
CONSTANTS
    root = root
    ada = ada
    ada2 = ada2
    rootName = rootName
    adaName = adaName
    home = home
    away = away
    hostel = hostel
    r1 = r1
    r2 = r2
    r3 = r3
    None = None
    Users = {root, ada, ada2}
    NameOf <- MCNameOf
    Root = root
    Readers = {ada}
    Requests = {r1, r2, r3}
    MaxPerUser = 2
    MaxSessions = 3
    MaxAgents = 1
    SessionAge = 3
    Addresses = {home, away, hostel}
    NetworkOf <- MCNetworkOf
    AccountLimit = 2
    AddressLimit = 2
    NameLimit = 2
    Lockout = 2
    MaxEntries = 4
    LockedMaxEntries = 6
    SessionGap = 1
    FlushFirst = 1
    FlushMax = 2
    MinSession = 2
    BookEnd = 3
    Grace = 2
    Bounds <- MCBounds
SYMMETRY Alike
INVARIANTS
    CredentialsAreCurrent
    LinksFollowSessions
    GuessesAreBounded
    ListeningIsKept
    DeletedIsForgotten
PROPERTY
    LocksAreKept
CHECK_DEADLOCK FALSE
