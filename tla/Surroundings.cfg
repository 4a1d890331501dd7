SPECIFICATION PartsSpec

CONSTANTS
    s1 = s1
    s2 = s2
    s3 = s3
    a = a
    b = b
    c = c
    home = home
    away = away
    u1 = u1
    u2 = u2
    p1 = p1
    e1 = e1
    e2 = e2
    e3 = e3

    Servers = {s1, s2, s3}
    Last = 3
    Release <- ReleaseOf
    Guarded = {3}
    MaxFaults = 1

    Requests = {r1, r2, r3}
    Writers = {r1, r2}
    PoolSize = 2

    Keys = {k1, k2}
    Attempts = {a1, a2}
    Limiters = {g1, g2, g3}
    Nil = Nil
    Burst = 2
    Idle = 3
    MaxStall = 2
    TrustProxy = TRUE

    Secrets = {a, b, c}
    Walkers = {w1}
    DefaultLimit = 2
    MaxLimit = 2
    MaxOffset = 3
    Limits = {1, 3}
    Commands = {c1}
    Upper <- UpperOf
    Nobody = Nobody
    MaxVersion <- VersionsOf

    Terminals = {t1, t2}
    Hosts = {home, away}
    DefaultHost = home
    Width <- WidthOf
    Inodes = {i1, i2}
    NoFile = NoFile
    NoHost = NoHost
    MaxLogouts = 2

    Shells = {u1, u2}
    MaxTries <- TriesOf

    Readers = {alice}
    Projects = {p1}
    Everything = Everything
    Events = {e1, e2, e3}
    About <- AboutOf
    DefaultEvents = 2
    MaxEvents = 2
    EventLimits = {3}

INVARIANTS
    PartsTypeOK
    LedgerMatchesSchema
    ServesMigrated
    
    WalkMissesNothing
    DeliveredWasLive
    SessionsAreSound
    RetriesAreHarmless
    OutsidersSeeNoEvents
    TrailMissesNothing

PROPERTIES
    AppliedInOrder
    NothingGainedByEviction
    StartedServes
    EveryRequestEnds

CHECK_DEADLOCK FALSE
