SPECIFICATION Spec
CONSTANTS
    Appts = {1, 2}
    ScopeOf <- MCScopeOf
    Scopes = {"close", "new"}
    Checkers = {c1, c2}
    Writers = {"w1"}
    Deployments = {TRUE, FALSE}
    MaxPokes = 2
    MaxEdits = 2
    Reasons = {"dream", "praised"}
    Generic = "generic"
    DailyCap <- MCDailyCap
    PerWeek = 3
    Cooldown = 1
    DayLength = 2
    WeekLength = 3
    KeptReasons = 2
    Drivers = {d1}
    Talkers = {t1}
    MaxClock = 4
    MaxTalks = 1
    Messages = {1, 2, 3}
    Urgent = {1, 2}
    Kept = 2
    Threshold = 2
    MaxHours = 2
    Threads = {p1, p2, p3}
    MaxConn = 2
    Rows = {"r"}
    MaxOps = 3
    Chats = {s1, s2}
    Steps = 2
    MaxAsks = 2
    MaxStops = 1
SYMMETRY Symmetry
CHECK_DEADLOCK FALSE
INVARIANTS
    TypeOK
    PromisesKept
    
    
PROPERTIES
    DoneIsFinal
