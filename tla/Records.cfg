SPECIFICATION Spec
CONSTANTS
    Backends = {"sqlite", "postgres"}
    Threads = {k1, k2}
    Notes = {"diary", "picnic"}
    PrivateNotes = {"diary"}
    Seekers = {s1}
    ResultTtl = 2
    MaxRows = 2
    MaxGrows = 1
    MaxAsks = 2
    MaxSearchTime = 2
    LogTexts = {"news"}
    Turns = {s1}
    LogTables = {"trace", "query", "item", "space"}
    Keep = 2
    Window = 1
    Near = 1
    Old = 2
    MaxSessions = 2
    MaxTurns = 2
    MaxEvents = 1
    MaxLogTime = 3
    AdjustTtl = 2
    MaxReviews = 3
    MaxScoreTime = 4
    Users = {"u1", "u2"}
    Files = {"f1", "f2"}
    FileUser <- MCFileUser
    MaxId = 3
    MaxOps = 4
    MaxStarts = 2
    Facts = {"cat", "trip1", "trip2"}
    Title <- MCTitle
    TopicOf <- MCTopicOf
    Alike <- MCAlike
    EntityOf <- MCEntityOf
    Kinds = {"chat", "character"}
    Limit = 1
    MaxIds = 3
    MaxChanges = 3
    MaxBuilds = 1
    Remarks = {"cat", "milk"}
    Short = {"cat", "milk", "whole"}
    Talk <- MCTalk
    Whole <- MCWhole
    Summary = "sum"
    Chain = "chain"
    MinFacts = 2
    Top = 2
    MaxVerdicts = 1
    MaxEdits = 4
    MaxNights = 2
    Claims = {"cat", "game"}
    Words <- MCWords
    Messages = {"tell cat", "name it", "ask game"}
    Contains <- MCContains
    Questions = {"ask game"}
    Stable = {"cat"}
    MaxSaid = 2
    MaxScans = 2
    Beliefs = {"tea", "rain"}
    Trusts = {90}
    MaxEntries = 2
    First <- MCFirst
    FirstWeekday = 6
    Today <- MCToday
    Numbers = {1, 15, 28, 29, 30, 31}
    MaxLater = 1
SYMMETRY Symmetry
CHECK_DEADLOCK FALSE
INVARIANTS
    TypeOK
    
    
    SessionsAndScoresHold
    
PROPERTIES
    ImportReported
