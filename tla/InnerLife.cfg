SPECIFICATION Spec
CONSTANTS
    Backends = {"sqlite", "postgres"}
    Threads = {k1, k2}
    MaxTurns = 2
    Chats = {"a", "b"}
    Details = {"cat", "date"}
    Owner <- MCOwner
    Promises = {"date"}
    MinTries = 1
    MaxClaims = 1
    MaxEdits = 1
    Scopes = {"home", "group"}
    Private = {"home"}
    Window = 2
    Lasting = 0
    Away = 0
    MaxWaits = 1
    MaxTime = 1
    Goals = {"exam", "song"}
    Strength <- MCStrength
    Ttl = 0
    MaxThoughts = 2
    MaxChanges = 2
    MaxAge = 1
    Kinds = {"memory", "space"}
    Switches = {"vector"}
    Concurrent = 2
    HistoryLength = 2
    MaxTasks = 3
    MaxToggles = 1
    Rooms = {"a", "b", "c"}
    Doors = {"d1", "d2", "d3"}
    Outdoors = "gate"
    Nowhere = "nowhere"
    Written <- MCWritten
    Length <- MCLength
    Circles = {"a"}
    Cast = {"ann"}
    Places = {"home", "road"}
    Company <- MCCompany
    SlotLength = 2
    SnapTtl = 2
    WeatherTtl = 1
    MaxHour = 2
    MaxLooks = 2
    Days = {0, 1, 2}
    Pool = {"performance", "work", "home_rest"}
    Fixed <- MCFixed
    AtHome = {"home_rest"}
    Tiring = {"performance", "work", "rehearsal"}
    Energy <- MCEnergy
    Budget = 15
    Before <- MCBefore
    After <- MCAfter
    Yielding = {"home_rest"}
    MaxWeek = 1
    MaxStarts = 1
SYMMETRY Symmetry
CHECK_DEADLOCK FALSE
INVARIANTS
    TypeOK
    
    
    
