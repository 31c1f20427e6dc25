SPECIFICATION Spec
CONSTANTS
    Things = {"cup", "milk"}
    Furniture = {"table", "box"}
    Hideouts = {"box", "drawer"}
    Table = "table"
    Box = "box"
    Capacity = 1
    MaxQty = 2
    Threads = {p1, p2}
    MaxOps = 3
    Places = {"home", "studio", "park"}
    Home = "home"
    SlotLength = 2
    Plan <- MCPlan
    Travel <- MCTravel
    Rooms = {"living", "bed"}
    FirstRoom = "living"
    Walk <- MCWalk
    Callers = {p1, p2}
    MaxTime = 8
    MaxAsks = 3
    Texts = {1, 2, 3}
    Members = {"m1", "m2"}
    SpeakerOf <- MCSpeakerOf
    Facts = {"f"}
    Period = 2
    Hour = 2
    FlushAge = 2
    MaxBuffer = 2
    MaxClock = 3
    MaxEdits = 1
    Messages = {1, 2, 3, 4}
    MaxRounds = 2
    UrgentRounds = 1
    Chars = {"a", "b", "c"}
    Letters = {"A", "B"}
    QuizSize = 2
    MaxPoints = 1
    MaxStops = 1
SYMMETRY Symmetry
CHECK_DEADLOCK FALSE
INVARIANTS
    TypeOK
    PlacesAgree
    
    DialoguesGoOn
PROPERTIES
    ExtractionsSpaced
