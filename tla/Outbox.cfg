SPECIFICATION Spec
CONSTANTS
    Loops = {l1, l2}
    Limit = 2
    MaxRetries = 2
    MaxItems = 2
    MaxStops = 2
    MaxCopies = 5
CHECK_DEADLOCK FALSE
INVARIANTS
    TypeOK
    SentWasTaken
    GivenUpAfterRetries
    CopiesAccounted
PROPERTIES
    SettledIsFinal
    EventuallySettled
