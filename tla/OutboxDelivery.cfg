SPECIFICATION Spec
CONSTANTS
    Loops = {l1}
    Limit = 2
    MaxRetries = 2
    MaxItems = 3
    MaxStops = 2
    MaxCopies = 5
CHECK_DEADLOCK FALSE
PROPERTIES
    KeepsPromise
