SPECIFICATION Spec
CONSTANTS
    group = group
    Chats = {group}
    Messages = {m1, m2, m3}
    ChatOf <- MCChatOf
    NoMsg = NoMsg
    HistoryCap = 4
    AskWindow = 2
    MaxChunks = 2
    MaxRestarts = 1
CHECK_DEADLOCK FALSE
INVARIANTS
    TypeOK
    SingleFlight
    PendingHasRunner
    HistoryPaired
    WindowCurrent
    AnsweredOnce
    AwaitedReplyDelivered
PROPERTIES
    EventuallySettled
