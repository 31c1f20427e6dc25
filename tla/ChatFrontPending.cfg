SPECIFICATION Spec
CONSTANTS
    group = group
    Chats = {group}
    Messages = {m1, m2}
    ChatOf <- MCChatOf
    NoMsg = NoMsg
    HistoryCap = 4
    AskWindow = 2
    MaxChunks = 1
    MaxRestarts = 0
CHECK_DEADLOCK FALSE
INVARIANT PendingReplyDelivered
