SPECIFICATION ReviewSpec
CONSTANTS
    t1 = t1  t2 = t2
    Tasks = {t1}
    Identities <- OneIdentity
    Keys <- MCKeys
    KeyOf <- MCKeyOf
    Conversations <- MCConversations
    ConversationOf <- MCConversationOf
    DelegationOf <- MCDelegationOf
    FailOnce = TRUE
    Summaries = {s1}
    MaxCalls = 2
    MaxFaults = 1
    MaxStops = 1
    None = None
PROPERTY ResumesFromCheckpoint
