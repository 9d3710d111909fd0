SPECIFICATION FairReviewSpec
CONSTANTS
    t1 = t1  t2 = t2
    Tasks = {t1, t2}
    Identities <- OneIdentity
    Keys <- MCKeys
    KeyOf <- MCKeyOf
    Conversations <- MCConversations
    ConversationOf <- MCConversationOf
    DelegationOf <- MCDelegationOf
    FailOnce = TRUE
    Summaries = {s1}
    MaxCalls = 6
    MaxFaults = 1
    MaxStops = 1
    None = None
INVARIANT ReviewIInv
PROPERTIES EveryReviewEnds RetriedReviewsComplete
