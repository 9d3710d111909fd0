SPECIFICATION ReviewSpec
CONSTANTS
    t1 = t1  t2 = t2
    Tasks = {t1, t2}
    Identities <- TwoIdentities
    Keys <- MCKeys
    KeyOf <- MCKeyOf
    Conversations <- MCConversations
    ConversationOf <- MCConversationOf
    DelegationOf <- MCDelegationOf
    FailOnce = TRUE
    Summaries = {s1}
    MaxCalls = 4
    MaxFaults = 1
    MaxStops = 0
    None = None
SYMMETRY Symmetry
INVARIANTS ReviewTypeOK CheckpointNeverAhead RepliesAreOwn InjectedFailureIsReplayable
CONSTRAINT CallsLeft
