SPECIFICATION FairSpec
CONSTANTS
    w = w  err = err  none = none  i1 = i1  i2 = i2
    Configurations <- MCConfigurations
    MaxCalls = 2
    Identities = {i1, i2}
    Conversations = {"conv"}
    ConversationOf <- OneConversation
    OpenAIReplies <- MCOpenAIReplies
    GatewayReplies <- MCGatewayReplies
    MaxSummary = 1
    Workers = 1
    MaxCrashes = 1
    Words = {w, err, none}
    Placeholder <- MCPlaceholder
    ErrorText <- MCErrorText
    None = None
INVARIANTS TypeOK AnswersAreWhole NoLocalRetry ContextIsOwn SelectedBackendOnly
PROPERTIES CallsSpec CallsEnd EveryRunEnds
CHECK_DEADLOCK FALSE
