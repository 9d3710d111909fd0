SPECIFICATION Spec
CONSTANTS
    t1 = t1  t2 = t2
    Tasks = {t1}
    Identities <- CollidingIdentities
    Keys <- MCKeys
    KeyOf <- MCKeyOf
    Summaries = {s1}
    MaxCalls = 2
    MaxFaults = 0
    None = None
INVARIANT AnswerIsOwn
