SPECIFICATION FairSpec
CONSTANTS
    t1 = t1  t2 = t2
    Tasks = {t1, t2}
    Identities <- OneIdentity
    Keys <- MCKeys
    KeyOf <- MCKeyOf
    Summaries = {s1, s2}
    MaxCalls = 5
    MaxFaults = 1
    None = None
INVARIANTS ReplayNeverCalls BoundedDuplicates BudgetInv
PROPERTIES LedgerSpec EffectSpec EveryDelegationEnds PendingIsResolved
