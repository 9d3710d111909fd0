SPECIFICATION Spec
CONSTANTS
    t1 = t1  t2 = t2
    Tasks = {t1, t2}
    Identities <- TwoIdentities
    Keys <- MCKeys
    KeyOf <- MCKeyOf
    Summaries = {s1}
    MaxCalls = 6
    MaxFaults = 1
    None = None
SYMMETRY Symmetry
INVARIANTS TypeOK CallsAreReserved RecordedResultWasAnswered AnswerIsOwn IInv

