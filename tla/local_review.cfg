SPECIFICATION Spec
CONSTANTS
    Tasks = {t1, t2}
    GivenIds = {g}
    NewExecutions = {e1, e2}
    NewDelegations = {d1}
    Commands <- MCCommands
    MaxCalls = 2
    Refs = {r1, r2, r3, r4, r5}
    Values <- MCValues
    Keys <- MCKeys
    None = None
SYMMETRY Symmetry
INVARIANTS TypeOK ReusedIsIdentified SameCommandSameAnswer RecordsAreUnaliased IInv
PROPERTIES LedgerSpec EffectSpec
CHECK_DEADLOCK FALSE
