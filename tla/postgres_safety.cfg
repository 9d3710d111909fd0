SPECIFICATION Spec
CONSTANTS
    Clients = {c1, c2, c3}
    Keys = {k1}
    exact = exact
    integer = integer
    wide = wide
    rejected = rejected
    Payloads = {exact, integer, wide, rejected}
    Stored <- MCStored
    PoolMax = 2
    MaxFaults = 2
    None = None
SYMMETRY Symmetry
INVARIANTS TypeOK OneReservation AnswersAreDurable IInv
PROPERTIES LedgerSpec
