SPECIFICATION FairSpec
CONSTANTS
    Clients = {c1, c2, c3}
    Keys = {k1}
    exact = exact
    integer = integer
    wide = wide
    rejected = rejected
    Payloads = {exact, rejected}
    Stored <- MCStored
    PoolMax = 2
    MaxFaults = 0
    None = None
PROPERTIES OperationsEnd
