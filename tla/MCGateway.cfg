CONSTANTS
    None = None
    g = g
    h = h
    c = c
    k1 = k1
    k2 = k2
    Peer = {g, h, c}
    AllowLists <- MCAllowLists
    Uuid = {g, h}
    Put = {k1, k2}
    MaxPuts = 2
    Commands = 1
SPECIFICATION GatewaySpec
INVARIANTS GatewayInv GuardRoleStored StoredListed
