CONSTANTS
    g1 = g1
    g2 = g2
    Guards = {g1, g2}
    Relay = Relay
    Stranger = Stranger
    None = None
    Addresses = 2
SPECIFICATION FairSpec
INVARIANTS DiscoveryInv EveryGuardDialled
PROPERTIES JoinedAddressWorked GuardStartsAnyway DiscoveryEnds
CHECK_DEADLOCK FALSE
