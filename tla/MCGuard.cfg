CONSTANTS
    None = None
    p1 = p1
    c1 = c1
    c2 = c2
    s1 = s1
    s2 = s2
    Peer = {p1}
    Role = {"db"}
    Conn = {c1, c2}
    Slot = {s1, s2}
    Service <- MCService
    Required <- MCRequiredDb
    Attested = {p1}
    PeerCap = 1
    TotalCap = 2
    QueueCap = 1
    Modulus = 2
    MaxShutdown = 1
SPECIFICATION GuardSpec
SYMMETRY Symmetry
INVARIANTS
    GuardInv SessionsConnected LiveTunnelsHaveSession
    OpenTunnelsWithinPeerCap PermitsAccounted MetricsBalanced DrainedIsIdle
CHECK_DEADLOCK FALSE
