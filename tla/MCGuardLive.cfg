CONSTANTS
    None = None
    p1 = p1
    c1 = c1
    s1 = s1
    s2 = s2
    Peer = {p1}
    Role = {}
    Conn = {c1}
    Slot = {s1, s2}
    Service <- MCService
    Required <- MCRequired
    Attested = {}
    PeerCap = 1
    TotalCap = 2
    QueueCap = 1
    Modulus = 1
    MaxShutdown = 2
SPECIFICATION FairGuardSpec
CHECK_DEADLOCK FALSE
PROPERTIES DrainEnds CutTunnelsEnd
