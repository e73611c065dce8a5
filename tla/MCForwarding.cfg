CONSTANTS
    tcp = tcp
    unix = unix
    p1 = p1
    p2 = p2
    Listeners = {tcp, unix}
    UnixSockets = {unix}
    Programs = {p1, p2}
    Allowed = {p1}
    Grace = 2
    Pause = 1
SPECIFICATION FairForwardSpec
INVARIANTS ForwardInv DrainBounded
PROPERTIES GraceGranted EveryLocalAnswered
CHECK_DEADLOCK FALSE
