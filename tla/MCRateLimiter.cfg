CONSTANTS
    a = a
    b = b
    c = c
    d = d
    Ip = {a, b, c, d}
    Exempt = {d}
    MaxPerWindow = 2
    Window = 2
    MaxTracked = 2
    MaxTime = 6
    None = None
SPECIFICATION RateSpec
SYMMETRY Symmetry
INVARIANTS WindowRespected RefusalJustified RateInv
CHECK_DEADLOCK FALSE
