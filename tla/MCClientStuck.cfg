CONSTANTS
    c1 = c1
    Conn = {c1}
    None = None
SPECIFICATION FairSessionSpec
PROPERTIES ReauthenticationSucceeds
CHECK_DEADLOCK FALSE
