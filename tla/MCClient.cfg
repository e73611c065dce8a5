CONSTANTS
    c1 = c1
    c2 = c2
    Conn = {c1, c2}
    None = None
SPECIFICATION FairSessionSpec
INVARIANTS SessionInv ServingConnected NoEndlessWait SessionHeld
PROPERTIES ReauthenticatesOrSticks ImplementsKeeper
CHECK_DEADLOCK FALSE
