CONSTANTS
    p1 = p1
    p2 = p2
    Peer = {p1, p2}
    Role = {"db"}
    None = None
    MaxSkew = 1
    MaxClock = 2
    MaxNonce = 3
SPECIFICATION AuthSpec
SYMMETRY Symmetry
INVARIANTS SingleUse OnlyReloadSparesChallenge SessionsListed AuthInv
PROPERTIES ImplementsAdmission
