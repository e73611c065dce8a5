CONSTANTS
    None = None
    p = p
    q = q
    Peer <- MCPeer
    MaxVersions = 2
    MaxStamp = 1
    Allowed <- MCAllowed
    Served <- MCRepository
SPECIFICATION FairSyncSpec
PROPERTIES ConfigurationArrives
