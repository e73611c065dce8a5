CONSTANTS
    None = None
    p = p
    q = q
    Peer <- MCPeer
    MaxVersions = 2
    MaxStamp = 1
    Allowed <- MCAllowed
    Served <- MCStandIn
SPECIFICATION FairSyncSpec
INVARIANTS SyncInv MixesOnlyWhenOvertaken
PROPERTIES ConfigurationArrives
