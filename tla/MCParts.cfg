\* Every part on its own small instance.
CONSTANTS
    Peers = {"p1", "p2"}
    AdmLimit = 1
    AdmAccepts = 1
    Tokens = {"s", "r"}
    OwnToken = "s"
    MaxWorkers = 2
    MaxSilent = 2
    MaxCalls = 3
    MaxInbox = 1
    PortLinks = {"a", "b"}
    PortKeys = {"k", "none"}
    PortRange = 2
    MaxPortLaunches = 2
    MaxPortDecays = 1
    BrokerProcs = {"b1", "b2", "b3"}
    EmuLaunches = {"L1", "L2"}
    MaxLinkSilent = 2
    MaxRegs = 3
    Savers = {"s1", "s2", "s3"}
    MaxMoves = 1
    RecFrames = 2
    Roms = {"a", "b"}
    Conns = {"c"}
    MaxRuns = 2
    MaxItems = 1
    MaxLedFaults = 1
    ScanLimit = 2
SPECIFICATION Spec
INVARIANTS AdmissionSound LinkSound PortKept SnapshotKept RecordingSound LedgerSound EmuHaltIsReal  ToolsSound
PROPERTIES ServingIsPublished LinkStaysOnLaunch
\* Calls, requests and processes are bounded.
CHECK_DEADLOCK FALSE
