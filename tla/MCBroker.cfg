\* A controller comes back to its emulator while its old connection lingers.
CONSTANTS
    None = None  k1 = k1  k2 = k2  p1 = p1  p2 = p2
    s1 = s1  s2 = s2  c1 = c1  c2 = c2  l1 = l1  l2 = l2
    Keys = {k1}
    AnonKeys <- NoAnonKeys
    Producers = {p1}
    Sessions <- TwoSessions
    Controllers = {c1}
    Launches = {l1}
    NameOf <- OneNameOf
    LaunchOf <- OneLaunchOf
    Lifecycle = {p1}
    ControllerOf <- OneControllerOfTwo
    QueueFrames = 2
    MaxReq = 1
    IdSpace = 4
    FieldSpace = 8
SPECIFICATION FairSpec
INVARIANTS WireTellsOwner ResponseToAsker
PROPERTIES OwnerLossIsActedOn ImplementsStream
\* Connections are not made again in this instance, so it may come to rest.
CHECK_DEADLOCK FALSE
