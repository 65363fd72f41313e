\* Two emulators, one of them anonymous, and two controllers.
CONSTANTS
    None = None  k1 = k1  k2 = k2  p1 = p1  p2 = p2
    s1 = s1  s2 = s2  c1 = c1  c2 = c2  l1 = l1  l2 = l2
    Keys = {k1, k2}
    AnonKeys <- AnonKeyList
    Producers = {p1, p2}
    Sessions <- TwoSessions
    Controllers = {c1, c2}
    Launches = {l1, l2}
    NameOf <- PairNameOf
    LaunchOf <- PairLaunchOf
    Lifecycle = {}
    ControllerOf <- ControllerOfTwo
    QueueFrames = 1
    MaxReq = 1
    IdSpace = 4
    FieldSpace = 8
SPECIFICATION Spec
INVARIANTS RouteKept NoStaleRequest
PROPERTIES PairingKept
\* Connections are not made again in this instance, so it may come to rest.
CHECK_DEADLOCK FALSE
