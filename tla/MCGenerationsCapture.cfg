\* Recordings and their recovery by another controller, and replacements
\* of generations whose bridge may survive its emulator.
CONSTANTS
    c1 = c1
    c2 = c2
    g1 = g1
    g2 = g2
    None = None
    Controllers = {c1, c2}
    Relayed = {}
    Gens = {g1, g2}
    Tools = {"mutate", "record", "read", "replace"}
    Shapes <- Bridged
    Survivors = {"bridge"}
SPECIFICATION Spec
SYMMETRY Symmetry
PROPERTIES CaptureEnds PublishesOverExited
\* Every controller may exit.
CHECK_DEADLOCK FALSE
