\* One launch, whose publication may fail late.
CONSTANTS
    c1 = c1
    g1 = g1
    None = None
    Controllers = {c1}
    Relayed = {}
    Gens = {g1}
    Tools = {"launch"}
    Shapes <- Alone
    Survivors = {}
SPECIFICATION Spec
INVARIANTS TearsDownUnpublished
\* Every controller may exit.
CHECK_DEADLOCK FALSE
