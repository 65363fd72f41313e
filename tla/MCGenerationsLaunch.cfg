\* Replacements and stops of three generations whose emulator may survive.
CONSTANTS
    c1 = c1
    c2 = c2
    g1 = g1
    g2 = g2
    g3 = g3
    None = None
    Controllers = {c1, c2}
    Relayed = {}
    Gens = {g1, g2, g3}
    Tools = {"replace", "stop"}
    Shapes <- Alone
    Survivors = {"emulator"}
SPECIFICATION Spec
SYMMETRY Symmetry
INVARIANTS LeaseKept CurrentIntact StopCompletes
PROPERTIES NoRevival TerminatesUnderLease
\* Every controller may exit.
CHECK_DEADLOCK FALSE
