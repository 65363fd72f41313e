\* A recording that is not finished, a lost connection, and a mutation.
CONSTANTS
    c1 = c1
    g1 = g1
    None = None
    Controllers = {c1}
    Relayed = {}
    Gens = {g1}
    Tools = {"launch", "record", "mutate"}
    Shapes <- Alone
    Survivors = {}
SPECIFICATION Spec
INVARIANTS WaitsForTerminal
\* Every controller may exit.
CHECK_DEADLOCK FALSE
