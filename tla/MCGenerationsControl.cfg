\* The controller of the port and one behind a broker.
CONSTANTS
    c1 = c1
    r = r
    g1 = g1
    g2 = g2
    None = None
    Controllers = {c1, r}
    Relayed = {r}
    Gens = {g1, g2}
    Tools = {"mutate", "temporal", "launch", "replace", "reattach"}
    Shapes <- Alone
    Survivors = {"emulator"}
SPECIFICATION LiveSpec
INVARIANTS HistoryUntouched MutationAlone
PROPERTIES QuarantineHolds OrphansAreReaped
\* Every controller may exit.
CHECK_DEADLOCK FALSE
