\* Two ports, three operations, four attachments.
CONSTANTS
    Ports = {1, 2}
    MaxAttachments = 4
    MaxOperations = 3
SPECIFICATION FairSpec
INVARIANTS ParentObligations NothingLeft FinishedForGood
PROPERTIES EffectByOwner CompletedVerified LostOrFailedEnds
\* A bridge may exit.
CHECK_DEADLOCK FALSE
