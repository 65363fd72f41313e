\* One port, two operations, two attachments, both kinds of link.
CONSTANTS
    Ports = {1}
    MaxAttachments = 2
    MaxOperations = 2
    Kinds = {"TcpLink", "LazyBrokerLink"}
SPECIFICATION FairToolSpec
INVARIANTS NoRecordMeansClean StreamInStep ToolAccounts
PROPERTIES ToolEnds QuarantinedIsCleaned
\* The bridge may exit.
CHECK_DEADLOCK FALSE
