\* One tool of a host with one kind of link.
CONSTANTS
    Ports = {1}
    MaxAttachments = 1
    MaxOperations = 1
    Kinds = {"LazyBrokerLink"}
SPECIFICATION ToolSpec
PROPERTIES RejectionKeepsAttachment
\* The bridge may exit.
CHECK_DEADLOCK FALSE
