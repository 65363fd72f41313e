\* One tool of a host with one kind of link.
CONSTANTS
    Ports = {1}
    MaxAttachments = 1
    MaxOperations = 1
    Kinds = {"TcpLink"}
SPECIFICATION ToolSpec
PROPERTIES RetiredOnlyUnverified
\* The bridge may exit.
CHECK_DEADLOCK FALSE
