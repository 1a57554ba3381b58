SPECIFICATION Spec
CONSTANTS
    Names <- MCNames
    Logical = {"GE-1"}
    FirstLogical = "GE-1"
    Peer <- MCPeer
    Files <- MCFiles
    MaxInterfaces = 2
    Addresses = {"10.0.0.1", "10.0.0.2"}
    Masks = {"255.0.0.0", "255.255.255.0"}
    ClassMask = "255.0.0.0"
    Zero = "0.0.0.0"
    Refused = "::1"
    None = "none"
    MaxChanges = 1
INVARIANTS StartupKeepsLinks MappedLinksAreUp AnswerIsTrue ShowIsTheLinks
CHECK_DEADLOCK FALSE
