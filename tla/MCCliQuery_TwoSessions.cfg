SPECIFICATION Spec
CONSTANTS
    Sessions = {s1, s2}
    Interfaces = {1, 2}
    Permanent <- ModuleIds
    IfModule = 4
    IdSpace = 16
    FirstId = 14
    MaxCommands = 3
    MaxChunks = 2
INVARIANT ActsOnPromptedInterface
CHECK_DEADLOCK FALSE
