SPECIFICATION Spec
CONSTANTS
    a1 = a1
    a2 = a2
    NoArg = NoArg
    Free = Free
    File = File
    Socket = Socket
    Conns <- MCConns
    Fds <- MCFds
    Views <- MCViews
    Root = "user"
    Config = "config"
    Parent <- MCParent
    Level <- MCLevel
    ContextViews <- MCContextViews
    Args <- MCArgs
    ArgsOf <- MCArgsOf
    StackDepth = 2
    MaxUnread = 1
INVARIANTS
    LevelsMatchView
    SessionsOwnTheirFds
PROPERTY HangupIsNoticed
CHECK_DEADLOCK FALSE
