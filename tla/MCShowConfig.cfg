SPECIFICATION ShowSpec
CONSTANTS
    Sessions = {s1, s2}
    Numbers = {n1, n2}
    None = None
    Nobody = Nobody
    RowIds = {1, 2}
    Faulty = TRUE
    MaxCommands = 3
    MaxStarts = 3
    MaxShows = 2
    Table = "bgp_protocol"
    Defs <- MCDefs
    Bodies <- MCBodies
SYMMETRY Symmetry
INVARIANTS
    AtMostOneRow
    AnswerIsCurrent
    ShownWasConfigured
    UnchangedIsShownInFull
PROPERTY ImplementsStore
CHECK_DEADLOCK FALSE
