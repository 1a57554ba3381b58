SPECIFICATION Spec
CONSTANTS
    Files <- MCFiles
    ParamType <- MCParamType
    Abbreviates <- MCAbbreviates
    Shape <- MCShape
    Typed <- MCTyped
INVARIANTS
    TypeOK
    ServesItsCommands
    AnswersOnlyItsCommands
PROPERTIES
    LinesStay
