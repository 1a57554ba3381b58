SPECIFICATION SessionSpec
CONSTANTS
    Typed = {"a", " "}
    Space = " "
    Chars = {"a", "b", " "}
    Keys = {"Esc", "Backspace", "Tab", "Help"}
    Completions <- MCCompletions
    MaxLine = 3
    HistorySize = 1
    Commands <- MCLines
    None = None
    Size = 1
    SkipsRepeats = TRUE
    Word = 2
    PageSize = 2
    Outputs = {0}
    MaxCommands = 0
INVARIANTS TypeOK RowShowsLine
PROPERTIES TabKeepsText
