SPECIFICATION SessionSpec
CONSTANTS
    Typed = {"a"}
    Space = " "
    Chars = {"a", " "}
    Keys = {"Esc", "Enter", "Backspace", "Page", "Quit"}
    Completions <- NoCompletions
    MaxLine = 3
    HistorySize = 3
    Commands <- MCLines
    None = None
    Size = 3
    SkipsRepeats = TRUE
    Word = 8
    PageSize = 2
    Outputs = {0, 2, 3, 5}
    MaxCommands = 4
INVARIANTS NoMoreThanAPage
PROPERTIES DraftComesBack PromptComesBack ImplementsRecent
