----------------------------- MODULE LineEditor -----------------------------
(***************************************************************************)
(* The keyboard of one CLI session: nn_cli_process_input                   *)
(* (cfg/nn_cli_handler.c), which reads the client byte by byte and edits   *)
(* the line, recalls history, completes words, asks for help and pages     *)
(* through output; and the terminal row the client sees, which is moved    *)
(* only by the characters the code sends.                                  *)
(*                                                                         *)
(* A line is a sequence of characters.  What a command prints is a number  *)
(* of lines (\E n \in Outputs), what the command tree answers to TAB is    *)
(* the operator Completions.  The characters of escape sequences are sent  *)
(* only inside them, and telnet option bytes, which the code discards,     *)
(* are left out.                                                           *)
(***************************************************************************)
EXTENDS Integers, SequencesExt, FiniteSetsExt

CONSTANTS
    Typed,          \* printable characters the user types
    Space,          \* the blank, a character of every terminal row
    Chars,          \* all characters a row can show, those of keywords included
    Keys,           \* the special keys the user has
    Completions(_), \* nodes matching the last word of a text, in tree order
    MaxLine,        \* MAX_CMD_LEN - 1
    HistorySize,    \* NN_CLI_SESSION_HISTORY_SIZE
    PageSize,       \* pager_lines_per_page
    Outputs,        \* lengths, in lines, of what commands print
    MaxCommands     \* bound of the exploration: lines entered

ASSUME EditorAssumption ==
    /\ MaxLine \in Nat \ {0} /\ HistorySize \in Nat \ {0}
    /\ PageSize \in Nat \ {0} /\ Outputs \subseteq Nat /\ MaxCommands \in Nat
    /\ Typed \subseteq Chars /\ Space \in Chars
    /\ Keys \subseteq {"Esc", "Enter", "Backspace", "Tab", "Help", "Page", "Quit"}

VARIABLES
    state,     \* NORMAL, ESC or CSI: where the escape sequence is
    line,      \* line_buffer[0 .. line_pos)
    cursor,    \* cursor_pos
    tab,       \* tab_cycling, tab_match_index, tab_original
    history,   \* the session history, newest first
    browse,    \* history.browse_idx
    temp,      \* history.temp_buffer
    pager,     \* lines left in the pager buffer, 0 when it is not active
    screen,    \* the row of the terminal the prompt is on
    shown,     \* lines of output since the last key
    commands,  \* number of lines entered
    ghost      \* what the user did, see below: read by the properties only

vars == <<state, line, cursor, tab, history, browse, temp, pager, screen,
          shown, commands, ghost>>

editing  == <<line, cursor>>
browsing == <<history, browse, temp>>
paging   == <<pager, shown, commands>>

\* ghost.skewed: a character went in before others since the row was last
\*               drawn from its prompt
\* ghost.draft:  the text Up was first pressed on since the last prompt,
\* ghost.drafted: and whether it was pressed at all
\* ghost.stale:  an empty line was entered while an entry was recalled

-----------------------------------------------------------------------------
(***************************************************************************)
(* The terminal.  Column 0 is the one after the prompt.  Once its cursor   *)
(* is not where the line has it, every later redraw garbles the row; it is *)
(* then not followed further until it is drawn again from its prompt.      *)
(***************************************************************************)
Columns == 0 .. MaxLine + 1

Blank(prompted) ==
    [text |-> [c \in Columns |-> Space], col |-> 0, prompted |-> prompted]

\* Characters overwrite what is under the cursor.
Put(scr, s) ==
    [text |-> [c \in Columns |-> IF c - scr.col + 1 \in DOMAIN s
                                 THEN s[c - scr.col + 1] ELSE scr.text[c]],
     col |-> scr.col + Len(s),
     prompted |-> scr.prompted]

\* n times "\b"
Back(scr, n) == [scr EXCEPT !.col = @ - n]

\* The row after a handler that only sends what changed.
Sent(scr) == IF ghost.skewed THEN screen ELSE scr

\* Mutant: redraw_from_cursor forgets the blank when it goes back.
RedrawShort(scr, buffer, from) ==
    Back(Put(scr, SubSeq(buffer, from + 1, Len(buffer)) \o <<Space>>),
         Len(buffer) - from)

\* redraw_from_cursor: the rest of the buffer, a blank, and back again.
RedrawFrom(scr, buffer, from) ==
    Back(Put(scr, SubSeq(buffer, from + 1, Len(buffer)) \o <<Space>>),
         Len(buffer) - from + 1)

\* clear_and_redraw_line, and every "\r\n", prompt, buffer
Redrawn(buffer) == Put(Blank(TRUE), buffer)

-----------------------------------------------------------------------------
NoTab == [cycling |-> FALSE, index |-> 0, original |-> <<>>]

Init ==
    /\ state = "NORMAL" /\ line = <<>> /\ cursor = 0 /\ tab = NoTab
    /\ history = <<>> /\ browse = -1 /\ temp = <<>>
    /\ pager = 0 /\ screen = Blank(TRUE) /\ shown = 0 /\ commands = 0
    /\ ghost = [skewed |-> FALSE, draft |-> <<>>, drafted |-> FALSE,
                stale |-> FALSE]

Editing == pager = 0 /\ state = "NORMAL"

\* Every key but Esc in the NORMAL state ends the cycling of completions.
EndCycling == tab' = [tab EXCEPT !.cycling = FALSE]

\* A row drawn again from its prompt is straight whatever it was before.
Straightened == ghost' = [ghost EXCEPT !.skewed = FALSE]

\* Mutant: no room is left for the terminating zero.
HasRoomForOneMore == Len(line) <= MaxLine

HasRoom == Len(line) < MaxLine

\* A character at the cursor: appended and echoed, or inserted and the row
\* redrawn from the character on.
Regular(c) ==
    /\ Editing
    /\ HasRoom
    /\ line' = InsertAt(line, cursor + 1, c)
    /\ cursor' = cursor + 1
    /\ screen' = Sent(IF cursor < Len(line)
                      THEN RedrawFrom(screen, line', cursor' - 1)
                      ELSE Put(screen, <<c>>))
    /\ ghost' = [ghost EXCEPT !.skewed = @ \/ cursor < Len(line)]
    /\ EndCycling /\ shown' = 0
    /\ UNCHANGED <<state, browsing, pager, commands>>

\* A character the line has no room for, or an unprintable one: nothing is
\* inserted.
Refused ==
    /\ Editing
    /\ EndCycling /\ shown' = 0
    /\ UNCHANGED <<state, editing, browsing, pager, screen, commands, ghost>>

\* Backspace deletes the character before the cursor.
Backspace ==
    /\ Editing /\ "Backspace" \in Keys
    /\ EndCycling /\ shown' = 0
    /\ IF cursor = 0
       THEN UNCHANGED <<line, cursor, screen>>
       ELSE /\ line' = RemoveAt(line, cursor)
            /\ cursor' = cursor - 1
            /\ screen' = Sent(IF cursor < Len(line)
                              THEN RedrawFrom(Back(screen, 1), line', cursor')
                              ELSE Back(Put(Back(screen, 1), <<Space>>), 1))
    /\ UNCHANGED <<state, browsing, pager, commands, ghost>>

-----------------------------------------------------------------------------
(***************************************************************************)
(* Escape sequences and the arrows.  Esc leaves the completion cycle as    *)
(* it is, and so do the bytes after it.                                    *)
(***************************************************************************)
Escape ==
    /\ Editing /\ "Esc" \in Keys
    /\ state' = "ESC" /\ shown' = 0
    /\ UNCHANGED <<editing, tab, browsing, pager, screen, commands, ghost>>

\* '[' after Esc opens the sequence, another character ends it.
AfterEscape ==
    /\ pager = 0 /\ state = "ESC"
    /\ state' \in {"CSI", "NORMAL"}
    /\ UNCHANGED <<editing, tab, browsing, paging, screen, ghost>>

Arrow ==
    /\ pager = 0 /\ state = "CSI"
    /\ state' = "NORMAL"
    /\ UNCHANGED <<tab, history, paging>>

OtherSequence ==
    /\ Arrow
    /\ UNCHANGED <<editing, browse, temp, screen, ghost>>

\* The history entry or the saved text becomes the line.
Load(text) ==
    /\ line' = text /\ cursor' = Len(text)
    /\ screen' = Redrawn(text)

\* Mutant: up saves the line again at every entry.
ArrowUpSavesAlways ==
    /\ Arrow
    /\ IF browse + 1 < Len(history)
       THEN /\ browse' = browse + 1
            /\ temp' = line
            /\ Load(history[browse' + 1])
       ELSE UNCHANGED <<browse, temp, editing, screen>>
    /\ ghost' = [ghost EXCEPT
                   !.skewed = @ /\ browse' = browse,
                   !.draft = IF ghost.drafted THEN @ ELSE line,
                   !.drafted = @ \/ Len(history) > 0]

\* Up: save the text and recall the newest entry, or go one entry back.
ArrowUp ==
    /\ Arrow
    /\ IF browse + 1 < Len(history)
       THEN /\ browse' = browse + 1
            /\ temp' = IF browse = -1 THEN line ELSE temp
            /\ Load(history[browse' + 1])
       ELSE UNCHANGED <<browse, temp, editing, screen>>
    /\ ghost' = [ghost EXCEPT
                   !.skewed = @ /\ browse' = browse,
                   !.draft = IF ghost.drafted THEN @ ELSE line,
                   !.drafted = @ \/ Len(history) > 0]

\* Down: one entry forward, and from the newest back to the saved text.
ArrowDown ==
    /\ Arrow
    /\ temp' = temp
    /\ IF browse = -1
       THEN UNCHANGED <<browse, editing, screen>>
       ELSE /\ browse' = browse - 1
            /\ Load(IF browse > 0 THEN history[browse] ELSE temp)
    /\ ghost' = [ghost EXCEPT !.skewed = @ /\ browse' = browse,
                              !.draft = IF browse' = -1 THEN <<>> ELSE @,
                              !.drafted = @ /\ browse' # -1]

ArrowLeft ==
    /\ Arrow
    /\ IF cursor > 0
       THEN cursor' = cursor - 1 /\ screen' = Sent(Back(screen, 1))
       ELSE UNCHANGED <<cursor, screen>>
    /\ UNCHANGED <<line, browse, temp, ghost>>

ArrowRight ==
    /\ Arrow
    /\ IF cursor < Len(line)
       THEN cursor' = cursor + 1 /\ screen' = Sent(Back(screen, -1))
       ELSE UNCHANGED <<cursor, screen>>
    /\ UNCHANGED <<line, browse, temp, ghost>>

-----------------------------------------------------------------------------
(***************************************************************************)
(* TAB completes the text left of the cursor; pressed again it goes round  *)
(* the matches of the text it was first pressed on.                        *)
(***************************************************************************)
Trailing(text) == text # <<>> /\ Last(text) = Space

\* The text up to and with its last blank.
UpToLastWord(text) ==
    LET blanks == {i \in DOMAIN text : text[i] = Space}
    IN  IF blanks = {} THEN <<>> ELSE SubSeq(text, 1, Max(blanks))

LastWord(text) == SubSeq(text, Len(UpToLastWord(text)) + 1, Len(text))

\* What nn_cli_tree_find_matches finds: nodes, whose names begin with the word
\* that is completed.
ASSUME CompletionsAssumption ==
    \A n \in 0 .. MaxLine : \A text \in [1 .. n -> Chars] :
        /\ Completions(text) \in Seq([kind : {"keyword", "argument"}, name : Seq(Chars)])
        /\ ~Trailing(text) => \A i \in DOMAIN Completions(text) :
              Completions(text)[i].kind = "keyword" =>
                  IsPrefix(LastWord(text), Completions(text)[i].name)

\* Mutant: the keyword is written over the whole text, not over its last
\* word.
AppliedToAll(node, text, trailing) ==
    CASE node.kind = "keyword" /\ ~trailing ->
           LET full == node.name \o <<Space>>
           IN  SubSeq(full, 1, Min({Len(full), MaxLine}))
      [] node.kind = "argument" -> UpToLastWord(text)
      [] OTHER -> text

\* tab_apply_match: a keyword replaces the word it continues, an argument
\* only loses the blank before it.
Applied(node, text, trailing) ==
    CASE node.kind = "keyword" /\ ~trailing ->
           LET full == UpToLastWord(text) \o node.name \o <<Space>>
           IN  SubSeq(full, 1, Min({Len(full), MaxLine}))
      [] node.kind = "argument" /\ trailing -> Front(text)
      [] OTHER -> text

LeftOfCursor == SubSeq(line, 1, cursor)

TabText == IF tab.cycling THEN tab.original ELSE LeftOfCursor

NextMatch(count) == IF tab.cycling THEN (tab.index + 1) % count ELSE 0

\* What is right of the cursor is gone, whatever TAB found.
Tab ==
    /\ Editing /\ "Tab" \in Keys
    /\ LET nodes == Completions(TabText)
           next  == NextMatch(Len(nodes))
       IN  IF Len(nodes) > 1
           THEN /\ line' = Applied(nodes[next + 1], TabText, Trailing(TabText))
                /\ tab' = [cycling |-> TRUE, index |-> next, original |-> TabText]
           ELSE /\ line' = IF nodes = <<>> THEN LeftOfCursor
                           ELSE Applied(nodes[1], LeftOfCursor, Trailing(TabText))
                /\ tab' = [tab EXCEPT !.cycling = FALSE]
    /\ cursor' = Len(line')
    /\ screen' = Redrawn(line')
    /\ shown' = 0 /\ Straightened
    /\ UNCHANGED <<state, browsing, pager, commands>>

\* '?' prints help for the text left of the cursor (less than a page with
\* the commands of this program) and cuts the line there.
Help ==
    /\ Editing /\ "Help" \in Keys
    /\ line' = LeftOfCursor
    /\ screen' = Redrawn(line')
    /\ EndCycling /\ shown' = 0 /\ Straightened
    /\ UNCHANGED <<state, cursor, browsing, pager, commands>>

-----------------------------------------------------------------------------
(***************************************************************************)
(* Enter, and the pager.                                                   *)
(***************************************************************************)
\* The session history as its readers see it: HistoryRing implements it.
Recent == INSTANCE RecentCommands
          WITH past <- history, Size <- HistorySize, SkipsRepeats <- TRUE,
               Commands <- Seq(Chars) \ {<<>>}

IsBlank(text) == \A i \in DOMAIN text : text[i] = Space

\* Mutant: the first page is counted one line too long.
OutputKeepsMore(n) ==
    /\ shown' = Min({n, PageSize + 1})
    /\ pager' = n - shown'
    /\ screen' = Blank(pager' = 0)

\* nn_cli_pager_output: all of it when it fits, else the first page.
Output(n) ==
    /\ shown' = Min({n, PageSize})
    /\ pager' = n - shown'
    /\ screen' = Blank(pager' = 0)

Enter ==
    /\ Editing /\ "Enter" \in Keys
    /\ line # <<>> /\ commands < MaxCommands
    /\ \E n \in IF IsBlank(line) THEN {0} ELSE Outputs : Output(n)
    /\ history' = Recent!Remember(history, line)
    /\ line' = <<>> /\ cursor' = 0 /\ browse' = -1
    /\ commands' = commands + 1
    /\ ghost' = [ghost EXCEPT !.skewed = FALSE, !.draft = <<>>,
                              !.drafted = FALSE, !.stale = FALSE]
    /\ EndCycling /\ UNCHANGED <<state, temp>>

\* Nothing to run: a new prompt, and the browse index stays where it was.
EnterNothing ==
    /\ Editing /\ "Enter" \in Keys
    /\ line = <<>>
    /\ screen' = Blank(TRUE)
    /\ ghost' = [ghost EXCEPT !.skewed = FALSE, !.draft = <<>>,
                              !.drafted = FALSE, !.stale = @ \/ browse # -1]
    /\ EndCycling /\ shown' = 0
    /\ UNCHANGED <<state, editing, browsing, pager, commands>>

\* Mutant: no prompt when the last line of the buffer was shown.
PagerShowsNoPrompt(n) ==
    /\ pager > 0
    /\ shown' = Min({n, pager})
    /\ pager' = pager - shown'
    /\ screen' = Blank(FALSE)
    /\ UNCHANGED <<state, editing, tab, browsing, commands, ghost>>

\* n more lines, and the prompt when they were the last.
PagerShows(n) ==
    /\ pager > 0
    /\ shown' = Min({n, pager})
    /\ pager' = pager - shown'
    /\ screen' = Blank(pager' = 0)
    /\ UNCHANGED <<state, editing, tab, browsing, commands, ghost>>

PagerPage == "Page" \in Keys /\ PagerShows(PageSize)

PagerLine == "Enter" \in Keys /\ PagerShows(1)

PagerQuit ==
    /\ pager > 0 /\ "Quit" \in Keys
    /\ pager' = 0 /\ shown' = 0 /\ screen' = Blank(TRUE)
    /\ UNCHANGED <<state, editing, tab, browsing, commands, ghost>>

-----------------------------------------------------------------------------
\* Every key but the Enter that ends a line.
OtherKey ==
    \/ \E c \in Typed : Regular(c)
    \/ Refused \/ Backspace
    \/ Escape \/ AfterEscape \/ OtherSequence
    \/ ArrowUp \/ ArrowDown \/ ArrowLeft \/ ArrowRight
    \/ Tab \/ Help \/ EnterNothing
    \/ PagerPage \/ PagerLine \/ PagerQuit

Next == Enter \/ OtherKey

PageOn == PagerPage \/ PagerLine

\* A user may stop typing; one who is paging goes on to the end of it.
Spec == Init /\ [][Next]_vars /\ WF_vars(PageOn)

-----------------------------------------------------------------------------
TypeOK ==
    /\ state \in {"NORMAL", "ESC", "CSI"}
    /\ Len(line) <= MaxLine /\ cursor \in 0 .. Len(line)
    /\ tab.cycling \in BOOLEAN /\ Len(tab.original) <= MaxLine
    /\ tab.cycling => tab.index \in 0 .. Len(Completions(tab.original)) - 1
    /\ Len(history) <= HistorySize
    /\ browse \in -1 .. Len(history) - 1
    /\ pager \in Nat /\ shown \in Nat /\ commands \in 0 .. MaxCommands
    /\ DOMAIN screen.text = Columns

\* The row of the terminal is the line, its cursor the cursor of the line,
\* when no character was put before others since the row was last drawn:
\* every other handler sends exactly what its change to the buffer needs.  After
\* an insertion redraw_from_cursor goes back to the character inserted, one left
\* of the cursor of the line (nn_cli_handler.c:1143).
RowShowsLine ==
    pager = 0 /\ ~ghost.skewed =>
        /\ screen.prompted
        /\ screen.col = cursor
        /\ screen.text = Redrawn(line).text

\* Down from the newest entry gives back the text Up was first pressed on
\* since the prompt, unless an emptied line was entered while browsing.
DraftComesBack ==
    [][ArrowDown /\ browse = 0 /\ ~ghost.stale => line' = ghost.draft]_vars

\* TAB keeps the text it completes: the line still starts with it, but for
\* the blank an argument takes away.
TabKeepsText ==
    [][Tab => \/ IsPrefix(TabText, line')
              \/ Trailing(TabText) /\ line' = Front(TabText)]_vars

\* "If completion modified the buffer, update line_buffer": a TAB that finds
\* nothing leaves the line alone.
TabWithoutMatch ==
    [][Tab /\ Completions(TabText) = <<>> => line' = line]_vars

\* No key makes more than a page of output scroll by.
NoMoreThanAPage == shown <= PageSize

\* Who pages on gets the prompt back.
PromptComesBack == pager > 0 ~> screen.prompted

=============================================================================
