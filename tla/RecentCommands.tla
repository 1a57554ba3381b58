--------------------------- MODULE RecentCommands ---------------------------
(***************************************************************************)
(* What a command history promises its readers: the last Size commands,    *)
(* the newest first.  The history of a session leaves out a command that   *)
(* repeats the one before it, the global history does not.                 *)
(***************************************************************************)
EXTENDS Integers, Sequences

CONSTANTS
    Commands,       \* what may be recorded
    Size,           \* how many are kept
    SkipsRepeats    \* TRUE for a session, FALSE for the global history

VARIABLE past

Repeats(known, cmd) == SkipsRepeats /\ known # <<>> /\ known[1] = cmd

KeptLength(known) == IF Len(known) < Size THEN Len(known) + 1 ELSE Size

Remember(known, cmd) ==
    IF Repeats(known, cmd) THEN known
    ELSE [i \in 1 .. KeptLength(known) |-> IF i = 1 THEN cmd ELSE known[i - 1]]

Init == past = <<>>

Next == \E cmd \in Commands : past' = Remember(past, cmd)

Spec == Init /\ [][Next]_past
=============================================================================
