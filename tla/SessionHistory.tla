--------------------------- MODULE SessionHistory ---------------------------
(***************************************************************************)
(* A session's keyboard and the ring it remembers its lines in: the line   *)
(* Enter carries out is added to the ring by nn_cli_session_history_add    *)
(* (cfg/nn_cli_handler.c:1057), and the arrows read the ring, which        *)
(* LineEditor has as the sequence RecentCommands promises.                 *)
(***************************************************************************)
EXTENDS LineEditor, HistoryRing

ASSUME SessionAssumption ==
    /\ Size = HistorySize /\ SkipsRepeats
    /\ \A n \in 1 .. MaxLine : [1 .. n -> Chars] \subseteq Commands

sessionVars == <<vars, ringVars>>

SessionInit == Init /\ RingInit

\* Enter runs the line and adds it to the ring, as it stands in the buffer.
EnterAndRemember == Enter /\ (Add(line) \/ AddRepetition(line))

Browse(key) == key /\ UNCHANGED ringVars

SessionNext == EnterAndRemember \/ Browse(OtherKey)

SessionSpec ==
    SessionInit /\ [][SessionNext]_sessionVars /\ WF_sessionVars(Browse(PageOn))

=============================================================================
