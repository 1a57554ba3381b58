---------------------------- MODULE HistoryRing ----------------------------
(***************************************************************************)
(* The command histories of cfg/nn_cli_history.c: a ring of entries, the   *)
(* number of them in use and the place of the next one.  SkipsRepeats      *)
(* tells the history of a session (nn_cli_session_history_add) from the    *)
(* global one (nn_cli_global_history_add); their readers are the same.     *)
(*                                                                         *)
(* The indices are uint32_t: they are computed modulo Word, and the        *)
(* subtractions in them do go below zero on the way.                       *)
(***************************************************************************)
EXTENDS Integers, Sequences

CONSTANTS
    Commands,       \* non-empty command lines
    None,           \* a NULL command
    Size,           \* NN_CLI_SESSION_HISTORY_SIZE, NN_CLI_GLOBAL_HISTORY_SIZE
    SkipsRepeats,   \* TRUE for a session, FALSE for the global history
    Word            \* 2^32

ASSUME RingAssumption ==
    /\ Size \in Nat \ {0} /\ SkipsRepeats \in BOOLEAN
    /\ Word \in Nat /\ Word >= 2 * Size
    /\ None \notin Commands

VARIABLES
    entries,        \* entries[i].command
    count,
    current_idx     \* where the next command goes

ringVars == <<entries, count, current_idx>>

Slots == 0 .. Size - 1

RingInit ==
    /\ entries = [i \in Slots |-> None]
    /\ count = 0
    /\ current_idx = 0

\* Mutant: the newest entry is taken to be the one at current_idx.
SlotFromCurrent(current, relative) == ((current - relative + Size) % Word) % Size

\* (current_idx - 1 - relative_idx + SIZE) % SIZE
Slot(current, relative) == ((current - 1 - relative + Size) % Word) % Size

Actual(relative) == Slot(current_idx, relative)

\* nn_cli_session_history_get, nn_cli_global_history_get_entry
Get(relative) == IF relative >= count THEN None ELSE entries[Actual(relative)]

RepeatsLast(cmd) == SkipsRepeats /\ count > 0 /\ entries[Actual(0)] = cmd

Counted == IF count < Size THEN count + 1 ELSE count

\* The entry at current_idx is replaced, which is the oldest when the ring
\* is full; a repetition changes nothing.
Add(cmd) ==
    /\ ~RepeatsLast(cmd)
    /\ entries' = [entries EXCEPT ![current_idx] = cmd]
    /\ current_idx' = (current_idx + 1) % Size
    /\ count' = Counted

AddRepetition(cmd) == RepeatsLast(cmd) /\ UNCHANGED ringVars

RingNext == \E cmd \in Commands : Add(cmd) \/ AddRepetition(cmd)

RingSpec == RingInit /\ [][RingNext]_ringVars

-----------------------------------------------------------------------------
RingTypeOK ==
    /\ entries \in [Slots -> Commands \cup {None}]
    /\ count \in 0 .. Size
    /\ current_idx \in Slots

\* Every entry a reader may ask for has a command: the slots behind
\* current_idx are in use, and no other is.
InUse ==
    \A r \in 0 .. Size - 1 : (entries[Actual(r)] # None) <=> (r < count)

\* The commands as Up shows them, the newest first.
Past == [i \in 1 .. count |-> Get(i - 1)]

RecentInRing == INSTANCE RecentCommands WITH past <- Past

\* Whatever was added, the readers see the last Size commands in order, the
\* wrap of the indices and of the ring notwithstanding.
ImplementsRecent == RecentInRing!Spec

=============================================================================
