----------------------------- MODULE BgpConfig -----------------------------
(***************************************************************************)
(* The configuration of BGP, from the command a session types to the row   *)
(* in the database and back to its prompt: the start of the database by    *)
(* cfg_module_init (cfg/nn_cfg_main.c, db/nn_db_schema.c), the handlers of *)
(* the BGP worker (bgp/nn_bgp_cli.c), the statements they run              *)
(* (db/nn_db_api.c) and the dispatch of their answers                      *)
(* (cfg/nn_cli_dispatch.c).                                                *)
(*                                                                         *)
(* bgp_db has one table of one column: its rows are a function from row    *)
(* ids to AS numbers.  Each statement is a critical section of db_mutex    *)
(* and a SQLite transaction of its own; a handler may run two.  The daemon *)
(* may stop between any two steps and be started again on the file it left.*)
(***************************************************************************)
EXTENDS Integers, Sequences

CONSTANTS
    Sessions,       \* CLI sessions, served by the one CFG thread
    Numbers,        \* AS numbers
    None,           \* no AS number
    RowIds,         \* row ids of a table
    Nobody,         \* no session
    Faulty,         \* TRUE when the disk or SQLite may refuse a statement
    MaxCommands,    \* bound of the exploration: commands typed
    MaxStarts       \* bound of the exploration: times the daemon is started

ASSUME BgpAssumption ==
    /\ None \notin Numbers /\ Nobody \notin Sessions /\ Faulty \in BOOLEAN
    /\ RowIds # {}
    /\ MaxCommands \in Nat /\ MaxStarts \in Nat \ {0}

VARIABLES
    file,       \* on disk: is the table made, and its rows
    phase,      \* where cfg_module_init is with the database
    connected,  \* g_nn_db_local->connections has bgp_db
    queue,      \* the inbox of BGP
    worker,     \* the BGP worker: its step, its message, exists, success
    asking,     \* the query the CFG thread waits for
    answer,     \* what is in the inbox of that query
    prompt,     \* per session, the AS number of its view, None outside it
    commands,   \* commands typed
    starts      \* times the daemon was started

vars == <<file, phase, connected, queue, worker, asking, answer, prompt,
          commands, starts>>

daemon   == <<phase, connected, starts>>
cli      == <<asking, prompt, commands>>
messages == <<queue, answer>>

Set(n)    == [op |-> "set", as |-> n]       \* bgp <as-number>
Delete(n) == [op |-> "delete", as |-> n]    \* no bgp <as-number>
Clear     == [op |-> "clear", as |-> None]  \* no bgp
Show      == [op |-> "show", as |-> None]   \* show bgp
Typed     == {Set(n) : n \in Numbers} \cup {Delete(n) : n \in Numbers} \cup {Clear, Show}

Rows   == UNION {[ids -> Numbers] : ids \in SUBSET RowIds}
NoRows == [r \in {} |-> None]

Idle    == [pc |-> "idle", msg |-> [cmd |-> Show, id |-> 0],
            exists |-> FALSE, success |-> FALSE]
NoQuery == [session |-> Nobody, id |-> 0]
NoReply == [kind |-> "none", as |-> None, rows |-> NoRows, success |-> FALSE]

Init ==
    /\ file = [made |-> FALSE, rows |-> NoRows]
    /\ phase = "open" /\ connected = FALSE
    /\ queue = <<>> /\ worker = Idle
    /\ asking = NoQuery /\ answer = NoReply
    /\ prompt = [s \in Sessions |-> None]
    /\ commands = 0 /\ starts = 1

-----------------------------------------------------------------------------
(***************************************************************************)
(* nn_db_initialize_database, run by cfg_module_init before BGP exists.    *)
(***************************************************************************)

\* nn_db_create_database_file: the directories and the handle.
OpenFile ==
    /\ phase = "open"
    /\ phase' = "tables"
    /\ UNCHANGED <<file, connected, starts, messages, worker, cli>>

\* Mutant: a table that exists is made anew.
CreateTableAnew ==
    /\ phase = "tables"
    /\ file' = [made |-> TRUE, rows |-> NoRows]
    /\ phase' = "connect"
    /\ UNCHANGED <<connected, starts, messages, worker, cli>>

\* nn_db_create_table: CREATE TABLE IF NOT EXISTS keeps the rows it has.
CreateTable ==
    /\ phase = "tables"
    /\ file' = [file EXCEPT !.made = TRUE]
    /\ phase' = "connect"
    /\ UNCHANGED <<connected, starts, messages, worker, cli>>

\* Either fails: the daemon goes on without the connection.
StartWithout ==
    /\ Faulty /\ phase \in {"open", "tables"}
    /\ phase' = "up"
    /\ UNCHANGED <<file, connected, starts, messages, worker, cli>>

StoreConnection ==
    /\ phase = "connect"
    /\ connected' = TRUE /\ phase' = "up"
    /\ UNCHANGED <<file, starts, messages, worker, cli>>

\* A crash or a stop, and the next start.  A stop lets the worker finish its
\* message first: one of the behaviours of a crash.
Restart ==
    /\ starts < MaxStarts
    /\ starts' = starts + 1
    /\ phase' = "open" /\ connected' = FALSE
    /\ queue' = <<>> /\ worker' = Idle
    /\ asking' = NoQuery /\ answer' = NoReply
    /\ prompt' = [s \in Sessions |-> None]
    /\ UNCHANGED <<file, commands>>

-----------------------------------------------------------------------------
(***************************************************************************)
(* The CFG thread                                                          *)
(***************************************************************************)

\* A session in the config view types any of the commands, one in the BGP
\* view only show.  nn_dev_pubsub_query sends it with the id of the query.
Ask(s, cmd) ==
    /\ phase = "up" /\ asking = NoQuery /\ commands < MaxCommands
    /\ prompt[s] # None => cmd = Show
    /\ commands' = commands + 1
    /\ asking' = [session |-> s, id |-> commands']
    /\ queue' = Append(queue, [cmd |-> cmd, id |-> commands'])
    /\ UNCHANGED <<file, daemon, worker, answer, prompt>>

\* No answer in five seconds: an error message, and the command may still
\* be performed later.
Timeout ==
    /\ asking # NoQuery /\ answer = NoReply
    /\ asking' = NoQuery
    /\ UNCHANGED <<file, daemon, messages, worker, prompt, commands>>

\* VIEW_CHG pushes the prompt, the others are printed.
Receive ==
    /\ answer # NoReply
    /\ prompt' = IF answer.kind = "view"
                 THEN [prompt EXCEPT ![asking.session] = answer.as] ELSE prompt
    /\ asking' = NoQuery /\ answer' = NoReply
    /\ UNCHANGED <<file, daemon, queue, worker, commands>>

Exit(s) ==
    /\ asking = NoQuery /\ prompt[s] # None
    /\ prompt' = [prompt EXCEPT ![s] = None]
    /\ UNCHANGED <<file, daemon, messages, worker, asking, commands>>

-----------------------------------------------------------------------------
(***************************************************************************)
(* The statements of nn_db_api.c, on the rows of bgp_protocol.  They fail  *)
(* without a connection, and leave the rows alone when they fail.          *)
(***************************************************************************)
Works == connected /\ file.made
MayFail == Faulty \/ ~Works

\* nn_db_insert
Inserted(rows, as) ==
    LET new == CHOOSE r \in RowIds : r \notin DOMAIN rows
    IN  [r \in DOMAIN rows \cup {new} |-> IF r = new THEN as ELSE rows[r]]

\* nn_db_update with no WHERE
Updated(rows, as) == [r \in DOMAIN rows |-> as]

\* nn_db_delete WHERE as_number = as
Deleted(rows, as) == [r \in {r \in DOMAIN rows : rows[r] # as} |-> rows[r]]

-----------------------------------------------------------------------------
(***************************************************************************)
(* The BGP worker                                                          *)
(***************************************************************************)
TakeCommand ==
    /\ worker.pc = "idle" /\ queue # <<>>
    /\ worker' = [worker EXCEPT
                    !.pc = IF Head(queue).cmd.op = "set" THEN "exists" ELSE "execute",
                    !.msg = Head(queue)]
    /\ queue' = Tail(queue)
    /\ UNCHANGED <<file, daemon, answer, cli>>

\* Mutant: the row is looked for with the AS number of the command.
CheckExistsSame ==
    /\ worker.pc = "exists" /\ Works
    /\ worker' = [worker EXCEPT
                    !.pc = "execute",
                    !.exists = \E r \in DOMAIN file.rows : file.rows[r] = worker.msg.cmd.as]
    /\ UNCHANGED <<file, daemon, messages, cli>>

\* handle_bgp_config first asks whether there is a row at all.
CheckExists ==
    /\ worker.pc = "exists" /\ Works
    /\ worker' = [worker EXCEPT !.pc = "execute", !.exists = DOMAIN file.rows # {}]
    /\ UNCHANGED <<file, daemon, messages, cli>>

Executed(rows, cmd) ==
    CASE cmd.op = "set" /\ worker.exists -> Updated(rows, cmd.as)
      [] cmd.op = "set" /\ ~worker.exists -> Inserted(rows, cmd.as)
      [] cmd.op = "delete" -> Deleted(rows, cmd.as)
      [] cmd.op = "clear" -> NoRows
      [] cmd.op = "show" -> rows

Execute ==
    /\ worker.pc = "execute" /\ Works
    /\ file' = [file EXCEPT !.rows = Executed(file.rows, worker.msg.cmd)]
    /\ worker' = [worker EXCEPT !.pc = "respond", !.success = TRUE]
    /\ UNCHANGED <<daemon, messages, cli>>

\* Deleting answers with success whatever nn_db_delete returned.
Fail ==
    /\ worker.pc \in {"exists", "execute"} /\ MayFail
    /\ worker' = [worker EXCEPT
                    !.pc = "respond",
                    !.success = worker.msg.cmd.op \in {"delete", "clear"}]
    /\ UNCHANGED <<file, daemon, messages, cli>>

\* handle_bgp_config_resp sends the view whether or not the command worked.
Reply ==
    LET cmd == worker.msg.cmd
    IN  [kind |-> CASE cmd.op = "set" -> "view"
                    [] cmd.op = "show" -> "shown"
                    [] OTHER -> "empty",
         as |-> cmd.as,
         rows |-> IF cmd.op = "show" /\ worker.success THEN file.rows ELSE NoRows,
         success |-> worker.success]

\* Mutant: the answer goes to whoever is waiting.
RespondToAnyone ==
    /\ worker.pc = "respond"
    /\ answer' = IF asking # NoQuery THEN Reply ELSE answer
    /\ worker' = Idle
    /\ UNCHANGED <<file, daemon, queue, cli>>

\* nn_dev_pubsub_send_response: a query that gave up is not registered any
\* more, and its answer goes nowhere.
Respond ==
    /\ worker.pc = "respond"
    /\ answer' = IF asking.id = worker.msg.id THEN Reply ELSE answer
    /\ worker' = Idle
    /\ UNCHANGED <<file, daemon, queue, cli>>

-----------------------------------------------------------------------------
Start == OpenFile \/ CreateTable \/ StartWithout \/ StoreConnection

WorkerStep == TakeCommand \/ CheckExists \/ Execute \/ Fail \/ Respond

Next ==
    \/ Start \/ Restart
    \/ \E s \in Sessions : Exit(s) \/ \E cmd \in Typed : Ask(s, cmd)
    \/ Timeout \/ Receive
    \/ WorkerStep

Spec == Init /\ [][Next]_vars

-----------------------------------------------------------------------------
TypeOK ==
    /\ file \in [made : BOOLEAN, rows : Rows]
    /\ phase \in {"open", "tables", "connect", "up"} /\ connected \in BOOLEAN
    /\ queue \in Seq([cmd : Typed, id : 1 .. MaxCommands])
    /\ worker \in [pc : {"idle", "exists", "execute", "respond"},
                   msg : [cmd : Typed, id : 0 .. MaxCommands],
                   exists : BOOLEAN, success : BOOLEAN]
    /\ asking \in [session : Sessions \cup {Nobody}, id : 0 .. MaxCommands]
    /\ answer # NoReply => asking.session \in Sessions
    /\ prompt \in [Sessions -> Numbers \cup {None}]
    /\ commands \in 0 .. MaxCommands /\ starts \in 0 .. MaxStarts

\* bgp_protocol never has two rows, although looking for one and writing it
\* are two statements and the daemon may stop between them.
AtMostOneRow == \A r1, r2 \in DOMAIN file.rows : r1 = r2

\* No half-made database is ever used: a connection is found by the handlers
\* only when its table exists, whichever start it was that failed.
ConnectedMeansMade == connected => file.made

\* The answer a session gets is about the configuration as it is now, also
\* when commands it gave up on were performed meanwhile: show lists the row,
\* and the view a successful command opens carries the number configured.
AnswerIsCurrent ==
    answer.success =>
        /\ answer.kind = "shown" => answer.rows = file.rows
        /\ answer.kind = "view" => \E r \in DOMAIN file.rows : file.rows[r] = answer.as

\* The commands not yet performed: the one at the worker's hand, then the
\* queue.
AtHand == IF worker.pc \in {"exists", "execute"} THEN <<worker.msg.cmd>> ELSE <<>>
Unperformed == AtHand \o [i \in DOMAIN queue |-> queue[i].cmd]

\* The number in the row, if there is one.
ValueIn(rows) ==
    IF DOMAIN rows = {} THEN None ELSE rows[CHOOSE r \in DOMAIN rows : TRUE]

Configured == ValueIn(file.rows)

Store == INSTANCE ConfigStore WITH configured <- Configured, pending <- Unperformed

\* The row is a configuration store: each command performed changes it once,
\* in the order typed, and a failure, a timeout or a restart not at all.
ImplementsStore == Store!Spec

-----------------------------------------------------------------------------
(***************************************************************************)
(* The inductive invariant of BgpConfig_proofs.                            *)
(***************************************************************************)

\* What the worker knows about the row when it writes, and has written when
\* it answers.
WorkerKnowsRow ==
    /\ worker.pc = "exists" => worker.msg.cmd.op = "set"
    /\ worker.pc = "execute" /\ worker.msg.cmd.op = "set" =>
           (worker.exists <=> DOMAIN file.rows # {})
    /\ worker.pc = "respond" /\ worker.success /\ worker.msg.cmd.op = "set" =>
           \E r \in DOMAIN file.rows : file.rows[r] = worker.msg.cmd.as

\* Ids are handed out in the order of the commands, and the query that waits
\* has the latest: once it is answered nothing is left to perform.
IdsInOrder ==
    /\ \A i \in DOMAIN queue : queue[i].id <= commands
    /\ \A i, j \in DOMAIN queue : i < j => queue[i].id < queue[j].id
    /\ worker.pc # "idle" =>
           /\ worker.msg.id \in 1 .. commands
           /\ \A i \in DOMAIN queue : worker.msg.id < queue[i].id
    /\ IF asking.session = Nobody THEN asking.id = 0 ELSE asking.id = commands

AnsweredLast ==
    answer # NoReply =>
        /\ asking.session # Nobody /\ queue = <<>> /\ worker.pc = "idle"
        /\ answer.kind = "view" => answer.as \in Numbers

Made == phase = "connect" => file.made

IInv ==
    /\ TypeOK /\ AtMostOneRow /\ ConnectedMeansMade /\ Made
    /\ WorkerKnowsRow /\ IdsInOrder /\ AnsweredLast /\ AnswerIsCurrent
=============================================================================
