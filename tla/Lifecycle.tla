------------------------------ MODULE Lifecycle ------------------------------
(***************************************************************************)
(* The daemon from main() to exit: the modules are initialised in ascending *)
(* order of their ids, a signal requests the shutdown, and they are cleaned *)
(* up in descending order, all by the main thread.  Meanwhile each module's *)
(* worker and the CFG server thread run.                                   *)
(*                                                                         *)
(* What matters is who uses what when: every thread uses the pub/sub system *)
(* (owned by DEV), BGP's worker and the CFG thread use the databases (DB),  *)
(* and the CFG thread uses the view tree and the command history, which the *)
(* main thread builds after it has started that thread and frees before it  *)
(* joins it.  A worker's own inbox is the subject of ModuleMq.              *)
(***************************************************************************)
EXTENDS Integers, FiniteSets

CONSTANT MayFail       \* the modules whose initialisation may fail

DEV == 1
DB  == 2
CFG == 3
IFM == 4
BGP == 5
Modules == {DEV, DB, CFG, IFM, BGP}
Workers == Modules \ {CFG}

ASSUME LifecycleAssumption == MayFail \subseteq Modules

VARIABLES
    mainPc,       \* initialising, running, cleaning or done
    current,      \* the module being initialised or cleaned up
    stage,        \* how far the CFG module's init or cleanup has come
    module,       \* per module: off, up, failed or gone
    worker,       \* per worker thread: none, idle, busy or exited
    cfgThread,    \* where the CFG server thread is
    view_tree,    \* none, root, loaded or freed
    history,      \* the history and its mutex: none, usable or destroyed
    sessions,     \* some client has a session
    shutdown      \* g_shutdown_requested

mainVars == <<mainPc, current, stage>>
cfgVars  == <<cfgThread, sessions>>
vars == <<mainVars, module, worker, cfgVars, view_tree, history, shutdown>>

Init ==
    /\ mainPc = "initialising"
    /\ current = DEV
    /\ stage = "local"
    /\ module = [m \in Modules |-> "off"]
    /\ worker = [m \in Workers |-> "none"]
    /\ cfgThread = "none"
    /\ view_tree = "none"
    /\ history = "none"
    /\ sessions = FALSE
    /\ shutdown = FALSE

(***************************************************************************)
(* Initialisation                                                          *)
(***************************************************************************)

\* g_tree_foreach goes on to the next id, whether or not this module failed.
NextToInit ==
    IF current = BGP THEN mainPc' = "running" /\ UNCHANGED current
                     ELSE current' = current + 1 /\ UNCHANGED mainPc

\* <module>_init_local, which ends by starting the worker.
InitModule ==
    /\ mainPc = "initialising" /\ current # CFG
    /\ \/ /\ module' = [module EXCEPT ![current] = "up"]
          /\ worker' = [worker EXCEPT ![current] = "idle"]
       \/ /\ current \in MayFail
          /\ module' = [module EXCEPT ![current] = "failed"]
          /\ UNCHANGED worker
    /\ NextToInit
    /\ UNCHANGED <<stage, cfgVars, view_tree, history, shutdown>>

\* nn_cfg_init_local ends by starting the server thread, which listens from then on.
InitCfgLocal ==
    /\ mainPc = "initialising" /\ current = CFG /\ stage = "local"
    /\ \/ /\ module' = [module EXCEPT ![CFG] = "up"]
          /\ history' = "usable"
          /\ cfgThread' = "test"
          /\ stage' = "root"
          /\ UNCHANGED <<mainPc, current>>
       \/ /\ CFG \in MayFail
          /\ module' = [module EXCEPT ![CFG] = "failed"]
          /\ NextToInit
          /\ UNCHANGED <<history, cfgThread, stage>>
    /\ UNCHANGED <<worker, sessions, view_tree, shutdown>>

\* Only now is the user view created ...
CreateRootView ==
    /\ mainPc = "initialising" /\ current = CFG /\ stage = "root"
    /\ view_tree' = "root"
    /\ stage' = "xml"
    /\ UNCHANGED <<mainPc, current, module, worker, cfgVars, history, shutdown>>

\* ... and the views and commands of all modules loaded from their XML, after
\* which the databases are registered and opened.
LoadViews ==
    /\ mainPc = "initialising" /\ current = CFG /\ stage = "xml"
    /\ view_tree' = "loaded"
    /\ stage' = "local"
    /\ NextToInit
    /\ UNCHANGED <<module, worker, cfgVars, history, shutdown>>

(***************************************************************************)
(* Workers                                                                 *)
(***************************************************************************)

WorkerTakes(m) ==
    /\ worker[m] = "idle"
    /\ worker' = [worker EXCEPT ![m] = "busy"]
    /\ UNCHANGED <<mainVars, module, cfgVars, view_tree, history, shutdown>>

WorkerAnswers(m) ==
    /\ worker[m] = "busy"
    /\ worker' = [worker EXCEPT ![m] = "idle"]
    /\ UNCHANGED <<mainVars, module, cfgVars, view_tree, history, shutdown>>

\* Mutant: epoll_wait without a timeout, so that only a message ends the wait.
WorkerExitsOnMessage(m) ==
    /\ worker[m] = "busy" /\ shutdown
    /\ worker' = [worker EXCEPT ![m] = "exited"]
    /\ UNCHANGED <<mainVars, module, cfgVars, view_tree, history, shutdown>>

WorkerExits(m) ==
    /\ worker[m] = "idle" /\ shutdown
    /\ worker' = [worker EXCEPT ![m] = "exited"]
    /\ UNCHANGED <<mainVars, module, cfgVars, view_tree, history, shutdown>>

(***************************************************************************)
(* The CFG server thread                                                   *)
(***************************************************************************)

Goes(from, to) ==
    /\ cfgThread = from /\ cfgThread' = to
    /\ UNCHANGED <<mainVars, module, worker, view_tree, history, shutdown>>

\* while (!shutdown_requested), looked at between two batches of events.
LoopTest ==
    /\ Goes("test", IF shutdown THEN "exited" ELSE "call")
    /\ UNCHANGED sessions

\* epoll_wait is called, and fails at once when the cleanup has closed its
\* descriptor, which ends the loop.
FdsClosed == stage = "join"
EpollWait ==
    /\ Goes("call", IF FdsClosed THEN "exited" ELSE "waiting")
    /\ UNCHANGED sessions

\* It waits for a second, also beyond the close ...
Timeout == Goes("waiting", "test") /\ UNCHANGED sessions

\* ... or returns up to 16 events, handled one after another.
Batch == Goes("waiting", "events") /\ UNCHANGED sessions
EndOfBatch == Goes("events", "test") /\ UNCHANGED sessions

\* A connection is accepted and a session made, starting in the root view.
Accept ==
    /\ ~FdsClosed
    /\ Goes("events", "session")
    /\ UNCHANGED sessions

SessionMade == Goes("session", "events") /\ sessions' = TRUE

\* Input of a client, who is read until there is no more: it may go on for ever.
HandleInput == sessions /\ Goes("events", "reading") /\ UNCHANGED sessions
NoMoreInput == Goes("reading", "events") /\ UNCHANGED sessions

\* Its end, noticed by the read; others may have sessions still.
Disconnect == Goes("reading", "events") /\ sessions' \in BOOLEAN

\* The number of the session is that of another thread's socket (CliSessions),
\* and the read does not return.
ReadBlocks == Goes("reading", "blocked") /\ UNCHANGED sessions

\* A line is entered, or a keyword to be completed or explained: it is matched
\* against the commands of the session's view.
Match == Goes("reading", "match") /\ UNCHANGED sessions

NoCommand == Goes("match", "reading") /\ UNCHANGED sessions

\* The command is the CFG module's own, or another's, which is queried.
Dispatch ==
    /\ Goes("match", "local") \/ Goes("match", "query")
    /\ UNCHANGED sessions

\* An answer, or five seconds: the new view is looked up in the tree.
Answered == Goes("query", "local") /\ UNCHANGED sessions

\* The command is added to the global history under history_mutex.
Record == Goes("local", "record") /\ UNCHANGED sessions

CommandDone == Goes("record", "reading") /\ UNCHANGED sessions

(***************************************************************************)
(* Shutdown                                                                *)
(***************************************************************************)

\* The signal is read from the signalfd only in the main loop, whatever the
\* other threads are doing.
Signal ==
    /\ mainPc = "running"
    /\ shutdown' = TRUE
    /\ mainPc' = "cleaning"
    /\ current' = BGP
    /\ UNCHANGED <<stage, module, worker, cfgVars, view_tree, history>>

\* The modules were collected by prepending: the highest id comes first.
NextToClean ==
    IF current = DEV THEN mainPc' = "done" /\ UNCHANGED current
                     ELSE current' = current - 1 /\ UNCHANGED mainPc

\* Mutant: the worker is not joined.
CleanWithoutJoin ==
    /\ mainPc = "cleaning" /\ current # CFG
    /\ module' = [module EXCEPT ![current] = "gone"]
    /\ NextToClean
    /\ UNCHANGED <<stage, worker, cfgVars, view_tree, history, shutdown>>

\* A module that failed has no local state and nothing to clean up; one that is
\* up joins its worker.
CleanModule ==
    /\ mainPc = "cleaning" /\ current # CFG
    /\ worker[current] \in {"none", "exited"}
    /\ module' = [module EXCEPT ![current] = "gone"]
    /\ NextToClean
    /\ UNCHANGED <<stage, worker, cfgVars, view_tree, history, shutdown>>

CleanCfgFailed ==
    /\ mainPc = "cleaning" /\ current = CFG /\ module[CFG] = "failed"
    /\ module' = [module EXCEPT ![CFG] = "gone"]
    /\ NextToClean
    /\ UNCHANGED <<stage, worker, cfgVars, view_tree, history, shutdown>>

\* nn_cli_cleanup frees the view trees first,
FreeViews ==
    /\ mainPc = "cleaning" /\ current = CFG /\ module[CFG] = "up" /\ stage = "local"
    /\ view_tree' = "freed"
    /\ stage' = "history"
    /\ UNCHANGED <<mainPc, current, module, worker, cfgVars, history, shutdown>>

\* nn_cfg_cleanup_local then destroys the history and its mutex, and closes the
\* listening socket and the epoll descriptor,
DestroyHistory ==
    /\ mainPc = "cleaning" /\ current = CFG /\ stage = "history"
    /\ history' = "destroyed"
    /\ stage' = "join"
    /\ UNCHANGED <<mainPc, current, module, worker, cfgVars, view_tree, shutdown>>

\* Mutant: the server thread is not joined.
ForgetCfgThread ==
    /\ mainPc = "cleaning" /\ current = CFG /\ stage = "join"
    /\ module' = [module EXCEPT ![CFG] = "gone"]
    /\ sessions' = FALSE
    /\ stage' = "local"
    /\ NextToClean
    /\ UNCHANGED <<worker, cfgThread, view_tree, history, shutdown>>

\* and only then waits for the server thread, to destroy what sessions are left.
JoinCfgThread ==
    /\ mainPc = "cleaning" /\ current = CFG /\ stage = "join"
    /\ cfgThread = "exited"
    /\ module' = [module EXCEPT ![CFG] = "gone"]
    /\ sessions' = FALSE
    /\ stage' = "local"
    /\ NextToClean
    /\ UNCHANGED <<worker, cfgThread, view_tree, history, shutdown>>

------------------------------------------------------------------------------

InitStep    == InitModule \/ InitCfgLocal \/ CreateRootView \/ LoadViews
CleanStep   == CleanModule \/ CleanCfgFailed \/ FreeViews \/ DestroyHistory \/ JoinCfgThread
WorkerStep(m) == WorkerTakes(m) \/ WorkerAnswers(m) \/ WorkerExits(m)
ReadStep    == \/ NoMoreInput \/ Disconnect \/ ReadBlocks \/ Match \/ NoCommand
               \/ Dispatch \/ Answered \/ Record \/ CommandDone
CfgStep     == \/ LoopTest \/ EpollWait \/ Timeout \/ Batch \/ EndOfBatch
               \/ Accept \/ SessionMade \/ HandleInput \/ ReadStep

Next == \/ InitStep \/ CleanStep \/ Signal
        \/ \E m \in Workers : WorkerStep(m)
        \/ CfgStep

\* Every thread keeps running, and a batch of events is finite; a worker, whose
\* queue is finite once the CFG thread has stopped, in the end finds it empty
\* and sees the flag.
Spec ==
    /\ Init /\ [][Next]_vars
    /\ WF_vars(InitStep) /\ WF_vars(CleanStep) /\ WF_vars(CfgStep) /\ SF_vars(EndOfBatch)
    /\ \A m \in Workers : WF_vars(WorkerAnswers(m)) /\ SF_vars(WorkerExits(m))

------------------------------------------------------------------------------
(***************************************************************************)
(* Properties                                                              *)
(***************************************************************************)

\* Services outlive their users: while a worker or the CFG thread is at work the
\* pub/sub system exists, and while one that stores or reads configuration is,
\* the databases have not been closed.
AtWork(m)  == worker[m] = "busy"
CfgAtWork  == cfgThread \notin {"none", "exited"}
ServicesOutliveUsers ==
    /\ (\E m \in Workers : AtWork(m)) \/ CfgAtWork => module[DEV] = "up"
    /\ AtWork(BGP) \/ CfgAtWork => module[DB] \in {"up", "failed"}

\* The CFG thread finds the view tree complete and the history usable whenever
\* it uses them (README.md: "Graceful Shutdown", "Handles multiple concurrent
\* client connections").
CfgStateUsable ==
    /\ cfgThread \in {"session", "match", "local"} => view_tree = "loaded"
    /\ cfgThread = "record" => history = "usable"

\* Only while the main thread builds the views of a server thread that already
\* runs, and while it frees them before that thread has stopped, can they be
\* missing; a command under way at the signal, or a client that comes during
\* the shutdown, meets them whole until then.
MakingViews  == mainPc = "initialising" /\ current = CFG /\ stage \in {"root", "xml"}
FreeingViews == mainPc = "cleaning" /\ current = CFG /\ stage \in {"history", "join"}
UsableOutsideWindows == ~MakingViews /\ ~FreeingViews => CfgStateUsable

\* The daemon stops after the signal, in whatever state it found the threads and
\* whichever modules had failed to start, provided that the server thread comes
\* back from reading: it looks at the flag between two batches of events only,
\* and the cleanup waits for it without limit.  A client that types without
\* pause, or a read that blocks, keeps the daemon from ending.
InProcessInput ==
    cfgThread \in {"reading", "match", "query", "local", "record", "blocked"}
ShutdownEnds == []<>~InProcessInput => (shutdown ~> mainPc = "done")
==============================================================================
