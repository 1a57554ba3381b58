-------------------------- MODULE Lifecycle_proofs ---------------------------
(***************************************************************************)
(* The daemon from main() to exit, whichever modules fail to start and      *)
(* whatever the clients do: the services that every thread uses are there   *)
(* as long as a thread is at work.  The orders of nn_init_all_modules and   *)
(* nn_cleanup_all_modules are each other's reverse, and a module joins its  *)
(* thread before the modules below it are cleaned up; that is all it takes. *)
(*                                                                         *)
(* It does take DEV to start: DEV's failure is noticed by nobody.          *)
(*                                                                         *)
(* The CFG module's own views and history are not there as long: while they *)
(* are made, and while they are freed, the server thread runs.  At any other *)
(* time it finds them usable, whatever the clients do and whenever the     *)
(* signal comes.                                                           *)
(***************************************************************************)
EXTENDS Lifecycle, TLAPS

\* The main thread has initialised, or cleaned up, the module.
Started(m) == mainPc # "initialising" \/ m < current
Cleaned(m) == mainPc = "done" \/ (mainPc = "cleaning" /\ current < m)

ServerPlaces ==
    {"test", "call", "waiting", "events", "session", "reading", "match", "query", "local",
     "record", "blocked"}

Types ==
    /\ mainPc \in {"initialising", "running", "cleaning", "done"}
    /\ current \in Modules
    /\ stage \in {"local", "root", "xml", "history", "join"}
    /\ module \in [Modules -> {"off", "up", "failed", "gone"}]
    /\ worker \in [Workers -> {"none", "idle", "busy", "exited"}]
    /\ cfgThread \in {"none", "exited"} \cup ServerPlaces
    /\ sessions \in BOOLEAN /\ shutdown \in BOOLEAN

\* A thread runs only between the start and the cleanup of its module, and a
\* module is in use exactly as long.
ThreadsInv ==
    /\ \A m \in Modules : Started(m) /\ ~Cleaned(m) => module[m] \in {"up", "failed"}
    /\ \A m \in Workers : ~Started(m) => worker[m] = "none"
    /\ \A m \in Workers : Cleaned(m) => worker[m] \in {"none", "exited"}
    /\ module[CFG] = "failed" => cfgThread = "none"
    /\ ~Started(CFG) /\ stage = "local" => cfgThread = "none"
    /\ mainPc = "initialising" => stage \in {"local", "root", "xml"}
    /\ mainPc = "initialising" /\ stage # "local" =>
         current = CFG /\ module[CFG] = "up"
    /\ Cleaned(CFG) => cfgThread \in {"none", "exited"}

\* Everyone's pub/sub system: DEV is the first to start and the last to go.
DevInv == module[DEV] # "failed"

LifeInv == Types /\ ThreadsInv

LEMMA Ids ==
    /\ DEV \in Workers /\ DB \in Workers /\ BGP \in Workers /\ CFG \notin Workers
    /\ Modules = 1..5 /\ Workers \subseteq Modules
    /\ DEV = 1 /\ DB = 2 /\ CFG = 3 /\ BGP = 5
  BY DEF DEV, DB, CFG, IFM, BGP, Modules, Workers

------------------------------------------------------------------------------
(***************************************************************************)
(* Who runs when                                                           *)
(***************************************************************************)

LEMMA InitLife == Init => LifeInv
  <1> SUFFICES ASSUME Init PROVE LifeInv
    OBVIOUS
  <1>1. /\ mainPc = "initialising" /\ current = DEV /\ stage = "local" /\ cfgThread = "none"
        /\ \A m \in Modules : module[m] = "off"
        /\ \A m \in Workers : worker[m] = "none"
    BY DEF Init
  <1>2. Types
    BY Ids DEF Init, Types
  <1> QED BY <1>1, <1>2, Ids DEF LifeInv, ThreadsInv, Started, Cleaned

LEMMA InitStepLife ==
    ASSUME LifeInv, InitStep
    PROVE  LifeInv'
  <1> USE Ids DEF LifeInv, Types, ServerPlaces, ThreadsInv, Started, Cleaned, NextToInit, cfgVars
  <1>1. CASE InitModule
    BY <1>1 DEF InitModule
  <1>2. CASE InitCfgLocal
    BY <1>2 DEF InitCfgLocal
  <1>3. CASE CreateRootView
    BY <1>3 DEF CreateRootView
  <1>4. CASE LoadViews
    BY <1>4 DEF LoadViews
  <1> QED BY <1>1, <1>2, <1>3, <1>4 DEF InitStep

LEMMA WorkerStepLife ==
    ASSUME LifeInv, NEW m \in Workers, WorkerStep(m)
    PROVE  LifeInv'
  <1>1. /\ worker[m] \in {"idle", "busy"}
        /\ \E w \in {"idle", "busy", "exited"} : worker' = [worker EXCEPT ![m] = w]
        /\ UNCHANGED <<mainPc, current, stage, module, cfgThread, sessions, shutdown>>
    BY DEF WorkerStep, WorkerTakes, WorkerAnswers, WorkerExits, mainVars, cfgVars
  <1>2. Started(m) /\ ~Cleaned(m)
    BY <1>1 DEF LifeInv, ThreadsInv
  <1> QED BY <1>1, <1>2 DEF LifeInv, Types, ThreadsInv, Started, Cleaned

LEMMA CfgStepLife ==
    ASSUME LifeInv, CfgStep
    PROVE  LifeInv'
  <1>1. /\ cfgThread \notin {"none", "exited"}
        /\ cfgThread' \in {"exited"} \cup ServerPlaces
        /\ sessions' \in BOOLEAN
        /\ UNCHANGED <<mainPc, current, stage, module, worker, shutdown>>
    BY DEF CfgStep, LoopTest, EpollWait, Timeout, Batch, EndOfBatch, Accept, SessionMade,
           HandleInput, ReadStep, NoMoreInput, Disconnect, ReadBlocks, Match, NoCommand,
           Dispatch, Answered, Record, CommandDone, Goes, mainVars, LifeInv, Types, ServerPlaces
  <1>2. module[CFG] # "failed" /\ ~Cleaned(CFG) /\ ~(~Started(CFG) /\ stage = "local")
    BY <1>1 DEF LifeInv, ThreadsInv
  <1> QED BY <1>1, <1>2 DEF LifeInv, Types, ThreadsInv, Started, Cleaned

LEMMA CleanStepLife ==
    ASSUME LifeInv, CleanStep
    PROVE  LifeInv'
  <1> USE Ids DEF LifeInv, Types, ThreadsInv, Started, Cleaned, NextToClean, cfgVars
  <1>1. CASE CleanModule
    BY <1>1 DEF CleanModule
  <1>2. CASE CleanCfgFailed
    BY <1>2 DEF CleanCfgFailed
  <1>3. CASE FreeViews
    BY <1>3 DEF FreeViews
  <1>4. CASE DestroyHistory
    BY <1>4 DEF DestroyHistory
  <1>5. CASE JoinCfgThread
    <2>1. current' = DB /\ mainPc' = "cleaning" /\ mainPc = "cleaning" /\ current = CFG
          /\ module' = [module EXCEPT ![CFG] = "gone"] /\ cfgThread' = "exited"
          /\ stage' = "local" /\ sessions' = FALSE /\ UNCHANGED <<worker, shutdown>>
      BY <1>5 DEF JoinCfgThread
    <2>2. Types'
      BY <2>1
    <2>3. \A m \in Modules : ~Cleaned(m)' => m # CFG /\ ~Cleaned(m)
      BY <2>1
    <2>4. \A m \in Workers : Cleaned(m)' => Cleaned(m)
      BY <2>1
    <2>5. ThreadsInv'
      BY <2>1, <2>3, <2>4
    <2> QED BY <2>2, <2>5
  <1> QED BY <1>1, <1>2, <1>3, <1>4, <1>5 DEF CleanStep

LEMMA SignalLife ==
    ASSUME LifeInv, Signal
    PROVE  LifeInv'
  BY Ids DEF LifeInv, Types, ThreadsInv, Started, Cleaned, Signal, cfgVars

\* The inductive invariant: threads run between the start and the cleanup of
\* their modules, for every set of modules that fail to start, DEV included.
THEOREM Invariance == Spec => []LifeInv
  <1>1. LifeInv /\ [Next]_vars => LifeInv'
    <2> SUFFICES ASSUME LifeInv, [Next]_vars PROVE LifeInv'
      OBVIOUS
    <2>1. CASE InitStep \/ CleanStep \/ Signal
      BY <2>1, InitStepLife, CleanStepLife, SignalLife
    <2>2. CASE \E m \in Workers : WorkerStep(m)
      BY <2>2, WorkerStepLife
    <2>3. CASE CfgStep
      BY <2>3, CfgStepLife
    <2>4. CASE UNCHANGED vars
      BY <2>4 DEF vars, mainVars, cfgVars, LifeInv, Types, ThreadsInv, Started, Cleaned
    <2> QED BY <2>1, <2>2, <2>3, <2>4 DEF Next
  <1> QED BY <1>1, InitLife, PTL DEF Spec

\* Once DEV has started, which nn_init_all_modules does first, the pub/sub
\* system is there whenever a thread is at work, and the databases whenever
\* BGP's worker or the server thread is, whichever other modules fail to start.
THEOREM ServicesLast ==
    ASSUME DEV \notin MayFail
    PROVE  Spec => []ServicesOutliveUsers
  <1>1. Init => DevInv
    BY Ids DEF Init, DevInv
  <1>2. LifeInv /\ DevInv /\ [Next]_vars => DevInv'
    <2> SUFFICES ASSUME LifeInv, DevInv, [Next]_vars PROVE DevInv'
      OBVIOUS
    <2>1. module' = module \/ \E m \in Modules, s \in {"up", "failed", "gone"} :
            module' = [module EXCEPT ![m] = s] /\ (s = "failed" => m \in MayFail)
      BY DEF LifeInv, Types, Next, InitStep, InitModule, InitCfgLocal, CreateRootView, LoadViews,
             CleanStep, CleanModule, CleanCfgFailed, FreeViews, DestroyHistory, JoinCfgThread,
             Signal, WorkerStep, WorkerTakes, WorkerAnswers, WorkerExits, CfgStep, LoopTest,
             EpollWait, Timeout, Batch, EndOfBatch, Accept, SessionMade, HandleInput, ReadStep,
             NoMoreInput, Disconnect, ReadBlocks, Match, NoCommand, Dispatch, Answered, Record,
             CommandDone, Goes, vars
    <2> QED BY <2>1, Ids DEF DevInv, LifeInv, Types
  <1>3. LifeInv /\ DevInv => ServicesOutliveUsers
    <2> SUFFICES ASSUME LifeInv, DevInv PROVE ServicesOutliveUsers
      OBVIOUS
    <2>1. \A m \in Workers : AtWork(m) => Started(m) /\ ~Cleaned(m)
      BY DEF AtWork, LifeInv, ThreadsInv
    <2>2. CfgAtWork => ~Cleaned(CFG) /\ (Started(CFG) \/ current = CFG)
      BY DEF CfgAtWork, LifeInv, ThreadsInv, Started
    <2>3. (\E m \in Workers : AtWork(m)) \/ CfgAtWork => Started(DEV) /\ ~Cleaned(DEV)
      BY <2>1, <2>2, Ids DEF Started, Cleaned, LifeInv, Types
    <2>4. AtWork(BGP) \/ CfgAtWork => Started(DB) /\ ~Cleaned(DB)
      BY <2>1, <2>2, Ids DEF Started, Cleaned, LifeInv, Types
    <2> QED BY <2>3, <2>4, Ids DEF ServicesOutliveUsers, LifeInv, ThreadsInv, DevInv
  <1> QED BY <1>1, <1>2, <1>3, Invariance, PTL DEF Spec

------------------------------------------------------------------------------
(***************************************************************************)
(* The view tree and the history                                           *)
(***************************************************************************)

\* Once the server thread is started the history is usable, and once the views
\* are loaded they are whole, until the cleanup frees the one and then the other.
ViewsInv ==
    /\ stage # "local" => module[CFG] = "up"
    /\ ~Cleaned(CFG) /\ module[CFG] = "up" =>
         /\ Started(CFG) /\ stage = "local" => view_tree = "loaded"
         /\ stage # "join" => history = "usable"
    /\ mainPc = "running" => stage = "local"
    /\ mainPc = "cleaning" => stage \in {"local", "history", "join"}
    /\ mainPc = "cleaning" /\ current # CFG => stage = "local"

LEMMA ViewsStep ==
    ASSUME LifeInv, ViewsInv, [Next]_vars
    PROVE  ViewsInv'
  <1> USE Ids DEF LifeInv, Types, ThreadsInv, ViewsInv, Started, Cleaned
  <1>1. CASE InitStep
    <2>1. CASE InitModule
      BY <2>1 DEF InitModule, NextToInit
    <2>2. CASE InitCfgLocal
      BY <2>2 DEF InitCfgLocal, NextToInit
    <2>3. CASE CreateRootView
      BY <2>3 DEF CreateRootView
    <2>4. CASE LoadViews
      BY <2>4 DEF LoadViews, NextToInit
    <2> QED BY <1>1, <2>1, <2>2, <2>3, <2>4 DEF InitStep
  <1>2. CASE CleanStep
    <2>1. CASE CleanModule
      BY <2>1 DEF CleanModule, NextToClean
    <2>2. CASE CleanCfgFailed
      BY <2>2 DEF CleanCfgFailed, NextToClean
    <2>3. CASE FreeViews
      BY <2>3 DEF FreeViews
    <2>4. CASE DestroyHistory
      BY <2>4 DEF DestroyHistory
    <2>5. CASE JoinCfgThread
      BY <2>5 DEF JoinCfgThread, NextToClean
    <2> QED BY <1>2, <2>1, <2>2, <2>3, <2>4, <2>5 DEF CleanStep
  <1>3. CASE Signal
    BY <1>3 DEF Signal
  <1>4. CASE UNCHANGED <<mainVars, module, view_tree, history>>
    BY <1>4 DEF mainVars
  <1>5. CASE \E m \in Workers : WorkerStep(m)
    BY <1>4, <1>5 DEF WorkerStep, WorkerTakes, WorkerAnswers, WorkerExits
  <1>6. CASE CfgStep
    BY <1>4, <1>6 DEF CfgStep, LoopTest, EpollWait, Timeout, Batch, EndOfBatch, Accept,
                      SessionMade, HandleInput, ReadStep, NoMoreInput, Disconnect, ReadBlocks,
                      Match, NoCommand, Dispatch, Answered, Record, CommandDone, Goes
  <1>7. CASE UNCHANGED vars
    BY <1>4, <1>7 DEF vars
  <1> QED BY <1>1, <1>2, <1>3, <1>5, <1>6, <1>7 DEF Next

\* While the main thread neither makes nor frees the views and the history, the
\* server thread finds them usable, for any clients and a signal at any time:
\* the two windows of UsableOutsideWindows are all there are.
THEOREM TwoWindowsOnly == Spec => []UsableOutsideWindows
  <1>1. Init => ViewsInv
    BY Ids DEF Init, ViewsInv, Started, Cleaned
  <1>2. LifeInv /\ ViewsInv => UsableOutsideWindows
    <2> SUFFICES ASSUME LifeInv, ViewsInv, ~MakingViews, ~FreeingViews,
                        cfgThread \notin {"none", "exited"}
                 PROVE  view_tree = "loaded" /\ history = "usable"
      BY DEF UsableOutsideWindows, CfgStateUsable
    <2>1. ~Cleaned(CFG) /\ module[CFG] # "failed" /\ (Started(CFG) \/ stage # "local")
      BY DEF LifeInv, ThreadsInv
    <2>2. stage = "local" /\ Started(CFG)
      BY <2>1, Ids DEF LifeInv, Types, ThreadsInv, ViewsInv, MakingViews, FreeingViews, Started,
                       Cleaned
    <2>3. module[CFG] = "up"
      BY <2>1, <2>2, Ids DEF LifeInv, ThreadsInv
    <2> QED BY <2>1, <2>2, <2>3 DEF ViewsInv
  <1> QED BY <1>1, <1>2, ViewsStep, Invariance, PTL DEF Spec
==============================================================================
