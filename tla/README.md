# NetNexus in TLA+

TLA+ models of NetNexus, the telnet CLI daemon in `src/`, with TLC
configurations that check them on small instances and TLAPS proofs of the
results that hold for every instance. Every definition is translated from the
C source; `PROJECT.json` ("map") names the lines each one stands for.

## 1. Inventory

NetNexus is one process of five modules, each with a thread of its own, that
talk through message queues. Ids: DEV = 1, DB = 2, CFG = 3, IF = 4, BGP = 5.

| Component | Code | State | Operations | What makes it correct |
|---|---|---|---|---|
| Message queue | `dev/nn_dev_mq.c` | queue, mutex, eventfd | create, send, receive, destroy | no lost wake-up, FIFO, no use after free |
| Pub/sub | `dev/nn_dev_pubsub.c` | table of modules, lists of subscriber copies, groups, one mutex | register, unregister, subscribe, unsubscribe, publish, multicast, send to a module, query, response | deliveries only to living inboxes, once, in one order; a query gets its own answer |
| Module registry, `main` | `dev/nn_dev_module.c`, `dev/nn_dev_main.c`, `main.c` | tree of modules, shutdown flag | init all (ascending), clean all (descending), request shutdown | services outlive their users, shutdown ends |
| CFG server | `cfg/nn_cfg_main.c` | listening socket, table of sessions by descriptor, view tree, histories | accept, read, disconnect, stop | a session is served from its own connection, and leaves when its client does |
| CLI session | `cfg/nn_cli_handler.c` | line, cursor, completion cycle, history, pager, prompt and context stacks | one handler per key; process a command | screen and line agree, nothing typed is lost |
| History | `cfg/nn_cli_history.c` | two rings | add, get | the last N commands, newest first |
| Dispatch | `cfg/nn_cli_dispatch.c` | none of its own | query a module, ask for the next batch, change view | answers belong to their command |
| CFG commands | `cfg/nn_cfg_cli.c` | cache of `show history` | config, end, exit, history | prompt, view and context agree |
| Views, command tree, XML parser, parameter types, elements | `cfg/nn_cli_*.c` | trees built at start | build, match, complete, validate | a command line has the meaning the XML gives it |
| Templates | `cfg/nn_config_template.c`, `cfg/nn_cfg_template_renderer.c` | table of templates | register, render all for `show current-configuration` | the text is the configuration |
| IF | `if/*.c` | map of logical names, current interface, cache of the last show and its offset; the links of the host | make the mapped links at start; interface, address, shutdown, show, CONTINUE | a command acts on the interface of its session and tells the truth about it; start-up changes no link it found |
| BGP | `bgp/*.c` | a table in the database | `bgp <as>`, `no bgp`, `show bgp` | configuration is what the database says |
| DB | `db/*.c` | registry of definitions, connections, rows | define, create, insert, update, delete, query, exists | no row outside its schema, no half-made database |

How they interact:

* **Messages.** `nn_dev_pubsub_*` push a message on the queue of a module and
  write its eventfd; the worker of the module wakes from `epoll_wait`, reads
  the eventfd and takes messages until the queue is empty.
* **Queries.** The CFG thread registers a temporary module with an inbox of its
  own, sends, and polls that inbox for five seconds. It blocks meanwhile.
* **Shared state.** CFG's view tree, history and sessions, IF's current
  interface and show cache, DB's connections and registry.
* **Lifecycle.** The main thread initialises and cleans up all modules while
  their threads run.

What is hard here: queue and eventfd are two steps; subscriber lists hold
copies; an answer may come after the query gave up; globals are shared by
sessions, descriptor numbers by all threads, network links by the whole host; start-up and shutdown run beside the threads they start and stop;
many editing states of a session meet every key. The `hazards` of
`PROJECT.json` list them at their lines, with the properties that watch them.

## 2. Modules and plan

| Order | Module | Models | State of the work |
|---|---|---|---|
| 1 | `Mailbox`, `ModuleMq`, `ModuleMq_proofs` | the inbox of a module, and the mailbox it implements | checked and proved |
| 2 | `PubSub`, `PubSub_proofs` | registration, subscriptions, groups, fan-out | checked and proved |
| 3 | `CliQuery`, `CliQuery_proofs` | a command from the session through dispatch and query to the IF worker and back | checked and proved |
| 4 | `Lifecycle`, `Lifecycle_proofs` | all modules from `main` to exit | checked and proved |
| 5 | `LineEditor`, `LineEditor_proofs` | the keyboard of a session, and what its terminal shows | checked and proved |
| 6 | `RecentCommands`, `HistoryRing`, `SessionHistory`, end of `LineEditor_proofs` | the histories, the sequence they implement, and a keyboard with the ring it fills | checked and proved |
| 7 | `ConfigStore`, `BgpConfig`, `BgpConfig_proofs` | the configuration of BGP from the command to the row in the database, with crashes, and the store it implements | checked and proved |
| 8 | `CommandTree` | the commands of all modules, from their expressions to the answer to a line | checked |
| 9 | `ShowConfig`, end of `BgpConfig_proofs` | `show current-configuration` beside the commands of `BgpConfig` | checked and proved |
| 10 | `CliSessions`, `CliSessions_proofs` | the server thread, its sessions, their views and stacks, and the descriptors of the process | checked and proved |
| 11 | `InterfaceConfig`, `InterfaceConfig_proofs` | the map of names, the links made at start, the commands on links call by call | checked and proved |

`MC*` modules only give constants their values; `MCCommandTree` also holds the
commands of the five `commands.xml` files. `CommandTree` uses RECURSIVE
operators and stays with TLC; every other module is written without them, so
that it can be proved about.

The modules are joined at four places. `ModuleMq` is the inbox that `CliQuery`,
`PubSub` and `BgpConfig` take as a sequence; that they may is what
`ImplementsMailbox` shows. `CliQuery` takes the registry of `PubSub` as a
function from ids, for the subscribers a query needs. `LineEditor` uses the
history as the sequence of `RecentCommands`, which `HistoryRing` implements; `SessionHistory` runs the two
together. `ShowConfig` extends `BgpConfig` and runs its
actions beside the renderer's.

## 3. How the models correspond to the code

**`ModuleMq`.** One queue with its `queue_mutex`, eventfd and worker, the senders
and the thread that cleans up. `senderPc` follows `send_to_subscriber` (look the
target up under `pubsub_mutex`, push under `queue_mutex`, write the eventfd after
it), `workerPc` follows the worker loop (test `running`, `epoll_wait`, read, pop
until empty), `ownerPc` the cleanup of the module. `bgp` and `if` unregister before
they join the worker, `db` and `dev` after: `UnregisterFirst`. `accepted` and
`taken` are history variables; the mapping to `Mailbox` reads its phase off the
position of the cleanup.

**`PubSub`.** `registered_modules`, `unicast_subss` and `multicast_groups` are the
three tables, with the copies of subscribers (`g_malloc` in
`nn_dev_pubsub_subscribe`) as values that keep the queue they were made with. One
operation is one critical section of `pubsub_mutex`, except the fan-out, which
takes a step per receiver. A module may register again with a new queue.

**`CliQuery`.** `cfgPc` follows the CFG thread through `nn_cli_dispatch.c` and
`nn_dev_pubsub_query` (draw an id, register a temporary module, send, poll, give
up, unregister); `ifPc` follows the IF worker through `nn_if_cli.c` with its
current interface, show cache and offset. The five-second timeout may strike at
any moment of the poll. Ids are modulo `IdSpace`; the counter skips nothing, and a query that draws a taken id fails.
One IF module stands for all queried modules. Several sessions take turns on the CFG thread; `current_interface` is one for all of them.

**`Lifecycle`.** `main`, `nn_init_all_modules` and `nn_cleanup_all_modules` step by
step; the CFG module in the small steps in which it makes and frees what its
server thread uses; workers as idle, busy or exited. `cfgThread` follows `cfg_server_thread`: the test of the flag,
`epoll_wait` (which fails once the cleanup has closed its descriptor), the events of a batch one by one, and inside one
of them the loop of `nn_cli_process_input` with the lines it carries out. Input has no bound: a client may keep the
thread reading for ever, or the read may block. The signal may come at any time.

**`LineEditor`.** One action per key handler of `nn_cli_process_input`, with the
helpers it calls inside it. `screen` is the row of the terminal as the bytes the
code writes leave it: text and column. `pager`, `shown` and `Outputs` count lines.
`ghost` records what a user would remember, for the properties. The tree of commands is the constant
`Completions`; `CompletionsAssumption` says of it what `nn_cli_tree_find_matches` does: a keyword it finds begins with the word being
completed (`nn_cli_tree.c:159`). `Chars` are the characters a row can show, those of keywords included.

**`SessionHistory`.** `LineEditor` and `HistoryRing` side by side: Enter adds the line it carries out to the ring, as
`nn_cli_process_input` does; every other key leaves the ring alone. Both editor runs and `RingIsHistory` are about it.

**`HistoryRing`.** `entries`, `count`, `current_idx` with the unsigned arithmetic of
`nn_cli_history.c` modulo `Word`; `SkipsRepeats` tells the session history from
the global one.

**`BgpConfig`.** `phase` is the start of the database in `cfg_module_init`, `worker`
the handlers of `nn_bgp_cli.c` with a step per SQL statement, `asking` the CFG
thread's wait. A statement may fail (`Faulty`), a query may time out, and the
daemon may stop between any two steps and start on the file it left (`Restart`).
The table has one column, so its rows are a function from row ids to numbers.

**`ShowConfig`.** `show` is the walk of `nn_cfg_template_renderer_render_all`: `todo` the templates still to
render (a template's children come before the next top level), `checked` whether `template_has_data` has said
yes, `text` a line per template rendered. The two statements of a template are two steps, and the BGP worker of
`BgpConfig` may take steps between them, because a session that timed out leaves its command in the queue.
The CFG thread serves no session meanwhile. `seen` and `failed` are history variables.

**`CliSessions`.** `file` is the process's descriptor table: what each number refers to, a connection or
a file or socket of another thread. `sessions` is the hash table of `nn_cfg_main.c`, `batch` the events of one
`epoll_wait`, `reading` the descriptor `nn_cli_process_input` loops on. A line does to its session what `config`,
`end`, `exit`, a module's VIEW_CHG or any other command does. The kernel gives out the lowest free
number, and closing one twice closes whatever has it by then; `stolen` records it.

**`InterfaceConfig`.** `links` is the host, `pc` the system call the module makes next, one step each. Every call may
fail (`faulty` records one that fails for no fault of its arguments), and `Operator` is anybody else on the
host. An address brings the mask of its class; the flags are read, changed and written back.

**`CommandTree`.** A node is a record with its children in a sequence; `AddChild`,
`Clone`, `Build` and `Match` are the recursive functions of `nn_cli_tree.c` and
`nn_cli_xml_parser.c`. `StartFile`, `RegisterCommand` and `FinishFile` are
`nn_cli_xml_load_view_tree`; any unread file may come next, or fail. Words are
strings that are only compared; "begins with" is a relation given by the
constants, and a type sees of a word its length, its number and whether it is an
address.

## 4. What the runs check

| Run | Bounds | States | Shows |
|---|---|---|---|
| `mq` | 2 senders, 2 messages each | 7 thousand | a worker never sleeps over a message, nobody touches freed memory, the inbox implements `Mailbox` (with its liveness), cleanup ends |
| `pubsub` | 2 modules registering twice, 1 key, 1 group, 2 threads, 3 posts | 55 thousand | no stale copy, no late delivery, each message once, one order for all receivers |
| `query` | 2 sessions, 3 commands, 2 chunks, 16 ids from 14 on | 415 thousand | answers belong to their query, shows are whole, only another session diverts `shutdown`, commands end |
| `query_two_sessions` | as above | violation | another session does divert it |
| `lifecycle` | any module but DEV may fail | 10 thousand | services outlive users, the views are missing in two windows only, the daemon stops if its server thread comes back from reading |
| `lifecycle_early_client` | no failures | violation | a client can be served before there is a view |
| `editor_editing` | lines of 3 characters, Esc, Backspace, Tab, Help | 535 thousand | row and line agree, TAB keeps the text |
| `editor_recall` | one letter, lines of 3, a ring of 3 with words of 8 values, 4 commands, outputs of 0, 2, 3, 5 lines on pages of 2 | 515 thousand | the draft comes back; the ring is the last commands, newest first; the pager never scrolls past a page and gives the prompt back |
| `bgp` | 2 sessions, 2 numbers, 2 rows, 3 commands, 3 starts, 2 shows of 5 templates | 844 thousand | one row at most, current answers, each command once, in order, or not at all; a show prints what was configured, in full when nothing changed |
| `sessions` | 3 clients, 2 descriptor numbers, 4 views, 1 unread line each | 525 thousand | prompts and contexts follow the view, sessions read their own connection, a hang-up is noticed |
| `interface` | 3 link names, 4 map files, 2 addresses, 2 masks, 1 change by others | 3.7 million | start-up keeps what it finds and leaves up what it makes, answers are true, a show is the links |
| `command_tree` | the commands of this commit, 210 typed lines | 5 thousand | each line goes where its file says, in any order of the files |

Why the bounds are enough. In `mq` two messages of two senders give every overlap of
push, write, read and pop, and a third only repeats one of them; the theorems of section 6
cover every number. In `pubsub` two registrations make a stale copy
possible, two publishing threads two orders, and three posts a message behind
another. In `query` ids start two below the wrap and pass through 0 and the ids
1..5 of the modules; late answers need a second command and a second chunk, and
a third of the other session falls between a selection and what is done with it. `lifecycle` has no bound. Three starts in `bgp` give a crash
while the database is made and one with rows in it; three commands, of which one may still be performed while
the next is shown; its templates are the three of BGP's XML (two without data of their own) and two more, so that a child
and a second top level are rendered too. In `sessions` two numbers let one be stolen while the other is
served, and a third client meets what the first two left; views go as deep as those of this commit. In `interface`
one link, its peer and a logical name give a map to itself, to a peer and a name mapped twice; one
change by somebody else can fall between any two calls. The editor's defects need a cursor
with a character on either side of it, so three; recall needs different entries and a
draft, which lengths tell apart as well as letters do. Four commands fill a ring of 3 and wrap it, and its index arithmetic passes below
zero. `command_tree` has no bound but the typed lines: every line of every command,
its beginnings, the abbreviations two keywords share, and parameters that are
valid, too long, too small or not of their kind.

Deadlock is checked in the two editor runs and `command_tree`. The other models stop when
their bounded counters are used up, the daemon has exited, the interface module did not
start for want of a map, or the server thread hangs in a blocking read, so their
configurations switch the check off; that the rest does not stop is what
`CleanupEnds`, `CommandEnds`, `ShutdownEnds`, `PromptComesBack` and
`HangupIsNoticed` say.

## 5. Fairness

* `ModuleMq`: a sender inside `send_to_subscriber` goes on, since nothing there waits for
  anything but the two mutexes; the worker goes on, because `epoll_wait` has a timeout of one
  second; a cleanup once begun goes on. Nobody must ever send or shut down.
* `CliQuery`: only the steps of the CFG thread's query, whose poll has a timeout. None on
  the IF worker: `CommandEnds` holds for a module that never answers.
* `Lifecycle`: the main thread's steps, the server thread's, and the workers'. A worker's
  exit needs strong fairness: the test of `running` is passed over and over as messages come. So does the end of a
  batch, which has 16 events at most. Nothing makes a client stop typing or a blocked read return, and `pthread_join`
  has no limit (`nn_cfg_main.c:290`): `ShutdownEnds` assumes in its formula that the server thread comes back from
  `nn_cli_process_input`, again and again. Without that it is violated, by a read that blocks or by input without end
  (`nn_cli_handler.c:1009`).
* `LineEditor`: a user who is shown a page asks for the next page or line. Without it
  the pager may rightly wait forever.
* `CliSessions`: the server thread's steps; `epoll_wait` reports a connection that has ended until it is closed.
  `HangupIsNoticed` assumes in its formula what fairness cannot give: that the thread comes back from
  reading (a client that types without pause holds it), and that no number was stolen.
* `PubSub`, `HistoryRing`, `BgpConfig`, `ShowConfig`, `InterfaceConfig` and `CommandTree` have safety
  properties only.

## 6. What is proved

All proofs are for every value of the constants that the named assumptions allow.

**`ModuleMq_proofs`** (any senders, any number of messages, both orders of cleanup).
`IInv` adds to `TypeOK`, `NoLostWakeup` and `FifoIntact`: whoever is between lookup and
write holds `pubsub_mutex` (`LockHeld`); how far the cleanup is says what is still
registered, running, open and alive (`CleanupOrder`); the worker clears the eventfd
only when it has seen the queue empty (`DrainedEmpty`). Without `LockHeld` the write of the eventfd
could come after the close, without `DrainedEmpty` clearing the eventfd could
lose a wake-up: neither property is inductive alone. From `IInv`: `TypeCorrect`,
`NoWakeupIsLost`, `QueueIsFifo`, `QueueOutlivesItsUsers`, and `MqImplementsMailbox`, that every
step of the inbox is a step of `Mailbox` or stutters.

**`BgpConfig_proofs`** (any sessions, numbers, row ids and bounds, with and without faults).
`IInv` says what the worker knows between its two transactions (`WorkerKnowsRow`: nobody else
writes the table, so the row it found is still there), that ids in the queue, at the worker, in
answers and at the CFG thread are in order (`IdsInOrder`), hence that the answer the thread accepts is
that of the last command, behind which nothing is left to perform (`AnsweredLast`), and that the
table exists once the database is connected (`Made`). Results: `TypeCorrect`, `OneRowAtMost`,
`NoHalfMadeDatabase`, `AnswersAreCurrent`, and `Implements`: with the row as the
configuration and the commands at hand and in the queue as the pending requests,
every step is one of `ConfigStore` or stutters.

The same module goes on with `ShowConfig` (any templates). `ShownIsTrue`: while a show is on, the database is up and what
is configured now is among what the show could have met; each write of the worker adds to that set, so a line that is
appended shows a member of it. `ShowsAreReadOnly`: every behaviour with shows is one of `BgpConfig`, hence `BesideShows`: one
row, current answers and the implementation of `ConfigStore` also beside shows, which is what the run `bgp` checks.

**`CliSessions_proofs`** (any clients, descriptors and tree of views no deeper than the stacks).
`StacksFollowTheView` needs nothing but the tree: each of the four ways to move keeps stack, contexts
and view in step, and `TypeCorrect` bounds the depth, so that no push is ever refused. `SessionsAreSeparate`
adds that an open connection has one number (`OpenHasOneFd`), that the other thread has its file unless the server
closed it (`OtherOwnsItsFd`), and that a number closed under the session being read gets no new connection before the
session is gone (`NoNewConnection`: only this thread accepts).

**`InterfaceConfig_proofs`** (any map file, names, links, addresses and failures; at least one address). `Types` says, besides the
types, what the module is at in each place: which place of the map is read, which link the call under way is for. On it rest four invariants.
`KeepsInv`: a link start-up is about to change is one it has just made, since `CreatePair` makes both ends or none; hence
`FoundLinksAreKept`. `MadeInv`: every place of the map that start-up is through with has its link, and both ends of a pair it made are up or
are the ones it is working on; hence `MadeLinksAreUp`. `ConfigInv`: between two calls of a command the
link is as the calls so far have left it, unless another program was at work; hence `AnswersAreTrue`, at every
order of calls and failures. `ShowInv`: what is printed and what is still to be printed are together the links of the host; hence `ShowIsTrue`.
None of the four properties is inductive alone: `StartupKeepsLinks` does not say whose link the call under way is for, and the others speak of the end of start-up or of a command only.

**`PubSub_proofs`** (any modules, events, groups, publishing threads and number of posts). `IInv` says that a copy in any list is of the inbox
its module is registered with (so unregistering must take it off every list), that a thread at a fan-out holds the lock
and has only current copies left to serve (`Fanning`), that of the audience of a message exactly those without it wait for it (`Delivered`), and that every inbox is
in the order of publication (`InOrder`). Without the part on the fan-out neither `DeliveredExactlyOnce`, which speaks of
the time between fan-outs, nor `SameOrder` survives a step. Results: `Invariance`, `ClonesAreCurrent`, `DeliveryIsExact`, `OrderIsShared`,
`NothingArrivesLate`.

**`CliQuery_proofs`** (any sessions, interfaces, permanent ids, first id, number of commands and chunks, as long as the counter of ids does not come
round: `MaxCommands * MaxChunks < IdSpace`, with 2^32 ids in the code). The argument has two halves. *Ids:* each command draws at most one id per
chunk (`DrawsAreBounded`), and whoever waits in the inbox or at the worker has an id drawn before (`SendersAreDrawn`), so the next id belongs to
nobody, also when it passes through 0 and the ids of the modules; an answer in the inbox of a query is therefore for this query.
*Contents:* `QueryInv` says that a message of the query under way is the last one queued, that when its answer is made the IF module has
nothing else to do (`GoodReply`), and that its cache then holds the rest of this show from where the output ends (`CacheAt`). `OrderInv` and
`ReportInv` add the order of what is queued and what was carried out. Results: `TypeCorrect`, `AnswersFit`, `ShowsAreWhole`,
`DoneInTurn`, and `DivertedByOthers`, which has no hypothesis on the sessions: `shutdown` acts on the interface of its prompt unless another
session has selected an interface since (it then does act on that one, section 7). Its invariant `PromptInv` says of every session whose prompt is in an interface view that the selected
interface is that one or what another session has selected since, and that it has no `interface` command of its own queued, although
commands that timed out are carried out late.

**`LineEditor_proofs`** (any characters, keys and completions that `CompletionsAssumption` allows, any length
of line, history, page and output). Line and terminal row are two texts moved by different code. *Row:* lemmas
say what each way of writing leaves on the row: `EchoShows` a character at the end, `DeletionShows` what
`redraw_from_cursor` draws behind the cursor, with the blank that wipes the last column, `RedrawnIs` a whole
line; with them `RowShowsLine` survives each key. `PagedInv` is needed with it: while output is held back the
line is empty, so the keys of the pager, which leave the line alone, may draw the prompt. *Completion:* a
keyword starts with the word it replaces, so the text up to the last word and the keyword continue the text
completed (`KeywordContinues`), also where the buffer cuts the keyword off (`AppliedKeeps`). A TAB that finds
several matches completes the text its cycle began with, one that finds a single match the text left of the
cursor: `TabTypes` says that a cycle has at least two matches and points at one of them, so that in the second
case there is no cycle and the two texts are one. *Recall:* `BrowseTypes` keeps the browse index on an entry,
and `DraftInv` says that the text saved is the one `Up` was first pressed on, unless browsing goes on from an
earlier prompt (`ghost.stale`, section 7). Results: `TypeCorrect`, `RowIsTheLine`, `APageAtMost`,
`DraftIsKept`, `TabContinues`, and `HistoryIsRecent`: what the editor does to its history is what
`RecentCommands` does, which `RingImplementsRecent` shows of the ring, so the editor may take the ring for a
sequence: `RingIsHistory`.

The same module goes on with `HistoryRing` (any size, any word of at least twice the size). The heart is
arithmetic: lemma `SlotIs` says where an entry is once the unsigned wrap-around is worked
out, `NextSlot` that adding an entry moves the others by one, and `PastRemembers` that
the sequence read through `Get` changes as `RecentCommands` says. Results:
`RingTypeCorrect`, `EntriesInUse`, `RingImplementsRecent`, and, of `SessionHistory`, `RingIsHistory`: the ring of a session, read through
`Get`, is at all times the history its keyboard browses.

**`Lifecycle_proofs`** (any set of modules that fail to start, any input of the clients). `LifeInv`: a
thread runs only between the start and the cleanup of its module. `ServicesLast` needs that DEV starts, since
its failure is noticed by nobody (section 8); with that, `ServicesOutliveUsers` follows from the two orders
being each other's reverse. `TwoWindowsOnly` has no hypothesis: the server thread finds views and history usable
(`CfgStateUsable`) unless the main thread is at that time making them, after it has started that thread, or freeing them, before it
has joined it. Its invariant `ViewsInv` says what is made and freed at which stage of the CFG module's start and cleanup.

Type invariants that are proved are not run again (`ModuleMq`, `HistoryRing`, `BgpConfig`, `CliSessions`, `InterfaceConfig`), nor are
`InUse` and `ConnectedMeansMade`.

**Only model-checked:** all liveness (`CommandEnds`, `CleanupEnds`, `ShutdownEnds`, `HangupIsNoticed`, `PromptComesBack` and the liveness of
`Mailbox`: fairness and ENABLED are out of the prover's reach), `UnchangedIsShownInFull` (the order of a walk over a tree of templates, an induction over data),
and `CommandTree` (RECURSIVE operators over trees).

## 7. Findings

Two runs end in a violation; `PROJECT.json` quotes the lines.

* `lifecycle_early_client`: the server thread accepts clients before the root view exists (`nn_cfg_main.c:247`).
* `query_two_sessions`: the interface being configured is one global, so `shutdown` at one session's prompt may disable
  the interface another session chose (`nn_if_cli.c:128`). `src/README.md` promises concurrent clients (`:25`, `:220`), the
  comment at the global a single session. (`src/README.md:221` also says that each client has a thread; all
  share one.) `OnlyOthersDivert` holds: that is the only way.

Found on the way, without a run of their own:

* TAB compares the line with its copy cut at the cursor, so in the middle of a line it deletes the rest even when it
  completes nothing (`nn_cli_handler.c:1118`): `TabWithoutMatch` of `LineEditor` is violated under
  `MCLineEditor_Editing.cfg`.
* `exit` closes the client's descriptor and leaves the session; the read that follows fails and the
  session is destroyed, which closes the number again (`nn_cfg_cli.c:515`, `nn_cli_handler.c:1248`). A socket the IF worker
  opens in between gets the same number and is closed under it; a client that connects then gets the number, and
  the worker's own close cuts it off while its session stays in the table. The next client with that number
  destroys the stale session, which closes its connection. `g_hash_table_insert` has then also freed the key that the removal after
  the failed registration uses (`nn_cfg_main.c:102`, `:110`), so that session may stay in the table too, as `AcceptAndDrop` has it. If the number is a blocking socket, the CFG thread hangs in `read`.
* One client that types without pause keeps the CFG thread in `nn_cli_process_input`: nobody else is served, and the
  daemon cannot be stopped by a signal (`nn_cfg_main.c:290` joins without limit).
* `show current-configuration` asks for data and reads it in two statements
  (`nn_cfg_template_renderer.c:275`, `:282`): a `no bgp` that was given up on in between leaves
  `{bgp_protocol.as_number}` in the text. An error of the database looks like no configuration. The second template of BGP reads
  a table nobody defines (`bgp_db.bgp_peer`) and is never shown.
* `interface GE-1` looks for the mapped link, `ip address` and `shutdown` in its view act on a link called GE-1
  (`nn_if_cli.c:138`, `:154`). With the shipped map (`GE-1 = veth0`) they always fail: `ConfigReachesLink` of
  `InterfaceConfig` is violated with `Files <- ShippedFiles`.
* A mask that is refused leaves the new address with the mask of its class and reports an error;
  `ip address 0.0.0.0` removes the address and reports an error (`nn_if.c:255-272`).
* Two programs that change the flags of one link at once may lose a change (`nn_if.c:299`).
* `show if GE-1` asks for the empty name and prints zeros; `show if GE-2` prints all links (`nn_if_cli.c:207`).
* A link whose name is so long that "-peer" is cut off is its own peer and cannot be made (`nn_if.c:463`).
* `nn_db_registry_add` and `nn_config_template_registry_add` keep the key of the first definition of a name,
  which a second one frees (`nn_db_registry.c:226`, `nn_config_template.c:132`); no name is registered twice.
* Stop: `cfg_module_cleanup` frees the view trees and the history (`nn_cfg_main.c:265-266`) before it joins
  the server thread (`:290`): a command under way at the signal, or a client that comes before `epoll_wait` has returned, may meet
  freed views. In `Lifecycle`, `CfgStateUsable` is violated between `FreeViews` and `JoinCfgThread` and, as
  `UsableOutsideWindows` says, in no other state after the start.
* After a character is inserted before others the terminal's cursor is one column off
  (`nn_cli_handler.c:1143`); `RowShowsLine` excepts the time until the row is drawn again.
* A completion cycle survives the arrow keys (`:1041`), an empty Enter keeps the
  recalled position (`:1072`), and a line of blanks is recorded in the history (`:1059`).
* `nn_dev_pubsub_unsubscribe` frees a list that its table still owns (`nn_dev_pubsub.c:343`); it has no caller.
* `bgp <as>` enters the view of the AS also when the row could not be written, and the text of the
  error is dropped (`nn_bgp_cli.c:283-332`).
* `nn_cli_tree_add_child` drops the end mark of a node it merges: a command whose line is
  the beginning of one registered earlier would be "incomplete". `nn_cli_tree_find_child` compares prefixes,
  so a keyword that begins an earlier sibling's name would be merged into it. No command of this commit
  does either, which `ServesItsCommands` shows.
* `nn_cli_tree.c:116` says "exact full-word match (strcmp)", the code matches prefixes; `:153` says
  "accept any input", the code returns NULL. An ambiguous abbreviation goes to the keyword registered first:
  `show d` depends on the order of the linker, and in the interface view `s` is `shutdown`.
* A database whose name is a beginning of `list` cannot be shown.
* A command for two views would be cloned for the second from nodes that were freed (`nn_cli_xml_parser.c:812`); no
  command of this commit does (ASSUME `OneView`).

## 8. Not modelled

* Bytes: TLV encoding, SQL text, telnet options, prompts' wording, the formatting of tables.
* libxml2, SQLite, epoll, eventfd and the kernel's interfaces beyond what their callers rely on.
* The `dev` and `db` show commands, the list of commands and `show history`: they read tables and format them.
* The failure of the `dev` module's own init: every later call dereferences NULL.
* The close of descriptor 0 after a failed init of DB (`nn_db_main.c:158`): `Lifecycle` has no descriptors.
* What nothing calls: setting an MTU, adding to the interface map and saving it, rendering one template by name,
  `nn_dev_pubsub_unsubscribe`.
* `db_registry` beyond the one database of this commit.
* Paths the commands of this commit do not reach: help longer than a page (`nn_cli_handler.c:795-814`; no view has 24
  commands to list), `ip address` and `shutdown` with no interface selected (`nn_if_cli.c:129-134`; their view is entered by
  selecting one), and the missing answer to a `bgp` whose view is not found (`nn_bgp_cli.c:291-295`; to the session
  it would be a timeout, which the model has).
