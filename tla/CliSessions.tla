----------------------------- MODULE CliSessions -----------------------------
(***************************************************************************)
(* The CFG server thread and its telnet sessions.  One thread accepts the  *)
(* connections, keeps a table from descriptor number to session and reads  *)
(* every session's input; a command moves its session in the tree of views, *)
(* with a stack of the prompts to come back to and of the context each view *)
(* was entered with.                                                       *)
(*                                                                         *)
(* Descriptor numbers are shared by all the threads of the process, and the *)
(* kernel gives out the lowest that is free.  `exit' in the user view closes *)
(* the connection's number, and the session that is destroyed afterwards   *)
(* closes it again: in between, another thread may have opened a file, and *)
(* from there on two owners believe in the same number.                    *)
(*                                                                         *)
(* What a line looks like (LineEditor), how it is matched (CommandTree) and *)
(* how a module answers it (CliQuery) are left out: here it enters a view, *)
(* leaves it, or does neither.                                             *)
(***************************************************************************)
EXTENDS Integers, FiniteSets

CONSTANTS
    Conns,         \* the connections clients make, numbered in their order
    Fds,           \* the descriptor numbers the process has left to give out
    Views, Root, Config,
    Parent,        \* per view but the root: the view its entry command is in
    Level,         \* per view: how far it is from the root
    ContextViews,  \* the views whose module sends a context along
    Args, NoArg,   \* the names a view is entered with (an AS, an interface)
    ArgsOf,        \* per view: those of its entry command
    StackDepth,    \* NN_CLI_PROMPT_STACK_DEPTH
    MaxUnread,     \* how many lines may wait in a connection
    Free,          \* an unused descriptor number
    File, Socket   \* what other threads open

NoFd == 0
Listen == -1
Others == {File, Socket}

ASSUME ViewAssumption ==
    /\ Root \in Views /\ Config \in Views \ {Root}
    /\ Parent \in [Views \ {Root} -> Views]
    /\ Parent[Config] = Root
    /\ Level \in [Views -> Nat]
    /\ Level[Root] = 0
    /\ \A v \in Views \ {Root} : Level[v] = Level[Parent[v]] + 1
    /\ ContextViews \subseteq Views \ {Root, Config}
    /\ ArgsOf \in [Views -> SUBSET Args] /\ NoArg \notin Args
    /\ StackDepth \in Nat
    /\ \A v \in Views : Level[v] <= StackDepth

ASSUME ServerAssumption ==
    /\ Conns \subseteq Nat /\ Fds \subseteq Nat \ {NoFd}
    /\ MaxUnread \in Nat
    /\ Free \notin Conns \cup Others
    /\ Conns \cap Others = {}

VARIABLES
    client,     \* per connection: new, in the backlog, open or closed
    hungUp,     \* the connections whose client has gone
    unread,     \* per connection: lines sent and not yet read
    file,       \* per number: what it refers to
    sessions,   \* g_nn_cfg_local->sessions, by number
    batch,      \* the events of epoll_wait still to be handled
    reading,    \* the number nn_cli_process_input is reading
    stuck,      \* that read blocks for ever
    otherFd,    \* the number another thread holds
    stolen      \* numbers of other threads' files this thread has closed

kernel == <<client, hungUp, unread, file>>
vars == <<kernel, sessions, batch, reading, stuck, otherFd, stolen>>

(***************************************************************************)
(* A session's place in the tree of views                                  *)
(***************************************************************************)

Prompt == [view : Views, arg : Args \cup {NoArg}]

ViewPrompt(v) == [view |-> v, arg |-> NoArg]

\* nn_cli_session_t: prompt_stack and view_context_stack, as far as `depth'.
Session ==
    [conn : Conns, view : Views, prompt : Prompt, depth : 0..StackDepth,
     prompts : [1..StackDepth -> Prompt],
     contexts : [1..StackDepth -> Args \cup {NoArg}]]

NoSession == [view |-> "none"]

NewSession(c) ==
    [conn |-> c, view |-> Root, prompt |-> ViewPrompt(Root), depth |-> 0,
     prompts |-> [i \in 1..StackDepth |-> ViewPrompt(Root)],
     contexts |-> [i \in 1..StackDepth |-> NoArg]]

PromptPush(s) ==
    IF s.depth >= StackDepth THEN s
    ELSE [s EXCEPT !.prompts = [s.prompts EXCEPT ![s.depth + 1] = s.prompt],
                   !.contexts = [s.contexts EXCEPT ![s.depth + 1] = NoArg],
                   !.depth = s.depth + 1]

\* Mutant: the context of the view that is left stays in its slot.
PopKeepsContext(s) ==
    IF s.depth = 0 THEN s
    ELSE [s EXCEPT !.prompt = s.prompts[s.depth], !.depth = s.depth - 1]

PromptPop(s) ==
    IF s.depth = 0 THEN s
    ELSE [s EXCEPT !.prompt = s.prompts[s.depth],
                   !.contexts = [s.contexts EXCEPT ![s.depth] = NoArg],
                   !.depth = s.depth - 1]

ContextSet(s, context) ==
    IF s.depth = 0 THEN s ELSE [s EXCEPT !.contexts = [s.contexts EXCEPT ![s.depth] = context]]

EnterConfig(s) ==
    [PromptPush(s) EXCEPT !.view = Config, !.prompt = ViewPrompt(Config)]

\* A module's VIEW_CHG response, and the context that may follow the prompt.
ChangeView(s, v, arg) ==
    LET t == [PromptPush(s) EXCEPT !.view = v,
                                   !.prompt = [view |-> v, arg |-> arg]]
    IN  IF v \in ContextViews THEN ContextSet(t, arg) ELSE t

End(s) ==
    [s EXCEPT !.view = Root,
              !.prompt = ViewPrompt(Root),
              !.contexts = [i \in 1..StackDepth |->
                               IF i <= s.depth THEN NoArg ELSE s.contexts[i]],
              !.depth = 0]

ExitView(s) == [PromptPop(s) EXCEPT !.view = Parent[s.view]]

(***************************************************************************)
(* Descriptors                                                             *)
(***************************************************************************)

FreeFds == {n \in Fds : file[n] = Free}

\* What the kernel gives out next.
LowestFree(n) == n \in FreeFds /\ \A m \in FreeFds : n <= m

\* The kernel's close(n): whoever it belongs to.  Closing a number that is
\* free fails with EBADF and changes nothing.
Close(n) ==
    /\ file' = [file EXCEPT ![n] = Free]
    /\ client' = [c \in Conns |-> IF file[n] = c THEN "closed" ELSE client[c]]
    /\ unread' = [c \in Conns |-> IF file[n] = c THEN 0 ELSE unread[c]]

CloseByServer(n) ==
    /\ Close(n)
    /\ stolen' = IF file[n] \in Others THEN stolen \cup {n} ELSE stolen

(***************************************************************************)
(* The clients and the other threads                                       *)
(***************************************************************************)

Connect(c) ==
    /\ client[c] = "new"
    /\ \A d \in Conns : d < c => client[d] # "new"
    /\ client' = [client EXCEPT ![c] = "backlog"]
    /\ UNCHANGED <<hungUp, unread, file, sessions, batch, reading, stuck,
                   otherFd, stolen>>

SendLine(c) ==
    /\ client[c] \in {"backlog", "open"} /\ c \notin hungUp
    /\ unread[c] < MaxUnread
    /\ unread' = [unread EXCEPT ![c] = @ + 1]
    /\ UNCHANGED <<client, hungUp, file, sessions, batch, reading, stuck,
                   otherFd, stolen>>

HangUp(c) ==
    /\ client[c] \in {"backlog", "open"} /\ c \notin hungUp
    /\ hungUp' = hungUp \cup {c}
    /\ UNCHANGED <<client, unread, file, sessions, batch, reading, stuck,
                   otherFd, stolen>>

\* A worker opens a file or a socket while it performs a command.
OtherOpens(kind, n) ==
    /\ otherFd = NoFd /\ LowestFree(n)
    /\ otherFd' = n
    /\ file' = [file EXCEPT ![n] = kind]
    /\ UNCHANGED <<client, hungUp, unread, sessions, batch, reading, stuck,
                   stolen>>

OtherCloses ==
    /\ otherFd # NoFd
    /\ Close(otherFd)
    /\ otherFd' = NoFd
    /\ UNCHANGED <<hungUp, sessions, batch, reading, stuck, stolen>>

(***************************************************************************)
(* The server thread                                                       *)
(***************************************************************************)

Ready ==
    {n \in Fds : \E c \in Conns :
        file[n] = c /\ (unread[c] > 0 \/ c \in hungUp)}
    \cup {e \in {Listen} : \E c \in Conns : client[c] = "backlog"}

\* epoll_wait: every descriptor that is ready.  A connection is watched from
\* its accept until its number is closed.
WaitEvents ==
    /\ batch = {} /\ reading = NoFd
    /\ Ready # {}
    /\ batch' = Ready
    /\ UNCHANGED <<kernel, sessions, reading, stuck, otherFd, stolen>>

\* The backlog is a queue.
NextToAccept(c) ==
    /\ client[c] = "backlog"
    /\ \A d \in Conns : client[d] = "backlog" => c <= d

AcceptFails ==
    /\ Listen \in batch /\ reading = NoFd
    /\ FreeFds = {}
    /\ batch' = batch \ {Listen}
    /\ UNCHANGED <<kernel, sessions, reading, stuck, otherFd, stolen>>

\* accept, nn_cli_session_create and the registration with epoll.
Accept(c, n) ==
    /\ Listen \in batch /\ reading = NoFd
    /\ NextToAccept(c) /\ LowestFree(n)
    /\ sessions[n] = NoSession
    /\ batch' = batch \ {Listen}
    /\ client' = [client EXCEPT ![c] = "open"]
    /\ file' = [file EXCEPT ![n] = c]
    /\ sessions' = [sessions EXCEPT ![n] = NewSession(c)]
    /\ UNCHANGED <<hungUp, unread, reading, stuck, otherFd, stolen>>

\* The registration fails and the session is removed, which closes the number.
\* So it must when the table still holds a session under this number: the
\* insertion destroys that one, which closes the new connection, and frees the
\* key the removal then uses, so that the new session may stay in the table.
AcceptAndDrop(c, n) ==
    /\ Listen \in batch /\ reading = NoFd
    /\ NextToAccept(c) /\ LowestFree(n)
    /\ batch' = batch \ {Listen}
    /\ client' = [client EXCEPT ![c] = "closed"]
    /\ unread' = [unread EXCEPT ![c] = 0]
    /\ \/ sessions' = [sessions EXCEPT ![n] = NoSession]
       \/ /\ sessions[n] # NoSession
          /\ sessions' = [sessions EXCEPT ![n] = NewSession(c)]
    /\ UNCHANGED <<hungUp, file, reading, stuck, otherFd, stolen>>

\* Input from an existing client: nn_cli_process_input, if there is a session.
HandleInput(n) ==
    /\ n \in batch \ {Listen} /\ reading = NoFd
    /\ batch' = batch \ {n}
    /\ reading' = IF sessions[n] # NoSession THEN n ELSE NoFd
    /\ UNCHANGED <<kernel, sessions, stuck, otherFd, stolen>>

\* What one line makes of its session: nothing (any other command, or an entry
\* that is refused or times out), `end', `config' or `exit', or a module's view.
\* An entry command is there only in the view it leads on from.
AfterLine(s) ==
    {s, End(s), IF s.view = Root THEN EnterConfig(s) ELSE ExitView(s)}
    \cup UNION {{ChangeView(s, v, arg) : arg \in ArgsOf[v]} :
                    v \in {w \in Views \ {Root, Config} : Parent[w] = s.view}}

\* What read(n) brings: something typed, ...
HasLine(n) == file[n] \in Conns /\ unread[file[n]] > 0

\* Mutant: EBADF is taken for one more read that would have blocked.
AgainOrBadFd(n) ==
    \/ file[n] = Free
    \/ file[n] \in Conns \ hungUp /\ unread[file[n]] = 0

\* ... EAGAIN, for the connections are non-blocking, ...
Again(n) == file[n] \in Conns \ hungUp /\ unread[file[n]] = 0

\* ... the end of the connection or of another thread's file, or EBADF.
Ends(n) ==
    \/ file[n] \in {File, Free}
    \/ file[n] \in hungUp /\ unread[file[n]] = 0

InReadLoop(outcome) == reading # NoFd /\ ~stuck /\ outcome

ReadLine ==
    /\ InReadLoop(HasLine(reading))
    /\ unread' = [unread EXCEPT ![file[reading]] = @ - 1]
    /\ \E s \in AfterLine(sessions[reading]) :
        sessions' = [sessions EXCEPT ![reading] = s]
    /\ UNCHANGED <<client, hungUp, file, batch, reading, stuck, otherFd,
                   stolen>>

\* `exit' in the user view: the number is closed, the session stays.
ExitSession ==
    /\ InReadLoop(HasLine(reading))
    /\ sessions[reading].view = Root
    /\ CloseByServer(reading)
    /\ UNCHANGED <<hungUp, sessions, batch, reading, stuck, otherFd>>

\* EAGAIN: this session has no more input.
NoMoreInput ==
    /\ InReadLoop(Again(reading))
    /\ reading' = NoFd
    /\ UNCHANGED <<kernel, sessions, batch, stuck, otherFd, stolen>>

\* Mutant: the number is closed, the session stays in the table.
DisconnectKeepsSession ==
    /\ InReadLoop(Ends(reading))
    /\ CloseByServer(reading)
    /\ reading' = NoFd
    /\ UNCHANGED <<hungUp, sessions, batch, stuck, otherFd>>

\* The end of the input, or EBADF after `exit': removing the session from the
\* table destroys it, which closes its number.
Disconnect ==
    /\ InReadLoop(Ends(reading))
    /\ CloseByServer(reading)
    /\ sessions' = [sessions EXCEPT ![reading] = NoSession]
    /\ reading' = NoFd
    /\ UNCHANGED <<hungUp, batch, stuck, otherFd>>

\* read does not return.
BlockOnSocket ==
    /\ InReadLoop(file[reading] = Socket)
    /\ stuck' = TRUE
    /\ UNCHANGED <<kernel, sessions, batch, reading, otherFd, stolen>>

ServerStep ==
    \/ WaitEvents
    \/ AcceptFails
    \/ \E c \in Conns, n \in Fds : Accept(c, n) \/ AcceptAndDrop(c, n)
    \/ \E n \in Fds : HandleInput(n)
    \/ ReadLine
    \/ ExitSession
    \/ NoMoreInput
    \/ Disconnect
    \/ BlockOnSocket

Environment ==
    \/ \E c \in Conns : Connect(c) \/ SendLine(c) \/ HangUp(c)
    \/ \E kind \in Others, n \in Fds : OtherOpens(kind, n)
    \/ OtherCloses

Init ==
    /\ client = [c \in Conns |-> "new"]
    /\ hungUp = {}
    /\ unread = [c \in Conns |-> 0]
    /\ file = [n \in Fds |-> Free]
    /\ sessions = [n \in Fds |-> NoSession]
    /\ batch = {}
    /\ reading = NoFd
    /\ stuck = FALSE
    /\ otherFd = NoFd
    /\ stolen = {}

Next == ServerStep \/ Environment

Spec == Init /\ [][Next]_vars /\ WF_vars(ServerStep)

(***************************************************************************)
(* Properties                                                              *)
(***************************************************************************)

TypeOK ==
    /\ client \in [Conns -> {"new", "backlog", "open", "closed"}]
    /\ hungUp \subseteq Conns
    /\ unread \in [Conns -> 0..MaxUnread]
    /\ file \in [Fds -> Conns \cup Others \cup {Free}]
    /\ sessions \in [Fds -> Session \cup {NoSession}]
    /\ batch \subseteq Fds \cup {Listen}
    /\ reading \in Fds \cup {NoFd}
    /\ reading # NoFd => sessions[reading] # NoSession
    /\ stuck \in BOOLEAN
    /\ otherFd \in Fds \cup {NoFd}
    /\ stolen \subseteq Fds

\* The prompt shown at each level, the current one last.
Shown(s, i) == IF i <= s.depth THEN s.prompts[i] ELSE s.prompt

\* The prompts of a session are those of the way from the user view to the
\* current one, so that each exit shows the prompt of the view it returns to.
PromptsOnTheWay(s) ==
    /\ s.depth = Level[s.view]
    /\ s.prompt.view = s.view
    /\ \A i \in 1..s.depth :
        Shown(s, i + 1).view # Root
        /\ Shown(s, i).view = Parent[Shown(s, i + 1).view]

\* The context a command would take to its module is the name in the prompt of
\* the view it is typed in, at every level; the slots above are freed.
ContextsOfThePrompts(s) ==
    \A i \in 1..StackDepth :
        s.contexts[i] =
            IF i <= s.depth /\ Shown(s, i + 1).view \in ContextViews
            THEN Shown(s, i + 1).arg ELSE NoArg

\* In every session the prompt stack and the context stack follow the view,
\* however it was entered and left (push, pop, end, a module's VIEW_CHG).
LevelsMatchView ==
    \A n \in Fds : sessions[n] # NoSession =>
        PromptsOnTheWay(sessions[n]) /\ ContextsOfThePrompts(sessions[n])

\* A session is served from its own connection.  Only a number at which the
\* server has closed another thread's file can be someone else's: nothing but
\* the second close after `exit' makes that happen.
SessionsOwnTheirFds ==
    \A n \in Fds : sessions[n] # NoSession =>
        \/ file[n] = sessions[n].conn
        \/ reading = n /\ client[sessions[n].conn] = "closed"
        \/ n \in stolen

\* A client that hangs up is noticed: its session leaves the table and its
\* number is closed, provided the server comes back from reading the others,
\* and no number is shared with another thread.
HangupIsNoticed ==
    ([]<>(reading = NoFd) /\ [](stolen = {})) =>
        \A c \in Conns :
            (c \in hungUp /\ client[c] = "open")
                ~> \A n \in Fds : sessions[n] # NoSession => sessions[n].conn # c
==============================================================================
