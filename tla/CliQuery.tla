------------------------------- MODULE CliQuery -------------------------------
(***************************************************************************)
(* A CLI command on its way through the daemon: the CFG server thread       *)
(* dispatches it to the IF module with nn_dev_pubsub_query and waits; the   *)
(* IF worker takes it from its inbox, carries it out and answers.           *)
(*                                                                         *)
(* A query registers a temporary module id with an inbox of its own, is     *)
(* answered there, and gives up after five seconds, when the command may    *)
(* still be queued, half done or about to be answered.  The output of show  *)
(* comes in chunks, each asked for with a query of its own (CONTINUE).  The *)
(* IF module remembers between messages which interface was selected last   *)
(* and how far the last show has been sent, in globals all sessions share.  *)
(*                                                                         *)
(* ModuleMq has the inbox in detail; here it is a sequence.                 *)
(***************************************************************************)
EXTENDS Integers, Sequences, FiniteSets

CONSTANTS
    Sessions,          \* the telnet sessions
    Interfaces,        \* the interfaces that can be selected, GE-1 ...
    Permanent,         \* the ids of the modules, DEV ... BGP
    IfModule,              \* NN_DEV_MODULE_ID_IF
    IdSpace,           \* ids are counted modulo IdSpace (2^32 in the code)
    FirstId,           \* g_query_id_counter to begin with
    MaxCommands,       \* how many commands are typed
    MaxChunks          \* how many chunks the output of show has at most

ASSUME CliQueryAssumption ==
    /\ IdSpace \in Nat \ {0}
    /\ Permanent \subseteq 1..(IdSpace - 1)
    /\ IfModule \in Permanent
    /\ FirstId \in 0..(IdSpace - 1)
    /\ 0 \notin Interfaces
    /\ MaxCommands \in Nat /\ MaxChunks \in Nat \ {0}
    /\ MaxCommands * MaxChunks < IdSpace   \* no id comes round twice

VARIABLES
    \* the CFG thread
    cfgPc,             \* idle, register, publish, poll, unregister or exited
    command,           \* the command being dispatched, or the last one
    asked,             \* the type of the message being sent: CLI or CONTINUE
    reply,             \* what the query returned
    output,            \* full_output
    prompt,            \* per session: the interface of its view, 0 in config view
    \* src/dev
    query_id_counter,  \* g_query_id_counter
    temp_module_id,    \* the id of the query under way
    temp_mq,           \* its inbox
    registered,        \* who has each id: "module", "query" or "none"
    subscribed,        \* the IF module listens to the CFG module
    shutdown,          \* g_shutdown_requested
    \* the IF worker
    ifPc,              \* receive, respond or exited
    inbox,             \* the messages queued for it
    answer,            \* the response it is about to send
    current_interface, \* g_current_interface, 0 when empty
    show_cache,        \* g_if_show_cache: which show made it and its chunks
    batch_offset,      \* g_if_batch_offset: the chunks already sent
    \* history
    result,            \* per command: none, failed or ok
    performed          \* what the IF module has carried out, in order

queryVars == <<query_id_counter, temp_module_id, registered>>
cfgVars   == <<cfgPc, command, asked, reply, output, prompt, result>>
ifState   == <<current_interface, show_cache, batch_offset>>
ifVars    == <<ifPc, answer, ifState, performed>>
stopVars  == <<subscribed, shutdown>>
vars == <<cfgVars, queryVars, temp_mq, inbox, ifVars, stopVars>>

NoCommand == [n |-> 0, session |-> 0, op |-> "none", iface |-> 0]
NoCache   == [show |-> 0, chunks |-> 0]
NoText    == [show |-> 0, part |-> 0]

\* A response; "to" is history: the command and the part of it that was asked for.
Response(type, text, iface, to) == [type |-> type, text |-> text, iface |-> iface, to |-> to]
NoReply  == Response("none", NoText, 0, <<0, 0>>)
NoAnswer == [sender |-> 0, msg |-> NoReply]

Init ==
    /\ cfgPc = "idle"
    /\ command = NoCommand
    /\ asked = "CLI"
    /\ reply = NoReply
    /\ output = <<>>
    /\ prompt = [s \in Sessions |-> 0]
    /\ query_id_counter = FirstId
    /\ temp_module_id = FirstId
    /\ temp_mq = <<>>
    /\ registered = [i \in 0..(IdSpace - 1) |-> IF i \in Permanent THEN "module" ELSE "none"]
    /\ subscribed = TRUE
    /\ shutdown = FALSE
    /\ ifPc = "receive"
    /\ inbox = <<>>
    /\ answer = NoAnswer
    /\ current_interface = 0
    /\ show_cache = NoCache
    /\ batch_offset = 0
    /\ result = [n \in 1..MaxCommands |-> "none"]
    /\ performed = <<>>

(***************************************************************************)
(* The CFG thread: sessions                                                *)
(***************************************************************************)

\* "interface" exists in the config view only, "shutdown" in an interface view
\* only, "show" in both.
Commands(s) ==
    LET typed(op, i) == [n |-> command.n + 1, session |-> s, op |-> op, iface |-> i]
    IN  {typed("show", 0)}
        \cup (IF prompt[s] = 0 THEN {typed("interface", i) : i \in Interfaces}
                               ELSE {typed("shutdown", prompt[s])})

\* A session's command line is matched and nn_cli_dispatch_to_module begins.
Type(s) ==
    /\ cfgPc = "idle"
    /\ command.n < MaxCommands
    /\ command' \in Commands(s)
    /\ asked' = "CLI"
    /\ output' = <<>>
    /\ reply' = NoReply
    /\ cfgPc' = "register"
    /\ UNCHANGED <<prompt, result, queryVars, temp_mq, inbox, ifVars, stopVars>>

\* "exit" in an interface view is carried out by the CFG module itself.
Exit(s) ==
    /\ cfgPc = "idle"
    /\ prompt[s] # 0
    /\ prompt' = [prompt EXCEPT ![s] = 0]
    /\ UNCHANGED <<cfgPc, command, asked, reply, output, result,
                   queryVars, temp_mq, inbox, ifVars, stopVars>>

(***************************************************************************)
(* The CFG thread: nn_dev_pubsub_query                                     *)
(***************************************************************************)

Failed == /\ result' = [result EXCEPT ![command.n] = "failed"]
          /\ cfgPc' = "idle"

\* Mutant: the counter is read and never advanced.
RegisterSameId ==
    /\ cfgPc = "register"
    /\ temp_module_id' = query_id_counter
    /\ registered' = [registered EXCEPT ![query_id_counter] = "query"]
    /\ cfgPc' = "publish"
    /\ UNCHANGED <<query_id_counter, command, asked, reply, output, prompt, result,
                   temp_mq, inbox, ifVars, stopVars>>

\* Mutant: the id is inserted in the table without looking it up first.
RegisterAnyId ==
    /\ cfgPc = "register"
    /\ temp_module_id' = query_id_counter
    /\ query_id_counter' = (query_id_counter + 1) % IdSpace
    /\ registered' = [registered EXCEPT ![query_id_counter] = "query"]
    /\ cfgPc' = "publish"
    /\ UNCHANGED <<command, asked, reply, output, prompt, result,
                   temp_mq, inbox, ifVars, stopVars>>

\* Take the next id and register it; an id that is registered is refused.
RegisterQuery ==
    /\ cfgPc = "register"
    /\ temp_module_id' = query_id_counter
    /\ query_id_counter' = (query_id_counter + 1) % IdSpace
    /\ IF registered[query_id_counter] = "none"
       THEN /\ registered' = [registered EXCEPT ![query_id_counter] = "query"]
            /\ cfgPc' = "publish"
            /\ UNCHANGED result
       ELSE Failed /\ UNCHANGED registered
    /\ UNCHANGED <<command, asked, reply, output, prompt, temp_mq, inbox, ifVars, stopVars>>

\* Publish to the IF module; when it is not subscribed the query is abandoned.
PublishQuery ==
    /\ cfgPc = "publish"
    /\ IF subscribed
       THEN /\ inbox' = Append(inbox, [type |-> asked, command |-> command,
                                       sender |-> temp_module_id, part |-> Len(output) + 1])
            /\ cfgPc' = "poll"
            /\ UNCHANGED reply
       ELSE /\ reply' = NoReply
            /\ cfgPc' = "unregister"
            /\ UNCHANGED inbox
    /\ UNCHANGED <<command, asked, output, prompt, result, queryVars, temp_mq, ifVars, stopVars>>

\* poll returns because there is an answer,
PollReady ==
    /\ cfgPc = "poll" /\ temp_mq # <<>>
    /\ reply' = Head(temp_mq)
    /\ temp_mq' = Tail(temp_mq)
    /\ cfgPc' = "unregister"
    /\ UNCHANGED <<command, asked, output, prompt, result, queryVars, inbox, ifVars, stopVars>>

\* Mutant: a timeout sends the message again.
PollRetry ==
    /\ cfgPc = "poll" /\ temp_mq = <<>>
    /\ cfgPc' = "publish"
    /\ UNCHANGED <<reply, command, asked, output, prompt, result, queryVars, temp_mq,
                   inbox, ifVars, stopVars>>

\* Mutant: poll is given no timeout.
PollForever == cfgPc = "poll" /\ FALSE /\ UNCHANGED vars

\* or because five seconds have passed.
PollTimeout ==
    /\ cfgPc = "poll" /\ temp_mq = <<>>
    /\ reply' = NoReply
    /\ cfgPc' = "unregister"
    /\ UNCHANGED <<command, asked, output, prompt, result, queryVars, temp_mq,
                   inbox, ifVars, stopVars>>

(***************************************************************************)
(* The query unregisters its id and destroys its inbox, with whatever       *)
(* arrived late in it, and the loop of nn_cli_dispatch_to_module goes on    *)
(* according to what the query returned.                                   *)
(***************************************************************************)
AskForMore == asked' = "CONTINUE" /\ cfgPc' = "register" /\ UNCHANGED result

Succeeded == /\ result' = [result EXCEPT ![command.n] = "ok"]
             /\ cfgPc' = "idle"
             /\ UNCHANGED asked

FinishQuery ==
    /\ cfgPc = "unregister"
    /\ registered' = [registered EXCEPT ![temp_module_id] = "none"]
    /\ temp_mq' = <<>>
    /\ \/ /\ reply.type = "none"
          /\ Failed /\ UNCHANGED <<asked, output, prompt>>
       \/ /\ reply.type = "VIEW_CHG"
          /\ prompt' = [prompt EXCEPT ![command.session] = reply.iface]
          /\ Succeeded /\ UNCHANGED output
       \/ /\ reply.type = "RESP"
          /\ output' = Append(output, reply.text)
          /\ Succeeded /\ UNCHANGED prompt
       \/ /\ reply.type = "RESP_MORE"
          /\ output' = Append(output, reply.text)
          /\ AskForMore /\ UNCHANGED prompt
    /\ UNCHANGED <<command, reply, query_id_counter, temp_module_id, inbox, ifVars, stopVars>>

(***************************************************************************)
(* The IF worker                                                           *)
(***************************************************************************)

\* What the history records of a command that was carried out.
Done(c, acted, chunks) == [command |-> c, acted |-> acted, chunks |-> chunks]

\* The sender 0 is not answered, and what handle_default_resp would have kept
\* along with the answer is not kept either.
Answered(m) == m.sender # 0

\* Mutant: the selection is made once and kept.
SelectOnce(m) ==
    /\ m.command.op = "interface"
    /\ LET c == m.command IN
       /\ current_interface' = IF current_interface = 0 /\ Answered(m)
                               THEN c.iface ELSE current_interface
       /\ performed' = Append(performed, Done(c, IF Answered(m) THEN c.iface ELSE 0, 1))
       /\ answer' = [sender |-> m.sender,
                     msg |-> Response("VIEW_CHG", NoText, c.iface, <<c.n, m.part>>)]
    /\ UNCHANGED <<show_cache, batch_offset>>

\* handle_interface_cmd, which fails when the kernel does not know the interface,
\* and the selection and the view change in handle_default_resp.
SelectInterface(m) ==
    /\ m.command.op = "interface"
    /\ \E ok \in BOOLEAN :
         LET c == m.command
             selects == ok /\ Answered(m)
         IN
         /\ current_interface' = IF selects THEN c.iface ELSE current_interface
         /\ performed' = Append(performed, Done(c, IF selects THEN c.iface ELSE 0, 1))
         /\ answer' = [sender |-> m.sender,
                       msg |-> Response(IF ok THEN "VIEW_CHG" ELSE "RESP", NoText,
                                        IF ok THEN c.iface ELSE 0, <<c.n, m.part>>)]
    /\ UNCHANGED <<show_cache, batch_offset>>

\* handle_config_cmd acts on the interface selected last, by whatever session.
ShutInterface(m) ==
    /\ m.command.op = "shutdown"
    /\ performed' = Append(performed, Done(m.command, current_interface, 1))
    /\ answer' = [sender |-> m.sender,
                  msg |-> Response("RESP", NoText, 0, <<m.command.n, m.part>>)]
    /\ UNCHANGED ifState

\* if_cli_chunk_output from a cache, given how many chunks went before; the
\* cache is freed once its last chunk has been copied.
SendChunk(m, cache, offset) ==
    LET more == offset + 1 < cache.chunks IN
    /\ show_cache' = IF more THEN cache ELSE NoCache
    /\ answer' = [sender |-> m.sender,
                  msg |-> Response(IF more THEN "RESP_MORE" ELSE "RESP",
                                   [show |-> cache.show, part |-> offset + 1], 0,
                                   <<m.command.n, m.part>>)]

\* Mutant: a cache that is still there is sent on from where it was.
ShowFromCache(m) ==
    /\ m.command.op = "show"
    /\ \E chunks \in 1..MaxChunks :
         /\ IF show_cache = NoCache
            THEN SendChunk(m, [show |-> m.command.n, chunks |-> chunks], 0)
            ELSE SendChunk(m, show_cache, batch_offset)
         /\ batch_offset' = IF show_cache = NoCache THEN 1 ELSE batch_offset + 1
         /\ performed' = Append(performed, Done(m.command, 0, chunks))
    /\ UNCHANGED current_interface

\* handle_show_cmd makes the whole output anew and sends its first chunk; that
\* one chunk has gone is noted with the answer, when there is more to send.
ShowInterfaces(m) ==
    /\ m.command.op = "show"
    /\ \E chunks \in 1..MaxChunks :
         /\ SendChunk(m, [show |-> m.command.n, chunks |-> chunks], 0)
         /\ batch_offset' = IF chunks > 1 /\ Answered(m) THEN 1 ELSE 0
         /\ performed' = Append(performed, Done(m.command, 0, chunks))
    /\ UNCHANGED current_interface

\* nn_if_cli_handle_message; nobody is answered under the id 0.
HandleCli ==
    /\ ifPc = "receive" /\ inbox # <<>>
    /\ LET m == Head(inbox) IN
       /\ m.type = "CLI"
       /\ SelectInterface(m) \/ ShutInterface(m) \/ ShowInterfaces(m)
       /\ ifPc' = IF Answered(m) THEN "respond" ELSE "receive"
    /\ inbox' = Tail(inbox)
    /\ UNCHANGED <<cfgVars, queryVars, temp_mq, stopVars>>

\* nn_if_cli_handle_continue: the next chunk, or an empty answer when there is
\* nothing left; it does not look at who asks.
HandleContinue ==
    /\ ifPc = "receive" /\ inbox # <<>>
    /\ LET m == Head(inbox) IN
       /\ m.type = "CONTINUE"
       /\ IF batch_offset < show_cache.chunks
          THEN SendChunk(m, show_cache, batch_offset) /\ batch_offset' = batch_offset + 1
          ELSE /\ answer' = [sender |-> m.sender,
                             msg |-> Response("RESP", NoText, 0, <<m.command.n, m.part>>)]
               /\ UNCHANGED <<show_cache, batch_offset>>
    /\ ifPc' = "respond"
    /\ inbox' = Tail(inbox)
    /\ UNCHANGED <<current_interface, performed, cfgVars, queryVars, temp_mq, stopVars>>

\* nn_dev_pubsub_send_response: an id that is gone is not answered.
Respond ==
    /\ ifPc = "respond"
    /\ temp_mq' = IF registered[answer.sender] = "query"
                  THEN Append(temp_mq, answer.msg) ELSE temp_mq
    /\ answer' = NoAnswer
    /\ ifPc' = "receive"
    /\ UNCHANGED <<cfgVars, queryVars, inbox, ifState, performed, stopVars>>

(***************************************************************************)
(* Shutdown                                                                *)
(***************************************************************************)

RequestShutdown ==
    /\ ~shutdown
    /\ shutdown' = TRUE
    /\ UNCHANGED <<cfgVars, queryVars, temp_mq, inbox, ifVars, subscribed>>

\* The worker's loop ends with nothing left to receive; what is sent to it from
\* now on is never handled.
IfExits ==
    /\ shutdown
    /\ ifPc = "receive" /\ inbox = <<>>
    /\ ifPc' = "exited"
    /\ UNCHANGED <<cfgVars, queryVars, temp_mq, inbox, answer, ifState, performed, stopVars>>

\* nn_if_cleanup_local, which runs before the cleanup of the CFG module.
IfUnregisters ==
    /\ shutdown /\ subscribed
    /\ subscribed' = FALSE
    /\ registered' = [registered EXCEPT ![IfModule] = "none"]
    /\ UNCHANGED <<cfgVars, query_id_counter, temp_module_id, temp_mq, inbox, ifVars, shutdown>>

\* The server thread looks at the flag between two rounds of events.
CfgExits ==
    /\ shutdown
    /\ cfgPc = "idle"
    /\ cfgPc' = "exited"
    /\ UNCHANGED <<command, asked, reply, output, prompt, result,
                   queryVars, temp_mq, inbox, ifVars, stopVars>>

------------------------------------------------------------------------------

QueryStep == RegisterQuery \/ PublishQuery \/ PollReady \/ PollTimeout \/ FinishQuery
IfStep    == HandleCli \/ HandleContinue \/ Respond
Stop      == RequestShutdown \/ IfExits \/ IfUnregisters \/ CfgExits

Next == \/ \E s \in Sessions : Type(s) \/ Exit(s)
        \/ QueryStep \/ IfStep \/ Stop

\* The CFG thread runs on, its poll times out.  Nothing is assumed of the IF
\* worker, which may be stuck in the kernel for as long as it likes.
Spec == Init /\ [][Next]_vars /\ WF_vars(QueryStep)

------------------------------------------------------------------------------
(***************************************************************************)
(* Properties                                                              *)
(***************************************************************************)

Ids       == 0..(IdSpace - 1)
Texts     == [show : 0..MaxCommands, part : 0..MaxChunks]
Command   == [n : 0..MaxCommands, session : Sessions \cup {0},
              op : {"none", "interface", "shutdown", "show"}, iface : Interfaces \cup {0}]
Responses == [type : {"none", "VIEW_CHG", "RESP", "RESP_MORE"}, text : Texts,
              iface : Interfaces \cup {0}, to : (0..MaxCommands) \X (0..MaxChunks)]

\* The id counter wraps into the ids of the modules: no query ever takes the id
\* of a module away from it, and the id of a finished query is free again.
ModulesKeepTheirIds ==
    /\ \A m \in Permanent : registered[m] = "module" \/ (shutdown /\ ~subscribed /\ m = IfModule)
    /\ \A i \in Ids : registered[i] = "query" =>
           i = temp_module_id /\ cfgPc \in {"publish", "poll", "unregister"}

\* Every variable has its type, and every id the owner it should have.
TypeOK ==
    /\ cfgPc \in {"idle", "register", "publish", "poll", "unregister", "exited"}
    /\ command \in Command
    /\ asked \in {"CLI", "CONTINUE"}
    /\ reply \in Responses
    /\ output \in Seq(Texts)
    /\ prompt \in [Sessions -> Interfaces \cup {0}]
    /\ query_id_counter \in Ids /\ temp_module_id \in Ids
    /\ temp_mq \in Seq(Responses)
    /\ registered \in [Ids -> {"module", "query", "none"}]
    /\ ModulesKeepTheirIds
    /\ subscribed \in BOOLEAN /\ shutdown \in BOOLEAN
    /\ ifPc \in {"receive", "respond", "exited"}
    /\ inbox \in Seq([type : {"CLI", "CONTINUE"}, command : Command, sender : Ids,
                      part : 1..MaxChunks])
    /\ answer \in [sender : Ids, msg : Responses]
    /\ current_interface \in Interfaces \cup {0}
    /\ show_cache \in [show : 0..MaxCommands, chunks : 0..MaxChunks]
    /\ batch_offset \in 0..MaxChunks
    /\ result \in [1..MaxCommands -> {"none", "failed", "ok"}]
    /\ performed \in Seq([command : Command, acted : Interfaces \cup {0},
                          chunks : 1..MaxChunks])

\* No cross-talk: the answer a query returns answers the message this query
\* sent, however many earlier queries timed out and are answered late.
NoCrossTalk ==
    cfgPc = "unregister" /\ reply # NoReply => reply.to = <<command.n, Len(output) + 1>>

\* The output of a show that succeeded is all of one output, chunk by chunk, and
\* it was made for this show: the cache and offset left behind by a show that
\* was given up never leak into a later one.
Finished(n) == cfgPc = "idle" /\ command.n = n /\ n > 0 /\ result[n] = "ok"

WholeShow ==
    Finished(command.n) /\ command.op = "show" =>
        \E i \in DOMAIN performed :
            /\ performed[i].command = command
            /\ output = [p \in 1..performed[i].chunks |-> [show |-> command.n, part |-> p]]

\* Commands are carried out in the order they were typed and none twice, and one
\* that is reported as done has been carried out.  (One that is reported as
\* failed may be carried out all the same, later.)
PerformedInOrder ==
    /\ \A i, j \in DOMAIN performed :
           i < j => performed[i].command.n < performed[j].command.n
    /\ \A n \in 1..MaxCommands :
           result[n] = "ok" => \E i \in DOMAIN performed : performed[i].command.n = n

\* The k-th command carried out selected an interface, for session s.
SelectsFor(s, k) ==
    /\ performed[k].command.op = "interface" /\ performed[k].acted # 0
    /\ performed[k].command.session = s

\* Of the first n commands, another session's selected interface i, and none
\* after it has selected for session s.
SelectedByAnother(s, i, n) ==
    \E j \in 1..n : /\ performed[j].acted = i
                    /\ \E t \in Sessions \ {s} : SelectsFor(t, j)
                    /\ \A k \in j..n : ~SelectsFor(s, k)

\* A "shutdown" typed at the prompt of an interface acts on that interface,
\* unless another session has selected one since its own session selected this
\* one: whatever times out, is answered late or is carried out late, a session
\* is never led astray by itself (g_current_interface, nn_if_cli.c:122-123).
OnlyOthersDivert ==
    \A n \in DOMAIN performed :
        LET p == performed[n] IN
        p.command.op = "shutdown" =>
            \/ p.acted = p.command.iface
            \/ SelectedByAnother(p.command.session, p.acted, n - 1)

\* The README's "Handles multiple concurrent client connections", of the
\* interface views: a "shutdown" acts on the interface its prompt shows.
ActsOnPromptedInterface ==
    \A n \in DOMAIN performed :
        performed[n].command.op = "shutdown" => performed[n].acted = performed[n].command.iface

\* A command always ends, and with it the wait of every other session, even when
\* the IF worker is stuck, has exited, or never answers the id 0.
CommandEnds == cfgPc \notin {"idle", "exited"} ~> cfgPc = "idle"
==============================================================================
