--------------------------- MODULE CliQuery_proofs ---------------------------
(***************************************************************************)
(* A command on its way through the daemon, for any number of sessions and  *)
(* commands and shows of any length: a query is answered about the message  *)
(* it sent, what is reported as done has been carried out once and in its   *)
(* turn, and a show that succeeds is whole and of one moment.              *)
(*                                                                         *)
(* Two facts carry the proof.  An id drawn for a query is not drawn again   *)
(* while an earlier one with it may still be answered, since the counter    *)
(* does not come round; so an answer that reaches the inbox of the query    *)
(* was made for it.  And when that answer is on its way the IF worker has   *)
(* nothing else to do, so what it keeps (the interface selected, the rest   *)
(* of a show) is still as the answer says when the next message is sent.   *)
(*                                                                         *)
(* A session at the prompt of an interface has no selection of its own      *)
(* queued, so only another session's can come between it and its commands.  *)
(***************************************************************************)
EXTENDS CliQuery, SequenceTheorems, TLAPS

\* A command is on its way; its query is registered.
Active   == cfgPc \in {"register", "publish", "poll", "unregister"}
Querying == cfgPc \in {"publish", "poll", "unregister"}

\* Which draw of the counter an id is.
Draw(id) == IF id >= FirstId THEN id - FirstId ELSE id - FirstId + IdSpace
Drawn    == Draw(query_id_counter)

\* Each command draws an id per part of its output at most, so none comes round.
DrawsAreBounded ==
    Drawn <= IF Active THEN MaxChunks * (command.n - 1) + Len(output)
                              + (IF Querying THEN 1 ELSE 0)
                       ELSE MaxChunks * command.n

\* Whoever still waits for its turn or its answer has an id drawn before.
SendersAreDrawn ==
    /\ Querying => registered[temp_module_id] = "query" /\ Draw(temp_module_id) < Drawn
    /\ \A j \in DOMAIN inbox : Draw(inbox[j].sender) < Drawn
    /\ ifPc = "respond" => Draw(answer.sender) < Drawn

Part == Len(output) + 1

\* What is known of the command being dispatched.
CommandInv ==
    Active => /\ command.n \in 1..MaxCommands /\ command.session \in Sessions
              /\ command.op # "none"
              /\ Part <= MaxChunks
              /\ asked = "CLI" => output = <<>>
              /\ asked = "CONTINUE" => command.op = "show"
              /\ command.op = "show" =>
                   \A p \in DOMAIN output : output[p] = [show |-> command.n, part |-> p]

\* Commands reach the worker in the order they were typed.
NotYetSent == cfgPc \in {"register", "publish"} /\ asked = "CLI"
LastSent   == IF NotYetSent THEN command.n - 1 ELSE command.n

Queued(j) == inbox[j].type = "CLI"

OrderInv ==
    /\ \A i, j \in DOMAIN performed : i < j => performed[i].command.n < performed[j].command.n
    /\ \A i \in DOMAIN performed : performed[i].command.n <= LastSent
    /\ \A j \in DOMAIN inbox : inbox[j].command.n <= LastSent
    /\ \A i, j \in DOMAIN inbox :
         i < j /\ Queued(i) /\ Queued(j) => inbox[i].command.n < inbox[j].command.n
    /\ \A i \in DOMAIN performed, j \in DOMAIN inbox :
         Queued(j) => performed[i].command.n < inbox[j].command.n

\* What the IF module did last, for which command.
Latest == performed[Len(performed)]
IsLatest == performed # <<>> /\ Latest.command = command

\* The cache holds the rest of the show under way, after p chunks.
CacheAt(p) ==
    /\ p < Latest.chunks /\ batch_offset = p
    /\ show_cache = [show |-> command.n, chunks |-> Latest.chunks]

\* A message or an answer of the query under way.
Mine(id) == Querying /\ id = temp_module_id

\* The answer to the query under way: the IF module has nothing else to do, and
\* keeps the rest of a show for the next query.
GoodReply(r) ==
    /\ cfgPc \in {"poll", "unregister"}
    /\ inbox = <<>> /\ IsLatest
    /\ r.to = <<command.n, Part>>
    /\ command.op = "show" =>
         /\ r.text = [show |-> command.n, part |-> Part]
         /\ \/ r.type = "RESP" /\ Part = Latest.chunks
            \/ r.type = "RESP_MORE" /\ CacheAt(Part)
    /\ command.op # "show" => r.type \in {"VIEW_CHG", "RESP"}
    /\ r.type = "VIEW_CHG" => command.op = "interface" /\ r.iface = current_interface

QueryInv ==
    /\ \A j \in DOMAIN inbox : Mine(inbox[j].sender) =>
         /\ cfgPc \in {"poll", "unregister"} /\ j = Len(inbox)
         /\ inbox[j] = [type |-> asked, command |-> command, sender |-> temp_module_id,
                        part |-> Part]
         /\ asked = "CONTINUE" => Len(inbox) = 1 /\ IsLatest /\ CacheAt(Len(output))
    /\ asked = "CONTINUE" /\ cfgPc \in {"register", "publish"} =>
         inbox = <<>> /\ IsLatest /\ CacheAt(Len(output))
    /\ ifPc = "respond" /\ Mine(answer.sender) => GoodReply(answer.msg)
    /\ \A i \in DOMAIN temp_mq : GoodReply(temp_mq[i])
    /\ cfgPc = "unregister" => reply = NoReply \/ GoodReply(reply)

ReportInv ==
    /\ \A n \in 1..MaxCommands :
         result[n] = "ok" => \E i \in DOMAIN performed : performed[i].command.n = n
    /\ WholeShow

IInv ==
    /\ TypeOK
    /\ DrawsAreBounded
    /\ SendersAreDrawn
    /\ CommandInv
    /\ OrderInv
    /\ QueryInv
    /\ ReportInv

\* "shutdown" typed by session s at interface i would act on i, or on what
\* another session has selected since s selected i.
Follows(s, i) ==
    \/ current_interface = i
    \/ SelectedByAnother(s, current_interface, Len(performed))

\* A session at the prompt of an interface has no selection of its own pending.
PromptInv ==
    /\ \A s \in Sessions : prompt[s] # 0 =>
         /\ Follows(s, prompt[s])
         /\ \A j \in DOMAIN inbox :
              ~(inbox[j].command.op = "interface" /\ inbox[j].command.session = s)
         /\ Active => ~(command.op = "interface" /\ command.session = s)
    /\ cfgPc \in {"register", "publish"} /\ command.op = "shutdown" =>
         prompt[command.session] = command.iface /\ command.iface # 0
    /\ cfgPc \in {"register", "publish"} /\ command.op = "interface" => command.iface # 0
    /\ \A j \in DOMAIN inbox :
         /\ inbox[j].command.session \in Sessions
         /\ inbox[j].command.op = "interface" => inbox[j].command.iface # 0
    /\ \A j \in DOMAIN inbox : inbox[j].command.op = "shutdown" =>
         LET c == inbox[j].command IN
         /\ Follows(c.session, c.iface)
         /\ \A i \in 1..(j - 1) :
              ~(inbox[i].command.op = "interface" /\ inbox[i].command.session = c.session)
    /\ OnlyOthersDivert

Message == [type : {"CLI", "CONTINUE"}, command : Command, sender : Ids, part : 1..MaxChunks]
Record  == [command : Command, acted : Interfaces \cup {0}, chunks : 1..MaxChunks]

------------------------------------------------------------------------------
(***************************************************************************)
(* The counter of ids                                                      *)
(***************************************************************************)

LEMMA DrawIsInjective ==
    /\ \A id \in Ids : Draw(id) \in 0..(IdSpace - 1)
    /\ \A i, j \in Ids : Draw(i) = Draw(j) => i = j
  BY CliQueryAssumption DEF Draw, Ids

\* The next id is one draw further, until all have been drawn.
LEMMA NextDraw ==
    ASSUME NEW id \in Ids, Draw(id) + 1 < IdSpace
    PROVE  (id + 1) % IdSpace \in Ids /\ Draw((id + 1) % IdSpace) = Draw(id) + 1
  <1>1. /\ IdSpace \in Nat \ {0} /\ FirstId \in 0..(IdSpace - 1) /\ id \in 0..(IdSpace - 1)
    BY CliQueryAssumption DEF Ids
  <1>2. (id + 1) % IdSpace = IF id + 1 < IdSpace THEN id + 1 ELSE 0
    <2>1. CASE id + 1 < IdSpace
      BY <1>1, <2>1, SMT
    <2>2. CASE id + 1 = IdSpace
      BY <1>1, <2>2, SMT
    <2> QED BY <1>1, <2>1, <2>2
  <1> QED BY <1>1, <1>2 DEF Draw, Ids

\* All the commands together draw fewer ids than there are.
LEMMA EnoughDraws ==
    ASSUME NEW n \in 1..MaxCommands
    PROVE  /\ MaxChunks * n \in Nat /\ MaxChunks * (n - 1) \in Nat
           /\ MaxChunks * (n - 1) + MaxChunks = MaxChunks * n
           /\ MaxChunks * n < IdSpace
  <1>1. MaxChunks \in Nat /\ MaxCommands \in Nat /\ n \in Nat /\ n <= MaxCommands
        /\ MaxCommands * MaxChunks < IdSpace /\ IdSpace \in Nat
    BY CliQueryAssumption
  <1>2. MaxChunks * n \in Nat /\ MaxChunks * (n - 1) \in Nat
    BY <1>1
  <1>3. MaxChunks * (n - 1) + MaxChunks = MaxChunks * n
    BY <1>1
  <1>4. MaxChunks * n <= MaxCommands * MaxChunks
    <2>1. MaxChunks * MaxCommands = MaxChunks * n + MaxChunks * (MaxCommands - n)
      BY <1>1
    <2>2. MaxChunks * (MaxCommands - n) \in Nat /\ MaxChunks * MaxCommands = MaxCommands * MaxChunks
      BY <1>1
    <2> QED BY <1>1, <1>2, <2>1, <2>2
  <1> QED BY <1>1, <1>2, <1>3, <1>4

------------------------------------------------------------------------------
(***************************************************************************)
(* Types, and what is left alone                                           *)
(***************************************************************************)

LEMMA TextKinds ==
    ASSUME NEW n \in 0..MaxCommands, NEW p \in 0..MaxChunks
    PROVE  /\ [show |-> n, part |-> p] \in Texts
           /\ NoText \in Texts
           /\ NoCache \in [show : 0..MaxCommands, chunks : 0..MaxChunks]
  BY CliQueryAssumption DEF Texts, NoText, NoCache

LEMMA ResponseKinds ==
    ASSUME NEW type \in {"none", "VIEW_CHG", "RESP", "RESP_MORE"}, NEW text \in Texts,
           NEW iface \in Interfaces \cup {0}, NEW to \in (0..MaxCommands) \X (0..MaxChunks)
    PROVE  /\ Response(type, text, iface, to) \in Responses
           /\ Response(type, text, iface, to).type = type
           /\ Response(type, text, iface, to).text = text
           /\ Response(type, text, iface, to).iface = iface
           /\ Response(type, text, iface, to).to = to
  BY DEF Response, Responses

LEMMA NoReplyType == NoReply \in Responses /\ NoReply.type = "none"
  <1>1. /\ 0 \in 0..MaxCommands /\ 0 \in 0..MaxChunks /\ NoText \in Texts
        /\ <<0, 0>> \in (0..MaxCommands) \X (0..MaxChunks)
    BY CliQueryAssumption DEF Texts, NoText
  <1> QED BY <1>1, ResponseKinds DEF NoReply

\* An answer stays good while the IF module does nothing and the query goes on.
LEMMA GoodStays ==
    ASSUME UNCHANGED <<inbox, performed, command, output, show_cache, batch_offset,
                       current_interface>>,
           cfgPc' \in {"poll", "unregister"},
           NEW r, GoodReply(r)
    PROVE  GoodReply(r)'
  BY DEF GoodReply, IsLatest, Latest, CacheAt, Part

\* The inbox of the query is empty before it is polled.
LEMMA NothingReceived ==
    ASSUME TypeOK, QueryInv, cfgPc \notin {"poll", "unregister"}
    PROVE  temp_mq = <<>> /\ DOMAIN temp_mq = {}
  <1>1. DOMAIN temp_mq = {}
    BY DEF QueryInv, GoodReply
  <1>2. temp_mq \in Seq(Responses)
    BY DEF TypeOK
  <1> QED BY <1>1, <1>2

\* Nothing is sent and nothing carried out.
LEMMA OrderStays ==
    ASSUME OrderInv, UNCHANGED <<inbox, performed>>, TypeOK, LastSent \in Int, LastSent' \in Int,
           LastSent <= LastSent'
    PROVE  OrderInv'
  <1>1. /\ \A i \in DOMAIN performed : performed[i].command.n \in Nat
        /\ \A j \in DOMAIN inbox : inbox[j].command.n \in Nat
    <2>1. performed \in Seq(Record) /\ inbox \in Seq(Message)
      BY Zenon DEF TypeOK, Record, Message
    <2>2. /\ \A i \in DOMAIN performed : performed[i] \in Record
          /\ \A j \in DOMAIN inbox : inbox[j] \in Message
      BY <2>1
    <2> QED BY <2>2 DEF Record, Message, Command
  <1> QED BY <1>1 DEF OrderInv, Queued

LEMMA ReportStays ==
    ASSUME ReportInv, UNCHANGED <<performed, result, command, output>>,
           cfgPc' = "idle" => cfgPc = "idle"
    PROVE  ReportInv'
  BY DEF ReportInv, WholeShow, Finished

LEMMA InitInv == Init => IInv
  <1> SUFFICES ASSUME Init PROVE IInv
    OBVIOUS
  <1> USE CliQueryAssumption DEF Init
  <1>1. TypeOK
    <2>1. 0 \in 0..MaxCommands /\ 0 \in 0..MaxChunks
      OBVIOUS
    <2>2. command \in Command
      BY <2>1 DEF NoCommand, Command
    <2>3. reply \in Responses /\ answer \in [sender : Ids, msg : Responses]
      BY NoReplyType DEF NoAnswer, Ids
    <2>4. show_cache \in [show : 0..MaxCommands, chunks : 0..MaxChunks]
      BY <2>1, TextKinds
    <2>5. registered \in [Ids -> {"module", "query", "none"}] /\ ModulesKeepTheirIds
      BY DEF Ids, ModulesKeepTheirIds
    <2>6. query_id_counter \in Ids /\ temp_module_id \in Ids
      BY DEF Ids
    <2>7. /\ cfgPc \in {"idle", "register", "publish", "poll", "unregister", "exited"}
          /\ asked \in {"CLI", "CONTINUE"} /\ ifPc \in {"receive", "respond", "exited"}
          /\ subscribed \in BOOLEAN /\ shutdown \in BOOLEAN
          /\ current_interface \in Interfaces \cup {0} /\ batch_offset \in 0..MaxChunks
      BY <2>1
    <2>8. /\ output \in Seq(Texts) /\ temp_mq \in Seq(Responses)
          /\ inbox \in Seq(Message) /\ performed \in Seq(Record)
      OBVIOUS
    <2>9. /\ prompt \in [Sessions -> Interfaces \cup {0}]
          /\ result \in [1..MaxCommands -> {"none", "failed", "ok"}]
      OBVIOUS
    <2> HIDE DEF Init
    <2> QED BY <2>2, <2>3, <2>4, <2>5, <2>6, <2>7, <2>8, <2>9, Zenon DEF TypeOK, Message, Record
  <1>2. DrawsAreBounded
    BY DEF DrawsAreBounded, Drawn, Draw, Active, Querying, NoCommand
  <1>3. SendersAreDrawn
    BY DEF SendersAreDrawn, Querying
  <1>4. CommandInv
    BY DEF CommandInv, Active
  <1>5. OrderInv
    BY DEF OrderInv
  <1>6. QueryInv
    BY DEF QueryInv
  <1>7. ReportInv
    BY DEF ReportInv, WholeShow, Finished, NoCommand
  <1> QED BY <1>1, <1>2, <1>3, <1>4, <1>5, <1>6, <1>7 DEF IInv

LEMMA Numbers ==
    ASSUME TypeOK
    PROVE  /\ command.n \in 0..MaxCommands
           /\ MaxCommands \in Nat /\ MaxChunks \in Nat \ {0} /\ IdSpace \in Nat \ {0}
           /\ Len(output) \in Nat /\ Part = Len(output) + 1
           /\ Drawn \in 0..(IdSpace - 1)
           /\ LastSent \in Int
  <1>1. command \in Command /\ query_id_counter \in Ids /\ output \in Seq(Texts)
    BY DEF TypeOK
  <1>2. command.n \in 0..MaxCommands /\ MaxCommands \in Nat
    BY <1>1, CliQueryAssumption DEF Command
  <1>3. Drawn \in 0..(IdSpace - 1)
    BY <1>1, DrawIsInjective DEF Drawn
  <1>4. Len(output) \in Nat
    BY <1>1
  <1> QED BY <1>2, <1>3, <1>4, CliQueryAssumption DEF LastSent, Part

------------------------------------------------------------------------------
(***************************************************************************)
(* The CFG thread                                                          *)
(***************************************************************************)

LEMMA TypeStep ==
    ASSUME IInv, NEW s \in Sessions, Type(s)
    PROVE  IInv'
  <1>1. /\ cfgPc = "idle" /\ command.n < MaxCommands /\ command' \in Commands(s)
        /\ asked' = "CLI" /\ output' = <<>> /\ reply' = NoReply /\ cfgPc' = "register"
        /\ UNCHANGED <<prompt, result, query_id_counter, temp_module_id, registered, temp_mq, inbox,
                       ifPc, answer, current_interface, show_cache, batch_offset, performed,
                       subscribed, shutdown>>
    BY DEF Type, queryVars, ifVars, ifState, stopVars
  <1>2. TypeOK /\ OrderInv /\ QueryInv /\ ReportInv /\ DrawsAreBounded /\ SendersAreDrawn
    BY DEF IInv
  <1>3. /\ command' \in Command /\ command'.n = command.n + 1 /\ command'.session = s
        /\ command'.op # "none"
    <2>1. prompt[s] \in Interfaces \cup {0}
      BY <1>2 DEF TypeOK
    <2>2. command.n + 1 \in 0..MaxCommands
      BY <1>1, <1>2, Numbers
    <2>3. PICK op \in {"show", "interface", "shutdown"}, i \in Interfaces \cup {0} :
            command' = [n |-> command.n + 1, session |-> s, op |-> op, iface |-> i]
      BY <1>1, <2>1 DEF Commands
    <2> QED BY <2>2, <2>3 DEF Command
  <1>4. TypeOK'
    BY <1>1, <1>2, <1>3, NoReplyType DEF TypeOK, ModulesKeepTheirIds
  <1>5. Len(output') = 0 /\ Len(output) \in Nat /\ command.n \in Nat /\ MaxCommands \in Nat
        /\ MaxChunks \in Nat \ {0}
    BY <1>1, <1>2, Numbers
  <1>6. DrawsAreBounded'
    BY <1>1, <1>2, <1>3, <1>5 DEF DrawsAreBounded, Drawn, Active, Querying
  <1>7. SendersAreDrawn'
    BY <1>1, <1>2 DEF SendersAreDrawn, Querying, Drawn
  <1>8. CommandInv'
    BY <1>1, <1>3, <1>5 DEF CommandInv, Part
  <1>9. OrderInv'
    BY <1>1, <1>2, <1>3, <1>5, OrderStays DEF LastSent, NotYetSent
  <1>10. QueryInv'
    BY <1>1, <1>2, NothingReceived DEF QueryInv, Mine, Querying
  <1>11. ReportInv'
    BY <1>1, <1>2 DEF ReportInv, WholeShow, Finished
  <1> QED BY <1>4, <1>6, <1>7, <1>8, <1>9, <1>10, <1>11 DEF IInv

\* What one thread does beside a command: "exit", and the daemon's shutdown.
LEMMA QuietStep ==
    ASSUME IInv, TypeOK',
           UNCHANGED <<command, asked, reply, output, result, query_id_counter, temp_module_id,
                       temp_mq, inbox, answer, current_interface, show_cache, batch_offset,
                       performed>>,
           cfgPc' = cfgPc \/ (cfgPc = "idle" /\ cfgPc' = "exited"),
           ifPc' = ifPc \/ ifPc' = "exited",
           registered'[temp_module_id] = registered[temp_module_id] \/ ~Querying
    PROVE  IInv'
  <1>1. TypeOK /\ OrderInv /\ QueryInv /\ ReportInv /\ DrawsAreBounded /\ SendersAreDrawn
        /\ CommandInv
    BY DEF IInv
  <1>2. DrawsAreBounded'
    BY <1>1 DEF DrawsAreBounded, Drawn, Active, Querying
  <1>3. SendersAreDrawn'
    BY <1>1 DEF SendersAreDrawn, Querying, Drawn
  <1>4. CommandInv'
    BY <1>1 DEF CommandInv, Active, Part
  <1>5. OrderInv'
    BY <1>1, Numbers, OrderStays DEF LastSent, NotYetSent
  <1>6. QueryInv'
    <2>1. CASE cfgPc' = cfgPc
      BY <1>1, <2>1 DEF QueryInv, Mine, Querying, GoodReply, IsLatest, Latest, CacheAt, Part
    <2>2. CASE cfgPc = "idle" /\ cfgPc' = "exited"
      BY <1>1, <2>2, NothingReceived DEF QueryInv, Mine, Querying
    <2> QED BY <2>1, <2>2
  <1>7. ReportInv'
    BY <1>1, ReportStays
  <1> QED BY <1>2, <1>3, <1>4, <1>5, <1>6, <1>7 DEF IInv

LEMMA ExitStep ==
    ASSUME IInv, NEW s \in Sessions, Exit(s)
    PROVE  IInv'
  <1>1. TypeOK
    BY DEF IInv
  <1>2. TypeOK'
    BY <1>1 DEF Exit, queryVars, ifVars, ifState, stopVars, TypeOK, ModulesKeepTheirIds
  <1> QED BY <1>2, QuietStep DEF Exit, queryVars, ifVars, ifState, stopVars

LEMMA StopStep ==
    ASSUME IInv, Stop
    PROVE  IInv'
  <1>1. TypeOK /\ SendersAreDrawn
    BY DEF IInv
  <1> USE DEF cfgVars, queryVars, ifVars, ifState, stopVars
  <1>2. CASE RequestShutdown
    <2>1. TypeOK'
      BY <1>1, <1>2 DEF RequestShutdown, TypeOK, ModulesKeepTheirIds
    <2> QED BY <1>2, <2>1, QuietStep DEF RequestShutdown
  <1>3. CASE IfExits
    <2>1. TypeOK'
      BY <1>1, <1>3 DEF IfExits, TypeOK, ModulesKeepTheirIds
    <2> QED BY <1>3, <2>1, QuietStep DEF IfExits
  <1>4. CASE IfUnregisters
    <2>1. IfModule \in Ids /\ registered[IfModule] = "module"
          /\ registered \in [Ids -> {"module", "query", "none"}]
      BY <1>1, <1>4, CliQueryAssumption DEF IfUnregisters, TypeOK, ModulesKeepTheirIds, Ids
    <2>2. \A i \in Ids : registered'[i] = IF i = IfModule THEN "none" ELSE registered[i]
      BY <1>4, <2>1 DEF IfUnregisters
    <2>3. ModulesKeepTheirIds'
      BY <1>1, <1>4, <2>2, CliQueryAssumption DEF IfUnregisters, TypeOK, ModulesKeepTheirIds, Ids
    <2>4. TypeOK'
      BY <1>1, <1>4, <2>3 DEF IfUnregisters, TypeOK
    <2>5. registered'[temp_module_id] = registered[temp_module_id] \/ ~Querying
      BY <1>1, <2>1, <2>2 DEF SendersAreDrawn, TypeOK
    <2> QED BY <1>4, <2>4, <2>5, QuietStep DEF IfUnregisters
  <1>5. CASE CfgExits
    <2>1. TypeOK'
      BY <1>1, <1>5 DEF CfgExits, TypeOK, ModulesKeepTheirIds
    <2> QED BY <1>5, <2>1, QuietStep DEF CfgExits
  <1> QED BY <1>2, <1>3, <1>4, <1>5 DEF Stop

\* The next id is a new one: nobody who is still to be answered has it.
LEMMA RegisterStep ==
    ASSUME IInv, RegisterQuery
    PROVE  IInv'
  <1>1. /\ cfgPc = "register" /\ temp_module_id' = query_id_counter
        /\ query_id_counter' = (query_id_counter + 1) % IdSpace
        /\ UNCHANGED <<command, asked, reply, output, prompt, temp_mq, inbox, ifPc, answer,
                       current_interface, show_cache, batch_offset, performed, subscribed, shutdown>>
        /\ \/ /\ registered[query_id_counter] = "none"
              /\ registered' = [registered EXCEPT ![query_id_counter] = "query"]
              /\ cfgPc' = "publish" /\ UNCHANGED result
           \/ /\ result' = [result EXCEPT ![command.n] = "failed"]
              /\ cfgPc' = "idle" /\ UNCHANGED registered
    BY DEF RegisterQuery, Failed, ifVars, ifState, stopVars
  <1>2. /\ TypeOK /\ OrderInv /\ QueryInv /\ ReportInv /\ DrawsAreBounded /\ SendersAreDrawn
        /\ CommandInv
    BY DEF IInv
  <1>3. /\ command.n \in 1..MaxCommands /\ Part <= MaxChunks
        /\ query_id_counter \in Ids /\ registered \in [Ids -> {"module", "query", "none"}]
        /\ result \in [1..MaxCommands -> {"none", "failed", "ok"}]
    BY <1>1, <1>2 DEF CommandInv, Active, TypeOK
  <1>4. Drawn <= MaxChunks * (command.n - 1) + Len(output) /\ Drawn + 1 <= MaxChunks * command.n
        /\ Drawn + 1 < IdSpace
    <2>1. Drawn <= MaxChunks * (command.n - 1) + Len(output)
      BY <1>1, <1>2, <1>3, Numbers, EnoughDraws DEF DrawsAreBounded, Active, Querying
    <2> DEFINE before == MaxChunks * (command.n - 1)
               after  == MaxChunks * command.n
    <2>2. before \in Nat /\ after \in Nat /\ before + MaxChunks = after /\ after < IdSpace
      BY <1>3, EnoughDraws
    <2>3. /\ Drawn \in Nat /\ Len(output) \in Nat /\ MaxChunks \in Nat /\ IdSpace \in Nat
          /\ Len(output) + 1 <= MaxChunks
      BY <1>2, <1>3, Numbers
    <2> HIDE DEF before, after
    <2>4. Drawn <= before + Len(output)
      BY <2>1 DEF before
    <2>5. Drawn + 1 <= after /\ Drawn + 1 < IdSpace
      BY <2>2, <2>3, <2>4
    <2> QED BY <2>1, <2>5 DEF after
  <1>5. query_id_counter' \in Ids /\ Drawn' = Drawn + 1 /\ Draw(query_id_counter) = Drawn
    BY <1>1, <1>3, <1>4, NextDraw DEF Drawn
  <1>6. DrawsAreBounded'
    <2>1. CASE cfgPc' = "publish"
      <3> DEFINE before == MaxChunks * (command.n - 1)
      <3>1. before \in Nat /\ Drawn \in Nat /\ Len(output) \in Nat
        BY <1>2, <1>3, Numbers, EnoughDraws
      <3>2. Drawn <= before + Len(output)
        BY <1>4
      <3> HIDE DEF before
      <3>3. Drawn' <= before + Len(output) + 1
        BY <1>5, <3>1, <3>2
      <3> QED BY <1>1, <2>1, <3>3 DEF DrawsAreBounded, Active, Querying, before
    <2>2. CASE cfgPc' = "idle"
      BY <1>1, <1>4, <1>5, <2>2 DEF DrawsAreBounded, Active, Querying
    <2> QED BY <1>1, <2>1, <2>2
  <1>7. \A j \in DOMAIN inbox : Draw(inbox[j].sender) \in Int /\ Draw(inbox[j].sender) < Drawn
    <2>1. inbox \in Seq(Message)
      BY <1>2, Zenon DEF TypeOK, Message
    <2>2. \A j \in DOMAIN inbox : inbox[j] \in Message
      BY <2>1
    <2>3. \A j \in DOMAIN inbox : inbox[j].sender \in Ids
      BY <2>2 DEF Message
    <2> QED BY <1>2, <2>3, DrawIsInjective DEF SendersAreDrawn
  <1>8. ifPc = "respond" => Draw(answer.sender) \in Int /\ Draw(answer.sender) < Drawn
    <2>1. answer.sender \in Ids
      BY <1>2 DEF TypeOK
    <2> QED BY <1>2, <2>1, DrawIsInjective DEF SendersAreDrawn
  <1>9. Drawn \in Int
    BY <1>2, Numbers
  <1>10. SendersAreDrawn'
    <2>1. CASE cfgPc' = "publish"
      <3>1. registered'[temp_module_id'] = "query" /\ Draw(temp_module_id') < Drawn'
        BY <1>1, <1>3, <1>5, <1>9, <2>1
      <3> QED BY <1>1, <1>5, <1>7, <1>8, <1>9, <3>1 DEF SendersAreDrawn
    <2>2. CASE cfgPc' = "idle"
      BY <1>1, <1>5, <1>7, <1>8, <1>9, <2>2 DEF SendersAreDrawn, Querying
    <2> QED BY <1>1, <2>1, <2>2
  <1>11. CommandInv'
    BY <1>1, <1>2 DEF CommandInv, Active, Part
  <1>12. OrderInv'
    BY <1>1, <1>2, Numbers, OrderStays DEF LastSent, NotYetSent
  <1>13. QueryInv'
    <2>1. \A j \in DOMAIN inbox : inbox[j].sender # query_id_counter
      BY <1>5, <1>7
    <2>2. ifPc = "respond" => answer.sender # query_id_counter
      BY <1>5, <1>8
    <2>3. temp_mq = <<>>
      BY <1>1, <1>2, NothingReceived
    <2>4. asked = "CONTINUE" => inbox = <<>> /\ IsLatest /\ CacheAt(Len(output))
      BY <1>1, <1>2 DEF QueryInv
    <2> QED BY <1>1, <2>1, <2>2, <2>3, <2>4 DEF QueryInv, Mine, IsLatest, CacheAt, Latest
  <1>14. ReportInv'
    <2>1. CASE cfgPc' = "publish"
      BY <1>1, <1>2, <2>1, ReportStays
    <2>2. CASE result' = [result EXCEPT ![command.n] = "failed"]
      BY <1>1, <1>2, <1>3, <2>2 DEF ReportInv, WholeShow, Finished
    <2> QED BY <1>1, <2>1, <2>2
  <1>15. ModulesKeepTheirIds'
    <2>1. \A i \in Ids : registered[i] # "query"
      BY <1>1, <1>2 DEF TypeOK, ModulesKeepTheirIds
    <2>2. \A m \in Permanent : m \in Ids
      BY CliQueryAssumption DEF Ids
    <2>3. CASE cfgPc' = "publish"
      BY <1>1, <1>2, <1>3, <2>1, <2>2, <2>3 DEF TypeOK, ModulesKeepTheirIds
    <2>4. CASE UNCHANGED registered
      BY <1>1, <1>2, <2>1, <2>4 DEF TypeOK, ModulesKeepTheirIds
    <2> QED BY <1>1, <2>3, <2>4
  <1>16. TypeOK'
    <2>1. registered' \in [Ids -> {"module", "query", "none"}]
      BY <1>1, <1>3
    <2>2. result' \in [1..MaxCommands -> {"none", "failed", "ok"}]
      BY <1>1, <1>3
    <2>3. cfgPc' \in {"publish", "idle"} /\ query_id_counter' \in Ids /\ temp_module_id' \in Ids
      BY <1>1, <1>3, <1>5
    <2> QED BY <1>1, <1>2, <1>15, <2>1, <2>2, <2>3 DEF TypeOK
  <1> QED BY <1>6, <1>10, <1>11, <1>12, <1>13, <1>14, <1>16 DEF IInv

\* The message is the last in the inbox of the IF module, and alone there when
\* it asks for more of a show.
LEMMA PublishStep ==
    ASSUME IInv, PublishQuery
    PROVE  IInv'
  <1> DEFINE message == [type |-> asked, command |-> command, sender |-> temp_module_id,
                         part |-> Part]
  <1>1. /\ cfgPc = "publish"
        /\ UNCHANGED <<command, asked, output, prompt, result, query_id_counter, temp_module_id,
                       registered, temp_mq, ifPc, answer, current_interface, show_cache,
                       batch_offset, performed, subscribed, shutdown>>
        /\ \/ inbox' = Append(inbox, message) /\ cfgPc' = "poll" /\ UNCHANGED reply
           \/ reply' = NoReply /\ cfgPc' = "unregister" /\ UNCHANGED inbox
    BY DEF PublishQuery, Part, queryVars, ifVars, ifState, stopVars
  <1>2. /\ TypeOK /\ OrderInv /\ QueryInv /\ ReportInv /\ DrawsAreBounded /\ SendersAreDrawn
        /\ CommandInv
    BY DEF IInv
  <1>3. /\ command.n \in 1..MaxCommands /\ Part \in 1..MaxChunks
        /\ command \in Command /\ temp_module_id \in Ids /\ asked \in {"CLI", "CONTINUE"}
        /\ inbox \in Seq(Message)
    <2>1. command.n \in 1..MaxCommands /\ Part <= MaxChunks
      BY <1>1, <1>2 DEF CommandInv, Active
    <2>2. Part \in 1..MaxChunks
      BY <1>2, <2>1, Numbers
    <2>3. inbox \in Seq(Message)
      BY <1>2, Zenon DEF TypeOK, Message
    <2> QED BY <1>2, <2>1, <2>2, <2>3 DEF TypeOK
  <1>4. message \in Message
    BY <1>3 DEF Message
  <1>5. inbox' \in Seq(Message)
    BY <1>1, <1>3, <1>4
  <1>6. TypeOK'
    <2>1. reply' \in Responses /\ cfgPc' \in {"poll", "unregister"}
      BY <1>1, <1>2, NoReplyType DEF TypeOK
    <2>2. ModulesKeepTheirIds'
      BY <1>1, <1>2, <2>1 DEF TypeOK, ModulesKeepTheirIds
    <2> QED BY <1>1, <1>2, <1>5, <2>1, <2>2 DEF TypeOK, Message
  <1>7. DrawsAreBounded'
    BY <1>1, <1>2 DEF DrawsAreBounded, Drawn, Active, Querying
  <1>8. CommandInv'
    BY <1>1, <1>2 DEF CommandInv, Active, Part
  <1>9. ReportInv'
    BY <1>1, <1>2, ReportStays
  <1>10. \A j \in DOMAIN inbox : ~Mine(inbox[j].sender)
    BY <1>1, <1>2 DEF QueryInv
  <1>11. temp_mq = <<>> /\ ~(ifPc = "respond" /\ Mine(answer.sender))
    BY <1>1, <1>2, NothingReceived DEF QueryInv, GoodReply
  <1>12. CASE UNCHANGED inbox /\ reply' = NoReply /\ cfgPc' = "unregister"
    <2>1. SendersAreDrawn'
      BY <1>1, <1>2, <1>12 DEF SendersAreDrawn, Querying, Drawn
    <2>2. OrderInv'
      <3>1. LastSent \in Int /\ LastSent' \in Int /\ LastSent <= LastSent'
        BY <1>1, <1>2, <1>12, Numbers DEF LastSent, NotYetSent
      <3> QED BY <1>1, <1>2, <1>12, <3>1, OrderStays
    <2>3. QueryInv'
      BY <1>1, <1>10, <1>11, <1>12 DEF QueryInv, Mine, Querying
    <2> QED BY <1>6, <1>7, <1>8, <1>9, <2>1, <2>2, <2>3 DEF IInv
  <1>13. CASE inbox' = Append(inbox, message) /\ cfgPc' = "poll"
    <2>1. /\ DOMAIN inbox' = DOMAIN inbox \cup {Len(inbox')} /\ Len(inbox') = Len(inbox) + 1
          /\ inbox'[Len(inbox')] = message
          /\ \A j \in DOMAIN inbox : inbox'[j] = inbox[j] /\ j < Len(inbox') /\ j \in Nat
      BY <1>3, <1>13
    <2> DEFINE last == Len(inbox')
    <2> HIDE DEF last
    <2>2. /\ DOMAIN inbox' = DOMAIN inbox \cup {last} /\ last \in Nat
          /\ inbox'[last] = message
          /\ \A j \in DOMAIN inbox : inbox'[j] = inbox[j] /\ j < last /\ j \in Nat
      BY <1>3, <2>1 DEF last
    <2>3. message.sender = temp_module_id /\ message.command = command /\ message.type = asked
      OBVIOUS
    <2>4. SendersAreDrawn'
      <3>1. Draw(temp_module_id) < Drawn
        BY <1>1, <1>2 DEF SendersAreDrawn, Querying
      <3> HIDE DEF message
      <3> QED BY <1>1, <1>2, <2>2, <2>3, <3>1, <1>13 DEF SendersAreDrawn, Querying, Drawn
    <2> HIDE DEF message
    <2>5. OrderInv'
      <3>1. LastSent' = command.n /\ command.n \in Int
        BY <1>1, <1>3, <1>13 DEF LastSent, NotYetSent
      <3>2. /\ \A i \in DOMAIN performed : performed[i].command.n \in Nat
            /\ \A j \in DOMAIN inbox : inbox[j].command.n \in Nat
        <4>1. performed \in Seq(Record) /\ inbox \in Seq(Message)
          BY <1>2, Zenon DEF TypeOK, Record, Message
        <4>2. /\ \A i \in DOMAIN performed : performed[i] \in Record
              /\ \A j \in DOMAIN inbox : inbox[j] \in Message
          BY <4>1
        <4> QED BY <4>2 DEF Record, Message, Command
      <3>3. LastSent \in Int /\ LastSent <= command.n /\ (asked = "CLI" => LastSent = command.n - 1)
        BY <1>1, <1>2, <1>3, Numbers DEF LastSent, NotYetSent
      <3>4. \A i \in DOMAIN performed : /\ performed[i].command.n <= command.n
                                        /\ asked = "CLI" => performed[i].command.n < command.n
        BY <1>2, <1>3, <3>2, <3>3 DEF OrderInv
      <3>5. \A j \in DOMAIN inbox : /\ inbox[j].command.n <= command.n
                                    /\ asked = "CLI" => inbox[j].command.n < command.n
        BY <1>2, <1>3, <3>2, <3>3 DEF OrderInv
      <3>6. \A i, j \in DOMAIN inbox' :
              i < j /\ Queued(i)' /\ Queued(j)' => inbox'[i].command.n < inbox'[j].command.n
        <4> SUFFICES ASSUME NEW i \in DOMAIN inbox', NEW j \in DOMAIN inbox', i < j,
                            inbox'[i].type = "CLI", inbox'[j].type = "CLI"
                     PROVE  inbox'[i].command.n < inbox'[j].command.n
          BY DEF Queued
        <4>1. i \in DOMAIN inbox
          BY <2>2
        <4>2. CASE j \in DOMAIN inbox
          BY <1>2, <2>2, <4>1, <4>2 DEF OrderInv, Queued
        <4>3. CASE j = last
          BY <2>2, <2>3, <3>5, <4>1, <4>3
        <4> QED BY <2>2, <4>2, <4>3
      <3>7. \A i \in DOMAIN performed, j \in DOMAIN inbox' :
              Queued(j)' => performed[i].command.n < inbox'[j].command.n
        BY <1>2, <2>2, <2>3, <3>4 DEF OrderInv, Queued
      <3>8. \A j \in DOMAIN inbox' : inbox'[j].command.n <= LastSent'
        BY <1>3, <2>2, <2>3, <3>1, <3>5
      <3> QED BY <1>1, <1>2, <3>1, <3>4, <3>6, <3>7, <3>8 DEF OrderInv
    <2>6. QueryInv'
      <3>1. \A j \in DOMAIN inbox : inbox[j].sender # temp_module_id
        BY <1>1, <1>10 DEF Mine, Querying
      <3>2. asked = "CONTINUE" => inbox = <<>> /\ IsLatest /\ CacheAt(Len(output))
        BY <1>1, <1>2 DEF QueryInv
      <3>3. asked = "CONTINUE" => last = 1 /\ IsLatest' /\ CacheAt(Len(output))'
        BY <1>1, <2>1, <3>2 DEF IsLatest, Latest, CacheAt, last
      <3>4. \A j \in DOMAIN inbox' : inbox'[j].sender = temp_module_id =>
              j = last /\ inbox'[j] = message
        BY <2>2, <3>1
      <3>5. ~(ifPc' = "respond" /\ Mine(answer.sender)')
        BY <1>1, <1>11, <1>13 DEF Mine, Querying
      <3> QED BY <1>1, <1>11, <1>13, <3>3, <3>4, <3>5 DEF QueryInv, Mine, message, Part, last
    <2> QED BY <1>6, <1>7, <1>8, <1>9, <2>4, <2>5, <2>6 DEF IInv
  <1> QED BY <1>1, <1>12, <1>13

LEMMA PollStep ==
    ASSUME IInv, PollReady \/ PollTimeout
    PROVE  IInv'
  <1>1. /\ cfgPc = "poll" /\ cfgPc' = "unregister"
        /\ UNCHANGED <<command, asked, output, prompt, result, query_id_counter, temp_module_id,
                       registered, inbox, ifPc, answer, current_interface, show_cache,
                       batch_offset, performed, subscribed, shutdown>>
        /\ \/ temp_mq # <<>> /\ reply' = Head(temp_mq) /\ temp_mq' = Tail(temp_mq)
           \/ temp_mq' = temp_mq /\ reply' = NoReply
    BY DEF PollReady, PollTimeout, queryVars, ifVars, ifState, stopVars
  <1>2. /\ TypeOK /\ OrderInv /\ QueryInv /\ ReportInv /\ DrawsAreBounded /\ SendersAreDrawn
        /\ CommandInv
    BY DEF IInv
  <1>3. temp_mq \in Seq(Responses)
    BY <1>2 DEF TypeOK
  <1>4. /\ temp_mq' \in Seq(Responses) /\ reply' \in Responses
        /\ \A i \in DOMAIN temp_mq' : \E k \in DOMAIN temp_mq : temp_mq'[i] = temp_mq[k]
        /\ reply' = NoReply \/ \E k \in DOMAIN temp_mq : reply' = temp_mq[k]
    <2>1. CASE temp_mq # <<>> /\ reply' = Head(temp_mq) /\ temp_mq' = Tail(temp_mq)
      <3>1. 1 \in DOMAIN temp_mq /\ reply' = temp_mq[1] /\ temp_mq' \in Seq(Responses)
        BY <1>3, <2>1
      <3>2. \A i \in DOMAIN temp_mq' : i + 1 \in DOMAIN temp_mq /\ temp_mq'[i] = temp_mq[i + 1]
        BY <1>3, <2>1
      <3> QED BY <1>3, <3>1, <3>2
    <2>2. CASE temp_mq' = temp_mq /\ reply' = NoReply
      BY <1>3, <2>2, NoReplyType
    <2> QED BY <1>1, <2>1, <2>2
  <1>5. TypeOK'
    BY <1>1, <1>2, <1>4 DEF TypeOK, ModulesKeepTheirIds
  <1>6. DrawsAreBounded'
    BY <1>1, <1>2 DEF DrawsAreBounded, Drawn, Active, Querying
  <1>7. SendersAreDrawn'
    BY <1>1, <1>2 DEF SendersAreDrawn, Querying, Drawn
  <1>8. CommandInv'
    BY <1>1, <1>2 DEF CommandInv, Active, Part
  <1>9. OrderInv'
    BY <1>1, <1>2, Numbers, OrderStays DEF LastSent, NotYetSent
  <1>10. ASSUME NEW r, GoodReply(r) PROVE GoodReply(r)'
    BY <1>1, <1>10, GoodStays
  <1>11. QueryInv'
    <2>1. \A j \in DOMAIN inbox : Mine(inbox[j].sender) =>
            /\ j = Len(inbox)
            /\ inbox[j] = [type |-> asked, command |-> command, sender |-> temp_module_id,
                           part |-> Part]
            /\ asked = "CONTINUE" => Len(inbox) = 1 /\ IsLatest /\ CacheAt(Len(output))
      BY <1>2 DEF QueryInv
    <2>2. \A i \in DOMAIN temp_mq' : GoodReply(temp_mq[i])'
      <3> SUFFICES ASSUME NEW i \in DOMAIN temp_mq' PROVE GoodReply(temp_mq[i])'
        OBVIOUS
      <3>1. PICK k \in DOMAIN temp_mq : temp_mq'[i] = temp_mq[k]
        BY <1>4
      <3>2. GoodReply(temp_mq[k])
        BY <1>2 DEF QueryInv
      <3> QED BY <1>1, <3>1, <3>2 DEF GoodReply, IsLatest, Latest, CacheAt, Part
    <2>3. reply' = NoReply \/ GoodReply(reply)'
      <3> SUFFICES ASSUME NEW k \in DOMAIN temp_mq, reply' = temp_mq[k] PROVE GoodReply(reply)'
        BY <1>4
      <3>1. GoodReply(temp_mq[k])
        BY <1>2 DEF QueryInv
      <3> QED BY <1>1, <3>1 DEF GoodReply, IsLatest, Latest, CacheAt, Part
    <2>4. ifPc = "respond" /\ Mine(answer.sender) => GoodReply(answer.msg)'
      <3>1. ifPc = "respond" /\ Mine(answer.sender) => GoodReply(answer.msg)
        BY <1>2 DEF QueryInv
      <3> QED BY <1>1, <3>1 DEF GoodReply, IsLatest, Latest, CacheAt, Part
    <2> QED BY <1>1, <2>1, <2>2, <2>3, <2>4 DEF QueryInv, Mine, Querying, IsLatest, Latest, CacheAt, Part
  <1>12. ReportInv'
    BY <1>1, <1>2, ReportStays
  <1> QED BY <1>5, <1>6, <1>7, <1>8, <1>9, <1>11, <1>12 DEF IInv

\* The command ends, or the next part of its show is asked for; what the IF
\* module keeps is where the answer says.
LEMMA FinishStep ==
    ASSUME IInv, FinishQuery
    PROVE  IInv'
  <1>1. /\ cfgPc = "unregister" /\ temp_mq' = <<>>
        /\ registered' = [registered EXCEPT ![temp_module_id] = "none"]
        /\ UNCHANGED <<command, reply, query_id_counter, temp_module_id, inbox, ifPc, answer,
                       current_interface, show_cache, batch_offset, performed, subscribed, shutdown>>
    BY DEF FinishQuery, ifVars, ifState, stopVars
  <1>2. \/ /\ cfgPc' = "idle" /\ result' = [result EXCEPT ![command.n] = "failed"]
           /\ UNCHANGED <<asked, output, prompt>>
        \/ /\ reply.type = "VIEW_CHG" /\ cfgPc' = "idle"
           /\ prompt' = [prompt EXCEPT ![command.session] = reply.iface]
           /\ result' = [result EXCEPT ![command.n] = "ok"]
           /\ UNCHANGED <<asked, output>>
        \/ /\ reply.type = "RESP" /\ cfgPc' = "idle"
           /\ output' = Append(output, reply.text)
           /\ result' = [result EXCEPT ![command.n] = "ok"]
           /\ UNCHANGED <<asked, prompt>>
        \/ /\ reply.type = "RESP_MORE" /\ cfgPc' = "register" /\ asked' = "CONTINUE"
           /\ output' = Append(output, reply.text)
           /\ UNCHANGED <<prompt, result>>
    BY DEF FinishQuery, Failed, Succeeded, AskForMore
  <1>3. /\ TypeOK /\ OrderInv /\ QueryInv /\ ReportInv /\ DrawsAreBounded /\ SendersAreDrawn
        /\ CommandInv
    BY DEF IInv
  <1>4. /\ command.n \in 1..MaxCommands /\ Part <= MaxChunks /\ command.session \in Sessions
        /\ temp_module_id \in Ids /\ registered \in [Ids -> {"module", "query", "none"}]
        /\ registered[temp_module_id] = "query"
        /\ result \in [1..MaxCommands -> {"none", "failed", "ok"}]
        /\ output \in Seq(Texts) /\ reply \in Responses
        /\ prompt \in [Sessions -> Interfaces \cup {0}]
    BY <1>1, <1>3 DEF CommandInv, SendersAreDrawn, Querying, Active, TypeOK
  <1>5. reply.type \in {"VIEW_CHG", "RESP", "RESP_MORE"} => GoodReply(reply)
    BY <1>1, <1>3, NoReplyType DEF QueryInv
  <1>6. reply.text \in Texts /\ reply.iface \in Interfaces \cup {0}
    BY <1>4 DEF Responses
  <1>7. reply.type = "RESP_MORE" => /\ command.op = "show" /\ Part < MaxChunks
                                    /\ reply.text = [show |-> command.n, part |-> Part]
                                    /\ inbox = <<>> /\ IsLatest /\ CacheAt(Part)
    <2> SUFFICES ASSUME reply.type = "RESP_MORE"
                 PROVE  /\ command.op = "show" /\ Part < MaxChunks
                        /\ reply.text = [show |-> command.n, part |-> Part]
                        /\ inbox = <<>> /\ IsLatest /\ CacheAt(Part)
      OBVIOUS
    <2>1. GoodReply(reply)
      BY <1>5
    <2>2. command.op = "show" /\ inbox = <<>> /\ IsLatest /\ CacheAt(Part)
          /\ reply.text = [show |-> command.n, part |-> Part]
      BY <2>1 DEF GoodReply
    <2>3. Latest.chunks \in 1..MaxChunks
      <3>1. performed \in Seq(Record)
        BY <1>3, Zenon DEF TypeOK, Record
      <3>2. Latest \in Record
        BY <2>2, <3>1 DEF IsLatest, Latest
      <3> QED BY <3>2 DEF Record
    <2>4. Part < MaxChunks
      BY <1>3, <2>2, <2>3, Numbers DEF CacheAt
    <2> QED BY <2>2, <2>4
  <1>8. DrawsAreBounded'
    <2> DEFINE before == MaxChunks * (command.n - 1)
               after  == MaxChunks * command.n
    <2>1. /\ before \in Nat /\ after \in Nat /\ before + MaxChunks = after
          /\ Drawn \in Nat /\ Len(output) \in Nat /\ MaxChunks \in Nat /\ Part = Len(output) + 1
      BY <1>3, <1>4, Numbers, EnoughDraws
    <2>2. Drawn <= before + Len(output) + 1
      BY <1>1, <1>3 DEF DrawsAreBounded, Active, Querying
    <2> HIDE DEF before, after
    <2>3. Drawn' = Drawn /\ Drawn <= after
      BY <1>1, <1>4, <2>1, <2>2 DEF Drawn
    <2>4. CASE cfgPc' = "idle"
      BY <1>1, <2>3, <2>4 DEF DrawsAreBounded, Active, Querying, after
    <2>5. CASE cfgPc' = "register"
      <3>1. Len(output') = Len(output) + 1
        BY <1>2, <1>4, <1>6, <2>5
      <3>2. Drawn' <= before + Len(output')
        BY <2>1, <2>2, <2>3, <3>1
      <3>3. before' = before /\ Drawn' <= before + Len(output') + 0
        BY <1>1, <2>1, <2>3, <3>1, <3>2 DEF before
      <3> QED BY <1>1, <2>5, <3>3 DEF DrawsAreBounded, Active, Querying, before
    <2> QED BY <1>2, <2>4, <2>5
  <1>9. SendersAreDrawn'
    BY <1>1, <1>2, <1>3 DEF SendersAreDrawn, Querying, Drawn
  <1>10. CommandInv'
    <2>1. CASE cfgPc' = "idle"
      BY <2>1 DEF CommandInv, Active
    <2>2. CASE cfgPc' = "register"
      <3>1. reply.type = "RESP_MORE" /\ output' = Append(output, reply.text) /\ asked' = "CONTINUE"
        BY <1>2, <2>2
      <3>2. Len(output') = Part /\ Part \in Nat /\ MaxChunks \in Nat /\ DOMAIN output' = 1..Part
        BY <1>3, <1>4, <1>6, <3>1, Numbers
      <3>3. Part' <= MaxChunks
        BY <1>7, <3>1, <3>2 DEF Part
      <3>4. \A p \in DOMAIN output' : output'[p] = [show |-> command.n, part |-> p]
        <4> SUFFICES ASSUME NEW p \in 1..Part PROVE output'[p] = [show |-> command.n, part |-> p]
          BY <3>2
        <4>1. CASE p = Part
          BY <1>4, <1>6, <1>7, <3>1, <4>1 DEF Part
        <4>2. CASE p # Part
          <5>1. p \in DOMAIN output /\ output'[p] = output[p]
            BY <1>4, <1>6, <3>1, <3>2, <4>2 DEF Part
          <5> QED BY <1>1, <1>3, <1>7, <3>1, <5>1 DEF CommandInv, Active
        <4> QED BY <4>1, <4>2
      <3> QED BY <1>1, <1>3, <1>4, <1>7, <3>1, <3>3, <3>4 DEF CommandInv, Active
    <2> QED BY <1>2, <2>1, <2>2
  <1>11. OrderInv'
    <2>1. LastSent = command.n /\ LastSent' = command.n
      BY <1>1, <1>2 DEF LastSent, NotYetSent
    <2> QED BY <1>1, <1>3, <2>1, Numbers, OrderStays
  <1>12. QueryInv'
    <2>1. ~Querying'
      BY <1>2 DEF Querying
    <2>2. asked' = "CONTINUE" /\ cfgPc' = "register" =>
            inbox' = <<>> /\ IsLatest' /\ CacheAt(Len(output))'
      <3> SUFFICES ASSUME cfgPc' = "register" PROVE inbox' = <<>> /\ IsLatest' /\ CacheAt(Len(output))'
        OBVIOUS
      <3>1. reply.type = "RESP_MORE" /\ output' = Append(output, reply.text)
        BY <1>2
      <3>2. Len(output') = Part
        BY <1>4, <1>6, <3>1 DEF Part
      <3> QED BY <1>1, <1>7, <3>1, <3>2 DEF IsLatest, Latest, CacheAt
    <2>3. DOMAIN temp_mq' = {}
      BY <1>1
    <2> QED BY <1>1, <1>2, <2>1, <2>2, <2>3 DEF QueryInv, Mine
  <1>13. ReportInv'
    <2>1. ASSUME result'[command.n] = "ok", cfgPc' = "idle"
          PROVE  /\ IsLatest
                 /\ command.op = "show" =>
                      output' = [p \in 1..Latest.chunks |-> [show |-> command.n, part |-> p]]
      <3>1. reply.type \in {"VIEW_CHG", "RESP"} /\ GoodReply(reply)
        BY <1>2, <1>4, <1>5, <2>1
      <3>2. ASSUME command.op = "show"
            PROVE  output' = [p \in 1..Latest.chunks |-> [show |-> command.n, part |-> p]]
        <4>1. /\ reply.type = "RESP" /\ Part = Latest.chunks
              /\ reply.text = [show |-> command.n, part |-> Part]
          BY <3>1, <3>2 DEF GoodReply
        <4>2. output' = Append(output, reply.text)
          BY <1>2, <1>4, <2>1, <4>1
        <4>3. DOMAIN output' = 1..Part /\ output' \in Seq(Texts) /\ output'[Part] = reply.text
              /\ \A p \in 1..Part : p # Part => p \in DOMAIN output /\ output'[p] = output[p]
          BY <1>4, <1>6, <4>2 DEF Part
        <4>4. \A p \in 1..Part : output'[p] = [show |-> command.n, part |-> p]
          BY <1>1, <1>3, <3>2, <4>1, <4>3 DEF CommandInv, Active
        <4>5. output' = [p \in 1..Part |-> output'[p]]
          BY <4>3
        <4>6. output' = [p \in 1..Part |-> [show |-> command.n, part |-> p]]
          BY <4>4, <4>5
        <4> QED BY <4>1, <4>6
      <3> QED BY <3>1, <3>2 DEF GoodReply
    <2>2. WholeShow'
      <3> SUFFICES ASSUME cfgPc' = "idle", result'[command.n] = "ok", command.op = "show"
                   PROVE  \E i \in DOMAIN performed :
                            /\ performed[i].command = command
                            /\ output' = [p \in 1..performed[i].chunks |->
                                            [show |-> command.n, part |-> p]]
        BY <1>1 DEF WholeShow, Finished
      <3>1. Len(performed) \in DOMAIN performed
        <4>1. performed \in Seq(Record)
          BY <1>3, Zenon DEF TypeOK, Record
        <4> QED BY <2>1, <4>1 DEF IsLatest
      <3> QED BY <2>1, <3>1 DEF IsLatest, Latest
    <2>3. ASSUME NEW n \in 1..MaxCommands, result'[n] = "ok"
          PROVE  \E i \in DOMAIN performed : performed[i].command.n = n
      <3>1. CASE result[n] = "ok"
        BY <1>3, <3>1 DEF ReportInv
      <3>2. CASE result[n] # "ok"
        <4>1. n = command.n /\ cfgPc' = "idle"
          BY <1>2, <1>4, <2>3, <3>2
        <4>2. IsLatest
          BY <2>1, <2>3, <4>1
        <4>3. performed \in Seq(Record)
          BY <1>3, Zenon DEF TypeOK, Record
        <4> QED BY <4>1, <4>2, <4>3 DEF IsLatest, Latest
      <3> QED BY <3>1, <3>2
    <2> QED BY <1>1, <2>2, <2>3 DEF ReportInv
  <1>14. TypeOK'
    <2>1. registered' \in [Ids -> {"module", "query", "none"}]
      BY <1>1, <1>4
    <2>2. ModulesKeepTheirIds'
      <3>1. \A m \in Permanent : m \in Ids
        BY CliQueryAssumption DEF Ids
      <3>2. \A i \in Ids : registered'[i] = IF i = temp_module_id THEN "none" ELSE registered[i]
        BY <1>1, <1>4
      <3>3. \A i \in Ids : registered'[i] # "query"
        BY <1>1, <1>3, <3>2 DEF TypeOK, ModulesKeepTheirIds
      <3> QED BY <1>1, <1>3, <1>4, <3>1, <3>2, <3>3 DEF TypeOK, ModulesKeepTheirIds
    <2>3. result' \in [1..MaxCommands -> {"none", "failed", "ok"}]
      BY <1>2, <1>4
    <2>4. output' \in Seq(Texts)
      <3>1. Append(output, reply.text) \in Seq(Texts)
        BY <1>4, <1>6
      <3>2. output' = output \/ output' = Append(output, reply.text)
        BY <1>2
      <3> QED BY <1>4, <3>1, <3>2
    <2>5. prompt' \in [Sessions -> Interfaces \cup {0}]
      BY <1>2, <1>4, <1>6
    <2>6. cfgPc' \in {"idle", "register"} /\ asked' \in {"CLI", "CONTINUE"}
      BY <1>2, <1>3 DEF TypeOK
    <2> QED BY <1>1, <1>3, <2>1, <2>2, <2>3, <2>4, <2>5, <2>6 DEF TypeOK
  <1> QED BY <1>8, <1>9, <1>10, <1>11, <1>12, <1>13, <1>14 DEF IInv

------------------------------------------------------------------------------
(***************************************************************************)
(* The IF worker                                                           *)
(***************************************************************************)

\* An id that is registered for a query is that of the query under way.
LEMMA RespondStep ==
    ASSUME IInv, Respond
    PROVE  IInv'
  <1>1. /\ ifPc = "respond" /\ ifPc' = "receive" /\ answer' = NoAnswer
        /\ temp_mq' = IF registered[answer.sender] = "query"
                      THEN Append(temp_mq, answer.msg) ELSE temp_mq
        /\ UNCHANGED <<cfgPc, command, asked, reply, output, prompt, result, query_id_counter,
                       temp_module_id, registered, inbox, current_interface, show_cache,
                       batch_offset, performed, subscribed, shutdown>>
    BY DEF Respond, cfgVars, queryVars, ifState, stopVars
  <1>2. /\ TypeOK /\ OrderInv /\ QueryInv /\ ReportInv /\ DrawsAreBounded /\ SendersAreDrawn
        /\ CommandInv
    BY DEF IInv
  <1>3. answer.sender \in Ids /\ answer.msg \in Responses /\ temp_mq \in Seq(Responses)
    BY <1>2 DEF TypeOK
  <1>4. registered[answer.sender] = "query" => GoodReply(answer.msg)
    <2>1. registered[answer.sender] = "query" => Mine(answer.sender)
      BY <1>2, <1>3 DEF TypeOK, ModulesKeepTheirIds, Mine, Querying
    <2> QED BY <1>1, <1>2, <2>1 DEF QueryInv
  <1>5. /\ temp_mq' \in Seq(Responses)
        /\ \A i \in DOMAIN temp_mq' : \/ i \in DOMAIN temp_mq /\ temp_mq'[i] = temp_mq[i]
                                      \/ temp_mq'[i] = answer.msg /\ GoodReply(answer.msg)
    <2>1. CASE registered[answer.sender] = "query"
      BY <1>1, <1>3, <1>4, <2>1
    <2>2. CASE registered[answer.sender] # "query"
      BY <1>1, <1>3, <2>2
    <2> QED BY <2>1, <2>2
  <1>6. TypeOK'
    <2>1. answer' \in [sender : Ids, msg : Responses]
      BY <1>1, NoReplyType, CliQueryAssumption DEF NoAnswer, Ids
    <2> QED BY <1>1, <1>2, <1>5, <2>1 DEF TypeOK, ModulesKeepTheirIds
  <1>7. DrawsAreBounded'
    BY <1>1, <1>2 DEF DrawsAreBounded, Drawn, Active, Querying
  <1>8. SendersAreDrawn'
    BY <1>1, <1>2 DEF SendersAreDrawn, Querying, Drawn
  <1>9. CommandInv'
    BY <1>1, <1>2 DEF CommandInv, Active, Part
  <1>10. OrderInv'
    BY <1>1, <1>2, Numbers, OrderStays DEF LastSent, NotYetSent
  <1>11. QueryInv'
    <2>1. ASSUME NEW i \in DOMAIN temp_mq' PROVE GoodReply(temp_mq[i])'
      <3>1. GoodReply(temp_mq'[i])
        BY <1>2, <1>5 DEF QueryInv
      <3> QED BY <1>1, <3>1 DEF GoodReply, IsLatest, Latest, CacheAt, Part
    <2>2. cfgPc = "unregister" => reply' = NoReply \/ GoodReply(reply)'
      <3>1. cfgPc = "unregister" => reply = NoReply \/ GoodReply(reply)
        BY <1>2 DEF QueryInv
      <3> QED BY <1>1, <3>1 DEF GoodReply, IsLatest, Latest, CacheAt, Part
    <2> QED BY <1>1, <1>2, <2>1, <2>2
        DEF QueryInv, Mine, Querying, IsLatest, Latest, CacheAt, Part
  <1>12. ReportInv'
    BY <1>1, <1>2, ReportStays
  <1> QED BY <1>6, <1>7, <1>8, <1>9, <1>10, <1>11, <1>12 DEF IInv

\* The message of the query under way is the only one in the inbox when its
\* turn comes.
LEMMA MyTurn ==
    ASSUME IInv, inbox # <<>>, Mine(Head(inbox).sender)
    PROVE  /\ cfgPc \in {"poll", "unregister"} /\ Tail(inbox) = <<>>
           /\ Head(inbox).type = asked /\ Head(inbox).command = command
           /\ Head(inbox).part = Part
           /\ asked = "CONTINUE" => IsLatest /\ CacheAt(Len(output))
  <1>1. inbox \in Seq(Message) /\ QueryInv
    BY Zenon DEF IInv, TypeOK, Message
  <1>2. 1 \in DOMAIN inbox /\ Head(inbox) = inbox[1]
    BY <1>1
  <1>3. /\ cfgPc \in {"poll", "unregister"} /\ 1 = Len(inbox)
        /\ inbox[1] = [type |-> asked, command |-> command, sender |-> temp_module_id,
                       part |-> Part]
        /\ asked = "CONTINUE" => IsLatest /\ CacheAt(Len(output))
    BY <1>1, <1>2 DEF QueryInv
  <1>4. Tail(inbox) = <<>>
    <2>1. Tail(inbox) \in Seq(Message) /\ Len(Tail(inbox)) = 0
      BY <1>1, <1>3
    <2> QED BY <2>1, EmptySeq
  <1> QED BY <1>2, <1>3, <1>4

\* Whatever the message, what is said of the query under way stays true when
\* it is answered well if it is that query's.
LEMMA Handled ==
    ASSUME IInv, ifPc = "receive", inbox # <<>>, inbox' = Tail(inbox),
           UNCHANGED <<cfgPc, command, asked, reply, output, prompt, result, query_id_counter,
                       temp_module_id, registered, temp_mq, subscribed, shutdown>>,
           ifPc' \in {"receive", "respond"},
           answer' \in [sender : Ids, msg : Responses], answer'.sender = Head(inbox).sender,
           current_interface' \in Interfaces \cup {0},
           show_cache' \in [show : 0..MaxCommands, chunks : 0..MaxChunks],
           batch_offset' \in 0..MaxChunks,
           \/ UNCHANGED performed
           \/ /\ Head(inbox).type = "CLI"
              /\ \E r \in Record : r.command = Head(inbox).command /\ performed' = Append(performed, r),
           ifPc' = "respond" /\ Mine(Head(inbox).sender) => GoodReply(answer.msg)'
    PROVE  IInv'
  <1>1. /\ TypeOK /\ OrderInv /\ QueryInv /\ ReportInv /\ DrawsAreBounded /\ SendersAreDrawn
        /\ CommandInv
    BY DEF IInv
  <1>2. inbox \in Seq(Message) /\ performed \in Seq(Record)
    BY <1>1, Zenon DEF TypeOK, Message, Record
  <1>3. /\ inbox' \in Seq(Message) /\ Len(inbox') = Len(inbox) - 1 /\ Len(inbox) \in Nat
        /\ \A j \in DOMAIN inbox' : j \in Nat /\ j >= 1 /\ j + 1 \in DOMAIN inbox /\ inbox'[j] = inbox[j + 1]
        /\ 1 \in DOMAIN inbox /\ Head(inbox) = inbox[1]
    BY <1>2
  <1> DEFINE Extended ==
        /\ performed' \in Seq(Record)
        /\ \A i \in DOMAIN performed : i \in DOMAIN performed' /\ performed'[i] = performed[i]
        /\ \A i \in DOMAIN performed' :
             \/ i \in DOMAIN performed
             \/ /\ Queued(1) /\ performed'[i].command = inbox[1].command
                /\ \A k \in DOMAIN performed' : k <= i /\ (k # i => k \in DOMAIN performed)
  <1>4. Extended
    <2>1. CASE UNCHANGED performed
      BY <1>2, <2>1
    <2>2. ASSUME Head(inbox).type = "CLI", NEW r \in Record, r.command = Head(inbox).command,
                 performed' = Append(performed, r)
          PROVE  Extended
      <3>1. /\ performed' \in Seq(Record) /\ DOMAIN performed' = 1..(Len(performed) + 1)
            /\ DOMAIN performed = 1..Len(performed) /\ Len(performed) \in Nat
            /\ performed'[Len(performed) + 1] = r
            /\ \A i \in 1..Len(performed) : performed'[i] = performed[i]
        BY <1>2, <2>2
      <3>2. Queued(1) /\ performed'[Len(performed) + 1].command = inbox[1].command
        BY <1>3, <2>2, <3>1 DEF Queued
      <3> DEFINE last == Len(performed) + 1
      <3>3. /\ performed' \in Seq(Record) /\ DOMAIN performed' = 1..last
            /\ DOMAIN performed = 1..(last - 1) /\ last \in Nat
            /\ Queued(1) /\ performed'[last].command = inbox[1].command
            /\ \A i \in 1..(last - 1) : performed'[i] = performed[i]
        BY <3>1, <3>2
      <3> HIDE DEF last
      <3> QED BY <3>3
    <2> QED BY <2>1, <2>2
  <1>5. TypeOK'
    BY <1>1, <1>3, <1>4 DEF TypeOK, ModulesKeepTheirIds, Message, Record
  <1>6. DrawsAreBounded'
    BY <1>1 DEF DrawsAreBounded, Drawn, Active, Querying
  <1>7. SendersAreDrawn'
    BY <1>1, <1>3 DEF SendersAreDrawn, Querying, Drawn
  <1>8. CommandInv'
    BY <1>1 DEF CommandInv, Active, Part
  <1>9. OrderInv'
    <2>1. LastSent' = LastSent
      BY DEF LastSent, NotYetSent
    <2>2. \A j \in DOMAIN inbox' : j + 1 \in DOMAIN inbox /\ Queued(j)' = Queued(j + 1)
      BY <1>3 DEF Queued
    <2>3. \A i \in DOMAIN performed' : performed'[i].command.n <= LastSent'
      BY <1>1, <1>3, <1>4, <2>1 DEF OrderInv
    <2>4. \A j \in DOMAIN inbox' : inbox'[j].command.n <= LastSent'
      BY <1>1, <1>3, <2>1 DEF OrderInv
    <2>5. ASSUME NEW i \in DOMAIN inbox', NEW j \in DOMAIN inbox', i < j, Queued(i)', Queued(j)'
          PROVE  inbox'[i].command.n < inbox'[j].command.n
      <3>1. i + 1 < j + 1 /\ Queued(i + 1) /\ Queued(j + 1)
        BY <1>3, <2>2, <2>5
      <3> QED BY <1>1, <1>3, <3>1 DEF OrderInv
    <2>6. ASSUME NEW i \in DOMAIN performed', NEW j \in DOMAIN inbox', Queued(j)'
          PROVE  performed'[i].command.n < inbox'[j].command.n
      <3>1. j + 1 \in DOMAIN inbox /\ Queued(j + 1) /\ 1 < j + 1 /\ inbox'[j] = inbox[j + 1]
        BY <1>3, <2>2, <2>6
      <3>2. CASE i \in DOMAIN performed
        BY <1>1, <1>4, <3>1, <3>2 DEF OrderInv
      <3>3. CASE Queued(1) /\ performed'[i].command = inbox[1].command
        BY <1>1, <1>3, <3>1, <3>3 DEF OrderInv
      <3> QED BY <1>4, <3>2, <3>3
    <2>7. ASSUME NEW i \in DOMAIN performed', NEW j \in DOMAIN performed', i < j
          PROVE  performed'[i].command.n < performed'[j].command.n
      <3>1. i \in Int /\ j \in Int
        BY <1>4
      <3>2. i \in DOMAIN performed
        BY <1>4, <2>7, <3>1
      <3>3. CASE j \in DOMAIN performed
        BY <1>1, <1>4, <2>7, <3>2, <3>3 DEF OrderInv
      <3>4. CASE Queued(1) /\ performed'[j].command = inbox[1].command
        BY <1>1, <1>3, <1>4, <3>2, <3>4 DEF OrderInv
      <3> QED BY <1>4, <3>3, <3>4
    <2> QED BY <2>3, <2>4, <2>5, <2>6, <2>7 DEF OrderInv
  <1>10. QueryInv'
    <2>1. ASSUME NEW j \in DOMAIN inbox', inbox'[j].sender = temp_module_id, Querying
          PROVE  /\ cfgPc \in {"poll", "unregister"} /\ j = Len(inbox')
                 /\ inbox'[j] = [type |-> asked, command |-> command, sender |-> temp_module_id,
                                 part |-> Part]
                 /\ asked # "CONTINUE"
      <3>1. Mine(inbox[j + 1].sender) /\ j + 1 \in DOMAIN inbox
        BY <1>3, <2>1 DEF Mine
      <3>2. /\ cfgPc \in {"poll", "unregister"} /\ j + 1 = Len(inbox)
            /\ inbox[j + 1] = [type |-> asked, command |-> command, sender |-> temp_module_id,
                               part |-> Part]
            /\ asked = "CONTINUE" => Len(inbox) = 1
        BY <1>1, <3>1 DEF QueryInv
      <3> QED BY <1>3, <3>2
    <2>2. DOMAIN temp_mq = {} /\ (cfgPc = "unregister" => reply = NoReply)
      BY <1>1 DEF QueryInv, GoodReply
    <2>3. ~(asked = "CONTINUE" /\ cfgPc \in {"register", "publish"})
      BY <1>1 DEF QueryInv
    <2> QED BY <2>1, <2>2, <2>3 DEF QueryInv, Mine, Querying, Part
  <1>11. ReportInv'
    <2>1. \A n \in 1..MaxCommands :
            result[n] = "ok" => \E i \in DOMAIN performed' : performed'[i].command.n = n
      <3> SUFFICES ASSUME NEW n \in 1..MaxCommands, result[n] = "ok"
                   PROVE  \E i \in DOMAIN performed' : performed'[i].command.n = n
        OBVIOUS
      <3>1. PICK i \in DOMAIN performed : performed[i].command.n = n
        BY <1>1 DEF ReportInv
      <3> QED BY <1>4, <3>1
    <2>2. WholeShow'
      <3> SUFFICES ASSUME Finished(command.n), command.op = "show"
                   PROVE  \E i \in DOMAIN performed' :
                            /\ performed'[i].command = command
                            /\ output = [p \in 1..performed'[i].chunks |->
                                           [show |-> command.n, part |-> p]]
        BY DEF WholeShow, Finished
      <3>1. PICK i \in DOMAIN performed :
              /\ performed[i].command = command
              /\ output = [p \in 1..performed[i].chunks |-> [show |-> command.n, part |-> p]]
        BY <1>1 DEF ReportInv, WholeShow
      <3> QED BY <1>4, <3>1
    <2> QED BY <2>1, <2>2 DEF ReportInv
  <1> QED BY <1>5, <1>6, <1>7, <1>8, <1>9, <1>10, <1>11 DEF IInv

\* What is appended is the latest.
LEMMA NowLatest ==
    ASSUME TypeOK, NEW r \in Record, performed' = Append(performed, r)
    PROVE  performed' # <<>> /\ Latest' = r
  <1>1. performed \in Seq(Record)
    BY Zenon DEF TypeOK, Record
  <1>2. Len(performed') = Len(performed) + 1 /\ performed'[Len(performed) + 1] = r
        /\ Len(performed) \in Nat
    BY <1>1
  <1> QED BY <1>2 DEF Latest

LEMMA DoneKinds ==
    ASSUME NEW c \in Command, NEW acted \in Interfaces \cup {0}, NEW chunks \in 1..MaxChunks
    PROVE  /\ Done(c, acted, chunks) \in Record /\ Done(c, acted, chunks).command = c
           /\ Done(c, acted, chunks).chunks = chunks /\ Done(c, acted, chunks).acted = acted
  BY DEF Done, Record

\* The next chunk goes out, and the cache stays if there is another.
LEMMA ChunkSent ==
    ASSUME NEW m \in Message, NEW cache \in [show : 0..MaxCommands, chunks : 0..MaxChunks],
           NEW offset \in 0..MaxChunks, offset < cache.chunks, SendChunk(m, cache, offset)
    PROVE  /\ answer' \in [sender : Ids, msg : Responses] /\ answer'.sender = m.sender
           /\ show_cache' \in [show : 0..MaxCommands, chunks : 0..MaxChunks]
           /\ offset + 1 \in 0..MaxChunks
           /\ answer'.msg.text = [show |-> cache.show, part |-> offset + 1]
           /\ answer'.msg.to = <<m.command.n, m.part>>
           /\ \/ answer'.msg.type = "RESP_MORE" /\ offset + 1 < cache.chunks /\ show_cache' = cache
              \/ answer'.msg.type = "RESP" /\ offset + 1 = cache.chunks
  <1>1. /\ MaxChunks \in Nat /\ cache.chunks \in 0..MaxChunks /\ cache.show \in 0..MaxCommands
        /\ offset + 1 \in 0..MaxChunks
    BY CliQueryAssumption
  <1>2. /\ m.sender \in Ids /\ m.command.n \in 0..MaxCommands /\ m.part \in 0..MaxChunks
    BY <1>1 DEF Message, Command
  <1> DEFINE more == offset + 1 < cache.chunks
             type == IF more THEN "RESP_MORE" ELSE "RESP"
             text == [show |-> cache.show, part |-> offset + 1]
             response == Response(type, text, 0, <<m.command.n, m.part>>)
  <1>3. text \in Texts /\ NoCache \in [show : 0..MaxCommands, chunks : 0..MaxChunks]
    BY <1>1, TextKinds
  <1>4. response \in Responses /\ response.type = type /\ response.text = text
        /\ response.to = <<m.command.n, m.part>>
    <2>1. type \in {"none", "VIEW_CHG", "RESP", "RESP_MORE"} /\ 0 \in Interfaces \cup {0}
          /\ <<m.command.n, m.part>> \in (0..MaxCommands) \X (0..MaxChunks)
      BY <1>2
    <2> HIDE DEF type, text
    <2> QED BY <1>3, <2>1, ResponseKinds
  <1>5. answer' = [sender |-> m.sender, msg |-> response]
        /\ show_cache' = IF more THEN cache ELSE NoCache
    BY DEF SendChunk
  <1> HIDE DEF response, text
  <1>6. answer' \in [sender : Ids, msg : Responses] /\ answer'.sender = m.sender
        /\ answer'.msg = response
    BY <1>2, <1>4, <1>5
  <1>7. more \/ offset + 1 = cache.chunks
    BY <1>1
  <1> QED BY <1>1, <1>3, <1>4, <1>5, <1>6, <1>7 DEF text

LEMMA HandleCliStep ==
    ASSUME IInv, HandleCli
    PROVE  IInv'
  <1> DEFINE m == Head(inbox)
             c == m.command
  <1>1. /\ ifPc = "receive" /\ inbox # <<>> /\ inbox' = Tail(inbox) /\ m.type = "CLI"
        /\ SelectInterface(m) \/ ShutInterface(m) \/ ShowInterfaces(m)
        /\ ifPc' \in {"receive", "respond"} /\ (ifPc' = "respond" => Answered(m))
        /\ UNCHANGED <<cfgPc, command, asked, reply, output, prompt, result, query_id_counter,
                       temp_module_id, registered, temp_mq, subscribed, shutdown>>
    BY DEF HandleCli, cfgVars, queryVars, stopVars
  <1>2. TypeOK /\ CommandInv
    BY DEF IInv
  <1>3. m \in Message
    <2>1. inbox \in Seq(Message)
      BY <1>2, Zenon DEF TypeOK, Message
    <2> QED BY <1>1, <2>1
  <1>4. /\ c \in Command /\ c.n \in 0..MaxCommands /\ c.iface \in Interfaces \cup {0}
        /\ m.sender \in Ids /\ m.part \in 1..MaxChunks /\ m.part \in 0..MaxChunks
        /\ 1 \in 1..MaxChunks /\ 0 \in 0..MaxChunks /\ MaxChunks \in Nat
    BY <1>3, CliQueryAssumption DEF Message, Command
  <1>5. Mine(m.sender) => /\ cfgPc \in {"poll", "unregister"} /\ inbox' = <<>>
                          /\ asked = "CLI" /\ c = command /\ m.part = Part /\ Part = 1
    <2> SUFFICES ASSUME Mine(m.sender)
                 PROVE  /\ cfgPc \in {"poll", "unregister"} /\ inbox' = <<>>
                        /\ asked = "CLI" /\ c = command /\ m.part = Part /\ Part = 1
      OBVIOUS
    <2>1. /\ cfgPc \in {"poll", "unregister"} /\ inbox' = <<>> /\ asked = "CLI"
          /\ c = command /\ m.part = Part
      BY <1>1, MyTurn
    <2>2. output = <<>>
      BY <1>2, <2>1 DEF CommandInv, Active
    <2> QED BY <2>1, <2>2 DEF Part
  <1>6. /\ current_interface \in Interfaces \cup {0} /\ batch_offset \in 0..MaxChunks
        /\ show_cache \in [show : 0..MaxCommands, chunks : 0..MaxChunks]
    BY <1>2 DEF TypeOK
  <1>7. Part' = Part
    BY <1>1 DEF Part
  <1> HIDE DEF m, c
  <1>8. CASE SelectInterface(m)
    <2>1. PICK ok \in BOOLEAN :
            /\ c.op = "interface"
            /\ current_interface' = IF ok /\ Answered(m) THEN c.iface ELSE current_interface
            /\ performed' = Append(performed, Done(c, IF ok /\ Answered(m) THEN c.iface ELSE 0, 1))
            /\ answer' = [sender |-> m.sender,
                          msg |-> Response(IF ok THEN "VIEW_CHG" ELSE "RESP", NoText,
                                           IF ok THEN c.iface ELSE 0, <<c.n, m.part>>)]
            /\ UNCHANGED <<show_cache, batch_offset>>
      BY <1>8 DEF SelectInterface, c
    <2> DEFINE type  == IF ok THEN "VIEW_CHG" ELSE "RESP"
               iface == IF ok THEN c.iface ELSE 0
               acted == IF ok /\ Answered(m) THEN c.iface ELSE 0
               r     == Done(c, acted, 1)
    <2>2. type \in {"none", "VIEW_CHG", "RESP", "RESP_MORE"} /\ iface \in Interfaces \cup {0}
          /\ current_interface' \in Interfaces \cup {0}
          /\ (type = "VIEW_CHG" /\ Answered(m) => iface = current_interface')
          /\ type \in {"VIEW_CHG", "RESP"} /\ acted \in Interfaces \cup {0}
      BY <1>4, <1>6, <2>1
    <2> HIDE DEF type, iface, acted
    <2>3. r \in Record /\ r.command = c
      BY <1>4, <2>2, DoneKinds
    <2>4. /\ answer' \in [sender : Ids, msg : Responses] /\ answer'.sender = m.sender
          /\ answer'.msg.type = type /\ answer'.msg.iface = iface
          /\ answer'.msg.to = <<c.n, m.part>>
      <3>1. NoText \in Texts /\ <<c.n, m.part>> \in (0..MaxCommands) \X (0..MaxChunks)
        BY <1>4, TextKinds
      <3>2. answer' = [sender |-> m.sender, msg |-> Response(type, NoText, iface, <<c.n, m.part>>)]
        BY <2>1 DEF type, iface
      <3> QED BY <1>4, <2>2, <3>1, <3>2, ResponseKinds
    <2>5. performed' = Append(performed, r)
      BY <2>1 DEF acted
    <2> HIDE DEF r
    <2>6. performed' # <<>> /\ Latest' = r
      BY <1>2, <2>3, <2>5, NowLatest
    <2>7. ifPc' = "respond" /\ Mine(m.sender) => GoodReply(answer.msg)'
      BY <1>1, <1>5, <1>7, <2>1, <2>2, <2>3, <2>4, <2>6 DEF GoodReply, IsLatest
    <2> QED BY <1>1, <1>6, <2>1, <2>2, <2>3, <2>4, <2>5, <2>7, Handled DEF m, c
  <1>9. CASE ShutInterface(m)
    <2>1. /\ c.op = "shutdown"
          /\ performed' = Append(performed, Done(c, current_interface, 1))
          /\ answer' = [sender |-> m.sender, msg |-> Response("RESP", NoText, 0, <<c.n, m.part>>)]
          /\ UNCHANGED <<current_interface, show_cache, batch_offset>>
      BY <1>9 DEF ShutInterface, ifState, c
    <2> DEFINE r == Done(c, current_interface, 1)
    <2>2. r \in Record /\ r.command = c
      BY <1>4, <1>6, DoneKinds
    <2>3. /\ answer' \in [sender : Ids, msg : Responses] /\ answer'.sender = m.sender
          /\ answer'.msg.type = "RESP" /\ answer'.msg.to = <<c.n, m.part>>
      <3>1. NoText \in Texts /\ <<c.n, m.part>> \in (0..MaxCommands) \X (0..MaxChunks)
        BY <1>4, TextKinds
      <3> DEFINE answered == Response("RESP", NoText, 0, <<c.n, m.part>>)
      <3>2. answered \in Responses /\ answered.type = "RESP" /\ answered.to = <<c.n, m.part>>
        BY <3>1, ResponseKinds
      <3>3. answer' = [sender |-> m.sender, msg |-> answered]
        BY <2>1
      <3> HIDE DEF answered
      <3> QED BY <1>4, <3>2, <3>3
    <2> HIDE DEF r
    <2>4. performed' # <<>> /\ Latest' = r
      BY <1>2, <2>1, <2>2, NowLatest DEF r
    <2>5. Mine(m.sender) => GoodReply(answer.msg)'
      BY <1>1, <1>5, <1>7, <2>1, <2>2, <2>3, <2>4 DEF GoodReply, IsLatest
    <2> QED BY <1>1, <1>6, <2>1, <2>2, <2>3, <2>5, Handled DEF m, c, r
  <1>10. CASE ShowInterfaces(m)
    <2>1. PICK chunks \in 1..MaxChunks :
            /\ c.op = "show"
            /\ SendChunk(m, [show |-> c.n, chunks |-> chunks], 0)
            /\ batch_offset' = IF chunks > 1 /\ Answered(m) THEN 1 ELSE 0
            /\ performed' = Append(performed, Done(c, 0, chunks))
            /\ UNCHANGED current_interface
      BY <1>10 DEF ShowInterfaces, c
    <2> DEFINE r     == Done(c, 0, chunks)
               cache == [show |-> c.n, chunks |-> chunks]
    <2>2. r \in Record /\ r.command = c /\ r.chunks = chunks
      BY <1>4, DoneKinds
    <2>3. cache \in [show : 0..MaxCommands, chunks : 0..MaxChunks] /\ cache.chunks = chunks
          /\ cache.show = c.n /\ 0 < cache.chunks /\ SendChunk(m, cache, 0)
      BY <1>4, <2>1
    <2> HIDE DEF r, cache
    <2>4. /\ answer' \in [sender : Ids, msg : Responses] /\ answer'.sender = m.sender
          /\ show_cache' \in [show : 0..MaxCommands, chunks : 0..MaxChunks]
          /\ batch_offset' \in 0..MaxChunks
          /\ answer'.msg.text = [show |-> cache.show, part |-> 1]
          /\ answer'.msg.to = <<m.command.n, m.part>>
          /\ \/ answer'.msg.type = "RESP_MORE" /\ 1 < cache.chunks /\ show_cache' = cache
             \/ answer'.msg.type = "RESP" /\ 1 = cache.chunks
      <3>1. 0 + 1 = 1 /\ batch_offset' \in 0..MaxChunks
        BY <1>4, <2>1
      <3> QED BY <1>3, <1>4, <2>3, <3>1, ChunkSent
    <2>5. performed' # <<>> /\ Latest' = r
      BY <1>2, <2>1, <2>2, NowLatest DEF r
    <2>6. ifPc' = "respond" /\ Mine(m.sender) => GoodReply(answer.msg)'
      <3> SUFFICES ASSUME Answered(m), Mine(m.sender) PROVE GoodReply(answer.msg)'
        BY <1>1
      <3>1. /\ command' = command /\ c = command /\ command.op = "show" /\ Part' = 1 /\ m.part = 1
            /\ inbox' = <<>> /\ cfgPc' \in {"poll", "unregister"}
        BY <1>1, <1>5, <1>7, <2>1
      <3>2. IsLatest' /\ Latest'.chunks = chunks
        BY <2>2, <2>5, <3>1 DEF IsLatest
      <3>3. answer'.msg.to = <<command.n, 1>>
            /\ answer'.msg.text = [show |-> command.n, part |-> 1]
        BY <2>3, <2>4, <3>1 DEF c
      <3>4. \/ answer'.msg.type = "RESP" /\ 1 = Latest'.chunks
            \/ answer'.msg.type = "RESP_MORE" /\ CacheAt(1)'
        BY <2>1, <2>3, <2>4, <3>1, <3>2 DEF CacheAt, cache
      <3> QED BY <3>1, <3>2, <3>3, <3>4 DEF GoodReply
    <2> QED BY <1>1, <1>6, <2>1, <2>2, <2>4, <2>6, Handled DEF m, c, r
  <1> QED BY <1>1, <1>8, <1>9, <1>10

LEMMA HandleContinueStep ==
    ASSUME IInv, HandleContinue
    PROVE  IInv'
  <1> DEFINE m == Head(inbox)
  <1>1. /\ ifPc = "receive" /\ inbox # <<>> /\ inbox' = Tail(inbox) /\ m.type = "CONTINUE"
        /\ IF batch_offset < show_cache.chunks
           THEN SendChunk(m, show_cache, batch_offset) /\ batch_offset' = batch_offset + 1
           ELSE /\ answer' = [sender |-> m.sender,
                              msg |-> Response("RESP", NoText, 0, <<m.command.n, m.part>>)]
                /\ UNCHANGED <<show_cache, batch_offset>>
        /\ ifPc' = "respond"
        /\ UNCHANGED <<current_interface, performed, cfgPc, command, asked, reply, output, prompt,
                       result, query_id_counter, temp_module_id, registered, temp_mq, subscribed,
                       shutdown>>
    BY DEF HandleContinue, cfgVars, queryVars, stopVars
  <1>2. TypeOK /\ CommandInv
    BY DEF IInv
  <1>3. m \in Message
    <2>1. inbox \in Seq(Message)
      BY <1>2, Zenon DEF TypeOK, Message
    <2> QED BY <1>1, <2>1
  <1>4. /\ m.sender \in Ids /\ m.command.n \in 0..MaxCommands /\ m.part \in 0..MaxChunks
        /\ 0 \in 0..MaxChunks /\ MaxChunks \in Nat
    BY <1>3, CliQueryAssumption DEF Message, Command
  <1>5. Mine(m.sender) => /\ cfgPc \in {"poll", "unregister"} /\ inbox' = <<>>
                          /\ asked = "CONTINUE" /\ m.command = command /\ m.part = Part
                          /\ IsLatest /\ CacheAt(Len(output)) /\ command.op = "show"
    <2> SUFFICES ASSUME Mine(m.sender)
                 PROVE  /\ cfgPc \in {"poll", "unregister"} /\ inbox' = <<>>
                        /\ asked = "CONTINUE" /\ m.command = command /\ m.part = Part
                        /\ IsLatest /\ CacheAt(Len(output)) /\ command.op = "show"
      OBVIOUS
    <2>1. /\ cfgPc \in {"poll", "unregister"} /\ inbox' = <<>> /\ asked = "CONTINUE"
          /\ m.command = command /\ m.part = Part /\ IsLatest /\ CacheAt(Len(output))
      BY <1>1, MyTurn
    <2> QED BY <1>2, <2>1 DEF CommandInv, Active
  <1>6. /\ current_interface \in Interfaces \cup {0} /\ batch_offset \in 0..MaxChunks
        /\ show_cache \in [show : 0..MaxCommands, chunks : 0..MaxChunks]
    BY <1>2 DEF TypeOK
  <1>7. Part' = Part /\ Latest' = Latest
    BY <1>1 DEF Part, Latest
  <1> HIDE DEF m
  <1>8. CASE batch_offset < show_cache.chunks
    <2>1. SendChunk(m, show_cache, batch_offset) /\ batch_offset' = batch_offset + 1
      BY <1>1, <1>8
    <2>2. /\ answer' \in [sender : Ids, msg : Responses] /\ answer'.sender = m.sender
          /\ show_cache' \in [show : 0..MaxCommands, chunks : 0..MaxChunks]
          /\ batch_offset' = batch_offset + 1 /\ batch_offset' \in 0..MaxChunks
          /\ answer'.msg.text = [show |-> show_cache.show, part |-> batch_offset + 1]
          /\ answer'.msg.to = <<m.command.n, m.part>>
          /\ \/ /\ answer'.msg.type = "RESP_MORE" /\ batch_offset + 1 < show_cache.chunks
                /\ show_cache' = show_cache
             \/ answer'.msg.type = "RESP" /\ batch_offset + 1 = show_cache.chunks
      BY <1>3, <1>6, <1>8, <2>1, ChunkSent
    <2>3. Mine(m.sender) => GoodReply(answer.msg)'
      <3> SUFFICES ASSUME Mine(m.sender) PROVE GoodReply(answer.msg)'
        OBVIOUS
      <3>1. batch_offset + 1 = Part /\ show_cache = [show |-> command.n, chunks |-> Latest.chunks]
        BY <1>5 DEF CacheAt, Part
      <3>2. show_cache.show = command.n /\ show_cache.chunks = Latest.chunks
        BY <3>1
      <3>3. IsLatest'
        BY <1>1, <1>5, <1>7 DEF IsLatest
      <3>4. answer'.msg.to = <<command.n, Part>>
            /\ answer'.msg.text = [show |-> command.n, part |-> Part]
        BY <1>5, <2>2, <3>1, <3>2
      <3>5. \/ answer'.msg.type = "RESP" /\ Part = Latest.chunks
            \/ answer'.msg.type = "RESP_MORE" /\ CacheAt(Part)'
        BY <1>1, <1>7, <2>2, <3>1, <3>2 DEF CacheAt
      <3> QED BY <1>1, <1>5, <1>7, <3>3, <3>4, <3>5 DEF GoodReply
    <2> QED BY <1>1, <1>6, <2>2, <2>3, Handled DEF m
  <1>9. CASE ~(batch_offset < show_cache.chunks)
    <2>1. ~Mine(m.sender)
      BY <1>5, <1>9 DEF CacheAt
    <2>2. answer' \in [sender : Ids, msg : Responses] /\ answer'.sender = m.sender
      <3>1. NoText \in Texts /\ <<m.command.n, m.part>> \in (0..MaxCommands) \X (0..MaxChunks)
        BY <1>4, TextKinds
      <3> DEFINE answered == Response("RESP", NoText, 0, <<m.command.n, m.part>>)
      <3>2. answered \in Responses /\ answered.type = "RESP" /\ answered.to = <<m.command.n, m.part>>
        BY <3>1, ResponseKinds
      <3>3. answer' = [sender |-> m.sender, msg |-> answered]
        BY <1>1, <1>9
      <3> HIDE DEF answered
      <3> QED BY <1>4, <3>2, <3>3
    <2> QED BY <1>1, <1>6, <1>9, <2>1, <2>2, Handled DEF m
  <1> QED BY <1>8, <1>9

------------------------------------------------------------------------------
(***************************************************************************)
(* The results                                                             *)
(***************************************************************************)

\* The inductive invariant: what is queued, being answered or remembered by the
\* IF module always fits the command that nn_cli_dispatch_to_module is at.
THEOREM Invariance == Spec => []IInv
  <1>1. Init => IInv
    BY InitInv
  <1>2. IInv /\ [Next]_vars => IInv'
    <2> SUFFICES ASSUME IInv, [Next]_vars PROVE IInv'
      OBVIOUS
    <2>1. CASE \E s \in Sessions : Type(s) \/ Exit(s)
      BY <2>1, TypeStep, ExitStep
    <2>2. CASE QueryStep
      BY <2>2, RegisterStep, PublishStep, PollStep, FinishStep DEF QueryStep
    <2>3. CASE IfStep
      BY <2>3, HandleCliStep, HandleContinueStep, RespondStep DEF IfStep
    <2>4. CASE Stop
      BY <2>4, StopStep
    <2>5. CASE UNCHANGED vars
      <3> USE DEF vars, cfgVars, queryVars, ifVars, ifState, stopVars
      <3>1. TypeOK'
        BY <2>5 DEF IInv, TypeOK, ModulesKeepTheirIds
      <3> QED BY <2>5, <3>1, QuietStep
    <2> QED BY <2>1, <2>2, <2>3, <2>4, <2>5 DEF Next
  <1> QED BY <1>1, <1>2, PTL DEF Spec

\* Every variable keeps its type, no module loses its id to a query, and the id
\* of a query belongs to nobody once nn_dev_pubsub_query has returned.
THEOREM TypeCorrect == Spec => []TypeOK
  <1>1. IInv => TypeOK
    BY DEF IInv
  <1> QED BY <1>1, Invariance, PTL

\* What nn_dev_pubsub_query returns answers the message it sent, whatever came
\* late to the queries before it.
THEOREM AnswersFit == Spec => []NoCrossTalk
  <1>1. IInv => NoCrossTalk
    BY DEF IInv, QueryInv, GoodReply, Part, NoCrossTalk
  <1> QED BY <1>1, Invariance, PTL

\* A show that nn_cli_dispatch_to_module reports as done is the whole of one
\* output of handle_show_cmd, made for it.
THEOREM ShowsAreWhole == Spec => []WholeShow
  <1>1. IInv => WholeShow
    BY DEF IInv, ReportInv
  <1> QED BY <1>1, Invariance, PTL

\* The IF module carries out each command at most once and in the order typed,
\* and every one that was reported as done.
THEOREM DoneInTurn == Spec => []PerformedInOrder
  <1>1. IInv => PerformedInOrder
    BY DEF IInv, OrderInv, ReportInv, PerformedInOrder
  <1> QED BY <1>1, Invariance, PTL

------------------------------------------------------------------------------
(***************************************************************************)
(* Sessions and the interface the IF module keeps for all of them          *)
(***************************************************************************)

\* A command that selects nothing, or selects for another session, leaves a
\* session where it was or diverts it.
LEMMA FollowsStays ==
    ASSUME TypeOK, NEW s, NEW i, Follows(s, i), NEW r \in Record,
           performed' = Append(performed, r),
           \/ /\ current_interface' = current_interface
              /\ r.command.op # "interface" \/ r.acted = 0
           \/ /\ current_interface' = r.acted /\ r.acted # 0
              /\ r.command.op = "interface" /\ r.command.session \in Sessions \ {s}
    PROVE  Follows(s, i)'
  <1>1. performed \in Seq(Record)
    BY Zenon DEF TypeOK, Record
  <1>0. PICK last \in Nat : last = Len(performed) + 1
    BY <1>1
  <1>2. /\ Len(performed') = last /\ last \in Nat /\ last - 1 = Len(performed)
        /\ performed'[last] = r
        /\ \A k \in 1..(last - 1) : performed'[k] = performed[k]
    BY <1>0, <1>1
  <1>3. \A t, k : k \in 1..(last - 1) => (SelectsFor(t, k)' <=> SelectsFor(t, k))
    BY <1>2 DEF SelectsFor
  <1>4. ~SelectsFor(s, last)'
    BY <1>2 DEF SelectsFor
  <1>5. CASE current_interface' = current_interface
    <2>1. CASE current_interface = i
      BY <1>5, <2>1 DEF Follows
    <2>2. ASSUME NEW j \in 1..(last - 1), performed[j].acted = current_interface,
                 NEW t \in Sessions \ {s}, SelectsFor(t, j),
                 \A k \in j..(last - 1) : ~SelectsFor(s, k)
          PROVE  SelectedByAnother(s, current_interface, Len(performed))'
      <3>1. j \in 1..last /\ \A k \in j..last : k = last \/ (k \in j..(last - 1) /\ k \in 1..(last - 1))
        BY <1>2
      <3>2. \A k \in j..last : ~SelectsFor(s, k)'
        BY <1>3, <1>4, <2>2, <3>1
      <3>3. performed'[j].acted = current_interface' /\ SelectsFor(t, j)'
        BY <1>2, <1>3, <1>5, <2>2
      <3> QED BY <1>2, <3>1, <3>2, <3>3 DEF SelectedByAnother
    <2> QED BY <1>2, <2>1, <2>2 DEF Follows, SelectedByAnother
  <1>6. CASE /\ current_interface' = r.acted /\ r.acted # 0
             /\ r.command.op = "interface" /\ r.command.session \in Sessions \ {s}
    <2>1. last \in 1..last /\ \A k \in last..last : k = last
      BY <1>0, <1>1
    <2>2. SelectsFor(r.command.session, last)'
      BY <1>2, <1>6 DEF SelectsFor
    <2> QED BY <1>2, <1>4, <1>6, <2>1, <2>2 DEF Follows, SelectedByAnother
  <1> QED BY <1>5, <1>6

\* What happened up to now, and whom it diverted, is not changed later.
LEMMA DivertedStays ==
    ASSUME TypeOK, OnlyOthersDivert, NEW r \in Record, performed' = Append(performed, r),
           r.command.op = "shutdown" =>
               /\ r.acted = current_interface
               /\ Follows(r.command.session, r.command.iface)
    PROVE  OnlyOthersDivert'
  <1>1. performed \in Seq(Record)
    BY Zenon DEF TypeOK, Record
  <1>0. PICK last \in Nat : last = Len(performed) + 1
    BY <1>1
  <1>2. /\ DOMAIN performed' = 1..last /\ last \in Nat /\ last - 1 = Len(performed)
        /\ DOMAIN performed = 1..(last - 1) /\ performed'[last] = r
        /\ \A k \in 1..(last - 1) : performed'[k] = performed[k]
    BY <1>0, <1>1
  <1>3. ASSUME NEW s, NEW i, NEW n \in 0..(last - 1), SelectedByAnother(s, i, n)
        PROVE  SelectedByAnother(s, i, n)'
    <2>1. PICK j \in 1..n : /\ performed[j].acted = i
                            /\ \E t \in Sessions \ {s} : SelectsFor(t, j)
                            /\ \A k \in j..n : ~SelectsFor(s, k)
      BY <1>3 DEF SelectedByAnother
    <2>2. j \in 1..(last - 1) /\ \A k \in j..n : k \in 1..(last - 1)
      BY <1>2
    <2> QED BY <1>2, <2>1, <2>2 DEF SelectedByAnother, SelectsFor
  <1>4. ASSUME NEW n \in 1..last, performed'[n].command.op = "shutdown"
        PROVE  (\/ performed[n].acted = performed[n].command.iface
                \/ SelectedByAnother(performed[n].command.session, performed[n].acted, n - 1))'
    <2>1. CASE n \in 1..(last - 1)
      <3>1. n - 1 \in 0..(last - 1) /\ performed'[n] = performed[n]
        BY <1>2, <2>1
      <3>2. \/ performed[n].acted = performed[n].command.iface
            \/ SelectedByAnother(performed[n].command.session, performed[n].acted, n - 1)
        BY <1>2, <1>4, <2>1, <3>1 DEF OnlyOthersDivert
      <3>3. PICK s, i : s = performed[n].command.session /\ i = performed[n].acted
        OBVIOUS
      <3>4. SelectedByAnother(s, i, n - 1) => SelectedByAnother(s, i, n - 1)'
        BY <1>3, <3>1
      <3> QED BY <3>1, <3>2, <3>3, <3>4 DEF SelectedByAnother
    <2>2. CASE n = last
      <3>1. \/ r.acted = r.command.iface
            \/ SelectedByAnother(r.command.session, r.acted, last - 1)
        BY <1>2, <1>4, <2>2 DEF Follows
      <3>2. last - 1 \in 0..(last - 1)
        BY <1>0, <1>1
      <3>3. PICK s, i : s = r.command.session /\ i = r.acted
        OBVIOUS
      <3>4. SelectedByAnother(s, i, last - 1) => SelectedByAnother(s, i, last - 1)'
        BY <1>3, <3>2
      <3> QED BY <1>2, <2>2, <3>1, <3>3, <3>4 DEF SelectedByAnother
    <2> QED BY <1>2, <1>4, <2>1, <2>2
  <1> QED BY <1>2, <1>4 DEF OnlyOthersDivert

\* The CFG thread does what leaves the prompts, or what is queued, as it was.
LEMMA PromptStays ==
    ASSUME PromptInv, UNCHANGED <<command, prompt, inbox, current_interface, performed>>,
           Active' => Active,
           cfgPc' \in {"register", "publish"} =>
               cfgPc \in {"register", "publish"} \/ command.op \notin {"interface", "shutdown"}
    PROVE  PromptInv'
  BY DEF PromptInv, OnlyOthersDivert, Follows, SelectedByAnother, SelectsFor

\* What a session follows depends on what the IF module did, and on that alone.
LEMMA FollowsOn ==
    ASSUME NEW s, NEW i, UNCHANGED <<current_interface, performed>>
    PROVE  /\ Follows(s, i)' <=> Follows(s, i)
           /\ OnlyOthersDivert' <=> OnlyOthersDivert
  BY DEF Follows, OnlyOthersDivert, SelectedByAnother, SelectsFor

LEMMA PromptTypeStep ==
    ASSUME PromptInv, NEW s \in Sessions, Type(s) \/ Exit(s), TypeOK
    PROVE  PromptInv'
  <1>1. UNCHANGED <<inbox, current_interface, performed>> /\ cfgPc = "idle"
        /\ prompt \in [Sessions -> Interfaces \cup {0}]
    BY DEF Type, Exit, ifVars, ifState, TypeOK
  <1>2. OnlyOthersDivert' /\ \A t, i : Follows(t, i)' <=> Follows(t, i)
    BY <1>1, FollowsOn DEF PromptInv
  <1>3. ASSUME NEW j \in DOMAIN inbox', inbox'[j].command.op = "shutdown"
        PROVE  (LET c == inbox[j].command IN
                /\ Follows(c.session, c.iface)
                /\ \A i \in 1..(j - 1) :
                     ~(inbox[i].command.op = "interface" /\ inbox[i].command.session = c.session))'
    <2>1. PICK t, i : t = inbox[j].command.session /\ i = inbox[j].command.iface
      OBVIOUS
    <2>2. Follows(t, i)'
      BY <1>1, <1>2, <1>3, <2>1 DEF PromptInv
    <2>3. t = inbox'[j].command.session /\ i = inbox'[j].command.iface
      BY <1>1, <2>1
    <2>4. \A k \in 1..(j - 1) :
            ~(inbox'[k].command.op = "interface" /\ inbox'[k].command.session = t)
      BY <1>1, <1>3, <2>1 DEF PromptInv
    <2> QED BY <2>2, <2>3, <2>4 DEF Follows
  <1>4. CASE Type(s)
    <2>1. prompt' = prompt /\ cfgPc' = "register" /\ command' \in Commands(s)
      BY <1>4 DEF Type
    <2>2. /\ command'.session = s
          /\ prompt[s] # 0 => command'.op # "interface"
          /\ command'.op = "shutdown" => command'.iface = prompt[s] /\ prompt[s] # 0
          /\ command'.op = "interface" => command'.iface # 0
      BY <2>1, CliQueryAssumption DEF Commands
    <2>3. \A t \in Sessions : prompt'[t] # 0 =>
            /\ Follows(t, prompt[t])'
            /\ \A j \in DOMAIN inbox' :
                 ~(inbox'[j].command.op = "interface" /\ inbox'[j].command.session = t)
            /\ ~(command'.op = "interface" /\ command'.session = t)
      BY <1>1, <1>2, <2>1, <2>2 DEF PromptInv, Follows
    <2> QED BY <1>1, <1>2, <1>3, <2>1, <2>2, <2>3 DEF PromptInv
  <1>5. CASE Exit(s)
    <2>1. prompt' = [prompt EXCEPT ![s] = 0] /\ cfgPc' = "idle" /\ command' = command
      BY <1>1, <1>5 DEF Exit
    <2>2. \A t \in Sessions : prompt'[t] # 0 =>
            /\ Follows(t, prompt[t])'
            /\ \A j \in DOMAIN inbox' :
                 ~(inbox'[j].command.op = "interface" /\ inbox'[j].command.session = t)
      BY <1>1, <1>2, <2>1 DEF PromptInv, Follows
    <2> QED BY <1>1, <1>2, <1>3, <2>1, <2>2 DEF PromptInv, Active
  <1> QED BY <1>4, <1>5

LEMMA PromptQueryStep ==
    ASSUME IInv, IInv', PromptInv, QueryStep
    PROVE  PromptInv'
  <1>1. UNCHANGED <<command, current_interface, performed>> /\ Active
    BY DEF QueryStep, RegisterQuery, PublishQuery, PollReady, PollTimeout, FinishQuery, Active,
           ifVars, ifState
  <1>2. TypeOK /\ CommandInv /\ QueryInv /\ CommandInv'
    BY DEF IInv
  <1>3. OnlyOthersDivert' /\ \A s, i : Follows(s, i)' <=> Follows(s, i)
    BY <1>1, FollowsOn DEF PromptInv
  <1>4. CASE RegisterQuery \/ PollReady \/ PollTimeout
    <2>1. UNCHANGED <<prompt, inbox>> /\ (cfgPc = "register" \/ cfgPc' = "unregister")
      BY <1>4 DEF RegisterQuery, PollReady, PollTimeout
    <2> QED BY <1>1, <2>1, PromptStays
  <1>5. CASE PublishQuery
    <2>1. CASE ~subscribed
      BY <1>1, <1>5, <2>1, PromptStays DEF PublishQuery
    <2>2. CASE subscribed
      <3> DEFINE m == [type |-> asked, command |-> command, sender |-> temp_module_id,
                       part |-> Len(output) + 1]
      <3>1. inbox' = Append(inbox, m) /\ prompt' = prompt /\ cfgPc = "publish" /\ cfgPc' = "poll"
        BY <1>5, <2>2 DEF PublishQuery
      <3>2. m.command = command
        OBVIOUS
      <3> HIDE DEF m
      <3>3. inbox \in Seq(Message)
        BY <1>2, Zenon DEF TypeOK, Message
      <3>4. /\ DOMAIN inbox = 1..Len(inbox) /\ Len(inbox) \in Nat
            /\ DOMAIN inbox' = 1..(Len(inbox) + 1)
            /\ \A j \in DOMAIN inbox : inbox'[j] = inbox[j]
            /\ inbox'[Len(inbox) + 1] = m
        BY <3>1, <3>3
      <3>5. /\ \A s \in Sessions : prompt[s] # 0 =>
                 /\ Follows(s, prompt[s])
                 /\ \A j \in DOMAIN inbox :
                      ~(inbox[j].command.op = "interface" /\ inbox[j].command.session = s)
                 /\ ~(command.op = "interface" /\ command.session = s)
            /\ command.op = "shutdown" =>
                 prompt[command.session] = command.iface /\ command.iface # 0
            /\ command.op = "interface" => command.iface # 0
            /\ command.session \in Sessions
        BY <1>1, <1>2, <3>1 DEF PromptInv, CommandInv
      <3>6. \A s \in Sessions : prompt'[s] # 0 =>
              /\ Follows(s, prompt[s])'
              /\ \A j \in DOMAIN inbox' :
                   ~(inbox'[j].command.op = "interface" /\ inbox'[j].command.session = s)
              /\ ~(command'.op = "interface" /\ command'.session = s)
        <4>1. \A s \in Sessions : prompt'[s] # 0 => Follows(s, prompt[s])'
          BY <1>3, <3>1, <3>5 DEF Follows
        <4> QED BY <1>1, <3>1, <3>2, <3>4, <3>5, <4>1
      <3>7. ASSUME NEW j \in DOMAIN inbox', inbox'[j].command.op = "shutdown"
            PROVE  (LET c == inbox[j].command IN
                    /\ Follows(c.session, c.iface)
                    /\ \A i \in 1..(j - 1) :
                         ~(inbox[i].command.op = "interface" /\ inbox[i].command.session = c.session))'
        <4>1. PICK s, i : s = inbox'[j].command.session /\ i = inbox'[j].command.iface
          OBVIOUS
        <4>2. Follows(s, i) /\ \A k \in 1..(j - 1) :
                ~(inbox'[k].command.op = "interface" /\ inbox'[k].command.session = s)
          <5>1. CASE j \in DOMAIN inbox
            <6>1. inbox'[j] = inbox[j] /\ \A k \in 1..(j - 1) : inbox'[k] = inbox[k]
              BY <3>4, <5>1
            <6> QED BY <3>7, <4>1, <5>1, <6>1 DEF PromptInv
          <5>2. CASE j = Len(inbox) + 1
            <6>1. command.op = "shutdown" /\ s = command.session /\ i = command.iface
              BY <3>2, <3>4, <3>7, <4>1, <5>2
            <6>2. \A k \in 1..(j - 1) : k \in DOMAIN inbox /\ inbox'[k] = inbox[k]
              BY <3>4, <5>2
            <6> QED BY <3>5, <6>1, <6>2
          <5> QED BY <3>4, <3>7, <5>1, <5>2
        <4>3. Follows(s, i)'
          BY <1>3, <4>2
        <4> QED BY <4>1, <4>2, <4>3 DEF Follows
      <3>8. ~(cfgPc' \in {"register", "publish"})
        BY <3>1
      <3>9. \A j \in DOMAIN inbox' :
              /\ inbox'[j].command.session \in Sessions
              /\ inbox'[j].command.op = "interface" => inbox'[j].command.iface # 0
        BY <3>2, <3>4, <3>5 DEF PromptInv
      <3> QED BY <1>3, <3>6, <3>7, <3>8, <3>9 DEF PromptInv
    <2> QED BY <2>1, <2>2
  <1>6. CASE FinishQuery
    <2>1. inbox' = inbox /\ cfgPc = "unregister" /\ cfgPc' \in {"idle", "register"}
          /\ (cfgPc' = "register" => asked' = "CONTINUE")
      BY <1>6 DEF FinishQuery, Failed, Succeeded, AskForMore
    <2>2. cfgPc' = "register" => command.op \notin {"interface", "shutdown"}
      BY <1>1, <1>2, <2>1 DEF CommandInv, Active
    <2>3. CASE prompt' = prompt
      BY <1>1, <2>1, <2>2, <2>3, PromptStays
    <2>4. CASE reply.type = "VIEW_CHG" /\ cfgPc' = "idle"
               /\ prompt' = [prompt EXCEPT ![command.session] = reply.iface]
      <3>1. GoodReply(reply)
        BY <1>2, <2>1, <2>4, NoReplyType DEF QueryInv
      <3>2. inbox = <<>> /\ reply.iface = current_interface
        BY <2>4, <3>1 DEF GoodReply
      <3>3. command.session \in Sessions /\ prompt \in [Sessions -> Interfaces \cup {0}]
        BY <1>1, <1>2 DEF CommandInv, TypeOK
      <3>4. \A s \in Sessions : prompt'[s] = current_interface \/ prompt'[s] = prompt[s]
        BY <2>4, <3>2, <3>3
      <3>5. \A s \in Sessions : prompt'[s] # 0 => Follows(s, prompt[s])'
        BY <1>1, <1>3, <3>4 DEF PromptInv, Follows
      <3>6. DOMAIN inbox' = {}
        BY <2>1, <3>2
      <3> QED BY <1>3, <2>4, <3>5, <3>6 DEF PromptInv, Active
    <2> QED BY <1>6, <2>3, <2>4 DEF FinishQuery, Succeeded
  <1> QED BY <1>4, <1>5, <1>6 DEF QueryStep

\* The worker takes a message from its inbox and carries it out; whoever has a
\* selection of its own, and none pending, follows it still.
LEMMA TakenFromInbox ==
    ASSUME PromptInv, TypeOK, inbox # <<>>, inbox' = Tail(inbox),
           UNCHANGED <<cfgPc, command, prompt>>, OnlyOthersDivert',
           \A s \in Sessions : \A i : Follows(s, i)
               /\ ~(Head(inbox).command.op = "interface" /\ Head(inbox).command.session = s)
               => Follows(s, i)'
    PROVE  PromptInv'
  <1>1. inbox \in Seq(Message)
    BY Zenon DEF TypeOK, Message
  <1>2. /\ Len(inbox) \in Nat \ {0} /\ DOMAIN inbox = 1..Len(inbox)
        /\ DOMAIN inbox' = 1..(Len(inbox) - 1)
        /\ \A j \in DOMAIN inbox' : inbox'[j] = inbox[j + 1] /\ j + 1 \in DOMAIN inbox
        /\ Head(inbox) = inbox[1] /\ 1 \in DOMAIN inbox
    BY <1>1
  <1>3. ASSUME NEW s \in Sessions, prompt'[s] # 0
        PROVE  /\ Follows(s, prompt[s])'
               /\ \A j \in DOMAIN inbox' :
                    ~(inbox'[j].command.op = "interface" /\ inbox'[j].command.session = s)
               /\ Active' => ~(command'.op = "interface" /\ command'.session = s)
    <2>1. /\ Follows(s, prompt[s])
          /\ \A j \in DOMAIN inbox :
               ~(inbox[j].command.op = "interface" /\ inbox[j].command.session = s)
          /\ Active' => ~(command'.op = "interface" /\ command'.session = s)
      BY <1>3 DEF PromptInv, Active
    <2>2. PICK i : i = prompt[s]
      OBVIOUS
    <2>3. Follows(s, i)'
      BY <1>2, <2>1, <2>2
    <2> QED BY <1>2, <2>1, <2>2, <2>3 DEF Follows
  <1>4. ASSUME NEW j \in DOMAIN inbox', inbox'[j].command.op = "shutdown"
        PROVE  (LET c == inbox[j].command IN
                /\ Follows(c.session, c.iface)
                /\ \A i \in 1..(j - 1) :
                     ~(inbox[i].command.op = "interface" /\ inbox[i].command.session = c.session))'
    <2>1. PICK s, i : s = inbox[j + 1].command.session /\ i = inbox[j + 1].command.iface
      OBVIOUS
    <2>2. /\ Follows(s, i)
          /\ \A k \in 1..((j + 1) - 1) :
               ~(inbox[k].command.op = "interface" /\ inbox[k].command.session = s)
      BY <1>2, <1>4, <2>1 DEF PromptInv
    <2>3. s = inbox'[j].command.session /\ i = inbox'[j].command.iface /\ s \in Sessions
      BY <1>2, <2>1 DEF PromptInv
    <2>4. 1 \in 1..((j + 1) - 1) /\ \A k \in 1..(j - 1) :
            k + 1 \in 1..((j + 1) - 1) /\ inbox'[k] = inbox[k + 1]
      BY <1>2
    <2>5. Follows(s, i)'
      BY <1>2, <2>2, <2>3, <2>4
    <2>6. \A k \in 1..(j - 1) :
            ~(inbox'[k].command.op = "interface" /\ inbox'[k].command.session = s)
      BY <2>2, <2>4
    <2> QED BY <2>3, <2>5, <2>6 DEF Follows
  <1>5. cfgPc' \in {"register", "publish"} =>
          /\ command'.op = "interface" => command'.iface # 0
          /\ command'.op = "shutdown" =>
               prompt'[command'.session] = command'.iface /\ command'.iface # 0
    BY DEF PromptInv
  <1>6. \A j \in DOMAIN inbox' :
          /\ inbox'[j].command.session \in Sessions
          /\ inbox'[j].command.op = "interface" => inbox'[j].command.iface # 0
    BY <1>2 DEF PromptInv
  <1> QED BY <1>3, <1>4, <1>5, <1>6 DEF PromptInv

LEMMA PromptIfStep ==
    ASSUME TypeOK, PromptInv, IfStep
    PROVE  PromptInv'
  <1> DEFINE m == Head(inbox)
             c == m.command
  <1>1. UNCHANGED <<cfgPc, command, prompt>>
    BY DEF IfStep, HandleCli, HandleContinue, Respond, cfgVars
  <1>2. CASE HandleCli
    <2>1. /\ inbox # <<>> /\ inbox' = Tail(inbox)
          /\ SelectInterface(m) \/ ShutInterface(m) \/ ShowInterfaces(m)
      BY <1>2 DEF HandleCli
    <2>2. 1 \in DOMAIN inbox /\ m = inbox[1] /\ m \in Message
      <3>1. inbox \in Seq(Message)
        BY Zenon DEF TypeOK, Message
      <3> QED BY <2>1, <3>1
    <2>3. /\ c \in Command /\ c.iface \in Interfaces \cup {0} /\ c.session \in Sessions
          /\ c.op = "interface" => c.iface # 0
      BY <2>2 DEF Message, Command, PromptInv
    <2>4. c.op = "shutdown" => Follows(c.session, c.iface)
      BY <2>2 DEF PromptInv
    <2> HIDE DEF c
    <2>5. PICK acted \in Interfaces \cup {0}, chunks \in 1..MaxChunks :
            /\ performed' = Append(performed, Done(c, acted, chunks))
            /\ c.op = "shutdown" => acted = current_interface
            /\ \/ current_interface' = current_interface /\ (c.op # "interface" \/ acted = 0)
               \/ current_interface' = acted /\ acted # 0 /\ c.op = "interface"
      <3>1. 1 \in 1..MaxChunks /\ current_interface \in Interfaces \cup {0}
        BY CliQueryAssumption DEF TypeOK
      <3>2. CASE SelectInterface(m)
        <4>1. PICK ok \in BOOLEAN :
                /\ performed' = Append(performed, Done(c, IF ok /\ Answered(m) THEN c.iface ELSE 0, 1))
                /\ current_interface' = IF ok /\ Answered(m) THEN c.iface ELSE current_interface
          BY <3>2 DEF SelectInterface, c
        <4>2. c.op = "interface"
          BY <3>2 DEF SelectInterface, c
        <4>3. CASE ok /\ Answered(m)
          BY <2>3, <3>1, <4>1, <4>2, <4>3
        <4>4. CASE ~(ok /\ Answered(m))
          BY <2>3, <3>1, <4>1, <4>2, <4>4
        <4> QED BY <4>3, <4>4
      <3>3. CASE ShutInterface(m)
        BY <3>1, <3>3 DEF ShutInterface, ifState, c
      <3>4. CASE ShowInterfaces(m)
        <4>1. /\ c.op = "show" /\ current_interface' = current_interface
              /\ \E chunks \in 1..MaxChunks : performed' = Append(performed, Done(c, 0, chunks))
          BY <3>4 DEF ShowInterfaces, c
        <4> QED BY <4>1
      <3> QED BY <2>1, <3>2, <3>3, <3>4
    <2> DEFINE r == Done(c, acted, chunks)
    <2>6. r \in Record /\ r.command = c /\ r.acted = acted /\ performed' = Append(performed, r)
      <3>1. c \in Command /\ acted \in Interfaces \cup {0} /\ chunks \in 1..MaxChunks
        BY <2>3
      <3>2. /\ Done(c, acted, chunks) \in Record /\ Done(c, acted, chunks).command = c
            /\ Done(c, acted, chunks).acted = acted
        BY <3>1, DoneKinds
      <3> QED BY <2>5, <3>2
    <2> HIDE DEF r
    <2>7. OnlyOthersDivert'
      BY <2>4, <2>5, <2>6, DivertedStays DEF PromptInv
    <2>8. ASSUME NEW s \in Sessions, NEW i, Follows(s, i),
                 ~(c.op = "interface" /\ c.session = s)
          PROVE  Follows(s, i)'
      BY <2>3, <2>5, <2>6, <2>8, FollowsStays
    <2> QED BY <1>1, <2>1, <2>7, <2>8, TakenFromInbox DEF c
  <1>3. CASE HandleContinue
    <2>1. inbox # <<>> /\ inbox' = Tail(inbox) /\ UNCHANGED <<current_interface, performed>>
      BY <1>3 DEF HandleContinue
    <2>2. OnlyOthersDivert' /\ \A s, i : Follows(s, i)' <=> Follows(s, i)
      BY <2>1, FollowsOn DEF PromptInv
    <2> QED BY <1>1, <2>1, <2>2, TakenFromInbox
  <1>4. CASE Respond
    <2>1. UNCHANGED <<inbox, current_interface, performed>>
      BY <1>4 DEF Respond, ifState
    <2> QED BY <1>1, <2>1, PromptStays DEF Active
  <1> QED BY <1>2, <1>3, <1>4 DEF IfStep

\* For any number of sessions: a "shutdown" acts on the interface of the prompt
\* it was typed at, or on one that another session has selected since, however
\* many commands before it timed out and were carried out late (the g_current_
\* interface of nn_if_cli.c against the prompt of each session).
THEOREM DivertedByOthers == Spec => []OnlyOthersDivert
  <1>1. Init => PromptInv
    BY DEF Init, PromptInv, OnlyOthersDivert
  <1>2. IInv /\ IInv' /\ PromptInv /\ [Next]_vars => PromptInv'
    <2> SUFFICES ASSUME IInv, IInv', PromptInv, [Next]_vars PROVE PromptInv'
      OBVIOUS
    <2>1. TypeOK
      BY DEF IInv
    <2>2. CASE \E s \in Sessions : Type(s) \/ Exit(s)
      BY <2>1, <2>2, PromptTypeStep
    <2>3. CASE QueryStep
      BY <2>3, PromptQueryStep
    <2>4. CASE IfStep
      BY <2>1, <2>4, PromptIfStep
    <2>5. CASE Stop
      <3>1. UNCHANGED <<command, prompt, inbox, current_interface, performed>>
            /\ (cfgPc' = cfgPc \/ cfgPc' = "exited")
        BY <2>5 DEF Stop, RequestShutdown, IfExits, IfUnregisters, CfgExits, cfgVars, queryVars,
                    ifVars, ifState, stopVars
      <3> QED BY <3>1, PromptStays DEF Active
    <2>6. CASE UNCHANGED vars
      BY <2>6, PromptStays DEF vars, cfgVars, ifVars, ifState, Active
    <2> QED BY <2>2, <2>3, <2>4, <2>5, <2>6 DEF Next
  <1>3. PromptInv => OnlyOthersDivert
    BY DEF PromptInv
  <1> QED BY <1>1, <1>2, <1>3, Invariance, PTL DEF Spec
==============================================================================
