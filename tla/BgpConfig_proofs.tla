-------------------------- MODULE BgpConfig_proofs --------------------------
(***************************************************************************)
(* Proofs about BgpConfig, for any sessions, AS numbers and bounds, with   *)
(* and without faults: one lemma per kind of step shows that the inductive *)
(* invariant IInv survives it, one that the step is a step of ConfigStore. *)
(* After them ShowConfig, which runs the same actions beside its shows.    *)
(***************************************************************************)
EXTENDS ShowConfig, SequenceTheorems, TLAPS

\* The parts of IInv that speak of the row only.
RowParts == AtMostOneRow /\ ConnectedMeansMade /\ Made

\* What TypeOK says of the elements of the queue.
LEMMA QueueElements ==
    ASSUME TypeOK
    PROVE  /\ Len(queue) \in Nat /\ DOMAIN queue = 1 .. Len(queue)
           /\ \A i \in DOMAIN queue : queue[i].cmd \in Typed /\ queue[i].id \in Nat \ {0}
<1> DEFINE Messages == [cmd : Typed, id : 1 .. MaxCommands]
<1>1. queue \in Seq(Messages)
  BY DEF TypeOK
<1>2. /\ Len(queue) \in Nat /\ DOMAIN queue = 1 .. Len(queue)
      /\ \A i \in DOMAIN queue : queue[i] \in Messages
  <2> HIDE DEF Messages
  <2>1. QED
    BY <1>1
<1>3. \A m \in Messages : m.cmd \in Typed /\ m.id \in 1 .. MaxCommands
  OBVIOUS
<1>4. 1 .. MaxCommands \subseteq Nat \ {0}
  BY BgpAssumption
<1>5. QED
  BY <1>2, <1>3, <1>4, Zenon

LEMMA InitInv == Init => IInv
<1> SUFFICES ASSUME Init PROVE IInv
  OBVIOUS
<1> USE BgpAssumption DEF Init
<1>1. TypeOK
  <2>1. NoRows \in [{} -> Numbers]
    BY DEF NoRows
  <2>2. file \in [made : BOOLEAN, rows : Rows]
    BY <2>1 DEF Rows
  <2>3. /\ worker \in [pc : {"idle", "exists", "execute", "respond"},
                      msg : [cmd : Typed, id : 0 .. MaxCommands],
                      exists : BOOLEAN, success : BOOLEAN]
        /\ queue \in Seq([cmd : Typed, id : 1 .. MaxCommands])
    BY DEF Idle, Typed
  <2>4. prompt \in [Sessions -> Numbers \cup {None}] /\ answer = NoReply
    OBVIOUS
  <2>5. /\ asking \in [session : Sessions \cup {Nobody}, id : 0 .. MaxCommands]
        /\ commands \in 0 .. MaxCommands /\ starts \in 0 .. MaxStarts
    BY DEF NoQuery
  <2>6. QED
    BY <2>2, <2>3, <2>4, <2>5 DEF TypeOK
<1>2. RowParts
  BY DEF RowParts, AtMostOneRow, ConnectedMeansMade, Made, NoRows
<1>3. WorkerKnowsRow /\ IdsInOrder
  BY DEF WorkerKnowsRow, IdsInOrder, Idle, NoQuery
<1>4. AnsweredLast /\ AnswerIsCurrent
  BY DEF AnsweredLast, AnswerIsCurrent, NoReply
<1>5. QED
  BY <1>1, <1>2, <1>3, <1>4 DEF IInv, RowParts

LEMMA StartInv == ASSUME IInv, Start PROVE IInv'
<1> USE DEF IInv, Start, OpenFile, CreateTable, StartWithout, StoreConnection,
       messages, cli
<1>1. TypeOK'
  BY DEF TypeOK
<1>2. RowParts'
  BY DEF RowParts, AtMostOneRow, ConnectedMeansMade, Made, TypeOK
<1>3. file'.rows = file.rows
  BY DEF TypeOK
<1>4. (WorkerKnowsRow /\ IdsInOrder /\ AnsweredLast /\ AnswerIsCurrent)'
  BY <1>3 DEF WorkerKnowsRow, IdsInOrder, AnsweredLast, AnswerIsCurrent
<1>5. QED
  BY <1>1, <1>2, <1>4 DEF RowParts

LEMMA RestartInv == ASSUME IInv, Restart PROVE IInv'
<1> USE BgpAssumption DEF IInv, Restart
<1>1. TypeOK'
  <2>1. /\ worker' \in [pc : {"idle", "exists", "execute", "respond"},
                       msg : [cmd : Typed, id : 0 .. MaxCommands],
                       exists : BOOLEAN, success : BOOLEAN]
        /\ queue' \in Seq([cmd : Typed, id : 1 .. MaxCommands])
    BY DEF Idle, Typed, TypeOK
  <2>2. starts' \in 0 .. MaxStarts
    BY DEF TypeOK
  <2>3. asking' \in [session : Sessions \cup {Nobody}, id : 0 .. MaxCommands]
    BY DEF NoQuery
  <2>4. prompt' \in [Sessions -> Numbers \cup {None}]
    OBVIOUS
  <2>5. QED
    BY <2>1, <2>2, <2>3, <2>4 DEF TypeOK
<1>2. RowParts'
  BY DEF RowParts, AtMostOneRow, ConnectedMeansMade, Made
<1>3. (WorkerKnowsRow /\ IdsInOrder)'
  BY DEF WorkerKnowsRow, IdsInOrder, Idle, NoQuery
<1>4. (AnsweredLast /\ AnswerIsCurrent)'
  BY DEF AnsweredLast, AnswerIsCurrent, NoReply
<1>5. QED
  BY <1>1, <1>2, <1>3, <1>4 DEF RowParts

LEMMA AskInv ==
    ASSUME IInv, NEW s \in Sessions, NEW cmd \in Typed, Ask(s, cmd)
    PROVE  IInv'
<1> USE BgpAssumption DEF IInv, Ask, daemon
<1>1. commands' \in 1 .. MaxCommands /\ commands \in Nat /\ commands' = commands + 1
  BY DEF TypeOK
<1>2. PICK m \in [cmd : Typed, id : 1 .. MaxCommands] :
          /\ m = [cmd |-> cmd, id |-> commands'] /\ m.id = commands'
          /\ queue' = Append(queue, m)
  BY <1>1
<1>3. /\ queue \in Seq([cmd : Typed, id : 1 .. MaxCommands])
      /\ queue' \in Seq([cmd : Typed, id : 1 .. MaxCommands])
      /\ Len(queue') = Len(queue) + 1
      /\ queue'[Len(queue) + 1] = m
      /\ \A i \in 1 .. Len(queue) : queue'[i] = queue[i]
  BY <1>2 DEF TypeOK
<1>4. TypeOK'
  BY <1>1, <1>3 DEF TypeOK
<1>5. RowParts' /\ WorkerKnowsRow'
  BY DEF RowParts, AtMostOneRow, ConnectedMeansMade, Made, WorkerKnowsRow
<1>6. answer = NoReply /\ answer' = NoReply
  BY DEF AnsweredLast, NoQuery
<1>7. (AnsweredLast /\ AnswerIsCurrent)'
  BY <1>6 DEF AnsweredLast, AnswerIsCurrent
<1>8. IdsInOrder'
  <2>1. DOMAIN queue = 1 .. Len(queue) /\ DOMAIN queue' = 1 .. Len(queue) + 1
        /\ Len(queue) \in Nat
    BY <1>3
  <2>2. \A i \in DOMAIN queue : queue[i].id \in Nat /\ queue[i].id <= commands
    <3>1. \A i \in DOMAIN queue : queue[i].id <= commands
      BY DEF IdsInOrder
    <3>2. QED
      BY <3>1, QueueElements, Zenon
  <2>3. \A i \in DOMAIN queue' : queue'[i].id <= commands'
    BY <1>1, <1>2, <1>3, <2>1, <2>2
  <2>4. \A i, j \in DOMAIN queue' : i < j => queue'[i].id < queue'[j].id
    <3> SUFFICES ASSUME NEW i \in DOMAIN queue', NEW j \in DOMAIN queue', i < j
                 PROVE  queue'[i].id < queue'[j].id
      OBVIOUS
    <3>1. CASE j = Len(queue) + 1
      BY <1>1, <1>2, <1>3, <2>1, <2>2, <3>1
    <3>2. CASE j # Len(queue) + 1
      BY <1>3, <2>1, <3>2 DEF IdsInOrder
    <3>3. QED
      BY <3>1, <3>2
  <2>5. worker'.pc # "idle" =>
           /\ worker'.msg.id \in 1 .. commands'
           /\ \A i \in DOMAIN queue' : worker'.msg.id < queue'[i].id
    BY <1>1, <1>2, <1>3, <2>1 DEF IdsInOrder
  <2>6. QED
    BY <2>3, <2>4, <2>5 DEF IdsInOrder
<1>9. QED
  BY <1>4, <1>5, <1>7, <1>8 DEF RowParts

LEMMA CliInv ==
    ASSUME IInv, Timeout \/ Receive \/ \E s \in Sessions : Exit(s)
    PROVE  IInv'
<1> USE BgpAssumption DEF IInv, Timeout, Receive, Exit, daemon, messages
<1>1. TypeOK'
  <2>1. asking' \in [session : Sessions \cup {Nobody}, id : 0 .. MaxCommands]
    BY DEF TypeOK, NoQuery
  <2>2. prompt' \in [Sessions -> Numbers \cup {None}]
    BY DEF TypeOK, AnsweredLast
  <2>3. answer' # NoReply => asking'.session \in Sessions
    BY DEF TypeOK, AnsweredLast, NoReply
  <2>4. QED
    BY <2>1, <2>2, <2>3 DEF TypeOK
<1>2. RowParts' /\ WorkerKnowsRow'
  BY DEF RowParts, AtMostOneRow, ConnectedMeansMade, Made, WorkerKnowsRow
<1>3. IdsInOrder'
  BY DEF IdsInOrder, NoQuery
<1>4. (AnsweredLast /\ AnswerIsCurrent)'
  BY DEF AnsweredLast, AnswerIsCurrent, NoReply
<1>5. QED
  BY <1>1, <1>2, <1>3, <1>4 DEF RowParts

-----------------------------------------------------------------------------
(***************************************************************************)
(* The worker                                                              *)
(***************************************************************************)

LEMMA CommandOf ==
    ASSUME NEW cmd \in Typed
    PROVE  /\ cmd.op \in {"set", "delete", "clear", "show"}
           /\ cmd.op \in {"set", "delete"} => cmd.as \in Numbers
BY DEF Typed, Set, Delete, Clear, Show

\* One row, with as in it.
SingleRow(rows, as) == \E r \in RowIds : rows = [x \in {r} |-> as]

LEMMA OneRow ==
    ASSUME NEW r \in RowIds, NEW as \in Numbers, NEW rows, rows = [x \in {r} |-> as]
    PROVE  rows \in Rows /\ DOMAIN rows = {r} /\ rows[r] = as
<1>1. {r} \in SUBSET RowIds /\ rows \in [{r} -> Numbers]
  OBVIOUS
<1>2. QED
  BY <1>1 DEF Rows

LEMMA NoRowsIsRows == NoRows \in Rows /\ DOMAIN NoRows = {}
<1>1. {} \in SUBSET RowIds /\ NoRows \in [{} -> Numbers]
  BY DEF NoRows
<1>2. QED
  BY <1>1 DEF Rows, NoRows

LEMMA RowsParts ==
    ASSUME NEW rows \in Rows
    PROVE  /\ DOMAIN rows \subseteq RowIds
           /\ rows = [r \in DOMAIN rows |-> rows[r]]
           /\ \A r \in DOMAIN rows : rows[r] \in Numbers
<1>1. PICK ids \in SUBSET RowIds : rows \in [ids -> Numbers]
  BY DEF Rows
<1>2. QED
  BY <1>1

\* What each command makes of at most one row.
LEMMA ExecutedIs ==
    ASSUME IInv, worker.pc = "execute",
           NEW cmd, cmd = worker.msg.cmd, NEW rows, rows = file.rows
    PROVE  /\ rows \in Rows /\ cmd \in Typed
           /\ \A r1, r2 \in DOMAIN rows : r1 = r2
           /\ cmd.op = "set" => SingleRow(Executed(rows, cmd), cmd.as)
           /\ cmd.op = "delete" =>
                  Executed(rows, cmd) =
                      IF \E r \in DOMAIN rows : rows[r] = cmd.as THEN NoRows ELSE rows
           /\ cmd.op = "clear" => Executed(rows, cmd) = NoRows
           /\ cmd.op = "show" => Executed(rows, cmd) = rows
<1>1. rows \in Rows /\ cmd \in Typed
  BY DEF IInv, TypeOK
<1>2. \A r1, r2 \in DOMAIN rows : r1 = r2
  BY DEF IInv, AtMostOneRow
<1>3. /\ DOMAIN rows \subseteq RowIds
      /\ rows = [r \in DOMAIN rows |-> rows[r]]
  BY <1>1, RowsParts, Zenon
<1>4. cmd.op = "set" => (worker.exists <=> DOMAIN rows # {})
  BY DEF IInv, WorkerKnowsRow
<1>5. ASSUME cmd.op = "set"
      PROVE  SingleRow(Executed(rows, cmd), cmd.as)
  <2>1. CASE worker.exists
    <3>1. PICK r \in DOMAIN rows : DOMAIN rows = {r}
      BY <1>2, <1>4, <1>5, <2>1
    <3>2. Executed(rows, cmd) = [x \in DOMAIN rows |-> cmd.as]
      BY <1>5, <2>1 DEF Executed, Updated
    <3>3. QED
      BY <1>3, <3>1, <3>2 DEF SingleRow
  <2>2. CASE ~worker.exists
    <3>1. DOMAIN rows = {}
      BY <1>4, <1>5, <2>2
    <3> DEFINE new == CHOOSE r \in RowIds : r \notin DOMAIN rows
    <3>2. new \in RowIds
      BY <3>1, BgpAssumption
    <3>3. Executed(rows, cmd) =
              [r \in DOMAIN rows \cup {new} |-> IF r = new THEN cmd.as ELSE rows[r]]
      BY <1>5, <2>2 DEF Executed, Inserted
    <3> HIDE DEF new
    <3>4. Executed(rows, cmd) = [x \in {new} |-> cmd.as]
      BY <3>1, <3>3
    <3>5. QED
      BY <3>2, <3>4 DEF SingleRow
  <2>3. QED
    BY <2>1, <2>2
<1>6. ASSUME cmd.op = "delete"
      PROVE  Executed(rows, cmd) =
                 IF \E r \in DOMAIN rows : rows[r] = cmd.as THEN NoRows ELSE rows
  <2>1. Executed(rows, cmd) =
            [r \in {r \in DOMAIN rows : rows[r] # cmd.as} |-> rows[r]]
    BY <1>6 DEF Executed, Deleted
  <2>2. CASE \E r \in DOMAIN rows : rows[r] = cmd.as
    <3>1. {r \in DOMAIN rows : rows[r] # cmd.as} = {}
      BY <1>2, <2>2
    <3>2. QED
      BY <2>1, <2>2, <3>1 DEF NoRows
  <2>3. CASE ~\E r \in DOMAIN rows : rows[r] = cmd.as
    <3>1. {r \in DOMAIN rows : rows[r] # cmd.as} = DOMAIN rows
      BY <2>3
    <3>2. QED
      BY <1>3, <2>1, <2>3, <3>1
  <2>4. QED
    BY <2>2, <2>3
<1>7. /\ cmd.op = "clear" => Executed(rows, cmd) = NoRows
      /\ cmd.op = "show" => Executed(rows, cmd) = rows
  BY DEF Executed
<1>8. QED
  BY <1>1, <1>2, <1>5, <1>6, <1>7, Zenon

LEMMA ExecutedRows ==
    ASSUME IInv, worker.pc = "execute",
           NEW cmd, cmd = worker.msg.cmd, NEW rows, rows = Executed(file.rows, cmd)
    PROVE  /\ rows \in Rows
           /\ \A r1, r2 \in DOMAIN rows : r1 = r2
           /\ cmd.op = "set" => \E r \in DOMAIN rows : rows[r] = cmd.as
<1>1. cmd \in Typed /\ file.rows \in Rows /\ \A r1, r2 \in DOMAIN file.rows : r1 = r2
  BY ExecutedIs, Zenon
<1>2. CASE cmd.op = "set"
  <2>1. PICK r \in RowIds : rows = [x \in {r} |-> cmd.as]
    <3>1. SingleRow(rows, cmd.as)
      BY <1>2, ExecutedIs, Zenon
    <3>2. QED
      BY <3>1 DEF SingleRow
  <2>2. cmd.as \in Numbers
    BY <1>1, <1>2, CommandOf
  <2>3. rows \in Rows /\ DOMAIN rows = {r} /\ rows[r] = cmd.as
    BY <2>1, <2>2, OneRow, Zenon
  <2>4. QED
    BY <2>3
<1>3. CASE cmd.op # "set"
  <2>1. rows = NoRows \/ rows = file.rows
    <3>1. cmd.op \in {"delete", "clear", "show"}
      BY <1>1, <1>3, CommandOf
    <3>2. /\ cmd.op = "delete" => rows = IF \E r \in DOMAIN file.rows : file.rows[r] = cmd.as
                                        THEN NoRows ELSE file.rows
          /\ cmd.op = "clear" => rows = NoRows
          /\ cmd.op = "show" => rows = file.rows
      BY ExecutedIs, Zenon
    <3>3. QED
      BY <3>1, <3>2
  <2>2. QED
    BY <1>1, <1>3, <2>1, NoRowsIsRows
<1>4. QED
  BY <1>2, <1>3

LEMMA TakeCommandInv == ASSUME IInv, TakeCommand PROVE IInv'
<1>1. answer = NoReply /\ answer' = NoReply
  BY DEF IInv, TakeCommand, AnsweredLast
<1>2. /\ Len(queue) \in Nat /\ DOMAIN queue = 1 .. Len(queue)
      /\ \A i \in DOMAIN queue : queue[i].cmd \in Typed /\ queue[i].id \in Nat \ {0}
  BY QueueElements DEF IInv
<1> DEFINE Messages == [cmd : Typed, id : 1 .. MaxCommands]
<1>3. queue \in Seq(Messages) /\ queue # <<>>
  BY DEF IInv, TypeOK, TakeCommand
<1>4. /\ Head(queue) \in Messages /\ Head(queue) = queue[1]
      /\ Tail(queue) \in Seq(Messages)
      /\ 1 \in DOMAIN queue
      /\ DOMAIN Tail(queue) = 1 .. Len(queue) - 1
      /\ \A i \in DOMAIN Tail(queue) : i + 1 \in DOMAIN queue /\ Tail(queue)[i] = queue[i + 1]
  <2> HIDE DEF Messages
  <2>1. QED
    BY <1>3
<1>5. /\ worker' \in [pc : {"idle", "exists", "execute", "respond"},
                      msg : [cmd : Typed, id : 0 .. MaxCommands],
                      exists : BOOLEAN, success : BOOLEAN]
      /\ worker'.pc \in {"exists", "execute"}
      /\ worker'.pc = "exists" <=> worker'.msg.cmd.op = "set"
      /\ worker'.msg = Head(queue)
  <2>1. Head(queue) \in [cmd : Typed, id : 0 .. MaxCommands]
    BY <1>4, BgpAssumption
  <2>2. worker \in [pc : {"idle", "exists", "execute", "respond"},
                    msg : [cmd : Typed, id : 0 .. MaxCommands],
                    exists : BOOLEAN, success : BOOLEAN]
    BY DEF IInv, TypeOK
  <2>3. worker' = [worker EXCEPT
                    !.pc = IF Head(queue).cmd.op = "set" THEN "exists" ELSE "execute",
                    !.msg = Head(queue)]
    BY DEF TakeCommand
  <2> DEFINE head == Head(queue)
  <2> HIDE DEF head
  <2>4. QED
    BY <2>1, <2>2, <2>3 DEF head
<1>6. TypeOK'
  BY <1>1, <1>4, <1>5 DEF IInv, TypeOK, TakeCommand, daemon, cli
<1>7. RowParts' /\ WorkerKnowsRow'
  BY <1>5 DEF IInv, RowParts, AtMostOneRow, ConnectedMeansMade, Made, WorkerKnowsRow,
     TakeCommand, daemon
<1>8. IdsInOrder'
  <2>1. queue' = Tail(queue) /\ worker'.msg.id = queue[1].id
        /\ asking' = asking /\ commands' = commands
    BY <1>4, <1>5 DEF TakeCommand, cli
  <2>2. /\ \A i \in DOMAIN queue : queue[i].id <= commands
        /\ \A i, j \in DOMAIN queue : i < j => queue[i].id < queue[j].id
        /\ IF asking.session = Nobody THEN asking.id = 0 ELSE asking.id = commands
    BY DEF IInv, IdsInOrder
  <2>3. /\ \A i \in DOMAIN queue' : queue'[i].id <= commands'
        /\ \A i, j \in DOMAIN queue' : i < j => queue'[i].id < queue'[j].id
        /\ \A i \in DOMAIN queue' : worker'.msg.id < queue'[i].id
    <3>1. \A i \in DOMAIN Tail(queue) : i \in Nat \ {0} /\ i + 1 \in DOMAIN queue
      BY <1>2, <1>4
    <3>2. \A i \in DOMAIN queue' : queue'[i].id = queue[i + 1].id
      BY <1>4, <2>1
    <3>3. \A i \in DOMAIN queue' : queue'[i].id <= commands'
      BY <2>1, <2>2, <3>1, <3>2
    <3>4. \A i \in DOMAIN queue' : queue[1].id < queue[i + 1].id
      BY <1>4, <2>1, <2>2, <3>1
    <3>5. \A i, j \in DOMAIN queue' : i < j => queue[i + 1].id < queue[j + 1].id
      BY <2>1, <2>2, <3>1
    <3>6. QED
      BY <2>1, <3>2, <3>3, <3>4, <3>5
  <2>4. worker'.msg.id \in 1 .. commands'
    <3>1. commands \in Nat /\ queue[1].id \in Nat \ {0} /\ queue[1].id <= commands
      BY <1>2, <1>4, <2>2, BgpAssumption DEF IInv, TypeOK
    <3>2. QED
      BY <2>1, <3>1
  <2>5. QED
    BY <2>1, <2>2, <2>3, <2>4 DEF IdsInOrder
<1>9. (AnsweredLast /\ AnswerIsCurrent)'
  BY <1>1 DEF AnsweredLast, AnswerIsCurrent, NoReply
<1>10. QED
  BY <1>6, <1>7, <1>8, <1>9 DEF IInv, RowParts

\* The handler has begun: nothing is answered yet.
LEMMA Unanswered ==
    ASSUME IInv, worker.pc # "idle"
    PROVE  answer = NoReply
BY DEF IInv, AnsweredLast

LEMMA CheckExistsInv == ASSUME IInv, CheckExists PROVE IInv'
<1>1. answer = NoReply /\ answer' = NoReply
  BY Unanswered DEF CheckExists, messages
<1>2. TypeOK'
  BY DEF IInv, TypeOK, CheckExists, daemon, messages, cli
<1>3. RowParts' /\ WorkerKnowsRow'
  BY DEF IInv, RowParts, AtMostOneRow, ConnectedMeansMade, Made, WorkerKnowsRow,
     CheckExists, daemon, TypeOK
<1>4. IdsInOrder'
  BY DEF IInv, IdsInOrder, CheckExists, messages, cli, TypeOK
<1>5. (AnsweredLast /\ AnswerIsCurrent)'
  BY <1>1 DEF AnsweredLast, AnswerIsCurrent, NoReply
<1>6. QED
  BY <1>2, <1>3, <1>4, <1>5 DEF IInv, RowParts

LEMMA FailInv == ASSUME IInv, Fail PROVE IInv'
<1>1. answer = NoReply /\ answer' = NoReply
  BY Unanswered DEF Fail, messages
<1>2. TypeOK'
  <2>1. worker' \in [pc : {"idle", "exists", "execute", "respond"},
                    msg : [cmd : Typed, id : 0 .. MaxCommands],
                    exists : BOOLEAN, success : BOOLEAN]
    <3> DEFINE ok == worker.msg.cmd.op \in {"delete", "clear"}
    <3>1. ok \in BOOLEAN /\ worker' = [worker EXCEPT !.pc = "respond", !.success = ok]
      BY DEF Fail
    <3> HIDE DEF ok
    <3>2. QED
      BY <3>1 DEF IInv, TypeOK
  <2>2. QED
    BY <2>1 DEF IInv, TypeOK, Fail, daemon, messages, cli
<1>3. RowParts'
  BY DEF IInv, RowParts, AtMostOneRow, ConnectedMeansMade, Made, Fail, daemon
<1>4. WorkerKnowsRow' /\ IdsInOrder'
  BY DEF IInv, WorkerKnowsRow, IdsInOrder, Fail, messages, cli, TypeOK
<1>5. (AnsweredLast /\ AnswerIsCurrent)'
  BY <1>1 DEF AnsweredLast, AnswerIsCurrent, NoReply
<1>6. QED
  BY <1>2, <1>3, <1>4, <1>5 DEF IInv, RowParts

LEMMA ExecuteInv == ASSUME IInv, Execute PROVE IInv'
<1>1. answer = NoReply /\ answer' = NoReply
  BY Unanswered DEF Execute, messages
<1> DEFINE rows == Executed(file.rows, worker.msg.cmd)
<1>2. /\ rows \in Rows
      /\ \A r1, r2 \in DOMAIN rows : r1 = r2
      /\ worker.msg.cmd.op = "set" => \E r \in DOMAIN rows : rows[r] = worker.msg.cmd.as
  BY ExecutedRows DEF Execute
<1>3. file' = [made |-> file.made, rows |-> rows]
  BY DEF Execute, IInv, TypeOK
<1>4. /\ worker'.pc = "respond" /\ worker'.msg = worker.msg
      /\ worker' \in [pc : {"idle", "exists", "execute", "respond"},
                      msg : [cmd : Typed, id : 0 .. MaxCommands],
                      exists : BOOLEAN, success : BOOLEAN]
  BY DEF Execute, IInv, TypeOK
<1> HIDE DEF rows
<1>5. file' \in [made : BOOLEAN, rows : Rows]
  BY <1>2, <1>3 DEF IInv, TypeOK
<1>6. TypeOK'
  BY <1>4, <1>5 DEF IInv, TypeOK, Execute, daemon, messages, cli
<1>7. RowParts' /\ WorkerKnowsRow'
  BY <1>2, <1>3, <1>4 DEF IInv, RowParts, AtMostOneRow, ConnectedMeansMade, Made,
     WorkerKnowsRow, Execute, daemon
<1>8. IdsInOrder'
  BY <1>4 DEF IInv, IdsInOrder, Execute, messages, cli
<1>9. (AnsweredLast /\ AnswerIsCurrent)'
  BY <1>1 DEF AnsweredLast, AnswerIsCurrent, NoReply
<1>10. QED
  BY <1>6, <1>7, <1>8, <1>9 DEF IInv, RowParts

LEMMA RespondInv == ASSUME IInv, Respond PROVE IInv'
<1>1. answer = NoReply /\ worker.pc = "respond" /\ worker' = Idle
  BY Unanswered DEF Respond
<1>2. answer' = IF asking.id = worker.msg.id THEN Reply ELSE NoReply
  BY <1>1 DEF Respond
<1>3. /\ file' = file /\ queue' = queue /\ phase' = phase /\ connected' = connected
      /\ starts' = starts /\ asking' = asking /\ prompt' = prompt /\ commands' = commands
  BY DEF Respond, daemon, cli
<1>4. worker.msg.id \in 1 .. commands /\ commands \in Nat
  BY <1>1, BgpAssumption DEF IInv, IdsInOrder, TypeOK
\* Only the query that waits now is answered, and it is the last.
<1>5. ASSUME asking.id = worker.msg.id
      PROVE  asking.session \in Sessions /\ asking.session # Nobody /\ queue = <<>>
  <2>1. asking.session # Nobody /\ asking.id = commands
    BY <1>4, <1>5 DEF IInv, IdsInOrder
  <2>2. asking.session \in Sessions
    BY <2>1 DEF IInv, TypeOK
  <2>3. \A i \in DOMAIN queue : queue[i].id <= commands /\ worker.msg.id < queue[i].id
    BY <1>1 DEF IInv, IdsInOrder
  <2>4. /\ Len(queue) \in Nat /\ DOMAIN queue = 1 .. Len(queue)
        /\ \A i \in DOMAIN queue : queue[i].id \in Nat \ {0}
    BY QueueElements DEF IInv
  <2>5. DOMAIN queue = {}
    BY <1>4, <1>5, <2>1, <2>3, <2>4
  <2>6. queue = <<>>
    BY <2>4, <2>5 DEF IInv, TypeOK
  <2>7. QED
    BY <2>1, <2>2, <2>6
<1>6. TypeOK'
  <2>1. worker' \in [pc : {"idle", "exists", "execute", "respond"},
                    msg : [cmd : Typed, id : 0 .. MaxCommands],
                    exists : BOOLEAN, success : BOOLEAN]
    BY <1>1, BgpAssumption DEF Idle, Typed
  <2>2. QED
    BY <1>2, <1>3, <1>5, <2>1 DEF IInv, TypeOK
<1>7. RowParts' /\ WorkerKnowsRow' /\ IdsInOrder'
  BY <1>1, <1>3 DEF IInv, RowParts, AtMostOneRow, ConnectedMeansMade, Made,
     WorkerKnowsRow, IdsInOrder, Idle
<1> DEFINE cmd == worker.msg.cmd
<1>8. /\ Reply.kind = "view" => cmd.op = "set" /\ Reply.as = cmd.as
      /\ Reply.kind = "shown" => cmd.op = "show"
      /\ Reply.success = worker.success
      /\ cmd.op = "show" /\ worker.success => Reply.rows = file.rows
      /\ cmd \in Typed
  BY DEF Reply, IInv, TypeOK
<1>9. cmd.op = "set" => cmd.as \in Numbers
  BY <1>8, CommandOf
<1>10. AnsweredLast'
  <2>1. CASE asking.id = worker.msg.id
    BY <1>1, <1>2, <1>3, <1>5, <1>8, <1>9, <2>1 DEF AnsweredLast, Idle
  <2>2. CASE asking.id # worker.msg.id
    BY <1>2, <2>2 DEF AnsweredLast
  <2>3. QED
    BY <2>1, <2>2
<1>11. AnswerIsCurrent'
  <2>1. CASE asking.id = worker.msg.id
    <3>1. worker.success /\ cmd.op = "set" => \E r \in DOMAIN file.rows : file.rows[r] = cmd.as
      BY <1>1 DEF IInv, WorkerKnowsRow
    <3>2. answer' = Reply
      BY <1>2, <2>1
    <3> HIDE DEF cmd
    <3>3. QED
      BY <1>3, <1>8, <3>1, <3>2 DEF AnswerIsCurrent
  <2>2. CASE asking.id # worker.msg.id
    BY <1>2, <2>2 DEF AnswerIsCurrent, NoReply
  <2>3. QED
    BY <2>1, <2>2
<1>12. QED
  BY <1>6, <1>7, <1>10, <1>11 DEF IInv, RowParts

LEMMA StutterInv == ASSUME IInv, UNCHANGED vars PROVE IInv'
BY DEF IInv, vars, TypeOK, AtMostOneRow, ConnectedMeansMade, Made, WorkerKnowsRow,
   IdsInOrder, AnsweredLast, AnswerIsCurrent

-----------------------------------------------------------------------------
\* The inductive invariant holds in every reachable state.
THEOREM Invariance == Spec => []IInv
<1>1. Init => IInv
  BY InitInv
<1>2. IInv /\ [Next]_vars => IInv'
  <2> SUFFICES ASSUME IInv, [Next]_vars PROVE IInv'
    OBVIOUS
  <2>1. CASE Start
    BY <2>1, StartInv
  <2>2. CASE Restart
    BY <2>2, RestartInv
  <2>3. CASE \E s \in Sessions : \E cmd \in Typed : Ask(s, cmd)
    BY <2>3, AskInv
  <2>4. CASE Timeout \/ Receive \/ \E s \in Sessions : Exit(s)
    BY <2>4, CliInv
  <2>5. CASE WorkerStep
    BY <2>5, TakeCommandInv, CheckExistsInv, ExecuteInv, FailInv, RespondInv DEF WorkerStep
  <2>6. CASE UNCHANGED vars
    BY <2>6, StutterInv
  <2>7. QED
    BY <2>1, <2>2, <2>3, <2>4, <2>5, <2>6 DEF Next
<1>3. QED
  BY <1>1, <1>2, PTL DEF Spec

\* The types of the variables, for every session, number and bound.
THEOREM TypeCorrect == Spec => []TypeOK
BY Invariance, PTL DEF IInv

\* bgp_protocol never has two rows, although nn_db_exists and the statement
\* that follows it are two transactions (nn_bgp_cli.c:127).
THEOREM OneRowAtMost == Spec => []AtMostOneRow
BY Invariance, PTL DEF IInv

\* Whatever start fails, a handler finds a connection only to a database
\* whose table exists (nn_db_schema.c:225).
THEOREM NoHalfMadeDatabase == Spec => []ConnectedMeansMade
BY Invariance, PTL DEF IInv

\* A session is answered about the configuration as it is now, also after
\* commands it gave up on (nn_dev_pubsub_send_response).
THEOREM AnswersAreCurrent == Spec => []AnswerIsCurrent
BY Invariance, PTL DEF IInv

-----------------------------------------------------------------------------
(***************************************************************************)
(* Every step is a step of ConfigStore or leaves it alone.                 *)
(***************************************************************************)
Commands(q) == [i \in DOMAIN q |-> q[i].cmd]

Messages == [cmd : Typed, id : 1 .. MaxCommands]

LEMMA CommandsAreTyped ==
    ASSUME NEW q \in Seq(Messages)
    PROVE  /\ Commands(q) \in Seq(Typed) /\ Len(Commands(q)) = Len(q)
           /\ \A i \in 1 .. Len(q) : Commands(q)[i] = q[i].cmd
<1>1. \A m \in Messages : m.cmd \in Typed
  BY DEF Messages
<1>2. Len(q) \in Nat /\ DOMAIN q = 1 .. Len(q) /\ \A i \in 1 .. Len(q) : q[i] \in Messages
  OBVIOUS
<1>3. \A i \in 1 .. Len(q) : q[i].cmd \in Typed
  BY <1>1, <1>2
<1>4. Commands(q) = [i \in 1 .. Len(q) |-> q[i].cmd]
  BY <1>2 DEF Commands
<1>5. QED
  BY <1>2, <1>3, <1>4

LEMMA CommandsOfAppend ==
    ASSUME NEW q \in Seq(Messages), NEW m \in Messages
    PROVE  Commands(Append(q, m)) = Append(Commands(q), m.cmd)
<1> DEFINE longer == Append(q, m)
<1>1. /\ longer \in Seq(Messages) /\ Len(longer) = Len(q) + 1
      /\ longer[Len(q) + 1] = m /\ \A i \in 1 .. Len(q) : longer[i] = q[i]
      /\ Len(q) \in Nat
  OBVIOUS
<1>2. m.cmd \in Typed
  BY DEF Messages
<1> HIDE DEF longer
<1>3. /\ Commands(longer) \in Seq(Typed) /\ Len(Commands(longer)) = Len(longer)
      /\ \A i \in 1 .. Len(longer) : Commands(longer)[i] = longer[i].cmd
  BY <1>1, CommandsAreTyped, Zenon
<1>4. /\ Commands(q) \in Seq(Typed) /\ Len(Commands(q)) = Len(q)
      /\ \A i \in 1 .. Len(q) : Commands(q)[i] = q[i].cmd
  BY CommandsAreTyped, Zenon
<1> DEFINE a == Commands(longer)
           b == Commands(q)
           c == m.cmd
<1>5. /\ a \in Seq(Typed) /\ b \in Seq(Typed) /\ c \in Typed /\ Len(a) = Len(b) + 1
      /\ a[Len(b) + 1] = c /\ \A i \in 1 .. Len(b) : a[i] = b[i]
  BY <1>1, <1>2, <1>3, <1>4
<1> HIDE DEF a, b, c
<1>6. a = Append(b, c)
  BY <1>5
<1>7. QED
  BY <1>6 DEF a, b, c, longer

LEMMA CommandsOfTail ==
    ASSUME NEW q \in Seq(Messages), q # <<>>
    PROVE  Commands(q) = <<Head(q).cmd>> \o Commands(Tail(q))
<1> DEFINE rest == Tail(q)
<1>1. /\ rest \in Seq(Messages) /\ Len(rest) = Len(q) - 1 /\ Len(q) \in Nat \ {0}
      /\ \A i \in 1 .. Len(rest) : rest[i] = q[i + 1]
      /\ Head(q) = q[1] /\ q[1] \in Messages
  OBVIOUS
<1>2. q[1].cmd \in Typed
  BY <1>1 DEF Messages
<1> HIDE DEF rest
<1>3. /\ Commands(rest) \in Seq(Typed) /\ Len(Commands(rest)) = Len(rest)
      /\ \A i \in 1 .. Len(rest) : Commands(rest)[i] = rest[i].cmd
  BY <1>1, CommandsAreTyped, Zenon
<1>4. /\ Commands(q) \in Seq(Typed) /\ Len(Commands(q)) = Len(q)
      /\ \A i \in 1 .. Len(q) : Commands(q)[i] = q[i].cmd
  BY CommandsAreTyped, Zenon
<1> DEFINE a == Commands(q)
           b == Commands(rest)
           c == q[1].cmd
<1>5. /\ a \in Seq(Typed) /\ b \in Seq(Typed) /\ c \in Typed /\ Len(a) = Len(b) + 1
      /\ a[1] = c /\ \A i \in 1 .. Len(b) : a[i + 1] = b[i]
  BY <1>1, <1>2, <1>3, <1>4
<1> HIDE DEF a, b, c
<1>6. a = <<c>> \o b
  BY <1>5
<1>7. QED
  BY <1>1, <1>6, Zenon DEF a, b, c, rest

LEMMA PutInFront ==
    ASSUME NEW c \in Seq(Typed), NEW a \in Typed
    PROVE  /\ <<a>> \o c # <<>> /\ Head(<<a>> \o c) = a /\ Tail(<<a>> \o c) = c
           /\ <<>> \o c = c
OBVIOUS

LEMMA AppendBehind ==
    ASSUME NEW b \in Seq(Typed), NEW c \in Seq(Typed), NEW a \in Typed
    PROVE  b \o Append(c, a) = Append(b \o c, a)
OBVIOUS

LEMMA ValueOfSingle ==
    ASSUME NEW rows, NEW as, SingleRow(rows, as)
    PROVE  ValueIn(rows) = as
<1>1. PICK r \in RowIds : rows = [x \in {r} |-> as]
  BY DEF SingleRow
<1>2. DOMAIN rows = {r} /\ rows[r] = as
  BY <1>1
<1>3. (CHOOSE x \in DOMAIN rows : TRUE) = r
  BY <1>2
<1>4. QED
  BY <1>2, <1>3 DEF ValueIn

\* A value is in the rows when it is the value of the rows.
LEMMA ValueIsInRows ==
    ASSUME NEW rows, NEW as \in Numbers, \A r1, r2 \in DOMAIN rows : r1 = r2
    PROVE  (\E r \in DOMAIN rows : rows[r] = as) <=> ValueIn(rows) = as
<1>1. CASE DOMAIN rows = {}
  BY <1>1, BgpAssumption DEF ValueIn
<1>2. CASE DOMAIN rows # {}
  <2>1. PICK r \in DOMAIN rows : DOMAIN rows = {r}
    BY <1>2
  <2>2. (CHOOSE x \in DOMAIN rows : TRUE) = r
    BY <2>1
  <2>3. ValueIn(rows) = rows[r]
    BY <1>2, <2>2 DEF ValueIn
  <2>4. QED
    BY <2>1, <2>3
<1>3. QED
  BY <1>1, <1>2

LEMMA ExecutedValue ==
    ASSUME IInv, worker.pc = "execute",
           NEW cmd, cmd = worker.msg.cmd, NEW rows, rows = file.rows
    PROVE  ValueIn(Executed(rows, cmd)) = Store!After(ValueIn(rows), cmd)
<1> DEFINE new == Executed(rows, cmd)
<1>1. /\ cmd \in Typed /\ \A r1, r2 \in DOMAIN rows : r1 = r2
      /\ cmd.op = "set" => SingleRow(new, cmd.as)
      /\ cmd.op = "delete" =>
             new = IF \E r \in DOMAIN rows : rows[r] = cmd.as THEN NoRows ELSE rows
      /\ cmd.op = "clear" => new = NoRows
      /\ cmd.op = "show" => new = rows
  BY ExecutedIs, Zenon
<1> HIDE DEF new
<1>2. /\ cmd.op \in {"set", "delete", "clear", "show"}
      /\ cmd.op \in {"set", "delete"} => cmd.as \in Numbers
  BY <1>1, CommandOf
<1>3. ValueIn(NoRows) = None
  BY NoRowsIsRows DEF ValueIn
<1>4. CASE cmd.op = "set"
  BY <1>1, <1>4, ValueOfSingle DEF Store!After, new
<1>5. CASE cmd.op = "delete"
  <2>1. (\E r \in DOMAIN rows : rows[r] = cmd.as) <=> ValueIn(rows) = cmd.as
    BY <1>1, <1>2, <1>5, ValueIsInRows
  <2>2. new = IF ValueIn(rows) = cmd.as THEN NoRows ELSE rows
    BY <1>1, <1>5, <2>1
  <2>3. QED
    BY <1>3, <1>5, <2>2 DEF Store!After, new
<1>6. CASE cmd.op = "clear"
  BY <1>1, <1>3, <1>6 DEF Store!After, new
<1>7. CASE cmd.op = "show"
  BY <1>1, <1>7 DEF Store!After, new
<1>8. QED
  BY <1>2, <1>4, <1>5, <1>6, <1>7

\* The queue and the worker's hand, as sequences of commands.
LEMMA UnperformedParts ==
    ASSUME IInv
    PROVE  /\ queue \in Seq(Messages) /\ Commands(queue) \in Seq(Typed)
           /\ Unperformed = AtHand \o Commands(queue)
           /\ worker.msg.cmd \in Typed /\ AtHand \in Seq(Typed)
<1>1. queue \in Seq(Messages)
  BY DEF IInv, TypeOK, Messages
<1>2. worker.msg.cmd \in Typed
  BY DEF IInv, TypeOK
<1>3. Commands(queue) \in Seq(Typed)
  BY <1>1, CommandsAreTyped, Zenon
<1>4. AtHand \in Seq(Typed)
  BY <1>2 DEF AtHand
<1>5. QED
  BY <1>1, <1>2, <1>3, <1>4 DEF Unperformed, Commands

LEMMA InitStore == Init => Store!Init
<1> SUFFICES ASSUME Init PROVE Store!Init
  OBVIOUS
<1>1. Configured = None
  BY NoRowsIsRows DEF Init, Configured, ValueIn
<1>2. AtHand = <<>> /\ queue = <<>>
  BY DEF Init, AtHand, Idle
<1>3. Unperformed = <<>>
  BY <1>2 DEF Unperformed
<1>4. QED
  BY <1>1, <1>3 DEF Store!Init

\* Steps that touch neither the rows, nor the queue, nor the worker's hand.
LEMMA SameStore ==
    ASSUME file'.rows = file.rows, queue' = queue, AtHand' = AtHand
    PROVE  UNCHANGED <<Configured, Unperformed>>
BY DEF Configured, Unperformed

LEMMA QuietStore ==
    ASSUME IInv, \/ Start \/ Timeout \/ Receive \/ CheckExists \/ Respond
                 \/ UNCHANGED vars \/ \E s \in Sessions : Exit(s)
    PROVE  UNCHANGED <<Configured, Unperformed>>
<1>1. file'.rows = file.rows
  BY DEF IInv, TypeOK, Start, OpenFile, CreateTable, StartWithout, StoreConnection, Timeout,
     Receive, CheckExists, Respond, Exit, vars
<1>2. queue' = queue
  BY DEF Start, OpenFile, CreateTable, StartWithout, StoreConnection, Timeout, Receive,
     CheckExists, Respond, Exit, vars, messages
<1>3. AtHand' = AtHand
  <2>1. CASE worker' = worker
    BY <2>1 DEF AtHand
  <2>2. CASE CheckExists
    <3>1. /\ worker.pc = "exists" /\ worker'.pc = "execute"
          /\ worker'.msg = worker.msg
      BY <2>2 DEF CheckExists, IInv, TypeOK
    <3>2. QED
      BY <3>1 DEF AtHand
  <2>3. CASE Respond
    BY <2>3 DEF Respond, Idle, AtHand
  <2>4. QED
    BY <2>1, <2>2, <2>3 DEF Start, OpenFile, CreateTable, StartWithout, StoreConnection,
       Timeout, Receive, Exit, vars
<1>4. QED
  BY <1>1, <1>2, <1>3, SameStore

LEMMA AskStore ==
    ASSUME IInv, NEW s \in Sessions, NEW cmd \in Typed, Ask(s, cmd)
    PROVE  Store!Ask(cmd)
<1>1. /\ queue \in Seq(Messages) /\ Commands(queue) \in Seq(Typed)
      /\ Unperformed = AtHand \o Commands(queue) /\ AtHand \in Seq(Typed)
  BY UnperformedParts, Zenon
<1>2. PICK m \in Messages : m.cmd = cmd /\ queue' = Append(queue, m)
  <2>1. commands' \in 1 .. MaxCommands
    BY BgpAssumption DEF IInv, TypeOK, Ask
  <2>2. [cmd |-> cmd, id |-> commands'] \in Messages
    BY <2>1 DEF Messages
  <2>3. QED
    BY <2>2 DEF Ask
<1>3. Commands(queue') = Append(Commands(queue), cmd)
  BY <1>1, <1>2, CommandsOfAppend, Zenon
<1>4. AtHand' = AtHand /\ Configured' = Configured
  BY DEF Ask, AtHand, Configured
<1>5. Unperformed' = AtHand' \o Commands(queue')
  BY DEF Unperformed, Commands
<1>6. Unperformed' = AtHand \o Append(Commands(queue), cmd)
  BY <1>3, <1>4, <1>5, Zenon
<1>7. AtHand \o Append(Commands(queue), cmd) = Append(AtHand \o Commands(queue), cmd)
  BY <1>1, AppendBehind, Zenon
<1>8. Unperformed' = Append(Unperformed, cmd)
  BY <1>1, <1>6, <1>7, Zenon
<1>9. QED
  BY <1>4, <1>8 DEF Store!Ask

LEMMA TakeCommandStore ==
    ASSUME IInv, TakeCommand
    PROVE  UNCHANGED <<Configured, Unperformed>>
<1>1. /\ queue \in Seq(Messages) /\ Commands(queue) \in Seq(Typed)
      /\ Unperformed = AtHand \o Commands(queue)
  BY UnperformedParts, Zenon
<1>2. queue # <<>> /\ queue' = Tail(queue) /\ file' = file
  BY DEF TakeCommand
<1>3. AtHand = <<>>
  BY DEF TakeCommand, AtHand
<1>4. AtHand' = <<Head(queue).cmd>>
  <2>1. worker'.pc \in {"exists", "execute"} /\ worker'.msg = Head(queue)
    <3> DEFINE head == Head(queue)
               next == IF head.cmd.op = "set" THEN "exists" ELSE "execute"
    <3>1. worker' = [worker EXCEPT !.pc = next, !.msg = head]
      BY DEF TakeCommand
    <3>2. next \in {"exists", "execute"}
      OBVIOUS
    <3>3. worker \in [pc : {"idle", "exists", "execute", "respond"},
                      msg : [cmd : Typed, id : 0 .. MaxCommands],
                      exists : BOOLEAN, success : BOOLEAN]
      BY DEF IInv, TypeOK
    <3> HIDE DEF head, next
    <3>4. worker'.pc = next /\ worker'.msg = head
      BY <3>1, <3>3
    <3>5. QED
      BY <3>2, <3>4 DEF head
  <2>2. QED
    BY <2>1 DEF AtHand
<1>5. Unperformed' = AtHand' \o Commands(queue')
  BY DEF Unperformed, Commands
<1>6. Unperformed' = <<Head(queue).cmd>> \o Commands(Tail(queue))
  BY <1>2, <1>4, <1>5, Zenon
<1>7. Commands(queue) = <<Head(queue).cmd>> \o Commands(Tail(queue))
  BY <1>1, <1>2, CommandsOfTail, Zenon
<1>8. <<>> \o Commands(queue) = Commands(queue)
  <2> DEFINE c == Commands(queue)
  <2>1. c \in Seq(Typed)
    BY <1>1
  <2> HIDE DEF c
  <2>2. <<>> \o c = c
    BY <2>1
  <2>3. QED
    BY <2>2 DEF c
<1>9. Unperformed' = Unperformed
  BY <1>1, <1>3, <1>6, <1>7, <1>8, Zenon
<1>10. Configured' = Configured
  BY <1>2 DEF Configured
<1>11. QED
  BY <1>9, <1>10

\* Performing or failing takes the command at hand off what is pending.
LEMMA TakenFromStore ==
    ASSUME IInv, Execute \/ Fail
    PROVE  Store!Take /\ Head(Unperformed) = worker.msg.cmd
<1>1. /\ Commands(queue) \in Seq(Typed) /\ worker.msg.cmd \in Typed
      /\ Unperformed = AtHand \o Commands(queue)
  BY UnperformedParts, Zenon
<1>2. AtHand = <<worker.msg.cmd>>
  BY DEF Execute, Fail, AtHand
<1>3. worker'.pc = "respond" /\ queue' = queue
  BY DEF Execute, Fail, messages, IInv, TypeOK
<1>4. AtHand' = <<>>
  BY <1>3 DEF AtHand
<1>5. Unperformed' = AtHand' \o Commands(queue')
  BY DEF Unperformed, Commands
<1> DEFINE c == Commands(queue)
           a == worker.msg.cmd
<1>6. Unperformed = <<a>> \o c /\ Unperformed' = <<>> \o c
  BY <1>1, <1>2, <1>3, <1>4, <1>5, Zenon
<1>7. c \in Seq(Typed) /\ a \in Typed
  BY <1>1
<1> HIDE DEF c, a
<1>8. /\ <<a>> \o c # <<>> /\ Head(<<a>> \o c) = a /\ Tail(<<a>> \o c) = c
      /\ <<>> \o c = c
  BY <1>7, PutInFront, Zenon
<1>9. Unperformed # <<>> /\ Unperformed' = Tail(Unperformed) /\ Head(Unperformed) = a
  BY <1>6, <1>8, Zenon
<1>10. QED
  BY <1>9 DEF Store!Take, a

LEMMA ExecuteStore == ASSUME IInv, Execute PROVE Store!Perform
<1>1. Store!Take /\ Head(Unperformed) = worker.msg.cmd
  BY TakenFromStore
<1>2. file'.rows = Executed(file.rows, worker.msg.cmd)
  BY DEF Execute, IInv, TypeOK
<1>3. ValueIn(Executed(file.rows, worker.msg.cmd))
          = Store!After(ValueIn(file.rows), worker.msg.cmd)
  BY ExecutedValue DEF Execute
<1>4. Configured' = ValueIn(file'.rows) /\ Configured = ValueIn(file.rows)
  BY DEF Configured, ValueIn
<1>5. Configured' = Store!After(Configured, Head(Unperformed))
  BY <1>1, <1>2, <1>3, <1>4, Zenon
<1>6. QED
  BY <1>1, <1>5 DEF Store!Perform

LEMMA FailStore == ASSUME IInv, Fail PROVE Store!Refuse
<1>1. Store!Take
  BY TakenFromStore
<1>2. Configured' = Configured
  BY DEF Fail, Configured
<1>3. QED
  BY <1>1, <1>2 DEF Store!Refuse

LEMMA RestartStore == ASSUME IInv, Restart PROVE Store!Restart
<1>1. AtHand' = <<>> /\ queue' = <<>>
  BY DEF Restart, AtHand, Idle
<1>2. Unperformed' = <<>>
  BY <1>1 DEF Unperformed
<1>3. Configured' = Configured
  BY DEF Restart, Configured
<1>4. QED
  BY <1>2, <1>3 DEF Store!Restart

\* The row, seen through its value and what is still to perform, is a
\* configuration store (ConfigStore): handle_bgp_config performs each command
\* once, in the order typed, and neither a failed statement nor a timeout nor
\* a restart changes what is configured.
THEOREM Implements == Spec => ImplementsStore
<1>1. Init => Store!Init
  BY InitStore
<1>2. IInv /\ [Next]_vars => [Store!Next]_<<Configured, Unperformed>>
  <2> SUFFICES ASSUME IInv, [Next]_vars PROVE [Store!Next]_<<Configured, Unperformed>>
    OBVIOUS
  <2>1. CASE \/ Start \/ Timeout \/ Receive \/ CheckExists \/ Respond
             \/ UNCHANGED vars \/ \E s \in Sessions : Exit(s)
    BY <2>1, QuietStore
  <2>2. CASE \E s \in Sessions : \E cmd \in Typed : Ask(s, cmd)
    BY <2>2, AskStore DEF Store!Next, Store!Requests, Typed, Set, Delete, Clear, Show,
       Store!Set, Store!Delete, Store!Clear, Store!Show
  <2>3. CASE TakeCommand
    BY <2>3, TakeCommandStore
  <2>4. CASE Execute
    BY <2>4, ExecuteStore DEF Store!Next
  <2>5. CASE Fail
    BY <2>5, FailStore DEF Store!Next
  <2>6. CASE Restart
    BY <2>6, RestartStore DEF Store!Next
  <2>7. QED
    BY <2>1, <2>2, <2>3, <2>4, <2>5, <2>6 DEF Next, WorkerStep
<1>3. Spec => []IInv
  BY Invariance
<1>4. QED
  BY <1>1, <1>2, <1>3, PTL DEF Spec, ImplementsStore, Store!Spec, Store!vars
-----------------------------------------------------------------------------
(***************************************************************************)
(* "show current-configuration" beside the commands.  A show is no step of  *)
(* BgpConfig, so what is shown above of the commands holds beside it; and    *)
(* what it prints was configured while it ran, although it asks the database *)
(* twice for every template and the BGP worker may change the row in         *)
(* between.                                                                *)
(***************************************************************************)

\* The parts of a show in any state of it; of the text only that it is a
\* sequence matters.
Shaped ==
    /\ show \in [on : BOOLEAN, todo : {show.todo}, checked : BOOLEAN, text : {show.text},
                 seen : {show.seen}, failed : BOOLEAN]
    /\ \E S : show.text \in Seq(S)

ShowInv ==
    /\ Shaped
    /\ show.on => phase = "up" /\ Configured \in show.seen
    /\ ShownWasConfigured

\* What a line appended does to a text.
LEMMA Appended ==
    ASSUME NEW S, NEW s \in Seq(S), NEW x
    PROVE  /\ Append(s, x) \in Seq(S \cup {x})
           /\ \A i \in DOMAIN Append(s, x) :
                IF i \in DOMAIN s THEN Append(s, x)[i] = s[i] ELSE Append(s, x)[i] = x
  <1>1. s \in Seq(S \cup {x})
    OBVIOUS
  <1> QED BY <1>1

LEMMA ShowInit_ShowInv == ShowInit => ShowInv
  <1> SUFFICES ASSUME ShowInit PROVE ShowInv
    OBVIOUS
  <1>1. show = NoShow
    BY DEF ShowInit
  <1>2. <<>> \in Seq({})
    OBVIOUS
  <1> QED BY <1>1, <1>2 DEF NoShow, ShowInv, Shaped, ShownWasConfigured

\* What a step that leaves the text alone must keep.
LEMMA TextKept ==
    ASSUME ShowInv, Shaped',
           show'.text = show.text, show.seen \subseteq show'.seen,
           show.failed => show'.failed,
           show'.on => phase' = "up" /\ Configured' \in show'.seen
    PROVE  ShowInv'
  BY DEF ShowInv, ShownWasConfigured

\* The steps of the renderer.
LEMMA RenderingInv ==
    ASSUME ShowInv, HasData \/ HasNoData \/ CheckFails \/ EndShow
    PROVE  ShowInv'
  <1>1. phase' = phase /\ Configured' = Configured
    <2>1. phase' = phase /\ file' = file
      BY DEF HasData, HasNoData, CheckFails, EndShow, vars
    <2> QED BY <2>1 DEF Configured, ValueIn
  <1>2. /\ Shaped' /\ show'.text = show.text /\ show'.seen = show.seen
        /\ show'.on => show.on
        /\ show.failed => show'.failed
    <2>1. CASE HasData
      BY <2>1 DEF ShowInv, Shaped, HasData
    <2>2. CASE HasNoData
      BY <2>2 DEF ShowInv, Shaped, HasNoData, Skipped
    <2>3. CASE CheckFails
      BY <2>3 DEF ShowInv, Shaped, CheckFails, Skipped
    <2>4. CASE EndShow
      BY <2>4 DEF ShowInv, Shaped, EndShow
    <2> QED BY <2>1, <2>2, <2>3, <2>4
  <1> QED BY <1>1, <1>2, TextKept DEF ShowInv

LEMMA LineInv ==
    ASSUME ShowInv, RenderTemplate \/ QueryFails
    PROVE  ShowInv'
  <1>1. phase' = phase /\ Configured' = Configured
    <2>1. phase' = phase /\ file' = file
      BY DEF RenderTemplate, QueryFails, vars
    <2> QED BY <2>1 DEF Configured, ValueIn
  <1>2. PICK as :
          /\ show'.text = Append(show.text, [template |-> Head(show.todo), as |-> as])
          /\ show' \in [on : BOOLEAN, todo : {show'.todo}, checked : BOOLEAN,
                         text : {show'.text}, seen : {show'.seen}, failed : BOOLEAN]
          /\ show'.on = show.on /\ show'.seen = show.seen
          /\ show.failed => show'.failed
          /\ as \in show'.seen \/ (show'.failed /\ as = None)
    <2>1. CASE RenderTemplate
      <3> WITNESS Configured
      <3> QED BY <2>1 DEF ShowInv, Shaped, RenderTemplate, Rendering, Rendered
    <2>2. CASE QueryFails
      <3> WITNESS None
      <3> QED BY <2>2 DEF ShowInv, Shaped, QueryFails, Rendering, Rendered
    <2> QED BY <2>1, <2>2
  <1> DEFINE line == [template |-> Head(show.todo), as |-> as]
  <1>3. line.as = as
    OBVIOUS
  <1> HIDE DEF line
  <1>4. PICK S : show.text \in Seq(S)
    BY DEF ShowInv, Shaped
  <1>5. show'.text = Append(show.text, line)
    BY <1>2 DEF line
  <1>6. /\ show'.text \in Seq(S \cup {line})
        /\ \A i \in DOMAIN show'.text :
              IF i \in DOMAIN show.text THEN show'.text[i] = show.text[i]
              ELSE show'.text[i] = line
    BY <1>4, <1>5, Appended
  <1>7. Shaped'
    BY <1>2, <1>6 DEF Shaped
  <1>8. ShownWasConfigured'
    BY <1>2, <1>3, <1>6 DEF ShowInv, ShownWasConfigured
  <1> QED BY <1>1, <1>2, <1>7, <1>8 DEF ShowInv

\* A new show, or none after a restart: no text yet.
LEMMA FreshInv ==
    ASSUME ShowInv, StartShow \/ RestartAll
    PROVE  ShowInv'
  <1>1. /\ show'.text = <<>> /\ Shaped'
        /\ show'.on => StartShow /\ show'.seen = {Configured}
    <2>1. <<>> \in Seq({})
      OBVIOUS
    <2>2. CASE StartShow
      BY <2>1, <2>2 DEF StartShow, NewShow, NoShow, Shaped
    <2>3. CASE RestartAll
      BY <2>1, <2>3 DEF RestartAll, NoShow, Shaped
    <2> QED BY <2>2, <2>3
  <1>2. StartShow => phase' = "up" /\ Configured' = Configured
    BY DEF StartShow, CfgThreadFree, vars, Configured, ValueIn
  <1> QED BY <1>1, <1>2 DEF ShowInv, ShownWasConfigured

\* The worker beside a show: what it writes is what the show could have met.
LEMMA WorkerInv ==
    ASSUME ShowInv, WorkerBeside
    PROVE  ShowInv'
  <1>1. phase' = phase
    BY DEF WorkerBeside, WorkerStep, TakeCommand, CheckExists, Execute, Fail,
           Respond, daemon
  <1>2. Configured' = ValueIn(file'.rows)
    BY DEF Configured, ValueIn
  <1>3. CASE show.on
    <2>1. /\ Shaped' /\ show'.text = show.text
          /\ show'.seen = show.seen \cup {ValueIn(file'.rows)}
          /\ show'.failed = show.failed
      BY <1>3 DEF ShowInv, Shaped, WorkerBeside
    <2> QED BY <1>1, <1>2, <1>3, <2>1, TextKept DEF ShowInv
  <1>4. CASE ~show.on
    BY <1>4, TextKept DEF ShowInv, Shaped, WorkerBeside
  <1> QED BY <1>3, <1>4

\* The rest does nothing while a show is on.
LEMMA OthersInv ==
    ASSUME ShowInv, SessionStep \/ StartBeside \/ UNCHANGED showVars
    PROVE  ShowInv'
  <1>1. CASE SessionStep
    BY <1>1, TextKept DEF ShowInv, Shaped, SessionStep
  <1>2. CASE StartBeside
    <2>1. phase # "up"
      BY <1>2 DEF StartBeside, Start, OpenFile, CreateTable, StartWithout, StoreConnection
    <2> QED BY <1>2, <2>1, TextKept DEF ShowInv, Shaped, StartBeside
  <1>3. CASE UNCHANGED showVars
    BY <1>3, TextKept DEF ShowInv, Shaped, showVars, vars, Configured, ValueIn
  <1> QED BY <1>1, <1>2, <1>3

\* A line of "show current-configuration" shows a number that was configured at
\* some moment of the show, also when the BGP worker performs a command whose
\* session gave up on it between the two statements (template_has_data and
\* execute_single_query of cfg/nn_cfg_template_renderer.c).
THEOREM ShownIsTrue == ShowSpec => []ShownWasConfigured
  <1>1. ShowInv /\ [ShowNext]_showVars => ShowInv'
    BY RenderingInv, LineInv, FreshInv, WorkerInv, OthersInv
       DEF ShowNext, ShowStep
  <1>2. ShowInv => ShownWasConfigured
    BY DEF ShowInv
  <1> QED BY <1>1, <1>2, ShowInit_ShowInv, PTL DEF ShowSpec

\* A show changes nothing the commands read or write: what BgpConfig_proofs
\* shows of the commands, the rows and their answers holds with shows running.
THEOREM ShowsAreReadOnly == ShowSpec => Spec
  <1>1. ShowInit => Init
    BY DEF ShowInit
  <1>2. [ShowNext]_showVars => [Next]_vars
    <2> SUFFICES ASSUME [ShowNext]_showVars PROVE [Next]_vars
      OBVIOUS
    <2>1. CASE ShowStep
      BY <2>1 DEF ShowStep, StartShow, HasData, HasNoData, CheckFails,
                  RenderTemplate, QueryFails, EndShow
    <2>2. CASE SessionStep \/ WorkerBeside \/ StartBeside \/ RestartAll
      BY <2>2 DEF SessionStep, WorkerBeside, StartBeside, RestartAll, Next
    <2>3. CASE UNCHANGED showVars
      BY <2>3 DEF showVars
    <2> QED BY <2>1, <2>2, <2>3 DEF ShowNext
  <1> QED BY <1>1, <1>2, PTL DEF ShowSpec, Spec
\* The corollary for the daemon with shows: one row, answers that are current,
\* and the configuration the commands ask for, whatever shows run in between.
THEOREM BesideShows == ShowSpec => [](AtMostOneRow /\ AnswerIsCurrent) /\ ImplementsStore
<1>1. QED
  BY ShowsAreReadOnly, OneRowAtMost, AnswersAreCurrent, Implements, PTL

=============================================================================
