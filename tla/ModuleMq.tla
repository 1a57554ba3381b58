------------------------------ MODULE ModuleMq ------------------------------
(***************************************************************************)
(* The inbox of one module: a GQueue under queue_mutex, an eventfd that     *)
(* says "look at the queue", the module's worker thread, the threads that   *)
(* send to it, and the main thread that tears it down.                      *)
(*                                                                         *)
(* Every sender reaches the queue through send_to_subscriber, which runs    *)
(* under pubsub_mutex; it pushes under queue_mutex and writes the eventfd   *)
(* only after releasing queue_mutex.  The worker holds queue_mutex over     *)
(* both the pop and the clearing of the eventfd.  A push is one step (the   *)
(* whole critical section of queue_mutex), disabled while the worker is in  *)
(* its own critical section; the push and the write are two steps.          *)
(***************************************************************************)
EXTENDS Integers, Sequences

CONSTANTS
    Senders,           \* the threads that send to this module
    MaxSends,          \* how many messages each of them sends
    NoThread,          \* pubsub_mutex is free
    UnregisterFirst    \* TRUE: bgp and if unregister before they join the
                       \* worker; FALSE: dev and db join first

ASSUME MqAssumption ==
    /\ NoThread \notin Senders
    /\ MaxSends \in Nat
    /\ UnregisterFirst \in BOOLEAN

VARIABLES
    queue,        \* mq->message_queue
    eventfd,      \* the counter of the eventfd
    pubsubLock,   \* the sender that holds pubsub_mutex, or NoThread
    registered,   \* the module is in registered_modules
    senderPc,     \* where each sender is in send_to_subscriber
    sends,        \* how many sends each sender has begun
    workerPc,     \* where the worker is in its loop
    running,      \* g_nn_<module>_local->running
    shutdown,     \* g_shutdown_requested
    ownerPc,      \* where the main thread is in <module>_cleanup_local
    fdOpen,       \* event_fd has not been closed
    alive,        \* mq has not been freed
    accepted,     \* history: the messages pushed, in order
    taken         \* history: the messages popped, in order

senderVars == <<pubsubLock, senderPc, sends>>
workerVars == <<workerPc, taken>>
ownerVars  == <<registered, running, ownerPc, fdOpen, alive>>
vars == <<queue, eventfd, senderVars, workerVars, shutdown, ownerVars, accepted>>

Message == Senders \X (1..MaxSends)

(***************************************************************************)
(* The module has been initialised: registered, worker just started.       *)
(***************************************************************************)
Init ==
    /\ queue = <<>>
    /\ eventfd = 0
    /\ pubsubLock = NoThread
    /\ registered = TRUE
    /\ senderPc = [s \in Senders |-> "idle"]
    /\ sends = [s \in Senders |-> 0]
    /\ workerPc = "loop"
    /\ running = TRUE
    /\ shutdown = FALSE
    /\ ownerPc = "serving"
    /\ fdOpen = TRUE
    /\ alive = TRUE
    /\ accepted = <<>>
    /\ taken = <<>>

(***************************************************************************)
(* Senders                                                                 *)
(***************************************************************************)

\* Mutant: the table is consulted under pubsub_mutex, the send is not.
LookupThenUnlock(s) ==
    /\ senderPc[s] = "idle" /\ sends[s] < MaxSends
    /\ pubsubLock = NoThread
    /\ sends' = [sends EXCEPT ![s] = @ + 1]
    /\ registered
    /\ senderPc' = [senderPc EXCEPT ![s] = "push"]
    /\ UNCHANGED <<queue, eventfd, pubsubLock, workerVars, shutdown, ownerVars, accepted>>

\* Take pubsub_mutex and look the module up; a module that is not registered
\* is not sent to, and the mutex is released at once.
Lookup(s) ==
    /\ senderPc[s] = "idle" /\ sends[s] < MaxSends
    /\ pubsubLock = NoThread
    /\ sends' = [sends EXCEPT ![s] = @ + 1]
    /\ IF registered
       THEN pubsubLock' = s /\ senderPc' = [senderPc EXCEPT ![s] = "push"]
       ELSE UNCHANGED <<pubsubLock, senderPc>>
    /\ UNCHANGED <<queue, eventfd, workerVars, shutdown, ownerVars, accepted>>

\* Mutant: g_queue_push_head.
PushAtHead(s) ==
    /\ senderPc[s] = "push"
    /\ workerPc # "drained"
    /\ queue' = <<<<s, sends[s]>>>> \o queue
    /\ accepted' = Append(accepted, <<s, sends[s]>>)
    /\ senderPc' = [senderPc EXCEPT ![s] = "write"]
    /\ UNCHANGED <<eventfd, pubsubLock, sends, workerVars, shutdown, ownerVars>>

\* nn_dev_mq_send up to the unlock of queue_mutex.
Push(s) ==
    /\ senderPc[s] = "push"
    /\ workerPc # "drained"
    /\ queue' = Append(queue, <<s, sends[s]>>)
    /\ accepted' = Append(accepted, <<s, sends[s]>>)
    /\ senderPc' = [senderPc EXCEPT ![s] = "write"]
    /\ UNCHANGED <<eventfd, pubsubLock, sends, workerVars, shutdown, ownerVars>>

\* The write to the eventfd, after which the sender releases pubsub_mutex.
Write(s) ==
    /\ senderPc[s] = "write"
    /\ eventfd' = eventfd + 1
    /\ pubsubLock' = NoThread
    /\ senderPc' = [senderPc EXCEPT ![s] = "idle"]
    /\ UNCHANGED <<queue, sends, workerVars, shutdown, ownerVars, accepted>>

(***************************************************************************)
(* The worker thread                                                       *)
(***************************************************************************)

\* Mutant: while (1).
LoopForever ==
    /\ workerPc = "loop"
    /\ workerPc' = "wait"
    /\ UNCHANGED <<queue, eventfd, senderVars, taken, shutdown, ownerVars, accepted>>

\* while (running && !shutdown_requested)
LoopTest ==
    /\ workerPc = "loop"
    /\ workerPc' = IF running /\ ~shutdown THEN "wait" ELSE "exited"
    /\ UNCHANGED <<queue, eventfd, senderVars, taken, shutdown, ownerVars, accepted>>

\* epoll_wait is level-triggered: it returns when the counter is not zero,
EpollReady ==
    /\ workerPc = "wait" /\ eventfd > 0
    /\ workerPc' = "clear"
    /\ UNCHANGED <<queue, eventfd, senderVars, taken, shutdown, ownerVars, accepted>>

\* or after one second.
EpollTimeout ==
    /\ workerPc = "wait" /\ eventfd = 0
    /\ workerPc' = "loop"
    /\ UNCHANGED <<queue, eventfd, senderVars, taken, shutdown, ownerVars, accepted>>

\* The read at the head of <module>_process_messages.
ClearEventfd ==
    /\ workerPc = "clear"
    /\ eventfd' = 0
    /\ workerPc' = "receive"
    /\ UNCHANGED <<queue, senderVars, taken, shutdown, ownerVars, accepted>>

\* nn_dev_mq_receive: pop the head; with the queue now empty the worker goes
\* on, still holding queue_mutex, to clear the eventfd.
ReceivePop ==
    /\ workerPc = "receive" /\ queue # <<>>
    /\ queue' = Tail(queue)
    /\ taken' = Append(taken, Head(queue))
    /\ workerPc' = IF Tail(queue) = <<>> THEN "drained" ELSE "handle"
    /\ UNCHANGED <<eventfd, senderVars, shutdown, ownerVars, accepted>>

\* The worker then reads the eventfd, and releases queue_mutex.
ReceiveClear ==
    /\ workerPc = "drained"
    /\ eventfd' = 0
    /\ workerPc' = "handle"
    /\ UNCHANGED <<queue, senderVars, taken, shutdown, ownerVars, accepted>>

\* Nothing to receive: the drain loop ends.
ReceiveNone ==
    /\ workerPc = "receive" /\ queue = <<>>
    /\ workerPc' = "loop"
    /\ UNCHANGED <<queue, eventfd, senderVars, taken, shutdown, ownerVars, accepted>>

\* Mutant: one message for each wake-up, "if" for "while".
HandleOnlyOne ==
    /\ workerPc = "handle"
    /\ workerPc' = "loop"
    /\ UNCHANGED <<queue, eventfd, senderVars, taken, shutdown, ownerVars, accepted>>

\* Dispatch on the type, free the message, receive the next.
Handle ==
    /\ workerPc = "handle"
    /\ workerPc' = "receive"
    /\ UNCHANGED <<queue, eventfd, senderVars, taken, shutdown, ownerVars, accepted>>

(***************************************************************************)
(* The main thread: the signal, then the module's cleanup                  *)
(***************************************************************************)

RequestShutdown ==
    /\ ~shutdown
    /\ shutdown' = TRUE
    /\ UNCHANGED <<queue, eventfd, senderVars, workerVars, ownerVars, accepted>>

StopRunning ==
    /\ shutdown /\ ownerPc = "serving"
    /\ running' = FALSE
    /\ ownerPc' = IF UnregisterFirst THEN "unregister" ELSE "join"
    /\ UNCHANGED <<queue, eventfd, senderVars, workerVars, shutdown,
                   registered, fdOpen, alive, accepted>>

\* Mutant: the module is left in the table.
UnregisterNothing ==
    /\ ownerPc = "unregister"
    /\ pubsubLock = NoThread
    /\ ownerPc' = IF UnregisterFirst THEN "join" ELSE "close"
    /\ UNCHANGED <<queue, eventfd, senderVars, workerVars, shutdown,
                   registered, running, fdOpen, alive, accepted>>

\* nn_dev_pubsub_unregister: one critical section of pubsub_mutex.
Unregister ==
    /\ ownerPc = "unregister"
    /\ pubsubLock = NoThread
    /\ registered' = FALSE
    /\ ownerPc' = IF UnregisterFirst THEN "join" ELSE "close"
    /\ UNCHANGED <<queue, eventfd, senderVars, workerVars, shutdown,
                   running, fdOpen, alive, accepted>>

\* Mutant: the worker is not waited for.
JoinWithoutWaiting ==
    /\ ownerPc = "join"
    /\ ownerPc' = IF UnregisterFirst THEN "close" ELSE "unregister"
    /\ UNCHANGED <<queue, eventfd, senderVars, workerVars, shutdown,
                   registered, running, fdOpen, alive, accepted>>

\* pthread_join(worker_thread)
Join ==
    /\ ownerPc = "join"
    /\ workerPc = "exited"
    /\ ownerPc' = IF UnregisterFirst THEN "close" ELSE "unregister"
    /\ UNCHANGED <<queue, eventfd, senderVars, workerVars, shutdown,
                   registered, running, fdOpen, alive, accepted>>

CloseFds ==
    /\ ownerPc = "close"
    /\ fdOpen' = FALSE
    /\ ownerPc' = "destroy"
    /\ UNCHANGED <<queue, eventfd, senderVars, workerVars, shutdown,
                   registered, running, alive, accepted>>

\* nn_dev_mq_destroy frees what is still queued, then the queue.
Destroy ==
    /\ ownerPc = "destroy"
    /\ queue' = <<>>
    /\ alive' = FALSE
    /\ ownerPc' = "done"
    /\ UNCHANGED <<eventfd, senderVars, workerVars, shutdown,
                   registered, running, fdOpen, accepted>>

------------------------------------------------------------------------------

SenderStep(s) == Lookup(s) \/ Push(s) \/ Write(s)

WorkerStep == \/ LoopTest \/ EpollReady \/ EpollTimeout \/ ClearEventfd
              \/ ReceivePop \/ ReceiveClear \/ ReceiveNone \/ Handle

CleanupStep == StopRunning \/ Unregister \/ Join \/ CloseFds \/ Destroy

Next == \/ \E s \in Senders : SenderStep(s)
        \/ WorkerStep
        \/ RequestShutdown
        \/ CleanupStep

\* A thread inside send_to_subscriber runs on, and so do the worker (whose
\* epoll_wait times out) and the cleanup once it has begun.  pubsub_mutex is
\* not fair, but the senders' sends are finite.  No signal need ever come.
Fairness == /\ \A s \in Senders : WF_vars(Push(s) \/ Write(s))
            /\ WF_vars(WorkerStep)
            /\ WF_vars(CleanupStep)

Spec == Init /\ [][Next]_vars /\ Fairness

------------------------------------------------------------------------------
(***************************************************************************)
(* Properties                                                              *)
(***************************************************************************)

Sending(s) == senderPc[s] \in {"push", "write"}

\* Every variable has its type.
TypeOK ==
    /\ queue \in Seq(Message)
    /\ eventfd \in Nat
    /\ pubsubLock \in Senders \cup {NoThread}
    /\ registered \in BOOLEAN
    /\ senderPc \in [Senders -> {"idle", "push", "write"}]
    /\ sends \in [Senders -> 0..MaxSends]
    /\ workerPc \in {"loop", "wait", "clear", "receive", "drained", "handle", "exited"}
    /\ running \in BOOLEAN
    /\ shutdown \in BOOLEAN
    /\ ownerPc \in {"serving", "unregister", "join", "close", "destroy", "done"}
    /\ fdOpen \in BOOLEAN
    /\ alive \in BOOLEAN
    /\ accepted \in Seq(Message)
    /\ taken \in Seq(Message)

\* No lost wake-up: a worker that is about to sleep, or asleep, while a message
\* is queued finds the eventfd readable, now or as soon as the sender that has
\* pushed and not yet written goes on (nn_dev_mq.c writes after unlocking).
NoLostWakeup ==
    queue # <<>> /\ workerPc \in {"loop", "wait"} =>
        eventfd > 0 \/ \E s \in Senders : senderPc[s] = "write"

\* The queue loses, repeats and reorders nothing while it exists: what was
\* pushed is what was popped followed by what is queued.
FifoIntact == alive => accepted = taken \o queue

\* Nobody touches the queue or its eventfd after cleanup has closed and freed
\* them: a sender found the module registered under pubsub_mutex and keeps the
\* mutex until it has written; the worker has been joined.
NoUseAfterFree ==
    ~(fdOpen /\ alive) => /\ workerPc = "exited"
                          /\ \A s \in Senders : ~Sending(s)

\* The strengthening that makes these inductive.  pubsub_mutex is held by
\* exactly the thread that is sending, which found the module registered.
LockHeld == \A s \in Senders : /\ Sending(s) <=> pubsubLock = s
                               /\ Sending(s) => registered /\ sends[s] > 0

\* Each stage of the cleanup leaves behind what the later ones rely on.
CleanupOrder ==
    /\ fdOpen = (ownerPc \notin {"destroy", "done"})
    /\ alive = (ownerPc # "done")
    /\ ownerPc # "serving" => shutdown
    /\ ownerPc \in {"close", "destroy", "done"} => ~registered /\ workerPc = "exited"
    /\ ~registered => shutdown
    /\ ownerPc \in {"serving", "unregister"} => registered
    /\ ownerPc = "join" => registered = ~UnregisterFirst
    /\ ~UnregisterFirst /\ ownerPc = "unregister" => workerPc = "exited"

\* The worker clears the eventfd in its critical section only on an empty queue.
DrainedEmpty == workerPc = "drained" => queue = <<>>

IInv == /\ TypeOK /\ LockHeld /\ CleanupOrder /\ DrainedEmpty
        /\ NoLostWakeup /\ FifoIntact

\* The inbox implements the abstract mailbox: order, no duplicate, nothing
\* after the close, and a message pushed while the daemon runs is taken.
mailboxPhase == CASE ~alive -> "closed"
                  [] alive /\ ~registered -> "sealed"
                  [] alive /\ registered /\ shutdown -> "stopping"
                  [] OTHER -> "open"

MB == INSTANCE Mailbox WITH phase <- mailboxPhase
ImplementsMailbox == MB!Spec

\* After the signal the cleanup of the module ends: the worker notices the
\* flag within one epoll timeout and the join returns, whatever is queued.
CleanupEnds == shutdown ~> ownerPc = "done"
==============================================================================
