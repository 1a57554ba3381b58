--------------------------- MODULE ModuleMq_proofs ---------------------------
(***************************************************************************)
(* Proofs about ModuleMq, for any set of senders, any number of sends and   *)
(* either order of unregistering and joining.  One lemma per action shows   *)
(* that the inductive invariant IInv survives it.                           *)
(***************************************************************************)
EXTENDS ModuleMq, SequenceTheorems, TLAPS

LEMMA InitInv == Init => IInv
<1>1. <<>> \o <<>> = <<>>
  OBVIOUS
<1>2. ASSUME Init PROVE TypeOK
  <2> USE <1>2 DEF Init
  <2>1. sends \in [Senders -> 0..MaxSends]
    BY MqAssumption
  <2>2. queue \in Seq(Message) /\ accepted \in Seq(Message) /\ taken \in Seq(Message)
    OBVIOUS
  <2>3. /\ eventfd \in Nat /\ pubsubLock \in Senders \cup {NoThread}
        /\ senderPc \in [Senders -> {"idle", "push", "write"}]
    OBVIOUS
  <2>4. /\ registered \in BOOLEAN /\ running \in BOOLEAN /\ shutdown \in BOOLEAN
        /\ fdOpen \in BOOLEAN /\ alive \in BOOLEAN
    OBVIOUS
  <2>5. QED
    BY <2>1, <2>2, <2>3, <2>4, Zenon DEF TypeOK
<1>3. Init => LockHeld /\ CleanupOrder
  BY MqAssumption DEF Init, LockHeld, Sending, CleanupOrder
<1>4. Init => DrainedEmpty /\ NoLostWakeup /\ FifoIntact
  BY <1>1 DEF Init, DrainedEmpty, NoLostWakeup, FifoIntact
<1>5. QED
  BY <1>2, <1>3, <1>4 DEF IInv

LEMMA LookupInv ==
    ASSUME IInv, NEW s \in Senders, Lookup(s)
    PROVE  IInv'
<1> USE MqAssumption DEF IInv, Lookup, workerVars, ownerVars
<1>1. TypeOK'
  BY DEF TypeOK
<1>2. LockHeld'
  BY DEF LockHeld, TypeOK, Sending
<1>3. CleanupOrder' /\ DrainedEmpty' /\ FifoIntact'
  BY DEF CleanupOrder, DrainedEmpty, FifoIntact
<1>4. NoLostWakeup'
  BY DEF NoLostWakeup, TypeOK
<1>5. QED
  BY <1>1, <1>2, <1>3, <1>4

LEMMA PushInv ==
    ASSUME IInv, NEW s \in Senders, Push(s)
    PROVE  IInv'
<1> USE MqAssumption DEF IInv, Push, workerVars, ownerVars
<1>1. <<s, sends[s]>> \in Message
  BY DEF TypeOK, LockHeld, Sending, Message
<1>2. TypeOK'
  BY <1>1 DEF TypeOK
<1>3. LockHeld'
  BY DEF LockHeld, TypeOK, Sending
<1>4. CleanupOrder'
  BY DEF CleanupOrder
<1>5. DrainedEmpty'
  BY DEF DrainedEmpty
<1>6. FifoIntact'
  <2>1. PICK m \in Message : m = <<s, sends[s]>>
    BY <1>1
  <2>2. /\ queue' = Append(queue, m) /\ accepted' = Append(accepted, m)
        /\ taken' = taken /\ alive' = alive
    BY <2>1
  <2>3. taken \in Seq(Message) /\ queue \in Seq(Message) /\ FifoIntact
    BY DEF TypeOK
  <2> HIDE DEF IInv, Push, workerVars, ownerVars
  <2>4. taken \o Append(queue, m) = Append(taken \o queue, m)
    BY <2>3
  <2>5. ASSUME alive PROVE accepted' = taken' \o queue'
    <3>1. accepted' = Append(taken \o queue, m)
      BY <2>2, <2>3, <2>5, Zenon DEF FifoIntact
    <3>2. taken' \o queue' = taken \o Append(queue, m)
      BY <2>2, Zenon
    <3>3. QED
      BY <3>1, <3>2, <2>4, Zenon
  <2>6. QED
    BY <2>2, <2>5, Zenon DEF FifoIntact
<1>7. NoLostWakeup'
  BY DEF NoLostWakeup, TypeOK
<1>8. QED
  BY <1>2, <1>3, <1>4, <1>5, <1>6, <1>7

LEMMA WriteInv ==
    ASSUME IInv, NEW s \in Senders, Write(s)
    PROVE  IInv'
<1> USE MqAssumption DEF IInv, Write, workerVars, ownerVars
<1>1. TypeOK'
  BY DEF TypeOK
<1>2. LockHeld'
  BY DEF LockHeld, TypeOK, Sending
<1>3. CleanupOrder' /\ DrainedEmpty' /\ FifoIntact'
  BY DEF CleanupOrder, DrainedEmpty, FifoIntact
<1>4. NoLostWakeup'
  BY DEF NoLostWakeup, TypeOK
<1>5. QED
  BY <1>1, <1>2, <1>3, <1>4

\* The pop is the one worker step that touches the queue.
LEMMA ReceivePopInv ==
    ASSUME IInv, ReceivePop
    PROVE  IInv'
<1> USE DEF IInv, ReceivePop, senderVars, ownerVars
<1>1. /\ Head(queue) \in Message /\ Tail(queue) \in Seq(Message)
      /\ taken \in Seq(Message) /\ queue \in Seq(Message) /\ queue # <<>>
  BY DEF TypeOK
<1>2. TypeOK'
  BY <1>1 DEF TypeOK
<1>3. LockHeld' /\ CleanupOrder'
  BY DEF LockHeld, Sending, CleanupOrder
<1>4. DrainedEmpty' /\ NoLostWakeup'
  BY DEF DrainedEmpty, NoLostWakeup
<1>5. FifoIntact'
  <2>1. queue' = Tail(queue) /\ taken' = Append(taken, Head(queue))
        /\ accepted' = accepted /\ alive' = alive /\ FifoIntact
    OBVIOUS
  <2> HIDE DEF IInv, ReceivePop, senderVars, ownerVars
  <2>2. taken \o queue = Append(taken, Head(queue)) \o Tail(queue)
    BY <1>1
  <2>3. ASSUME alive PROVE accepted' = taken' \o queue'
    <3>1. taken' \o queue' = Append(taken, Head(queue)) \o Tail(queue)
      BY <2>1, Zenon
    <3>2. accepted' = taken \o queue
      BY <2>1, <2>3, Zenon DEF FifoIntact
    <3>3. QED
      BY <3>1, <3>2, <2>2, Zenon
  <2>4. QED
    BY <2>1, <2>3, Zenon DEF FifoIntact
<1>6. QED
  BY <1>2, <1>3, <1>4, <1>5

LEMMA WorkerInv ==
    ASSUME IInv, WorkerStep
    PROVE  IInv'
<1> USE DEF IInv, senderVars, ownerVars
<1>1. CASE ReceivePop
  BY <1>1, ReceivePopInv
<1>2. CASE LoopTest \/ EpollReady \/ EpollTimeout \/ Handle
  <2> USE <1>2 DEF LoopTest, EpollReady, EpollTimeout, Handle
  <2>1. TypeOK'
    BY DEF TypeOK
  <2>2. LockHeld' /\ DrainedEmpty'
    BY DEF LockHeld, Sending, DrainedEmpty
  <2>3. CleanupOrder'
    BY DEF CleanupOrder
  <2>4. NoLostWakeup'
    BY DEF NoLostWakeup
  <2>5. FifoIntact'
    BY DEF FifoIntact
  <2>6. QED
    BY <2>1, <2>2, <2>3, <2>4, <2>5
<1>3. CASE ClearEventfd \/ ReceiveClear \/ ReceiveNone
  <2> USE <1>3 DEF ClearEventfd, ReceiveClear, ReceiveNone
  <2>1. TypeOK'
    BY DEF TypeOK
  <2>2. LockHeld'
    BY DEF LockHeld, Sending
  <2>3. CleanupOrder'
    BY DEF CleanupOrder
  <2>4. DrainedEmpty' /\ NoLostWakeup'
    BY DEF DrainedEmpty, NoLostWakeup
  <2>5. FifoIntact'
    BY DEF FifoIntact
  <2>6. QED
    BY <2>1, <2>2, <2>3, <2>4, <2>5
<1>4. QED
  BY <1>1, <1>2, <1>3 DEF WorkerStep

LEMMA CleanupInv ==
    ASSUME IInv, RequestShutdown \/ CleanupStep
    PROVE  IInv'
<1> USE MqAssumption DEF IInv, senderVars, workerVars, ownerVars
<1>1. CASE Unregister
  \* Nobody is sending: a sender holds pubsub_mutex, which is free.
  <2>1. \A s \in Senders : ~Sending(s)
    BY <1>1 DEF Unregister, LockHeld
  <2>2. TypeOK' /\ CleanupOrder'
    BY <1>1 DEF Unregister, TypeOK, CleanupOrder
  <2>3. LockHeld' /\ DrainedEmpty' /\ NoLostWakeup' /\ FifoIntact'
    BY <1>1, <2>1 DEF Unregister, LockHeld, Sending, DrainedEmpty, NoLostWakeup, FifoIntact
  <2>4. QED
    BY <2>2, <2>3
<1>2. CASE Destroy
  <2>1. TypeOK'
    <3>1. queue' \in Seq(Message)
      BY <1>2 DEF Destroy
    <3>2. QED
      BY <1>2, <3>1 DEF Destroy, TypeOK
  <2>2. CleanupOrder' /\ LockHeld'
    BY <1>2 DEF Destroy, CleanupOrder, LockHeld, Sending
  <2>3. DrainedEmpty' /\ NoLostWakeup' /\ FifoIntact'
    BY <1>2 DEF Destroy, DrainedEmpty, NoLostWakeup, FifoIntact
  <2>4. QED
    BY <2>1, <2>2, <2>3
<1>3. CASE RequestShutdown \/ StopRunning
  <2> USE <1>3 DEF RequestShutdown, StopRunning
  <2>1. TypeOK'
    BY DEF TypeOK
  <2>2. CleanupOrder'
    BY DEF CleanupOrder, TypeOK
  <2>3. LockHeld' /\ DrainedEmpty'
    BY DEF LockHeld, Sending, DrainedEmpty
  <2>4. NoLostWakeup'
    BY DEF NoLostWakeup
  <2>5. FifoIntact'
    BY DEF FifoIntact
  <2>6. QED
    BY <2>1, <2>2, <2>3, <2>4, <2>5
<1>4. CASE Join \/ CloseFds
  <2> USE <1>4 DEF Join, CloseFds
  <2>1. TypeOK'
    BY DEF TypeOK
  <2>2. CleanupOrder'
    <3>1. CASE Join
      <4>1. CASE UnregisterFirst
        BY <3>1, <4>1 DEF CleanupOrder
      <4>2. CASE ~UnregisterFirst
        BY <3>1, <4>2 DEF CleanupOrder
      <4>3. QED
        BY <4>1, <4>2
    <3>2. CASE CloseFds
      BY <3>2 DEF CleanupOrder, TypeOK
    <3>3. QED
      BY <3>1, <3>2
  <2>3. LockHeld' /\ DrainedEmpty'
    BY DEF LockHeld, Sending, DrainedEmpty
  <2>4. NoLostWakeup'
    BY DEF NoLostWakeup
  <2>5. FifoIntact'
    BY DEF FifoIntact
  <2>6. QED
    BY <2>1, <2>2, <2>3, <2>4, <2>5
<1>5. QED
  BY <1>1, <1>2, <1>3, <1>4 DEF CleanupStep

LEMMA StutterInv ==
    ASSUME IInv, UNCHANGED vars
    PROVE  IInv'
<1> USE DEF vars, senderVars, workerVars, ownerVars, IInv
<1>1. TypeOK' /\ LockHeld' /\ CleanupOrder'
  BY DEF TypeOK, LockHeld, Sending, CleanupOrder
<1>2. DrainedEmpty' /\ NoLostWakeup' /\ FifoIntact'
  BY DEF DrainedEmpty, NoLostWakeup, FifoIntact
<1>3. QED
  BY <1>1, <1>2

(***************************************************************************)
(* The inductive invariant holds in every reachable state.                 *)
(***************************************************************************)
LEMMA NextInv == IInv /\ [Next]_vars => IInv'
<1> SUFFICES ASSUME IInv, [Next]_vars PROVE IInv'
  OBVIOUS
<1>1. CASE \E s \in Senders : SenderStep(s)
  BY <1>1, LookupInv, PushInv, WriteInv DEF SenderStep
<1>2. CASE WorkerStep
  BY <1>2, WorkerInv
<1>3. CASE RequestShutdown \/ CleanupStep
  BY <1>3, CleanupInv
<1>4. CASE UNCHANGED vars
  BY <1>4, StutterInv
<1>5. QED
  BY <1>1, <1>2, <1>3, <1>4 DEF Next

\* IInv is invariant: what every theorem below rests on.
THEOREM Invariance == Spec => []IInv
BY InitInv, NextInv, PTL DEF Spec

\* Every variable keeps its type.
THEOREM TypeCorrect == Spec => []TypeOK
<1>1. IInv => TypeOK
  BY DEF IInv
<1>2. QED
  BY <1>1, Invariance, PTL

\* No worker sleeps on a non-empty queue without a wake-up under way
\* (nn_nn_mq_send_inner against nn_dev_mq_receive_inner).
THEOREM NoWakeupIsLost == Spec => []NoLostWakeup
<1>1. IInv => NoLostWakeup
  BY DEF IInv
<1>2. QED
  BY <1>1, Invariance, PTL

\* The queue neither loses, repeats nor reorders a message.
THEOREM QueueIsFifo == Spec => []FifoIntact
<1>1. IInv => FifoIntact
  BY DEF IInv
<1>2. QED
  BY <1>1, Invariance, PTL

\* No thread uses the queue or the eventfd once cleanup has released them,
\* whichever of unregister and join comes first.
THEOREM QueueOutlivesItsUsers == Spec => []NoUseAfterFree
<1>1. IInv => NoUseAfterFree
  BY DEF IInv, NoUseAfterFree, CleanupOrder, LockHeld, TypeOK
<1>2. QED
  BY <1>1, Invariance, PTL

(***************************************************************************)
(* Refinement: each step of the queue, the eventfd, the senders, the worker *)
(* and the cleanup is a step of the abstract mailbox or leaves it alone.    *)
(***************************************************************************)

\* The phase depends on three flags only.
LEMMA PhaseUnchanged ==
    ASSUME UNCHANGED <<alive, registered, shutdown>>
    PROVE  mailboxPhase' = mailboxPhase
BY DEF mailboxPhase

LEMMA PushAccepts ==
    ASSUME IInv, NEW s \in Senders, Push(s)
    PROVE  MB!Accept
<1>1. <<s, sends[s]>> \in Message /\ accepted' = Append(accepted, <<s, sends[s]>>)
  BY MqAssumption DEF IInv, TypeOK, LockHeld, Sending, Message, Push
<1>2. alive /\ registered
  BY DEF IInv, LockHeld, Sending, CleanupOrder, TypeOK, Push
<1>3. mailboxPhase \in {"open", "stopping"}
  BY <1>2 DEF mailboxPhase
<1>4. taken' = taken /\ mailboxPhase' = mailboxPhase
  BY PhaseUnchanged DEF Push, workerVars, ownerVars
<1>5. QED
  BY <1>1, <1>3, <1>4, Zenon DEF MB!Accept

LEMMA ReceivePopTakes ==
    ASSUME IInv, ReceivePop
    PROVE  MB!Take
<1>1. alive
  BY DEF IInv, CleanupOrder, TypeOK, ReceivePop
<1>2. mailboxPhase # "closed"
  BY <1>1 DEF mailboxPhase
<1>3. /\ taken \in Seq(Message) /\ queue \in Seq(Message) /\ queue # <<>>
      /\ accepted = taken \o queue
  BY <1>1 DEF IInv, TypeOK, FifoIntact, ReceivePop
<1>4. (taken \o queue)[Len(taken) + 1] = Head(queue) /\ Len(taken) < Len(taken \o queue)
  BY <1>3
<1>5. MB!Pending
  BY <1>3, <1>4, Zenon DEF MB!Pending
<1>6. taken' = Append(taken, accepted[Len(taken) + 1])
  BY <1>3, <1>4, Zenon DEF ReceivePop
<1>7. accepted' = accepted /\ mailboxPhase' = mailboxPhase
  BY PhaseUnchanged DEF ReceivePop, ownerVars
<1>8. QED
  BY <1>2, <1>5, <1>6, <1>7, Zenon DEF MB!Take

LEMMA CloseRefines ==
    ASSUME IInv, RequestShutdown \/ Unregister \/ Destroy
    PROVE  MB!Stop \/ MB!Seal \/ MB!Close
<1> USE DEF IInv, CleanupOrder, TypeOK, ownerVars, workerVars
<1>1. accepted' = accepted /\ taken' = taken
  BY DEF RequestShutdown, Unregister, Destroy
<1>2. CASE RequestShutdown
  <2>1. mailboxPhase = "open" /\ mailboxPhase' = "stopping"
    BY <1>2 DEF RequestShutdown, mailboxPhase
  <2>2. QED
    BY <1>1, <2>1, Zenon DEF MB!Stop
<1>3. CASE Unregister
  <2>1. mailboxPhase = "stopping" /\ mailboxPhase' = "sealed"
    BY <1>3 DEF Unregister, mailboxPhase
  <2>2. QED
    BY <1>1, <2>1, Zenon DEF MB!Seal
<1>4. CASE Destroy
  <2>1. mailboxPhase = "sealed" /\ mailboxPhase' = "closed"
    BY <1>4 DEF Destroy, mailboxPhase
  <2>2. QED
    BY <1>1, <2>1, Zenon DEF MB!Close
<1>5. QED
  BY <1>2, <1>3, <1>4

LEMMA StepRefines == IInv /\ [Next]_vars => [MB!Next]_(MB!mailboxVars)
<1> SUFFICES ASSUME IInv, [Next]_vars PROVE [MB!Next]_(MB!mailboxVars)
  OBVIOUS
<1>1. ASSUME NEW s \in Senders, SenderStep(s) PROVE [MB!Next]_(MB!mailboxVars)
  <2>1. CASE Push(s)
    BY <2>1, PushAccepts DEF MB!Next
  <2>2. CASE Lookup(s) \/ Write(s)
    <3>1. UNCHANGED <<accepted, taken, alive, registered, shutdown>>
      BY <2>2 DEF Lookup, Write, workerVars, ownerVars
    <3>2. QED
      BY <3>1, PhaseUnchanged DEF MB!mailboxVars
  <2>3. QED
    BY <1>1, <2>1, <2>2 DEF SenderStep
<1>2. CASE WorkerStep
  <2>1. CASE ReceivePop
    BY <2>1, ReceivePopTakes DEF MB!Next
  <2>2. CASE ~ReceivePop
    <3>1. UNCHANGED <<accepted, taken, alive, registered, shutdown>>
      BY <1>2, <2>2 DEF WorkerStep, LoopTest, EpollReady, EpollTimeout, ClearEventfd,
         ReceiveClear, ReceiveNone, Handle, ownerVars
    <3>2. QED
      BY <3>1, PhaseUnchanged DEF MB!mailboxVars
  <2>3. QED
    BY <2>1, <2>2
<1>3. CASE RequestShutdown \/ Unregister \/ Destroy
  BY <1>3, CloseRefines DEF MB!Next
<1>4. CASE StopRunning \/ Join \/ CloseFds
  <2>1. UNCHANGED <<accepted, taken, alive, registered, shutdown>>
    BY <1>4 DEF StopRunning, Join, CloseFds, workerVars, ownerVars
  <2>2. QED
    BY <2>1, PhaseUnchanged DEF MB!mailboxVars
<1>5. CASE UNCHANGED vars
  <2>1. UNCHANGED <<accepted, taken, alive, registered, shutdown>>
    BY <1>5 DEF vars, workerVars, ownerVars
  <2>2. QED
    BY <2>1, PhaseUnchanged DEF MB!mailboxVars
<1>6. QED
  BY <1>1, <1>2, <1>3, <1>4, <1>5 DEF Next, CleanupStep

\* The inbox implements the safety part of the mailbox: it hands out the
\* messages in the order of acceptance, each once, and none after the close.
THEOREM MqImplementsMailbox == Spec => MB!SafeSpec
<1>1. Init => MB!Init
  BY DEF Init, MB!Init, mailboxPhase
<1>2. QED
  BY <1>1, StepRefines, Invariance, PTL DEF Spec, MB!SafeSpec

=============================================================================
