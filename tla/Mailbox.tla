------------------------------- MODULE Mailbox -------------------------------
(***************************************************************************)
(* What a module's inbox promises to the rest of the daemon: messages are   *)
(* taken in the order in which they were accepted, none is taken twice, a   *)
(* message accepted while the daemon is running is eventually taken, and    *)
(* nothing is accepted or taken once the inbox has been closed.  Module     *)
(* ModuleMq shows that the queue, the eventfd and the worker thread of      *)
(* src/dev implement it.                                                    *)
(***************************************************************************)
EXTENDS Integers, Sequences

CONSTANT Message       \* the messages that can be posted

VARIABLES accepted,    \* every message accepted so far, in order
          taken,       \* the messages the worker has taken, in order
          phase        \* "open" -> "stopping" -> "sealed" -> "closed"

mailboxVars == <<accepted, taken, phase>>

Pending == Len(taken) < Len(accepted)

Init == accepted = <<>> /\ taken = <<>> /\ phase = "open"

\* A message is accepted until the inbox is sealed.
Accept == /\ phase \in {"open", "stopping"}
          /\ \E m \in Message : accepted' = Append(accepted, m)
          /\ UNCHANGED <<taken, phase>>

\* The oldest message not taken yet is taken.
Take == /\ phase # "closed"
        /\ Pending
        /\ taken' = Append(taken, accepted[Len(taken) + 1])
        /\ UNCHANGED <<accepted, phase>>

\* The three stages of closing; what is pending when it closes is dropped.
Stop  == phase = "open"     /\ phase' = "stopping" /\ UNCHANGED <<accepted, taken>>
Seal  == phase = "stopping" /\ phase' = "sealed"   /\ UNCHANGED <<accepted, taken>>
Close == phase = "sealed"   /\ phase' = "closed"   /\ UNCHANGED <<accepted, taken>>

Next == Accept \/ Take \/ Stop \/ Seal \/ Close

\* An inbox that stays open keeps taking what it accepted; one that is being
\* closed owes its senders nothing.
Fairness == WF_mailboxVars(phase = "open" /\ Take)

SafeSpec == Init /\ [][Next]_mailboxVars
Spec     == SafeSpec /\ Fairness
==============================================================================
