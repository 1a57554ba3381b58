------------------------------- MODULE PubSub -------------------------------
(***************************************************************************)
(* The publish/subscribe registry of src/dev: who is registered, who listens*)
(* to which publisher and event, who is in which multicast group, and how a *)
(* message is fanned out.                                                  *)
(*                                                                         *)
(* Lists hold clones of a subscriber made when it subscribed or joined: a   *)
(* module id with the inbox (mq and eventfd) it had then.  A module that    *)
(* goes away and registers again has another inbox, so a clone may be stale.*)
(* Every operation is one critical section of pubsub_mutex; a fan-out is    *)
(* spelled out delivery by delivery, because the senders of replies, the    *)
(* threads that register and the cleanup all contend for that mutex.        *)
(***************************************************************************)
EXTENDS Integers, Sequences, FiniteSets, SequencesExt

CONSTANTS
    Modules,             \* module ids, permanent or temporary
    Keys,                \* <<publisher, event>> pairs
    Groups,              \* multicast group ids
    Threads,             \* the threads that publish
    NoThread,            \* pubsub_mutex is free
    Nobody,              \* the owner of a group that does not exist
    MaxRegistrations,    \* how often one module registers
    MaxPosts             \* how many messages are published

ASSUME PubSubAssumption ==
    /\ NoThread \notin Threads
    /\ Nobody \notin Modules
    /\ MaxRegistrations \in Nat /\ MaxPosts \in Nat

\* nn_dev_pubsub_subscriber_t: the inbox is named by the number of the
\* registration that created it.
Subscriber == [id : Modules, mq : 1..MaxRegistrations]

VARIABLES
    inboxes,            \* per module, how many inboxes it has created
    live,               \* the inboxes that have not been destroyed
    registered_modules, \* per module, its current inbox, 0 when unregistered
    unicast_subss,      \* per key, the list of its subscribers
    multicast_groups,   \* per group, its owner and its members
    pubsub_mutex,       \* the thread that is fanning out, or NoThread
    fanout,             \* per thread, the message and who is still to get it
    posts,              \* how many messages have been published
    audience,           \* history: per message, whom it was published to
    inbox               \* history: what was put into each inbox

registryVars == <<registered_modules, unicast_subss, multicast_groups>>
inboxVars    == <<inboxes, live>>
postVars     == <<pubsub_mutex, fanout, posts, audience, inbox>>
vars         == <<inboxVars, registryVars, postVars>>

NoGroup == [owner |-> Nobody, members |-> <<>>]
Idle    == [msg |-> 0, rest |-> <<>>]

Init ==
    /\ inboxes = [m \in Modules |-> 0]
    /\ live = {}
    /\ registered_modules = [m \in Modules |-> 0]
    /\ unicast_subss = [k \in Keys |-> <<>>]
    /\ multicast_groups = [g \in Groups |-> NoGroup]
    /\ pubsub_mutex = NoThread
    /\ fanout = [t \in Threads |-> Idle]
    /\ posts = 0
    /\ audience = [n \in 1..MaxPosts |-> {}]
    /\ inbox = [r \in Subscriber |-> <<>>]

(***************************************************************************)
(* Lists of subscribers                                                    *)
(***************************************************************************)

\* find_subscriber_in_list: where the first clone of the module is, 0 if nowhere.
Find(list, m)   == SelectInSeq(list, LAMBDA r : r.id = m)
Listed(list, m) == Find(list, m) # 0

\* g_list_delete_link on what find_subscriber_in_list returned, if anything.
Unlisted(list, m) ==
    IF Listed(list, m) THEN RemoveAt(list, Find(list, m)) ELSE list

\* clone_subscriber and g_list_append, unless the module is listed already.
Enlist(list, m) ==
    IF Listed(list, m) THEN list
    ELSE Append(list, [id |-> m, mq |-> registered_modules[m]])

Unlocked == pubsub_mutex = NoThread

(***************************************************************************)
(* Registration                                                            *)
(***************************************************************************)

\* A module (or a query, for its temporary id) creates an inbox and registers
\* it.  An id that is registered already is refused.
Register(m) ==
    /\ Unlocked
    /\ registered_modules[m] = 0
    /\ inboxes[m] < MaxRegistrations
    /\ [id |-> m, mq |-> inboxes[m]] \notin live
    /\ inboxes' = [inboxes EXCEPT ![m] = @ + 1]
    /\ live' = live \cup {[id |-> m, mq |-> inboxes'[m]]}
    /\ registered_modules' = [registered_modules EXCEPT ![m] = inboxes'[m]]
    /\ UNCHANGED <<unicast_subss, multicast_groups, postVars>>

\* Mutant: the groups are forgotten.
UnregisterKeepsGroups(m) ==
    /\ Unlocked
    /\ registered_modules[m] # 0
    /\ registered_modules' = [registered_modules EXCEPT ![m] = 0]
    /\ unicast_subss' = [k \in Keys |-> Unlisted(unicast_subss[k], m)]
    /\ UNCHANGED <<inboxVars, multicast_groups, postVars>>

\* nn_dev_pubsub_unregister: out of the table, out of every list (which is
\* stolen from the hash table before it is edited) and out of every group; a
\* group the module owns stays.
Unregister(m) ==
    /\ Unlocked
    /\ registered_modules[m] # 0
    /\ registered_modules' = [registered_modules EXCEPT ![m] = 0]
    /\ unicast_subss' = [k \in Keys |-> Unlisted(unicast_subss[k], m)]
    /\ multicast_groups' = [g \in Groups |->
                              [multicast_groups[g] EXCEPT !.members = Unlisted(@, m)]]
    /\ UNCHANGED <<inboxVars, postVars>>

\* The owner frees its inbox after unregistering; it does not take pubsub_mutex.
DestroyInbox(m) ==
    /\ registered_modules[m] = 0
    /\ [id |-> m, mq |-> inboxes[m]] \in live
    /\ live' = live \ {[id |-> m, mq |-> inboxes[m]]}
    /\ UNCHANGED <<inboxes, registryVars, postVars>>

(***************************************************************************)
(* Subscriptions and groups                                                *)
(***************************************************************************)

\* Mutant: the check for an existing subscription is gone.
SubscribeTwice(m, k) ==
    /\ Unlocked
    /\ registered_modules[m] # 0
    /\ Len(unicast_subss[k]) < 3
    /\ unicast_subss' = [unicast_subss EXCEPT
                           ![k] = Append(@, [id |-> m, mq |-> registered_modules[m]])]
    /\ UNCHANGED <<inboxVars, registered_modules, multicast_groups, postVars>>

Subscribe(m, k) ==
    /\ Unlocked
    /\ registered_modules[m] # 0
    /\ unicast_subss' = [unicast_subss EXCEPT ![k] = Enlist(@, m)]
    /\ UNCHANGED <<inboxVars, registered_modules, multicast_groups, postVars>>

CreateGroup(m, g) ==
    /\ Unlocked
    /\ multicast_groups[g].owner = Nobody
    /\ multicast_groups' = [multicast_groups EXCEPT ![g] = [NoGroup EXCEPT !.owner = m]]
    /\ UNCHANGED <<inboxVars, registered_modules, unicast_subss, postVars>>

\* Only the owner can destroy a group.
DestroyGroup(m, g) ==
    /\ Unlocked
    /\ multicast_groups[g].owner = m
    /\ multicast_groups' = [multicast_groups EXCEPT ![g] = NoGroup]
    /\ UNCHANGED <<inboxVars, registered_modules, unicast_subss, postVars>>

\* Anyone registered may join a group that exists.
JoinGroup(m, g) ==
    /\ Unlocked
    /\ registered_modules[m] # 0
    /\ multicast_groups[g].owner # Nobody
    /\ multicast_groups' = [multicast_groups EXCEPT ![g].members = Enlist(@, m)]
    /\ UNCHANGED <<inboxVars, registered_modules, unicast_subss, postVars>>

LeaveGroup(m, g) ==
    /\ Unlocked
    /\ multicast_groups[g].owner # Nobody
    /\ multicast_groups' = [multicast_groups EXCEPT ![g].members = Unlisted(@, m)]
    /\ UNCHANGED <<inboxVars, registered_modules, unicast_subss, postVars>>

(***************************************************************************)
(* Sending: one thread at a time walks one list under pubsub_mutex          *)
(***************************************************************************)

Begin(t, list) ==
    /\ Unlocked
    /\ posts < MaxPosts
    /\ list # <<>>
    /\ posts' = posts + 1
    /\ audience' = [audience EXCEPT ![posts'] = Range(list)]
    /\ fanout' = [fanout EXCEPT ![t] = [msg |-> posts', rest |-> list]]
    /\ pubsub_mutex' = t
    /\ UNCHANGED <<inboxVars, registryVars, inbox>>

Publish(t, k)     == Begin(t, unicast_subss[k])
Multicast(t, g)   == Begin(t, multicast_groups[g].members)
PublishToModule(t, k, m) ==
    /\ Listed(unicast_subss[k], m)
    /\ Begin(t, <<unicast_subss[k][Find(unicast_subss[k], m)]>>)
SendResponse(t, m) ==
    /\ registered_modules[m] # 0
    /\ Begin(t, <<[id |-> m, mq |-> registered_modules[m]]>>)

\* Mutant: the mutex is dropped after the first delivery of a fan-out.
DeliverUnlocked(t) ==
    LET f == fanout[t] IN
    /\ f.rest # <<>>
    /\ inbox' = [inbox EXCEPT ![Head(f.rest)] = Append(@, f.msg)]
    /\ fanout' = [fanout EXCEPT ![t].rest = Tail(f.rest)]
    /\ pubsub_mutex' = NoThread
    /\ UNCHANGED <<inboxVars, registryVars, posts, audience>>

\* send_to_subscriber: a copy of the message goes into the next inbox.
Deliver(t) ==
    LET f == fanout[t] IN
    /\ f.rest # <<>>
    /\ inbox' = [inbox EXCEPT ![Head(f.rest)] = Append(@, f.msg)]
    /\ fanout' = [fanout EXCEPT ![t].rest = Tail(f.rest)]
    /\ UNCHANGED <<inboxVars, registryVars, pubsub_mutex, posts, audience>>

EndFanout(t) ==
    /\ pubsub_mutex = t
    /\ fanout[t].rest = <<>>
    /\ fanout' = [fanout EXCEPT ![t] = Idle]
    /\ pubsub_mutex' = NoThread
    /\ UNCHANGED <<inboxVars, registryVars, posts, audience, inbox>>

------------------------------------------------------------------------------

Registration(m) == Register(m) \/ Unregister(m) \/ DestroyInbox(m)

Membership(m) ==
    \/ \E k \in Keys : Subscribe(m, k)
    \/ \E g \in Groups : \/ CreateGroup(m, g) \/ DestroyGroup(m, g)
                         \/ JoinGroup(m, g)   \/ LeaveGroup(m, g)

Sending(t) ==
    \/ \E k \in Keys : Publish(t, k)
    \/ \E g \in Groups : Multicast(t, g)
    \/ \E k \in Keys, m \in Modules : PublishToModule(t, k, m)
    \/ \E m \in Modules : SendResponse(t, m)
    \/ Deliver(t)
    \/ EndFanout(t)

\* nn_dev_pubsub_unsubscribe, which nothing calls, is left out: it edits a list
\* that the hash table then frees under the subscribers that remain on it.
Next == \/ \E m \in Modules : Registration(m) \/ Membership(m)
        \/ \E t \in Threads : Sending(t)

Spec == Init /\ [][Next]_vars

------------------------------------------------------------------------------
(***************************************************************************)
(* Properties                                                              *)
(***************************************************************************)

\* Every clone in every list names the inbox its module is registered with now,
\* and that inbox exists: unregister leaves no stale clone anywhere, so a module
\* that comes back is never confused with the one that left.
CurrentAndLive(r) == registered_modules[r.id] = r.mq /\ r \in live

NoStaleClone ==
    /\ \A k \in Keys : \A r \in Range(unicast_subss[k]) : CurrentAndLive(r)
    /\ \A g \in Groups : \A r \in Range(multicast_groups[g].members) : CurrentAndLive(r)

\* When no fan-out is under way each message has reached everyone it was
\* published to exactly once, and nobody else (pubsub.h: "All modules that
\* subscribed ... will receive the message", "Only the specified
\* target_module_id", "All members of the group will receive a copy").
Copies(n, r) == Cardinality({i \in DOMAIN inbox[r] : inbox[r][i] = n})

DeliveredExactlyOnce ==
    Unlocked => \A n \in 1..posts, r \in Subscriber :
                    Copies(n, r) = IF r \in audience[n] THEN 1 ELSE 0

\* Two receivers of the same two messages see them in the same order.
SameOrder ==
    \A r1, r2 \in Subscriber :
        \A i1, j1 \in DOMAIN inbox[r1], i2, j2 \in DOMAIN inbox[r2] :
            inbox[r1][i1] = inbox[r2][i2] /\ inbox[r1][j1] = inbox[r2][j2]
                => (i1 < j1 <=> i2 < j2)

\* Once a module has unregistered, nothing more arrives in the inbox it had.
NoLateDelivery ==
    [][\A r \in Subscriber :
          inbox'[r] # inbox[r] => registered_modules[r.id] = r.mq]_vars
==============================================================================
