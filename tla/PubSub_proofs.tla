---------------------------- MODULE PubSub_proofs ----------------------------
(***************************************************************************)
(* The registry never confuses a module with one that left under the same   *)
(* id, and a message that is published reaches its audience once and in the *)
(* order of publication, for any number of modules, threads, subscriptions  *)
(* and messages.                                                           *)
(*                                                                         *)
(* Lists and fan-outs are clean: they name each module once, with the inbox *)
(* it is registered with.  While a thread fans out it holds pubsub_mutex,   *)
(* nobody can unregister, and so what is left of the fan-out stays clean.   *)
(* Who is still to get the last message is the rest of that fan-out; all    *)
(* others of its audience have it.                                          *)
(***************************************************************************)
EXTENDS PubSub, SequenceTheorems, FiniteSetTheorems, TLAPS

Message == 1..MaxPosts

Group   == [owner : Modules \cup {Nobody}, members : Seq(Subscriber)]

TypeOK ==
    /\ inboxes \in [Modules -> 0..MaxRegistrations]
    /\ live \subseteq Subscriber
    /\ registered_modules \in [Modules -> 0..MaxRegistrations]
    /\ unicast_subss \in [Keys -> Seq(Subscriber)]
    /\ multicast_groups \in [Groups -> Group]
    /\ pubsub_mutex \in Threads \cup {NoThread}
    /\ fanout \in [Threads -> [msg : Nat, rest : Seq(Subscriber)]]
    /\ posts \in 0..MaxPosts
    /\ audience \in [Message -> SUBSET Subscriber]
    /\ inbox \in [Subscriber -> Seq(Message)]

\* Who is registered has an inbox, the last one it created.
InboxKept ==
    \A m \in Modules : registered_modules[m] # 0 =>
        /\ registered_modules[m] = inboxes[m]
        /\ [id |-> m, mq |-> inboxes[m]] \in live

\* A list names each module once, with the inbox it is registered with.
Distinct(list) == \A i, j \in DOMAIN list : list[i].id = list[j].id => i = j
Clean(list)    == Distinct(list) /\ \A i \in DOMAIN list : CurrentAndLive(list[i])

ListsClean ==
    /\ \A k \in Keys : Clean(unicast_subss[k])
    /\ \A g \in Groups : Clean(multicast_groups[g].members)

\* Only the holder of the mutex is sending, and what it sends is the last message.
Fanning ==
    \A t \in Threads :
        IF t = pubsub_mutex
        THEN fanout[t].msg = posts /\ posts # 0 /\ Clean(fanout[t].rest)
        ELSE fanout[t].rest = <<>>

\* r is still to get message n.
Waiting(n, r) ==
    n = posts /\ \E t \in Threads : \E i \in DOMAIN fanout[t].rest : fanout[t].rest[i] = r

\* Of the messages published, an inbox has got those it was to get, but not
\* the one it waits for ...
Delivered ==
    /\ \A n \in 1..posts, r \in Subscriber :
         Waiting(n, r) => r \in audience[n]
    /\ \A n \in 1..posts, r \in Subscriber :
         (\E i \in DOMAIN inbox[r] : inbox[r][i] = n) <=> r \in audience[n] /\ ~Waiting(n, r)
    /\ \A r \in Subscriber : \A i \in DOMAIN inbox[r] : inbox[r][i] <= posts

\* ... and each of them once, in the order of publication.
InOrder ==
    \A r \in Subscriber : \A i, j \in DOMAIN inbox[r] : i < j => inbox[r][i] < inbox[r][j]

IInv == TypeOK /\ InboxKept /\ ListsClean /\ Fanning /\ Delivered /\ InOrder

------------------------------------------------------------------------------
(***************************************************************************)
(* The lists                                                               *)
(***************************************************************************)

\* find_subscriber_in_list finds the one clone of a module.
LEMMA FindOne ==
    ASSUME NEW list \in Seq(Subscriber), Distinct(list), NEW m
    PROVE  /\ Find(list, m) = 0 => \A i \in DOMAIN list : list[i].id # m
           /\ Find(list, m) # 0 => /\ Find(list, m) \in DOMAIN list
                                  /\ list[Find(list, m)].id = m
  <1> DEFINE I == {i \in 1..Len(list) : list[i].id = m}
  <1>1. Find(list, m) = IF I # {} THEN Min(I) ELSE 0
    BY DEF Find, SelectInSeq
  <1>2. DOMAIN list = 1..Len(list) /\ Len(list) \in Nat
    OBVIOUS
  <1>3. ASSUME NEW i \in I PROVE Min(I) = i
    <2>1. I = {i}
      BY <1>2, <1>3 DEF Distinct
    <2>2. i \in Nat
      BY <1>2, <1>3
    <2>3. \A x \in {i} : x = i
      OBVIOUS
    <2> QED BY <2>1, <2>2, <2>3 DEF Min
  <1>4. CASE I = {}
    BY <1>1, <1>2, <1>4
  <1>5. CASE I # {}
    <2>1. PICK i \in I : TRUE
      BY <1>5
    <2>2. Find(list, m) = i
      BY <1>1, <1>3, <1>5
    <2> QED BY <1>2, <2>1, <2>2
  <1> QED BY <1>4, <1>5

\* What g_list_delete_link leaves: the clones of the other modules.
LEMMA UnlistedOthers ==
    ASSUME NEW list \in Seq(Subscriber), Distinct(list), NEW m
    PROVE  /\ Unlisted(list, m) \in Seq(Subscriber)
           /\ Distinct(Unlisted(list, m))
           /\ \A j \in DOMAIN Unlisted(list, m) :
                /\ Unlisted(list, m)[j].id # m
                /\ \E i \in DOMAIN list : list[i] = Unlisted(list, m)[j]
  <1> DEFINE f == Find(list, m)
             L == Unlisted(list, m)
  <1>1. CASE f = 0
    <2>1. L = list
      BY <1>1 DEF Unlisted, Listed
    <2> QED BY <1>1, <2>1, FindOne
  <1>2. CASE f # 0
    <2>1. f \in 1..Len(list) /\ list[f].id = m /\ Len(list) \in Nat
      BY <1>2, FindOne
    <2> DEFINE s == SubSeq(list, 1, f - 1)
               t == SubSeq(list, f + 1, Len(list))
    <2>2. L = s \o t
      BY <1>2 DEF Unlisted, Listed, RemoveAt
    <2> HIDE DEF f
    <2>3. s \in Seq(Subscriber) /\ Len(s) = f - 1 /\ \A i \in 1..(f - 1) : s[i] = list[i]
      BY <2>1
    <2>4. t \in Seq(Subscriber) /\ Len(t) = Len(list) - f
          /\ \A i \in 1..(Len(list) - f) : t[i] = list[i + f]
      BY <2>1
    <2> HIDE DEF s, t, L
    <2>5. L \in Seq(Subscriber) /\ Len(L) = Len(list) - 1
      BY <2>1, <2>2, <2>3, <2>4
    <2>6. \A j \in 1..(Len(list) - 1) : L[j] = list[IF j < f THEN j ELSE j + 1]
      BY <2>1, <2>2, <2>3, <2>4
    <2>7. DOMAIN L = 1..(Len(list) - 1) /\ DOMAIN list = 1..Len(list)
      BY <2>5, <2>1
    <2>8. \A j \in DOMAIN L : L[j].id # m
      BY <2>1, <2>6, <2>7 DEF Distinct
    <2>9. Distinct(L)
      <3> SUFFICES ASSUME NEW i \in DOMAIN L, NEW j \in DOMAIN L, L[i].id = L[j].id
                   PROVE  i = j
        BY DEF Distinct
      <3> DEFINE p(n) == IF n < f THEN n ELSE n + 1
      <3>1. p(i) \in DOMAIN list /\ p(j) \in DOMAIN list
        BY <2>1, <2>7
      <3>2. list[p(i)].id = list[p(j)].id
        BY <2>6, <2>7
      <3>3. p(i) = p(j)
        BY <3>1, <3>2, Zenon DEF Distinct
      <3> QED BY <2>1, <2>7, <3>3
    <2>10. \A j \in DOMAIN L : \E i \in DOMAIN list : list[i] = L[j]
      BY <2>1, <2>6, <2>7
    <2> QED BY <2>5, <2>8, <2>9, <2>10 DEF L
  <1> QED BY <1>1, <1>2

\* A clone made now of a module that is registered is a good one.
LEMMA EnlistClean ==
    ASSUME TypeOK, InboxKept,
           NEW list \in Seq(Subscriber), Clean(list),
           NEW m \in Modules, registered_modules[m] # 0
    PROVE  Enlist(list, m) \in Seq(Subscriber) /\ Clean(Enlist(list, m))
  <1> DEFINE r == [id |-> m, mq |-> registered_modules[m]]
             L == Enlist(list, m)
  <1>1. CASE Listed(list, m)
    BY <1>1 DEF Enlist
  <1>2. CASE ~Listed(list, m)
    <2>1. L = Append(list, r)
      BY <1>2 DEF Enlist
    <2>2. r \in Subscriber /\ r.id = m /\ CurrentAndLive(r)
      BY PubSubAssumption DEF TypeOK, InboxKept, Subscriber, CurrentAndLive
    <2>3. \A i \in DOMAIN list : list[i].id # m
      BY <1>2, FindOne DEF Listed, Clean
    <2> HIDE DEF r, L
    <2>4. /\ L \in Seq(Subscriber) /\ Len(list) \in Nat /\ DOMAIN list = 1..Len(list)
          /\ DOMAIN L = 1..(Len(list) + 1) /\ L[Len(list) + 1] = r
          /\ \A i \in 1..Len(list) : L[i] = list[i]
      BY <2>1, <2>2
    <2>5. \A i \in DOMAIN L : CurrentAndLive(L[i])
      BY <2>2, <2>4 DEF Clean
    <2>6. Distinct(L)
      <3> SUFFICES ASSUME NEW i \in DOMAIN L, NEW j \in DOMAIN L, L[i].id = L[j].id
                   PROVE  i = j
        BY DEF Distinct
      <3>1. CASE i \in DOMAIN list /\ j \in DOMAIN list
        <4>1. list[i].id = list[j].id
          BY <2>4, <3>1
        <4> QED BY <3>1, <4>1, Zenon DEF Clean, Distinct
      <3>2. CASE i = Len(list) + 1 \/ j = Len(list) + 1
        BY <2>2, <2>3, <2>4, <3>2
      <3> QED BY <2>4, <3>1, <3>2
    <2> QED BY <2>4, <2>5, <2>6 DEF Clean, L
  <1> QED BY <1>1, <1>2

\* Every list of the registry is one of subscribers.
LEMMA ListTypes ==
    ASSUME TypeOK
    PROVE  /\ \A k \in Keys : unicast_subss[k] \in Seq(Subscriber)
           /\ \A g \in Groups : /\ multicast_groups[g].members \in Seq(Subscriber)
                               /\ multicast_groups[g].owner \in Modules \cup {Nobody}
  BY DEF TypeOK, Group

\* A list in use stays clean while its clones stay good ones.
LEMMA CleanStays ==
    ASSUME NEW list \in Seq(Subscriber), Clean(list),
           \A r \in Subscriber : CurrentAndLive(r) => CurrentAndLive(r)'
    PROVE  Clean(list)'
  <1>1. \A i \in DOMAIN list : list[i] \in Subscriber
    OBVIOUS
  <1>2. \A i \in DOMAIN list : CurrentAndLive(list[i])'
    BY <1>1 DEF Clean, CurrentAndLive
  <1> QED BY <1>2 DEF Clean, Distinct, CurrentAndLive

LEMMA ListsStay ==
    ASSUME TypeOK, ListsClean, UNCHANGED <<unicast_subss, multicast_groups>>,
           \A r \in Subscriber : CurrentAndLive(r) => CurrentAndLive(r)'
    PROVE  ListsClean'
  <1>1. \A k \in Keys : Clean(unicast_subss[k])'
    BY ListTypes, CleanStays DEF ListsClean, Clean, CurrentAndLive, Distinct
  <1>2. \A g \in Groups : Clean(multicast_groups[g].members)'
    BY ListTypes, CleanStays DEF ListsClean, Clean, CurrentAndLive, Distinct
  <1> QED BY <1>1, <1>2 DEF ListsClean

\* While nobody sends, a change of the registry is nothing to the messages.
LEMMA PostsKept ==
    ASSUME IInv, Unlocked, UNCHANGED postVars
    PROVE  Fanning' /\ Delivered' /\ InOrder'
  <1> USE DEF IInv, postVars
  <1>1. Fanning'
    BY PubSubAssumption DEF Fanning, Unlocked
  <1>2. Delivered'
    BY DEF Delivered, Waiting
  <1>3. InOrder'
    BY DEF InOrder
  <1> QED BY <1>1, <1>2, <1>3

------------------------------------------------------------------------------
(***************************************************************************)
(* The steps                                                               *)
(***************************************************************************)

LEMMA InitInv == Init => IInv
  <1> SUFFICES ASSUME Init PROVE IInv
    OBVIOUS
  <1> USE PubSubAssumption DEF Init
  <1>1. TypeOK
    <2>1. fanout \in [Threads -> [msg : Nat, rest : Seq(Subscriber)]]
      BY DEF Idle
    <2>2. multicast_groups \in [Groups -> Group]
      BY DEF NoGroup, Group
    <2>3. audience \in [Message -> SUBSET Subscriber] /\ inbox \in [Subscriber -> Seq(Message)]
      BY DEF Message
    <2> QED BY <2>1, <2>2, <2>3 DEF TypeOK
  <1>2. InboxKept
    BY DEF InboxKept
  <1>3. ListsClean
    BY DEF ListsClean, Clean, Distinct, NoGroup
  <1>4. Fanning
    BY DEF Fanning, Idle
  <1>5. Delivered
    BY DEF Delivered, Waiting
  <1>6. InOrder
    BY DEF InOrder
  <1> QED BY <1>1, <1>2, <1>3, <1>4, <1>5, <1>6 DEF IInv

\* A new registration: nobody is listed under an id that is not registered.
LEMMA RegisterInv ==
    ASSUME IInv, NEW m \in Modules, Register(m)
    PROVE  IInv'
  <1> USE PubSubAssumption DEF IInv
  <1>1. /\ inboxes' = [inboxes EXCEPT ![m] = inboxes[m] + 1]
        /\ registered_modules' = [registered_modules EXCEPT ![m] = inboxes[m] + 1]
        /\ live' = live \cup {[id |-> m, mq |-> inboxes[m] + 1]}
        /\ inboxes[m] + 1 \in 1..MaxRegistrations
    BY DEF Register, TypeOK
  <1>2. TypeOK'
    <2>1. inboxes' \in [Modules -> 0..MaxRegistrations]
      BY <1>1 DEF TypeOK
    <2>2. registered_modules' \in [Modules -> 0..MaxRegistrations]
      BY <1>1 DEF TypeOK
    <2>3. live' \subseteq Subscriber
      BY <1>1 DEF TypeOK, Subscriber
    <2> QED BY <2>1, <2>2, <2>3 DEF Register, TypeOK, postVars
  <1>3. InboxKept'
    BY <1>1 DEF InboxKept, TypeOK
  <1>4. \A r \in Subscriber : CurrentAndLive(r) => CurrentAndLive(r)'
    BY <1>1 DEF Register, CurrentAndLive, TypeOK, Subscriber
  <1>5. ListsClean'
    BY <1>4, ListsStay DEF Register
  <1>6. Fanning' /\ Delivered' /\ InOrder'
    BY PostsKept DEF Register
  <1> QED BY <1>2, <1>3, <1>5, <1>6

\* Unregister takes the module out of every list: what is left is current.
LEMMA UnregisterInv ==
    ASSUME IInv, NEW m \in Modules, Unregister(m)
    PROVE  IInv'
  <1> USE PubSubAssumption DEF IInv
  <1>1. \A r \in Subscriber : CurrentAndLive(r) /\ r.id # m => CurrentAndLive(r)'
    BY DEF Unregister, CurrentAndLive, TypeOK, Subscriber, inboxVars
  <1>2. ASSUME NEW list \in Seq(Subscriber), Clean(list)
        PROVE  Unlisted(list, m) \in Seq(Subscriber) /\ Clean(Unlisted(list, m))'
    <2>1. /\ Unlisted(list, m) \in Seq(Subscriber)
          /\ Distinct(Unlisted(list, m))
          /\ \A j \in DOMAIN Unlisted(list, m) :
                /\ Unlisted(list, m)[j].id # m
                /\ \E i \in DOMAIN list : list[i] = Unlisted(list, m)[j]
      BY <1>2, UnlistedOthers DEF Clean
    <2>2. \A i \in DOMAIN list : list[i] \in Subscriber /\ CurrentAndLive(list[i])
      BY <1>2 DEF Clean
    <2>3. \A j \in DOMAIN Unlisted(list, m) : CurrentAndLive(Unlisted(list, m)[j])'
      BY <1>1, <2>1, <2>2 DEF CurrentAndLive
    <2> QED BY <2>1, <2>3 DEF Clean, Distinct, CurrentAndLive
  <1>3. TypeOK'
    <2>1. unicast_subss' \in [Keys -> Seq(Subscriber)]
      BY <1>2, ListTypes DEF Unregister, ListsClean
    <2>2. multicast_groups' \in [Groups -> Group]
      BY <1>2, ListTypes DEF Unregister, ListsClean, TypeOK, Group
    <2> QED BY <2>1, <2>2 DEF Unregister, TypeOK, inboxVars, postVars
  <1>4. InboxKept'
    BY DEF Unregister, InboxKept, TypeOK, inboxVars
  <1>5. ListsClean'
    <2>1. \A k \in Keys : Clean(unicast_subss[k])'
      <3> TAKE k \in Keys
      <3>1. unicast_subss'[k] = Unlisted(unicast_subss[k], m)
        BY DEF Unregister
      <3>2. unicast_subss[k] \in Seq(Subscriber) /\ Clean(unicast_subss[k])
        BY ListTypes DEF ListsClean
      <3> QED BY <1>2, <3>1, <3>2 DEF Clean, Distinct, CurrentAndLive
    <2>2. \A g \in Groups : Clean(multicast_groups[g].members)'
      <3> TAKE g \in Groups
      <3>1. multicast_groups'[g].members = Unlisted(multicast_groups[g].members, m)
        BY DEF Unregister, TypeOK, Group
      <3>2. multicast_groups[g].members \in Seq(Subscriber) /\ Clean(multicast_groups[g].members)
        BY ListTypes DEF ListsClean
      <3> QED BY <1>2, <3>1, <3>2 DEF Clean, Distinct, CurrentAndLive
    <2> QED BY <2>1, <2>2 DEF ListsClean
  <1>6. Fanning' /\ Delivered' /\ InOrder'
    BY PostsKept DEF Unregister
  <1> QED BY <1>3, <1>4, <1>5, <1>6

\* The inbox that is freed is one of a module that is not registered.
LEMMA DestroyInboxInv ==
    ASSUME IInv, NEW m \in Modules, DestroyInbox(m)
    PROVE  IInv'
  <1> USE PubSubAssumption DEF IInv
  <1>1. UNCHANGED <<inboxes, registered_modules, unicast_subss, multicast_groups>>
        /\ UNCHANGED <<pubsub_mutex, fanout, posts, audience, inbox>>
        /\ registered_modules[m] = 0 /\ live' = live \ {[id |-> m, mq |-> inboxes[m]]}
    BY DEF DestroyInbox, registryVars, postVars
  <1>2. TypeOK'
    BY <1>1 DEF TypeOK
  <1>3. InboxKept'
    BY <1>1 DEF InboxKept, TypeOK
  <1>4. \A r \in Subscriber : CurrentAndLive(r) => CurrentAndLive(r)'
    BY <1>1 DEF CurrentAndLive, TypeOK, Subscriber
  <1>5. ListsClean'
    BY <1>1, <1>4, ListsStay
  <1>6. Fanning'
    <2> SUFFICES ASSUME NEW t \in Threads, t = pubsub_mutex
                 PROVE  Clean(fanout[t].rest)'
      BY <1>1 DEF Fanning
    <2>1. fanout[t].rest \in Seq(Subscriber) /\ Clean(fanout[t].rest)
      BY DEF Fanning, TypeOK
    <2> QED BY <1>1, <1>4, <2>1, CleanStays DEF Clean, Distinct, CurrentAndLive
  <1>7. Delivered'
    BY <1>1 DEF Delivered, Waiting
  <1>8. InOrder'
    BY <1>1 DEF InOrder
  <1> QED BY <1>2, <1>3, <1>5, <1>6, <1>7, <1>8

LEMMA SubscribeInv ==
    ASSUME IInv, NEW m \in Modules, NEW k \in Keys, Subscribe(m, k)
    PROVE  IInv'
  <1> USE PubSubAssumption DEF IInv
  <1>1. /\ UNCHANGED <<inboxes, live, registered_modules, multicast_groups>>
        /\ UNCHANGED <<pubsub_mutex, fanout, posts, audience, inbox>>
        /\ registered_modules[m] # 0 /\ Unlocked
        /\ unicast_subss' = [unicast_subss EXCEPT ![k] = Enlist(unicast_subss[k], m)]
    BY DEF Subscribe, inboxVars, postVars
  <1>2. Enlist(unicast_subss[k], m) \in Seq(Subscriber) /\ Clean(Enlist(unicast_subss[k], m))
    BY <1>1, EnlistClean, ListTypes DEF ListsClean
  <1> HIDE DEF IInv
  <1>3. TypeOK'
    BY <1>1, <1>2 DEF TypeOK, IInv
  <1>4. InboxKept'
    BY <1>1 DEF InboxKept, IInv
  <1>5. ListsClean'
    <2>1. \A j \in Keys : unicast_subss'[j] = IF j = k THEN Enlist(unicast_subss[k], m)
                                                      ELSE unicast_subss[j]
      BY <1>1 DEF TypeOK, IInv
    <2>2. \A j \in Keys : Clean(unicast_subss[j])'
      BY <1>1, <1>2, <2>1 DEF ListsClean, Clean, Distinct, CurrentAndLive, IInv
    <2> QED BY <1>1, <2>2 DEF ListsClean, Clean, Distinct, CurrentAndLive, IInv
  <1>6. Fanning' /\ Delivered' /\ InOrder'
    BY <1>1, PostsKept DEF postVars
  <1> QED BY <1>3, <1>4, <1>5, <1>6 DEF IInv

\* A group gets an owner, loses it or changes its members.
LEMMA GroupInv ==
    ASSUME IInv, Unlocked, NEW g \in Groups,
           NEW group \in Group, Clean(group.members),
           multicast_groups' = [multicast_groups EXCEPT ![g] = group],
           UNCHANGED <<inboxVars, registered_modules, unicast_subss, postVars>>
    PROVE  IInv'
  <1> USE DEF IInv
  <1>1. UNCHANGED <<inboxes, live, registered_modules, unicast_subss>>
        /\ UNCHANGED <<pubsub_mutex, fanout, posts, audience, inbox>>
    BY DEF inboxVars, postVars
  <1>2. TypeOK'
    BY <1>1 DEF TypeOK
  <1>3. InboxKept'
    BY <1>1 DEF InboxKept
  <1>4. ListsClean'
    <2>1. \A h \in Groups : multicast_groups'[h].members =
                               IF h = g THEN group.members ELSE multicast_groups[h].members
      BY DEF TypeOK
    <2>2. \A h \in Groups : Clean(multicast_groups[h].members)'
      BY <1>1, <2>1 DEF ListsClean, Clean, Distinct, CurrentAndLive
    <2> QED BY <1>1, <2>2 DEF ListsClean, Clean, Distinct, CurrentAndLive
  <1>5. Fanning' /\ Delivered' /\ InOrder'
    BY PostsKept
  <1> QED BY <1>2, <1>3, <1>4, <1>5

LEMMA MembershipInv ==
    ASSUME IInv, NEW m \in Modules, Membership(m)
    PROVE  IInv'
  <1>1. CASE \E k \in Keys : Subscribe(m, k)
    BY <1>1, SubscribeInv
  <1>2. ASSUME NEW g \in Groups,
               CreateGroup(m, g) \/ DestroyGroup(m, g) \/ JoinGroup(m, g) \/ LeaveGroup(m, g)
        PROVE  IInv'
    <2>1. multicast_groups[g] \in Group /\ Clean(multicast_groups[g].members)
      BY DEF IInv, TypeOK, ListsClean
    <2>2. <<>> \in Seq(Subscriber) /\ Clean(<<>>)
      BY DEF Clean, Distinct
    <2>3. CASE CreateGroup(m, g)
      <3> DEFINE new == [NoGroup EXCEPT !.owner = m]
      <3>1. NoGroup \in Group /\ NoGroup.members = <<>>
        BY DEF NoGroup, Group
      <3>2. new \in Group /\ new.members = <<>>
        BY <3>1 DEF Group
      <3> QED BY <2>2, <2>3, <3>2, GroupInv DEF CreateGroup
    <2>4. CASE DestroyGroup(m, g)
      <3>1. NoGroup \in Group /\ NoGroup.members = <<>>
        BY DEF NoGroup, Group
      <3> QED BY <2>2, <2>4, <3>1, GroupInv DEF DestroyGroup
    <2>5. CASE JoinGroup(m, g)
      <3> DEFINE list == Enlist(multicast_groups[g].members, m)
                 new  == [multicast_groups[g] EXCEPT !.members = list]
      <3>1. list \in Seq(Subscriber) /\ Clean(list)
        BY <2>1, <2>5, EnlistClean DEF JoinGroup, IInv, Group
      <3>2. new \in Group /\ new.members = list
        BY <2>1, <3>1 DEF Group
      <3>3. multicast_groups' = [multicast_groups EXCEPT ![g] = new]
        BY <2>5 DEF JoinGroup
      <3> HIDE DEF list, new
      <3> QED BY <2>5, <3>1, <3>2, <3>3, GroupInv DEF JoinGroup
    <2>6. CASE LeaveGroup(m, g)
      <3> DEFINE list == Unlisted(multicast_groups[g].members, m)
                 new  == [multicast_groups[g] EXCEPT !.members = list]
      <3>1. list \in Seq(Subscriber) /\ Clean(list)
        <4>1. list \in Seq(Subscriber) /\ Distinct(list)
          BY <2>1, UnlistedOthers DEF Clean, Group
        <4>2. \A j \in DOMAIN list : CurrentAndLive(list[j])
          BY <2>1, UnlistedOthers DEF Clean, Group
        <4> QED BY <4>1, <4>2 DEF Clean
      <3>2. new \in Group /\ new.members = list
        BY <2>1, <3>1 DEF Group
      <3>3. multicast_groups' = [multicast_groups EXCEPT ![g] = new]
        BY <2>6 DEF LeaveGroup
      <3> HIDE DEF list, new
      <3> QED BY <2>6, <3>1, <3>2, <3>3, GroupInv DEF LeaveGroup
    <2> QED BY <1>2, <2>3, <2>4, <2>5, <2>6
  <1> QED BY <1>1, <1>2 DEF Membership

\* A fan-out begins: everyone on the list waits for a message nobody has.
LEMMA BeginInv ==
    ASSUME IInv, NEW t \in Threads, NEW list \in Seq(Subscriber), Clean(list),
           Begin(t, list)
    PROVE  IInv'
  <1> USE PubSubAssumption DEF IInv
  <1>1. /\ UNCHANGED <<inboxes, live, registered_modules, unicast_subss, multicast_groups, inbox>>
        /\ Unlocked /\ pubsub_mutex' = t
        /\ posts' = posts + 1 /\ posts + 1 \in Message /\ posts \in Nat
        /\ audience' = [audience EXCEPT ![posts + 1] = Range(list)]
        /\ fanout' = [fanout EXCEPT ![t] = [msg |-> posts + 1, rest |-> list]]
    BY DEF Begin, inboxVars, registryVars, Message, TypeOK
  <1>2. Range(list) \subseteq Subscriber /\ DOMAIN list = 1..Len(list)
        /\ \A r : r \in Range(list) <=> \E i \in DOMAIN list : list[i] = r
    BY DEF Range
  <1>3. TypeOK'
    <2>1. fanout' \in [Threads -> [msg : Nat, rest : Seq(Subscriber)]]
      BY <1>1 DEF TypeOK
    <2>2. audience' \in [Message -> SUBSET Subscriber]
      BY <1>1, <1>2 DEF TypeOK
    <2> QED BY <1>1, <2>1, <2>2 DEF TypeOK, Message
  <1>4. InboxKept'
    BY <1>1 DEF InboxKept
  <1>5. ListsClean'
    BY <1>1 DEF ListsClean, Clean, Distinct, CurrentAndLive
  <1>6. \A u \in Threads : fanout[u].rest = <<>>
    BY <1>1 DEF Fanning, Unlocked
  <1>7. \A u \in Threads : fanout'[u].rest = IF u = t THEN list ELSE <<>>
    BY <1>1, <1>6 DEF TypeOK
  <1>8. Fanning'
    <2>1. fanout'[t].msg = posts' /\ posts' # 0
      BY <1>1 DEF TypeOK
    <2>2. Clean(fanout[t].rest)'
      BY <1>1, <1>7 DEF Clean, Distinct, CurrentAndLive
    <2> QED BY <1>1, <1>7, <2>1, <2>2 DEF Fanning
  <1>9. \A n, r : ~Waiting(n, r)
    BY <1>6 DEF Waiting
  <1>10. \A n, r : Waiting(n, r)' <=> n = posts + 1 /\ r \in Range(list)
    BY <1>1, <1>2, <1>7 DEF Waiting
  <1>11. Delivered'
    <2>1. ASSUME NEW n \in 1..(posts + 1), NEW r \in Subscriber
          PROVE  /\ Waiting(n, r)' => r \in audience'[n]
                 /\ (\E i \in DOMAIN inbox[r] : inbox[r][i] = n)
                       <=> r \in audience'[n] /\ ~Waiting(n, r)'
      <3>1. CASE n = posts + 1
        <4>1. audience'[n] = Range(list)
          BY <1>1, <3>1 DEF TypeOK
        <4>2. \A i \in DOMAIN inbox[r] : inbox[r][i] <= posts /\ inbox[r][i] \in Nat
          BY <1>1 DEF Delivered, TypeOK, Message
        <4>3. \A i \in DOMAIN inbox[r] : inbox[r][i] # n
          BY <1>1, <3>1, <4>2
        <4> QED BY <1>10, <3>1, <4>1, <4>3
      <3>2. CASE n \in 1..posts
        <4>1. audience'[n] = audience[n] /\ n # posts + 1
          BY <1>1, <3>2 DEF TypeOK, Message
        <4>2. (\E i \in DOMAIN inbox[r] : inbox[r][i] = n) <=> r \in audience[n] /\ ~Waiting(n, r)
          BY <3>2 DEF Delivered
        <4> QED BY <1>9, <1>10, <4>1, <4>2
      <3> QED BY <1>1, <3>1, <3>2
    <2>2. \A r \in Subscriber : \A i \in DOMAIN inbox[r] : inbox[r][i] <= posts + 1
      <3> TAKE r \in Subscriber
      <3> TAKE i \in DOMAIN inbox[r]
      <3>1. inbox[r][i] <= posts /\ inbox[r][i] \in Nat
        BY DEF Delivered, TypeOK, Message
      <3> QED BY <1>1, <3>1
    <2> QED BY <1>1, <2>1, <2>2 DEF Delivered
  <1>12. InOrder'
    BY <1>1 DEF InOrder
  <1> QED BY <1>3, <1>4, <1>5, <1>8, <1>11, <1>12

LEMMA EndFanoutInv ==
    ASSUME IInv, NEW t \in Threads, EndFanout(t)
    PROVE  IInv'
  <1> USE PubSubAssumption DEF IInv
  <1>1. /\ UNCHANGED <<inboxes, live, registered_modules, unicast_subss, multicast_groups>>
        /\ UNCHANGED <<posts, audience, inbox>>
        /\ pubsub_mutex = t /\ pubsub_mutex' = NoThread /\ fanout[t].rest = <<>>
        /\ fanout' = [fanout EXCEPT ![t] = Idle] /\ Idle.rest = <<>> /\ Idle.msg = 0
    BY DEF EndFanout, inboxVars, registryVars, Idle
  <1>2. TypeOK'
    <2>1. fanout' \in [Threads -> [msg : Nat, rest : Seq(Subscriber)]]
      BY <1>1 DEF TypeOK, Idle
    <2> QED BY <1>1, <2>1 DEF TypeOK
  <1>3. InboxKept'
    BY <1>1 DEF InboxKept
  <1>4. ListsClean'
    BY <1>1 DEF ListsClean, Clean, Distinct, CurrentAndLive
  <1>5. \A u \in Threads : fanout'[u].rest = <<>> /\ fanout[u].rest = <<>>
    BY <1>1 DEF Fanning, TypeOK
  <1>6. Fanning'
    BY <1>1, <1>5 DEF Fanning
  <1>7. Delivered'
    BY <1>1, <1>5 DEF Delivered, Waiting
  <1>8. InOrder'
    BY <1>1 DEF InOrder
  <1> QED BY <1>2, <1>3, <1>4, <1>6, <1>7, <1>8

\* One delivery: the thread is the one that holds the mutex, and the receiver
\* is current and not among those who come after it.
LEMMA DeliverFacts ==
    ASSUME IInv, NEW t \in Threads, Deliver(t)
    PROVE  /\ t = pubsub_mutex /\ fanout[t].msg = posts /\ posts \in Message
           /\ fanout[t].rest \in Seq(Subscriber) /\ fanout[t].rest # <<>>
           /\ Head(fanout[t].rest) \in Subscriber /\ CurrentAndLive(Head(fanout[t].rest))
           /\ Waiting(posts, Head(fanout[t].rest))
           /\ Tail(fanout[t].rest) \in Seq(Subscriber) /\ Clean(Tail(fanout[t].rest))
           /\ \A r : (\E i \in DOMAIN Tail(fanout[t].rest) : Tail(fanout[t].rest)[i] = r)
                      <=> Waiting(posts, r) /\ r # Head(fanout[t].rest)
  <1> USE PubSubAssumption DEF IInv
  <1> DEFINE list == fanout[t].rest
  <1>1. t = pubsub_mutex /\ fanout[t].msg = posts /\ posts # 0 /\ Clean(list)
        /\ list \in Seq(Subscriber) /\ list # <<>>
    BY DEF Deliver, Fanning, TypeOK
  <1>2. posts \in Message
    BY <1>1 DEF TypeOK, Message
  <1>3. \A r : Waiting(posts, r) <=> \E i \in DOMAIN list : list[i] = r
    BY <1>1 DEF Fanning, Waiting
  <1> HIDE DEF list, IInv
  <1>4. /\ DOMAIN list = 1..Len(list) /\ Len(list) \in Nat \ {0}
        /\ Head(list) = list[1] /\ Tail(list) \in Seq(Subscriber)
        /\ DOMAIN Tail(list) = 1..(Len(list) - 1)
        /\ \A i \in 1..(Len(list) - 1) : Tail(list)[i] = list[i + 1]
    BY <1>1
  <1>5. Head(list) \in Subscriber /\ CurrentAndLive(Head(list)) /\ Waiting(posts, Head(list))
    BY <1>1, <1>3, <1>4 DEF Clean
  <1>6. Clean(Tail(list))
    <2>1. \A i \in DOMAIN Tail(list) : CurrentAndLive(Tail(list)[i])
      BY <1>1, <1>4 DEF Clean
    <2>2. Distinct(Tail(list))
      <3> SUFFICES ASSUME NEW i \in DOMAIN Tail(list), NEW j \in DOMAIN Tail(list),
                          Tail(list)[i].id = Tail(list)[j].id
                   PROVE  i = j
        BY DEF Distinct
      <3>1. i + 1 \in DOMAIN list /\ j + 1 \in DOMAIN list /\ list[i + 1].id = list[j + 1].id
        BY <1>4
      <3>2. i + 1 = j + 1
        BY <1>1, <3>1, Zenon DEF Clean, Distinct
      <3> QED BY <1>4, <3>2
    <2> QED BY <2>1, <2>2 DEF Clean
  <1>7. \A r : (\E i \in DOMAIN Tail(list) : Tail(list)[i] = r)
               <=> Waiting(posts, r) /\ r # Head(list)
    <2> TAKE r
    <2>1. ASSUME NEW i \in DOMAIN Tail(list), Tail(list)[i] = r
          PROVE  Waiting(posts, r) /\ r # Head(list)
      <3>1. i + 1 \in DOMAIN list /\ list[i + 1] = r /\ i + 1 # 1
        BY <1>4, <2>1
      <3>2. r # list[1]
        BY <1>1, <1>4, <3>1 DEF Clean, Distinct
      <3> QED BY <1>3, <1>4, <3>1, <3>2
    <2>2. ASSUME Waiting(posts, r), r # Head(list)
          PROVE  \E i \in DOMAIN Tail(list) : Tail(list)[i] = r
      <3>1. PICK i \in DOMAIN list : list[i] = r
        BY <1>3, <2>2
      <3>2. i - 1 \in DOMAIN Tail(list) /\ Tail(list)[i - 1] = r
        BY <1>4, <2>2, <3>1
      <3> QED BY <3>2
    <2> QED BY <2>1, <2>2
  <1> QED BY <1>1, <1>2, <1>4, <1>5, <1>6, <1>7 DEF list

LEMMA DeliverInv ==
    ASSUME IInv, NEW t \in Threads, Deliver(t)
    PROVE  IInv'
  <1> DEFINE list == fanout[t].rest
             to   == Head(list)
  <1>1. /\ UNCHANGED <<inboxes, live, registered_modules, unicast_subss, multicast_groups>>
        /\ UNCHANGED <<pubsub_mutex, posts, audience>>
        /\ inbox' = [inbox EXCEPT ![to] = Append(inbox[to], fanout[t].msg)]
        /\ fanout' = [fanout EXCEPT ![t].rest = Tail(list)]
    BY DEF Deliver, inboxVars, registryVars
  <1>2. /\ t = pubsub_mutex /\ fanout[t].msg = posts /\ posts \in Message
        /\ to \in Subscriber /\ Waiting(posts, to)
        /\ Tail(list) \in Seq(Subscriber) /\ Clean(Tail(list))
        /\ \A r : (\E i \in DOMAIN Tail(list) : Tail(list)[i] = r) <=> Waiting(posts, r) /\ r # to
    BY DeliverFacts
  <1> HIDE DEF to, list
  <1> USE PubSubAssumption DEF IInv
  <1>3. /\ \A r \in Subscriber : r # to => inbox'[r] = inbox[r]
        /\ inbox'[to] = Append(inbox[to], posts)
        /\ inbox[to] \in Seq(Message)
    BY <1>1, <1>2 DEF TypeOK
  <1>4. \A u \in Threads : /\ fanout'[u].rest = IF u = t THEN Tail(list) ELSE <<>>
                           /\ fanout'[u].msg = fanout[u].msg
    BY <1>1, <1>2 DEF Fanning, TypeOK
  <1>5. TypeOK'
    <2>1. fanout' \in [Threads -> [msg : Nat, rest : Seq(Subscriber)]]
      BY <1>1, <1>2 DEF TypeOK
    <2>2. inbox' \in [Subscriber -> Seq(Message)]
      <3>1. Append(inbox[to], posts) \in Seq(Message)
        BY <1>2, <1>3
      <3> QED BY <1>1, <1>2, <3>1 DEF TypeOK
    <2> QED BY <1>1, <2>1, <2>2 DEF TypeOK
  <1>6. InboxKept' /\ ListsClean'
    BY <1>1 DEF InboxKept, ListsClean, Clean, Distinct, CurrentAndLive
  <1>7. Fanning'
    <2>1. fanout'[t].rest = Tail(list)
      BY <1>4
    <2>2. registered_modules' = registered_modules /\ live' = live
      BY <1>1
    <2>3. Clean(fanout[t].rest)'
      <3> DEFINE left == fanout'[t].rest
      <3>1. left = Tail(list)
        BY <2>1
      <3> HIDE DEF left
      <3>2. Clean(left)
        BY <1>2, <3>1
      <3>3. Distinct(left) /\ \A i \in DOMAIN left : registered_modules[left[i].id] = left[i].mq /\ left[i] \in live
        BY <3>2 DEF Clean, CurrentAndLive
      <3>4. \A i \in DOMAIN left : registered_modules'[left[i].id] = left[i].mq /\ left[i] \in live'
        BY <2>2, <3>3
      <3> QED BY <3>3, <3>4 DEF Clean, Distinct, CurrentAndLive, left
    <2> QED BY <1>1, <1>2, <1>4, <2>3 DEF Fanning, Message
  <1>8. \A n, r : Waiting(n, r)' <=> Waiting(n, r) /\ r # to
    <2>1. \A n, r : Waiting(n, r)' <=> n = posts /\ \E i \in DOMAIN Tail(list) : Tail(list)[i] = r
      <3>1. posts' = posts /\ fanout'[t].rest = Tail(list)
        BY <1>1, <1>4
      <3>2. \A u \in Threads : u # t => DOMAIN fanout'[u].rest = {}
        BY <1>4
      <3> QED BY <3>1, <3>2, Zenon DEF Waiting
    <2>2. \A n, r : Waiting(n, r) <=> n = posts /\ Waiting(posts, r)
      BY DEF Waiting
    <2> QED BY <1>2, <2>1, <2>2
  <1>9. \A i \in DOMAIN inbox[to] : inbox[to][i] < posts
    <2> TAKE i \in DOMAIN inbox[to]
    <2>1. inbox[to][i] <= posts /\ inbox[to][i] \in Nat /\ posts \in 1..posts
      BY <1>2, <1>3 DEF Delivered, Message
    <2>2. inbox[to][i] # posts
      BY <1>2, <2>1 DEF Delivered
    <2> QED BY <1>2, <2>1, <2>2 DEF Message
  <1> DEFINE old == inbox[to]
             new == inbox'[to]
  <1>10. /\ DOMAIN old = 1..Len(old) /\ Len(old) \in Nat
         /\ DOMAIN new = 1..(Len(old) + 1) /\ new[Len(old) + 1] = posts
         /\ \A i \in 1..Len(old) : new[i] = old[i]
    BY <1>2, <1>3
  <1> HIDE DEF old, new
  <1>11. \A n : (\E i \in DOMAIN new : new[i] = n) <=> n = posts \/ \E i \in DOMAIN old : old[i] = n
    BY <1>10
  <1>12. Delivered'
    <2>1. ASSUME NEW n \in 1..posts, NEW r \in Subscriber
          PROVE  /\ Waiting(n, r)' => r \in audience[n]
                 /\ (\E i \in DOMAIN inbox'[r] : inbox'[r][i] = n)
                       <=> r \in audience[n] /\ ~Waiting(n, r)'
      <3>1. Waiting(n, r) => r \in audience[n]
        BY DEF Delivered
      <3>2. (\E i \in DOMAIN inbox[r] : inbox[r][i] = n) <=> r \in audience[n] /\ ~Waiting(n, r)
        BY DEF Delivered
      <3>3. CASE r # to
        BY <1>3, <1>8, <3>1, <3>2, <3>3
      <3>4. CASE r = to
        <4>1. Waiting(n, r) => n = posts
          BY DEF Waiting
        <4>2. n = posts => r \in audience[n]
          BY <1>2, <3>1, <3>4
        <4> QED BY <1>8, <1>11, <3>1, <3>2, <3>4, <4>1, <4>2 DEF old, new
      <3> QED BY <3>3, <3>4
    <2>2. ASSUME NEW r \in Subscriber, NEW i \in DOMAIN inbox'[r]
          PROVE  inbox'[r][i] <= posts
      <3>1. CASE r # to
        BY <1>3, <2>2, <3>1 DEF Delivered
      <3>2. CASE r = to
        <4>1. i \in DOMAIN new /\ inbox'[r][i] = new[i]
          BY <2>2, <3>2 DEF new
        <4>2. posts \in Nat /\ \A j \in DOMAIN old : old[j] <= posts
          BY <1>2, <1>9 DEF old, Message, Delivered
        <4> QED BY <1>10, <4>1, <4>2
      <3> QED BY <3>1, <3>2
    <2> QED BY <1>1, <2>1, <2>2 DEF Delivered
  <1>13. InOrder'
    <2> SUFFICES ASSUME NEW r \in Subscriber, NEW i \in DOMAIN inbox'[r],
                        NEW j \in DOMAIN inbox'[r], i < j
                 PROVE  inbox'[r][i] < inbox'[r][j]
      BY DEF InOrder
    <2>1. CASE r # to
      BY <1>3, <2>1 DEF InOrder
    <2>2. CASE r = to
      <3>1. i \in DOMAIN new /\ j \in DOMAIN new
        BY <2>2 DEF new
      <3>2. \A a, b \in DOMAIN old : a < b => old[a] < old[b]
        BY <1>2 DEF InOrder, old
      <3>3. \A a \in DOMAIN old : old[a] < posts
        BY <1>9 DEF old
      <3>4. new[i] < new[j]
        BY <1>10, <3>1, <3>2, <3>3
      <3> QED BY <2>2, <3>4 DEF new
    <2> QED BY <2>1, <2>2
  <1> QED BY <1>5, <1>6, <1>7, <1>12, <1>13

\* The four ways to send walk a list of the registry, or one clone.
LEMMA SendingInv ==
    ASSUME IInv, NEW t \in Threads, Sending(t)
    PROVE  IInv'
  <1>1. ASSUME NEW r \in Subscriber, CurrentAndLive(r)
        PROVE  <<r>> \in Seq(Subscriber) /\ Clean(<<r>>)
    <2>1. <<r>> \in Seq(Subscriber) /\ DOMAIN <<r>> = {1} /\ <<r>>[1] = r
      OBVIOUS
    <2> QED BY <1>1, <2>1 DEF Clean, Distinct
  <1>2. CASE \E k \in Keys : Publish(t, k)
    BY <1>2, BeginInv, ListTypes DEF Publish, IInv, ListsClean
  <1>3. CASE \E g \in Groups : Multicast(t, g)
    BY <1>3, BeginInv, ListTypes DEF Multicast, IInv, ListsClean
  <1>4. ASSUME NEW k \in Keys, NEW m \in Modules, PublishToModule(t, k, m)
        PROVE  IInv'
    <2> DEFINE list == unicast_subss[k]
    <2>1. list \in Seq(Subscriber) /\ Clean(list)
      BY ListTypes DEF IInv, ListsClean
    <2>2. Find(list, m) \in DOMAIN list
      BY <1>4, <2>1, FindOne DEF PublishToModule, Listed, Clean
    <2>3. list[Find(list, m)] \in Subscriber /\ CurrentAndLive(list[Find(list, m)])
      BY <2>1, <2>2 DEF Clean
    <2> QED BY <1>1, <1>4, <2>3, BeginInv DEF PublishToModule
  <1>5. ASSUME NEW m \in Modules, SendResponse(t, m)
        PROVE  IInv'
    <2> DEFINE r == [id |-> m, mq |-> registered_modules[m]]
    <2>1. r \in Subscriber /\ CurrentAndLive(r)
      BY <1>5, PubSubAssumption
      DEF SendResponse, IInv, TypeOK, InboxKept, Subscriber, CurrentAndLive
    <2> QED BY <1>1, <1>5, <2>1, BeginInv DEF SendResponse
  <1>6. CASE Deliver(t)
    BY <1>6, DeliverInv
  <1>7. CASE EndFanout(t)
    BY <1>7, EndFanoutInv
  <1> QED BY <1>2, <1>3, <1>4, <1>5, <1>6, <1>7 DEF Sending

------------------------------------------------------------------------------
(***************************************************************************)
(* The results                                                             *)
(***************************************************************************)

\* The inductive invariant of the registry.
THEOREM Invariance == Spec => []IInv
  <1>1. IInv /\ [Next]_vars => IInv'
    <2> SUFFICES ASSUME IInv, [Next]_vars PROVE IInv'
      OBVIOUS
    <2>1. ASSUME NEW m \in Modules, Registration(m) \/ Membership(m) PROVE IInv'
      BY <2>1, RegisterInv, UnregisterInv, DestroyInboxInv, MembershipInv DEF Registration
    <2>2. ASSUME NEW t \in Threads, Sending(t) PROVE IInv'
      BY <2>2, SendingInv
    <2>3. CASE UNCHANGED vars
      <3>1. TypeOK' /\ InboxKept' /\ InOrder'
        BY <2>3 DEF IInv, vars, inboxVars, registryVars, postVars, TypeOK, InboxKept, InOrder
      <3>2. ListsClean' /\ Fanning'
        BY <2>3 DEF IInv, vars, inboxVars, registryVars, postVars, ListsClean, Fanning, Clean,
                    Distinct, CurrentAndLive
      <3>3. Delivered'
        BY <2>3 DEF IInv, vars, inboxVars, registryVars, postVars, Delivered, Waiting
      <3> QED BY <3>1, <3>2, <3>3 DEF IInv
    <2> QED BY <2>1, <2>2, <2>3 DEF Next
  <1> QED BY InitInv, <1>1, PTL DEF Spec

\* No list holds a clone of a module that has left, also when another has come
\* under its id (nn_dev_pubsub_unregister cleans every list and group).
THEOREM ClonesAreCurrent == Spec => []NoStaleClone
  <1>1. IInv => NoStaleClone
    BY DEF IInv, ListsClean, Clean, NoStaleClone, Range
  <1> QED BY Invariance, <1>1, PTL

\* Each message is in the inbox of everyone it was published to once, and in no
\* other, when the fan-out is over.
THEOREM DeliveryIsExact == Spec => []DeliveredExactlyOnce
  <1>1. IInv => DeliveredExactlyOnce
    <2> SUFFICES ASSUME IInv, Unlocked, NEW n \in 1..posts, NEW r \in Subscriber
                 PROVE  Copies(n, r) = IF r \in audience[n] THEN 1 ELSE 0
      BY DEF DeliveredExactlyOnce
    <2> DEFINE places == {i \in DOMAIN inbox[r] : inbox[r][i] = n}
    <2>1. ~Waiting(n, r)
      BY PubSubAssumption DEF IInv, Fanning, Unlocked, Waiting
    <2>2. places # {} <=> r \in audience[n]
      BY <2>1 DEF IInv, Delivered
    <2>3. \A i, j \in places : i = j
      <3>1. inbox[r] \in Seq(Message)
        BY DEF IInv, TypeOK
      <3>2. ASSUME NEW i \in places, NEW j \in places, i < j PROVE FALSE
        <4>1. inbox[r][i] < inbox[r][j]
          BY <3>2 DEF IInv, InOrder
        <4>2. inbox[r][i] = n /\ inbox[r][j] = n /\ n \in Int
          OBVIOUS
        <4> QED BY <4>1, <4>2
      <3>3. \A i \in places : i \in Nat
        BY <3>1
      <3> QED BY <3>2, <3>3
    <2>4. CASE r \in audience[n]
      <3>1. PICK i \in places : TRUE
        BY <2>2, <2>4
      <3>2. places = {i}
        BY <2>3
      <3> QED BY <2>4, <3>2, FS_Singleton DEF Copies
    <2>5. CASE r \notin audience[n]
      BY <2>2, <2>5, FS_EmptySet DEF Copies
    <2> QED BY <2>4, <2>5
  <1> QED BY Invariance, <1>1, PTL

\* All receivers see the messages they share in one order.
THEOREM OrderIsShared == Spec => []SameOrder
  <1>1. IInv => SameOrder
    <2> SUFFICES ASSUME IInv, NEW r1 \in Subscriber, NEW r2 \in Subscriber,
                        NEW i1 \in DOMAIN inbox[r1], NEW j1 \in DOMAIN inbox[r1],
                        NEW i2 \in DOMAIN inbox[r2], NEW j2 \in DOMAIN inbox[r2],
                        inbox[r1][i1] = inbox[r2][i2], inbox[r1][j1] = inbox[r2][j2]
                 PROVE  i1 < j1 <=> i2 < j2
      BY DEF SameOrder
    <2>1. ASSUME NEW r \in Subscriber, NEW i \in DOMAIN inbox[r], NEW j \in DOMAIN inbox[r]
          PROVE  i < j <=> inbox[r][i] < inbox[r][j]
      <3>1. inbox[r] \in Seq(Message)
        BY DEF IInv, TypeOK
      <3>2. inbox[r][i] \in Message /\ inbox[r][j] \in Message /\ i \in Nat /\ j \in Nat
        BY <2>1, <3>1
      <3>3. i < j => inbox[r][i] < inbox[r][j]
        BY <2>1 DEF IInv, InOrder
      <3>4. j < i => inbox[r][j] < inbox[r][i]
        BY <2>1 DEF IInv, InOrder
      <3> QED BY <3>2, <3>3, <3>4 DEF Message
    <2> QED BY <2>1
  <1> QED BY Invariance, <1>1, PTL

\* A delivery goes to the inbox its module has now: nothing arrives in the one
\* of a module that has unregistered.
THEOREM NothingArrivesLate == Spec => NoLateDelivery
  <1>1. IInv /\ [Next]_vars =>
          [\A r \in Subscriber : inbox'[r] # inbox[r] => registered_modules[r.id] = r.mq]_vars
    <2> SUFFICES ASSUME IInv, Next, NEW r \in Subscriber, inbox'[r] # inbox[r]
                 PROVE  registered_modules[r.id] = r.mq
      OBVIOUS
    <2>1. ASSUME NEW m \in Modules, Registration(m) \/ Membership(m) PROVE FALSE
      BY <2>1 DEF Registration, Membership, Register, Unregister, DestroyInbox, Subscribe,
                  CreateGroup, DestroyGroup, JoinGroup, LeaveGroup, postVars
    <2>2. ASSUME NEW t \in Threads, Sending(t), ~Deliver(t) PROVE FALSE
      BY <2>2 DEF Sending, Publish, Multicast, PublishToModule, SendResponse, Begin, EndFanout
    <2>3. ASSUME NEW t \in Threads, Deliver(t)
          PROVE  registered_modules[r.id] = r.mq
      <3>1. r = Head(fanout[t].rest)
        BY <2>3 DEF Deliver, IInv, TypeOK
      <3> QED BY <2>3, <3>1, DeliverFacts DEF CurrentAndLive
    <2> QED BY <2>1, <2>2, <2>3 DEF Next
  <1> QED BY Invariance, <1>1, PTL DEF Spec, NoLateDelivery
==============================================================================
