-------------------------- MODULE InterfaceConfig ---------------------------
(***************************************************************************)
(* The IF module and the network links of the host.  At startup it reads   *)
(* the map of logical names (GE-1) to links (veth0) and makes every mapped  *)
(* link that is missing as one end of a veth pair; then its worker carries  *)
(* out "interface", "ip address", "shutdown" and "show if" with ioctl       *)
(* calls, one at a time.                                                   *)
(*                                                                         *)
(* Every command takes several system calls.  Any of them can fail, and     *)
(* the links belong to the host: between two calls somebody else (Operator) *)
(* may make, remove or change them.  How a command reaches the worker, and  *)
(* the chunks of a long answer, are in CliQuery.                           *)
(***************************************************************************)
EXTENDS Naturals, Sequences, FiniteSets

CONSTANTS
    Names,         \* the names a link can have
    Logical,       \* the names of the commands, GE-1 ... GE-4
    FirstLogical,  \* GE-1, whose cfg-id is the one of NN_IF_CLI_IF_CFG_ID_SHOW_NAME
    Peer,          \* per name: the same with "-peer", cut to IFNAMSIZ - 1
    Files,         \* what the map file may hold: sequences of entries
    MaxInterfaces, \* NN_MAX_INTERFACES
    Addresses,     \* addresses a link can have
    Masks,         \* netmasks a link can have
    ClassMask,     \* the one that comes with the class of an address
    Zero,          \* 0.0.0.0
    Refused,       \* what the kernel or inet_pton refuses: ::1, 255.0.255.0
    None,          \* no name, no address or no mask
    MaxChanges     \* how often somebody else changes a link

ASSUME InterfaceConfigAssumption ==
    /\ Logical \subseteq Names /\ FirstLogical \in Logical
    /\ None \notin Names \cup Addresses \cup Masks
    /\ Peer \in [Names -> Names]
    /\ Files \subseteq Seq([logical : Names, physical : Names])
    /\ MaxInterfaces \in Nat
    /\ Addresses # {} /\ Addresses \cap {Zero, Refused} = {}
    /\ MaxChanges \in Nat
    /\ ClassMask \in Masks /\ Refused \notin Masks

VARIABLES
    links,             \* the links of the host
    entries,           \* g_interface_map
    current_interface, \* g_current_interface
    pc,                \* the system call the module makes next
    index,             \* startup: the entry being looked at
    cmd,               \* the command being carried out
    ifr,               \* nn_if_set_state: whose flags to set, how, and what is read
    listed,            \* nn_if_list: the links getifaddrs told of, not yet looked at
    rows,              \* what show prints, by name
    success,           \* resp_out->success
    \* history
    before,            \* startup: the links found; then the link being configured
    meddled,           \* somebody else changed a link since the command began
    faulty,            \* a call failed for no fault of the arguments since then
    changes            \* how often somebody else changed a link

modVars == <<entries, current_interface, pc, index, cmd, ifr, listed, rows, success, before>>
vars == <<links, modVars, meddled, faulty, changes>>

Flags == {"UP", "PROMISC"}
Link == [there : BOOLEAN, flags : SUBSET Flags, ip : Addresses \cup {None},
         mask : Masks \cup {None}, peer : Names \cup {None}]

\* Also what nn_if_get_info leaves of a link that is not there: zeros.
NoLink == [there |-> FALSE, flags |-> {}, ip |-> None, mask |-> None, peer |-> None]
NewLink(peer) == [NoLink EXCEPT !.there = TRUE, !.peer = peer]

LinkInUse == [NewLink(None) EXCEPT !.flags = Flags, !.ip = CHOOSE a \in Addresses : TRUE,
                                   !.mask = ClassMask]

Present == {n \in Names : links[n].there}

NoCommand == [op |-> "none", name |-> None, ip |-> None, mask |-> None, up |-> FALSE]
Ifr(name, up, flags, next) == [name |-> name, up |-> up, flags |-> flags, next |-> next]
NoRequest == Ifr(None, FALSE, {}, "idle")
NoRows    == [n \in {} |-> NoLink]

Init ==
    /\ links \in [Names -> {NoLink, NewLink(None), LinkInUse}]
    /\ entries = <<>>
    /\ current_interface = None
    /\ pc = "load"
    /\ index = 1
    /\ cmd = NoCommand
    /\ ifr = NoRequest
    /\ listed = {}
    /\ rows = NoRows
    /\ success = FALSE
    /\ before = links
    /\ meddled = FALSE
    /\ faulty = FALSE
    /\ changes = 0

(***************************************************************************)
(* System calls: one succeeds only if it can, and fails because it cannot   *)
(* or for want of descriptors or rights.                                   *)
(***************************************************************************)
Succeeds(possible) == possible /\ UNCHANGED faulty
Fails(possible)    == faulty' = (faulty \/ possible)

\* SIOCSIFADDR: the address a link has already is left alone, with its mask;
\* a new one comes with the mask of its class, and 0.0.0.0 takes it away.
WithAddress(link, a) ==
    IF a = link.ip THEN link
    ELSE IF a = Zero THEN [link EXCEPT !.ip = None, !.mask = None]
    ELSE [link EXCEPT !.ip = a, !.mask = ClassMask]

\* SIOCSIFNETMASK needs an address.
TakesMask(link, m) == link.there /\ link.ip # None /\ m \in Masks

(***************************************************************************)
(* nn_if_map: the first entry of a name counts, and a name without an entry *)
(* is taken for a link's own.                                              *)
(***************************************************************************)
GetPhysical(name) ==
    LET of == {i \in DOMAIN entries : entries[i].logical = name}
    IN  IF of = {} THEN name
        ELSE entries[CHOOSE i \in of : \A j \in of : i <= j].physical

(***************************************************************************)
(* Startup: nn_if_map_init                                                 *)
(***************************************************************************)

\* The lines of the file, as many as the table has room for.
LoadConfigFile ==
    /\ pc = "load"
    /\ \E file \in Files :
         entries' = SubSeq(file, 1, IF Len(file) < MaxInterfaces THEN Len(file) ELSE MaxInterfaces)
    /\ pc' = "exists"
    /\ UNCHANGED <<links, current_interface, index, cmd, ifr, listed, rows, success,
                   before, meddled, faulty>>

\* Without the file the module does not start.
NoConfigFile ==
    /\ pc = "load"
    /\ pc' = "failed"
    /\ UNCHANGED <<links, entries, current_interface, index, cmd, ifr, listed, rows,
                   success, before, meddled, faulty>>

\* Mutant: the table is gone through by pairs.
EveryOtherEntry == index' = index + 2 /\ pc' = "exists"

NextEntry == index' = index + 1 /\ pc' = "exists"

\* nn_if_ensure_exists: a link that is there is left alone.  The look can
\* fail, and then says there is none.
LinkExists ==
    /\ pc = "exists" /\ index <= Len(entries)
    /\ LET there == links[entries[index].physical].there
       IN  \/ Succeeds(there) /\ NextEntry
           \/ Fails(there) /\ pc' = "create" /\ UNCHANGED index
    /\ UNCHANGED <<links, entries, current_interface, cmd, ifr, listed, rows, success,
                   before, meddled>>

\* Mutant: without NLM_F_EXCL.
CreatePairOver ==
    /\ pc = "create"
    /\ LET n == entries[index].physical
           possible == n # Peer[n]
       IN  \/ /\ Succeeds(possible)
              /\ links' = [links EXCEPT ![n] = NewLink(Peer[n]), ![Peer[n]] = NewLink(n)]
              /\ ifr' = Ifr(n, TRUE, {}, "peer")
              /\ pc' = "getflags"
              /\ UNCHANGED index
           \/ /\ Fails(possible)
              /\ NextEntry
              /\ UNCHANGED <<links, ifr>>
    /\ UNCHANGED <<entries, current_interface, cmd, listed, rows, success, before, meddled>>

\* nn_if_create_veth_netlink makes both ends or, when one of the names is
\* taken, none (NLM_F_EXCL).  What it returns is looked at by nobody else.
CreatePair ==
    /\ pc = "create"
    /\ LET n == entries[index].physical
           possible == n # Peer[n] /\ ~links[n].there /\ ~links[Peer[n]].there
       IN  \/ /\ Succeeds(possible)
              /\ links' = [links EXCEPT ![n] = NewLink(Peer[n]), ![Peer[n]] = NewLink(n)]
              /\ ifr' = Ifr(n, TRUE, {}, "peer")
              /\ pc' = "getflags"
              /\ UNCHANGED index
           \/ /\ Fails(possible)
              /\ NextEntry
              /\ UNCHANGED <<links, ifr>>
    /\ UNCHANGED <<entries, current_interface, cmd, listed, rows, success, before, meddled>>

\* Both ends are brought up, the peer second.
BringPeerUp ==
    /\ pc = "peer"
    /\ ifr' = Ifr(Peer[entries[index].physical], TRUE, {}, "entry")
    /\ pc' = "getflags"
    /\ UNCHANGED <<links, entries, current_interface, index, cmd, listed, rows, success,
                   before, meddled, faulty>>

PairIsUp ==
    /\ pc = "entry"
    /\ NextEntry
    /\ UNCHANGED <<links, entries, current_interface, cmd, ifr, listed, rows, success,
                   before, meddled, faulty>>

\* All entries done: the worker is started.
StartWorker ==
    /\ pc = "exists" /\ index > Len(entries)
    /\ pc' = "idle"
    /\ index' = 1
    /\ ifr' = NoRequest
    /\ before' = [n \in Names |-> NoLink]
    /\ meddled' = FALSE
    /\ faulty' = FALSE
    /\ UNCHANGED <<links, entries, current_interface, cmd, listed, rows, success>>

(***************************************************************************)
(* nn_if_set_state, for startup and for the commands: the flags are read,   *)
(* changed and written back.                                               *)
(***************************************************************************)
StateSet(ok) == pc' = ifr.next /\ success' = (ok /\ ifr.next = "answer")

GetFlags ==
    /\ pc = "getflags"
    /\ LET there == links[ifr.name].there
       IN  \/ /\ Succeeds(there)
              /\ ifr' = Ifr(ifr.name, ifr.up, links[ifr.name].flags, ifr.next)
              /\ pc' = "setflags"
              /\ UNCHANGED success
           \/ Fails(there) /\ StateSet(FALSE) /\ UNCHANGED ifr
    /\ UNCHANGED <<links, entries, current_interface, index, cmd, listed, rows, before, meddled>>

NewFlags == IF ifr.up THEN ifr.flags \cup {"UP"} ELSE ifr.flags \ {"UP"}

SetFlags ==
    /\ pc = "setflags"
    /\ LET there == links[ifr.name].there
       IN  \/ /\ Succeeds(there)
              /\ links' = [links EXCEPT ![ifr.name].flags = NewFlags]
              /\ StateSet(TRUE)
           \/ Fails(there) /\ StateSet(FALSE) /\ UNCHANGED links
    /\ UNCHANGED <<entries, current_interface, index, cmd, ifr, listed, rows, before, meddled>>

(***************************************************************************)
(* The commands.  An interface view is opened by "interface" alone, so the  *)
(* commands of that view find an interface selected.                       *)
(***************************************************************************)
Take(op, first) ==
    /\ pc = "idle"
    /\ cmd' = op
    /\ pc' = first
    /\ meddled' = FALSE
    /\ UNCHANGED <<links, entries, current_interface, index, faulty>>

Interface(name) ==
    /\ Take([NoCommand EXCEPT !.op = "interface", !.name = name], "lookup")
    /\ UNCHANGED <<ifr, listed, rows, success, before>>

IpAddress(ip, mask) ==
    /\ current_interface # None
    /\ Take([NoCommand EXCEPT !.op = "address", !.ip = ip, !.mask = mask], "address")
    /\ before' = [before EXCEPT ![current_interface] = links[current_interface]]
    /\ UNCHANGED <<ifr, listed, rows, success>>

\* "shutdown", and "no shutdown" when up.
Shutdown(up) ==
    /\ current_interface # None
    /\ Take([NoCommand EXCEPT !.op = "shutdown", !.up = up], "getflags")
    /\ ifr' = Ifr(current_interface, up, {}, "answer")
    /\ before' = [before EXCEPT ![current_interface] = links[current_interface]]
    /\ UNCHANGED <<listed, rows, success>>

\* "show if", also with GE-2 and the others, whose cfg-ids the handler does
\* not know.  GE-1 has the cfg-id of a name but comes without one.
Show(name) ==
    /\ Take([NoCommand EXCEPT !.op = "show", !.name = name],
            IF name = FirstLogical THEN "unnamed" ELSE "list")
    /\ UNCHANGED <<ifr, listed, rows, success, before>>

\* handle_interface_cmd: the link of the map must be there; the view, and
\* what is configured from now on, go by the logical name.
LookUp ==
    /\ pc = "lookup"
    /\ LET there == links[GetPhysical(cmd.name)].there
       IN  \/ Succeeds(there) /\ success' = TRUE
           \/ Fails(there) /\ success' = FALSE
    /\ pc' = "answer"
    /\ UNCHANGED <<links, entries, current_interface, index, cmd, ifr, listed, rows, before, meddled>>

\* Mutant: the mask is set before the address.
SetAddressLast ==
    /\ pc = "address"
    /\ LET link == links[current_interface]
           possible == TakesMask(link, cmd.mask) /\ cmd.ip # Refused
       IN  \/ /\ Succeeds(possible)
              /\ links' = [links EXCEPT ![current_interface] =
                             WithAddress([link EXCEPT !.mask = cmd.mask], cmd.ip)]
              /\ success' = TRUE
           \/ Fails(possible) /\ success' = FALSE /\ UNCHANGED links
    /\ pc' = "answer"
    /\ UNCHANGED <<entries, current_interface, index, cmd, ifr, listed, rows, before, meddled>>

\* nn_if_set_ip: the address ...
SetAddress ==
    /\ pc = "address"
    /\ LET link == links[current_interface]
           possible == link.there /\ cmd.ip # Refused
       IN  \/ /\ Succeeds(possible)
              /\ links' = [links EXCEPT ![current_interface] = WithAddress(link, cmd.ip)]
              /\ pc' = "netmask"
              /\ UNCHANGED success
           \/ /\ Fails(possible)
              /\ success' = FALSE
              /\ pc' = "answer"
              /\ UNCHANGED links
    /\ UNCHANGED <<entries, current_interface, index, cmd, ifr, listed, rows, before, meddled>>

\* ... and then the mask; an address that has been set stays when it fails.
SetNetmask ==
    /\ pc = "netmask"
    /\ LET possible == TakesMask(links[current_interface], cmd.mask)
       IN  \/ /\ Succeeds(possible)
              /\ links' = [links EXCEPT ![current_interface].mask = cmd.mask]
              /\ success' = TRUE
           \/ Fails(possible) /\ success' = FALSE /\ UNCHANGED links
    /\ pc' = "answer"
    /\ UNCHANGED <<entries, current_interface, index, cmd, ifr, listed, rows, before, meddled>>

\* One more row of the table that is printed, under the name of its link.
WithRow(n, row) == [m \in DOMAIN rows \cup {n} |-> IF m = n THEN row ELSE rows[m]]

\* nn_if_get_info of the empty name: nothing can be read, and only the want of
\* a socket is an error.
ShowUnnamed ==
    /\ pc = "unnamed"
    /\ \/ Succeeds(TRUE) /\ rows' = WithRow(None, NoLink) /\ success' = TRUE
       \/ Fails(TRUE) /\ success' = FALSE /\ UNCHANGED rows
    /\ pc' = "answer"
    /\ UNCHANGED <<links, entries, current_interface, index, cmd, ifr, listed, before, meddled>>

\* nn_if_list: getifaddrs tells of all links at one moment,
ListLinks ==
    /\ pc = "list"
    /\ \/ Succeeds(TRUE) /\ listed' = Present /\ pc' = "state" /\ UNCHANGED success
       \/ Fails(TRUE) /\ success' = FALSE /\ pc' = "answer" /\ UNCHANGED listed
    /\ UNCHANGED <<links, entries, current_interface, index, cmd, ifr, rows, before, meddled>>

\* and nn_if_get_info reads them one by one, the flags (a row without a socket
\* is blank, and lacks its name too)
ReadState ==
    /\ pc = "state"
    /\ \E n \in listed :
         LET link == links[n]
         IN  /\ \/ Succeeds(link.there) /\ rows' = WithRow(n, [NoLink EXCEPT !.flags = link.flags \cap {"UP"}])
                \/ Fails(link.there) /\ rows' = WithRow(n, NoLink)
             /\ ifr' = Ifr(n, FALSE, {}, "idle")
    /\ pc' = "readip"
    /\ UNCHANGED <<links, entries, current_interface, index, cmd, listed, success, before, meddled>>

\* Mutant: the address of the row before stays in the buffer.
ReadAddressOver ==
    /\ pc = "readip"
    /\ LET n == ifr.name
           possible == links[n].there /\ links[n].ip # None
       IN  \/ Succeeds(possible) /\ rows' = [rows EXCEPT ![n].ip = links[n].ip]
           \/ /\ Fails(possible)
              /\ \E m \in DOMAIN rows : rows' = [rows EXCEPT ![n].ip = rows[m].ip]
    /\ listed' = listed \ {ifr.name}
    /\ pc' = "state"
    /\ UNCHANGED <<links, entries, current_interface, index, cmd, ifr, success, before, meddled>>

\* and the address (the mask, MAC and MTU are not in the list).
ReadAddress ==
    /\ pc = "readip"
    /\ LET n == ifr.name
           possible == links[n].there /\ links[n].ip # None
       IN  \/ Succeeds(possible) /\ rows' = [rows EXCEPT ![n].ip = links[n].ip]
           \/ Fails(possible) /\ UNCHANGED rows
    /\ listed' = listed \ {ifr.name}
    /\ pc' = "state"
    /\ UNCHANGED <<links, entries, current_interface, index, cmd, ifr, success, before, meddled>>

ListDone ==
    /\ pc = "state" /\ listed = {}
    /\ success' = TRUE
    /\ pc' = "answer"
    /\ UNCHANGED <<links, entries, current_interface, index, cmd, ifr, listed, rows,
                   before, meddled, faulty>>

\* handle_default_resp: the answer is sent, and an interface that was found
\* is the one configured from now on.
Answer ==
    /\ pc = "answer"
    /\ current_interface' = IF cmd.op = "interface" /\ success THEN cmd.name
                                                               ELSE current_interface
    /\ cmd' = NoCommand
    /\ ifr' = NoRequest
    /\ rows' = NoRows
    /\ success' = FALSE
    /\ before' = [n \in Names |-> NoLink]
    /\ meddled' = FALSE
    /\ faulty' = FALSE
    /\ pc' = "idle"
    /\ UNCHANGED <<links, entries, index, listed>>

(***************************************************************************)
(* Somebody else on the host                                               *)
(***************************************************************************)
Operator(change) ==
    /\ changes < MaxChanges
    /\ changes' = changes + 1
    /\ links' = change
    /\ links' # links
    /\ meddled' = TRUE
    /\ UNCHANGED <<modVars, faulty>>

AddLink(n) == ~links[n].there /\ Operator([links EXCEPT ![n] = NewLink(None)])

\* A veth goes with its peer.
RemoveLink(n) ==
    /\ links[n].there
    /\ Operator([m \in Names |-> IF m = n \/ links[n].peer = m THEN NoLink ELSE links[m]])

ChangeFlags(n, flags) == links[n].there /\ Operator([links EXCEPT ![n].flags = flags])

ChangeAddress(n, a) == links[n].there /\ Operator([links EXCEPT ![n] = WithAddress(@, a)])

HostStep == \E n \in Names :
    \/ AddLink(n)
    \/ RemoveLink(n)
    \/ \E flags \in SUBSET Flags : ChangeFlags(n, flags)
    \/ \E a \in Addresses \cup {Zero} : ChangeAddress(n, a)

Startup == LoadConfigFile \/ NoConfigFile \/ LinkExists \/ CreatePair \/ BringPeerUp
           \/ PairIsUp \/ StartWorker

Request ==
    \/ \E name \in Logical : Interface(name) \/ Show(name)
    \/ Show(None)
    \/ \E ip \in Addresses \cup {Zero, Refused}, mask \in Masks \cup {Refused} : IpAddress(ip, mask)
    \/ \E up \in BOOLEAN : Shutdown(up)

Handle == GetFlags \/ SetFlags \/ LookUp \/ SetAddress \/ SetNetmask \/ ShowUnnamed
          \/ ListLinks \/ ReadState \/ ReadAddress \/ ListDone \/ Answer

ModuleStep == Startup \/ Request \/ Handle

Next == (ModuleStep /\ UNCHANGED changes) \/ HostStep

Spec == Init /\ [][Next]_vars

(***************************************************************************)
(* Properties                                                              *)
(***************************************************************************)

\* The variables keep the values the code expects: what is configured is a
\* link's name, and a place in the map is read only if it is in use.
TypeOK ==
    /\ links \in [Names -> Link]
    /\ Len(entries) <= MaxInterfaces
    /\ \A i \in DOMAIN entries : entries[i] \in [logical : Names, physical : Names]
    /\ current_interface \in Logical \cup {None}
    /\ pc \in {"load", "failed", "exists", "create", "getflags", "setflags", "peer", "entry",
               "idle", "lookup", "address", "netmask", "unnamed", "list", "state", "readip", "answer"}
    /\ index \in 1..(Len(entries) + 1)
    /\ pc \in {"create", "peer", "entry"} => index <= Len(entries)
    /\ pc \in {"address", "netmask"} => current_interface # None
    /\ cmd.name \in Logical \cup {None}
    /\ ifr.name \in Names \cup {None} /\ ifr.flags \subseteq Flags
    /\ listed \subseteq Names
    /\ \A n \in DOMAIN rows : n \in Names \cup {None} /\ rows[n] \in Link
    /\ before \in [Names -> Link]
    /\ {success, meddled, faulty} \subseteq BOOLEAN
    /\ changes \in 0..MaxChanges

Starting ==
    \/ pc \in {"exists", "create", "peer", "entry"}
    \/ pc \in {"getflags", "setflags"} /\ ifr.next \in {"peer", "entry"}

\* Startup makes links and changes none it found, also when the look for one
\* fails and says it is missing: a link in use keeps its flags and address.
StartupKeepsLinks ==
    Starting /\ ~meddled => \A n \in Names : before[n].there => links[n] = before[n]

\* When startup is through undisturbed, every link of the map is there, or
\* its name or the name for its peer was taken; and what was made is up.
MappedLinksAreUp ==
    pc = "exists" /\ index > Len(entries) /\ ~meddled /\ ~faulty =>
        /\ \A i \in DOMAIN entries :
             LET n == entries[i].physical
             IN  links[n].there \/ Peer[n] = n \/ links[Peer[n]].there
        /\ \A n \in Present : before[n].there \/ "UP" \in links[n].flags

Answered(op) == pc = "answer" /\ cmd.op = op /\ ~meddled

\* The answer tells the truth.  After success the address and the mask are
\* those asked for (setting an address sets a mask too, so the order of the
\* calls counts) or the state is, and no other setting of the link is lost.
\* After a failure the link is as it was or has the new address with the mask
\* of its class: never the old address with a new mask.
AnswerIsTrue ==
    LET now == links[current_interface]
        was == before[current_interface]
    IN  /\ Answered("address") /\ success =>
             now = [was EXCEPT !.ip = cmd.ip, !.mask = cmd.mask]
        /\ Answered("address") /\ ~success => now \in {was, WithAddress(was, cmd.ip)}
        /\ Answered("shutdown") /\ success =>
             now = [was EXCEPT !.flags = IF cmd.up THEN @ \cup {"UP"} ELSE @ \ {"UP"}]
        /\ Answered("shutdown") /\ ~success => now = was

\* A show that nobody disturbs prints every link of the host once, with its
\* state and its own address: the rows are of one moment although they are
\* read one by one.
ShowIsTheLinks ==
    Answered("show") /\ success /\ cmd.name # FirstLogical /\ ~faulty =>
        /\ DOMAIN rows = Present
        /\ \A n \in Present : /\ rows[n].ip = links[n].ip
                              /\ ("UP" \in rows[n].flags) = ("UP" \in links[n].flags)

\* GE-1 = veth0 in the map file means that the commands for GE-1 configure
\* veth0: one fails only if veth0 is gone or the values are no good.
ConfigReachesLink ==
    (Answered("address") \/ Answered("shutdown")) /\ ~success /\ ~faulty =>
        \/ ~links[GetPhysical(current_interface)].there
        \/ cmd.op = "address" /\ (cmd.ip \in {Zero, Refused} \/ cmd.mask = Refused)
=============================================================================
