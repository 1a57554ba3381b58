----------------------- MODULE InterfaceConfig_proofs -----------------------
(***************************************************************************)
(* The IF module, for every map file, every set of links and every order of *)
(* calls and failures: the startup leaves the links it finds alone and      *)
(* brings up those it makes, and the answer to a command tells the truth.   *)
(*                                                                         *)
(* Types says what the variables hold and what the module is doing at each  *)
(* place.  On top of it stand four invariants, one per property: each says  *)
(* how far the module has come while nobody else interferes.               *)
(***************************************************************************)
EXTENDS InterfaceConfig, SequenceTheorems, TLAPS

Entry   == [logical : Names, physical : Names]
Command == [op   : {"none", "interface", "address", "shutdown", "show"},
            name : Logical \cup {None},
            ip   : Addresses \cup {Zero, Refused, None},
            mask : Masks \cup {Refused, None},
            up   : BOOLEAN]
IfReq   == [name : Names \cup {None}, up : BOOLEAN, flags : SUBSET Flags,
            next : {"idle", "peer", "entry", "answer"}]
Places  == {"load", "failed", "exists", "create", "getflags", "setflags", "peer", "entry",
            "idle", "lookup", "address", "netmask", "unnamed", "list", "state", "readip",
            "answer"}

Physical == entries[index].physical

\* What the variables hold.
Typed ==
    /\ links \in [Names -> Link] /\ before \in [Names -> Link]
    /\ entries \in Seq(Entry) /\ Len(entries) <= MaxInterfaces
    /\ index \in 1..(Len(entries) + 1)
    /\ current_interface \in Logical \cup {None}
    /\ pc \in Places
    /\ cmd \in Command
    /\ ifr \in IfReq
    /\ listed \subseteq Names
    /\ DOMAIN rows \subseteq Names \cup {None} /\ rows \in [DOMAIN rows -> Link]
    /\ success \in BOOLEAN /\ meddled \in BOOLEAN /\ faulty \in BOOLEAN
    /\ changes \in 0..MaxChanges

SettingState == pc \in {"getflags", "setflags"}
BringingUp   == SettingState /\ ifr.next \in {"peer", "entry"}
ShuttingDown == SettingState /\ ifr.next = "answer"

\* What the module is doing at each place.
Control ==
    /\ pc = "load" => index = 1
    /\ pc \in {"create", "peer", "entry"} \/ BringingUp => index <= Len(entries)
    /\ SettingState => ifr.name \in Names /\ (BringingUp \/ ShuttingDown)
    /\ ShuttingDown => /\ cmd.op = "shutdown" /\ current_interface # None
                       /\ ifr.name = current_interface /\ ifr.up = cmd.up
    /\ pc \in {"address", "netmask"} => /\ cmd.op = "address" /\ current_interface # None
                                        /\ cmd.ip \in Addresses \cup {Zero, Refused}
    /\ pc = "netmask" => cmd.ip # Refused
    /\ pc = "lookup" => cmd.op = "interface"
    /\ pc = "unnamed" => cmd.op = "show" /\ cmd.name = FirstLogical
    /\ pc \in {"list", "state", "readip"} => cmd.op = "show" /\ cmd.name # FirstLogical
    /\ pc = "readip" => ifr.name \in listed \cap DOMAIN rows
    /\ pc \notin {"state", "readip", "answer"} => rows = NoRows

Types == Typed /\ Control

------------------------------------------------------------------------------
(***************************************************************************)
(* Links and types                                                         *)
(***************************************************************************)

LEMMA LinkKinds ==
    ASSUME InterfaceConfigAssumption
    PROVE  /\ NoLink \in Link /\ ~NoLink.there /\ NoLink.flags = {} /\ NoLink.ip = None
           /\ LinkInUse \in Link /\ LinkInUse.there
           /\ \A p \in Names \cup {None} :
                /\ NewLink(p) \in Link /\ NewLink(p).there /\ NewLink(p).flags = {}
  <1>1. NoLink \in Link /\ ~NoLink.there /\ NoLink.flags = {} /\ NoLink.ip = None
    BY DEF NoLink, Link
  <1>2. ASSUME NEW p \in Names \cup {None}
        PROVE  NewLink(p) \in Link /\ NewLink(p).there /\ NewLink(p).flags = {}
    BY <1>1 DEF NewLink, Link
  <1>3. LinkInUse \in Link /\ LinkInUse.there
    <2>1. (CHOOSE a \in Addresses : TRUE) \in Addresses
      BY DEF InterfaceConfigAssumption
    <2>2. NewLink(None) \in Link /\ NewLink(None).there /\ ClassMask \in Masks
      BY <1>2 DEF InterfaceConfigAssumption
    <2> QED BY <2>1, <2>2 DEF LinkInUse, Link
  <1> QED BY <1>1, <1>2, <1>3

\* What the system calls make of a link is a link.
LEMMA LinkChanges ==
    ASSUME InterfaceConfigAssumption, NEW link \in Link
    PROVE  /\ \A flags \in SUBSET Flags :
                /\ [link EXCEPT !.flags = flags] \in Link
                /\ [link EXCEPT !.flags = flags].flags = flags
                /\ [link EXCEPT !.flags = flags].there = link.there
           /\ \A ip \in Addresses \cup {None} :
                /\ [link EXCEPT !.ip = ip] \in Link
                /\ [link EXCEPT !.ip = ip].flags = link.flags
                /\ [link EXCEPT !.ip = ip].ip = ip
           /\ \A mask \in Masks : [link EXCEPT !.mask = mask] \in Link
           /\ \A a \in Addresses \cup {Zero} :
                WithAddress(link, a) \in Link /\ WithAddress(link, a).there = link.there
  <1> USE DEF Link
  <1>1. \A flags \in SUBSET Flags :
           /\ [link EXCEPT !.flags = flags] \in Link
           /\ [link EXCEPT !.flags = flags].flags = flags
           /\ [link EXCEPT !.flags = flags].there = link.there
    OBVIOUS
  <1>2. \A ip \in Addresses \cup {None} :
           /\ [link EXCEPT !.ip = ip] \in Link
           /\ [link EXCEPT !.ip = ip].flags = link.flags
           /\ [link EXCEPT !.ip = ip].ip = ip
    OBVIOUS
  <1>3. \A mask \in Masks : [link EXCEPT !.mask = mask] \in Link
    OBVIOUS
  <1>4. ASSUME NEW a \in Addresses \cup {Zero}
        PROVE  WithAddress(link, a) \in Link /\ WithAddress(link, a).there = link.there
    BY DEF WithAddress, InterfaceConfigAssumption
  <1> QED BY <1>1, <1>2, <1>3, <1>4

\* An entry in the walk has a link's name, and so has its peer.
LEMMA PhysicalIsName ==
    ASSUME InterfaceConfigAssumption, Typed, index <= Len(entries)
    PROVE  Physical \in Names /\ Peer[Physical] \in Names
  <1>1. index \in 1..Len(entries) /\ entries[index] \in Entry
    BY DEF Typed
  <1>2. Physical \in Names
    BY <1>1 DEF Physical, Entry
  <1> QED BY <1>2 DEF InterfaceConfigAssumption

LEMMA InitTypes == Init => Types
  <1> SUFFICES ASSUME Init PROVE Types
    OBVIOUS
  <1> USE InterfaceConfigAssumption DEF Init
  <1>1. links \in [Names -> Link] /\ before \in [Names -> Link]
    <2>1. {NoLink, NewLink(None), LinkInUse} \subseteq Link
      BY LinkKinds
    <2> QED BY <2>1
  <1>2. cmd \in Command /\ ifr \in IfReq
    BY DEF NoCommand, Command, NoRequest, Ifr, IfReq
  <1>3. rows \in [DOMAIN rows -> Link] /\ DOMAIN rows \subseteq Names \cup {None}
    BY DEF NoRows
  <1>4. entries \in Seq(Entry) /\ Len(entries) = 0
    OBVIOUS
  <1>5. Typed
    <2>1. Len(entries) <= MaxInterfaces /\ index \in 1..(Len(entries) + 1)
          /\ changes \in 0..MaxChanges
      BY <1>4 DEF InterfaceConfigAssumption
    <2>2. /\ current_interface \in Logical \cup {None} /\ pc \in Places /\ listed \subseteq Names
          /\ success \in BOOLEAN /\ meddled \in BOOLEAN /\ faulty \in BOOLEAN
      BY DEF Places
    <2> HIDE DEF Init
    <2> QED BY <1>1, <1>2, <1>3, <1>4, <2>1, <2>2, Zenon DEF Typed
  <1>6. Control
    BY DEF Control, BringingUp, ShuttingDown, SettingState
  <1> QED BY <1>5, <1>6 DEF Types

LEMMA StartupTypes ==
    ASSUME Types, Startup, UNCHANGED changes
    PROVE  Types'
  <1> USE InterfaceConfigAssumption DEF Types, Control, SettingState, BringingUp, ShuttingDown
  <1>1. CASE LoadConfigFile
    <2>1. PICK file \in Files :
            entries' = SubSeq(file, 1, IF Len(file) < MaxInterfaces THEN Len(file) ELSE MaxInterfaces)
      BY <1>1 DEF LoadConfigFile
    <2>2. file \in Seq(Entry)
      BY DEF Entry
    <2> DEFINE n == IF Len(file) < MaxInterfaces THEN Len(file) ELSE MaxInterfaces
    <2>3. n \in 0..Len(file) /\ n <= MaxInterfaces
      BY <2>2
    <2>4. \A i \in 1..n : file[i] \in Entry
      BY <2>2, <2>3
    <2>5. entries' \in Seq(Entry) /\ Len(entries') = n
      BY <2>1, <2>2, <2>3, <2>4
    <2> HIDE DEF n
    <2>6. pc = "load" /\ index' \in 1..(Len(entries') + 1)
      BY <1>1, <2>3, <2>5 DEF LoadConfigFile, Typed
    <2>7. Typed'
      BY <1>1, <2>3, <2>5, <2>6 DEF LoadConfigFile, Typed, Places
    <2>8. Control'
      BY <1>1 DEF LoadConfigFile
    <2> QED BY <2>7, <2>8
  <1>2. CASE NoConfigFile
    BY <1>2 DEF NoConfigFile, Typed, Places
  <1>3. CASE LinkExists
    <2>1. index \in 1..Len(entries) /\ index \in Nat /\ Len(entries) \in Nat
      BY <1>3 DEF LinkExists, Typed
    <2>2. \/ index' = index + 1 /\ pc' = "exists"
          \/ index' = index /\ pc' = "create"
      BY <1>3 DEF LinkExists, NextEntry
    <2>3. faulty' \in BOOLEAN
      BY <1>3 DEF LinkExists, Succeeds, Fails, Typed
    <2>4. index' \in 1..(Len(entries) + 1) /\ (pc' = "create" => index' <= Len(entries))
      BY <2>1, <2>2
    <2> QED BY <1>3, <2>2, <2>3, <2>4 DEF LinkExists, Typed, Places
  <1>4. CASE CreatePair
    <2>1. pc = "create" /\ index <= Len(entries) /\ rows = NoRows
          /\ UNCHANGED <<entries, current_interface, cmd, listed, rows, success, before,
                         meddled, changes>>
      BY <1>4 DEF CreatePair
    <2>2. Physical \in Names /\ Peer[Physical] \in Names
      BY <2>1, PhysicalIsName
    <2>3. CASE NextEntry /\ UNCHANGED <<links, ifr>> /\ Fails(Physical # Peer[Physical]
                 /\ ~links[Physical].there /\ ~links[Peer[Physical]].there)
      <3>1. index' \in 1..(Len(entries) + 1) /\ pc' = "exists" /\ faulty' \in BOOLEAN
        BY <2>1, <2>3 DEF NextEntry, Fails, Typed
      <3> QED BY <2>1, <2>3, <3>1 DEF Typed, Places
    <2>4. CASE /\ links' = [links EXCEPT ![Physical] = NewLink(Peer[Physical]),
                                         ![Peer[Physical]] = NewLink(Physical)]
               /\ ifr' = Ifr(Physical, TRUE, {}, "peer")
               /\ pc' = "getflags" /\ UNCHANGED <<index, faulty>>
      <3>1. links' \in [Names -> Link]
        BY <2>2, <2>4, LinkKinds DEF Typed
      <3>2. ifr' \in IfReq /\ ifr'.name = Physical /\ ifr'.next = "peer"
        BY <2>2, <2>4 DEF Ifr, IfReq
      <3>3. Typed'
        BY <2>1, <2>4, <3>1, <3>2 DEF Typed, Places
      <3>4. Control'
        BY <2>1, <2>2, <2>4, <3>2
      <3> QED BY <3>3, <3>4
    <2> QED BY <1>4, <2>3, <2>4 DEF CreatePair, Succeeds, Physical
  <1>5. CASE BringPeerUp
    <2>1. pc = "peer" /\ index <= Len(entries)
      BY <1>5 DEF BringPeerUp
    <2>2. Physical \in Names /\ Peer[Physical] \in Names
      BY <2>1, PhysicalIsName
    <2>3. ifr' \in IfReq /\ ifr'.name = Peer[Physical] /\ ifr'.next = "entry"
      BY <1>5, <2>2 DEF BringPeerUp, Ifr, IfReq, Physical
    <2>4. Typed'
      BY <1>5, <2>3 DEF BringPeerUp, Typed, Places
    <2>5. Control'
      BY <1>5, <2>1, <2>2, <2>3 DEF BringPeerUp
    <2> QED BY <2>4, <2>5
  <1>6. CASE PairIsUp
    <2>1. index' \in 1..(Len(entries) + 1) /\ pc' = "exists"
      BY <1>6 DEF PairIsUp, NextEntry, Typed
    <2> QED BY <1>6, <2>1 DEF PairIsUp, Typed, Places
  <1>7. CASE StartWorker
    <2>1. before' \in [Names -> Link]
      BY <1>7, LinkKinds DEF StartWorker
    <2>2. ifr' \in IfReq
      BY <1>7 DEF StartWorker, NoRequest, Ifr, IfReq
    <2>3. index' \in 1..(Len(entries) + 1)
      BY <1>7 DEF StartWorker, Typed
    <2> QED BY <1>7, <2>1, <2>2, <2>3 DEF StartWorker, Typed, Places
  <1> QED BY <1>1, <1>2, <1>3, <1>4, <1>5, <1>6, <1>7 DEF Startup

LEMMA SetStateTypes ==
    ASSUME Types, GetFlags \/ SetFlags, UNCHANGED changes
    PROVE  Types'
  <1> USE InterfaceConfigAssumption DEF Types, Control, SettingState, BringingUp, ShuttingDown
  <1>1. /\ SettingState /\ ifr.name \in Names /\ links[ifr.name] \in Link
        /\ ifr.next \in {"peer", "entry", "answer"} /\ rows = NoRows
    BY DEF GetFlags, SetFlags, Typed
  <1>2. CASE GetFlags
    <2>1. faulty' \in BOOLEAN /\ success' \in BOOLEAN
      BY <1>2 DEF GetFlags, Succeeds, Fails, StateSet, Typed
    <2>2. ifr' \in IfReq /\ ifr'.name = ifr.name /\ ifr'.next = ifr.next /\ ifr'.up = ifr.up
      <3>1. ifr \in IfReq /\ links[ifr.name].flags \in SUBSET Flags
        BY <1>1 DEF Typed, Link
      <3>2. ifr' = ifr \/ ifr' = Ifr(ifr.name, ifr.up, links[ifr.name].flags, ifr.next)
        BY <1>2 DEF GetFlags
      <3> QED BY <3>1, <3>2 DEF Ifr, IfReq
    <2>3. pc' = "setflags" \/ pc' = ifr.next
      BY <1>2 DEF GetFlags, StateSet
    <2>4. UNCHANGED <<links, entries, current_interface, index, cmd, listed, rows, before, meddled>>
      BY <1>2 DEF GetFlags
    <2>5. Typed'
      BY <1>1, <2>1, <2>2, <2>3, <2>4 DEF Typed, Places
    <2>6. Control'
      BY <1>1, <2>2, <2>3, <2>4
    <2> QED BY <2>5, <2>6
  <1>3. CASE SetFlags
    <2>1. faulty' \in BOOLEAN /\ success' \in BOOLEAN
      BY <1>3 DEF SetFlags, Succeeds, Fails, StateSet, Typed
    <2>2. links' \in [Names -> Link]
      <3>1. NewFlags \in SUBSET Flags
        BY DEF NewFlags, Typed, IfReq, Flags
      <3>2. [links[ifr.name] EXCEPT !.flags = NewFlags] \in Link
        BY <1>1, <3>1, LinkChanges
      <3>3. \/ links' = links
            \/ links' = [links EXCEPT ![ifr.name] = [links[ifr.name] EXCEPT !.flags = NewFlags]]
        BY <1>3 DEF SetFlags
      <3>4. links \in [Names -> Link]
        BY DEF Typed
      <3> QED BY <1>1, <3>2, <3>3, <3>4
    <2>3. pc' = ifr.next
      BY <1>3 DEF SetFlags, StateSet
    <2>4. UNCHANGED <<entries, current_interface, index, cmd, ifr, listed, rows, before, meddled>>
      BY <1>3 DEF SetFlags
    <2>5. Typed'
      BY <1>1, <2>1, <2>2, <2>3, <2>4 DEF Typed, Places
    <2>6. Control'
      BY <1>1, <2>3, <2>4
    <2> QED BY <2>5, <2>6
  <1> QED BY <1>2, <1>3

\* The five ways a command begins.
LEMMA RequestCases ==
    ASSUME Request
    PROVE  \/ \E name \in Logical : Interface(name)
           \/ \E name \in Logical \cup {None} : Show(name)
           \/ \E ip \in Addresses \cup {Zero, Refused}, mask \in Masks \cup {Refused} :
                IpAddress(ip, mask)
           \/ \E up \in BOOLEAN : Shutdown(up)
  BY DEF Request

LEMMA RequestTypes ==
    ASSUME Types, Request, UNCHANGED changes
    PROVE  Types'
  <1> USE InterfaceConfigAssumption DEF Types, Control, SettingState, BringingUp, ShuttingDown
  <1>1. NoCommand \in Command
    BY DEF NoCommand, Command
  <1>2. ASSUME NEW name \in Logical, Interface(name)
        PROVE  Types'
    <2>1. cmd' \in Command /\ cmd'.op = "interface"
      BY <1>1, <1>2 DEF Interface, Take, Command
    <2> QED BY <1>2, <2>1 DEF Interface, Take, Typed, Places
  <1>3. ASSUME NEW name \in Logical \cup {None}, Show(name)
        PROVE  Types'
    <2>1. cmd' \in Command /\ cmd'.op = "show" /\ cmd'.name = name
      BY <1>1, <1>3 DEF Show, Take, Command
    <2>2. pc' = IF name = FirstLogical THEN "unnamed" ELSE "list"
      BY <1>3 DEF Show, Take
    <2>3. Typed'
      BY <1>3, <2>1, <2>2 DEF Show, Take, Typed, Places
    <2>4. Control'
      BY <1>3, <2>1, <2>2 DEF Show, Take
    <2> QED BY <2>3, <2>4
  <1>4. ASSUME NEW ip \in Addresses \cup {Zero, Refused}, NEW mask \in Masks \cup {Refused},
               IpAddress(ip, mask)
        PROVE  Types'
    <2>1. cmd' \in Command /\ cmd'.op = "address" /\ cmd'.ip = ip
      BY <1>1, <1>4 DEF IpAddress, Take, Command
    <2>2. current_interface \in Names /\ current_interface # None
      BY <1>4 DEF IpAddress, Typed
    <2>3. before' \in [Names -> Link]
      BY <1>4, <2>2 DEF IpAddress, Typed
    <2>4. Typed'
      BY <1>4, <2>1, <2>3 DEF IpAddress, Take, Typed, Places
    <2>5. Control'
      BY <1>4, <2>1, <2>2 DEF IpAddress, Take
    <2> QED BY <2>4, <2>5
  <1>5. ASSUME NEW up \in BOOLEAN, Shutdown(up)
        PROVE  Types'
    <2>1. cmd' \in Command /\ cmd'.op = "shutdown" /\ cmd'.up = up
      BY <1>1, <1>5 DEF Shutdown, Take, Command
    <2>2. current_interface \in Names /\ current_interface # None
      BY <1>5 DEF Shutdown, Typed
    <2>3. before' \in [Names -> Link]
      BY <1>5, <2>2 DEF Shutdown, Typed
    <2>4. /\ ifr' \in IfReq /\ ifr'.name = current_interface /\ ifr'.up = up
          /\ ifr'.next = "answer"
      BY <1>5, <2>2 DEF Shutdown, Ifr, IfReq
    <2>5. Typed'
      BY <1>5, <2>1, <2>3, <2>4 DEF Shutdown, Take, Typed, Places
    <2>6. Control'
      BY <1>5, <2>1, <2>2, <2>4 DEF Shutdown, Take
    <2> QED BY <2>5, <2>6
  <1> QED BY RequestCases, <1>2, <1>3, <1>4, <1>5

LEMMA ConfigTypes ==
    ASSUME Types, LookUp \/ SetAddress \/ SetNetmask, UNCHANGED changes
    PROVE  Types'
  <1> USE InterfaceConfigAssumption DEF Types, Control, SettingState, BringingUp, ShuttingDown
  <1>1. CASE LookUp
    <2>1. faulty' \in BOOLEAN /\ success' \in BOOLEAN
      BY <1>1 DEF LookUp, Succeeds, Fails, Typed
    <2> QED BY <1>1, <2>1 DEF LookUp, Typed, Places
  <1>2. CASE SetAddress
    <2>1. faulty' \in BOOLEAN /\ success' \in BOOLEAN /\ pc' \in {"netmask", "answer"}
      BY <1>2 DEF SetAddress, Succeeds, Fails, Typed
    <2>2. current_interface \in Names /\ links[current_interface] \in Link
      BY <1>2 DEF SetAddress, Typed
    <2>3. links' \in [Names -> Link] /\ (pc' = "netmask" => cmd.ip # Refused)
      <3>1. \/ links' = links /\ pc' = "answer"
            \/ /\ cmd.ip # Refused
               /\ links' = [links EXCEPT ![current_interface] =
                              WithAddress(links[current_interface], cmd.ip)]
        BY <1>2 DEF SetAddress, Succeeds
      <3>2. cmd.ip # Refused => WithAddress(links[current_interface], cmd.ip) \in Link
        BY <1>2, <2>2, LinkChanges DEF SetAddress
      <3>3. links \in [Names -> Link]
        BY DEF Typed
      <3> QED BY <2>2, <3>1, <3>2, <3>3
    <2>4. UNCHANGED <<entries, current_interface, index, cmd, ifr, listed, rows, before, meddled>>
          /\ pc = "address"
      BY <1>2 DEF SetAddress
    <2>5. Typed'
      BY <2>1, <2>3, <2>4 DEF Typed, Places
    <2>6. Control'
      BY <2>1, <2>3, <2>4
    <2> QED BY <2>5, <2>6
  <1>3. CASE SetNetmask
    <2>1. faulty' \in BOOLEAN /\ success' \in BOOLEAN
      BY <1>3 DEF SetNetmask, Succeeds, Fails, Typed
    <2>2. current_interface \in Names /\ links[current_interface] \in Link
      BY <1>3 DEF SetNetmask, Typed
    <2>3. links' \in [Names -> Link]
      <3>1. \/ links' = links
            \/ /\ cmd.mask \in Masks
               /\ links' = [links EXCEPT ![current_interface] =
                              [links[current_interface] EXCEPT !.mask = cmd.mask]]
        BY <1>3 DEF SetNetmask, Succeeds, TakesMask
      <3>2. cmd.mask \in Masks => [links[current_interface] EXCEPT !.mask = cmd.mask] \in Link
        BY <2>2, LinkChanges
      <3>3. links \in [Names -> Link]
        BY DEF Typed
      <3> QED BY <2>2, <3>1, <3>2, <3>3
    <2>4. Typed'
      BY <1>3, <2>1, <2>3 DEF SetNetmask, Typed, Places
    <2>5. Control'
      BY <1>3 DEF SetNetmask
    <2> QED BY <2>4, <2>5
  <1> QED BY <1>1, <1>2, <1>3

\* A row that is added is one of a link.
LEMMA RowTypes ==
    ASSUME Typed, NEW n \in Names \cup {None}, NEW row \in Link
    PROVE  /\ DOMAIN WithRow(n, row) = DOMAIN rows \cup {n}
           /\ DOMAIN WithRow(n, row) \subseteq Names \cup {None}
           /\ WithRow(n, row) \in [DOMAIN WithRow(n, row) -> Link]
           /\ WithRow(n, row)[n] = row
           /\ \A m \in DOMAIN rows : m # n => WithRow(n, row)[m] = rows[m]
  BY DEF Typed, WithRow

LEMMA ShowTypes ==
    ASSUME Types, ShowUnnamed \/ ListLinks \/ ReadState \/ ReadAddress \/ ListDone,
           UNCHANGED changes
    PROVE  Types'
  <1> USE InterfaceConfigAssumption DEF Types, Control, SettingState, BringingUp, ShuttingDown
  <1>1. CASE ShowUnnamed
    <2>1. faulty' \in BOOLEAN /\ success' \in BOOLEAN
      BY <1>1 DEF ShowUnnamed, Succeeds, Fails, Typed
    <2>2. DOMAIN rows' \subseteq Names \cup {None} /\ rows' \in [DOMAIN rows' -> Link]
      <3>1. rows' = rows \/ rows' = WithRow(None, NoLink)
        BY <1>1 DEF ShowUnnamed
      <3>2. CASE rows' = rows
        BY <3>2 DEF Typed
      <3>3. CASE rows' = WithRow(None, NoLink)
        BY <3>3, LinkKinds, RowTypes
      <3> QED BY <3>1, <3>2, <3>3
    <2> QED BY <1>1, <2>1, <2>2 DEF ShowUnnamed, Typed, Places
  <1>2. CASE ListLinks
    <2>1. /\ faulty' \in BOOLEAN /\ success' \in BOOLEAN /\ pc' \in {"state", "answer"}
          /\ listed' \subseteq Names
      BY <1>2 DEF ListLinks, Succeeds, Fails, Typed, Present
    <2> QED BY <1>2, <2>1 DEF ListLinks, Typed, Places
  <1>3. CASE ReadState
    <2>1. PICK n \in listed :
            /\ \/ Succeeds(links[n].there)
                  /\ rows' = WithRow(n, [NoLink EXCEPT !.flags = links[n].flags \cap {"UP"}])
               \/ Fails(links[n].there) /\ rows' = WithRow(n, NoLink)
            /\ ifr' = Ifr(n, FALSE, {}, "idle")
      BY <1>3 DEF ReadState
    <2>2. n \in Names /\ links[n] \in Link
      BY DEF Typed
    <2>3. PICK row \in Link : rows' = WithRow(n, row)
      <3>1. links[n].flags \cap {"UP"} \in SUBSET Flags
        BY <2>2 DEF Link
      <3> QED BY <2>1, <3>1, LinkKinds, LinkChanges
    <2>4. /\ DOMAIN rows' = DOMAIN rows \cup {n} /\ DOMAIN rows' \subseteq Names \cup {None}
          /\ rows' \in [DOMAIN rows' -> Link]
      BY <2>2, <2>3, RowTypes
    <2>5. ifr' \in IfReq /\ ifr'.name = n
      BY <2>1, <2>2 DEF Ifr, IfReq
    <2>6. faulty' \in BOOLEAN
      BY <2>1 DEF Succeeds, Fails, Typed
    <2>7. Typed'
      BY <1>3, <2>2, <2>4, <2>5, <2>6 DEF ReadState, Typed, Places
    <2>8. Control'
      BY <1>3, <2>4, <2>5 DEF ReadState
    <2> QED BY <2>7, <2>8
  <1>4. CASE ReadAddress
    <2>1. ifr.name \in DOMAIN rows /\ ifr.name \in Names
      BY <1>4 DEF ReadAddress, Typed
    <2>2. /\ DOMAIN rows' = DOMAIN rows
          /\ rows' \in [DOMAIN rows -> Link]
      <3>1. \/ rows' = rows
            \/ rows' = [rows EXCEPT ![ifr.name] = [rows[ifr.name] EXCEPT !.ip = links[ifr.name].ip]]
        BY <1>4 DEF ReadAddress
      <3>2. [rows[ifr.name] EXCEPT !.ip = links[ifr.name].ip] \in Link
        <4>1. links[ifr.name] \in Link /\ rows[ifr.name] \in Link
          BY <2>1 DEF Typed
        <4>2. links[ifr.name].ip \in Addresses \cup {None}
          BY <4>1 DEF Link
        <4> QED BY <4>1, <4>2, LinkChanges
      <3>3. rows \in [DOMAIN rows -> Link]
        BY DEF Typed
      <3> QED BY <2>1, <3>1, <3>2, <3>3
    <2>3. faulty' \in BOOLEAN
      BY <1>4 DEF ReadAddress, Succeeds, Fails, Typed
    <2> QED BY <1>4, <2>2, <2>3 DEF ReadAddress, Typed, Places
  <1>5. CASE ListDone
    BY <1>5 DEF ListDone, Typed, Places
  <1> QED BY <1>1, <1>2, <1>3, <1>4, <1>5

LEMMA AnswerTypes ==
    ASSUME Types, Answer, UNCHANGED changes
    PROVE  Types'
  <1> USE InterfaceConfigAssumption DEF Types, Answer
  <1>1. cmd' \in Command /\ ifr' \in IfReq
    BY DEF NoCommand, Command, NoRequest, Ifr, IfReq
  <1>2. rows' \in [DOMAIN rows' -> Link] /\ DOMAIN rows' \subseteq Names \cup {None}
    BY DEF NoRows
  <1>3. before' \in [Names -> Link]
    BY LinkKinds
  <1>4. current_interface' \in Logical \cup {None}
    BY DEF Typed, Command
  <1>5. Typed'
    BY <1>1, <1>2, <1>3, <1>4 DEF Typed, Places
  <1>6. Control'
    BY DEF Control, BringingUp, ShuttingDown, SettingState
  <1> QED BY <1>5, <1>6

\* Somebody else changes links and nothing else of the module's.
LEMMA HostTypes ==
    ASSUME Types, HostStep
    PROVE  Types' /\ meddled' = TRUE /\ UNCHANGED modVars
  <1> USE InterfaceConfigAssumption DEF Types, Operator
  <1>1. /\ meddled' = TRUE /\ UNCHANGED modVars /\ UNCHANGED faulty
        /\ changes' \in 0..MaxChanges
    BY DEF HostStep, AddLink, RemoveLink, ChangeFlags, ChangeAddress, Typed
  <1>2. links \in [Names -> Link] /\ \A n \in Names : links[n] \in Link
    BY DEF Typed
  <1>3. links' \in [Names -> Link]
    <2>1. PICK n \in Names :
            \/ AddLink(n) \/ RemoveLink(n)
            \/ \E flags \in SUBSET Flags : ChangeFlags(n, flags)
            \/ \E a \in Addresses \cup {Zero} : ChangeAddress(n, a)
      BY DEF HostStep
    <2>2. CASE AddLink(n)
      BY <1>2, <2>2, LinkKinds DEF AddLink
    <2>3. CASE RemoveLink(n)
      BY <1>2, <2>3, LinkKinds DEF RemoveLink
    <2>4. ASSUME NEW flags \in SUBSET Flags, ChangeFlags(n, flags)
          PROVE  links' \in [Names -> Link]
      <3>1. [links[n] EXCEPT !.flags = flags] \in Link
        BY <1>2, LinkChanges
      <3>2. links' = [links EXCEPT ![n] = [links[n] EXCEPT !.flags = flags]]
        BY <2>4 DEF ChangeFlags
      <3> QED BY <1>2, <3>1, <3>2
    <2>5. ASSUME NEW a \in Addresses \cup {Zero}, ChangeAddress(n, a)
          PROVE  links' \in [Names -> Link]
      <3>1. WithAddress(links[n], a) \in Link
        BY <1>2, LinkChanges
      <3>2. links' = [links EXCEPT ![n] = WithAddress(links[n], a)]
        BY <2>5 DEF ChangeAddress
      <3> QED BY <1>2, <3>1, <3>2
    <2> QED BY <2>1, <2>2, <2>3, <2>4, <2>5
  <1>4. Typed'
    BY <1>1, <1>3 DEF Typed, modVars
  <1>5. Control'
    BY <1>1 DEF Control, BringingUp, ShuttingDown, SettingState, modVars
  <1> QED BY <1>1, <1>4, <1>5

\* What the variables hold, at every place.
THEOREM WellTyped == Spec => []Types
  <1>1. Types /\ [Next]_vars => Types'
    <2> SUFFICES ASSUME Types, [Next]_vars PROVE Types'
      OBVIOUS
    <2>1. CASE ModuleStep /\ UNCHANGED changes
      BY <2>1, StartupTypes, RequestTypes, SetStateTypes, ConfigTypes, ShowTypes, AnswerTypes
      DEF ModuleStep, Handle
    <2>2. CASE HostStep
      BY <2>2, HostTypes
    <2>3. CASE UNCHANGED vars
      <3>1. Typed'
        BY <2>3 DEF Types, Typed, vars, modVars
      <3>2. Control'
        BY <2>3 DEF Types, Control, BringingUp, ShuttingDown, SettingState, vars, modVars
      <3> QED BY <3>1, <3>2 DEF Types
    <2> QED BY <2>1, <2>2, <2>3 DEF Next
  <1> QED BY InitTypes, <1>1, PTL DEF Spec

\* The variables keep the values the code expects: names of links where links
\* are configured, places of the map that are in use.
THEOREM TypeCorrect == Spec => []TypeOK
  <1>1. Types => TypeOK
    <2> SUFFICES ASSUME Types PROVE TypeOK
      OBVIOUS
    <2>1. \A i \in DOMAIN entries : entries[i] \in Entry
      BY DEF Types, Typed
    <2>2. cmd.name \in Logical \cup {None} /\ ifr.name \in Names \cup {None} /\ ifr.flags \subseteq Flags
      BY DEF Types, Typed, Command, IfReq
    <2>3. \A n \in DOMAIN rows : n \in Names \cup {None} /\ rows[n] \in Link
      BY DEF Types, Typed
    <2> QED BY <2>1, <2>2, <2>3 DEF Types, Typed, Control, TypeOK, Entry, Places
  <1> QED BY WellTyped, <1>1, PTL

------------------------------------------------------------------------------
(***************************************************************************)
(* Startup                                                                 *)
(***************************************************************************)

Undisturbed == (pc = "load" \/ Starting) /\ ~meddled

\* A command never leads back to startup, and a change made by somebody else
\* is not forgotten before it is over.
LEMMA StillStarting ==
    ASSUME Types, [Next]_vars, Undisturbed'
    PROVE  /\ Undisturbed /\ UNCHANGED <<before, meddled>> /\ (faulty => faulty')
           /\ \/ LoadConfigFile \/ LinkExists \/ CreatePair \/ BringPeerUp \/ PairIsUp
              \/ BringingUp /\ (GetFlags \/ SetFlags)
              \/ UNCHANGED vars
  <1> USE DEF Types, Control, SettingState, BringingUp, ShuttingDown, Undisturbed, Starting
  <1>1. ~HostStep
    BY HostTypes
  <1>2. ~Request
    <2>1. ASSUME NEW name \in Logical, Interface(name) PROVE FALSE
      BY <2>1 DEF Interface, Take
    <2>2. ASSUME NEW name \in Logical \cup {None}, Show(name) PROVE FALSE
      BY <2>2 DEF Show, Take
    <2>3. ASSUME NEW ip \in Addresses \cup {Zero, Refused}, NEW mask \in Masks \cup {Refused},
                 IpAddress(ip, mask)
          PROVE  FALSE
      BY <2>3 DEF IpAddress, Take
    <2>4. ASSUME NEW up \in BOOLEAN, Shutdown(up) PROVE FALSE
      <3>1. pc' = "getflags" /\ ifr'.next = "answer"
        BY <2>4 DEF Shutdown, Take, Ifr
      <3> QED BY <3>1
    <2> QED BY RequestCases, <2>1, <2>2, <2>3, <2>4
  <1>3. ~(LookUp \/ SetAddress \/ SetNetmask \/ ShowUnnamed \/ ListLinks \/ ReadState
          \/ ReadAddress \/ ListDone \/ Answer)
    BY DEF LookUp, SetAddress, SetNetmask, ShowUnnamed, ListLinks, ReadState, ReadAddress,
           ListDone, Answer
  <1>4. ~(NoConfigFile \/ StartWorker)
    BY DEF NoConfigFile, StartWorker
  <1>5. CASE GetFlags \/ SetFlags
    <2>1. ifr'.next = ifr.next /\ pc' \in {"setflags", ifr.next} /\ UNCHANGED <<before, meddled>>
      BY <1>5 DEF GetFlags, SetFlags, StateSet, Ifr
    <2>2. SettingState /\ BringingUp
      BY <1>5, <2>1 DEF GetFlags, SetFlags
    <2>3. faulty => faulty'
      BY <1>5 DEF GetFlags, SetFlags, Succeeds, Fails
    <2> QED BY <1>5, <2>1, <2>2, <2>3
  <1>6. CASE LoadConfigFile \/ LinkExists \/ CreatePair \/ BringPeerUp \/ PairIsUp
    <2>1. /\ pc \in {"load", "exists", "create", "peer", "entry"}
          /\ UNCHANGED <<before, meddled>>
      BY <1>6 DEF LoadConfigFile, LinkExists, CreatePair, BringPeerUp, PairIsUp
    <2>2. ASSUME NEW p, Succeeds(p) \/ Fails(p) PROVE faulty => faulty'
      BY <2>2, Zenon DEF Succeeds, Fails
    <2>3. faulty => faulty'
      BY <1>6, <2>2, Zenon DEF LoadConfigFile, LinkExists, CreatePair, BringPeerUp, PairIsUp
    <2> QED BY <1>6, <2>1, <2>3
  <1>7. CASE UNCHANGED vars
    BY <1>7 DEF vars, modVars
  <1>8. \/ LoadConfigFile \/ LinkExists \/ CreatePair \/ BringPeerUp \/ PairIsUp
        \/ GetFlags \/ SetFlags \/ UNCHANGED vars
    BY <1>1, <1>2, <1>3, <1>4 DEF Next, ModuleStep, Startup, Handle
  <1> QED BY <1>5, <1>6, <1>7, <1>8

\* What an entry of the map asks for, as far as it can be had.
InPlace(n) == links[n].there \/ Peer[n] = n \/ links[Peer[n]].there

\* What CreatePair does: nothing, or two links where there were none.
LEMMA PairCreated ==
    ASSUME InterfaceConfigAssumption, Types, CreatePair
    PROVE  /\ Physical \in Names /\ Peer[Physical] \in Names
           /\ UNCHANGED <<entries, before, meddled>>
           /\ \/ NextEntry /\ UNCHANGED <<links, ifr>> /\ (InPlace(Physical) \/ faulty')
              \/ /\ pc' = "getflags" /\ UNCHANGED index
                 /\ ifr'.name = Physical /\ ifr'.next = "peer" /\ ifr'.up
                 /\ ~links[Physical].there /\ ~links[Peer[Physical]].there
                 /\ Physical # Peer[Physical]
                 /\ \A n \in Names :
                      /\ n \notin {Physical, Peer[Physical]} => links'[n] = links[n]
                      /\ n \in {Physical, Peer[Physical]} => links'[n].there
  <1>1. index <= Len(entries)
    BY DEF CreatePair, Types, Control
  <1>2. Physical \in Names /\ Peer[Physical] \in Names
    BY <1>1, PhysicalIsName DEF Types
  <1>3. UNCHANGED <<entries, before, meddled>>
    BY DEF CreatePair
  <1> DEFINE n == Physical
             possible == n # Peer[n] /\ ~links[n].there /\ ~links[Peer[n]].there
  <1>4. CASE NextEntry /\ UNCHANGED <<links, ifr>> /\ Fails(possible)
    <2>1. InPlace(n) \/ faulty'
      BY <1>4 DEF Fails, InPlace
    <2> QED BY <1>2, <1>3, <1>4, <2>1
  <1>5. CASE /\ Succeeds(possible) /\ pc' = "getflags" /\ UNCHANGED index
             /\ links' = [links EXCEPT ![n] = NewLink(Peer[n]), ![Peer[n]] = NewLink(n)]
             /\ ifr' = Ifr(n, TRUE, {}, "peer")
    <2>1. possible
      BY <1>5 DEF Succeeds
    <2>2. ifr'.name = n /\ ifr'.next = "peer" /\ ifr'.up
      BY <1>5 DEF Ifr
    <2>3. links'[n] = NewLink(Peer[n]) /\ links'[Peer[n]] = NewLink(n)
          /\ \A m \in Names : m \notin {n, Peer[n]} => links'[m] = links[m]
      BY <1>2, <1>5, <2>1 DEF Types, Typed
    <2>4. links'[n].there /\ links'[Peer[n]].there
      BY <1>2, <2>3, LinkKinds
    <2> QED BY <1>2, <1>3, <1>5, <2>1, <2>2, <2>3, <2>4
  <1> QED BY <1>4, <1>5 DEF CreatePair, Physical

\* What nn_if_set_state does to the link it is called for.
LEMMA StateWritten ==
    ASSUME InterfaceConfigAssumption, Types, GetFlags \/ SetFlags
    PROVE  /\ UNCHANGED <<entries, index, before, meddled, current_interface, cmd>>
           /\ ifr'.next = ifr.next /\ ifr'.name = ifr.name /\ ifr'.up = ifr.up
           /\ \A n \in Names : n # ifr.name => links'[n] = links[n]
           /\ \A n \in Names : links'[n].there = links[n].there
           /\ \/ pc' = "setflags" /\ GetFlags /\ UNCHANGED links
              \/ pc' = ifr.next /\ GetFlags /\ UNCHANGED links /\ (links[ifr.name].there => faulty')
              \/ pc' = ifr.next /\ SetFlags /\ UNCHANGED links /\ (links[ifr.name].there => faulty')
              \/ /\ pc' = ifr.next /\ SetFlags
                 /\ links'[ifr.name] = [links[ifr.name] EXCEPT !.flags = NewFlags]
                 /\ links'[ifr.name].flags = NewFlags
  <1>1. ifr.name \in Names /\ links \in [Names -> Link] /\ links[ifr.name] \in Link
    BY DEF GetFlags, SetFlags, Types, Typed, Control, SettingState
  <1>2. CASE GetFlags
    <2>1. /\ UNCHANGED <<links, entries, index, before, meddled, current_interface, cmd>>
          /\ ifr'.next = ifr.next /\ ifr'.name = ifr.name /\ ifr'.up = ifr.up
      <3>1. ifr' = ifr \/ ifr' = Ifr(ifr.name, ifr.up, links[ifr.name].flags, ifr.next)
        BY <1>2 DEF GetFlags
      <3>2. UNCHANGED <<links, entries, index, before, meddled, current_interface, cmd>>
        BY <1>2 DEF GetFlags
      <3> QED BY <3>1, <3>2 DEF Ifr
    <2>2. \/ pc' = "setflags"
          \/ pc' = ifr.next /\ (links[ifr.name].there => faulty')
      BY <1>2 DEF GetFlags, Fails, StateSet
    <2> QED BY <1>2, <2>1, <2>2
  <1>3. CASE SetFlags
    <2> DEFINE new == [links[ifr.name] EXCEPT !.flags = NewFlags]
    <2>1. /\ UNCHANGED <<entries, index, before, meddled, current_interface, cmd, ifr>>
          /\ pc' = ifr.next
      BY <1>3 DEF SetFlags, StateSet
    <2>2. \/ UNCHANGED links /\ (links[ifr.name].there => faulty')
          \/ links' = [links EXCEPT ![ifr.name] = new]
      BY <1>3 DEF SetFlags, Fails
    <2>3. NewFlags \in SUBSET Flags
      BY DEF NewFlags, Types, Typed, IfReq, Flags
    <2>4. new.flags = NewFlags /\ new.there = links[ifr.name].there
      BY <1>1, <2>3, LinkChanges
    <2> HIDE DEF new
    <2>5. CASE links' = [links EXCEPT ![ifr.name] = new]
      <3>1. links'[ifr.name] = new /\ \A n \in Names : n # ifr.name => links'[n] = links[n]
        BY <1>1, <2>5
      <3> QED BY <1>3, <2>1, <2>4, <3>1 DEF new
    <2>6. CASE UNCHANGED links /\ (links[ifr.name].there => faulty')
      BY <1>3, <2>1, <2>6
    <2> QED BY <2>2, <2>5, <2>6
  <1> QED BY <1>2, <1>3

\* The links found at startup, and the names that are safe to change.
Found(n) == before[n].there

FoundLinksStay == \A n \in Names : Found(n) => links[n] = before[n]

OwnNames ==
    /\ BringingUp => ~Found(ifr.name)
    /\ BringingUp /\ ifr.next = "peer" => ~Found(Peer[Physical])
    /\ pc = "peer" => ~Found(Peer[Physical])

KeepsInv == Undisturbed => FoundLinksStay /\ OwnNames

LEMMA KeepsStep ==
    ASSUME InterfaceConfigAssumption, Types, KeepsInv, [Next]_vars
    PROVE  KeepsInv'
  <1> SUFFICES ASSUME Undisturbed' PROVE FoundLinksStay' /\ OwnNames'
    BY DEF KeepsInv
  <1> USE DEF SettingState, BringingUp, ShuttingDown
  <1>1. /\ UNCHANGED <<before, meddled>> /\ FoundLinksStay /\ OwnNames
        /\ \/ LoadConfigFile \/ LinkExists \/ CreatePair \/ BringPeerUp \/ PairIsUp
           \/ BringingUp /\ (GetFlags \/ SetFlags)
           \/ UNCHANGED vars
    BY StillStarting DEF KeepsInv
  <1>2. CASE LoadConfigFile \/ LinkExists \/ PairIsUp
    BY <1>1, <1>2 DEF LoadConfigFile, LinkExists, PairIsUp, NextEntry, FoundLinksStay, OwnNames, Found
  <1>3. CASE CreatePair
    <2>1. CASE NextEntry /\ UNCHANGED <<links, ifr>>
      BY <1>1, <2>1 DEF NextEntry, FoundLinksStay, OwnNames, Found
    <2>2. CASE pc' = "getflags"
      <3>1. /\ pc' = "getflags" /\ UNCHANGED <<entries, index>> /\ ifr'.name = Physical
            /\ ~links[Physical].there /\ ~links[Peer[Physical]].there
            /\ Physical \in Names /\ Peer[Physical] \in Names
            /\ \A n \in Names : n \notin {Physical, Peer[Physical]} => links'[n] = links[n]
        BY <1>3, <2>2, PairCreated DEF NextEntry
      <3>2. ~Found(Physical) /\ ~Found(Peer[Physical])
        BY <1>1, <3>1 DEF FoundLinksStay, Found
      <3>3. FoundLinksStay'
        BY <1>1, <3>1, <3>2 DEF FoundLinksStay, Found
      <3>4. OwnNames'
        BY <1>1, <3>1, <3>2 DEF OwnNames, Found, Physical
      <3> QED BY <3>3, <3>4
    <2> QED BY <1>3, <2>1, <2>2, PairCreated
  <1>4. CASE BringPeerUp
    <2>1. ifr'.next = "entry" /\ ifr'.name = Peer[Physical]
      BY <1>4 DEF BringPeerUp, Ifr, Physical
    <2> QED BY <1>1, <1>4, <2>1 DEF BringPeerUp, FoundLinksStay, OwnNames, Found
  <1>5. CASE BringingUp /\ (GetFlags \/ SetFlags)
    <2>1. /\ UNCHANGED <<entries, index>> /\ ifr'.next = ifr.next /\ ifr'.name = ifr.name
          /\ pc' \in {"setflags", ifr.next}
          /\ \A n \in Names : n # ifr.name => links'[n] = links[n]
      BY <1>5, StateWritten
    <2>2. FoundLinksStay'
      BY <1>1, <1>5, <2>1 DEF FoundLinksStay, OwnNames, Found
    <2>3. OwnNames'
      BY <1>1, <1>5, <2>1 DEF OwnNames, Found, Physical
    <2> QED BY <2>2, <2>3
  <1>6. CASE UNCHANGED vars
    BY <1>1, <1>6 DEF vars, modVars, FoundLinksStay, OwnNames, Found, Physical
  <1> QED BY <1>1, <1>2, <1>3, <1>4, <1>5, <1>6

\* Startup changes no link it found, also when the look for one fails and the
\* module tries to make it again (nn_if_ensure_exists).
THEOREM FoundLinksAreKept == Spec => []StartupKeepsLinks
  <1>1. Init => KeepsInv
    BY DEF Init, KeepsInv, FoundLinksStay, OwnNames, BringingUp, SettingState
  <1>2. Types /\ KeepsInv /\ [Next]_vars => KeepsInv'
    BY KeepsStep, InterfaceConfigAssumption
  <1>3. KeepsInv => StartupKeepsLinks
    BY DEF KeepsInv, Undisturbed, StartupKeepsLinks, FoundLinksStay, Found
  <1> QED BY WellTyped, <1>1, <1>2, <1>3, PTL DEF Spec

\* Of the entry whose pair is made both links are there; they are brought up
\* one after the other.
PairMade == pc \in {"peer", "entry"} \/ BringingUp

NotYetUp ==
    IF BringingUp /\ ifr.next = "peer" THEN {Physical, Peer[Physical]}
    ELSE IF BringingUp \/ pc = "peer" THEN {Peer[Physical]} ELSE {}

EntriesInPlace == \A i \in 1..(index - 1) : InPlace(entries[i].physical)

PairIsMade ==
    /\ PairMade => links[Physical].there /\ links[Peer[Physical]].there
    /\ BringingUp => /\ ifr.up
                     /\ ifr.name = IF ifr.next = "peer" THEN Physical ELSE Peer[Physical]

UpUnlessFound == \A n \in Present : n \in NotYetUp \/ Found(n) \/ "UP" \in links[n].flags

MadeInv == Undisturbed /\ ~faulty => EntriesInPlace /\ PairIsMade /\ UpUnlessFound

\* Entries stay in place, since startup takes no link away.
LEMMA EntriesStayInPlace ==
    ASSUME InterfaceConfigAssumption, Typed, UNCHANGED entries,
           \A n \in Names : links[n].there => links'[n].there,
           NEW i \in 1..Len(entries), InPlace(entries[i].physical)
    PROVE  InPlace(entries[i].physical)'
  <1>1. entries[i].physical \in Names /\ Peer[entries[i].physical] \in Names
    <2>1. entries[i] \in Entry
      BY DEF Typed
    <2> QED BY <2>1 DEF Entry, InterfaceConfigAssumption
  <1> QED BY <1>1 DEF InPlace

LEMMA MadeStep ==
    ASSUME InterfaceConfigAssumption, Types, MadeInv, [Next]_vars
    PROVE  MadeInv'
  <1> SUFFICES ASSUME Undisturbed', ~faulty'
               PROVE  EntriesInPlace' /\ PairIsMade' /\ UpUnlessFound'
    BY DEF MadeInv
  <1> USE DEF SettingState, BringingUp, ShuttingDown
  <1>1. /\ UNCHANGED <<before, meddled>> /\ EntriesInPlace /\ PairIsMade /\ UpUnlessFound
        /\ \/ LoadConfigFile \/ LinkExists \/ CreatePair \/ BringPeerUp \/ PairIsUp
           \/ BringingUp /\ (GetFlags \/ SetFlags)
           \/ UNCHANGED vars
    BY StillStarting DEF MadeInv
  <1>2. index \in Nat /\ Len(entries) \in Nat /\ index \in 1..(Len(entries) + 1)
        /\ links \in [Names -> Link]
    BY DEF Types, Typed
  <1>3. CASE LoadConfigFile
    <2>1. /\ pc = "load" /\ pc' = "exists" /\ index = 1 /\ UNCHANGED <<index, links>>
      BY <1>3 DEF LoadConfigFile, Types, Control
    <2>2. NotYetUp = {} /\ NotYetUp' = {}
      BY <2>1 DEF NotYetUp
    <2>3. UpUnlessFound'
      BY <1>1, <2>1, <2>2 DEF UpUnlessFound, Present, Found
    <2> QED BY <2>1, <2>3 DEF EntriesInPlace, PairIsMade, PairMade
  \* The entry that was looked at is in place, and the next one is looked at.
  <1>4. ASSUME NextEntry, UNCHANGED <<links, entries>>, index <= Len(entries),
               pc \in {"exists", "create", "entry"}, InPlace(Physical)
        PROVE  EntriesInPlace' /\ PairIsMade' /\ UpUnlessFound'
    <2>1. index' = index + 1 /\ pc' = "exists"
      BY <1>4 DEF NextEntry
    <2>2. NotYetUp = {} /\ NotYetUp' = {}
      BY <1>4, <2>1 DEF NotYetUp
    <2>3. UpUnlessFound'
      BY <1>1, <1>4, <2>2 DEF UpUnlessFound, Present, Found
    <2>4. EntriesInPlace'
      <3> SUFFICES ASSUME NEW i \in 1..(index' - 1) PROVE InPlace(entries[i].physical)'
        BY DEF EntriesInPlace
      <3>1. i \in 1..Len(entries) /\ (i \in 1..(index - 1) \/ i = index)
        BY <1>2, <1>4, <2>1
      <3>2. InPlace(entries[i].physical)
        BY <1>1, <1>4, <3>1 DEF EntriesInPlace, Physical
      <3> QED BY <1>4, <3>1, <3>2, EntriesStayInPlace DEF Types
    <2> QED BY <2>1, <2>3, <2>4 DEF PairIsMade, PairMade
  \* As long as the entry is the same, the ones before stay in place.
  <1>5. ASSUME UNCHANGED <<index, entries>>,
               \A n \in Names : links[n].there => links'[n].there
        PROVE  EntriesInPlace'
    <2> SUFFICES ASSUME NEW i \in 1..(index - 1) PROVE InPlace(entries[i].physical)'
      BY <1>5 DEF EntriesInPlace
    <2>1. i \in 1..Len(entries)
      BY <1>2
    <2> QED BY <1>1, <1>5, <2>1, EntriesStayInPlace DEF EntriesInPlace, Types
  <1>6. CASE LinkExists
    <2>1. /\ pc = "exists" /\ index <= Len(entries) /\ UNCHANGED <<links, entries, ifr>>
          /\ \/ links[Physical].there /\ NextEntry
             \/ pc' = "create" /\ UNCHANGED index
      BY <1>6 DEF LinkExists, Succeeds, Physical
    <2>2. CASE links[Physical].there /\ NextEntry
      BY <1>4, <2>1, <2>2 DEF InPlace
    <2>3. CASE pc' = "create" /\ UNCHANGED index
      <3>1. NotYetUp = {} /\ NotYetUp' = {}
        BY <2>1, <2>3 DEF NotYetUp
      <3>2. UpUnlessFound'
        BY <1>1, <2>1, <3>1 DEF UpUnlessFound, Present, Found
      <3>3. EntriesInPlace'
        BY <1>5, <2>1, <2>3
      <3> QED BY <2>3, <3>2, <3>3 DEF PairIsMade, PairMade
    <2> QED BY <2>1, <2>2, <2>3
  <1>7. CASE CreatePair
    <2>1. pc = "create" /\ index <= Len(entries) /\ NotYetUp = {}
      BY <1>7 DEF CreatePair, Types, Control, NotYetUp
    <2>2. CASE NextEntry /\ UNCHANGED <<links, ifr>>
      <3>1. InPlace(Physical) /\ UNCHANGED entries
        BY <1>7, <2>2, PairCreated DEF NextEntry
      <3> QED BY <1>4, <2>1, <2>2, <3>1
    <2>3. CASE pc' = "getflags"
      <3>1. /\ UNCHANGED <<entries, index>>
            /\ ifr'.name = Physical /\ ifr'.next = "peer" /\ ifr'.up
            /\ Physical \in Names /\ Peer[Physical] \in Names
            /\ ~links[Physical].there /\ ~links[Peer[Physical]].there
            /\ \A n \in Names :
                 /\ n \notin {Physical, Peer[Physical]} => links'[n] = links[n]
                 /\ n \in {Physical, Peer[Physical]} => links'[n].there
        BY <1>7, <2>3, PairCreated DEF NextEntry
      <3>2. Physical' = Physical
        BY <3>1 DEF Physical
      <3>3. NotYetUp' = {Physical, Peer[Physical]}
        BY <2>3, <3>1, <3>2 DEF NotYetUp
      <3>4. PairIsMade'
        BY <2>3, <3>1, <3>2 DEF PairIsMade, PairMade
      <3>5. EntriesInPlace'
        BY <1>5, <3>1
      <3>6. UpUnlessFound'
        BY <1>1, <2>1, <3>1, <3>3 DEF UpUnlessFound, Present, Found
      <3> QED BY <3>4, <3>5, <3>6
    <2> QED BY <1>7, <2>2, <2>3, PairCreated
  <1>8. CASE BringPeerUp
    <2>1. /\ pc = "peer" /\ pc' = "getflags" /\ UNCHANGED <<links, entries, index>>
          /\ ifr'.name = Peer[Physical] /\ ifr'.next = "entry" /\ ifr'.up
      BY <1>8 DEF BringPeerUp, Ifr, Physical
    <2>2. Physical' = Physical
      BY <2>1 DEF Physical
    <2>3. NotYetUp = {Peer[Physical]} /\ NotYetUp' = {Peer[Physical]}
      BY <2>1, <2>2 DEF NotYetUp
    <2>4. PairIsMade'
      BY <1>1, <2>1, <2>2 DEF PairIsMade, PairMade
    <2>5. UpUnlessFound'
      BY <1>1, <2>1, <2>3 DEF UpUnlessFound, Present, Found
    <2> QED BY <1>5, <2>1, <2>4, <2>5
  <1>9. CASE PairIsUp
    <2>1. /\ pc = "entry" /\ index <= Len(entries) /\ NextEntry /\ UNCHANGED <<links, entries>>
          /\ InPlace(Physical)
      BY <1>1, <1>9 DEF PairIsUp, Types, Control, PairIsMade, PairMade, InPlace
    <2> QED BY <1>4, <2>1
  <1>10. CASE BringingUp /\ (GetFlags \/ SetFlags)
    <2>1. /\ Physical \in Names /\ Peer[Physical] \in Names
          /\ links[Physical].there /\ links[Peer[Physical]].there
      BY <1>1, <1>10, PhysicalIsName DEF PairIsMade, PairMade, Types, Control
    <2>2. /\ ifr.up /\ ifr.name \in Names /\ links[ifr.name].there
          /\ ifr.name = IF ifr.next = "peer" THEN Physical ELSE Peer[Physical]
      BY <1>1, <1>10, <2>1 DEF PairIsMade
    <2>3. /\ UNCHANGED <<entries, index>>
          /\ ifr'.next = ifr.next /\ ifr'.name = ifr.name /\ ifr'.up = ifr.up
          /\ \A n \in Names : n # ifr.name => links'[n] = links[n]
          /\ \A n \in Names : links'[n].there = links[n].there
          /\ \/ pc' = "setflags" /\ UNCHANGED links
             \/ pc' = ifr.next /\ "UP" \in links'[ifr.name].flags
      BY <1>10, <2>2, StateWritten DEF NewFlags
    <2>4. Physical' = Physical
      BY <2>3 DEF Physical
    <2>5. PairIsMade'
      BY <1>1, <1>10, <2>1, <2>3, <2>4 DEF PairIsMade, PairMade
    <2>6. UpUnlessFound'
      <3> SUFFICES ASSUME NEW n \in Names, links'[n].there, ~Found(n)', n \notin NotYetUp'
                   PROVE  "UP" \in links'[n].flags
        BY DEF UpUnlessFound, Present
      <3>1. n \in NotYetUp \/ "UP" \in links[n].flags
        BY <1>1, <2>3 DEF UpUnlessFound, Present, Found
      <3>2. CASE n = ifr.name
        BY <1>10, <2>2, <2>3, <2>4, <3>1, <3>2 DEF NotYetUp
      <3>3. CASE n # ifr.name
        BY <1>10, <2>2, <2>3, <2>4, <3>1, <3>3 DEF NotYetUp
      <3> QED BY <3>2, <3>3
    <2> QED BY <1>5, <2>3, <2>5, <2>6
  <1>11. CASE UNCHANGED vars
    BY <1>1, <1>11 DEF vars, modVars, EntriesInPlace, PairIsMade, PairMade, UpUnlessFound,
                       Present, NotYetUp, Found, Physical, InPlace
  <1> QED BY <1>1, <1>3, <1>6, <1>7, <1>8, <1>9, <1>10, <1>11

\* When startup is through with no failure and nobody else changed a link,
\* the links of the map are there, as far as their names were free, and both
\* ends of every pair that was made are up.
THEOREM MadeLinksAreUp == Spec => []MappedLinksAreUp
  <1>1. Init => MadeInv
    <2> SUFFICES ASSUME Init PROVE EntriesInPlace /\ PairIsMade /\ UpUnlessFound
      BY DEF MadeInv
    <2>1. EntriesInPlace /\ PairIsMade
      BY DEF Init, EntriesInPlace, PairIsMade, PairMade, BringingUp, SettingState
    <2>2. UpUnlessFound
      BY DEF Init, UpUnlessFound, Present, Found
    <2> QED BY <2>1, <2>2
  <1>2. Types /\ MadeInv /\ [Next]_vars => MadeInv'
    BY MadeStep, InterfaceConfigAssumption
  <1>3. Types /\ MadeInv => MappedLinksAreUp
    <2> SUFFICES ASSUME Types, MadeInv, pc = "exists", index > Len(entries), ~meddled, ~faulty
                 PROVE  /\ \A i \in DOMAIN entries : InPlace(entries[i].physical)
                        /\ \A n \in Present : before[n].there \/ "UP" \in links[n].flags
      BY DEF MappedLinksAreUp, InPlace
    <2>1. EntriesInPlace /\ UpUnlessFound /\ NotYetUp = {}
      BY DEF MadeInv, Undisturbed, Starting, NotYetUp, BringingUp, SettingState
    <2>2. index \in Nat /\ Len(entries) \in Nat /\ DOMAIN entries = 1..Len(entries)
          /\ index = Len(entries) + 1
      BY DEF Types, Typed
    <2> QED BY <2>1, <2>2 DEF EntriesInPlace, UpUnlessFound, Found
  <1> QED BY WellTyped, <1>1, <1>2, <1>3, PTL DEF Spec

------------------------------------------------------------------------------
(***************************************************************************)
(* Configuring                                                             *)
(***************************************************************************)

Now == links[current_interface]
Was == before[current_interface]

\* How far the link being configured has come.
ConfigSteps ==
    /\ pc = "address" \/ ShuttingDown => Now = Was
    /\ pc = "setflags" /\ ShuttingDown => ifr.flags = Now.flags
    /\ pc = "netmask" => Now = WithAddress(Was, cmd.ip) /\ Now.there

ConfigInv == ~meddled => ConfigSteps /\ AnswerIsTrue

Masked(link, mask)         == [link EXCEPT !.mask = mask]
Configured(link, ip, mask) == [link EXCEPT !.ip = ip, !.mask = mask]

\* The mask comes after the address: together they are what was asked for.
LEMMA MaskAfterAddress ==
    ASSUME InterfaceConfigAssumption, NEW was \in Link,
           NEW ip \in Addresses \cup {Zero}, NEW mask \in Masks,
           WithAddress(was, ip).ip # None
    PROVE  Masked(WithAddress(was, ip), mask) = Configured(was, ip, mask)
  <1> USE DEF Link, Masked, Configured
  <1>1. CASE ip = was.ip
    BY <1>1 DEF WithAddress
  <1>2. CASE ip # was.ip /\ ip = Zero
    BY <1>2 DEF WithAddress
  <1>3. CASE ip # was.ip /\ ip # Zero
    BY <1>3, InterfaceConfigAssumption DEF WithAddress
  <1> QED BY <1>1, <1>2, <1>3

\* Places where nothing is said of the link being configured.
LEMMA NothingConfigured ==
    ASSUME \/ pc' \notin {"address", "netmask", "getflags", "setflags", "answer"}
           \/ pc' \in {"getflags", "setflags"} /\ ifr'.next # "answer"
           \/ pc' = "answer" /\ cmd'.op \notin {"address", "shutdown"}
           \/ meddled'
    PROVE  ConfigInv'
  BY DEF ConfigInv, ConfigSteps, AnswerIsTrue, Answered, ShuttingDown, SettingState

\* What is there when a command that configures begins is remembered.
LEMMA RequestConfig ==
    ASSUME InterfaceConfigAssumption, Types, Request
    PROVE  ConfigInv'
  <1>1. ASSUME NEW name \in Logical, Interface(name) PROVE ConfigInv'
    BY <1>1, NothingConfigured DEF Interface, Take
  <1>2. ASSUME NEW name \in Logical \cup {None}, Show(name) PROVE ConfigInv'
    BY <1>2, NothingConfigured DEF Show, Take
  <1>3. current_interface # None => current_interface \in Names
    BY DEF Types, Typed, InterfaceConfigAssumption
  <1>4. ASSUME current_interface # None, UNCHANGED <<links, current_interface>>,
               before' = [before EXCEPT ![current_interface] = links[current_interface]],
               pc' \in {"address", "getflags"}
        PROVE  ConfigInv'
    <2>1. Now' = Was'
      BY <1>3, <1>4 DEF Now, Was, Types, Typed
    <2> QED BY <1>4, <2>1 DEF ConfigInv, ConfigSteps, AnswerIsTrue, Answered
  <1>5. ASSUME NEW ip \in Addresses \cup {Zero, Refused}, NEW mask \in Masks \cup {Refused},
               IpAddress(ip, mask)
        PROVE  ConfigInv'
    BY <1>4, <1>5 DEF IpAddress, Take
  <1>6. ASSUME NEW up \in BOOLEAN, Shutdown(up) PROVE ConfigInv'
    BY <1>4, <1>6 DEF Shutdown, Take
  <1> QED BY RequestCases, <1>1, <1>2, <1>5, <1>6

LEMMA ShutdownConfig ==
    ASSUME InterfaceConfigAssumption, Types, ConfigInv, GetFlags \/ SetFlags
    PROVE  ConfigInv'
  <1> USE DEF SettingState, BringingUp, ShuttingDown
  <1>1. SettingState /\ (BringingUp \/ ShuttingDown)
    BY DEF GetFlags, SetFlags, Types, Control
  <1>2. /\ UNCHANGED <<before, meddled, current_interface, cmd>>
        /\ ifr'.next = ifr.next /\ pc' \in {"setflags", ifr.next}
    BY StateWritten
  <1>3. CASE BringingUp
    BY <1>2, <1>3, NothingConfigured
  <1>4. CASE ShuttingDown
    <2> SUFFICES ASSUME ~meddled PROVE ConfigInv'
      BY <1>2, NothingConfigured
    <2>1. /\ cmd.op = "shutdown" /\ ifr.name = current_interface /\ ifr.up = cmd.up
          /\ current_interface \in Names /\ Now \in Link /\ Now = Was
          /\ links \in [Names -> Link]
      BY <1>4 DEF Types, Typed, Control, ConfigInv, ConfigSteps, Now
    <2>2. Was' = Was
      BY <1>2 DEF Was
    <2>3. CASE GetFlags
      <3>1. \/ ifr'.flags = Now.flags /\ pc' = "setflags"
            \/ pc' = "answer" /\ ~success'
        <4>1. \/ ifr' = Ifr(ifr.name, ifr.up, links[ifr.name].flags, ifr.next) /\ pc' = "setflags"
              \/ StateSet(FALSE)
          BY <2>3 DEF GetFlags
        <4>2. StateSet(FALSE) => pc' = "answer" /\ ~success'
          BY <1>4 DEF StateSet
        <4>3. ifr' = Ifr(ifr.name, ifr.up, links[ifr.name].flags, ifr.next) => ifr'.flags = Now.flags
          BY <2>1 DEF Ifr, Now
        <4> QED BY <4>1, <4>2, <4>3
      <3>2. Now' = Now
        BY <1>2, <2>3 DEF Now, GetFlags
      <3> QED BY <1>2, <1>4, <2>1, <2>2, <3>1, <3>2
          DEF ConfigInv, ConfigSteps, AnswerIsTrue, Answered, Now, Was
    <2>4. CASE SetFlags
      <3>1. pc' = "answer" /\ ifr.flags = Now.flags
        BY <1>4, <2>4 DEF SetFlags, StateSet, ConfigInv, ConfigSteps
      <3>2. \/ Now' = [Now EXCEPT !.flags = NewFlags] /\ success'
            \/ Now' = Now /\ ~success'
        <4>1. \/ /\ links' = [links EXCEPT ![ifr.name].flags = NewFlags]
                 /\ StateSet(TRUE)
              \/ StateSet(FALSE) /\ UNCHANGED links
          BY <2>4 DEF SetFlags
        <4>2. (StateSet(TRUE) => success') /\ (StateSet(FALSE) => ~success')
          BY <1>4 DEF StateSet
        <4>3. links' = [links EXCEPT ![ifr.name].flags = NewFlags] =>
                Now' = [Now EXCEPT !.flags = NewFlags]
          BY <1>2, <2>1 DEF Now
        <4> QED BY <1>2, <4>1, <4>2, <4>3 DEF Now
      <3>3. [Now EXCEPT !.flags = NewFlags]
              = [Was EXCEPT !.flags = IF cmd.up THEN @ \cup {"UP"} ELSE @ \ {"UP"}]
        BY <2>1, <3>1 DEF NewFlags
      <3> QED BY <1>2, <2>1, <2>2, <3>1, <3>2, <3>3
          DEF ConfigInv, ConfigSteps, AnswerIsTrue, Answered, Now, Was
    <2> QED BY <2>3, <2>4
  <1> QED BY <1>1, <1>3, <1>4

LEMMA AddressConfig ==
    ASSUME InterfaceConfigAssumption, Types, ConfigInv, SetAddress \/ SetNetmask
    PROVE  ConfigInv'
  <1>1. /\ UNCHANGED <<before, meddled, current_interface, cmd, ifr>>
        /\ pc \in {"address", "netmask"}
    BY DEF SetAddress, SetNetmask
  <1> SUFFICES ASSUME ~meddled PROVE ConfigInv'
    BY <1>1, NothingConfigured
  <1>2. /\ current_interface \in Names /\ links \in [Names -> Link]
        /\ Now \in Link /\ Was \in Link /\ cmd.op = "address"
        /\ cmd.ip \in Addresses \cup {Zero, Refused}
        /\ pc = "netmask" => cmd.ip \in Addresses \cup {Zero}
    BY <1>1 DEF Types, Typed, Control, InterfaceConfigAssumption, Now, Was
  <1>3. Was' = Was
    BY <1>1 DEF Was
  <1>4. CASE SetAddress
    <2>1. Now = Was
      BY <1>4 DEF SetAddress, ConfigInv, ConfigSteps
    <2>2. CASE /\ Succeeds(Now.there /\ cmd.ip # Refused) /\ pc' = "netmask"
               /\ links' = [links EXCEPT ![current_interface] = WithAddress(Now, cmd.ip)]
      <3>1. Now.there /\ cmd.ip \in Addresses \cup {Zero}
        BY <1>2, <2>2 DEF Succeeds
      <3>2. Now' = WithAddress(Now, cmd.ip)
        BY <1>1, <1>2, <2>2 DEF Now
      <3>3. WithAddress(Now, cmd.ip).there
        BY <1>2, <3>1, LinkChanges
      <3>4. Now' = WithAddress(Was, cmd.ip)' /\ Now'.there
        BY <1>1, <1>3, <2>1, <3>2, <3>3 DEF WithAddress
      <3> QED BY <2>2, <3>4
          DEF ConfigInv, ConfigSteps, AnswerIsTrue, Answered, ShuttingDown, SettingState
    <2>3. CASE pc' = "answer" /\ success' = FALSE /\ UNCHANGED links
      <3>1. Now' = Was'
        BY <1>1, <1>3, <2>1, <2>3 DEF Now
      <3> QED BY <1>1, <1>2, <2>3, <3>1
          DEF ConfigInv, ConfigSteps, AnswerIsTrue, Answered, ShuttingDown, SettingState, Now, Was
    <2> QED BY <1>4, <2>2, <2>3 DEF SetAddress, Now
  <1>5. CASE SetNetmask
    <2>1. Now = WithAddress(Was, cmd.ip) /\ pc' = "answer" /\ cmd.ip \in Addresses \cup {Zero}
      BY <1>2, <1>5 DEF SetNetmask, ConfigInv, ConfigSteps
    <2>2. CASE /\ Succeeds(TakesMask(Now, cmd.mask)) /\ success' = TRUE
               /\ links' = [links EXCEPT ![current_interface].mask = cmd.mask]
      <3>1. Now.ip # None /\ cmd.mask \in Masks
        BY <2>2 DEF Succeeds, TakesMask
      <3>2. Now' = [Now EXCEPT !.mask = cmd.mask]
        BY <1>1, <1>2, <2>2 DEF Now
      <3>3. Now' = [Was EXCEPT !.ip = cmd.ip, !.mask = cmd.mask]
        <4>1. WithAddress(Was, cmd.ip).ip # None
          BY <2>1, <3>1
        <4>2. Masked(WithAddress(Was, cmd.ip), cmd.mask) = Configured(Was, cmd.ip, cmd.mask)
          BY <1>2, <2>1, <3>1, <4>1, MaskAfterAddress, InterfaceConfigAssumption
        <4> QED BY <2>1, <3>2, <4>2 DEF Masked, Configured
      <3> QED BY <1>1, <1>2, <1>3, <2>1, <2>2, <3>3
          DEF ConfigInv, ConfigSteps, AnswerIsTrue, Answered, ShuttingDown, SettingState, Now, Was
    <2>3. CASE success' = FALSE /\ UNCHANGED links
      <3>1. Now' = WithAddress(Was, cmd.ip)'
        BY <1>1, <1>3, <2>1, <2>3 DEF Now, WithAddress
      <3> QED BY <1>1, <1>2, <2>1, <2>3, <3>1
          DEF ConfigInv, ConfigSteps, AnswerIsTrue, Answered, ShuttingDown, SettingState, Now, Was
    <2> QED BY <1>5, <2>2, <2>3 DEF SetNetmask, Now
  <1> QED BY <1>4, <1>5

\* The answer to "ip address" and to "shutdown" tells the truth, at every
\* order of calls and failures: after success the link has what was asked for
\* and all else it had, after a failure no mixture of old and new.
THEOREM AnswersAreTrue == Spec => []AnswerIsTrue
  <1>1. Init => ConfigInv
    BY DEF Init, ConfigInv, ConfigSteps, AnswerIsTrue, Answered, ShuttingDown, SettingState
  <1>2. Types /\ ConfigInv /\ [Next]_vars => ConfigInv'
    <2> SUFFICES ASSUME Types, ConfigInv, [Next]_vars PROVE ConfigInv'
      OBVIOUS
    <2>1. CASE Startup
      <3>1. \/ pc' \in {"exists", "create", "entry", "idle", "failed"}
            \/ pc' = "getflags" /\ ifr'.next # "answer"
        BY <2>1 DEF Startup, LoadConfigFile, NoConfigFile, LinkExists, CreatePair, BringPeerUp,
                    PairIsUp, StartWorker, NextEntry, Ifr
      <3> QED BY <3>1, NothingConfigured
    <2>2. CASE Request
      BY <2>2, RequestConfig, InterfaceConfigAssumption
    <2>3. CASE GetFlags \/ SetFlags
      BY <2>3, ShutdownConfig, InterfaceConfigAssumption
    <2>4. CASE SetAddress \/ SetNetmask
      BY <2>4, AddressConfig, InterfaceConfigAssumption
    <2>5. CASE LookUp \/ ShowUnnamed \/ ListLinks \/ ReadState \/ ReadAddress \/ ListDone \/ Answer
      <3>1. \/ pc' \in {"state", "readip", "idle"}
            \/ pc' = "answer" /\ cmd'.op \in {"interface", "show"}
        BY <2>5 DEF LookUp, ShowUnnamed, ListLinks, ReadState, ReadAddress, ListDone, Answer,
                    Types, Control
      <3> QED BY <3>1, NothingConfigured
    <2>6. CASE HostStep
      BY <2>6, HostTypes, NothingConfigured
    <2>7. CASE UNCHANGED vars
      BY <2>7 DEF vars, modVars, ConfigInv, ConfigSteps, AnswerIsTrue, Answered, ShuttingDown,
                  SettingState, Now, Was, WithAddress
    <2> QED BY <2>1, <2>2, <2>3, <2>4, <2>5, <2>6, <2>7 DEF Next, ModuleStep, Handle
  <1>3. ConfigInv => AnswerIsTrue
    BY DEF ConfigInv, AnswerIsTrue, Answered
  <1> QED BY WellTyped, <1>1, <1>2, <1>3, PTL DEF Spec

------------------------------------------------------------------------------
(***************************************************************************)
(* Showing                                                                 *)
(***************************************************************************)

\* A row has the state of its link and, once it is read, the address.
RowIsRead(n) ==
    /\ ("UP" \in rows[n].flags) = ("UP" \in links[n].flags)
    /\ rows[n].ip = IF n \in listed THEN None ELSE links[n].ip

\* Every link there is waits to be read or has its row, or both while its
\* address is read.
ReadSoFar ==
    /\ listed \cup DOMAIN rows = Present
    /\ listed \cap DOMAIN rows = IF pc = "readip" THEN {ifr.name} ELSE {}
    /\ \A n \in DOMAIN rows : RowIsRead(n)

ShowInv ==
    ~meddled /\ ~faulty => /\ pc \in {"state", "readip"} => ReadSoFar
                           /\ ShowIsTheLinks

\* Places where nothing is said of the rows.
LEMMA NothingShown ==
    ASSUME \/ pc' \notin {"state", "readip", "answer"}
           \/ pc' = "answer" /\ (cmd'.op # "show" \/ cmd'.name = FirstLogical \/ ~success')
           \/ meddled' \/ faulty'
    PROVE  ShowInv'
  BY DEF ShowInv, ShowIsTheLinks, Answered

LEMMA ListShow ==
    ASSUME InterfaceConfigAssumption, Types, ListLinks
    PROVE  ShowInv'
  <1>1. /\ UNCHANGED <<links, rows>> /\ rows = NoRows
        /\ \/ pc' = "answer" /\ ~success'
           \/ pc' = "state" /\ listed' = Present
    BY DEF ListLinks, Types, Control
  <1>2. CASE pc' = "answer" /\ ~success'
    BY <1>2, NothingShown
  <1>3. CASE pc' = "state" /\ listed' = Present
    <2>1. DOMAIN rows' = {}
      BY <1>1 DEF NoRows
    <2>2. Present' = Present
      BY <1>1 DEF Present
    <2> QED BY <1>3, <2>1, <2>2 DEF ShowInv, ReadSoFar, ShowIsTheLinks, Answered
  <1> QED BY <1>1, <1>2, <1>3

LEMMA StateShow ==
    ASSUME InterfaceConfigAssumption, Types, ShowInv, ReadState
    PROVE  ShowInv'
  <1>1. PICK n \in listed :
          /\ \/ Succeeds(links[n].there)
                /\ rows' = WithRow(n, [NoLink EXCEPT !.flags = links[n].flags \cap {"UP"}])
             \/ Fails(links[n].there) /\ rows' = WithRow(n, NoLink)
          /\ ifr' = Ifr(n, FALSE, {}, "idle")
    BY DEF ReadState
  <1>2. /\ pc = "state" /\ pc' = "readip" /\ UNCHANGED <<links, listed, meddled>>
        /\ ifr'.name = n
    BY <1>1 DEF ReadState, Ifr
  <1> SUFFICES ASSUME ~meddled, ~faulty' PROVE ShowInv'
    BY <1>2, NothingShown
  <1>3. ~faulty
    BY <1>1 DEF Succeeds, Fails
  <1>4. ReadSoFar /\ n \notin DOMAIN rows /\ n \in Present /\ n \in Names
    BY <1>2, <1>3 DEF ShowInv, ReadSoFar, Present
  <1> DEFINE row == [NoLink EXCEPT !.flags = links[n].flags \cap {"UP"}]
  <1>5. rows' = WithRow(n, row)
    BY <1>1, <1>4 DEF Fails, Present
  <1>6. row \in Link /\ row.flags = links[n].flags \cap {"UP"} /\ row.ip = None
    <2>1. links[n].flags \cap {"UP"} \in SUBSET Flags
      BY <1>4 DEF Types, Typed, Link
    <2> QED BY <2>1, LinkKinds DEF Link
  <1> HIDE DEF row
  <1>7. /\ DOMAIN rows' = DOMAIN rows \cup {n} /\ rows'[n] = row
        /\ \A m \in DOMAIN rows : m # n => rows'[m] = rows[m]
    <2>1. /\ DOMAIN WithRow(n, row) = DOMAIN rows \cup {n} /\ WithRow(n, row)[n] = row
          /\ \A m \in DOMAIN rows : m # n => WithRow(n, row)[m] = rows[m]
      BY DEF WithRow
    <2> QED BY <1>5, <2>1
  <1>8. Present' = Present
    BY <1>2 DEF Present
  <1>9. ASSUME NEW m \in DOMAIN rows' PROVE RowIsRead(m)'
    <2>1. CASE m = n
      BY <1>2, <1>6, <1>7, <2>1 DEF RowIsRead
    <2>2. CASE m # n
      BY <1>2, <1>4, <1>7, <2>2 DEF ReadSoFar, RowIsRead
    <2> QED BY <2>1, <2>2
  <1>10. ReadSoFar'
    BY <1>2, <1>4, <1>7, <1>8, <1>9 DEF ReadSoFar
  <1> QED BY <1>2, <1>10 DEF ShowInv, ShowIsTheLinks, Answered

LEMMA AddressShow ==
    ASSUME InterfaceConfigAssumption, Types, ShowInv, ReadAddress
    PROVE  ShowInv'
  <1> DEFINE n == ifr.name
             known == links[n].there /\ links[n].ip # None
  <1>1. /\ pc = "readip" /\ pc' = "state" /\ UNCHANGED <<links, ifr, meddled>>
        /\ listed' = listed \ {n}
        /\ \/ Succeeds(known) /\ rows' = [rows EXCEPT ![n].ip = links[n].ip]
           \/ Fails(known) /\ UNCHANGED rows
    BY DEF ReadAddress
  <1> SUFFICES ASSUME ~meddled, ~faulty' PROVE ShowInv'
    BY <1>1, NothingShown
  <1>2. ~faulty
    BY <1>1 DEF Succeeds, Fails
  <1>3. /\ ReadSoFar /\ n \in listed /\ n \in DOMAIN rows /\ n \in Names /\ links[n].there
        /\ rows \in [DOMAIN rows -> Link] /\ rows[n] \in Link /\ links[n] \in Link
    BY <1>1, <1>2 DEF ShowInv, ReadSoFar, Present, Types, Typed, Control
  <1>4. /\ DOMAIN rows' = DOMAIN rows
        /\ \A m \in DOMAIN rows : m # n => rows'[m] = rows[m]
        /\ rows'[n].flags = rows[n].flags /\ rows'[n].ip = links[n].ip
    <2>1. CASE Fails(known) /\ UNCHANGED rows
      BY <1>3, <2>1 DEF Fails, ReadSoFar, RowIsRead
    <2>2. CASE rows' = [rows EXCEPT ![n].ip = links[n].ip]
      <3>1. links[n].ip \in Addresses \cup {None}
        BY <1>3 DEF Link
      <3>2. rows'[n] = [rows[n] EXCEPT !.ip = links[n].ip]
        BY <1>3, <2>2
      <3>3. DOMAIN rows' = DOMAIN rows /\ \A m \in DOMAIN rows : m # n => rows'[m] = rows[m]
        BY <1>3, <2>2
      <3>4. rows'[n].flags = rows[n].flags /\ rows'[n].ip = links[n].ip
        BY <1>3, <3>1, <3>2, LinkChanges
      <3> QED BY <3>3, <3>4
    <2> QED BY <1>1, <2>1, <2>2
  <1>5. Present' = Present
    BY <1>1 DEF Present
  <1> HIDE DEF n, known
  <1>6. ASSUME NEW m \in DOMAIN rows' PROVE RowIsRead(m)'
    <2>1. CASE m = n
      BY <1>1, <1>3, <1>4, <2>1 DEF ReadSoFar, RowIsRead
    <2>2. CASE m # n
      BY <1>1, <1>3, <1>4, <2>2 DEF ReadSoFar, RowIsRead
    <2> QED BY <2>1, <2>2
  <1>7. listed \cap DOMAIN rows = {n}
    BY <1>1, <1>3 DEF ReadSoFar, n
  <1>8. ReadSoFar'
    BY <1>1, <1>3, <1>4, <1>5, <1>6, <1>7 DEF ReadSoFar
  <1> QED BY <1>1, <1>8 DEF ShowInv, ShowIsTheLinks, Answered

LEMMA DoneShow ==
    ASSUME InterfaceConfigAssumption, Types, ShowInv, ListDone
    PROVE  ShowInv'
  <1>1. /\ pc = "state" /\ listed = {} /\ pc' = "answer"
        /\ UNCHANGED <<links, listed, rows, meddled, faulty>>
    BY DEF ListDone
  <1> SUFFICES ASSUME ~meddled, ~faulty PROVE ShowInv'
    BY <1>1, NothingShown
  <1>2. ReadSoFar
    BY <1>1 DEF ShowInv
  <1>3. DOMAIN rows = Present
    BY <1>1, <1>2 DEF ReadSoFar
  <1>4. \A n \in DOMAIN rows : /\ rows[n].ip = links[n].ip
                               /\ ("UP" \in rows[n].flags) = ("UP" \in links[n].flags)
    BY <1>1, <1>2 DEF ReadSoFar, RowIsRead
  <1> QED BY <1>1, <1>3, <1>4 DEF ShowInv, ShowIsTheLinks, Present

\* What show prints undisturbed is the links of the host, each once and with
\* its own state and address, although nn_if_get_info reads them one by one.
THEOREM ShowIsTrue == Spec => []ShowIsTheLinks
  <1>1. Init => ShowInv
    BY DEF Init, ShowInv, ShowIsTheLinks, Answered
  <1>2. Types /\ ShowInv /\ [Next]_vars => ShowInv'
    <2> SUFFICES ASSUME Types, ShowInv, [Next]_vars PROVE ShowInv'
      OBVIOUS
    <2>1. CASE Startup
      <3>1. pc' \in {"exists", "create", "getflags", "entry", "idle", "failed"}
        BY <2>1 DEF Startup, LoadConfigFile, NoConfigFile, LinkExists, CreatePair, BringPeerUp,
                    PairIsUp, StartWorker, NextEntry
      <3> QED BY <3>1, NothingShown
    <2>2. CASE Request
      <3>1. ASSUME NEW name \in Logical, Interface(name) PROVE ShowInv'
        BY <3>1, NothingShown DEF Interface, Take
      <3>2. ASSUME NEW name \in Logical \cup {None}, Show(name) PROVE ShowInv'
        BY <3>2, NothingShown DEF Show, Take
      <3>3. ASSUME NEW ip \in Addresses \cup {Zero, Refused}, NEW mask \in Masks \cup {Refused},
                   IpAddress(ip, mask)
            PROVE  ShowInv'
        BY <3>3, NothingShown DEF IpAddress, Take
      <3>4. ASSUME NEW up \in BOOLEAN, Shutdown(up) PROVE ShowInv'
        BY <3>4, NothingShown DEF Shutdown, Take
      <3> QED BY <2>2, RequestCases, <3>1, <3>2, <3>3, <3>4
    <2>3. CASE GetFlags \/ SetFlags
      <3>1. /\ UNCHANGED cmd /\ pc' \in {"setflags", ifr.next}
            /\ ifr.next \in {"peer", "entry"} \/ (ifr.next = "answer" /\ cmd.op = "shutdown")
        BY <2>3, StateWritten, InterfaceConfigAssumption
        DEF GetFlags, SetFlags, Types, Control, SettingState, BringingUp, ShuttingDown
      <3> QED BY <3>1, NothingShown
    <2>4. CASE LookUp \/ SetAddress \/ SetNetmask \/ ShowUnnamed \/ Answer
      <3>1. \/ pc' \in {"netmask", "idle"}
            \/ /\ pc' = "answer"
               /\ cmd'.op \in {"interface", "address"} \/ cmd'.name = FirstLogical
        BY <2>4 DEF LookUp, SetAddress, SetNetmask, ShowUnnamed, Answer, Types, Control
      <3> QED BY <3>1, NothingShown
    <2>5. CASE ListLinks \/ ReadState \/ ReadAddress \/ ListDone
      BY <2>5, ListShow, StateShow, AddressShow, DoneShow, InterfaceConfigAssumption
    <2>6. CASE HostStep
      BY <2>6, HostTypes, NothingShown
    <2>7. CASE UNCHANGED vars
      BY <2>7 DEF vars, modVars, ShowInv, ReadSoFar, RowIsRead, ShowIsTheLinks, Answered, Present
    <2> QED BY <2>1, <2>2, <2>3, <2>4, <2>5, <2>6, <2>7 DEF Next, ModuleStep, Handle
  <1>3. ShowInv => ShowIsTheLinks
    BY DEF ShowInv, ShowIsTheLinks, Answered
  <1> QED BY WellTyped, <1>1, <1>2, <1>3, PTL DEF Spec
==============================================================================
