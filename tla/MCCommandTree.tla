---------------------------- MODULE MCCommandTree ----------------------------
(***************************************************************************)
(* The commands.xml of the five modules of this commit (src/src/*/         *)
(* resources), for TLC.                                                    *)
(***************************************************************************)
EXTENDS CommandTree

E(name) == [name |-> name, id |-> 0]
EId(name, id) == [name |-> name, id |-> id]

\* numbers in a row
N(numbers) == InARow([i \in DOMAIN numbers |-> Element(numbers[i])])

Cmd(group, elements, expr, vs) ==
    [group |-> group, elements |-> elements, expr |-> expr, views |-> vs, to |-> 0]
CmdTo(group, elements, expr, vs, view) ==
    [group |-> group, elements |-> elements, expr |-> expr, views |-> vs, to |-> view]

DevFile ==
    LET group1 == <<E("show"), E("version")>>
        group3 == <<E("show"), E("dev"), E("module")>>
        group4 == <<E("show"), E("dev"), E("module"), E("mq")>>
    IN  [module |-> 1, views |-> {}, commands |->
           <<Cmd(1, group1, N(<<1, 2>>), <<1>>),
             Cmd(3, group3, N(<<1, 2, 3>>), <<1, 3>>),
             Cmd(4, group4, N(<<1, 2, 3, 4>>), <<1, 3>>)>>]

DbFile ==
    LET group1 == <<E("show"), E("db"), EId("list", 1), EId("<db-name>", 2),
                    EId("table-list", 3), EId("table-field", 4),
                    EId("table-data", 5), EId("<table-name>", 6)>>
    IN  [module |-> 2, views |-> {}, commands |->
           <<Cmd(1, group1, N(<<1, 2, 3>>), <<1>>),
             Cmd(1, group1, N(<<1, 2, 4, 5>>), <<1>>),
             Cmd(1, group1, N(<<1, 2, 4, 6, 8>>), <<1>>),
             Cmd(1, group1, N(<<1, 2, 4, 7, 8>>), <<1>>)>>]

CfgFile ==
    LET group1 == <<E("show"), E("cli"), EId("command-info", 1),
                    EId("history", 2), EId("current-configuration", 3)>>
        group2 == <<EId("exit", 1), EId("config", 2), EId("end", 3)>>
    IN  [module |-> 3, views |-> {}, commands |->
           <<Cmd(1, group1, N(<<1, 2, 3>>), <<1>>),
             Cmd(1, group1, N(<<1, 2, 4>>), <<1>>),
             Cmd(1, group1, N(<<1, 5>>), <<1>>),
             Cmd(2, group2, N(<<1>>), <<1>>),
             Cmd(2, group2, N(<<2>>), <<2>>),
             Cmd(2, group2, N(<<3>>), <<1>>)>>]

IfFile ==
    LET group1 == <<E("if"), EId("GE-1", 1), EId("GE-2", 2), EId("GE-3", 3),
                    EId("GE-4", 4)>>
        group2 == <<E("ip"), E("address"), EId("<ip-address>", 1),
                    EId("<netmask>", 2), EId("shutdown", 3), EId("no", 4)>>
        group3 == <<E("show"), E("if"), EId("GE-1", 1), EId("GE-2", 2),
                    EId("GE-3", 3), EId("GE-4", 4)>>
        OneOf(numbers) == Required([i \in DOMAIN numbers |-> Element(numbers[i])])
    IN  [module |-> 4, views |-> {5}, commands |->
           <<CmdTo(1, group1, InARow(<<Element(1), OneOf(<<2, 3, 4, 5>>)>>),
                   <<3>>, 5),
             Cmd(2, group2, N(<<1, 2, 3, 4>>), <<5>>),
             Cmd(2, group2, N(<<5>>), <<5>>),
             Cmd(2, group2, N(<<6, 5>>), <<5>>),
             Cmd(3, group3, N(<<1, 2>>), <<1, 2, 3, 5>>),
             Cmd(3, group3,
                 InARow(<<Element(1), Element(2), OneOf(<<3, 4, 5, 6>>)>>),
                 <<1>>)>>]

BgpFile ==
    LET group1 == <<EId("no", 1), E("bgp"), EId("<as-number>", 2)>>
        group2 == <<E("show"), E("bgp"), EId("peer", 1)>>
        MaybeThird ==
            InARow(<<Element(1), Element(2), Optional(<<Element(3)>>)>>)
    IN  [module |-> 5, views |-> {4}, commands |->
           <<CmdTo(1, group1, N(<<2, 3>>), <<3>>, 4),
             Cmd(1, group1, MaybeThird, <<3>>),
             Cmd(2, group2, MaybeThird, <<1>>)>>]

MCFiles == {DevFile, DbFile, CfgFile, IfFile, BgpFile}

\* UINT32_MAX is beyond TLC's integers: the type goes up to 2^31 - 1 here.
MCParamType ==
    [p \in {"<db-name>", "<table-name>"} |->
        [kind |-> "string", min |-> 1, max |-> 63]]
    @@ ("<as-number>" :> [kind |-> "uint", min |-> 1, max |-> 2147483647])
    @@ [p \in {"<ip-address>", "<netmask>"} |-> [kind |-> "ip"]]

\* Each word is taken to begin the names listed, and no other.
MCAbbreviates ==
    {<<"s", "show">>, <<"s", "shutdown">>, <<"d", "dev">>, <<"d", "db">>,
     <<"c", "cli">>, <<"c", "config">>, <<"c", "command-info">>,
     <<"c", "current-configuration">>, <<"e", "exit">>, <<"e", "end">>,
     <<"i", "if">>, <<"i", "ip">>, <<"l", "list">>}

Word(length, number, address) ==
    [length |-> length, number |-> number, address |-> address]
MCShape ==
    "bgp_db" :> Word(6, -1, FALSE) @@ "l" :> Word(1, -1, FALSE)
    @@ "long" :> Word(64, -1, FALSE) \* stands for a word of 64 characters
    @@ "0" :> Word(1, 0, FALSE) @@ "65001" :> Word(5, 65001, FALSE)
    @@ "10.0.0.1" :> Word(8, -1, TRUE)

\* The longest lines of the commands: the beginnings of a line are lines too.
MCLines ==
    {<<"show", "version">>, <<"show", "dev", "module", "mq">>,
     <<"show", "db", "list">>, <<"show", "db", "<db-name>", "table-list">>,
     <<"show", "db", "<db-name>", "table-field", "<table-name>">>,
     <<"show", "db", "<db-name>", "table-data", "<table-name>">>,
     <<"show", "cli", "command-info">>, <<"show", "cli", "history">>,
     <<"show", "current-configuration">>, <<"exit">>, <<"config">>, <<"end">>,
     <<"if", "GE-1">>, <<"if", "GE-4">>, <<"show", "if", "GE-2">>,
     <<"ip", "address", "<ip-address>", "<netmask>">>, <<"shutdown">>,
     <<"no", "shutdown">>, <<"bgp", "<as-number>">>,
     <<"no", "bgp", "<as-number>">>, <<"show", "bgp", "peer">>}

\* A user writes a name in full or shortened, and good or bad words for a
\* parameter.
MCWords ==
    [p \in {"<db-name>", "<table-name>"} |-> {"bgp_db", "l", "long"}]
    @@ ("<as-number>" :> {"65001", "0", "l"})
    @@ [p \in {"<ip-address>", "<netmask>"} |-> {"10.0.0.1", "65001"}]
Spellings(name) ==
    IF name \in DOMAIN MCWords THEN MCWords[name]
    ELSE {name} \cup {a[1] : a \in {b \in MCAbbreviates : b[2] = name}}

\* (the filter makes TLC keep the set instead of computing it in every state)
MCTyped ==
    {words \in UNION {Spell(line, Spellings) :
                        line \in UNION {Prefixes(l) : l \in MCLines}} :
        words # <<>>}
=============================================================================
