----------------------------- MODULE CommandTree -----------------------------
(***************************************************************************)
(* How the CFG module makes the command trees of its views out of the      *)
(* commands.xml of the modules, and how a line a user typed is looked up   *)
(* in them: nn_cli_xml_parser.c, nn_cli_tree.c, nn_cli_element.c,          *)
(* nn_cli_view.c, and the choice of an answer in process_command.          *)
(*                                                                         *)
(* A file names the views it brings and its commands; a command is an      *)
(* expression over the numbered elements of its group and the views it is  *)
(* for.  Its expression becomes a tree of its own, which is then merged    *)
(* into the tree of its view, or into the tree of the commands for every   *)
(* view, and that tree is merged into each view at the end of every file.  *)
(* The order of the files is the order in which the linker ran the         *)
(* constructors that registered them, so any order is possible; a file may *)
(* be missing.                                                             *)
(*                                                                         *)
(* Words are model data.  What the code asks of a word is whether a name   *)
(* begins with it (Abbreviates) and what a parameter type sees of it       *)
(* (Shape).  Every parameter of this commit has a type; every command of   *)
(* it is for every view or for one (OneView), and a command for two would  *)
(* be cloned for the second from nodes the first merge may have freed.     *)
(***************************************************************************)
EXTENDS Integers, SequencesExt, FiniteSetsExt

CONSTANTS
    Files,       \* a set of [module, views, commands]
    ParamType,   \* the type of each parameter, by its name
    Abbreviates, \* the pairs <<word, name>> of a name and a proper prefix
    Shape,       \* the words users give as parameters, and what a type sees
    Typed        \* the lines users type, as sequences of words

Global == 1      \* NN_CFG_CLI_VIEW_GLOBAL
UserView == 2    \* NN_CFG_CLI_VIEW_USER
ConfigView == 3  \* NN_CFG_CLI_VIEW_CONFIG

ASSUME OneView ==
    \A f \in Files : \A c \in ToSet(f.commands) :
        c.views[1] = Global \/ Len(c.views) = 1

VARIABLES
    toLoad,  \* the files that are not opened yet
    loaded,  \* the files that are merged into the views
    file,    \* the file being read, as a set of at most one
    next,    \* the number of the command to read in it
    global,  \* the tree of the commands for every view
    views    \* the tree of each view there is

vars == <<toLoad, loaded, file, next, global, views>>

-----------------------------------------------------------------------------
(* Trees.  A tree is the sequence of the children of its root.             *)

Node(element, owner) ==
    [name |-> element.name, id |-> element.id, owner |-> owner,
     end |-> FALSE, kids |-> <<>>]

StartsWith(name, word) == word = name \/ <<word, name>> \in Abbreviates

\* The first child whose name begins with the given one, 0 if there is none.
FindChild(kids, name) == SelectInSeq(kids, LAMBDA k : StartsWith(k.name, name))

\* A node whose name is found gives its children to the one found and is
\* dropped with all the rest it knows: its end mark, its owner, its id.
RECURSIVE AddChild(_, _), AddChildren(_, _)
\* Mutant: a new node for every command, without looking for one of its name.
AddUnseen(kids, node) == Append(kids, node)
AddChild(kids, node) ==
    LET at == FindChild(kids, node.name)
    IN  IF at = 0 THEN Append(kids, node)
        ELSE [kids EXCEPT ![at].kids = AddChildren(@, node.kids)]
AddChildren(kids, nodes) ==
    IF nodes = <<>> THEN kids
    ELSE AddChildren(AddChild(kids, Head(nodes)), Tail(nodes))

RECURSIVE Clone(_)
\* Mutant: the copy of a command does not end a line.
CloneUnended(node) == [node EXCEPT !.end = FALSE]
Clone(node) ==
    [node EXCEPT !.kids = AddChildren(<<>>, [i \in DOMAIN @ |-> Clone(@[i])])]

-----------------------------------------------------------------------------
(* Expressions, as parse_expr reads them: a number, a bracket, or several   *)
(* of them in a row.                                                       *)

Element(number) == [op |-> "element", number |-> number]
Optional(alternatives) == [op |-> "optional", items |-> alternatives]
Required(alternatives) == [op |-> "required", items |-> alternatives]
InARow(items) ==
    IF Len(items) = 1 THEN items[1] ELSE [op |-> "sequence", items |-> items]

(* A leaf is the place of a node under the virtual root: the position of   *)
(* the child to take at each level.                                        *)

RECURSIVE KidsAt(_, _), AddAt(_, _, _), MarkEnd(_, _)
KidsAt(kids, place) ==
    IF place = <<>> THEN kids ELSE KidsAt(kids[Head(place)].kids, Tail(place))
AddAt(kids, place, node) ==
    IF place = <<>> THEN AddChild(kids, node)
    ELSE [kids EXCEPT ![Head(place)].kids = AddAt(@, Tail(place), node)]
MarkEnd(kids, place) ==
    IF Len(place) = 1 THEN [kids EXCEPT ![place[1]].end = TRUE]
    ELSE [kids EXCEPT ![Head(place)].kids = MarkEnd(@, Tail(place))]

\* made: the tree so far and the leaves the next item hangs under
AttachTo(made, node) ==
    LET kids == FoldSet(LAMBDA leaf, k : AddAt(k, leaf, node),
                        made.kids, made.leaves)
        Found(leaf) == Append(leaf, FindChild(KidsAt(kids, leaf), node.name))
    IN  [kids |-> kids, leaves |-> {Found(leaf) : leaf \in made.leaves}]

RECURSIVE Build(_, _, _, _), BuildInARow(_, _, _, _), BuildEach(_, _, _, _)
Build(expr, made, elements, owner) ==
    CASE expr.op = "element" ->
           IF expr.number \notin DOMAIN elements THEN made
           ELSE AttachTo(made, Node(elements[expr.number], owner))
      [] expr.op = "sequence" -> BuildInARow(expr.items, made, elements, owner)
      [] expr.op = "required" -> BuildEach(expr.items, made, elements, owner)
      [] expr.op = "optional" ->
           LET each == BuildEach(expr.items, made, elements, owner)
           IN  [each EXCEPT !.leaves = @ \cup made.leaves]
BuildInARow(items, made, elements, owner) ==
    IF items = <<>> THEN made
    ELSE BuildInARow(Tail(items), Build(Head(items), made, elements, owner),
                     elements, owner)
BuildEach(items, made, elements, owner) ==
    IF items = <<>> THEN [made EXCEPT !.leaves = {}]
    ELSE LET one == Build(Head(items), made, elements, owner)
             others == BuildEach(Tail(items), [made EXCEPT !.kids = one.kids],
                                 elements, owner)
         IN  [others EXCEPT !.leaves = @ \cup one.leaves]

\* The tree of a command: its last leaves, but not the root, end a line.
BuildTree(command, module) ==
    LET owner == [module |-> module, group |-> command.group, view |-> command.to]
        made == Build(command.expr, [kids |-> <<>>, leaves |-> {<<>>}],
                      command.elements, owner)
    IN  FoldSet(LAMBDA leaf, k : MarkEnd(k, leaf), made.kids, made.leaves \ {<<>>})

-----------------------------------------------------------------------------
(* Looking a line up.                                                      *)

ValidString(type, shape) == type.min <= shape.length /\ shape.length <= type.max
\* shape.number is -1 for a word that is not all digits
ValidUint(type, shape) ==
    shape.number >= 0 /\ type.min <= shape.number /\ shape.number <= type.max
ValidIp(shape) == shape.address

\* A word that is in no list is a name: short, no number, no address.
Seen(word) ==
    IF word \in DOMAIN Shape THEN Shape[word]
    ELSE [length |-> 1, number |-> -1, address |-> FALSE]

Validate(type, word) ==
    CASE type.kind = "string" -> ValidString(type, Seen(word))
      [] type.kind = "uint"   -> ValidUint(type, Seen(word))
      [] type.kind = "ip"     -> ValidIp(Seen(word))

IsArgument(node) == node.name \in DOMAIN ParamType

\* Mutant: the last node that fits is taken.
FindLast(kids, word) ==
    SelectLastInSeq(kids, LAMBDA k :
        IF IsArgument(k) THEN Validate(ParamType[k.name], word)
        ELSE StartsWith(k.name, word))

\* Mutant: a parameter takes any word.
FindUnchecked(kids, word) ==
    LET keyword == SelectInSeq(kids, LAMBDA k :
                       ~ IsArgument(k) /\ StartsWith(k.name, word))
    IN  IF keyword # 0 THEN keyword ELSE SelectInSeq(kids, IsArgument)

\* A keyword that begins with the word, else a parameter that accepts it.
FindToken(kids, word) ==
    LET keyword == SelectInSeq(kids, LAMBDA k :
                       ~ IsArgument(k) /\ StartsWith(k.name, word))
    IN  IF keyword # 0 THEN keyword
        ELSE SelectInSeq(kids, LAMBDA k :
                 IsArgument(k) /\ Validate(ParamType[k.name], word))

Refused == [owner |-> [module |-> 0, group |-> 0, view |-> 0], ids |-> <<>>]

\* The module and group of the last node and the ids met on the way, for the
\* module to tell its commands apart and find its values.
RECURSIVE Match(_, _, _, _)
Match(kids, line, node, ids) ==
    IF line = <<>>
    THEN IF node.end THEN [owner |-> node.owner, ids |-> ids] ELSE Refused
    ELSE LET at == FindToken(kids, Head(line))
         IN  IF at = 0 THEN Refused
             ELSE Match(kids[at].kids, Tail(line), kids[at],
                        IF kids[at].id = 0 THEN ids ELSE Append(ids, kids[at].id))

\* What process_command makes of a line in a view: who gets it, or nobody.
AnswerOf(kids, line) == Match(kids, line, [end |-> FALSE], <<>>)
Answer(v, line) == AnswerOf(views[v], line)

-----------------------------------------------------------------------------
(* Loading.                                                                *)

Init ==
    /\ toLoad = Files
    /\ loaded = {}
    /\ file = {}
    /\ next = 0
    /\ global = <<>>
    /\ views = [v \in {UserView, ConfigView} |-> <<>>]

\* A file that cannot be read is counted as failed and passed over.
Unreadable(f) ==
    /\ file = {}
    /\ toLoad' = toLoad \ {f}
    /\ UNCHANGED <<loaded, file, next, global, views>>

\* A new view has an empty tree; a view that is there already is kept.
WithViews(ids) ==
    [v \in DOMAIN views \cup ids |-> IF v \in DOMAIN views THEN views[v] ELSE <<>>]

\* The views of a file come before its commands.
StartFile(f) ==
    /\ file = {}
    /\ toLoad' = toLoad \ {f}
    /\ file' = {f}
    /\ next' = 1
    /\ views' = WithViews(f.views)
    /\ UNCHANGED <<loaded, global>>

\* A command for a view there is none of is dropped.
RegisterCommand(f) ==
    /\ next <= Len(f.commands)
    /\ next' = next + 1
    /\ LET command == f.commands[next]
           tree == BuildTree(command, f.module)
           target == command.views[1]
       IN  IF target = Global
           THEN global' = AddChildren(global, tree) /\ UNCHANGED views
           ELSE /\ views' = [v \in DOMAIN views |->
                               IF v = target THEN AddChildren(views[v], tree)
                               ELSE views[v]]
                /\ UNCHANGED global
    /\ UNCHANGED <<toLoad, loaded, file>>

MergeGlobal(kids) == AddChildren(kids, [i \in DOMAIN global |-> Clone(global[i])])

FinishFile(f) ==
    /\ next > Len(f.commands)
    /\ views' = [v \in DOMAIN views |-> MergeGlobal(views[v])]
    /\ file' = {}
    /\ next' = 0
    /\ loaded' = loaded \cup {f}
    /\ UNCHANGED <<toLoad, global>>

AllLoaded == toLoad = {} /\ file = {} /\ UNCHANGED vars

Next ==
    \/ \E f \in toLoad : StartFile(f) \/ Unreadable(f)
    \/ \E f \in file : RegisterCommand(f) \/ FinishFile(f)
    \/ AllLoaded

Spec == Init /\ [][Next]_vars

-----------------------------------------------------------------------------
(* What an expression says, without trees: the sequences of elements that   *)
(* make a line of the command.                                             *)

RECURSIVE PathsOf(_, _)
PathsOf(expr, elements) ==
    CASE expr.op = "element" -> {<<elements[expr.number]>>}
      [] expr.op = "sequence" ->
           FoldLeft(LAMBDA paths, item :
                        {p \o q : p \in paths, q \in PathsOf(item, elements)},
                    {<<>>}, expr.items)
      [] expr.op = "required" ->
           UNION {PathsOf(item, elements) : item \in ToSet(expr.items)}
      [] expr.op = "optional" ->
           {<<>>} \cup UNION {PathsOf(item, elements) : item \in ToSet(expr.items)}

Paths(c) == PathsOf(c.expr, c.elements) \ {<<>>}
ViewsOf(c) == IF c.views[1] = Global THEN DOMAIN views ELSE {c.views[1]}

\* The answer a line of this path of this command should get.
Due(f, c, path) ==
    [owner |-> [module |-> f.module, group |-> c.group, view |-> c.to],
     ids |-> SelectSeq([i \in DOMAIN path |-> path[i].id], LAMBDA id : id # 0)]

DueIn(v) ==
    UNION {UNION {{[path |-> p, answer |-> Due(f, c, p)] : p \in Paths(c)} :
                    c \in {c \in ToSet(f.commands) : v \in ViewsOf(c)}} :
             f \in loaded \cup file}

IsParameter(element) == element.name \in DOMAIN ParamType
Abbreviated == {p[1] : p \in Abbreviates}

\* What a user can mean by an element: its name in full, or a valid word that
\* is not also the beginning of a keyword.
InFull(element) ==
    IF IsParameter(element)
    THEN {w \in DOMAIN Shape \ Abbreviated : Validate(ParamType[element.name], w)}
    ELSE {element.name}

Accepts(element, word) ==
    IF IsParameter(element) THEN Validate(ParamType[element.name], word)
    ELSE StartsWith(element.name, word)

Spell(path, Words(_)) ==
    FoldLeft(LAMBDA lines, e : {Append(l, w) : l \in lines, w \in Words(e)},
             {<<>>}, path)

-----------------------------------------------------------------------------
(* Properties.                                                             *)

RECURSIVE IsTree(_)
IsTree(kids) ==
    /\ \A i \in DOMAIN kids :
          /\ kids[i].end \in BOOLEAN
          /\ IsTree(kids[i].kids)
    /\ \A j \in DOMAIN kids : \A i \in 1 .. j - 1 :
          ~ StartsWith(kids[i].name, kids[j].name)

\* The trees are trees, and no child hides a later one from nn_cli_tree_
\* find_child: a name has one node under its parent, however many commands
\* of however many files use it (nn_cli_tree_add_child).
TypeOK ==
    /\ toLoad \subseteq Files /\ loaded \subseteq Files /\ file \subseteq Files
    /\ Cardinality(file) <= 1
    /\ next \in Nat
    /\ \A v \in DOMAIN views : IsTree(views[v])
    /\ IsTree(global)

\* Between two files, every line of every command read so far is taken, in
\* every view it is for, to its own module and group, with its own ids and
\* the view it leads to: no merge of another file's commands, in any order,
\* loses an end mark or puts a foreign node in its way (nn_cli_tree.c:59-73,
\* nn_cli_xml_parser.c:1014).
ServesItsCommands ==
    file = {} =>
        \A f \in loaded : \A c \in ToSet(f.commands) :
        \A v \in ViewsOf(c) \cap DOMAIN views : \A path \in Paths(c) :
        \A line \in Spell(path, InFull) : Answer(v, line) = Due(f, c, path)

\* Whatever is typed, also abbreviated, cut short or with a bad value, a view
\* answers it only as a line of a command it was given, word by word, and
\* with what that command is due (process_command,
\* nn_cli_tree_match_command_full).
AnswersOnlyItsCommands ==
    \A v \in DOMAIN views :
        LET due == DueIn(v)
        IN  \A line \in Typed :
              LET answer == Answer(v, line)
              IN  answer # Refused =>
                    \E d \in due :
                      /\ answer = d.answer
                      /\ Len(d.path) = Len(line)
                      /\ \A i \in DOMAIN line : Accepts(d.path[i], line[i])

\* Loading more never changes what a line already means, not even that of an
\* abbreviation another file's keyword also fits: children are only appended
\* and the first that fits is taken (nn_cli_tree.c:92, 126-134).
LinesStay ==
    [][\A v \in {w \in DOMAIN views : views'[w] # views[w]} :
       \A after \in {views'[v]} : \A line \in Typed :
          Answer(v, line) # Refused => AnswerOf(after, line) = Answer(v, line)]_vars
=============================================================================
