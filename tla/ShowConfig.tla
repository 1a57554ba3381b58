----------------------------- MODULE ShowConfig -----------------------------
(***************************************************************************)
(* "show current-configuration" beside the configuration commands: the CFG *)
(* thread walks the registered templates and reads the database for each,  *)
(* while the BGP worker may still perform commands whose sessions gave up  *)
(* on them.  BgpConfig has the commands, the worker and the rows; here are *)
(* the registration of the templates (cfg/nn_cli_xml_parser.c,             *)
(* cfg/nn_config_template.c) and the renderer                              *)
(* (cfg/nn_cfg_template_renderer.c).                                       *)
(*                                                                         *)
(* Whether a template has data and what the data is are two statements,    *)
(* and each template of one show asks again.                               *)
(***************************************************************************)
EXTENDS BgpConfig, FiniteSets

CONSTANTS
    Defs,       \* the <template-def>s in the order of the XML
    Bodies,     \* the <template>s in that order, with the tables of their db
    Table,      \* the one table that is defined, bgp_db.bgp_protocol
    MaxShows    \* bound of the exploration: shows typed

VARIABLES
    show,       \* the walk of nn_cfg_template_renderer_render_all, and its text
    shows       \* shows typed

showVars == <<vars, show, shows>>

(***************************************************************************)
(* The templates                                                           *)
(***************************************************************************)

\* parse_config_templates_node: the elements of a template-def get a template
\* too, and of two definitions with one name the later replaces the earlier.
Templates ==
    {Defs[i].name : i \in DOMAIN Defs}
    \cup UNION {{Defs[i].children[j] : j \in DOMAIN Defs[i].children} :
                    i \in DOMAIN Defs}

LastOf(list, n) ==
    LET named == {i \in DOMAIN list : list[i].name = n}
    IN  CHOOSE i \in named : \A j \in named : j <= i

IsDefined(n) == \E i \in DOMAIN Defs : Defs[i].name = n
HasBody(n)   == \E i \in DOMAIN Bodies : Bodies[i].name = n

Template(n) ==
    [priority |-> IF IsDefined(n) THEN Defs[LastOf(Defs, n)].priority ELSE 0,
     children |-> IF IsDefined(n) THEN Defs[LastOf(Defs, n)].children ELSE <<>>,
     tables   |-> IF HasBody(n) THEN Bodies[LastOf(Bodies, n)].tables ELSE {}]

Registry == [n \in Templates |-> Template(n)]

\* nn_config_template_get_all sorts by falling priority; those without one are
\* rendered as children only.
TopLevels ==
    LET tops == {n \in Templates : Registry[n].priority > 0}
    IN  CHOOSE q \in [1..Cardinality(tops) -> tops] :
            \A i, j \in DOMAIN q : i < j =>
                /\ q[i] # q[j]
                /\ Registry[q[i]].priority >= Registry[q[j]].priority

(***************************************************************************)
(* The renderer                                                            *)
(***************************************************************************)

NoShow == [on |-> FALSE, todo |-> <<>>, checked |-> FALSE, text |-> <<>>,
           seen |-> {}, failed |-> FALSE]

\* seen and failed record what a show could have met while it ran.
NewShow == [NoShow EXCEPT !.on = TRUE, !.todo = TopLevels, !.seen = {Configured}]

CfgThreadFree == phase = "up" /\ asking = NoQuery /\ ~show.on

\* Mutant: the text of the last show is still in the cache.
StartShowInOldCache ==
    /\ CfgThreadFree /\ shows < MaxShows
    /\ show' = [NewShow EXCEPT !.text = show.text]
    /\ shows' = shows + 1
    /\ UNCHANGED vars

\* The command is CFG's own: it is performed by the CFG thread at once.
StartShow ==
    /\ CfgThreadFree /\ shows < MaxShows
    /\ show' = NewShow
    /\ shows' = shows + 1
    /\ UNCHANGED vars

Current == Registry[Head(show.todo)]

Rendering == show.on /\ show.todo # <<>>

Skipped == [show EXCEPT !.todo = Tail(show.todo)]

\* template_has_data: nn_db_exists on the tables of the body.  A template
\* without data is skipped with all its children.
HasData ==
    /\ Rendering /\ ~show.checked
    /\ Table \in Current.tables /\ Works
    /\ DOMAIN file.rows # {}
    /\ show' = [show EXCEPT !.checked = TRUE]
    /\ UNCHANGED <<vars, shows>>

HasNoData ==
    /\ Rendering /\ ~show.checked
    /\ \/ Table \notin Current.tables
       \/ Works /\ DOMAIN file.rows = {}
    /\ show' = Skipped
    /\ UNCHANGED <<vars, shows>>

\* An error is not told from an empty table.
CheckFails ==
    /\ Rendering /\ ~show.checked
    /\ Table \in Current.tables /\ MayFail
    /\ show' = [Skipped EXCEPT !.failed = TRUE]
    /\ UNCHANGED <<vars, shows>>

\* One line per template: the number of the first row, or the {variable} as it
\* stands when there is none.  Then the children.
Rendered(as) ==
    [show EXCEPT !.text = Append(show.text, [template |-> Head(show.todo), as |-> as]),
                 !.todo = Current.children \o Tail(show.todo),
                 !.checked = FALSE]

\* Mutant: the children are left out.
RenderAlone ==
    /\ Rendering /\ show.checked /\ Works
    /\ show' = [Rendered(Configured) EXCEPT !.todo = Tail(show.todo)]
    /\ UNCHANGED <<vars, shows>>

RenderTemplate ==
    /\ Rendering /\ show.checked /\ Works
    /\ show' = Rendered(Configured)
    /\ UNCHANGED <<vars, shows>>

QueryFails ==
    /\ Rendering /\ show.checked /\ MayFail
    /\ show' = [Rendered(None) EXCEPT !.failed = TRUE]
    /\ UNCHANGED <<vars, shows>>

\* The text goes to the session's pager.
EndShow ==
    /\ show.on /\ show.todo = <<>>
    /\ show' = [show EXCEPT !.on = FALSE]
    /\ UNCHANGED <<vars, shows>>

ShowStep ==
    StartShow \/ HasData \/ HasNoData \/ CheckFails \/ RenderTemplate
    \/ QueryFails \/ EndShow

(***************************************************************************)
(* Beside the rest of the daemon                                           *)
(***************************************************************************)

\* While it renders, the CFG thread serves no session.
SessionStep ==
    /\ ~show.on
    /\ \/ \E s \in Sessions : Exit(s) \/ \E cmd \in Typed : Ask(s, cmd)
       \/ Timeout \/ Receive
    /\ UNCHANGED <<show, shows>>

WorkerBeside ==
    /\ WorkerStep
    /\ show' = IF show.on THEN [show EXCEPT !.seen = @ \cup {ValueIn(file'.rows)}]
               ELSE show
    /\ UNCHANGED shows

StartBeside == Start /\ UNCHANGED <<show, shows>>

RestartAll == Restart /\ show' = NoShow /\ UNCHANGED shows

ShowInit == Init /\ show = NoShow /\ shows = 0

ShowNext == ShowStep \/ SessionStep \/ WorkerBeside \/ StartBeside \/ RestartAll

ShowSpec == ShowInit /\ [][ShowNext]_showVars

(***************************************************************************)
(* Properties                                                              *)
(***************************************************************************)

\* Whatever happens to the row meanwhile, a line shows a number that was
\* configured at some moment of this show; the bare {variable} stands only
\* where there was no row at some moment, or the database refused.
ShownWasConfigured ==
    \A i \in DOMAIN show.text :
        \/ show.text[i].as \in show.seen
        \/ show.failed /\ show.text[i].as = None

\* The templates a configuration shows in: those with a top level above them
\* and data on the whole way.
ShownTemplates ==
    LET withData == {n \in Templates : Table \in Registry[n].tables}
        Closed(S) ==
            /\ \A n \in withData : Registry[n].priority > 0 => n \in S
            /\ \A n \in S : \A i \in DOMAIN Registry[n].children :
                 Registry[n].children[i] \in withData => Registry[n].children[i] \in S
    IN  {n \in withData : \A S \in SUBSET withData : Closed(S) => n \in S}

Position(n) == CHOOSE i \in DOMAIN show.text : show.text[i].template = n

\* A show during which the configuration did not change and no statement failed
\* lists it in full: nothing for no row, else every template that has data,
\* parents before children and top levels by priority, with the number.
UnchangedIsShownInFull ==
    (shows > 0 /\ ~show.on /\ ~show.failed /\ Cardinality(show.seen) = 1) =>
        LET templates == {show.text[i].template : i \in DOMAIN show.text}
        IN  /\ templates = IF None \in show.seen THEN {} ELSE ShownTemplates
            /\ Len(show.text) = Cardinality(templates)
            /\ \A i \in DOMAIN show.text : show.text[i].as \in show.seen
            /\ \A n \in templates : \A i \in DOMAIN Registry[n].children :
                 Registry[n].children[i] \in templates =>
                    Position(n) < Position(Registry[n].children[i])
            /\ \A m, n \in templates :
                 Registry[m].priority > Registry[n].priority
                    /\ Registry[n].priority > 0 => Position(m) < Position(n)
=============================================================================
