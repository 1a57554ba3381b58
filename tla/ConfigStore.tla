---------------------------- MODULE ConfigStore ----------------------------
(***************************************************************************)
(* What the commands "bgp <as>", "no bgp <as>", "no bgp" and "show bgp"    *)
(* promise of the stored configuration: a single AS number or none,        *)
(* changed by one request at a time in the order they were made, and by    *)
(* nothing else.  A request may be refused, and a restart loses those not  *)
(* yet performed but not what was configured before.                       *)
(***************************************************************************)
EXTENDS Sequences

CONSTANTS Numbers, None

VARIABLES
    configured,     \* the AS number, or None
    pending         \* the requests not yet performed

vars == <<configured, pending>>

Set(n)    == [op |-> "set", as |-> n]
Delete(n) == [op |-> "delete", as |-> n]
Clear     == [op |-> "clear", as |-> None]
Show      == [op |-> "show", as |-> None]
Requests  ==
    {Set(n) : n \in Numbers} \cup {Delete(n) : n \in Numbers} \cup {Clear, Show}

\* The configuration after a request.
After(value, r) ==
    CASE r.op = "set" -> r.as
      [] r.op = "delete" -> IF value = r.as THEN None ELSE value
      [] r.op = "clear" -> None
      [] r.op = "show" -> value

Init == configured = None /\ pending = <<>>

Ask(r) == pending' = Append(pending, r) /\ UNCHANGED configured

Take == pending # <<>> /\ pending' = Tail(pending)

Perform == Take /\ configured' = After(configured, Head(pending))

Refuse == Take /\ UNCHANGED configured

Restart == pending' = <<>> /\ UNCHANGED configured

Next == (\E r \in Requests : Ask(r)) \/ Perform \/ Refuse \/ Restart

Spec == Init /\ [][Next]_vars
=============================================================================
