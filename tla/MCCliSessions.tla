---------------------------- MODULE MCCliSessions ----------------------------
(* The views of this commit: the user view, the config view, and the views of *)
(* BGP (with a context) and of the interfaces (without one).                  *)
EXTENDS CliSessions, TLC

CONSTANTS a1, a2

MCConns == 1..3
MCArgs == {a1, a2}
MCFds == 1..2
MCViews == {"user", "config", "bgp", "if"}
MCParent == "config" :> "user" @@ "bgp" :> "config" @@ "if" :> "config"
MCLevel == "user" :> 0 @@ "config" :> 1 @@ "bgp" :> 2 @@ "if" :> 2
MCArgsOf == "user" :> {} @@ "config" :> {} @@ "bgp" :> {a1, a2} @@ "if" :> {a1}
MCContextViews == {"bgp"}
==============================================================================
