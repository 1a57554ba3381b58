----------------------------- MODULE MCLifecycle -----------------------------
(* The modules whose failure to start the others survive: all but DEV. *)
EXTENDS Lifecycle

AllButDev == Modules \ {DEV}
==============================================================================
