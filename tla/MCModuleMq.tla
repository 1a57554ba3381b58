----------------------------- MODULE MCModuleMq -----------------------------
(* Two senders, two messages each, for TLC. *)
EXTENDS ModuleMq
==============================================================================
