------------------------------ MODULE MCCliQuery ------------------------------
(* The ids of the modules as nn_cfg.h numbers them. *)
EXTENDS CliQuery

ModuleIds == 1..5
==============================================================================
