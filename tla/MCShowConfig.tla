---------------------------- MODULE MCShowConfig ----------------------------
(* Constants for TLC: sessions and AS numbers are interchangeable.  The        *)
(* templates are those of BGP's XML, of whose two address families one has a   *)
(* body on a table nobody defines and one none, with two more: a child that    *)
(* has data, and a second top level.                                           *)
EXTENDS ShowConfig, TLC

Symmetry == Permutations(Sessions) \cup Permutations(Numbers)

MCDefs == <<[name |-> "other", priority |-> 5, children |-> <<>>],
            [name |-> "bgp", priority |-> 10,
             children |-> <<"af_ipv4", "af_ipv6", "timers">>]>>

MCBodies == <<[name |-> "bgp", tables |-> {"bgp_protocol"}],
              [name |-> "af_ipv4", tables |-> {"bgp_peer"}],
              [name |-> "timers", tables |-> {"bgp_protocol"}],
              [name |-> "other", tables |-> {"bgp_protocol"}]>>
=============================================================================
