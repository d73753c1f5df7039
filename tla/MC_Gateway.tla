------------------------------- MODULE MC_Gateway -------------------------------
(* Small instances of Gateway for TLC. *)
EXTENDS Gateway, TLC

Load(routes, requests, ticks, merchants) ==
    [routes |-> routes, requests |-> requests, ticks |-> ticks, merchants |-> merchants]

\* Idle clients that come back; registrations; a merchant who changes one thing
\* while its keys are exchanged; concurrent uses of a scenario; two merchants; and
\* two requests of any kind.
SmallLoads ==
    {Load({"open"}, 3, 5, 0),
     Load({"register", "keys"}, 3, 0, 0),
     Load({"keys", "profile"}, 3, 0, 1),
     Load({"scenario"}, 3, 0, 1),
     Load({"keys", "api"}, 2, 0, 2),
     Load({"register", "keys", "api", "profile", "scenario"}, 2, 0, 1)}

Symmetry == Permutations(Requests) \cup Permutations(Merchants)
================================================================================
