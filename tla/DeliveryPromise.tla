---------------------------- MODULE DeliveryPromise ----------------------------
(***************************************************************************)
(* What webhook delivery promises a merchant, without requests, goroutines *)
(* or retries: an event is recorded before anything is sent, it may reach  *)
(* the endpoint more than once, and it counts as delivered, for good, only *)
(* after the endpoint accepted it.                                         *)
(***************************************************************************)
CONSTANT Events

VARIABLES recorded, accepted, delivered

vars == <<recorded, accepted, delivered>>

Init == recorded = {} /\ accepted = {} /\ delivered = {}

Record(e) ==
    /\ e \notin recorded
    /\ recorded' = recorded \cup {e}
    /\ UNCHANGED <<accepted, delivered>>

\* The endpoint answers 2xx, for the first time or again.
Accept(e) ==
    /\ e \in recorded
    /\ accepted' = accepted \cup {e}
    /\ UNCHANGED <<recorded, delivered>>

Confirm(e) ==
    /\ e \in accepted
    /\ delivered' = delivered \cup {e}
    /\ UNCHANGED <<recorded, accepted>>

Next == \E e \in Events : Record(e) \/ Accept(e) \/ Confirm(e)

Spec == Init /\ [][Next]_vars
================================================================================
