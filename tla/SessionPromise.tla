----------------------------- MODULE SessionPromise ------------------------------
(***************************************************************************)
(* What refresh tokens promise a merchant, without requests, tables or     *)
(* clocks: a login opens a session with one token, a refresh trades the    *)
(* valid token of an open session for one that was never issued before,    *)
(* and a session that is closed stays closed.  A session is named by the   *)
(* token of its login.                                                     *)
(***************************************************************************)
CONSTANT Tokens

VARIABLES
    issued,  \* tokens handed out so far
    valid    \* for each session, the tokens a refresh would be accepted with

vars == <<issued, valid>>

Init == issued = {} /\ valid = [f \in Tokens |-> {}]

Issue(f, k) ==
    /\ k \in Tokens \ issued
    /\ issued' = issued \cup {k}
    /\ valid' = [valid EXCEPT ![f] = {k}]

Open(k) == Issue(k, k)

Renew(f) ==
    /\ valid[f] # {}
    /\ \E k \in Tokens : Issue(f, k)

\* Logout, a password change or time close one session or several.
Close(F) ==
    /\ valid' = [f \in Tokens |-> IF f \in F THEN {} ELSE valid[f]]
    /\ UNCHANGED issued

Next ==
    \/ \E k \in Tokens : Open(k) \/ Renew(k)
    \/ \E F \in SUBSET Tokens : Close(F)

Spec == Init /\ [][Next]_vars
================================================================================
