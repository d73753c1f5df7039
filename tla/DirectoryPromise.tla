---------------------------- MODULE DirectoryPromise -----------------------------
(***************************************************************************)
(* What the directory promises about customers, without requests, indexes  *)
(* or restarts.  Duplicates from the past are merged into the oldest       *)
(* customer of their email, and the payments with them; from the moment    *)
(* that is settled an email that has a customer keeps that one for good,   *)
(* and so does every payment.                                              *)
(***************************************************************************)
EXTENDS Integers

CONSTANTS Emails, Customers, Payments

VARIABLES
    known,    \* the customers known by an email
    madeFor,  \* the email a payment was made for, "" before there is one
    buyer,    \* the customer it belongs to, 0 before there is one
    settled   \* the past has been dealt with

vars == <<known, madeFor, buyer, settled>>

Init ==
    /\ known \in [Emails -> SUBSET Customers]
    /\ \A e, f \in Emails : e # f => known[e] \cap known[f] = {}
    /\ madeFor \in [Payments -> Emails \cup {""}]
    /\ buyer \in [Payments -> Customers \cup {0}]
    /\ \A p \in Payments :
           \/ buyer[p] = 0 /\ madeFor[p] = ""
           \/ madeFor[p] \in Emails /\ buyer[p] \in known[madeFor[p]]
    /\ settled = FALSE

Oldest(e) == {c \in known[e] : \A d \in known[e] : c <= d}

\* The oldest customer of each email takes over the payments of the others.
Merge ==
    /\ ~ settled
    /\ known' = [e \in Emails |-> Oldest(e)]
    /\ buyer' \in [Payments -> Customers \cup {0}]
    /\ \A p \in Payments :
           IF buyer[p] = 0 THEN buyer'[p] = 0 ELSE buyer'[p] \in Oldest(madeFor[p])
    /\ UNCHANGED <<madeFor, settled>>

Settle ==
    /\ \A e \in Emails : \A c, d \in known[e] : c = d
    /\ settled' = TRUE
    /\ UNCHANGED <<known, madeFor, buyer>>

\* A customer is created for an email that has none.
Welcome(e, c) ==
    /\ settled
    /\ known[e] = {}
    /\ \A f \in Emails : c \notin known[f]
    /\ known' = [known EXCEPT ![e] = {c}]
    /\ UNCHANGED <<madeFor, buyer, settled>>

Pay(p, e, c) ==
    /\ settled
    /\ buyer[p] = 0
    /\ c \in known[e]
    /\ madeFor' = [madeFor EXCEPT ![p] = e]
    /\ buyer'   = [buyer EXCEPT ![p] = c]
    /\ UNCHANGED <<known, settled>>

Next ==
    \/ Merge \/ Settle
    \/ \E e \in Emails, c \in Customers : Welcome(e, c) \/ \E p \in Payments : Pay(p, e, c)

Spec == Init /\ [][Next]_vars
================================================================================
