----------------------------- MODULE PaymentPromise -----------------------------
(***************************************************************************)
(* What the payment core promises a merchant, without charges, OTPs,       *)
(* requests or workers: each transaction is decided once, a payment may be *)
(* taken back once, one that was seen pending for too long may lapse, even *)
(* if it has been decided since, and announcements follow the facts.       *)
(* ChargeLifecycle implements it; so must whatever replaces it.            *)
(***************************************************************************)
CONSTANT Txs

VARIABLES
    status, paid, events,
    doomed,   \* pending when it was chosen to lapse, and has not lapsed yet
    lapsed    \* lapsed although it had been decided

vars == <<status, paid, events, doomed, lapsed>>

Init ==
    /\ status = [t \in Txs |-> "none"]
    /\ paid   = [t \in Txs |-> FALSE]
    /\ events = [t \in Txs |-> {}]
    /\ doomed = {}
    /\ lapsed = {}

\* The merchant opens a transaction.
Open(t) ==
    /\ status[t] = "none"
    /\ status' = [status EXCEPT ![t] = "pending"]
    /\ UNCHANGED <<paid, events, doomed, lapsed>>

\* The customer's charge, the scenario or the dashboard decides it, once.
Decide(t, o) ==
    /\ status[t] = "pending"
    /\ o \in {"success", "failed", "abandoned"}
    /\ status' = [status EXCEPT ![t] = o]
    /\ paid'   = [paid EXCEPT ![t] = (o = "success")]
    /\ UNCHANGED <<events, doomed, lapsed>>

\* The payment is refunded.
TakeBack(t) ==
    /\ status[t] = "success"
    /\ status' = [status EXCEPT ![t] = "reversed"]
    /\ UNCHANGED <<paid, events, doomed, lapsed>>

\* Pending transactions are chosen to lapse, or let off.
Doom ==
    /\ doomed' \subseteq doomed \cup {t \in Txs : status[t] = "pending"}
    /\ UNCHANGED <<status, paid, events, lapsed>>

\* A chosen transaction lapses, which overwrites what was decided meanwhile.
Lapse(t) ==
    /\ t \in doomed
    /\ status' = [status EXCEPT ![t] = "abandoned"]
    /\ doomed' = doomed \ {t}
    /\ lapsed' = IF status[t] \in {"success", "failed", "reversed"}
                 THEN lapsed \cup {t} ELSE lapsed
    /\ UNCHANGED <<paid, events>>

\* The announcements the facts support: what the status says, or said until the
\* transaction lapsed.
Supported(t) ==
    {e \in {"charge.success", "charge.failed", "refund.processed"} :
        CASE e = "charge.success" -> paid[t]
          [] e = "charge.failed"  -> ~ paid[t] /\ (status[t] = "failed" \/ t \in lapsed)
          [] OTHER -> paid[t] /\ (status[t] = "reversed" \/ t \in lapsed)}

Announce(t, e) ==
    /\ e \in Supported(t)
    /\ events' = [events EXCEPT ![t] = @ \cup {e}]
    /\ UNCHANGED <<status, paid, doomed, lapsed>>

Next ==
    \/ Doom
    \/ \E t \in Txs :
          \/ Open(t) \/ TakeBack(t) \/ Lapse(t)
          \/ \E o \in {"success", "failed", "abandoned"} : Decide(t, o)
          \/ \E e \in {"charge.success", "charge.failed", "refund.processed"} : Announce(t, e)

Spec == Init /\ [][Next]_vars
================================================================================
