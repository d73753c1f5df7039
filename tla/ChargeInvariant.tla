----------------------------- MODULE ChargeInvariant ----------------------------
(***************************************************************************)
(* The inductive invariant behind the safety properties of                 *)
(* ChargeLifecycle: what every row, pair of rows, transaction and job in   *)
(* progress satisfies, including what a goroutine may still rely on of the *)
(* values it read earlier.                                                 *)
(***************************************************************************)
EXTENDS ChargeLifecycle

\* A charge row agrees with its transaction, and its OTP with the OTP logs.
RowOK(c) ==
    LET row == charges[c]
        t   == row.tx
    IN  /\ status[t] # "none"
        /\ status[t] = "pending" => row.status = "pending"
        /\ row.status = "success" => paid[t]
        /\ row.status # "pending" => row.flow \in {"success", "failed"}
        /\ row.otp <= issued[t]
        /\ row.status = "pending" /\ row.flow = OtpFlow =>
               \/ row.otp = issued[t] /\ issued[t] \notin used[t] /\ issued[t] > 0
               \/ row.otp = 0 /\ row.sampled # "success"

RowsOK == \A c \in ChargeIds : charges[c] # NoRow => RowOK(c)

\* Of the charges of one transaction at most one is pending and at most one
\* successful.
PairsOK ==
    \A c, d \in ChargeIds :
        /\ charges[c] # NoRow /\ charges[d] # NoRow
        /\ charges[c].tx = charges[d].tx
        /\ charges[c].status = charges[d].status
        /\ charges[c].status \in {"pending", "success"}
        => c = d

\* paid_at records a payment for good, consumed OTP logs exist, and the expiry
\* worker holds transactions that exist, and has decided the one it is at.
TxOK(t) ==
    /\ paid[t] => status[t] \in {"success", "reversed", "abandoned"}
    /\ status[t] \in {"success", "reversed"} => paid[t]
    /\ \A k \in used[t] : 1 <= k /\ k <= issued[t]
    /\ t \in stale => status[t] # "none"
    /\ t \in half => status[t] \notin {"none", "pending"}
    /\ t \in lapsed => status[t] = "abandoned"

TxsOK == \A t \in Txs : TxOK(t)

EventOK(t) ==
    /\ "charge.success" \in events[t] => paid[t]
    /\ "refund.processed" \in events[t] => paid[t]
    /\ "charge.failed" \in events[t] =>
           ~ paid[t] /\ status[t] \in {"failed", "abandoned"}

\* A job past its lookup holds an existing charge of its transaction.
HoldsRow(w) ==
    /\ w.charge \in ChargeIds
    /\ charges[w.charge] # NoRow
    /\ charges[w.charge].tx = w.tx

\* A job that started from send_otp has read the OTP of its charge, no newer
\* than the code it carries, which is a code that was issued.
ReadOtp(w) ==
    /\ w.flow = OtpFlow
    /\ charges[w.charge].sampled = "success" => w.otp > 0

\* The transaction has status s, unless a round has overwritten it.
Still(w, s) == status[w.tx] = s \/ w.tx \in lapsed

JobOK(w) ==
    /\ status[w.tx] # "none"
    /\ w.log <= issued[w.tx]
    /\ w.pc = "create" =>
           <<w.chan, w.flow>> \in StartFlows /\ w.result \in Outcomes
    /\ w.pc = "channel" =>
           HoldsRow(w) /\ w.result \in Outcomes /\ w.chan \in Channels
    /\ w.pc = "checkotp" =>
           HoldsRow(w) /\ w.result = "success" /\ ReadOtp(w) /\ w.otp <= issued[w.tx]
           /\ w.log > 0
    /\ w.pc = "advance" =>
           /\ HoldsRow(w)
           /\ w.result = "success"
           /\ w.next \in {OtpFlow, "pay_offline"}
           /\ w.next = "pay_offline" => ReadOtp(w) /\ w.otp <= w.log /\ w.log > 0
    /\ w.pc = "finalize" => HoldsRow(w) /\ w.result \in Outcomes
    /\ w.pc = "reverse" => w.result = "reversed"
    /\ w.pc \in {"force", "commit"} => w.result \in Outcomes
    /\ w.pc = "dispatch" =>
           \/ w.result = "success"  /\ paid[w.tx]
           \/ w.result = "failed"   /\ ~ paid[w.tx] /\ Still(w, "failed")
           \/ w.result = "reversed" /\ paid[w.tx] /\ Still(w, "reversed")

JobsOK == \A r \in Workers : work[r] # Idle => JobOK(work[r])

EventsOK == \A t \in Txs : EventOK(t)

\* Inductive: implies the safety properties of ChargeLifecycle, holds initially,
\* and every step of every goroutine, fault and worker preserves it.
IndInv == TypeOK /\ RowsOK /\ PairsOK /\ TxsOK /\ JobsOK /\ EventsOK

\* A forced outcome that waits for its commit still finds its transaction pending,
\* and nobody else is about to commit one.
LocksOK ==
    \A r \in Workers : work[r].pc = "commit" =>
        /\ status[work[r].tx] = "pending"
        /\ \A q \in Workers : work[q].pc = "commit" /\ work[q].tx = work[r].tx => q = r
================================================================================
