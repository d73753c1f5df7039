---------------------------- MODULE RefreshSessions ----------------------------
(***************************************************************************)
(* The refresh sessions of one merchant: login, refresh-token rotation,    *)
(* logout and password change, over the merchants and refresh_sessions     *)
(* tables.  A session is the row of one refresh token; rotation replaces a *)
(* row by another of the same family, the browser that once logged in.     *)
(*                                                                         *)
(* A Worker is a request's goroutine.  A statement is one step, except the *)
(* UPDATE of RevokeAll: PostgreSQL (READ COMMITTED) fixes the rows it will *)
(* visit when it starts, and other commits may come before it ends.        *)
(* Access tokens are not modelled: no row stands for them.  RotatesReplayed *)
(* and its like are faulty variants, see ChargeLifecycle.                  *)
(***************************************************************************)
EXTENDS Integers, FiniteSets

CONSTANTS
    Tokens,      \* ids of refresh tokens
    Workers,     \* goroutines
    MaxChanges,  \* bound: password changes
    MaxFaults    \* bound: failed statements and crashes in a behaviour

ASSUME SessionBoundAssumption == MaxChanges \in Nat /\ MaxFaults \in Nat

VARIABLES
    password,  \* merchants.password: how often it has been overwritten
    sessions,  \* the refresh_sessions table
    expired,   \* tokens whose expires_at has passed
    job,       \* what each goroutine is doing
    faults     \* faults so far

vars  == <<password, sessions, expired, job, faults>>
--------------------------------------------------------------------------------
NoRow   == [family |-> "none"]
\* family: the token of the login it descends from; parent: the token rotated
\* into it, itself for a login.
Session == [family : Tokens, parent : Tokens, used : BOOLEAN, revoked : BOOLEAN]

Idle == [pc |-> "idle"]
Job  == [pc : {"create", "rotate", "revoke", "password", "snapshot", "revokeall"},
         token : Tokens \cup {"none"}, seen : SUBSET Tokens]

Existing  == {k \in Tokens : sessions[k] # NoRow}
Free      == Tokens \ Existing
Family(f) == {k \in Existing : sessions[k].family = f}

\* Usable: a refresh with this token would be accepted.
Usable(k) == ~ sessions[k].used /\ ~ sessions[k].revoked /\ k \notin expired
UsableOf(f) == {k \in Family(f) : Usable(k)}

NewJob(pc) == [pc |-> pc, token |-> "none", seen |-> {}]

Begin(r, w) == job[r] = Idle /\ job' = [job EXCEPT ![r] = w]
Goto(r, w)  == job' = [job EXCEPT ![r] = w]
Return(r)   == job' = [job EXCEPT ![r] = Idle]

Init ==
    /\ password = 0
    /\ sessions = [k \in Tokens |-> NoRow]
    /\ expired  = {}
    /\ job      = [r \in Workers |-> Idle]
    /\ faults   = 0

ReadsOnly == UNCHANGED <<password, sessions, expired, faults>>
--------------------------------------------------------------------------------
\* Login reads the merchant and accepts the password it read; Register has just
\* inserted the merchant and goes on the same way.
Login(r) ==
    /\ Free # {}
    /\ Begin(r, NewJob("create"))
    /\ ReadsOnly

\* storeRefreshSession.
CreateSession(r) ==
    /\ job[r].pc = "create"
    /\ \E k \in Free :
          sessions' = [sessions EXCEPT ![k] =
              [family |-> k, parent |-> k, used |-> FALSE, revoked |-> FALSE]]
    /\ Return(r)
    /\ UNCHANGED <<password, expired, faults>>

\* RefreshTokens: the JWT k is valid by itself, and the merchant is active.
RefreshTokens(r, k) ==
    /\ k \in Existing \ expired
    /\ Begin(r, [NewJob("rotate") EXCEPT !.token = k])
    /\ ReadsOnly

RotatesReplayed(k) == ~ sessions[k].revoked /\ k \notin expired
RotatesRevoked(k)  == ~ sessions[k].used /\ k \notin expired

\* The conditional UPDATE that consumes the token.
Rotates(k) == Usable(k)

\* Rotate: consumed and replaced in one database transaction, or refused.  (With
\* no id left in Tokens it waits: the bound on the model, not the code.)
Rotate(r) ==
    LET k == job[r].token IN
    /\ job[r].pc = "rotate"
    /\ IF Rotates(k)
       THEN \E n \in Free :
              sessions' = [sessions EXCEPT
                  ![k].used = TRUE,
                  ![n] = [family |-> sessions[k].family, parent |-> k,
                          used |-> FALSE, revoked |-> FALSE]]
       ELSE UNCHANGED sessions
    /\ Return(r)
    /\ UNCHANGED <<password, expired, faults>>

\* Logout with token k: validated, then revoked, used already or not.
Logout(r, k) ==
    /\ k \in Existing \ expired
    /\ Begin(r, [NewJob("revoke") EXCEPT !.token = k])
    /\ ReadsOnly

Revoke(r) ==
    /\ job[r].pc = "revoke"
    /\ sessions' = [sessions EXCEPT ![job[r].token].revoked = TRUE]
    /\ Return(r)
    /\ UNCHANGED <<password, expired, faults>>

\* ChangePassword reads the merchant and checks the current password.
ChangePassword(r) ==
    /\ password < MaxChanges
    /\ Begin(r, NewJob("password"))
    /\ ReadsOnly

\* UpdatePassword, whatever the stored password is by now.
UpdatePassword(r) ==
    /\ job[r].pc = "password"
    /\ password < MaxChanges
    /\ password' = password + 1
    /\ Goto(r, [job[r] EXCEPT !.pc = "snapshot"])
    /\ UNCHANGED <<sessions, expired, faults>>

\* RevokeAll starts: the rows of the merchant it will visit.
StartRevokeAll(r) ==
    /\ job[r].pc = "snapshot"
    /\ Goto(r, [job[r] EXCEPT !.pc = "revokeall", !.seen = Existing])
    /\ ReadsOnly

\* RevokeAll ends: each visited row that was not revoked before is.
RevokeAll(r) ==
    LET w == job[r] IN
    /\ w.pc = "revokeall"
    /\ sessions' = [k \in Tokens |->
           IF k \in w.seen THEN [sessions[k] EXCEPT !.revoked = TRUE]
           ELSE sessions[k]]
    /\ Return(r)
    /\ UNCHANGED <<password, expired, faults>>

\* A token's expiry date passes.
Expire(k) ==
    /\ k \in Existing \ expired
    /\ expired' = expired \cup {k}
    /\ UNCHANGED <<password, sessions, job, faults>>
--------------------------------------------------------------------------------
\* A statement fails and the request ends with an error, what it has committed
\* before stays.
RequestError(r) ==
    /\ faults < MaxFaults
    /\ faults' = faults + 1
    /\ job[r] # Idle
    /\ Return(r)
    /\ UNCHANGED <<password, sessions, expired>>

Crash ==
    /\ faults < MaxFaults
    /\ faults' = faults + 1
    /\ job' = [r \in Workers |-> Idle]
    /\ UNCHANGED <<password, sessions, expired>>

Next ==
    \/ \E r \in Workers :
          \/ Login(r) \/ CreateSession(r) \/ Rotate(r) \/ Revoke(r)
          \/ ChangePassword(r) \/ UpdatePassword(r)
          \/ StartRevokeAll(r) \/ RevokeAll(r)
          \/ RequestError(r)
          \/ \E k \in Tokens : RefreshTokens(r, k) \/ Logout(r, k)
    \/ \E k \in Tokens : Expire(k)
    \/ Crash

Spec == Init /\ [][Next]_vars
--------------------------------------------------------------------------------
(* Properties. *)

TypeOK ==
    /\ password \in Nat /\ faults \in Nat
    /\ sessions \in [Tokens -> Session \cup {NoRow}]
    /\ expired \subseteq Tokens
    /\ job \in [Workers -> Job \cup {Idle}]

\* "a stolen refresh token can only be used once": however often and by however
\* many requests the tokens of a browser are presented, at most one of them has
\* not been consumed, so a thief and the browser cannot both keep a session.
OneUnusedPerFamily ==
    \A j, k \in Existing :
        /\ sessions[j].family = sessions[k].family
        /\ ~ sessions[j].used /\ ~ sessions[k].used
        => j = k

\* A browser that has logged out, let its token expire or been revoked does not
\* come back: a family without a usable token never has one again, whatever
\* rotations and revocations of it were under way.
ClosedStaysClosed ==
    [][\A f \in Tokens :
          Family(f) # {} /\ UsableOf(f) = {} => UsableOf(f)' = {}]_vars

\* Refresh tokens keep their promise: a login opens a session with one valid token,
\* a refresh trades it for a token never seen before, so that a token once traded is
\* worth nothing again, and a closed session stays closed.
Promise == INSTANCE SessionPromise
             WITH issued <- Existing, valid <- [f \in Tokens |-> UsableOf(f)]
KeepsPromise == Promise!Spec

\* Claim of a comment the code does not keep (see README.md): once RevokeAll has
\* ended "no existing browser can silently extend its session", no family that it
\* found has a usable token left.
RevokeAllCloses ==
    [][\A r \in Workers :
          job[r].pc = "revokeall" /\ job'[r] # job[r] =>
              \A k \in job[r].seen : UsableOf(sessions[k].family)' = {}]_vars
================================================================================
