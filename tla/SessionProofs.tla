----------------------------- MODULE SessionProofs -----------------------------
(***************************************************************************)
(* Proofs about RefreshSessions, for any number of tokens, requests,       *)
(* password changes and faults.                                            *)
(***************************************************************************)
EXTENDS RefreshSessions, TLAPS

\* The token of the login that founded a family is never deleted.
FamilyExists == \A k \in Existing : sessions[k].family \in Existing

\* A request that presents a token has seen its row, and so has RevokeAll.
HoldsRows(w) ==
    /\ w.pc \in {"rotate", "revoke"} => w.token \in Existing
    /\ w.pc = "revokeall" => w.seen \subseteq Existing

JobsOK == \A r \in Workers : job[r] # Idle => HoldsRows(job[r])

IndInv == TypeOK /\ FamilyExists /\ JobsOK /\ OneUnusedPerFamily

\* The initial state satisfies the invariant.
LEMMA InitInv == Init => IndInv
BY SessionBoundAssumption, SMT
DEF Init, IndInv, TypeOK, FamilyExists, JobsOK, OneUnusedPerFamily, Existing, Idle, NoRow

\* Facts about job records: a job is told from Idle by its step.
LEMMA JobFacts ==
    /\ \A w \in Job : w # Idle
    /\ Idle.pc = "idle"
BY DEF Job, Idle

LEMMA SessionFacts == \A x \in Session : x # NoRow
BY DEF Session, NoRow

\* The steps that change neither the table nor the type of anything keep the
\* invariant: handlers that read and begin, and what only ends jobs.
LEMMA TableKept ==
    ASSUME IndInv, UNCHANGED sessions, TypeOK',
           \A r \in Workers :
               job'[r] = job[r] \/ job'[r] = Idle \/ HoldsRows(job'[r])
    PROVE  IndInv'
<1>1. Existing' = Existing
  BY DEF IndInv, Existing
<1>2. FamilyExists' /\ OneUnusedPerFamily'
  BY <1>1 DEF IndInv, FamilyExists, OneUnusedPerFamily
<1>3. JobsOK'
  BY <1>1 DEF IndInv, JobsOK, HoldsRows
<1> QED
  BY <1>2, <1>3 DEF IndInv

\* A new family: its token was free, so no row belongs to it yet.
LEMMA CreateInv == ASSUME IndInv, NEW r \in Workers, CreateSession(r) PROVE IndInv'
<1> DEFINE row(k) == [family |-> k, parent |-> k, used |-> FALSE, revoked |-> FALSE]
<1>1. PICK k \in Free : sessions' = [sessions EXCEPT ![k] = row(k)]
  BY DEF CreateSession
<1>2. /\ sessions \in [Tokens -> Session \cup {NoRow}]
      /\ job \in [Workers -> Job \cup {Idle}]
      /\ job' = [job EXCEPT ![r] = Idle]
  BY DEF IndInv, TypeOK, CreateSession, Return
<1>3. k \in Tokens /\ k \notin Existing /\ row(k) \in Session
  BY DEF Free, Session
<1>4. sessions' \in [Tokens -> Session \cup {NoRow}]
  BY <1>1, <1>2, <1>3
<1>5. TypeOK'
  BY <1>2, <1>4 DEF IndInv, TypeOK, CreateSession
<1>6. /\ Existing' = Existing \cup {k}
      /\ sessions'[k] = row(k)
      /\ \A j \in Existing : sessions'[j] = sessions[j]
  BY <1>1, <1>2, <1>3, SessionFacts DEF Existing
<1>7. FamilyExists'
  BY <1>6 DEF IndInv, FamilyExists
<1>8. JobsOK'
  BY <1>2, <1>6, JobFacts DEF IndInv, JobsOK, HoldsRows
<1>9. OneUnusedPerFamily'
  BY <1>3, <1>6 DEF IndInv, FamilyExists, OneUnusedPerFamily
<1> QED
  BY <1>5, <1>7, <1>8, <1>9 DEF IndInv

\* What a successful rotation does to the table.
Rotated(k, n) ==
    /\ k \in Existing /\ n \in Tokens /\ n \notin Existing
    /\ Usable(k)
    /\ Existing' = Existing \cup {n}
    /\ sessions'[n] = [family |-> sessions[k].family, parent |-> k,
                       used |-> FALSE, revoked |-> FALSE]
    /\ sessions'[k] = [sessions[k] EXCEPT !.used = TRUE]
    /\ \A j \in Existing \ {k} : sessions'[j] = sessions[j]

LEMMA RotateEffect ==
    ASSUME IndInv, NEW r \in Workers, Rotate(r), sessions' # sessions
    PROVE  /\ \E n \in Tokens : Rotated(job[r].token, n)
           /\ sessions' \in [Tokens -> Session \cup {NoRow}]
<1> DEFINE k == job[r].token
<1>1. /\ sessions \in [Tokens -> Session \cup {NoRow}]
      /\ job[r] # Idle /\ k \in Existing /\ Usable(k)
  BY JobFacts DEF IndInv, TypeOK, JobsOK, HoldsRows, Rotate, Rotates
<1> DEFINE row == [family |-> sessions[k].family, parent |-> k,
                   used |-> FALSE, revoked |-> FALSE]
           old == [sessions[k] EXCEPT !.used = TRUE]
<1>2. PICK n \in Free : sessions' = [sessions EXCEPT ![k] = old, ![n] = row]
  BY <1>1 DEF Rotate
<1>3. /\ k \in Tokens /\ n \in Tokens /\ n \notin Existing /\ n # k
      /\ sessions[k] \in Session
  BY <1>1 DEF Existing, Free
<1>4. row \in Session /\ old \in Session
  BY <1>3 DEF Session
<1>5. /\ sessions'[n] = row /\ sessions'[k] = old
      /\ \A j \in Tokens \ {k, n} : sessions'[j] = sessions[j]
      /\ sessions' \in [Tokens -> Session \cup {NoRow}]
  <2> HIDE DEF row, old
  <2> QED BY <1>1, <1>2, <1>3, <1>4
<1>6. Existing' = Existing \cup {n}
  <2> HIDE DEF row, old
  <2> QED BY <1>3, <1>4, <1>5, SessionFacts DEF Existing
<1>7. Rotated(k, n)
  BY <1>1, <1>3, <1>5, <1>6 DEF Rotated, Existing
<1> QED
  BY <1>3, <1>5, <1>7

\* The replacement takes the place of the only unused token of its family.
LEMMA RotateInv == ASSUME IndInv, NEW r \in Workers, Rotate(r) PROVE IndInv'
<1> DEFINE k == job[r].token
<1>1. /\ job \in [Workers -> Job \cup {Idle}]
      /\ job' = [job EXCEPT ![r] = Idle]
  BY DEF IndInv, TypeOK, Rotate, Return
<1>2. CASE sessions' = sessions
  <2>1. TypeOK'
    BY <1>1, <1>2 DEF IndInv, TypeOK, Rotate
  <2> QED BY <1>1, <1>2, <2>1, TableKept
<1>3. CASE sessions' # sessions
  <2>1. PICK n \in Tokens : Rotated(k, n)
    BY <1>3, RotateEffect
  <2>2. sessions' \in [Tokens -> Session \cup {NoRow}]
    BY <1>3, RotateEffect
  <2>3. TypeOK'
    BY <1>1, <2>2 DEF IndInv, TypeOK, Rotate
  <2>4. /\ k \in Existing /\ k \in Tokens /\ n # k /\ ~ sessions[k].used
        /\ sessions[k] \in Session
    BY <2>1 DEF Rotated, Usable, Existing, IndInv, TypeOK
  <2>5. /\ sessions'[n].family = sessions[k].family
        /\ sessions'[k].family = sessions[k].family /\ sessions'[k].used
        /\ \A j \in Existing \ {k} : sessions'[j] = sessions[j]
        /\ Existing' = Existing \cup {n}
    BY <2>1, <2>4 DEF Rotated, Session
  <2>6. FamilyExists'
    BY <2>4, <2>5 DEF IndInv, FamilyExists
  <2>7. JobsOK'
    BY <1>1, <2>5, JobFacts DEF IndInv, JobsOK, HoldsRows
  <2>8. OneUnusedPerFamily'
    BY <2>4, <2>5 DEF IndInv, OneUnusedPerFamily
  <2> QED BY <2>3, <2>6, <2>7, <2>8 DEF IndInv
<1> QED BY <1>2, <1>3

\* Revoking rows leaves the token that is unused, and its family, as they are.
LEMMA RevokedRows ==
    ASSUME IndInv, TypeOK', NEW S \in SUBSET Existing, NEW r \in Workers,
           sessions' = [k \in Tokens |->
               IF k \in S THEN [sessions[k] EXCEPT !.revoked = TRUE] ELSE sessions[k]],
           job' = [job EXCEPT ![r] = Idle]
    PROVE  /\ IndInv'
           /\ Existing' = Existing
           /\ \A k \in Existing : /\ sessions'[k].family = sessions[k].family
                                  /\ sessions'[k].used = sessions[k].used
                                  /\ sessions[k].revoked => sessions'[k].revoked
<1>1. /\ job \in [Workers -> Job \cup {Idle}]
      /\ \A k \in Existing : k \in Tokens /\ sessions[k] \in Session
  BY DEF IndInv, TypeOK, Existing
<1>2. \A k \in Tokens \ S : sessions'[k] = sessions[k]
  OBVIOUS
<1>3. \A k \in S : sessions'[k] = [sessions[k] EXCEPT !.revoked = TRUE]
  BY <1>1
<1>4. \A k \in S : /\ sessions'[k] \in Session
                   /\ sessions'[k].family = sessions[k].family
                   /\ sessions'[k].used = sessions[k].used
                   /\ sessions'[k].revoked
  BY <1>1, <1>3 DEF Session
<1>5. Existing' = Existing
  BY <1>2, <1>4, SessionFacts DEF Existing
<1>6. \A k \in Existing : /\ sessions'[k].family = sessions[k].family
                          /\ sessions'[k].used = sessions[k].used
                          /\ sessions[k].revoked => sessions'[k].revoked
  BY <1>1, <1>2, <1>4
<1>7. FamilyExists' /\ OneUnusedPerFamily'
  BY <1>5, <1>6 DEF IndInv, FamilyExists, OneUnusedPerFamily
<1>8. JobsOK'
  BY <1>1, <1>5, JobFacts DEF IndInv, JobsOK, HoldsRows
<1> QED BY <1>5, <1>6, <1>7, <1>8 DEF IndInv

LEMMA RevokeInv ==
    ASSUME IndInv, NEW r \in Workers, Revoke(r) \/ RevokeAll(r)
    PROVE  /\ IndInv'
           /\ Existing' = Existing
           /\ \A k \in Existing : /\ sessions'[k].family = sessions[k].family
                                  /\ sessions'[k].used = sessions[k].used
                                  /\ sessions[k].revoked => sessions'[k].revoked
<1> DEFINE S == IF job[r].pc = "revoke" THEN {job[r].token} ELSE job[r].seen
<1>1. /\ job \in [Workers -> Job \cup {Idle}]
      /\ sessions \in [Tokens -> Session \cup {NoRow}]
      /\ job' = [job EXCEPT ![r] = Idle]
  BY DEF IndInv, TypeOK, Revoke, RevokeAll, Return
<1>2. S \in SUBSET Existing
  BY JobFacts DEF IndInv, JobsOK, HoldsRows, Revoke, RevokeAll
<1>3. sessions' = [k \in Tokens |->
          IF k \in S THEN [sessions[k] EXCEPT !.revoked = TRUE] ELSE sessions[k]]
  BY <1>1 DEF Revoke, RevokeAll
<1>4. \A k \in Existing : sessions[k] \in Session
  BY <1>1 DEF Existing
<1>5. \A k \in S : [sessions[k] EXCEPT !.revoked = TRUE] \in Session
  BY <1>2, <1>4 DEF Session
<1>6. sessions' \in [Tokens -> Session \cup {NoRow}]
  BY <1>1, <1>3, <1>5
<1>7. TypeOK'
  BY <1>1, <1>6 DEF IndInv, TypeOK, Revoke, RevokeAll
<1> QED
  <2> HIDE DEF S
  <2> QED BY <1>1, <1>2, <1>3, <1>7, RevokedRows

\* Handlers that begin, UpdatePassword, the start of RevokeAll, time and faults
\* leave the table alone.
OtherStep ==
    \/ \E r \in Workers :
          \/ Login(r) \/ ChangePassword(r) \/ UpdatePassword(r) \/ StartRevokeAll(r)
          \/ RequestError(r)
          \/ \E k \in Tokens : RefreshTokens(r, k) \/ Logout(r, k)
    \/ \E k \in Tokens : Expire(k)
    \/ Crash
    \/ UNCHANGED vars

LEMMA OtherInv == ASSUME IndInv, OtherStep PROVE IndInv' /\ UNCHANGED sessions
<1>1. /\ job \in [Workers -> Job \cup {Idle}] /\ password \in Nat /\ faults \in Nat
      /\ expired \subseteq Tokens
      /\ sessions \in [Tokens -> Session \cup {NoRow}]
  BY DEF IndInv, TypeOK
<1>2. CASE \E r \in Workers : Login(r) \/ ChangePassword(r)
  <2>1. PICK r \in Workers, pc \in {"create", "password"} :
            /\ job' = [job EXCEPT ![r] = NewJob(pc)]
            /\ UNCHANGED <<password, sessions, expired, faults>>
    BY <1>2 DEF Login, ChangePassword, Begin, ReadsOnly
  <2>2. NewJob(pc) \in Job /\ NewJob(pc).pc = pc
    BY DEF NewJob, Job
  <2>3. TypeOK'
    BY <1>1, <2>1, <2>2 DEF TypeOK
  <2>4. HoldsRows(NewJob(pc))
    BY <2>2 DEF HoldsRows
  <2> QED BY <1>1, <2>1, <2>3, <2>4, TableKept
<1>3. CASE \E r \in Workers, k \in Tokens : RefreshTokens(r, k) \/ Logout(r, k)
  <2>1. PICK r \in Workers, k \in Existing, pc \in {"rotate", "revoke"} :
            /\ job' = [job EXCEPT ![r] = [NewJob(pc) EXCEPT !.token = k]]
            /\ UNCHANGED <<password, sessions, expired, faults>>
    BY <1>3 DEF RefreshTokens, Logout, Begin, ReadsOnly
  <2> DEFINE w == [NewJob(pc) EXCEPT !.token = k]
  <2>2. w \in Job /\ w.pc = pc /\ w.token = k
    BY DEF NewJob, Job, Existing
  <2>3. HoldsRows(w)
    BY <2>1, <2>2 DEF HoldsRows
  <2> HIDE DEF w
  <2>4. job' = [job EXCEPT ![r] = w]
    BY <2>1 DEF w
  <2>5. TypeOK'
    BY <1>1, <2>1, <2>2, <2>4 DEF TypeOK
  <2> QED BY <1>1, <2>1, <2>3, <2>4, <2>5, TableKept
<1>4. CASE \E r \in Workers : UpdatePassword(r) \/ StartRevokeAll(r)
  <2>1. PICK r \in Workers : UpdatePassword(r) \/ StartRevokeAll(r)
    BY <1>4
  <2> DEFINE w == IF job[r].pc = "password" THEN [job[r] EXCEPT !.pc = "snapshot"]
                  ELSE [job[r] EXCEPT !.pc = "revokeall", !.seen = Existing]
  <2>2. job[r] \in Job
    BY <1>1, <2>1, JobFacts DEF UpdatePassword, StartRevokeAll
  <2>3. Existing \subseteq Tokens
    BY DEF Existing
  <2>4. w \in Job /\ HoldsRows(w)
    BY <2>2, <2>3 DEF Job, HoldsRows
  <2>5. job' = [job EXCEPT ![r] = w] /\ UNCHANGED <<sessions, expired, faults>>
        /\ password' \in Nat
    BY <1>1, <2>1 DEF UpdatePassword, StartRevokeAll, Goto, ReadsOnly
  <2> HIDE DEF w
  <2>6. TypeOK'
    BY <1>1, <2>4, <2>5 DEF TypeOK
  <2> QED BY <1>1, <2>4, <2>5, <2>6, TableKept
<1>5. CASE (\E r \in Workers : RequestError(r)) \/ Crash
  <2>1. /\ UNCHANGED <<password, sessions, expired>> /\ faults' \in Nat
        /\ job' \in [Workers -> Job \cup {Idle}]
        /\ \A r \in Workers : job'[r] = job[r] \/ job'[r] = Idle
    BY <1>1, <1>5 DEF RequestError, Crash, Return
  <2>2. TypeOK'
    BY <1>1, <2>1 DEF TypeOK
  <2> QED BY <2>1, <2>2, TableKept
<1>6. CASE (\E k \in Tokens : Expire(k)) \/ UNCHANGED vars
  <2>1. UNCHANGED <<password, sessions, job, faults>> /\ expired' \subseteq Tokens
    BY <1>1, <1>6 DEF Expire, vars, Existing
  <2>2. TypeOK'
    BY <1>1, <2>1 DEF TypeOK
  <2> QED BY <2>1, <2>2, TableKept
<1> QED
  BY <1>2, <1>3, <1>4, <1>5, <1>6 DEF OtherStep

LEMMA StepCases ==
    [Next]_vars =>
        \/ OtherStep
        \/ \E r \in Workers : CreateSession(r) \/ Rotate(r) \/ Revoke(r) \/ RevokeAll(r)
BY DEF Next, OtherStep

LEMMA StepInv == IndInv /\ [Next]_vars => IndInv'
BY StepCases, CreateInv, RotateInv, RevokeInv, OtherInv

\* The invariant holds in every reachable state.
THEOREM SessionInvariance == Spec => []IndInv
BY InitInv, StepInv, PTL DEF Spec

\* Every variable keeps its type.
THEOREM SessionTypes == Spec => []TypeOK
<1>1. IndInv => TypeOK
  BY DEF IndInv
<1> QED BY <1>1, SessionInvariance, PTL

\* A refresh token can be used once: of all tokens that descend from one login at
\* most one is unconsumed (Rotate's conditional update).
THEOREM UsedOnce == Spec => []OneUnusedPerFamily
<1>1. IndInv => OneUnusedPerFamily
  BY DEF IndInv
<1> QED BY <1>1, SessionInvariance, PTL

\* Of an existing family no step but Rotate makes a token usable, and Rotate needs
\* a usable one.
LEMMA ClosedStep ==
    ASSUME IndInv, [Next]_vars, NEW f \in Tokens, Family(f) # {}, UsableOf(f) = {}
    PROVE  UsableOf(f)' = {}
<1>1. f \in Existing /\ \A k \in Existing : sessions[k].family = f => ~ Usable(k)
  BY DEF IndInv, FamilyExists, Family, UsableOf
<1>2. expired \subseteq expired'
  BY StepCases
  DEF OtherStep, Login, ChangePassword, UpdatePassword, StartRevokeAll, RequestError,
      RefreshTokens, Logout, Expire, Crash, ReadsOnly, vars,
      CreateSession, Rotate, Revoke, RevokeAll
<1>3. SUFFICES \A k \in Existing' : sessions'[k].family = f => ~ Usable(k)'
  BY DEF UsableOf, Family
<1>4. CASE OtherStep \/ UNCHANGED sessions
  BY <1>1, <1>2, <1>4, OtherInv DEF Usable, Existing
<1>5. CASE \E r \in Workers : Revoke(r) \/ RevokeAll(r)
  BY <1>1, <1>2, <1>5, RevokeInv DEF Usable
<1>6. CASE \E r \in Workers : CreateSession(r)
  <2>1. PICK k \in Free : sessions' = [sessions EXCEPT ![k] =
            [family |-> k, parent |-> k, used |-> FALSE, revoked |-> FALSE]]
    BY <1>6 DEF CreateSession
  <2>2. /\ k # f /\ sessions'[k].family = k
        /\ \A j \in Existing : sessions'[j] = sessions[j]
        /\ Existing' \subseteq Existing \cup {k}
    BY <1>1, <2>1 DEF Free, Existing, IndInv, TypeOK
  <2> QED BY <1>1, <1>2, <2>2 DEF Usable
<1>7. CASE \E r \in Workers : Rotate(r) /\ sessions' # sessions
  <2>1. PICK r \in Workers : Rotate(r) /\ sessions' # sessions
    BY <1>7
  <2> DEFINE k == job[r].token
  <2>2. PICK n \in Tokens : Rotated(k, n)
    BY <2>1, RotateEffect
  <2>3. /\ sessions[k].family # f
        /\ sessions'[n].family = sessions[k].family
        /\ \A j \in Existing \ {k} : sessions'[j] = sessions[j]
        /\ Existing' = Existing \cup {n}
    BY <1>1, <2>2 DEF Rotated
  <2>4. sessions'[k].family = sessions[k].family
    <3>1. sessions[k] \in Session
      BY <2>2 DEF Rotated, Existing, IndInv, TypeOK
    <3> QED BY <2>2, <3>1 DEF Rotated, Session
  <2> QED BY <1>1, <1>2, <2>3, <2>4 DEF Usable
<1> QED
  BY <1>4, <1>5, <1>6, <1>7, StepCases

\* A browser whose session is closed does not come back, whatever was under way.
THEOREM ClosedForGood == Spec => ClosedStaysClosed
<1>1. IndInv /\ [Next]_vars =>
        [\A f \in Tokens :
            Family(f) # {} /\ UsableOf(f) = {} => UsableOf(f)' = {}]_vars
  BY ClosedStep
<1> QED BY <1>1, SessionInvariance, PTL DEF Spec, ClosedStaysClosed
--------------------------------------------------------------------------------
\* The module implements SessionPromise.  Only tokens that were issued expire, so a
\* new one is valid.
ExpiredWereIssued == expired \subseteq Existing

\* The steps that only take tokens away: time, Revoke and RevokeAll.
Shrinking == OtherStep \/ \E r \in Workers : Revoke(r) \/ RevokeAll(r)

\* Expire alone adds to the expired tokens.
LEMMA ExpiredStep ==
    ASSUME IndInv, [Next]_vars
    PROVE  /\ expired \subseteq expired' /\ expired' \ expired \subseteq Existing
           /\ ~ OtherStep => expired' = expired
BY StepCases
DEF OtherStep, Login, ChangePassword, UpdatePassword, StartRevokeAll, RequestError,
    RefreshTokens, Logout, Expire, Crash, ReadsOnly, vars,
    CreateSession, Rotate, Revoke, RevokeAll

\* They keep the rows, and no token becomes usable.
LEMMA ShrinkStep ==
    ASSUME IndInv, [Next]_vars, Shrinking
    PROVE  /\ Existing' = Existing
           /\ \A f \in Tokens : UsableOf(f)' \subseteq UsableOf(f)
<1>1. CASE OtherStep
  <2>1. Existing' = Existing
    BY <1>1, OtherInv DEF Existing
  <2> QED
    BY <1>1, <2>1, OtherInv, ExpiredStep DEF UsableOf, Family, Usable
<1>2. CASE \E r \in Workers : Revoke(r) \/ RevokeAll(r)
  BY <1>2, RevokeInv, ExpiredStep DEF UsableOf, Family, Usable
<1> QED
  BY <1>1, <1>2 DEF Shrinking

\* A session has one valid token at the most, so to take any away is to close it.
LEMMA CloseStep ==
    ASSUME IndInv, [Next]_vars, Shrinking
    PROVE  \E F \in SUBSET Tokens : Promise!Close(F)
<1> DEFINE F == {f \in Tokens : UsableOf(f)' = {}}
<1>1. ASSUME NEW f \in Tokens, f \notin F PROVE UsableOf(f)' = UsableOf(f)
  <2>1. UsableOf(f)' \subseteq UsableOf(f) /\ UsableOf(f)' # {}
    BY <1>1, ShrinkStep
  <2>2. \A j, k \in UsableOf(f) : j = k
    BY DEF IndInv, OneUnusedPerFamily, UsableOf, Family, Usable
  <2> QED
    BY <2>1, <2>2
<1>2. [f \in Tokens |-> UsableOf(f)]'
        = [f \in Tokens |-> IF f \in F THEN {} ELSE UsableOf(f)]
  BY <1>1
<1>3. F \in SUBSET Tokens
  OBVIOUS
<1> HIDE DEF F
<1>4. Promise!Close(F)
  BY <1>2, ShrinkStep DEF Promise!Close
<1> QED
  BY <1>3, <1>4

\* A login founds a session of its own.
LEMMA OpenStep ==
    ASSUME IndInv, ExpiredWereIssued, NEW r \in Workers, CreateSession(r)
    PROVE  \E k \in Tokens : Promise!Open(k)
<1> DEFINE new(k) == [family |-> k, parent |-> k, used |-> FALSE, revoked |-> FALSE]
<1>1. PICK k \in Free : sessions' = [sessions EXCEPT ![k] = new(k)]
  BY DEF CreateSession
<1>2. k \in Tokens /\ k \notin Existing /\ k \notin expired /\ expired' = expired
  BY <1>1 DEF Free, ExpiredWereIssued, CreateSession
<1>3. new(k) \in Session /\ sessions \in [Tokens -> Session \cup {NoRow}]
  BY <1>2 DEF Session, IndInv, TypeOK
<1>4. /\ sessions'[k] = new(k) /\ \A j \in Existing : sessions'[j] = sessions[j]
      /\ Existing' = Existing \cup {k}
  BY <1>1, <1>2, <1>3, SessionFacts DEF Existing
<1>5. Usable(k)' /\ \A j \in Existing : Usable(j)' = Usable(j)
  BY <1>2, <1>4 DEF Usable
<1>6. /\ sessions'[k].family = k
      /\ \A j \in Existing : sessions[j].family # k
  BY <1>2, <1>4 DEF IndInv, FamilyExists
<1>7. \A f \in Tokens : UsableOf(f)' = IF f = k THEN {k} ELSE UsableOf(f)
  BY <1>2, <1>4, <1>5, <1>6 DEF UsableOf, Family
<1>8. Promise!Open(k)
  BY <1>2, <1>4, <1>7 DEF Promise!Open, Promise!Issue
<1> QED
  BY <1>2, <1>8

\* A refresh trades the valid token of its session for a new one.
LEMMA RenewStep ==
    ASSUME IndInv, ExpiredWereIssued, NEW r \in Workers, Rotate(r), sessions' # sessions
    PROVE  \E f \in Tokens : Promise!Renew(f)
<1>1. PICK k \in Tokens, n \in Tokens : Rotated(k, n)
  BY RotateEffect DEF Rotated, Existing
<1>2. PICK f \in Tokens : f = sessions[k].family
  BY <1>1 DEF Rotated, Existing, IndInv, TypeOK, Session
<1>3. expired' = expired /\ n \notin expired
  BY <1>1 DEF Rotate, Rotated, ExpiredWereIssued
<1>4. sessions[k] \in Session /\ n # k
  BY <1>1 DEF Rotated, Existing, IndInv, TypeOK
<1>5. /\ sessions'[n].family = f /\ sessions'[k].family = f
      /\ Usable(n)' /\ ~ Usable(k)'
      /\ \A j \in Existing \ {k} :
             sessions'[j].family = sessions[j].family /\ Usable(j)' = Usable(j)
  BY <1>1, <1>2, <1>3, <1>4 DEF Rotated, Usable, Session
<1>6. k \in UsableOf(f) /\ \A j \in UsableOf(f) : j = k
  BY <1>1, <1>2 DEF Rotated, UsableOf, Family, Usable, IndInv, OneUnusedPerFamily
<1>7. \A g \in Tokens : UsableOf(g)' = IF g = f THEN {n} ELSE UsableOf(g)
  BY <1>1, <1>2, <1>5, <1>6 DEF Rotated, UsableOf, Family
<1>8. Promise!Renew(f)
  <2>1. n \in Tokens \ Existing /\ Existing' = Existing \cup {n}
    BY <1>1 DEF Rotated
  <2>2. Promise!Issue(f, n)
    BY <1>7, <2>1 DEF Promise!Issue
  <2> QED
    BY <1>6, <2>1, <2>2 DEF Promise!Renew
<1> QED
  BY <1>8

\* A refresh token can be traded for a new one once and by its session only, and a
\* closed session stays closed, however requests interleave and fail.
THEOREM SessionsKept == Spec => KeepsPromise
<1>1. Init => Promise!Init /\ ExpiredWereIssued
  BY DEF Init, Promise!Init, Existing, UsableOf, Family, ExpiredWereIssued
<1>2. IndInv /\ ExpiredWereIssued /\ [Next]_vars => ExpiredWereIssued'
  <2> SUFFICES ASSUME IndInv, ExpiredWereIssued, [Next]_vars PROVE Existing \subseteq Existing'
    BY ExpiredStep DEF ExpiredWereIssued
  <2>1. CASE Shrinking
    BY <2>1, ShrinkStep
  <2>2. CASE \E r \in Workers : CreateSession(r)
    BY <2>2, OpenStep DEF Promise!Open, Promise!Issue
  <2>3. CASE \E r \in Workers : Rotate(r)
    BY <2>3, RenewStep DEF Promise!Renew, Promise!Issue, Existing
  <2> QED
    BY <2>1, <2>2, <2>3, StepCases DEF Shrinking
<1>3. IndInv /\ ExpiredWereIssued /\ [Next]_vars => [Promise!Next]_(Promise!vars)
  <2> SUFFICES ASSUME IndInv, ExpiredWereIssued, [Next]_vars
               PROVE  [Promise!Next]_(Promise!vars)
    OBVIOUS
  <2>1. CASE Shrinking
    BY <2>1, CloseStep DEF Promise!Next
  <2>2. CASE \E r \in Workers : CreateSession(r)
    BY <2>2, OpenStep DEF Promise!Next
  <2>3. CASE \E r \in Workers : Rotate(r) /\ sessions' # sessions
    BY <2>3, RenewStep DEF Promise!Next
  <2>4. CASE \E r \in Workers : Rotate(r) /\ sessions' = sessions
    BY <2>4 DEF Rotate, Promise!vars, Existing, UsableOf, Family, Usable
  <2> QED
    BY <2>1, <2>2, <2>3, <2>4, StepCases DEF Shrinking
<1> QED
  BY <1>1, <1>2, <1>3, SessionInvariance, PTL DEF Spec, KeepsPromise, Promise!Spec
--------------------------------------------------------------------------------
\* No rotation commits while a RevokeAll is running.
RotationsWait ==
    [][\A q, r \in Workers :
          /\ job[q].pc = "revokeall"
          /\ job[r].pc = "rotate" /\ job'[r] # job[r]
          => UNCHANGED sessions]_vars

\* Then the valid tokens of the sessions a RevokeAll found are among those it visits.
Covers(r) == \A k \in job[r].seen : UsableOf(sessions[k].family) \subseteq job[r].seen
Covered   == \A r \in Workers : job[r].pc = "revokeall" => Covers(r)

\* A step that founds no session and renews none takes none out of reach.
LEMMA CoveredRow ==
    ASSUME IndInv, Covered, [Next]_vars, Shrinking \/ UNCHANGED sessions,
           NEW r \in Workers, job[r].pc = "revokeall", job'[r] = job[r]
    PROVE  Covers(r)'
<1>1. job[r].seen \subseteq Existing /\ Covers(r)
  BY JobFacts DEF IndInv, JobsOK, HoldsRows, Covered
<1>2. /\ Existing' = Existing /\ \A f \in Tokens : UsableOf(f)' \subseteq UsableOf(f)
      /\ \A k \in Existing : sessions'[k].family = sessions[k].family
  <2>1. CASE Shrinking
    BY <2>1, ShrinkStep, OtherInv, RevokeInv DEF Shrinking
  <2>2. CASE UNCHANGED sessions
    BY <2>2, ExpiredStep DEF Existing, UsableOf, Family, Usable
  <2> QED
    BY <2>1, <2>2
<1>3. \A k \in Existing : sessions[k].family \in Tokens
  BY DEF IndInv, TypeOK, Existing, Session, NoRow
<1> QED
  BY <1>1, <1>2, <1>3 DEF Covers

\* What a login adds is a session of its own, which no RevokeAll under way found.
LEMMA CoveredCreate ==
    ASSUME IndInv, Covered, NEW q \in Workers, CreateSession(q),
           NEW r \in Workers, job[r].pc = "revokeall", job'[r] = job[r]
    PROVE  Covers(r)'
<1>1. job[r].seen \subseteq Existing /\ Covers(r)
  BY JobFacts DEF IndInv, JobsOK, HoldsRows, Covered
<1>2. PICK k \in Free : sessions' = [sessions EXCEPT ![k] =
          [family |-> k, parent |-> k, used |-> FALSE, revoked |-> FALSE]]
  BY DEF CreateSession
<1>3. /\ sessions'[k].family = k /\ k \notin Existing
      /\ \A j \in Existing : sessions'[j] = sessions[j]
      /\ Existing' \subseteq Existing \cup {k} /\ expired' = expired
  BY <1>2 DEF Free, Existing, IndInv, TypeOK, CreateSession
<1>4. ASSUME NEW j \in job[r].seen, NEW u \in UsableOf(sessions[j].family)'
      PROVE  u \in job[r].seen
  <2>1. j \in Existing /\ sessions'[j] = sessions[j] /\ sessions[j].family \in Existing
    BY <1>1, <1>3 DEF IndInv, FamilyExists
  <2>2. u \in Existing' /\ sessions'[u].family = sessions[j].family /\ Usable(u)'
    BY <1>4, <2>1 DEF UsableOf, Family
  <2>3. u \in Existing
    BY <1>3, <2>1, <2>2
  <2>4. u \in UsableOf(sessions[j].family)
    BY <1>3, <2>2, <2>3 DEF UsableOf, Family, Usable
  <2> QED
    BY <1>1, <2>4 DEF Covers
<1> QED
  BY <1>4 DEF Covers

\* Who starts a RevokeAll, and how one ends: with its UPDATE or by a fault.
LEMMA RevokeAllJobs ==
    ASSUME IndInv, [Next]_vars, NEW r \in Workers, job'[r] # job[r]
    PROVE  /\ job'[r].pc = "revokeall" => StartRevokeAll(r)
           /\ job[r].pc = "revokeall" => RevokeAll(r) \/ faults' = faults + 1
<1>1. job \in [Workers -> Job \cup {Idle}]
  BY DEF IndInv, TypeOK
<1>2. ASSUME NEW q \in Workers,
             NEW pc \in {"create", "rotate", "revoke", "password"}, NEW k,
             \/ Begin(q, NewJob(pc)) \/ Begin(q, [NewJob(pc) EXCEPT !.token = k])
      PROVE  job'[r].pc # "revokeall" /\ job[r].pc # "revokeall"
  BY <1>1, <1>2, JobFacts DEF Begin, NewJob
<1>3. ASSUME NEW q \in Workers,
             \/ Login(q) \/ ChangePassword(q)
             \/ \E k \in Tokens : RefreshTokens(q, k) \/ Logout(q, k)
      PROVE  job'[r].pc # "revokeall" /\ job[r].pc # "revokeall"
  BY <1>2, <1>3 DEF Login, ChangePassword, RefreshTokens, Logout
<1>4. ASSUME NEW q \in Workers, UpdatePassword(q)
      PROVE  job'[r].pc # "revokeall" /\ job[r].pc # "revokeall"
  <2>1. q = r /\ job[q] \in Job /\ job[q].pc = "password"
    BY <1>1, <1>4, JobFacts DEF UpdatePassword, Goto
  <2>2. [job[q] EXCEPT !.pc = "snapshot"].pc = "snapshot"
    BY <2>1 DEF Job
  <2> QED
    BY <1>1, <1>4, <2>1, <2>2 DEF UpdatePassword, Goto
<1>5. ASSUME NEW q \in Workers, StartRevokeAll(q)
      PROVE  StartRevokeAll(r) /\ job[r].pc # "revokeall"
  BY <1>1, <1>5 DEF StartRevokeAll, Goto
<1>6. ASSUME NEW q \in Workers,
             CreateSession(q) \/ Rotate(q) \/ Revoke(q) \/ RevokeAll(q)
      PROVE  /\ job'[r].pc # "revokeall"
             /\ job[r].pc = "revokeall" => RevokeAll(r)
  BY <1>1, <1>6, JobFacts DEF CreateSession, Rotate, Revoke, RevokeAll, Return
<1>7. ASSUME Crash \/ \E q \in Workers : RequestError(q)
      PROVE  job'[r].pc # "revokeall" /\ faults' = faults + 1
  BY <1>1, <1>7, JobFacts DEF Crash, RequestError, Return
<1>8. ~ UNCHANGED vars /\ ~ \E k \in Tokens : Expire(k)
  BY DEF vars, Expire
<1> QED
  BY <1>3, <1>4, <1>5, <1>6, <1>7, <1>8, StepCases DEF OtherStep

LEMMA CoveredStep ==
    ASSUME IndInv, Covered, [Next]_vars,
           \A q, r \in Workers :
               /\ job[q].pc = "revokeall"
               /\ job[r].pc = "rotate" /\ job'[r] # job[r]
               => UNCHANGED sessions
    PROVE  Covered'
<1> SUFFICES ASSUME NEW r \in Workers, job'[r].pc = "revokeall" PROVE Covers(r)'
  BY DEF Covered
<1>1. job \in [Workers -> Job \cup {Idle}]
  BY DEF IndInv, TypeOK
<1>2. CASE job'[r] = job[r]
  <2>1. CASE Shrinking \/ UNCHANGED sessions
    BY <1>2, <2>1, CoveredRow
  <2>2. CASE \E q \in Workers : CreateSession(q)
    BY <1>2, <2>2, CoveredCreate
  <2>3. CASE \E q \in Workers : Rotate(q)
    <3>1. PICK q \in Workers : Rotate(q)
      BY <2>3
    <3>2. job'[q] = Idle /\ job[q].pc = "rotate" /\ job'[q] # job[q]
      BY <1>1, <3>1, JobFacts DEF Rotate, Return
    <3>3. UNCHANGED sessions
      BY <1>2, <3>2
    <3> QED
      BY <2>1, <3>3
  <2> QED
    BY <2>1, <2>2, <2>3, StepCases DEF Shrinking
<1>3. CASE job'[r] # job[r]
  <2>1. StartRevokeAll(r)
    BY <1>3, RevokeAllJobs
  <2>2. job[r] \in Job
    BY <1>1, <2>1, JobFacts DEF StartRevokeAll
  <2>3. job'[r].seen = Existing /\ UNCHANGED <<sessions, expired>>
    BY <1>1, <2>1, <2>2 DEF StartRevokeAll, Goto, ReadsOnly, Job
  <2> QED
    BY <2>3 DEF Covers, UsableOf, Family, Existing
<1> QED
  BY <1>2, <1>3

\* RevokeAll leaves no valid token among those it visits.
LEMMA RevokeAllStep ==
    ASSUME IndInv, Covered, NEW r \in Workers, RevokeAll(r), NEW k \in job[r].seen
    PROVE  UsableOf(sessions[k].family)' = {}
<1>1. job[r].seen \subseteq Existing /\ Covers(r)
  BY JobFacts DEF IndInv, JobsOK, HoldsRows, Covered, RevokeAll
<1>2. \A j \in job[r].seen : sessions[j] \in Session /\ j \in Tokens
  BY <1>1 DEF IndInv, TypeOK, Existing
<1>3. \A j \in job[r].seen : sessions'[j].revoked
  BY <1>2 DEF RevokeAll, Session
<1>4. /\ Existing' = Existing
      /\ \A j \in Existing : /\ sessions'[j].family = sessions[j].family
                             /\ sessions'[j].used = sessions[j].used
                             /\ sessions[j].revoked => sessions'[j].revoked
  BY RevokeInv
<1>5. expired' = expired
  BY DEF RevokeAll
<1>6. ASSUME NEW u \in UsableOf(sessions[k].family)' PROVE FALSE
  <2>1. u \in Existing /\ Usable(u)' /\ sessions'[u].family = sessions'[k].family
    BY <1>4 , <1>6 DEF UsableOf, Family
  <2>2. u \in UsableOf(sessions[k].family)
    BY <1>1, <1>4, <1>5, <2>1 DEF UsableOf, Family, Usable
  <2>3. u \in job[r].seen
    BY <1>1, <2>2 DEF Covers
  <2> QED
    BY <1>3, <2>1, <2>3 DEF Usable
<1> QED
  BY <1>6

\* What is true of RevokeAllCloses: only a rotation that commits while RevokeAll runs,
\* or a RevokeAll that fails, leaves a session it found open.
THEOREM RevokeAllClosesAlone ==
    Spec => (RotationsWait /\ [](faults = 0) => RevokeAllCloses)
<1> DEFINE Wait == \A q, r \in Workers :
                     /\ job[q].pc = "revokeall"
                     /\ job[r].pc = "rotate" /\ job'[r] # job[r]
                     => UNCHANGED sessions
           Closes == \A r \in Workers :
                       job[r].pc = "revokeall" /\ job'[r] # job[r] =>
                           \A k \in job[r].seen : UsableOf(sessions[k].family)' = {}
<1>1. Init => Covered
  BY DEF Init, Covered, Idle
<1>2. IndInv /\ Covered /\ [Next]_vars /\ [Wait]_vars => Covered'
  <2>1. UNCHANGED vars => Wait
    BY DEF vars
  <2> QED
    BY <2>1, CoveredStep
<1>3. IndInv /\ Covered /\ faults = 0 /\ (faults = 0)' /\ [Next]_vars => [Closes]_vars
  <2> SUFFICES ASSUME IndInv, Covered, faults = 0, faults' = 0, [Next]_vars,
                      NEW r \in Workers, job[r].pc = "revokeall", job'[r] # job[r],
                      NEW k \in job[r].seen
               PROVE  UsableOf(sessions[k].family)' = {}
    OBVIOUS
  <2>1. RevokeAll(r)
    BY RevokeAllJobs
  <2> QED
    BY <2>1, RevokeAllStep
<1>4. RotationsWait <=> [][Wait]_vars
  BY DEF RotationsWait
<1>5. RevokeAllCloses <=> [][Closes]_vars
  BY DEF RevokeAllCloses
<1> HIDE DEF Wait, Closes
<1> QED
  BY <1>1, <1>2, <1>3, <1>4, <1>5, SessionInvariance, PTL DEF Spec
================================================================================
