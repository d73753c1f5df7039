------------------------------ MODULE RateLimiter ------------------------------
(***************************************************************************)
(* The rate limiter in front of every route: one bucket per client address *)
(* in a concurrent map, each with a mutex, fixed windows, and a sweep over *)
(* the map by every CleanupEvery-th request.                               *)
(*                                                                         *)
(* Each request is one goroutine; an operation of the map, taking a mutex, *)
(* a critical section and the atomic counter are one step each.  A bucket  *)
(* is an object of its own: a goroutine that holds one keeps using it when *)
(* the map has forgotten it.  Time is counted in fractions of a window.    *)
(* RenewsOnRequest, HoldsOn and StaleSoon are faulty variants of the       *)
(* definition that follows them.                                           *)
(***************************************************************************)
EXTENDS Integers, FiniteSets

CONSTANTS
    Clients,        \* client addresses
    Requests,       \* requests, each served by its own goroutine
    Buckets,        \* bound: bucket objects, numbered as they are allocated
    MaxRequests,    \* requests of a client in a window
    WindowDuration, \* ticks of a window
    CleanupEvery    \* 1024 in the code

ASSUME LimiterAssumption ==
    /\ MaxRequests \in Nat
    /\ WindowDuration \in Nat \ {0}
    /\ CleanupEvery \in Nat \ {0}
    /\ Buckets \subseteq Nat \ {0}

VARIABLES
    now,     \* the clock
    limiter, \* the map: the bucket of a client
    bucket,  \* the bucket objects
    mutex,   \* the goroutines that hold the mutex of a bucket, at most one
    tally,   \* limiterRequests, counted modulo CleanupEvery
    visit,   \* how far each request has come in the middleware
    torn     \* history: the buckets a sweep took from a client in a race

limiterVars == <<now, limiter, bucket, mutex, tally, visit, torn>>
--------------------------------------------------------------------------------
Absent == 0
Unused == [count |-> 0]
Bucket == [count : Nat, windowStart : Nat, lastSeen : Nat]

\* A request, from its arrival on: at is the time it was counted, over whether it
\* exceeded the quota, todo the clients its sweep has still to visit, doomed the
\* one it is about to delete.
Waiting == [pc |-> "waiting"]
Visit == [pc : {"lock", "count", "tally", "sweep", "delete", "next", "refused"},
          client : Clients, bucket : Buckets, at : Nat, over : BOOLEAN,
          todo : SUBSET Clients, doomed : SUBSET Clients]

Arrived    == {r \in Requests : visit[r] # Waiting}
At(pc)     == {r \in Arrived : visit[r].pc = pc}
Known      == {c \in Clients : limiter[c] # Absent}
InUse(b)   == bucket[b] # Unused
Fresh(b)   == ~ InUse(b) /\ \A d \in Buckets : InUse(d) \/ b <= d
Locked(b)  == mutex[b] # {}
Counted    == {r \in Arrived : visit[r].pc \notin {"lock", "count"}}

LimiterInit ==
    /\ now     = 0
    /\ limiter = [c \in Clients |-> Absent]
    /\ bucket  = [b \in Buckets |-> Unused]
    /\ mutex   = [b \in Buckets |-> {}]
    /\ tally   = 0
    /\ visit   = [r \in Requests |-> Waiting]
    /\ torn    = {}

Step(r, v) == visit' = [visit EXCEPT ![r] = v]
--------------------------------------------------------------------------------
\* LoadOrStore: the bucket of the client, or a new one.
LoadOrStore(r, c) ==
    /\ visit[r] = Waiting
    /\ \E b \in Buckets :
         /\ IF c \in Known
            THEN b = limiter[c] /\ UNCHANGED <<limiter, bucket>>
            ELSE /\ Fresh(b)
                 /\ limiter' = [limiter EXCEPT ![c] = b]
                 /\ bucket' = [bucket EXCEPT ![b] =
                       [count |-> 0, windowStart |-> now, lastSeen |-> now]]
         /\ Step(r, [pc |-> "lock", client |-> c, bucket |-> b, at |-> 0,
                     over |-> FALSE, todo |-> {}, doomed |-> {}])
    /\ UNCHANGED <<now, mutex, tally, torn>>

Lock(r) ==
    LET v == visit[r] IN
    /\ v.pc = "lock" /\ ~ Locked(v.bucket)
    /\ mutex' = [mutex EXCEPT ![v.bucket] = {r}]
    /\ Step(r, [v EXCEPT !.pc = "count"])
    /\ UNCHANGED <<now, limiter, bucket, tally, torn>>

RenewsOnRequest(b) ==
    IF now - b.lastSeen >= WindowDuration
    THEN [count |-> 1, windowStart |-> now, lastSeen |-> now]
    ELSE [count |-> b.count + 1, windowStart |-> now, lastSeen |-> now]

\* A request is counted in the current window, which it may begin.
Seen(b) ==
    IF now - b.windowStart >= WindowDuration
    THEN [count |-> 1, windowStart |-> now, lastSeen |-> now]
    ELSE [b EXCEPT !.count = @ + 1, !.lastSeen = now]

HoldsOn(r, b) == mutex

\* The mutex is released before anything else is done.
Unlocked(r, b) == [mutex EXCEPT ![b] = @ \ {r}]

\* The critical section.
Count(r) ==
    LET v == visit[r] IN
    /\ v.pc = "count"
    /\ bucket' = [bucket EXCEPT ![v.bucket] = Seen(@)]
    /\ mutex' = Unlocked(r, v.bucket)
    /\ Step(r, [v EXCEPT !.pc = "tally", !.at = now,
                         !.over = bucket'[v.bucket].count > MaxRequests])
    /\ UNCHANGED <<now, limiter, tally, torn>>

\* Where a request goes once it need not sweep, or has done so.
Leave(v) == [v EXCEPT !.pc = IF v.over THEN "refused" ELSE "next",
                      !.todo = {}, !.doomed = {}]

\* limiterRequests.Add(1): every so many requests, one goes on to sweep.
Tally(r) ==
    LET v == visit[r] IN
    /\ v.pc = "tally"
    /\ tally' = (tally + 1) % CleanupEvery
    /\ Step(r, IF tally' = 0 THEN [v EXCEPT !.pc = "sweep", !.todo = Known]
               ELSE Leave(v))
    /\ UNCHANGED <<now, limiter, bucket, mutex, torn>>

StaleSoon(b, t) == t - b.windowStart >= 0

\* Idle for more than two windows at time t.
Stale(b, t) == t - b.lastSeen > 2 * WindowDuration

\* cleanupLimiter visits the clients in any order and judges each bucket under its
\* mutex; clients that turn up meanwhile are too young to matter.
Judge(r, c) ==
    LET v == visit[r]
        b == limiter[c]
    IN  /\ v.pc = "sweep" /\ c \in v.todo
        /\ IF c \in Known
           THEN /\ ~ Locked(b)
                /\ Step(r, IF Stale(bucket[b], v.at)
                           THEN [v EXCEPT !.pc = "delete", !.todo = @ \ {c}, !.doomed = {c}]
                           ELSE [v EXCEPT !.todo = @ \ {c}])
           ELSE Step(r, [v EXCEPT !.todo = @ \ {c}])
        /\ UNCHANGED <<now, limiter, bucket, mutex, tally, torn>>

\* Requests that have fetched bucket b and are still to be counted in it.
Entering(b) == {r \in At("lock") \cup At("count") : visit[r].bucket = b}

\* Bucket b was used, or made, since a sweep that began at t judged its client, or is
\* about to be used.
Raced(b, t) == bucket[b].lastSeen >= t \/ Entering(b) # {}

\* It deletes by key, whatever bucket the client has by then.
Delete(r) ==
    LET v == visit[r] IN
    /\ v.pc = "delete"
    /\ limiter' = [c \in Clients |-> IF c \in v.doomed THEN Absent ELSE limiter[c]]
    /\ torn' = torn \cup {b \in {limiter[c] : c \in v.doomed \cap Known} : Raced(b, v.at)}
    /\ Step(r, [v EXCEPT !.pc = "sweep", !.doomed = {}])
    /\ UNCHANGED <<now, bucket, mutex, tally>>

EndSweep(r) ==
    LET v == visit[r] IN
    /\ v.pc = "sweep" /\ v.todo = {}
    /\ Step(r, Leave(v))
    /\ UNCHANGED <<now, limiter, bucket, mutex, tally, torn>>

\* Time passes.
Tick ==
    /\ now' = now + 1
    /\ UNCHANGED <<limiter, bucket, mutex, tally, visit, torn>>
--------------------------------------------------------------------------------
Limit(r) ==
    \/ Lock(r) \/ Count(r) \/ Tally(r)
    \/ \E c \in Clients : Judge(r, c)
    \/ Delete(r) \/ EndSweep(r)

LimiterNext ==
    \/ \E r \in Requests : Limit(r) \/ \E c \in Clients : LoadOrStore(r, c)
    \/ Tick

LimiterSpec == LimiterInit /\ [][LimiterNext]_limiterVars
--------------------------------------------------------------------------------
(* Properties. *)

LimiterTypeOK ==
    /\ now \in Nat /\ tally \in Nat
    /\ limiter \in [Clients -> Buckets \cup {Absent}]
    /\ bucket \in [Buckets -> Bucket \cup {Unused}]
    /\ mutex \in [Buckets -> SUBSET Requests]
    /\ visit \in [Requests -> Visit \cup {Waiting}]
    /\ torn \subseteq Buckets

\* The requests counted in the current window of a bucket.
InWindow(b) == {r \in Counted : visit[r].bucket = b /\ visit[r].at >= bucket[b].windowStart}
Admitted(b) == {r \in InWindow(b) : ~ visit[r].over}

\* The quota of a window is what the requests in it really got, in whatever order
\* they took the mutex: no more than MaxRequests pass, and none is refused before
\* so many have.
QuotaExact ==
    \A b \in Buckets : InUse(b) =>
        /\ Cardinality(Admitted(b)) <= MaxRequests
        /\ InWindow(b) # Admitted(b) => Cardinality(Admitted(b)) = MaxRequests

\* Nobody waits for a bucket while holding one: a sweep that reaches its own
\* client's bucket finds it free.
NoHoldAndWait ==
    \A b \in Buckets : \A r \in mutex[b] : visit[r].pc = "count"

\* A sweep takes a client's quota away early only in a race: the bucket it deletes
\* has ended its window, or has been used since the sweeping request was counted.
SweepSparesLive ==
    [][\A r \in Requests, c \in Known :
          visit[r] # Waiting /\ visit[r].pc = "delete" /\ visit'[r].pc # "delete"
          /\ c \in visit[r].doomed =>
              \/ now - bucket[limiter[c]].windowStart >= WindowDuration
              \/ bucket[limiter[c]].lastSeen >= visit[r].at]_limiterVars

\* The buckets whose quota a client has drawn on.
BucketsOf(c) == {visit[r].bucket : r \in {q \in Arrived : visit[q].client = c}}

Apart(b, d) ==
    \/ bucket[b].windowStart + WindowDuration <= bucket[d].windowStart
    \/ bucket[d].windowStart + WindowDuration <= bucket[b].windowStart

\* A client has one quota in a window, and one more for each bucket that a sweep has
\* taken from it in a race: of its other buckets, forgotten and made again in any
\* order with the client's own requests, no two have windows that overlap.
OneQuotaAtATime ==
    \A c \in Clients : \A b, d \in BucketsOf(c) \ torn : b = d \/ Apart(b, d)
================================================================================
