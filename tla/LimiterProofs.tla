----------------------------- MODULE LimiterProofs -----------------------------
(***************************************************************************)
(* Proofs about RateLimiter, for any number of clients, requests and       *)
(* buckets, any quota, window and sweep interval.                          *)
(***************************************************************************)
EXTENDS RateLimiter, FiniteSetTheorems, TLAPS

\* Whoever holds a mutex is in the critical section of that bucket.
Holders == \A b \in Buckets : \A r \in mutex[b] :
              r \in Arrived /\ visit[r].pc = "count" /\ visit[r].bucket = b

\* A bucket that the map or a request knows has been allocated.
Allocated ==
    /\ \A c \in Known : InUse(limiter[c])
    /\ \A r \in Arrived : InUse(visit[r].bucket)

\* Nothing has happened in the future, and nobody was counted in a window that had
\* ended.
Times ==
    /\ \A b \in Buckets : InUse(b) =>
          bucket[b].windowStart <= bucket[b].lastSeen /\ bucket[b].lastSeen <= now
    /\ \A r \in Counted :
          /\ visit[r].at <= now
          /\ visit[r].at < bucket[visit[r].bucket].windowStart + WindowDuration

\* The counter of a bucket is the number of requests in its window; the first
\* MaxRequests of them were admitted.
Tallies ==
    \A b \in Buckets : InUse(b) =>
        /\ Cardinality(InWindow(b)) = bucket[b].count
        /\ Cardinality(Admitted(b)) =
              IF bucket[b].count <= MaxRequests THEN bucket[b].count ELSE MaxRequests

\* The bucket of a client about to be deleted had ended its window when the sweep
\* began, or it was used later.
Doom ==
    \A r \in At("delete") : \A c \in visit[r].doomed : c \in Known =>
        \/ visit[r].at - bucket[limiter[c]].windowStart >= WindowDuration
        \/ bucket[limiter[c]].lastSeen >= visit[r].at

IndInv == /\ LimiterTypeOK /\ Holders /\ Allocated /\ Times
          /\ IsFiniteSet(Arrived) /\ Tallies /\ Doom

\* A bucket object is told from one that is not allocated yet by its fields.
LEMMA BucketFacts == \A x \in Bucket : x # Unused
BY DEF Bucket, Unused

\* A request that has arrived is told from one that has not by its step.
LEMMA VisitFacts == \A v \in Visit : v # Waiting
BY DEF Visit, Waiting

\* The state of a bucket in use and of a request that has arrived.
LEMMA Types ==
    ASSUME LimiterTypeOK
    PROVE  /\ now \in Nat
           /\ \A b \in Buckets : InUse(b) => bucket[b] \in Bucket
           /\ \A r \in Arrived : visit[r] \in Visit
           /\ \A c \in Known : limiter[c] \in Buckets
BY DEF LimiterTypeOK, InUse, Arrived, Known

\* At first no bucket is allocated and nobody has arrived.
LEMMA InitInv == LimiterInit => IndInv
<1> SUFFICES ASSUME LimiterInit PROVE IndInv
  OBVIOUS
<1>1. Arrived = {} /\ Known = {} /\ Counted = {} /\ At("delete") = {}
  BY DEF LimiterInit, Arrived, Known, Counted, At, Absent
<1>2. \A b \in Buckets : ~ InUse(b) /\ mutex[b] = {}
  BY DEF LimiterInit, InUse
<1>3. LimiterTypeOK
  BY DEF LimiterInit, LimiterTypeOK, Absent
<1>4. IsFiniteSet(Arrived)
  BY <1>1, FS_EmptySet
<1> QED
  BY <1>1, <1>2, <1>3, <1>4 DEF IndInv, Holders, Allocated, Times, Tallies, Doom

\* A bucket that stays as it is keeps its window when nobody is newly counted.
LEMMA SameWindow ==
    ASSUME NEW b \in Buckets, bucket'[b] = bucket[b], Counted' = Counted,
           \A r \in Counted : /\ visit'[r].bucket = visit[r].bucket
                              /\ visit'[r].at = visit[r].at
                              /\ visit'[r].over = visit[r].over
    PROVE  InWindow(b)' = InWindow(b) /\ Admitted(b)' = Admitted(b)
<1>1. InWindow(b)' = InWindow(b)
  BY DEF InWindow
<1>2. \A r \in InWindow(b) : visit'[r].over = visit[r].over
  BY DEF InWindow
<1> QED
  BY <1>1, <1>2 DEF Admitted

\* What a request does once it has been counted changes neither the buckets nor
\* anything that was counted; it may take clients out of the map.
LEMMA LaterStep ==
    ASSUME IndInv, NEW r \in Counted, NEW w \in Visit,
           visit' = [visit EXCEPT ![r] = w], w.pc \notin {"lock", "count"},
           w.bucket = visit[r].bucket, w.at = visit[r].at, w.over = visit[r].over,
           UNCHANGED <<now, bucket, mutex>>, tally' \in Nat, torn' \subseteq Buckets,
           limiter' \in [Clients -> Buckets \cup {Absent}],
           \A c \in Clients : limiter'[c] \in {limiter[c], Absent},
           w.pc = "delete" => \A c \in w.doomed : c \in Known =>
               \/ w.at - bucket[limiter[c]].windowStart >= WindowDuration
               \/ bucket[limiter[c]].lastSeen >= w.at
    PROVE  IndInv'
<1>1. r \in Requests /\ r \in Arrived /\ visit[r].pc \notin {"lock", "count"}
  BY DEF Counted, Arrived
<1>2. /\ LimiterTypeOK'
      /\ \A s \in Requests : visit'[s] = IF s = r THEN w ELSE visit[s]
  BY <1>1 DEF IndInv, LimiterTypeOK
<1>3. Arrived' = Arrived
  BY <1>1, <1>2, VisitFacts DEF Arrived
<1>4. Counted' = Counted
  BY <1>1, <1>2, <1>3 DEF Counted
<1>5. \A s \in Arrived : /\ visit'[s].bucket = visit[s].bucket
                         /\ s \in Counted => visit'[s].at = visit[s].at
                         /\ s \in Counted => visit'[s].over = visit[s].over
  BY <1>2 DEF Arrived
<1>6. Known' \subseteq Known /\ \A c \in Known' : limiter'[c] = limiter[c]
  BY DEF Known, Absent
<1>7. Holders'
  BY <1>1, <1>2, <1>3 DEF IndInv, Holders
<1>8. Allocated'
  BY <1>3, <1>5, <1>6 DEF IndInv, Allocated, InUse
<1>9. Times'
  BY <1>4, <1>5 DEF IndInv, Times, InUse, Counted
<1>10. Tallies'
  <2>1. \A b \in Buckets : InWindow(b)' = InWindow(b) /\ Admitted(b)' = Admitted(b)
    BY <1>4, <1>5, SameWindow DEF Counted
  <2> QED
    BY <2>1 DEF IndInv, Tallies, InUse
<1>11. Doom'
  BY <1>2, <1>3, <1>6 DEF IndInv, Doom, At
<1> QED
  BY <1>2, <1>3, <1>7, <1>8, <1>9, <1>10, <1>11 DEF IndInv

\* A client that is new gets a bucket that nobody knew, with an empty window.
LEMMA LoadOrStoreInv ==
    ASSUME IndInv, NEW r \in Requests, NEW c \in Clients, LoadOrStore(r, c)
    PROVE  IndInv'
<1> DEFINE entry == [count |-> 0, windowStart |-> now, lastSeen |-> now]
           w(b) == [pc |-> "lock", client |-> c, bucket |-> b, at |-> 0,
                    over |-> FALSE, todo |-> {}, doomed |-> {}]
<1>1. PICK b \in Buckets :
         /\ IF c \in Known
            THEN b = limiter[c] /\ UNCHANGED <<limiter, bucket>>
            ELSE /\ Fresh(b)
                 /\ limiter' = [limiter EXCEPT ![c] = b]
                 /\ bucket' = [bucket EXCEPT ![b] = entry]
         /\ visit' = [visit EXCEPT ![r] = w(b)]
  BY DEF LoadOrStore, Step
<1>2. /\ UNCHANGED <<now, mutex, tally, torn>> /\ visit[r] = Waiting /\ r \notin Arrived
  BY DEF LoadOrStore, Arrived
<1>3. w(b) \in Visit /\ entry \in Bucket /\ b # Absent
  BY LimiterAssumption DEF IndInv, LimiterTypeOK, Visit, Bucket, Absent
<1>4. LimiterTypeOK' /\ \A s \in Requests : visit'[s] = IF s = r THEN w(b) ELSE visit[s]
  BY <1>1, <1>2, <1>3 DEF IndInv, LimiterTypeOK
<1>5. Arrived' = Arrived \cup {r} /\ Arrived \subseteq Requests
  BY <1>3, <1>4, VisitFacts DEF Arrived
<1>6. Counted' = Counted /\ r \notin Counted
  BY <1>2, <1>4, <1>5 DEF Counted
<1>7. /\ \A d \in Buckets : InUse(d) => bucket'[d] = bucket[d] /\ InUse(d)'
      /\ \A d \in Buckets : ~ InUse(d) /\ InUse(d)' => d = b /\ bucket'[d] = entry
      /\ InUse(b)'
  <2>1. CASE c \in Known
    BY <1>1, <2>1 DEF IndInv, Allocated, InUse
  <2>2. CASE c \notin Known
    <3>1. ~ InUse(b) /\ \A d \in Buckets : bucket'[d] = IF d = b THEN entry ELSE bucket[d]
      BY <1>1, <2>2 DEF Fresh, IndInv, LimiterTypeOK
    <3> QED
      BY <3>1, <1>3, BucketFacts DEF InUse
  <2> QED
    BY <2>1, <2>2
<1>8. \A d \in Clients : \/ d \in Known /\ limiter'[d] = limiter[d]
                         \/ d \notin Known' /\ d \notin Known
                         \/ limiter'[d] = b /\ ~ InUse(b)
  BY <1>1 DEF Known, Fresh, IndInv, LimiterTypeOK
<1>9. Holders'
  BY <1>2, <1>4, <1>5 DEF IndInv, Holders, LimiterTypeOK
<1>10. Allocated'
  <2>1. \A s \in Arrived : visit[s].bucket \in Buckets
    BY Types DEF IndInv, Visit
  <2>2. \A s \in Arrived' : bucket'[visit'[s].bucket] # Unused
    BY <1>2, <1>4, <1>5, <1>7, <2>1 DEF IndInv, Allocated, InUse
  <2>3. \A d \in Known' : bucket'[limiter'[d]] # Unused
    BY <1>7, <1>8, Types DEF IndInv, Allocated, Known, InUse
  <2> QED
    BY <2>2, <2>3 DEF Allocated, InUse
<1>11. \A s \in Counted : visit'[s] = visit[s] /\ visit[s].bucket \in Buckets
                          /\ bucket'[visit[s].bucket] = bucket[visit[s].bucket]
  <2> TAKE s \in Counted
  <2>1. s \in Arrived /\ s # r /\ visit[s] \in Visit
    BY <1>6, Types DEF Counted, IndInv
  <2>2. visit[s].bucket \in Buckets /\ InUse(visit[s].bucket)
    BY <2>1 DEF Visit, IndInv, Allocated
  <2> QED
    BY <2>1, <2>2, <1>4, <1>7 DEF Arrived
<1>12. Times'
  BY <1>2, <1>6, <1>7, <1>11, <1>3 DEF IndInv, Times, LimiterTypeOK
<1>13. Tallies'
  <2> SUFFICES ASSUME NEW d \in Buckets, InUse(d)'
               PROVE  /\ Cardinality(InWindow(d)') = bucket'[d].count
                      /\ Cardinality(Admitted(d)') =
                            IF bucket'[d].count <= MaxRequests THEN bucket'[d].count ELSE MaxRequests
    BY DEF Tallies
  <2>1. CASE InUse(d)
    <3>1. InWindow(d)' = InWindow(d) /\ Admitted(d)' = Admitted(d) /\ bucket'[d] = bucket[d]
      BY <2>1, <1>6, <1>7, <1>11, SameWindow
    <3> QED
      BY <3>1, <2>1 DEF IndInv, Tallies
  <2>2. CASE ~ InUse(d)
    <3>1. InWindow(d)' = {} /\ bucket'[d].count = 0
      BY <2>2, <1>6, <1>7, <1>11 DEF InWindow, IndInv, Allocated, Counted
    <3>2. Admitted(d)' = {}
      BY <3>1 DEF Admitted
    <3> QED
      BY <3>1, <3>2, FS_EmptySet, LimiterAssumption
  <2> QED
    BY <2>1, <2>2
<1>14. Doom'
  <2> SUFFICES ASSUME NEW s \in At("delete")', NEW d \in visit'[s].doomed, d \in Known'
               PROVE  \/ visit'[s].at - bucket'[limiter'[d]].windowStart >= WindowDuration
                      \/ bucket'[limiter'[d]].lastSeen >= visit'[s].at
    BY DEF Doom
  <2>1. s \in At("delete") /\ visit'[s] = visit[s] /\ s \in Counted /\ d \in Clients
    BY <1>4, <1>5, <1>6 DEF At, Counted, Known
  <2>2. CASE d \in Known /\ limiter'[d] = limiter[d]
    BY <2>1, <2>2, <1>7, Types DEF IndInv, Doom, Allocated
  <2>3. CASE limiter'[d] = b /\ ~ InUse(b)
    BY <2>1, <2>3, <1>7, <1>2 DEF IndInv, Times
  <2> QED
    BY <1>8, <2>1, <2>2, <2>3
<1>15. IsFiniteSet(Arrived')
  BY <1>5, FS_AddElement DEF IndInv
<1> QED
  BY <1>4, <1>9, <1>10, <1>12, <1>13, <1>14, <1>15 DEF IndInv

\* A request gets the mutex.
LEMMA LockInv == ASSUME IndInv, NEW r \in Requests, Lock(r), r \in Arrived PROVE IndInv'
<1> DEFINE v == visit[r]
           w == [v EXCEPT !.pc = "count"]
<1>1. /\ v.pc = "lock" /\ ~ Locked(v.bucket)
      /\ mutex' = [mutex EXCEPT ![v.bucket] = {r}] /\ visit' = [visit EXCEPT ![r] = w]
      /\ UNCHANGED <<now, limiter, bucket, tally, torn>>
  BY DEF Lock, Step
<1>2. v \in Visit /\ w \in Visit
  BY Types DEF IndInv, Visit
<1>3. /\ LimiterTypeOK'
      /\ \A s \in Requests : visit'[s] = IF s = r THEN w ELSE visit[s]
      /\ \A b \in Buckets : mutex'[b] = IF b = v.bucket THEN {r} ELSE mutex[b]
  BY <1>1, <1>2 DEF IndInv, LimiterTypeOK, Visit
<1>4. Arrived' = Arrived /\ Arrived \subseteq Requests
  BY <1>2, <1>3, VisitFacts DEF Arrived
<1>5. w.pc = "count" /\ w.bucket = v.bucket
  BY <1>2 DEF Visit
<1>6. Counted' = Counted /\ r \notin Counted
  BY <1>1, <1>3, <1>4, <1>5 DEF Counted
<1>7. \A s \in Counted : visit'[s] = visit[s]
  BY <1>3, <1>6 DEF Counted, Arrived
<1>8. Holders'
  <2> SUFFICES ASSUME NEW b \in Buckets, NEW s \in mutex'[b]
               PROVE  s \in Arrived /\ visit'[s].pc = "count" /\ visit'[s].bucket = b
    BY <1>4 DEF Holders
  <2>1. CASE b = v.bucket
    <3>1. s = r
      BY <2>1, <1>3
    <3>2. visit'[r] = w
      BY <1>3
    <3> QED
      BY <3>1, <3>2, <2>1, <1>5
  <2>2. CASE b # v.bucket
    <3>1. s \in Arrived /\ visit[s].pc = "count" /\ visit[s].bucket = b
      BY <2>2, <1>3 DEF IndInv, Holders
    <3> QED
      BY <3>1, <1>1, <1>3, <1>4
  <2> QED
    BY <2>1, <2>2
<1>9. Allocated'
  BY <1>1, <1>3, <1>4, <1>5 DEF IndInv, Allocated, InUse, Known, Arrived
<1>10. Times'
  BY <1>1, <1>6, <1>7 DEF IndInv, Times, InUse
<1>11. Tallies'
  <2>1. \A b \in Buckets : InWindow(b)' = InWindow(b) /\ Admitted(b)' = Admitted(b)
    BY <1>1, <1>6, <1>7, SameWindow
  <2> QED
    BY <2>1, <1>1 DEF IndInv, Tallies, InUse
<1>12. Doom'
  BY <1>1, <1>3, <1>4, <1>5 DEF IndInv, Doom, At, Known, Arrived
<1> QED
  BY <1>3, <1>4, <1>8, <1>9, <1>10, <1>11, <1>12 DEF IndInv
\* Adding one more element counts one more.
LEMMA OneMore ==
    ASSUME NEW S, IsFiniteSet(S), NEW x, x \notin S
    PROVE  Cardinality(S \cup {x}) = Cardinality(S) + 1 /\ Cardinality({x}) = 1
BY FS_AddElement, FS_Singleton

\* Counting a request: the bucket's counter keeps up with its window, whether the
\* request begins a new one or not.
LEMMA CountInv == ASSUME IndInv, NEW r \in Requests, Count(r), r \in Arrived PROVE IndInv'
<1>0. PICK b \in Buckets : visit[r].bucket = b /\ InUse(b) /\ visit[r] \in Visit
  BY Types DEF IndInv, Allocated, Visit
<1> DEFINE v == visit[r]
           over == bucket'[b].count > MaxRequests
           w == [v EXCEPT !.pc = "tally", !.at = now, !.over = over]
<1>1. /\ v.pc = "count" /\ v \in Visit /\ b \in Buckets /\ InUse(b) /\ v.bucket = b
      /\ visit' = [visit EXCEPT ![r] = w]
      /\ bucket' = [bucket EXCEPT ![b] = Seen(@)]
      /\ mutex' = [mutex EXCEPT ![b] = @ \ {r}]
      /\ UNCHANGED <<now, limiter, tally, torn>>
  BY <1>0 DEF Count, Step, Unlocked
<1>2. /\ bucket[b] \in Bucket /\ now \in Nat
      /\ bucket[b].count \in Nat /\ bucket[b].windowStart \in Nat
      /\ bucket[b].lastSeen \in Nat /\ bucket[b].lastSeen <= now
      /\ bucket[b].windowStart <= bucket[b].lastSeen
      /\ bucket[b].count + 1 \in Nat
      /\ MaxRequests \in Nat /\ WindowDuration \in Nat /\ WindowDuration > 0
  BY <1>1, Types, LimiterAssumption DEF IndInv, Times, Bucket
<1>3. /\ Seen(bucket[b]) \in Bucket
      /\ Seen(bucket[b]).lastSeen = now
      /\ Seen(bucket[b]).windowStart =
            IF now - bucket[b].windowStart >= WindowDuration THEN now ELSE bucket[b].windowStart
      /\ Seen(bucket[b]).count =
            IF now - bucket[b].windowStart >= WindowDuration THEN 1 ELSE bucket[b].count + 1
  BY <1>2 DEF Seen, Bucket
<1>4. \A d \in Buckets : bucket'[d] = IF d = b THEN Seen(bucket[b]) ELSE bucket[d]
  BY <1>1 DEF IndInv, LimiterTypeOK
<1>5. w \in Visit
  <2>1. over \in BOOLEAN
    OBVIOUS
  <2> HIDE DEF over
  <2> QED
    BY <1>1, <1>2, <2>1 DEF Visit
<1>6. w.pc = "tally" /\ w.bucket = b /\ w.at = now /\ w.over = over
  BY <1>1 DEF Visit
<1> HIDE DEF w, over
<1>7. /\ LimiterTypeOK'
      /\ \A s \in Requests : visit'[s] = IF s = r THEN w ELSE visit[s]
      /\ \A d \in Buckets : mutex'[d] \subseteq mutex[d] /\ (d = b => r \notin mutex'[d])
  BY <1>1, <1>3, <1>5 DEF IndInv, LimiterTypeOK
<1>8. Arrived' = Arrived /\ Arrived \subseteq Requests
  BY <1>5, <1>7, VisitFacts DEF Arrived
<1>9. Counted' = Counted \cup {r} /\ r \notin Counted /\ Counted \subseteq Arrived
  BY <1>1, <1>6, <1>7, <1>8 DEF Counted
<1>10. /\ \A s \in Counted : visit'[s] = visit[s] /\ visit[s] \in Visit
       /\ visit'[r] = w
  BY <1>7, <1>8, <1>9, Types DEF IndInv
<1>11. \A d \in Buckets : InUse(d)' = InUse(d)
  BY <1>1, <1>3, <1>4, BucketFacts DEF InUse
<1>12. Holders'
  <2> SUFFICES ASSUME NEW d \in Buckets, NEW s \in mutex'[d]
               PROVE  s \in Arrived /\ visit'[s].pc = "count" /\ visit'[s].bucket = d
    BY <1>8 DEF Holders
  <2>1. s \in Arrived /\ visit[s].pc = "count" /\ visit[s].bucket = d
    BY <1>7 DEF IndInv, Holders
  <2>2. s # r
    BY <1>0, <1>7, <2>1
  <2> QED
    BY <1>7, <1>8, <2>1, <2>2
<1>13. Allocated'
  <2>1. \A s \in Arrived : visit[s].bucket \in Buckets /\ visit'[s].bucket = visit[s].bucket
    BY <1>0, <1>6, <1>7, <1>8, Types DEF IndInv, Visit
  <2>2. Known' = Known /\ \A c \in Known : limiter'[c] = limiter[c] /\ limiter[c] \in Buckets
    BY <1>1, Types DEF IndInv, Known
  <2> QED
    BY <1>8, <1>11, <2>1, <2>2 DEF IndInv, Allocated, InUse
<1>14. \A s \in Counted : visit[s].bucket = b => visit[s].at < bucket[b].windowStart + WindowDuration
  BY DEF IndInv, Times
<1>15. Times'
  <2>1. \A d \in Buckets : InUse(d)' =>
           bucket'[d].windowStart <= bucket'[d].lastSeen /\ bucket'[d].lastSeen <= now'
    BY <1>1, <1>2, <1>3, <1>4, <1>11 DEF IndInv, Times
  <2>2. now < bucket'[b].windowStart + WindowDuration
    BY <1>1, <1>2, <1>3, <1>4
  <2>3. bucket'[b].windowStart >= bucket[b].windowStart /\ bucket'[b].windowStart \in Nat
    BY <1>1, <1>2, <1>3, <1>4
  <2>4. \A s \in Counted : /\ visit[s].at <= now /\ visit[s].at \in Nat
                           /\ visit[s].bucket \in Buckets
                           /\ visit[s].at < bucket'[visit[s].bucket].windowStart + WindowDuration
    <3> TAKE s \in Counted
    <3>1. /\ visit[s].at \in Nat /\ visit[s].bucket \in Buckets /\ visit[s].at <= now
          /\ visit[s].at < bucket[visit[s].bucket].windowStart + WindowDuration
      BY <1>10 DEF Visit, IndInv, Times
    <3>2. CASE visit[s].bucket = b
      BY <3>1, <3>2, <2>3, <1>2
    <3>3. CASE visit[s].bucket # b
      BY <3>1, <3>3, <1>4
    <3> QED
      BY <3>1, <3>2, <3>3
  <2>5. \A s \in Counted' : /\ visit'[s].at <= now'
                            /\ visit'[s].at < bucket'[visit'[s].bucket].windowStart + WindowDuration
    BY <1>1, <1>2, <1>6, <1>9, <1>10, <2>2, <2>4
  <2> QED
    BY <2>1, <2>5 DEF Times
<1>16. \A d \in Buckets : d # b => InWindow(d)' = InWindow(d) /\ Admitted(d)' = Admitted(d)
  <2> SUFFICES ASSUME NEW d \in Buckets, d # b
               PROVE  InWindow(d)' = InWindow(d) /\ Admitted(d)' = Admitted(d)
    OBVIOUS
  <2>1. InWindow(d)' = InWindow(d)
    BY <1>4, <1>6, <1>9, <1>10 DEF InWindow
  <2>2. \A s \in InWindow(d) : visit'[s] = visit[s]
    BY <1>10 DEF InWindow
  <2> QED
    BY <2>1, <2>2 DEF Admitted
<1>17. IsFiniteSet(InWindow(b)) /\ IsFiniteSet(Admitted(b)) /\ r \notin InWindow(b)
       /\ r \notin Admitted(b)
  <2>1. InWindow(b) \subseteq Arrived /\ Admitted(b) \subseteq Arrived
    BY <1>9 DEF InWindow, Admitted
  <2> QED
    BY <2>1, <1>9, FS_Subset DEF IndInv, InWindow, Admitted
<1>18. /\ Cardinality(InWindow(b)') = bucket'[b].count
       /\ Cardinality(Admitted(b)') =
             IF bucket'[b].count <= MaxRequests THEN bucket'[b].count ELSE MaxRequests
  <2>1. /\ Cardinality(InWindow(b)) = bucket[b].count
        /\ Cardinality(Admitted(b)) =
              IF bucket[b].count <= MaxRequests THEN bucket[b].count ELSE MaxRequests
    BY <1>1 DEF IndInv, Tallies
  <2>2. /\ w.over => bucket'[b].count > MaxRequests
        /\ ~ w.over => ~ (bucket'[b].count > MaxRequests)
    BY <1>6 DEF over
  <2>3. CASE now - bucket[b].windowStart >= WindowDuration
    <3>1. bucket'[b].count = 1 /\ bucket'[b].windowStart = now
      BY <1>1, <1>3, <1>4, <2>3
    <3>2. \A s \in Counted : visit[s].bucket = b => ~ (visit[s].at >= now)
      BY <1>2, <1>10, <1>14, <2>3 DEF Visit
    <3>3. InWindow(b)' = {r}
      BY <1>2, <1>6, <1>9, <1>10, <3>1, <3>2 DEF InWindow
    <3>4. Admitted(b)' = IF w.over THEN {} ELSE {r}
      BY <1>10, <3>3 DEF Admitted
    <3>5. Cardinality({r}) = 1 /\ Cardinality({}) = 0
      BY FS_Singleton, FS_EmptySet
    <3>6. CASE w.over
      BY <1>2, <2>2, <3>1, <3>3, <3>4, <3>5, <3>6
    <3>7. CASE ~ w.over
      BY <1>2, <2>2, <3>1, <3>3, <3>4, <3>5, <3>7
    <3> QED
      BY <3>6, <3>7
  <2>4. CASE ~ (now - bucket[b].windowStart >= WindowDuration)
    <3>1. bucket'[b].count = bucket[b].count + 1 /\ bucket'[b].windowStart = bucket[b].windowStart
      BY <1>1, <1>3, <1>4, <2>4
    <3>2. InWindow(b)' = InWindow(b) \cup {r}
      BY <1>2, <1>6, <1>9, <1>10, <3>1 DEF InWindow
    <3>3. \A s \in InWindow(b) : visit'[s] = visit[s]
      BY <1>10 DEF InWindow
    <3>4. Admitted(b)' = IF w.over THEN Admitted(b) ELSE Admitted(b) \cup {r}
      BY <1>10, <3>2, <3>3 DEF Admitted
    <3>5. Cardinality(InWindow(b)') = bucket'[b].count
      BY <1>17, <2>1, <3>1, <3>2, OneMore
    <3>6. CASE w.over
      BY <1>2, <2>1, <2>2, <3>1, <3>4, <3>5, <3>6
    <3>7. CASE ~ w.over
      <4>1. Cardinality(Admitted(b)') = Cardinality(Admitted(b)) + 1
        BY <1>17, <3>4, <3>7, OneMore
      <4> QED
        BY <1>2, <2>1, <2>2, <3>1, <3>5, <3>7, <4>1
    <3> QED
      BY <3>5, <3>6, <3>7
  <2> QED
    BY <2>3, <2>4
<1>19. Tallies'
  <2> SUFFICES ASSUME NEW d \in Buckets, InUse(d)'
               PROVE  /\ Cardinality(InWindow(d)') = bucket'[d].count
                      /\ Cardinality(Admitted(d)') =
                            IF bucket'[d].count <= MaxRequests THEN bucket'[d].count ELSE MaxRequests
    BY DEF Tallies
  <2>1. CASE d = b
    BY <1>18, <2>1
  <2>2. CASE d # b
    BY <1>4, <1>11, <1>16, <2>2 DEF IndInv, Tallies
  <2> QED
    BY <2>1, <2>2
<1>20. Doom'
  <2> SUFFICES ASSUME NEW s \in At("delete")', NEW c \in visit'[s].doomed, c \in Known'
               PROVE  \/ visit'[s].at - bucket'[limiter'[c]].windowStart >= WindowDuration
                      \/ bucket'[limiter'[c]].lastSeen >= visit'[s].at
    BY DEF Doom
  <2>1. s \in Counted /\ s \in At("delete") /\ visit'[s] = visit[s]
    BY <1>6, <1>7, <1>8 DEF At, Counted
  <2>2. c \in Known /\ limiter'[c] = limiter[c] /\ limiter[c] \in Buckets
    BY <1>1, Types DEF Known, IndInv
  <2>3. CASE limiter[c] = b
    BY <1>1, <1>3, <1>4, <2>1, <2>2, <2>3 DEF IndInv, Times
  <2>4. CASE limiter[c] # b
    BY <1>4, <2>1, <2>2, <2>4 DEF IndInv, Doom
  <2> QED
    BY <2>3, <2>4
<1> QED
  BY <1>7, <1>8, <1>12, <1>13, <1>15, <1>19, <1>20 DEF IndInv
\* A request that is past the critical section.
LEMMA CountedFacts ==
    ASSUME LimiterTypeOK, NEW r \in Requests,
           visit[r].pc \in {"tally", "sweep", "delete"}
    PROVE  r \in Counted /\ visit[r] \in Visit
<1>1. visit[r] # Waiting
  BY DEF Waiting
<1> QED
  BY <1>1, Types DEF Counted, Arrived

\* Where a request goes when it is done.
LEMMA LeaveFacts ==
    ASSUME NEW v \in Visit
    PROVE  /\ Leave(v) \in Visit /\ Leave(v).pc \in {"refused", "next"}
           /\ Leave(v).bucket = v.bucket /\ Leave(v).at = v.at /\ Leave(v).over = v.over
BY DEF Leave, Visit

\* The atomic counter, and the sweep it may begin.
LEMMA TallyInv == ASSUME IndInv, NEW r \in Requests, Tally(r) PROVE IndInv'
<1> DEFINE v == visit[r]
           w == IF tally' = 0 THEN [v EXCEPT !.pc = "sweep", !.todo = Known] ELSE Leave(v)
<1>1. r \in Counted /\ v \in Visit
  BY CountedFacts DEF Tally, IndInv
<1>2. /\ w \in Visit /\ w.pc \in {"sweep", "refused", "next"}
      /\ w.bucket = v.bucket /\ w.at = v.at /\ w.over = v.over
  BY <1>1, LeaveFacts DEF Visit, Known
<1>3. tally' \in Nat
  BY LimiterAssumption DEF Tally, IndInv, LimiterTypeOK
<1>4. /\ visit' = [visit EXCEPT ![r] = w]
      /\ UNCHANGED <<now, limiter, bucket, mutex, torn>>
  BY DEF Tally, Step
<1> HIDE DEF w
<1> QED
  BY <1>1, <1>2, <1>3, <1>4, LaterStep DEF IndInv, LimiterTypeOK

\* A sweep judges a bucket: one that is idle for two windows has ended its own.
LEMMA JudgeInv == ASSUME IndInv, NEW r \in Requests, NEW c \in Clients, Judge(r, c) PROVE IndInv'
<1> DEFINE v == visit[r]
           kept == [v EXCEPT !.todo = @ \ {c}]
           gone == [v EXCEPT !.pc = "delete", !.todo = @ \ {c}, !.doomed = {c}]
<1>1. r \in Counted /\ v \in Visit /\ v.pc = "sweep"
  BY CountedFacts DEF Judge, IndInv
<1>2. PICK w \in {kept, gone} :
         /\ visit' = [visit EXCEPT ![r] = w]
         /\ w = kept \/ (c \in Known /\ Stale(bucket[limiter[c]], v.at))
  <2>1. \/ visit' = [visit EXCEPT ![r] = kept]
        \/ /\ visit' = [visit EXCEPT ![r] = gone]
           /\ c \in Known /\ Stale(bucket[limiter[c]], v.at)
    BY DEF Judge, Step
  <2> HIDE DEF kept, gone
  <2> QED
    BY <2>1
<1>3. /\ w \in Visit /\ w.pc \in {"sweep", "delete"}
      /\ w.pc = "delete" => w = gone /\ w # kept
      /\ w.bucket = v.bucket /\ w.at = v.at /\ w.over = v.over
  <2>1. /\ kept \in Visit /\ kept.pc = "sweep"
        /\ kept.bucket = v.bucket /\ kept.at = v.at /\ kept.over = v.over
    BY <1>1 DEF Visit
  <2>2. /\ gone \in Visit /\ gone.pc = "delete"
        /\ gone.bucket = v.bucket /\ gone.at = v.at /\ gone.over = v.over
    BY <1>1 DEF Visit
  <2> HIDE DEF kept, gone
  <2> QED
    BY <1>2, <2>1, <2>2
<1>4. w.pc = "delete" => \A d \in w.doomed : d \in Known =>
         v.at - bucket[limiter[d]].windowStart >= WindowDuration
  <2> SUFFICES ASSUME w = gone, w # kept
               PROVE  /\ w.doomed = {c}
                      /\ v.at - bucket[limiter[c]].windowStart >= WindowDuration
    BY <1>3
  <2>1. w.doomed = {c}
    BY <1>1 DEF Visit
  <2>2. /\ limiter[c] \in Buckets /\ InUse(limiter[c])
        /\ Stale(bucket[limiter[c]], v.at)
    BY <1>2, Types DEF IndInv, Allocated
  <2>3. /\ bucket[limiter[c]] \in Bucket
        /\ bucket[limiter[c]].windowStart <= bucket[limiter[c]].lastSeen
    BY <2>2, Types DEF IndInv, Times
  <2> QED
    BY <1>1, <2>1, <2>2, <2>3, LimiterAssumption DEF Stale, Bucket, Visit
<1>5. UNCHANGED <<now, limiter, bucket, mutex, tally, torn>>
  BY DEF Judge
<1> HIDE DEF kept, gone
<1> QED
  BY <1>1, <1>2, <1>3, <1>4, <1>5, LaterStep DEF IndInv, LimiterTypeOK

\* A sweep deletes: a client less in the map.
LEMMA DeleteInv == ASSUME IndInv, NEW r \in Requests, Delete(r) PROVE IndInv'
<1> DEFINE v == visit[r]
           w == [v EXCEPT !.pc = "sweep", !.doomed = {}]
<1>1. r \in Counted /\ v \in Visit
  BY CountedFacts DEF Delete, IndInv
<1>2. /\ w \in Visit /\ w.pc = "sweep"
      /\ w.bucket = v.bucket /\ w.at = v.at /\ w.over = v.over
  BY <1>1 DEF Visit
<1>3. /\ limiter' \in [Clients -> Buckets \cup {Absent}]
      /\ \A c \in Clients : limiter'[c] \in {limiter[c], Absent}
  BY DEF Delete, IndInv, LimiterTypeOK
<1>4. /\ visit' = [visit EXCEPT ![r] = w]
      /\ UNCHANGED <<now, bucket, mutex, tally>>
  BY DEF Delete, Step
<1>5. torn' \subseteq Buckets
  BY Types DEF Delete, IndInv, LimiterTypeOK
<1> HIDE DEF w
<1> QED
  BY <1>1, <1>2, <1>3, <1>4, <1>5, LaterStep DEF IndInv, LimiterTypeOK

\* A sweep ends.
LEMMA EndSweepInv == ASSUME IndInv, NEW r \in Requests, EndSweep(r) PROVE IndInv'
<1> DEFINE v == visit[r]
           w == Leave(v)
<1>1. r \in Counted /\ v \in Visit
  BY CountedFacts DEF EndSweep, IndInv
<1>2. /\ w \in Visit /\ w.pc \in {"refused", "next"}
      /\ w.bucket = v.bucket /\ w.at = v.at /\ w.over = v.over
  BY <1>1, LeaveFacts
<1>3. /\ visit' = [visit EXCEPT ![r] = w]
      /\ UNCHANGED <<now, limiter, bucket, mutex, tally, torn>>
  BY DEF EndSweep, Step
<1> HIDE DEF w
<1> QED
  BY <1>1, <1>2, <1>3, LaterStep DEF IndInv, LimiterTypeOK

\* Time passes, and touches nothing that was recorded.
LEMMA TickInv == ASSUME IndInv, Tick PROVE IndInv'
<1>1. now' = now + 1 /\ UNCHANGED <<limiter, bucket, mutex, tally, visit, torn>>
  BY DEF Tick
<1>2. Arrived' = Arrived /\ Known' = Known /\ Counted' = Counted
      /\ At("delete")' = At("delete")
  BY <1>1 DEF Arrived, Known, Counted, At
<1>3. \A b \in Buckets : InWindow(b)' = InWindow(b) /\ Admitted(b)' = Admitted(b)
  BY <1>1, <1>2, SameWindow
<1>4. LimiterTypeOK'
  BY <1>1 DEF IndInv, LimiterTypeOK
<1>5. Times'
  <2>1. \A b \in Buckets : InUse(b) => bucket[b].lastSeen \in Nat
    BY Types DEF IndInv, Bucket
  <2>2. \A r \in Counted : visit[r].at \in Nat
    BY Types DEF IndInv, Visit, Counted
  <2>3. now \in Nat
    BY Types DEF IndInv
  <2> QED
    BY <1>1, <1>2, <2>1, <2>2, <2>3 DEF IndInv, Times, InUse
<1> QED
  BY <1>1, <1>2, <1>3, <1>4, <1>5 DEF IndInv, Holders, Allocated, Tallies, Doom, InUse

\* Every step keeps the invariant.
LEMMA NextInv == IndInv /\ [LimiterNext]_limiterVars => IndInv'
<1> SUFFICES ASSUME IndInv, [LimiterNext]_limiterVars PROVE IndInv'
  OBVIOUS
<1>1. ASSUME NEW r \in Requests, NEW c \in Clients, LoadOrStore(r, c) PROVE IndInv'
  BY <1>1, LoadOrStoreInv
<1>2. ASSUME NEW r \in Requests, Lock(r) PROVE IndInv'
  <2>1. visit[r] # Waiting
    BY <1>2 DEF Lock, Waiting
  <2> QED
    BY <1>2, <2>1, LockInv DEF Arrived
<1>3. ASSUME NEW r \in Requests, Count(r) PROVE IndInv'
  <2>1. visit[r] # Waiting
    BY <1>3 DEF Count, Waiting
  <2> QED
    BY <1>3, <2>1, CountInv DEF Arrived
<1>4. ASSUME NEW r \in Requests, Tally(r) PROVE IndInv'
  BY <1>4, TallyInv
<1>5. ASSUME NEW r \in Requests, NEW c \in Clients, Judge(r, c) PROVE IndInv'
  BY <1>5, JudgeInv
<1>6. ASSUME NEW r \in Requests, Delete(r) PROVE IndInv'
  BY <1>6, DeleteInv
<1>7. ASSUME NEW r \in Requests, EndSweep(r) PROVE IndInv'
  BY <1>7, EndSweepInv
<1>8. CASE Tick
  BY <1>8, TickInv
<1>9. CASE UNCHANGED limiterVars
  <2>1. UNCHANGED <<now, limiter, bucket, mutex, tally, visit, torn>>
    BY <1>9 DEF limiterVars
  <2>2. Arrived' = Arrived /\ Known' = Known /\ Counted' = Counted
        /\ At("delete")' = At("delete")
    BY <2>1 DEF Arrived, Known, Counted, At
  <2>3. \A b \in Buckets : InWindow(b)' = InWindow(b) /\ Admitted(b)' = Admitted(b)
    BY <2>1, <2>2, SameWindow
  <2> QED
    BY <2>1, <2>2, <2>3
    DEF IndInv, LimiterTypeOK, Holders, Allocated, Times, Tallies, Doom, InUse
<1> QED
  BY <1>1, <1>2, <1>3, <1>4, <1>5, <1>6, <1>7, <1>8, <1>9 DEF LimiterNext, Limit

\* The invariant holds in every reachable state.
THEOREM Invariance == LimiterSpec => []IndInv
<1> QED
  BY InitInv, NextInv, PTL DEF LimiterSpec

\* The variables always have their types.
THEOREM TypesKept == LimiterSpec => []LimiterTypeOK
<1>1. IndInv => LimiterTypeOK
  BY DEF IndInv
<1> QED
  BY <1>1, Invariance, PTL

\* However requests of a client interleave, a window admits MaxRequests of them and
\* refuses nobody before.
THEOREM QuotaKept == LimiterSpec => []QuotaExact
<1>1. ASSUME IndInv PROVE QuotaExact
  <2> SUFFICES ASSUME NEW b \in Buckets, InUse(b)
               PROVE  /\ Cardinality(Admitted(b)) <= MaxRequests
                      /\ InWindow(b) # Admitted(b) => Cardinality(Admitted(b)) = MaxRequests
    BY DEF QuotaExact
  <2>1. /\ Cardinality(InWindow(b)) = bucket[b].count
        /\ Cardinality(Admitted(b)) =
              IF bucket[b].count <= MaxRequests THEN bucket[b].count ELSE MaxRequests
    BY <1>1 DEF IndInv, Tallies
  <2>2. bucket[b].count \in Nat /\ MaxRequests \in Nat
    BY <1>1, Types, LimiterAssumption DEF IndInv, Bucket
  <2>3. IsFiniteSet(InWindow(b)) /\ Admitted(b) \subseteq InWindow(b)
    <3>1. InWindow(b) \subseteq Arrived
      BY DEF InWindow, Counted
    <3> QED
      BY <1>1, <3>1, FS_Subset DEF IndInv, Admitted
  <2>4. InWindow(b) # Admitted(b) => Cardinality(Admitted(b)) < Cardinality(InWindow(b))
    <3>1. /\ Cardinality(Admitted(b)) <= Cardinality(InWindow(b))
          /\ Cardinality(Admitted(b)) = Cardinality(InWindow(b)) => Admitted(b) = InWindow(b)
      BY <2>3, FS_Subset
    <3> QED
      BY <2>1, <2>2, <3>1
  <2> QED
    BY <2>1, <2>2, <2>4
<1> QED
  BY <1>1, Invariance, PTL

\* No request ever waits for a mutex, or sweeps, while it holds one.
THEOREM NeverHoldsAndWaits == LimiterSpec => []NoHoldAndWait
<1>1. IndInv => NoHoldAndWait
  BY DEF IndInv, Holders, NoHoldAndWait
<1> QED
  BY <1>1, Invariance, PTL

\* A sweep deletes no bucket in mid-window, except one that was used since the
\* sweeping request was counted.
THEOREM SweepsSpareLive == LimiterSpec => SweepSparesLive
<1> DEFINE Spared ==
      \A r \in Requests, c \in Known :
          visit[r] # Waiting /\ visit[r].pc = "delete" /\ visit'[r].pc # "delete"
          /\ c \in visit[r].doomed =>
              \/ now - bucket[limiter[c]].windowStart >= WindowDuration
              \/ bucket[limiter[c]].lastSeen >= visit[r].at
<1>1. IndInv /\ [LimiterNext]_limiterVars => [Spared]_limiterVars
  <2> SUFFICES ASSUME IndInv, NEW r \in Requests, NEW c \in Known,
                      visit[r] # Waiting, visit[r].pc = "delete", c \in visit[r].doomed
               PROVE  \/ now - bucket[limiter[c]].windowStart >= WindowDuration
                      \/ bucket[limiter[c]].lastSeen >= visit[r].at
    OBVIOUS
  <2>1. r \in At("delete") /\ r \in Counted /\ visit[r] \in Visit
    BY Types DEF At, Counted, Arrived, IndInv
  <2>2. bucket[limiter[c]] \in Bucket /\ visit[r].at <= now /\ now \in Nat
    BY <2>1, Types DEF IndInv, Allocated, Times
  <2>3. \/ visit[r].at - bucket[limiter[c]].windowStart >= WindowDuration
        \/ bucket[limiter[c]].lastSeen >= visit[r].at
    BY <2>1 DEF IndInv, Doom
  <2> QED
    BY <2>1, <2>2, <2>3, LimiterAssumption DEF Bucket, Visit
<1> QED
  BY <1>1, Invariance, PTL DEF LimiterSpec, SweepSparesLive
(***************************************************************************)
(* One quota at a time: whose bucket is whose, and what is known of a      *)
(* bucket that the map has forgotten.                                      *)
(***************************************************************************)

\* The bucket the map holds for client c.
Current(c, b) == c \in Known /\ limiter[c] = b

\* A bucket has one client, and the one in the map was first fetched by its own.
Owners ==
    /\ \A r, s \in Arrived : visit[r].bucket = visit[s].bucket
                             => visit[r].client = visit[s].client
    /\ \A c \in Known :
          /\ limiter[c] \in BucketsOf(c)
          /\ \A r \in Arrived : visit[r].bucket = limiter[c] => visit[r].client = c

\* The window of b is over for good.
Past(b) == Entering(b) = {} /\ bucket[b].windowStart + WindowDuration <= now

\* Every bucket a client has drawn on is in the map, past, or lost in a race.
Retired ==
    \A r \in Arrived :
        \/ visit[r].bucket \in torn
        \/ Current(visit[r].client, visit[r].bucket)
        \/ Past(visit[r].bucket)

QuotaInv == Owners /\ Retired /\ OneQuotaAtATime

\* A request that has arrived has a client, whose bucket it holds.
LEMMA Fetched ==
    ASSUME IndInv, NEW r \in Arrived
    PROVE  /\ visit[r].client \in Clients /\ visit[r].bucket \in Buckets
           /\ InUse(visit[r].bucket)
           /\ visit[r].bucket \in BucketsOf(visit[r].client)
<1>1. visit[r] \in Visit /\ InUse(visit[r].bucket)
  BY Types DEF IndInv, Allocated
<1> QED
  BY <1>1 DEF Visit, BucketsOf

\* The windows of buckets are told in natural numbers.
LEMMA WindowFacts ==
    ASSUME IndInv, NEW b \in Buckets, InUse(b)
    PROVE  /\ bucket[b].windowStart \in Nat /\ bucket[b].windowStart <= now
           /\ now \in Nat /\ WindowDuration \in Nat
<1>1. bucket[b] \in Bucket /\ now \in Nat
  BY Types DEF IndInv
<1>2. bucket[b].windowStart \in Nat /\ bucket[b].lastSeen \in Nat
  BY <1>1 DEF Bucket
<1> QED
  BY <1>1, <1>2, LimiterAssumption DEF IndInv, Times

\* Steps that count nobody and bring nobody: a bucket that leaves the map is past or
\* lost in a race.
LEMMA QuotaKeptStep ==
    ASSUME IndInv, QuotaInv, bucket' = bucket, now' \in Nat, now' >= now,
           torn \subseteq torn', Arrived' = Arrived,
           \A s \in Arrived : /\ visit'[s].client = visit[s].client
                              /\ visit'[s].bucket = visit[s].bucket
                              /\ visit'[s].pc \in {"lock", "count"}
                                 => visit[s].pc \in {"lock", "count"},
           \A c \in Clients : \/ limiter'[c] = limiter[c]
                              \/ /\ limiter'[c] = Absent
                                 /\ limiter[c] \in torn' \/ Past(limiter[c])
    PROVE  QuotaInv'
<1>1. \A c \in Clients : BucketsOf(c)' = BucketsOf(c)
  BY DEF BucketsOf
<1>2. Known' \subseteq Known /\ \A c \in Known' : limiter'[c] = limiter[c]
  BY DEF Known
<1>3. Owners'
  BY <1>1, <1>2 DEF QuotaInv, Owners, Known
<1>4. \A b \in Buckets : InUse(b) /\ Past(b) => Past(b)'
  <2> SUFFICES ASSUME NEW b \in Buckets, InUse(b), Past(b) PROVE Past(b)'
    OBVIOUS
  <2>1. Entering(b)' = {}
    BY DEF Past, Entering, At
  <2> QED
    BY <2>1, WindowFacts DEF Past
<1>5. Retired'
  <2> SUFFICES ASSUME NEW r \in Arrived, visit[r].bucket \notin torn'
               PROVE  Current(visit[r].client, visit[r].bucket)' \/ Past(visit[r].bucket)'
    BY DEF Retired, Current
  <2> DEFINE b == visit[r].bucket
             c == visit[r].client
  <2>1. b \in Buckets /\ InUse(b) /\ c \in Clients
    BY Fetched
  <2>2. Current(c, b) \/ Past(b)
    BY DEF QuotaInv, Retired
  <2>3. CASE Past(b)
    BY <1>4, <2>1, <2>3
  <2>4. CASE Current(c, b) /\ limiter'[c] = limiter[c]
    BY <2>1, <2>4 DEF Current, Known
  <2>5. CASE Current(c, b) /\ limiter'[c] # limiter[c]
    BY <1>4, <2>1, <2>5 DEF Current
  <2> QED
    BY <2>2, <2>3, <2>4, <2>5
<1>6. OneQuotaAtATime'
  BY <1>1 DEF QuotaInv, OneQuotaAtATime, Apart
<1> QED
  BY <1>3, <1>5, <1>6 DEF QuotaInv

\* A request fetches its client's bucket; a new one starts when every older one that
\* was not lost in a race is past.
LEMMA QuotaFetched ==
    ASSUME IndInv, QuotaInv, NEW r \in Requests, NEW c \in Clients, LoadOrStore(r, c)
    PROVE  QuotaInv'
<1> DEFINE entry == [count |-> 0, windowStart |-> now, lastSeen |-> now]
           w(b) == [pc |-> "lock", client |-> c, bucket |-> b, at |-> 0,
                    over |-> FALSE, todo |-> {}, doomed |-> {}]
<1>1. PICK b \in Buckets :
         /\ IF c \in Known
            THEN b = limiter[c] /\ UNCHANGED <<limiter, bucket>>
            ELSE /\ Fresh(b)
                 /\ limiter' = [limiter EXCEPT ![c] = b]
                 /\ bucket' = [bucket EXCEPT ![b] = entry]
         /\ visit' = [visit EXCEPT ![r] = w(b)]
  BY DEF LoadOrStore, Step
<1>2. /\ r \notin Arrived /\ now' = now /\ torn' = torn
      /\ Arrived \subseteq Requests
  BY DEF LoadOrStore, Arrived
<1>3. /\ \A s \in Requests : visit'[s] = IF s = r THEN w(b) ELSE visit[s]
      /\ w(b).pc = "lock" /\ w(b).client = c /\ w(b).bucket = b /\ w(b) # Waiting
  BY <1>1 DEF IndInv, LimiterTypeOK, Waiting
<1> HIDE DEF w
<1>4. Arrived' = Arrived \cup {r}
  BY <1>2, <1>3 DEF Arrived
<1>5. \A s \in Arrived : visit'[s] = visit[s]
  BY <1>2, <1>3
<1>6. /\ BucketsOf(c)' = BucketsOf(c) \cup {b}
      /\ \A e \in Clients : e # c => BucketsOf(e)' = BucketsOf(e)
  BY <1>3, <1>4, <1>5 DEF BucketsOf
<1>7. \A d \in Buckets : d # b => Entering(d)' = Entering(d) /\ bucket'[d] = bucket[d]
  <2>1. ASSUME NEW d \in Buckets, d # b PROVE Entering(d)' = Entering(d)
    BY <1>3, <1>4, <1>5, <2>1 DEF Entering, At
  <2>2. ASSUME NEW d \in Buckets, d # b PROVE bucket'[d] = bucket[d]
    BY <1>1, <2>2 DEF IndInv, LimiterTypeOK
  <2> QED
    BY <2>1, <2>2
<1>8. CASE c \in Known
  <2>1. b = limiter[c] /\ limiter' = limiter /\ bucket' = bucket /\ Known' = Known
    BY <1>1, <1>8 DEF Known
  <2>2. BucketsOf(c)' = BucketsOf(c)
    BY <1>6, <1>8, <2>1 DEF QuotaInv, Owners
  <2>3. \A e \in Known : limiter[e] = b => e = c
    BY <1>8, <2>1 DEF QuotaInv, Owners, BucketsOf
  <2>4. Owners'
    BY <1>3, <1>4, <1>5, <1>6, <1>8, <2>1, <2>2, <2>3 DEF QuotaInv, Owners, Known
  <2>5. Retired'
    <3> SUFFICES ASSUME NEW s \in Arrived', visit'[s].bucket \notin torn
                 PROVE  (Current(visit[s].client, visit[s].bucket) \/ Past(visit[s].bucket))'
      BY <1>2 DEF Retired
    <3>1. CASE visit'[s].bucket = b
      <4>1. visit'[s].client = c
        BY <1>3, <1>4, <1>5, <1>8, <2>1, <3>1 DEF QuotaInv, Owners
      <4> QED
        BY <1>8, <2>1, <3>1, <4>1 DEF Current
    <3>2. CASE visit'[s].bucket # b
      <4>1. s \in Arrived /\ visit'[s] = visit[s]
        BY <1>3, <1>4, <1>5, <3>2
      <4> QED
        BY <1>2, <1>7, <2>1, <3>2, <4>1, Fetched DEF QuotaInv, Retired, Current, Past
    <3> QED
      BY <3>1, <3>2
  <2>6. OneQuotaAtATime'
    BY <1>2, <1>6, <2>1, <2>2 DEF QuotaInv, OneQuotaAtATime, Apart
  <2> QED
    BY <2>4, <2>5, <2>6 DEF QuotaInv
<1>9. CASE c \notin Known
  <2>1. /\ ~ InUse(b) /\ limiter' = [limiter EXCEPT ![c] = b]
        /\ bucket' = [bucket EXCEPT ![b] = entry]
    BY <1>1, <1>9 DEF Fresh
  <2>2. bucket'[b].windowStart = now
    BY <2>1 DEF IndInv, LimiterTypeOK
  <2>3. b # Absent /\ Known' = Known \cup {c} /\ limiter'[c] = b
        /\ \A e \in Clients : e # c => limiter'[e] = limiter[e]
    BY <2>1, LimiterAssumption DEF Known, Absent, IndInv, LimiterTypeOK
  <2>4. /\ \A s \in Arrived : visit[s].bucket # b
        /\ \A e \in Known : limiter[e] # b
    BY <2>1 DEF IndInv, Allocated
  <2>5. Owners'
    BY <1>3, <1>4, <1>5, <1>6, <1>9, <2>3, <2>4 DEF QuotaInv, Owners, Known
  <2>6. ASSUME NEW s \in Arrived, Past(visit[s].bucket) PROVE Past(visit[s].bucket)'
    BY <1>2, <1>5, <1>7, <2>4, <2>6, Fetched DEF Past
  <2>7. Retired'
    <3> SUFFICES ASSUME NEW s \in Arrived', visit'[s].bucket \notin torn
                 PROVE  (Current(visit[s].client, visit[s].bucket) \/ Past(visit[s].bucket))'
      BY <1>2 DEF Retired
    <3>1. CASE s = r
      BY <1>3, <2>3, <3>1 DEF Current
    <3>2. CASE s # r
      <4>1. s \in Arrived /\ visit'[s] = visit[s]
        BY <1>4, <1>5, <3>2
      <4>2. CASE Past(visit[s].bucket)
        BY <2>6, <4>1, <4>2
      <4>3. CASE Current(visit[s].client, visit[s].bucket)
        BY <1>9, <2>3, <4>1, <4>3 DEF Current, Known
      <4> QED
        BY <4>1, <4>2, <4>3 DEF QuotaInv, Retired
    <3> QED
      BY <3>1, <3>2
  <2>8. ASSUME NEW d \in BucketsOf(c) \ torn
        PROVE  d \in Buckets /\ InUse(d) /\ bucket[d].windowStart + WindowDuration <= now
    <3>1. PICK s \in Arrived : visit[s].client = c /\ visit[s].bucket = d
      BY <2>8 DEF BucketsOf
    <3> QED
      BY <1>9, <2>8, <3>1, Fetched DEF QuotaInv, Retired, Current, Past
  <2>9. OneQuotaAtATime'
    <3> SUFFICES ASSUME NEW e \in Clients, NEW x \in BucketsOf(e)' \ torn,
                        NEW y \in BucketsOf(e)' \ torn, x # y
                 PROVE  Apart(x, y)'
      BY <1>2 DEF OneQuotaAtATime
    <3>1. ASSUME NEW z \in BucketsOf(e)' PROVE z = b \/ (z \in BucketsOf(e) /\ z \in Buckets /\ z # b)
      <4>1. z = b \/ z \in BucketsOf(e)
        BY <1>6, <3>1
      <4>2. z \in BucketsOf(e) => z \in Buckets /\ z # b
        BY <2>4, Fetched DEF BucketsOf
      <4> QED
        BY <4>1, <4>2
    <3>2. CASE x # b /\ y # b
      <4>1. x \in BucketsOf(e) /\ y \in BucketsOf(e) /\ x \in Buckets /\ y \in Buckets
        BY <3>1, <3>2
      <4> QED
        BY <1>7, <3>2, <4>1 DEF QuotaInv, OneQuotaAtATime, Apart
    <3>3. CASE x = b
      <4>1. e = c /\ y \in BucketsOf(c)
        BY <1>6, <2>4, <3>1, <3>3 DEF BucketsOf
      <4> QED
        BY <1>7, <2>2, <2>8, <3>3, <4>1 DEF Apart
    <3>4. CASE y = b
      <4>1. e = c /\ x \in BucketsOf(c)
        BY <1>6, <2>4, <3>1, <3>4 DEF BucketsOf
      <4> QED
        BY <1>7, <2>2, <2>8, <3>4, <4>1 DEF Apart
    <3> QED
      BY <3>2, <3>3, <3>4
  <2> QED
    BY <2>5, <2>7, <2>9 DEF QuotaInv
<1> QED
  BY <1>8, <1>9

\* Counting a request may begin a new window of the bucket in the map: the client's
\* other buckets are past.
LEMMA QuotaCounted ==
    ASSUME IndInv, QuotaInv, NEW r \in Arrived, Count(r) PROVE QuotaInv'
<1>1. PICK b \in Buckets, c \in Clients :
         /\ visit[r].bucket = b /\ visit[r].client = c /\ visit[r] \in Visit
         /\ InUse(b) /\ b \in BucketsOf(c)
  BY Fetched, Types DEF IndInv
<1> DEFINE w == [visit[r] EXCEPT !.pc = "tally", !.at = now,
                                 !.over = bucket'[b].count > MaxRequests]
<1>2. /\ visit[r].pc = "count" /\ visit' = [visit EXCEPT ![r] = w]
      /\ bucket' = [bucket EXCEPT ![b] = Seen(@)]
      /\ now' = now /\ limiter' = limiter /\ torn' = torn
  BY <1>1 DEF Count, Step
<1>3. w.pc = "tally" /\ w.client = c /\ w.bucket = b /\ w # Waiting
  <2>1. w.pc = "tally" /\ w.client = c /\ w.bucket = b
    BY <1>1 DEF Visit
  <2> QED
    BY <2>1 DEF Waiting
<1> HIDE DEF w
<1>4. /\ r \in Requests
      /\ \A s \in Requests : visit'[s] = IF s = r THEN w ELSE visit[s]
      /\ \A d \in Buckets : bucket'[d] = IF d = b THEN Seen(bucket[b]) ELSE bucket[d]
  BY <1>2 DEF IndInv, LimiterTypeOK, Arrived
<1>5. Arrived' = Arrived /\ Known' = Known
  BY <1>2, <1>3, <1>4 DEF Arrived, Known
<1>6. \A s \in Arrived : /\ visit'[s].client = visit[s].client
                         /\ visit'[s].bucket = visit[s].bucket
                         /\ visit'[s].pc \in {"lock", "count"}
                            => visit[s].pc \in {"lock", "count"}
  BY <1>1, <1>2, <1>3, <1>4 DEF Arrived
<1>7. \A e \in Clients : BucketsOf(e)' = BucketsOf(e)
  BY <1>5, <1>6 DEF BucketsOf
<1>8. Owners'
  BY <1>2, <1>5, <1>6, <1>7 DEF QuotaInv, Owners, Known
<1>9. \A d \in Buckets : Entering(d)' \subseteq Entering(d)
  BY <1>5, <1>6 DEF Entering, At
<1>10. r \in Entering(b)
  BY <1>1, <1>2 DEF Entering, At
<1>11. b \in torn \/ Current(c, b)
  BY <1>1, <1>10 DEF QuotaInv, Retired, Past
<1>12. Retired'
  <2> SUFFICES ASSUME NEW s \in Arrived, visit[s].bucket \notin torn
               PROVE  Current(visit[s].client, visit[s].bucket)' \/ Past(visit[s].bucket)'
    BY <1>2, <1>5, <1>6 DEF Retired, Current, Past
  <2>1. CASE visit[s].bucket = b
    <3>1. visit[s].client = c /\ Current(c, b)
      BY <1>1, <1>11, <2>1 DEF QuotaInv, Owners
    <3> QED
      BY <1>2, <1>5, <1>6, <2>1, <3>1 DEF Current
  <2>2. CASE visit[s].bucket # b
    BY <1>2, <1>4, <1>5, <1>6, <1>9, <2>2, Fetched DEF QuotaInv, Retired, Current, Past
  <2> QED
    BY <2>1, <2>2
<1>13. /\ now \in Nat /\ bucket[b].windowStart \in Nat
       /\ bucket'[b].windowStart = now \/ bucket'[b].windowStart = bucket[b].windowStart
  <2>1. bucket[b] \in Bucket
    BY <1>1, Types DEF IndInv
  <2>2. Seen(bucket[b]).windowStart \in {now, bucket[b].windowStart}
    BY <2>1 DEF Seen, Bucket
  <2> QED
    BY <1>1, <1>4, <2>2, WindowFacts
<1>14. ASSUME b \notin torn, NEW d \in BucketsOf(c) \ torn, d # b
       PROVE  d \in Buckets /\ bucket[d].windowStart + WindowDuration <= now
              /\ Apart(b, d)
  <2>1. PICK s \in Arrived : visit[s].client = c /\ visit[s].bucket = d
    BY <1>14 DEF BucketsOf
  <2> QED
    BY <1>1, <1>11, <1>14, <2>1, Fetched
    DEF QuotaInv, Retired, Current, Past, OneQuotaAtATime
<1>15. OneQuotaAtATime'
  <2> SUFFICES ASSUME NEW e \in Clients, NEW x \in BucketsOf(e) \ torn,
                      NEW y \in BucketsOf(e) \ torn, x # y
               PROVE  Apart(x, y)'
    BY <1>2, <1>7 DEF OneQuotaAtATime
  <2>1. x \in Buckets /\ y \in Buckets /\ Apart(x, y)
    BY Fetched DEF BucketsOf, QuotaInv, OneQuotaAtATime
  <2>2. CASE x # b /\ y # b
    BY <1>4, <2>1, <2>2 DEF Apart
  <2>3. b \in BucketsOf(e) => e = c
    BY <1>1 DEF BucketsOf, QuotaInv, Owners
  <2>4. CASE x = b
    BY <1>4, <1>13, <1>14, <2>1, <2>3, <2>4 DEF Apart
  <2>5. CASE y = b
    BY <1>4, <1>13, <1>14, <2>1, <2>3, <2>5 DEF Apart
  <2> QED
    BY <2>2, <2>4, <2>5
<1> QED
  BY <1>8, <1>12, <1>15 DEF QuotaInv

\* The steps that follow, and the map, change no bucket; what a sweep deletes without
\* a race has been idle for longer than its window.
LEMMA QuotaLater ==
    ASSUME IndInv, QuotaInv, NEW r \in Requests,
           \/ Lock(r) \/ Tally(r) \/ EndSweep(r) \/ Delete(r)
           \/ \E c \in Clients : Judge(r, c)
    PROVE  QuotaInv'
<1>1. visit[r].pc \in {"lock", "tally", "sweep", "delete"} /\ r \in Arrived
      /\ visit[r] \in Visit
  <2>1. visit[r].pc \in {"lock", "tally", "sweep", "delete"}
    BY DEF Lock, Tally, EndSweep, Delete, Judge
  <2>2. visit[r] # Waiting
    BY <2>1 DEF Waiting
  <2> QED
    BY <2>1, <2>2, Types DEF Arrived, IndInv
<1>2. PICK w \in Visit : /\ visit' = [visit EXCEPT ![r] = w]
                         /\ w.client = visit[r].client /\ w.bucket = visit[r].bucket
                         /\ w.pc \in {"lock", "count"} => visit[r].pc = "lock"
  <2> DEFINE v == visit[r]
             count == [v EXCEPT !.pc = "count"]
             sweep == [v EXCEPT !.pc = "sweep", !.todo = Known]
             again == [v EXCEPT !.pc = "sweep", !.doomed = {}]
             kept(c) == [v EXCEPT !.todo = @ \ {c}]
             gone(c) == [v EXCEPT !.pc = "delete", !.todo = @ \ {c}, !.doomed = {c}]
  <2>1. CASE Lock(r)
    <3>1. count \in Visit /\ count.client = v.client /\ count.bucket = v.bucket
      BY <1>1 DEF Visit
    <3>2. visit' = [visit EXCEPT ![r] = count] /\ v.pc = "lock"
      BY <2>1 DEF Lock, Step
    <3> HIDE DEF count
    <3> QED
      BY <3>1, <3>2
  <2>2. CASE Tally(r) \/ EndSweep(r)
    <3>1. sweep \in Visit /\ sweep.client = v.client /\ sweep.bucket = v.bucket
          /\ sweep.pc = "sweep"
      BY <1>1 DEF Visit, Known
    <3>2. Leave(v) \in Visit /\ Leave(v).client = v.client /\ Leave(v).bucket = v.bucket
          /\ Leave(v).pc \in {"refused", "next"}
      BY <1>1 DEF Leave, Visit
    <3>3. visit' = [visit EXCEPT ![r] = sweep] \/ visit' = [visit EXCEPT ![r] = Leave(v)]
      BY <2>2 DEF Tally, EndSweep, Step
    <3> HIDE DEF sweep
    <3> QED
      BY <3>1, <3>2, <3>3
  <2>3. CASE Delete(r)
    <3>1. again \in Visit /\ again.client = v.client /\ again.bucket = v.bucket
          /\ again.pc = "sweep"
      BY <1>1 DEF Visit
    <3>2. visit' = [visit EXCEPT ![r] = again]
      BY <2>3 DEF Delete, Step
    <3> HIDE DEF again
    <3> QED
      BY <3>1, <3>2
  <2>4. ASSUME NEW c \in Clients, Judge(r, c)
        PROVE  \E w \in Visit : /\ visit' = [visit EXCEPT ![r] = w]
                                /\ w.client = v.client /\ w.bucket = v.bucket
                                /\ w.pc \in {"lock", "count"} => v.pc = "lock"
    <3>1. kept(c) \in Visit /\ kept(c).client = v.client /\ kept(c).bucket = v.bucket
          /\ kept(c).pc = v.pc
      BY <1>1 DEF Visit
    <3>2. gone(c) \in Visit /\ gone(c).client = v.client /\ gone(c).bucket = v.bucket
          /\ gone(c).pc = "delete"
      BY <1>1 DEF Visit
    <3>3. /\ v.pc = "sweep"
          /\ visit' = [visit EXCEPT ![r] = kept(c)] \/ visit' = [visit EXCEPT ![r] = gone(c)]
      BY <2>4 DEF Judge, Step
    <3> HIDE DEF kept, gone
    <3> QED
      BY <3>1, <3>2, <3>3
  <2> QED
    BY <2>1, <2>2, <2>3, <2>4
<1>3. \A s \in Requests : visit'[s] = IF s = r THEN w ELSE visit[s]
  BY <1>2 DEF IndInv, LimiterTypeOK
<1>4. Arrived' = Arrived
  BY <1>1, <1>2, <1>3, VisitFacts DEF Arrived
<1>5. \A s \in Arrived : /\ visit'[s].client = visit[s].client
                         /\ visit'[s].bucket = visit[s].bucket
                         /\ visit'[s].pc \in {"lock", "count"}
                            => visit[s].pc \in {"lock", "count"}
  BY <1>2, <1>3 DEF Arrived
<1>6. bucket' = bucket /\ now' = now /\ now \in Nat /\ torn \subseteq torn'
  BY Types DEF Lock, Tally, EndSweep, Delete, Judge, IndInv
<1>7. \A c \in Clients : \/ limiter'[c] = limiter[c]
                         \/ /\ limiter'[c] = Absent
                            /\ limiter[c] \in torn' \/ Past(limiter[c])
  <2>1. CASE ~ Delete(r)
    BY <2>1 DEF Lock, Tally, EndSweep, Judge
  <2>2. CASE Delete(r)
    <3> SUFFICES ASSUME NEW c \in Clients, limiter'[c] # limiter[c]
                 PROVE  limiter'[c] = Absent /\ (limiter[c] \in torn' \/ Past(limiter[c]))
      OBVIOUS
    <3>1. /\ visit[r].pc = "delete" /\ c \in visit[r].doomed /\ limiter'[c] = Absent
          /\ c \in Known
      BY <2>2 DEF Delete, Known
    <3> SUFFICES ASSUME limiter[c] \notin torn' PROVE Past(limiter[c])
      BY <3>1
    <3>2. ~ Raced(limiter[c], visit[r].at)
      BY <2>2, <3>1 DEF Delete
    <3>3. visit[r].at - bucket[limiter[c]].windowStart >= WindowDuration
      BY <1>1, <3>1, <3>2 DEF IndInv, Doom, At, Raced
    <3>4. limiter[c] \in Buckets /\ InUse(limiter[c])
      BY <3>1, Types DEF IndInv, Allocated
    <3>5. visit[r].at \in Nat /\ visit[r].at <= now
      BY <1>1, <3>1 DEF IndInv, Times, Counted, Visit
    <3> QED
      BY <3>1, <3>2, <3>3, <3>4, <3>5, WindowFacts DEF Past, Raced
  <2> QED
    BY <2>1, <2>2
<1>8. now' >= now /\ now' \in Nat
  BY <1>6
<1> QED
  BY <1>4, <1>5, <1>6, <1>7, <1>8, QuotaKeptStep

\* Every step keeps a client's windows apart.
LEMMA QuotaNext == IndInv /\ QuotaInv /\ [LimiterNext]_limiterVars => QuotaInv'
<1> SUFFICES ASSUME IndInv, QuotaInv, [LimiterNext]_limiterVars PROVE QuotaInv'
  OBVIOUS
<1>1. ASSUME NEW r \in Requests, NEW c \in Clients, LoadOrStore(r, c) PROVE QuotaInv'
  BY <1>1, QuotaFetched
<1>2. ASSUME NEW r \in Requests, Count(r) PROVE QuotaInv'
  <2>1. visit[r] # Waiting
    BY <1>2 DEF Count, Waiting
  <2> QED
    BY <1>2, <2>1, QuotaCounted DEF Arrived
<1>3. ASSUME NEW r \in Requests,
             \/ Lock(r) \/ Tally(r) \/ EndSweep(r) \/ Delete(r)
             \/ \E c \in Clients : Judge(r, c)
      PROVE  QuotaInv'
  BY <1>3, QuotaLater
<1>4. CASE Tick \/ UNCHANGED limiterVars
  <2>1. /\ bucket' = bucket /\ limiter' = limiter /\ visit' = visit /\ torn' = torn
        /\ now' = now \/ now' = now + 1
    BY <1>4 DEF Tick, limiterVars
  <2>2. Arrived' = Arrived /\ now' \in Nat /\ now' >= now
    BY <2>1, Types DEF Arrived, IndInv
  <2> QED
    BY <2>1, <2>2, QuotaKeptStep
<1> QED
  BY <1>1, <1>2, <1>3, <1>4 DEF LimiterNext, Limit

\* Forgetting idle clients gives nobody a second quota in a window, except for the
\* one that a bucket deleted in a race was worth.
THEOREM OneQuota == LimiterSpec => []OneQuotaAtATime
<1>1. LimiterInit => QuotaInv
  <2> SUFFICES ASSUME LimiterInit PROVE QuotaInv
    OBVIOUS
  <2>1. Arrived = {} /\ Known = {}
    BY DEF LimiterInit, Arrived, Known
  <2>2. \A c \in Clients : BucketsOf(c) = {}
    BY <2>1 DEF BucketsOf
  <2> QED
    BY <2>1, <2>2 DEF QuotaInv, Owners, Retired, OneQuotaAtATime
<1>2. QuotaInv => OneQuotaAtATime
  BY DEF QuotaInv
<1> QED
  BY <1>1, <1>2, QuotaNext, Invariance, PTL DEF LimiterSpec
================================================================================
