---------------------------- MODULE RateLimiter -----------------------------
(***************************************************************************)
(* The fixed-window rate limiter (internal/ratelimit) behind the login,    *)
(* registration and owner login routes: one Limiter, its buckets keyed by  *)
(* client address.  An attempt reads the clock before it has the mutex, so *)
(* it may look at a bucket later attempts have already moved on.           *)
(*                                                                         *)
(* Only differences of two readings of the clock are ever used, so a       *)
(* reading is kept as its age in ticks: now.Sub(windowStart) is the age of *)
(* the window's start less the age of the attempt's reading.  Time has no  *)
(* end that way.  A Limit of zero disables the middleware.  A refused      *)
(* owner login is also recorded: OwnerPlane has that entry.                *)
(***************************************************************************)
EXTENDS Integers, FiniteSets

CONSTANTS Attempts,  \* requests that can be in the middleware at the same time
          IPs,       \* client addresses
          Limit,     \* attempts per window
          Window,    \* length of a window, in ticks
          MaxStall   \* bound: ticks an attempt may wait for the mutex

ASSUME LimiterAssumption ==
    Limit \in Nat /\ Window \in Nat \ {0} /\ MaxStall \in Nat /\ IPs # {}

VARIABLES
    buckets,   \* buckets[k]: count of k's bucket and age of its windowStart
    attempt,   \* attempt[a]: the request in Allow, and the age of its reading
    admitted,  \* history: admitted[k][n]: attempts of k let through n ticks ago
    owed,      \* history: owed[k]: ticks until k was told the window resets
    stalled    \* history: the clock moved on between a reading and its mutex

limiterVars == <<buckets, attempt, admitted, owed, stalled>>

\* An age from which a window has elapsed for every attempt there can be.
MaxAge == Window + MaxStall

\* A count of zero: the map has no such key.
NoBucket == [count |-> 0, age |-> 0]

NoAttempt == [waits |-> FALSE, ip |-> CHOOSE k \in IPs : TRUE, age |-> 0]

LimiterTypeOK ==
    /\ buckets \in [IPs -> [count : 0..(Limit + 1), age : 0..MaxAge]]
    /\ attempt \in [Attempts -> [waits : BOOLEAN, ip : IPs, age : 0..MaxStall]]
    /\ admitted \in [IPs -> [0..(Window - 1) -> Nat]]
    /\ owed \in [IPs -> 0..Window]
    /\ stalled \in BOOLEAN

NoBuckets    == [k \in IPs |-> NoBucket]
NoAttempts   == [a \in Attempts |-> NoAttempt]
NoAdmissions == [k \in IPs |-> [n \in 0..(Window - 1) |-> 0]]
NothingOwed  == [k \in IPs |-> 0]

\* New.
LimiterInit ==
    /\ buckets = NoBuckets
    /\ attempt = NoAttempts
    /\ admitted = NoAdmissions
    /\ owed = NothingOwed
    /\ stalled = FALSE

-----------------------------------------------------------------------------
(* Time passes.  The histories go back one window, and end with a stall.   *)

Older(b) == [b EXCEPT !.age = IF b.count = 0 \/ @ = MaxAge THEN @ ELSE @ + 1]

Tick ==
    /\ \A a \in Attempts : attempt[a].age < MaxStall
    /\ buckets' = [k \in IPs |-> Older(buckets[k])]
    /\ attempt' = [a \in Attempts |-> [attempt[a] EXCEPT !.age = IF attempt[a].waits THEN @ + 1 ELSE @]]
    /\ stalled' = (stalled \/ \E a \in Attempts : attempt[a].waits)
    /\ admitted' = IF stalled' THEN NoAdmissions
                   ELSE [k \in IPs |-> [n \in 0..(Window - 1) |->
                           IF n = 0 THEN 0 ELSE admitted[k][n - 1]]]
    /\ owed' = IF stalled' THEN NothingOwed
               ELSE [k \in IPs |-> IF owed[k] = 0 THEN 0 ELSE owed[k] - 1]

-----------------------------------------------------------------------------
\* rateLimitMiddleware, up to the Lock in Allow.
Arrive(a, k) ==
    /\ Limit > 0
    /\ ~attempt[a].waits
    /\ attempt' = [attempt EXCEPT ![a] = [waits |-> TRUE, ip |-> k, age |-> 0]]
    /\ UNCHANGED <<buckets, admitted, owed, stalled>>

\* now.Sub(b.windowStart) >= l.Window, for a reading of that age.
Expired(b, age) == b.age - age >= Window

\* Fault: the sweep empties the map.
SweepAll(age) == NoBuckets

\* sweepLocked.
Sweep(age) == [k \in IPs |-> IF Expired(buckets[k], age) THEN NoBucket ELSE buckets[k]]

Admit(k) ==
    /\ admitted' = IF stalled THEN admitted ELSE [admitted EXCEPT ![k][0] = @ + 1]
    /\ UNCHANGED owed

\* A fresh window: the key is new, or its window has elapsed.
AllowFresh(a) ==
    LET k == attempt[a].ip
        n == attempt[a].age
    IN  /\ buckets[k].count = 0 \/ Expired(buckets[k], n)
        /\ buckets' = [Sweep(n) EXCEPT ![k] = [count |-> 1, age |-> n]]
        /\ Admit(k)

\* b.count++; how far beyond the limit it is does not matter.
Counted(b) == [b EXCEPT !.count = IF @ > Limit THEN @ ELSE @ + 1]

\* The rest of the window; the answer carries it, rounded up, as Retry-After.
RetryAfter(a) == Window - (buckets[attempt[a].ip].age - attempt[a].age)

Owe(a) ==
    /\ owed' = IF stalled THEN owed ELSE [owed EXCEPT ![attempt[a].ip] = RetryAfter(a)]
    /\ UNCHANGED admitted

\* Fault: a refusal starts the window again.
RefuseRestarts(a) ==
    /\ Counted(buckets[attempt[a].ip]).count > Limit
    /\ buckets' = [buckets EXCEPT ![attempt[a].ip] = [Counted(@) EXCEPT !.age = attempt[a].age]]
    /\ Owe(a)

\* Over the limit: 429.
Refuse(a) ==
    /\ Counted(buckets[attempt[a].ip]).count > Limit
    /\ buckets' = [buckets EXCEPT ![attempt[a].ip] = Counted(@)]
    /\ Owe(a)

AllowCounted(a) ==
    LET b == buckets[attempt[a].ip]
    IN  /\ b.count > 0 /\ ~Expired(b, attempt[a].age)
        /\ \/ Refuse(a)
           \/ /\ Counted(b).count <= Limit
              /\ buckets' = [buckets EXCEPT ![attempt[a].ip] = Counted(b)]
              /\ Admit(attempt[a].ip)

\* The rest of Allow, under the mutex.
Allow(a) ==
    /\ attempt[a].waits
    /\ AllowFresh(a) \/ AllowCounted(a)
    /\ attempt' = [attempt EXCEPT ![a] = NoAttempt]
    /\ UNCHANGED stalled

LimiterNext ==
    \/ Tick
    \/ \E a \in Attempts : Allow(a) \/ \E k \in IPs : Arrive(a, k)

LimiterSpec == LimiterInit /\ [][LimiterNext]_limiterVars

-----------------------------------------------------------------------------
(* Properties, each for attempts that get the mutex within the tick they   *)
(* read.  An attempt held up longer may find its bucket swept and open a   *)
(* window in the past, which then ends early.                              *)

\* The attempts a history of one address counts, <<ticks ago, which of them>>.
Admissions(h) == UNION {{n} \X (1..h[n]) : n \in 0..(Window - 1)}

\* No stretch of time as long as a window lets more than twice the limit
\* through for one address, wherever it starts and whatever windows other
\* addresses open and sweep meanwhile.
TwiceTheLimit ==
    \A k \in IPs : Cardinality(Admissions(admitted[k])) <= 2 * Limit

\* Retry-After is honest: the window running when an address is refused has
\* elapsed once it waited that long, however often it tries before.
RetryAfterIsHonest ==
    ~stalled => \A k \in IPs : owed[k] > 0 =>
        buckets[k].count > 0 /\ buckets[k].age + owed[k] >= Window

\* What the Limiter's comment says: "at most Limit attempts per Window".
AtMostLimitPerWindow ==
    \A k \in IPs : Cardinality(Admissions(admitted[k])) <= Limit
=============================================================================
