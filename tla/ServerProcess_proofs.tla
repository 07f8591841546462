------------------------ MODULE ServerProcess_proofs ------------------------
(***************************************************************************)
(* Proofs about ServerProcess, for every number of processes, grants and   *)
(* client addresses, every limit and every length of a window.             *)
(***************************************************************************)
EXTENDS ServerProcess, FiniteSetTheorems, TLAPS

\* Every step of the server is a step of its keys or leaves them alone.
LEMMA KeysSteps == [Next]_vars => [KeysNext]_keysVars
BY ServerAssumption DEF Next, vars, StartFront, KeysStep, LimiterStep, KeysNext

-----------------------------------------------------------------------------
(* The HMAC secret.                                                        *)

\* A process that drew a secret of its own has not shown it to anybody; one
\* past that point has the row's.
SecretsAgree ==
    /\ \A p \in Servers : boot[p].at = "draw" => boot[p].secret = p
    /\ \A p \in Servers : boot[p].at \in {"key", "rotate", "up"} =>
          secret # NoSecret /\ boot[p].secret = secret
    /\ \A g \in Grants : session[g] # NoSession =>
          secret # NoSecret /\ session[g].secret = secret

Sessions == [kid : Kids, secret : Servers] \cup {NoSession}

SecretInv ==
    /\ KeysTypeOK
    /\ session \in [Grants -> Sessions]
    /\ SecretsAgree

\* An empty database, with no process started, meets the invariant.
LEMMA InitSecret == KeysInit => SecretInv
<1> SUFFICES ASSUME KeysInit PROVE SecretInv
  OBVIOUS
<1> USE DEF KeysInit, Sessions, Secrets, Down
<1>1. KeysTypeOK
  <2>1. /\ keys \in 0..MaxKey /\ current \subseteq 1..keys
        /\ tokens \subseteq [grant : Grants, kid : Kids, key : Kids]
    BY KeysAssumption
  <2>2. boot \in [Servers -> [at : {"down", "draw", "key", "rotate", "up"}, secret : Secrets]]
    OBVIOUS
  <2>3. QED
    BY <2>1, <2>2 DEF KeysTypeOK
<1>2. session \in [Grants -> Sessions] /\ SecretsAgree
  BY DEF SecretsAgree
<1>3. QED
  BY <1>1, <1>2 DEF SecretInv

\* NewServer step by step, its crash, and the endpoints keep the invariant.
LEMMA StepSecret == SecretInv /\ [KeysNext]_keysVars => SecretInv'
<1> SUFFICES ASSUME SecretInv, [KeysNext]_keysVars PROVE SecretInv'
  OBVIOUS
<1> USE KeysAssumption DEF SecretInv, KeysTypeOK, SecretsAgree, Sessions, Secrets, Kids
<1>1. ASSUME NEW p \in Servers, Start(p) PROVE SecretInv'
  BY <1>1 DEF Start
<1>2. ASSUME NEW p \in Servers, InsertSecret(p) PROVE SecretInv'
  BY <1>2 DEF InsertSecret, Move, Down
<1>3. ASSUME NEW p \in Servers, EnsureKey(p) PROVE SecretInv'
  <2>1. raced' \in BOOLEAN
    BY <1>3 DEF EnsureKey
  <2>2. QED
    BY <1>3, <2>1 DEF EnsureKey, Move
<1>4. ASSUME NEW p \in Servers, Rotate(p) PROVE SecretInv'
  BY <1>4 DEF Rotate, Rotating, Move
<1>5. ASSUME NEW p \in Servers, Stop(p) PROVE SecretInv'
  BY <1>5 DEF Stop, Down
<1>6. ASSUME NEW p \in Servers, NEW g \in Grants, FinishAuthorize(p, g) PROVE SecretInv'
  BY <1>6 DEF FinishAuthorize
<1>7. ASSUME NEW p \in Servers, NEW g \in Grants, HandleToken(p, g) PROVE SecretInv'
  BY <1>7 DEF HandleToken
<1>8. CASE UNCHANGED keysVars
  BY <1>8 DEF keysVars
<1>9. QED
  BY <1>1, <1>2, <1>3, <1>4, <1>5, <1>6, <1>7, <1>8 DEF KeysNext

\* EnsureHMACSecret: however the first starts of several processes interleave
\* and crash, every process that is up has the secret of the database, and
\* every code was authenticated with it.
THEOREM SecretIsShared == Spec => []OneSecret
<1>1. Init => SecretInv
  BY InitSecret DEF Init
<1>2. SecretInv /\ [Next]_vars => SecretInv'
  BY KeysSteps, StepSecret
<1>3. SecretInv => OneSecret
  BY DEF SecretInv, SecretsAgree, OneSecret
<1>4. QED
  BY <1>1, <1>2, <1>3, PTL DEF Spec

-----------------------------------------------------------------------------
(* The signing key.                                                        *)

\* Until two first starts race, the first key ever created is the only one,
\* and nobody can be about to create another.
OneKey ==
    /\ keys <= 1 /\ current = 1..keys
    /\ \A p, q \in Servers : Rotating(p) /\ Rotating(q) => p = q
    /\ \A p \in Servers : Rotating(p) => keys = 0
    /\ \A g \in Grants : session[g] # NoSession => keys = 1 /\ session[g].kid = 1
    /\ \A t \in tokens : keys = 1 /\ t.kid = 1 /\ t.key = 1

KeyInv == SecretInv /\ (~raced => OneKey)

\* EnsureKey and rotate, by processes that start and stop at any moment, keep
\* the invariant.
LEMMA StepKey == KeyInv /\ [KeysNext]_keysVars => KeyInv'
<1> SUFFICES ASSUME KeyInv, [KeysNext]_keysVars PROVE KeyInv'
  OBVIOUS
<1>0. SecretInv'
  BY StepSecret DEF KeyInv
<1> SUFFICES ASSUME ~raced' PROVE OneKey'
  BY <1>0 DEF KeyInv
<1> USE <1>0 DEF KeyInv, SecretInv, KeysTypeOK, Sessions, OneKey, Rotating
<1>1. ASSUME NEW p \in Servers, Start(p) PROVE OneKey'
  BY <1>1 DEF Start
<1>2. ASSUME NEW p \in Servers, InsertSecret(p) PROVE OneKey'
  BY <1>2 DEF InsertSecret, Move, Down
<1>3. ASSUME NEW p \in Servers, EnsureKey(p) PROVE OneKey'
  <2>1. CASE current # {}
    BY <1>3, <2>1 DEF EnsureKey, Move
  <2>2. CASE current = {}
    <3>1. ~raced /\ \A q \in Servers : boot[q].at # "rotate"
      BY <1>3, <2>2 DEF EnsureKey
    <3>2. keys = 0
      <4>1. 1 \notin 1..keys
        BY <2>2, <3>1
      <4>2. QED
        BY <3>1, <4>1
    <3>3. \A q \in Servers : boot'[q].at = "rotate" => q = p
      BY <1>3, <2>2, <3>1 DEF EnsureKey, Move
    <3>4. QED
      BY <1>3, <3>1, <3>2, <3>3 DEF EnsureKey
  <2>3. QED
    BY <2>1, <2>2
<1>4. ASSUME NEW p \in Servers, Rotate(p) PROVE OneKey'
  BY <1>4 DEF Rotate, Move
<1>5. ASSUME NEW p \in Servers, Stop(p) PROVE OneKey'
  BY <1>5 DEF Stop, Down
<1>6. ASSUME NEW p \in Servers, NEW g \in Grants, FinishAuthorize(p, g) PROVE OneKey'
  BY <1>6 DEF FinishAuthorize
<1>7. ASSUME NEW p \in Servers, NEW g \in Grants, HandleToken(p, g) PROVE OneKey'
  BY <1>7 DEF HandleToken
<1>8. CASE UNCHANGED keysVars
  BY <1>8 DEF keysVars
<1>9. QED
  BY <1>1, <1>2, <1>3, <1>4, <1>5, <1>6, <1>7, <1>8 DEF KeysNext

\* Unless two processes ran rotate on the same first start, every access token
\* ever issued names the key that signed it, and that key is the current one.
THEOREM IssuedTokensVerify == Spec => []TokensVerify
<1>1. Init => KeyInv
  BY InitSecret DEF Init, KeysInit, KeyInv, OneKey, Rotating, Down
<1>2. KeyInv /\ [Next]_vars => KeyInv'
  BY KeysSteps, StepKey
<1>3. KeyInv => TokensVerify
  BY DEF KeyInv, OneKey, TokensVerify, VerifiesOutside, VerifiesHere
<1>4. QED
  BY <1>1, <1>2, <1>3, PTL DEF Spec

-----------------------------------------------------------------------------
(* The rate limiter.                                                       *)

\* Every step of the server is a step of its limiter, starts it afresh, or
\* leaves it alone.
LEMMA LimiterSteps == [Next]_vars => LimiterInit' \/ [LimiterNext]_limiterVars
BY DEF Next, vars, StartFront, KeysStep, LimiterStep, LimiterInit, limiterVars

\* An attempt that did not stall reads the clock in the tick it gets the mutex,
\* and an address waits until its window ends and no longer: a window that
\* still has an answer to honour cannot have elapsed, so no sweep takes it.
PromisesKept ==
    ~stalled =>
        /\ \A a \in Attempts : attempt[a].age = 0
        /\ \A k \in IPs : owed[k] > 0 =>
              buckets[k].count > 0 /\ buckets[k].age + owed[k] = Window

LimiterInv == LimiterTypeOK /\ PromisesKept

Buckets  == [count : 0..(Limit + 1), age : 0..MaxAge]
Waits    == [waits : BOOLEAN, ip : IPs, age : 0..MaxStall]
Histories == [IPs -> [0..(Window - 1) -> Nat]]

\* What b.count++ leaves of a bucket.
LEMMA CountedBucket ==
    ASSUME NEW b \in Buckets
    PROVE  /\ Counted(b) \in Buckets
           /\ Counted(b).age = b.age
           /\ Counted(b).count > 0
<1>1. Counted(b) = [count |-> IF b.count > Limit THEN b.count ELSE b.count + 1, age |-> b.age]
  BY DEF Counted, Buckets
<1>2. QED
  BY <1>1, LimiterAssumption DEF Buckets

\* An admission counts in the tick it happens.
LEMMA OneMore ==
    ASSUME NEW D, NEW n \in D, NEW h \in [D -> Nat]
    PROVE  [h EXCEPT ![n] = h[n] + 1] \in [D -> Nat]
<1>1. h[n] + 1 \in Nat
  OBVIOUS
<1>2. QED
  BY <1>1

\* What a tick leaves of a bucket.
LEMMA OlderBucket ==
    ASSUME NEW b \in Buckets
    PROVE  /\ Older(b) \in Buckets
           /\ Older(b).count = b.count
           /\ b.count > 0 /\ b.age < Window => Older(b).age = b.age + 1
<1>1. Older(b) = [count |-> b.count, age |-> IF b.count = 0 \/ b.age = MaxAge THEN b.age ELSE b.age + 1]
  BY DEF Older, Buckets
<1>2. QED
  BY <1>1, LimiterAssumption DEF Buckets, MaxAge

\* A tick in which nobody waits for the mutex leaves the attempts alone.
LEMMA OlderAttempt ==
    ASSUME NEW w \in Waits, w.age < MaxStall
    PROVE  /\ [w EXCEPT !.age = IF w.waits THEN @ + 1 ELSE @] \in Waits
           /\ ~w.waits => [w EXCEPT !.age = IF w.waits THEN @ + 1 ELSE @].age = w.age
<1>1. CASE w.waits
  <2>1. [w EXCEPT !.age = IF w.waits THEN @ + 1 ELSE @] = [w EXCEPT !.age = w.age + 1]
    BY <1>1
  <2>2. w.age + 1 \in 0..MaxStall
    BY LimiterAssumption DEF Waits
  <2>3. QED
    BY <1>1, <2>1, <2>2 DEF Waits
<1>2. CASE ~w.waits
  <2>1. [w EXCEPT !.age = IF w.waits THEN @ + 1 ELSE @] = [w EXCEPT !.age = w.age]
    BY <1>2
  <2>2. QED
    BY <1>2, <2>1 DEF Waits
<1>3. QED
  BY <1>1, <1>2

\* A new Limiter is well typed and owes nothing.
LEMMA InitLimiter == LimiterInit => LimiterInv
<1> SUFFICES ASSUME LimiterInit PROVE LimiterInv
  OBVIOUS
<1> USE LimiterAssumption DEF LimiterInit, NoBuckets, NoAttempts, NoAdmissions, NothingOwed,
        NoBucket, NoAttempt, MaxAge
<1>1. 0 \in 0..(Limit + 1) /\ 0 \in 0..(Window + MaxStall) /\ 0 \in 0..MaxStall /\ 0 \in 0..Window
  OBVIOUS
<1>2. LimiterTypeOK
  BY <1>1 DEF LimiterTypeOK
<1>3. PromisesKept
  BY DEF PromisesKept
<1>4. QED
  BY <1>2, <1>3 DEF LimiterInv

\* The clock, the middleware and Allow keep the types and every promise.
LEMMA StepLimiter == LimiterInv /\ [LimiterNext]_limiterVars => LimiterInv'
<1> SUFFICES ASSUME LimiterInv, [LimiterNext]_limiterVars PROVE LimiterInv'
  OBVIOUS
<1>0. /\ buckets \in [IPs -> Buckets]
      /\ attempt \in [Attempts -> Waits]
      /\ admitted \in Histories
      /\ owed \in [IPs -> 0..Window]
      /\ stalled \in BOOLEAN
      /\ PromisesKept
  BY DEF LimiterInv, LimiterTypeOK, Buckets, Waits, Histories
<1>a. ASSUME /\ buckets' \in [IPs -> Buckets]
             /\ attempt' \in [Attempts -> Waits]
             /\ admitted' \in Histories
             /\ owed' \in [IPs -> 0..Window]
             /\ stalled' \in BOOLEAN
             /\ PromisesKept'
      PROVE  LimiterInv'
  BY <1>a DEF LimiterInv, LimiterTypeOK, Buckets, Waits, Histories
<1>b. NoAttempt \in Waits /\ NoAttempt.age = 0
  BY LimiterAssumption DEF NoAttempt, Waits
<1>c. NoBucket \in Buckets /\ NoAdmissions \in Histories /\ NothingOwed \in [IPs -> 0..Window]
  BY LimiterAssumption DEF NoBucket, NoAdmissions, NothingOwed, Buckets, Histories, MaxAge
<1>1. CASE Tick
  <2>1. buckets' \in [IPs -> Buckets] /\ \A k \in IPs : buckets'[k] = Older(buckets[k])
    BY <1>0, <1>1, OlderBucket DEF Tick
  <2>2. attempt' \in [Attempts -> Waits]
    BY <1>0, <1>1, OlderAttempt DEF Tick
  <2>3. stalled' \in BOOLEAN
    BY <1>1 DEF Tick
  <2>4. admitted' \in Histories
    <3>1. [k \in IPs |-> [n \in 0..(Window - 1) |-> IF n = 0 THEN 0 ELSE admitted[k][n - 1]]] \in Histories
      BY <1>0, LimiterAssumption DEF Histories
    <3>2. admitted' = NoAdmissions
          \/ admitted' = [k \in IPs |-> [n \in 0..(Window - 1) |-> IF n = 0 THEN 0 ELSE admitted[k][n - 1]]]
      BY <1>1 DEF Tick
    <3>3. QED
      BY <1>c, <3>1, <3>2
  <2>5. owed' \in [IPs -> 0..Window]
    <3>1. [k \in IPs |-> IF owed[k] = 0 THEN 0 ELSE owed[k] - 1] \in [IPs -> 0..Window]
      BY <1>0, LimiterAssumption
    <3>2. owed' = NothingOwed \/ owed' = [k \in IPs |-> IF owed[k] = 0 THEN 0 ELSE owed[k] - 1]
      BY <1>1 DEF Tick
    <3>3. QED
      BY <1>c, <3>1, <3>2
  <2>6. ASSUME ~stalled'
        PROVE  /\ \A a \in Attempts : attempt'[a].age = 0
               /\ \A k \in IPs : owed'[k] > 0 =>
                     buckets'[k].count > 0 /\ buckets'[k].age + owed'[k] = Window
    <3>1. ~stalled /\ \A a \in Attempts : ~attempt[a].waits
      BY <1>1, <2>6 DEF Tick
    <3>2. \A a \in Attempts : attempt[a].age = 0 /\ attempt'[a].age = attempt[a].age
      BY <1>0, <1>1, <3>1, OlderAttempt DEF Tick, PromisesKept
    <3>3. ASSUME NEW k \in IPs, owed'[k] > 0
          PROVE  buckets'[k].count > 0 /\ buckets'[k].age + owed'[k] = Window
      <4>1. owed[k] > 0 /\ owed'[k] = owed[k] - 1
        BY <1>0, <1>1, <2>6, <3>3 DEF Tick
      <4>2. buckets[k].count > 0 /\ buckets[k].age + owed[k] = Window
        BY <1>0, <3>1, <4>1 DEF PromisesKept
      <4>3. buckets[k].count \in Nat /\ buckets[k].age \in Nat /\ owed[k] \in Nat
        BY <1>0, LimiterAssumption DEF Buckets, MaxAge
      <4>4. buckets[k].age < Window
        BY <4>1, <4>2, <4>3, LimiterAssumption
      <4>5. buckets'[k].count = buckets[k].count /\ buckets'[k].age = buckets[k].age + 1
        BY <1>0, <2>1, <4>2, <4>4, OlderBucket
      <4>6. QED
        BY <4>1, <4>2, <4>3, <4>5, LimiterAssumption
    <3>4. QED
      BY <3>2, <3>3
  <2>7. QED
    BY <1>a, <2>1, <2>2, <2>3, <2>4, <2>5, <2>6 DEF PromisesKept
<1>2. ASSUME NEW a \in Attempts, NEW k \in IPs, Arrive(a, k) PROVE LimiterInv'
  <2>1. attempt' \in [Attempts -> Waits]
    BY <1>0, <1>2, LimiterAssumption DEF Arrive, Waits
  <2>2. QED
    BY <1>0, <1>2, <1>a, <2>1 DEF Arrive, PromisesKept
<1>3. ASSUME NEW a \in Attempts, Allow(a) PROVE LimiterInv'
  <2> DEFINE ip == attempt[a].ip
  <2>1. attempt' \in [Attempts -> Waits] /\ stalled' = stalled
    BY <1>0, <1>3, <1>b DEF Allow
  <2>2. ip \in IPs /\ attempt[a].age \in 0..MaxStall
    BY <1>0 DEF Waits
  <2>3. ~stalled => \A b \in Attempts : attempt[b].age = 0 /\ attempt'[b].age = 0
    BY <1>0, <1>3, <1>b DEF Allow, PromisesKept
  <2>4. \A k \in IPs : buckets[k] \in Buckets /\ buckets[k].count \in Nat /\ buckets[k].age \in Nat
    BY <1>0, LimiterAssumption DEF Buckets, MaxAge
  <2>5. Admit(ip) => admitted' \in Histories /\ owed' = owed
    <3>1. [admitted[ip] EXCEPT ![0] = admitted[ip][0] + 1] \in [0..(Window - 1) -> Nat]
      <4>1. admitted[ip] \in [0..(Window - 1) -> Nat]
        BY <1>0, <2>2 DEF Histories
      <4>2. 0 \in 0..(Window - 1)
        BY LimiterAssumption
      <4>3. QED
        BY <4>1, <4>2, OneMore
    <3>2. Admit(ip) => admitted' \in {admitted, [admitted EXCEPT ![ip] = [admitted[ip] EXCEPT ![0] = admitted[ip][0] + 1]]}
      BY DEF Admit
    <3>3. QED
      BY <1>0, <2>2, <3>1, <3>2 DEF Admit, Histories
  <2>6. CASE AllowFresh(a)
    <3>1. Sweep(attempt[a].age) \in [IPs -> Buckets]
      BY <1>0, <1>c DEF Sweep
    <3>2. [count |-> 1, age |-> attempt[a].age] \in Buckets
      BY <2>2, LimiterAssumption DEF Buckets, MaxAge
    <3>3. /\ buckets' \in [IPs -> Buckets]
          /\ \A k \in IPs : k # ip => buckets'[k] = Sweep(attempt[a].age)[k]
      BY <2>2, <2>6, <3>1, <3>2 DEF AllowFresh
    <3>4. Admit(ip)
      BY <2>6 DEF AllowFresh
    <3>5. ASSUME ~stalled, NEW k \in IPs, owed[k] > 0
          PROVE  buckets'[k].count > 0 /\ buckets'[k].age + owed[k] = Window
      <4>1. buckets[k].count > 0 /\ buckets[k].age + owed[k] = Window /\ owed[k] \in Nat
        BY <1>0, <3>5 DEF PromisesKept
      <4>2. attempt[a].age = 0
        BY <2>3, <3>5
      <4>3. ~Expired(buckets[k], attempt[a].age)
        BY <2>4, <3>5, <4>1, <4>2, LimiterAssumption DEF Expired
      <4>4. k # ip
        BY <2>4, <2>6, <4>1, <4>3 DEF AllowFresh
      <4>5. buckets'[k] = buckets[k]
        BY <3>3, <4>3, <4>4 DEF Sweep
      <4>6. QED
        BY <4>1, <4>5
    <3>6. QED
      BY <1>0, <1>a, <2>1, <2>3, <2>5, <3>3, <3>4, <3>5 DEF PromisesKept
  <2>7. CASE AllowCounted(a)
    <3>1. buckets' = [buckets EXCEPT ![ip] = Counted(buckets[ip])]
      BY <2>7 DEF AllowCounted, Refuse
    <3>2. buckets' \in [IPs -> Buckets]
      BY <1>0, <2>2, <2>4, <3>1, CountedBucket
    <3>3. \A k \in IPs : /\ buckets'[k].age = buckets[k].age
                         /\ buckets[k].count > 0 => buckets'[k].count > 0
      BY <1>0, <2>2, <2>4, <3>1, CountedBucket
    <3>4. CASE Refuse(a)
      <4>1. admitted' = admitted /\ owed' = IF stalled THEN owed ELSE [owed EXCEPT ![ip] = RetryAfter(a)]
        BY <3>4 DEF Refuse, Owe
      <4>2. ~stalled => RetryAfter(a) \in 0..Window /\ buckets[ip].age + RetryAfter(a) = Window
        BY <2>2, <2>3, <2>4, <2>7, LimiterAssumption DEF AllowCounted, Expired, RetryAfter
      <4>3. owed' \in [IPs -> 0..Window]
        BY <1>0, <2>2, <4>1, <4>2
      <4>4. buckets[ip].count > 0
        BY <2>7 DEF AllowCounted
      <4>5. ASSUME ~stalled, NEW k \in IPs, owed'[k] > 0
            PROVE  buckets'[k].count > 0 /\ buckets'[k].age + owed'[k] = Window
        <5>1. CASE k = ip
          BY <1>0, <2>2, <3>3, <4>1, <4>2, <4>4, <4>5, <5>1
        <5>2. CASE k # ip
          BY <1>0, <2>2, <3>3, <4>1, <4>5, <5>2 DEF PromisesKept
        <5>3. QED
          BY <5>1, <5>2
      <4>6. QED
        BY <1>0, <1>a, <2>1, <2>3, <3>2, <4>1, <4>3, <4>5 DEF PromisesKept
    <3>5. CASE Admit(ip)
      <4>1. \A k \in IPs : ~stalled /\ owed[k] > 0 =>
                 buckets'[k].count > 0 /\ buckets'[k].age + owed[k] = Window
        BY <1>0, <3>3 DEF PromisesKept
      <4>2. QED
        BY <1>0, <1>a, <2>1, <2>3, <2>5, <3>2, <3>5, <4>1 DEF PromisesKept
    <3>6. QED
      BY <2>7, <3>4, <3>5 DEF AllowCounted
  <2>8. QED
    BY <1>3, <2>6, <2>7 DEF Allow
<1>4. CASE UNCHANGED limiterVars
  BY <1>0, <1>a, <1>4 DEF limiterVars, PromisesKept
<1>5. QED
  BY <1>1, <1>2, <1>3, <1>4 DEF LimiterNext

\* What keeps the limiter's invariant in every behaviour of the server.
LEMMA LimiterInvariant == Spec => []LimiterInv
<1>1. Init => LimiterInv
  BY InitLimiter DEF Init
<1>2. LimiterInit' => LimiterInv'
  BY InitLimiter, PTL
<1>3. LimiterInv /\ [Next]_vars => LimiterInv'
  BY <1>2, LimiterSteps, StepLimiter
<1>4. QED
  BY <1>1, <1>3, PTL DEF Spec

\* The types of the whole server: the keys' and the limiter's.
THEOREM TypeCorrect == Spec => []TypeOK
<1>1. Init => SecretInv
  BY InitSecret DEF Init
<1>2. SecretInv /\ [Next]_vars => SecretInv'
  BY KeysSteps, StepSecret
<1>3. SecretInv /\ LimiterInv => TypeOK
  BY DEF SecretInv, LimiterInv, TypeOK
<1>4. QED
  BY <1>1, <1>2, <1>3, LimiterInvariant, PTL DEF Spec

\* Allow: the Retry-After of a 429 is the time after which the window it was
\* refused in has elapsed, however often the address tries before, whatever
\* other addresses do to the map, and for any Limit and Window.
THEOREM RetryAfterHolds == Spec => []RetryAfterIsHonest
<1>1. LimiterInv => RetryAfterIsHonest
  <2> SUFFICES ASSUME LimiterInv, ~stalled, NEW k \in IPs, owed[k] > 0
               PROVE  buckets[k].count > 0 /\ buckets[k].age + owed[k] >= Window
    BY DEF RetryAfterIsHonest
  <2>1. buckets[k].count > 0 /\ buckets[k].age + owed[k] = Window
    BY DEF LimiterInv, PromisesKept
  <2>2. QED
    BY <2>1, LimiterAssumption
<1>2. QED
  BY <1>1, LimiterInvariant, PTL

-----------------------------------------------------------------------------
(* The limit.  An address's admissions of the last Window ticks are those  *)
(* of the window that runs and those of the one before it: a third window  *)
(* would have begun two lengths ago.                                       *)

Ages == 0..(Window - 1)

\* The admissions of a history up to m ticks old, and the older ones.
Recent(h, m)  == {x \in Admissions(h) : x[1] <= m}
Earlier(h, m) == {x \in Admissions(h) : x[1] > m}

\* The window that runs has admitted no more than it has counted, and only
\* while it ran; the one before it no more than Limit.
WindowFits(h, b) ==
    /\ IsFiniteSet(Admissions(h))
    /\ b.count = 0 => h[0] = 0 /\ Cardinality(Admissions(h)) <= Limit
    /\ b.count > 0 =>
         /\ Cardinality(Recent(h, b.age)) <= Limit
         /\ Cardinality(Recent(h, b.age)) <= b.count
         /\ Cardinality(Earlier(h, b.age)) <= Limit
         /\ \A n \in Ages : h[n] > 0 => b.age - n < Window

WindowsFit ==
    /\ stalled => admitted = NoAdmissions
    /\ ~stalled => \A k \in IPs : WindowFits(admitted[k], buckets[k])
    /\ \A a \in Attempts : attempt[a].waits => Limit > 0

\* What an admission is.
LEMMA Members ==
    ASSUME NEW h \in [Ages -> Nat], NEW x
    PROVE  x \in Admissions(h) <=> \E n \in Ages, i \in Nat : x = <<n, i>> /\ 1 <= i /\ i <= h[n]
<1>1. x \in Admissions(h) <=> \E n \in Ages : x \in {n} \X (1..h[n])
  BY DEF Admissions, Ages
<1>2. \A n \in Ages : x \in {n} \X (1..h[n]) <=> \E i \in Nat : x = <<n, i>> /\ 1 <= i /\ i <= h[n]
  OBVIOUS
<1>3. QED
  BY <1>1, <1>2

\* No admissions.
LEMMA EmptyHistory ==
    ASSUME NEW h \in [Ages -> Nat], \A n \in Ages : h[n] = 0
    PROVE  Admissions(h) = {}
<1>1. \A x : x \notin Admissions(h)
  BY Members
<1>2. QED
  BY <1>1

\* The parts of a history are as small as the whole.
LEMMA Parts ==
    ASSUME NEW h, IsFiniteSet(Admissions(h)), NEW m
    PROVE  /\ IsFiniteSet(Recent(h, m)) /\ IsFiniteSet(Earlier(h, m))
           /\ Cardinality(Recent(h, m)) \in Nat /\ Cardinality(Earlier(h, m)) \in Nat
           /\ Cardinality(Admissions(h)) \in Nat
           /\ Cardinality(Recent(h, m)) <= Cardinality(Admissions(h))
           /\ Cardinality(Earlier(h, m)) <= Cardinality(Admissions(h))
<1>1. Recent(h, m) \in SUBSET Admissions(h) /\ Earlier(h, m) \in SUBSET Admissions(h)
  BY DEF Recent, Earlier
<1>2. QED
  BY <1>1, FS_Subset, FS_CardinalityType

\* Admissions that were others a tick ago are no more than those.
LEMMA Aged ==
    ASSUME NEW S, NEW T, IsFiniteSet(T),
           \A x \in S : \E n \in Ages, i \in Nat : x = <<n, i>> /\ <<n - 1, i>> \in T
    PROVE  IsFiniteSet(S) /\ Cardinality(S) <= Cardinality(T)
<1> DEFINE f == [x \in S |-> <<x[1] - 1, x[2]>>]
<1>1. f \in [S -> T]
  <2>1. ASSUME NEW x \in S PROVE <<x[1] - 1, x[2]>> \in T
    <3>1. PICK n \in Ages, i \in Nat : x = <<n, i>> /\ <<n - 1, i>> \in T
      OBVIOUS
    <3>2. x[1] = n /\ x[2] = i
      BY <3>1
    <3>3. QED
      BY <3>1, <3>2
  <2>2. QED
    BY <2>1
<1>2. ASSUME NEW x \in S, NEW y \in S, f[x] = f[y] PROVE x = y
  <2>1. PICK n \in Ages, i \in Nat : x = <<n, i>>
    OBVIOUS
  <2>2. PICK m \in Ages, j \in Nat : y = <<m, j>>
    OBVIOUS
  <2>3. <<n - 1, i>> = <<m - 1, j>>
    BY <1>2, <2>1, <2>2
  <2>4. n \in Int /\ m \in Int
    BY LimiterAssumption DEF Ages
  <2>5. n = m /\ i = j
    BY <2>3, <2>4
  <2>6. QED
    BY <2>1, <2>2, <2>5
<1>3. f \in Injection(S, T)
  BY <1>1, <1>2 DEF Injection, IsInjective
<1> HIDE DEF f
<1>4. QED
  BY <1>3, FS_Injection

\* A tick: the window that runs gets no new admissions and loses none of its
\* counting.
LEMMA TickFits ==
    ASSUME NEW h \in [Ages -> Nat], NEW b \in Buckets, WindowFits(h, b)
    PROVE  WindowFits([n \in Ages |-> IF n = 0 THEN 0 ELSE h[n - 1]], Older(b))
<1> DEFINE g == [n \in Ages |-> IF n = 0 THEN 0 ELSE h[n - 1]]
<1>1. g \in [Ages -> Nat] /\ g[0] = 0 /\ \A n \in Ages : g[n] > 0 => n - 1 \in Ages /\ g[n] = h[n - 1]
  BY LimiterAssumption DEF Ages
<1> HIDE DEF g
<1>2. IsFiniteSet(Admissions(h))
  BY DEF WindowFits
<1>3. ASSUME NEW x \in Admissions(g)
      PROVE  \E n \in Ages, i \in Nat : x = <<n, i>> /\ n - 1 \in Ages /\ <<n - 1, i>> \in Admissions(h)
  <2>1. PICK n \in Ages, i \in Nat : x = <<n, i>> /\ 1 <= i /\ i <= g[n]
    BY <1>1, <1>3, Members
  <2>2. n - 1 \in Ages /\ i <= h[n - 1]
    BY <1>1, <2>1
  <2>3. <<n - 1, i>> \in Admissions(h)
    BY <2>1, <2>2, Members
  <2>4. QED
    BY <2>1, <2>2, <2>3
<1>4. IsFiniteSet(Admissions(g)) /\ Cardinality(Admissions(g)) <= Cardinality(Admissions(h))
  BY <1>2, <1>3, Aged
<1>5. Older(b).count = b.count /\ Older(b).age \in Nat /\ b.age \in Nat
      /\ (b.count > 0 => Older(b).age = IF b.age = MaxAge THEN b.age ELSE b.age + 1)
  <2>1. Older(b) = [count |-> b.count, age |-> IF b.count = 0 \/ b.age = MaxAge THEN b.age ELSE b.age + 1]
    BY DEF Older, Buckets
  <2>2. QED
    BY <2>1, LimiterAssumption DEF Buckets, MaxAge
<1>6. CASE b.count = 0
  <2>1. Cardinality(Admissions(h)) <= Limit /\ Cardinality(Admissions(h)) \in Nat /\ Cardinality(Admissions(g)) \in Nat
    BY <1>2, <1>4, <1>6, FS_CardinalityType DEF WindowFits
  <2>2. QED
    BY <1>1, <1>4, <1>5, <1>6, <2>1, LimiterAssumption DEF WindowFits, g
<1>7. CASE b.count > 0
  <2> DEFINE m == b.age
             o == Older(b).age
  <2>1. m \in Nat /\ o \in Nat /\ (o = m + 1 \/ (o = m /\ m >= Window))
    BY <1>5, <1>7, LimiterAssumption DEF MaxAge
  <2>2. /\ Cardinality(Recent(h, m)) <= Limit /\ Cardinality(Recent(h, m)) <= b.count
        /\ Cardinality(Earlier(h, m)) <= Limit
        /\ \A n \in Ages : h[n] > 0 => m - n < Window
    BY <1>7 DEF WindowFits
  <2> HIDE DEF m, o
  <2>3. IsFiniteSet(Recent(h, m)) /\ IsFiniteSet(Earlier(h, m))
        /\ Cardinality(Recent(h, m)) \in Nat /\ Cardinality(Earlier(h, m)) \in Nat
        /\ Cardinality(Recent(g, o)) \in Nat /\ Cardinality(Earlier(g, o)) \in Nat
    BY <1>2, <1>4, Parts
  <2>4. ASSUME NEW x \in Recent(g, o)
        PROVE  \E n \in Ages, i \in Nat : x = <<n, i>> /\ <<n - 1, i>> \in Recent(h, m)
    <3>1. x \in Admissions(g) /\ x[1] <= o
      BY DEF Recent
    <3>2. PICK n \in Ages, i \in Nat : x = <<n, i>> /\ n - 1 \in Ages /\ <<n - 1, i>> \in Admissions(h)
      BY <1>3, <3>1
    <3>3. n <= o /\ n \in Int /\ n - 1 <= Window
      BY <3>1, <3>2, LimiterAssumption DEF Ages
    <3>4. n - 1 <= m
      BY <2>1, <3>3, LimiterAssumption
    <3>5. <<n - 1, i>>[1] = n - 1
      OBVIOUS
    <3>6. QED
      BY <3>2, <3>4, <3>5 DEF Recent
  <2>5. ASSUME NEW x \in Earlier(g, o)
        PROVE  \E n \in Ages, i \in Nat : x = <<n, i>> /\ <<n - 1, i>> \in Earlier(h, m)
    <3>1. x \in Admissions(g) /\ x[1] > o
      BY DEF Earlier
    <3>2. PICK n \in Ages, i \in Nat : x = <<n, i>> /\ n - 1 \in Ages /\ <<n - 1, i>> \in Admissions(h)
      BY <1>3, <3>1
    <3>3. n > o /\ n \in Int /\ n < Window
      BY <3>1, <3>2, LimiterAssumption DEF Ages
    <3>4. n - 1 > m
      BY <2>1, <3>3, LimiterAssumption
    <3>5. <<n - 1, i>>[1] = n - 1
      OBVIOUS
    <3>6. QED
      BY <3>2, <3>4, <3>5 DEF Earlier
  <2>6. Cardinality(Recent(g, o)) <= Cardinality(Recent(h, m))
    BY <2>3, <2>4, Aged
  <2>7. Cardinality(Earlier(g, o)) <= Cardinality(Earlier(h, m))
    BY <2>3, <2>5, Aged
  <2>8. ASSUME NEW n \in Ages, g[n] > 0 PROVE o - n < Window
    <3>1. n - 1 \in Ages /\ h[n - 1] > 0
      BY <1>1, <2>8
    <3>2. m - (n - 1) < Window
      BY <2>2, <3>1
    <3>3. QED
      BY <2>1, <3>2, LimiterAssumption DEF Ages
  <2>9. b.count \in Nat
    BY LimiterAssumption DEF Buckets
  <2>10. Cardinality(Recent(g, o)) <= Limit /\ Cardinality(Recent(g, o)) <= b.count
        /\ Cardinality(Earlier(g, o)) <= Limit
    BY <2>2, <2>3, <2>6, <2>7, <2>9, LimiterAssumption
  <2>11. QED
    BY <1>4, <1>5, <1>7, <2>8, <2>10 DEF WindowFits, g, o
<1>8. b.count = 0 \/ b.count > 0
  BY LimiterAssumption DEF Buckets
<1>9. QED
  BY <1>6, <1>7, <1>8 DEF g

\* An attempt let through in this tick.
LEMMA AdmitOne ==
    ASSUME NEW h \in [Ages -> Nat], NEW g \in [Ages -> Nat], NEW m \in Nat,
           \A n \in Ages : g[n] = IF n = 0 THEN h[0] + 1 ELSE h[n],
           IsFiniteSet(Admissions(h))
    PROVE  /\ IsFiniteSet(Admissions(g))
           /\ Cardinality(Recent(g, m)) <= Cardinality(Recent(h, m)) + 1
           /\ Earlier(g, m) = Earlier(h, m)
<1> DEFINE e == <<0, h[0] + 1>>
<1>1. 0 \in Ages /\ h[0] + 1 \in Nat /\ h[0] \in Nat
  BY LimiterAssumption DEF Ages
<1>2. g \in [Ages -> Nat] /\ \A n \in Ages : g[n] = IF n = 0 THEN h[0] + 1 ELSE h[n]
  OBVIOUS
<1>3. \A x : x \in Admissions(g) <=> x \in Admissions(h) \/ x = e
  <2>1. ASSUME NEW x \in Admissions(g), x # e PROVE x \in Admissions(h)
    <3>1. PICK n \in Ages, i \in Nat : x = <<n, i>> /\ 1 <= i /\ i <= g[n]
      BY <1>2, <2>1, Members
    <3>2. i <= h[n]
      BY <1>1, <1>2, <2>1, <3>1
    <3>3. QED
      BY <3>1, <3>2, Members
  <2>2. ASSUME NEW x \in Admissions(h) PROVE x \in Admissions(g)
    <3>1. PICK n \in Ages, i \in Nat : x = <<n, i>> /\ 1 <= i /\ i <= h[n]
      BY <2>2, Members
    <3>2. i <= g[n]
      BY <1>1, <1>2, <3>1
    <3>3. QED
      BY <1>2, <3>1, <3>2, Members
  <2>3. e \in Admissions(g)
    <3>1. h[0] + 1 \in Nat /\ 1 <= h[0] + 1 /\ h[0] + 1 <= g[0]
      BY <1>1, <1>2
    <3>2. \E n \in Ages, i \in Nat : e = <<n, i>> /\ 1 <= i /\ i <= g[n]
      BY <1>1, <3>1
    <3>3. QED
      BY <1>2, <3>2, Members
  <2>4. QED
    BY <2>1, <2>2, <2>3
<1>4. e[1] <= m /\ ~(e[1] > m)
  <2>1. e[1] = 0
    OBVIOUS
  <2>2. QED
    BY <2>1
<1> HIDE DEF e
<1>5. Admissions(g) = Admissions(h) \cup {e}
  BY <1>3
<1>6. Recent(g, m) = Recent(h, m) \cup {e} /\ Earlier(g, m) = Earlier(h, m)
  BY <1>4, <1>5 DEF Recent, Earlier
<1>7. IsFiniteSet(Recent(h, m)) /\ Cardinality(Recent(h, m)) \in Nat
  BY Parts
<1>8. Cardinality(Recent(h, m) \cup {e}) =
        IF e \in Recent(h, m) THEN Cardinality(Recent(h, m)) ELSE Cardinality(Recent(h, m)) + 1
  BY <1>7, FS_AddElement
<1>9. Cardinality(Recent(g, m)) <= Cardinality(Recent(h, m)) + 1
  BY <1>6, <1>7, <1>8
<1>10. IsFiniteSet(Admissions(g))
  BY <1>5, FS_AddElement
<1>11. QED
  BY <1>6, <1>9, <1>10

\* A window that has elapsed for a reading of this tick: all that is left of
\* its address's history is what it admitted itself, before this tick.
LEMMA ElapsedFits ==
    ASSUME NEW h \in [Ages -> Nat], NEW b \in Buckets, WindowFits(h, b),
           b.count = 0 \/ Expired(b, 0)
    PROVE  h[0] = 0 /\ Cardinality(Admissions(h)) <= Limit
<1>1. CASE b.count = 0
  BY <1>1 DEF WindowFits
<1>2. CASE b.count > 0 /\ Expired(b, 0)
  <2>1. b.age >= Window /\ b.age \in Nat
    BY <1>2, LimiterAssumption DEF Expired, Buckets, MaxAge
  <2>2. 0 \in Ages /\ h[0] \in Nat
    BY LimiterAssumption DEF Ages
  <2>3. ~(h[0] > 0)
    BY <1>2, <2>1, <2>2, LimiterAssumption DEF WindowFits
  <2>4. \A x \in Admissions(h) : x[1] <= b.age
    <3>1. SUFFICES ASSUME NEW x \in Admissions(h) PROVE x[1] <= b.age
      OBVIOUS
    <3>2. PICK n \in Ages, i \in Nat : x = <<n, i>>
      BY Members
    <3>3. n <= b.age
      BY <2>1, LimiterAssumption DEF Ages
    <3>4. QED
      BY <3>2, <3>3
  <2>5. Admissions(h) = Recent(h, b.age)
    BY <2>4 DEF Recent
  <2>6. QED
    BY <1>2, <2>2, <2>3, <2>5 DEF WindowFits
<1>3. b.count = 0 \/ b.count > 0
  BY LimiterAssumption DEF Buckets
<1>4. QED
  BY <1>1, <1>2, <1>3

\* A window swept.
LEMMA SweptFits ==
    ASSUME NEW h \in [Ages -> Nat], NEW b \in Buckets, WindowFits(h, b), Expired(b, 0)
    PROVE  WindowFits(h, NoBucket)
<1>1. h[0] = 0 /\ Cardinality(Admissions(h)) <= Limit
  BY ElapsedFits
<1>2. NoBucket.count = 0
  BY DEF NoBucket
<1>3. QED
  BY <1>1, <1>2 DEF WindowFits

\* A window opened, by the attempt that counts first in it.
LEMMA FreshFits ==
    ASSUME NEW h \in [Ages -> Nat], NEW b \in Buckets, WindowFits(h, b), Limit > 0,
           b.count = 0 \/ Expired(b, 0), NEW c \in Buckets, c.count = 1, c.age = 0
    PROVE  WindowFits([h EXCEPT ![0] = h[0] + 1], c)
<1>0. PICK g \in [Ages -> Nat] : /\ g = [h EXCEPT ![0] = h[0] + 1]
                                 /\ \A n \in Ages : g[n] = IF n = 0 THEN h[0] + 1 ELSE h[n]
  <2>1. [h EXCEPT ![0] = h[0] + 1] \in [Ages -> Nat]
    BY OneMore, LimiterAssumption DEF Ages
  <2>2. QED
    BY <2>1
<1>a. \A n \in Ages : g[n] = IF n = 0 THEN h[0] + 1 ELSE h[n]
  BY <1>0
<1>1. h[0] = 0 /\ Cardinality(Admissions(h)) <= Limit /\ IsFiniteSet(Admissions(h))
  BY ElapsedFits DEF WindowFits
<1>2. \A n \in Ages : n \in Int /\ n >= 0 /\ h[n] \in Nat
  BY LimiterAssumption DEF Ages
<1>3. Recent(h, 0) = {}
  <2>1. SUFFICES ASSUME NEW x \in Admissions(h) PROVE ~(x[1] <= 0)
    BY DEF Recent
  <2>2. PICK n \in Ages, i \in Nat : x = <<n, i>> /\ 1 <= i /\ i <= h[n]
    BY Members
  <2>3. n # 0
    BY <1>1, <2>2
  <2>4. QED
    BY <1>2, <2>2, <2>3
<1>4. /\ IsFiniteSet(Admissions(g))
      /\ Cardinality(Recent(g, 0)) <= Cardinality(Recent(h, 0)) + 1
      /\ Earlier(g, 0) = Earlier(h, 0)
  BY <1>a, <1>1, AdmitOne
<1>5. /\ Cardinality(Recent(g, 0)) \in Nat /\ Cardinality(Admissions(h)) \in Nat
      /\ Cardinality(Earlier(g, 0)) \in Nat /\ Cardinality(Earlier(h, 0)) <= Cardinality(Admissions(h))
  BY <1>1, <1>4, Parts
<1>6. Cardinality(Recent(g, 0)) <= 1 /\ Cardinality(Earlier(g, 0)) <= Limit
  BY <1>1, <1>3, <1>4, <1>5, FS_EmptySet, LimiterAssumption
<1>7. \A n \in Ages : 0 - n < Window
  BY <1>2, LimiterAssumption
<1>8. QED
  BY <1>0, <1>4, <1>5, <1>6, <1>7, LimiterAssumption DEF WindowFits

\* Another attempt within the limit.
LEMMA CountedFits ==
    ASSUME NEW h \in [Ages -> Nat], NEW b \in Buckets, WindowFits(h, b), b.count > 0,
           ~Expired(b, 0), Counted(b).count <= Limit
    PROVE  WindowFits([h EXCEPT ![0] = h[0] + 1], Counted(b))
<1>0. PICK g \in [Ages -> Nat] : /\ g = [h EXCEPT ![0] = h[0] + 1]
                                 /\ \A n \in Ages : g[n] = IF n = 0 THEN h[0] + 1 ELSE h[n]
  <2>1. [h EXCEPT ![0] = h[0] + 1] \in [Ages -> Nat]
    BY OneMore, LimiterAssumption DEF Ages
  <2>2. QED
    BY <2>1
<1>a. \A n \in Ages : g[n] = IF n = 0 THEN h[0] + 1 ELSE h[n]
  BY <1>0
<1>1. Counted(b) = [count |-> IF b.count > Limit THEN b.count ELSE b.count + 1, age |-> b.age]
  BY DEF Counted, Buckets
<1>2. b.count \in Nat /\ b.age \in Nat
  BY LimiterAssumption DEF Buckets, MaxAge
<1>3. Counted(b).count = b.count + 1 /\ Counted(b).age = b.age /\ b.count + 1 <= Limit
  BY <1>1, <1>2, LimiterAssumption
<1>4. /\ IsFiniteSet(Admissions(g))
      /\ Cardinality(Recent(g, b.age)) <= Cardinality(Recent(h, b.age)) + 1
      /\ Earlier(g, b.age) = Earlier(h, b.age)
  BY <1>a, <1>2, AdmitOne DEF WindowFits
<1>5. \A n \in Ages : b.age - n < Window \/ n # 0
  BY <1>2, LimiterAssumption DEF Expired
<1>6. \A n \in Ages : n # 0 => g[n] = h[n]
  BY <1>a
<1>7. Cardinality(Recent(g, b.age)) \in Nat /\ Cardinality(Recent(h, b.age)) \in Nat
  BY <1>4, Parts DEF WindowFits
<1>8. Cardinality(Recent(g, b.age)) <= b.count + 1 /\ Cardinality(Recent(g, b.age)) <= Limit
      /\ Cardinality(Earlier(g, b.age)) <= Limit
  BY <1>2, <1>3, <1>4, <1>7, LimiterAssumption DEF WindowFits
<1>9. \A n \in Ages : g[n] > 0 => b.age - n < Window
  BY <1>5, <1>6 DEF WindowFits
<1>10. QED
  BY <1>0, <1>2, <1>3, <1>4, <1>8, <1>9 DEF WindowFits

\* A refusal only counts.
LEMMA RefusedFits ==
    ASSUME NEW h \in [Ages -> Nat], NEW b \in Buckets, WindowFits(h, b), b.count > 0
    PROVE  WindowFits(h, Counted(b))
<1>1. Counted(b) = [count |-> IF b.count > Limit THEN b.count ELSE b.count + 1, age |-> b.age]
  BY DEF Counted, Buckets
<1>2. b.count \in Nat
  BY LimiterAssumption DEF Buckets
<1>3. Counted(b).age = b.age /\ Counted(b).count \in Nat /\ Counted(b).count >= b.count
  BY <1>1, <1>2
<1>4. Cardinality(Recent(h, b.age)) \in Nat
  BY Parts DEF WindowFits
<1>5. QED
  BY <1>2, <1>3, <1>4 DEF WindowFits

\* A new Limiter has admitted nobody.
LEMMA InitWindows == LimiterInit => WindowsFit
<1> SUFFICES ASSUME LimiterInit PROVE WindowsFit
  OBVIOUS
<1>1. ~stalled /\ admitted = NoAdmissions /\ buckets = NoBuckets /\ attempt = NoAttempts
  BY DEF LimiterInit
<1>2. ASSUME NEW k \in IPs PROVE WindowFits(admitted[k], buckets[k])
  <2>0. admitted[k] = [n \in Ages |-> 0]
    BY <1>1 DEF NoAdmissions, Ages
  <2>1. PICK h \in [Ages -> Nat] : h = admitted[k] /\ \A n \in Ages : h[n] = 0
    BY <2>0
  <2>2. Admissions(h) = {} /\ h[0] = 0
    BY <2>1, EmptyHistory, LimiterAssumption DEF Ages
  <2>3. IsFiniteSet(Admissions(h)) /\ Cardinality(Admissions(h)) <= Limit
    BY <2>2, FS_EmptySet, LimiterAssumption
  <2>4. buckets[k].count = 0
    BY <1>1 DEF NoBuckets, NoBucket
  <2>5. WindowFits(h, buckets[k])
    BY <2>2, <2>3, <2>4 DEF WindowFits
  <2>6. QED
    BY <2>1, <2>5
<1>3. \A a \in Attempts : ~attempt[a].waits
  BY <1>1 DEF NoAttempts, NoAttempt
<1>4. QED
  BY <1>1, <1>2, <1>3 DEF WindowsFit

\* The clock, the middleware and Allow keep every window within its limit.
LEMMA StepWindows ==
    LimiterInv /\ WindowsFit /\ [LimiterNext]_limiterVars => WindowsFit'
<1> SUFFICES ASSUME LimiterInv, WindowsFit, [LimiterNext]_limiterVars PROVE WindowsFit'
  OBVIOUS
<1>0. /\ buckets \in [IPs -> Buckets]
      /\ attempt \in [Attempts -> Waits]
      /\ admitted \in [IPs -> [Ages -> Nat]]
  BY DEF LimiterInv, LimiterTypeOK, Buckets, Waits, Ages
<1>a. /\ stalled => admitted = NoAdmissions
      /\ ~stalled => \A k \in IPs : WindowFits(admitted[k], buckets[k])
      /\ \A a \in Attempts : attempt[a].waits => Limit > 0
  BY DEF WindowsFit
<1>1. CASE Tick
  <2>1. \A a \in Attempts : attempt'[a].waits => Limit > 0
    <3>1. ASSUME NEW a \in Attempts PROVE attempt'[a].waits = attempt[a].waits
      <4>1. attempt[a] \in Waits
        BY <1>0
      <4>2. attempt'[a] = [attempt[a] EXCEPT !.age = IF attempt[a].waits THEN @ + 1 ELSE @]
        BY <1>1 DEF Tick
      <4>3. QED
        BY <4>1, <4>2 DEF Waits
    <3>2. QED
      BY <1>a, <3>1
  <2>2. stalled' => admitted' = NoAdmissions
    BY <1>1 DEF Tick
  <2>3. ASSUME ~stalled', NEW k \in IPs PROVE WindowFits(admitted'[k], buckets'[k])
    <3>1. ~stalled /\ buckets'[k] = Older(buckets[k])
      BY <1>1, <2>3 DEF Tick
    <3>2. admitted'[k] = [n \in Ages |-> IF n = 0 THEN 0 ELSE admitted[k][n - 1]]
      BY <1>1, <2>3 DEF Tick, Ages
    <3>3. admitted[k] \in [Ages -> Nat] /\ buckets[k] \in Buckets /\ WindowFits(admitted[k], buckets[k])
      BY <1>0, <1>a, <3>1
    <3>4. WindowFits([n \in Ages |-> IF n = 0 THEN 0 ELSE admitted[k][n - 1]], Older(buckets[k]))
      BY <3>3, TickFits
    <3>5. QED
      BY <3>1, <3>2, <3>4
  <2>4. QED
    BY <2>1, <2>2, <2>3 DEF WindowsFit
<1>2. ASSUME NEW a \in Attempts, NEW k \in IPs, Arrive(a, k) PROVE WindowsFit'
  <2>1. Limit > 0 /\ UNCHANGED <<buckets, admitted, stalled>>
    BY <1>2 DEF Arrive
  <2>2. QED
    BY <1>a, <2>1 DEF WindowsFit, WindowFits
<1>3. ASSUME NEW a \in Attempts, Allow(a) PROVE WindowsFit'
  <2>1. Limit > 0 /\ stalled' = stalled
    BY <1>3, <1>a DEF Allow
  <2>2. PICK ip \in IPs : ip = attempt[a].ip
    BY <1>0 DEF Waits
  <2>3. Admit(ip) \/ admitted' = admitted
    BY <1>3, <2>2 DEF Allow, AllowFresh, AllowCounted, Refuse, Owe
  <2>4. CASE stalled
    <3>1. admitted' = NoAdmissions
      BY <1>a, <2>3, <2>4 DEF Admit
    <3>2. QED
      BY <2>1, <2>4, <3>1 DEF WindowsFit
  <2>5. CASE ~stalled
    <3>1. attempt[a].age = 0
      BY <2>5 DEF LimiterInv, PromisesKept
    <3>2. \A k \in IPs : admitted[k] \in [Ages -> Nat] /\ buckets[k] \in Buckets
                         /\ WindowFits(admitted[k], buckets[k])
      BY <1>0, <1>a, <2>5
    <3>3. Admit(ip) => admitted' = [admitted EXCEPT ![ip] = [admitted[ip] EXCEPT ![0] = admitted[ip][0] + 1]]
      BY <2>5 DEF Admit
    <3> DEFINE h == [admitted[ip] EXCEPT ![0] = admitted[ip][0] + 1]
    <3>4. Admit(ip) => admitted'[ip] = h /\ \A k \in IPs : k # ip => admitted'[k] = admitted[k]
      BY <1>0, <3>3
    <3>5. SUFFICES ASSUME NEW k \in IPs PROVE WindowFits(admitted'[k], buckets'[k])
      BY <2>1, <2>5 DEF WindowsFit
    <3>6. CASE AllowFresh(a)
      <4>1. Admit(ip) /\ (buckets[ip].count = 0 \/ Expired(buckets[ip], 0))
        BY <2>2, <3>1, <3>6 DEF AllowFresh
      <4> DEFINE c == [count |-> 1, age |-> 0]
      <4>2. c.count = 1 /\ c.age = 0
        OBVIOUS
      <4>3. c \in Buckets
        BY LimiterAssumption DEF Buckets, MaxAge
      <4>4. buckets' = [Sweep(0) EXCEPT ![ip] = c]
        BY <2>2, <3>1, <3>6 DEF AllowFresh
      <4> HIDE DEF c
      <4>5. CASE k = ip
        <5>1. buckets'[k] = c /\ admitted'[k] = h
          BY <3>4, <4>1, <4>4, <4>5 DEF Sweep
        <5>2. WindowFits(h, c)
          BY <2>1, <3>2, <4>1, <4>2, <4>3, FreshFits
        <5>3. QED
          BY <5>1, <5>2
      <4>6. CASE k # ip
        <5>1. admitted'[k] = admitted[k]
              /\ buckets'[k] = IF Expired(buckets[k], 0) THEN NoBucket ELSE buckets[k]
          BY <3>4, <4>1, <4>4, <4>6 DEF Sweep
        <5>2. CASE Expired(buckets[k], 0)
          BY <3>2, <5>1, <5>2, SweptFits
        <5>3. CASE ~Expired(buckets[k], 0)
          BY <3>2, <5>1, <5>3
        <5>4. QED
          BY <5>2, <5>3
      <4>7. QED
        BY <4>5, <4>6
    <3>7. CASE AllowCounted(a)
      <4>1. buckets[ip].count > 0 /\ ~Expired(buckets[ip], 0)
        BY <2>2, <3>1, <3>7 DEF AllowCounted
      <4>2. buckets' = [buckets EXCEPT ![ip] = Counted(buckets[ip])]
        BY <2>2, <3>7 DEF AllowCounted, Refuse
      <4>3. buckets'[ip] = Counted(buckets[ip]) /\ \A j \in IPs : j # ip => buckets'[j] = buckets[j]
        BY <1>0, <4>2
      <4>4. CASE admitted' = admitted
        <5>1. CASE k = ip
          BY <3>2, <4>1, <4>3, <4>4, <5>1, RefusedFits
        <5>2. CASE k # ip
          BY <3>2, <4>3, <4>4, <5>2
        <5>3. QED
          BY <5>1, <5>2
      <4>5. CASE Admit(ip) /\ Counted(buckets[ip]).count <= Limit
        <5>1. CASE k = ip
          <6>1. WindowFits(h, Counted(buckets[ip]))
            BY <3>2, <4>1, <4>5, CountedFits
          <6>2. QED
            BY <3>4, <4>3, <4>5, <5>1, <6>1
        <5>2. CASE k # ip
          BY <3>2, <3>4, <4>3, <4>5, <5>2
        <5>3. QED
          BY <5>1, <5>2
      <4>6. QED
        BY <2>2, <3>7, <4>4, <4>5 DEF AllowCounted, Refuse, Owe
    <3>8. QED
      BY <1>3, <3>6, <3>7 DEF Allow
  <2>6. QED
    BY <2>4, <2>5
<1>4. CASE UNCHANGED limiterVars
  BY <1>4, <1>a DEF limiterVars, WindowsFit, WindowFits
<1>5. QED
  BY <1>1, <1>2, <1>3, <1>4 DEF LimiterNext

\* Allow: whatever the stretch of time as long as a window, whatever other
\* addresses do to the map meanwhile, and for any Limit and Window, no more
\* than twice Limit attempts of one address got through.
THEOREM NeverMoreThanTwice == Spec => []TwiceTheLimit
<1>1. Init => WindowsFit
  BY InitWindows DEF Init
<1>2. LimiterInit' => WindowsFit'
  BY InitWindows, PTL
<1>3. LimiterInv /\ WindowsFit /\ [Next]_vars => WindowsFit'
  BY <1>2, LimiterSteps, StepWindows
<1>4. LimiterInv /\ WindowsFit => TwiceTheLimit
  <2> SUFFICES ASSUME LimiterInv, WindowsFit, NEW k \in IPs
               PROVE  Cardinality(Admissions(admitted[k])) <= 2 * Limit
    BY DEF TwiceTheLimit
  <2>0. PICK h \in [Ages -> Nat] : h = admitted[k]
    BY DEF LimiterInv, LimiterTypeOK, Ages
  <2>1. CASE stalled
    <3>1. \A n \in Ages : h[n] = 0
      BY <2>0, <2>1 DEF WindowsFit, NoAdmissions, Ages
    <3>2. Cardinality(Admissions(h)) = 0
      BY <3>1, EmptyHistory, FS_EmptySet
    <3>3. 0 <= 2 * Limit
      BY LimiterAssumption
    <3>4. QED
      BY <2>0, <3>2, <3>3
  <2>2. CASE ~stalled
    <3>0. buckets[k] \in Buckets
      BY DEF LimiterInv, LimiterTypeOK, Buckets
    <3>1. PICK b \in Buckets : WindowFits(h, b)
      BY <2>0, <2>2, <3>0 DEF WindowsFit
    <3>2. CASE b.count = 0
      <4>1. Cardinality(Admissions(h)) \in Nat /\ Cardinality(Admissions(h)) <= Limit
        BY <3>1, <3>2, FS_CardinalityType DEF WindowFits
      <4>2. Cardinality(Admissions(h)) <= 2 * Limit
        BY <4>1, LimiterAssumption
      <4>3. QED
        BY <2>0, <4>2
    <3>3. CASE b.count > 0
      <4> DEFINE R == Recent(h, b.age)
                 E == Earlier(h, b.age)
      <4>1. IsFiniteSet(R) /\ IsFiniteSet(E) /\ Cardinality(R) \in Nat /\ Cardinality(E) \in Nat
        BY <3>1, Parts DEF WindowFits
      <4>2. Cardinality(R) <= Limit /\ Cardinality(E) <= Limit
        BY <3>1, <3>3 DEF WindowFits
      <4>3. Admissions(h) = R \cup E
        <5>1. SUFFICES ASSUME NEW x \in Admissions(h) PROVE x[1] <= b.age \/ x[1] > b.age
          BY DEF Recent, Earlier
        <5>2. PICK n \in Ages, i \in Nat : x = <<n, i>>
          BY Members
        <5>3. n <= b.age \/ n > b.age
          BY LimiterAssumption DEF Ages, Buckets, MaxAge
        <5>4. QED
          BY <5>2, <5>3
      <4> HIDE DEF R, E
      <4>4. Cardinality(R \cup E) = Cardinality(R) + Cardinality(E) - Cardinality(R \cap E)
        BY <4>1, FS_Union
      <4>5. Cardinality(R \cap E) \in Nat
        BY <4>1, FS_Intersection, FS_CardinalityType
      <4>6. Cardinality(R \cup E) <= 2 * Limit
        BY <4>1, <4>2, <4>4, <4>5, LimiterAssumption
      <4>7. QED
        BY <2>0, <4>3, <4>6
    <3>4. b.count = 0 \/ b.count > 0
      BY LimiterAssumption DEF Buckets
    <3>5. QED
      BY <3>2, <3>3, <3>4
  <2>3. QED
    BY <2>1, <2>2
<1>5. QED
  BY <1>1, <1>3, <1>4, LimiterInvariant, PTL DEF Spec
=============================================================================
