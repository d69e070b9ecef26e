------------------------- MODULE RateLimiterProofs -------------------------
(***************************************************************************)
(* For every rate, burst and number of clients the limiter implements one  *)
(* token bucket per address, and Retry-After is long enough.               *)
(*                                                                         *)
(* The first rests on the assumption that a bucket refills within the time *)
(* after which its entry is forgotten; the second on an invariant that     *)
(* ties the promise to the bucket it was made for.                         *)
(***************************************************************************)
EXTENDS RateLimiter, TLAPS

\* What was promised to a client still in the map comes true: its bucket will
\* hold a token by then.
PromisesKept ==
    \A c \in Known : promised[c] # 0 =>
        buckets[c].tokens + (promised[c] - buckets[c].last) * Rate >= Unit

LimiterInv == LimiterTypeOK /\ PromisesKept

-----------------------------------------------------------------------------
\* Arithmetic beyond the linear.
LEMMA ProductNat == \A a, b \in Nat : a * b \in Nat
  OBVIOUS

LEMMA ProductPositive == \A a, b \in Nat \ {0} : a * b \in Nat \ {0}
  OBVIOUS

LEMMA ProductMonotonic ==
    ASSUME NEW a \in Int, NEW b \in Int, NEW k \in Nat, a <= b
    PROVE  a * k <= b * k
  OBVIOUS

LEMMA OneMoreTick ==
    ASSUME NEW a \in Int, NEW k \in Int
    PROVE  (a + 1) * k = a * k + k
  OBVIOUS

\* Rounding up is enough.
LEMMA CeilDivEnough ==
    ASSUME NEW a \in Int, NEW b \in Nat \ {0}
    PROVE  CeilDiv(a, b) \in Int /\ CeilDiv(a, b) * b >= a
<1> DEFINE n == a + b - 1
<1>1. n \in Int
  OBVIOUS
<1>2. n \div b \in Int /\ n % b \in 0 .. b - 1 /\ n = b * (n \div b) + (n % b)
  BY <1>1, SMT
<1>3. b * (n \div b) = (n \div b) * b
  BY <1>2
<1> QED
  BY <1>2, <1>3 DEF CeilDiv

-----------------------------------------------------------------------------
\* What a state of the right type has.
LEMMA BucketShape ==
    ASSUME LimiterAssumption, LimiterTypeOK, NEW c \in Known
    PROVE  /\ c \in Clients
           /\ buckets[c].tokens \in 0 .. Burst
           /\ buckets[c].last \in 0 .. now
           /\ now \in Nat
           /\ Refilled(c) \in 0 .. Burst
           /\ Refilled(c) = Burst
              \/ Refilled(c) = buckets[c].tokens + (now - buckets[c].last) * Rate
<1>1. /\ c \in Clients /\ now \in Nat
      /\ buckets[c] \in [tokens : 0 .. Burst, last : 0 .. now]
  BY DEF LimiterTypeOK, LimiterAssumption
<1>2. /\ buckets[c].tokens \in 0 .. Burst /\ buckets[c].last \in 0 .. now
      /\ Burst \in Nat /\ Rate \in Nat
  BY <1>1 DEF LimiterAssumption
<1>3. now - buckets[c].last \in Nat
  BY <1>1, <1>2
<1>4. (now - buckets[c].last) * Rate \in Nat
  BY <1>2, <1>3, ProductNat
<1> QED
  BY <1>1, <1>2, <1>4 DEF Refilled, Least

\* A promise is made in whole seconds, and covers what is missing.
LEMMA PromiseCovers ==
    ASSUME LimiterAssumption, NEW t \in 0 .. Burst, NEW n \in Nat, t < Unit
    PROVE  \E back \in Nat : /\ back = n + RetryAfter(t) * Second
                             /\ t + (back - n) * Rate >= Unit
<1> DEFINE b == Rate * Second
           w == CeilDiv(Unit - t, b)
           r == RetryAfter(t)
<1>1. /\ Rate \in Nat \ {0} /\ Second \in Nat \ {0} /\ Unit \in Nat /\ t \in Int
  BY DEF LimiterAssumption
<1>2. b \in Nat \ {0}
  BY <1>1, ProductPositive
<1>3. w \in Int /\ w * b >= Unit - t
  <2>1. Unit - t \in Int
    BY <1>1
  <2> HIDE DEF b
  <2> QED
    BY <1>2, <2>1, CeilDivEnough
<1>4. r \in Nat /\ r >= w
  <2> HIDE DEF w
  <2>1. RetryAfter(t) = Greatest(w, 1)
    BY DEF RetryAfter, w, b
  <2> QED
    BY <1>3, <2>1 DEF Greatest
<1>5. w * b <= r * b
  <2> HIDE DEF w, b, r
  <2> QED
    BY <1>2, <1>3, <1>4, ProductMonotonic
<1>6. r * Second \in Nat
  <2> HIDE DEF r
  <2> QED
    BY <1>1, <1>4, ProductNat
<1>7. (r * Second) * Rate = r * b
  <2> HIDE DEF r
  <2> QED
    BY <1>1, <1>4
<1>8. r * b \in Int
  <2> HIDE DEF r, b
  <2> QED
    BY <1>2, <1>4
<1> HIDE DEF w
<1>9. t + r * b >= Unit
  <2> HIDE DEF r, b
  <2>1. w * b \in Int
    BY <1>2, <1>3
  <2> QED
    BY <1>1, <1>3, <1>5, <1>8, <2>1
<1> DEFINE back == n + r * Second
<1>10. back \in Nat /\ back - n = r * Second
  <2> HIDE DEF r
  <2> QED
    BY <1>6 DEF back
<1> HIDE DEF back
<1>11. t + (back - n) * Rate >= Unit
  BY <1>7, <1>9, <1>10, Zenon
<1> QED
  BY <1>10, <1>11, Zenon DEF back

-----------------------------------------------------------------------------
\* What a call leaves of the map: entries of before, and the caller's.
LEMMA AllowNewKeepsInv ==
    ASSUME LimiterAssumption, LimiterInv, NEW c \in Clients, AllowNew(c)
    PROVE  LimiterInv'
<1> DEFINE kept == {d \in Known : ~(Cardinality(Known \union {c}) > MaxClients /\ Stale(d))}
<1>1. /\ Known' = kept \union {c}
      /\ buckets'[c] = [tokens |-> Burst - Unit, last |-> now]
      /\ \A d \in kept : d # c /\ d \in Known /\ buckets'[d] = buckets[d]
      /\ buckets' = [d \in kept \union {c} |-> buckets'[d]]
      /\ promised' = [promised EXCEPT ![c] = 0]
      /\ c \notin Known /\ now' = now
  BY DEF AllowNew, Known
<1> HIDE DEF kept
<1>2. /\ now \in 0 .. MaxTime /\ Known \subseteq Clients
      /\ buckets \in [Known -> [tokens : 0 .. Burst, last : 0 .. now]]
      /\ promised \in [Clients -> Nat]
  BY DEF LimiterInv, LimiterTypeOK
<1>3. [tokens |-> Burst - Unit, last |-> now] \in [tokens : 0 .. Burst, last : 0 .. now]
  BY <1>2 DEF LimiterAssumption
<1>4. LimiterTypeOK'
  <2>1. \A d \in Known' : buckets'[d] \in [tokens : 0 .. Burst, last : 0 .. now]
    BY <1>1, <1>2, <1>3
  <2>2. buckets' \in [Known' -> [tokens : 0 .. Burst, last : 0 .. now]]
    BY <1>1, <2>1
  <2> QED
    BY <1>1, <1>2, <2>2 DEF LimiterTypeOK
<1>5. PromisesKept'
  <2>1. \A d \in kept : promised'[d] = promised[d] /\ buckets'[d] = buckets[d]
    BY <1>1, <1>2
  <2>2. promised'[c] = 0
    BY <1>2, <1>1
  <2> QED
    BY <1>1, <2>1, <2>2 DEF LimiterInv, PromisesKept
<1> QED
  BY <1>4, <1>5 DEF LimiterInv

LEMMA AllowKeepsInv ==
    ASSUME LimiterAssumption, LimiterInv, NEW c \in Clients, Allow(c)
    PROVE  LimiterInv'
<1>1. /\ c \in Known /\ Refilled(c) >= Unit /\ now' = now
      /\ Known' = Known
      /\ buckets' = [buckets EXCEPT ![c] = [tokens |-> Refilled(c) - Unit, last |-> now]]
      /\ promised' = [promised EXCEPT ![c] = 0]
  BY DEF Allow, Known
<1>2. LimiterTypeOK /\ PromisesKept
  BY DEF LimiterInv
<1>3. Refilled(c) \in 0 .. Burst /\ now \in Nat /\ Unit \in Nat /\ Burst \in Nat
  BY <1>1, <1>2, BucketShape DEF LimiterAssumption
<1>4. [tokens |-> Refilled(c) - Unit, last |-> now] \in [tokens : 0 .. Burst, last : 0 .. now]
  BY <1>1, <1>3
<1>5. LimiterTypeOK'
  BY <1>1, <1>2, <1>4 DEF LimiterTypeOK
<1>6. PromisesKept'
  <2>1. promised'[c] = 0
    BY <1>1, <1>2 DEF LimiterTypeOK
  <2>2. \A d \in Known : d # c => promised'[d] = promised[d] /\ buckets'[d] = buckets[d]
    BY <1>1, <1>2 DEF LimiterTypeOK
  <2> QED
    BY <1>1, <1>2, <2>1, <2>2 DEF PromisesKept
<1> QED
  BY <1>5, <1>6 DEF LimiterInv

LEMMA RefuseKeepsInv ==
    ASSUME LimiterAssumption, LimiterInv, NEW c \in Clients, Refuse(c)
    PROVE  LimiterInv'
<1> DEFINE t == Refilled(c)
<1>1. /\ c \in Known /\ t < Unit /\ now' = now
      /\ Known' = Known
      /\ buckets' = [buckets EXCEPT ![c] = [tokens |-> t, last |-> now]]
      /\ promised' = [promised EXCEPT ![c] = now + RetryAfter(t) * Second]
  BY DEF Refuse, Known
<1>2. LimiterTypeOK /\ PromisesKept
  BY DEF LimiterInv
<1>3. t \in 0 .. Burst /\ now \in Nat /\ Burst \in Nat
  BY <1>1, <1>2, BucketShape DEF LimiterAssumption
<1>4. PICK back \in Nat : /\ back = now + RetryAfter(t) * Second
                          /\ t + (back - now) * Rate >= Unit
  BY <1>1, <1>3, PromiseCovers
<1>5. promised' = [promised EXCEPT ![c] = back]
  BY <1>1, <1>4, Zenon
<1> HIDE DEF t
<1>6. [tokens |-> t, last |-> now] \in [tokens : 0 .. Burst, last : 0 .. now]
  BY <1>3
<1>7. LimiterTypeOK'
  BY <1>1, <1>2, <1>5, <1>6 DEF LimiterTypeOK
<1>8. PromisesKept'
  <2>1. promised'[c] = back /\ buckets'[c] = [tokens |-> t, last |-> now]
    BY <1>1, <1>2, <1>5 DEF LimiterTypeOK
  <2>2. \A d \in Known : d # c => promised'[d] = promised[d] /\ buckets'[d] = buckets[d]
    BY <1>1, <1>2, <1>5 DEF LimiterTypeOK
  <2>3. buckets'[c].tokens + (promised'[c] - buckets'[c].last) * Rate >= Unit
    BY <1>4, <2>1
  <2> QED
    BY <1>1, <1>2, <2>2, <2>3 DEF PromisesKept
<1> QED
  BY <1>7, <1>8 DEF LimiterInv

\* Types and promises are kept by every step.
LEMMA StepKeepsInv ==
    ASSUME LimiterAssumption, LimiterInv, [Next]_vars
    PROVE  LimiterInv'
<1>1. CASE Tick
  <2>1. now < MaxTime /\ now' = now + 1 /\ buckets' = buckets /\ promised' = promised
    BY <1>1 DEF Tick
  <2>2. LimiterTypeOK'
    <3>1. \A d \in Known : buckets[d] \in [tokens : 0 .. Burst, last : 0 .. now']
      BY <2>1, BucketShape DEF LimiterInv, LimiterTypeOK
    <3> QED
      BY <2>1, <3>1 DEF LimiterInv, LimiterTypeOK, Known, LimiterAssumption
  <2> QED
    BY <2>1, <2>2 DEF LimiterInv, PromisesKept, Known
<1>2. CASE \E c \in Clients : AllowNew(c) \/ Allow(c) \/ Refuse(c)
  BY <1>2, AllowNewKeepsInv, AllowKeepsInv, RefuseKeepsInv
<1>3. CASE UNCHANGED vars
  BY <1>3 DEF vars, LimiterInv, LimiterTypeOK, PromisesKept, Known
<1> QED
  BY <1>1, <1>2, <1>3 DEF Next

\* The invariant behind both results holds in every reachable state.
THEOREM LimiterInvariant == Spec => []LimiterInv
<1>1. Init => LimiterInv
  BY LimiterAssumption DEF Init, LimiterInv, LimiterTypeOK, PromisesKept, Known, LimiterAssumption
<1>2. LimiterInv /\ [Next]_vars => LimiterInv'
  BY LimiterAssumption, StepKeepsInv
<1> QED
  BY <1>1, <1>2, PTL DEF Spec

\* The buckets keep their types: no debt, and never more than the burst.
THEOREM LimiterTypeCorrect == Spec => []LimiterTypeOK
<1>1. LimiterInv => LimiterTypeOK
  BY DEF LimiterInv
<1> QED
  BY <1>1, LimiterInvariant, PTL

-----------------------------------------------------------------------------
\* A bucket that is refused holds no promise that has come due.
THEOREM RetryAfterAlwaysHonoured == Spec => RetryAfterHonoured
<1>1. ASSUME LimiterInv, NEW c \in Clients, Refuse(c), promised[c] # 0
      PROVE  now < promised[c]
  <2> DEFINE b == buckets[c]
             p == promised[c]
  <2>1. /\ c \in Known /\ Refilled(c) < Unit /\ Burst >= Unit
        /\ Burst \in Nat /\ Unit \in Nat /\ Rate \in Nat
    BY <1>1, LimiterAssumption DEF Refuse, LimiterAssumption
  <2>2. /\ b.tokens \in Nat /\ b.last \in Nat /\ now \in Nat
        /\ Refilled(c) = Burst \/ Refilled(c) = b.tokens + (now - b.last) * Rate
    BY <1>1, <2>1, LimiterAssumption, BucketShape DEF LimiterInv
  <2>3. p \in Nat
    BY <1>1 DEF LimiterInv, LimiterTypeOK
  <2>4. b.tokens + (p - b.last) * Rate >= Unit
    BY <1>1, <2>1 DEF LimiterInv, PromisesKept
  <2> HIDE DEF b, p
  <2>5. SUFFICES ASSUME p <= now
                 PROVE  FALSE
    BY <2>2, <2>3 DEF p
  <2>6. (p - b.last) * Rate <= (now - b.last) * Rate
    BY <2>1, <2>2, <2>3, <2>5, ProductMonotonic
  <2>7. /\ (p - b.last) * Rate \in Int
        /\ (now - b.last) * Rate \in Int
    BY <2>1, <2>2, <2>3
  <2> QED
    BY <2>1, <2>2, <2>4, <2>6, <2>7
<1>2. LimiterInv /\ [Next]_vars =>
        [\A c \in Clients : Refuse(c) /\ promised[c] # 0 => now < promised[c]]_vars
  BY <1>1
<1> QED
  BY <1>2, LimiterInvariant, PTL DEF Spec, RetryAfterHonoured

-----------------------------------------------------------------------------
\* The credit of a client whose entry has just been written.
LEMMA CreditOfFresh ==
    ASSUME LimiterAssumption, LimiterTypeOK', NEW c \in Known', NEW t \in 0 .. Burst,
           buckets'[c] = [tokens |-> t, last |-> now']
    PROVE  Credit(c)' = t
<1> DEFINE pause == now' - now'
<1>1. now' \in Int /\ Rate \in Int /\ Burst \in Nat /\ t \in Nat /\ t <= Burst
  BY DEF LimiterTypeOK, LimiterAssumption
<1>2. pause = 0
  <2>1. \A n \in Int : n - n = 0
    OBVIOUS
  <2> QED
    BY <1>1, <2>1, Zenon
<1>3. Refilled(c)' = Least(t + pause * Rate, Burst)
  BY DEF Refilled, Least
<1> HIDE DEF pause
<1>4. pause * Rate = 0
  BY <1>1, <1>2
<1>5. Least(t + pause * Rate, Burst) = t
  BY <1>1, <1>4 DEF Least
<1>6. Credit(c)' = Refilled(c)'
  BY DEF Credit
<1> QED
  BY <1>3, <1>5, <1>6

\* An entry that may be forgotten has a full bucket.
LEMMA StaleIsFull ==
    ASSUME LimiterAssumption, LimiterTypeOK, NEW c \in Known, Stale(c)
    PROVE  Refilled(c) = Burst
<1> DEFINE idle == now - buckets[c].last
<1>1. /\ idle \in Nat /\ StaleAfter <= idle /\ StaleAfter \in Nat /\ Rate \in Nat
      /\ buckets[c].tokens \in Nat /\ Burst \in Nat
  BY BucketShape DEF Stale, LimiterAssumption
<1> HIDE DEF idle
<1>2. StaleAfter * Rate <= idle * Rate /\ idle * Rate \in Nat /\ StaleAfter * Rate \in Nat
  BY <1>1, ProductMonotonic, ProductNat
<1>3. buckets[c].tokens + idle * Rate >= Burst
  BY <1>1, <1>2 DEF LimiterAssumption
<1>4. Refilled(c) = Least(buckets[c].tokens + idle * Rate, Burst)
  BY DEF Refilled, idle
<1> QED
  BY <1>1, <1>2, <1>3, <1>4 DEF Least

\* The credit of a client depends on its own entry and the clock.
LEMMA CreditUnchanged ==
    ASSUME NEW c, now' = now, c \in Known <=> c \in Known',
           c \in Known => buckets'[c] = buckets[c]
    PROVE  Credit(c)' = Credit(c)
  BY DEF Credit, Refilled

\* A tick refills every bucket, known or not.
LEMMA TickRefills ==
    ASSUME LimiterAssumption, LimiterTypeOK, Tick
    PROVE  Buckets!Refill
<1>1. ASSUME NEW c \in Clients
      PROVE  Credit(c)' = Least(Credit(c) + Rate, Burst)
  <2> DEFINE idle == now - buckets[c].last
  <2>1. /\ now' = now + 1 /\ buckets' = buckets /\ (c \in Known' <=> c \in Known)
        /\ Rate \in Nat /\ Burst \in Nat
    BY DEF Tick, Known, LimiterAssumption
  <2>2. CASE c \notin Known
    BY <2>1, <2>2 DEF Credit, Least
  <2>3. CASE c \in Known
    <3>1. /\ idle \in Nat /\ buckets[c].tokens \in Nat /\ now' - buckets[c].last = idle + 1
      BY <2>1, <2>3, BucketShape
    <3>2. Refilled(c) = Least(buckets[c].tokens + idle * Rate, Burst)
      BY DEF Refilled
    <3>3. Refilled(c)' = Least(buckets[c].tokens + (idle + 1) * Rate, Burst)
      BY <2>1, <3>1 DEF Refilled, Least
    <3> HIDE DEF idle
    <3>4. idle * Rate \in Nat /\ (idle + 1) * Rate = idle * Rate + Rate
      BY <2>1, <3>1, ProductNat, OneMoreTick
    <3>5. Credit(c) = Refilled(c) /\ Credit(c)' = Refilled(c)'
      BY <2>1, <2>3 DEF Credit
    <3> QED
      BY <2>1, <3>1, <3>2, <3>3, <3>4, <3>5 DEF Least
  <2> QED
    BY <2>2, <2>3
<1> QED
  BY <1>1 DEF Buckets!Refill, Buckets!Least, Least

\* Only the caller's bucket pays.
LEMMA PayOne ==
    ASSUME NEW c \in Clients, Credit(c) >= Unit, Credit(c)' = Credit(c) - Unit,
           \A d \in Clients : d # c => Credit(d)' = Credit(d)
    PROVE  Buckets!Pay(c)
  BY DEF Buckets!Pay

\* A new client, or one that was forgotten, pays from a full bucket; those
\* forgotten on the occasion had a full bucket.
LEMMA AllowNewPays ==
    ASSUME LimiterAssumption, LimiterTypeOK, LimiterTypeOK',
           NEW c \in Clients, AllowNew(c)
    PROVE  Buckets!Pay(c)
<1> DEFINE kept == {d \in Known : ~(Cardinality(Known \union {c}) > MaxClients /\ Stale(d))}
<1>1. /\ Known' = kept \union {c}
      /\ buckets'[c] = [tokens |-> Burst - Unit, last |-> now]
      /\ \A d \in kept : d # c /\ buckets'[d] = buckets[d]
      /\ c \notin Known /\ now' = now
  BY DEF AllowNew, Known
<1>2. \A d \in Known : d \in kept \/ Refilled(d) = Burst
  BY StaleIsFull
<1>3. kept \subseteq Known
  OBVIOUS
<1> HIDE DEF kept
<1>4. Credit(c) = Burst /\ Burst \in Nat /\ Unit \in Nat /\ Burst >= Unit
  BY <1>1 DEF Credit, LimiterAssumption
<1>5. Credit(c)' = Burst - Unit
  <2>1. Burst - Unit \in 0 .. Burst /\ c \in Known'
    BY <1>1, <1>4
  <2> QED
    BY <1>1, <2>1, CreditOfFresh
<1>6. ASSUME NEW d \in Clients, d # c
      PROVE  Credit(d)' = Credit(d)
  <2>1. CASE d \in kept \/ d \notin Known
    BY <1>1, <1>3, <1>6, <2>1, CreditUnchanged
  <2>2. CASE d \in Known /\ d \notin kept
    BY <1>1, <1>2, <1>6, <2>2 DEF Credit
  <2> QED
    BY <2>1, <2>2
<1> QED
  BY <1>4, <1>5, <1>6, PayOne

\* A client that is let through pays from its own bucket.
LEMMA AllowPays ==
    ASSUME LimiterAssumption, LimiterTypeOK, LimiterTypeOK',
           NEW c \in Clients, Allow(c)
    PROVE  Buckets!Pay(c)
<1> DEFINE t == Refilled(c) - Unit
<1>1. /\ c \in Known /\ Refilled(c) >= Unit /\ now' = now /\ Known' = Known
      /\ buckets'[c] = [tokens |-> t, last |-> now]
      /\ \A d \in Known : d # c => buckets'[d] = buckets[d]
  BY DEF Allow, Known
<1>2. Credit(c) = Refilled(c) /\ Refilled(c) \in 0 .. Burst /\ Burst \in Nat /\ Unit \in Nat
  BY <1>1, BucketShape DEF Credit, LimiterAssumption
<1>3. t \in 0 .. Burst
  BY <1>1, <1>2
<1> HIDE DEF t
<1>4. Credit(c)' = t
  BY <1>1, <1>3, CreditOfFresh
<1>5. ASSUME NEW d \in Clients, d # c
      PROVE  Credit(d)' = Credit(d)
  BY <1>1, <1>5, CreditUnchanged
<1> QED
  BY <1>1, <1>2, <1>4, <1>5, PayOne DEF t

\* A refusal costs nothing.
LEMMA RefuseCostsNothing ==
    ASSUME LimiterAssumption, LimiterTypeOK, LimiterTypeOK',
           NEW c \in Clients, Refuse(c)
    PROVE  \A d \in Clients : Credit(d)' = Credit(d)
<1> DEFINE t == Refilled(c)
<1>1. /\ c \in Known /\ now' = now /\ Known' = Known
      /\ buckets'[c] = [tokens |-> t, last |-> now]
      /\ \A d \in Known : d # c => buckets'[d] = buckets[d]
  BY DEF Refuse, Known
<1>2. Credit(c) = t /\ t \in 0 .. Burst /\ Burst \in Nat
  BY <1>1, BucketShape DEF Credit, LimiterAssumption
<1> HIDE DEF t
<1>3. Credit(c)' = t
  BY <1>1, <1>2, CreditOfFresh
<1>4. ASSUME NEW d \in Clients, d # c
      PROVE  Credit(d)' = Credit(d)
  BY <1>1, <1>4, CreditUnchanged
<1> QED
  BY <1>2, <1>3, <1>4

\* The map with its eviction is one token bucket per address.
THEOREM LimiterImplementsTokenBucket == Spec => ImplementsTokenBucket
<1>1. Init => Buckets!BucketInit
  BY DEF Init, Buckets!BucketInit, Credit, Known
<1>2. LimiterTypeOK /\ LimiterTypeOK' /\ [Next]_vars
        => [Buckets!BucketNext]_([c \in Clients |-> Credit(c)])
  <2> SUFFICES ASSUME LimiterTypeOK, LimiterTypeOK', [Next]_vars
               PROVE  [Buckets!BucketNext]_([c \in Clients |-> Credit(c)])
    OBVIOUS
  <2>1. CASE Tick
    BY <2>1, LimiterAssumption, TickRefills DEF Buckets!BucketNext
  <2>2. ASSUME NEW c \in Clients, AllowNew(c) \/ Allow(c)
        PROVE  Buckets!BucketNext
    BY <2>2, LimiterAssumption, AllowNewPays, AllowPays DEF Buckets!BucketNext
  <2>3. ASSUME NEW c \in Clients, Refuse(c)
        PROVE  UNCHANGED [d \in Clients |-> Credit(d)]
    BY <2>3, LimiterAssumption, RefuseCostsNothing
  <2>4. CASE UNCHANGED vars
    BY <2>4 DEF vars, Credit, Refilled, Known
  <2> QED
    BY <2>1, <2>2, <2>3, <2>4 DEF Next
<1> QED
  BY <1>1, <1>2, LimiterTypeCorrect, PTL
     DEF Spec, ImplementsTokenBucket, Buckets!BucketSpec
=============================================================================
