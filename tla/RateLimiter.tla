---------------------------- MODULE RateLimiter ----------------------------
(***************************************************************************)
(* IPRateLimiter of internal/app/ratelimit.go: token buckets in a map that *)
(* is thinned out when it grows.  Allow runs under the limiter's mutex, so *)
(* a call is one step.                                                     *)
(*                                                                         *)
(* A token has Unit parts, so that the refill of a tick is the integer     *)
(* Rate (floating-point rounding is abstracted).  A limiter switched off   *)
(* by a rate of zero is not modelled: it lets everything through.          *)
(***************************************************************************)
EXTENDS Integers, FiniteSets

CONSTANTS Clients,     \* client addresses
          Rate,        \* parts of a token added in a tick
          Unit,        \* parts of a token
          Burst,       \* capacity of a bucket, in parts
          Second,      \* ticks in a second
          MaxClients,  \* map size above which stale entries go, 2000
          StaleAfter,  \* idle time that makes an entry stale, 10 minutes
          MaxTime      \* the clock stops here (bound)

\* The burst is refilled within the time after which an entry is stale:
\* app.go:89-92 asks for at most a minute's requests, ratelimit.go:28-33 for
\* five at the least, and ten minutes pass.
ASSUME LimiterAssumption ==
    /\ Rate \in Nat \ {0} /\ Unit \in Nat \ {0} /\ Second \in Nat \ {0}
    /\ Burst \in Nat /\ Burst >= Unit
    /\ MaxClients \in Nat /\ StaleAfter \in Nat /\ MaxTime \in Nat
    /\ StaleAfter * Rate >= Burst

VARIABLES now,
          buckets,   \* client in the map |-> [tokens, last]
          promised   \* history: client |-> time it was told to come back, or 0

vars == <<now, buckets, promised>>

Known == DOMAIN buckets
Least(a, b) == IF a <= b THEN a ELSE b
Greatest(a, b) == IF a >= b THEN a ELSE b

Init ==
    /\ now = 0
    /\ buckets = [c \in {} |-> 0]
    /\ promised = [c \in Clients |-> 0]

Tick == now < MaxTime /\ now' = now + 1 /\ UNCHANGED <<buckets, promised>>

-----------------------------------------------------------------------------
\* Mutant: an entry is stale as soon as its client has paused.
StaleSoon(c) == now > buckets[c].last

Stale(c) == now - buckets[c].last > StaleAfter

\* A client not in the map: a full bucket less one, and stale entries go if
\* the map has grown too large.
AllowNew(c) ==
    LET crowded == Cardinality(Known \union {c}) > MaxClients
        kept    == {d \in Known : ~(crowded /\ Stale(d))}
    IN  /\ c \notin Known
        /\ buckets' = [d \in kept \union {c} |->
                IF d = c THEN [tokens |-> Burst - Unit, last |-> now] ELSE buckets[d]]
        /\ promised' = [promised EXCEPT ![c] = 0]
        /\ UNCHANGED now

\* Mutant: the refill is not capped.
RefilledUncapped(c) == buckets[c].tokens + (now - buckets[c].last) * Rate

Refilled(c) == Least(buckets[c].tokens + (now - buckets[c].last) * Rate, Burst)

Allow(c) ==
    /\ c \in Known
    /\ Refilled(c) >= Unit
    /\ buckets' = [buckets EXCEPT ![c] = [tokens |-> Refilled(c) - Unit, last |-> now]]
    /\ promised' = [promised EXCEPT ![c] = 0]
    /\ UNCHANGED now

\* Whole seconds until a token is there, at least one.
CeilDiv(a, b) == (a + b - 1) \div b

RetryAfter(tokens) == Greatest(CeilDiv(Unit - tokens, Rate * Second), 1)

\* Mutant: a refused request takes the refill with it.
RefuseLosesRefill(c) ==
    /\ c \in Known
    /\ Refilled(c) < Unit
    /\ buckets' = [buckets EXCEPT ![c].last = now]
    /\ promised' = [promised EXCEPT ![c] = now + RetryAfter(Refilled(c)) * Second]
    /\ UNCHANGED now

Refuse(c) ==
    /\ c \in Known
    /\ Refilled(c) < Unit
    /\ buckets' = [buckets EXCEPT ![c] = [tokens |-> Refilled(c), last |-> now]]
    /\ promised' = [promised EXCEPT ![c] = now + RetryAfter(Refilled(c)) * Second]
    /\ UNCHANGED now

Next == Tick \/ \E c \in Clients : AllowNew(c) \/ Allow(c) \/ Refuse(c)

Spec == Init /\ [][Next]_vars

-----------------------------------------------------------------------------
\* Buckets keep their type: at rest they hold neither debt nor more than Burst.
LimiterTypeOK ==
    /\ now \in 0 .. MaxTime
    /\ Known \subseteq Clients
    /\ buckets \in [Known -> [tokens : 0 .. Burst, last : 0 .. now]]
    /\ promised \in [Clients -> Nat]

(***************************************************************************)
(* A client that comes back when Retry-After told it to is let through,    *)
(* even if it had come too early again and again in between.               *)
(***************************************************************************)
RetryAfterHonoured ==
    [][\A c \in Clients : Refuse(c) /\ promised[c] # 0 => now < promised[c]]_vars

(***************************************************************************)
(* The map is an implementation of one bucket per address: forgetting an   *)
(* entry and meeting its client anew gives nobody a token it did not have. *)
(***************************************************************************)
Credit(c) == IF c \in Known THEN Refilled(c) ELSE Burst

Buckets == INSTANCE TokenBucket WITH credit <- [c \in Clients |-> Credit(c)]

ImplementsTokenBucket == Buckets!BucketSpec
=============================================================================
