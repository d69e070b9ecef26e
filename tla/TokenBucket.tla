---------------------------- MODULE TokenBucket ----------------------------
(***************************************************************************)
(* What rate limiting promises: every client address has a bucket of its   *)
(* own that fills steadily up to Burst and pays Unit for each request that *)
(* is let through.  A request is let through only when the bucket can pay, *)
(* whatever the other clients do; a refused one leaves it as it is.        *)
(***************************************************************************)
EXTENDS Integers

CONSTANTS Clients, Rate, Unit, Burst

VARIABLE credit   \* client |-> what is in its bucket

Least(a, b) == IF a <= b THEN a ELSE b

BucketInit == credit = [c \in Clients |-> Burst]

Refill == credit' = [c \in Clients |-> Least(credit[c] + Rate, Burst)]

Pay(c) ==
    /\ credit[c] >= Unit
    /\ credit' = [credit EXCEPT ![c] = @ - Unit]

BucketNext == Refill \/ \E c \in Clients : Pay(c)

BucketSpec == BucketInit /\ [][BucketNext]_credit
=============================================================================
