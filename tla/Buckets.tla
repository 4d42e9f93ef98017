------------------------------ MODULE Buckets -------------------------------
(***************************************************************************)
(* Token buckets as rate.go uses them (golang.org/x/time/rate).            *)
(*                                                                         *)
(* A limiter configured as `limit` per `interval` has burst limit and gets *)
(* one token every interval/limit.  A level is kept in units of refill     *)
(* time: a token of limiter l is worth Every[l] units, one clock tick adds *)
(* one unit, and a bucket never holds more than Burst[l] tokens.  The      *)
(* library refills lazily, when a bucket is looked at; because the refill  *)
(* is linear up to the cap, refilling at every tick gives the same levels. *)
(***************************************************************************)
EXTENDS Integers

CONSTANTS
    GLimiters,      \* the global limiters of the configuration
    PLimiters,      \* the per-IP ones; each IP has its own copy of them
    Burst, Every    \* per limiter, both positive (AppConfig.Validate)

Limiters == GLimiters \cup PLimiters

ASSUME BucketsAssumption ==
    /\ Burst \in [Limiters -> Nat \ {0}]
    /\ Every \in [Limiters -> Nat \ {0}]

Cap(l) == Burst[l] * Every[l]

Levels(L) == [L -> Nat]

\* NewRateLimiter: one full bucket per configured limit.
NewRateLimiter(L) == [l \in L |-> Cap(l)]

\* RateLimiter.AllowN(1): every bucket is asked at the same instant `now`,
\* and a refusal of one cancels, at that same instant, what the others gave.
AllowOK(level) == \A l \in DOMAIN level : level[l] >= Every[l]

\* Mutant: a token costs one unit, however slowly the limiter refills.
ChargeOneUnit(level) == [l \in DOMAIN level |-> level[l] - 1]

Charge(level) == [l \in DOMAIN level |-> level[l] - Every[l]]

\* Mutant: a reservation is given back twice.
RestoreTwice(level) ==
    [l \in DOMAIN level |->
        IF level[l] + 2 * Every[l] > Cap(l) THEN Cap(l) ELSE level[l] + 2 * Every[l]]

\* Reservation.CancelAt when the library takes the reservation back
Restore(level) ==
    [l \in DOMAIN level |->
        IF level[l] + Every[l] > Cap(l) THEN Cap(l) ELSE level[l] + Every[l]]

\* one unit of time
Refill(level) ==
    [l \in DOMAIN level |-> IF level[l] < Cap(l) THEN level[l] + 1 ELSE level[l]]

\* Mutant: one unit short of the burst counts as full.
IsFullAlmost(level) == \A l \in DOMAIN level : level[l] + 1 >= Cap(l)

IsFull(level) == \A l \in DOMAIN level : level[l] >= Cap(l)
=============================================================================
