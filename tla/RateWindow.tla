----------------------------- MODULE RateWindow -----------------------------
(***************************************************************************)
(* RateLimiter under observation: how many connections pass in a window of *)
(* time.  The observer opens a window at any moment between two calls of   *)
(* Allow and counts until it closes it; it changes nothing the limiter     *)
(* does.                                                                   *)
(***************************************************************************)
EXTENDS RateLimiter

CONSTANT Horizon        \* a window is watched for this many ticks

ASSUME HorizonAssumption == Horizon \in Nat

VARIABLES
    elapsed,        \* ticks since the window was opened; more than Horizon: none is
    passed,         \* connections that passed, per IP
    passedAll,      \* connections that passed
    used            \* global reservations made and not taken back

watch == <<elapsed, passed, passedAll, used>>
wvars == <<vars, watch>>

WInit ==
    /\ Init
    /\ elapsed = 0 /\ passed = [ip \in IPs |-> 0] /\ passedAll = 0 /\ used = 0

OpenWindow ==
    /\ apc = "idle"
    /\ elapsed' = 0 /\ passed' = [ip \in IPs |-> 0] /\ passedAll' = 0 /\ used' = 0
    /\ UNCHANGED vars

Watching == elapsed <= Horizon

CloseWindow ==
    /\ elapsed = Horizon
    /\ elapsed' = Horizon + 1 /\ passed' = [ip \in IPs |-> 0] /\ passedAll' = 0 /\ used' = 0
    /\ UNCHANGED vars

WTick ==
    /\ elapsed < Horizon
    /\ Tick
    /\ elapsed' = elapsed + 1
    /\ UNCHANGED <<passed, passedAll, used>>

WAllowGlobal ==
    /\ \E ip \in IPs : AllowGlobal(ip)
    /\ used' = used + 1
    /\ passedAll' = IF HasPerIP THEN passedAll ELSE passedAll + 1
    /\ UNCHANGED <<elapsed, passed>>

WGrantPerIP ==
    /\ GrantPerIP
    /\ passed' = [passed EXCEPT ![aip] = @ + 1]
    /\ passedAll' = passedAll + 1
    /\ UNCHANGED <<elapsed, used>>

WCancelInTime ==
    /\ CancelInTime
    /\ used' = used - 1
    /\ UNCHANGED <<elapsed, passed, passedAll>>

Unobserved ==
    /\ RefuseGlobal \/ LockAndLoad \/ RefusePerIP \/ CancelLate \/ CleanStart \/ CleanStep
    /\ UNCHANGED watch

WNext ==
    \/ OpenWindow \/ CloseWindow
    \/ Watching /\ (WTick \/ WAllowGlobal \/ WGrantPerIP \/ WCancelInTime \/ Unobserved)
    \/ ~Watching /\ Next /\ UNCHANGED watch

WSpec == WInit /\ [][WNext]_wvars

WFairSpec == WSpec /\ Fairness

-----------------------------------------------------------------------------
\* In no window, wherever it starts and whatever the cleaner does meanwhile,
\* do more connections of one IP pass than burst + time/every: passed times
\* the cost of a token is within a full bucket plus what was refilled.
PerIPRateHolds ==
    \A ip \in IPs : \A l \in PLimiters :
        Watching => passed[ip] * Every[l] <= Cap(l) + elapsed

\* The same for all connections together and the global limits.
GlobalRateHolds ==
    \A l \in GLimiters : Watching => passedAll * Every[l] <= Cap(l) + elapsed

\* rate_test.go, after an Allow that passed and one the per-IP limit refused:
\* "global: 1|1" - a refused connection leaves nothing used of the global
\* limits, that is what Allow cancels the reservation for.
RefusedUsesNothing == apc = "idle" /\ Watching => used = passedAll
=============================================================================
