------------------------- MODULE RateLimiterProofs --------------------------
(***************************************************************************)
(* TLAPS proofs about RateLimiter and RateWindow, for every set of         *)
(* limiters, IPs and bursts.                                               *)
(***************************************************************************)
EXTENDS RateWindow, TLAPS

-----------------------------------------------------------------------------
(* Buckets                                                                 *)

Bounded(L, level) ==
    /\ level \in Levels(L)
    /\ \A l \in L : level[l] <= Cap(l)

LEMMA CapType ==
    ASSUME NEW l \in Limiters
    PROVE  Cap(l) \in Nat /\ Every[l] \in Nat /\ Every[l] > 0 /\ Every[l] <= Cap(l)
<1>1. Burst[l] \in Nat /\ Burst[l] >= 1 /\ Every[l] \in Nat /\ Every[l] >= 1
  BY BucketsAssumption
<1>2. Burst[l] * Every[l] = Every[l] + (Burst[l] - 1) * Every[l]
  BY <1>1
<1>3. Burst[l] * Every[l] \in Nat /\ (Burst[l] - 1) * Every[l] >= 0
  BY <1>1
<1> QED BY <1>1, <1>2, <1>3 DEF Cap

LEMMA NewBounded ==
    ASSUME NEW L \in SUBSET Limiters
    PROVE  Bounded(L, NewRateLimiter(L))
BY CapType DEF Bounded, Levels, NewRateLimiter

LEMMA ChargeBounded ==
    ASSUME NEW L \in SUBSET Limiters, NEW level, Bounded(L, level), AllowOK(level)
    PROVE  Bounded(L, Charge(level)) /\ \A l \in L : Charge(level)[l] = level[l] - Every[l]
BY CapType DEF Bounded, Levels, Charge, AllowOK

LEMMA RestoreBounded ==
    ASSUME NEW L \in SUBSET Limiters, NEW level, Bounded(L, level)
    PROVE  Bounded(L, Restore(level)) /\ \A l \in L : Restore(level)[l] <= level[l] + Every[l]
BY CapType DEF Bounded, Levels, Restore

LEMMA RefillBounded ==
    ASSUME NEW L \in SUBSET Limiters, NEW level, Bounded(L, level)
    PROVE  Bounded(L, Refill(level)) /\ \A l \in L : Refill(level)[l] <= level[l] + 1
BY CapType DEF Bounded, Levels, Refill

LEMMA FullIsNew ==
    ASSUME NEW L \in SUBSET Limiters, NEW level, Bounded(L, level), IsFull(level)
    PROVE  level = NewRateLimiter(L) /\ Refill(level) = level
BY CapType DEF Bounded, Levels, IsFull, NewRateLimiter, Refill

LEMMA NewIsFull ==
    ASSUME NEW L \in SUBSET Limiters
    PROVE  IsFull(NewRateLimiter(L)) /\ Refill(NewRateLimiter(L)) = NewRateLimiter(L)
BY CapType DEF IsFull, NewRateLimiter, Refill

-----------------------------------------------------------------------------
(* The inductive invariant: TypeOK in three parts, NoDetachedBucket, and   *)
(* that a call under way has an IP and a key is visited once.              *)

BucketsOK ==
    /\ Bounded(GLimiters, globalRl)
    /\ DOMAIN peripRls \subseteq IPs
    /\ peripRls = [ip \in DOMAIN peripRls |-> peripRls[ip]]
    /\ \A ip \in DOMAIN peripRls : Bounded(PLimiters, peripRls[ip])

ControlOK ==
    /\ peripMu \in {"free", "allow", "clean"}
    /\ apc \in {"idle", "locking", "charging", "cancelling"}
    /\ aip \in IPs \cup {NoIP} /\ aged \in BOOLEAN
    /\ answer \in {"none", "yes", "no"}
    /\ cpc \in {"waiting", "ranging", "deleting"}
    /\ todo \subseteq IPs /\ victim \in IPs \cup {NoIP}
    /\ apc = "idle" <=> aip = NoIP
    /\ cpc = "deleting" => victim \notin todo

TickerOK ==
    /\ cleaned \in Nat /\ kept \in Nat
    /\ currDuration \in 1 .. MaxDuration
    /\ clearCount \in 0 .. BackoffAfter

Inv == BucketsOK /\ ControlOK /\ TickerOK /\ NoDetachedBucket

LEMMA LimiterSubsets == GLimiters \in SUBSET Limiters /\ PLimiters \in SUBSET Limiters
BY DEF Limiters

LEMMA BucketsStep == ASSUME Inv, Next PROVE BucketsOK'
<1> USE LimiterSubsets
<1>1. CASE Tick
  BY <1>1, RefillBounded DEF Inv, BucketsOK, Tick
<1>2. CASE \E ip \in IPs : AllowGlobal(ip)
  BY <1>2, ChargeBounded DEF Inv, BucketsOK, AllowGlobal
<1>3. CASE LockAndLoad
  BY <1>3, NewBounded DEF Inv, BucketsOK, ControlOK, LockAndLoad, LoadOrStore
<1>4. CASE GrantPerIP
  BY <1>4, ChargeBounded DEF Inv, BucketsOK, NoDetachedBucket, GrantPerIP, HeldBucket
<1>5. CASE CancelInTime
  BY <1>5, RestoreBounded DEF Inv, BucketsOK, CancelInTime
<1>6. CASE CleanDelete
  BY <1>6 DEF Inv, BucketsOK, CleanDelete
<1>7. CASE UNCHANGED <<globalRl, peripRls>>
  BY <1>7 DEF Inv, BucketsOK
<1>8. CASE RefuseGlobal \/ RefusePerIP \/ CancelLate \/ CleanStart
             \/ (\E ip \in IPs : CleanCheck(ip)) \/ CleanEnd
  BY <1>7, <1>8 DEF RefuseGlobal, RefusePerIP, CancelLate, CleanStart, CleanCheck, CleanEnd
<1> QED BY <1>1, <1>2, <1>3, <1>4, <1>5, <1>6, <1>8 DEF Next, Allow, CleanStep

LEMMA ControlStep == ASSUME Inv, Next PROVE ControlOK'
<1> USE IPsAssumption DEF Inv, ControlOK
<1>1. CASE Tick
  BY <1>1 DEF Tick, cleanVars, tickerVars
<1>2. CASE RefuseGlobal \/ GrantPerIP \/ CancelInTime \/ CancelLate
  BY <1>2 DEF RefuseGlobal, GrantPerIP, CancelInTime, CancelLate,
              Answer, cleanVars
<1>3. CASE LockAndLoad \/ RefusePerIP \/ \E ip \in IPs : AllowGlobal(ip)
  BY <1>3 DEF LockAndLoad, RefusePerIP, AllowGlobal, Answer, cleanVars
<1>4. CASE CleanStart \/ (\E ip \in IPs : CleanCheck(ip)) \/ CleanDelete \/ CleanEnd
  BY <1>4 DEF CleanStart, CleanCheck, CleanDelete, CleanEnd, allowVars, BucketsOK
<1> QED BY <1>1, <1>2, <1>3, <1>4 DEF Next, Allow, CleanStep

LEMMA TickerStep == ASSUME Inv, Next PROVE TickerOK'
<1> USE DEF Inv, TickerOK
<1>1. CASE Tick \/ Allow \/ CleanStart
  BY <1>1 DEF Tick, Allow, RefuseGlobal, AllowGlobal, LockAndLoad,
              GrantPerIP, RefusePerIP, CancelInTime, CancelLate, CleanStart,
              cleanVars, tickerVars
<1>2. CASE (\E ip \in IPs : CleanCheck(ip)) \/ CleanDelete
  BY <1>2 DEF CleanCheck, CleanDelete, tickerVars
<1>3. CASE CleanEnd
  <2>1. NextClearCount \in 0 .. BackoffAfter
    BY DEF NextClearCount, BackoffAfter
  <2>2. NextDuration \in 1 .. MaxDuration
    BY DEF NextDuration, MaxDuration
  <2> QED BY <1>3, <2>1, <2>2 DEF CleanEnd
<1> QED BY <1>1, <1>2, <1>3 DEF Next, CleanStep

LEMMA DetachedStep == ASSUME Inv, Next PROVE NoDetachedBucket'
<1> USE DEF Inv, NoDetachedBucket
<1>1. CASE Tick
  <2>1. cpc = "deleting" => peripRls'[victim] = peripRls[victim]
    BY <1>1, FullIsNew, LimiterSubsets DEF Tick, BucketsOK
  <2> QED BY <1>1, <2>1 DEF Tick, cleanVars
<1>2. CASE RefuseGlobal \/ CancelInTime \/ CancelLate
             \/ \E ip \in IPs : AllowGlobal(ip)
  BY <1>2 DEF RefuseGlobal, CancelInTime, CancelLate, AllowGlobal,
              Answer, cleanVars
<1>3. CASE LockAndLoad
  BY <1>3 DEF LockAndLoad, LoadOrStore, cleanVars, ControlOK
<1>4. CASE GrantPerIP \/ RefusePerIP
  BY <1>4 DEF GrantPerIP, RefusePerIP, Answer, cleanVars, ControlOK
<1>5. CASE CleanStart
  BY <1>5 DEF CleanStart, allowVars
<1>6. CASE \E ip \in IPs : CleanCheck(ip)
  BY <1>6 DEF CleanCheck, allowVars
<1>7. CASE CleanDelete
  BY <1>7 DEF CleanDelete, allowVars, ControlOK
<1>8. CASE CleanEnd
  BY <1>8 DEF CleanEnd, allowVars
<1> QED BY <1>1, <1>2, <1>3, <1>4, <1>5, <1>6, <1>7, <1>8 DEF Next, Allow, CleanStep

LEMMA InvInit == Init => Inv
<1> SUFFICES ASSUME Init PROVE Inv
  OBVIOUS
<1>1. BucketsOK
  BY NewBounded, LimiterSubsets DEF Init, BucketsOK
<1>2. ControlOK /\ NoDetachedBucket
  BY IPsAssumption DEF Init, ControlOK, NoDetachedBucket
<1>3. TickerOK
  BY DEF Init, TickerOK, MaxDuration, BackoffAfter
<1> QED BY <1>1, <1>2, <1>3 DEF Inv

LEMMA InvStep == Inv /\ [Next]_vars => Inv'
<1>1. CASE Next
  BY <1>1, BucketsStep, ControlStep, TickerStep, DetachedStep DEF Inv
<1>2. CASE UNCHANGED vars
  BY <1>2 DEF Inv, BucketsOK, ControlOK, TickerOK, NoDetachedBucket, vars,
              allowVars, cleanVars, tickerVars
<1> QED BY <1>1, <1>2

LEMMA InvAlways == Spec => []Inv
<1> QED BY InvInit, InvStep, PTL DEF Spec

\* No interleaving of Allow, CleanEmpty and the clock leaves a bucket outside
\* [0, burst], and the cleaner's ticker stays between 5 minutes and one hour.
THEOREM RateTypeCorrect == Spec => []TypeOK
<1>1. Inv => TypeOK
  BY DEF Inv, BucketsOK, ControlOK, TickerOK, TypeOK, Bounded
<1> QED BY <1>1, InvAlways, PTL

\* peripMu makes AllowPerIP and CleanEmpty exclusive: spent tokens are never
\* deleted with an entry, and never spent in a bucket outside the map.
THEOREM NoDetachedBucketCorrect == Spec => []NoDetachedBucket
<1>1. Inv => NoDetachedBucket
  BY DEF Inv
<1> QED BY <1>1, InvAlways, PTL

-----------------------------------------------------------------------------
(* RateLimiter implements PermanentBuckets.                                *)

LEMMA SameOperators ==
    /\ \A L : Abstract!NewRateLimiter(L) = NewRateLimiter(L)
    /\ \A level : /\ Abstract!AllowOK(level) <=> AllowOK(level)
                  /\ Abstract!Charge(level) = Charge(level)
                  /\ Abstract!Restore(level) = Restore(level)
                  /\ Abstract!Refill(level) = Refill(level)
BY DEF Abstract!NewRateLimiter, Abstract!AllowOK, Abstract!Charge, Abstract!Restore,
       Abstract!Refill, Abstract!Cap, NewRateLimiter, AllowOK, Charge, Restore, Refill, Cap

LEMMA SamePlevel ==
    ASSUME \A ip \in IPs : BucketOf(ip)' = BucketOf(ip)
    PROVE  plevel' = plevel
BY DEF plevel

LEMMA PhaseIs ==
    /\ apc = "idle" => phase = "idle"
    /\ apc \in {"locking", "charging"} => phase = "asking"
    /\ apc = "cancelling" => phase = "denied"
    /\ apc' = "idle" => phase' = "idle"
    /\ apc' \in {"locking", "charging"} => phase' = "asking"
    /\ apc' = "cancelling" => phase' = "denied"
    /\ apc' = apc => phase' = phase
BY DEF phase

LEMMA AbstractStep == Inv /\ [Next]_vars => [Abstract!Next]_Abstract!vars
<1> SUFFICES ASSUME Inv, Next PROVE [Abstract!Next]_Abstract!vars
  <2>1. ASSUME UNCHANGED vars PROVE UNCHANGED Abstract!vars
    BY <2>1 DEF vars, allowVars, Abstract!vars, plevel, phase, BucketOf
  <2> QED BY <2>1
<1> USE LimiterSubsets, PhaseIs, SameOperators
<1>1. CASE Tick
  <2>1. \A ip \in IPs : BucketOf(ip)' = Refill(BucketOf(ip))
    BY <1>1, NewIsFull DEF Tick, BucketOf
  <2>2. Abstract!Tick
    BY <1>1, <2>1 DEF Tick, Abstract!Tick, plevel
  <2> QED BY <2>2 DEF Abstract!Next
<1>2. CASE RefuseGlobal
  <2>1. Abstract!Refuse
    BY <1>2 DEF RefuseGlobal, Answer, Abstract!Refuse, plevel, BucketOf, Inv, ControlOK
  <2> QED BY <2>1 DEF Abstract!Next
<1>4. ASSUME NEW ip \in IPs, AllowGlobal(ip) PROVE Abstract!Next
  <2>1. CASE HasPerIP
    <3>1. Abstract!Ask(ip)
      BY <1>4, <2>1 DEF AllowGlobal, Abstract!Ask, plevel, BucketOf, HasPerIP
    <3> QED BY <3>1 DEF Abstract!Next
  <2>2. CASE ~HasPerIP
    <3>1. Abstract!GrantGlobalOnly
      BY <1>4, <2>2 DEF AllowGlobal, Answer, Abstract!GrantGlobalOnly, plevel, BucketOf,
                        Inv, ControlOK, HasPerIP
    <3> QED BY <3>1 DEF Abstract!Next
  <2> QED BY <2>1, <2>2
<1>5. CASE LockAndLoad
  <2>1. \A ip \in IPs : BucketOf(ip)' = BucketOf(ip)
    BY <1>5 DEF LockAndLoad, LoadOrStore, BucketOf
  <2>2. UNCHANGED Abstract!vars
    BY <1>5, <2>1, SamePlevel DEF LockAndLoad, Abstract!vars
  <2> QED BY <2>2
<1>6. CASE GrantPerIP
  <2>1. aip \in IPs /\ HeldBucket = BucketOf(aip)
    BY <1>6, IPsAssumption DEF Inv, ControlOK, GrantPerIP, HeldBucket, BucketOf
  <2>2. \A ip \in IPs : BucketOf(ip)' = IF ip = aip THEN Charge(BucketOf(ip)) ELSE BucketOf(ip)
    BY <1>6 DEF GrantPerIP, BucketOf, Inv, NoDetachedBucket
  <2>3. Abstract!Grant
    BY <1>6, <2>1, <2>2 DEF GrantPerIP, Answer, Abstract!Grant, plevel
  <2> QED BY <2>3 DEF Abstract!Next
<1>7. CASE RefusePerIP
  <2>1. aip \in IPs /\ HeldBucket = BucketOf(aip)
    BY <1>7, IPsAssumption DEF Inv, ControlOK, RefusePerIP, HeldBucket, BucketOf
  <2>2. Abstract!Deny
    BY <1>7, <2>1 DEF RefusePerIP, Abstract!Deny, plevel, BucketOf
  <2> QED BY <2>2 DEF Abstract!Next
<1>8. CASE CancelInTime \/ CancelLate
  <2>1. Abstract!Undo
    BY <1>8 DEF CancelInTime, CancelLate, Answer, Abstract!Undo, plevel, BucketOf
  <2> QED BY <2>1 DEF Abstract!Next
<1>9. CASE CleanDelete
  \* the deleted bucket is full, which is what a missing one stands for
  <2>1. \A ip \in IPs : BucketOf(ip)' = BucketOf(ip)
    BY <1>9, FullIsNew DEF CleanDelete, BucketOf, Inv, NoDetachedBucket, BucketsOK
  <2>2. UNCHANGED Abstract!vars
    BY <1>9, <2>1, SamePlevel DEF CleanDelete, allowVars, Abstract!vars
  <2> QED BY <2>2
<1>10. CASE CleanStart \/ (\E ip \in IPs : CleanCheck(ip)) \/ CleanEnd
  BY <1>10 DEF CleanStart, CleanCheck, CleanEnd, allowVars, Abstract!vars, plevel, BucketOf
<1> QED BY <1>1, <1>2, <1>4, <1>5, <1>6, <1>7, <1>8, <1>9, <1>10
        DEF Next, Allow, CleanStep

LEMMA AbstractInit == Init => Abstract!Init
BY PhaseIs, SameOperators DEF Init, Abstract!Init, plevel, BucketOf

\* Creating buckets on demand and deleting full ones behind the accept loop's
\* back is invisible: SSHRateLimiter answers like permanent buckets would.
THEOREM Refinement == Spec => RefinesPermanentBuckets
<1> QED BY InvAlways, AbstractInit, AbstractStep, PTL
        DEF Spec, RefinesPermanentBuckets, Abstract!Spec

-----------------------------------------------------------------------------
(* The rates hold in every window: what a bucket holds plus what it has    *)
(* paid for never exceeds a full bucket plus the time that has passed.     *)

WatchOK ==
    /\ elapsed \in Nat /\ passed \in [IPs -> Nat] /\ passedAll \in Nat

PerIPPotential ==
    \A ip \in IPs : \A l \in PLimiters : Watching =>
        BucketOf(ip)[l] + passed[ip] * Every[l] <= Cap(l) + elapsed

\* a reservation made and neither answered nor cancelled yet
inFlight == IF apc = "idle" THEN 0 ELSE 1

GlobalPotential ==
    \A l \in GLimiters : Watching =>
        globalRl[l] + (passedAll + inFlight) * Every[l] <= Cap(l) + elapsed

WInv == Inv /\ WatchOK /\ PerIPPotential /\ GlobalPotential

LEMMA OneMore ==
    ASSUME NEW n \in Int, NEW e \in Int
    PROVE  (n + 1) * e = n * e + e /\ n * e \in Int
OBVIOUS

LEMMA WNextIsNext == WNext => [Next]_vars
BY DEF WNext, OpenWindow, CloseWindow, WTick, WAllowGlobal, WGrantPerIP,
       WCancelInTime, Unobserved, Next, Allow

\* A window that is open after a step was opened by it, or was open before.
LEMMA StillOpen ==
    ASSUME WNext, Watching'
    PROVE  \/ OpenWindow
           \/ /\ Watching
              /\ WTick \/ WAllowGlobal \/ WGrantPerIP \/ WCancelInTime \/ Unobserved
BY HorizonAssumption DEF WNext, Watching, CloseWindow, watch

LEMMA BucketOfBounded ==
    ASSUME Inv, NEW ip \in IPs PROVE Bounded(PLimiters, BucketOf(ip))
BY NewBounded, LimiterSubsets DEF Inv, BucketsOK, BucketOf

LEMMA WatchStep == ASSUME WInv, WNext PROVE WatchOK'
<1>1. CASE OpenWindow \/ CloseWindow
  BY <1>1, HorizonAssumption DEF OpenWindow, CloseWindow, WatchOK
<1>2. CASE WTick \/ WAllowGlobal
  BY <1>2 DEF WInv, WatchOK, WTick, WAllowGlobal
<1>3. CASE WGrantPerIP
  <2>1. aip \in IPs
    BY <1>3, IPsAssumption DEF WInv, Inv, ControlOK, WGrantPerIP, GrantPerIP
  <2>2. passed[aip] + 1 \in Nat /\ passedAll + 1 \in Nat
    BY <2>1 DEF WInv, WatchOK
  <2> QED BY <1>3, <2>1, <2>2 DEF WInv, WatchOK, WGrantPerIP
<1>4. CASE WCancelInTime \/ Unobserved
  BY <1>4 DEF WInv, WatchOK, WCancelInTime, Unobserved, watch
<1>5. CASE UNCHANGED watch
  BY <1>5 DEF WInv, WatchOK, watch
<1> QED BY <1>1, <1>2, <1>3, <1>4, <1>5 DEF WNext

LEMMA GlobalPotentialStep == ASSUME WInv, WNext PROVE GlobalPotential'
<1> SUFFICES ASSUME NEW l \in GLimiters, Watching'
             PROVE  globalRl'[l] + (passedAll' + inFlight') * Every[l] <= Cap(l) + elapsed'
  BY DEF GlobalPotential
<1> DEFINE n == passedAll + inFlight
<1>1. /\ Watching => globalRl[l] + n * Every[l] <= Cap(l) + elapsed
      /\ globalRl[l] \in Nat /\ globalRl[l] <= Cap(l)
      /\ elapsed \in Nat /\ passedAll \in Nat /\ inFlight \in {0, 1} /\ n \in Nat
  BY DEF WInv, WatchOK, GlobalPotential, inFlight, Inv, BucketsOK, Bounded, Levels
<1>2. Every[l] \in Nat /\ Cap(l) \in Nat
  BY CapType, LimiterSubsets
<1>3. n * Every[l] \in Int /\ (n + 1) * Every[l] = n * Every[l] + Every[l]
      /\ 0 * Every[l] = 0
  BY <1>1, <1>2, OneMore
<1>4. CASE OpenWindow
  <2>1. passedAll' + inFlight' = 0 /\ elapsed' = 0 /\ globalRl' = globalRl
    BY <1>4 DEF OpenWindow, inFlight, vars, allowVars
  <2> QED BY <1>1, <1>2, <1>3, <2>1
<1>5. CASE Watching /\ WTick
  <2>1. passedAll' + inFlight' = n /\ elapsed' = elapsed + 1
    BY <1>5 DEF WTick, Tick, inFlight
  <2>2. globalRl'[l] <= globalRl[l] + 1 /\ globalRl'[l] \in Nat
    BY <1>5, RefillBounded, LimiterSubsets DEF WTick, Tick, WInv, Inv, BucketsOK, Bounded, Levels
  <2> QED BY <1>1, <1>5, <1>2, <1>3, <2>1, <2>2
<1>6. CASE Watching /\ WAllowGlobal
  <2>1. passedAll' + inFlight' = n + 1 /\ elapsed' = elapsed
    BY <1>1, <1>6 DEF WAllowGlobal, AllowGlobal, Answer, inFlight
  <2>2. globalRl'[l] = globalRl[l] - Every[l]
    BY <1>6, ChargeBounded, LimiterSubsets
       DEF WAllowGlobal, AllowGlobal, WInv, Inv, BucketsOK
  <2> QED BY <1>1, <1>6, <1>2, <1>3, <2>1, <2>2
<1>7. CASE Watching /\ WGrantPerIP
  <2>1. passedAll' + inFlight' = n /\ elapsed' = elapsed /\ globalRl' = globalRl
    BY <1>1, <1>7 DEF WGrantPerIP, GrantPerIP, Answer, inFlight
  <2> QED BY <1>1, <1>7, <2>1
<1>8. CASE Watching /\ WCancelInTime
  <2>1. n = (passedAll' + inFlight') + 1 /\ elapsed' = elapsed /\ passedAll' + inFlight' \in Nat
    BY <1>1, <1>8 DEF WCancelInTime, CancelInTime, Answer, inFlight
  <2>2. globalRl'[l] <= globalRl[l] + Every[l] /\ globalRl'[l] \in Nat
    <3>1. Bounded(GLimiters, globalRl) /\ globalRl' = Restore(globalRl)
      BY <1>8 DEF WCancelInTime, CancelInTime, WInv, Inv, BucketsOK
    <3> QED BY <3>1, RestoreBounded, LimiterSubsets DEF Bounded, Levels
  <2>3. n * Every[l] = (passedAll' + inFlight') * Every[l] + Every[l]
        /\ (passedAll' + inFlight') * Every[l] \in Int
    BY <1>2, <2>1, OneMore
  <2> HIDE DEF n
  <2> QED BY <1>1, <1>8, <1>2, <2>1, <2>2, <2>3
<1>9. CASE Watching /\ Unobserved
  <2>1. globalRl' = globalRl /\ elapsed' = elapsed /\ passedAll' = passedAll
    BY <1>9 DEF Unobserved, watch, RefuseGlobal, LockAndLoad, RefusePerIP, CancelLate,
                CleanStart, CleanStep, CleanCheck, CleanDelete, CleanEnd
  <2>2. inFlight' = inFlight \/ (inFlight = 1 /\ inFlight' = 0)
    BY <1>9 DEF Unobserved, inFlight, RefuseGlobal, LockAndLoad, RefusePerIP, CancelLate,
                Answer, CleanStart, CleanStep, CleanCheck, CleanDelete, CleanEnd, allowVars
  <2>3. ASSUME inFlight = 1 PROVE n * Every[l] = passedAll * Every[l] + Every[l]
    <3>1. n = passedAll + 1
      BY <2>3
    <3>2. passedAll \in Int /\ Every[l] \in Int
      BY <1>1, <1>2
    <3>3. (passedAll + 1) * Every[l] = passedAll * Every[l] + Every[l]
      BY ONLY <3>2, OneMore
    <3> HIDE DEF n
    <3> QED BY <3>1, <3>3
  <2>4. passedAll * Every[l] \in Int
    BY <1>1, <1>2, OneMore
  <2> QED BY <1>1, <1>9, <1>2, <2>1, <2>2, <2>3, <2>4
<1> QED BY <1>4, <1>5, <1>6, <1>7, <1>8, <1>9, StillOpen

LEMMA PerIPPotentialStep == ASSUME WInv, WNext PROVE PerIPPotential'
<1> SUFFICES ASSUME NEW ip \in IPs, NEW l \in PLimiters, Watching'
             PROVE  BucketOf(ip)'[l] + passed'[ip] * Every[l] <= Cap(l) + elapsed'
  BY DEF PerIPPotential
<1> DEFINE B == BucketOf(ip)
<1> SUFFICES B'[l] + passed'[ip] * Every[l] <= Cap(l) + elapsed'
  OBVIOUS
<1>1. /\ Watching => B[l] + passed[ip] * Every[l] <= Cap(l) + elapsed
      /\ B[l] \in Nat /\ B[l] <= Cap(l)
      /\ elapsed \in Nat /\ passed[ip] \in Nat
  BY BucketOfBounded DEF WInv, WatchOK, PerIPPotential, Bounded, Levels
<1>2. Every[l] \in Nat /\ Cap(l) \in Nat
  BY CapType, LimiterSubsets
<1>3. passed[ip] * Every[l] \in Int
      /\ (passed[ip] + 1) * Every[l] = passed[ip] * Every[l] + Every[l]
      /\ 0 * Every[l] = 0
  BY <1>1, <1>2, OneMore
<1>4. CASE OpenWindow
  <2>1. passed'[ip] = 0 /\ elapsed' = 0 /\ B' = B
    BY <1>4 DEF OpenWindow, vars, BucketOf
  <2> HIDE DEF B
  <2> QED BY <1>1, <1>2, <1>3, <2>1
<1>5. CASE Watching /\ WTick
  <2>1. passed' = passed /\ elapsed' = elapsed + 1
    BY <1>5 DEF WTick
  <2>2. B' = Refill(B)
    BY <1>5, NewIsFull, LimiterSubsets DEF WTick, Tick, BucketOf
  <2>3. B'[l] <= B[l] + 1 /\ B'[l] \in Nat
    BY <2>2, BucketOfBounded, RefillBounded, LimiterSubsets DEF WInv, Bounded, Levels
  <2> HIDE DEF B
  <2> QED BY <1>1, <1>5, <1>2, <1>3, <2>1, <2>3
<1>6. CASE Watching /\ WGrantPerIP
  <2>1. elapsed' = elapsed /\ aip \in IPs /\ aip \in DOMAIN peripRls
    BY <1>6, IPsAssumption
       DEF WGrantPerIP, GrantPerIP, WInv, Inv, ControlOK, NoDetachedBucket
  <2>2. CASE ip = aip
    <3>1. B' = Charge(B) /\ AllowOK(B)
      BY <1>6, <2>1, <2>2 DEF WGrantPerIP, GrantPerIP, BucketOf, HeldBucket
    <3>2. B'[l] = B[l] - Every[l]
      BY <3>1, BucketOfBounded, ChargeBounded, LimiterSubsets DEF WInv
    <3>3. passed'[ip] = passed[ip] + 1
      BY <1>6, <2>2 DEF WGrantPerIP, WInv, WatchOK
    <3> HIDE DEF B
    <3> QED BY <1>1, <1>6, <1>2, <1>3, <2>1, <3>2, <3>3
  <2>3. CASE ip # aip
    <3>1. B' = B /\ passed'[ip] = passed[ip]
      BY <1>6, <2>3 DEF WGrantPerIP, GrantPerIP, BucketOf, WInv, WatchOK
    <3> HIDE DEF B
    <3> QED BY <1>1, <1>6, <2>1, <3>1
  <2> QED BY <2>2, <2>3
<1>7. CASE Watching /\ (WAllowGlobal \/ WCancelInTime \/ Unobserved)
  <2>1. passed' = passed /\ elapsed' = elapsed
    BY <1>7 DEF WAllowGlobal, WCancelInTime, Unobserved, watch
  <2>2. B' = B
    <3>1. CASE LockAndLoad
      BY <3>1 DEF LockAndLoad, LoadOrStore, BucketOf
    <3>2. CASE CleanDelete
      BY <3>2, FullIsNew, LimiterSubsets
         DEF CleanDelete, BucketOf, WInv, Inv, NoDetachedBucket, BucketsOK
    <3>3. CASE peripRls' = peripRls
      BY <3>3 DEF BucketOf
    <3> QED BY <1>7, <3>1, <3>2, <3>3
            DEF WAllowGlobal, WCancelInTime, Unobserved, AllowGlobal,
                CancelInTime, RefuseGlobal, RefusePerIP, CancelLate,
                CleanStart, CleanStep, CleanCheck, CleanEnd
  <2> HIDE DEF B
  <2> QED BY <1>1, <1>7, <2>1, <2>2
<1> QED BY <1>4, <1>5, <1>6, <1>7, StillOpen

LEMMA WInvAlways == WSpec => []WInv
<1>1. WInit => WInv
  <2> SUFFICES ASSUME WInit PROVE WInv
    OBVIOUS
  <2>1. Inv /\ WatchOK
    BY InvInit DEF WInit, WatchOK
  <2>2. \A l \in Limiters : Cap(l) \in Nat /\ 0 * Every[l] = 0
    BY CapType
  <2>3. GlobalPotential
    <3>1. \A l \in GLimiters : globalRl[l] = Cap(l)
      BY DEF WInit, Init, NewRateLimiter
    <3>2. passedAll + inFlight = 0 /\ elapsed = 0
      BY DEF WInit, Init, inFlight
    <3>3. \A l \in GLimiters : (passedAll + inFlight) * Every[l] = 0 /\ Cap(l) \in Nat
      BY <2>2, <3>2, LimiterSubsets
    <3>4. elapsed = 0
      BY <3>2
    <3>5. ASSUME NEW l \in GLimiters
          PROVE  globalRl[l] + (passedAll + inFlight) * Every[l] <= Cap(l) + elapsed
      <4> DEFINE used0 == (passedAll + inFlight) * Every[l]
      <4>1. used0 = 0 /\ Cap(l) \in Nat /\ globalRl[l] = Cap(l)
        BY <3>1, <3>3
      <4> HIDE DEF used0
      <4>2. globalRl[l] + used0 <= Cap(l) + elapsed
        BY <3>4, <4>1
      <4> QED BY <4>2 DEF used0
    <3> QED BY <3>5 DEF GlobalPotential
  <2>4. PerIPPotential
    <3>1. \A ip \in IPs : BucketOf(ip) = NewRateLimiter(PLimiters) /\ passed[ip] = 0
      BY DEF WInit, Init, BucketOf
    <3>2. \A l \in PLimiters : NewRateLimiter(PLimiters)[l] = Cap(l)
      BY DEF NewRateLimiter
    <3>3. elapsed = 0
      BY DEF WInit
    <3> QED BY <2>2, <3>1, <3>2, <3>3, LimiterSubsets DEF PerIPPotential
  <2> QED BY <2>1, <2>3, <2>4 DEF WInv
<1>2. WInv /\ [WNext]_wvars => WInv'
  <2> SUFFICES ASSUME WInv, [WNext]_wvars PROVE WInv'
    OBVIOUS
  <2>1. CASE WNext
    <3>1. Inv'
      BY <2>1, WNextIsNext, InvStep DEF WInv
    <3> QED BY <2>1, <3>1, WatchStep, GlobalPotentialStep, PerIPPotentialStep DEF WInv
  <2>2. CASE UNCHANGED wvars
    <3>1. Inv'
      BY <2>2, InvStep DEF WInv, wvars
    <3> QED BY <2>2, <3>1 DEF WInv, WatchOK, GlobalPotential, PerIPPotential, inFlight,
                              BucketOf, Watching, wvars, vars, allowVars, watch
  <2> QED BY <2>1, <2>2
<1> QED BY <1>1, <1>2, PTL DEF WSpec

\* In every window of time an IP gets at most burst + time/every connections
\* through, however often its entry is dropped and re-created meanwhile.
THEOREM PerIPRateCorrect == WSpec => []PerIPRateHolds
<1>1. WInv => PerIPRateHolds
  <2> SUFFICES ASSUME WInv, NEW ip \in IPs, NEW l \in PLimiters, Watching
               PROVE  passed[ip] * Every[l] <= Cap(l) + elapsed
    BY DEF PerIPRateHolds
  <2>1. BucketOf(ip)[l] \in Nat /\ passed[ip] \in Nat /\ elapsed \in Nat
    BY BucketOfBounded DEF WInv, WatchOK, Bounded, Levels
  <2>2. passed[ip] * Every[l] \in Int /\ Cap(l) \in Nat
    BY <2>1, CapType, LimiterSubsets, OneMore
  <2> QED BY <2>1, <2>2 DEF WInv, PerIPPotential
<1> QED BY <1>1, WInvAlways, PTL

\* The same for the global limits and all connections together.
THEOREM GlobalRateCorrect == WSpec => []GlobalRateHolds
<1>1. WInv => GlobalRateHolds
  <2> SUFFICES ASSUME WInv, NEW l \in GLimiters, Watching
               PROVE  passedAll * Every[l] <= Cap(l) + elapsed
    BY DEF GlobalRateHolds
  <2>1. globalRl[l] \in Nat /\ passedAll \in Nat /\ elapsed \in Nat /\ inFlight \in {0, 1}
    BY DEF WInv, WatchOK, Inv, BucketsOK, Bounded, Levels, inFlight
  <2>2. Every[l] \in Nat /\ Cap(l) \in Nat
    BY CapType, LimiterSubsets
  <2>3. passedAll * Every[l] \in Int /\ (passedAll + 1) * Every[l] = passedAll * Every[l] + Every[l]
    BY <2>1, <2>2, OneMore
  <2>4. passedAll * Every[l] <= (passedAll + inFlight) * Every[l]
        /\ (passedAll + inFlight) * Every[l] \in Int
    BY <2>1, <2>2, <2>3
  <2>5. globalRl[l] + (passedAll + inFlight) * Every[l] <= Cap(l) + elapsed
    BY DEF WInv, GlobalPotential
  <2> QED BY <2>1, <2>2, <2>3, <2>4, <2>5
<1> QED BY <1>1, WInvAlways, PTL
=============================================================================
