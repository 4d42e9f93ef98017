---------------------------- MODULE RateLimiter -----------------------------
(***************************************************************************)
(* SSHRateLimiter (rate.go) between its two users: the accept loop, which  *)
(* calls Allow(ip) for one connection after the other, and the cleaner     *)
(* goroutine of StartSSHServer, which calls CleanEmpty on a ticker and     *)
(* slows down while there is nothing to clean.  They share the map         *)
(* peripRls under peripMu.                                                 *)
(***************************************************************************)
EXTENDS Buckets, FiniteSets

CONSTANTS
    IPs,
    NoIP            \* no call of Allow is under way

ASSUME IPsAssumption == NoIP \notin IPs

VARIABLES
    globalRl,       \* levels of the global buckets
    peripRls,       \* the map: a function from the IPs that have an entry
    peripMu,        \* "free", or who holds it: "allow", "clean"
    apc,            \* accept loop: idle, locking, charging, cancelling
    aip,            \* the ip Allow was called with
    aged,           \* the clock has advanced since the global reservation
    answer,         \* what the last finished Allow said: none, yes, no
    cpc,            \* cleaner: waiting, ranging, deleting
    todo,           \* keys Range has not visited yet
    victim,         \* key found full and about to be deleted
    cleaned, kept,  \* counts of this CleanEmpty
    currDuration,   \* ticker period, in units of InitDuration (5 min)
    clearCount      \* rounds that cleaned nothing, counted up to 3

allowVars == <<apc, aip, aged, answer>>
cleanVars == <<cpc, todo, victim, cleaned, kept>>
tickerVars == <<currDuration, clearCount>>
vars == <<globalRl, peripRls, peripMu, allowVars, cleanVars, tickerVars>>

HasPerIP == PLimiters # {}

MaxDuration == 12       \* one hour
BackoffAfter == 3

Init ==
    /\ globalRl = NewRateLimiter(GLimiters)
    /\ peripRls = [ip \in {} |-> NewRateLimiter(PLimiters)]
    /\ peripMu = "free"
    /\ apc = "idle" /\ aip = NoIP /\ aged = FALSE /\ answer = "none"
    /\ cpc = "waiting" /\ todo = {} /\ victim = NoIP /\ cleaned = 0 /\ kept = 0
    /\ currDuration = 1 /\ clearCount = 0

Tick ==
    /\ globalRl' = Refill(globalRl)
    /\ peripRls' = [ip \in DOMAIN peripRls |-> Refill(peripRls[ip])]
    /\ aged' = (apc # "idle")
    /\ UNCHANGED <<peripMu, apc, aip, answer, cleanVars, tickerVars>>

-----------------------------------------------------------------------------
(* Allow(ip)                                                               *)

Answer(a) ==
    /\ apc' = "idle" /\ aip' = NoIP /\ aged' = FALSE /\ answer' = a

\* AllowGlobal refuses.
RefuseGlobal ==
    /\ apc = "idle"
    /\ ~AllowOK(globalRl)
    /\ Answer("no")
    /\ UNCHANGED <<globalRl, peripRls, peripMu, cleanVars, tickerVars>>

\* AllowGlobal grants; without per-IP limits that is all, else AllowPerIP is
\* next.
AllowGlobal(ip) ==
    /\ apc = "idle"
    /\ AllowOK(globalRl)
    /\ globalRl' = Charge(globalRl)
    /\ IF HasPerIP
       THEN apc' = "locking" /\ aip' = ip /\ aged' = FALSE /\ answer' = "none"
       ELSE Answer("yes")
    /\ UNCHANGED <<peripRls, peripMu, cleanVars, tickerVars>>

LoadOrStore(ip) ==
    IF ip \in DOMAIN peripRls
    THEN peripRls
    ELSE [i \in DOMAIN peripRls \cup {ip} |->
             IF i = ip THEN NewRateLimiter(PLimiters) ELSE peripRls[i]]

\* Mutant: AllowPerIP does not take peripMu.
LockAndLoadUnlocked ==
    /\ apc = "locking"
    /\ peripRls' = LoadOrStore(aip)
    /\ apc' = "charging"
    /\ UNCHANGED <<globalRl, peripMu, aip, aged, answer, cleanVars, tickerVars>>

\* AllowPerIP up to the bucket it will charge
LockAndLoad ==
    /\ apc = "locking"
    /\ peripMu = "free"
    /\ peripMu' = "allow"
    /\ peripRls' = LoadOrStore(aip)
    /\ apc' = "charging"
    /\ UNCHANGED <<globalRl, aip, aged, answer, cleanVars, tickerVars>>

\* rl: the bucket AllowPerIP holds.  Once its entry is gone from the map it
\* is a full bucket nobody else will ever look at.
HeldBucket ==
    IF aip \in DOMAIN peripRls THEN peripRls[aip] ELSE NewRateLimiter(PLimiters)

\* rl.Allow() grants: the connection passes
GrantPerIP ==
    /\ apc = "charging"
    /\ AllowOK(HeldBucket)
    /\ peripRls' = [ip \in DOMAIN peripRls |->
                       IF ip = aip THEN Charge(peripRls[ip]) ELSE peripRls[ip]]
    /\ peripMu' = "free"
    /\ Answer("yes")
    /\ UNCHANGED <<globalRl, cleanVars, tickerVars>>

\* Mutant: the refusing path returns without unlocking.
RefusePerIPKeepsLock ==
    /\ apc = "charging"
    /\ ~AllowOK(HeldBucket)
    /\ apc' = "cancelling"
    /\ UNCHANGED <<globalRl, peripRls, peripMu, aip, aged, answer, cleanVars, tickerVars>>

\* rl.Allow() refuses: the global reservation has to be cancelled
RefusePerIP ==
    /\ apc = "charging"
    /\ ~AllowOK(HeldBucket)
    /\ peripMu' = "free"
    /\ apc' = "cancelling"
    /\ UNCHANGED <<globalRl, peripRls, aip, aged, answer, cleanVars, tickerVars>>

\* rsv.Cancel() is CancelAt(time.Now()).  The library takes a reservation
\* back only while its time to act - here the instant of AllowGlobal - is
\* not before that argument: if the clock has moved on, nothing happens.
CancelInTime ==
    /\ apc = "cancelling"
    /\ ~aged
    /\ globalRl' = Restore(globalRl)
    /\ Answer("no")
    /\ UNCHANGED <<peripRls, peripMu, cleanVars, tickerVars>>

CancelLate ==
    /\ apc = "cancelling"
    /\ Answer("no")
    /\ UNCHANGED <<globalRl, peripRls, peripMu, cleanVars, tickerVars>>

-----------------------------------------------------------------------------
(* The cleaner                                                             *)

\* the ticker fired: CleanEmpty takes the lock and starts the Range
CleanStart ==
    /\ HasPerIP
    /\ cpc = "waiting"
    /\ peripMu = "free"
    /\ peripMu' = "clean"
    /\ cpc' = "ranging"
    /\ todo' = DOMAIN peripRls
    /\ UNCHANGED <<globalRl, peripRls, allowVars, victim, cleaned, kept, tickerVars>>

\* Mutant: Tokens() is required to exceed the burst, which it never does.
CleanCheckAbove(ip) ==
    /\ cpc = "ranging"
    /\ ip \in todo
    /\ todo' = todo \ {ip}
    /\ IF \A l \in PLimiters : peripRls[ip][l] > Cap(l)
       THEN cpc' = "deleting" /\ victim' = ip /\ UNCHANGED kept
       ELSE kept' = kept + 1 /\ UNCHANGED <<cpc, victim>>
    /\ UNCHANGED <<globalRl, peripRls, peripMu, allowVars, cleaned, tickerVars>>

\* every bucket of the entry at its burst: it may go
CleanCheck(ip) ==
    /\ cpc = "ranging"
    /\ ip \in todo
    /\ todo' = todo \ {ip}
    /\ IF IsFull(peripRls[ip])
       THEN cpc' = "deleting" /\ victim' = ip /\ UNCHANGED kept
       ELSE kept' = kept + 1 /\ UNCHANGED <<cpc, victim>>
    /\ UNCHANGED <<globalRl, peripRls, peripMu, allowVars, cleaned, tickerVars>>

CleanDelete ==
    /\ cpc = "deleting"
    /\ peripRls' = [ip \in DOMAIN peripRls \ {victim} |-> peripRls[ip]]
    /\ cleaned' = cleaned + 1
    /\ cpc' = "ranging" /\ victim' = NoIP
    /\ UNCHANGED <<globalRl, peripMu, allowVars, todo, kept, tickerVars>>

\* the next ticker period, from what CleanEmpty returned
NextClearCount ==
    IF cleaned # 0 THEN 0
    ELSE IF clearCount < BackoffAfter THEN clearCount + 1 ELSE BackoffAfter

NextDuration ==
    CASE cleaned # 0 -> 1
      [] cleaned = 0 /\ kept # 0 -> 2
      [] cleaned = 0 /\ kept = 0 /\ NextClearCount >= BackoffAfter ->
            IF 2 * currDuration > MaxDuration THEN MaxDuration ELSE 2 * currDuration
      [] OTHER -> currDuration

CleanEnd ==
    /\ cpc = "ranging"
    /\ todo = {}
    /\ peripMu' = "free"
    /\ cpc' = "waiting"
    /\ clearCount' = NextClearCount
    /\ currDuration' = NextDuration
    /\ cleaned' = 0 /\ kept' = 0
    /\ UNCHANGED <<globalRl, peripRls, allowVars, todo, victim>>

-----------------------------------------------------------------------------
Allow ==
    \/ RefuseGlobal \/ \E ip \in IPs : AllowGlobal(ip)
    \/ LockAndLoad \/ GrantPerIP \/ RefusePerIP \/ CancelInTime \/ CancelLate

CleanStep == (\E ip \in IPs : CleanCheck(ip)) \/ CleanDelete \/ CleanEnd

Next == Tick \/ Allow \/ CleanStart \/ CleanStep

Spec == Init /\ [][Next]_vars
\* Both goroutines keep running, time passes and the ticker keeps firing.
\* Waiting for peripMu needs strong fairness, which sync.Mutex gives: a
\* waiter that was overtaken for 1ms is handed the lock next.
Fairness ==
    /\ WF_vars(Tick)
    /\ WF_vars(GrantPerIP \/ RefusePerIP \/ CancelInTime \/ CancelLate)
    /\ SF_vars(LockAndLoad)
    /\ SF_vars(CleanStart)
    /\ WF_vars(CleanStep)

FairSpec == Spec /\ Fairness

-----------------------------------------------------------------------------
\* The bucket that decides about ip: the one in the map, or the full one
\* that would be created.
BucketOf(ip) ==
    IF ip \in DOMAIN peripRls THEN peripRls[ip] ELSE NewRateLimiter(PLimiters)

\* Every bucket is within its burst, whatever was charged, restored or
\* refilled; the cleaner's period stays between 5 minutes and one hour.
TypeOK ==
    /\ globalRl \in Levels(GLimiters)
    /\ DOMAIN peripRls \subseteq IPs
    /\ peripRls \in [DOMAIN peripRls -> Levels(PLimiters)]
    /\ \A l \in GLimiters : globalRl[l] <= Cap(l)
    /\ \A ip \in DOMAIN peripRls : \A l \in PLimiters : peripRls[ip][l] <= Cap(l)
    /\ peripMu \in {"free", "allow", "clean"}
    /\ apc \in {"idle", "locking", "charging", "cancelling"}
    /\ aip \in IPs \cup {NoIP} /\ aged \in BOOLEAN
    /\ answer \in {"none", "yes", "no"}
    /\ cpc \in {"waiting", "ranging", "deleting"}
    /\ todo \subseteq IPs /\ victim \in IPs \cup {NoIP}
    /\ cleaned \in Nat /\ kept \in Nat
    /\ currDuration \in 1 .. MaxDuration
    /\ clearCount \in 0 .. BackoffAfter

\* peripMu keeps the two apart: the bucket AllowPerIP is about to charge is
\* the one in the map, and the entry the cleaner is about to delete is still
\* there and still full - no spent tokens are thrown away.
NoDetachedBucket ==
    /\ apc = "charging" => peripMu = "allow" /\ aip \in DOMAIN peripRls
    /\ cpc # "waiting" => peripMu = "clean" /\ todo \subseteq DOMAIN peripRls
    /\ cpc = "deleting" => victim \in DOMAIN peripRls /\ IsFull(peripRls[victim])

plevel == [ip \in IPs |-> BucketOf(ip)]

phase ==
    CASE apc = "idle" -> "idle"
      [] apc \in {"locking", "charging"} -> "asking"
      [] OTHER -> "denied"

Abstract == INSTANCE PermanentBuckets WITH glevel <- globalRl, asking <- aip

\* Forgetting and re-creating entries is invisible: the limiter behaves like
\* one that keeps a bucket per IP for ever.
RefinesPermanentBuckets == Abstract!Spec

\* An IP that stops connecting is eventually forgotten: the map does not
\* grow with every address ever seen.
IdleForgotten ==
    \A ip \in IPs : <>[](aip # ip) => <>[](ip \notin DOMAIN peripRls)

\* The accept loop gets its answer: the cleaner cannot block it for ever.
AllowReturns == apc # "idle" ~> apc = "idle"
=============================================================================
