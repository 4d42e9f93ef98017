-------------------------- MODULE PermanentBuckets --------------------------
(***************************************************************************)
(* What SSHRateLimiter promises its caller: one global set of buckets and  *)
(* one set per IP that exists for ever.  No map, no lock, no cleaner.      *)
(***************************************************************************)
EXTENDS Buckets

CONSTANTS IPs, NoIP

VARIABLES
    glevel,     \* global levels
    plevel,     \* levels of every IP
    phase,      \* idle; asking: globally granted; denied: by the per-IP limit
    asking,     \* the IP being asked about
    answer      \* what the last finished call said

vars == <<glevel, plevel, phase, asking, answer>>

Init ==
    /\ glevel = NewRateLimiter(GLimiters)
    /\ plevel = [ip \in IPs |-> NewRateLimiter(PLimiters)]
    /\ phase = "idle" /\ asking = NoIP /\ answer = "none"

Tick ==
    /\ glevel' = Refill(glevel)
    /\ plevel' = [ip \in IPs |-> Refill(plevel[ip])]
    /\ UNCHANGED <<phase, asking, answer>>

Refuse ==
    /\ phase = "idle" /\ ~AllowOK(glevel)
    /\ answer' = "no"
    /\ UNCHANGED <<glevel, plevel, phase, asking>>

GrantGlobalOnly ==
    /\ phase = "idle" /\ PLimiters = {} /\ AllowOK(glevel)
    /\ glevel' = Charge(glevel)
    /\ answer' = "yes"
    /\ UNCHANGED <<plevel, phase, asking>>

Ask(ip) ==
    /\ phase = "idle" /\ PLimiters # {} /\ AllowOK(glevel)
    /\ glevel' = Charge(glevel)
    /\ phase' = "asking" /\ asking' = ip /\ answer' = "none"
    /\ UNCHANGED plevel

Grant ==
    /\ phase = "asking" /\ AllowOK(plevel[asking])
    /\ plevel' = [plevel EXCEPT ![asking] = Charge(@)]
    /\ phase' = "idle" /\ asking' = NoIP /\ answer' = "yes"
    /\ UNCHANGED glevel

Deny ==
    /\ phase = "asking" /\ ~AllowOK(plevel[asking])
    /\ phase' = "denied"
    /\ UNCHANGED <<glevel, plevel, asking, answer>>

\* the caller of a denied request may or may not get its global tokens back
Undo ==
    /\ phase = "denied"
    /\ glevel' \in {glevel, Restore(glevel)}
    /\ phase' = "idle" /\ asking' = NoIP /\ answer' = "no"
    /\ UNCHANGED plevel

Next ==
    \/ Tick \/ Refuse \/ GrantGlobalOnly
    \/ \E ip \in IPs : Ask(ip)
    \/ Grant \/ Deny \/ Undo

Spec == Init /\ [][Next]_vars
=============================================================================
