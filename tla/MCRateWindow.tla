---------------------------- MODULE MCRateWindow ----------------------------
(* RateWindow with limiters chosen so that several tokens fit a bucket,    *)
(* refill takes several ticks, the two per-IP limiters disagree, and over  *)
(* time two addresses may pass more than the global limit: either binds.   *)
EXTENDS RateWindow

\* g: 2 tokens, one every 2 ticks; p: 1 token every 2 ticks; q: 2 tokens, one per tick
MCBurst == [l \in Limiters |-> IF l = "p" THEN 1 ELSE 2]
MCEvery == [l \in Limiters |-> IF l = "q" THEN 1 ELSE 2]
=============================================================================
