----------------------------- MODULE ConnLimits -----------------------------
(***************************************************************************)
(* The connection limits of ssh.go as pure operators: how StartSSHServer   *)
(* turns the configured max / hard_max / loss_ratio into the limits it     *)
(* enforces, and what checkMaxConnections may answer.  Ratios are integer  *)
(* percentages; a probability is a fraction (numerator, denominator), so   *)
(* that "certain" and "impossible" are exact.                              *)
(***************************************************************************)
EXTENDS Integers

Larger(a, b) == IF a >= b THEN a ELSE b

\* max = 0 selects the default; a negative max disables the soft limit.
EffectiveMax(raw, default) ==
    IF raw = 0 THEN default ELSE IF raw < 0 THEN 0 ELSE raw

\* A hard_max at or below an enabled soft limit is replaced.
EffectiveHardMax(raw, max, default) ==
    IF raw <= max /\ max > 0 THEN Larger(2 * max, default) ELSE raw

\* loss_ratio clamped to [0, 1].
EffectiveRatio(raw) ==
    IF raw <= 0 THEN 0 ELSE IF raw >= 100 THEN 100 ELSE raw

\* connectionLossProbability = LossNum / LossDen: linear from ratio at
\* curr = max + 1 to 1 at curr = hardMax.
LossDen(max, hardMax) ==
    IF hardMax <= max + 1 THEN 1 ELSE 100 * (hardMax - (max + 1))

LossNum(curr, max, hardMax, ratio) ==
    IF hardMax <= max + 1
    THEN 1
    ELSE ratio * (hardMax - (max + 1))
           + Larger(0, (100 - ratio) * (curr - (max + 1)))

\* checkMaxConnections draws a random number between the two limits, so it
\* is given by what it may answer: TRUE is a possible answer, and FALSE is.
MayAdmit(curr, max, hardMax, ratio) ==
    IF max <= 0
    THEN hardMax <= 0 \/ curr <= hardMax
    ELSE \/ curr <= max
         \/ /\ curr <= hardMax
            /\ \/ ratio <= 0
               \/ /\ ratio < 100
                  /\ LossNum(curr, max, hardMax, ratio) < LossDen(max, hardMax)

\* Mutant: the soft limit is compared with >= instead of >.
MayRefuseAtMax(curr, max, hardMax, ratio) ==
    IF max <= 0
    THEN hardMax > 0 /\ curr > hardMax
    ELSE /\ curr >= max
         /\ \/ curr > hardMax
            \/ ratio >= 100
            \/ ratio > 0 /\ LossNum(curr, max, hardMax, ratio) > 0

MayRefuse(curr, max, hardMax, ratio) ==
    IF max <= 0
    THEN hardMax > 0 /\ curr > hardMax
    ELSE /\ curr > max
         /\ \/ curr > hardMax
            \/ ratio >= 100
            \/ ratio > 0 /\ LossNum(curr, max, hardMax, ratio) > 0
=============================================================================
