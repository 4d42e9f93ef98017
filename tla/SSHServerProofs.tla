-------------------------- MODULE SSHServerProofs ---------------------------
(***************************************************************************)
(* TLAPS proofs about SSHServer, for every set of connections and every    *)
(* configuration of the limits.  CountersExact is inductive on top of      *)
(* Typed; the hard limits follow from it, because an accepting step       *)
(* compares the limit with a counter that is the exact number of holders.  *)
(***************************************************************************)
EXTENDS SSHServer, FiniteSetTheorems, TLAPS

\* EffectiveHardMax lies above an enabled soft limit, whatever was configured.
LEMMA HardMaxAboveMax ==
    ASSUME NEW raw \in Int, NEW rawHard \in Int, NEW dm \in Nat \ {0}, NEW dh \in Nat \ {0},
           EffectiveMax(raw, dm) > 0
    PROVE  EffectiveMax(raw, dm) < EffectiveHardMax(rawHard, EffectiveMax(raw, dm), dh)
BY SMT DEF EffectiveMax, EffectiveHardMax, Larger

\* The limits the server computes are integers.
LEMMA LimitsAreIntegers ==
    /\ maxConn \in Int /\ hardMaxConn \in Int
    /\ maxSuccConn \in Int /\ hardMaxSuccConn \in Int
BY LimitsAssumption, SMT
   DEF maxConn, hardMaxConn, maxSuccConn, hardMaxSuccConn,
       EffectiveMax, EffectiveHardMax, Larger

\* checkMaxConnections admits nobody beyond a hard limit.
LEMMA AdmitBelowHardMax ==
    ASSUME NEW curr \in Int, NEW max \in Int, NEW hardMax \in Int, NEW ratio,
           max > 0 => max < hardMax, hardMax > 0,
           MayAdmit(curr, max, hardMax, ratio)
    PROVE  curr <= hardMax
<1>1. CASE max <= 0
  BY <1>1, SMT DEF MayAdmit
<1>2. CASE max > 0 /\ curr <= max
  BY <1>2, SMT
<1>3. CASE max > 0 /\ ~(curr <= max)
  BY <1>3, SMT DEF MayAdmit
<1> QED BY <1>1, <1>2, <1>3, SMT

\* checkMaxConnections refuses nobody within the soft limit.
LEMMA RefuseAboveMax ==
    ASSUME NEW curr \in Int, NEW max \in Int, NEW hardMax, NEW ratio,
           max > 0, MayRefuse(curr, max, hardMax, ratio)
    PROVE  curr > max
BY SMT DEF MayRefuse

-----------------------------------------------------------------------------
\* TypeOK without the lower bound of the counters, which needs CountersExact.
Typed ==
    /\ pc \in [Conns -> States]
    /\ connections \in Int
    /\ succConnections \in Int

LEMMA InFinite ==
    ASSUME NEW S
    PROVE  /\ IsFiniteSet(In(S)) /\ Cardinality(In(S)) \in Nat
           /\ IsFiniteSet(In(S)') /\ Cardinality(In(S)') \in Nat
<1>1. In(S) \subseteq Conns /\ In(S)' \subseteq Conns
  BY DEF In
<1> QED BY <1>1, ConnsAssumption, FS_Subset, FS_CardinalityType

-----------------------------------------------------------------------------
(* How one connection's move changes the number of connections in a set S  *)
(* of states: by nothing, one more, or one less.                           *)

LEMMA MoveSame ==
    ASSUME NEW S, NEW c \in Conns, NEW from, NEW to, Typed, Goto(c, from, to),
           from \in S <=> to \in S
    PROVE  Cardinality(In(S))' = Cardinality(In(S))
<1>1. In(S)' = In(S)
  BY DEF In, Goto, Typed
<1> QED BY <1>1

LEMMA MoveIn ==
    ASSUME NEW S, NEW c \in Conns, NEW from, NEW to, Typed, Goto(c, from, to),
           from \notin S, to \in S
    PROVE  Cardinality(In(S))' = Cardinality(In(S)) + 1
<1>1. In(S)' = In(S) \cup {c} /\ c \notin In(S)
  BY DEF In, Goto, Typed
<1>2. Cardinality(In(S) \cup {c}) = Cardinality(In(S)) + 1
  BY <1>1, InFinite, FS_AddElement
<1> QED BY <1>1, <1>2

LEMMA MoveOut ==
    ASSUME NEW S, NEW c \in Conns, NEW from, NEW to, Typed, Goto(c, from, to),
           from \in S, to \notin S
    PROVE  Cardinality(In(S))' = Cardinality(In(S)) - 1
<1>1. In(S)' = In(S) \ {c} /\ c \in In(S)
  BY DEF In, Goto, Typed
<1>2. Cardinality(In(S) \ {c}) = Cardinality(In(S)) - 1
  BY <1>1, InFinite, FS_RemoveElement
<1> QED BY <1>1, <1>2

-----------------------------------------------------------------------------
(* Type correctness.                                                       *)

LEMMA TypeStep == Typed /\ [Next]_vars => Typed'
<1> SUFFICES ASSUME Typed, [Next]_vars PROVE Typed'
  OBVIOUS
<1>1. CASE UNCHANGED vars
  BY <1>1 DEF Typed, vars
<1>2. ASSUME NEW c \in Conns, Step(c) PROVE Typed'
  <2>1. CASE AcceptOK(c)
    BY <2>1, SMT DEF AcceptOK, Goto, Typed, States
  <2>2. CASE AcceptOverLimit(c)
    BY <2>2, SMT DEF AcceptOverLimit, Goto, Typed, States
  <2>3. CASE HandshakeFail(c)
    BY <2>3, SMT DEF HandshakeFail, Goto, Typed, States
  <2>4. CASE HandshakeOK(c)
    BY <2>4, SMT DEF HandshakeOK, Goto, Typed, States
  <2>5. CASE ShellEnds(c)
    BY <2>5, SMT DEF ShellEnds, Goto, Typed, States
  <2>6. CASE GitEnds(c)
    BY <2>6, SMT DEF GitEnds, Goto, Typed, States
  <2>17. CASE ShellJams(c)
    BY <2>17, SMT DEF ShellJams, Goto, Typed, States
  <2>18. CASE JammedEnds(c)
    BY <2>18, SMT DEF JammedEnds, Goto, Typed, States
  <2>7. CASE RatePass(c)
    BY <2>7, SMT DEF RatePass, Goto, Typed, States
  <2>8. CASE RateRefuse(c)
    BY <2>8, SMT DEF RateRefuse, Goto, Typed, States
  <2>9. CASE DropNotify(c)
    BY <2>9, SMT DEF DropNotify, Goto, Typed, States
  <2>10. CASE DropRelease(c)
    BY <2>10, SMT DEF DropRelease, Goto, Typed, States
  <2>11. CASE ReleaseUnauthenticated(c)
    BY <2>11, SMT DEF ReleaseUnauthenticated, Goto, Typed, States
  <2>12. CASE LeaveUnauthenticated(c)
    BY <2>12, SMT DEF LeaveUnauthenticated, Goto, Typed, States
  <2>13. CASE EnterSuccess(c)
    BY <2>13, SMT DEF EnterSuccess, Goto, Typed, States
  <2>14. CASE RefuseSuccess(c)
    BY <2>14, SMT DEF RefuseSuccess, Goto, Typed, States
  <2>15. CASE ReleaseSuccess(c)
    BY <2>15, SMT DEF ReleaseSuccess, Goto, Typed, States
  <2>16. CASE CloseConn(c)
    BY <2>16, SMT DEF CloseConn, Goto, Typed, States
  <2> QED BY <1>2, <2>1, <2>2, <2>3, <2>4, <2>5, <2>6, <2>7, <2>8, <2>9, <2>10, <2>11, <2>12, <2>13, <2>14, <2>15, <2>16, <2>17, <2>18
         DEF Step, Unwinding
<1> QED BY <1>1, <1>2 DEF Next

LEMMA TypedAlways == Spec => []Typed
<1>1. Init => Typed
  BY DEF Init, Typed, States
<1> QED BY <1>1, TypeStep, PTL DEF Spec

-----------------------------------------------------------------------------
(* The counters are exact.                                                 *)

UnauthenticatedStates ==
    {"accepted", "dropping", "dropped", "handshake", "failed", "authed"}
SuccessStates == {"shell", "git", "jammed", "leaving"}

LEMMA CountersStep == Typed /\ CountersExact /\ [Next]_vars => CountersExact'
<1> DEFINE U == UnauthenticatedStates
           V == SuccessStates
           nU == Cardinality(In(U))
           nV == Cardinality(In(V))
<1> SUFFICES ASSUME Typed, connections = nU, succConnections = nV, [Next]_vars
             PROVE  connections' = nU' /\ succConnections' = nV'
  BY DEF CountersExact, CountedUnauthenticated, CountedSuccess,
         UnauthenticatedStates, SuccessStates
<1>0. nU \in Nat /\ nV \in Nat
  BY InFinite
<1> HIDE DEF nU, nV
<1>1. CASE UNCHANGED vars
  BY <1>1 DEF nU, nV, In, vars
<1>2. ASSUME NEW c \in Conns, Step(c)
      PROVE  connections' = nU' /\ succConnections' = nV'
  <2>1. CASE AcceptOK(c)
    <3>1. Goto(c, "closed", "accepted")
      BY <2>1 DEF AcceptOK
    <3>2. nU' = nU + 1 /\ nV' = nV
      BY <3>1, MoveIn, MoveSame DEF nU, nV, UnauthenticatedStates, SuccessStates
    <3> QED BY <2>1, <3>2, <1>0 DEF AcceptOK
  <2>2. CASE AcceptOverLimit(c)
    <3>1. Goto(c, "closed", "dropping")
      BY <2>2 DEF AcceptOverLimit
    <3>2. nU' = nU + 1 /\ nV' = nV
      BY <3>1, MoveIn, MoveSame DEF nU, nV, UnauthenticatedStates, SuccessStates
    <3> QED BY <2>2, <3>2, <1>0 DEF AcceptOverLimit
  <2>3. CASE HandshakeFail(c)
    <3>1. Goto(c, "handshake", "failed")
      BY <2>3 DEF HandshakeFail
    <3>2. nU' = nU /\ nV' = nV
      BY <3>1, MoveSame DEF nU, nV, UnauthenticatedStates, SuccessStates
    <3> QED BY <2>3, <3>2, <1>0 DEF HandshakeFail
  <2>4. CASE HandshakeOK(c)
    <3>1. Goto(c, "handshake", "authed")
      BY <2>4 DEF HandshakeOK
    <3>2. nU' = nU /\ nV' = nV
      BY <3>1, MoveSame DEF nU, nV, UnauthenticatedStates, SuccessStates
    <3> QED BY <2>4, <3>2, <1>0 DEF HandshakeOK
  <2>5. CASE ShellEnds(c)
    <3>1. Goto(c, "shell", "leaving")
      BY <2>5 DEF ShellEnds
    <3>2. nU' = nU /\ nV' = nV
      BY <3>1, MoveSame DEF nU, nV, UnauthenticatedStates, SuccessStates
    <3> QED BY <2>5, <3>2, <1>0 DEF ShellEnds
  <2>17. CASE ShellJams(c)
    <3>1. Goto(c, "shell", "jammed")
      BY <2>17 DEF ShellJams
    <3>2. nU' = nU /\ nV' = nV
      BY <3>1, MoveSame DEF nU, nV, UnauthenticatedStates, SuccessStates
    <3> QED BY <2>17, <3>2, <1>0 DEF ShellJams
  <2>18. CASE JammedEnds(c)
    <3>1. Goto(c, "jammed", "leaving")
      BY <2>18 DEF JammedEnds
    <3>2. nU' = nU /\ nV' = nV
      BY <3>1, MoveSame DEF nU, nV, UnauthenticatedStates, SuccessStates
    <3> QED BY <2>18, <3>2, <1>0 DEF JammedEnds
  <2>6. CASE GitEnds(c)
    <3>1. Goto(c, "git", "leaving")
      BY <2>6 DEF GitEnds
    <3>2. nU' = nU /\ nV' = nV
      BY <3>1, MoveSame DEF nU, nV, UnauthenticatedStates, SuccessStates
    <3> QED BY <2>6, <3>2, <1>0 DEF GitEnds
  <2>7. CASE RatePass(c)
    <3>1. Goto(c, "accepted", "handshake")
      BY <2>7 DEF RatePass
    <3>2. nU' = nU /\ nV' = nV
      BY <3>1, MoveSame DEF nU, nV, UnauthenticatedStates, SuccessStates
    <3> QED BY <2>7, <3>2, <1>0 DEF RatePass
  <2>8. CASE RateRefuse(c)
    <3>1. Goto(c, "accepted", "dropping")
      BY <2>8 DEF RateRefuse
    <3>2. nU' = nU /\ nV' = nV
      BY <3>1, MoveSame DEF nU, nV, UnauthenticatedStates, SuccessStates
    <3> QED BY <2>8, <3>2, <1>0 DEF RateRefuse
  <2>9. CASE DropNotify(c)
    <3>1. Goto(c, "dropping", "dropped")
      BY <2>9 DEF DropNotify
    <3>2. nU' = nU /\ nV' = nV
      BY <3>1, MoveSame DEF nU, nV, UnauthenticatedStates, SuccessStates
    <3> QED BY <2>9, <3>2, <1>0 DEF DropNotify
  <2>10. CASE DropRelease(c)
    <3>1. Goto(c, "dropped", "closed")
      BY <2>10 DEF DropRelease
    <3>2. nU' = nU - 1 /\ nV' = nV
      BY <3>1, MoveOut, MoveSame DEF nU, nV, UnauthenticatedStates, SuccessStates
    <3> QED BY <2>10, <3>2, <1>0 DEF DropRelease
  <2>11. CASE ReleaseUnauthenticated(c)
    <3>1. Goto(c, "failed", "closing")
      BY <2>11 DEF ReleaseUnauthenticated
    <3>2. nU' = nU - 1 /\ nV' = nV
      BY <3>1, MoveOut, MoveSame DEF nU, nV, UnauthenticatedStates, SuccessStates
    <3> QED BY <2>11, <3>2, <1>0 DEF ReleaseUnauthenticated
  <2>12. CASE LeaveUnauthenticated(c)
    <3>1. Goto(c, "authed", "between")
      BY <2>12 DEF LeaveUnauthenticated
    <3>2. nU' = nU - 1 /\ nV' = nV
      BY <3>1, MoveOut, MoveSame DEF nU, nV, UnauthenticatedStates, SuccessStates
    <3> QED BY <2>12, <3>2, <1>0 DEF LeaveUnauthenticated
  <2>13. CASE EnterSuccess(c)
    <3>1. PICK kind \in {"shell", "git"} : Goto(c, "between", kind)
      BY <2>13 DEF EnterSuccess
    <3>2. nU' = nU /\ nV' = nV + 1
      BY <3>1, MoveSame, MoveIn DEF nU, nV, UnauthenticatedStates, SuccessStates
    <3> QED BY <2>13, <3>2, <1>0 DEF EnterSuccess
  <2>14. CASE RefuseSuccess(c)
    <3>1. Goto(c, "between", "leaving")
      BY <2>14 DEF RefuseSuccess
    <3>2. nU' = nU /\ nV' = nV + 1
      BY <3>1, MoveIn, MoveSame DEF nU, nV, UnauthenticatedStates, SuccessStates
    <3> QED BY <2>14, <3>2, <1>0 DEF RefuseSuccess
  <2>15. CASE ReleaseSuccess(c)
    <3>1. Goto(c, "leaving", "closing")
      BY <2>15 DEF ReleaseSuccess
    <3>2. nU' = nU /\ nV' = nV - 1
      BY <3>1, MoveOut, MoveSame DEF nU, nV, UnauthenticatedStates, SuccessStates
    <3> QED BY <2>15, <3>2, <1>0 DEF ReleaseSuccess
  <2>16. CASE CloseConn(c)
    <3>1. Goto(c, "closing", "closed")
      BY <2>16 DEF CloseConn
    <3>2. nU' = nU /\ nV' = nV
      BY <3>1, MoveSame DEF nU, nV, UnauthenticatedStates, SuccessStates
    <3> QED BY <2>16, <3>2, <1>0 DEF CloseConn
  <2> QED BY <1>2, <2>1, <2>2, <2>3, <2>4, <2>5, <2>6, <2>7, <2>8, <2>9, <2>10, <2>11, <2>12, <2>13, <2>14, <2>15, <2>16, <2>17, <2>18
         DEF Step, Unwinding
<1> QED BY <1>1, <1>2 DEF Next

LEMMA CountersInit == Init => CountersExact
<1> SUFFICES ASSUME Init PROVE CountersExact
  OBVIOUS
<1>1. CountedUnauthenticated = {} /\ CountedSuccess = {}
  BY DEF Init, CountedUnauthenticated, CountedSuccess, In
<1> QED BY <1>1, FS_EmptySet DEF Init, CountersExact

\* Both atomics always equal the number of connections that hold them: no
\* path through StartSSHServer and handleConn leaks or double-frees a slot.
THEOREM CountersCorrect == Spec => []CountersExact
<1> QED BY TypedAlways, CountersInit, CountersStep, PTL DEF Spec

\* Every connection is in a known state and neither counter is ever negative.
THEOREM TypeCorrect == Spec => []TypeOK
<1>1. Typed /\ CountersExact => TypeOK
  BY InFinite DEF Typed, CountersExact, CountedUnauthenticated, CountedSuccess, TypeOK
<1> QED BY <1>1, TypedAlways, CountersCorrect, PTL

-----------------------------------------------------------------------------
(* The limits hold for the connections themselves.                         *)

\* A move that does not enter S leaves no more connections in S.
LEMMA MoveNotIn ==
    ASSUME NEW S, NEW c \in Conns, NEW from, NEW to, Typed, Goto(c, from, to),
           to \in S => from \in S
    PROVE  Cardinality(In(S))' <= Cardinality(In(S))
<1>1. CASE from \in S <=> to \in S
  BY <1>1, MoveSame, InFinite
<1>2. CASE from \in S /\ to \notin S
  BY <1>2, MoveOut, InFinite
<1> QED BY <1>1, <1>2

\* Fewer connections are in a smaller set of states.
LEMMA InMonotone ==
    ASSUME NEW S, NEW T, S \subseteq T
    PROVE  Cardinality(In(S)') <= Cardinality(In(T)')
<1>1. In(S)' \subseteq In(T)'
  BY DEF In
<1> QED BY <1>1, InFinite, FS_Subset

HandshakingStates == {"accepted", "handshake", "failed", "authed"}
ServingStates == {"shell", "git", "jammed"}

LEMMA HardLimitsStep ==
    Typed /\ CountersExact /\ CountersExact' /\ HardLimitsHold /\ [Next]_vars
        => HardLimitsHold'
<1> DEFINE H == Cardinality(In(HandshakingStates))
           W == Cardinality(In(ServingStates))
<1> SUFFICES ASSUME Typed, CountersExact, CountersExact', [Next]_vars,
                    hardMaxConn > 0 => H <= hardMaxConn,
                    hardMaxSuccConn > 0 => W <= hardMaxSuccConn
             PROVE  /\ hardMaxConn > 0 => H' <= hardMaxConn
                    /\ hardMaxSuccConn > 0 => W' <= hardMaxSuccConn
  BY DEF HardLimitsHold, Handshaking, Serving, HandshakingStates, ServingStates
<1>1. H \in Nat /\ W \in Nat /\ H' \in Nat /\ W' \in Nat
  BY InFinite
<1>2. H' <= connections' /\ W' <= succConnections'
  BY InMonotone DEF CountersExact, CountedUnauthenticated, CountedSuccess,
                    HandshakingStates, ServingStates
<1>3. connections \in Int /\ succConnections \in Int
  BY DEF Typed
<1>4. CASE UNCHANGED vars
  BY <1>4 DEF In, vars
<1>5. ASSUME NEW c \in Conns, Step(c)
      PROVE  /\ hardMaxConn > 0 => H' <= hardMaxConn
             /\ hardMaxSuccConn > 0 => W' <= hardMaxSuccConn
  <2>1. CASE AcceptOK(c)
    <3>1. hardMaxConn > 0 => connections + 1 <= hardMaxConn
      BY <2>1, <1>3, LimitsAreIntegers, LimitsAssumption, HardMaxAboveMax, AdmitBelowHardMax
         DEF AcceptOK, maxConn, hardMaxConn
    <3>2. W' <= W
      BY <2>1, MoveNotIn DEF AcceptOK, ServingStates
    <3> HIDE DEF H, W
    <3> QED BY <2>1, <3>1, <3>2, <1>1, <1>2, LimitsAreIntegers DEF AcceptOK
  <2>2. CASE EnterSuccess(c)
    <3>1. hardMaxSuccConn > 0 => succConnections + 1 <= hardMaxSuccConn
      BY <2>2, <1>3, LimitsAreIntegers, LimitsAssumption, HardMaxAboveMax, AdmitBelowHardMax
         DEF EnterSuccess, maxSuccConn, hardMaxSuccConn
    <3>2. PICK kind \in {"shell", "git"} : Goto(c, "between", kind)
      BY <2>2 DEF EnterSuccess
    <3>3. H' <= H
      BY <3>2, MoveNotIn DEF HandshakingStates
    <3> HIDE DEF H, W
    <3> QED BY <2>2, <3>1, <3>3, <1>1, <1>2, LimitsAreIntegers DEF EnterSuccess
  <2>3. CASE ~AcceptOK(c) /\ ~EnterSuccess(c)
    \* no other step enters either set
    <3>1. PICK from, to \in States :
             /\ Goto(c, from, to)
             /\ to \in HandshakingStates => from \in HandshakingStates
             /\ to \in ServingStates => from \in ServingStates
      BY <1>5, <2>3
         DEF Step, Unwinding, States, HandshakingStates, ServingStates,
             AcceptOverLimit, HandshakeFail, HandshakeOK, ShellEnds,
             ShellJams, JammedEnds, GitEnds, RatePass, RateRefuse, DropNotify,
             DropRelease, ReleaseUnauthenticated, LeaveUnauthenticated, RefuseSuccess,
             ReleaseSuccess, CloseConn
    <3>2. H' <= H /\ W' <= W
      BY <3>1, MoveNotIn
    <3> HIDE DEF H, W
    <3> QED BY <3>2, <1>1, LimitsAreIntegers
  <2> QED BY <2>1, <2>2, <2>3
<1> QED BY <1>4, <1>5 DEF Next

LEMMA HardLimitsInit == Init => HardLimitsHold
<1> SUFFICES ASSUME Init PROVE HardLimitsHold
  OBVIOUS
<1>1. Handshaking = {} /\ Serving = {}
  BY DEF Init, Handshaking, Serving, In
<1> QED BY <1>1, FS_EmptySet, LimitsAreIntegers DEF HardLimitsHold

\* hard_max bounds the connections being handshaken and the sessions being
\* served, for every configuration checkMaxConnections can be given.
THEOREM HardLimitsCorrect == Spec => []HardLimitsHold
<1> QED BY TypedAlways, CountersCorrect, HardLimitsInit, HardLimitsStep, PTL DEF Spec

\* No connection is turned away by a limit while fewer than max hold it.
THEOREM NoLossBelowMaxCorrect == Spec => NoLossBelowMax
<1> DEFINE A ==
      \A c \in Conns :
          /\ (pc[c] = "closed" /\ pc'[c] = "dropping" /\ maxConn > 0)
                => Cardinality(CountedUnauthenticated) >= maxConn
          /\ (pc[c] = "between" /\ pc'[c] = "leaving" /\ maxSuccConn > 0)
                => Cardinality(CountedSuccess) >= maxSuccConn
<1>1. ASSUME Typed, CountersExact, [Next]_vars PROVE [A]_vars
  <2> SUFFICES ASSUME NEW c \in Conns, NEW d \in Conns, Step(d), pc'[c] # pc[c]
               PROVE  /\ (pc[c] = "closed" /\ pc'[c] = "dropping" /\ maxConn > 0)
                            => connections >= maxConn
                      /\ (pc[c] = "between" /\ pc'[c] = "leaving" /\ maxSuccConn > 0)
                            => succConnections >= maxSuccConn
    BY <1>1 DEF Next, CountersExact
  <2>1. c = d
    BY <1>1 DEF Typed, Goto, Step, Unwinding, AcceptOK, AcceptOverLimit, EnterSuccess,
                HandshakeFail, HandshakeOK, ShellEnds, ShellJams, JammedEnds, GitEnds,
                RatePass, RateRefuse, DropNotify, DropRelease,
                ReleaseUnauthenticated, LeaveUnauthenticated,
                RefuseSuccess, ReleaseSuccess, CloseConn
  <2>2. ASSUME pc[c] = "closed", pc'[c] = "dropping", maxConn > 0
        PROVE  connections >= maxConn
    <3>1. AcceptOverLimit(c)
      BY <1>1, <2>1, <2>2 DEF Typed, Goto, Step, Unwinding, AcceptOK, EnterSuccess,
                HandshakeFail, HandshakeOK, ShellEnds, ShellJams, JammedEnds, GitEnds,
                RatePass, RateRefuse, DropNotify, DropRelease,
                ReleaseUnauthenticated, LeaveUnauthenticated,
                RefuseSuccess, ReleaseSuccess, CloseConn
    <3>2. connections \in Int /\ connections + 1 \in Int
      BY <1>1 DEF Typed
    <3>3. connections + 1 > maxConn
      BY <2>2, <3>1, <3>2, LimitsAreIntegers, RefuseAboveMax DEF AcceptOverLimit
    <3> QED BY <3>2, <3>3, LimitsAreIntegers
  <2>3. ASSUME pc[c] = "between", pc'[c] = "leaving", maxSuccConn > 0
        PROVE  succConnections >= maxSuccConn
    <3>1. RefuseSuccess(c)
      BY <1>1, <2>1, <2>3 DEF Typed, Goto, Step, Unwinding, AcceptOK, AcceptOverLimit, EnterSuccess,
                HandshakeFail, HandshakeOK, ShellEnds, ShellJams, JammedEnds, GitEnds,
                RatePass, RateRefuse, DropNotify, DropRelease,
                ReleaseUnauthenticated, LeaveUnauthenticated,
                ReleaseSuccess, CloseConn
    <3>2. succConnections \in Int /\ succConnections + 1 \in Int
      BY <1>1 DEF Typed
    <3>3. succConnections + 1 > maxSuccConn
      BY <2>3, <3>1, <3>2, LimitsAreIntegers, RefuseAboveMax DEF RefuseSuccess
    <3> QED BY <3>2, <3>3, LimitsAreIntegers
  <2> QED BY <2>2, <2>3
<1> QED BY <1>1, TypedAlways, CountersCorrect, PTL DEF Spec, NoLossBelowMax
=============================================================================
