----------------------------- MODULE SSHServer ------------------------------
(***************************************************************************)
(* The accept loop of StartSSHServer and the accounting side of            *)
(* handleConn (ssh.go): one accept loop, one goroutine per connection, and *)
(* the two atomic counters they share.                                     *)
(*                                                                         *)
(* pc[c] is where connection c is:                                         *)
(*   closed      no TCP connection                                         *)
(*   accepted    counted and below the limit; the rate limiter is next     *)
(*   dropping    disconnectWithMaxConenctions is telling the client        *)
(*   dropped     socket closed, the counter not given back yet             *)
(*   handshake   inside ssh.NewServerConn, under the 10s deadline          *)
(*   failed      NewServerConn returned an error                           *)
(*   authed      authenticated, still counted as unauthenticated           *)
(*   between     in neither counter                                        *)
(*   shell, git  holding a success slot and serving                        *)
(*   jammed      a shell whose connection no longer reads: its mux loop is  *)
(*               in a send that nobody receives (modules Mux, ConnHandler) *)
(*   leaving     handleConn returns; the deferred decrement is next        *)
(*   closing     counters given back; the deferred Close is next           *)
(***************************************************************************)
EXTENDS ConnLimits, FiniteSets

CONSTANTS
    Conns,                              \* connections the clients may open
    Max, HardMax, LossRatio,            \* opt.MaxConnections
    MaxSucc, HardMaxSucc, SuccLossRatio, \* opt.MaxSuccConnections
    DefaultMaxConnections, DefaultHardMaxConnections,
    DefaultMaxSuccessConnections, DefaultHardMaxSucessConnections

ASSUME ConnsAssumption == IsFiniteSet(Conns)

ASSUME LimitsAssumption ==
    /\ Max \in Int /\ HardMax \in Int /\ LossRatio \in Int
    /\ MaxSucc \in Int /\ HardMaxSucc \in Int /\ SuccLossRatio \in Int
    /\ DefaultMaxConnections \in Nat \ {0}
    /\ DefaultHardMaxConnections \in Nat \ {0}
    /\ DefaultMaxSuccessConnections \in Nat \ {0}
    /\ DefaultHardMaxSucessConnections \in Nat \ {0}

VARIABLES
    pc,                 \* where each connection is
    connections,        \* atomic: unauthenticated connections
    succConnections     \* atomic: authenticated connections

vars == <<pc, connections, succConnections>>

maxConn == EffectiveMax(Max, DefaultMaxConnections)
hardMaxConn == EffectiveHardMax(HardMax, maxConn, DefaultHardMaxConnections)
lossRatio == EffectiveRatio(LossRatio)

maxSuccConn == EffectiveMax(MaxSucc, DefaultMaxSuccessConnections)
hardMaxSuccConn ==
    EffectiveHardMax(HardMaxSucc, maxSuccConn, DefaultHardMaxSucessConnections)
succLossRatio == EffectiveRatio(SuccLossRatio)

States == {"closed", "accepted", "dropping", "dropped", "handshake", "failed",
           "authed", "between", "shell", "git", "jammed", "leaving", "closing"}

Init ==
    /\ pc = [c \in Conns |-> "closed"]
    /\ connections = 0
    /\ succConnections = 0

Goto(c, from, to) ==
    /\ pc[c] = from
    /\ pc' = [pc EXCEPT ![c] = to]

-----------------------------------------------------------------------------
(* The accept loop.  It is one goroutine: it takes the next connection     *)
(* only after it has asked the rate limiter about the previous one.        *)

AcceptLoopFree == \A c \in Conns : pc[c] # "accepted"

AcceptOK(c) ==
    /\ AcceptLoopFree
    /\ MayAdmit(connections + 1, maxConn, hardMaxConn, lossRatio)
    /\ Goto(c, "closed", "accepted")
    /\ connections' = connections + 1
    /\ UNCHANGED succConnections

AcceptOverLimit(c) ==
    /\ AcceptLoopFree
    /\ MayRefuse(connections + 1, maxConn, hardMaxConn, lossRatio)
    /\ Goto(c, "closed", "dropping")
    /\ connections' = connections + 1
    /\ UNCHANGED succConnections

\* limiter.Allow(ip) answers yes: go handleConn
RatePass(c) ==
    /\ Goto(c, "accepted", "handshake")
    /\ UNCHANGED <<connections, succConnections>>

RateRefuse(c) ==
    /\ Goto(c, "accepted", "dropping")
    /\ UNCHANGED <<connections, succConnections>>

\* disconnectWithMaxConenctions: write the notice, close the socket
DropNotify(c) ==
    /\ Goto(c, "dropping", "dropped")
    /\ UNCHANGED <<connections, succConnections>>

DropRelease(c) ==
    /\ Goto(c, "dropped", "closed")
    /\ connections' = connections - 1
    /\ UNCHANGED succConnections

-----------------------------------------------------------------------------
(* handleConn                                                              *)

\* ssh.NewServerConn returned an error: bad client, no more tries, or the
\* handshake deadline.
HandshakeFail(c) ==
    /\ Goto(c, "handshake", "failed")
    /\ UNCHANGED <<connections, succConnections>>

\* the deferred function sees unauthenticated = true
ReleaseUnauthenticated(c) ==
    /\ Goto(c, "failed", "closing")
    /\ connections' = connections - 1
    /\ UNCHANGED succConnections

HandshakeOK(c) ==
    /\ Goto(c, "handshake", "authed")
    /\ UNCHANGED <<connections, succConnections>>

\* sshCtx.Connections.Add(-1); unauthenticated = false
LeaveUnauthenticated(c) ==
    /\ Goto(c, "authed", "between")
    /\ connections' = connections - 1
    /\ UNCHANGED succConnections

\* Mutant: the limit is checked against the count before the Add.
EnterSuccessStaleCount(c) ==
    /\ MayAdmit(succConnections, maxSuccConn, hardMaxSuccConn, succLossRatio)
    /\ \E kind \in {"shell", "git"} : Goto(c, "between", kind)
    /\ succConnections' = succConnections + 1
    /\ UNCHANGED connections

\* CheckMaxSuccussConnections says yes.  shouldRouteGitSession tells the two
\* kinds apart: a Git session has no time limit, any other one has.
EnterSuccess(c) ==
    /\ MayAdmit(succConnections + 1, maxSuccConn, hardMaxSuccConn, succLossRatio)
    /\ \E kind \in {"shell", "git"} : Goto(c, "between", kind)
    /\ succConnections' = succConnections + 1
    /\ UNCHANGED connections

\* Mutant: the deferred decrement is registered after the early return.
RefuseSuccessLeak(c) ==
    /\ MayRefuse(succConnections + 1, maxSuccConn, hardMaxSuccConn, succLossRatio)
    /\ Goto(c, "between", "closing")
    /\ succConnections' = succConnections + 1
    /\ UNCHANGED connections

\* CheckMaxSuccussConnections says no: the slot was taken all the same, and
\* the deferred decrement gives it back.
RefuseSuccess(c) ==
    /\ MayRefuse(succConnections + 1, maxSuccConn, hardMaxSuccConn, succLossRatio)
    /\ Goto(c, "between", "leaving")
    /\ succConnections' = succConnections + 1
    /\ UNCHANGED connections

ShellEnds(c) ==
    /\ Goto(c, "shell", "leaving")
    /\ UNCHANGED <<connections, succConnections>>

\* the client fills the request queue of a channel that nobody has: the session
\* sees neither its input nor the deadline any more
ShellJams(c) ==
    /\ Goto(c, "shell", "jammed")
    /\ UNCHANGED <<connections, succConnections>>

\* what the session had read before made it leave, or its context was cancelled
JammedEnds(c) ==
    /\ Goto(c, "jammed", "leaving")
    /\ UNCHANGED <<connections, succConnections>>

GitEnds(c) ==
    /\ Goto(c, "git", "leaving")
    /\ UNCHANGED <<connections, succConnections>>

\* defer sshCtx.SuccConnections.Add(-1)
ReleaseSuccess(c) ==
    /\ Goto(c, "leaving", "closing")
    /\ succConnections' = succConnections - 1
    /\ UNCHANGED connections

\* defer sshCtx.Close(), the first deferred call and so the last to run
CloseConn(c) ==
    /\ Goto(c, "closing", "closed")
    /\ UNCHANGED <<connections, succConnections>>

-----------------------------------------------------------------------------
(* The steps the server takes on its own: the handshake and a non-Git      *)
(* session end at their deadlines at the latest, as long as the mux loop   *)
(* is there to see them.  It is the client's doing when it is not.         *)

Unwinding(c) ==
    \/ RatePass(c) \/ RateRefuse(c)
    \/ DropNotify(c) \/ DropRelease(c)
    \/ ReleaseUnauthenticated(c) \/ LeaveUnauthenticated(c)
    \/ EnterSuccess(c) \/ RefuseSuccess(c)
    \/ ReleaseSuccess(c) \/ CloseConn(c)

\* Mutant: no deadline is set before ssh.NewServerConn.
ServerStepNoHandshakeDeadline(c) == Unwinding(c) \/ ShellEnds(c)

ServerStep(c) ==
    \/ Unwinding(c)
    \/ HandshakeFail(c) \/ HandshakeOK(c)
    \/ ShellEnds(c)

Step(c) ==
    \/ AcceptOK(c) \/ AcceptOverLimit(c)
    \/ HandshakeFail(c) \/ HandshakeOK(c)
    \/ ShellEnds(c) \/ ShellJams(c) \/ JammedEnds(c) \/ GitEnds(c)
    \/ Unwinding(c)

Next == \E c \in Conns : Step(c)

Spec == Init /\ [][Next]_vars

FairSpec == Spec /\ \A c \in Conns : WF_vars(ServerStep(c))

-----------------------------------------------------------------------------
In(S) == {c \in Conns : pc[c] \in S}

CountedUnauthenticated ==
    In({"accepted", "dropping", "dropped", "handshake", "failed", "authed"})
CountedSuccess == In({"shell", "git", "jammed", "leaving"})

\* connections that passed the limit and are not being turned away
Handshaking == In({"accepted", "handshake", "failed", "authed"})
Serving == In({"shell", "git", "jammed"})

\* Every connection is in a known state, and no counter goes below zero.
TypeOK ==
    /\ pc \in [Conns -> States]
    /\ connections \in Nat
    /\ succConnections \in Nat

\* Every path through the accept loop and handleConn - dropped, rate
\* limited, failed handshake, refused after authentication, served - gives
\* each counter back exactly once: at any moment, whatever the goroutines
\* interleave, the atomics count exactly the connections that hold them.
CountersExact ==
    /\ connections = Cardinality(CountedUnauthenticated)
    /\ succConnections = Cardinality(CountedSuccess)

\* The hard limits hold for the connections themselves, not only for the
\* counters: never more than hardMaxConn connections are being handshaken
\* and never more than hardMaxSuccConn are being served.
HardLimitsHold ==
    /\ hardMaxConn > 0 => Cardinality(Handshaking) <= hardMaxConn
    /\ hardMaxSuccConn > 0 => Cardinality(Serving) <= hardMaxSuccConn

\* Below the soft limit nobody is lost to it: a connection is turned away
\* by the connection limit only while at least max others really hold a
\* slot, on the accept side and after authentication.
NoLossBelowMax ==
    [][\A c \in Conns :
          /\ (pc[c] = "closed" /\ pc'[c] = "dropping" /\ maxConn > 0)
                => Cardinality(CountedUnauthenticated) >= maxConn
          /\ (pc[c] = "between" /\ pc'[c] = "leaving" /\ maxSuccConn > 0)
                => Cardinality(CountedSuccess) >= maxSuccConn]_vars

\* A connection always goes away again, and with it the slot it holds: silence
\* in the handshake or in a shell pins none.  Two kinds stay as long as their
\* client wants: Git sessions, and a shell whose client has jammed the mux loop
\* of the connection, which neither the deadline nor the close of TCP wakes.
SlotsRecovered ==
    \A c \in Conns : pc[c] # "closed" ~> (pc[c] \in {"closed", "git", "jammed"})

\* README.md, "max connections": "when connections equal or larger than
\* `hard_max` it [the loss ratio] will reach `1.0`" - so no connection that
\* makes the count reach hard_max is let in.
LossReachesOneAtHardMax ==
    [][\A c \in Conns :
          (pc[c] = "closed" /\ pc'[c] = "accepted")
             => connections' < hardMaxConn]_vars
=============================================================================
