------------------------- MODULE GitConnectionProofs ------------------------
(***************************************************************************)
(* TLAPS proofs about GitConnection: no timer, deadline or close of the    *)
(* connection handler cuts a Git session short, for any number of channels,*)
(* requests, blocks of data and faults.  Loops says where handleConn is    *)
(* relative to the session, Quiet which of the connection's timers are     *)
(* still armed, and Working what is kept up while a Git session works.     *)
(***************************************************************************)
EXTENDS GitConnection, TLAPS

\* A session is accepted by the first loop only, and once.
Loops ==
    /\ pc \in {"accept", "accepted"} => sess = "none"
    /\ sess = "none" => closing = "none" /\ grace = "off"
    /\ closeOnCancel = "waiting" => pc \notin {"ending", "cancelled", "returned"}

\* Before the session, TCP is closed by the mux, by a cancelled context or at
\* the end of handleConn; from StartSession on neither the idle timer nor,
\* for a Git session, a deadline that has not done so can strike.
Quiet ==
    /\ tcp \in {"open", "closed"} /\ mux \in {"up", "blocked", "down"}
    /\ sess = "none" /\ tcp = "closed" => mux = "down" \/ base \/ pc = "returned"
    /\ sess # "none" =>
          /\ idleTimer = "stopped"
          /\ routeGit => (deadline = "none" \/ late) /\ sess \notin {"shell", "bye"}

\* A Git session that nobody outside has ended, and whose channel-close is
\* not written yet.
Works ==
    /\ routeGit /\ ~base /\ peer = "up" /\ ~late
    /\ sess \in {"preExec", "reply", "backend", "exit", "close"}

\* ... has its connection, in the second loop, with no fallback armed.
Working ==
    Works => /\ tcp = "open" /\ mux # "down"
             /\ pc \in {"select", "answer"}
             /\ grace = "off"

NotCutInv == Loops /\ Quiet /\ Working

-----------------------------------------------------------------------------
LEMMA NotCutInit == Init => NotCutInv
  BY DEF Init, ConnInit, NotCutInv, Loops, Quiet, Working, Works

\* The steps of serveSSH and its goroutines do not touch the connection.
LEMMA BackendStep == NotCutInv /\ UNCHANGED connVars => NotCutInv'
  BY DEF NotCutInv, Loops, Quiet, Working, Works, connVars, loopVars, netVars, sessVars, ctxVars

LEMMA HandleConnStep == NotCutInv /\ HandleConn => NotCutInv'
<1> SUFFICES ASSUME NotCutInv, HandleConn PROVE NotCutInv'
  OBVIOUS
<1> USE DEF NotCutInv, Loops, Quiet, Working, Works, loopVars, netVars, sessVars, ctxVars
<1>1. CASE ReceiveChannel
  BY <1>1 DEF ReceiveChannel, SecondLoop
<1>2. CASE ReceiveRequest
  BY <1>2 DEF ReceiveRequest
<1>3. CASE Answer
  BY <1>3 DEF Answer
<1>4. CASE Accept
  BY <1>4 DEF Accept
<1>5. CASE StartSession
  BY <1>5 DEF StartSession, SessionDeadline
<1>6. CASE Return
  BY <1>6 DEF Return, MustReturn, ConnCtxDone, SecondLoop
<1>7. CASE CancelConn
  BY <1>7 DEF CancelConn
<1>8. CASE CloseConn
  BY <1>8 DEF CloseConn
<1>9. CASE CloseOnCancel
  BY <1>9 DEF CloseOnCancel, ConnCtxDone
<1> QED
  BY <1>1, <1>2, <1>3, <1>4, <1>5, <1>6, <1>7, <1>8, <1>9 DEF HandleConn

LEMMA SessionStep == NotCutInv /\ RunSession(BackendReturned) => NotCutInv'
<1> SUFFICES ASSUME NotCutInv, RunSession(BackendReturned) PROVE NotCutInv'
  OBVIOUS
<1> USE DEF NotCutInv, Loops, Quiet, Working, Works, loopVars, netVars, sessVars, ctxVars
<1>1. CASE ShellCancelled
  BY <1>1 DEF ShellCancelled
<1>2. CASE ShellEnds
  BY <1>2 DEF ShellEnds
<1>3. CASE ShellDone
  BY <1>3 DEF ShellDone
<1>4. CASE GitRefused
  BY <1>4 DEF GitRefused
<1>5. CASE GitPreExecEnds
  BY <1>5 DEF GitPreExecEnds
<1>6. CASE GitBackendDone(BackendReturned)
  BY <1>6 DEF GitBackendDone
<1>7. CASE GitAbandoned(BackendReturned)
  BY <1>7 DEF GitAbandoned
<1>8. CASE GitExitStatus
  BY <1>8 DEF GitExitStatus
<1>9. CASE ChannelCloseSent
  BY <1>9 DEF ChannelCloseSent
<1>10. CASE CloseReturns
  BY <1>10 DEF CloseReturns
<1>11. CASE CloseTimesOut
  BY <1>11 DEF CloseTimesOut
<1>12. CASE ForcedReturns
  BY <1>12 DEF ForcedReturns
<1>13. CASE GraceElapses
  BY <1>13 DEF GraceElapses
<1> QED
  BY <1>1, <1>2, <1>3, <1>4, <1>5, <1>6, <1>7, <1>8, <1>9, <1>10, <1>11, <1>12, <1>13
     DEF RunSession

\* The mux gives up only a connection that is dead, which a working Git
\* session's is not: no deadline runs and the peer is there.
LEMMA MuxAndClockStep == NotCutInv /\ (MuxFails \/ Clock) => NotCutInv'
<1> SUFFICES ASSUME NotCutInv, MuxFails \/ Clock PROVE NotCutInv'
  OBVIOUS
<1> USE DEF NotCutInv, Loops, Quiet, Working, Works, loopVars, netVars, sessVars, ctxVars
<1>1. CASE MuxFails
  BY <1>1 DEF MuxFails, Dead
<1>2. CASE Deadline
  BY <1>2 DEF Deadline
<1>3. CASE IdleTimerFires
  BY <1>3 DEF IdleTimerFires
<1>4. CASE TimeoutPasses
  BY <1>4 DEF TimeoutPasses
<1> QED
  BY <1>1, <1>2, <1>3, <1>4 DEF Clock

LEMMA StartBackendStep == NotCutInv /\ StartBackend => NotCutInv'
  BY DEF StartBackend, GitExec, NotCutInv, Loops, Quiet, Working, Works, loopVars, netVars, ctxVars

LEMMA PeerStep == NotCutInv /\ (PeerSteps \/ PeerGone \/ BaseCancelled) => NotCutInv'
<1> SUFFICES ASSUME NotCutInv, PeerSteps \/ PeerGone \/ BaseCancelled PROVE NotCutInv'
  OBVIOUS
<1> USE DEF NotCutInv, Loops, Quiet, Working, Works, loopVars, netVars, sessVars, ctxVars
<1>1. ASSUME NEW t \in {"session", "other"}, PeerOpens(t) PROVE NotCutInv'
  BY <1>1 DEF PeerOpens
<1>2. CASE PeerRequests
  BY <1>2 DEF PeerRequests
<1>3. CASE PeerClosesChannel
  BY <1>3 DEF PeerClosesChannel
<1>4. CASE PeerEOF
  BY <1>4 DEF PeerEOF
<1>5. CASE PeerStalls
  BY <1>5 DEF PeerStalls
<1>6. CASE PeerReadsAgain
  BY <1>6 DEF PeerReadsAgain
<1>7. CASE GitRequested
  BY <1>7 DEF GitRequested
<1>8. CASE ShellExits
  BY <1>8 DEF ShellExits
<1>9. CASE PeerGone
  BY <1>9 DEF PeerGone
<1>10. CASE BaseCancelled
  BY <1>10 DEF BaseCancelled
<1>11. CASE MuxBlocks
  BY <1>11 DEF MuxBlocks
<1> QED
  BY <1>1, <1>2, <1>3, <1>4, <1>5, <1>6, <1>7, <1>8, <1>9, <1>10, <1>11 DEF PeerSteps

LEMMA NotCutStep == NotCutInv /\ [Next]_vars => NotCutInv'
<1> SUFFICES ASSUME NotCutInv, [Next]_vars PROVE NotCutInv'
  OBVIOUS
<1>1. CASE Progress
  <2>1. CASE HandleConn \/ RunSession(BackendReturned) \/ MuxFails \/ Clock
    BY <2>1, HandleConnStep, SessionStep, MuxAndClockStep
  <2>2. CASE StartBackend
    BY <2>2, StartBackendStep
  <2>3. CASE UNCHANGED connVars
    BY <2>3, BackendStep
  <2> QED
    BY <1>1, <2>1, <2>2, <2>3 DEF Progress
<1>2. CASE Environment
  <2>1. CASE PeerSteps \/ PeerGone \/ BaseCancelled
    BY <2>1, PeerStep
  <2>2. CASE UNCHANGED connVars
    BY <2>2, BackendStep
  <2> QED
    BY <1>2, <2>1, <2>2 DEF Environment, Fault
<1>3. CASE UNCHANGED vars
  BY <1>3, BackendStep DEF vars
<1> QED
  BY <1>1, <1>2, <1>3 DEF Next

\* While a Git session works, only the client or the context ends its
\* connection: not the idle timer racing the accept, not the deadline that
\* StartSession clears, not the grace period of the close.
THEOREM GitSessionNotCutCorrect == Spec => []GitSessionNotCut
<1>1. NotCutInv => GitSessionNotCut
  BY DEF NotCutInv, Working, Works, GitSessionNotCut, ConnCtxDone
<1> QED
  BY <1>1, NotCutInit, NotCutStep, PTL DEF Spec
=============================================================================
