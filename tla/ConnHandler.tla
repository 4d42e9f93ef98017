---------------------------- MODULE ConnHandler -----------------------------
(***************************************************************************)
(* handleConn of ssh.go from the moment the connection is authenticated    *)
(* and admitted: its two select loops, the timers and deadlines, the       *)
(* goroutine of the session and every way the TCP connection is closed.    *)
(*                                                                         *)
(* pc is handleConn:                                                       *)
(*   select            in either loop: the second one once sess # "none"   *)
(*   accept, accepted  in ch.Accept; after it                              *)
(*   answer            rejecting a channel or replying to a request        *)
(*   ending, cancelled, returned     the deferred calls                    *)
(* sess is the session's goroutine:                                        *)
(*   none, shell       serveFakeShell                                      *)
(*   preExec, reply, backend, exit   HandleSession (module GitSession)     *)
(*   close, forced     transportClosingChannel.Close; channel.Close of a   *)
(*   bye               shell session                                       *)
(*   done              sessionDone is closed                               *)
(* Writes block while the peer does not read its TCP connection.  The mux  *)
(* loop is stuck for good once it has a request, or a channel, for a full  *)
(* Go channel that nobody receives from any more (module Mux).             *)
(***************************************************************************)
EXTENDS Naturals, Sequences

CONSTANT MaxOffers      \* bound: channels and global requests the peer asks for, and
                        \* requests with which it fills a queue

VARIABLES pc, sess,
    routeGit,       \* shouldRouteGitSession
    peer,           \* up, gone
    stall,          \* whether the peer has stopped reading: never, stalled, over
    chs, reqs,      \* channel opens and global requests not received yet
    asked,          \* how many of them the peer has sent
    mux,            \* the mux loop of the connection: up, blocked, down
    tcp,            \* open, closed
    deadline,       \* of the TCP connection: none, set, passed
    idleTimer,      \* armed, fired, stopped
    base,           \* the connection's base context is cancelled
    closeOnCancel,  \* connCtx's AfterFunc: waiting, stopped, ran
    channel,        \* the accepted session channel: open, closed (by the peer or the mux)
    eof,            \* the peer's data on it has ended
    timeout,        \* sessionCtx of a shell session, preExecTimer of a Git session: off, set, passed
    closing,        \* the goroutine sending channel-close: none, busy, done
    grace,          \* the bounded transport fallback: off, armed, fired
    late            \* history: the session was started on a dead connection

loopVars == <<pc, routeGit, chs, reqs, asked, idleTimer>>
netVars == <<peer, stall, mux, tcp, deadline, channel, eof>>
sessVars == <<sess, timeout, closing, grace, late>>
ctxVars == <<base, closeOnCancel>>
connVars == <<loopVars, netVars, sessVars, ctxVars>>

ConnInit ==
    /\ pc = "select" /\ sess = "none"
    /\ routeGit \in BOOLEAN
    /\ peer = "up" /\ stall = "never"
    /\ chs = <<>> /\ reqs = 0 /\ asked = 0
    /\ mux = "up" /\ tcp = "open"
    /\ deadline = "set" /\ idleTimer = "armed"
    /\ base = FALSE /\ closeOnCancel = "waiting"
    /\ channel = "open" /\ eof = FALSE
    /\ timeout = "off" /\ closing = "none" /\ grace = "off" /\ late = FALSE

\* connCtx.Done(): cancelled from outside or by the deferred cancelConn
ConnCtxDone == base \/ pc \in {"cancelled", "returned"}

\* a read or write on the connection fails, or a write goes through
Dead == tcp = "closed" \/ peer = "gone" \/ deadline = "passed"
WriteReturns == Dead \/ stall # "stalled"

-----------------------------------------------------------------------------
(* handleConn                                                              *)

SecondLoop == sess # "none"

\* <-chs: the first session channel is accepted, any other one rejected
ReceiveChannel ==
    /\ pc = "select" /\ chs # <<>>
    /\ chs' = Tail(chs)
    /\ pc' = IF ~SecondLoop /\ Head(chs) = "session" THEN "accept" ELSE "answer"
    /\ UNCHANGED <<routeGit, reqs, asked, idleTimer, netVars, sessVars, ctxVars>>

\* <-reqs: replyGlobalRequest
ReceiveRequest ==
    /\ pc = "select" /\ reqs > 0
    /\ reqs' = reqs - 1
    /\ pc' = "answer"
    /\ UNCHANGED <<routeGit, chs, asked, idleTimer, netVars, sessVars, ctxVars>>

Answer ==
    /\ pc = "answer" /\ WriteReturns
    /\ pc' = "select"
    /\ UNCHANGED <<routeGit, chs, reqs, asked, idleTimer, netVars, sessVars, ctxVars>>

\* ch.Accept: the confirmation is written, or Accept fails and the loop goes on.
\* The first write to fail is reported only to those that come after it.
Accept ==
    /\ pc = "accept" /\ WriteReturns
    /\ pc' \in (IF Dead THEN {"select", "accepted"} ELSE {"accepted"})
    /\ UNCHANGED <<routeGit, chs, reqs, asked, idleTimer, netVars, sessVars, ctxVars>>

\* Mutant: a Git session keeps a deadline like any other session.
SessionDeadlineAlways == "set"

\* SetDeadline: cleared for a Git session, pushed back for a shell
SessionDeadline == IF routeGit THEN "none" ELSE "set"

\* the idle timer is stopped and drained, the session's goroutine started; a
\* deadline that has struck is not undone, the transport keeps its error
StartSession ==
    /\ pc = "accepted"
    /\ pc' = "select" /\ idleTimer' = "stopped"
    /\ deadline' = IF deadline = "passed" THEN "passed" ELSE SessionDeadline
    /\ sess' = IF routeGit THEN "preExec" ELSE "shell"
    /\ timeout' = "set"
    /\ late' = (mux = "down" \/ deadline = "passed")
    /\ UNCHANGED <<routeGit, chs, reqs, asked, peer, stall, mux, tcp, channel, eof,
                   closing, grace, ctxVars>>

\* what ends the loops: the streams close, the context, the idle timer in
\* the first loop, and in the second the end of a session that is not Git's
MustReturn ==
    \/ mux = "down" /\ (chs = <<>> \/ reqs = 0)
    \/ ConnCtxDone
    \/ ~SecondLoop /\ idleTimer = "fired"
    \/ sess = "done" /\ ~routeGit

\* defer idleTimer.Stop, stopCloseOnCancel
Return ==
    /\ pc = "select" /\ MustReturn
    /\ pc' = "ending" /\ idleTimer' = "stopped"
    /\ closeOnCancel' = IF closeOnCancel = "waiting" THEN "stopped" ELSE closeOnCancel
    /\ UNCHANGED <<routeGit, chs, reqs, asked, netVars, sessVars, base>>

\* defer cancelConn, and SuccConnections.Add(-1)
CancelConn ==
    /\ pc = "ending"
    /\ pc' = "cancelled"
    /\ UNCHANGED <<routeGit, chs, reqs, asked, idleTimer, netVars, sessVars, ctxVars>>

\* defer sshCtx.Close
CloseConn ==
    /\ pc = "cancelled"
    /\ pc' = "returned" /\ tcp' = "closed"
    /\ UNCHANGED <<routeGit, chs, reqs, asked, idleTimer,
                   peer, stall, mux, deadline, channel, eof, sessVars, ctxVars>>

\* connCtx's AfterFunc closes the transport under whoever is blocked on it
CloseOnCancel ==
    /\ closeOnCancel = "waiting" /\ ConnCtxDone
    /\ closeOnCancel' = "ran" /\ tcp' = "closed"
    /\ UNCHANGED <<loopVars, peer, stall, mux, deadline, channel, eof, sessVars, base>>

HandleConn ==
    \/ ReceiveChannel \/ ReceiveRequest \/ Answer \/ Accept \/ StartSession
    \/ Return \/ CancelConn \/ CloseConn \/ CloseOnCancel

-----------------------------------------------------------------------------
(* The session's goroutine.  HandleSession is kept to what it waits for:   *)
(* returned says that its backend has returned.                            *)

\* sessionCtx is done: the watcher of serveFakeShell sends channel-close
ShellCtxDone == timeout = "passed" \/ ConnCtxDone

ShellCancelled ==
    /\ sess = "shell" /\ ShellCtxDone /\ closing = "none"
    /\ closing' = "busy"
    /\ UNCHANGED <<loopVars, netVars, sess, timeout, grace, late, ctxVars>>

\* RunLoop or io.Copy sees the end of the data
ShellEnds ==
    /\ sess = "shell" /\ (channel = "closed" \/ (eof /\ WriteReturns))
    /\ sess' = "bye"
    /\ UNCHANGED <<loopVars, netVars, timeout, closing, grace, late, ctxVars>>

\* the client leaves the shell
ShellExits ==
    /\ sess = "shell" /\ ~Dead
    /\ sess' = "bye"
    /\ UNCHANGED <<loopVars, netVars, timeout, closing, grace, late, ctxVars>>

\* defer channel.Close, cancelSession, close(sessionDone)
ShellDone ==
    /\ sess = "bye" /\ WriteReturns
    /\ sess' = "done"
    /\ UNCHANGED <<loopVars, netVars, timeout, closing, grace, late, ctxVars>>

\* the peer's exec or a request to refuse arrives; the reply is a write
GitRequested ==
    /\ sess = "preExec" /\ channel = "open" /\ ~Dead
    /\ sess' = "reply"
    /\ UNCHANGED <<loopVars, netVars, timeout, closing, grace, late, ctxVars>>

\* exec is granted; the runner is started (by the composition)
GitExec ==
    /\ sess = "reply" /\ WriteReturns
    /\ sess' = "backend" /\ timeout' = "off"
    /\ UNCHANGED <<loopVars, netVars, closing, grace, late, ctxVars>>

GitRefused ==
    /\ sess = "reply" /\ WriteReturns
    /\ sess' = "close" /\ closing' = "busy"
    /\ UNCHANGED <<loopVars, netVars, timeout, grace, late, ctxVars>>

\* preExecTimer, ctx or the end of the request stream
GitPreExecEnds ==
    /\ sess = "preExec"
    /\ timeout = "passed" \/ ConnCtxDone \/ channel = "closed"
    /\ sess' = "close" /\ closing' = "busy"
    /\ UNCHANGED <<loopVars, netVars, timeout, grace, late, ctxVars>>

GitBackendDone(returned) ==
    /\ sess = "backend" /\ returned
    /\ sess' = "exit"
    /\ UNCHANGED <<loopVars, netVars, timeout, closing, grace, late, ctxVars>>

\* the request stream is closed, or ctx ended with the backend still running
GitAbandoned(returned) ==
    /\ sess = "backend"
    /\ channel = "closed" \/ (ConnCtxDone /\ ~returned)
    /\ sess' = "close" /\ closing' = "busy"
    /\ UNCHANGED <<loopVars, netVars, timeout, grace, late, ctxVars>>

\* exit-status is written, then Close starts channel.Close
GitExitStatus ==
    /\ sess = "exit" /\ WriteReturns
    /\ sess' = "close" /\ closing' = "busy"
    /\ UNCHANGED <<loopVars, netVars, timeout, grace, late, ctxVars>>

\* channel.Close returns in its goroutine
ChannelCloseSent ==
    /\ closing = "busy" /\ WriteReturns
    /\ closing' = "done"
    /\ UNCHANGED <<loopVars, netVars, sess, timeout, grace, late, ctxVars>>

\* <-channelDone: the transport is left to the peer, and to AfterFunc
CloseReturns ==
    /\ sess = "close" /\ closing = "done"
    /\ sess' = "done" /\ grace' = "armed"
    /\ UNCHANGED <<loopVars, netVars, timeout, closing, late, ctxVars>>

\* <-closeTimer.C: the write path is blocked, or slower than the timer: the
\* transport is closed
CloseTimesOut ==
    /\ sess = "close" /\ closing = "busy"
    /\ sess' = "forced" /\ tcp' = "closed"
    /\ UNCHANGED <<loopVars, peer, stall, mux, deadline, channel, eof,
                   timeout, closing, grace, late, ctxVars>>

\* channelDone, or the second grace period
ForcedReturns ==
    /\ sess = "forced"
    /\ sess' = "done"
    /\ UNCHANGED <<loopVars, netVars, timeout, closing, grace, late, ctxVars>>

GraceElapses ==
    /\ grace = "armed"
    /\ grace' = "fired" /\ tcp' = "closed"
    /\ UNCHANGED <<loopVars, peer, stall, mux, deadline, channel, eof,
                   sess, timeout, closing, late, ctxVars>>

RunSession(returned) ==
    \/ ShellCancelled \/ ShellEnds \/ ShellDone
    \/ GitRefused \/ GitPreExecEnds \/ GitBackendDone(returned) \/ GitAbandoned(returned) \/ GitExitStatus
    \/ ChannelCloseSent \/ CloseReturns \/ CloseTimesOut \/ ForcedReturns \/ GraceElapses

-----------------------------------------------------------------------------
(* The mux of the connection, the clock and the peer                       *)

\* The loop waits with a request for a channel that nobody has (rejected, or of a
\* session that is over), or with what handleConn no longer receives.
MuxBlocks ==
    /\ mux = "up" /\ asked < MaxOffers
    /\ mux' = "blocked" /\ asked' = asked + 1
    /\ UNCHANGED <<pc, routeGit, chs, reqs, idleTimer,
                   peer, stall, tcp, deadline, channel, eof, sessVars, ctxVars>>

\* The loop's read fails: streams and channels are closed, and the connection.
MuxFails ==
    /\ mux = "up" /\ Dead
    /\ mux' = "down" /\ tcp' = "closed" /\ channel' = "closed"
    /\ UNCHANGED <<loopVars, peer, stall, deadline, eof, sessVars, ctxVars>>

Deadline ==
    /\ deadline = "set" /\ tcp = "open"
    /\ deadline' = "passed"
    /\ UNCHANGED <<loopVars, peer, stall, mux, tcp, channel, eof, sessVars, ctxVars>>

IdleTimerFires ==
    /\ idleTimer = "armed"
    /\ idleTimer' = "fired"
    /\ UNCHANGED <<pc, routeGit, chs, reqs, asked, netVars, sessVars, ctxVars>>

TimeoutPasses ==
    /\ timeout = "set" /\ sess \in {"shell", "preExec", "reply"}
    /\ timeout' = "passed"
    /\ UNCHANGED <<loopVars, netVars, sess, closing, grace, late, ctxVars>>

Clock == Deadline \/ IdleTimerFires \/ TimeoutPasses

CanAsk == mux = "up" /\ ~Dead /\ asked < MaxOffers

PeerOpens(t) ==
    /\ CanAsk
    /\ chs' = Append(chs, t) /\ asked' = asked + 1
    /\ UNCHANGED <<pc, routeGit, reqs, idleTimer, netVars, sessVars, ctxVars>>

PeerRequests ==
    /\ CanAsk
    /\ reqs' = reqs + 1 /\ asked' = asked + 1
    /\ UNCHANGED <<pc, routeGit, chs, idleTimer, netVars, sessVars, ctxVars>>

\* the peer's own channel-close, which the loop answers, or its acknowledgement
PeerClosesChannel ==
    /\ mux = "up" /\ ~Dead /\ stall # "stalled" /\ sess # "none" /\ channel = "open"
    /\ channel' = "closed"
    /\ UNCHANGED <<loopVars, peer, stall, mux, tcp, deadline, eof, sessVars, ctxVars>>

PeerEOF ==
    /\ mux = "up" /\ ~Dead /\ sess # "none" /\ ~eof
    /\ eof' = TRUE
    /\ UNCHANGED <<loopVars, peer, stall, mux, tcp, deadline, channel, sessVars, ctxVars>>

PeerStalls ==
    /\ stall = "never" /\ peer = "up" /\ tcp = "open"
    /\ stall' = "stalled"
    /\ UNCHANGED <<loopVars, peer, mux, tcp, deadline, channel, eof, sessVars, ctxVars>>

PeerReadsAgain ==
    /\ stall = "stalled" /\ peer = "up" /\ tcp = "open"
    /\ stall' = "over"
    /\ UNCHANGED <<loopVars, peer, mux, tcp, deadline, channel, eof, sessVars, ctxVars>>

PeerGone ==
    /\ peer = "up" /\ tcp = "open"
    /\ peer' = "gone"
    /\ UNCHANGED <<loopVars, stall, mux, tcp, deadline, channel, eof, sessVars, ctxVars>>

BaseCancelled ==
    /\ ~base
    /\ base' = TRUE
    /\ UNCHANGED <<loopVars, netVars, sessVars, closeOnCancel>>

PeerSteps ==
    \/ \E t \in {"session", "other"} : PeerOpens(t)
    \/ PeerRequests \/ MuxBlocks \/ PeerClosesChannel \/ PeerEOF \/ PeerStalls \/ PeerReadsAgain
    \/ GitRequested \/ ShellExits
=============================================================================
