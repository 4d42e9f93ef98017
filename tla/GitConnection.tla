--------------------------- MODULE GitConnection ----------------------------
(***************************************************************************)
(* One authenticated connection with everything that runs for it: the      *)
(* connection handler and its session (ConnHandler) and, for a Git session *)
(* served by a remote server, serveSSH with its goroutines (SSHBackend).   *)
(* They meet in the backend's context, in the frontend channel and in the  *)
(* backend's result.                                                       *)
(***************************************************************************)
EXTENDS ConnHandler, SSHBackend, FiniteSets

CONSTANT MaxFaults      \* bound: the client or the remote server leaves, the context ends

vars == <<connVars, backendVars>>

Init == ConnInit /\ BackendInit

\* backendCtx.Done(): connCtx, or the deferred cancelBackend
BackendCtxDone == ConnCtxDone \/ sess \in {"close", "forced", "done"}

BackendReturned == at = "returned"

\* the exec is accepted: runBackend is called in its goroutine
StartBackend ==
    /\ GitExec
    /\ at' = "key"
    /\ UNCHANGED <<draining, call, conn, remote, timed, streams>>

\* ch.close of the frontend channel: reads end and blocked writes fail
FrontClosed == channel = "closed"

\* data of the client reaches the pipe; data for it leaves
ClientSends == PipeReads /\ ~eof /\ ~FrontClosed /\ ~Dead
ClientTakes == OutWrites /\ stall # "stalled" /\ ~FrontClosed /\ ~Dead

\* What the program's goroutines and timers do by themselves.
Progress ==
    \/ (HandleConn \/ RunSession(BackendReturned) \/ MuxFails \/ Clock) /\ UNCHANGED backendVars
    \/ StartBackend
    \/ /\ \/ ServeSSH(BackendCtxDone) \/ BackendDeadline
          \/ Copying(FrontClosed, eof \/ FrontClosed)
       /\ UNCHANGED connVars

\* faults so far, besides a client that stops reading
Faults == Cardinality({f \in {"peer", "ctx", "remote"} :
    CASE f = "peer" -> peer = "gone" [] f = "ctx" -> base [] f = "remote" -> remote = "gone"})

Fault ==
    /\ Faults < MaxFaults
    /\ \/ (PeerGone \/ BaseCancelled) /\ UNCHANGED backendVars
       \/ RemoteGone /\ UNCHANGED connVars

Environment ==
    \/ Fault
    \/ PeerSteps /\ UNCHANGED backendVars
    \/ (RemoteSteps \/ ClientSends \/ ClientTakes) /\ UNCHANGED connVars

\* everything has come to rest
Ended ==
    /\ pc = "returned" /\ tcp = "closed" /\ mux = "down"
    /\ sess \in {"none", "done"} /\ closing # "busy" /\ closeOnCancel # "waiting"
    /\ BackendGone

\* The mux loop is stuck in a send, which no close of the connection wakes, and
\* what waits for it to close the channel stays: the shell, a backend's copying,
\* and handleConn (with its slot) once there is a session.  The idle timer and
\* the context still get handleConn out, and a Git session its timer.
Jammed ==
    /\ mux = "blocked" /\ sess \in {"none", "shell", "backend", "done"}
    /\ base => sess # "backend"
    /\ base \/ sess = "none" => pc = "returned" /\ tcp = "closed"

Next == Progress \/ Environment \/ ((Ended \/ Jammed) /\ UNCHANGED vars)

\* Goroutines run, timers fire and blocked calls return once they can.
\* Nothing is assumed of the client, the remote server or the context.
Spec == Init /\ [][Next]_vars /\ WF_vars(Progress)

-----------------------------------------------------------------------------
\* The work of a Git session is not cut short by the connection's own timers
\* and closes.  While the session waits for its exec or for the backend, the
\* connection is up unless the client or the context ended it, or the pre-
\* session deadline struck before it was cleared (handleConn: the idle timer
\* racing the accept, SetDeadline(time.Time{})).  And TCP is not closed under
\* an exit-status still to be written, or a channel-close that Close still
\* waits for, unless the client has stopped reading
\* (transportClosingChannel.Close, its timer and its grace period).
GitSessionNotCut ==
    (routeGit /\ ~base /\ peer = "up" /\ ~late) =>
       /\ sess \in {"preExec", "reply", "backend"} => tcp = "open" /\ mux # "down" /\ ~ConnCtxDone
       /\ sess \in {"exit", "close"} /\ stall = "never" => tcp = "open"

ClientThere == peer = "up" /\ tcp = "open" /\ ~base

\* a backend still works for the Git session of a client that is there
Serving == sess = "backend" /\ ~BackendReturned /\ channel = "open" /\ ClientThere

\* HandleSession writes a reply or the exit-status to a client that stopped
\* reading: no deadline is set and no timer runs before Close
Unread == sess \in {"reply", "exit"} /\ stall = "stalled" /\ ClientThere

\* Every connection is given up: in the end either a backend works for a
\* client that is there, or HandleSession writes to one that does not read,
\* or the client has jammed the mux loop, or handleConn has returned (and with
\* it the success slot), TCP is closed, and no goroutine of the session, of
\* serveSSH or of its copying is left, whatever blocked it: the client not
\* reading or not acknowledging the close, the remote server silent in any
\* phase (handleConn, transportClosingChannel.Close, serveSSH's branches on
\* ctx.Done()).
ConnectionReleased == <>[](Ended \/ Serving \/ Unread \/ Jammed)
=============================================================================
