----------------------------- MODULE SSHBackend -----------------------------
(***************************************************************************)
(* serveSSH of the Git server (modules/gitserver/backend_ssh.go) with the  *)
(* Session it runs the command in (third/ssh/session.go): one command on a *)
(* remote SSH server, its streams joined to the frontend channel.          *)
(*                                                                         *)
(* Every blocking call runs in a goroutine of its own while serveSSH waits *)
(* for its result or for ctx.  at names the call it waits for:             *)
(*   off, key, dial       not called yet; reading files; in DialContext    *)
(*   handshake, open, setenv, exec, wait    the call in the goroutine      *)
(*   leave, returned      the deferred closes                              *)
(* draining says that ctx was seen and only the goroutine is waited for.   *)
(* exec and wait are both session.Run.  The packets sent to the remote     *)
(* server outside the stdin stream are few and small: they never block.    *)
(***************************************************************************)
EXTENDS Naturals

CONSTANT MaxChunks      \* bound: blocks of data in either direction

VARIABLES at, draining,
    call,       \* the goroutine: none, busy, ok, err
    conn,       \* the connection to the remote server: none, open, closed
    remote,     \* up, or gone: it closed the connection
    timed,      \* the handshake's deadline: none, set, passed
    exited,     \* session.wait has returned: the session channel is closed
    pipe,       \* goroutine copying the frontend into the stdin pipe: none, read, write, done
    pipeClosed, \* the pipe's writer is closed
    in, out,    \* copyFuncs: none, read, write, done (out stands for stdout and stderr)
    moved       \* blocks of data read so far

streams == <<exited, pipe, pipeClosed, in, out, moved>>
backendVars == <<at, draining, call, conn, remote, timed, streams>>

BackendInit ==
    /\ at = "off" /\ draining = FALSE /\ call = "none"
    /\ conn = "none" /\ remote = "up" /\ timed = "none"
    /\ exited = FALSE /\ pipe = "none" /\ pipeClosed = FALSE
    /\ in = "none" /\ out = "none" /\ moved = 0

Calls == {"handshake", "open", "setenv", "exec", "wait"}

\* the call that follows one that returned nil: Setenv is made only for a
\* client that negotiated GIT_PROTOCOL=version=2, and without a valid command
\* (buildBackendCommand) nothing is run
NextCalls(c) ==
    CASE c = "handshake" -> {"open"}
      [] c = "open" -> {"setenv", "exec", "leave"}
      [] c = "setenv" -> {"exec", "leave"}

\* Reads and writes on the connection fail.
Broken == conn = "closed" \/ remote = "gone" \/ timed = "passed"

-----------------------------------------------------------------------------
(* serveSSH                                                                *)

\* the key file and known_hosts are read and parsed, or the session fails
ReadFiles ==
    /\ at = "key"
    /\ at' \in {"dial", "returned"}
    /\ UNCHANGED <<draining, call, conn, remote, timed, streams>>

\* DialContext connects; the deadline is set and NewClientConn started
DialSucceeds ==
    /\ at = "dial"
    /\ at' = "handshake" /\ call' = "busy"
    /\ conn' = "open" /\ timed' = "set"
    /\ UNCHANGED <<draining, remote, streams>>

\* refused, timed out (Dialer.Timeout is always positive) or cancelled
DialFails ==
    /\ at = "dial"
    /\ at' = "returned"
    /\ UNCHANGED <<draining, call, conn, remote, timed, streams>>

\* the goroutine's result is nil: the deadline is cleared after the
\* handshake, and the next call started
CallReturnsNil ==
    /\ at \in Calls \ {"exec", "wait"} /\ ~draining /\ call = "ok"
    /\ at' \in NextCalls(at)
    /\ call' = IF at' = "leave" THEN "none" ELSE "busy"
    /\ timed' = "none"
    /\ UNCHANGED <<draining, conn, remote, streams>>

\* session.Run has returned, or a call failed
CallReturnsLast ==
    /\ at \in Calls /\ ~draining
    /\ call = "err" \/ (at = "wait" /\ call = "ok")
    /\ at' = "leave"
    /\ UNCHANGED <<draining, call, conn, remote, timed, streams>>

\* Mutant: the call is waited for, but what it blocks on stays open.
CallCancelledNotClosed(done) ==
    /\ at \in Calls /\ ~draining /\ done
    /\ draining' = TRUE
    /\ UNCHANGED <<at, call, conn, remote, timed, streams>>

\* ctx.Done(): conn (or client) is closed under the call
CallCancelled(done) ==
    /\ at \in Calls /\ ~draining /\ done
    /\ draining' = TRUE /\ conn' = "closed"
    /\ UNCHANGED <<at, call, remote, timed, streams>>

\* the goroutine is joined
CallDrained ==
    /\ draining /\ at \in Calls /\ call \in {"ok", "err"}
    /\ at' = "leave"
    /\ UNCHANGED <<draining, call, conn, remote, timed, streams>>

\* defer session.Close, client.Close
Leave ==
    /\ at = "leave"
    /\ at' = "returned" /\ conn' = "closed"
    /\ UNCHANGED <<draining, call, remote, timed, streams>>

ServeSSH(done) ==
    \/ ReadFiles \/ DialFails \/ CallReturnsNil \/ CallReturnsLast
    \/ CallCancelled(done) \/ CallDrained \/ Leave

-----------------------------------------------------------------------------
(* The calls, in their goroutines                                          *)

\* Handshake, channel open, Setenv: the remote server agrees or refuses.
RemoteAnswers ==
    /\ at \in Calls \ {"exec", "wait"} /\ call = "busy" /\ ~Broken
    /\ call' \in {"ok", "err"}
    /\ UNCHANGED <<at, draining, conn, remote, timed, streams>>

RemoteRefusesExec ==
    /\ at = "exec" /\ call = "busy" /\ ~Broken
    /\ call' = "err"
    /\ UNCHANGED <<at, draining, conn, remote, timed, streams>>

\* Start: the reply is true and the goroutines that copy are started
RemoteRuns ==
    /\ at = "exec" /\ call = "busy" /\ ~Broken
    /\ at' = "wait"
    /\ pipe' = "read" /\ in' = "read" /\ out' = "read"
    /\ UNCHANGED <<draining, call, conn, remote, timed, exited, pipeClosed, moved>>

\* A failed handshake closes the connection; the others only report.
CallFails ==
    /\ at \in Calls \ {"wait"} /\ call = "busy" /\ Broken
    /\ call' = "err"
    /\ conn' = IF at = "handshake" THEN "closed" ELSE conn
    /\ UNCHANGED <<at, draining, remote, timed, streams>>

\* the command ends: exit-status or exit-signal, then channel-close
RemoteExits ==
    /\ at = "wait" /\ ~exited /\ ~Broken
    /\ exited' = TRUE
    /\ UNCHANGED <<at, draining, call, conn, remote, timed, pipe, pipeClosed, in, out, moved>>

\* the requests of the session end with the connection
WaitFails ==
    /\ at = "wait" /\ ~exited /\ Broken
    /\ exited' = TRUE
    /\ UNCHANGED <<at, draining, call, conn, remote, timed, pipe, pipeClosed, in, out, moved>>

\* Wait: exitStatus is there, the pipe's writer is closed
ClosePipe ==
    /\ at = "wait" /\ exited /\ ~pipeClosed /\ call = "busy"
    /\ pipeClosed' = TRUE
    /\ UNCHANGED <<at, draining, call, conn, remote, timed, exited, pipe, in, out, moved>>

\* Wait: the copyFuncs are joined
WaitReturns ==
    /\ at = "wait" /\ call = "busy"
    /\ exited /\ pipeClosed /\ in = "done" /\ out = "done"
    /\ call' \in {"ok", "err"}
    /\ UNCHANGED <<at, draining, conn, remote, timed, streams>>

\* the session channel of the remote server carries nothing more
SessionOver == exited \/ Broken

\* io.Copy(w, s.Stdin): the client sent data, which the pipe's reader takes
PipeReads ==
    /\ pipe = "read"
    /\ pipe' = "write"
    /\ moved < MaxChunks /\ moved' = moved + 1
    /\ UNCHANGED <<at, draining, call, conn, remote, timed, exited, pipeClosed, in, out>>

PipeWrites ==
    /\ pipe = "write" /\ in = "read"
    /\ pipe' = "read" /\ in' = "write"
    /\ UNCHANGED <<at, draining, call, conn, remote, timed, exited, pipeClosed, out, moved>>

\* end of the frontend's data (eof), or Wait has closed the pipe under a write
\* (the copyFunc that read it just ends)
PipeEnds(eof) ==
    /\ (pipe = "read" /\ eof) \/ (pipe = "write" /\ pipeClosed)
    /\ pipe' = "done" /\ pipeClosed' = TRUE
    /\ UNCHANGED <<at, draining, call, conn, remote, timed, exited, in, out, moved>>

\* io.Copy(s.ch, stdin): the remote server takes the data, or the write
\* fails with its channel
InWrites ==
    /\ in = "write" /\ ~SessionOver
    /\ in' = "read"
    /\ UNCHANGED <<at, draining, call, conn, remote, timed, exited, pipe, pipeClosed, out, moved>>

InEnds ==
    /\ \/ in = "read" /\ pipeClosed
       \/ in = "write" /\ SessionOver
    /\ in' = "done"
    /\ UNCHANGED <<at, draining, call, conn, remote, timed, exited, pipe, pipeClosed, out, moved>>

\* io.Copy(s.Stdout, s.ch): the remote server sent data ...
OutReads ==
    /\ out = "read" /\ ~SessionOver
    /\ out' = "write"
    /\ moved < MaxChunks /\ moved' = moved + 1
    /\ UNCHANGED <<at, draining, call, conn, remote, timed, exited, pipe, pipeClosed, in>>

\* ... which the client takes ...
OutWrites ==
    /\ out = "write"
    /\ out' = "read"
    /\ UNCHANGED <<at, draining, call, conn, remote, timed, exited, pipe, pipeClosed, in, moved>>

\* ... until the remote channel ends, or the frontend channel is closed
OutEnds(closed) ==
    /\ \/ out = "read" /\ SessionOver
       \/ out = "write" /\ closed
    /\ out' = "done"
    /\ UNCHANGED <<at, draining, call, conn, remote, timed, exited, pipe, pipeClosed, in, moved>>

\* the steps these goroutines take by themselves
Copying(closed, eof) ==
    \/ CallFails \/ WaitFails \/ ClosePipe \/ WaitReturns
    \/ PipeWrites \/ PipeEnds(eof) \/ InEnds \/ OutEnds(closed)

-----------------------------------------------------------------------------
(* The remote server and the clock                                         *)

RemoteGone ==
    /\ conn = "open" /\ remote = "up"
    /\ remote' = "gone"
    /\ UNCHANGED <<at, draining, call, conn, timed, streams>>

BackendDeadline ==
    /\ timed = "set" /\ at = "handshake"
    /\ timed' = "passed"
    /\ UNCHANGED <<at, draining, call, conn, remote, streams>>

RemoteSteps ==
    \/ DialSucceeds \/ RemoteAnswers \/ RemoteRefusesExec \/ RemoteRuns
    \/ RemoteExits \/ InWrites \/ OutReads

\* Nothing of serveSSH is left: it returned and its goroutines ended.
BackendGone ==
    \/ at = "off"
    \/ at = "returned" /\ conn # "open" /\ call # "busy"
       /\ {pipe, in, out} \subseteq {"none", "done"}
=============================================================================
