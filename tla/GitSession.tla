----------------------------- MODULE GitSession -----------------------------
(***************************************************************************)
(* HandleSession of the Git server (modules/gitserver/server.go): the      *)
(* requests of one accepted session channel.  An authorized exec starts    *)
(* the backend; from then on a second goroutine answers the requests while *)
(* the handler waits for the backend, the client or the context.           *)
(*                                                                         *)
(* Requests are numbered in the order the client sends them.  Of a request *)
(* only what HandleSession makes of it is kept: env and exec are           *)
(* acceptable ones, badEnv and badExec stand for payloads it refuses       *)
(* (malformed, unsupported, not parsed, not authorized), other for the     *)
(* rest.  Every request is taken to want a reply.                          *)
(*                                                                         *)
(* Replies and exit-status are writes without a deadline: while the client *)
(* does not read they wait, until the channel or the connection goes.      *)
(*                                                                         *)
(* pc is the handler:                                                      *)
(*   start, preExec   before and in the loop that waits for exec           *)
(*   reply            has a request of that loop, to be answered           *)
(*   wait             the select of phase 2                                *)
(*   exit, result     has the backend's error; has sent exit-status        *)
(*   unwind, close    the deferred calls, in their order                   *)
(*   returned                                                              *)
(***************************************************************************)
EXTENDS Naturals

CONSTANT MaxRequests    \* bound: requests the client sends

ASSUME RequestsAssumption == MaxRequests \in Nat

VARIABLES
    pc,
    ret,            \* what HandleSession returns
    gitPerm,        \* IsGitPermission(perms)
    kind, sent,     \* the requests, and how many the mux has delivered
    streamClosed,   \* the mux closes `requests`: the channel is gone
    stall,          \* whether the client has stopped reading: never, stalled, over
    taken,          \* requests received from `requests`
    reply,
    timer,          \* preExecTimer: armed, fired, stopped
    envAccepted,
    ctx,            \* the connection's context is cancelled
    cancelled,      \* cancelBackend was called
    backend,        \* none, running, ok, err
    early,          \* history: the backend had returned before ctx ended
    drain,          \* off, loop, answer, stopped
    requestStreamClosed,
    exitStatus,     \* what the client was sent: none, 0, 1
    closed          \* channel.Close was called

client == <<gitPerm, kind, sent, streamClosed, stall>>
answers == <<taken, reply>>
handler == <<pc, ret, timer, envAccepted, exitStatus, closed>>
work == <<cancelled, backend, drain, requestStreamClosed>>
vars == <<client, answers, handler, work, ctx, early>>

Ids == 1 .. MaxRequests
Kinds == {"env", "badEnv", "exec", "badExec", "other"}

Init ==
    /\ pc = "start" /\ ret = "none"
    /\ gitPerm \in BOOLEAN
    /\ kind = [i \in Ids |-> "none"] /\ sent = 0 /\ streamClosed = FALSE /\ stall = "never"
    /\ taken = 0 /\ reply = [i \in Ids |-> "none"]
    /\ timer = "stopped" /\ envAccepted = FALSE
    /\ ctx = FALSE /\ cancelled = FALSE
    /\ backend = "none" /\ early = FALSE
    /\ drain = "off" /\ requestStreamClosed = FALSE
    /\ exitStatus = "none" /\ closed = FALSE

-----------------------------------------------------------------------------
(* The client, the mux and the connection                                  *)

Send(k) ==
    /\ ~streamClosed /\ sent < MaxRequests
    /\ kind' = [kind EXCEPT ![sent + 1] = k]
    /\ sent' = sent + 1
    /\ UNCHANGED <<gitPerm, streamClosed, stall, answers, handler, work, ctx, early>>

\* the peer's channel-close, or the end of the connection
CloseStream ==
    /\ ~streamClosed
    /\ streamClosed' = TRUE
    /\ UNCHANGED <<gitPerm, kind, sent, stall, answers, handler, work, ctx, early>>

ClientStalls ==
    /\ stall = "never"
    /\ stall' = "stalled"
    /\ UNCHANGED <<gitPerm, kind, sent, streamClosed, answers, handler, work, ctx, early>>

ClientReads ==
    /\ stall = "stalled"
    /\ stall' = "over"
    /\ UNCHANGED <<gitPerm, kind, sent, streamClosed, answers, handler, work, ctx, early>>

Cancel ==
    /\ ~ctx
    /\ ctx' = TRUE
    /\ early' = (backend \in {"ok", "err"})
    /\ UNCHANGED <<client, answers, handler, work>>

TimerFires ==
    /\ timer = "armed"
    /\ timer' = "fired"
    /\ UNCHANGED <<client, answers, pc, ret, envAccepted, exitStatus, closed, work, ctx, early>>

\* A packet is sent unless either side has closed the channel.
Writable == ~closed /\ ~streamClosed

\* Mutant: a write waits for the client although the connection is closed.
CanWriteOnly == stall # "stalled" \/ ~Writable

\* A write returns: done, or refused, or cut short by the close of the connection
\* that follows the end of ctx.
CanWrite == stall # "stalled" \/ ctx \/ ~Writable

Answered(i, a) == IF Writable THEN [reply EXCEPT ![i] = a] ELSE reply

-----------------------------------------------------------------------------
(* Phase 1: env and exec                                                   *)

Return(r) ==
    /\ ret' = r
    /\ pc' = "unwind"
    /\ UNCHANGED <<timer, envAccepted, exitStatus, closed>>

\* perms were not produced by PublicKeyCallback: nothing is served
Refuse ==
    /\ pc = "start" /\ ~gitPerm
    /\ pc' = "close" /\ ret' = "notGit"
    /\ UNCHANGED <<client, answers, timer, envAccepted, exitStatus, closed, work, ctx, early>>

Begin ==
    /\ pc = "start" /\ gitPerm
    /\ pc' = "preExec" /\ timer' = "armed"
    /\ UNCHANGED <<client, answers, ret, envAccepted, exitStatus, closed, work, ctx, early>>

\* Mutant: the loop does not select on the timer.
PreExecTimeoutMissing == FALSE /\ UNCHANGED vars

PreExecTimeout ==
    /\ pc = "preExec" /\ timer = "fired"
    /\ Return("timeout")
    /\ UNCHANGED <<client, answers, work, ctx, early>>

PreExecCancelled ==
    /\ pc = "preExec" /\ ctx
    /\ Return("ctx")
    /\ UNCHANGED <<client, answers, work, ctx, early>>

StreamAtEnd == taken = sent /\ streamClosed

PreExecClosed ==
    /\ pc = "preExec" /\ StreamAtEnd
    /\ Return("closed")
    /\ UNCHANGED <<client, answers, work, ctx, early>>

Receive ==
    /\ pc = "preExec" /\ taken < sent
    /\ pc' = "reply" /\ taken' = taken + 1
    /\ UNCHANGED <<client, reply, ret, timer, envAccepted, exitStatus, closed, work, ctx, early>>

\* the request received is of kind k, and is answered with a
Reply(k, a) ==
    /\ pc = "reply" /\ CanWrite /\ kind[taken] = k
    /\ reply' = Answered(taken, a)
    /\ UNCHANGED taken

AcceptEnv ==
    /\ ~envAccepted /\ Reply("env", "true")
    /\ pc' = "preExec" /\ envAccepted' = TRUE
    /\ UNCHANGED <<client, ret, timer, exitStatus, closed, work, ctx, early>>

\* anything but a first good env and a good exec ends the session
Reject ==
    /\ \/ Reply("other", "false") /\ Return("unsupported")
       \/ Reply("badEnv", "false") /\ Return("env")
       \/ Reply("badExec", "false") /\ Return("exec")
       \/ envAccepted /\ Reply("env", "false") /\ Return("env")
    /\ UNCHANGED <<client, work, ctx, early>>

\* Reply true, stop the timer and start the two goroutines.
AcceptExec ==
    /\ Reply("exec", "true")
    /\ pc' = "wait" /\ timer' = "stopped"
    /\ backend' = "running" /\ drain' = "loop"
    /\ UNCHANGED <<client, ret, envAccepted, exitStatus, closed,
                   cancelled, requestStreamClosed, ctx, early>>

-----------------------------------------------------------------------------
(* The backend (external: any runner, which may ignore its context) and    *)
(* the drain goroutine                                                     *)

BackendReturns ==
    /\ backend = "running"
    /\ backend' \in {"ok", "err"}
    /\ UNCHANGED <<client, answers, handler, cancelled, drain, requestStreamClosed, ctx, early>>

BackendCtxDone == ctx \/ cancelled

DrainStops ==
    /\ drain = "loop" /\ BackendCtxDone
    /\ drain' = "stopped"
    /\ UNCHANGED <<client, answers, handler, cancelled, backend, requestStreamClosed, ctx, early>>

\* Mutant: env is left unanswered, as if it never wanted a reply.
DrainReceivesSilently ==
    /\ drain = "loop" /\ taken < sent
    /\ taken' = taken + 1
    /\ drain' = IF kind[taken + 1] = "env" THEN "loop" ELSE "answer"
    /\ UNCHANGED <<client, reply, handler, cancelled, backend, requestStreamClosed, ctx, early>>

DrainReceives ==
    /\ drain = "loop" /\ taken < sent
    /\ taken' = taken + 1
    /\ drain' = "answer"
    /\ UNCHANGED <<client, reply, handler, cancelled, backend, requestStreamClosed, ctx, early>>

\* Mutant: env is still accepted after exec.
DrainAnswersEnv ==
    /\ drain = "answer" /\ CanWrite
    /\ reply' = Answered(taken, IF kind[taken] = "env" THEN "true" ELSE "false")
    /\ drain' = "loop"
    /\ UNCHANGED <<client, taken, handler, cancelled, backend, requestStreamClosed, ctx, early>>

\* Mutant: one request is answered, then nobody listens.
DrainAnswersOnce ==
    /\ drain = "answer" /\ CanWrite
    /\ reply' = Answered(taken, "false")
    /\ drain' = "stopped"
    /\ UNCHANGED <<client, taken, handler, cancelled, backend, requestStreamClosed, ctx, early>>

\* whatever is asked while the backend runs is refused
DrainAnswers ==
    /\ drain = "answer" /\ CanWrite
    /\ reply' = Answered(taken, "false")
    /\ drain' = "loop"
    /\ UNCHANGED <<client, taken, handler, cancelled, backend, requestStreamClosed, ctx, early>>

\* Mutant: the goroutine just ends when the stream does.
DrainSeesCloseSilently ==
    /\ drain = "loop" /\ StreamAtEnd
    /\ drain' = "stopped"
    /\ UNCHANGED <<client, answers, handler, cancelled, backend, requestStreamClosed, ctx, early>>

DrainSeesClose ==
    /\ drain = "loop" /\ StreamAtEnd
    /\ requestStreamClosed' = TRUE
    /\ drain' = "stopped"
    /\ UNCHANGED <<client, answers, handler, cancelled, backend, ctx, early>>

-----------------------------------------------------------------------------
(* Phase 2: the handler waits, reports and unwinds                         *)

BackendDone == backend \in {"ok", "err"}

\* <-backendDone, in the select or in the second look after ctx.Done()
WaitBackend ==
    /\ pc = "wait" /\ BackendDone
    /\ pc' = "exit"
    /\ UNCHANGED <<client, answers, ret, timer, envAccepted, exitStatus, closed, work, ctx, early>>

WaitClosed ==
    /\ pc = "wait" /\ requestStreamClosed
    /\ cancelled' = TRUE
    /\ Return("closed")
    /\ UNCHANGED <<client, answers, backend, drain, requestStreamClosed, ctx, early>>

\* Mutant: ctx.Done() is final, without a second look at backendDone.
WaitCancelledAtOnce ==
    /\ pc = "wait" /\ ctx
    /\ Return("ctx")
    /\ UNCHANGED <<client, answers, work, ctx, early>>

\* Mutant: backendErr is used although the backend has not returned.
WaitCancelledFallsThrough ==
    /\ pc = "wait" /\ ctx /\ ~BackendDone
    /\ pc' = "exit"
    /\ UNCHANGED <<client, answers, ret, timer, envAccepted, exitStatus, closed, work, ctx, early>>

WaitCancelled ==
    /\ pc = "wait" /\ ctx /\ ~BackendDone
    /\ Return("ctx")
    /\ UNCHANGED <<client, answers, work, ctx, early>>

\* the packet is lost when the channel is gone
SendExitStatus ==
    /\ pc = "exit" /\ CanWrite
    /\ pc' = "result"
    /\ exitStatus' = IF ~Writable THEN "none" ELSE IF backend = "err" THEN "1" ELSE "0"
    /\ UNCHANGED <<client, answers, ret, timer, envAccepted, closed, work, ctx, early>>

\* ctx.Err() is preferred, looked up only now
Result ==
    /\ pc = "result"
    /\ Return(IF ctx THEN "ctx" ELSE backend)
    /\ UNCHANGED <<client, answers, work, ctx, early>>

\* Mutant: only WaitClosed cancels the backend's context.
UnwindNoCancel ==
    /\ pc = "unwind"
    /\ pc' = "close" /\ timer' = "stopped"
    /\ UNCHANGED <<client, answers, ret, envAccepted, exitStatus, closed, work, ctx, early>>

\* defer cancelBackend, defer preExecTimer.Stop
Unwind ==
    /\ pc = "unwind"
    /\ pc' = "close" /\ timer' = "stopped"
    /\ cancelled' = (backend # "none")
    /\ UNCHANGED <<client, answers, ret, envAccepted, exitStatus, closed,
                   backend, drain, requestStreamClosed, ctx, early>>

\* defer cleanup (a Close that does not last longer than its timer, see module
\* ConnHandler); the refusal of a non-Git permission closes directly
CloseChannel ==
    /\ pc = "close"
    /\ pc' = "returned" /\ closed' = TRUE
    /\ UNCHANGED <<client, answers, ret, timer, envAccepted, exitStatus, work, ctx, early>>

-----------------------------------------------------------------------------
PreExec ==
    \/ Refuse \/ Begin
    \/ PreExecTimeout \/ PreExecCancelled \/ PreExecClosed
    \/ Receive \/ AcceptEnv \/ Reject \/ AcceptExec

Handler ==
    \/ PreExec
    \/ WaitBackend \/ WaitClosed \/ WaitCancelled
    \/ SendExitStatus \/ Result \/ Unwind \/ CloseChannel

Drain == DrainStops \/ DrainReceives \/ DrainAnswers \/ DrainSeesClose

Environment ==
    \/ \E k \in Kinds : Send(k)
    \/ CloseStream \/ ClientStalls \/ ClientReads \/ Cancel \/ TimerFires \/ BackendReturns

Next == Handler \/ Drain \/ Environment

Spec == Init /\ [][Next]_vars

\* The two goroutines run and the timer fires.  Nothing is assumed of the
\* client (it may never read), the context or the backend.
Fairness == WF_vars(Handler) /\ WF_vars(Drain) /\ WF_vars(TimerFires)

FairSpec == Spec /\ Fairness

-----------------------------------------------------------------------------
\* Variables have their types.
TypeOK ==
    /\ pc \in {"start", "preExec", "reply", "wait", "exit", "result", "unwind", "close", "returned"}
    /\ ret \in {"none", "notGit", "timeout", "ctx", "closed", "env", "exec",
                "unsupported", "ok", "err"}
    /\ gitPerm \in BOOLEAN /\ streamClosed \in BOOLEAN /\ stall \in {"never", "stalled", "over"}
    /\ kind \in [Ids -> Kinds \cup {"none"}]
    /\ sent \in 0 .. MaxRequests /\ taken \in 0 .. sent
    /\ reply \in [Ids -> {"none", "true", "false"}]
    /\ timer \in {"armed", "fired", "stopped"}
    /\ envAccepted \in BOOLEAN /\ ctx \in BOOLEAN /\ cancelled \in BOOLEAN
    /\ backend \in {"none", "running", "ok", "err"} /\ early \in BOOLEAN
    /\ drain \in {"off", "loop", "answer", "stopped"}
    /\ requestStreamClosed \in BOOLEAN
    /\ exitStatus \in {"none", "0", "1"} /\ closed \in BOOLEAN

\* SSH matches replies to requests by their order alone: although two
\* goroutines answer, no request is passed over.
AnswersInOrder ==
    \A i, j \in Ids : i < j /\ reply[j] # "none" => reply[i] # "none"

\* A backend runs only for an authorized exec of a Git permission, for one
\* exec at most, and nothing is granted after it: an accepted request is an
\* exec only if it is the last one accepted and the backend was started.
OneBackend ==
    \A i \in Ids : reply[i] = "true" =>
        /\ gitPerm /\ kind[i] \in {"env", "exec"}
        /\ kind[i] = "exec" =>
              /\ backend # "none"
              /\ \A j \in Ids : i < j => reply[j] # "true"

\* The client is told how the backend ended, never how it might end: status 0
\* is sent only after the backend returned nil, 1 only after it failed.
ExitStatusTrue ==
    /\ exitStatus = "0" => backend = "ok"
    /\ exitStatus = "1" => backend = "err"

\* A result that was there before the context ended is reported all the same,
\* unless the client has closed the channel.
CompletedIsReported ==
    closed /\ early /\ ~streamClosed => exitStatus # "none"

\* The handler waits in a write to a client that does not read.
Unread == pc \in {"reply", "exit"} /\ ~CanWrite

\* An authenticated client that only opens the channel is sent away: it keeps
\* the session only with an exec, or by not reading the reply to one of its
\* requests.  After the exec the end of the channel or of the connection ends
\* the session, although a backend may ignore its context, and so does the end
\* of the backend unless the client never reads its exit-status; and the drain
\* goroutine does not outlive the session.
SessionEnds ==
    /\ <>(backend # "none" \/ pc = "returned") \/ <>[]Unread
    /\ (backend # "none" /\ (ctx \/ streamClosed)) ~> pc = "returned"
    /\ BackendDone ~> (pc = "returned" \/ []Unread)
    /\ pc = "returned" ~> drain \in {"off", "stopped"}

\* While the backend runs the request stream is served: every request is
\* answered as long as the session lasts and the client can be written to.
RequestsServed ==
    \A i \in Ids :
        (backend # "none" /\ i <= sent) ~>
            (reply[i] # "none" \/ pc = "returned" \/ streamClosed \/ ctx \/ []~CanWrite)
=============================================================================
