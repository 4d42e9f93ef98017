---------------------------- MODULE LocalBackend ----------------------------
(***************************************************************************)
(* serveLocal of the Git server (modules/gitserver/backend_local_*.go): it *)
(* takes a process slot, starts git-shell as the leader of a process group *)
(* of its own, copies its output to the SSH channel, and gets the group    *)
(* and the slot cleaned up however the session ends.                       *)
(*                                                                         *)
(* Per session there run: the waiter (serveLocal and waitLocalProcess), an *)
(* observer that sees the leader exit without reaping it, and one copier   *)
(* per output pipe.  pc[s] is the waiter:                                  *)
(*   idle, acquire, build  not called; waiting for a slot; before cmd.Start*)
(*   select                first select of waitLocalProcess                *)
(*   join                  cancelled: group killed, waiting for observer   *)
(*   reapCancelled, reapUnobserved   about to reap on the early returns    *)
(*   drain, poll1, poll2   waitLocalOutput and its two last looks          *)
(*   reap                  about to reap at the end                        *)
(*   release, returned     result known, slot still held; given back       *)
(***************************************************************************)
EXTENDS Integers, FiniteSets

CONSTANTS
    Sessions,
    MaxGitShellProcesses    \* 0: unlimited

ASSUME SessionsAssumption == IsFiniteSet(Sessions)

ASSUME SlotsAssumption == MaxGitShellProcesses \in Nat

VARIABLES
    refuseWhenBusy, \* the setting: refuse, or wait for a slot
    pc,
    ctx,            \* the session's context is cancelled
    localSlots,     \* tokens in the channel s.localSlots
    leader,         \* none, running, zombie (exited, PID reserved), reaped
    exitOK,         \* the leader's exit status is 0
    kids,           \* descendants of the leader hold its output pipes
    killed,         \* SIGKILL was sent to the group
    stray,          \* a signal went to a PID that was no longer ours
    obs,            \* observer: none, watching, ok, err, taken
    out,            \* per pipe: copying, ok, err
    got,            \* pipes whose result the waiter has received
    pending,        \* outputPending of waitLocalProcess
    result,         \* what serveLocal returns
    wasComplete     \* history: all had finished when ctx was cancelled

control == <<pc, localSlots, got, pending, result>>
process == <<leader, exitOK, kids, killed, stray>>
sessionVars == <<control, process, ctx, obs, out, wasComplete>>
vars == <<sessionVars, refuseWhenBusy>>

Pipes == {"stdout", "stderr"}

Results == {"none", "ok", "ctx", "busy", "start", "observe", "exit", "copy"}

Init ==
    /\ refuseWhenBusy \in BOOLEAN
    /\ pc = [s \in Sessions |-> "idle"]
    /\ ctx = [s \in Sessions |-> FALSE]
    /\ localSlots = 0
    /\ leader = [s \in Sessions |-> "none"]
    /\ exitOK = [s \in Sessions |-> FALSE]
    /\ kids = [s \in Sessions |-> FALSE]
    /\ killed = [s \in Sessions |-> FALSE]
    /\ stray = FALSE
    /\ obs = [s \in Sessions |-> "none"]
    /\ out = [s \in Sessions |-> [k \in Pipes |-> "copying"]]
    /\ got = [s \in Sessions |-> {}]
    /\ pending = [s \in Sessions |-> FALSE]
    /\ result = [s \in Sessions |-> "none"]
    /\ wasComplete = [s \in Sessions |-> FALSE]

Goto(s, from, to) ==
    /\ pc[s] = from
    /\ pc' = [pc EXCEPT ![s] = to]

Return(s, from, r) ==
    /\ Goto(s, from, "release")
    /\ result' = [result EXCEPT ![s] = r]

ObserverReported(s) == obs[s] \in {"ok", "err"}
OutputDone(s, k) == out[s][k] \in {"ok", "err"}
Complete(s) ==
    /\ obs[s] \in {"ok", "taken"}
    /\ \A k \in Pipes : OutputDone(s, k)

-----------------------------------------------------------------------------
(* The session's context and the slots                                     *)

Call(s) ==
    /\ Goto(s, "idle", "acquire")
    /\ UNCHANGED <<localSlots, got, pending, result, process, ctx, obs, out, wasComplete>>

\* the connection goes away, or the session is torn down
Cancel(s) ==
    /\ pc[s] \notin {"idle", "returned"}
    /\ ~ctx[s]
    /\ ctx' = [ctx EXCEPT ![s] = TRUE]
    /\ wasComplete' = [wasComplete EXCEPT ![s] = Complete(s)]
    /\ UNCHANGED <<control, process, obs, out>>

SlotFree == MaxGitShellProcesses = 0 \/ localSlots < MaxGitShellProcesses

\* localSlots <- struct{}{}; with no limit there is no channel to send to
Acquire(s) ==
    /\ Goto(s, "acquire", "build")
    /\ SlotFree
    /\ localSlots' = IF MaxGitShellProcesses = 0 THEN 0 ELSE localSlots + 1
    /\ UNCHANGED <<got, pending, result, process, ctx, obs, out, wasComplete>>

\* Mutant: the deferred release is registered before the slot is acquired.
AcquireCancelledReleases(s) ==
    /\ ~refuseWhenBusy
    /\ MaxGitShellProcesses # 0
    /\ ctx[s]
    /\ Return(s, "acquire", "ctx")
    /\ UNCHANGED <<localSlots, got, pending, process, ctx, obs, out, wasComplete>>

\* Either select of acquireLocalSlot gives up.  No slot is held, so the
\* deferred release is not registered yet.
AcquireBusy(s) ==
    /\ refuseWhenBusy
    /\ ~SlotFree
    /\ Goto(s, "acquire", "returned")
    /\ result' = [result EXCEPT ![s] = "busy"]
    /\ UNCHANGED <<localSlots, got, pending, process, ctx, obs, out, wasComplete>>

AcquireCancelled(s) ==
    /\ ~refuseWhenBusy
    /\ MaxGitShellProcesses # 0
    /\ ctx[s]
    /\ Goto(s, "acquire", "returned")
    /\ result' = [result EXCEPT ![s] = "ctx"]
    /\ UNCHANGED <<localSlots, got, pending, process, ctx, obs, out, wasComplete>>

\* buildLocalCommand, a pipe or cmd.Start fails
StartFails(s) ==
    /\ Return(s, "build", "start")
    /\ UNCHANGED <<localSlots, got, pending, process, ctx, obs, out, wasComplete>>

\* cmd.Start, the two copiers and the observer
Start(s) ==
    /\ Goto(s, "build", "select")
    /\ leader' = [leader EXCEPT ![s] = "running"]
    /\ obs' = [obs EXCEPT ![s] = "watching"]
    /\ UNCHANGED <<localSlots, got, pending, result, exitOK, kids, killed, stray,
                   ctx, out, wasComplete>>

-----------------------------------------------------------------------------
(* The process group (external): git-shell may fork children that inherit  *)
(* the pipes and outlive it.                                               *)

Fork(s) ==
    /\ leader[s] = "running" /\ ~killed[s] /\ ~kids[s]
    /\ kids' = [kids EXCEPT ![s] = TRUE]
    /\ UNCHANGED <<control, leader, exitOK, killed, stray, ctx, obs, out, wasComplete>>

KidsExit(s) ==
    /\ kids[s]
    /\ kids' = [kids EXCEPT ![s] = FALSE]
    /\ UNCHANGED <<control, leader, exitOK, killed, stray, ctx, obs, out, wasComplete>>

LeaderExits(s) ==
    /\ leader[s] = "running"
    /\ leader' = [leader EXCEPT ![s] = "zombie"]
    /\ \E ok \in BOOLEAN : (killed[s] => ~ok) /\ exitOK' = [exitOK EXCEPT ![s] = ok]
    /\ UNCHANGED <<control, kids, killed, stray, ctx, obs, out, wasComplete>>

-----------------------------------------------------------------------------
(* Observer and copiers                                                    *)

\* waitLocalProcessExit: WNOWAIT, the zombie stays
Observe(s) ==
    /\ obs[s] = "watching"
    /\ leader[s] \in {"zombie", "reaped"}
    /\ obs' = [obs EXCEPT ![s] = "ok"]
    /\ UNCHANGED <<control, process, ctx, out, wasComplete>>

\* waitid or kevent fails
ObserveFails(s) ==
    /\ obs[s] = "watching"
    /\ obs' = [obs EXCEPT ![s] = "err"]
    /\ UNCHANGED <<control, process, ctx, out, wasComplete>>

\* io.Copy reaches EOF: nobody holds the writing end any more
CopyEnds(s, k) ==
    /\ leader[s] \in {"zombie", "reaped"} /\ ~kids[s]
    /\ out[s][k] = "copying"
    /\ out' = [out EXCEPT ![s][k] = "ok"]
    /\ UNCHANGED <<control, process, ctx, obs, wasComplete>>

\* the SSH channel is gone: the write fails
CopyFails(s, k) ==
    /\ leader[s] # "none"
    /\ out[s][k] = "copying"
    /\ out' = [out EXCEPT ![s][k] = "err"]
    /\ UNCHANGED <<control, process, ctx, obs, wasComplete>>

-----------------------------------------------------------------------------
(* waitLocalProcess                                                        *)

\* terminateGroup: SIGKILL to the PGID, which is the leader's PID
Terminate(s) ==
    /\ killed' = [killed EXCEPT ![s] = TRUE]
    /\ stray' = (stray \/ leader[s] \notin {"running", "zombie"})

TakeObserver(s) == obs' = [obs EXCEPT ![s] = "taken"]

\* the leader was seen to exit: stdin is closed, the output is next
SelectExited(s) ==
    /\ obs[s] = "ok"
    /\ Goto(s, "select", "drain")
    /\ TakeObserver(s)
    /\ UNCHANGED <<localSlots, got, pending, result, process, ctx, out, wasComplete>>

\* the exit could not be observed: clean up while the child is still ours
SelectObserveErr(s) ==
    /\ obs[s] = "err"
    /\ Goto(s, "select", "reapUnobserved")
    /\ TakeObserver(s)
    /\ Terminate(s)
    /\ UNCHANGED <<localSlots, got, pending, result, leader, exitOK, kids,
                   ctx, out, wasComplete>>

\* Mutant: ctx.Done() is taken without a second look at the observer.
SelectCancelledAtOnce(s) ==
    /\ ctx[s]
    /\ Goto(s, "select", "join")
    /\ Terminate(s)
    /\ UNCHANGED <<localSlots, got, pending, result, leader, exitOK, kids,
                   ctx, obs, out, wasComplete>>

\* Mutant: a cancelled run is not killed, only waited for.
SelectCancelledNoKill(s) ==
    /\ ctx[s]
    /\ ~ObserverReported(s)
    /\ Goto(s, "select", "join")
    /\ UNCHANGED <<localSlots, got, pending, result, process, ctx, obs, out, wasComplete>>

\* ctx.Done(), and the second look finds that the observer has not reported
SelectCancelled(s) ==
    /\ ctx[s]
    /\ ~ObserverReported(s)
    /\ Goto(s, "select", "join")
    /\ Terminate(s)
    /\ UNCHANGED <<localSlots, got, pending, result, leader, exitOK, kids,
                   ctx, obs, out, wasComplete>>

\* Mutant: the observer is not joined before the child is reaped.
JoinSkipped(s) ==
    /\ Goto(s, "join", "reapCancelled")
    /\ UNCHANGED <<localSlots, got, pending, result, process, ctx, obs, out, wasComplete>>

\* <-exited
Join(s) ==
    /\ ObserverReported(s)
    /\ Goto(s, "join", "reapCancelled")
    /\ TakeObserver(s)
    /\ UNCHANGED <<localSlots, got, pending, result, process, ctx, out, wasComplete>>

\* cmd.Wait blocks until the leader has exited, and releases its PID
Reap(s) ==
    /\ leader[s] = "zombie"
    /\ leader' = [leader EXCEPT ![s] = "reaped"]
    /\ UNCHANGED <<exitOK, kids, killed, stray>>

ReapCancelled(s) ==
    /\ Return(s, "reapCancelled", "ctx")
    /\ Reap(s)
    /\ UNCHANGED <<localSlots, got, pending, ctx, obs, out, wasComplete>>

ReapUnobserved(s) ==
    /\ Return(s, "reapUnobserved", "observe")
    /\ Reap(s)
    /\ UNCHANGED <<localSlots, got, pending, ctx, obs, out, wasComplete>>

-----------------------------------------------------------------------------
(* waitLocalOutput, and the end of waitLocalProcess                        *)

Receive(s, k) ==
    /\ pc[s] = "drain"
    /\ k \notin got[s] /\ OutputDone(s, k)
    /\ got' = [got EXCEPT ![s] = @ \cup {k}]
    /\ UNCHANGED <<pc, localSlots, pending, result, process, ctx, obs, out, wasComplete>>

\* Mutant: the loop ends with the first of the two results.
DrainedOne(s) ==
    /\ got[s] # {}
    /\ Goto(s, "drain", "reap")
    /\ UNCHANGED <<localSlots, got, pending, result, process, ctx, obs, out, wasComplete>>

Drained(s) ==
    /\ got[s] = Pipes
    /\ Goto(s, "drain", "reap")
    /\ UNCHANGED <<localSlots, got, pending, result, process, ctx, obs, out, wasComplete>>

DrainCancelled(s) ==
    /\ ctx[s]
    /\ got[s] # Pipes
    /\ Goto(s, "drain", "poll1")
    /\ UNCHANGED <<localSlots, got, pending, result, process, ctx, obs, out, wasComplete>>

Polled(s, k) == IF OutputDone(s, k) THEN got[s] \cup {k} ELSE got[s]

\* a last non-blocking look at stdoutDone ...
Poll1(s) ==
    /\ Goto(s, "poll1", "poll2")
    /\ got' = [got EXCEPT ![s] = Polled(s, "stdout")]
    /\ UNCHANGED <<localSlots, pending, result, process, ctx, obs, out, wasComplete>>

\* Mutant: the group is signalled after the leader has been reaped.
Poll2SignalLate(s) ==
    /\ pc[s] = "poll2" /\ leader[s] = "zombie"
    /\ pc' = [pc EXCEPT ![s] = "release"]
    /\ result' = [result EXCEPT ![s] = "ctx"]
    /\ leader' = [leader EXCEPT ![s] = "reaped"]
    /\ killed' = [killed EXCEPT ![s] = TRUE]
    /\ stray' = (stray \/ leader'[s] \notin {"running", "zombie"})
    /\ UNCHANGED <<localSlots, got, pending, exitOK, kids, ctx, obs, out, wasComplete>>

\* Mutant: the group is left alone when the output is cut off.
Poll2NoKill(s) ==
    /\ Goto(s, "poll2", "reap")
    /\ got' = [got EXCEPT ![s] = Polled(s, "stderr")]
    /\ pending' = [pending EXCEPT ![s] = Polled(s, "stderr") # Pipes]
    /\ UNCHANGED <<localSlots, result, process, ctx, obs, out, wasComplete>>

\* ... and at stderrDone; whatever is still pending is cut off
Poll2(s) ==
    /\ Goto(s, "poll2", "reap")
    /\ got' = [got EXCEPT ![s] = Polled(s, "stderr")]
    /\ pending' = [pending EXCEPT ![s] = Polled(s, "stderr") # Pipes]
    /\ IF Polled(s, "stderr") # Pipes THEN Terminate(s) ELSE UNCHANGED <<killed, stray>>
    /\ UNCHANGED <<localSlots, result, leader, exitOK, kids, ctx, obs, out, wasComplete>>

FinalResult(s) ==
    CASE pending[s] -> "ctx"
      [] ~pending[s] /\ ~exitOK[s] -> "exit"
      [] ~pending[s] /\ exitOK[s] /\ (\E k \in Pipes : out[s][k] = "err") -> "copy"
      [] OTHER -> "ok"

FinalReap(s) ==
    /\ Return(s, "reap", FinalResult(s))
    /\ Reap(s)
    /\ UNCHANGED <<localSlots, got, pending, ctx, obs, out, wasComplete>>

\* the deferred releaseLocalSlot, which never blocks
Release(s) ==
    /\ Goto(s, "release", "returned")
    /\ localSlots' = IF localSlots > 0 THEN localSlots - 1 ELSE 0
    /\ UNCHANGED <<got, pending, result, process, ctx, obs, out, wasComplete>>

-----------------------------------------------------------------------------
\* The session is over; its name stands for the next one.  Processes it has
\* left behind are gone by then.
Forget(s) ==
    /\ Goto(s, "returned", "idle")
    /\ ~kids[s] /\ obs[s] # "watching"
    /\ ctx' = [ctx EXCEPT ![s] = FALSE]
    /\ leader' = [leader EXCEPT ![s] = "none"]
    /\ exitOK' = [exitOK EXCEPT ![s] = FALSE]
    /\ killed' = [killed EXCEPT ![s] = FALSE]
    /\ obs' = [obs EXCEPT ![s] = "none"]
    /\ out' = [out EXCEPT ![s] = [k \in Pipes |-> "copying"]]
    /\ got' = [got EXCEPT ![s] = {}]
    /\ pending' = [pending EXCEPT ![s] = FALSE]
    /\ result' = [result EXCEPT ![s] = "none"]
    /\ wasComplete' = [wasComplete EXCEPT ![s] = FALSE]
    /\ UNCHANGED <<localSlots, kids, stray>>

Waiter(s) ==
    \/ Acquire(s) \/ AcquireBusy(s) \/ AcquireCancelled(s)
    \/ StartFails(s) \/ Start(s)
    \/ SelectExited(s) \/ SelectObserveErr(s) \/ SelectCancelled(s)
    \/ Join(s) \/ ReapCancelled(s) \/ ReapUnobserved(s)
    \/ (\E k \in Pipes : Receive(s, k)) \/ Drained(s)
    \/ DrainCancelled(s) \/ Poll1(s) \/ Poll2(s) \/ FinalReap(s)
    \/ Release(s)

Others(s) ==
    \/ Call(s) \/ Cancel(s) \/ Forget(s)
    \/ Fork(s) \/ KidsExit(s) \/ LeaderExits(s)
    \/ Observe(s) \/ ObserveFails(s)
    \/ \E k \in Pipes : CopyEnds(s, k) \/ CopyFails(s, k)

Next ==
    /\ \E s \in Sessions : Waiter(s) \/ Others(s)
    /\ UNCHANGED refuseWhenBusy

Spec == Init /\ [][Next]_vars

\* The waiter and the observer run; SIGKILL kills.  Nothing is assumed of
\* git-shell, of its children or of the SSH client.
Fairness ==
    \A s \in Sessions :
        /\ WF_sessionVars(Waiter(s))
        /\ WF_sessionVars(Observe(s))
        /\ WF_sessionVars(killed[s] /\ LeaderExits(s))

FairSpec == Spec /\ Fairness

-----------------------------------------------------------------------------
HoldingSlot ==
    {s \in Sessions : pc[s] \notin {"idle", "acquire", "returned"}}

\* Variables have their types, and the channel never holds more than its
\* capacity.
TypeOK ==
    /\ refuseWhenBusy \in BOOLEAN
    /\ pc \in [Sessions -> {"idle", "acquire", "build", "select", "join",
                            "reapCancelled", "reapUnobserved", "drain", "poll1",
                            "poll2", "reap", "release", "returned"}]
    /\ ctx \in [Sessions -> BOOLEAN]
    /\ localSlots \in 0 .. MaxGitShellProcesses
    /\ leader \in [Sessions -> {"none", "running", "zombie", "reaped"}]
    /\ exitOK \in [Sessions -> BOOLEAN] /\ kids \in [Sessions -> BOOLEAN]
    /\ killed \in [Sessions -> BOOLEAN] /\ stray \in BOOLEAN
    /\ obs \in [Sessions -> {"none", "watching", "ok", "err", "taken"}]
    /\ out \in [Sessions -> [Pipes -> {"copying", "ok", "err"}]]
    /\ got \in [Sessions -> SUBSET Pipes]
    /\ pending \in [Sessions -> BOOLEAN]
    /\ result \in [Sessions -> Results]
    /\ wasComplete \in [Sessions -> BOOLEAN]

\* MaxGitShellProcesses bounds the git-shell processes themselves: a slot is
\* given back only after the leader is reaped, and never by a session that
\* does not hold one.
ProcessLimit ==
    MaxGitShellProcesses # 0 =>
        /\ localSlots = Cardinality(HoldingSlot)
        /\ Cardinality({s \in Sessions : leader[s] \in {"running", "zombie"}})
              <= MaxGitShellProcesses

\* The group is signalled only while the unreaped leader reserves its PID:
\* SIGKILL never goes to a process group that reused it.
NoStraySignal == ~stray

\* The PID is also not released under the observer, which would wait for a
\* stranger.
ObserverJoined ==
    \A s \in Sessions : leader[s] = "reaped" => obs[s] # "watching"

\* A session reported as successful delivered everything: the leader exited
\* with 0 and both copies reached EOF.
OkMeansDelivered ==
    \A s \in Sessions :
        result[s] = "ok" =>
            /\ exitOK[s] /\ leader[s] = "reaped"
            /\ \A k \in Pipes : out[s][k] = "ok"

\* A command that had completed before the cancellation keeps its result.
CompletionWins ==
    \A s \in Sessions : wasComplete[s] => result[s] # "ctx"

\* After a cancelled run nothing of the group is left alive: the leader is
\* reaped, and descendants that still hold the pipes have been sent SIGKILL.
NoOrphans ==
    \A s \in Sessions :
        (result[s] = "ctx" /\ leader[s] # "none") =>
            /\ leader[s] = "reaped"
            /\ kids[s] => killed[s]

\* Cancellation ends the session and frees its slot, even when the client
\* never reads and git-shell and its children never exit by themselves.
CancelReturns ==
    \A s \in Sessions : ctx[s] ~> pc[s] = "returned"
=============================================================================
