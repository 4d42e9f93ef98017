------------------------ MODULE LocalBackendProofs --------------------------
(***************************************************************************)
(* TLAPS proofs about LocalBackend, for every set of sessions and every    *)
(* number of process slots.  The argument has three layers:                *)
(*   Lifecycle  what the waiter's place says of the leader's PID and of    *)
(*              the observer; gives NoStraySignal and ObserverJoined;      *)
(*   Outcome    what the result says of output, exit status and signals;   *)
(*              gives OkMeansDelivered, CompletionWins and NoOrphans;      *)
(*   slots      the channel counts the sessions that hold a slot, and an   *)
(*              unreaped leader belongs to one; gives ProcessLimit.        *)
(***************************************************************************)
EXTENDS LocalBackend, FiniteSetTheorems, TLAPS

\* Between Start and the reaping step the leader's PID is reserved, and the
\* observer's report is taken before the leader is reaped.
LifecycleOf(s) ==
    /\ pc[s] \in {"idle", "acquire", "build"} => leader[s] = "none" /\ obs[s] = "none"
    /\ pc[s] \in {"select", "join"} =>
          /\ leader[s] \in {"running", "zombie"}
          /\ obs[s] \in {"watching", "ok", "err"}
          /\ obs[s] = "ok" => leader[s] = "zombie"
    /\ pc[s] \in {"reapCancelled", "reapUnobserved"} =>
          leader[s] \in {"running", "zombie"} /\ obs[s] = "taken"
    /\ pc[s] \in {"drain", "poll1", "poll2", "reap"} =>
          leader[s] = "zombie" /\ obs[s] = "taken"
    /\ pc[s] \in {"release", "returned"} =>
          leader[s] \in {"none", "reaped"} /\ obs[s] \in {"none", "taken"}

Lifecycle == (\A s \in Sessions : LifecycleOf(s)) /\ ~stray

\* The result is decided when the waiter leaves, from output and exit status
\* that no longer change, and a cancelled run has been killed.
OutcomeOf(s) ==
    /\ result[s] # "none" => pc[s] \in {"release", "returned"}
    /\ \A k \in got[s] : out[s][k] \in {"ok", "err"}
    /\ pc[s] = "reap" /\ ~pending[s] => got[s] = Pipes
    /\ pending[s] => pc[s] \in {"reap", "release", "returned"} /\ ctx[s] /\ killed[s]
    /\ pc[s] \in {"join", "reapCancelled"} => ctx[s] /\ killed[s]
    /\ pc[s] \in {"poll1", "poll2"} => ctx[s]
    /\ result[s] = "ctx" => ctx[s] /\ (leader[s] # "none" => killed[s])
    /\ result[s] = "ok" => /\ exitOK[s] /\ leader[s] = "reaped"
                           /\ \A k \in Pipes : out[s][k] = "ok"
    /\ wasComplete[s] => /\ ctx[s] /\ Complete(s)
                         /\ pc[s] \notin {"join", "reapCancelled"}
                         /\ pc[s] = "poll2" => "stdout" \in got[s]
                         /\ ~pending[s] /\ result[s] # "ctx"

Outcome == \A s \in Sessions : OutcomeOf(s)

SlotsExact == MaxGitShellProcesses # 0 => localSlots = Cardinality(HoldingSlot)

-----------------------------------------------------------------------------
(* Type correctness.                                                       *)

LEMMA TypeStep == TypeOK /\ [Next]_vars => TypeOK'
<1> SUFFICES ASSUME TypeOK, [Next]_vars PROVE TypeOK'
  OBVIOUS
<1> USE DEF TypeOK
<1>1. CASE UNCHANGED vars
  BY <1>1, SlotsAssumption DEF vars, sessionVars, control, process
<1>2. ASSUME NEW s \in Sessions, Waiter(s) \/ Others(s), UNCHANGED refuseWhenBusy
      PROVE TypeOK'
  <2>1. CASE Acquire(s)
    BY <2>1, <1>2, SlotsAssumption DEF Acquire, Goto, SlotFree, process
  <2>2. CASE AcquireBusy(s)
    BY <2>2, <1>2, SlotsAssumption DEF Results, AcquireBusy, Goto, process
  <2>3. CASE AcquireCancelled(s)
    BY <2>3, <1>2, SlotsAssumption DEF Results, AcquireCancelled, Goto, process
  <2>4. CASE StartFails(s)
    BY <2>4, <1>2, SlotsAssumption DEF Results, StartFails, Return, Goto, process
  <2>5. CASE Start(s)
    BY <2>5, <1>2, SlotsAssumption DEF Start, Goto
  <2>6. CASE SelectExited(s)
    BY <2>6, <1>2, SlotsAssumption DEF SelectExited, Goto, TakeObserver, process
  <2>7. CASE SelectObserveErr(s)
    BY <2>7, <1>2, SlotsAssumption DEF SelectObserveErr, Goto, TakeObserver, Terminate
  <2>8. CASE SelectCancelled(s)
    BY <2>8, <1>2, SlotsAssumption DEF SelectCancelled, Goto, Terminate, ObserverReported
  <2>9. CASE Join(s)
    BY <2>9, <1>2, SlotsAssumption DEF Join, Goto, TakeObserver, ObserverReported, process
  <2>10. CASE ReapCancelled(s)
    BY <2>10, <1>2, SlotsAssumption DEF Results, ReapCancelled, Return, Goto, Reap
  <2>11. CASE ReapUnobserved(s)
    BY <2>11, <1>2, SlotsAssumption DEF Results, ReapUnobserved, Return, Goto, Reap
  <2>12. CASE Drained(s)
    BY <2>12, <1>2, SlotsAssumption DEF Drained, Goto, process
  <2>13. CASE DrainCancelled(s)
    BY <2>13, <1>2, SlotsAssumption DEF DrainCancelled, Goto, process
  <2>14. CASE Poll1(s)
    <3>1. Polled(s, "stdout") \subseteq Pipes
      BY DEF Polled, Pipes
    <3> QED BY <2>14, <1>2, <3>1, SlotsAssumption DEF Poll1, Goto, process
  <2>15. CASE Poll2(s)
    <3>1. Polled(s, "stderr") \subseteq Pipes
      BY DEF Polled, Pipes
    <3> QED BY <2>15, <1>2, <3>1, SlotsAssumption DEF Poll2, Goto, Terminate
  <2>16. CASE FinalReap(s)
    <3>1. FinalResult(s) \in Results
      BY DEF FinalResult, Results
    <3> QED BY <2>16, <1>2, <3>1, SlotsAssumption DEF FinalReap, Return, Goto, Reap
  <2>17. CASE Release(s)
    BY <2>17, <1>2, SlotsAssumption DEF Release, Goto, process
  <2>18. CASE Call(s)
    BY <2>18, <1>2, SlotsAssumption DEF Call, Goto, process
  <2>19. CASE Cancel(s)
    BY <2>19, <1>2, SlotsAssumption DEF Cancel, Complete, OutputDone, control, process
  <2>20. CASE Forget(s)
    <3>1. [k \in Pipes |-> "copying"] \in [Pipes -> {"copying", "ok", "err"}]
      OBVIOUS
    <3>2. out' \in [Sessions -> [Pipes -> {"copying", "ok", "err"}]]
      BY <2>20, <1>2, <3>1 DEF Forget
    <3> QED BY <2>20, <1>2, <3>2, SlotsAssumption DEF Forget, Goto, Results
  <2>21. CASE Fork(s)
    BY <2>21, <1>2, SlotsAssumption DEF Fork, control
  <2>22. CASE KidsExit(s)
    BY <2>22, <1>2, SlotsAssumption DEF KidsExit, control
  <2>23. CASE LeaderExits(s)
    BY <2>23, <1>2, SlotsAssumption DEF LeaderExits, control
  <2>24. CASE Observe(s)
    BY <2>24, <1>2, SlotsAssumption DEF Observe, control, process
  <2>25. CASE ObserveFails(s)
    BY <2>25, <1>2, SlotsAssumption DEF ObserveFails, control, process
  <2>26. ASSUME NEW k \in Pipes, Receive(s, k) PROVE TypeOK'
    BY <2>26, <1>2, SlotsAssumption DEF Receive, OutputDone, process
  <2>27. ASSUME NEW k \in Pipes, CopyEnds(s, k) PROVE TypeOK'
    BY <2>27, <1>2, SlotsAssumption DEF CopyEnds, control, process
  <2>28. ASSUME NEW k \in Pipes, CopyFails(s, k) PROVE TypeOK'
    BY <2>28, <1>2, SlotsAssumption DEF CopyFails, control, process
  <2> QED BY <1>2, <2>1, <2>2, <2>3, <2>4, <2>5, <2>6, <2>7, <2>8, <2>9, <2>10, <2>11,
         <2>12, <2>13, <2>14, <2>15, <2>16, <2>17, <2>18, <2>19, <2>20, <2>21, <2>22,
         <2>23, <2>24, <2>25, <2>26, <2>27, <2>28
         DEF Waiter, Others
<1> QED BY <1>1, <1>2 DEF Next

LEMMA TypeInit == Init => TypeOK
<1> SUFFICES ASSUME Init PROVE TypeOK
  OBVIOUS
<1>1. [k \in Pipes |-> "copying"] \in [Pipes -> {"copying", "ok", "err"}]
  OBVIOUS
<1>2. out \in [Sessions -> [Pipes -> {"copying", "ok", "err"}]]
  BY <1>1 DEF Init
<1>3. /\ localSlots \in 0 .. MaxGitShellProcesses
      /\ got \in [Sessions -> SUBSET Pipes] /\ result \in [Sessions -> Results]
  BY SlotsAssumption DEF Init, Results
<1>4. /\ ctx \in [Sessions -> BOOLEAN] /\ exitOK \in [Sessions -> BOOLEAN]
      /\ kids \in [Sessions -> BOOLEAN] /\ killed \in [Sessions -> BOOLEAN]
      /\ pending \in [Sessions -> BOOLEAN] /\ wasComplete \in [Sessions -> BOOLEAN]
      /\ stray \in BOOLEAN /\ refuseWhenBusy \in BOOLEAN
  BY DEF Init
<1> QED BY <1>2, <1>3, <1>4 DEF Init, TypeOK

\* The variables of serveLocal keep their types, and the channel of slots
\* never holds more than its capacity.
THEOREM BackendTypeCorrect == Spec => []TypeOK
BY TypeInit, TypeStep, PTL DEF Spec

-----------------------------------------------------------------------------
(* The leader's PID and the observer.                                      *)

LEMMA LifecycleStep == TypeOK /\ Lifecycle /\ [Next]_vars => Lifecycle'
<1> SUFFICES ASSUME TypeOK, Lifecycle, [Next]_vars PROVE Lifecycle'
  OBVIOUS
<1> USE DEF TypeOK, Lifecycle, LifecycleOf
<1>1. CASE UNCHANGED vars
  BY <1>1 DEF vars, sessionVars, control, process
<1>2. ASSUME NEW s \in Sessions, Waiter(s) \/ Others(s) PROVE Lifecycle'
  <2>1. CASE Acquire(s)
    BY <2>1 DEF Acquire, Goto, SlotFree, process
  <2>2. CASE AcquireBusy(s)
    BY <2>2 DEF AcquireBusy, Goto, process
  <2>3. CASE AcquireCancelled(s)
    BY <2>3 DEF AcquireCancelled, Goto, process
  <2>4. CASE StartFails(s)
    BY <2>4 DEF StartFails, Return, Goto, process
  <2>5. CASE Start(s)
    BY <2>5 DEF Start, Goto
  <2>6. CASE SelectExited(s)
    BY <2>6 DEF SelectExited, Goto, TakeObserver, process
  <2>7. CASE SelectObserveErr(s)
    BY <2>7 DEF SelectObserveErr, Goto, TakeObserver, Terminate
  <2>8. CASE SelectCancelled(s)
    BY <2>8 DEF SelectCancelled, Goto, Terminate, ObserverReported
  <2>9. CASE Join(s)
    BY <2>9 DEF Join, Goto, TakeObserver, ObserverReported, process
  <2>10. CASE ReapCancelled(s)
    BY <2>10 DEF ReapCancelled, Return, Goto, Reap
  <2>11. CASE ReapUnobserved(s)
    BY <2>11 DEF ReapUnobserved, Return, Goto, Reap
  <2>12. CASE Drained(s)
    BY <2>12 DEF Drained, Goto, process
  <2>13. CASE DrainCancelled(s)
    BY <2>13 DEF DrainCancelled, Goto, process
  <2>14. CASE Poll1(s)
    BY <2>14 DEF Poll1, Goto, Polled, OutputDone, process
  <2>15. CASE Poll2(s)
    BY <2>15 DEF Poll2, Goto, Polled, OutputDone, Terminate
  <2>16. CASE FinalReap(s)
    BY <2>16 DEF FinalReap, Return, Goto, Reap, FinalResult
  <2>17. CASE Release(s)
    BY <2>17 DEF Release, Goto, process
  <2>18. CASE Call(s)
    BY <2>18 DEF Call, Goto, process
  <2>19. CASE Cancel(s)
    BY <2>19 DEF Cancel, Complete, OutputDone, control, process
  <2>20. CASE Forget(s)
    BY <2>20 DEF Forget, Goto
  <2>21. CASE Fork(s)
    BY <2>21 DEF Fork, control
  <2>22. CASE KidsExit(s)
    BY <2>22 DEF KidsExit, control
  <2>23. CASE LeaderExits(s)
    BY <2>23 DEF LeaderExits, control
  <2>24. CASE Observe(s)
    BY <2>24 DEF Observe, control, process
  <2>25. CASE ObserveFails(s)
    BY <2>25 DEF ObserveFails, control, process
  <2>26. ASSUME NEW k \in Pipes, Receive(s, k) PROVE Lifecycle'
    BY <2>26 DEF Receive, OutputDone, process
  <2>27. ASSUME NEW k \in Pipes, CopyEnds(s, k) PROVE Lifecycle'
    BY <2>27 DEF CopyEnds, control, process
  <2>28. ASSUME NEW k \in Pipes, CopyFails(s, k) PROVE Lifecycle'
    BY <2>28 DEF CopyFails, control, process
  <2> QED BY <1>2, <2>1, <2>2, <2>3, <2>4, <2>5, <2>6, <2>7, <2>8, <2>9, <2>10, <2>11,
         <2>12, <2>13, <2>14, <2>15, <2>16, <2>17, <2>18, <2>19, <2>20, <2>21, <2>22,
         <2>23, <2>24, <2>25, <2>26, <2>27, <2>28
         DEF Waiter, Others
<1> QED BY <1>1, <1>2 DEF Next

LEMMA LifecycleInit == Init => Lifecycle
BY DEF Init, Lifecycle, LifecycleOf

LEMMA LifecycleAlways == Spec => [](TypeOK /\ Lifecycle)
<1>1. Init => TypeOK /\ Lifecycle
  BY TypeInit, LifecycleInit
<1>2. TypeOK /\ Lifecycle /\ [Next]_vars => (TypeOK /\ Lifecycle)'
  BY TypeStep, LifecycleStep
<1> QED BY <1>1, <1>2, PTL DEF Spec

\* serveLocal signals a process group only while its leader is unreaped.
THEOREM NoStraySignalCorrect == Spec => []NoStraySignal
<1>1. Lifecycle => NoStraySignal
  BY DEF Lifecycle, NoStraySignal
<1> QED BY <1>1, LifecycleAlways, PTL

\* The leader is never reaped under an observer that still watches its PID.
THEOREM ObserverJoinedCorrect == Spec => []ObserverJoined
<1>1. TypeOK /\ Lifecycle => ObserverJoined
  BY DEF TypeOK, Lifecycle, LifecycleOf, ObserverJoined
<1> QED BY <1>1, LifecycleAlways, PTL

-----------------------------------------------------------------------------
(* Output, exit status and result.                                         *)

LEMMA OutcomeStep == TypeOK /\ Lifecycle /\ Outcome /\ [Next]_vars => Outcome'
<1> SUFFICES ASSUME TypeOK, Lifecycle, Outcome, [Next]_vars PROVE Outcome'
  OBVIOUS
<1> USE DEF TypeOK, Lifecycle, LifecycleOf, Outcome, OutcomeOf, Complete, OutputDone, Pipes
<1>1. CASE UNCHANGED vars
  BY <1>1 DEF vars, sessionVars, control, process
<1>2. ASSUME NEW s \in Sessions, Waiter(s) \/ Others(s) PROVE Outcome'
  <2>1. CASE Acquire(s)
    BY <2>1 DEF Acquire, Goto, SlotFree, process
  <2>2. CASE AcquireBusy(s)
    BY <2>2 DEF AcquireBusy, Goto, process
  <2>3. CASE AcquireCancelled(s)
    BY <2>3 DEF AcquireCancelled, Goto, process
  <2>4. CASE StartFails(s)
    BY <2>4 DEF StartFails, Return, Goto, process
  <2>5. CASE Start(s)
    BY <2>5 DEF Start, Goto
  <2>6. CASE SelectExited(s)
    BY <2>6 DEF SelectExited, Goto, TakeObserver, process
  <2>7. CASE SelectObserveErr(s)
    BY <2>7 DEF SelectObserveErr, Goto, TakeObserver, Terminate
  <2>8. CASE SelectCancelled(s)
    BY <2>8 DEF SelectCancelled, Goto, Terminate, ObserverReported
  <2>9. CASE Join(s)
    BY <2>9 DEF Join, Goto, TakeObserver, ObserverReported, process
  <2>10. CASE ReapCancelled(s)
    BY <2>10 DEF ReapCancelled, Return, Goto, Reap
  <2>11. CASE ReapUnobserved(s)
    BY <2>11 DEF ReapUnobserved, Return, Goto, Reap
  <2>12. CASE Drained(s)
    BY <2>12 DEF Drained, Goto, process
  <2>13. CASE DrainCancelled(s)
    BY <2>13 DEF DrainCancelled, Goto, process
  <2>14. CASE Poll1(s)
    BY <2>14 DEF Poll1, Goto, Polled, process
  <2>15. CASE Poll2(s)
    BY <2>15 DEF Poll2, Goto, Polled, Terminate
  <2>16. CASE FinalReap(s)
    BY <2>16 DEF FinalReap, Return, Goto, Reap, FinalResult
  <2>17. CASE Release(s)
    BY <2>17 DEF Release, Goto, process
  <2>18. CASE Call(s)
    BY <2>18 DEF Call, Goto, process
  <2>19. CASE Cancel(s)
    BY <2>19 DEF Cancel, control, process
  <2>20. CASE Forget(s)
    BY <2>20 DEF Forget, Goto
  <2>21. CASE Fork(s)
    BY <2>21 DEF Fork, control
  <2>22. CASE KidsExit(s)
    BY <2>22 DEF KidsExit, control
  <2>23. CASE LeaderExits(s)
    BY <2>23 DEF LeaderExits, control
  <2>24. CASE Observe(s)
    BY <2>24 DEF Observe, control, process
  <2>25. CASE ObserveFails(s)
    BY <2>25 DEF ObserveFails, control, process
  <2>26. ASSUME NEW k \in Pipes, Receive(s, k) PROVE Outcome'
    BY <2>26 DEF Receive, process
  <2>27. ASSUME NEW k \in Pipes, CopyEnds(s, k) PROVE Outcome'
    BY <2>27 DEF CopyEnds, control, process
  <2>28. ASSUME NEW k \in Pipes, CopyFails(s, k) PROVE Outcome'
    BY <2>28 DEF CopyFails, control, process
  <2>29. CASE Waiter(s)
    BY ONLY <2>29, <2>1, <2>2, <2>3, <2>4, <2>5, <2>6, <2>7, <2>8, <2>9, <2>10, <2>11, <2>12,
         <2>13, <2>14, <2>15, <2>16, <2>17, <2>26 DEF Waiter
  <2>30. CASE Others(s)
    BY ONLY <2>30, <2>18, <2>19, <2>20, <2>21, <2>22, <2>23, <2>24, <2>25, <2>27, <2>28 DEF Others
  <2> QED BY ONLY <1>2, <2>29, <2>30
<1> QED BY <1>1, <1>2 DEF Next

LEMMA OutcomeInit == Init => Outcome
BY DEF Init, Outcome, OutcomeOf, Pipes

LEMMA OutcomeAlways == Spec => [](TypeOK /\ Lifecycle /\ Outcome)
<1>1. Init => TypeOK /\ Lifecycle /\ Outcome
  BY TypeInit, LifecycleInit, OutcomeInit
<1>2. TypeOK /\ Lifecycle /\ Outcome /\ [Next]_vars => (TypeOK /\ Lifecycle /\ Outcome)'
  BY TypeStep, LifecycleStep, OutcomeStep
<1> QED BY <1>1, <1>2, PTL DEF Spec

\* serveLocal returns nil only when git-shell exited with 0 and both of its
\* output streams reached the client whole.
THEOREM OkMeansDeliveredCorrect == Spec => []OkMeansDelivered
<1>1. Outcome => OkMeansDelivered
  BY DEF Outcome, OutcomeOf, OkMeansDelivered
<1> QED BY <1>1, OutcomeAlways, PTL

\* A cancellation that comes after the exit was observed and the output was
\* delivered does not turn the result of waitLocalProcess into ctx.Err().
THEOREM CompletionWinsCorrect == Spec => []CompletionWins
<1>1. Outcome => CompletionWins
  BY DEF Outcome, OutcomeOf, CompletionWins
<1> QED BY <1>1, OutcomeAlways, PTL

\* A run that serveLocal reports as cancelled has its leader reaped, and the
\* descendants that still hold the pipes have been sent SIGKILL.
THEOREM NoOrphansCorrect == Spec => []NoOrphans
<1>1. TypeOK /\ Lifecycle /\ Outcome => NoOrphans
  BY DEF TypeOK, Lifecycle, LifecycleOf, Outcome, OutcomeOf, NoOrphans
<1> QED BY <1>1, OutcomeAlways, PTL

-----------------------------------------------------------------------------
(* The slots.                                                              *)

LEMMA HoldingFinite ==
    /\ IsFiniteSet(HoldingSlot) /\ Cardinality(HoldingSlot) \in Nat
    /\ IsFiniteSet(HoldingSlot') /\ Cardinality(HoldingSlot') \in Nat
<1>1. HoldingSlot \subseteq Sessions /\ HoldingSlot' \subseteq Sessions
  BY DEF HoldingSlot
<1> QED BY <1>1, SessionsAssumption, FS_Subset, FS_CardinalityType

\* Acquire sends the token that belongs to the new holder.
LEMMA SlotTaken ==
    ASSUME TypeOK, SlotsExact, NEW s \in Sessions, Acquire(s)
    PROVE  SlotsExact'
<1>1. HoldingSlot' = HoldingSlot \cup {s} /\ s \notin HoldingSlot
  BY DEF HoldingSlot, TypeOK, Acquire, Goto
<1>2. Cardinality(HoldingSlot') = Cardinality(HoldingSlot) + 1
  BY <1>1, HoldingFinite, FS_AddElement
<1> QED BY <1>2 DEF SlotsExact, Acquire

\* Release finds a token in the channel: its own.
LEMMA SlotGivenBack ==
    ASSUME TypeOK, SlotsExact, NEW s \in Sessions, Release(s)
    PROVE  SlotsExact'
<1>1. HoldingSlot' = HoldingSlot \ {s} /\ s \in HoldingSlot
  BY DEF HoldingSlot, TypeOK, Release, Goto
<1>2. Cardinality(HoldingSlot') = Cardinality(HoldingSlot) - 1
  BY <1>1, HoldingFinite, FS_RemoveElement
<1> QED BY <1>2, HoldingFinite DEF SlotsExact, Release

LEMMA SlotsStep == TypeOK /\ SlotsExact /\ [Next]_vars => SlotsExact'
<1> SUFFICES ASSUME TypeOK, SlotsExact, [Next]_vars PROVE SlotsExact'
  OBVIOUS
<1> DEFINE Kept == HoldingSlot' = HoldingSlot /\ localSlots' = localSlots
<1>1. Kept => SlotsExact'
  BY DEF SlotsExact
<1>2. CASE UNCHANGED vars
  BY <1>1, <1>2 DEF HoldingSlot, vars, sessionVars, control
<1>3. ASSUME NEW s \in Sessions, Waiter(s) \/ Others(s) PROVE SlotsExact'
  <2>1. CASE Acquire(s)
    BY <2>1, SlotTaken
  <2>2. CASE Release(s)
    BY <2>2, SlotGivenBack
  <2>3. CASE \/ Call(s) \/ AcquireBusy(s) \/ AcquireCancelled(s)
             \/ StartFails(s) \/ Start(s) \/ Forget(s)
    <3> Kept
      BY <2>3 DEF HoldingSlot, TypeOK, Goto, Return, Call, AcquireBusy, AcquireCancelled,
                  StartFails, Start, Forget
    <3> QED BY <1>1
  <2>4. CASE SelectExited(s) \/ SelectObserveErr(s) \/ SelectCancelled(s) \/ Join(s)
    <3> Kept
      BY <2>4 DEF HoldingSlot, TypeOK, Goto, SelectExited, SelectObserveErr,
                  SelectCancelled, Join
    <3> QED BY <1>1
  <2>5. CASE ReapCancelled(s) \/ ReapUnobserved(s) \/ FinalReap(s)
    <3> Kept
      BY <2>5 DEF HoldingSlot, TypeOK, Goto, Return, ReapCancelled, ReapUnobserved, FinalReap
    <3> QED BY <1>1
  <2>6. CASE Drained(s) \/ DrainCancelled(s) \/ Poll1(s) \/ Poll2(s)
    <3> Kept
      BY <2>6 DEF HoldingSlot, TypeOK, Goto, Drained, DrainCancelled, Poll1, Poll2
    <3> QED BY <1>1
  <2>7. CASE \/ Cancel(s) \/ Fork(s) \/ KidsExit(s) \/ LeaderExits(s)
             \/ Observe(s) \/ ObserveFails(s)
             \/ \E k \in Pipes : Receive(s, k) \/ CopyEnds(s, k) \/ CopyFails(s, k)
    <3> Kept
      BY <2>7 DEF HoldingSlot, control, Cancel, Fork, KidsExit, LeaderExits, Observe,
                  ObserveFails, Receive, CopyEnds, CopyFails
    <3> QED BY <1>1
  <2> QED BY <1>3, <2>1, <2>2, <2>3, <2>4, <2>5, <2>6, <2>7 DEF Waiter, Others
<1> QED BY <1>2, <1>3 DEF Next

LEMMA SlotsInit == Init => SlotsExact
<1> SUFFICES ASSUME Init PROVE SlotsExact
  OBVIOUS
<1>1. HoldingSlot = {}
  BY DEF Init, HoldingSlot
<1> QED BY <1>1, FS_EmptySet DEF Init, SlotsExact

\* max_git_shell_processes bounds the git-shell processes that exist, zombies
\* included, and not only the sessions that started one.
THEOREM ProcessLimitCorrect == Spec => []ProcessLimit
<1>1. Spec => []SlotsExact
  <2>1. TypeOK /\ SlotsExact /\ [Next]_vars => (TypeOK /\ SlotsExact)'
    BY TypeStep, SlotsStep
  <2>2. Init => TypeOK /\ SlotsExact
    BY TypeInit, SlotsInit
  <2> QED BY <2>1, <2>2, PTL DEF Spec
<1>2. TypeOK /\ Lifecycle /\ SlotsExact => ProcessLimit
  <2> SUFFICES ASSUME TypeOK, Lifecycle, SlotsExact, MaxGitShellProcesses # 0
               PROVE  /\ localSlots = Cardinality(HoldingSlot)
                      /\ Cardinality({s \in Sessions : leader[s] \in {"running", "zombie"}})
                            <= MaxGitShellProcesses
    BY DEF ProcessLimit
  <2> DEFINE Unreaped == {s \in Sessions : leader[s] \in {"running", "zombie"}}
  <2>1. Unreaped \subseteq HoldingSlot
    BY DEF TypeOK, Lifecycle, LifecycleOf, HoldingSlot
  <2>2. /\ Cardinality(Unreaped) \in Nat
        /\ Cardinality(Unreaped) <= Cardinality(HoldingSlot)
    BY <2>1, HoldingFinite, FS_Subset, FS_CardinalityType
  <2>3. localSlots = Cardinality(HoldingSlot) /\ localSlots <= MaxGitShellProcesses
    BY SlotsAssumption DEF SlotsExact, TypeOK
  <2> HIDE DEF Unreaped
  <2>4. Cardinality(Unreaped) <= MaxGitShellProcesses
    BY <2>2, <2>3, HoldingFinite, SlotsAssumption
  <2> QED BY <2>3, <2>4 DEF Unreaped
<1> QED BY <1>1, <1>2, LifecycleAlways, PTL
=============================================================================
