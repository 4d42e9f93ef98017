------------------------- MODULE GitSessionProofs ---------------------------
(***************************************************************************)
(* TLAPS proofs about GitSession, for any number of requests.  Phases says *)
(* which goroutines exist at each place of the handler; Answering follows  *)
(* the hand-over of the request stream from the handler to the drain       *)
(* goroutine; Reporting says what the handler knows of the backend when it *)
(* leaves.                                                                 *)
(***************************************************************************)
EXTENDS GitSession, TLAPS

\* TypeOK, with the one fact it rests on: what Result returns is the error of
\* a backend that has returned.
Typed ==
    /\ TypeOK
    /\ pc \in {"exit", "result"} => BackendDone

\* The backend and the drain goroutine are started together, on leaving the
\* pre-exec loop, and the handler does not receive requests beside them.
Phases ==
    /\ pc \in {"start", "preExec", "reply"} => backend = "none"
    /\ pc \in {"preExec", "reply"} => gitPerm
    /\ pc \in {"wait", "exit", "result"} => backend # "none"
    /\ backend = "none" <=> drain = "off"
    /\ closed <=> pc = "returned"

InHand == pc = "reply" \/ drain = "answer"

\* All requests received but the one in the handler's or the drain goroutine's
\* hands have been answered while the channel could be written to, and no others.
Answering ==
    /\ Writable => \A i \in Ids : i <= taken /\ ~(i = taken /\ InHand) => reply[i] # "none"
    /\ \A i \in Ids : reply[i] # "none" => i <= taken /\ ~(i = taken /\ InHand)
    /\ InHand => taken > 0
    /\ AnswersInOrder

\* What was granted was received, and nothing is granted before the loop.
Granting ==
    /\ \A i \in Ids : i <= sent => kind[i] # "none"
    /\ \A i \in Ids : reply[i] = "true" => i <= taken
    /\ pc = "start" => \A i \in Ids : reply[i] = "none"
    /\ OneBackend

\* When the handler is past exit-status, one was sent, or the backend had not
\* returned when ctx ended, or the client had closed the channel.
Reporting ==
    /\ early => ctx /\ BackendDone
    /\ requestStreamClosed => streamClosed
    /\ exitStatus # "none" => BackendDone
    /\ pc \in {"result", "unwind", "close", "returned"} =>
          ((early \/ (~ctx /\ backend # "none")) /\ ~streamClosed => exitStatus # "none")
    /\ pc = "result" /\ ~streamClosed => exitStatus # "none"
    /\ ExitStatusTrue

-----------------------------------------------------------------------------
LEMMA TypeStep == Typed /\ [Next]_vars => Typed'
<1> SUFFICES ASSUME Typed, [Next]_vars PROVE Typed'
  OBVIOUS
<1> USE RequestsAssumption DEF Typed, TypeOK, BackendDone, Ids, Kinds
<1>0. ASSUME NEW a \in {"true", "false"} PROVE Answered(taken, a) \in [Ids -> {"none", "true", "false"}]
  BY <1>0 DEF Answered
<1>1. CASE UNCHANGED vars
  BY <1>1 DEF vars, client, answers, handler, work
<1>2. CASE Refuse
  BY <1>2 DEF Refuse, client, answers, work
<1>3. CASE Begin
  BY <1>3 DEF Begin, client, answers, work
<1>4. CASE PreExecTimeout
  BY <1>4 DEF PreExecTimeout, Return, client, answers, work
<1>5. CASE PreExecCancelled
  BY <1>5 DEF PreExecCancelled, Return, client, answers, work
<1>6. CASE PreExecClosed
  BY <1>6 DEF PreExecClosed, Return, StreamAtEnd, client, answers, work
<1>7. CASE AcceptEnv
  BY <1>0, <1>7 DEF AcceptEnv, Reply, client, work
<1>8. CASE Reject
  BY <1>0, <1>8 DEF Reject, Return, Reply, client, work
<1>9. CASE AcceptExec
  BY <1>0, <1>9 DEF AcceptExec, Reply, client
<1>10. CASE WaitBackend
  BY <1>10 DEF WaitBackend, client, answers, work
<1>11. CASE WaitClosed
  BY <1>11 DEF WaitClosed, Return, client, answers
<1>12. CASE WaitCancelled
  BY <1>12 DEF WaitCancelled, Return, client, answers, work
<1>13. CASE SendExitStatus
  BY <1>13 DEF SendExitStatus, client, answers, work
<1>14. CASE Result
  BY <1>14 DEF Result, Return, client, answers, work
<1>15. CASE Unwind
  BY <1>15 DEF Unwind, client, answers
<1>16. CASE CloseChannel
  BY <1>16 DEF CloseChannel, client, answers, work
<1>17. CASE DrainStops
  BY <1>17 DEF DrainStops, BackendCtxDone, client, answers, handler
<1>18. CASE DrainReceives
  BY <1>18 DEF DrainReceives, client, handler
<1>19. CASE DrainAnswers
  BY <1>0, <1>19 DEF DrainAnswers, client, handler
<1>20. CASE DrainSeesClose
  BY <1>20 DEF DrainSeesClose, StreamAtEnd, client, answers, handler
<1>21. CASE CloseStream
  BY <1>21 DEF CloseStream, answers, handler, work
<1>22. CASE Cancel
  BY <1>22 DEF Cancel, client, answers, handler, work
<1>23. CASE TimerFires
  BY <1>23 DEF TimerFires, client, answers, work
<1>24. CASE BackendReturns
  BY <1>24 DEF BackendReturns, client, answers, handler
<1>25. ASSUME NEW k \in Kinds, Send(k) PROVE Typed'
  BY <1>25 DEF Send, answers, handler, work
<1>26. CASE Receive
  BY <1>26 DEF Receive, client, work
<1>27. CASE ClientStalls
  BY <1>27 DEF ClientStalls, answers, handler, work
<1>28. CASE ClientReads
  BY <1>28 DEF ClientReads, answers, handler, work
<1> QED BY <1>1, <1>2, <1>3, <1>4, <1>5, <1>6, <1>7, <1>8, <1>9, <1>10, <1>11, <1>12,
       <1>13, <1>14, <1>15, <1>16, <1>17, <1>18, <1>19, <1>20, <1>21, <1>22, <1>23,
      <1>24, <1>25, <1>26, <1>27, <1>28
       DEF Next, Handler, PreExec, Drain, Environment

LEMMA TypeInit == Init => Typed
<1> SUFFICES ASSUME Init PROVE Typed
  OBVIOUS
<1>1. sent \in 0 .. MaxRequests /\ taken \in 0 .. sent
  BY RequestsAssumption DEF Init
<1>2. /\ kind \in [Ids -> Kinds \cup {"none"}]
      /\ reply \in [Ids -> {"none", "true", "false"}]
  BY DEF Init
<1> QED BY <1>1, <1>2 DEF Init, Typed, TypeOK

\* HandleSession's variables keep their types; no more requests are received
\* than were sent.
THEOREM SessionTypeCorrect == Spec => []TypeOK
<1>1. Typed => TypeOK
  BY DEF Typed
<1> QED BY <1>1, TypeInit, TypeStep, PTL DEF Spec

-----------------------------------------------------------------------------
LEMMA PhasesStep == Typed /\ Phases /\ [Next]_vars => Phases'
<1> SUFFICES ASSUME Typed, Phases, [Next]_vars PROVE Phases'
  OBVIOUS
<1> USE DEF Typed, TypeOK, BackendDone, Phases
<1>1. CASE UNCHANGED vars
  BY <1>1 DEF vars, client, answers, handler, work
<1>2. CASE Refuse
  BY <1>2 DEF Refuse, client, answers, work
<1>3. CASE Begin
  BY <1>3 DEF Begin, client, answers, work
<1>4. CASE PreExecTimeout
  BY <1>4 DEF PreExecTimeout, Return, client, answers, work
<1>5. CASE PreExecCancelled
  BY <1>5 DEF PreExecCancelled, Return, client, answers, work
<1>6. CASE PreExecClosed
  BY <1>6 DEF PreExecClosed, Return, StreamAtEnd, client, answers, work
<1>7. CASE AcceptEnv
  BY <1>7 DEF AcceptEnv, Reply, Answered, client, work
<1>8. CASE Reject
  BY <1>8 DEF Reject, Return, Reply, Answered, client, work
<1>9. CASE AcceptExec
  BY <1>9 DEF AcceptExec, Reply, Answered, client
<1>10. CASE WaitBackend
  BY <1>10 DEF WaitBackend, client, answers, work
<1>11. CASE WaitClosed
  BY <1>11 DEF WaitClosed, Return, client, answers
<1>12. CASE WaitCancelled
  BY <1>12 DEF WaitCancelled, Return, client, answers, work
<1>13. CASE SendExitStatus
  BY <1>13 DEF SendExitStatus, client, answers, work
<1>14. CASE Result
  BY <1>14 DEF Result, Return, client, answers, work
<1>15. CASE Unwind
  BY <1>15 DEF Unwind, client, answers
<1>16. CASE CloseChannel
  BY <1>16 DEF CloseChannel, client, answers, work
<1>17. CASE DrainStops
  BY <1>17 DEF DrainStops, BackendCtxDone, client, answers, handler
<1>18. CASE DrainReceives
  BY <1>18 DEF DrainReceives, client, handler
<1>19. CASE DrainAnswers
  BY <1>19 DEF DrainAnswers, Answered, client, handler
<1>20. CASE DrainSeesClose
  BY <1>20 DEF DrainSeesClose, StreamAtEnd, client, answers, handler
<1>21. CASE CloseStream
  BY <1>21 DEF CloseStream, answers, handler, work
<1>22. CASE Cancel
  BY <1>22 DEF Cancel, client, answers, handler, work
<1>23. CASE TimerFires
  BY <1>23 DEF TimerFires, client, answers, work
<1>24. CASE BackendReturns
  BY <1>24 DEF BackendReturns, client, answers, handler
<1>25. ASSUME NEW k \in Kinds, Send(k) PROVE Phases'
  BY <1>25 DEF Send, answers, handler, work
<1>26. CASE Receive
  BY <1>26 DEF Receive, client, work
<1>27. CASE ClientStalls
  BY <1>27 DEF ClientStalls, answers, handler, work
<1>28. CASE ClientReads
  BY <1>28 DEF ClientReads, answers, handler, work
<1> QED BY <1>1, <1>2, <1>3, <1>4, <1>5, <1>6, <1>7, <1>8, <1>9, <1>10, <1>11, <1>12,
       <1>13, <1>14, <1>15, <1>16, <1>17, <1>18, <1>19, <1>20, <1>21, <1>22, <1>23,
      <1>24, <1>25, <1>26, <1>27, <1>28
       DEF Next, Handler, PreExec, Drain, Environment

LEMMA PhasesInit == Init => Phases
BY DEF Init, Phases

LEMMA PhasesAlways == Spec => [](Typed /\ Phases)
<1>1. Init => Typed /\ Phases
  BY TypeInit, PhasesInit
<1>2. Typed /\ Phases /\ [Next]_vars => (Typed /\ Phases)'
  BY TypeStep, PhasesStep
<1> QED BY <1>1, <1>2, PTL DEF Spec

-----------------------------------------------------------------------------
(* Answers are given in order.                                             *)

LEMMA AnsweringStep == Typed /\ Phases /\ Answering /\ [Next]_vars => Answering'
<1> SUFFICES ASSUME Typed, Phases, Answering, [Next]_vars PROVE Answering'
  OBVIOUS
<1> USE RequestsAssumption DEF Typed, TypeOK, BackendDone, Phases, Answering,
      AnswersInOrder, InHand, Ids, Writable
<1>1. CASE UNCHANGED vars
  BY <1>1 DEF vars, client, answers, handler, work
<1>2. CASE Refuse
  BY <1>2 DEF Refuse, client, answers, work
<1>3. CASE Begin
  BY <1>3 DEF Begin, client, answers, work
<1>4. CASE PreExecTimeout
  BY <1>4 DEF PreExecTimeout, Return, client, answers, work
<1>5. CASE PreExecCancelled
  BY <1>5 DEF PreExecCancelled, Return, client, answers, work
<1>6. CASE PreExecClosed
  BY <1>6 DEF PreExecClosed, Return, StreamAtEnd, client, answers, work
<1>7. CASE AcceptEnv
  BY <1>7 DEF AcceptEnv, Reply, Answered, client, work
<1>8. CASE Reject
  BY <1>8 DEF Reject, Return, Reply, Answered, client, work
<1>9. CASE AcceptExec
  BY <1>9 DEF AcceptExec, Reply, Answered, client
<1>10. CASE WaitBackend
  BY <1>10 DEF WaitBackend, client, answers, work
<1>11. CASE WaitClosed
  BY <1>11 DEF WaitClosed, Return, client, answers
<1>12. CASE WaitCancelled
  BY <1>12 DEF WaitCancelled, Return, client, answers, work
<1>13. CASE SendExitStatus
  BY <1>13 DEF SendExitStatus, client, answers, work
<1>14. CASE Result
  BY <1>14 DEF Result, Return, client, answers, work
<1>15. CASE Unwind
  BY <1>15 DEF Unwind, client, answers
<1>16. CASE CloseChannel
  BY <1>16 DEF CloseChannel, client, answers, work
<1>17. CASE DrainStops
  BY <1>17 DEF DrainStops, BackendCtxDone, client, answers, handler
<1>18. CASE DrainReceives
  BY <1>18 DEF DrainReceives, client, handler
<1>19. CASE DrainAnswers
  BY <1>19 DEF DrainAnswers, Answered, client, handler
<1>20. CASE DrainSeesClose
  BY <1>20 DEF DrainSeesClose, StreamAtEnd, client, answers, handler
<1>21. CASE CloseStream
  BY <1>21 DEF CloseStream, answers, handler, work
<1>22. CASE Cancel
  BY <1>22 DEF Cancel, client, answers, handler, work
<1>23. CASE TimerFires
  BY <1>23 DEF TimerFires, client, answers, work
<1>24. CASE BackendReturns
  BY <1>24 DEF BackendReturns, client, answers, handler
<1>25. ASSUME NEW k \in Kinds, Send(k) PROVE Answering'
  BY <1>25 DEF Send, answers, handler, work
<1>26. CASE Receive
  BY <1>26 DEF Receive, client, work
<1>27. CASE ClientStalls
  BY <1>27 DEF ClientStalls, answers, handler, work
<1>28. CASE ClientReads
  BY <1>28 DEF ClientReads, answers, handler, work
<1> QED BY <1>1, <1>2, <1>3, <1>4, <1>5, <1>6, <1>7, <1>8, <1>9, <1>10, <1>11, <1>12,
       <1>13, <1>14, <1>15, <1>16, <1>17, <1>18, <1>19, <1>20, <1>21, <1>22, <1>23,
      <1>24, <1>25, <1>26, <1>27, <1>28
       DEF Next, Handler, PreExec, Drain, Environment

LEMMA AnsweringInit == Init => Answering
BY RequestsAssumption DEF Init, Answering, AnswersInOrder, InHand, Ids

\* Handler and drain goroutine together answer the requests of a session in
\* the order they were sent, without passing one over.
THEOREM AnswersInOrderCorrect == Spec => []AnswersInOrder
<1>1. Typed /\ Phases /\ Answering /\ [Next]_vars => (Typed /\ Phases /\ Answering)'
  BY TypeStep, PhasesStep, AnsweringStep
<1>2. Init => Typed /\ Phases /\ Answering
  BY TypeInit, PhasesInit, AnsweringInit
<1>3. Answering => AnswersInOrder
  BY DEF Answering
<1> QED BY <1>1, <1>2, <1>3, PTL DEF Spec

-----------------------------------------------------------------------------
(* One authorized backend.                                                 *)

LEMMA GrantingStep == Typed /\ Phases /\ Granting /\ [Next]_vars => Granting'
<1> SUFFICES ASSUME Typed, Phases, Granting, [Next]_vars PROVE Granting'
  OBVIOUS
<1> USE RequestsAssumption DEF Typed, TypeOK, BackendDone, Phases, Granting, OneBackend,
      Ids, Kinds
<1>1. CASE UNCHANGED vars
  BY <1>1 DEF vars, client, answers, handler, work
<1>2. CASE Refuse
  BY <1>2 DEF Refuse, client, answers, work
<1>3. CASE Begin
  BY <1>3 DEF Begin, client, answers, work
<1>4. CASE PreExecTimeout
  BY <1>4 DEF PreExecTimeout, Return, client, answers, work
<1>5. CASE PreExecCancelled
  BY <1>5 DEF PreExecCancelled, Return, client, answers, work
<1>6. CASE PreExecClosed
  BY <1>6 DEF PreExecClosed, Return, StreamAtEnd, client, answers, work
<1>7. CASE AcceptEnv
  BY <1>7 DEF AcceptEnv, Reply, Answered, client, work
<1>8. CASE Reject
  BY <1>8 DEF Reject, Return, Reply, Answered, client, work
<1>9. CASE AcceptExec
  BY <1>9 DEF AcceptExec, Reply, Answered, client
<1>10. CASE WaitBackend
  BY <1>10 DEF WaitBackend, client, answers, work
<1>11. CASE WaitClosed
  BY <1>11 DEF WaitClosed, Return, client, answers
<1>12. CASE WaitCancelled
  BY <1>12 DEF WaitCancelled, Return, client, answers, work
<1>13. CASE SendExitStatus
  BY <1>13 DEF SendExitStatus, client, answers, work
<1>14. CASE Result
  BY <1>14 DEF Result, Return, client, answers, work
<1>15. CASE Unwind
  BY <1>15 DEF Unwind, client, answers
<1>16. CASE CloseChannel
  BY <1>16 DEF CloseChannel, client, answers, work
<1>17. CASE DrainStops
  BY <1>17 DEF DrainStops, BackendCtxDone, client, answers, handler
<1>18. CASE DrainReceives
  BY <1>18 DEF DrainReceives, client, handler
<1>19. CASE DrainAnswers
  BY <1>19 DEF DrainAnswers, Answered, client, handler
<1>20. CASE DrainSeesClose
  BY <1>20 DEF DrainSeesClose, StreamAtEnd, client, answers, handler
<1>21. CASE CloseStream
  BY <1>21 DEF CloseStream, answers, handler, work
<1>22. CASE Cancel
  BY <1>22 DEF Cancel, client, answers, handler, work
<1>23. CASE TimerFires
  BY <1>23 DEF TimerFires, client, answers, work
<1>24. CASE BackendReturns
  BY <1>24 DEF BackendReturns, client, answers, handler
<1>25. ASSUME NEW k \in Kinds, Send(k) PROVE Granting'
  BY <1>25 DEF Send, answers, handler, work
<1>26. CASE Receive
  BY <1>26 DEF Receive, client, work
<1>27. CASE ClientStalls
  BY <1>27 DEF ClientStalls, answers, handler, work
<1>28. CASE ClientReads
  BY <1>28 DEF ClientReads, answers, handler, work
<1> QED BY <1>1, <1>2, <1>3, <1>4, <1>5, <1>6, <1>7, <1>8, <1>9, <1>10, <1>11, <1>12,
       <1>13, <1>14, <1>15, <1>16, <1>17, <1>18, <1>19, <1>20, <1>21, <1>22, <1>23,
      <1>24, <1>25, <1>26, <1>27, <1>28
       DEF Next, Handler, PreExec, Drain, Environment

LEMMA GrantingInit == Init => Granting
BY RequestsAssumption DEF Init, Granting, OneBackend, Ids

\* HandleSession starts a backend for one authorized exec of a Git permission
\* and grants nothing after it, whatever the client sends.
THEOREM OneBackendCorrect == Spec => []OneBackend
<1>1. Typed /\ Phases /\ Granting /\ [Next]_vars => (Typed /\ Phases /\ Granting)'
  BY TypeStep, PhasesStep, GrantingStep
<1>2. Init => Typed /\ Phases /\ Granting
  BY TypeInit, PhasesInit, GrantingInit
<1>3. Granting => OneBackend
  BY DEF Granting
<1> QED BY <1>1, <1>2, <1>3, PTL DEF Spec

-----------------------------------------------------------------------------
(* The exit status.                                                        *)

LEMMA ReportingStep == Typed /\ Phases /\ Reporting /\ [Next]_vars => Reporting'
<1> SUFFICES ASSUME Typed, Phases, Reporting, [Next]_vars PROVE Reporting'
  OBVIOUS
<1> USE DEF Typed, TypeOK, BackendDone, Phases, Reporting, ExitStatusTrue, Writable
<1>1. CASE UNCHANGED vars
  BY <1>1 DEF vars, client, answers, handler, work
<1>2. CASE Refuse
  BY <1>2 DEF Refuse, client, answers, work
<1>3. CASE Begin
  BY <1>3 DEF Begin, client, answers, work
<1>4. CASE PreExecTimeout
  BY <1>4 DEF PreExecTimeout, Return, client, answers, work
<1>5. CASE PreExecCancelled
  BY <1>5 DEF PreExecCancelled, Return, client, answers, work
<1>6. CASE PreExecClosed
  BY <1>6 DEF PreExecClosed, Return, StreamAtEnd, client, answers, work
<1>7. CASE AcceptEnv
  BY <1>7 DEF AcceptEnv, Reply, Answered, client, work
<1>8. CASE Reject
  BY <1>8 DEF Reject, Return, Reply, Answered, client, work
<1>9. CASE AcceptExec
  BY <1>9 DEF AcceptExec, Reply, Answered, client
<1>10. CASE WaitBackend
  BY <1>10 DEF WaitBackend, client, answers, work
<1>11. CASE WaitClosed
  BY <1>11 DEF WaitClosed, Return, client, answers
<1>12. CASE WaitCancelled
  BY <1>12 DEF WaitCancelled, Return, client, answers, work
<1>13. CASE SendExitStatus
  BY <1>13 DEF SendExitStatus, client, answers, work
<1>14. CASE Result
  BY <1>14 DEF Result, Return, client, answers, work
<1>15. CASE Unwind
  BY <1>15 DEF Unwind, client, answers
<1>16. CASE CloseChannel
  BY <1>16 DEF CloseChannel, client, answers, work
<1>17. CASE DrainStops
  BY <1>17 DEF DrainStops, BackendCtxDone, client, answers, handler
<1>18. CASE DrainReceives
  BY <1>18 DEF DrainReceives, client, handler
<1>19. CASE DrainAnswers
  BY <1>19 DEF DrainAnswers, Answered, client, handler
<1>20. CASE DrainSeesClose
  BY <1>20 DEF DrainSeesClose, StreamAtEnd, client, answers, handler
<1>21. CASE CloseStream
  BY <1>21 DEF CloseStream, answers, handler, work
<1>22. CASE Cancel
  BY <1>22 DEF Cancel, client, answers, handler, work
<1>23. CASE TimerFires
  BY <1>23 DEF TimerFires, client, answers, work
<1>24. CASE BackendReturns
  BY <1>24 DEF BackendReturns, client, answers, handler
<1>25. ASSUME NEW k \in Kinds, Send(k) PROVE Reporting'
  BY <1>25 DEF Send, answers, handler, work
<1>26. CASE Receive
  BY <1>26 DEF Receive, client, work
<1>27. CASE ClientStalls
  BY <1>27 DEF ClientStalls, answers, handler, work
<1>28. CASE ClientReads
  BY <1>28 DEF ClientReads, answers, handler, work
<1> QED BY <1>1, <1>2, <1>3, <1>4, <1>5, <1>6, <1>7, <1>8, <1>9, <1>10, <1>11, <1>12,
       <1>13, <1>14, <1>15, <1>16, <1>17, <1>18, <1>19, <1>20, <1>21, <1>22, <1>23,
      <1>24, <1>25, <1>26, <1>27, <1>28
       DEF Next, Handler, PreExec, Drain, Environment

LEMMA ReportingInit == Init => Reporting
BY DEF Init, Reporting, BackendDone, ExitStatusTrue

LEMMA ReportingAlways == Spec => [](Typed /\ Phases /\ Reporting)
<1>1. Init => Typed /\ Phases /\ Reporting
  BY TypeInit, PhasesInit, ReportingInit
<1>2. Typed /\ Phases /\ Reporting /\ [Next]_vars => (Typed /\ Phases /\ Reporting)'
  BY TypeStep, PhasesStep, ReportingStep
<1> QED BY <1>1, <1>2, PTL DEF Spec

\* The exit-status request that HandleSession sends is the backend's.
THEOREM ExitStatusCorrect == Spec => []ExitStatusTrue
<1>1. Reporting => ExitStatusTrue
  BY DEF Reporting
<1> QED BY <1>1, ReportingAlways, PTL

\* A backend that had returned before the context ended is reported to a
\* client that still listens: the second look at backendDone suffices.
THEOREM CompletedIsReportedCorrect == Spec => []CompletedIsReported
<1>1. Phases /\ Reporting => CompletedIsReported
  BY DEF Phases, Reporting, CompletedIsReported
<1> QED BY <1>1, ReportingAlways, PTL
=============================================================================
