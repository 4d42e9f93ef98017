SPECIFICATION FairSpec
CONSTANT MaxRequests = 3
CHECK_DEADLOCK FALSE
INVARIANT AnswersInOrder
INVARIANT OneBackend
INVARIANT ExitStatusTrue
INVARIANT CompletedIsReported
PROPERTY SessionEnds
PROPERTY RequestsServed
