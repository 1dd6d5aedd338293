\* Three threads race in Connect, which the peer refuses once, and send a request each.
CONSTANTS
  Threads = {"t1", "t2", "t3"}
  MaxRequests = 1
  Refused = 1
SPECIFICATION Spec
INVARIANTS OneAnswerEach AnswersUsedOnce
PROPERTY AllReturn
\* Threads may wait for ever on a connection that was refused.
CHECK_DEADLOCK FALSE
