\* Two threads share the socket.
CONSTANTS
  Threads = {"t1", "t2"}
  MaxRequests = 1
  Refused = 0
SPECIFICATION Spec
INVARIANTS OwnAnswer
\* Threads may wait for ever on a connection that was refused.
CHECK_DEADLOCK FALSE
