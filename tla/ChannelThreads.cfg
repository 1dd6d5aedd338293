\* Two threads of alice send two messages under one key through a window of one;
\* a request or an answer is lost, which is retried or not, waits time out, and either end may abort.
CONSTANTS
  alice = alice
  bob = bob
  t1 = t1
  t2 = t2
  k1 = k1
  k2 = k2
  Peers = {alice, bob}
  Threads = {t1, t2}
  Keys = {k1}
  Senders = {alice}
  Calls = {"Send"}
  MaxMsgs = 2
  Window = 1
  MaxRetry = 1
  MaxFaults = 1
  Faults = {"request", "answer", "final"}
  ExitIfAsyncError = TRUE
  Serial = TRUE
  ReuseKeys = TRUE
  Closers = {}
  Aborts = {alice, bob}
  Timeouts = TRUE
SPECIFICATION Spec
INVARIANTS AckMeansConsumed WindowBound SendDelivers
PROPERTY ImplementsMailbox
SYMMETRY SymmetryOneWay
CHECK_DEADLOCK FALSE
