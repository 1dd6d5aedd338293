\* Both ends send a message, read it or not, and close; a request may be lost
\* once, at any point.
CONSTANTS
  alice = alice
  bob = bob
  t1 = t1
  t2 = t2
  k1 = k1
  k2 = k2
  Peers = {alice, bob}
  Threads = {t1}
  Keys = {k1}
  Senders = {alice, bob}
  Calls = {"SendAsync"}
  MaxMsgs = 1
  Window = 0
  MaxRetry = 1
  MaxFaults = 1
  Faults = {"request", "final"}
  ExitIfAsyncError = TRUE
  Serial = TRUE
  ReuseKeys = FALSE
  Closers = {alice, bob}
  Aborts = {}
  Timeouts = FALSE
SPECIFICATION Spec
INVARIANTS TypeOK QuiescentAtClose
PROPERTY ImplementsMailbox
SYMMETRY Symmetry
CHECK_DEADLOCK FALSE
