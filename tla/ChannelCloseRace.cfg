\* One thread of alice sends while another one closes.
CONSTANTS
  alice = alice
  bob = bob
  t1 = t1
  t2 = t2
  k1 = k1
  k2 = k2
  Peers = {alice, bob}
  Threads = {t1, t2}
  Keys = {k1}
  Senders = {alice}
  Calls = {"SendAsync"}
  MaxMsgs = 1
  Window = 0
  MaxRetry = 1
  MaxFaults = 0
  Faults = {"request"}
  ExitIfAsyncError = TRUE
  Serial = FALSE
  ReuseKeys = FALSE
  Closers = {alice, bob}
  Aborts = {}
  Timeouts = FALSE
SPECIFICATION Spec
INVARIANT QuiescentAtClose
CHECK_DEADLOCK FALSE
