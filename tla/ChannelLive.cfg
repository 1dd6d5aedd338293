\* Two messages behind a window of one while both ends close.
CONSTANTS
  alice = alice
  bob = bob
  t1 = t1
  t2 = t2
  k1 = k1
  k2 = k2
  Peers = {alice, bob}
  Threads = {t1}
  Keys = {k1, k2}
  Senders = {alice}
  Calls = {"SendAsync", "SendAsyncThrottled"}
  MaxMsgs = 2
  Window = 1
  MaxRetry = 0
  MaxFaults = 0
  Faults = {}
  ExitIfAsyncError = TRUE
  Serial = TRUE
  ReuseKeys = FALSE
  Closers = {alice, bob}
  Aborts = {}
  Timeouts = FALSE
SPECIFICATION LiveSpec
INVARIANT WaitsOnlyWhenFull
PROPERTY CloseCompletes
CHECK_DEADLOCK FALSE
