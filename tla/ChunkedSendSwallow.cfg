\* All chunks start at once and one push fails for good.
CONSTANTS
  NumBytes = 5
  BytesPerChunk = 2
  ParallelLimit = 3
  MaxRetry = 0
  MaxFaults = 1
SPECIFICATION Spec
INVARIANT FailureReported
