\* Three chunks, the last one short, two at a time; three LinkErrors, so that
\* every chunk can be repeated, and one push can fail for good.
CONSTANTS
  NumBytes = 5
  BytesPerChunk = 2
  ParallelLimit = 2
  MaxRetry = 1
  MaxFaults = 3
SPECIFICATION Spec
INVARIANTS WholeMessageOnce ParallelBound ReturnMeansStored
PROPERTY TransferEnds
