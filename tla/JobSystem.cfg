\* Three workers, as JobSystem's default argument; one spurious wake-up; stop() twice, as
\* in ~Network. No symmetry, because of the liveness properties.
SPECIFICATION FairSpec
CONSTANTS
    Workers = {w1, w2, w3}
    Jobs = {j1, j2, j3}
    MaxSpurious = 1
    MaxStops = 2
INVARIANTS
    WorkConserving
    JobsInOrder
    AtMostOneLateJob
    StoppedMeansStopped
PROPERTIES
    EveryJobStarts
    StopReturns
CHECK_DEADLOCK FALSE
