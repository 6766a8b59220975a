CONSTANTS
    Sessions = {s1, s2}
    MaxQueueSize = 1
    MaxStarts = 2
    MaxStops = 2
SPECIFICATION FairSpec
CHECK_DEADLOCK FALSE
INVARIANTS CountersMatch ThreadsJoined
PROPERTIES LeaseRefinement AcceptLoopAlive StopReturns
