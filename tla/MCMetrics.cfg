\* A ring of two minutes comes round within the two ticks.
CONSTANTS
    Recorders = {r1, r2}
    RingSize = 2
    MaxLatencies = 1
    LatCap = 2
    MaxEvents = 2
    MaxTicks = 2
    MaxCrashes = 1
    NoFile = NoFile
    Invalid = Invalid
SPECIFICATION Spec
SYMMETRY RecorderSymmetry
INVARIANTS CountsConsistent LatenciesKept
PROPERTY WindowExact
