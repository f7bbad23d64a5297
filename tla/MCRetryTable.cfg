CONSTANTS
    Keys = {3, 4, 7, 11}
    Size = 4
    Probes = 2
    PerSec = 2
    Window = 2
    Skew = 1
    MaxTime = 5
SPECIFICATION Spec
INVARIANTS TypeOK ProbeFinds NoFalseRetry NoMissedRetry KeepsUntilCrowded
