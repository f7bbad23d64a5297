CONSTANTS
    Buckets = 3
    MinSamples = 2
    One = 100
    Mild = 30
    High = 60
    Skew = 2
    MaxSec = 4
    MaxPerSec = 2
SPECIFICATION Spec
INVARIANTS TypeOK WindowExact SeverityExact RaisedIsAnnounced
