CONSTANTS
    Services = {s1, s2, s3}
    Callers = {c1, c2}
    Idle = Idle
    MaxServices = 2
    TTL = 1
    MinAbsolute = 1
    One = 100
    Multiplier = 25
    MildHold = 2
    SevereHold = 3
    Skew = 1
SYMMETRY Symmetry
SPECIFICATION Spec
INVARIANTS TypeOK TableIsLRU InFlightNeverOver HeldLongEnough
