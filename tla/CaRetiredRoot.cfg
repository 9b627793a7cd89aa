SPECIFICATION Spec
CONSTANTS
    Foreign = {f1, f2}
    Years = {1}
    YearTicks = 1
    Lengths = {2}
    ForeignEnds = {0}
    Workers = {w1}
    MaxRows = 4
    Moments = {0}
    None = None
SYMMETRY Symmetric
CHECK_DEADLOCK FALSE
INVARIANT NoIssuerUnderRetired
