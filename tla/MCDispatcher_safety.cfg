SPECIFICATION Spec
CONSTANTS
  Script = {p, q}
  MaxRuns = 4
  MaxPrograms = 4
  MaxFaults = 3
SYMMETRY MCSymmetry
INVARIANT Settled
PROPERTY Hitless
CHECK_DEADLOCK FALSE
