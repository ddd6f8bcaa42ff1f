SPECIFICATION Spec
CONSTANTS
  Host = {1, 2, 3, 4, 5, 6, 7, 8}
  Fleets <- MCFleets
  Changing = {1, 4}
  Flaky <- MCFlaky
  Length = {0, 35}
  Runner = {r1, r2}
  NoBoard = noboard
  MaxChanges = 1
  MaxRuns = 2
  MaxFaults = 1
INVARIANTS OneRun
PROPERTIES WellLaid ValuesReadable
CHECK_DEADLOCK FALSE
SYMMETRY MCSymmetry
