\* Two processes, two feeds, a network in another until processes meet or something fails, one fault.
CONSTANTS
  wide = wide
  narrow = narrow
  first = first
  second = second
  Key = {wide, narrow}
  Inside <- Nested
  NoKey = NoKey
  Feed = {first, second}
  NoFeed = NoFeed
  Order <- InOrder
  Applied = {first, second}
  Loader = {l1, l2}
  Free = Free
  MaskedErrors = TRUE
  MaxRuns = 2
  MaxStamp = 3
  MaxFaults = 1
SPECIFICATION Spec
SYMMETRY Alike
CONSTRAINT OneOrTwo
INVARIANTS TypeOK Accounted WithdrawnClean AdoptionEarned
PROPERTIES WithdrawalWarranted ForeignSpared
CHECK_DEADLOCK FALSE
