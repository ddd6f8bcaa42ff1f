CONSTANTS
  wide = wide
  narrow = narrow
  first = first
  second = second
  Key = {wide}
  Inside <- Flat
  NoKey = NoKey
  Feed = {first}
  NoFeed = NoFeed
  Order <- Single
  Applied = {first}
  Loader = {l1}
  Free = Free
  MaskedErrors = FALSE
  MaxRuns = 2
  MaxStamp = 2
  MaxFaults = 1
SPECIFICATION Spec
PROPERTIES CrashRecovered
CHECK_DEADLOCK FALSE
