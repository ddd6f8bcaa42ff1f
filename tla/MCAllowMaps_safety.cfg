SPECIFICATION Spec
CONSTANTS
  wide = wide
  narrow = narrow
  six = six
  probed = probed
  a = a
  b = b
  c = c
  s = s
  resolve = resolve
  derp = derp
  Range = {wide, narrow, six, probed}
  Address = {a, b, c, s}
  Covers <- MCCovers
  Version <- MCVersion
  CANARY = c
  Directive = {resolve, derp}
  Answers <- MCAnswers
  Literal = {narrow}
  Statics <- MCStatics
  MaxChanges = 2
  MaxRuns = 3
  MaxFaults = 2
INVARIANT RemoteKept
PROPERTY NoHole
CHECK_DEADLOCK FALSE
