\* Fair commands, both families, an operator, a failed call or a reboot: corpses go and commands end.
SPECIFICATION FairSpec
CONSTANTS
  a1 = a1  a2 = a2  a3 = a3  a4 = a4
  wide = wide  one = one  two = two  six = six  loop = loop  all = all
  Span <- NetSpan
  Base <- NetBase
  Ver <- NetVer
  Nobody = Nobody
  Absent = Absent
  Net = {one, six}
  Addr = {a1, a4}
  Broad = {}
  NeverBlock = {}
  AllowNet = {one}
  TTL = {1}
  Blocker = {b1}
  Sweeper = {s}
  Operator = {o}
  MaskedErrors = TRUE
  MaxClock = 2
  MaxHits = 0
  MaxFaults = 1
PROPERTIES Lease OnlyCorpsesCollected CorpsesGo BlockEnds
