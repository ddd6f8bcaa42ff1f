\* Two block commands, a sweep and the kernel over a network, a host in it, and a network that would swallow a never-block range.
SPECIFICATION Spec
CONSTANTS
  a1 = a1  a2 = a2  a3 = a3  a4 = a4
  wide = wide  one = one  two = two  six = six  loop = loop  all = all
  Span <- NetSpan
  Base <- NetBase
  Ver <- NetVer
  Nobody = Nobody
  Absent = Absent
  Net = {wide, one, loop, all}
  Addr = {a1, a2, a3}
  Broad = {all}
  NeverBlock = {loop}
  AllowNet = {}
  TTL = {1}
  Blocker = {b1, b2}
  Sweeper = {s}
  Operator = {}
  MaskedErrors = FALSE
  MaxClock = 3
  MaxHits = 1
  MaxFaults = 0
SYMMETRY Symmetry
INVARIANTS TypeOK LossConfined CoverAnswers NeverBlockSpared
PROPERTIES Lease
