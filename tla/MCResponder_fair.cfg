\* Two sources, and a kill, a reboot, or something that fails; fair.
SPECIFICATION FairSpec
CONSTANTS
  Src = {s1, s2}
  Nobody = nobody
  Ttl = 1
  TtlMax = 2
  RateMin = 1
  RateHour = 1
  Minute = 0
  Hour = 1
  CacheTtl = 1
  FlushS = 1
  MaxBlocks = 2
  MaxFaults = 1
INVARIANTS TypeOK EscalationKept WindowsOfThisBoot HourCap
PROPERTIES AllowHonoured PendingWritten
