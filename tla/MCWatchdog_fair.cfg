\* One operator, fair cycles and commands, and a kill, a failure or a reboot.
SPECIFICATION FairSpec
CONSTANTS
  Operator = {o}
  Wd = wd
  CanaryTrip = 1
  LifelineTrip = 1
  DetachTrip = 2
  CleanRearm = 2
  MaxFaults = 1
INVARIANTS TypeOK OncePerBoot RearmEarned
PROPERTIES TroubleOpens OutageDetaches WellRearms
