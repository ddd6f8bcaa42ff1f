\* One operator and the watchdog, nothing fails: an automatic re-arm undoes a manual off issued after its check.
SPECIFICATION Spec
CONSTANTS
  Operator = {o}
  Wd = wd
  CanaryTrip = 1
  LifelineTrip = 1
  DetachTrip = 2
  CleanRearm = 1
  MaxFaults = 0
PROPERTIES ManualOffKept
