SPECIFICATION Spec
CONSTANTS
  v1 = v1
  v2 = v2
  Obj <- MCObj
  Owner <- MCOwner
  Title = {"n1", "n2"}
  Legacy <- MCLegacy
  Documented <- MCSurface
  Sampled <- MCSurface
  Absent = absent
  Torn = torn
  HalfLine = halfline
  MaxEdits = 4
INVARIANTS TypeOK UuidsDistinct
PROPERTIES HistoryKept NamesKept NoResurrection
