SPECIFICATION Spec
CONSTANTS
  x1 = x1
  x2 = x2
  Clients = {c1, c2}
  Violations = {v1}
  Items = {x1, x2}
  ItemOf <- ItemOfDef
  Resolutions = {"fixed"}
  Nothing = Nothing
  MaxTime = 6
SYMMETRY Interchangeable
INVARIANTS TypeOK EveryObservationCounts RecurrenceSurfaces OneOpenIncident
INVARIANTS CandidatesLinked StreamsInClockOrder
PROPERTIES ResolutionLasts
CHECK_DEADLOCK FALSE
