SPECIFICATION Spec
CONSTANTS
  x1 = x1
  x2 = x2
  Clients = {c1}
  Violations = {v1}
  Items = {x1, x2}
  ItemOf <- ItemOfDef
  Resolutions = {"fixed"}
  Nothing = Nothing
  MaxTime = 6
PROPERTIES CorrectionsStand
CHECK_DEADLOCK FALSE
