SPECIFICATION Spec
CONSTANTS
  o1 = o1
  o2 = o2
  a1 = a1
  a2 = a2
  k1 = k1
  i1 = i1
  v1 = v1
  Clients = {c1}
  Entries = {o1, o2}
  Approvers = {a1, a2}
  Consumers = {k1}
  Items = {i1}
  Versions = {v1}
  Commands <- AcceptanceCommands
  NoCommand = NoCommand
  MaxObjections = 2
SYMMETRY Interchangeable
PROPERTIES AcceptedWithoutObjection
