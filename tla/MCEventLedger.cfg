CONSTANTS
  Clients = {c1, c2, c3}
  Streams = {s1, s2}
  Events = {e1}
  NoExpectation = NoExpectation
  NoRequest = NoRequest
  MaxVersion = 2
SYMMETRY Interchangeable
SPECIFICATION Spec
INVARIANTS Contiguous ReceiptHonoured ConflictIsReal
PROPERTIES NoLostUpdate ImplementsAppendOnlyLog
CHECK_DEADLOCK FALSE
