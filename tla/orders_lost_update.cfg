SPECIFICATION Spec
CONSTANTS
  Instance = {n1}
  Request = {r1, r2, r3}
  OrderId = {i1}
  Courier = {c1}
  StatusAsked = {"PENDING", "READY"}
  NoRow = NoRow
  NoCourier = NoCourier
  Keep = Keep
  Nobody = Nobody
  Threads = 2
  Faults = {}
  MaxFaults = 0
SYMMETRY Symmetry
PROPERTIES
  OmittedFieldsKept
