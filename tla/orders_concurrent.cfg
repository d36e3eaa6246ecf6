SPECIFICATION Spec
CONSTANTS
  Instance = {n1, n2}
  Request = {r1, r2, r3}
  OrderId = {i1}
  Courier = {}
  StatusAsked = {"PENDING", "FINISHED"}
  NoRow = NoRow
  NoCourier = NoCourier
  Keep = Keep
  Nobody = Nobody
  Threads = 2
  Faults = {"failed", "unknown", "dropped", "crash"}
  MaxFaults = 1
SYMMETRY Symmetry
INVARIANTS
  TypeOK
  CacheAgrees
  OneEventPerChange
  AnswerIsTrue
  LastEventIsCurrent
PROPERTIES
  ImplementsOrderBook
