SPECIFICATION Spec
CONSTANTS
  Partition = {p1}
  OrderId = {o1, o2}
  CourierId = {c1, c2}
  User = {u1, u2}
  Staff = {c1}
  Place = {0}
  Request = {q1}
  None = None
  Faults = {"failed", "unknown", "crash"}
  MaxFaults = 1
INVARIANTS
  TypeOK
  OneOrderPerCourier
  AnnouncedOncePerAttempt
PROPERTIES
  EveryRecordHandled
