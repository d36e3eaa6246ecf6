\* One worker thread, so one request at a time.  No symmetry: it is unsound for
\* liveness.
SPECIFICATION Spec
CONSTANTS
  Request = {r1, r2, r3, r4}
  InvoiceId = {i1}
  User = {u1}
  Currency = {"RUB"}
  Amount = {0, 1}
  NoRow = NoRow
  NoCall = NoCall
  Threads = 1
  Faults = {"failed", "unknown", "crash"}
  MaxFaults = 2
INVARIANTS
  DriftBoundedByFaults
PROPERTIES
  ImplementsAtomicPayments
  EveryRequestEnds
