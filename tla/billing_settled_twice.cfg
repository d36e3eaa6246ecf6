SPECIFICATION Spec
CONSTANTS
  Request = {r1, r2, r3, r4}
  InvoiceId = {i1}
  User = {u1}
  Currency = {"RUB"}
  Amount = {1, 2}
  NoRow = NoRow
  NoCall = NoCall
  Threads = 2
  Faults = {}
  MaxFaults = 0
SYMMETRY Symmetry
INVARIANTS
  SettledOnce
