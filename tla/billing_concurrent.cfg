SPECIFICATION Spec
CONSTANTS
  Request = {r1, r2, r3, r4, r5}
  InvoiceId = {i1}
  User = {u1}
  Currency = {"RUB", "USD"}
  Amount = {1}
  NoRow = NoRow
  NoCall = NoCall
  Threads = 2
  Faults = {"failed", "unknown", "crash"}
  MaxFaults = 1
SYMMETRY Symmetry
INVARIANTS
  TypeOK
  AnswerMatchesLedger
  ChargeBehindPaid
  CreditFindsWallet
PROPERTIES
  ImplementsWallet
