SPECIFICATION Spec
CONSTANTS
  Request = {r1, r2, r3}
  User = {u1, u2}
  Name = {n1, n2}
  Password = {p1, p2}
  Member = {u1}
  NoRow = NoRow
  Keep = Keep
  NoCall = NoCall
  Threads = 2
  Faults = {"failed", "unknown", "crash"}
  MaxFaults = 1
SYMMETRY Symmetry
INVARIANTS
  TypeOK
  AnswerIsTrue
PROPERTIES
  ImplementsSessionBook
