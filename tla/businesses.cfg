\* Three requests on tables that hold a business with a meal.  Requests are
\* numbers and arrive in their order, which stands for a symmetry.
SPECIFICATION Spec
CONSTANTS
  MaxRequests = 3
  MaxId = 2
  Found = 1
  Lines <- MCLines
  Methods <- MCMethods
  BufferSize = 1024
  NoHandler = NoHandler
  Text = {a, b}
  NoRow = NoRow
  NoCall = NoCall
  Threads = 2
  Faults = {"failed", "broken", "unknown", "crash"}
  MaxFaults = 1
INVARIANTS
  TypeOK
  AnswerIsTrue
PROPERTIES
  ImplementsCatalogue
