\* Three concurrent calls on the wallets of two users.  No symmetry: it is
\* unsound for liveness.
SPECIFICATION Spec
CONSTANTS
  Session = {s1, s2, s3}
  User = {u1, u2}
  Currency = {"RUB", "USD"}
  Size = {1}
  NoRow = NoRow
  Free = Free
INVARIANTS
  TypeOK
  BooksBalance
  DraftIsFresh
  AnswerIsTrue
PROPERTIES
  ImplementsWallet
  EveryCallEnds
