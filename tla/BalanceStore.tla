---------------------------- MODULE BalanceStore ----------------------------
(***************************************************************************)
(* The balance repository of the billing service, statement by statement   *)
(* (services/billing/src/repository/balance/pg_balance_repository.cpp).    *)
(*                                                                         *)
(* apply() runs two statements in one database transaction: a change of    *)
(* the wallet's row in table balances and an INSERT of the movement into   *)
(* table balance_transactions.  Transactions of several worker threads     *)
(* interleave; the database gives a row that was changed by an uncommitted *)
(* transaction to nobody else, at READ COMMITTED isolation.  A statement   *)
(* or a commit may fail, the answer to a commit may be lost, and the       *)
(* service may crash with transactions open.                               *)
(***************************************************************************)
EXTENDS Integers, FiniteSets, FiniteSetsExt

CONSTANTS
  Session,      \* calls of the repository, each on a pooled session of its own
  User,
  Currency,     \* currencies initialize() is asked for
  Size,         \* the absolute amounts that are moved
  NoRow,        \* no row in table balances
  Free          \* a row that no transaction has locked

ASSUME StoreAssumption ==
  /\ "RUB" \in Currency
  /\ NoRow \notin Currency
  /\ Size \subseteq Nat \ {0}
  /\ Free \notin Session

VARIABLES
  amount,       \* committed column amount_minor of balances
  currency,     \* committed column currency of balances, NoRow: no such row
  ledger,       \* committed rows of balance_transactions
  lock,         \* lock[u]: the session whose open transaction holds u's row
  job,          \* job[s]: what session s was called for
  pc,           \* pc[s]: how far the call has come
  draft         \* draft[s]: amount_minor in the uncommitted version of the row

vars == <<amount, currency, ledger, lock, job, pc, draft>>
tables == <<amount, currency, ledger>>

-----------------------------------------------------------------------------
(* A call is initialize(user, currency), credit(user, size) or             *)
(* debit(user, size).  credit and debit are apply() with a signed delta    *)
(* and a flag that asks for the check of sufficient funds.                 *)
Delta == (Size \union {-n : n \in Size})
Apply == [op : {"apply"}, user : User, delta : Delta]
Initialize == [op : {"initialize"}, user : User, wanted : Currency]
NoJob == [op |-> "none"]
Job == Apply \union Initialize

ChecksFunds(s) == job[s].delta < 0
Movement == [by : Session, user : User, delta : Delta]
MovementOf(s) == [by |-> s, user |-> job[s].user, delta |-> job[s].delta]

(* A mutant: the WHERE of the debit asks for the wallet only.              *)
MatchesAnyAmount(s) == currency[job[s].user] # NoRow

(* UPDATE balances ... WHERE user_id = $2 AND amount_minor >= $1 sees a    *)
(* committed row version that can pay for the debit.                       *)
Matches(s) ==
  LET u == job[s].user IN currency[u] # NoRow /\ amount[u] + job[s].delta >= 0

Open == {"begun", "updated", "inserted"}
Ended == {"committed", "insufficient", "failed"}

TypeOK ==
  /\ amount \in [User -> Nat]
  /\ currency \in [User -> Currency \union {NoRow}]
  /\ ledger \subseteq Movement
  /\ lock \in [User -> Session \union {Free}]
  /\ job \in [Session -> Job \union {NoJob}]
  /\ pc \in [Session -> {"idle"} \union Open \union Ended]
  /\ draft \in [Session -> Nat]

Init ==
  /\ amount = [u \in User |-> 0]
  /\ currency = [u \in User |-> NoRow]
  /\ ledger = {}
  /\ lock = [u \in User |-> Free]
  /\ job = [s \in Session |-> NoJob]
  /\ pc = [s \in Session |-> "idle"]
  /\ draft = [s \in Session |-> 0]

-----------------------------------------------------------------------------
Goto(s, l) == pc' = [pc EXCEPT ![s] = l]

(* A mutant: a transaction that ends keeps its row lock.                   *)
KeepLocks(s) == UNCHANGED lock

(* The row locks of a transaction go when it ends, however it ends.        *)
Release(s) == lock' = [u \in User |-> IF lock[u] = s THEN Free ELSE lock[u]]

(* A session is taken from the pool and session.begin() opens a            *)
(* transaction (initialize is one statement, a transaction of its own).    *)
Begin(s) ==
  /\ pc[s] = "idle"
  /\ \E j \in Job : job' = [job EXCEPT ![s] = j]
  /\ Goto(s, "begun")
  /\ UNCHANGED <<tables, lock, draft>>

(* A mutant: the new version is computed from an unlocked read.            *)
UpdateUnlockedRow(s, new) ==
  /\ lock' = [lock EXCEPT ![job[s].user] = s]
  /\ draft' = [draft EXCEPT ![s] = new]
  /\ Goto(s, "updated")
  /\ UNCHANGED <<tables, job>>

(* The row is locked and its new version computed, once no other open      *)
(* transaction holds it; WHERE is evaluated on the version found then.     *)
UpdateRow(s, new) ==
  LET u == job[s].user IN
  /\ lock[u] = Free
  /\ lock' = [lock EXCEPT ![u] = s]
  /\ draft' = [draft EXCEPT ![s] = new]
  /\ Goto(s, "updated")
  /\ UNCHANGED <<tables, job>>

DebitRow(s) ==
  /\ pc[s] = "begun" /\ job[s].op = "apply" /\ ChecksFunds(s)
  /\ Matches(s)
  /\ UpdateRow(s, amount[job[s].user] + job[s].delta)

(* No row matches: rollback and InsufficientFundsError.  The statement     *)
(* looks at committed versions, so it need not wait for a lock to find     *)
(* none.                                                                   *)
RefuseDebit(s) ==
  /\ pc[s] = "begun" /\ job[s].op = "apply" /\ ChecksFunds(s)
  /\ ~ Matches(s)
  /\ Goto(s, "insufficient")
  /\ UNCHANGED <<tables, lock, job, draft>>

(* INSERT ... ON CONFLICT (user_id) DO UPDATE adds to the row there is, or *)
(* makes one; it waits for an uncommitted insert of the same key too.      *)
CreditRow(s) ==
  /\ pc[s] = "begun" /\ job[s].op = "apply" /\ ~ ChecksFunds(s)
  /\ UpdateRow(s, amount[job[s].user] + job[s].delta)

(* INSERT INTO balance_transactions inside the same transaction.           *)
InsertMovement(s) ==
  /\ pc[s] = "updated"
  /\ Goto(s, "inserted")
  /\ UNCHANGED <<tables, lock, job, draft>>

(* A mutant: the movement is inserted by a later transaction, which fails. *)
CommitWithoutMovement(s) ==
  /\ pc[s] = "inserted"
  /\ LET u == job[s].user IN
     /\ amount' = [amount EXCEPT ![u] = draft[s]]
     /\ currency' = [currency EXCEPT ![u] = IF @ = NoRow THEN "RUB" ELSE @]
  /\ Release(s)
  /\ \E l \in {"committed", "failed"} : Goto(s, l)
  /\ UNCHANGED <<ledger, job, draft>>

(* session.commit() makes both rows visible and releases the lock.  The    *)
(* caller hears of it (committed) or, when the connection breaks between   *)
(* the commit and its answer, gets a RepositoryError (failed).             *)
Commit(s) ==
  /\ pc[s] = "inserted"
  /\ LET u == job[s].user IN
     /\ amount' = [amount EXCEPT ![u] = draft[s]]
     /\ currency' = [currency EXCEPT ![u] = IF @ = NoRow THEN "RUB" ELSE @]
  /\ ledger' = ledger \union {MovementOf(s)}
  /\ Release(s)
  /\ \E l \in {"committed", "failed"} : Goto(s, l)
  /\ UNCHANGED <<job, draft>>

(* A mutant: no transaction is open, so a failed call undoes nothing.      *)
RollbackNothing(s) ==
  /\ pc[s] \in Open
  /\ Goto(s, "failed")
  /\ Release(s)
  /\ amount' = [u \in User |-> IF lock[u] = s THEN draft[s] ELSE amount[u]]
  /\ UNCHANGED <<currency, ledger, job, draft>>

(* A Poco exception at any statement or at the commit: session.rollback()  *)
(* and RepositoryError.  When the service crashes the database rolls the   *)
(* transaction back just the same.                                         *)
Rollback(s) ==
  /\ pc[s] \in Open
  /\ Goto(s, "failed")
  /\ Release(s)
  /\ UNCHANGED <<tables, job, draft>>

(* The whole service stops: every open transaction is rolled back.         *)
Crash ==
  /\ \E s \in Session : pc[s] \in Open
  /\ pc' = [s \in Session |-> IF pc[s] \in Open THEN "failed" ELSE pc[s]]
  /\ lock' = [u \in User |-> Free]
  /\ UNCHANGED <<tables, job, draft>>

(* A mutant: the upsert of initialize() writes the currency.               *)
InitializeOverwriting(s) ==
  /\ pc[s] = "begun" /\ job[s].op = "initialize"
  /\ lock[job[s].user] = Free
  /\ currency' = [currency EXCEPT ![job[s].user] = job[s].wanted]
  /\ \E l \in {"committed", "failed"} : Goto(s, l)
  /\ UNCHANGED <<amount, ledger, lock, job, draft>>

(* initialize(): INSERT ... ON CONFLICT (user_id) DO UPDATE SET user_id.   *)
(* It keeps the amount and the currency of a row there is, but waits for   *)
(* its lock.                                                               *)
InitializeRow(s) ==
  /\ pc[s] = "begun" /\ job[s].op = "initialize"
  /\ LET u == job[s].user IN
     /\ lock[u] = Free
     /\ currency' = [currency EXCEPT ![u] =
                       IF @ = NoRow THEN job[s].wanted ELSE @]
  /\ \E l \in {"committed", "failed"} : Goto(s, l)
  /\ UNCHANGED <<amount, ledger, lock, job, draft>>

(* All calls have been answered.                                           *)
Quiet ==
  /\ \A s \in Session : pc[s] \in Ended
  /\ UNCHANGED vars

Step(s) ==
  \/ DebitRow(s) \/ RefuseDebit(s) \/ CreditRow(s)
  \/ InsertMovement(s) \/ Commit(s) \/ InitializeRow(s)

Next ==
  \/ \E s \in Session : Begin(s) \/ Step(s) \/ Rollback(s)
  \/ Crash
  \/ Quiet

(* A worker thread runs its call to the end, and the database the          *)
(* statements it is given: weak fairness of each call's steps.  No call,   *)
(* failure or crash is ever owed.                                          *)
Fairness == \A s \in Session : WF_vars(Step(s))

Spec == Init /\ [][Next]_vars /\ Fairness

-----------------------------------------------------------------------------
(* The balance of every wallet is the sum of its committed movements,      *)
(* whatever transactions were interleaved, rolled back or cut off by a     *)
(* crash (apply() changes both tables in one transaction).                 *)
BooksBalance ==
  \A u \in User :
    amount[u] = MapThenSumSet(LAMBDA m : m.delta, {m \in ledger : m.user = u})

(* An uncommitted row version is never based on a stale balance: while a   *)
(* transaction holds it, nobody else changes the committed row under it.   *)
DraftIsFresh ==
  \A s \in Session : pc[s] \in {"updated", "inserted"} =>
    /\ lock[job[s].user] = s
    /\ draft[s] = amount[job[s].user] + job[s].delta

(* A call that reports success has its movement in the ledger, one that    *)
(* has not come to its commit or reports insufficient funds has none; only *)
(* a failure leaves the caller in doubt.                                   *)
AnswerIsTrue ==
  \A s \in Session :
    /\ pc[s] = "committed" /\ job[s].op = "apply" => MovementOf(s) \in ledger
    /\ pc[s] \in {"idle", "insufficient"} \union Open => \A m \in ledger : m.by # s

(* The repository keeps the promise its callers rely on.                   *)
Contract == INSTANCE Wallet WITH DefaultCurrency <- "RUB"
ImplementsWallet == Contract!WalletSpec

(* Every call ends: no transaction waits for a row lock for ever.          *)
EveryCallEnds ==
  \A s \in Session : pc[s] \in Open ~> pc[s] \in Ended
=============================================================================
