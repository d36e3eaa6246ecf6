------------------------------ MODULE Billing ------------------------------
(***************************************************************************)
(* The payment service of billing                                          *)
(* (services/billing/src/service/payment_service.cpp) on its two           *)
(* repositories, with the answers of its HTTP handlers.                    *)
(*                                                                         *)
(* A request is served by one worker thread and runs through a few calls   *)
(* of the repositories.  Each call is a transaction of its own, so it is   *)
(* one step here (BalanceStore shows that this is what apply() amounts     *)
(* to), and between two calls any other request may run, and the service   *)
(* may crash.  Paying and refunding are sagas: two calls, and a            *)
(* compensating one when the second fails.                                 *)
(***************************************************************************)
EXTENDS Integers, FiniteSets, FiniteSetsExt

CONSTANTS
  Request,      \* HTTP requests that change something, each sent once
  InvoiceId,    \* random UUIDs of invoices
  User,
  Currency,
  Amount,       \* amounts a client may ask for, also absurd ones
  NoRow,        \* no such row in a table
  NoCall,       \* a request that has not arrived
  Threads,      \* worker threads, and so requests in service at a time
  Faults,       \* the faults that may happen: "failed", "unknown", "crash"
  MaxFaults     \* how many of them may happen: bounds the model

VARIABLES
  invoices,     \* table invoices: id -> row or NoRow
  amount,       \* column amount_minor of table balances
  currency,     \* column currency of table balances, NoRow: no such row
  ledger,       \* table balance_transactions
  call,         \* what each request asks for
  pc,           \* the call of a repository each request makes next
  answer,       \* the HTTP status each request was answered with
  faultsLeft    \* faults that may still happen

tables == <<invoices, amount, currency, ledger>>
vars == <<tables, call, pc, answer, faultsLeft>>

-----------------------------------------------------------------------------
(* The rows of the tables.  A movement carries the request that posted it  *)
(* in place of its random id; no request posts two of a kind.              *)
Status == {"pending", "paid", "failed", "refunded"}
Positive == {n \in Amount : n > 0}
Invoice == [user : User, amount : Positive, money : Currency, status : Status]

TransactionKind == {"deposit", "charge", "refund"}
TransactionRow ==
  [by : Request, kind : TransactionKind, user : User,
   delta : Positive \union {-n : n \in Positive},
   ref : InvoiceId \union {NoRow}]

(* The requests.  The id of a new invoice is drawn by create_invoice; it   *)
(* is part of the call here, and it is never drawn twice.                  *)
Create == [op : {"create"}, invoice : InvoiceId, user : User,
           amount : Amount, money : Currency]
OnInvoice == [op : {"pay", "refund"}, invoice : InvoiceId]
Deposit == [op : {"deposit"}, user : User, amount : Amount, money : Currency]
Call == Create \union OnInvoice \union Deposit

ASSUME BillingAssumption ==
  /\ "RUB" \in Currency
  /\ NoRow \notin Currency /\ NoRow \notin Invoice
  /\ NoCall \notin Call
  /\ Amount \subseteq Int
  /\ Threads \in Nat \ {0}
  /\ Faults \subseteq {"failed", "unknown", "crash"}
  /\ MaxFaults \in Nat

Entry(op) ==
  CASE op = "create" -> "insert"
    [] op = "pay" -> "payFind"
    [] op = "refund" -> "refundFind"
    [] op = "deposit" -> "depositInitialize"

Serving == {"insert", "payFind", "payDebit", "payUpdate", "payCompensate",
            "refundFind", "refundUpdate", "refundCredit", "refundCompensate",
            "depositInitialize", "depositCredit", "depositGet"}
InService == {r \in Request : pc[r] \in Serving}

Codes == {200, 201, 400, 404, 409, 500}
NoAnswer == 0

TypeOK ==
  /\ invoices \in [InvoiceId -> Invoice \union {NoRow}]
  /\ amount \in [User -> Nat]
  /\ currency \in [User -> Currency \union {NoRow}]
  /\ ledger \subseteq TransactionRow
  /\ call \in [Request -> Call \union {NoCall}]
  /\ pc \in [Request -> {"idle", "answered", "lost"} \union Serving]
  /\ answer \in [Request -> Codes \union {NoAnswer}]
  /\ faultsLeft \in 0..MaxFaults

Init ==
  /\ invoices = [i \in InvoiceId |-> NoRow]
  /\ amount = [u \in User |-> 0]
  /\ currency = [u \in User |-> NoRow]
  /\ ledger = {}
  /\ call = [r \in Request |-> NoCall]
  /\ pc = [r \in Request |-> "idle"]
  /\ answer = [r \in Request |-> NoAnswer]
  /\ faultsLeft = MaxFaults

-----------------------------------------------------------------------------
(* How a call of a repository ends: it returns ("ok"), it throws and has   *)
(* changed nothing ("failed"), or it throws because the connection broke   *)
(* after the commit ("unknown").                                           *)
Outcome ==
  {"ok"} \union (IF faultsLeft > 0 THEN Faults \cap {"failed", "unknown"} ELSE {})

Took(o) == o \in {"ok", "unknown"}

Spend(o) == faultsLeft' = IF o = "ok" THEN faultsLeft ELSE faultsLeft - 1

(* A writing call with outcome o, whose effect on the tables is Effect.    *)
Write(o, Effect) ==
  /\ Spend(o)
  /\ IF Took(o) THEN Effect ELSE UNCHANGED tables

(* A reading call that returned, or that threw.                            *)
Read(o) == Spend(o) /\ UNCHANGED tables

Goto(r, l) ==
  /\ pc' = [pc EXCEPT ![r] = l]
  /\ UNCHANGED <<call, answer>>

Answer(r, code) ==
  /\ pc' = [pc EXCEPT ![r] = "answered"]
  /\ answer' = [answer EXCEPT ![r] = code]
  /\ UNCHANGED call

(* Go on at l after a call that returned, answer code after one that threw *)
(* (the handlers turn every exception they do not know into 500).          *)
GotoOr(r, o, l, code) == IF o = "ok" THEN Goto(r, l) ELSE Answer(r, code)

-----------------------------------------------------------------------------
(* The repositories.                                                       *)

InsertInvoice(i, row) ==
  /\ invoices' = [invoices EXCEPT ![i] = row]
  /\ UNCHANGED <<amount, currency, ledger>>

(* update_status() writes the status of whatever row has the id: it does   *)
(* not look at the status it replaces.                                     *)
UpdateStatus(i, status) ==
  /\ invoices' = [invoices EXCEPT ![i].status = status]
  /\ UNCHANGED <<amount, currency, ledger>>

(* initialize() makes a wallet unless there is one.                        *)
InitializeWallet(u, money) ==
  /\ currency' = [currency EXCEPT ![u] = IF @ = NoRow THEN money ELSE @]
  /\ UNCHANGED <<invoices, amount, ledger>>

(* apply() without the check of funds.                                     *)
CreditWallet(row) ==
  /\ amount' = [amount EXCEPT ![row.user] = @ + row.delta]
  /\ currency' = [currency EXCEPT ![row.user] = IF @ = NoRow THEN "RUB" ELSE @]
  /\ ledger' = ledger \union {row}
  /\ UNCHANGED invoices

(* A mutant: the UPDATE of a debit lacks its second condition.             *)
AnyFunds(row) == currency[row.user] # NoRow

(* apply() with the check of funds, which is the WHERE of its UPDATE.      *)
Sufficient(row) == currency[row.user] # NoRow /\ amount[row.user] + row.delta >= 0

(* A mutant: a debit is not written to the history.                        *)
UnrecordedDebit(row) ==
  /\ amount' = [amount EXCEPT ![row.user] = @ + row.delta]
  /\ UNCHANGED <<invoices, currency, ledger>>

DebitWallet(row) ==
  /\ amount' = [amount EXCEPT ![row.user] = @ + row.delta]
  /\ ledger' = ledger \union {row}
  /\ UNCHANGED <<invoices, currency>>

-----------------------------------------------------------------------------
(* The invoice of a pay or refund request.  Its user and amount are those  *)
(* of the copy the request read: no statement ever changes these columns.  *)
InvoiceOf(r) == invoices[call[r].invoice]

ChargeOf(r) ==
  [by |-> r, kind |-> "charge", user |-> InvoiceOf(r).user,
   delta |-> -InvoiceOf(r).amount, ref |-> call[r].invoice]
RefundOf(r) ==
  [by |-> r, kind |-> "refund", user |-> InvoiceOf(r).user,
   delta |-> InvoiceOf(r).amount, ref |-> call[r].invoice]
DepositOf(r) ==
  [by |-> r, kind |-> "deposit", user |-> call[r].user,
   delta |-> call[r].amount, ref |-> NoRow]

(* A request arrives and a worker thread takes it.                         *)
Receive(r, c) ==
  /\ pc[r] = "idle"
  /\ Cardinality(InService) < Threads
  /\ c.op = "create" =>
       \A q \in Request : call[q] # NoCall /\ call[q].op = "create" =>
                            call[q].invoice # c.invoice
  /\ call' = [call EXCEPT ![r] = c]
  /\ pc' = [pc EXCEPT ![r] = Entry(c.op)]
  /\ UNCHANGED <<tables, answer, faultsLeft>>

-----------------------------------------------------------------------------
(* POST /invoices: create_invoice.                                         *)
CreateInvoice(r) ==
  /\ pc[r] = "insert"
  /\ \/ /\ call[r].amount <= 0
        /\ Answer(r, 400)
        /\ UNCHANGED <<tables, faultsLeft>>
     \/ /\ call[r].amount > 0
        /\ \E o \in Outcome :
             /\ Write(o, InsertInvoice(call[r].invoice,
                           [user |-> call[r].user, amount |-> call[r].amount,
                            money |-> call[r].money, status |-> "pending"]))
             /\ Answer(r, IF o = "ok" THEN 201 ELSE 500)

-----------------------------------------------------------------------------
(* A mutant: the status of the invoice is not checked.                     *)
FindAnyStatus(r, wanted, next) ==
  \E o \in Outcome \ {"unknown"} :
    /\ Read(o)
    /\ \/ o # "ok" /\ Answer(r, 500)
       \/ o = "ok" /\ InvoiceOf(r) = NoRow /\ Answer(r, 404)
       \/ o = "ok" /\ InvoiceOf(r) # NoRow /\ Goto(r, next)

(* A mutant: an invoice that does not exist is waited for.                 *)
FindWaiting(r, wanted, next) ==
  /\ InvoiceOf(r) # NoRow
  /\ FindAnyStatus(r, wanted, next)

(* find_by_id at the head of pay_invoice and refund_invoice: the invoice   *)
(* must exist and have the status wanted.                                  *)
Find(r, wanted, next) ==
  \E o \in Outcome \ {"unknown"} :
    /\ Read(o)
    /\ \/ o # "ok" /\ Answer(r, 500)
       \/ o = "ok" /\ InvoiceOf(r) = NoRow /\ Answer(r, 404)
       \/ /\ o = "ok" /\ InvoiceOf(r) # NoRow
          /\ \/ InvoiceOf(r).status = wanted /\ Goto(r, next)
             \/ InvoiceOf(r).status # wanted /\ Answer(r, 409)

(* A mutant: the invoice is marked paid without the debit before it.       *)
PayFindThenMark(r) == pc[r] = "payFind" /\ Find(r, "pending", "payUpdate")

PayFind(r) == pc[r] = "payFind" /\ Find(r, "pending", "payDebit")

(* The debit stands outside the try block: what it throws is the answer.   *)
PayDebit(r) ==
  /\ pc[r] = "payDebit"
  /\ \E o \in Outcome :
       \/ /\ Sufficient(ChargeOf(r))
          /\ Write(o, DebitWallet(ChargeOf(r)))
          /\ GotoOr(r, o, "payUpdate", 500)
       \/ /\ ~ Sufficient(ChargeOf(r))
          /\ Read(o)
          /\ Answer(r, IF o = "ok" THEN 409 ELSE 500)

(* A mutant: a status update that throws is not compensated.               *)
PayUpdateUncompensated(r) ==
  /\ pc[r] = "payUpdate"
  /\ \E o \in Outcome :
       /\ Write(o, UpdateStatus(call[r].invoice, "paid"))
       /\ Answer(r, IF o = "ok" THEN 200 ELSE 500)

PayUpdate(r) ==
  /\ pc[r] = "payUpdate"
  /\ \E o \in Outcome :
       /\ Write(o, UpdateStatus(call[r].invoice, "paid"))
       /\ IF o = "ok" THEN Answer(r, 200) ELSE Goto(r, "payCompensate")

(* The compensation is tried once; what it throws is swallowed.            *)
PayCompensate(r) ==
  /\ pc[r] = "payCompensate"
  /\ \E o \in Outcome : Write(o, CreditWallet(RefundOf(r)))
  /\ Answer(r, 500)

-----------------------------------------------------------------------------
RefundFind(r) == pc[r] = "refundFind" /\ Find(r, "paid", "refundUpdate")

RefundUpdate(r) ==
  /\ pc[r] = "refundUpdate"
  /\ \E o \in Outcome :
       /\ Write(o, UpdateStatus(call[r].invoice, "refunded"))
       /\ GotoOr(r, o, "refundCredit", 500)

(* A mutant: the outcome of the credit is ignored.                         *)
RefundCreditUnchecked(r) ==
  /\ pc[r] = "refundCredit"
  /\ \E o \in Outcome : Write(o, CreditWallet(RefundOf(r)))
  /\ Answer(r, 200)

RefundCredit(r) ==
  /\ pc[r] = "refundCredit"
  /\ \E o \in Outcome :
       /\ Write(o, CreditWallet(RefundOf(r)))
       /\ IF o = "ok" THEN Answer(r, 200) ELSE Goto(r, "refundCompensate")

RefundCompensate(r) ==
  /\ pc[r] = "refundCompensate"
  /\ \E o \in Outcome : Write(o, UpdateStatus(call[r].invoice, "paid"))
  /\ Answer(r, 500)

-----------------------------------------------------------------------------
(* POST /users/{id}/balance/deposit: deposit.                              *)
(* A mutant: the wallet is not initialized before the credit.              *)
DepositUninitialized(r) ==
  /\ pc[r] = "depositInitialize"
  /\ IF call[r].amount <= 0 THEN Answer(r, 400) ELSE Goto(r, "depositCredit")
  /\ UNCHANGED <<tables, faultsLeft>>

DepositInitialize(r) ==
  /\ pc[r] = "depositInitialize"
  /\ \/ /\ call[r].amount <= 0
        /\ Answer(r, 400)
        /\ UNCHANGED <<tables, faultsLeft>>
     \/ /\ call[r].amount > 0
        /\ \E o \in Outcome :
             /\ Write(o, InitializeWallet(call[r].user, call[r].money))
             /\ GotoOr(r, o, "depositCredit", 500)

DepositCredit(r) ==
  /\ pc[r] = "depositCredit"
  /\ \E o \in Outcome :
       /\ Write(o, CreditWallet(DepositOf(r)))
       /\ GotoOr(r, o, "depositGet", 500)

(* The balance is read back for the answer; a missing one is a             *)
(* ServiceError, which the handler answers with 400.                       *)
DepositGet(r) ==
  /\ pc[r] = "depositGet"
  /\ \E o \in Outcome \ {"unknown"} :
       /\ Read(o)
       /\ \/ o # "ok" /\ Answer(r, 500)
          \/ o = "ok" /\ currency[call[r].user] = NoRow /\ Answer(r, 400)
          \/ o = "ok" /\ currency[call[r].user] # NoRow /\ Answer(r, 200)

-----------------------------------------------------------------------------
(* The service process dies: requests in service are never answered, and   *)
(* nothing remembers them.  A transaction that was open is undone or was   *)
(* committed, so the crash falls between two steps.                        *)
Crash ==
  /\ "crash" \in Faults /\ faultsLeft > 0
  /\ InService # {}
  /\ faultsLeft' = faultsLeft - 1
  /\ pc' = [r \in Request |-> IF r \in InService THEN "lost" ELSE pc[r]]
  /\ UNCHANGED <<tables, call, answer>>

(* Nothing is left to serve.                                               *)
Quiet ==
  /\ \A r \in Request : pc[r] \in {"answered", "lost"}
  /\ UNCHANGED vars

Serve(r) ==
  \/ CreateInvoice(r)
  \/ PayFind(r) \/ PayDebit(r) \/ PayUpdate(r) \/ PayCompensate(r)
  \/ RefundFind(r) \/ RefundUpdate(r) \/ RefundCredit(r) \/ RefundCompensate(r)
  \/ DepositInitialize(r) \/ DepositCredit(r) \/ DepositGet(r)

Next ==
  \/ \E r \in Request : Serve(r) \/ \E c \in Call : Receive(r, c)
  \/ Crash
  \/ Quiet

(* A worker thread goes on with the request it serves; nothing makes a     *)
(* request arrive or a fault happen.                                       *)
Fairness == \A r \in Request : WF_vars(Serve(r))

Spec == Init /\ [][Next]_vars /\ Fairness
-----------------------------------------------------------------------------
(* What the properties speak of.                                           *)
Posted(r) == {m \in ledger : m.by = r}
ChargesFor(i) == {m \in ledger : m.kind = "charge" /\ m.ref = i}
RefundsFor(i) == {m \in ledger : m.kind = "refund" /\ m.ref = i}

(* The answer tells the client the truth about its money, whatever ran     *)
(* beside the request: 200 means exactly the movement asked for, a refusal *)
(* none, and an unanswered or failed pay never got back what it did not    *)
(* pay (pay_invoice, refund_invoice, deposit and their handlers).          *)
AnswerMatchesLedger ==
  \A r \in Request :
    /\ answer[r] \in {201, 400, 404, 409} => Posted(r) = {}
    /\ answer[r] = 200 =>
         Posted(r) = {CASE call[r].op = "pay" -> ChargeOf(r)
                        [] call[r].op = "refund" -> RefundOf(r)
                        [] call[r].op = "deposit" -> DepositOf(r)}
    /\ call[r] # NoCall /\ call[r].op = "pay" =>
         \A m \in Posted(r) : m.kind = "refund" => ChargeOf(r) \in ledger

(* An invoice that counts as paid, or as paid once and refunded, was       *)
(* charged: no order of pays, refunds, compensations and crashes gives     *)
(* goods away.  Unless the answer to a commit got lost, the charge is also *)
(* one that no compensation took back.                                     *)
ChargeBehindPaid ==
  \A i \in InvoiceId :
    invoices[i] # NoRow /\ invoices[i].status \in {"paid", "refunded"} =>
      \E m \in ChargesFor(i) :
        "unknown" \notin Faults => \A n \in Posted(m.by) : n.kind # "refund"

(* A credit finds the wallet open, so the branch of apply() that would     *)
(* open it in roubles, whatever the currency asked for, is never taken:    *)
(* a deposit initializes first, and a refund follows a charge.             *)
CreditFindsWallet ==
  \A r \in Request :
    /\ pc[r] = "depositCredit" => currency[call[r].user] # NoRow
    /\ pc[r] \in {"payCompensate", "refundCredit"} =>
         currency[InvoiceOf(r).user] # NoRow

(* Money moves only as the contract of the balance repository says.        *)
Contract == INSTANCE Wallet
              WITH DefaultCurrency <- "RUB",
                   Movement <- TransactionRow
ImplementsWallet == Contract!WalletSpec

(* Every request that is in service gets an answer, or dies with the       *)
(* service: no failure of a repository keeps a worker thread for ever.     *)
EveryRequestEnds ==
  \A r \in Request : pc[r] \in Serving ~> pc[r] \in {"answered", "lost"}

-----------------------------------------------------------------------------
(* With one request at a time.                                             *)

(* By how many payments the ledger and the status of an invoice disagree.  *)
Abs(n) == IF n < 0 THEN -n ELSE n
Drift(i) ==
  Abs(Cardinality(ChargesFor(i)) - Cardinality(RefundsFor(i))
        - (IF invoices[i] # NoRow /\ invoices[i].status = "paid" THEN 1 ELSE 0))

(* One fault costs at most one payment: when no request is in service, the *)
(* ledger and the statuses disagree about no more payments than faults     *)
(* happened; without faults they agree (the two sagas of pay_invoice and   *)
(* refund_invoice, served one after the other).                            *)
DriftBoundedByFaults ==
  InService = {} =>
    MapThenSumSet(Drift, InvoiceId) <= MaxFaults - faultsLeft

(* The money a pay request has debited and not yet turned into a paid      *)
(* invoice or given back is still its user's; and a refund counts when the *)
(* money is back, not when the status is written.                          *)
InTransit(u) ==
  MapThenSumSet(LAMBDA r : InvoiceOf(r).amount,
    {r \in Request : /\ pc[r] \in {"payUpdate", "payCompensate"}
                     /\ InvoiceOf(r).user = u})
BillOf(i) ==
  IF \E r \in Request : /\ pc[r] \in {"refundCredit", "refundCompensate"}
                         /\ call[r].invoice = i
  THEN [invoices[i] EXCEPT !.status = "paid"]
  ELSE invoices[i]

Atomic == INSTANCE AtomicPayments
            WITH bill <- [i \in InvoiceId |-> BillOf(i)],
                 funds <- [u \in User |-> amount[u] + InTransit(u)],
                 NewBill <- [user : User, amount : Amount, money : Currency,
                             status : {"pending"}],
                 Sum <- Amount

(* The failures no saga of this kind can hide: the process dies, the       *)
(* answer to a commit is lost, or the compensation itself fails.           *)
Disaster ==
  /\ faultsLeft' < faultsLeft
  /\ \/ \E r \in Request : pc[r] # "lost" /\ pc'[r] = "lost"
     \/ tables' # tables
     \/ \E r \in Request :
          pc[r] \in {"payCompensate", "refundCompensate"} /\ pc'[r] = "answered"

(* The sagas look atomic: to requests served one after the other, status   *)
(* and money move together or not at all, in every step but a disaster,    *)
(* and so also in every step before and after one: a single failing call   *)
(* of pay_invoice or refund_invoice is made good.                          *)
ImplementsAtomicPayments ==
  Atomic!AtomicInit /\ [][Atomic!AtomicNext \/ Disaster]_(Atomic!atomicVars)

-----------------------------------------------------------------------------
(* What the tests of the repository say, and the service does not keep.    *)

(* A second pay of an invoice that was paid, and a second refund of one    *)
(* that was refunded, are answered 409, not 200 (tests/test_invoices.py:   *)
(* test_pay_already_paid_invoice_returns_409,                              *)
(* test_pay_refunded_invoice_returns_409,                                  *)
(* test_refund_already_refunded_invoice_returns_409).                      *)
SettledOnce ==
  \A q, r \in Request :
    /\ answer[q] = 200 /\ answer[r] = 200
    /\ call[q].op \in {"pay", "refund"} /\ call[q] = call[r]
    => q = r
=============================================================================
