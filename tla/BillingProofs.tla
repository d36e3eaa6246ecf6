--------------------------- MODULE BillingProofs ---------------------------
(***************************************************************************)
(* Proofs about Billing, for any number of requests, invoices, users and   *)
(* worker threads, and for any number of faults of any kind: the answers   *)
(* match the ledger, no invoice counts as paid without a charge, credits   *)
(* find their wallets open, and money moves only as the contract of the    *)
(* balance repository (module Wallet) says.  With one worker thread, the   *)
(* sagas look atomic (module AtomicPayments), and a fault costs at most    *)
(* one payment.                                                            *)
(*                                                                         *)
(* The inductive invariant says, of each request, what it has posted so    *)
(* far and what it may rely on at the place it has come to; and, of each   *)
(* invoice, who created it and which request's charge stands behind it.    *)
(***************************************************************************)
EXTENDS Billing, FiniteSetTheorems, TLAPS

Settled == {"paid", "refunded"}
PayPc == {"payFind", "payDebit", "payUpdate", "payCompensate"}
RefundPc == {"refundFind", "refundUpdate", "refundCredit", "refundCompensate"}
DepositPc == {"depositInitialize", "depositCredit", "depositGet"}
Found == {"payDebit", "payUpdate", "payCompensate",
          "refundUpdate", "refundCredit", "refundCompensate"}
Unposted == {"idle", "insert", "payFind", "payDebit", "refundFind",
             "refundUpdate", "refundCredit", "depositInitialize", "depositCredit"}

(* The call of a request is one its place belongs to.                      *)
Fits(r) ==
  /\ pc[r] = "idle" => call[r] = NoCall
  /\ pc[r] # "idle" => call[r] \in Call
  /\ pc[r] = "insert" => call[r].op = "create"
  /\ pc[r] \in PayPc => call[r].op = "pay"
  /\ pc[r] \in RefundPc => call[r].op = "refund"
  /\ pc[r] \in DepositPc => call[r].op = "deposit"
  /\ pc[r] \in {"depositCredit", "depositGet"} => call[r].amount > 0
  /\ pc[r] \in Found => InvoiceOf(r) # NoRow
  /\ pc[r] # "answered" => answer[r] = NoAnswer

(* What a request has posted where it has come to.                         *)
Accounted(r) ==
  /\ pc[r] \in Unposted => Posted(r) = {}
  /\ pc[r] \in {"payUpdate", "payCompensate"} => Posted(r) = {ChargeOf(r)}
  /\ pc[r] = "refundCompensate" => Posted(r) \subseteq {RefundOf(r)}
  /\ pc[r] = "depositGet" => Posted(r) = {DepositOf(r)}
  /\ answer[r] \in {201, 400, 404, 409} => Posted(r) = {}
  /\ answer[r] = 200 =>
       \/ call[r].op = "pay" /\ InvoiceOf(r) # NoRow /\ Posted(r) = {ChargeOf(r)}
       \/ call[r].op = "refund" /\ InvoiceOf(r) # NoRow /\ Posted(r) = {RefundOf(r)}
       \/ call[r].op = "deposit" /\ Posted(r) = {DepositOf(r)}
  /\ call[r] # NoCall /\ call[r].op = "pay" /\ (\E m \in Posted(r) : m.kind = "refund")
       => InvoiceOf(r) # NoRow /\ ChargeOf(r) \in ledger

(* What a request may rely on between two calls of the repositories.       *)
Relies(r) ==
  /\ pc[r] \in {"depositCredit", "depositGet"} => currency[call[r].user] # NoRow
  /\ pc[r] \in Found \ {"payDebit"} => currency[InvoiceOf(r).user] # NoRow
  /\ pc[r] \in RefundPc \ {"refundFind"} => InvoiceOf(r).status \in Settled

(* Ids of invoices are drawn once.                                         *)
Creates(r, i) == call[r] # NoCall /\ call[r].op = "create" /\ call[r].invoice = i
FreshIds ==
  /\ \A q, r \in Request, i \in InvoiceId : Creates(q, i) /\ Creates(r, i) => q = r
  /\ \A r \in Request : pc[r] = "insert" => InvoiceOf(r) = NoRow
  /\ \A i \in InvoiceId : invoices[i] # NoRow => \E r \in Request : Creates(r, i)

(* The request whose charge stands behind an invoice.                      *)
Backs(r, i) ==
  /\ call[r] # NoCall /\ call[r].op = "pay" /\ call[r].invoice = i
  /\ ChargeOf(r) \in ledger
  /\ "unknown" \notin Faults =>
       pc[r] = "answered" /\ \A m \in Posted(r) : m.kind # "refund"

SettledBacked ==
  \A i \in InvoiceId : invoices[i] # NoRow /\ invoices[i].status \in Settled =>
    /\ currency[invoices[i].user] # NoRow
    /\ \E r \in Request : Backs(r, i)

IInv ==
  /\ TypeOK
  /\ \A r \in Request : Fits(r) /\ Accounted(r) /\ Relies(r)
  /\ FreshIds
  /\ SettledBacked

(* Calls by their op.                                                      *)
LEMMA CreateFields ==
  ASSUME NEW c \in Call, c.op = "create"
  PROVE  /\ c.invoice \in InvoiceId /\ c.user \in User
         /\ c.amount \in Int /\ c.amount \in Amount /\ c.money \in Currency
<1>1. c \in Create
  BY DEF Call, Create, OnInvoice, Deposit
<1>2. c.invoice \in InvoiceId /\ c.user \in User /\ c.amount \in Amount /\ c.money \in Currency
  BY <1>1 DEF Create
<1> QED
  BY <1>2, BillingAssumption

LEMMA InvoiceFields ==
  ASSUME NEW c \in Call, c.op \in {"pay", "refund"}
  PROVE  c.invoice \in InvoiceId
<1>1. c \in OnInvoice
  BY DEF Call, Create, OnInvoice, Deposit
<1> QED
  BY <1>1 DEF OnInvoice

LEMMA DepositFields ==
  ASSUME NEW c \in Call, c.op = "deposit"
  PROVE  /\ c.user \in User
         /\ c.amount \in Int /\ c.amount \in Amount /\ c.money \in Currency
<1>1. c \in Deposit
  BY DEF Call, Create, OnInvoice, Deposit
<1>2. c.user \in User /\ c.amount \in Amount /\ c.money \in Currency
  BY <1>1 DEF Deposit
<1> QED
  BY <1>2, BillingAssumption

LEMMA InitIInv == Init => IInv
<1> SUFFICES ASSUME Init PROVE IInv
  OBVIOUS
<1>1. TypeOK
  BY BillingAssumption DEF Init, TypeOK, NoAnswer
<1>2. \A r \in Request : Fits(r) /\ Accounted(r) /\ Relies(r)
  BY DEF Init, Fits, Accounted, Relies, Posted, PayPc, RefundPc, DepositPc, Found,
         Unposted, NoAnswer
<1>3. FreshIds /\ SettledBacked
  BY DEF Init, FreshIds, SettledBacked, Creates
<1> QED
  BY <1>1, <1>2, <1>3 DEF IInv

-----------------------------------------------------------------------------
(* What a step of one request does to the tables, and to the requests.     *)
TablesOK ==
  /\ invoices \in [InvoiceId -> Invoice \union {NoRow}]
  /\ amount \in [User -> Nat]
  /\ currency \in [User -> Currency \union {NoRow}]
  /\ ledger \subseteq TransactionRow

IsSettled(i) == invoices[i] # NoRow /\ invoices[i].status \in Settled

Keeps(r) ==
  /\ \A i \in InvoiceId : invoices[i] # NoRow =>
       /\ invoices'[i] # NoRow
       /\ invoices'[i].user = invoices[i].user
       /\ invoices'[i].amount = invoices[i].amount
       /\ IsSettled(i) => IsSettled(i)'
  /\ \A i \in InvoiceId : invoices[i] = NoRow /\ invoices'[i] # NoRow =>
       pc[r] = "insert" /\ call[r].invoice = i
  /\ \A i \in InvoiceId : IsSettled(i)' =>
       IsSettled(i) \/ (pc[r] = "payUpdate" /\ call[r].invoice = i)
  /\ \A u \in User : currency[u] # NoRow => currency'[u] # NoRow
  /\ ledger \subseteq ledger' /\ \A m \in ledger' \ ledger : m.by = r

Turns(r) ==
  /\ call' = call
  /\ pc' \in [Request -> {"idle", "answered", "lost"} \union Serving]
  /\ answer' \in [Request -> Codes \union {NoAnswer}]
  /\ \A q \in Request : q # r => pc'[q] = pc[q] /\ answer'[q] = answer[q]

LEMMA Turning ==
  ASSUME TypeOK, NEW r \in Request
  PROVE  /\ \A l \in Serving : Goto(r, l) =>
              Turns(r) /\ pc'[r] = l /\ answer'[r] = answer[r]
         /\ \A code \in Codes : Answer(r, code) =>
              Turns(r) /\ pc'[r] = "answered" /\ answer'[r] = code
BY DEF TypeOK, Goto, Answer, Turns

LEMMA Spending ==
  ASSUME TypeOK, NEW o \in Outcome
  PROVE  /\ Spend(o) => faultsLeft' \in 0..MaxFaults
         /\ o \in {"ok", "failed", "unknown"}
         /\ o = "unknown" => "unknown" \in Faults
<1>1. faultsLeft > 0 \/ o = "ok"
  BY DEF Outcome
<1>2. faultsLeft \in 0..MaxFaults /\ MaxFaults \in Nat
  BY BillingAssumption DEF TypeOK
<1>3. Spend(o) => faultsLeft' \in 0..MaxFaults
  BY <1>1, <1>2 DEF Spend
<1> QED
  BY <1>3 DEF Outcome

LEMMA Reading ==
  ASSUME TypeOK, NEW r \in Request, UNCHANGED tables
  PROVE  Keeps(r) /\ TablesOK' /\ Posted(r)' = Posted(r)
BY DEF TypeOK, TablesOK, Keeps, IsSettled, Posted, tables

LEMMA Inserting ==
  ASSUME TypeOK, NEW r \in Request, pc[r] = "insert", NEW row \in Invoice,
         row.status = "pending", call[r].invoice \in InvoiceId,
         InvoiceOf(r) = NoRow, InsertInvoice(call[r].invoice, row)
  PROVE  Keeps(r) /\ TablesOK' /\ Posted(r)' = Posted(r)
<1>1. TablesOK' /\ Posted(r)' = Posted(r)
  BY DEF TypeOK, TablesOK, InsertInvoice, Posted
<1>2. Keeps(r)
  BY DEF TypeOK, InsertInvoice, InvoiceOf, Keeps, IsSettled, Settled
<1> QED
  BY <1>1, <1>2

LEMMA Updating ==
  ASSUME TypeOK, NEW r \in Request, NEW status \in Settled,
         call[r].invoice \in InvoiceId, InvoiceOf(r) # NoRow,
         InvoiceOf(r).status \in Settled \/ pc[r] = "payUpdate",
         UpdateStatus(call[r].invoice, status)
  PROVE  /\ Keeps(r) /\ TablesOK' /\ Posted(r)' = Posted(r)
         /\ invoices'[call[r].invoice].status = status
<1> DEFINE i == call[r].invoice
<1>1. invoices[i] \in Invoice
  BY DEF TypeOK, InvoiceOf
<1>2. invoices' = [invoices EXCEPT ![i] = [invoices[i] EXCEPT !.status = status]]
  BY <1>1 DEF UpdateStatus
<1>3. [invoices[i] EXCEPT !.status = status] \in Invoice
  BY <1>1 DEF Invoice, Status, Settled
<1>4. /\ invoices'[i] \in Invoice /\ invoices'[i].status = status
      /\ invoices'[i].user = invoices[i].user
      /\ invoices'[i].amount = invoices[i].amount
      /\ \A j \in InvoiceId : j # i => invoices'[j] = invoices[j]
  BY <1>1, <1>2, <1>3 DEF TypeOK, Invoice
<1>5. TablesOK' /\ Posted(r)' = Posted(r)
  BY <1>2, <1>3 DEF TypeOK, TablesOK, UpdateStatus, Posted
<1>6. Keeps(r)
  BY <1>4, BillingAssumption DEF UpdateStatus, InvoiceOf, Keeps, IsSettled
<1> QED
  BY <1>4, <1>5, <1>6

LEMMA Initializing ==
  ASSUME TypeOK, NEW r \in Request, NEW u \in User, NEW money \in Currency,
         InitializeWallet(u, money)
  PROVE  Keeps(r) /\ TablesOK' /\ Posted(r)' = Posted(r) /\ currency'[u] # NoRow
<1>1. TablesOK' /\ Posted(r)' = Posted(r)
  BY DEF TypeOK, TablesOK, InitializeWallet, Posted
<1>2. Keeps(r) /\ currency'[u] # NoRow
  BY BillingAssumption DEF TypeOK, InitializeWallet, Keeps, IsSettled
<1> QED
  BY <1>1, <1>2

LEMMA RowFields ==
  ASSUME NEW row \in TransactionRow
  PROVE  row.user \in User /\ row.delta \in Int
<1> DEFINE Negative == {-n : n \in Positive}
<1>1. Positive \subseteq Int
  BY BillingAssumption DEF Positive
<1>2. \A d \in Negative : d \in Int
  BY <1>1
<1>3. row.user \in User /\ row.delta \in Positive \union Negative
  BY DEF TransactionRow
<1> QED
  BY <1>1, <1>2, <1>3

LEMMA Crediting ==
  ASSUME TypeOK, NEW r \in Request, NEW row \in TransactionRow,
         row.by = r, row.delta > 0, CreditWallet(row)
  PROVE  Keeps(r) /\ TablesOK' /\ Posted(r)' = Posted(r) \union {row}
<1>1. row.user \in User /\ row.delta \in Int
  BY RowFields
<1>2. amount[row.user] + row.delta \in Nat
  BY <1>1 DEF TypeOK
<1>3. TablesOK' /\ Posted(r)' = Posted(r) \union {row}
  BY <1>1, <1>2, BillingAssumption DEF TypeOK, TablesOK, CreditWallet, Posted
<1>4. Keeps(r)
  BY <1>1, BillingAssumption DEF TypeOK, CreditWallet, Keeps, IsSettled
<1> QED
  BY <1>3, <1>4

LEMMA Debiting ==
  ASSUME TypeOK, NEW r \in Request, NEW row \in TransactionRow,
         row.by = r, Sufficient(row), DebitWallet(row)
  PROVE  Keeps(r) /\ TablesOK' /\ Posted(r)' = Posted(r) \union {row}
<1>1. row.user \in User /\ row.delta \in Int
  BY RowFields
<1>2. amount[row.user] + row.delta \in Nat
  BY <1>1 DEF TypeOK, Sufficient
<1>3. TablesOK' /\ Posted(r)' = Posted(r) \union {row}
  BY <1>1, <1>2, BillingAssumption DEF TypeOK, TablesOK, DebitWallet, Posted
<1>4. Keeps(r)
  BY <1>1 DEF TypeOK, DebitWallet, Keeps, IsSettled
<1> QED
  BY <1>3, <1>4

-----------------------------------------------------------------------------
(* The rows a request posts.                                               *)
LEMMA InvoiceRows ==
  ASSUME TypeOK, NEW r \in Request, call[r] \in Call,
         call[r].op \in {"pay", "refund"}, InvoiceOf(r) # NoRow
  PROVE  /\ InvoiceOf(r) \in Invoice
         /\ InvoiceOf(r).user \in User /\ InvoiceOf(r).amount \in Int
         /\ InvoiceOf(r).amount > 0
         /\ ChargeOf(r) \in TransactionRow /\ RefundOf(r) \in TransactionRow
<1>1. call[r].invoice \in InvoiceId
  BY InvoiceFields
<1>2. InvoiceOf(r) \in Invoice
  BY <1>1 DEF TypeOK, InvoiceOf
<1>3. InvoiceOf(r).user \in User /\ InvoiceOf(r).amount \in Positive
  BY <1>2 DEF Invoice
<1>4. InvoiceOf(r).amount \in Int /\ InvoiceOf(r).amount > 0
  BY <1>3, BillingAssumption DEF Positive
<1>5. -InvoiceOf(r).amount \in {-n : n \in Positive}
  BY <1>3
<1>6. ChargeOf(r) \in TransactionRow
  BY <1>1, <1>3, <1>5 DEF ChargeOf, TransactionRow, TransactionKind
<1>7. RefundOf(r) \in TransactionRow
  BY <1>1, <1>3 DEF RefundOf, TransactionRow, TransactionKind
<1> QED
  BY <1>2, <1>3, <1>4, <1>6, <1>7

LEMMA DepositRows ==
  ASSUME NEW r \in Request, call[r] \in Call,
         call[r].op = "deposit", call[r].amount > 0
  PROVE  DepositOf(r) \in TransactionRow
<1>1. call[r].user \in User /\ call[r].amount \in Positive
  BY DepositFields DEF Positive
<1> QED
  BY <1>1 DEF DepositOf, TransactionRow, TransactionKind

(* Rows and columns that exist stay what a request took them for.          *)
LEMMA SameInvoice ==
  ASSUME NEW r \in Request, NEW q \in Request, Keeps(r), call' = call,
         call[q] \in Call, call[q].op \in {"pay", "refund"}, InvoiceOf(q) # NoRow
  PROVE  /\ InvoiceOf(q)' # NoRow
         /\ InvoiceOf(q)'.user = InvoiceOf(q).user
         /\ ChargeOf(q)' = ChargeOf(q) /\ RefundOf(q)' = RefundOf(q)
         /\ InvoiceOf(q).status \in Settled => InvoiceOf(q)'.status \in Settled
<1>1. call[q].invoice \in InvoiceId
  BY InvoiceFields
<1>2. /\ InvoiceOf(q)' # NoRow
      /\ InvoiceOf(q)'.user = InvoiceOf(q).user
      /\ InvoiceOf(q)'.amount = InvoiceOf(q).amount
      /\ InvoiceOf(q).status \in Settled => InvoiceOf(q)'.status \in Settled
  BY <1>1 DEF Keeps, InvoiceOf, IsSettled
<1> QED
  BY <1>2 DEF ChargeOf, RefundOf

LEMMA OthersPosted ==
  ASSUME NEW r \in Request, NEW q \in Request, Keeps(r), q # r
  PROVE  Posted(q)' = Posted(q)
BY DEF Keeps, Posted

Own(r) == Fits(r) /\ Accounted(r) /\ Relies(r)

(* A step of one request disturbs nothing another one relies on.           *)
LEMMA OthersStep ==
  ASSUME IInv, NEW r \in Request, NEW q \in Request, q # r, Keeps(r), Turns(r)
  PROVE  Own(q)'
<1>1. /\ Fits(q) /\ Accounted(q) /\ Relies(q)
      /\ pc'[q] = pc[q] /\ answer'[q] = answer[q] /\ call' = call
      /\ Posted(q)' = Posted(q) /\ ledger \subseteq ledger'
  BY OthersPosted DEF IInv, Turns, Keeps
<1>2. call[q] # NoCall => call[q] \in Call
  BY DEF IInv, TypeOK
<1>3. ASSUME call[q] \in Call, call[q].op \in {"pay", "refund"}, InvoiceOf(q) # NoRow
      PROVE  /\ InvoiceOf(q)' # NoRow
             /\ InvoiceOf(q)'.user = InvoiceOf(q).user
             /\ InvoiceOf(q)'.user \in User
             /\ ChargeOf(q)' = ChargeOf(q) /\ RefundOf(q)' = RefundOf(q)
             /\ InvoiceOf(q).status \in Settled => InvoiceOf(q)'.status \in Settled
  BY <1>1, <1>3, SameInvoice, InvoiceRows DEF IInv
<1>4. pc[q] \in Found => call[q] \in Call /\ call[q].op \in {"pay", "refund"}
                         /\ InvoiceOf(q) # NoRow
  BY <1>1 DEF Fits, Found, PayPc, RefundPc
<1>5. Fits(q)'
  BY <1>1, <1>3, <1>4 DEF Fits
<1>6. Accounted(q)'
  <2>1. /\ pc'[q] \in Unposted => Posted(q)' = {}
        /\ answer'[q] \in {201, 400, 404, 409} => Posted(q)' = {}
    BY <1>1 DEF Accounted
  <2>2. /\ pc'[q] \in {"payUpdate", "payCompensate"} => Posted(q)' = {ChargeOf(q)'}
        /\ pc'[q] = "refundCompensate" => Posted(q)' \subseteq {RefundOf(q)'}
    BY <1>1, <1>3, <1>4 DEF Accounted, Found
  <2>3. DepositOf(q)' = DepositOf(q)
    BY <1>1 DEF DepositOf
  <2>4. answer[q] = 200 => call[q] # NoCall
    BY <1>1, BillingAssumption DEF Fits, NoAnswer
  <2>5. answer'[q] = 200 =>
          \/ call'[q].op = "pay" /\ InvoiceOf(q)' # NoRow /\ Posted(q)' = {ChargeOf(q)'}
          \/ call'[q].op = "refund" /\ InvoiceOf(q)' # NoRow /\ Posted(q)' = {RefundOf(q)'}
          \/ call'[q].op = "deposit" /\ Posted(q)' = {DepositOf(q)'}
    BY <1>1, <1>2, <1>3, <2>3, <2>4 DEF Accounted
  <2>6. call'[q] # NoCall /\ call'[q].op = "pay" /\ (\E m \in Posted(q)' : m.kind = "refund")
          => InvoiceOf(q)' # NoRow /\ ChargeOf(q)' \in ledger'
    BY <1>1, <1>2, <1>3 DEF Accounted
  <2>7. pc'[q] = "depositGet" => Posted(q)' = {DepositOf(q)'}
    BY <1>1, <2>3 DEF Accounted
  <2> QED
    BY <2>1, <2>2, <2>5, <2>6, <2>7 DEF Accounted
<1>7. Relies(q)'
  <2>1. pc[q] \in {"depositCredit", "depositGet"} => call[q].user \in User
    BY <1>1, DepositFields DEF Fits, DepositPc
  <2>2. pc'[q] \in {"depositCredit", "depositGet"} => currency'[call'[q].user] # NoRow
    BY <1>1, <2>1 DEF Relies, Keeps
  <2>3. pc'[q] \in Found \ {"payDebit"} => currency'[InvoiceOf(q)'.user] # NoRow
    BY <1>1, <1>3, <1>4 DEF Relies, Keeps
  <2>4. pc'[q] \in RefundPc \ {"refundFind"} => InvoiceOf(q)'.status \in Settled
    BY <1>1, <1>3, <1>4 DEF Relies, RefundPc, Found
  <2> QED
    BY <2>2, <2>3, <2>4 DEF Relies
<1> QED
  BY <1>5, <1>6, <1>7 DEF Own

-----------------------------------------------------------------------------
(* The step of a request keeps its own part of the invariant.              *)
Moves(r) == TypeOK' /\ Keeps(r) /\ Turns(r) /\ Own(r)'

LEMMA Typed ==
  ASSUME NEW r \in Request, Turns(r), TypeOK, TablesOK', faultsLeft' \in 0..MaxFaults
  PROVE  TypeOK'
BY DEF TypeOK, TablesOK, Turns

(* An answer that reports no success.                                      *)
LEMMA Refused ==
  ASSUME NEW r \in Request, Turns(r), call[r] \in Call, pc'[r] = "answered",
         answer'[r] \in {201, 400, 404, 409, 500},
         answer'[r] # 500 => Posted(r)' = {},
         call[r].op = "pay" /\ (\E m \in Posted(r)' : m.kind = "refund") =>
            InvoiceOf(r)' # NoRow /\ ChargeOf(r)' \in ledger'
  PROVE  Own(r)'
<1>1. Fits(r)'
  BY DEF Turns, Fits, Found, PayPc, RefundPc, DepositPc
<1>2. Accounted(r)'
  BY DEF Turns, Accounted, Unposted
<1>3. Relies(r)'
  BY DEF Relies, Found, RefundPc
<1> QED
  BY <1>1, <1>2, <1>3 DEF Own

(* An answer after nothing was posted.                                     *)
LEMMA RefusedEmpty ==
  ASSUME NEW r \in Request, Turns(r), call[r] \in Call, pc'[r] = "answered",
         answer'[r] \in {201, 400, 404, 409, 500}, Posted(r)' = {}
  PROVE  Own(r)'
BY Refused

LEMMA CreateStep ==
  ASSUME IInv, NEW r \in Request, CreateInvoice(r)
  PROVE  Moves(r)
<1>1. /\ TypeOK /\ Fits(r) /\ Accounted(r) /\ FreshIds /\ pc[r] = "insert"
      /\ faultsLeft \in 0..MaxFaults
  BY DEF IInv, CreateInvoice, TypeOK
<1>2. call[r] \in Call /\ call[r].op = "create" /\ Posted(r) = {}
  BY <1>1 DEF Fits, Accounted, Unposted
<1>3. CASE call[r].amount <= 0 /\ Answer(r, 400) /\ UNCHANGED <<tables, faultsLeft>>
  <2>1. Turns(r) /\ pc'[r] = "answered" /\ answer'[r] = 400
    BY <1>1, <1>3, Turning DEF Codes
  <2>2. Keeps(r) /\ TablesOK' /\ Posted(r)' = {}
    BY <1>1, <1>2, <1>3, Reading
  <2>3. Own(r)'
    BY <1>2, <2>1, <2>2, RefusedEmpty
  <2> QED
    BY <1>1, <1>3, <2>1, <2>2, <2>3, Typed DEF Moves
<1>4. ASSUME call[r].amount > 0, NEW o \in Outcome,
             Write(o, InsertInvoice(call[r].invoice,
                           [user |-> call[r].user, amount |-> call[r].amount,
                            money |-> call[r].money, status |-> "pending"])),
             Answer(r, IF o = "ok" THEN 201 ELSE 500)
      PROVE  Moves(r)
  <2> DEFINE row == [user |-> call[r].user, amount |-> call[r].amount,
                     money |-> call[r].money, status |-> "pending"]
  <2>1. Turns(r) /\ pc'[r] = "answered" /\ answer'[r] \in {201, 500}
    BY <1>1, <1>4, Turning DEF Codes
  <2>2. row \in Invoice /\ row.status = "pending" /\ call[r].invoice \in InvoiceId
    BY <1>2, <1>4, CreateFields DEF Invoice, Status, Positive
  <2>3. InvoiceOf(r) = NoRow
    BY <1>1 DEF FreshIds
  <2>4. Keeps(r) /\ TablesOK' /\ Posted(r)' = {}
    <3>1. CASE Took(o)
      <4>1. InsertInvoice(call[r].invoice, row)
        BY <1>4, <3>1 DEF Write
      <4> HIDE DEF row
      <4> QED
        BY <1>1, <1>2, <2>2, <2>3, <4>1, Inserting
    <3>2. CASE ~ Took(o)
      BY <1>1, <1>2, <1>4, <3>2, Reading DEF Write
    <3> QED
      BY <3>1, <3>2
  <2>5. faultsLeft' \in 0..MaxFaults
    BY <1>1, <1>4, Spending DEF Write
  <2>6. Own(r)'
    BY <1>2, <2>1, <2>4, RefusedEmpty
  <2> QED
    BY <1>1, <2>1, <2>4, <2>5, <2>6, Typed DEF Moves
<1> QED
  BY <1>3, <1>4 DEF CreateInvoice

(* Find leads on only from an invoice that exists and has the status       *)
(* wanted.                                                                 *)
LEMMA FindStep ==
  ASSUME IInv, NEW r \in Request, NEW wanted, NEW next \in Serving,
         pc[r] \in {"payFind", "refundFind"}, Find(r, wanted, next)
  PROVE  /\ Keeps(r) /\ Turns(r) /\ TypeOK' /\ Posted(r)' = {}
         /\ \/ Own(r)'
            \/ /\ pc'[r] = next /\ answer'[r] = NoAnswer
               /\ InvoiceOf(r) # NoRow /\ InvoiceOf(r).status = wanted
<1>1. /\ TypeOK /\ Fits(r) /\ Accounted(r)
      /\ faultsLeft \in 0..MaxFaults
  BY DEF IInv, TypeOK
<1>2. /\ call[r] \in Call /\ call[r].op \in {"pay", "refund"} /\ Posted(r) = {}
      /\ answer[r] = NoAnswer
  BY <1>1 DEF Fits, Accounted, Unposted, PayPc, RefundPc
<1>3. PICK o \in Outcome :
        /\ Read(o)
        /\ \/ \E code \in {404, 409, 500} : Answer(r, code)
           \/ InvoiceOf(r) # NoRow /\ InvoiceOf(r).status = wanted /\ Goto(r, next)
  BY DEF Find
<1>4. faultsLeft' \in 0..MaxFaults /\ Keeps(r) /\ TablesOK' /\ Posted(r)' = {}
  BY <1>1, <1>2, <1>3, Spending, Reading DEF Read
<1>5. CASE \E code \in {404, 409, 500} : Answer(r, code)
  <2>1. Turns(r) /\ pc'[r] = "answered" /\ answer'[r] \in {404, 409, 500}
    BY <1>1, <1>5, Turning DEF Codes
  <2>2. Own(r)'
    BY <1>2, <1>4, <2>1, RefusedEmpty
  <2> QED
    BY <1>1, <1>4, <2>1, <2>2, Typed
<1>6. CASE Goto(r, next) /\ InvoiceOf(r) # NoRow /\ InvoiceOf(r).status = wanted
  <2>1. Turns(r) /\ pc'[r] = next /\ answer'[r] = NoAnswer
    BY <1>1, <1>2, <1>6, Turning
  <2> QED
    BY <1>1, <1>4, <1>6, <2>1, Typed
<1> QED
  BY <1>3, <1>5, <1>6

LEMMA PayFindStep ==
  ASSUME IInv, NEW r \in Request, PayFind(r)
  PROVE  Moves(r)
<1>1. pc[r] = "payFind" /\ Find(r, "pending", "payDebit")
  BY DEF PayFind
<1>2. /\ Keeps(r) /\ Turns(r) /\ TypeOK' /\ Posted(r)' = {}
      /\ \/ Own(r)'
         \/ /\ pc'[r] = "payDebit" /\ answer'[r] = NoAnswer
            /\ InvoiceOf(r) # NoRow /\ InvoiceOf(r).status = "pending"
  BY <1>1, FindStep DEF Serving
<1>3. ASSUME pc'[r] = "payDebit", answer'[r] = NoAnswer, InvoiceOf(r) # NoRow
      PROVE  Own(r)'
  <2>1. call'[r] = call[r] /\ call[r] \in Call /\ call[r].op = "pay"
    BY <1>1, <1>2 DEF IInv, Fits, PayPc, Turns
  <2>2. InvoiceOf(r)' # NoRow
    BY <1>2, <1>3, <2>1, SameInvoice DEF Turns
  <2>3. Fits(r)'
    BY <1>3, <2>1, <2>2 DEF Fits, PayPc, RefundPc, DepositPc, Found
  <2>4. Accounted(r)'
    BY <1>2, <1>3 DEF Accounted, Unposted, NoAnswer
  <2>5. Relies(r)'
    BY <1>3 DEF Relies, RefundPc
  <2> QED
    BY <2>3, <2>4, <2>5 DEF Own
<1> QED
  BY <1>2, <1>3 DEF Moves

(* What a request in a saga has found and may rely on.                     *)
LEMMA InSaga ==
  ASSUME IInv, NEW r \in Request, pc[r] \in Found
  PROVE  /\ TypeOK /\ Fits(r) /\ Accounted(r) /\ Relies(r)
         /\ call[r] \in Call /\ call[r].op \in {"pay", "refund"}
         /\ call[r].invoice \in InvoiceId
         /\ pc[r] \in PayPc => call[r].op = "pay"
         /\ pc[r] \in RefundPc => call[r].op = "refund"
         /\ answer[r] = NoAnswer
         /\ InvoiceOf(r) # NoRow /\ InvoiceOf(r) \in Invoice
         /\ InvoiceOf(r).user \in User
         /\ InvoiceOf(r).amount \in Int /\ InvoiceOf(r).amount > 0
         /\ ChargeOf(r) \in TransactionRow /\ RefundOf(r) \in TransactionRow
         /\ faultsLeft \in 0..MaxFaults
<1>1. TypeOK /\ Fits(r) /\ Accounted(r) /\ Relies(r) /\ faultsLeft \in 0..MaxFaults
  BY DEF IInv, TypeOK
<1>2. /\ call[r] \in Call /\ call[r].op \in {"pay", "refund"}
      /\ pc[r] \in PayPc => call[r].op = "pay"
      /\ pc[r] \in RefundPc => call[r].op = "refund"
      /\ answer[r] = NoAnswer
      /\ InvoiceOf(r) # NoRow
  BY <1>1 DEF Fits, Found, PayPc, RefundPc
<1> QED
  BY <1>1, <1>2, InvoiceFields, InvoiceRows

LEMMA PayDebitStep ==
  ASSUME IInv, NEW r \in Request, PayDebit(r)
  PROVE  Moves(r)
<1>0. pc[r] = "payDebit" /\ pc[r] \in Found /\ pc[r] \in PayPc
  BY DEF PayDebit, Found, PayPc
<1>1. Posted(r) = {} /\ call[r].op = "pay"
  BY <1>0, InSaga DEF Accounted, Unposted
<1>2. ASSUME NEW o \in Outcome, Sufficient(ChargeOf(r)),
             Write(o, DebitWallet(ChargeOf(r))), GotoOr(r, o, "payUpdate", 500)
      PROVE  Moves(r)
  <2>1. faultsLeft' \in 0..MaxFaults /\ o \in {"ok", "failed", "unknown"}
    BY <1>0, <1>2, InSaga, Spending DEF Write
  <2>2. Keeps(r) /\ TablesOK' /\ Posted(r)' = IF Took(o) THEN {ChargeOf(r)} ELSE {}
    <3>1. CASE Took(o)
      <4>1. DebitWallet(ChargeOf(r)) /\ ChargeOf(r).by = r
        BY <1>2, <3>1 DEF Write, ChargeOf
      <4> QED
        BY <1>0, <1>1, <1>2, <3>1, <4>1, InSaga, Debiting
    <3>2. CASE ~ Took(o)
      BY <1>0, <1>1, <1>2, <3>2, InSaga, Reading DEF Write
    <3> QED
      BY <3>1, <3>2
  <2>3. Turns(r) /\ IF o = "ok" THEN pc'[r] = "payUpdate" /\ answer'[r] = NoAnswer
                                ELSE pc'[r] = "answered" /\ answer'[r] = 500
    BY <1>0, <1>2, InSaga, Turning DEF GotoOr, Codes, Serving
  <2>4. /\ call'[r] = call[r] /\ InvoiceOf(r)' # NoRow
        /\ InvoiceOf(r)'.user = InvoiceOf(r).user /\ ChargeOf(r)' = ChargeOf(r)
    BY <1>0, <2>2, <2>3, InSaga, SameInvoice DEF Turns
  <2>5. ASSUME o = "ok" PROVE Own(r)'
    <3>1. Fits(r)'
      BY <1>0, <1>1, <2>3, <2>4, <2>5, InSaga DEF Fits, PayPc, RefundPc, DepositPc, Found
    <3>2. Accounted(r)'
      <4>1. Posted(r)' = {ChargeOf(r)} /\ ChargeOf(r).kind = "charge"
        BY <2>2, <2>5 DEF Took, ChargeOf
      <4> QED
        BY <2>3, <2>4, <2>5, <4>1 DEF Accounted, Unposted, NoAnswer
    <3>3. currency[InvoiceOf(r).user] # NoRow
      BY <1>2 DEF Sufficient, ChargeOf
    <3>4. Relies(r)'
      BY <1>0, <2>2, <2>3, <2>4, <2>5, <3>3, InSaga DEF Relies, Keeps, RefundPc
    <3> QED
      BY <3>1, <3>2, <3>4 DEF Own
  <2>6. ASSUME o # "ok" PROVE Own(r)'
    <3>1. \A m \in Posted(r)' : m.kind # "refund"
      BY <2>2 DEF ChargeOf
    <3> QED
      BY <1>0, <2>3, <2>6, <3>1, InSaga, Refused
  <2> QED
    BY <1>0, <2>1, <2>2, <2>3, <2>5, <2>6, InSaga, Typed DEF Moves
<1>3. ASSUME NEW o \in Outcome, Read(o), Answer(r, IF o = "ok" THEN 409 ELSE 500)
      PROVE  Moves(r)
  <2>1. faultsLeft' \in 0..MaxFaults /\ Keeps(r) /\ TablesOK' /\ Posted(r)' = {}
    BY <1>0, <1>1, <1>3, InSaga, Spending, Reading DEF Read
  <2>2. Turns(r) /\ pc'[r] = "answered" /\ answer'[r] \in {409, 500}
    BY <1>0, <1>3, InSaga, Turning DEF Codes
  <2>3. Own(r)'
    BY <1>0, <2>1, <2>2, InSaga, RefusedEmpty
  <2> QED
    BY <1>0, <2>1, <2>2, <2>3, InSaga, Typed DEF Moves
<1> QED
  BY <1>2, <1>3 DEF PayDebit

LEMMA PayUpdateStep ==
  ASSUME IInv, NEW r \in Request, PayUpdate(r)
  PROVE  /\ Moves(r) /\ Posted(r)' = {ChargeOf(r)'}
         /\ "unknown" \notin Faults /\ invoices' # invoices => pc'[r] = "answered"
<1>0. pc[r] = "payUpdate" /\ pc[r] \in Found /\ pc[r] \in PayPc
  BY DEF PayUpdate, Found, PayPc
<1>1. Posted(r) = {ChargeOf(r)} /\ call[r].op = "pay"
  BY <1>0, InSaga DEF Accounted
<1>2. PICK o \in Outcome :
        /\ Write(o, UpdateStatus(call[r].invoice, "paid"))
        /\ IF o = "ok" THEN Answer(r, 200) ELSE Goto(r, "payCompensate")
  BY DEF PayUpdate
<1>3. /\ faultsLeft' \in 0..MaxFaults /\ o \in {"ok", "failed", "unknown"}
      /\ o = "unknown" => "unknown" \in Faults
  BY <1>0, <1>2, InSaga, Spending DEF Write
<1>4. Keeps(r) /\ TablesOK' /\ Posted(r)' = Posted(r)
  <2>1. CASE Took(o)
    BY <1>0, <1>2, <2>1, InSaga, Updating DEF Write, Settled
  <2>2. CASE ~ Took(o)
    BY <1>0, <1>2, <2>2, InSaga, Reading DEF Write
  <2> QED
    BY <2>1, <2>2
<1>5. Turns(r) /\ IF o = "ok" THEN pc'[r] = "answered" /\ answer'[r] = 200
                              ELSE pc'[r] = "payCompensate" /\ answer'[r] = NoAnswer
  BY <1>0, <1>2, InSaga, Turning DEF Codes, Serving
<1>6. /\ call'[r] = call[r] /\ InvoiceOf(r)' # NoRow
      /\ InvoiceOf(r)'.user = InvoiceOf(r).user /\ ChargeOf(r)' = ChargeOf(r)
  BY <1>0, <1>4, <1>5, InSaga, SameInvoice DEF Turns
<1>7. Fits(r)'
  BY <1>0, <1>1, <1>5, <1>6, InSaga DEF Fits, PayPc, RefundPc, DepositPc, Found
<1>8. Accounted(r)'
  <2>1. Posted(r)' = {ChargeOf(r)'} /\ ChargeOf(r).kind = "charge"
    BY <1>1, <1>4, <1>6 DEF ChargeOf
  <2> QED
    BY <1>1, <1>5, <1>6, <2>1 DEF Accounted, Unposted, NoAnswer
<1>9. Relies(r)'
  BY <1>0, <1>4, <1>5, <1>6, InSaga DEF Relies, Keeps, RefundPc, Found
<1>10. "unknown" \notin Faults /\ invoices' # invoices => pc'[r] = "answered"
  BY <1>2, <1>3, <1>5 DEF Write, Took, tables
<1> QED
  BY <1>0, <1>1, <1>3, <1>4, <1>5, <1>6, <1>7, <1>8, <1>9, <1>10, InSaga, Typed DEF Moves, Own

LEMMA PayCompensateStep ==
  ASSUME IInv, NEW r \in Request, PayCompensate(r)
  PROVE  Moves(r)
<1>0. pc[r] = "payCompensate" /\ pc[r] \in Found /\ pc[r] \in PayPc
  BY DEF PayCompensate, Found, PayPc
<1>1. Posted(r) = {ChargeOf(r)} /\ call[r].op = "pay"
  BY <1>0, InSaga DEF Accounted
<1>2. PICK o \in Outcome : Write(o, CreditWallet(RefundOf(r)))
  BY DEF PayCompensate
<1>3. faultsLeft' \in 0..MaxFaults
  BY <1>0, <1>2, InSaga, Spending DEF Write
<1>4. Keeps(r) /\ TablesOK' /\ ChargeOf(r) \in Posted(r)'
  <2>1. CASE Took(o)
    <3>1. CreditWallet(RefundOf(r)) /\ RefundOf(r).by = r /\ RefundOf(r).delta > 0
      BY <1>0, <1>2, <2>1, InSaga DEF Write, RefundOf
    <3> QED
      BY <1>0, <1>1, <3>1, InSaga, Crediting
  <2>2. CASE ~ Took(o)
    BY <1>0, <1>1, <1>2, <2>2, InSaga, Reading DEF Write
  <2> QED
    BY <2>1, <2>2
<1>5. Turns(r) /\ pc'[r] = "answered" /\ answer'[r] = 500
  BY <1>0, InSaga, Turning DEF Codes, PayCompensate
<1>6. InvoiceOf(r)' # NoRow /\ ChargeOf(r)' = ChargeOf(r)
  BY <1>0, <1>4, <1>5, InSaga, SameInvoice DEF Turns
<1>7. ChargeOf(r)' \in ledger'
  BY <1>4, <1>6 DEF Posted
<1>8. Own(r)'
  BY <1>0, <1>5, <1>6, <1>7, InSaga, Refused
<1> QED
  BY <1>0, <1>3, <1>4, <1>5, <1>8, InSaga, Typed DEF Moves

LEMMA RefundFindStep ==
  ASSUME IInv, NEW r \in Request, RefundFind(r)
  PROVE  Moves(r)
<1>1. pc[r] = "refundFind" /\ Find(r, "paid", "refundUpdate")
  BY DEF RefundFind
<1>2. /\ Keeps(r) /\ Turns(r) /\ TypeOK' /\ Posted(r)' = {}
      /\ \/ Own(r)'
         \/ /\ pc'[r] = "refundUpdate" /\ answer'[r] = NoAnswer
            /\ InvoiceOf(r) # NoRow /\ InvoiceOf(r).status = "paid"
  BY <1>1, FindStep DEF Serving
<1>3. ASSUME pc'[r] = "refundUpdate", answer'[r] = NoAnswer,
             InvoiceOf(r) # NoRow, InvoiceOf(r).status = "paid"
      PROVE  Own(r)'
  <2>1. /\ TypeOK /\ call'[r] = call[r] /\ call[r] \in Call /\ call[r].op = "refund"
        /\ call[r].invoice \in InvoiceId
    BY <1>1, <1>2, InvoiceFields DEF IInv, Fits, RefundPc, Turns
  <2>2. /\ InvoiceOf(r)' # NoRow /\ InvoiceOf(r)'.user = InvoiceOf(r).user
        /\ InvoiceOf(r)'.status \in Settled /\ InvoiceOf(r).user \in User
    BY <1>2, <1>3, <2>1, SameInvoice, InvoiceRows DEF Turns, Settled
  <2>3. currency[InvoiceOf(r).user] # NoRow
    BY <1>3, <2>1 DEF IInv, SettledBacked, InvoiceOf, Settled
  <2>4. Fits(r)'
    BY <1>3, <2>1, <2>2 DEF Fits, PayPc, RefundPc, DepositPc, Found
  <2>5. Accounted(r)'
    BY <1>2, <1>3 DEF Accounted, Unposted, NoAnswer
  <2>6. Relies(r)'
    BY <1>2, <1>3, <2>2, <2>3 DEF Relies, Keeps
  <2> QED
    BY <2>4, <2>5, <2>6 DEF Own
<1> QED
  BY <1>2, <1>3 DEF Moves

(* A refund that posted nothing but its own row may be answered 500.       *)
LEMMA RefundFailed ==
  ASSUME NEW r \in Request, Turns(r), call[r] \in Call, call[r].op = "refund",
         pc'[r] = "answered", answer'[r] = 500
  PROVE  Own(r)'
BY Refused

LEMMA RefundUpdateStep ==
  ASSUME IInv, NEW r \in Request, RefundUpdate(r)
  PROVE  Moves(r)
<1>0. pc[r] = "refundUpdate" /\ pc[r] \in Found /\ pc[r] \in RefundPc
      /\ pc[r] \in RefundPc \ {"refundFind"}
  BY DEF RefundUpdate, Found, RefundPc
<1>1. Posted(r) = {} /\ call[r].op = "refund"
      /\ InvoiceOf(r).status \in Settled /\ currency[InvoiceOf(r).user] # NoRow
  BY <1>0, InSaga DEF Accounted, Unposted, Relies
<1>2. PICK o \in Outcome :
        /\ Write(o, UpdateStatus(call[r].invoice, "refunded"))
        /\ GotoOr(r, o, "refundCredit", 500)
  BY DEF RefundUpdate
<1>3. faultsLeft' \in 0..MaxFaults
  BY <1>0, <1>2, InSaga, Spending DEF Write
<1>4. Keeps(r) /\ TablesOK' /\ Posted(r)' = {}
  <2>1. CASE Took(o)
    BY <1>0, <1>1, <1>2, <2>1, InSaga, Updating DEF Write, Settled
  <2>2. CASE ~ Took(o)
    BY <1>0, <1>1, <1>2, <2>2, InSaga, Reading DEF Write
  <2> QED
    BY <2>1, <2>2
<1>5. Turns(r) /\ IF o = "ok" THEN pc'[r] = "refundCredit" /\ answer'[r] = NoAnswer
                              ELSE pc'[r] = "answered" /\ answer'[r] = 500
  BY <1>0, <1>2, InSaga, Turning DEF GotoOr, Codes, Serving
<1>6. /\ call'[r] = call[r] /\ InvoiceOf(r)' # NoRow
      /\ InvoiceOf(r)'.user = InvoiceOf(r).user /\ InvoiceOf(r)'.status \in Settled
  BY <1>0, <1>1, <1>4, <1>5, InSaga, SameInvoice DEF Turns
<1>7. ASSUME o = "ok" PROVE Own(r)'
  <2>1. Fits(r)'
    BY <1>0, <1>1, <1>5, <1>6, <1>7, InSaga DEF Fits, PayPc, RefundPc, DepositPc, Found
  <2>2. Accounted(r)'
    BY <1>4, <1>5, <1>7 DEF Accounted, Unposted, NoAnswer
  <2>3. Relies(r)'
    BY <1>0, <1>1, <1>4, <1>5, <1>6, <1>7, InSaga DEF Relies, Keeps
  <2> QED
    BY <2>1, <2>2, <2>3 DEF Own
<1>8. ASSUME o # "ok" PROVE Own(r)'
  BY <1>0, <1>1, <1>5, <1>8, InSaga, RefundFailed
<1> QED
  BY <1>0, <1>3, <1>4, <1>5, <1>7, <1>8, InSaga, Typed DEF Moves

LEMMA RefundCreditStep ==
  ASSUME IInv, NEW r \in Request, RefundCredit(r)
  PROVE  Moves(r)
<1>0. pc[r] = "refundCredit" /\ pc[r] \in Found /\ pc[r] \in RefundPc
      /\ pc[r] \in RefundPc \ {"refundFind"}
  BY DEF RefundCredit, Found, RefundPc
<1>1. Posted(r) = {} /\ call[r].op = "refund"
      /\ InvoiceOf(r).status \in Settled /\ currency[InvoiceOf(r).user] # NoRow
  BY <1>0, InSaga DEF Accounted, Unposted, Relies
<1>2. PICK o \in Outcome :
        /\ Write(o, CreditWallet(RefundOf(r)))
        /\ IF o = "ok" THEN Answer(r, 200) ELSE Goto(r, "refundCompensate")
  BY DEF RefundCredit
<1>3. faultsLeft' \in 0..MaxFaults
  BY <1>0, <1>2, InSaga, Spending DEF Write
<1>4. Keeps(r) /\ TablesOK' /\ Posted(r)' = IF Took(o) THEN {RefundOf(r)} ELSE {}
  <2>1. CASE Took(o)
    <3>1. CreditWallet(RefundOf(r)) /\ RefundOf(r).by = r /\ RefundOf(r).delta > 0
      BY <1>0, <1>2, <2>1, InSaga DEF Write, RefundOf
    <3> QED
      BY <1>0, <1>1, <2>1, <3>1, InSaga, Crediting
  <2>2. CASE ~ Took(o)
    BY <1>0, <1>1, <1>2, <2>2, InSaga, Reading DEF Write
  <2> QED
    BY <2>1, <2>2
<1>5. Turns(r) /\ IF o = "ok" THEN pc'[r] = "answered" /\ answer'[r] = 200
                              ELSE pc'[r] = "refundCompensate" /\ answer'[r] = NoAnswer
  BY <1>0, <1>2, InSaga, Turning DEF Codes, Serving
<1>6. /\ call'[r] = call[r] /\ InvoiceOf(r)' # NoRow /\ RefundOf(r)' = RefundOf(r)
      /\ InvoiceOf(r)'.user = InvoiceOf(r).user /\ InvoiceOf(r)'.status \in Settled
  BY <1>0, <1>1, <1>4, <1>5, InSaga, SameInvoice DEF Turns
<1>7. Fits(r)'
  BY <1>0, <1>1, <1>5, <1>6, InSaga DEF Fits, PayPc, RefundPc, DepositPc, Found
<1>8. Accounted(r)'
  BY <1>1, <1>4, <1>5, <1>6 DEF Accounted, Unposted, NoAnswer, Took
<1>9. Relies(r)'
  BY <1>0, <1>1, <1>4, <1>5, <1>6, InSaga DEF Relies, Keeps, Found, RefundPc
<1> QED
  BY <1>0, <1>3, <1>4, <1>5, <1>7, <1>8, <1>9, InSaga, Typed DEF Moves, Own

LEMMA RefundCompensateStep ==
  ASSUME IInv, NEW r \in Request, RefundCompensate(r)
  PROVE  Moves(r)
<1>0. pc[r] = "refundCompensate" /\ pc[r] \in Found /\ pc[r] \in RefundPc
      /\ pc[r] \in RefundPc \ {"refundFind"}
  BY DEF RefundCompensate, Found, RefundPc
<1>1. call[r].op = "refund" /\ InvoiceOf(r).status \in Settled
  BY <1>0, InSaga DEF Relies
<1>2. PICK o \in Outcome : Write(o, UpdateStatus(call[r].invoice, "paid"))
  BY DEF RefundCompensate
<1>3. faultsLeft' \in 0..MaxFaults
  BY <1>0, <1>2, InSaga, Spending DEF Write
<1>4. Keeps(r) /\ TablesOK'
  <2>1. CASE Took(o)
    BY <1>0, <1>1, <1>2, <2>1, InSaga, Updating DEF Write, Settled
  <2>2. CASE ~ Took(o)
    BY <1>0, <1>2, <2>2, InSaga, Reading DEF Write
  <2> QED
    BY <2>1, <2>2
<1>5. Turns(r) /\ pc'[r] = "answered" /\ answer'[r] = 500
  BY <1>0, InSaga, Turning DEF Codes, RefundCompensate
<1>6. Own(r)'
  BY <1>0, <1>1, <1>5, InSaga, RefundFailed
<1> QED
  BY <1>0, <1>3, <1>4, <1>5, <1>6, InSaga, Typed DEF Moves

(* A deposit that is being served.                                         *)
LEMMA InDeposit ==
  ASSUME IInv, NEW r \in Request, pc[r] \in DepositPc
  PROVE  /\ TypeOK /\ Fits(r) /\ Accounted(r) /\ Relies(r)
         /\ call[r] \in Call /\ call[r].op = "deposit" /\ call[r].user \in User
         /\ call[r].money \in Currency /\ call[r].amount \in Int
         /\ answer[r] = NoAnswer /\ faultsLeft \in 0..MaxFaults
<1>1. TypeOK /\ Fits(r) /\ Accounted(r) /\ Relies(r) /\ faultsLeft \in 0..MaxFaults
  BY DEF IInv, TypeOK
<1>2. call[r] \in Call /\ call[r].op = "deposit" /\ answer[r] = NoAnswer
  BY <1>1 DEF Fits, DepositPc
<1> QED
  BY <1>1, <1>2, DepositFields

LEMMA DepositFailed ==
  ASSUME NEW r \in Request, Turns(r), call[r] \in Call, call[r].op = "deposit",
         pc'[r] = "answered", answer'[r] = 500
  PROVE  Own(r)'
BY Refused

LEMMA DepositInitializeStep ==
  ASSUME IInv, NEW r \in Request, DepositInitialize(r)
  PROVE  Moves(r)
<1>0. pc[r] = "depositInitialize" /\ pc[r] \in DepositPc
  BY DEF DepositInitialize, DepositPc
<1>1. Posted(r) = {}
  BY <1>0, InDeposit DEF Accounted, Unposted
<1>2. CASE Answer(r, 400) /\ UNCHANGED <<tables, faultsLeft>>
  <2>1. Turns(r) /\ pc'[r] = "answered" /\ answer'[r] = 400
    BY <1>0, <1>2, InDeposit, Turning DEF Codes
  <2>2. Keeps(r) /\ TablesOK' /\ Posted(r)' = {}
    BY <1>0, <1>1, <1>2, InDeposit, Reading
  <2>3. Own(r)'
    BY <1>0, <2>1, <2>2, InDeposit, RefusedEmpty
  <2> QED
    BY <1>0, <1>2, <2>1, <2>2, <2>3, InDeposit, Typed DEF Moves
<1>3. ASSUME call[r].amount > 0, NEW o \in Outcome,
             Write(o, InitializeWallet(call[r].user, call[r].money)),
             GotoOr(r, o, "depositCredit", 500)
      PROVE  Moves(r)
  <2>1. faultsLeft' \in 0..MaxFaults
    BY <1>0, <1>3, InDeposit, Spending DEF Write
  <2>2. /\ Keeps(r) /\ TablesOK' /\ Posted(r)' = {}
        /\ o = "ok" => currency'[call[r].user] # NoRow
    <3>1. CASE Took(o)
      BY <1>0, <1>1, <1>3, <3>1, InDeposit, Initializing DEF Write
    <3>2. CASE ~ Took(o)
      BY <1>0, <1>1, <1>3, <3>2, InDeposit, Reading DEF Write, Took
    <3> QED
      BY <3>1, <3>2
  <2>3. Turns(r) /\ IF o = "ok" THEN pc'[r] = "depositCredit" /\ answer'[r] = NoAnswer
                                ELSE pc'[r] = "answered" /\ answer'[r] = 500
    BY <1>0, <1>3, InDeposit, Turning DEF GotoOr, Codes, Serving
  <2>4. ASSUME o = "ok" PROVE Own(r)'
    <3>1. Fits(r)'
      BY <1>0, <1>3, <2>3, <2>4, InDeposit DEF Turns, Fits, PayPc, RefundPc, DepositPc, Found
    <3>2. Accounted(r)'
      BY <2>2, <2>3, <2>4 DEF Accounted, Unposted, NoAnswer
    <3>3. Relies(r)'
      BY <2>2, <2>3, <2>4 DEF Turns, Relies, Found, RefundPc
    <3> QED
      BY <3>1, <3>2, <3>3 DEF Own
  <2>5. ASSUME o # "ok" PROVE Own(r)'
    BY <1>0, <2>3, <2>5, InDeposit, DepositFailed
  <2> QED
    BY <1>0, <2>1, <2>2, <2>3, <2>4, <2>5, InDeposit, Typed DEF Moves
<1> QED
  BY <1>2, <1>3 DEF DepositInitialize

LEMMA DepositCreditStep ==
  ASSUME IInv, NEW r \in Request, DepositCredit(r)
  PROVE  Moves(r)
<1>0. pc[r] = "depositCredit" /\ pc[r] \in DepositPc
  BY DEF DepositCredit, DepositPc
<1>1. Posted(r) = {} /\ call[r].amount > 0 /\ currency[call[r].user] # NoRow
  BY <1>0, InDeposit DEF Accounted, Unposted, Fits, Relies
<1>2. PICK o \in Outcome :
        /\ Write(o, CreditWallet(DepositOf(r)))
        /\ GotoOr(r, o, "depositGet", 500)
  BY DEF DepositCredit
<1>3. faultsLeft' \in 0..MaxFaults
  BY <1>0, <1>2, InDeposit, Spending DEF Write
<1>4. Keeps(r) /\ TablesOK' /\ (o = "ok" => Posted(r)' = {DepositOf(r)})
  <2>1. CASE Took(o)
    <3>1. CreditWallet(DepositOf(r)) /\ DepositOf(r).by = r /\ DepositOf(r).delta > 0
      BY <1>1, <1>2, <2>1 DEF Write, DepositOf
    <3>2. DepositOf(r) \in TransactionRow
      BY <1>0, <1>1, InDeposit, DepositRows
    <3> QED
      BY <1>0, <1>1, <3>1, <3>2, InDeposit, Crediting
  <2>2. CASE ~ Took(o)
    BY <1>0, <1>1, <1>2, <2>2, InDeposit, Reading DEF Write, Took
  <2> QED
    BY <2>1, <2>2
<1>5. Turns(r) /\ IF o = "ok" THEN pc'[r] = "depositGet" /\ answer'[r] = NoAnswer
                              ELSE pc'[r] = "answered" /\ answer'[r] = 500
  BY <1>0, <1>2, InDeposit, Turning DEF GotoOr, Codes, Serving
<1>6. ASSUME o = "ok" PROVE Own(r)'
  <2>1. Fits(r)'
    BY <1>0, <1>1, <1>5, <1>6, InDeposit DEF Turns, Fits, PayPc, RefundPc, DepositPc, Found
  <2>2. DepositOf(r)' = DepositOf(r)
    BY <1>5 DEF Turns, DepositOf
  <2>3. Accounted(r)'
    BY <1>0, <1>4, <1>5, <1>6, <2>2, InDeposit DEF Turns, Accounted, Unposted, NoAnswer
  <2>4. Relies(r)'
    BY <1>0, <1>1, <1>4, <1>5, <1>6, InDeposit DEF Turns, Keeps, Relies, Found, RefundPc
  <2> QED
    BY <2>1, <2>3, <2>4 DEF Own
<1>7. ASSUME o # "ok" PROVE Own(r)'
  BY <1>0, <1>5, <1>7, InDeposit, DepositFailed
<1> QED
  BY <1>0, <1>3, <1>4, <1>5, <1>6, <1>7, InDeposit, Typed DEF Moves

LEMMA DepositGetStep ==
  ASSUME IInv, NEW r \in Request, DepositGet(r)
  PROVE  Moves(r)
<1>0. pc[r] = "depositGet" /\ pc[r] \in DepositPc
  BY DEF DepositGet, DepositPc
<1>1. Posted(r) = {DepositOf(r)} /\ currency[call[r].user] # NoRow
  BY <1>0, InDeposit DEF Accounted, Relies
<1>2. PICK o \in Outcome : Read(o) /\ \E code \in {200, 500} : Answer(r, code)
  BY <1>1 DEF DepositGet
<1>3. faultsLeft' \in 0..MaxFaults /\ Keeps(r) /\ TablesOK' /\ Posted(r)' = {DepositOf(r)}
  BY <1>0, <1>1, <1>2, InDeposit, Spending, Reading DEF Read
<1>4. Turns(r) /\ pc'[r] = "answered" /\ answer'[r] \in {200, 500}
  BY <1>0, <1>2, InDeposit, Turning DEF Codes
<1>5. Fits(r)'
  BY <1>0, <1>4, InDeposit DEF Turns, Fits, PayPc, RefundPc, DepositPc, Found
<1>6. DepositOf(r)' = DepositOf(r)
  BY <1>4 DEF Turns, DepositOf
<1>7. Accounted(r)'
  BY <1>0, <1>3, <1>4, <1>6, InDeposit DEF Turns, Accounted, Unposted
<1>8. Relies(r)'
  BY <1>4 DEF Relies, Found, RefundPc
<1> QED
  BY <1>0, <1>3, <1>4, <1>5, <1>7, <1>8, InDeposit, Typed DEF Moves, Own

-----------------------------------------------------------------------------
(* What holds of all requests together.                                    *)
LEMMA ServeMoves ==
  ASSUME IInv, NEW r \in Request, Serve(r)
  PROVE  /\ Moves(r) /\ pc[r] \in Serving
         /\ pc[r] = "payUpdate" =>
              /\ Posted(r)' = {ChargeOf(r)'}
              /\ "unknown" \notin Faults /\ invoices' # invoices => pc'[r] = "answered"
<1>1. CASE PayUpdate(r)
  BY <1>1, PayUpdateStep DEF PayUpdate, Serving
<1>2. CASE CreateInvoice(r)
  BY <1>2, CreateStep DEF CreateInvoice, Serving
<1>3. CASE PayFind(r)
  BY <1>3, PayFindStep DEF PayFind, Serving
<1>4. CASE PayDebit(r)
  BY <1>4, PayDebitStep DEF PayDebit, Serving
<1>5. CASE PayCompensate(r)
  BY <1>5, PayCompensateStep DEF PayCompensate, Serving
<1>6. CASE RefundFind(r)
  BY <1>6, RefundFindStep DEF RefundFind, Serving
<1>7. CASE RefundUpdate(r)
  BY <1>7, RefundUpdateStep DEF RefundUpdate, Serving
<1>8. CASE RefundCredit(r)
  BY <1>8, RefundCreditStep DEF RefundCredit, Serving
<1>9. CASE RefundCompensate(r)
  BY <1>9, RefundCompensateStep DEF RefundCompensate, Serving
<1>10. CASE DepositInitialize(r)
  BY <1>10, DepositInitializeStep DEF DepositInitialize, Serving
<1>11. CASE DepositCredit(r)
  BY <1>11, DepositCreditStep DEF DepositCredit, Serving
<1>12. CASE DepositGet(r)
  BY <1>12, DepositGetStep DEF DepositGet, Serving
<1> QED
  BY <1>1, <1>2, <1>3, <1>4, <1>5, <1>6, <1>7, <1>8, <1>9, <1>10, <1>11, <1>12 DEF Serve

(* No step leads back to the insert of a new invoice.                      *)
LEMMA InsertOnce ==
  ASSUME NEW r \in Request, Serve(r), TypeOK
  PROVE  pc'[r] # "insert"
<1>1. \/ \E l \in Serving \ {"insert"} : Goto(r, l)
      \/ \E code \in Codes : Answer(r, code)
  <2>1. CASE CreateInvoice(r) \/ PayDebit(r) \/ PayUpdate(r) \/ PayCompensate(r)
    BY <2>1 DEF CreateInvoice, PayDebit, PayUpdate, PayCompensate, GotoOr, Codes, Serving
  <2>2. CASE PayFind(r) \/ RefundFind(r)
    BY <2>2 DEF PayFind, RefundFind, Find, Codes, Serving
  <2>3. CASE RefundUpdate(r) \/ RefundCredit(r) \/ RefundCompensate(r)
    BY <2>3 DEF RefundUpdate, RefundCredit, RefundCompensate, GotoOr, Codes, Serving
  <2>4. CASE DepositInitialize(r) \/ DepositCredit(r) \/ DepositGet(r)
    BY <2>4 DEF DepositInitialize, DepositCredit, DepositGet, GotoOr, Codes, Serving
  <2> QED
    BY <2>1, <2>2, <2>3, <2>4 DEF Serve
<1> QED
  BY <1>1 DEF Goto, Answer, TypeOK

(* A charge that stands behind an invoice goes on standing behind it.      *)
LEMMA BacksKept ==
  ASSUME IInv, NEW r \in Request, NEW q \in Request, NEW i \in InvoiceId,
         Keeps(r), Turns(r), pc[r] \in Serving, invoices[i] # NoRow, Backs(q, i)
  PROVE  Backs(q, i)'
<1>1. /\ call[q] \in Call /\ call[q].op = "pay" /\ call[q].invoice = i
      /\ InvoiceOf(q) # NoRow /\ call' = call /\ ledger \subseteq ledger'
  BY DEF IInv, TypeOK, Backs, InvoiceOf, Turns, Keeps
<1>2. ChargeOf(q)' = ChargeOf(q)
  BY <1>1, SameInvoice
<1>3. ASSUME "unknown" \notin Faults
      PROVE  pc'[q] = "answered" /\ \A m \in Posted(q)' : m.kind # "refund"
  <2>1. q # r
    BY <1>3 DEF Backs, Serving
  <2> QED
    BY <1>3, <2>1, OthersPosted DEF Backs, Turns
<1> QED
  BY <1>1, <1>2, <1>3, BillingAssumption DEF Backs

LEMMA ServeStep ==
  ASSUME IInv, NEW r \in Request, Serve(r)
  PROVE  IInv'
<1>1. TypeOK' /\ Keeps(r) /\ Turns(r) /\ Own(r)' /\ pc[r] \in Serving
  BY ServeMoves DEF Moves
<1>2. \A q \in Request : Own(q)'
  BY <1>1, OthersStep
<1>3. \A q \in Request : Fits(q)' /\ Accounted(q)' /\ Relies(q)'
  BY <1>2 DEF Own
<1>4. FreshIds'
  <2>1. \A q \in Request, i \in InvoiceId : Creates(q, i)' <=> Creates(q, i)
    BY <1>1 DEF Turns, Creates
  <2>2. \A p, q \in Request, i \in InvoiceId : Creates(p, i)' /\ Creates(q, i)' => p = q
    BY <2>1 DEF IInv, FreshIds
  <2>3. ASSUME NEW q \in Request, pc'[q] = "insert"
        PROVE  InvoiceOf(q)' = NoRow
    <3>1. q # r /\ pc[q] = "insert"
      BY <1>1, <2>3, InsertOnce DEF IInv, Turns
    <3>2. /\ call'[q] = call[q] /\ call[q] \in Call /\ call[q].op = "create"
          /\ InvoiceOf(q) = NoRow
      BY <1>1, <3>1 DEF Turns, IInv, Fits, FreshIds
    <3>3. call[q].invoice \in InvoiceId /\ Creates(q, call[q].invoice)
      BY <3>2, CreateFields, BillingAssumption DEF Creates
    <3>4. ~ (pc[r] = "insert" /\ call[r].invoice = call[q].invoice)
      <4>1. pc[r] = "insert" => call[r] # NoCall /\ call[r].op = "create"
        BY BillingAssumption DEF IInv, Fits
      <4> QED
        BY <3>1, <3>3, <4>1 DEF IInv, FreshIds, Creates
    <3> QED
      BY <1>1, <3>2, <3>3, <3>4 DEF Keeps, InvoiceOf
  <2>4. ASSUME NEW i \in InvoiceId, invoices'[i] # NoRow
        PROVE  \E q \in Request : Creates(q, i)'
    <3>1. CASE invoices[i] # NoRow
      BY <2>1, <3>1 DEF IInv, FreshIds
    <3>2. CASE invoices[i] = NoRow
      <4>1. pc[r] = "insert" /\ call[r].invoice = i
        BY <1>1, <2>4, <3>2 DEF Keeps
      <4>2. Creates(r, i)
        BY <4>1, BillingAssumption DEF IInv, Fits, Creates
      <4> QED
        BY <2>1, <4>2
    <3> QED
      BY <3>1, <3>2
  <2> QED
    BY <2>2, <2>3, <2>4 DEF FreshIds
<1>5. SettledBacked'
  <2> SUFFICES ASSUME NEW i \in InvoiceId, IsSettled(i)'
               PROVE  /\ currency'[invoices'[i].user] # NoRow
                      /\ \E q \in Request : Backs(q, i)'
    BY DEF SettledBacked, IsSettled
  <2>1. CASE IsSettled(i)
    <3>1. PICK q \in Request : Backs(q, i)
      BY <2>1 DEF IInv, SettledBacked, IsSettled
    <3>2. Backs(q, i)'
      BY <1>1, <2>1, <3>1, BacksKept DEF IsSettled
    <3>3. invoices[i].user \in User /\ currency[invoices[i].user] # NoRow
      BY <2>1 DEF IInv, TypeOK, SettledBacked, IsSettled, Invoice
    <3> QED
      BY <1>1, <2>1, <3>2, <3>3 DEF Keeps, IsSettled
  <2>2. CASE ~ IsSettled(i)
    <3>1. pc[r] = "payUpdate" /\ call[r].invoice = i /\ pc[r] \in Found /\ pc[r] \in PayPc
      BY <1>1, <2>2 DEF Keeps, Found, PayPc
    <3>2. /\ call'[r] # NoCall /\ call'[r].op = "pay" /\ call'[r].invoice = i
          /\ InvoiceOf(r) # NoRow /\ InvoiceOf(r).user \in User
          /\ invoices'[i].user = invoices[i].user
      BY <1>1, <3>1, InSaga, BillingAssumption DEF Turns, Keeps, InvoiceOf
    <3>3. Posted(r)' = {ChargeOf(r)'}
          /\ ("unknown" \notin Faults => pc'[r] = "answered")
      <4>1. invoices' # invoices
        BY <2>2 DEF IsSettled
      <4> QED
        BY <3>1, <4>1, ServeMoves
    <3>4. ChargeOf(r)' \in ledger' /\ \A m \in Posted(r)' : m.kind # "refund"
      BY <3>3 DEF Posted, ChargeOf
    <3>5. Backs(r, i)'
      BY <3>2, <3>3, <3>4 DEF Backs
    <3>6. currency[invoices[i].user] # NoRow
      BY <3>1, InSaga DEF Relies, InvoiceOf, Found
    <3> QED
      BY <1>1, <3>1, <3>2, <3>5, <3>6 DEF Keeps, InvoiceOf
  <2> QED
    BY <2>1, <2>2
<1> QED
  BY <1>1, <1>3, <1>4, <1>5 DEF IInv

-----------------------------------------------------------------------------
(* The steps that serve no request.                                        *)
LEMMA ReceiveStep ==
  ASSUME IInv, NEW r \in Request, NEW c \in Call, Receive(r, c)
  PROVE  IInv'
<1>1. /\ pc[r] = "idle" /\ call[r] = NoCall /\ answer[r] = NoAnswer /\ Posted(r) = {}
  BY DEF Receive, IInv, Fits, Accounted, Unposted
<1>2. /\ call' = [call EXCEPT ![r] = c] /\ pc' = [pc EXCEPT ![r] = Entry(c.op)]
      /\ invoices' = invoices /\ amount' = amount /\ currency' = currency
      /\ ledger' = ledger /\ answer' = answer /\ faultsLeft' = faultsLeft
  BY DEF Receive, tables
<1>3. c.op \in {"create", "pay", "refund", "deposit"}
  BY DEF Call, Create, OnInvoice, Deposit
<1>4. TypeOK'
  <2>1. Entry(c.op) \in Serving
    BY <1>3 DEF Entry, Serving
  <2> QED
    BY <1>2, <2>1 DEF IInv, TypeOK
<1>5. /\ call'[r] = c /\ pc'[r] = Entry(c.op)
      /\ \A q \in Request : q # r => call'[q] = call[q] /\ pc'[q] = pc[q]
  BY <1>2 DEF IInv, TypeOK
<1>6. \A q \in Request : Posted(q)' = Posted(q)
  BY <1>2 DEF Posted
<1>7. \A q \in Request : q # r =>
        /\ InvoiceOf(q)' = InvoiceOf(q) /\ ChargeOf(q)' = ChargeOf(q)
        /\ RefundOf(q)' = RefundOf(q) /\ DepositOf(q)' = DepositOf(q)
  BY <1>2, <1>5 DEF InvoiceOf, ChargeOf, RefundOf, DepositOf
<1>8. ASSUME NEW q \in Request
      PROVE  Fits(q)' /\ Accounted(q)' /\ Relies(q)'
  <2>1. CASE q = r
    <3>1. Entry(c.op) \in {"insert", "payFind", "refundFind", "depositInitialize"}
      BY <1>3 DEF Entry
    <3>2. /\ Entry(c.op) = "insert" => c.op = "create"
          /\ Entry(c.op) = "payFind" => c.op = "pay"
          /\ Entry(c.op) = "refundFind" => c.op = "refund"
          /\ Entry(c.op) = "depositInitialize" => c.op = "deposit"
      BY <1>3 DEF Entry
    <3>3. Fits(r)'
      BY <1>1, <1>2, <1>5, <3>1, <3>2 DEF Fits, PayPc, RefundPc, DepositPc, Found
    <3>4. Accounted(r)'
      BY <1>1, <1>2, <1>5, <1>6, <3>1 DEF Accounted, Unposted, NoAnswer
    <3>5. Relies(r)'
      BY <1>5, <3>1 DEF Relies, Found, RefundPc
    <3> QED
      BY <2>1, <3>3, <3>4, <3>5
  <2>2. CASE q # r
    <3>1. Fits(q) /\ Accounted(q) /\ Relies(q)
      BY DEF IInv
    <3>2. Fits(q)'
      BY <1>2, <1>5, <1>7, <2>2, <3>1 DEF Fits
    <3>3. Accounted(q)'
      BY <1>2, <1>5, <1>6, <1>7, <2>2, <3>1 DEF Accounted
    <3>4. Relies(q)'
      BY <1>2, <1>5, <1>7, <2>2, <3>1 DEF Relies
    <3> QED
      BY <3>2, <3>3, <3>4
  <2> QED
    BY <2>1, <2>2
<1>9. FreshIds'
  <2>1. \A q \in Request, i \in InvoiceId : q # r => (Creates(q, i)' <=> Creates(q, i))
    BY <1>5 DEF Creates
  <2>2. \A i \in InvoiceId : ~ Creates(r, i)
    BY <1>1 DEF Creates
  <2>3. \A q \in Request, i \in InvoiceId : q # r /\ Creates(r, i)' => ~ Creates(q, i)
    BY <1>5 DEF Receive, Creates
  <2>4. \A p, q \in Request, i \in InvoiceId : Creates(p, i)' /\ Creates(q, i)' => p = q
    BY <2>1, <2>3 DEF IInv, FreshIds
  <2>5. ASSUME NEW q \in Request, pc'[q] = "insert"
        PROVE  InvoiceOf(q)' = NoRow
    <3>1. CASE q # r
      BY <1>5, <1>7, <2>5, <3>1 DEF IInv, FreshIds
    <3>2. CASE q = r
      <4>1. c.op = "create" /\ c.invoice \in InvoiceId
        BY <1>3, <1>5, <2>5, <3>2, CreateFields DEF Entry
      <4>2. Creates(r, c.invoice)'
        BY <1>5, <4>1, BillingAssumption DEF Creates
      <4>3. \A p \in Request : ~ Creates(p, c.invoice)
        BY <2>2, <2>3, <4>1, <4>2
      <4>4. invoices[c.invoice] = NoRow
        BY <4>1, <4>3 DEF IInv, FreshIds
      <4> QED
        BY <1>2, <1>5, <3>2, <4>4 DEF InvoiceOf
    <3> QED
      BY <3>1, <3>2
  <2>6. \A i \in InvoiceId : invoices'[i] # NoRow => \E q \in Request : Creates(q, i)'
    BY <1>2, <2>1, <2>2 DEF IInv, FreshIds
  <2> QED
    BY <2>4, <2>5, <2>6 DEF FreshIds
<1>10. SettledBacked'
  <2>1. \A q \in Request, i \in InvoiceId : Backs(q, i) => Backs(q, i)'
    <3> SUFFICES ASSUME NEW q \in Request, NEW i \in InvoiceId, Backs(q, i)
                 PROVE  Backs(q, i)'
      OBVIOUS
    <3>1. q # r
      BY <1>1 DEF Backs
    <3> QED
      BY <1>2, <1>5, <1>6, <1>7, <3>1 DEF Backs
  <2> QED
    BY <1>2, <2>1 DEF IInv, SettledBacked
<1> QED
  BY <1>4, <1>8, <1>9, <1>10 DEF IInv

LEMMA CrashStep ==
  ASSUME IInv, Crash
  PROVE  IInv'
<1>1. /\ call' = call /\ invoices' = invoices /\ amount' = amount /\ currency' = currency
      /\ ledger' = ledger /\ answer' = answer /\ faultsLeft' = faultsLeft - 1
      /\ faultsLeft > 0
      /\ pc' = [r \in Request |-> IF r \in InService THEN "lost" ELSE pc[r]]
  BY DEF Crash, tables
<1>2. TypeOK'
  <2>1. faultsLeft' \in 0..MaxFaults
    BY <1>1, BillingAssumption DEF IInv, TypeOK
  <2> QED
    BY <1>1, <2>1 DEF IInv, TypeOK
<1>3. \A r \in Request :
        \/ pc[r] \in Serving /\ pc'[r] = "lost"
        \/ pc[r] \notin Serving /\ pc'[r] = pc[r]
  BY <1>1 DEF InService
<1>4. \A r \in Request : Posted(r)' = Posted(r) /\ InvoiceOf(r)' = InvoiceOf(r)
         /\ ChargeOf(r)' = ChargeOf(r) /\ RefundOf(r)' = RefundOf(r)
         /\ DepositOf(r)' = DepositOf(r)
  BY <1>1 DEF Posted, InvoiceOf, ChargeOf, RefundOf, DepositOf
<1>5. ASSUME NEW r \in Request
      PROVE  Fits(r)' /\ Accounted(r)' /\ Relies(r)'
  <2>1. Fits(r) /\ Accounted(r) /\ Relies(r)
    BY DEF IInv
  <2>2. Fits(r)'
    BY <1>1, <1>3, <1>4, <2>1 DEF Fits, PayPc, RefundPc, DepositPc, Found, Serving
  <2>3. Accounted(r)'
    BY <1>1, <1>3, <1>4, <2>1 DEF Accounted, Unposted, Serving
  <2>4. Relies(r)'
    BY <1>1, <1>3, <1>4, <2>1 DEF Relies, Found, RefundPc
  <2> QED
    BY <2>2, <2>3, <2>4
<1>6. FreshIds'
  BY <1>1, <1>3, <1>4 DEF IInv, FreshIds, Creates
<1>7. SettledBacked'
  <2>1. \A q \in Request, i \in InvoiceId : Backs(q, i) => Backs(q, i)'
    BY <1>1, <1>3, <1>4 DEF Backs, Serving
  <2> QED
    BY <1>1, <2>1 DEF IInv, SettledBacked
<1> QED
  BY <1>2, <1>5, <1>6, <1>7 DEF IInv

LEMMA IInvStep == IInv /\ [Next]_vars => IInv'
<1> SUFFICES ASSUME IInv, [Next]_vars PROVE IInv'
  OBVIOUS
<1>1. ASSUME NEW r \in Request, Serve(r) PROVE IInv'
  BY <1>1, ServeStep
<1>2. ASSUME NEW r \in Request, NEW c \in Call, Receive(r, c) PROVE IInv'
  BY <1>2, ReceiveStep
<1>3. CASE Crash
  BY <1>3, CrashStep
<1>4. CASE UNCHANGED vars
  <2>1. \A r \in Request : Posted(r)' = Posted(r) /\ InvoiceOf(r)' = InvoiceOf(r)
           /\ ChargeOf(r)' = ChargeOf(r) /\ RefundOf(r)' = RefundOf(r)
           /\ DepositOf(r)' = DepositOf(r)
    BY <1>4 DEF Posted, InvoiceOf, ChargeOf, RefundOf, DepositOf, vars, tables
  <2>2. TypeOK'
    BY <1>4 DEF IInv, TypeOK, vars, tables
  <2>3. ASSUME NEW r \in Request
        PROVE  Fits(r)' /\ Accounted(r)' /\ Relies(r)'
    <3>1. Fits(r) /\ Accounted(r) /\ Relies(r)
      BY DEF IInv
    <3>2. Fits(r)'
      BY <1>4, <2>1, <3>1 DEF Fits, vars
    <3>3. Accounted(r)'
      BY <1>4, <2>1, <3>1 DEF Accounted, vars, tables
    <3>4. Relies(r)'
      BY <1>4, <2>1, <3>1 DEF Relies, vars, tables
    <3> QED
      BY <3>2, <3>3, <3>4
  <2>4. FreshIds'
    BY <1>4, <2>1 DEF IInv, FreshIds, Creates, vars, tables
  <2>5. SettledBacked'
    <3>1. \A q \in Request, i \in InvoiceId : Backs(q, i) => Backs(q, i)'
      BY <1>4, <2>1 DEF Backs, vars, tables
    <3> QED
      BY <1>4, <3>1 DEF IInv, SettledBacked, vars, tables
  <2> QED
    BY <2>2, <2>3, <2>4, <2>5 DEF IInv
<1> QED
  BY <1>1, <1>2, <1>3, <1>4 DEF Next, Quiet

-----------------------------------------------------------------------------
(* What the invariant says of the properties of Billing.                   *)
LEMMA IInvAnswers == IInv => AnswerMatchesLedger
<1> SUFFICES ASSUME IInv, NEW r \in Request
             PROVE  /\ answer[r] \in {201, 400, 404, 409} => Posted(r) = {}
                    /\ answer[r] = 200 =>
                         Posted(r) = {CASE call[r].op = "pay" -> ChargeOf(r)
                                        [] call[r].op = "refund" -> RefundOf(r)
                                        [] call[r].op = "deposit" -> DepositOf(r)}
                    /\ call[r] # NoCall /\ call[r].op = "pay" =>
                         \A m \in Posted(r) : m.kind = "refund" => ChargeOf(r) \in ledger
  BY DEF AnswerMatchesLedger
<1>1. Accounted(r)
  BY DEF IInv
<1>2. ASSUME answer[r] = 200
      PROVE  Posted(r) = {CASE call[r].op = "pay" -> ChargeOf(r)
                            [] call[r].op = "refund" -> RefundOf(r)
                            [] call[r].op = "deposit" -> DepositOf(r)}
  <2>1. CASE call[r].op = "pay"
    BY <1>1, <1>2, <2>1 DEF Accounted
  <2>2. CASE call[r].op = "refund"
    BY <1>1, <1>2, <2>2 DEF Accounted
  <2>3. CASE call[r].op = "deposit"
    BY <1>1, <1>2, <2>3 DEF Accounted
  <2> QED
    BY <1>1, <1>2, <2>1, <2>2, <2>3 DEF Accounted
<1> QED
  BY <1>1, <1>2 DEF Accounted

LEMMA IInvBacked == IInv => ChargeBehindPaid
<1> SUFFICES ASSUME IInv, NEW i \in InvoiceId, invoices[i] # NoRow,
                    invoices[i].status \in Settled
             PROVE  \E m \in ChargesFor(i) :
                      "unknown" \notin Faults => \A n \in Posted(m.by) : n.kind # "refund"
  BY DEF ChargeBehindPaid, Settled
<1>1. PICK r \in Request : Backs(r, i)
  BY DEF IInv, SettledBacked
<1>2. /\ ChargeOf(r) \in ChargesFor(i) /\ ChargeOf(r).by = r
      /\ "unknown" \notin Faults => \A n \in Posted(r) : n.kind # "refund"
  BY <1>1 DEF Backs, ChargesFor, ChargeOf
<1> QED
  BY <1>2

LEMMA IInvCredits == IInv => CreditFindsWallet
BY DEF IInv, Relies, CreditFindsWallet, Found

LEMMA BillingInvariant == Spec => []IInv
BY InitIInv, IInvStep, PTL DEF Spec

(* The columns of the payment service stay in range, whatever runs side by *)
(* side, fails or crashes: no wallet is overdrawn.                         *)
THEOREM BillingTypes == Spec => []TypeOK
<1>1. IInv => TypeOK
  BY DEF IInv
<1> QED
  BY BillingInvariant, <1>1, PTL

(* What a client is answered is what happened to its money.                *)
THEOREM BillingAnswers == Spec => []AnswerMatchesLedger
BY BillingInvariant, IInvAnswers, PTL

(* An invoice that counts as settled was charged; unless the answer to a   *)
(* commit got lost, nothing took that charge back.                         *)
THEOREM BillingCharges == Spec => []ChargeBehindPaid
BY BillingInvariant, IInvBacked, PTL

(* A refund, a compensation or a deposit finds its wallet open.            *)
THEOREM BillingCredits == Spec => []CreditFindsWallet
BY BillingInvariant, IInvCredits, PTL

-----------------------------------------------------------------------------
(* Every step of the service is a step of the contract, or none.           *)
LEMMA CreditImplements ==
  ASSUME TypeOK, NEW row \in TransactionRow, row \notin ledger, row.delta > 0,
         CreditWallet(row)
  PROVE  Contract!WalletNext
<1>1. row.user \in User /\ row.delta \in Int
  BY RowFields
<1>2. amount[row.user] + row.delta >= 0
  BY <1>1 DEF TypeOK
<1>3. Contract!Credit(row)
  BY <1>1, <1>2 DEF CreditWallet, Contract!Credit, Contract!Post
<1> QED
  BY <1>3 DEF Contract!WalletNext

LEMMA ServeImplements ==
  ASSUME IInv, NEW r \in Request, Serve(r)
  PROVE  [Contract!WalletNext]_(Contract!walletVars)
<1>1. CASE UNCHANGED <<amount, currency, ledger>>
  BY <1>1 DEF Contract!walletVars
<1>2. CASE CreateInvoice(r) \/ PayUpdate(r) \/ RefundUpdate(r) \/ RefundCompensate(r)
  BY <1>1, <1>2 DEF CreateInvoice, PayUpdate, RefundUpdate, RefundCompensate, Write,
     InsertInvoice, UpdateStatus, tables
<1>3. CASE PayFind(r) \/ RefundFind(r) \/ DepositGet(r)
  BY <1>1, <1>3 DEF PayFind, RefundFind, DepositGet, Find, Read, tables
<1>4. CASE PayDebit(r)
  <2>1. pc[r] = "payDebit" /\ pc[r] \in Found /\ pc[r] \in Unposted
    BY <1>4 DEF PayDebit, Found, Unposted
  <2>2. /\ ChargeOf(r) \in TransactionRow /\ ChargeOf(r).by = r /\ ChargeOf(r).delta < 0
        /\ Posted(r) = {}
    BY <2>1, InSaga DEF ChargeOf, Accounted
  <2>3. ChargeOf(r) \notin ledger
    BY <2>2 DEF Posted
  <2>4. CASE Sufficient(ChargeOf(r)) /\ DebitWallet(ChargeOf(r))
    <3>1. Contract!Debit(ChargeOf(r))
      BY <2>2, <2>3, <2>4 DEF Sufficient, DebitWallet, Contract!Debit, Contract!Post
    <3> QED
      BY <2>2, <3>1 DEF Contract!WalletNext
  <2> QED
    BY <1>1, <1>4, <2>4 DEF PayDebit, Write, Read, tables
<1>5. CASE PayCompensate(r)
  <2>1. pc[r] = "payCompensate" /\ pc[r] \in Found
    BY <1>5 DEF PayCompensate, Found
  <2>2. /\ TypeOK /\ RefundOf(r) \in TransactionRow /\ RefundOf(r).by = r
        /\ RefundOf(r).delta > 0 /\ Posted(r) = {ChargeOf(r)}
    BY <2>1, InSaga DEF RefundOf, Accounted
  <2>3. RefundOf(r) \notin ledger
    BY <2>2 DEF Posted, RefundOf, ChargeOf
  <2> QED
    BY <1>1, <1>5, <2>2, <2>3, CreditImplements DEF PayCompensate, Write, tables
<1>6. CASE RefundCredit(r)
  <2>1. pc[r] = "refundCredit" /\ pc[r] \in Found /\ pc[r] \in Unposted
    BY <1>6 DEF RefundCredit, Found, Unposted
  <2>2. /\ TypeOK /\ RefundOf(r) \in TransactionRow /\ RefundOf(r).by = r
        /\ RefundOf(r).delta > 0 /\ Posted(r) = {}
    BY <2>1, InSaga DEF RefundOf, Accounted
  <2>3. RefundOf(r) \notin ledger
    BY <2>2 DEF Posted
  <2> QED
    BY <1>1, <1>6, <2>2, <2>3, CreditImplements DEF RefundCredit, Write, tables
<1>7. CASE DepositInitialize(r)
  <2>1. pc[r] = "depositInitialize" /\ pc[r] \in DepositPc
    BY <1>7 DEF DepositInitialize, DepositPc
  <2>2. TypeOK /\ call[r].user \in User /\ call[r].money \in Currency
    BY <2>1, InDeposit
  <2>3. CASE InitializeWallet(call[r].user, call[r].money)
    <3>1. CASE currency[call[r].user] = NoRow
      <4>1. Contract!Open(call[r].user, call[r].money)
        BY <2>2, <2>3, <3>1 DEF TypeOK, InitializeWallet, Contract!Open
      <4> QED
        BY <2>2, <4>1 DEF Contract!WalletNext
    <3>2. CASE currency[call[r].user] # NoRow
      BY <1>1, <2>2, <2>3, <3>2 DEF TypeOK, InitializeWallet
    <3> QED
      BY <3>1, <3>2
  <2> QED
    BY <1>1, <1>7, <2>3 DEF DepositInitialize, Write, tables
<1>8. CASE DepositCredit(r)
  <2>1. pc[r] = "depositCredit" /\ pc[r] \in DepositPc /\ pc[r] \in Unposted
    BY <1>8 DEF DepositCredit, DepositPc, Unposted
  <2>2. TypeOK /\ DepositOf(r).by = r /\ DepositOf(r).delta > 0 /\ Posted(r) = {}
    BY <2>1, InDeposit DEF DepositOf, Accounted, Fits
  <2>3. DepositOf(r) \in TransactionRow
    BY <2>1, InDeposit, DepositRows DEF Fits
  <2>4. DepositOf(r) \notin ledger
    BY <2>2 DEF Posted
  <2> QED
    BY <1>1, <1>8, <2>2, <2>3, <2>4, CreditImplements DEF DepositCredit, Write, tables
<1> QED
  BY <1>2, <1>3, <1>4, <1>5, <1>6, <1>7, <1>8 DEF Serve

(* Whatever its requests do, side by side, failing or crashing, the        *)
(* payment service moves money only as the balance repository promises:    *)
(* each movement once, with its change of balance, and never below zero.   *)
THEOREM BillingImplementsWallet == Spec => ImplementsWallet
<1>1. Init => Contract!WalletInit
  BY DEF Init, Contract!WalletInit
<1>2. IInv /\ [Next]_vars => [Contract!WalletNext]_(Contract!walletVars)
  <2> SUFFICES ASSUME IInv, [Next]_vars
               PROVE  [Contract!WalletNext]_(Contract!walletVars)
    OBVIOUS
  <2>1. ASSUME NEW r \in Request, Serve(r)
        PROVE  [Contract!WalletNext]_(Contract!walletVars)
    BY <2>1, ServeImplements
  <2>2. CASE UNCHANGED tables
    BY <2>2 DEF tables, Contract!walletVars
  <2> QED
    BY <2>1, <2>2 DEF Next, Receive, Crash, Quiet, vars
<1> QED
  BY <1>1, <1>2, InitIInv, IInvStep, PTL DEF Spec, ImplementsWallet, Contract!WalletSpec

-----------------------------------------------------------------------------
(* With one worker thread, the sagas look atomic.                          *)

(* The request in service is alone, so the status it has read is still     *)
(* that of the invoice, or the one it has written itself.                  *)
Alone(r) == \A q \in Request : q # r => pc[q] \notin Serving
ReadStatus(r) ==
  /\ pc[r] \in {"payDebit", "payUpdate"} => InvoiceOf(r).status = "pending"
  /\ pc[r] = "refundUpdate" => InvoiceOf(r).status = "paid"
  /\ pc[r] \in {"refundCredit", "refundCompensate"} => InvoiceOf(r).status = "refunded"
Serial ==
  /\ \A r \in InService : Alone(r)
  /\ \A r \in Request : ReadStatus(r)

(* What the request in service adds to what the tables show.               *)
Carried(r, u) ==
  IF pc[r] \in {"payUpdate", "payCompensate"} /\ InvoiceOf(r).user = u
  THEN InvoiceOf(r).amount ELSE 0
Billed(r, i) ==
  IF pc[r] \in {"refundCredit", "refundCompensate"} /\ call[r].invoice = i
  THEN [invoices[i] EXCEPT !.status = "paid"] ELSE invoices[i]

(* A sum over no request, and over one.                                    *)
Transit(p, inv, c, u) ==
  MapThenSumSet(LAMBDA r : inv[c[r].invoice].amount,
    {r \in Request : p[r] \in {"payUpdate", "payCompensate"} /\ inv[c[r].invoice].user = u})

LEMMA TransitNone ==
  ASSUME NEW p, NEW inv, NEW c, NEW u,
         \A r \in Request : ~ (/\ p[r] \in {"payUpdate", "payCompensate"}
                               /\ inv[c[r].invoice].user = u)
  PROVE  Transit(p, inv, c, u) = 0
<1> DEFINE S == {r \in Request : /\ p[r] \in {"payUpdate", "payCompensate"}
                                 /\ inv[c[r].invoice].user = u}
           F(f) == [s \in SUBSET S |->
                      IF s = {} THEN 0
                      ELSE inv[c[CHOOSE x \in s : TRUE].invoice].amount
                             + f[s \ {CHOOSE x \in s : TRUE}]]
           g == [s \in SUBSET S |-> 0]
<1>1. Transit(p, inv, c, u) = (CHOOSE f : f = F(f))[S]
  BY DEF Transit, MapThenSumSet, MapThenFoldSet
<1>2. S = {}
  OBVIOUS
<1>3. g = F(g)
  BY <1>2
<1>4. F(CHOOSE f : f = F(f)) = (CHOOSE f : f = F(f))
  <2> HIDE DEF F, g
  <2> QED
    BY <1>3
<1> QED
  BY <1>1, <1>2, <1>4

LEMMA TransitOne ==
  ASSUME NEW p, NEW inv, NEW c, NEW u, NEW r \in Request,
         p[r] \in {"payUpdate", "payCompensate"}, inv[c[r].invoice].user = u,
         inv[c[r].invoice].amount \in Int,
         \A q \in Request : p[q] \in {"payUpdate", "payCompensate"} => q = r
  PROVE  Transit(p, inv, c, u) = inv[c[r].invoice].amount
<1> DEFINE S == {q \in Request : /\ p[q] \in {"payUpdate", "payCompensate"}
                                 /\ inv[c[q].invoice].user = u}
           F(f) == [s \in SUBSET S |->
                      IF s = {} THEN 0
                      ELSE inv[c[CHOOSE x \in s : TRUE].invoice].amount
                             + f[s \ {CHOOSE x \in s : TRUE}]]
           g == [s \in SUBSET S |-> IF s = {} THEN 0 ELSE inv[c[r].invoice].amount]
<1>1. Transit(p, inv, c, u) = (CHOOSE f : f = F(f))[S]
  BY DEF Transit, MapThenSumSet, MapThenFoldSet
<1>2. S = {r}
  OBVIOUS
<1>3. g = F(g)
  <2> SUFFICES ASSUME NEW s \in SUBSET S PROVE g[s] = F(g)[s]
    OBVIOUS
  <2>1. CASE s = {}
    BY <2>1
  <2>2. CASE s # {}
    <3>1. s = {r} /\ (CHOOSE x \in s : TRUE) = r /\ s \ {r} = {}
      BY <1>2, <2>2
    <3>2. g[{}] = 0 /\ g[s] = inv[c[r].invoice].amount
      BY <2>2
    <3> QED
      BY <2>2, <3>1, <3>2
  <2> QED
    BY <2>1, <2>2
<1>4. F(CHOOSE f : f = F(f)) = (CHOOSE f : f = F(f))
  <2> HIDE DEF F, g
  <2> QED
    BY <1>3
<1> DEFINE h == CHOOSE f : f = F(f)
<1>5. h = F(h) /\ Transit(p, inv, c, u) = h[S]
  BY <1>1, <1>4
<1> HIDE DEF h
<1>6. \A s \in SUBSET S :
        h[s] = IF s = {} THEN 0
               ELSE inv[c[CHOOSE x \in s : TRUE].invoice].amount
                      + h[s \ {CHOOSE x \in s : TRUE}]
  BY <1>5
<1> HIDE DEF S, F
<1>7. h[{}] = 0
  BY <1>6
<1>8. h[S] = inv[c[r].invoice].amount + h[{}]
  <2>1. (CHOOSE x \in S : TRUE) = r /\ S \ {r} = {} /\ S # {}
    BY <1>2
  <2> QED
    BY <1>6, <2>1
<1> QED
  BY <1>5, <1>7, <1>8

LEMMA TransitShown ==
  ASSUME NEW u
  PROVE  /\ InTransit(u) = Transit(pc, invoices, call, u)
         /\ InTransit(u)' = Transit(pc', invoices', call', u)
<1>1. InTransit(u) = Transit(pc, invoices, call, u)
  BY DEF InTransit, Transit, InvoiceOf
<1>2. InTransit(u)' = Transit(pc', invoices', call', u)
  BY DEF InTransit, Transit, InvoiceOf, MapThenSumSet, MapThenFoldSet
<1> QED
  BY <1>1, <1>2

LEMMA TransitIs ==
  ASSUME NEW r \in Request, Alone(r), Alone(r)', NEW u,
         pc[r] \in Found => InvoiceOf(r).amount \in Int,
         pc'[r] \in Found => InvoiceOf(r)'.amount \in Int
  PROVE  InTransit(u) = Carried(r, u) /\ InTransit(u)' = Carried(r, u)'
<1>1. /\ InTransit(u) = Transit(pc, invoices, call, u)
      /\ InTransit(u)' = Transit(pc', invoices', call', u)
  BY TransitShown
<1>2. ASSUME NEW p, NEW inv, NEW c, \A q \in Request : q # r => p[q] \notin Serving,
             p[r] \in Found => inv[c[r].invoice].amount \in Int
      PROVE  Transit(p, inv, c, u) =
               IF p[r] \in {"payUpdate", "payCompensate"} /\ inv[c[r].invoice].user = u
               THEN inv[c[r].invoice].amount ELSE 0
  <2>1. \A q \in Request : p[q] \in {"payUpdate", "payCompensate"} => q = r
    BY <1>2 DEF Serving
  <2>2. p[r] \in {"payUpdate", "payCompensate"} => inv[c[r].invoice].amount \in Int
    BY <1>2 DEF Found
  <2>3. CASE p[r] \in {"payUpdate", "payCompensate"} /\ inv[c[r].invoice].user = u
    BY <2>1, <2>2, <2>3, TransitOne
  <2>4. CASE ~ (p[r] \in {"payUpdate", "payCompensate"} /\ inv[c[r].invoice].user = u)
    BY <2>1, <2>4, TransitNone
  <2> QED
    BY <2>3, <2>4
<1>3. InTransit(u) = Carried(r, u)
  BY <1>1, <1>2 DEF Alone, Carried, InvoiceOf
<1>4. InTransit(u)' = Carried(r, u)'
  BY <1>1, <1>2 DEF Alone, Carried, InvoiceOf
<1> QED
  BY <1>3, <1>4

LEMMA BillIs ==
  ASSUME NEW r \in Request, Alone(r), Alone(r)', NEW i
  PROVE  BillOf(i) = Billed(r, i) /\ BillOf(i)' = Billed(r, i)'
<1>1. BillOf(i) = Billed(r, i)
  BY DEF Alone, BillOf, Billed, Serving
<1>2. BillOf(i)' = Billed(r, i)'
  BY DEF Alone, BillOf, Billed, Serving
<1> QED
  BY <1>1, <1>2

TheBills == [i \in InvoiceId |-> BillOf(i)]
TheFunds == [u \in User |-> amount[u] + InTransit(u)]

(* A step of the request in service, and what it shows of itself.          *)
LEMMA Scene ==
  ASSUME IInv, Serial, NEW r \in Request, Serve(r)
  PROVE  /\ pc[r] \in Serving /\ Alone(r) /\ Alone(r)' /\ call' = call
         /\ \A q \in Request : q # r => pc'[q] = pc[q]
         /\ \A i \in InvoiceId : BillOf(i) = Billed(r, i) /\ BillOf(i)' = Billed(r, i)'
         /\ \A u \in User : InTransit(u) = Carried(r, u) /\ InTransit(u)' = Carried(r, u)'
<1>1. pc[r] \in Serving /\ TypeOK' /\ Turns(r) /\ Fits(r)'
  BY ServeMoves DEF Moves, Own
<1>2. Alone(r) /\ Alone(r)' /\ call' = call /\ \A q \in Request : q # r => pc'[q] = pc[q]
  BY <1>1 DEF Serial, InService, Turns, Alone
<1>3. pc[r] \in Found => InvoiceOf(r).amount \in Int
  BY InSaga
<1>4. pc'[r] \in Found => InvoiceOf(r)'.amount \in Int
  <2> SUFFICES ASSUME pc'[r] \in Found PROVE InvoiceOf(r)'.amount \in Int
    OBVIOUS
  <2>1. call'[r] \in Call /\ call'[r].op \in {"pay", "refund"} /\ InvoiceOf(r)' # NoRow
    BY <1>1 DEF Fits, Found, PayPc, RefundPc
  <2>2. InvoiceOf(r)' \in Invoice
    BY <1>1, <2>1, InvoiceFields DEF InvoiceOf, TypeOK
  <2> QED
    BY <2>2, BillingAssumption DEF Invoice, Positive
<1> QED
  BY <1>1, <1>2, <1>3, <1>4, TransitIs, BillIs

(* A step that shows nothing.                                              *)
Still(r) ==
  /\ \A i \in InvoiceId : Billed(r, i)' = Billed(r, i)
  /\ \A u \in User : amount'[u] + Carried(r, u)' = amount[u] + Carried(r, u)

LEMMA StillRests ==
  ASSUME IInv, Serial, NEW r \in Request, Serve(r), Still(r)
  PROVE  UNCHANGED Atomic!atomicVars
<1>1. \A i \in InvoiceId : BillOf(i)' = BillOf(i)
  BY Scene DEF Still
<1>2. \A u \in User : amount'[u] + InTransit(u)' = amount[u] + InTransit(u)
  BY Scene DEF Still
<1> QED
  BY <1>1, <1>2 DEF Atomic!atomicVars

LEMMA StatusBack ==
  ASSUME NEW row \in Invoice, NEW s
  PROVE  [[row EXCEPT !.status = s] EXCEPT !.status = row.status] = row
         /\ \A t : [[row EXCEPT !.status = s] EXCEPT !.status = t] = [row EXCEPT !.status = t]
BY DEF Invoice

LEMMA Updated ==
  ASSUME TypeOK, NEW i \in InvoiceId, invoices[i] \in Invoice, NEW s, UpdateStatus(i, s)
  PROVE  /\ invoices'[i] = [invoices[i] EXCEPT !.status = s]
         /\ invoices'[i].status = s
         /\ invoices'[i].user = invoices[i].user
         /\ invoices'[i].amount = invoices[i].amount
         /\ \A j \in InvoiceId : j # i => invoices'[j] = invoices[j]
         /\ UNCHANGED amount
BY DEF TypeOK, UpdateStatus, Invoice

(* What a saga has in hand.                                                *)
LEMMA InHand ==
  ASSUME IInv, Serial, NEW r \in Request, Serve(r), pc[r] \in Found
  PROVE  /\ TypeOK /\ call[r].invoice \in InvoiceId /\ call' = call
         /\ InvoiceOf(r) = invoices[call[r].invoice] /\ InvoiceOf(r) \in Invoice
         /\ InvoiceOf(r).user \in User
         /\ InvoiceOf(r).amount \in Int /\ InvoiceOf(r).amount > 0
         /\ amount \in [User -> Nat] /\ faultsLeft \in Nat
         /\ ReadStatus(r)
<1>1. faultsLeft \in Nat
  BY BillingAssumption DEF IInv, TypeOK
<1> QED
  BY <1>1, InSaga, Scene DEF InvoiceOf, TypeOK, Serial

(* A fault is spent.                                                       *)
LEMMA Lost ==
  ASSUME TypeOK, NEW o \in Outcome, o # "ok", Spend(o)
  PROVE  faultsLeft' < faultsLeft
BY BillingAssumption DEF TypeOK, Spend

LEMMA CreateAtomic ==
  ASSUME IInv, Serial, NEW r \in Request, CreateInvoice(r)
  PROVE  Atomic!AtomicNext \/ UNCHANGED Atomic!atomicVars
<1> DEFINE i == call[r].invoice
           row == [user |-> call[r].user, amount |-> call[r].amount,
                   money |-> call[r].money, status |-> "pending"]
<1>1. Serve(r) /\ pc[r] = "insert" /\ pc'[r] = "answered"
  BY DEF CreateInvoice, Serve, Answer, IInv, TypeOK
<1>2. /\ invoices \in [InvoiceId -> Invoice \union {NoRow}]
      /\ call[r] \in Call /\ call[r].op = "create" /\ invoices[i] = NoRow
  BY <1>1 DEF IInv, TypeOK, Fits, FreshIds, InvoiceOf
<1>3. i \in InvoiceId /\ call[r].user \in User /\ call[r].amount \in Amount
      /\ call[r].money \in Currency
  BY <1>2, CreateFields
<1>4. \A j : Billed(r, j) = invoices[j] /\ Billed(r, j)' = invoices'[j]
  BY <1>1 DEF Billed
<1>5. \A u : Carried(r, u) = 0 /\ Carried(r, u)' = 0
  BY <1>1 DEF Carried
<1>6. CASE UNCHANGED tables
  <2>1. Still(r)
    BY <1>4, <1>5, <1>6 DEF Still, tables
  <2> QED
    BY <1>1, <2>1, StillRests
<1>7. CASE InsertInvoice(i, row)
  <2>1. invoices' = [invoices EXCEPT ![i] = row] /\ amount' = amount
    BY <1>7 DEF InsertInvoice
  <2>2. TheBills' = [TheBills EXCEPT ![i] = row]
    BY <1>1, <1>2, <1>3, <1>4, <2>1, Scene DEF TheBills
  <2>3. TheFunds' = TheFunds
    BY <1>1, <1>5, <2>1, Scene DEF TheFunds
  <2>4. TheBills[i] = NoRow
    BY <1>1, <1>2, <1>3, <1>4, Scene DEF TheBills
  <2>5. row \in [user : User, amount : Amount, money : Currency, status : {"pending"}]
    BY <1>3
  <2> HIDE DEF row
  <2>6. Atomic!Issue(i, row)
    BY <2>2, <2>3, <2>4, <2>5 DEF Atomic!Issue, TheBills, TheFunds
  <2> QED
    BY <1>3, <2>5, <2>6 DEF Atomic!AtomicNext
<1> QED
  BY <1>6, <1>7 DEF CreateInvoice, Write

LEMMA ReadAtomic ==
  ASSUME IInv, Serial, NEW r \in Request, PayFind(r) \/ RefundFind(r) \/ DepositGet(r)
  PROVE  UNCHANGED Atomic!atomicVars
<1>1. Serve(r) /\ pc[r] \in {"payFind", "refundFind", "depositGet"} /\ UNCHANGED tables
      /\ pc'[r] \in {"answered", "payDebit", "refundUpdate"}
  BY DEF PayFind, RefundFind, DepositGet, Find, Read, Serve, Answer, Goto, IInv, TypeOK
<1>2. Still(r)
  BY <1>1 DEF Still, Billed, Carried, tables
<1> QED
  BY <1>1, <1>2, StillRests

LEMMA PayDebitAtomic ==
  ASSUME IInv, Serial, NEW r \in Request, PayDebit(r)
  PROVE  Disaster \/ UNCHANGED Atomic!atomicVars
<1> DEFINE row == InvoiceOf(r)
           m == ChargeOf(r)
<1>1. Serve(r) /\ pc[r] = "payDebit" /\ pc[r] \in Found /\ pc[r] \in Unposted
  BY DEF PayDebit, Serve, Found, Unposted
<1>2. /\ m.user = row.user /\ m.delta = -row.amount /\ m \notin ledger
      /\ row.user \in User /\ row.amount \in Int /\ amount \in [User -> Nat] /\ call' = call
  BY <1>1, InSaga, InHand DEF ChargeOf, Accounted, Posted
<1>3. pc'[r] \in {"payUpdate", "answered"}
  BY <1>1 DEF PayDebit, GotoOr, Goto, Answer, IInv, TypeOK
<1>4. CASE UNCHANGED tables /\ pc'[r] = "answered"
  <2>1. Still(r)
    BY <1>1, <1>4 DEF Still, Billed, Carried, tables
  <2> QED
    BY <1>1, <2>1, StillRests
<1>5. ASSUME NEW o \in Outcome, o # "ok", Spend(o), DebitWallet(m) PROVE Disaster
  <2>1. faultsLeft' < faultsLeft
    BY <1>5, Lost DEF IInv
  <2>2. tables' # tables
    BY <1>2, <1>5 DEF DebitWallet, tables
  <2> QED
    BY <2>1, <2>2 DEF Disaster
<1>6. CASE DebitWallet(m) /\ pc'[r] = "payUpdate"
  <2>1. invoices' = invoices /\ amount' = [amount EXCEPT ![row.user] = @ - row.amount]
    BY <1>2, <1>6 DEF DebitWallet
  <2>2. \A u \in User : amount'[u] + Carried(r, u)' = amount[u] + Carried(r, u)
    BY <1>1, <1>2, <1>6, <2>1 DEF Carried, InvoiceOf
  <2>3. Still(r)
    BY <1>1, <1>2, <1>6, <2>1, <2>2 DEF Still, Billed
  <2> QED
    BY <1>1, <2>3, StillRests
<1>7. PICK o \in Outcome :
        \/ Write(o, DebitWallet(m)) /\ GotoOr(r, o, "payUpdate", 500)
        \/ Read(o) /\ Answer(r, IF o = "ok" THEN 409 ELSE 500)
  BY DEF PayDebit
<1>8. /\ \A code : Answer(r, code) => pc'[r] = "answered"
      /\ Goto(r, "payUpdate") => pc'[r] = "payUpdate"
  BY DEF Answer, Goto, IInv, TypeOK
<1> HIDE DEF m, row
<1>9. CASE Read(o) /\ Answer(r, IF o = "ok" THEN 409 ELSE 500)
  BY <1>4, <1>8, <1>9 DEF Read
<1>10. CASE Write(o, DebitWallet(m)) /\ GotoOr(r, o, "payUpdate", 500)
  BY <1>4, <1>5, <1>6, <1>8, <1>10 DEF Write, GotoOr, Took
<1> QED
  BY <1>7, <1>9, <1>10

LEMMA PayUpdateAtomic ==
  ASSUME IInv, Serial, NEW r \in Request, PayUpdate(r)
  PROVE  Atomic!AtomicNext \/ Disaster \/ UNCHANGED Atomic!atomicVars
<1> DEFINE i == call[r].invoice
           row == invoices[i]
<1>1. Serve(r) /\ pc[r] = "payUpdate" /\ pc[r] \in Found
  BY DEF PayUpdate, Serve, Found
<1>2. /\ TypeOK /\ i \in InvoiceId /\ row \in Invoice /\ row.user \in User
      /\ row.amount \in Int /\ row.amount > 0 /\ row.status = "pending"
      /\ amount \in [User -> Nat] /\ call' = call
  BY <1>1, InHand DEF ReadStatus
<1>3. PICK o \in Outcome :
        /\ Write(o, UpdateStatus(i, "paid"))
        /\ IF o = "ok" THEN Answer(r, 200) ELSE Goto(r, "payCompensate")
  BY DEF PayUpdate
<1>4. CASE o = "ok"
  <2>1. UpdateStatus(i, "paid") /\ pc'[r] = "answered"
    BY <1>3, <1>4 DEF Write, Took, Answer, IInv, TypeOK
  <2>2. /\ invoices'[i] = [row EXCEPT !.status = "paid"]
        /\ \A j \in InvoiceId : j # i => invoices'[j] = invoices[j]
        /\ amount' = amount
    BY <1>2, <2>1, Updated
  <2>3. TheBills[i] = row /\ TheBills' = [TheBills EXCEPT ![i].status = "paid"]
    BY <1>1, <1>2, <2>1, <2>2, Scene DEF TheBills, Billed
  <2>4. \A u \in User : TheFunds[u] = amount[u] + (IF u = row.user THEN row.amount ELSE 0)
                        /\ TheFunds'[u] = amount[u]
    BY <1>1, <1>2, <2>1, <2>2, Scene DEF TheFunds, Carried, InvoiceOf
  <2>5. TheFunds' = [TheFunds EXCEPT ![row.user] = @ - row.amount]
    BY <1>2, <2>4 DEF TheFunds
  <2>6. TheFunds[row.user] >= row.amount
    BY <1>2, <2>4
  <2>7. row # NoRow
    BY <1>2, BillingAssumption
  <2>8. PICK j \in InvoiceId : j = i
    BY <1>2
  <2> HIDE DEF row, i
  <2>9. Atomic!Pay(j)
    BY <1>2, <2>3, <2>5, <2>6, <2>7, <2>8 DEF Atomic!Pay, TheBills, TheFunds
  <2> QED
    BY <2>9 DEF Atomic!AtomicNext
<1>5. CASE o # "ok" /\ UNCHANGED tables
  <2>1. pc'[r] = "payCompensate"
    BY <1>3, <1>5 DEF Goto, IInv, TypeOK
  <2>2. Still(r)
    BY <1>1, <1>2, <1>5, <2>1 DEF Still, Billed, Carried, InvoiceOf, tables
  <2> QED
    BY <1>1, <2>2, StillRests
<1>6. CASE o # "ok" /\ UpdateStatus(i, "paid")
  <2>1. faultsLeft' < faultsLeft
    BY <1>2, <1>3, <1>6, Lost DEF Write
  <2>2. invoices'[i].status # invoices[i].status
    BY <1>2, <1>6, Updated
  <2> QED
    BY <2>1, <2>2 DEF Disaster, tables
<1> QED
  BY <1>3, <1>4, <1>5, <1>6 DEF Write

LEMMA CompensateAtomic ==
  ASSUME IInv, Serial, NEW r \in Request, PayCompensate(r) \/ RefundCompensate(r)
  PROVE  Disaster \/ UNCHANGED Atomic!atomicVars
<1> DEFINE i == call[r].invoice
           row == invoices[i]
<1>1. /\ Serve(r) /\ pc[r] \in {"payCompensate", "refundCompensate"} /\ pc[r] \in Found
      /\ pc'[r] = "answered"
  BY DEF PayCompensate, RefundCompensate, Serve, Found, Answer, IInv, TypeOK
<1>2. /\ TypeOK /\ i \in InvoiceId /\ row \in Invoice /\ row.user \in User
      /\ row.amount \in Int /\ row.amount > 0
      /\ amount \in [User -> Nat] /\ call' = call
      /\ pc[r] = "refundCompensate" => row.status = "refunded"
  BY <1>1, InHand DEF ReadStatus
<1>3. PICK o \in Outcome :
        \/ pc[r] = "payCompensate" /\ Write(o, CreditWallet(RefundOf(r)))
        \/ pc[r] = "refundCompensate" /\ Write(o, UpdateStatus(i, "paid"))
  BY DEF PayCompensate, RefundCompensate
<1>4. CASE o # "ok"
  <2>1. faultsLeft' < faultsLeft
    BY <1>2, <1>3, <1>4, Lost DEF Write
  <2> QED
    BY <1>1, <2>1 DEF Disaster
<1>5. CASE o = "ok" /\ pc[r] = "payCompensate"
  <2>1. /\ amount' = [amount EXCEPT ![row.user] = @ + row.amount]
        /\ invoices' = invoices
    BY <1>3, <1>5 DEF Write, Took, CreditWallet, RefundOf, InvoiceOf
  <2>2. Still(r)
    BY <1>1, <1>2, <1>5, <2>1 DEF Still, Billed, Carried, InvoiceOf
  <2> QED
    BY <1>1, <2>2, StillRests
<1>6. CASE o = "ok" /\ pc[r] = "refundCompensate"
  <2>1. UpdateStatus(i, "paid")
    BY <1>3, <1>6 DEF Write, Took
  <2>2. /\ invoices'[i] = [row EXCEPT !.status = "paid"]
        /\ \A j \in InvoiceId : j # i => invoices'[j] = invoices[j]
        /\ amount' = amount
    BY <1>2, <2>1, Updated
  <2>3. Still(r)
    BY <1>1, <1>2, <1>6, <2>2 DEF Still, Billed, Carried
  <2> QED
    BY <1>1, <2>3, StillRests
<1> QED
  BY <1>1, <1>4, <1>5, <1>6

LEMMA RefundUpdateAtomic ==
  ASSUME IInv, Serial, NEW r \in Request, RefundUpdate(r)
  PROVE  Disaster \/ UNCHANGED Atomic!atomicVars
<1> DEFINE i == call[r].invoice
           row == invoices[i]
<1>1. Serve(r) /\ pc[r] = "refundUpdate" /\ pc[r] \in Found
  BY DEF RefundUpdate, Serve, Found
<1>2. TypeOK /\ i \in InvoiceId /\ row \in Invoice /\ row.status = "paid" /\ call' = call
  BY <1>1, InHand DEF ReadStatus
<1>3. PICK o \in Outcome :
        /\ Write(o, UpdateStatus(i, "refunded"))
        /\ GotoOr(r, o, "refundCredit", 500)
  BY DEF RefundUpdate
<1>4. pc'[r] = IF o = "ok" THEN "refundCredit" ELSE "answered"
  BY <1>3 DEF GotoOr, Goto, Answer, IInv, TypeOK
<1>5. CASE o = "ok"
  <2>1. UpdateStatus(i, "refunded")
    BY <1>3, <1>5 DEF Write, Took
  <2>2. /\ invoices'[i] = [row EXCEPT !.status = "refunded"]
        /\ \A j \in InvoiceId : j # i => invoices'[j] = invoices[j]
        /\ amount' = amount
    BY <1>2, <2>1, Updated
  <2>3. [invoices'[i] EXCEPT !.status = "paid"] = row
    BY <1>2, <2>2, StatusBack
  <2>4. Still(r)
    BY <1>1, <1>2, <1>4, <1>5, <2>2, <2>3 DEF Still, Billed, Carried
  <2> QED
    BY <1>1, <2>4, StillRests
<1>6. CASE o # "ok" /\ UNCHANGED tables
  <2>1. Still(r)
    BY <1>1, <1>2, <1>4, <1>6 DEF Still, Billed, Carried, tables
  <2> QED
    BY <1>1, <2>1, StillRests
<1>7. CASE o # "ok" /\ UpdateStatus(i, "refunded")
  <2>1. faultsLeft' < faultsLeft
    BY <1>2, <1>3, <1>7, Lost DEF Write
  <2>2. invoices'[i].status # invoices[i].status
    BY <1>2, <1>7, Updated
  <2> QED
    BY <2>1, <2>2 DEF Disaster, tables
<1> QED
  BY <1>3, <1>5, <1>6, <1>7 DEF Write

LEMMA RefundCreditAtomic ==
  ASSUME IInv, Serial, NEW r \in Request, RefundCredit(r)
  PROVE  Atomic!AtomicNext \/ Disaster \/ UNCHANGED Atomic!atomicVars
<1> DEFINE i == call[r].invoice
           row == invoices[i]
<1>1. Serve(r) /\ pc[r] = "refundCredit" /\ pc[r] \in Found /\ pc[r] \in Unposted
  BY DEF RefundCredit, Serve, Found, Unposted
<1>2. /\ TypeOK /\ i \in InvoiceId /\ row \in Invoice /\ row.user \in User
      /\ row.amount \in Int /\ row.amount > 0 /\ row.status = "refunded"
      /\ amount \in [User -> Nat] /\ call' = call
  BY <1>1, InHand DEF ReadStatus
<1>3. RefundOf(r) \notin ledger /\ RefundOf(r).user = row.user /\ RefundOf(r).delta = row.amount
  BY <1>1, InSaga DEF RefundOf, Accounted, Posted, InvoiceOf
<1>4. PICK o \in Outcome :
        /\ Write(o, CreditWallet(RefundOf(r)))
        /\ IF o = "ok" THEN Answer(r, 200) ELSE Goto(r, "refundCompensate")
  BY DEF RefundCredit
<1>5. CASE o = "ok"
  <2>1. /\ amount' = [amount EXCEPT ![row.user] = @ + row.amount]
        /\ invoices' = invoices /\ pc'[r] = "answered"
    BY <1>3, <1>4, <1>5 DEF Write, Took, CreditWallet, Answer, IInv, TypeOK
  <2>2. TheBills[i] = [row EXCEPT !.status = "paid"] /\ TheBills'[i] = row
        /\ \A j \in InvoiceId : j # i => TheBills'[j] = TheBills[j]
    BY <1>1, <1>2, <2>1, Scene DEF TheBills, Billed
  <2>3. [[row EXCEPT !.status = "paid"] EXCEPT !.status = "refunded"] = row
    BY <1>2, StatusBack
  <2>4. /\ TheBills[i].status = "paid" /\ TheBills[i].user = row.user
        /\ TheBills[i].amount = row.amount /\ TheBills[i] # NoRow
    <3>1. [row EXCEPT !.status = "paid"] \in Invoice
      BY <1>2 DEF Invoice, Status
    <3> QED
      BY <1>2, <2>2, <3>1, BillingAssumption DEF Invoice
  <2>5. TheBills' = [TheBills EXCEPT ![i].status = "refunded"]
    BY <1>2, <2>2, <2>3 DEF TheBills
  <2>6. TheFunds' = [TheFunds EXCEPT ![row.user] = @ + row.amount]
    BY <1>1, <1>2, <2>1, Scene DEF TheFunds, Carried
  <2>7. PICK j \in InvoiceId : j = i
    BY <1>2
  <2> HIDE DEF row, i
  <2>8. Atomic!Refund(j)
    BY <1>2, <2>4, <2>5, <2>6, <2>7 DEF Atomic!Refund, TheBills, TheFunds
  <2> QED
    BY <2>8 DEF Atomic!AtomicNext
<1>6. CASE o # "ok" /\ UNCHANGED tables
  <2>1. pc'[r] = "refundCompensate"
    BY <1>4, <1>6 DEF Goto, IInv, TypeOK
  <2>2. Still(r)
    BY <1>1, <1>2, <1>6, <2>1 DEF Still, Billed, Carried, tables
  <2> QED
    BY <1>1, <2>2, StillRests
<1>7. CASE o # "ok" /\ CreditWallet(RefundOf(r))
  <2>1. faultsLeft' < faultsLeft
    BY <1>2, <1>4, <1>7, Lost DEF Write
  <2>2. ledger' # ledger
    BY <1>3, <1>7 DEF CreditWallet
  <2> QED
    BY <2>1, <2>2 DEF Disaster, tables
<1> QED
  BY <1>4, <1>5, <1>6, <1>7 DEF Write

LEMMA DepositAtomic ==
  ASSUME IInv, Serial, NEW r \in Request, DepositInitialize(r) \/ DepositCredit(r)
  PROVE  Atomic!AtomicNext \/ UNCHANGED Atomic!atomicVars
<1> DEFINE u == call[r].user
           n == call[r].amount
<1>1. /\ Serve(r) /\ pc[r] \in {"depositInitialize", "depositCredit"} /\ pc[r] \in DepositPc
      /\ pc'[r] \in {"answered", "depositCredit", "depositGet"}
  BY DEF DepositInitialize, DepositCredit, Serve, DepositPc, GotoOr, Goto, Answer,
         IInv, TypeOK
<1>2. /\ call[r] \in Call /\ call[r].op = "deposit" /\ u \in User
      /\ amount \in [User -> Nat] /\ call' = call
      /\ pc[r] = "depositCredit" => n > 0
  BY <1>1, InDeposit, Scene DEF TypeOK, Fits
<1>3. n \in Amount /\ n \in Int
  BY <1>2, DepositFields
<1>4. /\ \A j : Billed(r, j) = invoices[j] /\ Billed(r, j)' = invoices'[j]
      /\ \A v : Carried(r, v) = 0 /\ Carried(r, v)' = 0
  BY <1>1 DEF Billed, Carried
<1>5. CASE UNCHANGED <<invoices, amount>>
  <2>1. Still(r)
    BY <1>4, <1>5 DEF Still
  <2> QED
    BY <1>1, <2>1, StillRests
<1>6. CASE pc[r] = "depositCredit" /\ CreditWallet(DepositOf(r))
  <2>1. amount' = [amount EXCEPT ![u] = @ + n] /\ invoices' = invoices
    BY <1>6 DEF CreditWallet, DepositOf
  <2>2. TheBills' = TheBills
    BY <1>1, <1>4, <2>1, Scene DEF TheBills
  <2>3. TheFunds' = [TheFunds EXCEPT ![u] = @ + n]
    BY <1>1, <1>2, <1>3, <1>4, <2>1, Scene DEF TheFunds
  <2>4. n > 0
    BY <1>2, <1>6
  <2>5. PICK v \in User, k \in Amount : v = u /\ k = n
    BY <1>2, <1>3
  <2> HIDE DEF u, n
  <2>6. Atomic!Deposit(v, k)
    BY <1>3, <2>2, <2>3, <2>4, <2>5 DEF Atomic!Deposit, TheBills, TheFunds
  <2> QED
    BY <2>6 DEF Atomic!AtomicNext
<1> QED
  BY <1>5, <1>6 DEF DepositInitialize, DepositCredit, Write, InitializeWallet, tables

LEMMA ServeAtomic ==
  ASSUME IInv, Serial, NEW r \in Request, Serve(r)
  PROVE  Atomic!AtomicNext \/ Disaster \/ UNCHANGED Atomic!atomicVars
BY CreateAtomic, ReadAtomic, PayDebitAtomic, PayUpdateAtomic, CompensateAtomic,
   RefundUpdateAtomic, RefundCreditAtomic, DepositAtomic DEF Serve

LEMMA ServeSerial ==
  ASSUME IInv, Serial, NEW r \in Request, Serve(r)
  PROVE  Serial'
<1>1. /\ call' = call /\ Alone(r)' /\ pc[r] \in Serving
      /\ \A q \in Request : q # r => pc'[q] = pc[q] /\ pc[q] \notin Serving
  BY Scene DEF Alone
<1>2. \A q \in Request : q # r => ReadStatus(q)'
  BY <1>1 DEF ReadStatus, Serving
<1>3. \A q \in InService' : Alone(q)'
  BY <1>1 DEF Alone, InService
<1>4. /\ pc \in [Request -> {"idle", "answered", "lost"} \union Serving]
      /\ TypeOK /\ ReadStatus(r)
  BY DEF IInv, TypeOK, Serial
<1>5. CASE PayFind(r) \/ RefundFind(r)
  <2>1. PICK wanted, next :
           /\ Find(r, wanted, next)
           /\ <<wanted, next>> \in {<<"pending", "payDebit">>, <<"paid", "refundUpdate">>}
    BY <1>5 DEF PayFind, RefundFind
  <2>2. \/ pc'[r] = "answered"
        \/ pc'[r] = next /\ InvoiceOf(r).status = wanted
    BY <1>4, <2>1 DEF Find, Goto, Answer
  <2>3. InvoiceOf(r)' = InvoiceOf(r)
    BY <1>1, <2>1 DEF Find, Read, tables, InvoiceOf
  <2>4. ReadStatus(r)'
    BY <2>1, <2>2, <2>3 DEF ReadStatus
  <2> QED
    BY <1>2, <1>3, <2>4 DEF Serial
<1>6. CASE PayDebit(r)
  <2>1. /\ pc[r] = "payDebit" /\ InvoiceOf(r)' = InvoiceOf(r)
        /\ pc'[r] \in {"payUpdate", "answered"}
    BY <1>1, <1>4, <1>6 DEF PayDebit, Write, Read, DebitWallet, tables, GotoOr, Goto, Answer,
       InvoiceOf
  <2>2. ReadStatus(r)'
    BY <1>4, <2>1 DEF ReadStatus
  <2> QED
    BY <1>2, <1>3, <2>2 DEF Serial
<1>7. CASE RefundUpdate(r)
  <2>1. /\ pc[r] = "refundUpdate" /\ pc[r] \in Found
        /\ \/ pc'[r] = "answered"
           \/ /\ pc'[r] = "refundCredit"
              /\ UpdateStatus(call[r].invoice, "refunded")
    BY <1>4, <1>7 DEF RefundUpdate, Found, Write, Took, GotoOr, Goto, Answer
  <2>2. call[r].invoice \in InvoiceId /\ invoices[call[r].invoice] \in Invoice
    BY <1>7, <2>1, InHand DEF Serve
  <2>3. pc'[r] = "refundCredit" => InvoiceOf(r)'.status = "refunded"
    BY <1>1, <1>4, <2>1, <2>2, Updated DEF InvoiceOf
  <2>4. ReadStatus(r)'
    BY <2>1, <2>3 DEF ReadStatus
  <2> QED
    BY <1>2, <1>3, <2>4 DEF Serial
<1>8. CASE RefundCredit(r)
  <2>1. /\ pc[r] = "refundCredit" /\ InvoiceOf(r)' = InvoiceOf(r)
        /\ pc'[r] \in {"refundCompensate", "answered"}
    BY <1>1, <1>4, <1>8 DEF RefundCredit, Write, CreditWallet, tables, Goto, Answer, InvoiceOf
  <2>2. ReadStatus(r)'
    BY <1>4, <2>1 DEF ReadStatus
  <2> QED
    BY <1>2, <1>3, <2>2 DEF Serial
<1>9. CASE \/ CreateInvoice(r) \/ PayUpdate(r) \/ PayCompensate(r) \/ RefundCompensate(r)
           \/ DepositInitialize(r) \/ DepositCredit(r) \/ DepositGet(r)
  <2>1. pc'[r] \in {"payCompensate", "depositCredit", "depositGet", "answered"}
    BY <1>4, <1>9 DEF CreateInvoice, PayUpdate, PayCompensate, RefundCompensate,
       DepositInitialize, DepositCredit, DepositGet, GotoOr, Goto, Answer
  <2>2. ReadStatus(r)'
    BY <2>1 DEF ReadStatus
  <2> QED
    BY <1>2, <1>3, <2>2 DEF Serial
<1> QED
  BY <1>5, <1>6, <1>7, <1>8, <1>9 DEF Serve

(* A request is received by the one thread when no other is in service.    *)
Midway == {"payDebit", "payUpdate", "payCompensate",
           "refundUpdate", "refundCredit", "refundCompensate"}

LEMMA ReceiveAlone ==
  ASSUME Threads = 1, IInv, Serial, NEW r \in Request, NEW c \in Call, Receive(r, c)
  PROVE  \A q \in Request : pc[q] \notin Serving /\ pc'[q] \notin Midway
                            /\ (q # r => pc'[q] = pc[q])
<1>1. /\ pc[r] = "idle" /\ pc' = [pc EXCEPT ![r] = Entry(c.op)]
      /\ Cardinality(InService) < 1
      /\ pc \in [Request -> {"idle", "answered", "lost"} \union Serving]
  BY DEF Receive, IInv, TypeOK
<1>2. InService = {}
  <2> SUFFICES ASSUME NEW q \in InService PROVE FALSE
    OBVIOUS
  <2>1. InService = {q}
    BY DEF Serial, Alone, InService
  <2>2. Cardinality({q}) = 1
    BY FS_Singleton
  <2> QED
    BY <1>1, <2>1, <2>2
<1>3. Entry(c.op) \in {"insert", "payFind", "refundFind", "depositInitialize"}
  BY DEF Entry, Call, Create, OnInvoice, Deposit
<1> QED
  BY <1>1, <1>2, <1>3 DEF InService, Serving, Midway

LEMMA NoneShown ==
  ASSUME \A q \in Request : pc[q] \notin Midway /\ pc'[q] \notin Midway
  PROVE  /\ \A i \in InvoiceId : BillOf(i) = invoices[i] /\ BillOf(i)' = invoices'[i]
         /\ \A u \in User : InTransit(u) = 0 /\ InTransit(u)' = 0
<1>1. \A i \in InvoiceId : BillOf(i) = invoices[i] /\ BillOf(i)' = invoices'[i]
  BY DEF BillOf, Midway
<1>2. \A u \in User : Transit(pc, invoices, call, u) = 0
                      /\ Transit(pc', invoices', call', u) = 0
  BY TransitNone DEF Midway
<1> QED
  BY <1>1, <1>2, TransitShown

LEMMA SerialStep ==
  ASSUME Threads = 1, IInv, Serial, [Next]_vars
  PROVE  Serial'
<1>1. pc \in [Request -> {"idle", "answered", "lost"} \union Serving]
  BY DEF IInv, TypeOK
<1>2. ASSUME NEW r \in Request, NEW c \in Call, Receive(r, c) PROVE Serial'
  <2>1. \A q \in Request : pc'[q] \notin Midway /\ (q # r => pc'[q] \notin Serving)
    BY <1>2, ReceiveAlone
  <2> QED
    BY <2>1 DEF Serial, InService, Alone, ReadStatus, Midway
<1>3. CASE Crash
  <2>1. \A q \in Request : pc'[q] \notin Serving
    BY <1>1, <1>3 DEF Crash, InService, Serving
  <2> QED
    BY <2>1 DEF Serial, InService, ReadStatus, Serving
<1>4. CASE UNCHANGED vars
  BY <1>4 DEF vars, tables, Serial, InService, Alone, ReadStatus, InvoiceOf
<1> QED
  BY <1>2, <1>3, <1>4, ServeSerial DEF Next, Quiet

(* To requests served one after the other, a payment or a refund moves the *)
(* status of its invoice and the money of its user together or not at all, *)
(* in every step but a disaster, whatever fails.                           *)
THEOREM BillingImplementsAtomic ==
  ASSUME Threads = 1
  PROVE  Spec => ImplementsAtomicPayments
<1>1. Init => Serial /\ Atomic!AtomicInit
  <2> SUFFICES ASSUME Init PROVE Serial /\ Atomic!AtomicInit
    OBVIOUS
  <2>1. \A r \in Request : pc[r] = "idle"
    BY DEF Init
  <2>2. Serial
    BY <2>1 DEF Serial, InService, ReadStatus, Serving
  <2>3. \A i \in InvoiceId : BillOf(i) = NoRow
    BY <2>1 DEF Init, BillOf
  <2>4. \A u \in User : InTransit(u) = 0
    BY <2>1, TransitNone, TransitShown
  <2>5. \A u \in User : amount[u] + InTransit(u) = 0
    BY <2>4 DEF Init
  <2> QED
    BY <2>2, <2>3, <2>5 DEF Atomic!AtomicInit
<1>2. IInv /\ Serial /\ [Next]_vars => Serial'
  BY SerialStep
<1>3. IInv /\ Serial /\ [Next]_vars =>
        [Atomic!AtomicNext \/ Disaster]_(Atomic!atomicVars)
  <2> SUFFICES ASSUME IInv, Serial, [Next]_vars
               PROVE  Atomic!AtomicNext \/ Disaster \/ UNCHANGED Atomic!atomicVars
    OBVIOUS
  <2>1. ASSUME NEW r \in Request, NEW c \in Call, Receive(r, c)
        PROVE  UNCHANGED Atomic!atomicVars
    <3>1. /\ UNCHANGED <<invoices, amount>>
          /\ \A q \in Request : pc[q] \notin Serving /\ pc'[q] \notin Midway
      BY <2>1, ReceiveAlone DEF Receive, tables
    <3>2. /\ \A i \in InvoiceId : BillOf(i)' = BillOf(i)
          /\ \A u \in User : InTransit(u)' = InTransit(u)
      BY <3>1, NoneShown DEF Serving, Midway
    <3> QED
      BY <3>1, <3>2 DEF Atomic!atomicVars
  <2>2. CASE Crash
    <3>1. /\ faultsLeft' < faultsLeft
          /\ \E r \in Request : pc[r] # "lost" /\ pc'[r] = "lost"
      BY <2>2, BillingAssumption DEF Crash, InService, Serving, IInv, TypeOK
    <3> QED
      BY <3>1 DEF Disaster
  <2>3. CASE UNCHANGED vars
    <3>1. UNCHANGED <<invoices, amount, pc, call>>
      BY <2>3 DEF vars, tables
    <3>2. \A u \in User : InTransit(u)' = InTransit(u)
      BY <3>1, TransitShown
    <3>3. \A i \in InvoiceId : BillOf(i)' = BillOf(i)
      BY <3>1 DEF BillOf
    <3> QED
      BY <3>1, <3>2, <3>3 DEF Atomic!atomicVars
  <2> QED
    BY <2>1, <2>2, <2>3, ServeAtomic DEF Next, Quiet
<1> QED
  BY <1>1, <1>2, <1>3, InitIInv, IInvStep, PTL DEF Spec, ImplementsAtomicPayments

-----------------------------------------------------------------------------
(* With one worker thread, a fault costs at most one payment.              *)

(* The laws of sums come from the proofs about the repository.  They say   *)
(* nothing of its state, so what it keeps beside the tables is left empty. *)
Sums == INSTANCE BalanceStoreProofs
          WITH Session <- {}, Size <- {1}, Free <- NoRow,
               lock <- <<>>, job <- <<>>, draft <- <<>>

LEMMA SumsHold ==
  /\ "RUB" \in Currency /\ NoRow \notin Currency
  /\ {1} \subseteq Nat \ {0} /\ NoRow \notin {}
BY BillingAssumption

LEMMA FiniteThere ==
  ASSUME NEW S, IsFiniteSet(S)
  PROVE  Sums!IsFiniteSet(S)
BY DEF IsFiniteSet, Sums!IsFiniteSet

(* What a saga in service still has to do is one payment the ledger and    *)
(* the status of its invoice disagree about; Gap leaves it out.            *)
Owing == {"payUpdate", "payCompensate", "refundCredit", "refundCompensate"}
Due(l) == IF l \in Owing THEN 1 ELSE 0
Charged(i) == Cardinality(ChargesFor(i))
Refunded(i) == Cardinality(RefundsFor(i))
Paid(i) == IF invoices[i] # NoRow /\ invoices[i].status = "paid" THEN 1 ELSE 0
Owed(i) == IF \E r \in Request : pc[r] \in Owing /\ call[r].invoice = i THEN 1 ELSE 0
Gap(i) == Charged(i) - Refunded(i) - Paid(i) - Owed(i)

(* The invariant: the gaps together are no more than the faults so far.    *)
Gaps == [i \in InvoiceId |-> Abs(Gap(i))]
Within ==
  /\ IsFiniteSet(ledger)
  /\ Sums!Total(Gaps, InvoiceId) <= MaxFaults - faultsLeft

LEMMA GapIsInt ==
  ASSUME IsFiniteSet(ledger), NEW i
  PROVE  /\ Charged(i) \in Nat /\ Refunded(i) \in Nat /\ Paid(i) \in 0..1 /\ Owed(i) \in 0..1
         /\ Gap(i) \in Int /\ Abs(Gap(i)) \in Nat
<1>1. IsFiniteSet(ChargesFor(i)) /\ IsFiniteSet(RefundsFor(i))
  BY FS_Subset DEF ChargesFor, RefundsFor
<1>2. Charged(i) \in Nat /\ Refunded(i) \in Nat
  BY <1>1, FS_CardinalityType DEF Charged, Refunded
<1>3. Paid(i) \in 0..1 /\ Owed(i) \in 0..1
  BY DEF Paid, Owed
<1>4. Gap(i) \in Int
  BY <1>2, <1>3 DEF Gap
<1> QED
  BY <1>2, <1>3, <1>4 DEF Abs

LEMMA GapIsIntNext ==
  ASSUME IsFiniteSet(ledger'), NEW i
  PROVE  /\ Charged(i)' \in Nat /\ Refunded(i)' \in Nat
         /\ Paid(i)' \in 0..1 /\ Owed(i)' \in 0..1
         /\ Gap(i)' \in Int /\ Abs(Gap(i)') \in Nat
<1>1. IsFiniteSet(ChargesFor(i)') /\ IsFiniteSet(RefundsFor(i)')
  BY FS_Subset DEF ChargesFor, RefundsFor
<1>2. Charged(i)' \in Nat /\ Refunded(i)' \in Nat
  BY <1>1, FS_CardinalityType DEF Charged, Refunded
<1>3. Paid(i)' \in 0..1 /\ Owed(i)' \in 0..1
  BY DEF Paid, Owed
<1>4. Gap(i)' \in Int
  BY <1>2, <1>3 DEF Gap
<1> QED
  BY <1>2, <1>3, <1>4 DEF Abs

(* A step that changes no gap, and one that changes one gap by one and     *)
(* spends a fault on it.                                                   *)
LEMMA WithinStill ==
  ASSUME IsFiniteSet(InvoiceId), TypeOK, Within, IsFiniteSet(ledger'),
         faultsLeft' \in Int, faultsLeft' <= faultsLeft,
         \A j \in InvoiceId : Gap(j)' = Gap(j)
  PROVE  Within'
<1> DEFINE f == Gaps
           g == Gaps'
<1>1. \A j \in InvoiceId : f[j] = Abs(Gap(j)) /\ g[j] = Abs(Gap(j)')
  BY DEF Gaps, Abs
<1>2. \A j \in InvoiceId : f[j] = g[j]
  BY <1>1
<1>3. \A j \in InvoiceId : f[j] \in Int
  BY <1>1, GapIsInt DEF Within
<1>4. faultsLeft \in Int /\ MaxFaults \in Int /\ Sums!Total(f, InvoiceId) <= MaxFaults - faultsLeft
  BY BillingAssumption DEF TypeOK, Within
<1> HIDE DEF f, g
<1>5. Sums!Total(f, InvoiceId) = Sums!Total(g, InvoiceId) /\ Sums!Total(f, InvoiceId) \in Int
  BY <1>2, <1>3, SumsHold, FiniteThere, Sums!TotalSame, Sums!TotalInt
<1>6. Sums!Total(g, InvoiceId) <= MaxFaults - faultsLeft'
  BY <1>4, <1>5
<1> QED
  BY <1>6 DEF Within, g

LEMMA WithinFault ==
  ASSUME IsFiniteSet(InvoiceId), TypeOK, Within, IsFiniteSet(ledger'),
         faultsLeft' = faultsLeft - 1, NEW i \in InvoiceId,
         \A j \in InvoiceId : j # i => Gap(j)' = Gap(j),
         Gap(i)' - Gap(i) \in {-1, 0, 1}
  PROVE  Within'
<1> DEFINE f == Gaps
           g == Gaps'
<1>1. \A j \in InvoiceId : f[j] = Abs(Gap(j)) /\ g[j] = Abs(Gap(j)')
  BY DEF Gaps, Abs
<1>2. \A j \in InvoiceId : j # i => f[j] = g[j]
  BY <1>1
<1>3. \A j \in InvoiceId : f[j] \in Int /\ g[j] \in Int
  BY <1>1, GapIsInt, GapIsIntNext DEF Within
<1>4. faultsLeft \in Int /\ MaxFaults \in Int /\ Sums!Total(f, InvoiceId) <= MaxFaults - faultsLeft
  BY BillingAssumption DEF TypeOK, Within
<1>5. g[i] <= f[i] + 1
  <2>1. Gap(i) \in Int /\ Gap(i)' \in Int
    BY GapIsInt, GapIsIntNext DEF Within
  <2>2. \A x, y \in Int : y - x \in {-1, 0, 1} => Abs(y) <= Abs(x) + 1
    BY DEF Abs
  <2> QED
    BY <1>1, <2>1, <2>2
<1> HIDE DEF f, g
<1>6. Sums!Total(g, InvoiceId) = Sums!Total(f, InvoiceId) - f[i] + g[i] /\ Sums!Total(f, InvoiceId) \in Int
  BY <1>2, <1>3, SumsHold, FiniteThere, Sums!TotalChanged, Sums!TotalInt
<1>7. Sums!Total(g, InvoiceId) <= MaxFaults - faultsLeft'
  BY <1>3, <1>4, <1>5, <1>6
<1> QED
  BY <1>7 DEF Within, g

-----------------------------------------------------------------------------
(* What the calls of the repositories do to the counts.                    *)
LEMMA RowCounts ==
  ASSUME IsFiniteSet(ledger), NEW m, m \notin ledger, ledger' = ledger \union {m}
  PROVE  /\ IsFiniteSet(ledger')
         /\ \A j : Charged(j)' = Charged(j) + (IF m.kind = "charge" /\ m.ref = j THEN 1 ELSE 0)
         /\ \A j : Refunded(j)' = Refunded(j) + (IF m.kind = "refund" /\ m.ref = j THEN 1 ELSE 0)
<1>1. IsFiniteSet(ledger')
  BY FS_AddElement
<1>2. ASSUME NEW j
      PROVE  Charged(j)' = Charged(j) + (IF m.kind = "charge" /\ m.ref = j THEN 1 ELSE 0)
  <2>1. IsFiniteSet(ChargesFor(j)) /\ m \notin ChargesFor(j)
    BY FS_Subset DEF ChargesFor
  <2>2. Charged(j) \in Nat
    BY GapIsInt
  <2>3. CASE m.kind = "charge" /\ m.ref = j
    <3>1. ChargesFor(j)' = ChargesFor(j) \union {m}
      BY <2>3 DEF ChargesFor
    <3> QED
      BY <2>1, <2>3, <3>1, FS_AddElement DEF Charged
  <2>4. CASE ~ (m.kind = "charge" /\ m.ref = j)
    <3>1. ChargesFor(j)' = ChargesFor(j)
      BY <2>4 DEF ChargesFor
    <3> QED
      BY <2>2, <2>4, <3>1 DEF Charged
  <2> QED
    BY <2>3, <2>4
<1>3. ASSUME NEW j
      PROVE  Refunded(j)' = Refunded(j) + (IF m.kind = "refund" /\ m.ref = j THEN 1 ELSE 0)
  <2>1. IsFiniteSet(RefundsFor(j)) /\ m \notin RefundsFor(j)
    BY FS_Subset DEF RefundsFor
  <2>2. Refunded(j) \in Nat
    BY GapIsInt
  <2>3. CASE m.kind = "refund" /\ m.ref = j
    <3>1. RefundsFor(j)' = RefundsFor(j) \union {m}
      BY <2>3 DEF RefundsFor
    <3> QED
      BY <2>1, <2>3, <3>1, FS_AddElement DEF Refunded
  <2>4. CASE ~ (m.kind = "refund" /\ m.ref = j)
    <3>1. RefundsFor(j)' = RefundsFor(j)
      BY <2>4 DEF RefundsFor
    <3> QED
      BY <2>2, <2>4, <3>1 DEF Refunded
  <2> QED
    BY <2>3, <2>4
<1> QED
  BY <1>1, <1>2, <1>3

(* A saga step that adds c charges and f refunds of invoice i, and leaves  *)
(* p of its payments.                                                      *)
Effects(i, c, f, p) ==
  /\ IsFiniteSet(ledger')
  /\ Charged(i)' = Charged(i) + c /\ Refunded(i)' = Refunded(i) + f /\ Paid(i)' = p
  /\ \A j \in InvoiceId : j # i =>
       Charged(j)' = Charged(j) /\ Refunded(j)' = Refunded(j) /\ Paid(j)' = Paid(j)

LEMMA NoEffects ==
  ASSUME IsFiniteSet(ledger), NEW i, NEW p, p = Paid(i), UNCHANGED tables
  PROVE  Effects(i, 0, 0, p)
<1>1. \A j : Charged(j)' = Charged(j) /\ Refunded(j)' = Refunded(j) /\ Paid(j)' = Paid(j)
  BY DEF tables, Charged, Refunded, ChargesFor, RefundsFor, Paid
<1>2. Charged(i) \in Nat /\ Refunded(i) \in Nat
  BY GapIsInt
<1> QED
  BY <1>1, <1>2 DEF Effects, tables

LEMMA DebitEffects ==
  ASSUME IsFiniteSet(ledger), NEW r, NEW i, i = call[r].invoice, NEW p, p = Paid(i),
         ChargeOf(r) \notin ledger, DebitWallet(ChargeOf(r))
  PROVE  Effects(i, 1, 0, p)
<1> DEFINE m == ChargeOf(r)
<1>1. m.kind = "charge" /\ m.ref = i
  BY DEF ChargeOf
<1>2. ledger' = ledger \union {m} /\ invoices' = invoices /\ m \notin ledger
  BY DEF DebitWallet
<1>3. \A j : Paid(j)' = Paid(j)
  BY <1>2 DEF Paid
<1>4. PICK n : n = m
  OBVIOUS
<1> HIDE DEF m
<1>5. \A j : Charged(j) \in Nat /\ Refunded(j) \in Nat
  BY GapIsInt
<1>6. /\ IsFiniteSet(ledger')
      /\ \A j : Charged(j)' = Charged(j) + (IF n.kind = "charge" /\ n.ref = j THEN 1 ELSE 0)
      /\ \A j : Refunded(j)' = Refunded(j) + (IF n.kind = "refund" /\ n.ref = j THEN 1 ELSE 0)
  BY <1>2, <1>4, RowCounts
<1> QED
  BY <1>1, <1>3, <1>4, <1>5, <1>6 DEF Effects

LEMMA CreditEffects ==
  ASSUME IsFiniteSet(ledger), NEW r, NEW i, i = call[r].invoice, NEW p, p = Paid(i),
         RefundOf(r) \notin ledger, CreditWallet(RefundOf(r))
  PROVE  Effects(i, 0, 1, p)
<1> DEFINE m == RefundOf(r)
<1>1. m.kind = "refund" /\ m.ref = i
  BY DEF RefundOf
<1>2. ledger' = ledger \union {m} /\ invoices' = invoices /\ m \notin ledger
  BY DEF CreditWallet
<1>3. \A j : Paid(j)' = Paid(j)
  BY <1>2 DEF Paid
<1>4. PICK n : n = m
  OBVIOUS
<1> HIDE DEF m
<1>5. \A j : Charged(j) \in Nat /\ Refunded(j) \in Nat
  BY GapIsInt
<1>6. /\ IsFiniteSet(ledger')
      /\ \A j : Charged(j)' = Charged(j) + (IF n.kind = "charge" /\ n.ref = j THEN 1 ELSE 0)
      /\ \A j : Refunded(j)' = Refunded(j) + (IF n.kind = "refund" /\ n.ref = j THEN 1 ELSE 0)
  BY <1>2, <1>4, RowCounts
<1> QED
  BY <1>1, <1>3, <1>4, <1>5, <1>6 DEF Effects

LEMMA StatusEffects ==
  ASSUME TypeOK, IsFiniteSet(ledger), NEW i \in InvoiceId, invoices[i] \in Invoice,
         NEW s \in Settled, UpdateStatus(i, s)
  PROVE  Effects(i, 0, 0, IF s = "paid" THEN 1 ELSE 0)
<1>1. ledger' = ledger
  BY DEF UpdateStatus
<1>2. \A j : Charged(j)' = Charged(j) /\ Refunded(j)' = Refunded(j)
  BY <1>1 DEF Charged, Refunded, ChargesFor, RefundsFor
<1>3. /\ invoices' = [invoices EXCEPT ![i].status = s]
      /\ invoices'[i].status = s
      /\ \A j \in InvoiceId : j # i => invoices'[j] = invoices[j]
  BY Updated DEF UpdateStatus
<1>4. invoices'[i] # NoRow
  <2>1. invoices'[i] = [invoices[i] EXCEPT !.status = s]
    BY Updated
  <2>2. [invoices[i] EXCEPT !.status = s] \in Invoice
    BY DEF Invoice, Status, Settled
  <2> QED
    BY <2>1, <2>2, BillingAssumption
<1>5. Paid(i)' = IF s = "paid" THEN 1 ELSE 0
  BY <1>3, <1>4 DEF Paid
<1>6. \A j \in InvoiceId : j # i => Paid(j)' = Paid(j)
  BY <1>3 DEF Paid
<1>7. Charged(i) \in Nat /\ Refunded(i) \in Nat
  BY GapIsInt
<1> QED
  BY <1>1, <1>2, <1>5, <1>6, <1>7 DEF Effects

-----------------------------------------------------------------------------
(* What a saga step leaves undone moves into, or out of, what is due.      *)
LEMMA SagaWithin ==
  ASSUME IsFiniteSet(InvoiceId), IInv, Serial, Within, NEW r \in Request, Serve(r),
         pc[r] \in Found, NEW o \in Outcome, Spend(o),
         NEW c \in 0..1, NEW f \in 0..1, NEW p \in 0..1,
         NEW i \in InvoiceId, i = call[r].invoice, Effects(i, c, f, p),
         LET shift == c - f - (p - Paid(i)) - (Due(pc'[r]) - Due(pc[r])) IN
         shift = 0 \/ (o # "ok" /\ shift \in {-1, 1})
  PROVE  Within'
<1> DEFINE shift == c - f - (p - Paid(i)) - (Due(pc'[r]) - Due(pc[r]))
<1>1. /\ call' = call /\ TypeOK
      /\ \A q \in Request : q # r => pc[q] \notin Serving /\ pc'[q] \notin Serving
  BY InHand, Scene DEF Alone
<1>2. \A j : /\ Owed(j) = IF i = j THEN Due(pc[r]) ELSE 0
             /\ Owed(j)' = IF i = j THEN Due(pc'[r]) ELSE 0
  <2>1. \A q \in Request : q # r => pc[q] \notin Owing /\ pc'[q] \notin Owing
    BY <1>1 DEF Owing, Serving
  <2> QED
    BY <1>1, <2>1 DEF Owed, Due
<1>3. /\ Charged(i)' = Charged(i) + c /\ Refunded(i)' = Refunded(i) + f /\ Paid(i)' = p
      /\ \A j \in InvoiceId : j # i =>
           Charged(j)' = Charged(j) /\ Refunded(j)' = Refunded(j) /\ Paid(j)' = Paid(j)
      /\ IsFiniteSet(ledger')
  BY DEF Effects
<1>4. shift = 0 \/ (o # "ok" /\ shift \in {-1, 1})
  OBVIOUS
<1>5. /\ Charged(i) \in Nat /\ Refunded(i) \in Nat /\ Paid(i) \in 0..1
      /\ Due(pc[r]) \in 0..1 /\ Due(pc'[r]) \in 0..1
  BY GapIsInt DEF Within, Due
<1>6. Gap(i)' - Gap(i) = shift
  BY <1>2, <1>3, <1>5 DEF Gap
<1>7. \A j \in InvoiceId : j # i => Gap(j)' = Gap(j)
  BY <1>2, <1>3 DEF Gap
<1>8. faultsLeft' = IF o = "ok" THEN faultsLeft ELSE faultsLeft - 1
  BY DEF Spend
<1>9. faultsLeft \in Int
  BY <1>1, BillingAssumption DEF TypeOK
<1>10. Gap(i) \in Int /\ Gap(i)' \in Int
  BY <1>3, GapIsInt, GapIsIntNext DEF Within
<1> HIDE DEF shift
<1>11. CASE o # "ok"
  <2>1. Gap(i)' - Gap(i) \in {-1, 0, 1}
    BY <1>4, <1>6
  <2> QED
    BY <1>1, <1>3, <1>7, <1>8, <1>11, <2>1, WithinFault
<1>12. CASE o = "ok"
  <2>1. Gap(i)' - Gap(i) = 0
    BY <1>4, <1>6, <1>12
  <2>2. Gap(i)' = Gap(i)
    BY <1>10, <2>1
  <2>3. \A j \in InvoiceId : Gap(j)' = Gap(j)
    BY <1>7, <2>2
  <2> QED
    BY <1>1, <1>3, <1>8, <1>9, <1>12, <2>3, WithinStill
<1> QED
  BY <1>11, <1>12

(* The steps of the two sagas.                                             *)
LEMMA PayDebitWithin ==
  ASSUME IsFiniteSet(InvoiceId), IInv, Serial, Within, NEW r \in Request, PayDebit(r)
  PROVE  Within'
<1>1. Serve(r) /\ pc[r] = "payDebit" /\ pc[r] \in Found /\ pc[r] \in Unposted
  BY DEF PayDebit, Serve, Found, Unposted
<1>2. PICK i \in InvoiceId, p \in 0..1 : i = call[r].invoice /\ p = Paid(i)
  BY <1>1, InHand, GapIsInt DEF Within
<1>3. ChargeOf(r) \notin ledger /\ IsFiniteSet(ledger)
  BY <1>1, InSaga DEF Accounted, Posted, ChargeOf, Within
<1>4. /\ \A code : Answer(r, code) => pc'[r] = "answered"
      /\ Goto(r, "payUpdate") => pc'[r] = "payUpdate"
  BY DEF Answer, Goto, IInv, TypeOK
<1>5. PICK o \in Outcome :
        \/ Write(o, DebitWallet(ChargeOf(r))) /\ GotoOr(r, o, "payUpdate", 500)
        \/ Read(o) /\ Answer(r, IF o = "ok" THEN 409 ELSE 500)
  BY DEF PayDebit
<1>6. Due("payDebit") = 0 /\ Due("payUpdate") = 1 /\ Due("answered") = 0
  BY DEF Due, Owing
<1>7. Spend(o)
  BY <1>5 DEF Write, Read
<1>8. CASE Took(o) /\ DebitWallet(ChargeOf(r)) /\ GotoOr(r, o, "payUpdate", 500)
  <2>1. Effects(i, 1, 0, p)
    BY <1>2, <1>3, <1>8, DebitEffects
  <2>2. IF o = "ok" THEN pc'[r] = "payUpdate" ELSE pc'[r] = "answered"
    BY <1>4, <1>8 DEF GotoOr
  <2> QED
    BY <1>1, <1>2, <1>3, <1>6, <1>7, <2>1, <2>2, SagaWithin
<1>9. CASE UNCHANGED tables /\ pc'[r] = "answered"
  <2>1. Effects(i, 0, 0, p)
    BY <1>2, <1>3, <1>9, NoEffects
  <2> QED
    BY <1>1, <1>2, <1>3, <1>6, <1>7, <1>9, <2>1, SagaWithin
<1> QED
  BY <1>4, <1>5, <1>8, <1>9 DEF Write, Read, GotoOr, Took

LEMMA PayUpdateWithin ==
  ASSUME IsFiniteSet(InvoiceId), IInv, Serial, Within, NEW r \in Request, PayUpdate(r)
  PROVE  Within'
<1>1. Serve(r) /\ pc[r] = "payUpdate" /\ pc[r] \in Found
  BY DEF PayUpdate, Serve, Found
<1>2. PICK i \in InvoiceId, p \in 0..1 : i = call[r].invoice /\ p = Paid(i)
  BY <1>1, InHand, GapIsInt DEF Within
<1>3. /\ TypeOK /\ i \in InvoiceId /\ invoices[i] \in Invoice /\ IsFiniteSet(ledger)
      /\ Paid(i) = 0
  BY <1>1, <1>2, InHand DEF ReadStatus, Within, Paid
<1>4. PICK o \in Outcome :
        /\ Write(o, UpdateStatus(call[r].invoice, "paid"))
        /\ IF o = "ok" THEN Answer(r, 200) ELSE Goto(r, "payCompensate")
  BY DEF PayUpdate
<1>5. pc'[r] = IF o = "ok" THEN "answered" ELSE "payCompensate"
  BY <1>4 DEF Answer, Goto, IInv, TypeOK
<1>6. Due("payUpdate") = 1 /\ Due("payCompensate") = 1 /\ Due("answered") = 0
  BY DEF Due, Owing
<1>7. Spend(o)
  BY <1>4 DEF Write
<1>8. CASE UpdateStatus(call[r].invoice, "paid")
  <2>1. Effects(i, 0, 0, 1)
    BY <1>2, <1>3, <1>8, StatusEffects DEF Settled
  <2> QED
    BY <1>1, <1>2, <1>3, <1>5, <1>6, <1>7, <2>1, SagaWithin
<1>9. CASE UNCHANGED tables /\ o # "ok"
  <2>1. Effects(i, 0, 0, p)
    BY <1>2, <1>3, <1>9, NoEffects
  <2> QED
    BY <1>1, <1>2, <1>3, <1>5, <1>6, <1>7, <1>9, <2>1, SagaWithin
<1> QED
  BY <1>4, <1>8, <1>9 DEF Write, Took

LEMMA PayCompensateWithin ==
  ASSUME IsFiniteSet(InvoiceId), IInv, Serial, Within, NEW r \in Request, PayCompensate(r)
  PROVE  Within'
<1>1. /\ Serve(r) /\ pc[r] = "payCompensate" /\ pc[r] \in Found /\ pc'[r] = "answered"
  BY DEF PayCompensate, Serve, Found, Answer, IInv, TypeOK
<1>2. PICK i \in InvoiceId, p \in 0..1 : i = call[r].invoice /\ p = Paid(i)
  BY <1>1, InHand, GapIsInt DEF Within
<1>3. RefundOf(r) \notin ledger /\ IsFiniteSet(ledger)
  <2>1. Posted(r) = {ChargeOf(r)}
    BY <1>1, InSaga DEF Accounted
  <2>2. RefundOf(r) \notin Posted(r) /\ RefundOf(r).by = r
    BY <2>1 DEF ChargeOf, RefundOf
  <2> QED
    BY <2>2 DEF Posted, Within
<1>4. PICK o \in Outcome : Write(o, CreditWallet(RefundOf(r)))
  BY DEF PayCompensate
<1>5. Due("payCompensate") = 1 /\ Due("answered") = 0
  BY DEF Due, Owing
<1>6. Spend(o)
  BY <1>4 DEF Write
<1>7. CASE CreditWallet(RefundOf(r))
  <2>1. Effects(i, 0, 1, p)
    BY <1>2, <1>3, <1>7, CreditEffects
  <2> QED
    BY <1>1, <1>2, <1>3, <1>5, <1>6, <2>1, SagaWithin
<1>8. CASE UNCHANGED tables /\ o # "ok"
  <2>1. Effects(i, 0, 0, p)
    BY <1>2, <1>3, <1>8, NoEffects
  <2> QED
    BY <1>1, <1>2, <1>3, <1>5, <1>6, <1>8, <2>1, SagaWithin
<1> QED
  BY <1>4, <1>7, <1>8 DEF Write, Took

LEMMA RefundUpdateWithin ==
  ASSUME IsFiniteSet(InvoiceId), IInv, Serial, Within, NEW r \in Request, RefundUpdate(r)
  PROVE  Within'
<1>1. Serve(r) /\ pc[r] = "refundUpdate" /\ pc[r] \in Found
  BY DEF RefundUpdate, Serve, Found
<1>2. PICK i \in InvoiceId, p \in 0..1 : i = call[r].invoice /\ p = Paid(i)
  BY <1>1, InHand, GapIsInt DEF Within
<1>3. /\ TypeOK /\ i \in InvoiceId /\ invoices[i] \in Invoice /\ IsFiniteSet(ledger)
      /\ invoices[i].status = "paid"
  BY <1>1, <1>2, InHand DEF ReadStatus, Within
<1>4. Paid(i) = 1
  BY <1>3, BillingAssumption DEF Paid
<1>5. PICK o \in Outcome :
        /\ Write(o, UpdateStatus(call[r].invoice, "refunded"))
        /\ GotoOr(r, o, "refundCredit", 500)
  BY DEF RefundUpdate
<1>6. pc'[r] = IF o = "ok" THEN "refundCredit" ELSE "answered"
  BY <1>5 DEF GotoOr, Goto, Answer, IInv, TypeOK
<1>7. Due("refundUpdate") = 0 /\ Due("refundCredit") = 1 /\ Due("answered") = 0
  BY DEF Due, Owing
<1>8. Spend(o)
  BY <1>5 DEF Write
<1>9. CASE UpdateStatus(call[r].invoice, "refunded")
  <2>1. Effects(i, 0, 0, 0)
    BY <1>2, <1>3, <1>9, StatusEffects DEF Settled
  <2> QED
    BY <1>1, <1>2, <1>4, <1>6, <1>7, <1>8, <2>1, SagaWithin
<1>10. CASE UNCHANGED tables /\ o # "ok"
  <2>1. Effects(i, 0, 0, p)
    BY <1>2, <1>3, <1>10, NoEffects
  <2> QED
    BY <1>1, <1>2, <1>4, <1>6, <1>7, <1>8, <1>10, <2>1, SagaWithin
<1> QED
  BY <1>5, <1>9, <1>10 DEF Write, Took

LEMMA RefundCreditWithin ==
  ASSUME IsFiniteSet(InvoiceId), IInv, Serial, Within, NEW r \in Request, RefundCredit(r)
  PROVE  Within'
<1>1. Serve(r) /\ pc[r] = "refundCredit" /\ pc[r] \in Found /\ pc[r] \in Unposted
  BY DEF RefundCredit, Serve, Found, Unposted
<1>2. PICK i \in InvoiceId, p \in 0..1 : i = call[r].invoice /\ p = Paid(i)
  BY <1>1, InHand, GapIsInt DEF Within
<1>3. RefundOf(r) \notin ledger /\ IsFiniteSet(ledger)
  BY <1>1, InSaga DEF Accounted, Posted, RefundOf, Within
<1>4. PICK o \in Outcome :
        /\ Write(o, CreditWallet(RefundOf(r)))
        /\ IF o = "ok" THEN Answer(r, 200) ELSE Goto(r, "refundCompensate")
  BY DEF RefundCredit
<1>5. pc'[r] = IF o = "ok" THEN "answered" ELSE "refundCompensate"
  BY <1>4 DEF Answer, Goto, IInv, TypeOK
<1>6. Due("refundCredit") = 1 /\ Due("refundCompensate") = 1 /\ Due("answered") = 0
  BY DEF Due, Owing
<1>7. Spend(o)
  BY <1>4 DEF Write
<1>8. CASE CreditWallet(RefundOf(r))
  <2>1. Effects(i, 0, 1, p)
    BY <1>2, <1>3, <1>8, CreditEffects
  <2> QED
    BY <1>1, <1>2, <1>3, <1>5, <1>6, <1>7, <2>1, SagaWithin
<1>9. CASE UNCHANGED tables /\ o # "ok"
  <2>1. Effects(i, 0, 0, p)
    BY <1>2, <1>3, <1>9, NoEffects
  <2> QED
    BY <1>1, <1>2, <1>3, <1>5, <1>6, <1>7, <1>9, <2>1, SagaWithin
<1> QED
  BY <1>4, <1>8, <1>9 DEF Write, Took

LEMMA RefundCompensateWithin ==
  ASSUME IsFiniteSet(InvoiceId), IInv, Serial, Within, NEW r \in Request, RefundCompensate(r)
  PROVE  Within'
<1>1. /\ Serve(r) /\ pc[r] = "refundCompensate" /\ pc[r] \in Found /\ pc'[r] = "answered"
  BY DEF RefundCompensate, Serve, Found, Answer, IInv, TypeOK
<1>2. PICK i \in InvoiceId, p \in 0..1 : i = call[r].invoice /\ p = Paid(i)
  BY <1>1, InHand, GapIsInt DEF Within
<1>3. /\ TypeOK /\ i \in InvoiceId /\ invoices[i] \in Invoice /\ IsFiniteSet(ledger)
      /\ Paid(i) = 0
  BY <1>1, <1>2, InHand DEF ReadStatus, Within, Paid
<1>4. PICK o \in Outcome : Write(o, UpdateStatus(call[r].invoice, "paid"))
  BY DEF RefundCompensate
<1>5. Due("refundCompensate") = 1 /\ Due("answered") = 0
  BY DEF Due, Owing
<1>6. Spend(o)
  BY <1>4 DEF Write
<1>7. CASE UpdateStatus(call[r].invoice, "paid")
  <2>1. Effects(i, 0, 0, 1)
    BY <1>2, <1>3, <1>7, StatusEffects DEF Settled
  <2> QED
    BY <1>1, <1>2, <1>3, <1>5, <1>6, <2>1, SagaWithin
<1>8. CASE UNCHANGED tables /\ o # "ok"
  <2>1. Effects(i, 0, 0, p)
    BY <1>2, <1>3, <1>8, NoEffects
  <2> QED
    BY <1>1, <1>2, <1>3, <1>5, <1>6, <1>8, <2>1, SagaWithin
<1> QED
  BY <1>4, <1>7, <1>8 DEF Write, Took

-----------------------------------------------------------------------------
(* The steps outside the sagas: none posts a charge or a refund, changes a *)
(* status that counts, or leaves something due.                            *)
LEMMA SameGaps ==
  ASSUME \A q \in Request : pc[q] \notin Owing /\ pc'[q] \notin Owing,
         \A j : Charged(j)' = Charged(j) /\ Refunded(j)' = Refunded(j),
         \A j \in InvoiceId : Paid(j)' = Paid(j)
  PROVE  \A j \in InvoiceId : Gap(j)' = Gap(j)
<1>1. \A j : Owed(j) = 0 /\ Owed(j)' = 0
  BY DEF Owed
<1> QED
  BY <1>1 DEF Gap

LEMMA SameCounts ==
  ASSUME ledger' = ledger
  PROVE  \A j : Charged(j)' = Charged(j) /\ Refunded(j)' = Refunded(j)
BY DEF Charged, Refunded, ChargesFor, RefundsFor

LEMMA Spent ==
  ASSUME TypeOK, NEW o \in Outcome, Spend(o)
  PROVE  faultsLeft' \in Int /\ faultsLeft' <= faultsLeft
BY BillingAssumption DEF TypeOK, Spend

LEMMA PlainWithin ==
  ASSUME IsFiniteSet(InvoiceId), IInv, Serial, Within, NEW r \in Request,
         \/ CreateInvoice(r) \/ PayFind(r) \/ RefundFind(r)
         \/ DepositInitialize(r) \/ DepositCredit(r) \/ DepositGet(r)
  PROVE  Within'
<1>1. TypeOK /\ IsFiniteSet(ledger) /\ faultsLeft \in Int
  BY BillingAssumption DEF IInv, TypeOK, Within
<1>2. Serve(r) /\ pc[r] \notin Owing
  BY DEF Serve, Owing, CreateInvoice, PayFind, RefundFind, DepositInitialize,
         DepositCredit, DepositGet
<1>3. pc'[r] \in {"answered", "payDebit", "refundUpdate", "depositCredit", "depositGet"}
  BY <1>1 DEF CreateInvoice, PayFind, RefundFind, DepositInitialize, DepositCredit,
         DepositGet, Find, GotoOr, Goto, Answer, TypeOK
<1>4. \A q \in Request : pc[q] \notin Owing /\ pc'[q] \notin Owing
  <2>1. \A q \in Request : q # r => pc[q] \notin Serving /\ pc'[q] \notin Serving
    BY <1>2, Scene DEF Alone
  <2> QED
    BY <1>2, <1>3, <2>1 DEF Owing, Serving
<1>5. faultsLeft' \in Int /\ faultsLeft' <= faultsLeft
  <2>1. \/ UNCHANGED faultsLeft
        \/ \E o \in Outcome : Spend(o)
    BY DEF CreateInvoice, PayFind, RefundFind, DepositInitialize, DepositCredit,
           DepositGet, Find, Write, Read
  <2> QED
    BY <1>1, <2>1, Spent
<1>6. CASE UNCHANGED <<ledger, invoices>>
  <2>1. \A j : Paid(j)' = Paid(j)
    BY <1>6 DEF Paid
  <2>2. \A j \in InvoiceId : Gap(j)' = Gap(j)
    BY <1>4, <1>6, <2>1, SameCounts, SameGaps
  <2> QED
    BY <1>1, <1>5, <1>6, <2>2, WithinStill
<1>7. ASSUME NEW row, CreateInvoice(r), row.status = "pending",
             InsertInvoice(call[r].invoice, row)
      PROVE  Within'
  <2>1. InvoiceOf(r) = NoRow
    BY <1>7 DEF IInv, FreshIds, CreateInvoice
  <2>2. ledger' = ledger /\ invoices' = [invoices EXCEPT ![call[r].invoice] = row]
    BY <1>7 DEF InsertInvoice
  <2>3. \A j \in InvoiceId : Paid(j)' = Paid(j)
    BY <1>1, <1>7, <2>1, <2>2 DEF Paid, InvoiceOf, TypeOK
  <2>4. \A j \in InvoiceId : Gap(j)' = Gap(j)
    BY <1>4, <2>2, <2>3, SameCounts, SameGaps
  <2> QED
    BY <1>1, <1>5, <2>2, <2>4, WithinStill
<1>8. CASE DepositCredit(r) /\ CreditWallet(DepositOf(r))
  <2>1. Posted(r) = {}
    BY <1>8 DEF IInv, Accounted, DepositCredit, Unposted
  <2>2. PICK m : m = DepositOf(r)
    OBVIOUS
  <2>3. /\ m.kind = "deposit" /\ m \notin ledger
        /\ ledger' = ledger \union {m} /\ invoices' = invoices
    BY <1>8, <2>1, <2>2 DEF DepositOf, Posted, CreditWallet
  <2>4. /\ IsFiniteSet(ledger')
        /\ \A j : Charged(j)' = Charged(j) + 0 /\ Refunded(j)' = Refunded(j) + 0
    BY <1>1, <2>3, RowCounts
  <2>5. \A j : Charged(j)' = Charged(j) /\ Refunded(j)' = Refunded(j)
    BY <1>1, <2>4, GapIsInt
  <2>6. \A j : Paid(j)' = Paid(j)
    BY <2>3 DEF Paid
  <2>7. \A j \in InvoiceId : Gap(j)' = Gap(j)
    BY <1>4, <2>5, <2>6, SameGaps
  <2> QED
    BY <1>1, <1>5, <2>4, <2>7, WithinStill
<1>9. CASE CreateInvoice(r)
  <2>1. PICK row :
          /\ row.status = "pending"
          /\ UNCHANGED tables \/ InsertInvoice(call[r].invoice, row)
    <3> DEFINE row == [user |-> call[r].user, amount |-> call[r].amount,
                       money |-> call[r].money, status |-> "pending"]
    <3>1. row.status = "pending" /\ (UNCHANGED tables \/ InsertInvoice(call[r].invoice, row))
      BY <1>9 DEF CreateInvoice, Write
    <3> QED
      BY <3>1
  <2> QED
    BY <1>6, <1>7, <1>9, <2>1 DEF tables
<1>10. CASE PayFind(r) \/ RefundFind(r) \/ DepositGet(r)
  BY <1>6, <1>10 DEF PayFind, RefundFind, DepositGet, Find, Read, tables
<1>11. CASE DepositInitialize(r)
  BY <1>6, <1>11 DEF DepositInitialize, Write, InitializeWallet, tables
<1>12. CASE DepositCredit(r)
  BY <1>6, <1>8, <1>12 DEF DepositCredit, Write, tables
<1> QED
  BY <1>9, <1>10, <1>11, <1>12

LEMMA ReceiveWithin ==
  ASSUME Threads = 1, IsFiniteSet(InvoiceId), IInv, Serial, Within,
         NEW r \in Request, NEW c \in Call, Receive(r, c)
  PROVE  Within'
<1>1. \A q \in Request : pc[q] \notin Owing /\ pc'[q] \notin Owing
  BY ReceiveAlone DEF Owing, Serving, Midway
<1>2. UNCHANGED <<ledger, invoices, faultsLeft>> /\ TypeOK /\ IsFiniteSet(ledger)
  BY DEF Receive, tables, IInv, Within
<1>3. \A j : Paid(j)' = Paid(j)
  BY <1>2 DEF Paid
<1>4. \A j \in InvoiceId : Gap(j)' = Gap(j)
  BY <1>1, <1>2, <1>3, SameCounts, SameGaps
<1>5. faultsLeft \in Int
  BY <1>2, BillingAssumption DEF TypeOK
<1> QED
  BY <1>2, <1>4, <1>5, WithinStill

(* A crash costs the payment of the saga in service, if there is one.      *)
LEMMA CrashWithin ==
  ASSUME IsFiniteSet(InvoiceId), IInv, Serial, Within, Crash
  PROVE  Within'
<1>1. /\ TypeOK /\ UNCHANGED <<ledger, invoices>> /\ IsFiniteSet(ledger)
      /\ faultsLeft' = faultsLeft - 1 /\ faultsLeft \in Int
  BY BillingAssumption DEF Crash, tables, IInv, TypeOK, Within
<1>2. PICK r \in Request : Alone(r)
  BY DEF Crash, Serial, InService
<1>3. \A q \in Request : q # r => pc[q] \notin Owing
  BY <1>2 DEF Alone, Owing, Serving
<1>4. \A q \in Request : pc'[q] \notin Owing
  BY <1>1 DEF Crash, InService, Owing, Serving, TypeOK
<1>5. \A j : /\ Charged(j)' = Charged(j) /\ Refunded(j)' = Refunded(j)
             /\ Paid(j)' = Paid(j) /\ Owed(j)' = 0
  BY <1>1, <1>4, SameCounts DEF Paid, Owed
<1>6. CASE pc[r] \notin Owing
  <2>1. \A j \in InvoiceId : Gap(j)' = Gap(j)
    BY <1>3, <1>4, <1>5, <1>6, SameGaps
  <2> QED
    BY <1>1, <2>1, WithinStill
<1>7. CASE pc[r] \in Owing
  <2>1. PICK i \in InvoiceId : i = call[r].invoice
    BY <1>7, InSaga DEF Owing, Found
  <2>2. \A j : Owed(j) = IF j = i THEN 1 ELSE 0
    BY <1>3, <1>7, <2>1 DEF Owed
  <2>3. \A j \in InvoiceId : j # i => Gap(j)' = Gap(j)
    BY <1>5, <2>2 DEF Gap
  <2>4. Gap(i)' - Gap(i) = 1
    BY <1>1, <1>5, <2>2, GapIsInt DEF Gap
  <2> QED
    BY <1>1, <2>3, <2>4, WithinFault
<1> QED
  BY <1>6, <1>7

LEMMA WithinStep ==
  ASSUME Threads = 1, IsFiniteSet(InvoiceId), IInv, Serial, Within, [Next]_vars
  PROVE  Within'
<1>1. ASSUME NEW r \in Request, Serve(r) PROVE Within'
  BY <1>1, PlainWithin, PayDebitWithin, PayUpdateWithin, PayCompensateWithin,
     RefundUpdateWithin, RefundCreditWithin, RefundCompensateWithin DEF Serve
<1>2. CASE UNCHANGED vars
  <2>1. /\ TypeOK /\ UNCHANGED <<ledger, invoices, faultsLeft, pc, call>>
        /\ IsFiniteSet(ledger) /\ faultsLeft \in Int
    BY <1>2, BillingAssumption DEF vars, tables, IInv, TypeOK, Within
  <2>2. \A j \in InvoiceId : Gap(j)' = Gap(j)
    BY <2>1, SameCounts DEF Gap, Paid, Owed
  <2> QED
    BY <2>1, <2>2, WithinStill
<1> QED
  BY <1>1, <1>2, ReceiveWithin, CrashWithin DEF Next, Quiet

LEMMA InitWithin ==
  ASSUME IsFiniteSet(InvoiceId), Init
  PROVE  Within
<1>1. /\ ledger = {} /\ faultsLeft = MaxFaults /\ MaxFaults \in Nat
      /\ \A i \in InvoiceId : invoices[i] = NoRow
      /\ \A r \in Request : pc[r] = "idle"
  BY BillingAssumption DEF Init
<1>2. ASSUME NEW i \in InvoiceId PROVE Gap(i) = 0
  <2>1. ChargesFor(i) = {} /\ RefundsFor(i) = {}
    BY <1>1 DEF ChargesFor, RefundsFor
  <2>2. Charged(i) = 0 /\ Refunded(i) = 0
    BY <2>1, FS_EmptySet DEF Charged, Refunded
  <2>3. Paid(i) = 0 /\ Owed(i) = 0
    BY <1>1 DEF Paid, Owed, Owing
  <2> QED
    BY <2>2, <2>3 DEF Gap
<1>3. \A i \in InvoiceId : Gaps[i] = 0
  BY <1>2 DEF Gaps, Abs
<1>4. Sums!Total(Gaps, InvoiceId) = 0
  BY <1>3, SumsHold, FiniteThere, Sums!TotalZero
<1> QED
  BY <1>1, <1>4, FS_EmptySet DEF Within

-----------------------------------------------------------------------------
(* The sum of the property is the total of the gaps when nothing is due.   *)
LEMMA DriftIsTotal ==
  ASSUME IsFiniteSet(InvoiceId), IsFiniteSet(ledger), InService = {}
  PROVE  MapThenSumSet(Drift, InvoiceId) = Sums!Total(Gaps, InvoiceId)
<1> DEFINE S == InvoiceId
           F(f) == [s \in SUBSET S |->
                      IF s = {} THEN 0
                      ELSE Drift(CHOOSE x \in s : TRUE)
                             + f[s \ {CHOOSE x \in s : TRUE}]]
           h == CHOOSE f : f = F(f)
<1>1. MapThenSumSet(Drift, InvoiceId) = h[S]
  BY DEF MapThenSumSet, MapThenFoldSet
<1>2. ASSUME NEW i \in InvoiceId PROVE Gaps[i] = Drift(i)
  <2>1. Owed(i) = 0
    BY DEF Owed, Owing, InService, Serving
  <2>2. Gap(i) = Charged(i) - Refunded(i) - Paid(i)
    BY <2>1, GapIsInt DEF Gap
  <2> QED
    BY <2>2 DEF Gaps, Drift, Charged, Refunded, Paid
<1>3. PICK k : Sums!Adds(k, Gaps, S)
  BY SumsHold, FiniteThere, Sums!AddsSome
<1>4. \A s \in SUBSET S : s # {} => Gaps[Sums!First(s)] = Drift(Sums!First(s))
  BY <1>2, SumsHold, Sums!FirstIn
<1> HIDE DEF S
<1>5. k = F(k)
  BY <1>3, <1>4 DEF Sums!Adds, Sums!First
<1>6. h = F(h)
  <2> HIDE DEF F
  <2> QED
    BY <1>5
<1>7. Sums!Adds(h, Gaps, S)
  <2> HIDE DEF h
  <2> QED
    BY <1>4, <1>6 DEF Sums!Adds, Sums!First
<1> HIDE DEF h
<1>8. Sums!Total(Gaps, S) = h[S]
  <2>1. IsFiniteSet(S) /\ S \in SUBSET S
    BY DEF S
  <2> QED
    BY <1>7, <2>1, SumsHold, FiniteThere, Sums!TotalIs
<1> QED
  BY <1>1, <1>8 DEF S

(* With one request at a time, the ledger and the statuses disagree about  *)
(* no more payments than faults happened, and without faults they agree:   *)
(* for any number of requests, invoices and faults of any kind (the sagas  *)
(* of pay_invoice and refund_invoice).                                     *)
THEOREM BillingDrift ==
  ASSUME Threads = 1, IsFiniteSet(InvoiceId)
  PROVE  Spec => []DriftBoundedByFaults
<1>1. Init => Within
  BY InitWithin
<1>2. IInv /\ Serial /\ Within /\ [Next]_vars => Serial' /\ Within'
  BY SerialStep, WithinStep
<1>3. Init => Serial
  BY DEF Init, Serial, InService, ReadStatus, Serving
<1>4. Within => DriftBoundedByFaults
  BY DriftIsTotal DEF Within, DriftBoundedByFaults
<1> QED
  BY <1>1, <1>2, <1>3, <1>4, InitIInv, IInvStep, PTL DEF Spec
=============================================================================
