--------------------------- MODULE AtomicPayments ---------------------------
(***************************************************************************)
(* Payments as the API of billing presents them (services/billing/docs/    *)
(* api.yaml): an invoice is issued pending, and paying or refunding it     *)
(* moves its status and the money of its user in one step.  Nothing else   *)
(* but a deposit changes what a user owns.                                 *)
(***************************************************************************)
EXTENDS Integers

CONSTANTS
  User,
  InvoiceId,
  NewBill,      \* invoices as they are issued: records with user, amount, status
  Sum,          \* the sums that can be deposited
  NoRow

VARIABLES
  bill,         \* bill[i]: the invoice with id i, or NoRow
  funds         \* funds[u]: the money user u can dispose of

atomicVars == <<bill, funds>>

AtomicInit ==
  /\ bill = [i \in InvoiceId |-> NoRow]
  /\ funds = [u \in User |-> 0]

Issue(i, row) ==
  /\ bill[i] = NoRow
  /\ row.status = "pending"
  /\ bill' = [bill EXCEPT ![i] = row]
  /\ UNCHANGED funds

Pay(i) ==
  /\ bill[i] # NoRow /\ bill[i].status = "pending"
  /\ funds[bill[i].user] >= bill[i].amount
  /\ bill' = [bill EXCEPT ![i].status = "paid"]
  /\ funds' = [funds EXCEPT ![bill[i].user] = @ - bill[i].amount]

Refund(i) ==
  /\ bill[i] # NoRow /\ bill[i].status = "paid"
  /\ bill' = [bill EXCEPT ![i].status = "refunded"]
  /\ funds' = [funds EXCEPT ![bill[i].user] = @ + bill[i].amount]

Deposit(u, n) ==
  /\ n > 0
  /\ funds' = [funds EXCEPT ![u] = @ + n]
  /\ UNCHANGED bill

AtomicNext ==
  \/ \E i \in InvoiceId :
       Pay(i) \/ Refund(i) \/ \E row \in NewBill : Issue(i, row)
  \/ \E u \in User, n \in Sum : Deposit(u, n)

AtomicSpec == AtomicInit /\ [][AtomicNext]_atomicVars
=============================================================================
