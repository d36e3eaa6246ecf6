------------------------------- MODULE Wallet -------------------------------
(***************************************************************************)
(* What the balance repository of the billing service promises to its      *)
(* callers (services/billing/src/repository/balance): a wallet's balance   *)
(* and the list of its movements change together, in one indivisible       *)
(* step, and no step overdraws a wallet.                                   *)
(*                                                                         *)
(* This is the abstract specification.  BalanceStore implements it with    *)
(* database transactions, and Billing, the payment service that calls the  *)
(* repository, moves money only by its steps.                              *)
(***************************************************************************)
EXTENDS Integers

CONSTANTS
  User,         \* owners of wallets
  Currency,     \* currencies a wallet can be opened in
  DefaultCurrency, \* the currency a credit opens a missing wallet in
  Movement,     \* the rows a ledger can hold: records with user and delta
  NoRow         \* "there is no such row"

VARIABLES
  amount,       \* amount[u] is the balance of u in minor units
  currency,     \* currency[u] is its currency, NoRow if u has no wallet
  ledger        \* the movements posted so far

walletVars == <<amount, currency, ledger>>

WalletInit ==
  /\ amount = [u \in User |-> 0]
  /\ currency = [u \in User |-> NoRow]
  /\ ledger = {}

(* Opening a wallet moves no money.  A wallet that is open stays as it is. *)
Open(u, c) ==
  /\ currency[u] = NoRow
  /\ currency' = [currency EXCEPT ![u] = c]
  /\ UNCHANGED <<amount, ledger>>

(* A movement is posted once, with the change of balance it stands for.    *)
Post(row) ==
  /\ row \notin ledger
  /\ amount[row.user] + row.delta >= 0
  /\ amount' = [amount EXCEPT ![row.user] = @ + row.delta]
  /\ ledger' = ledger \union {row}

(* Only money that arrives can open a wallet.                              *)
Credit(row) ==
  /\ row.delta >= 0
  /\ Post(row)
  /\ currency' = [currency EXCEPT ![row.user] =
                    IF @ = NoRow THEN DefaultCurrency ELSE @]

Debit(row) ==
  /\ row.delta < 0
  /\ currency[row.user] # NoRow
  /\ Post(row)
  /\ UNCHANGED currency

WalletNext ==
  \/ \E u \in User, c \in Currency : Open(u, c)
  \/ \E row \in Movement : Credit(row) \/ Debit(row)

WalletSpec == WalletInit /\ [][WalletNext]_walletVars
=============================================================================
