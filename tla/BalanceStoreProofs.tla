------------------------- MODULE BalanceStoreProofs -------------------------
(***************************************************************************)
(* Proofs about BalanceStore, for any number of sessions and users: its    *)
(* transactions are correct, never work on a stale balance, answer the     *)
(* truth, keep the books balanced and implement the contract of module     *)
(* Wallet.                                                                 *)
(***************************************************************************)
EXTENDS BalanceStore, FiniteSetTheorems, WellFoundedInduction, TLAPS

LEMMA DeltaIsInt == ASSUME NEW d \in Delta PROVE d \in Int
<1>1. \A n \in Size : n \in Int /\ -n \in Int
  BY StoreAssumption
<1>2. d \in Size \/ \E n \in Size : d = -n
  BY DEF Delta
<1> QED
  BY <1>1, <1>2

(* What a call asks for, read off its op.                                  *)
LEMMA ApplyFields ==
  ASSUME NEW j \in Job \union {NoJob}, j.op = "apply"
  PROVE  j \in Apply /\ j.user \in User /\ j.delta \in Int /\ j.delta \in Delta
<1>1. CASE j \in Apply
  <2>1. j.user \in User /\ j.delta \in Delta
    BY <1>1 DEF Apply
  <2>2. j.delta \in Int
    BY <2>1, DeltaIsInt
  <2> QED
    BY <1>1, <2>1, <2>2
<1>2. CASE j \in Initialize
  BY <1>2 DEF Initialize
<1>3. CASE j = NoJob
  BY <1>3 DEF NoJob
<1> QED
  BY <1>1, <1>2, <1>3 DEF Job

LEMMA InitializeFields ==
  ASSUME NEW j \in Job \union {NoJob}, j.op = "initialize"
  PROVE  j.user \in User /\ j.wanted \in Currency
<1>1. CASE j \in Apply
  BY <1>1 DEF Apply
<1>2. CASE j \in Initialize
  BY <1>2 DEF Initialize
<1>3. CASE j = NoJob
  BY <1>3 DEF NoJob
<1> QED
  BY <1>1, <1>2, <1>3 DEF Job

(* The inductive invariant.  Types alone are not inductive: that a commit  *)
(* leaves every balance a natural number was decided when the draft was    *)
(* made, and it is still right because the row was locked since.  And a    *)
(* debit that changed a row had found one.                                 *)
Written == {"updated", "inserted"}
WritersApply ==
  \A s \in Session : pc[s] \in Written =>
    /\ job[s].op = "apply"
    /\ job[s].delta < 0 => currency[job[s].user] # NoRow

IInv == TypeOK /\ WritersApply /\ DraftIsFresh /\ AnswerIsTrue

LEMMA InitIInv == Init => IInv
  BY StoreAssumption
  DEF Init, IInv, TypeOK, WritersApply, DraftIsFresh, AnswerIsTrue, NoJob,
      Written, Open

LEMMA BeginStep ==
  ASSUME IInv, NEW s \in Session, Begin(s) PROVE IInv'
<1>1. TypeOK'
  BY StoreAssumption DEF IInv, TypeOK, Begin, tables, Goto, Open
<1>2. WritersApply' /\ DraftIsFresh'
  BY DEF IInv, TypeOK, Begin, tables, Goto, WritersApply, DraftIsFresh, Written
<1>3. AnswerIsTrue'
  BY DEF IInv, TypeOK, Begin, tables, Goto, AnswerIsTrue, MovementOf, Open
<1> QED
  BY <1>1, <1>2, <1>3 DEF IInv

(* The two ways to update a row: the new version is a natural number that  *)
(* differs from the committed one by the delta of the call.                *)
LEMMA UpdateStep ==
  ASSUME IInv, NEW s \in Session, DebitRow(s) \/ CreditRow(s) PROVE IInv'
<1> DEFINE new == amount[job[s].user] + job[s].delta
<1>1. pc[s] = "begun" /\ job[s].op = "apply" /\ UpdateRow(s, new)
  BY DEF DebitRow, CreditRow
<1>2. job[s] \in Job \union {NoJob}
  BY DEF IInv, TypeOK
<1>3. job[s].user \in User /\ job[s].delta \in Int
  BY <1>1, <1>2, ApplyFields
<1>4. amount[job[s].user] \in Nat
  BY <1>3 DEF IInv, TypeOK
<1>5. new \in Nat
  BY <1>3, <1>4 DEF DebitRow, CreditRow, Matches, ChecksFunds
<1> HIDE DEF new
<1>6. TypeOK'
  BY <1>1, <1>3, <1>5 DEF IInv, TypeOK, UpdateRow, tables, Goto, Open
<1>7. WritersApply'
  BY <1>1 DEF IInv, TypeOK, UpdateRow, tables, Goto, WritersApply, Written,
              DebitRow, CreditRow, ChecksFunds, Matches
<1>8. DraftIsFresh'
  BY <1>1, <1>3, StoreAssumption
  DEF IInv, TypeOK, UpdateRow, tables, Goto, DraftIsFresh, new
<1>9. AnswerIsTrue'
  BY <1>1 DEF IInv, TypeOK, UpdateRow, tables, Goto, AnswerIsTrue, MovementOf, Open
<1> QED
  BY <1>6, <1>7, <1>8, <1>9 DEF IInv

LEMMA RefuseStep ==
  ASSUME IInv, NEW s \in Session, RefuseDebit(s) PROVE IInv'
<1>1. TypeOK'
  BY DEF IInv, TypeOK, RefuseDebit, tables, Goto, Open, Ended
<1>2. WritersApply' /\ DraftIsFresh' /\ AnswerIsTrue'
  BY DEF IInv, TypeOK, RefuseDebit, tables, Goto, WritersApply, DraftIsFresh,
         AnswerIsTrue, MovementOf, Open, Written
<1> QED
  BY <1>1, <1>2 DEF IInv

LEMMA InsertStep ==
  ASSUME IInv, NEW s \in Session, InsertMovement(s) PROVE IInv'
<1>1. TypeOK'
  BY DEF IInv, TypeOK, InsertMovement, tables, Goto, Open
<1>2. WritersApply' /\ DraftIsFresh' /\ AnswerIsTrue'
  BY DEF IInv, TypeOK, InsertMovement, tables, Goto, WritersApply, DraftIsFresh,
         AnswerIsTrue, MovementOf, Open, Written
<1> QED
  BY <1>1, <1>2 DEF IInv

(* At the commit the locks say that no other draft was made from the row.  *)
LEMMA CommitStep ==
  ASSUME IInv, NEW s \in Session, Commit(s) PROVE IInv'
<1> DEFINE u == job[s].user
<1>1. pc[s] = "inserted" /\ job[s].op = "apply" /\ job[s] \in Job \union {NoJob}
  BY DEF IInv, TypeOK, WritersApply, Written, Commit
<1>2. u \in User /\ job[s].delta \in Delta /\ job[s].delta \in Int
  BY <1>1, ApplyFields
<1>3. lock[u] = s
  BY <1>1 DEF IInv, DraftIsFresh
<1>4. MovementOf(s) \in Movement /\ MovementOf(s).by = s
  BY <1>2 DEF MovementOf, Movement
<1>5. PICK l \in {"committed", "failed"} : Goto(s, l)
  BY DEF Commit
<1>6. /\ amount' = [amount EXCEPT ![u] = draft[s]]
      /\ currency' = [currency EXCEPT ![u] = IF @ = NoRow THEN "RUB" ELSE @]
      /\ ledger' = ledger \union {MovementOf(s)}
      /\ lock' = [v \in User |-> IF lock[v] = s THEN Free ELSE lock[v]]
      /\ job' = job /\ draft' = draft
  BY DEF Commit, Release
<1> HIDE DEF u
<1>7. TypeOK'
  BY <1>2, <1>4, <1>5, <1>6, StoreAssumption DEF IInv, TypeOK, Goto, Open, Ended
<1>8. WritersApply'
  <2>1. \A v \in User : currency[v] # NoRow => currency'[v] # NoRow
    BY <1>2, <1>6, StoreAssumption DEF IInv, TypeOK
  <2>2. \A t \in Session : pc'[t] \in Written => pc[t] \in Written
    BY <1>1, <1>5 DEF IInv, TypeOK, Goto, Written
  <2>3. \A t \in Session : pc[t] \in Written => job[t].user \in User
    BY ApplyFields DEF IInv, TypeOK, WritersApply
  <2> QED
    BY <2>1, <2>2, <2>3, <1>6 DEF IInv, WritersApply
<1>9. DraftIsFresh'
  <2> SUFFICES ASSUME NEW t \in Session, pc'[t] \in {"updated", "inserted"}
               PROVE  /\ lock'[job[t].user] = t
                      /\ draft[t] = amount'[job[t].user] + job[t].delta
    BY <1>6 DEF DraftIsFresh
  <2>1. t # s /\ pc[t] \in {"updated", "inserted"}
    BY <1>1, <1>5 DEF IInv, TypeOK, Goto
  <2>2. lock[job[t].user] = t /\ draft[t] = amount[job[t].user] + job[t].delta
    BY <2>1 DEF IInv, DraftIsFresh
  <2>3. job[t].user \in User /\ job[t].user # u
    BY <2>1, <2>2, <1>3, ApplyFields DEF IInv, TypeOK, WritersApply, Written
  <2> QED
    BY <2>1, <2>2, <2>3, <1>2, <1>6 DEF IInv, TypeOK
<1>10. AnswerIsTrue'
  BY <1>1, <1>4, <1>5, <1>6
  DEF IInv, TypeOK, Goto, AnswerIsTrue, MovementOf, Open
<1> QED
  BY <1>7, <1>8, <1>9, <1>10 DEF IInv

LEMMA RollbackStep ==
  ASSUME IInv, NEW s \in Session, Rollback(s) PROVE IInv'
<1>1. TypeOK'
  BY StoreAssumption DEF IInv, TypeOK, Rollback, tables, Goto, Release, Open, Ended
<1>2. WritersApply' /\ AnswerIsTrue'
  BY DEF IInv, TypeOK, Rollback, tables, Goto, WritersApply, AnswerIsTrue,
         MovementOf, Open, Written
<1>3. DraftIsFresh'
  <2> SUFFICES ASSUME NEW t \in Session, pc'[t] \in {"updated", "inserted"}
               PROVE  /\ lock'[job[t].user] = t
                      /\ draft[t] = amount[job[t].user] + job[t].delta
    BY DEF Rollback, tables, DraftIsFresh
  <2>1. t # s /\ pc[t] \in {"updated", "inserted"}
    BY DEF IInv, TypeOK, Rollback, Goto
  <2>2. lock[job[t].user] = t /\ draft[t] = amount[job[t].user] + job[t].delta
    BY <2>1 DEF IInv, DraftIsFresh
  <2>3. job[t].user \in User
    BY <2>1, ApplyFields DEF IInv, TypeOK, WritersApply, Written
  <2> QED
    BY <2>1, <2>2, <2>3 DEF Rollback, Release
<1> QED
  BY <1>1, <1>2, <1>3 DEF IInv

(* Of one session, or of all at once.                                      *)
LEMMA CrashStep == ASSUME IInv, Crash PROVE IInv'
<1>1. TypeOK'
  BY StoreAssumption DEF IInv, TypeOK, Crash, tables, Open, Ended
<1>2. WritersApply' /\ DraftIsFresh' /\ AnswerIsTrue'
  BY DEF IInv, TypeOK, Crash, tables, WritersApply, DraftIsFresh, AnswerIsTrue,
         MovementOf, Open, Written
<1> QED
  BY <1>1, <1>2 DEF IInv

LEMMA InitializeStep ==
  ASSUME IInv, NEW s \in Session, InitializeRow(s) PROVE IInv'
<1>1. job[s].user \in User /\ job[s].wanted \in Currency
  BY InitializeFields DEF IInv, TypeOK, InitializeRow
<1>2. TypeOK'
  BY <1>1 DEF IInv, TypeOK, InitializeRow, Goto, Open, Ended
<1>3. DraftIsFresh' /\ AnswerIsTrue'
  BY DEF IInv, TypeOK, InitializeRow, Goto, WritersApply, DraftIsFresh,
         AnswerIsTrue, MovementOf, Open, Written
<1>4. WritersApply'
  <2>1. \A v \in User : currency[v] # NoRow => currency'[v] # NoRow
    BY <1>1, StoreAssumption DEF IInv, TypeOK, InitializeRow
  <2>2. \A t \in Session : pc'[t] \in Written => pc[t] \in Written
    BY DEF IInv, TypeOK, InitializeRow, Goto, Written
  <2>3. \A t \in Session : pc[t] \in Written => job[t].user \in User
    BY ApplyFields DEF IInv, TypeOK, WritersApply
  <2> QED
    BY <2>1, <2>2, <2>3 DEF IInv, WritersApply, InitializeRow
<1> QED
  BY <1>2, <1>3, <1>4 DEF IInv

LEMMA IInvStep == IInv /\ [Next]_vars => IInv'
<1> SUFFICES ASSUME IInv, [Next]_vars PROVE IInv'
  OBVIOUS
<1>1. CASE UNCHANGED vars
  BY <1>1 DEF vars, IInv, TypeOK, WritersApply, DraftIsFresh, AnswerIsTrue,
              MovementOf, Written, Open
<1>2. CASE Crash
  BY <1>2, CrashStep
<1>3. CASE \E s \in Session : Begin(s) \/ Step(s) \/ Rollback(s)
  BY <1>3, BeginStep, UpdateStep, RefuseStep, InsertStep, CommitStep,
     InitializeStep, RollbackStep DEF Step
<1> QED
  BY <1>1, <1>2, <1>3 DEF Next, Quiet

-----------------------------------------------------------------------------
LEMMA StoreInvariant == Spec => []IInv
BY InitIInv, IInvStep, PTL DEF Spec

(* The columns and the program counters keep their types: no balance that  *)
(* apply() commits is negative.                                            *)
THEOREM StoreTypes == Spec => []TypeOK
<1>1. IInv => TypeOK
  BY DEF IInv
<1> QED
  BY StoreInvariant, <1>1, PTL

(* Every uncommitted row version of apply() is the committed balance with  *)
(* its change: no transaction works on a stale balance.                    *)
THEOREM StoreDrafts == Spec => []DraftIsFresh
<1>1. IInv => DraftIsFresh
  BY DEF IInv
<1> QED
  BY StoreInvariant, <1>1, PTL

(* What apply() answers is what was committed.                             *)
THEOREM StoreAnswers == Spec => []AnswerIsTrue
<1>1. IInv => AnswerIsTrue
  BY DEF IInv
<1> QED
  BY StoreInvariant, <1>1, PTL

(* The transactions of apply() and initialize() implement the indivisible  *)
(* movements of the contract: each step either posts one new movement with *)
(* its change of balance, or opens a wallet, or changes nothing in the     *)
(* tables.                                                                 *)
THEOREM StoreImplementsWallet == Spec => ImplementsWallet
<1>1. Init => Contract!WalletInit
  BY DEF Init, Contract!WalletInit
<1>2. IInv /\ [Next]_vars => [Contract!WalletNext]_(Contract!walletVars)
  <2> SUFFICES ASSUME IInv, [Next]_vars, ~ UNCHANGED tables
               PROVE  Contract!WalletNext
    BY DEF Contract!walletVars, tables
  <2>1. ASSUME NEW s \in Session, Commit(s) PROVE Contract!WalletNext
    <3> DEFINE u == job[s].user
               m == MovementOf(s)
    <3>1. pc[s] = "inserted" /\ job[s].op = "apply" /\ job[s] \in Job \union {NoJob}
      BY <2>1 DEF IInv, TypeOK, WritersApply, Written, Commit
    <3>2. u \in User /\ job[s].delta \in Delta /\ job[s].delta \in Int
      BY <3>1, ApplyFields
    <3>3. /\ m \in Movement /\ m.user = u /\ m.delta = job[s].delta /\ m.by = s
          /\ m \notin ledger
      BY <3>1, <3>2 DEF MovementOf, Movement, IInv, AnswerIsTrue, Open
    <3>4. /\ draft[s] = amount[u] + job[s].delta
          /\ draft[s] \in Nat
      BY <3>1 DEF IInv, TypeOK, DraftIsFresh
    <3>5. Contract!Post(m)
      BY <2>1, <3>2, <3>3, <3>4 DEF Contract!Post, Commit, IInv, TypeOK
    <3>6. CASE job[s].delta >= 0
      <4>1. Contract!Credit(m)
        BY <2>1, <3>3, <3>5, <3>6 DEF Contract!Credit, Commit
      <4> QED
        BY <4>1, <3>3 DEF Contract!WalletNext
    <3>7. CASE ~ (job[s].delta >= 0)
      <4>1. job[s].delta < 0
        BY <3>2, <3>7
      <4>2. currency[u] # NoRow
        BY <3>1, <4>1 DEF IInv, WritersApply, Written
      <4>3. currency' = currency
        BY <2>1, <3>2, <4>2 DEF Commit, IInv, TypeOK
      <4>4. Contract!Debit(m)
        BY <3>3, <3>5, <4>1, <4>2, <4>3 DEF Contract!Debit
      <4> QED
        BY <4>4, <3>3 DEF Contract!WalletNext
    <3> QED
      BY <3>6, <3>7
  <2>2. ASSUME NEW s \in Session, InitializeRow(s) PROVE Contract!WalletNext
    <3> DEFINE u == job[s].user
    <3>1. u \in User /\ job[s].wanted \in Currency
      BY <2>2, InitializeFields DEF IInv, TypeOK, InitializeRow
    <3>2. currency[u] = NoRow
      BY <2>2, <3>1 DEF InitializeRow, tables, IInv, TypeOK
    <3>3. Contract!Open(u, job[s].wanted)
      BY <2>2, <3>1, <3>2 DEF Contract!Open, InitializeRow
    <3> QED
      BY <3>1, <3>3 DEF Contract!WalletNext
  <2>3. \A s \in Session :
          /\ ~ Begin(s) /\ ~ Rollback(s)
          /\ ~ DebitRow(s) /\ ~ CreditRow(s) /\ ~ RefuseDebit(s)
          /\ ~ InsertMovement(s)
    BY DEF Begin, Rollback, DebitRow, CreditRow, UpdateRow, RefuseDebit,
           InsertMovement, tables
  <2>4. ~ Crash /\ ~ Quiet /\ ~ UNCHANGED vars
    BY DEF Crash, Quiet, vars, tables
  <2> QED
    BY <2>1, <2>2, <2>3, <2>4 DEF Next, Step
<1> QED
  BY <1>1, <1>2, InitIInv, IInvStep, PTL
  DEF Spec, ImplementsWallet, Contract!WalletSpec

-----------------------------------------------------------------------------
(* Sums over finite sets.  MapThenSumSet of the community modules takes    *)
(* the elements of a set one by one in an order of its own; here it is     *)
(* shown that the order does not matter, which gives the two laws that     *)
(* proofs about sums use: an element more, and a summand changed.  The     *)
(* proofs about Billing use them too.                                      *)
(*                                                                         *)
(* A summand is a function here, not an operator, so that the laws can be  *)
(* cited; the inductions run over the finite subsets of a set, by looking  *)
(* at a smallest one for which a law would fail.                           *)

(* k[s] is the sum of f over s, for each subset s of S.                    *)
First(s) == CHOOSE x \in s : TRUE
Adds(k, f, S) ==
  k = [s \in SUBSET S |-> IF s = {} THEN 0 ELSE f[First(s)] + k[s \ {First(s)}]]
Total(f, S) == (CHOOSE k : Adds(k, f, S))[S]

(* Of the finite subsets of S with a property, if there are any, one has   *)
(* no smaller one in it.                                                   *)
LEMMA Smallest ==
  ASSUME NEW S, IsFiniteSet(S), NEW T \in SUBSET SUBSET S, T # {}
  PROVE  \E s \in T : IsFiniteSet(s) /\ \A t \in T : t \subseteq s => t = s
<1> DEFINE R == StrictSubsetOrdering(S)
           W == FiniteSubsetsOf(S)
<1>1. IsWellFoundedOn(R, W)
  BY FS_StrictSubsetOrderingWellFounded
<1>2. \A s \in SUBSET S : IsFiniteSet(s)
  BY FS_Subset
<1>3. T \subseteq W
  BY <1>2 DEF FiniteSubsetsOf
<1>4. \A s, t \in T : t \subseteq s /\ t # s => <<t, s>> \in R
  BY DEF StrictSubsetOrdering
<1> HIDE DEF R, W
<1>5. PICK s \in T : \A t \in T : ~ (<<t, s>> \in R)
  BY <1>1, <1>3, WFMin
<1> QED
  BY <1>2, <1>4, <1>5

(* What is taken first was there.                                          *)
LEMMA FirstIn ==
  ASSUME NEW s, s # {}
  PROVE  First(s) \in s
BY DEF First

(* The equation of k at one subset.                                        *)
LEMMA AddsApart ==
  ASSUME NEW k, NEW f, NEW S, Adds(k, f, S), NEW s \in SUBSET S
  PROVE  k[s] = IF s = {} THEN 0 ELSE f[First(s)] + k[s \ {First(s)}]
BY DEF Adds

(* There is only one such k, as far as both are defined.                   *)
LEMMA AddsOnce ==
  ASSUME NEW f, NEW A, NEW B, NEW k, NEW l, Adds(k, f, A), Adds(l, f, B),
         NEW S, IsFiniteSet(S), S \subseteq A, S \subseteq B
  PROVE  k[S] = l[S]
<1> DEFINE T == {s \in SUBSET S : k[s] # l[s]}
<1> SUFFICES ASSUME T # {} PROVE FALSE
  BY DEF T
<1>0. T \in SUBSET SUBSET S
  OBVIOUS
<1>1. PICK s \in T : \A t \in T : t \subseteq s => t = s
  <2> HIDE DEF T
  <2> QED
    BY <1>0, Smallest
<1>2. s \in SUBSET S /\ s \in SUBSET A /\ s \in SUBSET B /\ k[s] # l[s]
  BY <1>1
<1>3. s # {}
  BY <1>2, AddsApart
<1> DEFINE r == s \ {First(s)}
<1>4. r \notin T /\ r \in SUBSET S
  BY <1>1, <1>2, <1>3, FirstIn
<1>5. k[r] = l[r]
  BY <1>4
<1> QED
  BY <1>2, <1>3, <1>5, AddsApart

(* There is one.                                                           *)
LEMMA AddsSome ==
  ASSUME NEW f, NEW S, IsFiniteSet(S)
  PROVE  \E k : Adds(k, f, S)
<1> DEFINE T == {s \in SUBSET S : ~ \E k : Adds(k, f, s)}
<1> SUFFICES ASSUME T # {} PROVE FALSE
  OBVIOUS
<1>0. T \in SUBSET SUBSET S
  OBVIOUS
<1>1. PICK s \in T : IsFiniteSet(s) /\ \A t \in T : t \subseteq s => t = s
  <2> HIDE DEF T
  <2> QED
    BY <1>0, Smallest
<1> DEFINE sum(t) == CHOOSE k : Adds(k, f, t)
           first == First(s)
           k == [t \in SUBSET s |->
                   IF t = s
                   THEN IF s = {} THEN 0 ELSE f[First(s)] + sum(s \ {First(s)})[s \ {First(s)}]
                   ELSE sum(t)[t]]
<1>2. \A t \in SUBSET s : t # s => Adds(sum(t), f, t)
  BY <1>1
<1>3. \A t \in SUBSET s : IsFiniteSet(t)
  BY <1>1, FS_Subset
<1>4. ASSUME NEW t \in SUBSET s
      PROVE  k[t] = IF t = {} THEN 0 ELSE f[First(t)] + k[t \ {First(t)}]
  <2>1. t # {} => t \ {First(t)} \in SUBSET s /\ t \ {First(t)} # t /\ t \ {First(t)} # s
    BY FirstIn
  <2>2. CASE t = s
    BY <2>1, <2>2
  <2>3. CASE t # s
    <3>1. k[t] = sum(t)[t] /\ Adds(sum(t), f, t)
      BY <1>2, <2>3
    <3>2. CASE t = {}
      <4>1. sum(t)[t] = 0
        BY <3>1, <3>2, AddsApart
      <4> QED
        BY <3>1, <3>2, <4>1
    <3>3. CASE t # {}
      <4> DEFINE u == t \ {First(t)}
      <4>1. k[u] = sum(u)[u] /\ Adds(sum(u), f, u)
        BY <1>2, <2>1, <3>3
      <4>2. IsFiniteSet(u)
        BY <1>3, <2>1, <3>3
      <4> HIDE DEF k, sum
      <4>3. sum(t)[u] = sum(u)[u]
        BY <3>1, <4>1, <4>2, AddsOnce
      <4>4. sum(t)[t] = f[First(t)] + sum(t)[u]
        BY <3>1, <3>3, AddsApart
      <4> QED
        BY <3>1, <3>3, <4>1, <4>3, <4>4
    <3> QED
      BY <3>2, <3>3
  <2> QED
    BY <2>2, <2>3
<1>5. Adds(k, f, s)
  <2>1. k = [t \in SUBSET s |-> k[t]]
    OBVIOUS
  <2> HIDE DEF k
  <2> QED
    BY <1>4, <2>1 DEF Adds
<1> QED
  BY <1>1, <1>5

(* So there is a total.                                                    *)
LEMMA TotalAdds ==
  ASSUME NEW f, NEW S, IsFiniteSet(S)
  PROVE  \E k : Adds(k, f, S) /\ Total(f, S) = k[S]
BY AddsSome DEF Total

(* A total is what anything that adds shows.                               *)
LEMMA TotalIs ==
  ASSUME NEW f, NEW A, NEW k, Adds(k, f, A), NEW S \in SUBSET A, IsFiniteSet(S)
  PROVE  Total(f, S) = k[S]
BY TotalAdds, AddsOnce

(* The equation of the total itself.                                       *)
LEMMA TotalStep ==
  ASSUME NEW f, NEW S, IsFiniteSet(S)
  PROVE  Total(f, S) = IF S = {} THEN 0 ELSE f[First(S)] + Total(f, S \ {First(S)})
<1>1. PICK k : Adds(k, f, S) /\ Total(f, S) = k[S]
  BY TotalAdds
<1>2. IsFiniteSet(S \ {First(S)})
  BY FS_RemoveElement
<1>3. Total(f, S \ {First(S)}) = k[S \ {First(S)}]
  BY <1>1, <1>2, TotalIs
<1> QED
  BY <1>1, <1>3, AddsApart

(* Integers add up to an integer.                                          *)
LEMMA TotalInt ==
  ASSUME NEW f, NEW S, IsFiniteSet(S), \A x \in S : f[x] \in Int
  PROVE  Total(f, S) \in Int
<1> DEFINE T == {s \in SUBSET S : Total(f, s) \notin Int}
<1> SUFFICES ASSUME T # {} PROVE FALSE
  OBVIOUS
<1>1. T \in SUBSET SUBSET S
  OBVIOUS
<1>2. PICK s \in T : IsFiniteSet(s) /\ \A t \in T : t \subseteq s => t = s
  <2> HIDE DEF T
  <2> QED
    BY <1>1, Smallest
<1>3. s # {} /\ s \in SUBSET S /\ Total(f, s) \notin Int
  <2>1. s \in SUBSET S /\ Total(f, s) \notin Int
    BY <1>2
  <2>2. s = {} => Total(f, s) = 0
    BY <1>2, TotalStep
  <2> QED
    BY <2>1, <2>2
<1>4. First(s) \in s
  BY <1>3, FirstIn
<1>5. s \ {First(s)} \notin T
  BY <1>2, <1>4
<1>6. f[First(s)] \in Int /\ Total(f, s \ {First(s)}) \in Int
  BY <1>3, <1>4, <1>5
<1> QED
  BY <1>2, <1>3, <1>6, TotalStep

(* Whichever element is taken away first.                                  *)
LEMMA TotalWithout ==
  ASSUME NEW f, NEW S, IsFiniteSet(S), \A x \in S : f[x] \in Int, NEW x \in S
  PROVE  Total(f, S) = f[x] + Total(f, S \ {x})
<1> DEFINE T == {s \in SUBSET S : \E y \in s : Total(f, s) # f[y] + Total(f, s \ {y})}
<1> SUFFICES ASSUME T # {} PROVE FALSE
  OBVIOUS
<1>1. T \in SUBSET SUBSET S
  OBVIOUS
<1>2. PICK s \in T : IsFiniteSet(s) /\ \A t \in T : t \subseteq s => t = s
  <2> HIDE DEF T
  <2> QED
    BY <1>1, Smallest
<1>3. PICK y \in s : Total(f, s) # f[y] + Total(f, s \ {y})
  BY <1>2
<1> DEFINE c == First(s)
<1>4. s \in SUBSET S /\ c \in s /\ Total(f, s) = f[c] + Total(f, s \ {c})
  BY <1>2, <1>3, FirstIn, TotalStep
<1>5. c # y
  BY <1>3, <1>4
<1>6. \A z \in s : s \ {z} \in SUBSET S /\ s \ {z} \notin T
  BY <1>2, <1>4
<1> HIDE DEF c
<1>7. /\ Total(f, s \ {c}) = f[y] + Total(f, (s \ {c}) \ {y})
      /\ Total(f, s \ {y}) = f[c] + Total(f, (s \ {y}) \ {c})
  BY <1>4, <1>5, <1>6
<1>8. (s \ {c}) \ {y} = (s \ {y}) \ {c}
  OBVIOUS
<1>9. IsFiniteSet((s \ {y}) \ {c})
  BY <1>2, FS_RemoveElement
<1>10. Total(f, (s \ {y}) \ {c}) \in Int /\ f[c] \in Int /\ f[y] \in Int
  BY <1>4, <1>9, TotalInt
<1> DEFINE z == Total(f, (s \ {y}) \ {c})
<1>11. Total(f, s) = f[c] + (f[y] + z)
  BY <1>4, <1>7, <1>8
<1>12. Total(f, s) # f[y] + (f[c] + z)
  BY <1>3, <1>7
<1> HIDE DEF T, z
<1> QED
  BY <1>10, <1>11, <1>12 DEF z

(* Nothing adds up to nothing.                                             *)
LEMMA TotalNone ==
  ASSUME NEW f
  PROVE  Total(f, {}) = 0
BY FS_EmptySet, TotalStep

(* One element more adds its own.                                          *)
LEMMA TotalWith ==
  ASSUME NEW f, NEW S, IsFiniteSet(S), NEW x, x \notin S,
         \A y \in S \union {x} : f[y] \in Int
  PROVE  Total(f, S \union {x}) = f[x] + Total(f, S)
<1>1. IsFiniteSet(S \union {x}) /\ x \in S \union {x} /\ (S \union {x}) \ {x} = S
  BY FS_AddElement
<1>2. Total(f, S \union {x}) = f[x] + Total(f, (S \union {x}) \ {x})
  BY <1>1, TotalWithout
<1> QED
  BY <1>1, <1>2

(* Only the summands over the set count.                                   *)
LEMMA TotalSame ==
  ASSUME NEW f, NEW g, NEW S, IsFiniteSet(S), \A x \in S : f[x] = g[x]
  PROVE  Total(f, S) = Total(g, S)
<1>1. PICK k : Adds(k, f, S) /\ Total(f, S) = k[S]
  BY TotalAdds
<1>2. \A s \in SUBSET S : s # {} => f[First(s)] = g[First(s)]
  BY FirstIn
<1>3. Adds(k, g, S)
  BY <1>1, <1>2 DEF Adds
<1> QED
  BY <1>1, <1>3, TotalIs

(* One summand changes, and the total by as much.                          *)
LEMMA TotalChanged ==
  ASSUME NEW f, NEW g, NEW S, IsFiniteSet(S), NEW x \in S,
         \A y \in S : f[y] \in Int /\ g[y] \in Int,
         \A y \in S : y # x => f[y] = g[y]
  PROVE  Total(g, S) = Total(f, S) - f[x] + g[x]
<1>1. IsFiniteSet(S \ {x})
  BY FS_RemoveElement
<1>2. Total(f, S \ {x}) = Total(g, S \ {x}) /\ Total(f, S \ {x}) \in Int
  BY <1>1, TotalSame, TotalInt
<1>3. /\ Total(f, S) = f[x] + Total(f, S \ {x})
      /\ Total(g, S) = g[x] + Total(g, S \ {x})
  BY TotalWithout
<1> QED
  BY <1>2, <1>3

(* Zeros add up to zero.                                                   *)
LEMMA TotalZero ==
  ASSUME NEW f, NEW S, IsFiniteSet(S), \A x \in S : f[x] = 0
  PROVE  Total(f, S) = 0
<1> DEFINE T == {s \in SUBSET S : Total(f, s) # 0}
<1> SUFFICES ASSUME T # {} PROVE FALSE
  OBVIOUS
<1>1. T \in SUBSET SUBSET S
  OBVIOUS
<1>2. PICK s \in T : IsFiniteSet(s) /\ \A t \in T : t \subseteq s => t = s
  <2> HIDE DEF T
  <2> QED
    BY <1>1, Smallest
<1>3. s \in SUBSET S /\ Total(f, s) # 0
  BY <1>2
<1>4. s # {}
  BY <1>2, <1>3, TotalStep
<1>5. First(s) \in s
  BY <1>4, FirstIn
<1>6. s \ {First(s)} \notin T
  BY <1>2, <1>5
<1>7. f[First(s)] = 0 /\ Total(f, s \ {First(s)}) = 0
  BY <1>3, <1>5, <1>6
<1> HIDE DEF T
<1>8. Total(f, s) = f[First(s)] + Total(f, s \ {First(s)})
  BY <1>2, <1>4, TotalStep
<1> QED
  BY <1>3, <1>7, <1>8

-----------------------------------------------------------------------------
(* The sum of the movements of a user in a ledger, and as a total.         *)
RowsOf(l, u) == {m \in l : m.user = u}
Booked(l, u) == MapThenSumSet(LAMBDA m : m.delta, RowsOf(l, u))
DeltaOf == [m \in Movement |-> m.delta]

LEMMA BookedIsTotal ==
  ASSUME NEW l \in SUBSET Movement, IsFiniteSet(l), NEW u
  PROVE  Booked(l, u) = Total(DeltaOf, RowsOf(l, u))
<1> DEFINE S == RowsOf(l, u)
           F(f) == [s \in SUBSET S |->
                      IF s = {} THEN 0
                      ELSE (CHOOSE x \in s : TRUE).delta
                             + f[s \ {CHOOSE x \in s : TRUE}]]
           h == CHOOSE f : f = F(f)
<1>1. Booked(l, u) = h[S]
  BY DEF Booked, MapThenSumSet, MapThenFoldSet
<1>2. IsFiniteSet(S) /\ S \subseteq Movement
  BY FS_Subset DEF RowsOf
<1>3. PICK k : Adds(k, DeltaOf, S)
  BY <1>2, AddsSome
<1> HIDE DEF S
<1>4. \A s \in SUBSET S : s # {} => DeltaOf[First(s)] = First(s).delta
  BY <1>2, FirstIn DEF DeltaOf
<1>5. k = F(k)
  BY <1>3, <1>4 DEF Adds, First
<1>6. h = F(h)
  <2> HIDE DEF F
  <2> QED
    BY <1>5
<1>7. Adds(h, DeltaOf, S)
  <2> HIDE DEF h
  <2> QED
    BY <1>4, <1>6 DEF Adds, First
<1> HIDE DEF h
<1>8. Total(DeltaOf, S) = h[S]
  BY <1>2, <1>7, TotalIs
<1> QED
  BY <1>1, <1>8 DEF S

(* The invariant: a commit adds one new movement and its delta.            *)
Books ==
  /\ IsFiniteSet(ledger)
  /\ \A u \in User : amount[u] = Total(DeltaOf, RowsOf(ledger, u))

LEMMA InitBooks == Init => Books
<1> SUFFICES ASSUME Init PROVE Books
  OBVIOUS
<1>1. ledger = {} /\ \A u \in User : amount[u] = 0 /\ RowsOf(ledger, u) = {}
  BY DEF Init, RowsOf
<1> QED
  BY <1>1, FS_EmptySet, TotalNone DEF Books

LEMMA BooksStep == IInv /\ Books /\ [Next]_vars => Books'
<1> SUFFICES ASSUME IInv, Books, [Next]_vars PROVE Books'
  OBVIOUS
<1>1. ASSUME NEW s \in Session, Commit(s) PROVE Books'
  <2> DEFINE u == job[s].user
             m == MovementOf(s)
  <2>1. pc[s] = "inserted" /\ job[s].op = "apply" /\ job[s] \in Job \union {NoJob}
    BY <1>1 DEF IInv, TypeOK, WritersApply, Written, Commit
  <2>2. u \in User /\ job[s].delta \in Delta /\ job[s].delta \in Int
    BY <2>1, ApplyFields
  <2>3. m \in Movement /\ m.user = u /\ m.delta = job[s].delta /\ m \notin ledger
    BY <2>1, <2>2 DEF MovementOf, Movement, IInv, AnswerIsTrue, Open
  <2>4. /\ amount' = [amount EXCEPT ![u] = amount[u] + job[s].delta]
        /\ ledger' = ledger \union {m}
    BY <1>1, <2>1 DEF Commit, IInv, DraftIsFresh
  <2>5. amount \in [User -> Nat] /\ ledger \subseteq Movement
    BY DEF IInv, TypeOK
  <2>6. IsFiniteSet(ledger) /\ IsFiniteSet(ledger')
    BY <2>4, FS_AddElement DEF Books
  <2> HIDE DEF u, m
  <2>7. ASSUME NEW v \in User PROVE amount'[v] = Total(DeltaOf, RowsOf(ledger', v))
    <3> DEFINE S == RowsOf(ledger, v)
    <3>1. amount[v] = Total(DeltaOf, S)
      BY DEF Books
    <3>2. CASE v = u
      <4>1. RowsOf(ledger', v) = S \union {m}
        BY <2>3, <2>4, <3>2 DEF RowsOf
      <4>2. IsFiniteSet(S) /\ m \notin S
        BY <2>3, <2>6, FS_Subset DEF RowsOf
      <4>3. S \union {m} \subseteq Movement
        BY <2>3, <2>5 DEF RowsOf
      <4>4. \A y \in S \union {m} : DeltaOf[y] \in Int
        BY <4>3, DeltaIsInt DEF DeltaOf, Movement
      <4>5. DeltaOf[m] = job[s].delta
        BY <2>3 DEF DeltaOf
      <4> HIDE DEF S
      <4>6. Total(DeltaOf, S \union {m}) = DeltaOf[m] + Total(DeltaOf, S)
        BY <4>2, <4>4, TotalWith
      <4>7. amount'[v] = amount[v] + job[s].delta /\ amount[v] \in Int
        BY <2>2, <2>4, <2>5, <3>2
      <4> QED
        BY <2>2, <3>1, <4>1, <4>5, <4>6, <4>7
    <3>3. CASE v # u
      <4>1. RowsOf(ledger', v) = S
        BY <2>3, <2>4, <3>3 DEF RowsOf
      <4>2. amount'[v] = amount[v]
        BY <2>4, <2>5, <3>3
      <4> QED
        BY <3>1, <4>1, <4>2
    <3> QED
      BY <3>2, <3>3
  <2> QED
    BY <2>6, <2>7 DEF Books
<1>2. CASE UNCHANGED <<amount, ledger>>
  BY <1>2 DEF Books
<1>3. ASSUME NEW s \in Session, Begin(s) \/ Step(s) \/ Rollback(s), ~ Commit(s)
      PROVE  UNCHANGED <<amount, ledger>>
  BY <1>3 DEF Begin, Step, Rollback, DebitRow, CreditRow, UpdateRow, RefuseDebit,
              InsertMovement, InitializeRow, tables
<1>4. Crash \/ Quiet \/ UNCHANGED vars => UNCHANGED <<amount, ledger>>
  BY DEF Crash, Quiet, vars, tables
<1> QED
  BY <1>1, <1>2, <1>3, <1>4 DEF Next

(* Every balance is the sum of the committed movements of its wallet, for  *)
(* any number of sessions, in whatever order their transactions commit,    *)
(* roll back or are cut off (apply()).                                     *)
THEOREM StoreBooks == Spec => []BooksBalance
<1>1. IInv /\ Books => BooksBalance
  <2>1. IInv /\ Books => \A u \in User : amount[u] = Booked(ledger, u)
    BY BookedIsTotal DEF IInv, TypeOK, Books
  <2>2. BooksBalance <=> \A u \in User : amount[u] = Booked(ledger, u)
    BY DEF BooksBalance, Booked, RowsOf, MapThenSumSet, MapThenFoldSet
  <2> QED
    BY <2>1, <2>2
<1> QED
  BY <1>1, InitIInv, IInvStep, InitBooks, BooksStep, PTL DEF Spec
=============================================================================
