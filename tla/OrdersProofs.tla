---------------------------- MODULE OrdersProofs ----------------------------
(***************************************************************************)
(* Proofs about Orders, for any number of replicas, requests and orders,   *)
(* and for any number of faults of any kind: the answers are true, the     *)
(* table keeps its book, the cache shows the rows, and each change is told *)
(* once.  With one replica and no fault, the last event is current.        *)
(*                                                                         *)
(* The inductive invariant says which request holds which row, which ids   *)
(* were created, what the writer of a field of the hash has left there,    *)
(* and what a replica that refills the hash may rely on.                   *)
(***************************************************************************)
EXTENDS Orders, FiniteSetTheorems, TLAPS

Deletes(r) == call[r] # Nobody /\ call[r].op = "delete"
Creates(r) == call[r] # Nobody /\ call[r].op = "create"

(* The place of a request fits its call.                                   *)
Fits(r) ==
  /\ pc[r] = "idle" <=> call[r] = Nobody
  /\ pc[r] = "insert" => call[r].op = "create"
  /\ pc[r] = "find" => call[r].op # "create"
  /\ pc[r] = "write" => call[r].op \in {"update", "patch"}
  /\ pc[r] = "put" => ~ Deletes(r)
  /\ pc[r] \in {"erase", "remove"} => Deletes(r)
  /\ pc[r] \in {"write", "put", "publish"} => draft[r] # NoRow
  /\ pc[r] = "commit" => Deletes(r) \/ draft[r] # NoRow
  /\ pc[r] # "answered" => answer[r] = NoAnswer
  /\ r \in committed => pc[r] = "answered"

(* A request holds the row it has written until it is answered; a delete   *)
(* goes on without it if the row was gone.  Only a row that a create has   *)
(* locked is not in the table yet.                                         *)
Holding(r) ==
  \/ ~ Deletes(r) /\ pc[r] \in {"put", "publish", "commit"}
  \/ Deletes(r) /\ pc[r] \in {"remove", "commit"}
Locks ==
  /\ \A r \in Request, i \in OrderId : holder[i] = r =>
       /\ Holding(r) /\ IdOf(r) = i
       /\ orders[i] = NoRow <=> Creates(r)
  /\ \A r \in Request : Holding(r) =>
       holder[IdOf(r)] = r \/ (Deletes(r) /\ orders[IdOf(r)] = NoRow)

(* An id is created once; whoever has found its row knows it was.          *)
Made(i) == \E q \in committed : Creates(q) /\ IdOf(q) = i
Ids ==
  /\ \A q, r \in Request : Creates(q) /\ Creates(r) /\ IdOf(q) = IdOf(r) => q = r
  /\ \A i \in OrderId : orders[i] # NoRow => Made(i)
  /\ \A r \in Request : ~ Creates(r) /\ pc[r] \in Serving \ {"find"} => Made(IdOf(r))
  /\ \A r \in Request : (r \in committed /\ Deletes(r)) \/ answer[r] = 204 =>
       Made(IdOf(r)) /\ orders[IdOf(r)] = NoRow

Told ==
  \A r \in Request :
    /\ answer[r] \in {200, 201} => r \in committed
    /\ answer[r] \in {400, 404} => r \notin committed

(* Who wrote a field of the hash last has left there what it is to show,   *)
(* and nobody but a refill writes under a lock once its holder has.        *)
Shows(r) == pc[r] = "commit" \/ (pc[r] = "publish" /\ ~ Deletes(r))
Fields ==
  \A i \in OrderId :
    /\ \A r \in InService : writer[i] = r =>
         holder[i] = r /\ Shows(r) /\ cache[i] = Shown(Result(r))
    /\ \A r \in Request : holder[i] = r /\ Shows(r) => writer[i] \in {r} \union Instance

(* A request that has yet to come has written nothing.                     *)
Untold == \A r \in Request, i \in OrderId : writer[i] = r => pc[r] # "idle"

(* A replica that refills the hash: what it has put shows the rows beside  *)
(* which nothing ran since it read them.                                   *)
Warming(n) ==
  LET w == warm[n] IN
  w.phase \in {"clear", "fill"} =>
    /\ \A i \in OrderId :
         /\ w.snapshot[i] = Shown(w.snapshot[i])
         /\ w.phase = "clear" => (i \in w.todo <=> w.snapshot[i] # NoRow)
         /\ w.phase = "fill" /\ writer[i] = n =>
              cache[i] = IF i \in w.todo THEN NoRow ELSE w.snapshot[i]
    /\ \A i \in w.calm :
         w.snapshot[i] = Shown(orders[i]) /\ \A r \in InService : IdOf(r) # i

IInv ==
  /\ TypeOK
  /\ \A r \in Request : Fits(r)
  /\ Locks /\ Ids /\ Told /\ CacheAgrees /\ Fields /\ Untold
  /\ \A n \in Instance : Warming(n)

-----------------------------------------------------------------------------
(* The fields of calls and rows.                                           *)

LEMMA CallFields ==
  ASSUME NEW c \in Call
  PROVE  /\ c.op \in {"create", "update", "patch", "delete"}
         /\ c.id \in OrderId
         /\ c # Nobody
         /\ c.op = "create" => c.status \in OrderStatus
         /\ c.op \in {"update", "patch"} => /\ c.status \in OrderStatus \union {Keep}
                                            /\ c.courier \in Courier \union {Keep}
BY OrdersAssumption DEF Call, Create, Update, Patch, Delete

LEMMA MergedIsRow ==
  ASSUME NEW c \in Call, c.op \in {"update", "patch"}, NEW row \in Row
  PROVE  Merged(c, row) \in Row
BY CallFields DEF Merged, Row

LEMMA ShownOnce ==
  ASSUME NEW row
  PROVE  Shown(Shown(row)) = Shown(row) /\ Shown(NoRow) = NoRow
         /\ (row \in Row \union {NoRow} => Shown(row) \in Row \union {NoRow})
BY DEF Shown

(* A request in service.                                                   *)
LEMMA InServiceFacts ==
  ASSUME IInv, NEW r \in Request, pc[r] \in Serving
  PROVE  /\ r \in InService
         /\ call[r] \in Call /\ call[r] # Nobody /\ IdOf(r) \in OrderId
         /\ answer[r] = NoAnswer /\ r \notin committed
         /\ r # Nobody /\ r \notin Instance
         /\ \A i \in OrderId : i # IdOf(r) => holder[i] # r
         /\ ~ Holding(r) => \A i \in OrderId : holder[i] # r
<1>1. Fits(r) /\ pc[r] \notin {"idle", "answered", "lost"}
  BY DEF IInv, Serving
<1>2. call[r] \in Call /\ call[r] # Nobody
  BY <1>1 DEF Fits, IInv, TypeOK
<1>3. IdOf(r) \in OrderId
  BY <1>2, CallFields DEF IdOf
<1> QED
  BY <1>1, <1>2, <1>3, OrdersAssumption DEF Fits, IInv, Locks, InService

(* An id whose create is not committed is not made.                        *)
LEMMA Unmade ==
  ASSUME IInv, NEW r \in Request, Creates(r), r \notin committed
  PROVE  ~ Made(IdOf(r)) /\ (IdOf(r) \in OrderId => orders[IdOf(r)] = NoRow)
BY DEF IInv, TypeOK, Ids, Made

(* Faults are counted within their bound.                                  *)
LEMMA Spent ==
  ASSUME TypeOK, NEW o \in Outcome, Spend(o)
  PROVE  faultsLeft' \in 0..MaxFaults
BY OrdersAssumption DEF TypeOK, Spend, Outcome

-----------------------------------------------------------------------------
LEMMA InitIInv == Init => IInv
<1> SUFFICES ASSUME Init PROVE IInv
  OBVIOUS
<1>1. TypeOK
  <2>1. NoOrders \in Table
    BY DEF NoOrders, Table
  <2>2. Started("up") \in Start
    BY <2>1 DEF Started, Start
  <2> QED
    BY <2>1, <2>2, OrdersAssumption DEF Init, TypeOK
<1>2. \A r \in Request : Fits(r)
  BY DEF Init, Fits
<1>3. Locks /\ Ids /\ Told
  BY OrdersAssumption DEF Init, Locks, Holding, Ids, Creates, Deletes, Told, NoOrders, NoAnswer, Serving
<1>4. CacheAgrees /\ Fields /\ Untold
  BY ShownOnce, OrdersAssumption
     DEF Init, CacheAgrees, Fields, Untold, NoOrders, InService, Serving
<1>5. \A n \in Instance : Warming(n)
  BY DEF Init, Warming, Started
<1> QED
  BY <1>1, <1>2, <1>3, <1>4, <1>5 DEF IInv

(* A request ends without a commit.  What it has told the hash may stay.   *)
LEMMA EndStep ==
  ASSUME IInv, NEW r \in Request, pc[r] \in Serving,
         NEW code \in {204, 400, 404, 500}, Answer(r, code), Unlock(r),
         code = 204 => Made(IdOf(r)) /\ orders[IdOf(r)] = NoRow,
         UNCHANGED <<orders, committed, draft, buffer, topic, warm>>,
         faultsLeft' \in 0..MaxFaults,
         cache' \in Table, writer' \in [OrderId -> Request \union Instance \union {Nobody}],
         \A i \in OrderId :
           \/ cache'[i] = cache[i] /\ writer'[i] = writer[i]
           \/ /\ holder[i] \in {r, Nobody}
              /\ \/ writer'[i] = r
                 \/ writer'[i] = Nobody /\ cache'[i] = Shown(orders[i])
  PROVE  IInv'
<1>1. /\ r \in InService
      /\ call[r] \in Call /\ call[r] # Nobody /\ IdOf(r) \in OrderId
      /\ answer[r] = NoAnswer /\ r \notin committed
      /\ r # Nobody /\ r \notin Instance
  BY InServiceFacts
<1>2. /\ pc' = [pc EXCEPT ![r] = "answered"] /\ answer' = [answer EXCEPT ![r] = code]
      /\ call' = call /\ on' = on
      /\ holder' = [i \in OrderId |-> IF holder[i] = r THEN Nobody ELSE holder[i]]
  BY DEF Answer, Unlock
<1>3. TypeOK'
  BY <1>2 DEF IInv, TypeOK, Codes
<1>4. /\ \A q \in Request : q # r => pc'[q] = pc[q] /\ answer'[q] = answer[q]
      /\ pc'[r] = "answered" /\ answer'[r] = code
      /\ InService' = InService \ {r}
      /\ \A q : /\ IdOf(q)' = IdOf(q) /\ Creates(q)' = Creates(q) /\ Deletes(q)' = Deletes(q)
                /\ Result(q)' = Result(q)
      /\ \A i : Made(i)' = Made(i)
  BY <1>1, <1>2 DEF IInv, TypeOK, InService, IdOf, Creates, Deletes, Result, Made, Serving
<1>5. \A q \in Request : Fits(q)'
  BY <1>1, <1>2, <1>4 DEF IInv, Fits, Deletes, NoAnswer
<1>6. Locks'
  <2>1. \A q \in Request : q # r => Holding(q)' = Holding(q)
    BY <1>4 DEF Holding
  <2>2. ~ Holding(r)'
    BY <1>4 DEF Holding
  <2>3. \A q \in Request, i \in OrderId : holder'[i] = q <=> q # r /\ holder[i] = q
    BY <1>2, OrdersAssumption
  <2> QED
    <3>1. \A q \in Request, i \in OrderId : holder'[i] = q =>
            /\ Holding(q)' /\ IdOf(q)' = i /\ (orders'[i] = NoRow <=> Creates(q)')
      BY <1>4, <2>1, <2>3 DEF IInv, Locks
    <3>2. ASSUME NEW q \in Request, Holding(q)'
          PROVE  (holder[IdOf(q)] = q \/ (Deletes(q) /\ orders[IdOf(q)] = NoRow))'
      <4>1. q # r /\ Holding(q)
        BY <2>1, <2>2, <3>2
      <4>2. IdOf(q) \in OrderId
        BY <4>1, InServiceFacts DEF Holding, Serving
      <4> QED
        BY <1>4, <2>3, <4>1, <4>2 DEF IInv, Locks
    <3> QED
      BY <3>1, <3>2 DEF Locks
<1>7. Ids' /\ Told'
  BY <1>1, <1>4 DEF IInv, Ids, Told, Serving
<1>8. CacheAgrees'
  BY <1>1, <1>2 DEF IInv, CacheAgrees
<1>9. Fields'
  <2> SUFFICES ASSUME NEW i \in OrderId
               PROVE  /\ \A q \in InService' : writer'[i] = q =>
                           holder'[i] = q /\ Shows(q)' /\ cache'[i] = Shown(Result(q))'
                      /\ \A q \in Request : holder'[i] = q /\ Shows(q)' =>
                           writer'[i] \in {q} \union Instance
    BY DEF Fields
  <2>1. ASSUME NEW q \in InService', writer'[i] = q
        PROVE  holder'[i] = q /\ Shows(q)' /\ cache'[i] = Shown(Result(q))'
    <3>1. q \in InService /\ q # r /\ q \in Request /\ q # Nobody
      BY <1>4, <2>1, OrdersAssumption DEF InService
    <3>2. cache'[i] = cache[i] /\ writer[i] = q
      BY <2>1, <3>1
    <3>3. holder[i] = q /\ Shows(q) /\ cache[i] = Shown(Result(q))
      BY <3>1, <3>2 DEF IInv, Fields
    <3> QED
      BY <1>2, <1>4, <3>1, <3>2, <3>3 DEF Shows, Shown
  <2>2. ASSUME NEW q \in Request, holder'[i] = q, Shows(q)'
        PROVE  writer'[i] \in {q} \union Instance
    <3>1. holder[i] = q /\ q # r /\ q # Nobody
      BY <1>2, <2>2, OrdersAssumption
    <3>2. Shows(q) /\ writer'[i] = writer[i]
      BY <1>4, <2>2, <3>1 DEF Shows
    <3> QED
      BY <3>1, <3>2 DEF IInv, Fields
  <2> QED
    BY <2>1, <2>2
<1>10. \A n \in Instance : Warming(n)'
  <2> SUFFICES ASSUME NEW n \in Instance PROVE Warming(n)'
    OBVIOUS
  <2>1. \A i \in OrderId : writer'[i] = n => writer[i] = n /\ cache'[i] = cache[i]
    BY <1>1, OrdersAssumption
  <2>2. \A i : \A q \in InService' : q \in InService /\ IdOf(q)' = IdOf(q)
    BY <1>4
  <2>3. Warming(n)
    BY DEF IInv
  <2> QED
    BY <2>1, <2>2, <2>3 DEF Warming, Shown
<1>11. Untold'
  BY <1>1, <1>2, <1>4, OrdersAssumption DEF IInv, Untold
<1> QED
  BY <1>3, <1>5, <1>6, <1>7, <1>8, <1>9, <1>10, <1>11 DEF IInv

(* A request goes on: what holds of the others still does, whatever it has *)
(* locked or told the hash, and only what it says of itself is left.       *)
LEMMA GoStep ==
  ASSUME IInv, NEW r \in Request, pc[r] \in Serving,
         NEW l \in Serving, Goto(r, l),
         UNCHANGED <<orders, committed, topic, warm>>,
         faultsLeft' \in 0..MaxFaults,
         buffer' \in [Instance -> Seq(Message)],
         draft' \in [Request -> Row \union {NoRow}],
         \A q \in Request : q # r => draft'[q] = draft[q],
         cache' \in Table, writer' \in [OrderId -> Request \union Instance \union {Nobody}],
         holder' \in [OrderId -> Request \union {Nobody}],
         \A i \in OrderId :
           holder'[i] = holder[i] \/ (holder[i] = Nobody /\ holder'[i] = r /\ i = IdOf(r)),
         \A i \in OrderId :
           \/ cache'[i] = cache[i] /\ writer'[i] = writer[i]
           \/ /\ holder[i] \in {r, Nobody}
              /\ \/ writer'[i] = r
                 \/ writer'[i] = Nobody /\ cache'[i] = Shown(orders[i]),
         Fits(r)',
         ~ Creates(r) /\ l # "find" => Made(IdOf(r)),
         holder'[IdOf(r)] = r => Holding(r)' /\ (orders[IdOf(r)] = NoRow <=> Creates(r)),
         Holding(r)' => holder'[IdOf(r)] = r \/ (Deletes(r) /\ orders[IdOf(r)] = NoRow),
         \A i \in OrderId : writer'[i] = r =>
           holder'[i] = r /\ Shows(r)' /\ cache'[i] = Shown(Result(r)'),
         holder'[IdOf(r)] = r /\ Shows(r)' => writer'[IdOf(r)] \in {r} \union Instance
  PROVE  IInv'
<1>1. /\ r \in InService
      /\ call[r] \in Call /\ call[r] # Nobody /\ IdOf(r) \in OrderId
      /\ answer[r] = NoAnswer /\ r \notin committed
      /\ r # Nobody /\ r \notin Instance
      /\ \A i \in OrderId : i # IdOf(r) => holder[i] # r
  BY InServiceFacts
<1>2. pc' = [pc EXCEPT ![r] = l] /\ call' = call /\ on' = on /\ answer' = answer
  BY DEF Goto
<1>3. TypeOK'
  BY <1>2 DEF IInv, TypeOK
<1>4. /\ \A q \in Request : q # r => pc'[q] = pc[q]
      /\ pc'[r] = l
      /\ InService' = InService
      /\ \A q : IdOf(q)' = IdOf(q) /\ Creates(q)' = Creates(q) /\ Deletes(q)' = Deletes(q)
      /\ \A q \in Request : q # r => Result(q)' = Result(q)
      /\ \A i : Made(i)' = Made(i)
  BY <1>1, <1>2 DEF IInv, TypeOK, InService, IdOf, Creates, Deletes, Result, Made
<1>5. \A q \in Request : Fits(q)'
  BY <1>1, <1>2, <1>4 DEF IInv, Fits, Deletes
<1>6. Locks'
  <2>1. \A q \in Request : q # r => Holding(q)' = Holding(q)
    BY <1>4 DEF Holding
  <2>2. ASSUME NEW q \in Request, NEW i \in OrderId, holder'[i] = q
        PROVE  /\ Holding(q)' /\ IdOf(q)' = i
               /\ orders'[i] = NoRow <=> Creates(q)'
    <3>1. CASE q = r
      BY <1>1, <1>4, <2>2, <3>1
    <3>2. CASE q # r
      BY <1>4, <2>1, <2>2, <3>2 DEF IInv, Locks
    <3> QED
      BY <3>1, <3>2
  <2>3. ASSUME NEW q \in Request, Holding(q)'
        PROVE  (holder[IdOf(q)] = q \/ (Deletes(q) /\ orders[IdOf(q)] = NoRow))'
    <3>1. CASE q = r
      BY <1>4, <2>3, <3>1
    <3>2. CASE q # r
      <4>1. Holding(q) /\ IdOf(q) \in OrderId /\ q # Nobody
        BY <2>1, <2>3, <3>2, InServiceFacts DEF Holding, Serving
      <4> QED
        BY <1>4, <4>1 DEF IInv, Locks
    <3> QED
      BY <3>1, <3>2
  <2> QED
    BY <2>2, <2>3 DEF Locks
<1>7. Ids' /\ Told'
  BY <1>1, <1>2, <1>4 DEF IInv, Ids, Told
<1>8. CacheAgrees'
  BY <1>1, <1>2 DEF IInv, CacheAgrees
<1>9. Fields'
  <2> SUFFICES ASSUME NEW i \in OrderId
               PROVE  /\ \A q \in InService' : writer'[i] = q =>
                           holder'[i] = q /\ Shows(q)' /\ cache'[i] = Shown(Result(q))'
                      /\ \A q \in Request : holder'[i] = q /\ Shows(q)' =>
                           writer'[i] \in {q} \union Instance
    BY DEF Fields
  <2>1. ASSUME NEW q \in InService', writer'[i] = q, q # r
        PROVE  holder'[i] = q /\ Shows(q)' /\ cache'[i] = Shown(Result(q))'
    <3>1. q \in InService /\ q \in Request /\ q # Nobody
      BY <1>4, <2>1, OrdersAssumption DEF InService
    <3>2. cache'[i] = cache[i] /\ writer[i] = q
      BY <2>1, <3>1
    <3>3. holder[i] = q /\ Shows(q) /\ cache[i] = Shown(Result(q))
      BY <3>1, <3>2 DEF IInv, Fields
    <3> QED
      BY <1>2, <1>4, <2>1, <3>1, <3>2, <3>3 DEF Shows, Shown
  <2>2. ASSUME writer'[i] = r
        PROVE  holder'[i] = r /\ Shows(r)' /\ cache'[i] = Shown(Result(r))'
    BY <2>2 DEF Shown
  <2>3. ASSUME NEW q \in Request, holder'[i] = q, Shows(q)', q # r
        PROVE  writer'[i] \in {q} \union Instance
    <3>1. holder[i] = q /\ q # Nobody
      BY <2>3, OrdersAssumption
    <3>2. Shows(q) /\ writer'[i] = writer[i]
      BY <1>4, <2>3, <3>1 DEF Shows
    <3> QED
      BY <3>1, <3>2 DEF IInv, Fields
  <2>4. ASSUME holder'[i] = r, Shows(r)'
        PROVE  writer'[i] \in {r} \union Instance
    BY <1>1, <2>4
  <2> QED
    BY <2>1, <2>2, <2>3, <2>4
<1>10. \A n \in Instance : Warming(n)'
  <2> SUFFICES ASSUME NEW n \in Instance PROVE Warming(n)'
    OBVIOUS
  <2>1. \A i \in OrderId : writer'[i] = n => writer[i] = n /\ cache'[i] = cache[i]
    BY <1>1, OrdersAssumption
  <2>2. Warming(n)
    BY DEF IInv
  <2> QED
    BY <1>4, <2>1, <2>2 DEF Warming, Shown
<1>11. Untold'
  BY <1>1, <1>2, <1>4, OrdersAssumption DEF IInv, Untold, Serving
<1> QED
  BY <1>3, <1>5, <1>6, <1>7, <1>8, <1>9, <1>10, <1>11 DEF IInv

-----------------------------------------------------------------------------
(* The steps of a request.                                                 *)

LEMMA FailStep ==
  ASSUME IInv, NEW r \in Request, pc[r] \in Serving,
         NEW code \in {400, 404, 500}, Rollback(r, code),
         UNCHANGED <<cache, buffer, topic, warm, writer>>,
         faultsLeft' \in 0..MaxFaults
  PROVE  IInv'
<1>1. cache' \in Table /\ writer' \in [OrderId -> Request \union Instance \union {Nobody}]
  BY DEF IInv, TypeOK
<1> QED
  BY <1>1, EndStep DEF Rollback

LEMMA InsertStep ==
  ASSUME IInv, NEW r \in Request, Insert(r)
  PROVE  IInv'
<1>1. pc[r] = "insert" /\ pc[r] \in Serving
  BY DEF Insert, Serving
<1>2. /\ Creates(r) /\ ~ Deletes(r) /\ r \notin committed
      /\ call[r] \in Call /\ IdOf(r) \in OrderId
      /\ call[r].status \in OrderStatus
  BY <1>1, InServiceFacts, CallFields DEF IInv, Fits, Creates, Deletes
<1>3. ~ Made(IdOf(r)) /\ orders[IdOf(r)] = NoRow
  BY <1>2, Unmade
<1>4. holder[IdOf(r)] = Nobody
  <2>1. ASSUME NEW q \in Request, holder[IdOf(r)] = q
        PROVE  FALSE
    <3>1. Creates(q) /\ IdOf(q) = IdOf(r) /\ Holding(q)
      BY <1>2, <1>3, <2>1 DEF IInv, Locks
    <3>2. q = r
      BY <1>2, <3>1 DEF IInv, Ids
    <3> QED
      BY <1>1, <3>1, <3>2 DEF Holding
  <2> QED
    BY <1>2, <2>1 DEF IInv, TypeOK
<1>5. CASE "failed" \in Outcome /\ Spend("failed") /\ \E code \in Thrown(r) : Rollback(r, code)
  <2>1. Thrown(r) \subseteq {400, 404, 500}
    BY DEF Thrown
  <2> QED
    BY <1>1, <1>5, <2>1, FailStep, Spent DEF Insert, IInv
<1>6. CASE /\ draft' = [draft EXCEPT ![r] = [courier |-> NoCourier, status |-> call[r].status]]
           /\ holder' = [holder EXCEPT ![IdOf(r)] = r]
           /\ Goto(r, "put")
           /\ UNCHANGED <<orders, committed, faultsLeft>>
  <2> DEFINE row == [courier |-> NoCourier, status |-> call[r].status]
  <2>1. row \in Row /\ row # NoRow
    BY <1>2, OrdersAssumption DEF Row
  <2>2. pc'[r] = "put" /\ call' = call /\ answer' = answer /\ draft'[r] = row
    BY <1>6 DEF Goto, IInv, TypeOK
  <2>3. Fits(r)'
    BY <1>1, <1>2, <1>6, <2>1, <2>2 DEF IInv, Fits, Deletes, Creates
  <2>4. Holding(r)' /\ ~ Shows(r)'
    BY <1>2, <2>2 DEF Holding, Shows, Deletes
  <2>5. \A i \in OrderId : writer[i] # r
    BY <1>1, <1>2, InServiceFacts DEF IInv, Fields, Shows
  <2>6. /\ draft' \in [Request -> Row \union {NoRow}]
        /\ \A q \in Request : q # r => draft'[q] = draft[q]
        /\ holder' \in [OrderId -> Request \union {Nobody}]
        /\ \A i \in OrderId :
             holder'[i] = holder[i] \/ (holder[i] = Nobody /\ holder'[i] = r /\ i = IdOf(r))
        /\ holder'[IdOf(r)] = r
    BY <1>2, <1>4, <1>6, <2>1 DEF IInv, TypeOK
  <2>7. /\ UNCHANGED <<orders, committed, topic, warm, cache, writer, buffer, faultsLeft>>
        /\ faultsLeft \in 0..MaxFaults /\ buffer \in [Instance -> Seq(Message)]
        /\ cache \in Table /\ writer \in [OrderId -> Request \union Instance \union {Nobody}]
    BY <1>6 DEF Insert, IInv, TypeOK
  <2>8. "put" \in Serving /\ Goto(r, "put")
    BY <1>6 DEF Serving
  <2> QED
    BY <1>1, <1>2, <1>3, <2>3, <2>4, <2>5, <2>6, <2>7, <2>8, GoStep
<1> QED
  BY <1>5, <1>6 DEF Insert

(* Who has not told the hash yet is the writer of no field.                *)
LEMMA NotWriter ==
  ASSUME IInv, NEW r \in Request, pc[r] \in Serving, ~ Shows(r)
  PROVE  \A i \in OrderId : writer[i] # r
BY InServiceFacts DEF IInv, Fields

LEMMA FindStep ==
  ASSUME IInv, NEW r \in Request, Find(r)
  PROVE  IInv'
<1>1. pc[r] = "find" /\ pc[r] \in Serving /\ r \in InService
  BY DEF Find, Serving, InService
<1>2. /\ ~ Creates(r) /\ ~ Holding(r) /\ ~ Shows(r)
      /\ call[r] \in Call /\ IdOf(r) \in OrderId /\ call[r] # Nobody
      /\ \A i \in OrderId : holder[i] # r /\ writer[i] # r
  BY <1>1, InServiceFacts, NotWriter DEF IInv, Fits, Creates, Holding, Shows
<1>3. /\ UNCHANGED <<cache, buffer, topic, warm, writer, orders, committed>>
      /\ faultsLeft \in 0..MaxFaults /\ buffer \in [Instance -> Seq(Message)]
      /\ cache \in Table /\ writer \in [OrderId -> Request \union Instance \union {Nobody}]
      /\ holder \in [OrderId -> Request \union {Nobody}]
      /\ draft \in [Request -> Row \union {NoRow}]
  BY DEF Find, IInv, TypeOK, Rollback
<1>4. CASE "failed" \in Outcome /\ Spend("failed") /\ \E code \in Thrown(r) : Rollback(r, code)
  <2>1. Thrown(r) \subseteq {400, 404, 500}
    BY DEF Thrown
  <2> QED
    BY <1>1, <1>3, <1>4, <2>1, FailStep, Spent DEF IInv
<1>5. CASE Answer(r, 404) /\ UNCHANGED <<holder, orders, committed, draft, faultsLeft>>
  <2>1. Unlock(r)
    BY <1>2, <1>3, <1>5 DEF Unlock
  <2> QED
    BY <1>1, <1>3, <1>5, <2>1, EndStep
<1>6. ASSUME orders[IdOf(r)] # NoRow,
             UNCHANGED <<holder, orders, committed, faultsLeft>>,
             NEW row \in Row, draft' = [draft EXCEPT ![r] = row],
             NEW l \in {"publish", "write"}, Goto(r, l),
             l = "publish" <=> Deletes(r)
      PROVE  IInv'
  <2>1. l \in Serving /\ row # NoRow
    BY OrdersAssumption DEF Serving
  <2>2. pc'[r] = l /\ call' = call /\ answer' = answer /\ draft'[r] = row
    BY <1>3, <1>6 DEF Goto, IInv, TypeOK
  <2>3. Fits(r)'
    <3>1. call[r].op \in {"create", "update", "patch", "delete"}
      BY <1>2, CallFields
    <3> QED
      BY <1>1, <1>2, <1>3, <1>6, <2>1, <2>2, <3>1 DEF IInv, Fits, Deletes, Creates
  <2>4. ~ Holding(r)' /\ ~ Shows(r)'
    BY <1>6, <2>2 DEF Holding, Shows, Deletes
  <2>5. Made(IdOf(r))
    BY <1>2, <1>6 DEF IInv, Ids
  <2>6. /\ draft' \in [Request -> Row \union {NoRow}]
        /\ \A q \in Request : q # r => draft'[q] = draft[q]
    BY <1>3, <1>6
  <2> QED
    BY <1>1, <1>2, <1>3, <1>6, <2>1, <2>3, <2>4, <2>5, <2>6, GoStep
<1>7. CASE /\ orders[IdOf(r)] # NoRow
           /\ \/ /\ call[r].op = "delete"
                 /\ draft' = [draft EXCEPT ![r] = orders[IdOf(r)]]
                 /\ Goto(r, "publish")
              \/ /\ call[r].op \in {"update", "patch"}
                 /\ draft' = [draft EXCEPT ![r] = Merged(call[r], orders[IdOf(r)])]
                 /\ Goto(r, "write")
           /\ UNCHANGED <<holder, orders, committed, faultsLeft>>
  <2>1. orders[IdOf(r)] \in Row
    BY <1>2, <1>7 DEF IInv, TypeOK, Table
  <2>2. CASE call[r].op = "delete" /\ draft' = [draft EXCEPT ![r] = orders[IdOf(r)]]
             /\ Goto(r, "publish")
    <3>1. Deletes(r)
      BY <1>2, <2>2 DEF Deletes
    <3> QED
      BY <1>6, <1>7, <2>1, <2>2, <3>1
  <2>3. CASE /\ call[r].op \in {"update", "patch"}
             /\ draft' = [draft EXCEPT ![r] = Merged(call[r], orders[IdOf(r)])]
             /\ Goto(r, "write")
    <3>1. ~ Deletes(r) /\ Merged(call[r], orders[IdOf(r)]) \in Row
      BY <1>2, <2>1, <2>3, MergedIsRow DEF Deletes
    <3> QED
      BY <1>6, <1>7, <2>3, <3>1
  <2> QED
    BY <1>7, <2>2, <2>3
<1> QED
  BY <1>4, <1>5, <1>7 DEF Find

LEMMA WriteStep ==
  ASSUME IInv, NEW r \in Request, Write(r)
  PROVE  IInv'
<1>1. pc[r] = "write" /\ pc[r] \in Serving /\ ~ Shows(r) /\ holder[IdOf(r)] = Nobody
  BY DEF Write, Serving, Shows, Locked
<1>2. /\ ~ Creates(r) /\ ~ Deletes(r) /\ draft[r] # NoRow
      /\ IdOf(r) \in OrderId /\ call[r] # Nobody /\ Made(IdOf(r))
      /\ \A i \in OrderId : writer[i] # r
  BY <1>1, InServiceFacts, NotWriter DEF IInv, Fits, Creates, Deletes, Ids
<1>3. /\ UNCHANGED <<cache, buffer, topic, warm, writer, orders, committed, draft>>
      /\ faultsLeft \in 0..MaxFaults /\ buffer \in [Instance -> Seq(Message)]
      /\ cache \in Table /\ writer \in [OrderId -> Request \union Instance \union {Nobody}]
      /\ holder \in [OrderId -> Request \union {Nobody}]
      /\ draft \in [Request -> Row \union {NoRow}]
  BY DEF Write, IInv, TypeOK, Rollback
<1>4. CASE Rollback(r, 500)
  BY <1>1, <1>3, <1>4, FailStep, Spent DEF IInv, Write, Goto
<1>5. CASE /\ orders[IdOf(r)] # NoRow
           /\ holder' = [holder EXCEPT ![IdOf(r)] = r]
           /\ Goto(r, "put")
           /\ UNCHANGED <<orders, committed, draft, faultsLeft>>
  <2>1. pc'[r] = "put" /\ call' = call /\ answer' = answer /\ "put" \in Serving
    BY <1>5 DEF Goto, IInv, TypeOK, Serving
  <2>2. Fits(r)' /\ Holding(r)' /\ ~ Shows(r)'
    BY <1>1, <1>2, <1>3, <2>1 DEF IInv, Fits, Deletes, Holding, Shows
  <2>3. /\ holder' \in [OrderId -> Request \union {Nobody}]
        /\ \A i \in OrderId :
             holder'[i] = holder[i] \/ (holder[i] = Nobody /\ holder'[i] = r /\ i = IdOf(r))
        /\ holder'[IdOf(r)] = r
    BY <1>1, <1>2, <1>3, <1>5
  <2> QED
    BY <1>1, <1>2, <1>3, <1>5, <2>1, <2>2, <2>3, GoStep
<1> QED
  BY <1>4, <1>5 DEF Write

LEMMA PutStep ==
  ASSUME IInv, NEW r \in Request, Put(r)
  PROVE  IInv'
<1> DEFINE i == IdOf(r)
<1>1. pc[r] = "put" /\ pc[r] \in Serving /\ Holding(r) /\ ~ Deletes(r) /\ ~ Shows(r)
  BY DEF Put, Serving, Holding, Shows, IInv, Fits
<1>2. /\ i \in OrderId /\ call[r] # Nobody /\ draft[r] # NoRow
      /\ holder[i] = r /\ (orders[i] = NoRow <=> Creates(r))
      /\ ~ Creates(r) => Made(i)
      /\ \A j \in OrderId : writer[j] # r
  BY <1>1, InServiceFacts, NotWriter DEF IInv, Fits, Locks, Ids, Serving
<1>3. /\ UNCHANGED <<buffer, topic, warm>>
      /\ buffer \in [Instance -> Seq(Message)]
      /\ cache \in Table /\ writer \in [OrderId -> Request \union Instance \union {Nobody}]
      /\ holder \in [OrderId -> Request \union {Nobody}]
      /\ draft \in [Request -> Row \union {NoRow}]
  BY DEF Put, IInv, TypeOK
<1>4. PICK o \in Outcome :
         /\ Spend(o)
         /\ \/ Took(o) /\ PutCached(i, draft[r]) /\ Wrote(i, r)
            \/ ~ Took(o) /\ UNCHANGED <<cache, writer>>
         /\ \/ /\ o = "ok"
               /\ Goto(r, "publish")
               /\ UNCHANGED <<orders, holder, committed, draft>>
            \/ o # "ok" /\ Rollback(r, 500)
  BY DEF Put
<1>5. faultsLeft' \in 0..MaxFaults
  BY <1>4, Spent DEF IInv
<1>6. ASSUME PutCached(i, draft[r]), Wrote(i, r)
      PROVE  /\ cache' = [cache EXCEPT ![i] = Shown(draft[r])]
             /\ writer' = [writer EXCEPT ![i] = r]
             /\ cache' \in Table
             /\ writer' \in [OrderId -> Request \union Instance \union {Nobody}]
  BY <1>3, <1>6, ShownOnce DEF PutCached, Wrote, Table
<1>7. CASE o = "ok"
  <2>1. /\ cache' = [cache EXCEPT ![i] = Shown(draft[r])]
        /\ writer' = [writer EXCEPT ![i] = r]
        /\ cache' \in Table
        /\ writer' \in [OrderId -> Request \union Instance \union {Nobody}]
        /\ Goto(r, "publish")
        /\ UNCHANGED <<orders, holder, committed, draft>>
    BY <1>4, <1>6, <1>7 DEF Took
  <2>2. pc'[r] = "publish" /\ call' = call /\ answer' = answer /\ "publish" \in Serving
    BY <2>1 DEF Goto, IInv, TypeOK, Serving
  <2>3. /\ Fits(r)' /\ Holding(r)' /\ Shows(r)'
        /\ Result(r)' = draft[r]
    BY <1>1, <1>2, <2>1, <2>2 DEF IInv, Fits, Deletes, Holding, Shows, Result
  <2>4. /\ cache'[i] = Shown(Result(r)') /\ writer'[i] = r
        /\ \A j \in OrderId : j # i => cache'[j] = cache[j] /\ writer'[j] = writer[j]
    BY <1>2, <1>3, <2>1, <2>3 DEF Table
  <2>5. \A j \in OrderId : writer'[j] = r =>
          holder'[j] = r /\ Shows(r)' /\ cache'[j] = Shown(Result(r)')
    BY <1>2, <2>1, <2>3, <2>4
  <2>6. \A j \in OrderId :
          \/ cache'[j] = cache[j] /\ writer'[j] = writer[j]
          \/ /\ holder[j] \in {r, Nobody}
             /\ \/ writer'[j] = r
                \/ writer'[j] = Nobody /\ cache'[j] = Shown(orders[j])
    BY <1>2, <2>4
  <2> QED
    BY <1>1, <1>2, <1>3, <1>5, <2>1, <2>2, <2>3, <2>4, <2>5, <2>6, GoStep
<1>8. CASE o # "ok"
  <2>1. Rollback(r, 500)
    BY <1>4, <1>8
  <2>2. CASE UNCHANGED <<cache, writer>>
    BY <1>1, <1>3, <1>5, <2>1, <2>2, FailStep
  <2>3. CASE PutCached(i, draft[r]) /\ Wrote(i, r)
    <3>1. \A j \in OrderId :
            \/ cache'[j] = cache[j] /\ writer'[j] = writer[j]
            \/ holder[j] \in {r, Nobody} /\ writer'[j] = r
      BY <1>2, <1>3, <1>6, <2>3 DEF Table
    <3> QED
      BY <1>1, <1>3, <1>5, <1>6, <2>1, <2>3, <3>1, EndStep DEF Rollback
  <2> QED
    BY <1>4, <2>2, <2>3
<1> QED
  BY <1>7, <1>8

LEMMA EventIsMessage ==
  ASSUME IInv, NEW r \in Request, pc[r] = "publish"
  PROVE  EventOf(r) \in Message
<1>1. call[r] \in Call /\ IdOf(r) \in OrderId
  BY InServiceFacts DEF Serving
<1>2. draft[r] \in Row
  BY DEF IInv, TypeOK, Fits
<1>3. TypeOf(r) \in EventType
  BY DEF TypeOf, EventType
<1> QED
  BY <1>1, <1>2, <1>3 DEF EventOf, Message, Row

LEMMA PublishStep ==
  ASSUME IInv, NEW r \in Request, Publish(r)
  PROVE  IInv'
<1> DEFINE l == IF call[r].op = "delete" THEN "erase" ELSE "commit"
<1>1. pc[r] = "publish" /\ pc[r] \in Serving
  BY DEF Publish, Serving
<1>2. /\ IdOf(r) \in OrderId /\ call[r] # Nobody
      /\ ~ Creates(r) => Made(IdOf(r))
      /\ draft[r] # NoRow /\ on[r] \in Instance
  BY <1>1, InServiceFacts DEF IInv, Fits, Ids, Serving, TypeOK
<1>3. /\ UNCHANGED <<cache, topic, warm, writer, orders, committed, draft>>
      /\ faultsLeft \in 0..MaxFaults /\ buffer \in [Instance -> Seq(Message)]
      /\ cache \in Table /\ writer \in [OrderId -> Request \union Instance \union {Nobody}]
      /\ holder \in [OrderId -> Request \union {Nobody}]
      /\ draft \in [Request -> Row \union {NoRow}]
  BY DEF Publish, IInv, TypeOK, Rollback
<1>4. CASE Rollback(r, 500) /\ UNCHANGED buffer /\ Spend("failed") /\ "failed" \in Outcome
  BY <1>1, <1>3, <1>4, FailStep, Spent DEF IInv
<1>5. CASE /\ buffer' = [buffer EXCEPT ![on[r]] = Append(@, EventOf(r))]
           /\ Goto(r, l)
           /\ UNCHANGED <<orders, holder, committed, draft, faultsLeft>>
  <2>1. pc'[r] = l /\ call' = call /\ answer' = answer /\ l \in Serving
    BY <1>5 DEF Goto, IInv, TypeOK, Serving
  <2>2. buffer' \in [Instance -> Seq(Message)]
    BY <1>1, <1>2, <1>3, <1>5, EventIsMessage
  <2>3. Fits(r)'
    BY <1>1, <1>2, <1>3, <2>1 DEF IInv, Fits, Deletes
  <2>4. /\ Holding(r)' = Holding(r) /\ Shows(r)' = Shows(r)
        /\ Result(r)' = Result(r)
    BY <1>1, <1>2, <1>3, <2>1 DEF Holding, Shows, Deletes, Result
  <2>5. /\ holder[IdOf(r)] = r => Holding(r) /\ (orders[IdOf(r)] = NoRow <=> Creates(r))
        /\ Holding(r) => holder[IdOf(r)] = r \/ (Deletes(r) /\ orders[IdOf(r)] = NoRow)
    BY <1>2 DEF IInv, Locks
  <2>6. /\ \A i \in OrderId : writer[i] = r =>
             holder[i] = r /\ Shows(r) /\ cache[i] = Shown(Result(r))
        /\ holder[IdOf(r)] = r /\ Shows(r) => writer[IdOf(r)] \in {r} \union Instance
    BY <1>1, <1>2, InServiceFacts DEF IInv, Fields
  <2> QED
    BY <1>1, <1>2, <1>3, <1>5, <2>1, <2>2, <2>3, <2>4, <2>5, <2>6, GoStep
<1> QED
  BY <1>4, <1>5 DEF Publish

LEMMA EraseStep ==
  ASSUME IInv, NEW r \in Request, Erase(r)
  PROVE  IInv'
<1>1. pc[r] = "erase" /\ pc[r] \in Serving /\ ~ Shows(r) /\ holder[IdOf(r)] = Nobody
  BY DEF Erase, Serving, Shows, Locked
<1>2. /\ ~ Creates(r) /\ Deletes(r)
      /\ IdOf(r) \in OrderId /\ call[r] # Nobody /\ Made(IdOf(r))
      /\ \A i \in OrderId : writer[i] # r
  BY <1>1, InServiceFacts, NotWriter DEF IInv, Fits, Creates, Deletes, Ids
<1>3. /\ UNCHANGED <<cache, buffer, topic, warm, writer, orders, committed, draft>>
      /\ faultsLeft \in 0..MaxFaults /\ buffer \in [Instance -> Seq(Message)]
      /\ cache \in Table /\ writer \in [OrderId -> Request \union Instance \union {Nobody}]
      /\ holder \in [OrderId -> Request \union {Nobody}]
      /\ draft \in [Request -> Row \union {NoRow}]
  BY DEF Erase, IInv, TypeOK, Rollback
<1>4. CASE Rollback(r, 500) /\ Spend("failed") /\ "failed" \in Outcome
  BY <1>1, <1>3, <1>4, FailStep, Spent DEF IInv
<1>5. CASE /\ holder' = IF orders[IdOf(r)] = NoRow THEN holder
                        ELSE [holder EXCEPT ![IdOf(r)] = r]
           /\ Goto(r, "remove")
           /\ UNCHANGED <<orders, committed, draft, faultsLeft>>
  <2>1. pc'[r] = "remove" /\ call' = call /\ answer' = answer /\ "remove" \in Serving
    BY <1>5 DEF Goto, IInv, TypeOK, Serving
  <2>2. Fits(r)' /\ Holding(r)' /\ ~ Shows(r)'
    BY <1>1, <1>2, <1>3, <2>1 DEF IInv, Fits, Deletes, Holding, Shows
  <2>3. /\ holder' \in [OrderId -> Request \union {Nobody}]
        /\ \A i \in OrderId :
             holder'[i] = holder[i] \/ (holder[i] = Nobody /\ holder'[i] = r /\ i = IdOf(r))
        /\ holder'[IdOf(r)] = r <=> orders[IdOf(r)] # NoRow
    BY <1>1, <1>2, <1>3, <1>5, OrdersAssumption
  <2> QED
    BY <1>1, <1>2, <1>3, <1>5, <2>1, <2>2, <2>3, GoStep
<1> QED
  BY <1>4, <1>5 DEF Erase

(* A row that is gone, once made, is nobody's.                             *)
LEMMA GoneIsFree ==
  ASSUME IInv, NEW i \in OrderId, Made(i), orders[i] = NoRow
  PROVE  holder[i] = Nobody
<1>1. ASSUME NEW q \in Request, holder[i] = q
      PROVE  FALSE
  <2>1. Creates(q) /\ IdOf(q) = i /\ Holding(q)
    BY <1>1 DEF IInv, Locks
  <2>2. q \notin committed
    BY <2>1, InServiceFacts DEF Holding, Serving
  <2> QED
    BY <2>1, <2>2, Unmade
<1> QED
  BY <1>1 DEF IInv, TypeOK

LEMMA RemoveStep ==
  ASSUME IInv, NEW r \in Request, RemoveCached(r)
  PROVE  IInv'
<1> DEFINE i == IdOf(r)
           who == IF holder[i] = r THEN r ELSE Nobody
<1>1. pc[r] = "remove" /\ pc[r] \in Serving /\ ~ Shows(r)
  BY DEF RemoveCached, Serving, Shows
<1>2. /\ ~ Creates(r) /\ Deletes(r) /\ Holding(r)
      /\ i \in OrderId /\ call[r] # Nobody /\ Made(i) /\ r # Nobody
      /\ \A j \in OrderId : writer[j] # r
  BY <1>1, InServiceFacts, NotWriter DEF IInv, Fits, Creates, Deletes, Ids, Holding
<1>3. \/ holder[i] = r /\ orders[i] # NoRow
      \/ holder[i] = Nobody /\ orders[i] = NoRow
  <2>1. CASE holder[i] = r
    BY <1>2, <2>1 DEF IInv, Locks
  <2>2. CASE holder[i] # r
    <3>1. orders[i] = NoRow
      BY <1>2, <2>2 DEF IInv, Locks
    <3> QED
      BY <1>2, <3>1, GoneIsFree
  <2> QED
    BY <2>1, <2>2
<1>4. /\ UNCHANGED <<buffer, topic, warm>>
      /\ buffer \in [Instance -> Seq(Message)]
      /\ cache \in Table /\ writer \in [OrderId -> Request \union Instance \union {Nobody}]
      /\ holder \in [OrderId -> Request \union {Nobody}]
      /\ draft \in [Request -> Row \union {NoRow}]
  BY DEF RemoveCached, IInv, TypeOK
<1>5. PICK o \in Outcome :
         /\ Spend(o)
         /\ \/ /\ Took(o)
               /\ cache' = [cache EXCEPT ![i] = NoRow]
               /\ Wrote(i, who)
            \/ ~ Took(o) /\ UNCHANGED <<cache, writer>>
         /\ \/ /\ o = "ok"
               /\ Goto(r, "commit")
               /\ UNCHANGED <<orders, holder, committed, draft>>
            \/ o # "ok" /\ Rollback(r, 500)
  BY DEF RemoveCached
<1>6. faultsLeft' \in 0..MaxFaults
  BY <1>5, Spent DEF IInv
<1>7. ASSUME cache' = [cache EXCEPT ![i] = NoRow], Wrote(i, who)
      PROVE  /\ cache' \in Table
             /\ writer' \in [OrderId -> Request \union Instance \union {Nobody}]
             /\ cache'[i] = NoRow /\ writer'[i] = who
             /\ \A j \in OrderId : j # i => cache'[j] = cache[j] /\ writer'[j] = writer[j]
             /\ \A j \in OrderId :
                  \/ cache'[j] = cache[j] /\ writer'[j] = writer[j]
                  \/ /\ holder[j] \in {r, Nobody}
                     /\ \/ writer'[j] = r
                        \/ writer'[j] = Nobody /\ cache'[j] = Shown(orders[j])
  <2>1. /\ cache' \in Table
        /\ writer' \in [OrderId -> Request \union Instance \union {Nobody}]
        /\ cache'[i] = NoRow /\ writer'[i] = who
        /\ \A j \in OrderId : j # i => cache'[j] = cache[j] /\ writer'[j] = writer[j]
    BY <1>2, <1>4, <1>7 DEF Wrote, Table
  <2>2. Shown(NoRow) = NoRow
    BY ShownOnce
  <2> QED
    BY <1>2, <1>3, <2>1, <2>2
<1>8. CASE o = "ok"
  <2>1. cache' = [cache EXCEPT ![i] = NoRow] /\ Wrote(i, who)
    BY <1>5, <1>8 DEF Took
  <2>2. Goto(r, "commit") /\ UNCHANGED <<orders, holder, committed, draft>>
    BY <1>5, <1>8
  <2>3. pc'[r] = "commit" /\ call' = call /\ answer' = answer /\ "commit" \in Serving
    BY <2>2 DEF Goto, IInv, TypeOK, Serving
  <2>4. Fits(r)' /\ Holding(r)' /\ Shows(r)' /\ Result(r)' = NoRow
    BY <1>1, <1>2, <2>2, <2>3 DEF IInv, Fits, Deletes, Holding, Shows, Result
  <2>5. \A j \in OrderId : writer'[j] = r =>
          holder'[j] = r /\ Shows(r)' /\ cache'[j] = Shown(Result(r)')
    BY <1>2, <1>3, <1>7, <2>1, <2>2, <2>4, ShownOnce
  <2>6. holder'[i] = r => writer'[i] = r
    BY <1>7, <2>1, <2>2
  <2> HIDE DEF who
  <2> QED
    BY <1>1, <1>2, <1>3, <1>4, <1>6, <1>7, <2>1, <2>2, <2>3, <2>4, <2>5, <2>6, GoStep
<1>9. CASE o # "ok"
  <2>1. Rollback(r, 500)
    BY <1>5, <1>9
  <2>2. CASE UNCHANGED <<cache, writer>>
    BY <1>1, <1>4, <1>6, <2>1, <2>2, FailStep
  <2>3. CASE cache' = [cache EXCEPT ![i] = NoRow] /\ Wrote(i, who)
    <3>1. /\ Unlock(r) /\ Answer(r, 500) /\ UNCHANGED <<orders, committed, draft>>
      BY <2>1 DEF Rollback
    <3>2. /\ cache' \in Table
          /\ writer' \in [OrderId -> Request \union Instance \union {Nobody}]
          /\ \A j \in OrderId :
               \/ cache'[j] = cache[j] /\ writer'[j] = writer[j]
               \/ /\ holder[j] \in {r, Nobody}
                  /\ \/ writer'[j] = r
                     \/ writer'[j] = Nobody /\ cache'[j] = Shown(orders[j])
      BY <1>7, <2>3
    <3> HIDE DEF who, i
    <3> QED
      BY <1>1, <1>4, <1>6, <3>1, <3>2, EndStep
  <2> QED
    BY <1>5, <2>2, <2>3
<1> QED
  BY <1>8, <1>9

(* The commit: the row becomes what the hash was told, or, when a delete   *)
(* found no row, nothing changes.                                          *)
LEMMA CommitStep ==
  ASSUME IInv, NEW r \in Request, Commit(r)
  PROVE  IInv'
<1> DEFINE i == IdOf(r)
<1>1. pc[r] = "commit" /\ pc[r] \in Serving /\ Holding(r) /\ Shows(r)
  BY DEF Commit, Serving, Shows, Holding
<1>2. /\ r \in InService
      /\ call[r] \in Call /\ call[r] # Nobody /\ i \in OrderId
      /\ answer[r] = NoAnswer /\ r \notin committed
      /\ r # Nobody /\ r \notin Instance
      /\ \A j \in OrderId : j # i => holder[j] # r
  BY <1>1, InServiceFacts
<1>3. /\ ~ Creates(r) => Made(i)
      /\ Deletes(r) <=> call[r].op = "delete"
      /\ Creates(r) <=> call[r].op = "create"
      /\ ~ Deletes(r) => draft[r] # NoRow
  BY <1>1, <1>2 DEF IInv, Ids, Serving, Deletes, Creates, Fits
<1>4. PICK o \in Outcome :
         /\ Spend(o)
         /\ \/ /\ Took(o)
               /\ holder[i] = r
               /\ orders' = [orders EXCEPT ![i] = Result(r)]
               /\ committed' = committed \union {r}
            \/ /\ ~ (Took(o) /\ holder[i] = r)
               /\ UNCHANGED <<orders, committed>>
         /\ Answer(r, IF o = "ok" THEN Success(r) ELSE 500)
  BY DEF Commit
<1> DEFINE code == IF o = "ok" THEN Success(r) ELSE 500
<1>5. Answer(r, code) /\ Unlock(r) /\ UNCHANGED <<cache, buffer, topic, draft, warm, writer>>
  BY <1>4 DEF Commit
<1>6. faultsLeft' \in 0..MaxFaults
  BY <1>4, Spent DEF IInv
<1>7. code \in {200, 201, 204, 500} /\ (code = 204 => Deletes(r))
  BY <1>3 DEF Success
<1>8. CASE ~ (Took(o) /\ holder[i] = r)
  <2>1. UNCHANGED <<orders, committed>>
    BY <1>4, <1>8
  <2>2. o = "ok" => Deletes(r) /\ orders[i] = NoRow /\ ~ Creates(r)
    BY <1>1, <1>3, <1>8 DEF IInv, Locks, Took
  <2>3. code \in {204, 400, 404, 500} /\ (code = 204 => Made(i) /\ orders[i] = NoRow)
    BY <1>3, <2>2 DEF Success
  <2>4. cache \in Table /\ writer \in [OrderId -> Request \union Instance \union {Nobody}]
    BY DEF IInv, TypeOK
  <2> HIDE DEF code
  <2> QED
    BY <1>1, <1>5, <1>6, <2>1, <2>3, <2>4, EndStep
<1>9. CASE Took(o) /\ holder[i] = r
  <2>1. orders' = [orders EXCEPT ![i] = Result(r)] /\ committed' = committed \union {r}
    BY <1>4, <1>9
  <2>2. /\ orders[i] = NoRow <=> Creates(r)
        /\ Result(r) = NoRow <=> Deletes(r)
        /\ Result(r) \in Row \union {NoRow}
    BY <1>2, <1>3, <1>9 DEF IInv, Locks, TypeOK, Result
  <2>3. /\ pc' = [pc EXCEPT ![r] = "answered"] /\ answer' = [answer EXCEPT ![r] = code]
        /\ call' = call /\ on' = on
        /\ holder' = [j \in OrderId |-> IF holder[j] = r THEN Nobody ELSE holder[j]]
    BY <1>5 DEF Answer, Unlock
  <2> HIDE DEF code
  <2>4. /\ \A q \in Request : q # r => pc'[q] = pc[q] /\ answer'[q] = answer[q]
        /\ pc'[r] = "answered" /\ answer'[r] = code
        /\ InService' = InService \ {r}
        /\ \A q : /\ IdOf(q)' = IdOf(q) /\ Creates(q)' = Creates(q) /\ Deletes(q)' = Deletes(q)
                  /\ Result(q)' = Result(q)
        /\ \A j : Made(j) => Made(j)'
        /\ Creates(r) => Made(i)'
    BY <1>2, <1>5, <2>1, <2>3
       DEF IInv, TypeOK, InService, IdOf, Creates, Deletes, Result, Made, Serving
  <2>5. /\ orders'[i] = Result(r)
        /\ \A j \in OrderId : j # i => orders'[j] = orders[j]
        /\ orders' \in Table
    BY <1>2, <2>1, <2>2 DEF IInv, TypeOK, Table
  <2>6. TypeOK'
    BY <1>2, <1>5, <1>6, <1>7, <2>1, <2>3, <2>5 DEF IInv, TypeOK, Codes
  <2>7. \A q \in Request : Fits(q)'
    BY <1>2, <1>5, <2>1, <2>3, <2>4 DEF IInv, Fits, Deletes, NoAnswer
  <2>8. Creates(r) => ~ Made(i)
    BY <1>2, Unmade
  <2>9. Locks'
    <3>1. \A q \in Request : q # r => Holding(q)' = Holding(q)
      BY <2>4 DEF Holding
    <3>2. ~ Holding(r)'
      BY <2>4 DEF Holding
    <3>3. \A q \in Request, j \in OrderId : holder'[j] = q <=> q # r /\ holder[j] = q
      BY <2>3, OrdersAssumption
    <3>4. ASSUME NEW q \in Request, NEW j \in OrderId, holder'[j] = q
          PROVE  Holding(q)' /\ IdOf(q)' = j /\ (orders'[j] = NoRow <=> Creates(q)')
      <4>1. q # r /\ holder[j] = q /\ j # i
        BY <1>9, <3>3, <3>4
      <4> QED
        BY <2>4, <2>5, <3>1, <4>1 DEF IInv, Locks
    <3>5. ASSUME NEW q \in Request, Holding(q)'
          PROVE  (holder[IdOf(q)] = q \/ (Deletes(q) /\ orders[IdOf(q)] = NoRow))'
      <4>1. q # r /\ Holding(q)
        BY <3>1, <3>2, <3>5
      <4>2. IdOf(q) \in OrderId
        BY <4>1, InServiceFacts DEF Holding, Serving
      <4>3. CASE holder[IdOf(q)] = q
        BY <2>4, <3>3, <4>1, <4>2, <4>3
      <4>4. CASE Deletes(q) /\ orders[IdOf(q)] = NoRow
        <5>1. Made(IdOf(q))
          BY <4>1, <4>4 DEF IInv, Ids, Holding, Deletes, Creates, Serving
        <5>2. IdOf(q) # i
          BY <2>2, <2>8, <4>4, <5>1
        <5> QED
          BY <2>4, <2>5, <4>2, <4>4, <5>2
      <4> QED
        BY <4>1, <4>3, <4>4 DEF IInv, Locks
    <3> QED
      BY <3>4, <3>5 DEF Locks
  <2>10. Ids'
    <3>1. \A j \in OrderId : orders'[j] # NoRow => Made(j)'
      <4> SUFFICES ASSUME NEW j \in OrderId, orders'[j] # NoRow PROVE Made(j)'
        OBVIOUS
      <4>1. CASE j = i
        BY <1>3, <2>4, <4>1
      <4>2. CASE j # i
        BY <2>4, <2>5, <4>2 DEF IInv, Ids
      <4> QED
        BY <4>1, <4>2
    <3>2. ASSUME NEW q \in Request,
                 ((r = q \/ q \in committed) /\ Deletes(q)) \/ answer'[q] = 204
          PROVE  Made(IdOf(q))' /\ orders'[IdOf(q)] = NoRow
      <4>1. CASE q = r
        <5>1. Deletes(r) /\ ~ Creates(r)
          BY <1>3, <1>7, <2>4, <3>2, <4>1
        <5> QED
          BY <1>3, <2>2, <2>4, <2>5, <4>1, <5>1
      <4>2. CASE q # r
        <5>1. Made(IdOf(q)) /\ orders[IdOf(q)] = NoRow
          BY <2>4, <3>2, <4>2 DEF IInv, Ids
        <5>2. IdOf(q) # i
          BY <2>2, <2>8, <5>1
        <5>3. IdOf(q) \in OrderId
          <6>1. PICK p \in committed : Creates(p) /\ IdOf(p) = IdOf(q)
            BY <5>1 DEF Made
          <6> QED
            BY <6>1, CallFields DEF IInv, TypeOK, Creates, IdOf
        <5> QED
          BY <2>4, <2>5, <5>1, <5>2, <5>3
      <4> QED
        BY <4>1, <4>2
    <3>3. \A q \in Request : ~ Creates(q)' /\ pc'[q] \in Serving \ {"find"} => Made(IdOf(q))'
      BY <2>4 DEF IInv, Ids, Serving
    <3>4. \A p, q \in Request : Creates(p)' /\ Creates(q)' /\ IdOf(p)' = IdOf(q)' => p = q
      BY <2>4 DEF IInv, Ids
    <3> QED
      BY <2>1, <2>4, <3>1, <3>2, <3>3, <3>4 DEF Ids
  <2>11. Told'
    BY <1>2, <1>7, <2>1, <2>4 DEF IInv, Told
  <2>12. /\ writer[i] = r => cache[i] = Shown(Result(r))
         /\ writer[i] \in {r} \union Instance
         /\ \A j \in OrderId : writer[j] = r => j = i
    BY <1>1, <1>2, <1>9 DEF IInv, Fields
  <2>13. CacheAgrees'
    <3> SUFFICES ASSUME NEW j \in OrderId, writer'[j] \in committed' \union {Nobody}
                 PROVE  cache'[j] = Shown(orders'[j])
      BY DEF CacheAgrees, Shown
    <3>1. CASE j = i
      <4>1. writer[i] = r
        BY <1>5, <2>1, <2>12, <3>1, OrdersAssumption DEF IInv, TypeOK
      <4> QED
        BY <1>5, <2>5, <2>12, <3>1, <4>1
    <3>2. CASE j # i
      <4>1. writer[j] \in committed \union {Nobody}
        BY <1>5, <2>1, <2>12, <3>2
      <4> QED
        BY <1>5, <2>5, <3>2, <4>1 DEF IInv, CacheAgrees
    <3> QED
      BY <3>1, <3>2
  <2>14. Fields'
    <3> SUFFICES ASSUME NEW j \in OrderId
                 PROVE  /\ \A q \in InService' : writer'[j] = q =>
                             holder'[j] = q /\ Shows(q)' /\ cache'[j] = Shown(Result(q))'
                        /\ \A q \in Request : holder'[j] = q /\ Shows(q)' =>
                             writer'[j] \in {q} \union Instance
      BY DEF Fields
    <3>1. ASSUME NEW q \in InService', writer'[j] = q
          PROVE  holder'[j] = q /\ Shows(q)' /\ cache'[j] = Shown(Result(q))'
      <4>1. q \in InService /\ q # r /\ q \in Request /\ writer[j] = q
        BY <1>5, <2>4, <3>1 DEF InService
      <4>2. holder[j] = q /\ Shows(q) /\ cache[j] = Shown(Result(q))
        BY <4>1 DEF IInv, Fields
      <4> QED
        BY <1>5, <2>3, <2>4, <4>1, <4>2 DEF Shows, Shown
    <3>2. ASSUME NEW q \in Request, holder'[j] = q, Shows(q)'
          PROVE  writer'[j] \in {q} \union Instance
      <4>1. holder[j] = q /\ q # r
        BY <2>3, <3>2, OrdersAssumption
      <4> QED
        BY <1>5, <2>4, <3>2, <4>1 DEF IInv, Fields, Shows
    <3> QED
      BY <3>1, <3>2
  <2>15. Untold'
    BY <1>5, <2>4 DEF IInv, Untold
  <2>16. \A n \in Instance : Warming(n)'
    <3> SUFFICES ASSUME NEW n \in Instance PROVE Warming(n)'
      OBVIOUS
    <3>1. \A q \in InService' : q \in InService /\ IdOf(q)' = IdOf(q)
      BY <2>4
    <3>2. Warming(n)
      BY DEF IInv
    <3>3. warm[n].phase \in {"clear", "fill"} => i \notin warm[n].calm
      BY <1>2, <3>2 DEF Warming
    <3>4. warm[n].calm \subseteq OrderId
      BY DEF IInv, TypeOK, Start
    <3>5. warm' = warm /\ writer' = writer /\ cache' = cache
      BY <1>5
    <3>6. warm[n].phase \in {"clear", "fill"} =>
            \A j \in warm[n].calm : warm[n].snapshot[j] = Shown(orders'[j])
      BY <2>5, <3>2, <3>3, <3>4 DEF Warming
    <3> QED
      BY <3>1, <3>2, <3>5, <3>6 DEF Warming, Shown
  <2> QED
    BY <2>6, <2>7, <2>9, <2>10, <2>11, <2>13, <2>14, <2>15, <2>16 DEF IInv
<1> QED
  BY <1>8, <1>9

-----------------------------------------------------------------------------
(* The steps of the instances, and the arrival of a request.               *)

LEMMA CalmLess ==
  ASSUME NEW w \in Start, NEW i
  PROVE  /\ [w EXCEPT !.calm = @ \ {i}] \in Start
         /\ [w EXCEPT !.calm = @ \ {i}].phase = w.phase
         /\ [w EXCEPT !.calm = @ \ {i}].snapshot = w.snapshot
         /\ [w EXCEPT !.calm = @ \ {i}].todo = w.todo
         /\ [w EXCEPT !.calm = @ \ {i}].calm = w.calm \ {i}
BY DEF Start

LEMMA ReceiveStep ==
  ASSUME IInv, NEW r \in Request, NEW c \in Call, Receive(r, c)
  PROVE  IInv'
<1> DEFINE l == IF c.op = "create" THEN "insert" ELSE "find"
<1>1. /\ pc[r] = "idle" /\ call[r] = Nobody /\ answer[r] = NoAnswer /\ r \notin committed
      /\ c.op = "create" => \A q \in Request : Creates(q) => IdOf(q) # c.id
      /\ call' = [call EXCEPT ![r] = c] /\ pc' = [pc EXCEPT ![r] = l]
      /\ warm' = [n \in Instance |-> [warm[n] EXCEPT !.calm = @ \ {c.id}]]
      /\ UNCHANGED <<shared, on, draft, answer, writer, faultsLeft>>
  BY DEF Receive, IInv, Fits, Creates, IdOf
<1>2. UNCHANGED <<orders, holder, cache, buffer, topic, committed>>
  BY <1>1 DEF shared
<1>3. /\ c.id \in OrderId /\ c # Nobody
      /\ l \in {"insert", "find"} /\ (l = "insert" <=> c.op = "create")
      /\ r # Nobody
  BY CallFields, OrdersAssumption
<1> HIDE DEF l
<1>4. TypeOK'
  <2>1. warm' \in [Instance -> Start]
    <3>1. \A n \in Instance : [warm[n] EXCEPT !.calm = @ \ {c.id}] \in Start
      BY CalmLess DEF IInv, TypeOK
    <3> QED
      BY <1>1, <3>1
  <2> QED
    BY <1>1, <1>2, <1>3, <2>1 DEF IInv, TypeOK, Serving
<1>5. /\ \A q \in Request : q # r =>
           /\ pc'[q] = pc[q] /\ IdOf(q)' = IdOf(q)
           /\ Creates(q)' = Creates(q) /\ Deletes(q)' = Deletes(q)
      /\ pc'[r] = l /\ call'[r] = c /\ IdOf(r)' = c.id
      /\ Creates(r)' <=> c.op = "create"
      /\ InService' = InService \union {r}
  BY <1>1, <1>3 DEF IInv, TypeOK, InService, IdOf, Creates, Deletes, Serving
<1>6. \A i : Made(i)' = Made(i)
  <2>1. \A q \in committed : q \in Request /\ q # r
    BY <1>1 DEF IInv, TypeOK
  <2> QED
    BY <1>2, <1>5, <2>1 DEF Made
<1>7. \A q \in Request : Fits(q)'
  BY <1>1, <1>2, <1>3, <1>5 DEF IInv, Fits, Deletes, TypeOK
<1>8. ~ Holding(r) /\ ~ Holding(r)' /\ ~ Shows(r)'
  BY <1>1, <1>3, <1>5 DEF Holding, Shows
<1>9. \A q \in Request : q # r => Holding(q)' = Holding(q) /\ Shows(q)' = Shows(q)
  BY <1>5 DEF Holding, Shows
<1>10. Locks'
  BY <1>2, <1>5, <1>8, <1>9 DEF IInv, Locks
<1>11. Ids' /\ Told'
  BY <1>1, <1>2, <1>3, <1>5, <1>6 DEF IInv, Ids, Told, NoAnswer, Serving
<1>12. CacheAgrees' /\ Untold'
  BY <1>1, <1>2, <1>3, <1>5 DEF IInv, CacheAgrees, Untold, Shown
<1>13. Fields'
  <2>1. \A i \in OrderId : writer[i] # r /\ holder[i] # r
    BY <1>1, <1>8 DEF IInv, Untold, Locks
  <2>2. \A q \in Request : q # r => Result(q)' = Result(q)
    BY <1>1 DEF Result, IInv, TypeOK
  <2> QED
    BY <1>1, <1>2, <1>5, <1>9, <2>1, <2>2 DEF IInv, Fields, Shown, InService
<1>14. \A n \in Instance : Warming(n)'
  <2> SUFFICES ASSUME NEW n \in Instance PROVE Warming(n)'
    OBVIOUS
  <2>1. /\ warm'[n].phase = warm[n].phase /\ warm'[n].snapshot = warm[n].snapshot
        /\ warm'[n].todo = warm[n].todo /\ warm'[n].calm = warm[n].calm \ {c.id}
    <3>1. warm[n] \in Start
      BY DEF IInv, TypeOK
    <3>2. warm'[n] = [warm[n] EXCEPT !.calm = @ \ {c.id}]
      BY <1>1
    <3> QED
      BY <3>1, <3>2, CalmLess
  <2>2. Warming(n)
    BY DEF IInv
  <2>3. \A q \in InService' : IdOf(q)' = c.id \/ (q \in InService /\ IdOf(q)' = IdOf(q))
    BY <1>5 DEF InService
  <2>4. ASSUME warm[n].phase \in {"clear", "fill"}
        PROVE  \A i \in warm[n].calm \ {c.id} :
                 /\ warm[n].snapshot[i] = Shown(orders[i])
                 /\ \A q \in InService' : IdOf(q)' # i
    BY <2>2, <2>3, <2>4 DEF Warming
  <2>5. cache' = cache /\ writer' = writer /\ orders' = orders
    BY <1>1, <1>2
  <2> QED
    BY <2>1, <2>2, <2>4, <2>5 DEF Warming, Shown
<1> QED
  BY <1>4, <1>7, <1>10, <1>11, <1>12, <1>13, <1>14 DEF IInv

(* What does not touch table, locks and requests.                          *)
LEMMA RequestsRest ==
  ASSUME IInv, UNCHANGED <<orders, holder, committed, requests>>
  PROVE  /\ \A r \in Request : Fits(r)'
         /\ Locks' /\ Ids' /\ Told'
         /\ InService' = InService
         /\ \A r \in Request : /\ Shows(r)' = Shows(r) /\ Result(r)' = Result(r)
                               /\ IdOf(r)' = IdOf(r)
<1>1. UNCHANGED <<call, on, draft, pc, answer>>
  BY DEF requests
<1>2. \A r : /\ Deletes(r)' = Deletes(r) /\ Creates(r)' = Creates(r)
             /\ Shows(r)' = Shows(r) /\ Result(r)' = Result(r)
             /\ Holding(r)' = Holding(r) /\ Made(r)' = Made(r)
             /\ IdOf(r)' = IdOf(r)
  BY <1>1 DEF Deletes, Creates, Shows, Result, Holding, Made, IdOf
<1> QED
  BY <1>1, <1>2 DEF IInv, Fits, Locks, Ids, Told, InService

LEMMA WarmingRests ==
  ASSUME IInv, NEW m \in Instance, orders' = orders, warm'[m] = warm[m],
         \A q \in InService' : q \in InService /\ IdOf(q)' = IdOf(q),
         \A i \in OrderId : writer'[i] = m => writer[i] = m /\ cache'[i] = cache[i]
  PROVE  Warming(m)'
<1>1. Warming(m)
  BY DEF IInv
<1> QED
  BY <1>1 DEF Warming, Shown

LEMMA SendStep ==
  ASSUME IInv, NEW n \in Instance, Send(n)
  PROVE  IInv'
<1>1. /\ buffer[n] # <<>> /\ buffer' = [buffer EXCEPT ![n] = Tail(@)]
      /\ UNCHANGED <<orders, holder, cache, committed, requests, warm, writer>>
  BY DEF Send
<1>2. buffer[n] \in Seq(Message) /\ Tail(buffer[n]) \in Seq(Message)
      /\ Head(buffer[n]) \in Message
  BY <1>1 DEF IInv, TypeOK
<1>3. topic' \in [OrderId -> Seq(Message)] /\ faultsLeft' \in 0..MaxFaults
  <2>1. CASE /\ topic' = [topic EXCEPT ![Head(buffer[n]).order] = Append(@, Head(buffer[n]))]
             /\ UNCHANGED faultsLeft
    <3>1. Head(buffer[n]).order \in OrderId
      BY <1>2 DEF Message
    <3> QED
      BY <1>2, <2>1, <3>1 DEF IInv, TypeOK
  <2>2. CASE faultsLeft > 0 /\ Spend("dropped") /\ UNCHANGED topic
    BY <2>2, OrdersAssumption DEF IInv, TypeOK, Spend
  <2> QED
    BY <2>1, <2>2 DEF Send
<1>4. TypeOK'
  BY <1>1, <1>2, <1>3 DEF IInv, TypeOK, requests
<1>5. CacheAgrees' /\ Fields' /\ Untold' /\ \A m \in Instance : Warming(m)'
  BY <1>1, RequestsRest DEF IInv, CacheAgrees, Fields, Untold, Warming, Shown, requests, InService
<1> QED
  BY <1>1, <1>4, <1>5, RequestsRest DEF IInv

(* An instance dies with the requests it serves.                           *)
LEMMA CrashStep ==
  ASSUME IInv, NEW n \in Instance, Crash(n)
  PROVE  IInv'
<1> DEFINE lost == {r \in InService : on[r] = n}
<1>1. /\ faultsLeft > 0 /\ Spend("crash")
      /\ pc' = [r \in Request |-> IF r \in lost THEN "lost" ELSE pc[r]]
      /\ holder' = [i \in OrderId |-> IF holder[i] \in lost THEN Nobody ELSE holder[i]]
      /\ buffer' = [buffer EXCEPT ![n] = <<>>]
      /\ warm' = [warm EXCEPT ![n] = Started("down")]
      /\ UNCHANGED <<orders, cache, topic, committed, call, on, draft, answer, writer>>
  BY DEF Crash
<1>2. /\ lost \subseteq InService /\ InService \subseteq Request
      /\ \A r \in lost : pc[r] \in Serving /\ r # Nobody
  BY OrdersAssumption DEF InService
<1> HIDE DEF lost
<1>3. TypeOK'
  <2>1. Started("down") \in Start
    BY DEF Started, Start, NoOrders, Table
  <2>2. faultsLeft' \in 0..MaxFaults
    BY <1>1, OrdersAssumption DEF IInv, TypeOK, Spend
  <2> QED
    BY <1>1, <1>2, <2>1, <2>2 DEF IInv, TypeOK
<1>4. /\ InService' = InService \ lost
      /\ \A r \in Request : r \notin lost => pc'[r] = pc[r]
      /\ \A r \in lost : pc'[r] = "lost"
      /\ \A r : /\ Deletes(r)' = Deletes(r) /\ Creates(r)' = Creates(r)
                /\ Result(r)' = Result(r) /\ IdOf(r)' = IdOf(r) /\ Made(r)' = Made(r)
  BY <1>1, <1>2 DEF InService, Deletes, Creates, Result, IdOf, Made, Serving
<1>5. \A r \in Request :
        /\ r \notin lost => Holding(r)' = Holding(r) /\ Shows(r)' = Shows(r)
        /\ r \in lost => ~ Holding(r)' /\ ~ Shows(r)'
  BY <1>4 DEF Holding, Shows
<1>6. \A r \in Request, i \in OrderId : holder'[i] = r <=> r \notin lost /\ holder[i] = r
  BY <1>1, OrdersAssumption
<1>7. \A r \in Request : Fits(r)'
  <2>1. \A r \in lost : call[r] # Nobody /\ r \notin committed /\ answer[r] = NoAnswer
    BY <1>2, InServiceFacts
  <2> QED
    BY <1>1, <1>2, <1>4, <2>1 DEF IInv, Fits
<1>8. Locks'
  <2>1. ASSUME NEW r \in Request, NEW i \in OrderId, holder'[i] = r
        PROVE  Holding(r)' /\ IdOf(r)' = i /\ (orders'[i] = NoRow <=> Creates(r)')
    BY <1>1, <1>4, <1>5, <1>6, <2>1 DEF IInv, Locks
  <2>2. ASSUME NEW r \in Request, Holding(r)'
        PROVE  (holder[IdOf(r)] = r \/ (Deletes(r) /\ orders[IdOf(r)] = NoRow))'
    <3>1. r \notin lost /\ Holding(r)
      BY <1>5, <2>2
    <3>2. IdOf(r) \in OrderId
      BY <3>1, InServiceFacts DEF Holding, Serving
    <3> QED
      BY <1>1, <1>4, <1>6, <3>1, <3>2 DEF IInv, Locks
  <2> QED
    BY <2>1, <2>2 DEF Locks
<1>9. Ids'
  BY <1>1, <1>4 DEF IInv, Ids, Serving
<1>10. Told' /\ CacheAgrees' /\ Untold'
  BY <1>1, <1>2, <1>4 DEF IInv, Told, CacheAgrees, Untold, Shown
<1>11. Fields'
  <2>1. ASSUME NEW i \in OrderId, NEW r \in InService', writer'[i] = r
        PROVE  holder'[i] = r /\ Shows(r)' /\ cache'[i] = Shown(Result(r))'
    BY <1>1, <1>2, <1>4, <1>5, <1>6, <2>1 DEF IInv, Fields, Shown
  <2>2. ASSUME NEW i \in OrderId, NEW r \in Request, holder'[i] = r, Shows(r)'
        PROVE  writer'[i] \in {r} \union Instance
    BY <1>1, <1>5, <1>6, <2>2 DEF IInv, Fields
  <2> QED
    BY <2>1, <2>2 DEF Fields
<1>12. \A m \in Instance : Warming(m)'
  <2> SUFFICES ASSUME NEW m \in Instance PROVE Warming(m)'
    OBVIOUS
  <2>1. CASE m = n
    BY <1>1, <2>1 DEF Warming, Started, IInv, TypeOK
  <2>2. CASE m # n
    <3>1. warm'[m] = warm[m] /\ Warming(m)
      BY <1>1, <2>2 DEF IInv, TypeOK
    <3> QED
      BY <1>1, <1>4, <3>1 DEF Warming, Shown
  <2> QED
    BY <2>1, <2>2
<1> QED
  BY <1>3, <1>7, <1>8, <1>9, <1>10, <1>11, <1>12 DEF IInv

(* A replica starts anew, and refills the hash from what it has read.      *)
LEMMA RestartStep ==
  ASSUME IInv, NEW n \in Instance, Restart(n)
  PROVE  IInv'
<1>1. /\ warm' = [warm EXCEPT ![n] = Started("load")]
      /\ UNCHANGED <<orders, holder, cache, buffer, topic, committed, requests, writer, faultsLeft>>
  BY DEF Restart, shared
<1>2. TypeOK'
  <2>1. Started("load") \in Start
    BY DEF Started, Start, NoOrders, Table
  <2> QED
    BY <1>1, <2>1 DEF IInv, TypeOK, requests
<1>3. \A m \in Instance : Warming(m)'
  <2> SUFFICES ASSUME NEW m \in Instance PROVE Warming(m)'
    OBVIOUS
  <2>1. CASE m = n
    BY <1>1, <2>1 DEF Warming, Started, IInv, TypeOK
  <2>2. CASE m # n
    <3>1. warm'[m] = warm[m]
      BY <1>1, <2>2 DEF IInv, TypeOK
    <3>2. \A q \in InService' : q \in InService /\ IdOf(q)' = IdOf(q)
      BY <1>1, RequestsRest DEF InService
    <3> QED
      BY <1>1, <3>1, <3>2, WarmingRests
  <2> QED
    BY <2>1, <2>2
<1>4. CacheAgrees' /\ Fields' /\ Untold'
  BY <1>1, RequestsRest DEF IInv, CacheAgrees, Fields, Untold, Shown, requests, InService
<1> QED
  BY <1>1, <1>2, <1>3, <1>4, RequestsRest DEF IInv

LEMMA LoadStep ==
  ASSUME IInv, NEW n \in Instance, LoadActive(n)
  PROVE  IInv'
<1> DEFINE w == [phase |-> "clear", snapshot |-> [i \in OrderId |-> Shown(orders[i])],
                 todo |-> {i \in OrderId : Shown(orders[i]) # NoRow},
                 calm |-> OrderId \ {IdOf(r) : r \in InService}]
<1>1. /\ warm' = [warm EXCEPT ![n] = w]
      /\ UNCHANGED <<orders, holder, cache, buffer, topic, committed, requests, writer, faultsLeft>>
  BY DEF LoadActive, shared
<1>2. TypeOK'
  <2>1. [i \in OrderId |-> Shown(orders[i])] \in Table
    BY ShownOnce DEF IInv, TypeOK, Table
  <2>2. w \in Start
    BY <2>1 DEF Start
  <2> QED
    BY <1>1, <2>2 DEF IInv, TypeOK, requests
<1>3. \A m \in Instance : Warming(m)'
  <2> SUFFICES ASSUME NEW m \in Instance PROVE Warming(m)'
    OBVIOUS
  <2>1. CASE m = n
    <3>1. warm'[m] = w
      BY <1>1, <2>1 DEF IInv, TypeOK
    <3>2. \A i \in OrderId :
            /\ w.snapshot[i] = Shown(orders[i]) /\ w.snapshot[i] = Shown(w.snapshot[i])
            /\ i \in w.todo <=> w.snapshot[i] # NoRow
      BY ShownOnce
    <3>3. \A i \in w.calm : i \in OrderId /\ \A r \in InService : IdOf(r) # i
      OBVIOUS
    <3>4. w.phase = "clear"
      OBVIOUS
    <3>5. InService' = InService /\ orders' = orders /\ \A r \in Request : IdOf(r)' = IdOf(r)
      BY <1>1, RequestsRest
    <3> HIDE DEF w
    <3> QED
      BY <3>1, <3>2, <3>3, <3>4, <3>5 DEF Warming, Shown, InService
  <2>2. CASE m # n
    <3>1. warm'[m] = warm[m]
      BY <1>1, <2>2 DEF IInv, TypeOK
    <3>2. \A q \in InService' : q \in InService /\ IdOf(q)' = IdOf(q)
      BY <1>1, RequestsRest DEF InService
    <3> QED
      BY <1>1, <3>1, <3>2, WarmingRests
  <2> QED
    BY <2>1, <2>2
<1>4. CacheAgrees' /\ Fields' /\ Untold'
  BY <1>1, RequestsRest DEF IInv, CacheAgrees, Fields, Untold, Shown, requests, InService
<1> QED
  BY <1>1, <1>2, <1>3, <1>4, RequestsRest DEF IInv

LEMMA ClearStep ==
  ASSUME IInv, NEW n \in Instance, ClearCache(n)
  PROVE  IInv'
<1>1. /\ warm[n].phase = "clear"
      /\ cache' = NoOrders
      /\ writer' = [i \in OrderId |-> n]
      /\ warm' = [warm EXCEPT ![n].phase = "fill"]
      /\ UNCHANGED <<orders, holder, buffer, topic, committed, requests, faultsLeft>>
  BY DEF ClearCache
<1>2. n # Nobody /\ n \notin Request /\ warm[n] \in Start
  BY OrdersAssumption DEF IInv, TypeOK
<1>3. /\ warm'[n].phase = "fill" /\ warm'[n].snapshot = warm[n].snapshot
      /\ warm'[n].todo = warm[n].todo /\ warm'[n].calm = warm[n].calm
      /\ warm'[n] \in Start
      /\ \A m \in Instance : m # n => warm'[m] = warm[m]
      /\ warm' \in [Instance -> Start]
  <2>1. warm \in [Instance -> Start]
    BY DEF IInv, TypeOK
  <2>2. warm'[n] = [warm[n] EXCEPT !.phase = "fill"]
    BY <1>1, <2>1
  <2>3. /\ warm'[n].phase = "fill" /\ warm'[n].snapshot = warm[n].snapshot
        /\ warm'[n].todo = warm[n].todo /\ warm'[n].calm = warm[n].calm
        /\ warm'[n] \in Start
    BY <1>2, <2>2 DEF Start
  <2> QED
    BY <1>1, <2>1, <2>3
<1>4. TypeOK'
  BY <1>1, <1>3 DEF IInv, TypeOK, requests, NoOrders, Table
<1>5. CacheAgrees' /\ Fields' /\ Untold'
  <2>1. committed' \subseteq Request
    BY <1>4 DEF TypeOK
  <2> QED
    BY <1>1, <1>2, <2>1 DEF CacheAgrees, Fields, Untold, InService
<1>6. \A m \in Instance : Warming(m)'
  <2> SUFFICES ASSUME NEW m \in Instance PROVE Warming(m)'
    OBVIOUS
  <2>1. Warming(m)
    BY DEF IInv
  <2>2. CASE m = n
    <3>1. \A i \in OrderId :
            /\ warm[n].snapshot[i] = Shown(warm[n].snapshot[i])
            /\ i \in warm[n].todo <=> warm[n].snapshot[i] # NoRow
      BY <1>1, <2>1, <2>2 DEF Warming
    <3>2. \A i \in warm[n].calm :
            /\ warm[n].snapshot[i] = Shown(orders[i])
            /\ \A r \in InService : IdOf(r) # i
      BY <1>1, <2>1, <2>2 DEF Warming
    <3>3. \A i \in OrderId : cache'[i] = NoRow
      BY <1>1 DEF NoOrders
    <3>4. \A q \in InService' : q \in InService /\ IdOf(q)' = IdOf(q)
      BY <1>1, RequestsRest DEF InService
    <3> QED
      BY <1>1, <1>3, <2>2, <3>1, <3>2, <3>3, <3>4 DEF Warming, Shown
  <2>3. CASE m # n
    <3>1. \A q \in InService' : q \in InService /\ IdOf(q)' = IdOf(q)
      BY <1>1, RequestsRest DEF InService
    <3>2. \A i \in OrderId : writer'[i] = m => writer[i] = m /\ cache'[i] = cache[i]
      BY <1>1, <2>3
    <3> QED
      BY <1>1, <1>3, <2>3, <3>1, <3>2, WarmingRests
  <2> QED
    BY <2>2, <2>3
<1> QED
  BY <1>1, <1>4, <1>5, <1>6, RequestsRest DEF IInv

LEMMA FillStep ==
  ASSUME IInv, NEW n \in Instance, FillCache(n)
  PROVE  IInv'
<1>1. warm[n].phase = "fill" /\ warm[n] \in Start /\ n # Nobody /\ n \notin Request
  BY OrdersAssumption DEF FillCache, IInv, TypeOK
<1>2. UNCHANGED <<orders, holder, buffer, topic, committed, requests, faultsLeft>>
  BY DEF FillCache
<1>3. /\ \A i \in OrderId :
           /\ warm[n].snapshot[i] = Shown(warm[n].snapshot[i])
           /\ warm[n].snapshot[i] \in Row \union {NoRow}
           /\ writer[i] = n =>
                cache[i] = IF i \in warm[n].todo THEN NoRow ELSE warm[n].snapshot[i]
      /\ \A i \in warm[n].calm :
           /\ warm[n].snapshot[i] = Shown(orders[i])
           /\ \A r \in InService : IdOf(r) # i
      /\ warm[n].calm \subseteq OrderId
  <2>1. Warming(n)
    BY DEF IInv
  <2> QED
    BY <1>1, <2>1 DEF Warming, Start, Table
<1>4. \A q \in InService' : q \in InService /\ IdOf(q)' = IdOf(q)
  BY <1>2, RequestsRest DEF InService
<1>5. ASSUME NEW i \in warm[n].todo,
             PutCached(i, warm[n].snapshot[i]), Wrote(i, n),
             warm' = [warm EXCEPT ![n].todo = @ \ {i}]
      PROVE  IInv'
  <2>1. i \in OrderId
    BY <1>1 DEF Start
  <2>2. /\ cache' = [cache EXCEPT ![i] = warm[n].snapshot[i]]
        /\ writer' = [writer EXCEPT ![i] = n]
    BY <1>3, <1>5, <2>1 DEF PutCached, Wrote
  <2>3. /\ warm'[n].phase = "fill" /\ warm'[n].snapshot = warm[n].snapshot
        /\ warm'[n].todo = warm[n].todo \ {i} /\ warm'[n].calm = warm[n].calm
        /\ \A m \in Instance : m # n => warm'[m] = warm[m]
        /\ warm' \in [Instance -> Start]
    <3>1. warm \in [Instance -> Start]
      BY DEF IInv, TypeOK
    <3>2. warm'[n] = [warm[n] EXCEPT !.todo = @ \ {i}]
      BY <1>5, <3>1
    <3>3. /\ warm'[n].phase = "fill" /\ warm'[n].snapshot = warm[n].snapshot
          /\ warm'[n].todo = warm[n].todo \ {i} /\ warm'[n].calm = warm[n].calm
          /\ warm'[n] \in Start
      BY <1>1, <3>2 DEF Start
    <3> QED
      BY <1>5, <3>1, <3>3
  <2>4. TypeOK'
    BY <1>2, <1>3, <2>1, <2>2, <2>3 DEF IInv, TypeOK, requests, Table
  <2>5. /\ cache'[i] = warm[n].snapshot[i] /\ writer'[i] = n
        /\ \A j \in OrderId : j # i => cache'[j] = cache[j] /\ writer'[j] = writer[j]
    BY <2>1, <2>2 DEF IInv, TypeOK, Table
  <2>6. CacheAgrees'
    <3>1. n \notin committed' \union {Nobody}
      BY <1>1, <2>4 DEF TypeOK
    <3> QED
      BY <1>2, <2>5, <3>1 DEF IInv, CacheAgrees, Shown
  <2>7. Fields' /\ Untold'
    BY <1>1, <1>2, <2>5, RequestsRest DEF IInv, Fields, Untold, Shown, InService, requests
  <2>8. \A m \in Instance : Warming(m)'
    <3> SUFFICES ASSUME NEW m \in Instance PROVE Warming(m)'
      OBVIOUS
    <3>1. CASE m = n
      BY <1>1, <1>2, <1>3, <1>4, <2>3, <2>5, <3>1 DEF Warming, Shown
    <3>2. CASE m # n
      BY <1>2, <1>4, <2>3, <2>5, <3>2, WarmingRests
    <3> QED
      BY <3>1, <3>2
  <2> QED
    BY <1>2, <2>4, <2>6, <2>7, <2>8, RequestsRest DEF IInv
<1>6. ASSUME warm[n].todo = {},
             warm' = [warm EXCEPT ![n] = Started("up")],
             writer' = [i \in OrderId |->
                          IF writer[i] = n /\ i \in warm[n].calm THEN Nobody ELSE writer[i]],
             UNCHANGED cache
      PROVE  IInv'
  <2>1. Started("up") \in Start
    BY DEF Started, Start, NoOrders, Table
  <2>2. TypeOK'
    BY <1>2, <1>6, <2>1 DEF IInv, TypeOK, requests
  <2>3. CacheAgrees'
    <3> SUFFICES ASSUME NEW i \in OrderId, writer'[i] \in committed \union {Nobody}
                 PROVE  cache[i] = Shown(orders[i])
      BY <1>2, <1>6 DEF CacheAgrees, Shown
    <3>1. CASE writer[i] = n /\ i \in warm[n].calm
      BY <1>3, <1>6, <3>1
    <3>2. CASE ~ (writer[i] = n /\ i \in warm[n].calm)
      BY <1>6, <3>2 DEF IInv, CacheAgrees
    <3> QED
      BY <3>1, <3>2
  <2>4. Untold'
    BY <1>2, <1>6, OrdersAssumption DEF IInv, Untold, requests
  <2>5. Fields'
    <3>1. ASSUME NEW i \in OrderId, NEW r \in InService', writer'[i] = r
          PROVE  holder'[i] = r /\ Shows(r)' /\ cache'[i] = Shown(Result(r))'
      <4>1. writer[i] = r /\ r \in InService
        BY <1>4, <1>6, <3>1, OrdersAssumption DEF InService
      <4> QED
        BY <1>2, <1>6, <4>1, RequestsRest DEF IInv, Fields, Shown, InService
    <3>2. ASSUME NEW i \in OrderId, NEW r \in Request, holder'[i] = r, Shows(r)'
          PROVE  writer'[i] \in {r} \union Instance
      <4>1. holder[i] = r /\ Shows(r)
        BY <1>2, <3>2, RequestsRest
      <4>2. r \in InService /\ IdOf(r) = i
        BY <4>1 DEF IInv, Locks, Shows, InService, Serving
      <4> QED
        BY <1>3, <1>6, <4>1, <4>2 DEF IInv, Fields
    <3> QED
      BY <3>1, <3>2 DEF Fields
  <2>6. \A m \in Instance : Warming(m)'
    <3> SUFFICES ASSUME NEW m \in Instance PROVE Warming(m)'
      OBVIOUS
    <3>1. CASE m = n
      BY <1>6, <3>1 DEF Warming, Started, IInv, TypeOK
    <3>2. CASE m # n
      <4>1. /\ warm'[m] = warm[m]
            /\ \A i \in OrderId : writer'[i] = m => writer[i] = m /\ cache'[i] = cache[i]
        BY <1>6, <3>2, OrdersAssumption DEF IInv, TypeOK
      <4> QED
        BY <1>2, <1>4, <4>1, WarmingRests
    <3> QED
      BY <3>1, <3>2
  <2> QED
    BY <1>2, <2>2, <2>3, <2>4, <2>5, <2>6, RequestsRest DEF IInv
<1> QED
  BY <1>5, <1>6 DEF FillCache

LEMMA IInvStep == IInv /\ [Next]_vars => IInv'
<1> SUFFICES ASSUME IInv, [Next]_vars PROVE IInv'
  OBVIOUS
<1>1. CASE UNCHANGED vars
  <2>1. UNCHANGED <<orders, holder, cache, buffer, topic, committed, requests, warm, writer,
                    faultsLeft>>
    BY <1>1 DEF vars, shared
  <2>2. TypeOK' /\ CacheAgrees' /\ Untold'
    BY <2>1 DEF requests, IInv, TypeOK, CacheAgrees, Untold, Shown
  <2>3. Fields'
    BY <2>1, RequestsRest DEF IInv, Fields, Shown, InService
  <2>4. ASSUME NEW n \in Instance PROVE Warming(n)'
    <3>1. \A q \in InService' : q \in InService /\ IdOf(q)' = IdOf(q)
      BY <2>1, RequestsRest DEF InService
    <3> QED
      BY <2>1, <3>1, WarmingRests
  <2> QED
    BY <2>1, <2>2, <2>3, <2>4, RequestsRest DEF IInv
<1>2. ASSUME NEW r \in Request, Serve(r) PROVE IInv'
  BY <1>2, InsertStep, FindStep, WriteStep, PutStep, PublishStep, EraseStep, RemoveStep,
     CommitStep DEF Serve
<1>3. ASSUME NEW r \in Request, NEW c \in Call, Receive(r, c) PROVE IInv'
  BY <1>3, ReceiveStep
<1>4. ASSUME NEW n \in Instance, Send(n) \/ Crash(n) \/ WarmUp(n) PROVE IInv'
  BY <1>4, SendStep, CrashStep, RestartStep, LoadStep, ClearStep, FillStep DEF WarmUp
<1>5. CASE Quiet
  BY <1>1, <1>5 DEF Quiet
<1> QED
  BY <1>1, <1>2, <1>3, <1>4, <1>5 DEF Next

-----------------------------------------------------------------------------
LEMMA Invariance == Spec => []IInv
  BY InitIInv, IInvStep, PTL DEF Spec

(* Every variable stays in its type, whatever runs beside what and fails.  *)
THEOREM OrdersTypes == Spec => []TypeOK
<1>1. IInv => TypeOK
  BY DEF IInv
<1> QED
  BY <1>1, Invariance, PTL

(* No client is told of a change that was not committed, or that nothing   *)
(* was when something is, and an order reported deleted never comes back.  *)
THEOREM OrdersAnswers == Spec => []AnswerIsTrue
<1>1. IInv => AnswerIsTrue
  BY DEF IInv, Told, Ids, AnswerIsTrue
<1> QED
  BY <1>1, Invariance, PTL

(* The hash shows what the table holds wherever a committed request, or a  *)
(* refill that nothing ran beside, wrote last.                             *)
THEOREM OrdersCache == Spec => []CacheAgrees
<1>1. IInv => CacheAgrees
  BY DEF IInv
<1> QED
  BY <1>1, Invariance, PTL

-----------------------------------------------------------------------------
(* Only a commit turns a page, and only that of the order it is about.     *)
LEMMA BookRests ==
  ASSUME IInv, committed' = committed, orders' = orders,
         \A r \in committed : call'[r] = call[r]
  PROVE  TheBook' = TheBook
BY DEF TheBook, BookOf, Open, Closed, IdOf

LEMMA BookCommit ==
  ASSUME IInv, NEW r \in Request, Commit(r), ~ UNCHANGED TheBook
  PROVE  \E i \in OrderId : \E from \in {"unused", "open"} :
           /\ TheBook[i] = from
           /\ TheBook' = [TheBook EXCEPT ![i] = IF from = "unused" THEN "open" ELSE "closed"]
<1>1. pc[r] = "commit" /\ pc[r] \in Serving /\ UNCHANGED call
  BY DEF Commit, Serving, Answer
<1>2. IdOf(r) \in OrderId /\ call[r] # Nobody /\ r \notin committed
  BY <1>1, InServiceFacts
<1> PICK i \in OrderId : i = IdOf(r)
  BY <1>2
<1>3. /\ holder[i] = r
      /\ orders' = [orders EXCEPT ![i] = Result(r)]
      /\ committed' = committed \union {r}
  <2>1. ~ UNCHANGED <<orders, committed>>
    BY <1>1, BookRests
  <2> QED
    BY <2>1 DEF Commit
<1>4. orders[i] = NoRow <=> Creates(r)
  BY <1>2, <1>3 DEF IInv, Locks
<1>5. Creates(r) => ~ Closed(i)
  <2>1. Closed(i) => Made(i)
    BY DEF Closed, IInv, Ids, TypeOK, Deletes, Fits
  <2> QED
    BY <1>2, <2>1, Unmade
<1>6. Result(r) = NoRow <=> Deletes(r)
  BY <1>1, <1>2 DEF Result, Deletes, IInv, Fits
<1>7. \A j \in OrderId : j # i => BookOf(j)' = BookOf(j)
  BY <1>1, <1>2, <1>3 DEF IInv, TypeOK, Table, BookOf, Open, Closed, IdOf
<1>8. orders'[i] = Result(r)
  BY <1>2, <1>3 DEF IInv, TypeOK, Table
<1>9. Deletes(r) => Closed(i)'
  BY <1>1, <1>3 DEF Closed, Deletes, IdOf
<1>10. CASE Creates(r)
  <2>1. BookOf(i) = "unused" /\ BookOf(i)' = "open"
    BY <1>4, <1>5, <1>6, <1>8, <1>10 DEF BookOf, Open, Creates, Deletes
  <2> QED
    BY <1>2, <1>7, <2>1 DEF TheBook
<1>11. CASE Deletes(r)
  <2>1. BookOf(i) = "open" /\ BookOf(i)' = "closed"
    BY <1>4, <1>6, <1>8, <1>9, <1>11 DEF BookOf, Open, Creates, Deletes
  <2> QED
    BY <1>2, <1>7, <2>1 DEF TheBook
<1>12. CASE ~ Creates(r) /\ ~ Deletes(r)
  <2>1. BookOf(i) = "open" /\ BookOf(i)' = "open"
    BY <1>4, <1>6, <1>8, <1>12 DEF BookOf, Open
  <2>2. TheBook' = TheBook
    BY <1>7, <2>1 DEF TheBook
  <2> QED
    BY <2>2
<1> QED
  BY <1>10, <1>11, <1>12

LEMMA BookStep ==
  ASSUME IInv, [Next]_vars, ~ UNCHANGED TheBook
  PROVE  \E r \in Request : Commit(r)
<1>1. CASE UNCHANGED vars
  BY <1>1, BookRests DEF vars, shared, requests
<1>2. ASSUME NEW r \in Request, Serve(r), ~ Commit(r) PROVE FALSE
  <2>1. UNCHANGED <<orders, committed, call>>
    BY <1>2 DEF Serve, Insert, Find, Write, Put, Publish, Erase, RemoveCached, Rollback,
                Answer, Goto
  <2> QED
    BY <2>1, BookRests
<1>3. ASSUME NEW r \in Request, NEW c \in Call, Receive(r, c) PROVE FALSE
  <2>1. UNCHANGED <<orders, committed>> /\ call' = [call EXCEPT ![r] = c] /\ r \notin committed
    BY <1>3 DEF Receive, shared, IInv, Fits
  <2>2. \A q \in committed : call'[q] = call[q]
    BY <2>1 DEF IInv, TypeOK
  <2> QED
    BY <2>1, <2>2, BookRests
<1>4. ASSUME NEW n \in Instance, Send(n) \/ Crash(n) \/ WarmUp(n) PROVE FALSE
  <2>1. UNCHANGED <<orders, committed, call>>
    BY <1>4 DEF Send, Crash, WarmUp, Restart, LoadActive, ClearCache, FillCache, shared, requests
  <2> QED
    BY <2>1, BookRests
<1>5. CASE Quiet
  BY <1>1, <1>5 DEF Quiet
<1> QED
  BY <1>1, <1>2, <1>3, <1>4, <1>5 DEF Next

(* To the table alone an order is created once, changed while it exists    *)
(* and deleted once: the service implements OrderBook.                     *)
THEOREM OrdersImplementBook == Spec => ImplementsOrderBook
<1>1. Init => Book!OrderBookInit
  <2>1. Init => TheBook = [i \in OrderId |-> "unused"]
    BY DEF Init, TheBook, BookOf, Open, Closed, NoOrders
  <2> QED
    BY <2>1 DEF Book!OrderBookInit
<1>2. IInv /\ [Next]_vars =>
        [\E i \in OrderId : Book!OpenOrder(i) \/ Book!CloseOrder(i)]_TheBook
  <2> SUFFICES ASSUME IInv, [Next]_vars, ~ UNCHANGED TheBook
               PROVE  \E i \in OrderId : Book!OpenOrder(i) \/ Book!CloseOrder(i)
    OBVIOUS
  <2>1. PICK r \in Request : Commit(r)
    BY BookStep
  <2>2. PICK i \in OrderId, from \in {"unused", "open"} :
           /\ TheBook[i] = from
           /\ TheBook' = [TheBook EXCEPT ![i] = IF from = "unused" THEN "open" ELSE "closed"]
    BY <2>1, BookCommit
  <2>3. CASE from = "unused"
    <3>1. Book!OpenOrder(i)
      BY <2>2, <2>3 DEF Book!OpenOrder, Book!Move
    <3> QED
      BY <3>1
  <2>4. CASE from = "open"
    <3>1. Book!CloseOrder(i)
      BY <2>2, <2>4 DEF Book!CloseOrder, Book!Move
    <3> QED
      BY <3>1
  <2> QED
    BY <2>3, <2>4
<1> QED
  BY <1>1, <1>2, Invariance, PTL
  DEF Spec, ImplementsOrderBook, Book!OrderBookSpec

-----------------------------------------------------------------------------
(* The event of a request is in one place: a buffer or the topic.          *)
SilentIn(b, t, r) ==
  /\ \A n \in Instance : Places(b[n], r) = {}
  /\ \A i \in OrderId : Places(t[i], r) = {}
AtMostOne(f, domain, r) ==
  \A x, y \in domain : \A k \in Places(f[x], r), l \in Places(f[y], r) : x = y /\ k = l
OnceIn(b, t, r) ==
  /\ AtMostOne(b, Instance, r) /\ AtMostOne(t, OrderId, r)
  /\ \A n \in Instance, i \in OrderId : Places(b[n], r) = {} \/ Places(t[i], r) = {}
Silent(r) == SilentIn(buffer, topic, r)
Once(r) == OnceIn(buffer, topic, r)

(* It is told by the step that leaves Before, and as long as nothing has   *)
(* failed it is not lost and not told in vain.                             *)
Before == {"insert", "find", "write", "put", "publish"}
After == {"erase", "remove", "commit"}
Story(r) ==
  /\ Once(r)
  /\ pc[r] \in Before \union {"idle"} => Silent(r)
  /\ NoFaultYet =>
       /\ pc[r] \in After \/ r \in committed => ~ Silent(r)
       /\ pc[r] = "answered" /\ ~ Silent(r) => r \in committed \/ answer[r] = 204
Events == \A r \in Request : Story(r)

LEMMA PlacesAppend ==
  ASSUME NEW s \in Seq(Message), NEW m \in Message, NEW r
  PROVE  Places(Append(s, m), r) = Places(s, r) \union (IF m.by = r THEN {Len(s) + 1} ELSE {})
BY DEF Places

LEMMA PlacesTail ==
  ASSUME NEW s \in Seq(Message), s # <<>>, NEW r
  PROVE  /\ 1 \in Places(s, r) <=> Head(s).by = r
         /\ \A k \in Places(s, r) : k \in Nat /\ k > 0 /\ (k > 1 => k - 1 \in Places(Tail(s), r))
         /\ \A k \in Places(Tail(s), r) : k \in Nat /\ k > 0 /\ k + 1 \in Places(s, r)
BY DEF Places

(* Buffers change and the places of the events of r in them do not.        *)
LEMMA PlacesStay ==
  ASSUME NEW b, NEW c, NEW t, NEW u, NEW r,
         \A n \in Instance : Places(c[n], r) = Places(b[n], r),
         \A i \in OrderId : Places(u[i], r) = Places(t[i], r)
  PROVE  /\ OnceIn(b, t, r) => OnceIn(c, u, r)
         /\ SilentIn(b, t, r) <=> SilentIn(c, u, r)
<1>1. AtMostOne(b, Instance, r) => AtMostOne(c, Instance, r)
  BY DEF AtMostOne
<1>2. AtMostOne(t, OrderId, r) => AtMostOne(u, OrderId, r)
  BY DEF AtMostOne
<1> QED
  BY <1>1, <1>2 DEF OnceIn, SilentIn

LEMMA FirstPlace ==
  ASSUME NEW b, NEW c, NEW t, NEW r, SilentIn(b, t, r),
         NEW n \in Instance, NEW k, Places(c[n], r) = {k},
         \A m \in Instance : m # n => Places(c[m], r) = {}
  PROVE  OnceIn(c, t, r) /\ ~ SilentIn(c, t, r)
<1>1. AtMostOne(c, Instance, r)
  BY DEF AtMostOne
<1>2. AtMostOne(t, OrderId, r)
  BY DEF AtMostOne, SilentIn
<1> QED
  BY <1>1, <1>2 DEF OnceIn, SilentIn

LEMMA InitEvents == Init => Events
<1> SUFFICES ASSUME Init, NEW r \in Request PROVE Story(r)
  BY DEF Events
<1>1. /\ \A n \in Instance : Places(buffer[n], r) = {}
      /\ \A i \in OrderId : Places(topic[i], r) = {}
  BY DEF Init, Places
<1>2. Silent(r) /\ Once(r)
  BY <1>1 DEF Silent, SilentIn, Once, OnceIn, AtMostOne
<1> QED
  BY <1>2 DEF Init, Story, After

(* What a step of a request does to its place and to the buffers.          *)
LEMMA Moves ==
  ASSUME IInv, NEW r \in Request, Serve(r)
  PROVE  /\ \A q \in Request : q # r =>
              pc'[q] = pc[q] /\ answer'[q] = answer[q] /\ (q \in committed' <=> q \in committed)
         /\ topic' = topic
         /\ NoFaultYet' => NoFaultYet
         /\ \/ /\ buffer' = buffer
               /\ \/ pc[r] \in Before /\ pc'[r] \in Before \union {"answered"} /\ r \notin committed'
                  \/ pc[r] \in After /\ pc'[r] \in After /\ r \notin committed'
                  \/ /\ pc[r] \in After /\ pc'[r] = "answered"
                     /\ NoFaultYet' => r \in committed' \/ answer'[r] = 204
            \/ /\ pc[r] = "publish" /\ pc'[r] \in After /\ r \notin committed'
               /\ buffer' = [buffer EXCEPT ![on[r]] = Append(@, EventOf(r))]
<1>1. pc[r] \in Serving /\ r \notin committed
  <2>1. pc[r] \in Serving
    BY DEF Serve, Insert, Find, Write, Put, Publish, Erase, RemoveCached, Commit, Serving
  <2> QED
    BY <2>1, InServiceFacts
<1>2. /\ pc \in [Request -> {"idle", "answered", "lost"} \union Serving]
      /\ answer \in [Request -> Codes \union {NoAnswer}]
      /\ faultsLeft \in 0..MaxFaults /\ MaxFaults \in Nat
  BY OrdersAssumption DEF IInv, TypeOK
<1>3. \A o \in Outcome : Spend(o) =>
        (NoFaultYet' => NoFaultYet) /\ (o # "ok" => ~ NoFaultYet')
  BY <1>2 DEF Spend, Outcome, NoFaultYet
<1>4. ASSUME NEW l, Goto(r, l), UNCHANGED faultsLeft, UNCHANGED <<committed, topic>>
      PROVE  /\ \A q \in Request : q # r =>
                  pc'[q] = pc[q] /\ answer'[q] = answer[q] /\ (q \in committed' <=> q \in committed)
             /\ pc'[r] = l /\ (NoFaultYet' => NoFaultYet) /\ r \notin committed'
  BY <1>1, <1>2, <1>4 DEF Goto, NoFaultYet
<1>5. ASSUME NEW code, Answer(r, code)
      PROVE  /\ \A q \in Request : q # r => pc'[q] = pc[q] /\ answer'[q] = answer[q]
             /\ pc'[r] = "answered" /\ answer'[r] = code
  BY <1>1, <1>2, <1>5 DEF Answer
<1>6. CASE Insert(r)
  BY <1>1, <1>3, <1>4, <1>5, <1>6 DEF Insert, Rollback, Before
<1>7. CASE Find(r)
  BY <1>1, <1>3, <1>4, <1>5, <1>7 DEF Find, Rollback, Before, NoFaultYet
<1>8. CASE Write(r)
  BY <1>1, <1>3, <1>4, <1>5, <1>8 DEF Write, Rollback, Before, NoFaultYet
<1>9. CASE Put(r)
  <2>1. Spend("ok") => UNCHANGED faultsLeft
    BY DEF Spend
  <2> QED
    BY <1>1, <1>3, <1>4, <1>5, <1>9, <2>1 DEF Put, Rollback, Before
<1>10. CASE Publish(r)
  BY <1>1, <1>3, <1>4, <1>5, <1>10 DEF Publish, Rollback, Before, After
<1>11. CASE Erase(r)
  BY <1>1, <1>3, <1>4, <1>5, <1>11 DEF Erase, Rollback, After
<1>12. CASE RemoveCached(r)
  <2>1. Spend("ok") => UNCHANGED faultsLeft
    BY DEF Spend
  <2> QED
    BY <1>1, <1>3, <1>4, <1>5, <1>12, <2>1 DEF RemoveCached, Rollback, After
<1>13. CASE Commit(r)
  <2>1. PICK o \in Outcome :
           /\ Spend(o)
           /\ \/ Took(o) /\ holder[IdOf(r)] = r /\ committed' = committed \union {r}
              \/ ~ (Took(o) /\ holder[IdOf(r)] = r) /\ UNCHANGED committed
           /\ Answer(r, IF o = "ok" THEN Success(r) ELSE 500)
    BY <1>13 DEF Commit
  <2>2. pc[r] = "commit" /\ UNCHANGED <<buffer, topic>> /\ Holding(r)
    BY <1>13 DEF Commit, Holding
  <2>3. o = "ok" /\ r \notin committed' => Success(r) = 204
    BY <2>1, <2>2 DEF IInv, Locks, Took, Success, Deletes
  <2>4. \A q \in Request : q # r => (q \in committed' <=> q \in committed)
    BY <2>1
  <2>5. NoFaultYet' => r \in committed' \/ answer'[r] = 204
    BY <1>3, <1>5, <2>1, <2>3
  <2> QED
    BY <1>1, <1>3, <1>5, <2>1, <2>2, <2>4, <2>5 DEF After
<1> QED
  BY <1>6, <1>7, <1>8, <1>9, <1>10, <1>11, <1>12, <1>13 DEF Serve

LEMMA ServeEvents ==
  ASSUME IInv, Events, NEW r \in Request, Serve(r)
  PROVE  Events'
<1> SUFFICES ASSUME NEW q \in Request PROVE Story(q)'
  BY DEF Events
<1>1. Story(q) /\ Story(r)
  BY DEF Events
<1>2. CASE /\ buffer' = buffer
           /\ \/ pc[r] \in Before /\ pc'[r] \in Before \union {"answered"} /\ r \notin committed'
              \/ pc[r] \in After /\ pc'[r] \in After /\ r \notin committed'
              \/ /\ pc[r] \in After /\ pc'[r] = "answered"
                 /\ NoFaultYet' => r \in committed' \/ answer'[r] = 204
  <2>1. /\ Once(q)' <=> Once(q)
        /\ Silent(q)' <=> Silent(q)
    BY <1>2, Moves DEF Once, Silent
  <2>2. CASE q # r
    BY <1>1, <1>2, <2>1, <2>2, Moves DEF Story
  <2>3. CASE q = r
    BY <1>1, <1>2, <2>1, <2>3, Moves DEF Story, Before, After
  <2> QED
    BY <2>2, <2>3
<1>3. CASE /\ pc[r] = "publish" /\ pc'[r] \in After /\ r \notin committed'
           /\ buffer' = [buffer EXCEPT ![on[r]] = Append(@, EventOf(r))]
  <2>1. /\ on[r] \in Instance /\ buffer \in [Instance -> Seq(Message)]
        /\ EventOf(r) \in Message /\ EventOf(r).by = r /\ topic' = topic
    BY <1>3, EventIsMessage, Moves DEF IInv, TypeOK, EventOf
  <2>2. /\ Places(buffer'[on[r]], q) = Places(buffer[on[r]], q)
                \union (IF q = r THEN {Len(buffer[on[r]]) + 1} ELSE {})
        /\ \A n \in Instance : n # on[r] => Places(buffer'[n], q) = Places(buffer[n], q)
    BY <1>3, <2>1, PlacesAppend
  <2>3. CASE q # r
    <3>1. \A n \in Instance : Places(buffer'[n], q) = Places(buffer[n], q)
      BY <2>2, <2>3
    <3>2. /\ Once(q) => Once(q)'
          /\ Silent(q)' <=> Silent(q)
      BY <2>1, <3>1, PlacesStay DEF Once, Silent
    <3> QED
      BY <1>1, <2>3, <3>2, Moves DEF Story
  <2>4. CASE q = r
    <3>1. Silent(r)
      BY <1>1, <1>3 DEF Story, Before
    <3>2. /\ Places(buffer'[on[r]], r) = {Len(buffer[on[r]]) + 1}
          /\ \A n \in Instance : n # on[r] => Places(buffer'[n], r) = {}
      BY <2>1, <2>2, <2>4, <3>1 DEF Silent, SilentIn
    <3>3. Once(r)' /\ ~ Silent(r)'
      BY <2>1, <3>1, <3>2, FirstPlace DEF Once, Silent
    <3> QED
      BY <1>3, <2>4, <3>3 DEF Story, Before, After
  <2> QED
    BY <2>3, <2>4
<1> QED
  BY <1>2, <1>3, Moves

(* A producer sends a record, or gives it up.                              *)
LEMMA SendEvents ==
  ASSUME IInv, Events, NEW n \in Instance, Send(n)
  PROVE  Events'
<1> SUFFICES ASSUME NEW r \in Request PROVE Story(r)'
  BY DEF Events
<1> DEFINE m == Head(buffer[n])
           i == m.order
<1>1. /\ buffer[n] # <<>> /\ buffer' = [buffer EXCEPT ![n] = Tail(@)]
      /\ UNCHANGED <<committed, pc, answer>>
  BY DEF Send, requests
<1>2. /\ buffer \in [Instance -> Seq(Message)] /\ topic \in [OrderId -> Seq(Message)]
      /\ m \in Message /\ i \in OrderId
      /\ Story(r)
  <2>1. buffer[n] \in Seq(Message)
    BY DEF IInv, TypeOK
  <2>2. m \in Message
    BY <1>1, <2>1
  <2>3. i \in OrderId
    BY <2>2 DEF Message
  <2> QED
    BY <2>2, <2>3 DEF IInv, TypeOK, Events
<1>3. /\ 1 \in Places(buffer[n], r) <=> m.by = r
      /\ \A k \in Places(buffer[n], r) :
           k \in Nat /\ k > 0 /\ (k > 1 => k - 1 \in Places(buffer'[n], r))
      /\ \A k \in Places(buffer'[n], r) : k \in Nat /\ k > 0 /\ k + 1 \in Places(buffer[n], r)
      /\ \A p \in Instance : p # n => buffer'[p] = buffer[p]
  BY <1>1, <1>2, PlacesTail
<1> DEFINE b == buffer
           c == buffer'
<1>4. AtMostOne(b, Instance, r) => AtMostOne(c, Instance, r)
  <2> SUFFICES ASSUME AtMostOne(b, Instance, r), NEW x \in Instance, NEW y \in Instance,
                      NEW k \in Places(c[x], r), NEW l \in Places(c[y], r)
               PROVE  x = y /\ k = l
    BY DEF AtMostOne
  <2>1. CASE x = n /\ y = n
    <3>1. /\ k \in Nat /\ l \in Nat
          /\ k + 1 \in Places(buffer[n], r) /\ l + 1 \in Places(buffer[n], r)
      BY <1>3, <2>1
    <3>2. k + 1 = l + 1
      BY <3>1 DEF AtMostOne
    <3> QED
      BY <2>1, <3>1, <3>2
  <2>2. CASE x = n /\ y # n
    BY <1>3, <2>2 DEF AtMostOne
  <2>3. CASE x # n /\ y = n
    BY <1>3, <2>3 DEF AtMostOne
  <2>4. CASE x # n /\ y # n
    BY <1>3, <2>4 DEF AtMostOne
  <2> QED
    BY <2>1, <2>2, <2>3, <2>4
<1>5. \A p \in Instance : Places(buffer[p], r) = {} => Places(buffer'[p], r) = {}
  BY <1>3
<1>6. CASE m.by = r /\ topic' = [topic EXCEPT ![i] = Append(@, m)]
  <2>1. Once(r) /\ 1 \in Places(buffer[n], r)
    BY <1>2, <1>3, <1>6 DEF Story
  <2>2. \A j \in OrderId : Places(topic[j], r) = {}
    BY <2>1 DEF Once, OnceIn
  <2>3. \A p \in Instance : Places(buffer'[p], r) = {}
    <3> SUFFICES ASSUME NEW p \in Instance, NEW k \in Places(buffer'[p], r) PROVE FALSE
      OBVIOUS
    <3>1. CASE p = n
      <4>1. k \in Nat /\ k > 0 /\ k + 1 \in Places(buffer[n], r)
        BY <1>3, <3>1
      <4>2. k + 1 = 1
        BY <2>1, <4>1 DEF Once, OnceIn, AtMostOne
      <4> QED
        BY <4>1, <4>2
    <3>2. CASE p # n
      BY <1>3, <2>1, <3>2 DEF Once, OnceIn, AtMostOne
    <3> QED
      BY <3>1, <3>2
  <2>4. /\ Places(topic'[i], r) = {Len(topic[i]) + 1}
        /\ \A j \in OrderId : j # i => Places(topic'[j], r) = {}
    BY <1>2, <1>6, <2>2, PlacesAppend
  <2>5. Once(r)' /\ ~ Silent(r)'
    <3>1. AtMostOne(buffer', Instance, r)
      BY <2>3 DEF AtMostOne
    <3>2. AtMostOne(topic', OrderId, r)
      <4> SUFFICES ASSUME NEW x \in OrderId, NEW y \in OrderId,
                          NEW k \in Places(topic'[x], r), NEW l \in Places(topic'[y], r)
                   PROVE  x = y /\ k = l
        BY DEF AtMostOne
      <4>1. x = i /\ y = i
        BY <2>4
      <4> QED
        BY <2>4, <4>1
    <3> QED
      BY <1>2, <2>3, <2>4, <3>1, <3>2 DEF Once, OnceIn, Silent, SilentIn
  <2>6. ~ Silent(r) /\ faultsLeft' = faultsLeft
    <3>1. m.order = i /\ ~ UNCHANGED topic
      BY <2>2, <2>4, <1>2
    <3> QED
      BY <2>1, <3>1 DEF Silent, SilentIn, Send
  <2> QED
    BY <1>1, <1>2, <2>5, <2>6 DEF Story, NoFaultYet
<1>7. CASE m.by # r /\ topic' = [topic EXCEPT ![i] = Append(@, m)] /\ UNCHANGED faultsLeft
  <2>1. \A j \in OrderId : Places(topic'[j], r) = Places(topic[j], r)
    <3>1. Places(Append(topic[i], m), r) = Places(topic[i], r)
      <4>1. topic[i] \in Seq(Message) /\ m \in Message /\ m.by # r
        BY <1>2, <1>7
      <4> HIDE DEF m, i
      <4>2. Places(Append(topic[i], m), r) = Places(topic[i], r) \union {}
        BY <4>1, PlacesAppend
      <4> QED
        BY <4>2
    <3>2. topic'[i] = Append(topic[i], m) /\ \A j \in OrderId : j # i => topic'[j] = topic[j]
      BY <1>2, <1>7
    <3> QED
      BY <3>1, <3>2
  <2>2. \A p \in Instance : Places(buffer'[p], r) = {} => Places(buffer[p], r) = {}
    <3> SUFFICES ASSUME NEW p \in Instance, NEW k \in Places(buffer[p], r)
                 PROVE  Places(buffer'[p], r) # {}
      OBVIOUS
    <3>1. CASE p = n
      <4>1. k # 1 /\ k \in Nat /\ k > 0
        BY <1>3, <1>7, <3>1
      <4> QED
        BY <1>3, <3>1, <4>1
    <3>2. CASE p # n
      BY <1>3, <3>2
    <3> QED
      BY <3>1, <3>2
  <2>3. Silent(r)' <=> Silent(r)
    BY <1>5, <2>1, <2>2 DEF Silent, SilentIn
  <2>4. AtMostOne(topic, OrderId, r) => AtMostOne(topic', OrderId, r)
    BY <2>1 DEF AtMostOne
  <2>5. Once(r) => Once(r)'
    BY <1>4, <1>5, <2>1, <2>4 DEF Once, OnceIn
  <2> QED
    BY <1>1, <1>2, <1>7, <2>3, <2>5 DEF Story, NoFaultYet
<1>8. CASE UNCHANGED topic /\ faultsLeft > 0 /\ Spend("dropped")
  <2>1. ~ NoFaultYet'
    BY <1>8, OrdersAssumption DEF Spend, NoFaultYet, IInv, TypeOK
  <2>2. Silent(r) => Silent(r)'
    BY <1>5, <1>8 DEF Silent, SilentIn
  <2>3. Once(r) => Once(r)'
    BY <1>4, <1>5, <1>8 DEF Once, OnceIn
  <2> QED
    BY <1>1, <1>2, <2>1, <2>2, <2>3 DEF Story
<1> QED
  BY <1>6, <1>7, <1>8 DEF Send

LEMMA CrashEvents ==
  ASSUME IInv, Events, NEW n \in Instance, Crash(n)
  PROVE  Events'
<1> SUFFICES ASSUME NEW r \in Request PROVE Story(r)'
  BY DEF Events
<1>1. /\ buffer' = [buffer EXCEPT ![n] = <<>>] /\ UNCHANGED <<topic, committed>>
      /\ pc'[r] \in {pc[r], "lost"}
      /\ buffer \in [Instance -> Seq(Message)]
      /\ ~ NoFaultYet' /\ Story(r)
  BY OrdersAssumption DEF Crash, Spend, NoFaultYet, IInv, TypeOK, Events
<1>2. /\ Places(buffer'[n], r) = {}
      /\ \A p \in Instance : p # n => Places(buffer'[p], r) = Places(buffer[p], r)
  BY <1>1 DEF Places
<1>3. Silent(r) => Silent(r)'
  BY <1>1, <1>2 DEF Silent, SilentIn
<1>4. AtMostOne(buffer, Instance, r) => AtMostOne(buffer', Instance, r)
  BY <1>2 DEF AtMostOne
<1>5. Once(r) => Once(r)'
  BY <1>1, <1>2, <1>4 DEF Once, OnceIn
<1> QED
  BY <1>1, <1>3, <1>5 DEF Story, Before

LEMMA EventsStep == IInv /\ Events /\ [Next]_vars => Events'
<1> SUFFICES ASSUME IInv, Events, [Next]_vars PROVE Events'
  OBVIOUS
<1>1. CASE UNCHANGED <<buffer, topic, pc, committed, answer, faultsLeft>>
  BY <1>1 DEF Events, Story, Once, Silent, NoFaultYet
<1>2. ASSUME NEW r \in Request, NEW c \in Call, Receive(r, c) PROVE Events'
  <2>1. /\ UNCHANGED <<buffer, topic, committed, answer, faultsLeft>>
        /\ pc[r] = "idle" /\ pc' = [pc EXCEPT ![r] = IF c.op = "create" THEN "insert" ELSE "find"]
        /\ pc \in [Request -> {"idle", "answered", "lost"} \union Serving]
        /\ r \notin committed
    BY <1>2 DEF Receive, shared, IInv, TypeOK, Fits
  <2> SUFFICES ASSUME NEW q \in Request PROVE Story(q)'
    BY DEF Events
  <2>2. Story(q) /\ (Once(q)' <=> Once(q)) /\ (Silent(q)' <=> Silent(q))
    BY <2>1 DEF Events, Once, Silent
  <2>3. CASE q # r
    BY <2>1, <2>2, <2>3 DEF Story, NoFaultYet
  <2>4. CASE q = r
    BY <2>1, <2>2, <2>4 DEF Story, NoFaultYet, After, Before
  <2> QED
    BY <2>3, <2>4
<1>3. ASSUME NEW n \in Instance, WarmUp(n) PROVE Events'
  BY <1>1, <1>3 DEF WarmUp, Restart, LoadActive, ClearCache, FillCache, shared, requests
<1>4. CASE UNCHANGED vars
  BY <1>1, <1>4 DEF vars, shared, requests
<1> QED
  BY <1>2, <1>3, <1>4, ServeEvents, SendEvents, CrashEvents DEF Next, Quiet

LEMMA PlacesIn ==
  ASSUME NEW f, NEW domain, NEW r, NEW e
  PROVE  e \in UNION {{x} \X Places(f[x], r) : x \in domain}
           <=> \E x \in domain : \E k \in Places(f[x], r) : e = <<x, k>>
<1>1. ASSUME NEW x \in domain, NEW k \in Places(f[x], r), e = <<x, k>>
      PROVE  e \in UNION {{y} \X Places(f[y], r) : y \in domain}
  <2>1. e \in {x} \X Places(f[x], r)
    BY <1>1
  <2> QED
    BY <2>1
<1>2. ASSUME e \in UNION {{x} \X Places(f[x], r) : x \in domain}
      PROVE  \E x \in domain : \E k \in Places(f[x], r) : e = <<x, k>>
  <2>1. PICK x \in domain : e \in {x} \X Places(f[x], r)
    BY <1>2
  <2>2. PICK k \in Places(f[x], r) : e = <<x, k>>
    BY <2>1
  <2> QED
    BY <2>2
<1> QED
  BY <1>1, <1>2

LEMMA EventsAre ==
  ASSUME NEW r, NEW e
  PROVE  e \in EventsBy(r) <=>
           \/ \E n \in Instance : \E k \in Places(buffer[n], r) : e = <<n, k>>
           \/ \E i \in OrderId : \E k \in Places(topic[i], r) : e = <<i, k>>
<1> DEFINE B == UNION {{n} \X Places(buffer[n], r) : n \in Instance}
           T == UNION {{i} \X Places(topic[i], r) : i \in OrderId}
<1>1. EventsBy(r) = B \union T
  BY DEF EventsBy
<1>2. e \in B <=> \E n \in Instance : \E k \in Places(buffer[n], r) : e = <<n, k>>
  BY PlacesIn
<1>3. e \in T <=> \E i \in OrderId : \E k \in Places(topic[i], r) : e = <<i, k>>
  BY PlacesIn
<1> HIDE DEF B, T
<1> QED
  BY <1>1, <1>2, <1>3

(* Each change is told once, and nothing is told that did not happen, as   *)
(* long as nothing fails; nothing is ever told twice.                      *)
THEOREM OrdersEvents == Spec => []OneEventPerChange
<1>1. Events => OneEventPerChange
  <2> SUFFICES ASSUME Events, NEW r \in Request
               PROVE  /\ Cardinality(EventsBy(r)) <= 1
                      /\ NoFaultYet /\ pc[r] = "answered" =>
                           /\ r \in committed => EventsBy(r) # {}
                           /\ EventsBy(r) # {} => r \in committed \/ answer[r] = 204
    BY DEF OneEventPerChange
  <2>1. Story(r)
    BY DEF Events
  <2>2. EventsBy(r) = {} <=> Silent(r)
    BY EventsAre DEF Silent, SilentIn
  <2>3. \A e, f \in EventsBy(r) : e = f
    <3> SUFFICES ASSUME NEW e \in EventsBy(r), NEW f \in EventsBy(r) PROVE e = f
      OBVIOUS
    <3>1. \/ \E n \in Instance : \E k \in Places(buffer[n], r) : e = <<n, k>>
          \/ \E i \in OrderId : \E k \in Places(topic[i], r) : e = <<i, k>>
      BY EventsAre
    <3>2. \/ \E n \in Instance : \E k \in Places(buffer[n], r) : f = <<n, k>>
          \/ \E i \in OrderId : \E k \in Places(topic[i], r) : f = <<i, k>>
      BY EventsAre
    <3> QED
      BY <2>1, <3>1, <3>2 DEF Story, Once, OnceIn, AtMostOne
  <2>4. Cardinality(EventsBy(r)) <= 1
    <3>1. CASE EventsBy(r) = {}
      BY <3>1, FS_EmptySet
    <3>2. ASSUME NEW e \in EventsBy(r) PROVE Cardinality(EventsBy(r)) <= 1
      <4>1. EventsBy(r) = {e}
        BY <2>3
      <4>2. Cardinality({e}) = 1
        BY FS_Singleton
      <4> QED
        BY <4>1, <4>2
    <3> QED
      BY <3>1, <3>2
  <2> QED
    BY <2>1, <2>2, <2>4 DEF Story
<1> QED
  BY <1>1, Invariance, InitEvents, EventsStep, PTL DEF Spec

-----------------------------------------------------------------------------
(* The last event of an order.  A delete tells before it has the lock;     *)
(* from then on until it is committed, what others tell may come last.     *)
Leaving(i) == \E r \in Request : Deletes(r) /\ IdOf(r) = i /\ pc[r] \in After

(* m is the last record of order i on its way through buffer b to topic t. *)
Newest(b, t, i, m) ==
  \/ /\ t # <<>> /\ t[Len(t)] = m
     /\ \A k \in 1..Len(b) : b[k].order # i
  \/ \E k \in 1..Len(b) :
       /\ b[k] = m /\ m.order = i
       /\ \A l \in 1..Len(b) : l > k => b[l].order # i

TypeFor(row) ==
  CASE row.status = "FINISHED" -> "finished"
    [] row.status = "CANCELLED" -> "cancelled"
    [] OTHER -> "updated"
Tells(m, row) ==
  m.courier = row.courier /\ (m.type # "created" => m.type = TypeFor(row))

(* It tells the row in the table or, once the holder of the row has told   *)
(* its change, the row that is about to be there.                          *)
Due(i) ==
  IF holder[i] \in Request /\ pc[holder[i]] = "commit" THEN draft[holder[i]] ELSE orders[i]
CaughtUp(i) ==
  ~ Leaving(i) /\ Due(i) # NoRow =>
    \A q \in Request : \E m \in Message :
      Newest(buffer[on[q]], topic[i], i, m) /\ Tells(m, Due(i))

OneSender == \A q, r \in Request : on[q] = on[r]
Owned == \A n \in Instance : buffer[n] # <<>> => \E r \in Request : on[r] = n
Current == NoFaultYet /\ OneSender => \A i \in OrderId : CaughtUp(i)

LEMMA NewestAppend ==
  ASSUME NEW b \in Seq(Message), NEW e \in Message, NEW t, NEW i
  PROVE  /\ e.order = i => Newest(Append(b, e), t, i, e)
         /\ \A m : e.order # i /\ Newest(b, t, i, m) => Newest(Append(b, e), t, i, m)
<1> DEFINE c == Append(b, e)
<1>1. /\ Len(b) \in Nat /\ Len(c) = Len(b) + 1 /\ c[Len(b) + 1] = e
      /\ \A k \in 1..Len(b) : c[k] = b[k]
  OBVIOUS
<1> HIDE DEF c
<1>2. ASSUME e.order = i PROVE Newest(c, t, i, e)
  BY <1>1, <1>2 DEF Newest
<1>3. ASSUME NEW m, e.order # i, Newest(b, t, i, m) PROVE Newest(c, t, i, m)
  <2>1. CASE t # <<>> /\ t[Len(t)] = m /\ \A k \in 1..Len(b) : b[k].order # i
    <3>1. \A k \in 1..Len(c) : c[k].order # i
      BY <1>1, <1>3, <2>1
    <3> QED
      BY <2>1, <3>1 DEF Newest
  <2>2. ASSUME NEW k \in 1..Len(b), b[k] = m, m.order = i,
               \A l \in 1..Len(b) : l > k => b[l].order # i
        PROVE  Newest(c, t, i, m)
    <3>1. k \in 1..Len(c) /\ c[k] = m
      BY <1>1, <2>2
    <3>2. \A l \in 1..Len(c) : l > k => c[l].order # i
      BY <1>1, <1>3, <2>2
    <3> QED
      BY <2>2, <3>1, <3>2 DEF Newest
  <2> QED
    BY <1>3, <2>1, <2>2 DEF Newest
<1> QED
  BY <1>2, <1>3 DEF c

(* The producer sends the head of its buffer.                              *)
LEMMA NewestSent ==
  ASSUME NEW b \in Seq(Message), b # <<>>, NEW t \in Seq(Message), NEW i, NEW m,
         Newest(b, t, i, m)
  PROVE  Newest(Tail(b), IF Head(b).order = i THEN Append(t, Head(b)) ELSE t, i, m)
<1> DEFINE c == Tail(b)
           u == IF Head(b).order = i THEN Append(t, Head(b)) ELSE t
<1>1. /\ Len(b) \in Nat /\ Len(b) > 0 /\ Len(c) = Len(b) - 1 /\ Head(b) = b[1]
      /\ \A k \in 1..Len(c) : c[k] = b[k + 1]
      /\ Head(b) \in Message
  OBVIOUS
<1>2. /\ Head(b).order = i => u # <<>> /\ u[Len(u)] = Head(b)
      /\ Head(b).order # i => u = t
  BY <1>1
<1> HIDE DEF c, u
<1>3. CASE t # <<>> /\ t[Len(t)] = m /\ \A k \in 1..Len(b) : b[k].order # i
  <2>1. u = t
    BY <1>1, <1>2, <1>3
  <2>2. \A k \in 1..Len(c) : c[k].order # i
    BY <1>1, <1>3
  <2> QED
    BY <1>3, <2>1, <2>2 DEF Newest, c, u
<1>4. ASSUME NEW k \in 1..Len(b), b[k] = m, m.order = i,
             \A l \in 1..Len(b) : l > k => b[l].order # i
      PROVE  Newest(c, u, i, m)
  <2>1. CASE k = 1
    <3>1. u # <<>> /\ u[Len(u)] = m
      BY <1>1, <1>2, <1>4, <2>1
    <3>2. \A l \in 1..Len(c) : c[l].order # i
      BY <1>1, <1>4, <2>1
    <3> QED
      BY <3>1, <3>2 DEF Newest
  <2>2. CASE k # 1
    <3>1. k - 1 \in 1..Len(c) /\ c[k - 1] = m
      BY <1>1, <1>4, <2>2
    <3>2. \A l \in 1..Len(c) : l > k - 1 => c[l].order # i
      BY <1>1, <1>4
    <3> QED
      BY <1>4, <3>1, <3>2 DEF Newest
  <2> QED
    BY <2>1, <2>2
<1> QED
  BY <1>3, <1>4 DEF Newest, c, u

LEMMA EventTells ==
  ASSUME NEW r, call[r].op # "delete"
  PROVE  Tells(EventOf(r), draft[r])
BY DEF Tells, EventOf, TypeOf, TypeFor

(* A step of r that tells nothing, changes no row and ends no delete.      *)
Aside(r) ==
  /\ UNCHANGED <<buffer, topic, on, orders>>
  /\ \A q \in Request : q # r => pc'[q] = pc[q] /\ draft'[q] = draft[q] /\ call'[q] = call[q]
  /\ \A i \in OrderId :
       holder'[i] = holder[i] \/ (holder[i] \in {r, Nobody} /\ holder'[i] \in {r, Nobody})
  /\ pc[r] = "commit" => Deletes(r)
  /\ pc'[r] = "commit" => Deletes(r)'
  /\ Deletes(r) /\ pc[r] \in After => call'[r] = call[r] /\ pc'[r] \in After

LEMMA AsideCurrent ==
  ASSUME IInv, IInv', Current, NEW r \in Request, Aside(r), NoFaultYet' => NoFaultYet
  PROVE  Current'
<1> SUFFICES ASSUME NoFaultYet', OneSender', NEW i \in OrderId, ~ Leaving(i)', Due(i)' # NoRow
             PROVE  \A q \in Request : \E m \in Message :
                      Newest(buffer'[on'[q]], topic'[i], i, m) /\ Tells(m, Due(i)')
  BY DEF Current, CaughtUp
<1>1. CaughtUp(i)
  BY DEF Current, Aside, OneSender
<1>2. ~ Leaving(i)
  <2> SUFFICES ASSUME NEW q \in Request, Deletes(q), IdOf(q) = i, pc[q] \in After PROVE FALSE
    BY DEF Leaving
  <2>1. call'[q] = call[q] /\ pc'[q] \in After
    BY DEF Aside
  <2> QED
    BY <2>1 DEF Leaving, Deletes, IdOf
<1>3. ~ (holder[i] = r /\ pc[r] = "commit")
  BY <1>2 DEF Aside, Leaving, IInv, Locks, After
<1>4. ~ (holder'[i] = r /\ pc'[r] = "commit")
  BY DEF Aside, Leaving, IInv, Locks, After
<1>5. Due(i)' = Due(i)
  <2>1. CASE holder'[i] = holder[i]
    <3>1. CASE holder[i] \in Request /\ holder[i] # r
      BY <2>1, <3>1 DEF Aside, Due
    <3>2. CASE holder[i] = r
      BY <1>3, <1>4, <2>1, <3>2 DEF Aside, Due
    <3>3. CASE holder[i] \notin Request
      BY <2>1, <3>3 DEF Aside, Due
    <3> QED
      BY <3>1, <3>2, <3>3
  <2>2. CASE holder[i] \in {r, Nobody} /\ holder'[i] \in {r, Nobody}
    BY <1>3, <1>4, <2>2, OrdersAssumption DEF Aside, Due
  <2> QED
    BY <2>1, <2>2 DEF Aside
<1> QED
  BY <1>1, <1>2, <1>5 DEF CaughtUp, Aside

LEMMA PublishCurrent ==
  ASSUME IInv, Current, NEW r \in Request, Publish(r)
  PROVE  Current'
<1> SUFFICES ASSUME NoFaultYet', OneSender', NEW i \in OrderId, ~ Leaving(i)', Due(i)' # NoRow,
                    NEW q \in Request
             PROVE  \E m \in Message :
                      Newest(buffer'[on'[q]], topic'[i], i, m) /\ Tells(m, Due(i)')
  BY DEF Current, CaughtUp
<1> DEFINE e == EventOf(r)
<1>1. /\ pc[r] = "publish" /\ UNCHANGED <<orders, holder, draft, call, on, topic, faultsLeft>>
      /\ buffer' = [buffer EXCEPT ![on[r]] = Append(@, e)]
      /\ pc' = [pc EXCEPT ![r] = IF call[r].op = "delete" THEN "erase" ELSE "commit"]
  BY OrdersAssumption DEF Publish, Goto, Spend, NoFaultYet, IInv, TypeOK
<1>2. /\ pc \in [Request -> {"idle", "answered", "lost"} \union Serving]
      /\ buffer \in [Instance -> Seq(Message)] /\ on \in [Request -> Instance]
      /\ call[r] # Nobody /\ IdOf(r) \in OrderId
      /\ e \in Message /\ e.order = IdOf(r)
  BY <1>1, InServiceFacts, EventIsMessage DEF IInv, TypeOK, Serving, EventOf
<1>3. on'[q] = on[r] /\ buffer'[on'[q]] = Append(buffer[on[q]], e) /\ buffer[on[q]] \in Seq(Message)
  BY <1>1, <1>2 DEF OneSender
<1> HIDE DEF e
<1>4. CASE i # IdOf(r)
  <2>1. ~ Leaving(i)
    BY <1>1, <1>2, <1>4 DEF Leaving, Deletes, IdOf
  <2>2. holder[i] # r
    BY <1>1, <1>4, InServiceFacts DEF Serving
  <2>3. Due(i)' = Due(i)
    BY <1>1, <1>2, <2>2 DEF Due
  <2>4. PICK m \in Message : Newest(buffer[on[q]], topic[i], i, m) /\ Tells(m, Due(i))
    BY <1>1, <2>1, <2>3 DEF Current, CaughtUp, OneSender, NoFaultYet
  <2>5. Newest(Append(buffer[on[q]], e), topic[i], i, m)
    BY <1>2, <1>3, <1>4, <2>4, NewestAppend
  <2> QED
    BY <1>1, <1>3, <2>3, <2>4, <2>5
<1>5. CASE i = IdOf(r)
  <2>1. ~ Deletes(r)
    BY <1>1, <1>2, <1>5 DEF Leaving, Deletes, IdOf, After
  <2>2. holder[i] = r
    BY <1>1, <1>5, <2>1 DEF IInv, Locks, Holding
  <2>3. Due(i)' = draft[r]
    BY <1>1, <1>2, <2>1, <2>2 DEF Due, Deletes
  <2>4. Tells(e, draft[r])
    BY <1>2, <2>1, EventTells DEF e, Deletes
  <2>5. Newest(Append(buffer[on[q]], e), topic[i], i, e)
    BY <1>2, <1>3, <1>5, NewestAppend
  <2> QED
    BY <1>1, <1>2, <1>3, <2>3, <2>4, <2>5
<1> QED
  BY <1>4, <1>5

LEMMA CommitCurrent ==
  ASSUME IInv, Current, NEW r \in Request, Commit(r)
  PROVE  Current'
<1> SUFFICES ASSUME NoFaultYet', OneSender', NEW i \in OrderId, ~ Leaving(i)', Due(i)' # NoRow
             PROVE  \A q \in Request : \E m \in Message :
                      Newest(buffer'[on'[q]], topic'[i], i, m) /\ Tells(m, Due(i)')
  BY DEF Current, CaughtUp
<1>1. PICK o \in Outcome :
         /\ Spend(o)
         /\ \/ /\ Took(o) /\ holder[IdOf(r)] = r
               /\ orders' = [orders EXCEPT ![IdOf(r)] = Result(r)]
            \/ ~ (Took(o) /\ holder[IdOf(r)] = r) /\ UNCHANGED orders
         /\ Answer(r, IF o = "ok" THEN Success(r) ELSE 500)
  BY DEF Commit
<1>2. /\ pc[r] = "commit" /\ Unlock(r) /\ UNCHANGED <<buffer, topic, draft, on, call>>
      /\ pc' = [pc EXCEPT ![r] = "answered"]
  BY <1>1 DEF Commit, Answer
<1>3. /\ pc \in [Request -> {"idle", "answered", "lost"} \union Serving]
      /\ orders \in Table /\ Nobody \notin Request
      /\ call[r] # Nobody /\ IdOf(r) \in OrderId /\ r \notin committed
      /\ \A j \in OrderId : j # IdOf(r) => holder[j] # r
  BY <1>2, InServiceFacts, OrdersAssumption DEF IInv, TypeOK, Serving
<1>4. Took(o) /\ NoFaultYet
  BY <1>1, OrdersAssumption DEF Spend, Outcome, Took, NoFaultYet, IInv, TypeOK
<1>5. CaughtUp(i)
  BY <1>2, <1>4 DEF Current, OneSender
<1>6. holder'[i] = IF holder[i] = r THEN Nobody ELSE holder[i]
  BY <1>2 DEF Unlock
<1>7. CASE i # IdOf(r)
  <2>1. ~ Leaving(i)
    BY <1>2, <1>3, <1>7 DEF Leaving, Deletes, IdOf
  <2>2. orders'[i] = orders[i] /\ holder'[i] = holder[i] /\ holder[i] # r
    BY <1>1, <1>3, <1>6, <1>7 DEF Table
  <2>3. Due(i)' = Due(i)
    BY <1>2, <1>3, <2>2 DEF Due
  <2> QED
    BY <1>2, <1>5, <2>1, <2>3 DEF CaughtUp
<1>8. CASE i = IdOf(r) /\ ~ Deletes(r)
  <2>1. ~ Leaving(i)
    BY <1>2, <1>3, <1>8 DEF Leaving, Deletes, IdOf
  <2>2. holder[i] = r
    BY <1>2, <1>8 DEF IInv, Locks, Holding
  <2>3. orders'[i] = draft[r] /\ holder'[i] = Nobody
    BY <1>1, <1>3, <1>4, <1>6, <1>8, <2>2 DEF Table, Result, Deletes
  <2>4. Due(i)' = Due(i)
    BY <1>2, <1>3, <2>2, <2>3 DEF Due
  <2> QED
    BY <1>2, <1>5, <2>1, <2>4 DEF CaughtUp
<1>9. CASE i = IdOf(r) /\ Deletes(r)
  <2>1. orders'[i] = NoRow /\ (holder[i] # r => orders[i] = NoRow)
    BY <1>1, <1>2, <1>3, <1>4, <1>9 DEF IInv, Locks, Holding, Result, Deletes, Table
  <2>2. PICK q \in Request : holder'[i] = q /\ pc'[q] = "commit"
    BY <2>1 DEF Due
  <2>3. holder[i] = q /\ q # r
    BY <1>3, <1>6, <2>2
  <2>4. Creates(q) /\ IdOf(q) = i /\ pc[q] = "commit"
    BY <1>2, <2>1, <2>2, <2>3 DEF IInv, Locks
  <2>5. ~ Made(i)
    BY <2>4, InServiceFacts, Unmade DEF Serving
  <2>6. Made(i)
    BY <1>2, <1>9 DEF IInv, Ids, Serving, Creates, Deletes
  <2> QED
    BY <2>5, <2>6
<1> QED
  BY <1>7, <1>8, <1>9

LEMMA ServeCurrent ==
  ASSUME IInv, IInv', Current, NEW r \in Request, Serve(r)
  PROVE  Current'
<1> SUFFICES ASSUME NoFaultYet' PROVE Current'
  BY DEF Current
<1>1. NoFaultYet' => NoFaultYet
  BY Moves
<1>2. /\ pc \in [Request -> {"idle", "answered", "lost"} \union Serving]
      /\ draft \in [Request -> Row \union {NoRow}]
      /\ holder \in [OrderId -> Request \union {Nobody}]
      /\ Fits(r)
      /\ pc[r] \in Serving => call[r] # Nobody /\ IdOf(r) \in OrderId
  BY InServiceFacts DEF IInv, TypeOK
<1>3. ~ Spend("failed") /\ \A o \in Outcome : Spend(o) => o = "ok"
  BY OrdersAssumption DEF Spend, Outcome, NoFaultYet, IInv, TypeOK
<1>4. CASE Insert(r)
  <2>1. holder[IdOf(r)] = Nobody
    <3>1. Creates(r) /\ r \notin committed /\ ~ Holding(r) /\ IdOf(r) \in OrderId
      BY <1>2, <1>4, InServiceFacts DEF Insert, Serving, Fits, Creates, Holding, Deletes
    <3>2. orders[IdOf(r)] = NoRow
      BY <3>1, Unmade
    <3>3. ASSUME NEW q \in Request, holder[IdOf(r)] = q PROVE FALSE
      <4>1. Creates(q) /\ IdOf(q) = IdOf(r) /\ Holding(q)
        BY <3>1, <3>2, <3>3 DEF IInv, Locks
      <4> QED
        BY <3>1, <4>1 DEF IInv, Ids
    <3> QED
      BY <1>2, <3>1, <3>3
  <2>2. Aside(r)
    BY <1>2, <1>3, <1>4, <2>1 DEF Aside, Insert, Goto, Serving, After
  <2> QED
    BY <1>1, <2>2, AsideCurrent
<1>5. CASE Find(r)
  <2>1. Aside(r)
    BY <1>2, <1>3, <1>5 DEF Aside, Find, Goto, Answer, After
  <2> QED
    BY <1>1, <2>1, AsideCurrent
<1>6. CASE Write(r)
  <2>1. Aside(r)
    BY <1>2, <1>3, <1>6 DEF Aside, Write, Goto, Rollback, Unlock, Answer, Locked, Serving, After
  <2> QED
    BY <1>1, <2>1, AsideCurrent
<1>7. CASE Put(r)
  <2>1. Aside(r)
    BY <1>2, <1>3, <1>7 DEF Aside, Put, Goto, Serving, After
  <2> QED
    BY <1>1, <2>1, AsideCurrent
<1>8. CASE Erase(r)
  <2>1. Aside(r)
    BY <1>2, <1>3, <1>8 DEF Aside, Erase, Goto, Locked, Serving, After
  <2> QED
    BY <1>1, <2>1, AsideCurrent
<1>9. CASE RemoveCached(r)
  <2>1. Deletes(r)
    BY <1>2, <1>9 DEF RemoveCached, Fits
  <2>2. Aside(r)
    BY <1>2, <1>3, <1>9, <2>1 DEF Aside, RemoveCached, Goto, Deletes, Serving, After
  <2> QED
    BY <1>1, <2>2, AsideCurrent
<1> QED
  BY <1>4, <1>5, <1>6, <1>7, <1>8, <1>9, PublishCurrent, CommitCurrent DEF Serve

LEMMA SendCurrent ==
  ASSUME IInv, Owned, Current, NEW n \in Instance, Send(n)
  PROVE  Current'
<1> SUFFICES ASSUME NoFaultYet', OneSender', NEW i \in OrderId, ~ Leaving(i)', Due(i)' # NoRow,
                    NEW q \in Request
             PROVE  \E m \in Message :
                      Newest(buffer'[on'[q]], topic'[i], i, m) /\ Tells(m, Due(i)')
  BY DEF Current, CaughtUp
<1> DEFINE h == Head(buffer[n])
<1>1. /\ buffer[n] # <<>> /\ buffer' = [buffer EXCEPT ![n] = Tail(@)]
      /\ topic' = [topic EXCEPT ![h.order] = Append(@, h)]
      /\ UNCHANGED <<orders, holder, call, on, draft, pc, faultsLeft>>
  BY OrdersAssumption DEF Send, requests, Spend, NoFaultYet, IInv, TypeOK
<1>2. /\ buffer \in [Instance -> Seq(Message)] /\ topic \in [OrderId -> Seq(Message)]
      /\ on \in [Request -> Instance]
  BY DEF IInv, TypeOK
<1>3. on[q] = n
  BY <1>1 DEF Owned, OneSender
<1>4. PICK m \in Message : Newest(buffer[n], topic[i], i, m) /\ Tells(m, Due(i))
  BY <1>1, <1>3 DEF Current, CaughtUp, OneSender, Leaving, Deletes, IdOf, Due, NoFaultYet
<1>5. /\ buffer'[n] = Tail(buffer[n])
      /\ topic'[i] = IF h.order = i THEN Append(topic[i], h) ELSE topic[i]
  BY <1>1, <1>2
<1>6. Newest(buffer'[n], topic'[i], i, m)
  <2>1. buffer[n] \in Seq(Message) /\ topic[i] \in Seq(Message)
    BY <1>2
  <2>2. Newest(Tail(buffer[n]), IF h.order = i THEN Append(topic[i], h) ELSE topic[i], i, m)
    BY <1>1, <1>4, <2>1, NewestSent
  <2> QED
    BY <1>5, <2>2
<1> QED
  BY <1>1, <1>3, <1>4, <1>6 DEF Due

(* Only the buffers of instances that serve hold records.                  *)
LEMMA OwnedStep == IInv /\ Owned /\ [Next]_vars => Owned'
<1> SUFFICES ASSUME IInv, Owned, [Next]_vars, NEW n \in Instance, buffer'[n] # <<>>
             PROVE  \E r \in Request : on'[r] = n
  BY DEF Owned
<1>1. buffer \in [Instance -> Seq(Message)]
  BY DEF IInv, TypeOK
<1>2. CASE UNCHANGED <<buffer, on>>
  BY <1>2 DEF Owned
<1>3. ASSUME NEW r \in Request, Serve(r) PROVE \E q \in Request : on'[q] = n
  <2>1. on' = on
    BY <1>3 DEF Serve, Insert, Find, Write, Put, Publish, Erase, RemoveCached, Commit,
                Goto, Answer, Rollback
  <2> QED
    BY <1>1, <1>3, <2>1, Moves DEF Owned
<1>4. ASSUME NEW r \in Request, NEW c \in Call, Receive(r, c)
      PROVE  UNCHANGED <<buffer, on>>
  BY <1>4 DEF Receive, shared
<1>5. ASSUME NEW p \in Instance, Send(p) PROVE \E q \in Request : on'[q] = n
  <2>1. buffer[p] # <<>> /\ buffer' = [buffer EXCEPT ![p] = Tail(@)] /\ on' = on
    BY <1>5 DEF Send, requests
  <2> QED
    BY <1>1, <2>1 DEF Owned
<1>6. ASSUME NEW p \in Instance, Crash(p) PROVE \E q \in Request : on'[q] = n
  BY <1>1, <1>6 DEF Crash, Owned
<1>7. ASSUME NEW p \in Instance, WarmUp(p) PROVE UNCHANGED <<buffer, on>>
  BY <1>7 DEF WarmUp, Restart, LoadActive, ClearCache, FillCache, shared, requests
<1>8. CASE UNCHANGED vars
  BY <1>2, <1>8 DEF vars, shared, requests
<1> QED
  BY <1>2, <1>3, <1>4, <1>5, <1>6, <1>7, <1>8 DEF Next, Quiet

LEMMA CurrentStep == IInv /\ IInv' /\ Owned /\ Current /\ [Next]_vars => Current'
<1> SUFFICES ASSUME IInv, IInv', Owned, Current, [Next]_vars PROVE Current'
  OBVIOUS
<1>1. CASE UNCHANGED <<orders, holder, buffer, topic, call, on, draft, pc, faultsLeft>>
  BY <1>1 DEF Current, CaughtUp, OneSender, Leaving, Deletes, IdOf, Due, NoFaultYet
<1>2. ASSUME NEW r \in Request, NEW c \in Call, Receive(r, c) PROVE Current'
  <2>1. /\ UNCHANGED <<orders, holder, buffer, topic, on, draft, faultsLeft>>
        /\ pc[r] = "idle" /\ call' = [call EXCEPT ![r] = c]
        /\ pc' = [pc EXCEPT ![r] = IF c.op = "create" THEN "insert" ELSE "find"]
        /\ pc \in [Request -> {"idle", "answered", "lost"} \union Serving]
        /\ call \in [Request -> Call \union {Nobody}]
    BY <1>2 DEF Receive, shared, IInv, TypeOK
  <2>2. Aside(r)
    BY <2>1 DEF Aside, After
  <2> QED
    BY <2>1, <2>2, AsideCurrent DEF NoFaultYet
<1>3. ASSUME NEW n \in Instance, Crash(n) PROVE Current'
  BY <1>3, OrdersAssumption DEF Crash, Spend, Current, NoFaultYet, IInv, TypeOK
<1>4. ASSUME NEW n \in Instance, WarmUp(n) PROVE Current'
  BY <1>1, <1>4 DEF WarmUp, Restart, LoadActive, ClearCache, FillCache, shared, requests
<1>5. CASE UNCHANGED vars
  BY <1>1, <1>5 DEF vars, shared, requests
<1> QED
  BY <1>2, <1>3, <1>4, <1>5, ServeCurrent, SendCurrent DEF Next, Quiet

(* As long as one instance sends and nothing fails, the last event of an   *)
(* order that exists tells its row once all is quiet: who has the lock     *)
(* tells last before it commits, and a delete that tells too early takes   *)
(* the row away.                                                           *)
THEOREM OrdersLastEvent == Spec => []LastEventIsCurrent
<1>1. Init => Owned /\ Current
  <2> SUFFICES ASSUME Init PROVE Owned /\ Current
    OBVIOUS
  <2>1. Owned
    BY DEF Init, Owned
  <2>2. \A i \in OrderId : Due(i) = NoRow
    BY OrdersAssumption DEF Init, Due, NoOrders
  <2> QED
    BY <2>1, <2>2 DEF Current, CaughtUp
<1>2. IInv /\ Current => LastEventIsCurrent
  <2> SUFFICES ASSUME IInv, Current, OneSender, NoFaultYet, AtRest,
                      NEW i \in OrderId, orders[i] # NoRow
               PROVE  Tells(Last(topic[i]), orders[i])
    BY DEF LastEventIsCurrent, OneSender, Tells, TypeFor
  <2>1. \A r \in Request : pc[r] \notin Serving
    BY DEF AtRest, InService
  <2>2. ~ Leaving(i) /\ Due(i) = orders[i]
    BY <2>1 DEF Leaving, Due, After, Serving
  <2>3. PICK q \in Request : TRUE
    BY DEF IInv, Ids, Made, TypeOK
  <2>4. PICK m \in Message : Newest(buffer[on[q]], topic[i], i, m) /\ Tells(m, orders[i])
    BY <2>2, <2>3 DEF Current, CaughtUp
  <2>5. buffer[on[q]] = <<>>
    BY <2>3 DEF AtRest, IInv, TypeOK
  <2>6. topic[i][Len(topic[i])] = m
    BY <2>4, <2>5 DEF Newest
  <2> QED
    BY <2>4, <2>6 DEF Last
<1> QED
  BY <1>1, <1>2, Invariance, IInvStep, OwnedStep, CurrentStep, PTL DEF Spec
=============================================================================
