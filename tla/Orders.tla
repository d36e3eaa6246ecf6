------------------------------- MODULE Orders -------------------------------
(***************************************************************************)
(* The order service (services/order): its instances share one PostgreSQL  *)
(* table, one Redis hash with the active orders and one Kafka topic.       *)
(*                                                                         *)
(* A request that changes an order is one database transaction with calls  *)
(* of Redis and Kafka inside it.  Every call is a step of its own here:    *)
(* what Redis and Kafka were told stays told when the transaction is       *)
(* rolled back, and requests that read a row before they wait for its lock *)
(* go on with what they read.                                              *)
(***************************************************************************)
EXTENDS Integers, Sequences, FiniteSets, FiniteSetsExt, SequencesExt

CONSTANTS
  Instance,     \* the replicas of the service
  Request,      \* HTTP requests that change something, each sent once
  OrderId,      \* random UUIDs of orders
  Courier,
  StatusAsked,  \* the statuses clients ask for
  NoRow,        \* no such row, no such field of the hash
  NoCourier,    \* a courier_id that is null
  Keep,         \* a field that a PATCH leaves out
  Nobody,       \* no request: a row that is not locked, a call not arrived
  Threads,      \* requests in service at a time
  Faults,       \* the faults that may happen: "failed", "unknown",
                \* "dropped", "crash"
  MaxFaults     \* how many of them may happen: bounds the model

VARIABLES
  orders,       \* table orders, as committed: id -> row or NoRow
  holder,       \* the request whose transaction has row i locked
  cache,        \* the Redis hash jetmeal:orders:active
  buffer,       \* what the Kafka producer of an instance has yet to send
  topic,        \* order.changed: the records with key i, in order
  call,         \* what each request asks for
  on,           \* the instance that each request is sent to
  draft,        \* the order in the memory of a request
  pc,           \* the call a request makes next
  answer,       \* the HTTP status it was answered with
  committed,    \* the requests whose change of a row was committed
  warm,         \* how far the start of each instance is
  writer,       \* who wrote each field of the hash last: a request, or an
                \* instance that starts, or nobody since row and field agreed
  faultsLeft    \* faults that may still happen

shared == <<orders, holder, cache, buffer, topic, committed>>
requests == <<call, on, draft, pc, answer>>
vars == <<shared, requests, warm, writer, faultsLeft>>

-----------------------------------------------------------------------------
OrderStatus == {"PENDING", "CONFIRMED", "PREPARING", "READY",
                "OUT_FOR_DELIVERY", "DELIVERED", "FINISHED", "CANCELLED"}
IsActive(status) == status \notin {"DELIVERED", "FINISHED", "CANCELLED"}

(* A row.  The user, the restaurant, the menu with its total and the       *)
(* comment travel with every write just as courier and status do.          *)
Row == [courier : Courier \union {NoCourier}, status : OrderStatus]

EventType == {"created", "updated", "cancelled", "finished"}
Message == [type : EventType, by : Request, order : OrderId,
            courier : Courier \union {NoCourier}]

(* The requests.  The id of a new order is drawn by create(); it is part   *)
(* of the call here, and never drawn twice.  A courier_id that a PUT or a  *)
(* PATCH leaves out, or gives as null, keeps the old one.                  *)
Create == [op : {"create"}, id : OrderId, status : StatusAsked]
Update == [op : {"update"}, id : OrderId, status : StatusAsked,
           courier : Courier \union {Keep}]
Patch == [op : {"patch"}, id : OrderId, status : StatusAsked \union {Keep},
          courier : Courier \union {Keep}]
Delete == [op : {"delete"}, id : OrderId]
Call == Create \union Update \union Patch \union Delete

ASSUME OrdersAssumption ==
  /\ StatusAsked \subseteq OrderStatus
  /\ NoRow \notin Row
  /\ NoCourier \notin Courier
  /\ Keep \notin StatusAsked /\ Keep \notin Courier
  /\ Nobody \notin Request \union Instance /\ Nobody \notin Call
  /\ Request \cap Instance = {}
  /\ Threads \in Nat \ {0}
  /\ Faults \subseteq {"failed", "unknown", "dropped", "crash"}
  /\ MaxFaults \in Nat

Serving == {"insert", "find", "write", "put", "publish", "erase", "remove", "commit"}
InService == {r \in Request : pc[r] \in Serving}
Codes == {200, 201, 204, 400, 404, 500}
NoAnswer == 0

Table == [OrderId -> Row \union {NoRow}]
Start == [phase : {"down", "load", "clear", "fill", "up"},
          snapshot : Table, todo : SUBSET OrderId, calm : SUBSET OrderId]

TypeOK ==
  /\ orders \in Table
  /\ holder \in [OrderId -> Request \union {Nobody}]
  /\ cache \in Table
  /\ buffer \in [Instance -> Seq(Message)]
  /\ topic \in [OrderId -> Seq(Message)]
  /\ call \in [Request -> Call \union {Nobody}]
  /\ on \in [Request -> Instance]
  /\ draft \in [Request -> Row \union {NoRow}]
  /\ pc \in [Request -> {"idle", "answered", "lost"} \union Serving]
  /\ answer \in [Request -> Codes \union {NoAnswer}]
  /\ committed \subseteq Request
  /\ warm \in [Instance -> Start]
  /\ writer \in [OrderId -> Request \union Instance \union {Nobody}]
  /\ faultsLeft \in 0..MaxFaults

NoOrders == [i \in OrderId |-> NoRow]
Started(phase) == [phase |-> phase, snapshot |-> NoOrders, todo |-> {}, calm |-> {}]

(* The service as deployed: its instances have started on an empty table.  *)
Init ==
  /\ orders = NoOrders
  /\ holder = [i \in OrderId |-> Nobody]
  /\ cache = NoOrders
  /\ buffer = [n \in Instance |-> <<>>]
  /\ topic = [i \in OrderId |-> <<>>]
  /\ call = [r \in Request |-> Nobody]
  /\ on \in [Request -> Instance]
  /\ draft = [r \in Request |-> NoRow]
  /\ pc = [r \in Request |-> "idle"]
  /\ answer = [r \in Request |-> NoAnswer]
  /\ committed = {}
  /\ warm = [n \in Instance |-> Started("up")]
  /\ writer = [i \in OrderId |-> Nobody]
  /\ faultsLeft = MaxFaults

-----------------------------------------------------------------------------
(* How a call ends: it returns ("ok"), it throws and did nothing           *)
(* ("failed"), or it throws after it took effect ("unknown").              *)
Outcome ==
  {"ok"} \union (IF faultsLeft > 0 THEN Faults \cap {"failed", "unknown"} ELSE {})
Took(o) == o \in {"ok", "unknown"}
Spend(o) == faultsLeft' = IF o = "ok" THEN faultsLeft ELSE faultsLeft - 1

IdOf(r) == call[r].id
Locked(i) == holder[i] # Nobody

Goto(r, l) ==
  /\ pc' = [pc EXCEPT ![r] = l]
  /\ UNCHANGED <<call, on, answer>>

Answer(r, code) ==
  /\ pc' = [pc EXCEPT ![r] = "answered"]
  /\ answer' = [answer EXCEPT ![r] = code]
  /\ UNCHANGED <<call, on>>

Unlock(r) == holder' = [i \in OrderId |-> IF holder[i] = r THEN Nobody ELSE holder[i]]

(* An exception leaves the @Transactional method: the transaction is       *)
(* rolled back, and the client gets the code of the exception.             *)
Rollback(r, code) ==
  /\ Unlock(r)
  /\ Answer(r, code)
  /\ UNCHANGED <<orders, committed, draft>>

(* What an exception is answered with: 400 if it came from the prices.     *)
Thrown(r) == IF call[r].op = "delete" THEN {500} ELSE {400, 500}

(* A request arrives at an instance: one that listens, which it does       *)
(* before its cache is warm.                                               *)
Receive(r, c) ==
  /\ pc[r] = "idle"
  /\ warm[on[r]].phase # "down"
  /\ Cardinality(InService) < Threads
  /\ c.op = "create" =>
       \A q \in Request : call[q] # Nobody /\ call[q].op = "create" => call[q].id # c.id
  /\ call' = [call EXCEPT ![r] = c]
  /\ pc' = [pc EXCEPT ![r] = IF c.op = "create" THEN "insert" ELSE "find"]
  /\ warm' = [n \in Instance |-> [warm[n] EXCEPT !.calm = @ \ {c.id}]]
  /\ UNCHANGED <<shared, on, draft, answer, writer, faultsLeft>>

-----------------------------------------------------------------------------
(* create(): the total is asked for, then the row is inserted.  Nobody     *)
(* else sees it before the commit.                                         *)
Insert(r) ==
  /\ pc[r] = "insert"
  /\ \/ /\ draft' = [draft EXCEPT ![r] = [courier |-> NoCourier, status |-> call[r].status]]
        /\ holder' = [holder EXCEPT ![IdOf(r)] = r]
        /\ Goto(r, "put")
        /\ UNCHANGED <<orders, committed, faultsLeft>>
     \/ /\ "failed" \in Outcome
        /\ Spend("failed")
        /\ \E code \in Thrown(r) : Rollback(r, code)
  /\ UNCHANGED <<cache, buffer, topic, warm, writer>>

(* A mutant: a PATCH without a status writes that.                         *)
MergedBlank(c, row) ==
  [courier |-> IF c.courier = Keep THEN row.courier ELSE c.courier,
   status |-> c.status]

(* The row a PUT or PATCH makes of the row it read.                        *)
Merged(c, row) ==
  [courier |-> IF c.courier = Keep THEN row.courier ELSE c.courier,
   status |-> IF c.status = Keep THEN row.status ELSE c.status]

(* findById() at the head of update(), patch() and delete(): what is       *)
(* committed at that moment, with no lock; the prices are asked for next.  *)
Find(r) ==
  /\ pc[r] = "find"
  /\ \/ /\ orders[IdOf(r)] = NoRow
        /\ Answer(r, 404)
        /\ UNCHANGED <<holder, orders, committed, draft, faultsLeft>>
     \/ /\ orders[IdOf(r)] # NoRow
        /\ \/ /\ call[r].op = "delete"
              /\ draft' = [draft EXCEPT ![r] = orders[IdOf(r)]]
              /\ Goto(r, "publish")
           \/ /\ call[r].op \in {"update", "patch"}
              /\ draft' = [draft EXCEPT ![r] = Merged(call[r], orders[IdOf(r)])]
              /\ Goto(r, "write")
        /\ UNCHANGED <<holder, orders, committed, faultsLeft>>
     \/ /\ "failed" \in Outcome
        /\ Spend("failed")
        /\ \E code \in Thrown(r) : Rollback(r, code)
  /\ UNCHANGED <<cache, buffer, topic, warm, writer>>

(* A mutant: the number of rows that UPDATE changed is not looked at.      *)
WriteUncounted(r) ==
  /\ pc[r] = "write"
  /\ ~ Locked(IdOf(r))
  /\ holder' = IF orders[IdOf(r)] = NoRow THEN holder ELSE [holder EXCEPT ![IdOf(r)] = r]
  /\ Goto(r, "put")
  /\ UNCHANGED <<orders, committed, draft, faultsLeft, cache, buffer, topic, warm, writer>>

(* A mutant: update() is an upsert.                                        *)
WriteUpserting(r) ==
  /\ pc[r] = "write"
  /\ ~ Locked(IdOf(r))
  /\ holder' = [holder EXCEPT ![IdOf(r)] = r]
  /\ Goto(r, "put")
  /\ UNCHANGED <<orders, committed, draft, faultsLeft, cache, buffer, topic, warm, writer>>

(* UPDATE waits for the lock of the row, and then may find the row gone.   *)
Write(r) ==
  /\ pc[r] = "write"
  /\ ~ Locked(IdOf(r))
  /\ \/ /\ orders[IdOf(r)] # NoRow
        /\ holder' = [holder EXCEPT ![IdOf(r)] = r]
        /\ Goto(r, "put")
        /\ UNCHANGED <<orders, committed, draft, faultsLeft>>
     \/ /\ orders[IdOf(r)] = NoRow
        /\ Rollback(r, 500)
        /\ UNCHANGED faultsLeft
     \/ /\ "failed" \in Outcome
        /\ Spend("failed")
        /\ Rollback(r, 500)
  /\ UNCHANGED <<cache, buffer, topic, warm, writer>>

Shown(row) == IF row # NoRow /\ IsActive(row.status) THEN row ELSE NoRow

(* A mutant: put() does not remove an order that is no longer active.      *)
PutActiveOnly(i, row) ==
  cache' = IF Shown(row) = NoRow THEN cache ELSE [cache EXCEPT ![i] = row]

(* ActiveOrderRedisCache.put: an order that is not active is removed.      *)
PutCached(i, row) == cache' = [cache EXCEPT ![i] = Shown(row)]
Wrote(i, who) == writer' = [writer EXCEPT ![i] = who]

Put(r) ==
  /\ pc[r] = "put"
  /\ \E o \in Outcome :
       /\ Spend(o)
       /\ \/ Took(o) /\ PutCached(IdOf(r), draft[r]) /\ Wrote(IdOf(r), r)
          \/ ~ Took(o) /\ UNCHANGED <<cache, writer>>
       /\ \/ /\ o = "ok"
             /\ Goto(r, "publish")
             /\ UNCHANGED <<orders, holder, committed, draft>>
          \/ o # "ok" /\ Rollback(r, 500)
  /\ UNCHANGED <<buffer, topic, warm>>

(* A mutant: the type is told by the row that was read, not the new one.   *)
TypeOfExisting(r) ==
  IF call[r].op = "create" THEN "created"
  ELSE IF call[r].op = "delete" THEN "cancelled"
  ELSE IF orders[IdOf(r)].status = "FINISHED" THEN "finished"
  ELSE "updated"

TypeOf(r) ==
  IF call[r].op = "create" THEN "created"
  ELSE IF call[r].op = "delete" \/ draft[r].status = "CANCELLED" THEN "cancelled"
  ELSE IF draft[r].status = "FINISHED" THEN "finished"
  ELSE "updated"

EventOf(r) ==
  [type |-> TypeOf(r), by |-> r, order |-> IdOf(r), courier |-> draft[r].courier]

(* A mutant: an order that is no longer active is not published.           *)
PublishActiveOnly(r) ==
  /\ pc[r] = "publish"
  /\ buffer' = IF IsActive(draft[r].status)
               THEN [buffer EXCEPT ![on[r]] = Append(@, EventOf(r))] ELSE buffer
  /\ Goto(r, IF call[r].op = "delete" THEN "erase" ELSE "commit")
  /\ UNCHANGED <<orders, holder, committed, draft, faultsLeft, cache, topic, warm, writer>>

(* send() hands the record to the producer and does not wait for more.     *)
Publish(r) ==
  /\ pc[r] = "publish"
  /\ \/ /\ buffer' = [buffer EXCEPT ![on[r]] = Append(@, EventOf(r))]
        /\ Goto(r, IF call[r].op = "delete" THEN "erase" ELSE "commit")
        /\ UNCHANGED <<orders, holder, committed, draft, faultsLeft>>
     \/ /\ "failed" \in Outcome
        /\ Spend("failed")
        /\ Rollback(r, 500)
        /\ UNCHANGED buffer
  /\ UNCHANGED <<cache, topic, warm, writer>>

-----------------------------------------------------------------------------
(* DELETE waits for the lock of the row, too, but does not mind if the row *)
(* is gone.                                                                *)
Erase(r) ==
  /\ pc[r] = "erase"
  /\ ~ Locked(IdOf(r))
  /\ \/ /\ holder' = IF orders[IdOf(r)] = NoRow THEN holder
                     ELSE [holder EXCEPT ![IdOf(r)] = r]
        /\ Goto(r, "remove")
        /\ UNCHANGED <<orders, committed, draft, faultsLeft>>
     \/ /\ "failed" \in Outcome
        /\ Spend("failed")
        /\ Rollback(r, 500)
  /\ UNCHANGED <<cache, buffer, topic, warm, writer>>

RemoveCached(r) ==
  /\ pc[r] = "remove"
  /\ \E o \in Outcome :
       /\ Spend(o)
       /\ \/ /\ Took(o)
             /\ cache' = [cache EXCEPT ![IdOf(r)] = NoRow]
             /\ Wrote(IdOf(r), IF holder[IdOf(r)] = r THEN r ELSE Nobody)
          \/ ~ Took(o) /\ UNCHANGED <<cache, writer>>
       /\ \/ /\ o = "ok"
             /\ Goto(r, "commit")
             /\ UNCHANGED <<orders, holder, committed, draft>>
          \/ o # "ok" /\ Rollback(r, 500)
  /\ UNCHANGED <<buffer, topic, warm>>

Result(r) == IF call[r].op = "delete" THEN NoRow ELSE draft[r]
Success(r) ==
  CASE call[r].op = "create" -> 201
    [] call[r].op = "delete" -> 204
    [] OTHER -> 200

(* The method has returned, the transaction is committed, and only then    *)
(* the client is answered.                                                 *)
Commit(r) ==
  /\ pc[r] = "commit"
  /\ \E o \in Outcome :
       /\ Spend(o)
       /\ \/ /\ Took(o)
             /\ holder[IdOf(r)] = r
             /\ orders' = [orders EXCEPT ![IdOf(r)] = Result(r)]
             /\ committed' = committed \union {r}
          \/ /\ ~ (Took(o) /\ holder[IdOf(r)] = r)
             /\ UNCHANGED <<orders, committed>>
       /\ Answer(r, IF o = "ok" THEN Success(r) ELSE 500)
  /\ Unlock(r)
  /\ UNCHANGED <<cache, buffer, topic, draft, warm, writer>>

-----------------------------------------------------------------------------
(* The producer of instance n sends the records in its buffer in order.  A *)
(* record it gives up on is lost: nobody looks at the result of send().    *)
Send(n) ==
  /\ buffer[n] # <<>>
  /\ buffer' = [buffer EXCEPT ![n] = Tail(@)]
  /\ \/ /\ LET m == Head(buffer[n]) IN
             topic' = [topic EXCEPT ![m.order] = Append(@, m)]
        /\ UNCHANGED faultsLeft
     \/ /\ "dropped" \in Faults /\ faultsLeft > 0
        /\ Spend("dropped")
        /\ UNCHANGED topic
  /\ UNCHANGED <<orders, holder, cache, committed, requests, warm, writer>>

(* An instance dies: its requests are never answered, their transactions   *)
(* are rolled back, what it had not sent is lost.                          *)
Crash(n) ==
  /\ "crash" \in Faults /\ faultsLeft > 0
  /\ warm[n].phase # "down"
  /\ Spend("crash")
  /\ LET lost == {r \in InService : on[r] = n} IN
       /\ pc' = [r \in Request |-> IF r \in lost THEN "lost" ELSE pc[r]]
       /\ holder' = [i \in OrderId |-> IF holder[i] \in lost THEN Nobody ELSE holder[i]]
  /\ buffer' = [buffer EXCEPT ![n] = <<>>]
  /\ warm' = [warm EXCEPT ![n] = Started("down")]
  /\ UNCHANGED <<orders, cache, topic, committed, call, on, draft, answer, writer>>

(* Kubernetes starts it again.  It listens, and then its ApplicationRunner *)
(* refills the cache from the table: read, delete the hash, put each row.  *)
(* A call of these that throws ends the process, which is a crash again.   *)
Restart(n) ==
  /\ warm[n].phase = "down"
  /\ warm' = [warm EXCEPT ![n] = Started("load")]
  /\ UNCHANGED <<shared, requests, writer, faultsLeft>>

LoadActive(n) ==
  /\ warm[n].phase = "load"
  /\ warm' = [warm EXCEPT ![n] =
       [phase |-> "clear", snapshot |-> [i \in OrderId |-> Shown(orders[i])],
        todo |-> {i \in OrderId : Shown(orders[i]) # NoRow},
        calm |-> OrderId \ {IdOf(r) : r \in InService}]]
  /\ UNCHANGED <<shared, requests, writer, faultsLeft>>

ClearCache(n) ==
  /\ warm[n].phase = "clear"
  /\ cache' = NoOrders
  /\ writer' = [i \in OrderId |-> n]
  /\ warm' = [warm EXCEPT ![n].phase = "fill"]
  /\ UNCHANGED <<orders, holder, buffer, topic, committed, requests, faultsLeft>>

FillCache(n) ==
  /\ warm[n].phase = "fill"
  /\ \/ \E i \in warm[n].todo :
          /\ PutCached(i, warm[n].snapshot[i]) /\ Wrote(i, n)
          /\ warm' = [warm EXCEPT ![n].todo = @ \ {i}]
     \/ /\ warm[n].todo = {}
        /\ warm' = [warm EXCEPT ![n] = Started("up")]
        /\ writer' = [i \in OrderId |->
                        IF writer[i] = n /\ i \in warm[n].calm THEN Nobody ELSE writer[i]]
        /\ UNCHANGED cache
  /\ UNCHANGED <<orders, holder, buffer, topic, committed, requests, faultsLeft>>

Serve(r) ==
  \/ Insert(r) \/ Find(r) \/ Write(r) \/ Put(r) \/ Publish(r)
  \/ Erase(r) \/ RemoveCached(r) \/ Commit(r)

WarmUp(n) == Restart(n) \/ LoadActive(n) \/ ClearCache(n) \/ FillCache(n)

Quiet ==
  /\ \A r \in Request : pc[r] \in {"answered", "lost"}
  /\ \A n \in Instance : buffer[n] = <<>> /\ warm[n].phase = "up"
  /\ UNCHANGED vars

Next ==
  \/ \E r \in Request : Serve(r) \/ \E c \in Call : Receive(r, c)
  \/ \E n \in Instance : Send(n) \/ Crash(n) \/ WarmUp(n)
  \/ Quiet

(* A thread goes on with its request, PostgreSQL hands a free lock to who  *)
(* waits for it, a producer sends, Kubernetes restarts what died.  Nothing *)
(* makes a request arrive or a fault happen.                               *)
Fairness ==
  /\ \A r \in Request : WF_vars(Serve(r))
  /\ \A n \in Instance : WF_vars(Send(n)) /\ WF_vars(WarmUp(n))

Spec == Init /\ [][Next]_vars /\ Fairness
-----------------------------------------------------------------------------
(* What the properties speak of.                                           *)
NoFaultYet == faultsLeft = MaxFaults
AllUp == \A n \in Instance : warm[n].phase = "up"
AtRest == InService = {} /\ AllUp /\ \A n \in Instance : buffer[n] = <<>>
Places(records, r) == {k \in 1..Len(records) : records[k].by = r}
EventsBy(r) ==
  (UNION {{n} \X Places(buffer[n], r) : n \in Instance})
    \union (UNION {{i} \X Places(topic[i], r) : i \in OrderId})

(* Whatever failed, and whatever replica started anew: the cache shows     *)
(* what the table holds for every order whose field was last written by a  *)
(* request that was then committed, or by a refill beside which no request *)
(* on the order ran, even while the next request has the row locked.  So   *)
(* the lock also orders the puts and removals of concurrent requests, and  *)
(* an order that is shown wrong is shown right from its next successful    *)
(* change on (OrderApplicationServiceImpl, ActiveOrderRedisCache).         *)
CacheAgrees ==
  \A i \in OrderId :
    writer[i] \in committed \union {Nobody} => cache[i] = Shown(orders[i])

(* As long as nothing fails, each request that changed its order has       *)
(* published one event, and none was published about a change that did     *)
(* not happen or was refused; only a delete whose row was gone may publish *)
(* for nothing.  Whatever fails, no request publishes twice.               *)
OneEventPerChange ==
  \A r \in Request :
    /\ Cardinality(EventsBy(r)) <= 1
    /\ NoFaultYet /\ pc[r] = "answered" =>
         /\ r \in committed => EventsBy(r) # {}
         /\ EventsBy(r) # {} => r \in committed \/ answer[r] = 204

(* The answer is true whatever ran beside the request and failed: 200 and  *)
(* 201 mean that the change is committed, 400 and 404 that nothing is, and *)
(* after a 204 the order is gone for good.                                 *)
AnswerIsTrue ==
  \A r \in Request :
    /\ answer[r] \in {200, 201} => r \in committed
    /\ answer[r] \in {400, 404} => r \notin committed
    /\ answer[r] = 204 => orders[IdOf(r)] = NoRow

(* To the table alone, an order is created once, changed only while it     *)
(* exists and deleted once, whatever is read before the lock and fails     *)
(* after it.                                                               *)
Open(i) == orders[i] # NoRow
Closed(i) == \E r \in committed : IdOf(r) = i /\ call[r].op = "delete"
BookOf(i) == IF Open(i) THEN "open" ELSE IF Closed(i) THEN "closed" ELSE "unused"
TheBook == [i \in OrderId |-> BookOf(i)]
Book == INSTANCE OrderBook WITH book <- TheBook
ImplementsOrderBook == Book!OrderBookSpec

(* The events of an order, sent by one instance, tell its story in order:  *)
(* once all is quiet, the last one tells the courier of the row and, if it *)
(* is not that of the creation, whether the order is finished or           *)
(* cancelled.  Two instances race.                                         *)
LastEventIsCurrent ==
  (\A q, r \in Request : on[q] = on[r]) /\ NoFaultYet /\ AtRest =>
    \A i \in OrderId : orders[i] # NoRow =>
      LET m == Last(topic[i]) IN
      /\ m.courier = orders[i].courier
      /\ m.type # "created" =>
           m.type = CASE orders[i].status = "FINISHED" -> "finished"
                      [] orders[i].status = "CANCELLED" -> "cancelled"
                      [] OTHER -> "updated"

-----------------------------------------------------------------------------
(* What documents of the repository say, and the service does not keep.    *)

(* A field that a PATCH leaves out is left unchanged                       *)
(* (PatchOrderCommand.java:8, openapi.yaml:182): the commit of a PATCH     *)
(* changes no field but those it names.                                    *)
Kept(r, old, new) ==
  /\ call[r].courier = Keep => new.courier = old.courier
  /\ call[r].status = Keep => new.status = old.status
OmittedFieldsKept ==
  [][\A r \in Request :
       /\ r \in committed' \ committed
       /\ call[r].op = "patch"
       => Kept(r, orders[IdOf(r)], orders'[IdOf(r)])]_vars
=============================================================================
