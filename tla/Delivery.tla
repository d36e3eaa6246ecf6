------------------------------ MODULE Delivery ------------------------------
(***************************************************************************)
(* The delivery service (services/delivery): couriers register and report  *)
(* where they are over HTTP, and Kafka events of orders assign and free    *)
(* them.                                                                   *)
(*                                                                         *)
(* Nothing here runs in a transaction.  An operation reads a courier,      *)
(* changes the copy and saves it whole, so between its read and its save   *)
(* any other operation may come.  The consumer of a partition handles its  *)
(* records one by one, and commits its offset only after a batch of them:  *)
(* after a crash records are handled again.                                *)
(***************************************************************************)
EXTENDS Integers, Sequences, FiniteSets, FiniteSetsExt

CONSTANTS
  Partition,    \* partitions of topic order-events, each with one consumer
  OrderId,
  CourierId,    \* random UUIDs of couriers
  User,
  Place,        \* points, on a line
  Staff,        \* the couriers registered before we look
  Request,      \* HTTP requests that change something, each sent once
  None,         \* a null, or no such row
  Faults,       \* the faults that may happen: "failed", "unknown", "crash"
  MaxFaults     \* how many of them may happen: bounds the model

VARIABLES
  couriers,     \* table couriers: id -> row or None
  records,      \* records[p]: the records of a partition
  position,     \* position[p]: how many of them the consumer has handled
  offset,       \* offset[p]: the committed offset
  pc,           \* the next call of a consumer or a request
  copy,         \* the courier in the memory of a consumer or a request
  overlapped,   \* two operations have been between read and save at a time
  faultsLeft    \* faults that may still happen

topics == <<records, position, offset>>
vars == <<couriers, topics, pc, copy, overlapped, faultsLeft>>

Actor == Partition \union Request

-----------------------------------------------------------------------------
Courier == [id : CourierId, user : User, location : Place, assigned : BOOLEAN]
(* "ended" stands for cancelled and finished, which are handled alike.     *)
Message == [type : {"created", "updated", "ended"},
            order : OrderId, location : Place \union {None},
            courier : CourierId \union {None}]

ASSUME DeliveryAssumption ==
  /\ Place \subseteq Int /\ 0 \in Place
  /\ None \notin CourierId \union Place
  /\ None \notin Courier
  /\ Partition \cap Request = {}
  /\ Staff \subseteq CourierId
  /\ Faults \subseteq {"failed", "unknown", "crash"}
  /\ MaxFaults \in Nat

Busy == {"save", "publish", "free", "store"}
Operating == {a \in Actor : pc[a] \in Busy}

TypeOK ==
  /\ couriers \in [CourierId -> Courier \union {None}]
  /\ \A c \in CourierId : couriers[c] # None => couriers[c].id = c
  /\ records \in [Partition -> Seq(Message)]
  /\ \A p \in Partition : 0 <= offset[p] /\ offset[p] <= position[p]
                            /\ position[p] <= Len(records[p])
  /\ pc \in [Actor -> {"poll", "idle", "done"} \union Busy]
  /\ copy \in [Actor -> Courier \union {None}]
  /\ overlapped \in BOOLEAN
  /\ faultsLeft \in 0..MaxFaults

Init ==
  /\ couriers \in [CourierId -> {None} \union {k \in Courier : k.location = 0 /\ ~ k.assigned}]
  /\ \A c \in CourierId : IF c \in Staff THEN couriers[c] # None /\ couriers[c].id = c
                         ELSE couriers[c] = None
  /\ \A c, d \in Staff : couriers[c].user = couriers[d].user => c = d
  /\ records = [p \in Partition |-> <<>>]
  /\ position = [p \in Partition |-> 0]
  /\ offset = [p \in Partition |-> 0]
  /\ pc = [a \in Actor |-> IF a \in Partition THEN "poll" ELSE "idle"]
  /\ copy = [a \in Actor |-> None]
  /\ overlapped = FALSE
  /\ faultsLeft = MaxFaults

-----------------------------------------------------------------------------
(* How a call of the database or of Kafka ends, as seen by its caller.     *)
Outcome ==
  {"ok"} \union (IF faultsLeft > 0 THEN Faults \cap {"failed", "unknown"} ELSE {})
Took(o) == o \in {"ok", "unknown"}
Spend(o) == faultsLeft' = IF o = "ok" THEN faultsLeft ELSE faultsLeft - 1

Goto(a, l, row) ==
  /\ pc' = [pc EXCEPT ![a] = l]
  /\ copy' = [copy EXCEPT ![a] = row]

(* JdbcCourierRepository.save: an upsert of every column.                  *)
SaveRow(row) == couriers' = [couriers EXCEPT ![row.id] = row]

Known == {c \in CourierId : couriers[c] # None}
OfUser(u) == {c \in Known : couriers[c].user = u}
Distance(x, y) == IF x < y THEN y - x ELSE x - y

(* A mutant: the query does not look at the flag.                          *)
ClosestOfAll(place) ==
  {c \in Known : \A d \in Known :
     Distance(couriers[c].location, place) <= Distance(couriers[d].location, place)}

(* The couriers the query of findClosestAvailable may return: one of the   *)
(* closest that are not assigned.                                          *)
Closest(place) ==
  LET free == {c \in Known : ~ couriers[c].assigned} IN
  {c \in free : \A d \in free :
     Distance(couriers[c].location, place) <= Distance(couriers[d].location, place)}

-----------------------------------------------------------------------------
(* The consumer of a partition.                                            *)
Current(p) == records[p][position[p] + 1]

Handled(p) ==
  /\ Goto(p, "poll", None)
  /\ position' = [position EXCEPT ![p] = @ + 1]
  /\ UNCHANGED offset

(* An exception: the error handler seeks back and the record is handled    *)
(* again, up to nine times; MaxFaults is below that.                       *)
Again(p) == Goto(p, "poll", None) /\ UNCHANGED <<position, offset>>

(* The record asks for a courier: its order is new, has none and has a     *)
(* location.                                                               *)
WantsCourier(m) == m.type = "created" /\ m.courier = None /\ m.location # None
(* The record frees the courier it names.                                  *)
Frees(m) == m.type = "ended" /\ m.courier # None

(* A mutant: an order for which no courier is free waits for one.          *)
SeekUntilFree(p, place) ==
  \E c \in Closest(place) : Goto(p, "save", couriers[c]) /\ UNCHANGED <<position, offset>>

(* A free courier is sought; without one the order is left alone.          *)
SeekCourier(p, place) ==
  \/ \E c \in Closest(place) : Goto(p, "save", couriers[c]) /\ UNCHANGED <<position, offset>>
  \/ Closest(place) = {} /\ Handled(p)

(* The next record is polled, and a courier read if it calls for one.      *)
Poll(p) ==
  /\ pc[p] = "poll" /\ position[p] < Len(records[p])
  /\ LET m == Current(p) IN
       \/ /\ WantsCourier(m)
          /\ SeekCourier(p, m.location)
          /\ UNCHANGED faultsLeft
       \/ /\ Frees(m)
          /\ \/ /\ m.courier \in Known
                /\ Goto(p, "free", couriers[m.courier]) /\ UNCHANGED <<position, offset>>
             \/ m.courier \notin Known /\ Handled(p)
          /\ UNCHANGED faultsLeft
       \/ /\ ~ WantsCourier(m) /\ ~ Frees(m)
          /\ Handled(p)
          /\ UNCHANGED faultsLeft
       \/ /\ WantsCourier(m) \/ Frees(m)
          /\ "failed" \in Outcome /\ Spend("failed")
          /\ Again(p)
  /\ UNCHANGED <<couriers, records>>

SaveAssigned(p) ==
  /\ pc[p] = "save"
  /\ \E o \in Outcome :
       /\ Spend(o)
       /\ IF Took(o) THEN SaveRow([copy[p] EXCEPT !.assigned = TRUE])
          ELSE UNCHANGED couriers
       /\ \/ /\ o = "ok"
             /\ Goto(p, "publish", copy[p]) /\ UNCHANGED <<position, offset>>
          \/ o # "ok" /\ Again(p)
  /\ UNCHANGED records

AnnouncementOf(p) ==
  [Current(p) EXCEPT !.type = "updated", !.courier = copy[p].id]

(* A mutant: the record is not taken for handled after it was announced.   *)
PublishAssignmentAgain(p) ==
  /\ pc[p] = "publish"
  /\ Len(records[p]) < 6
  /\ records' = [records EXCEPT ![p] = Append(@, AnnouncementOf(p))]
  /\ Again(p)
  /\ UNCHANGED <<couriers, faultsLeft>>

(* The message has no key, so it goes to any partition.  The result of     *)
(* send() is not looked at: a message that is lost is lost unnoticed.      *)
PublishAssignment(p) ==
  /\ pc[p] = "publish"
  /\ \/ /\ \E q \in Partition :
             records' = [records EXCEPT ![q] = Append(@, AnnouncementOf(p))]
        /\ Handled(p)
        /\ UNCHANGED faultsLeft
     \/ /\ "failed" \in Outcome /\ Spend("failed")
        /\ Handled(p) \/ Again(p)
        /\ UNCHANGED records
  /\ UNCHANGED couriers

SaveFreed(p) ==
  /\ pc[p] = "free"
  /\ \E o \in Outcome :
       /\ Spend(o)
       /\ IF Took(o) THEN SaveRow([copy[p] EXCEPT !.assigned = FALSE])
          ELSE UNCHANGED couriers
       /\ IF o = "ok" THEN Handled(p) ELSE Again(p)
  /\ UNCHANGED records

(* A mutant: the offset of the next record is committed as handled.        *)
CommitOffsetAhead(p) ==
  /\ pc[p] = "poll" /\ offset[p] # position[p]
  /\ offset' = [offset EXCEPT ![p] = position[p] + 1]
  /\ UNCHANGED <<couriers, records, position, pc, copy, faultsLeft>>

CommitOffset(p) ==
  /\ pc[p] = "poll" /\ offset[p] # position[p]
  /\ offset' = [offset EXCEPT ![p] = position[p]]
  /\ UNCHANGED <<couriers, records, position, pc, copy, faultsLeft>>

(* The consumer dies, or its partition is given to another: the records    *)
(* after the committed offset are handled again.                           *)
Crash(p) ==
  /\ "crash" \in Faults /\ faultsLeft > 0
  /\ Spend("crash")
  /\ position' = [position EXCEPT ![p] = offset[p]]
  /\ Goto(p, "poll", None)
  /\ UNCHANGED <<couriers, records, offset>>

Consume(p) == Poll(p) \/ SaveAssigned(p) \/ PublishAssignment(p) \/ SaveFreed(p)

-----------------------------------------------------------------------------
(* The HTTP requests: each arrives, reads a courier and goes on with what  *)
(* is to be stored, or is answered at once.                                *)
Drawn == Known \union {copy[r].id : r \in {a \in Request : pc[a] = "store"}}
NewCourier(c, u) == [id |-> c, user |-> u, location |-> 0, assigned |-> FALSE]

(* registerCourier: the courier of the user, or a new one at point 0 with  *)
(* an id that nobody else drew.                                            *)
RegisterCourier(q, u) ==
  \/ OfUser(u) # {} /\ Goto(q, "done", None)
  \/ /\ OfUser(u) = {}
     /\ \E c \in CourierId \ Drawn : Goto(q, "store", NewCourier(c, u))

(* updateCourier: what it changes is the time only.                        *)
UpdateCourier(q, u) ==
  \/ \E c \in OfUser(u) : Goto(q, "store", couriers[c])
  \/ OfUser(u) = {} /\ Goto(q, "done", None)

UpdatePosition(q, c, place) ==
  \/ c \in Known /\ Goto(q, "store", [couriers[c] EXCEPT !.location = place])
  \/ c \notin Known /\ Goto(q, "done", None)

Receive(q) ==
  /\ pc[q] = "idle"
  /\ \/ /\ \/ \E u \in User : RegisterCourier(q, u) \/ UpdateCourier(q, u)
           \/ \E c \in CourierId, place \in Place : UpdatePosition(q, c, place)
        /\ UNCHANGED faultsLeft
     \/ /\ "failed" \in Outcome /\ Spend("failed")
        /\ Goto(q, "done", None)
  /\ UNCHANGED <<couriers, topics>>

Store(q) ==
  /\ pc[q] = "store"
  /\ \E o \in Outcome :
       /\ Spend(o)
       /\ IF Took(o) THEN SaveRow(copy[q]) ELSE UNCHANGED couriers
  /\ Goto(q, "done", None)
  /\ UNCHANGED topics

-----------------------------------------------------------------------------
(* The order service: an order is created, with or without a location, and *)
(* ends once.  Its last event names the courier that was announced for the *)
(* order, if somebody has told the order service.                          *)
Announced(o) ==
  UNION {{records[p][k].courier : k \in {j \in 1..Len(records[p]) :
            records[p][j].order = o /\ records[p][j].type = "updated"}} : p \in Partition}
EventsOf(p, o, type) ==
  {k \in 1..Len(records[p]) : records[p][k].order = o /\ records[p][k].type = type}

PublishEvent(p, m) ==
  /\ records' = [records EXCEPT ![p] = Append(@, m)]
  /\ UNCHANGED <<couriers, position, offset, pc, copy, faultsLeft>>

OrderCreated(p, o) ==
  /\ \A q \in Partition : EventsOf(q, o, "created") = {}
  /\ \E l \in Place \union {None} :
       PublishEvent(p, [type |-> "created", order |-> o, location |-> l, courier |-> None])

OrderEnded(p, o) ==
  /\ EventsOf(p, o, "created") # {} /\ EventsOf(p, o, "ended") = {}
  /\ \E c \in Announced(o) \union {None} :
       PublishEvent(p, [type |-> "ended", order |-> o, location |-> None, courier |-> c])

-----------------------------------------------------------------------------
Steps ==
  \/ \E p \in Partition : \/ Consume(p) \/ CommitOffset(p) \/ Crash(p)
                          \/ \E o \in OrderId : OrderCreated(p, o) \/ OrderEnded(p, o)
  \/ \E q \in Request : Receive(q) \/ Store(q)

Quiet ==
  /\ \A o \in OrderId : \E p \in Partition : EventsOf(p, o, "ended") # {}
  /\ \A q \in Request : pc[q] = "done"
  /\ \A p \in Partition : pc[p] = "poll" /\ offset[p] = Len(records[p])
  /\ UNCHANGED vars

Next ==
  \/ Steps /\ overlapped' = (overlapped \/ Cardinality(Operating') > 1)
  \/ Quiet

(* A consumer goes on, and commits what it has handled.  Nothing makes an  *)
(* order, a request or a fault happen.                                     *)
Fairness ==
  \A p \in Partition :
    /\ WF_vars(Consume(p) /\ overlapped' = (overlapped \/ Cardinality(Operating') > 1))
    /\ WF_vars(CommitOffset(p) /\ overlapped' = overlapped)

Spec == Init /\ [][Next]_vars /\ Fairness
-----------------------------------------------------------------------------
(* What the properties speak of.                                           *)
Undisturbed == ~ overlapped /\ faultsLeft = MaxFaults
Announcements(o) == UNION {{<<p, k>> : k \in EventsOf(p, o, "updated")} : p \in Partition}
EndHandled(o, c) ==
  \E p \in Partition : \E k \in EventsOf(p, o, "ended") :
    k <= position[p] /\ records[p][k].courier = c
ServedBy(c) == {o \in OrderId : c \in Announced(o) /\ ~ EndHandled(o, c)}

(* As long as no two operations overlap and nothing fails, a courier has   *)
(* at most one order, and its flag says whether it has one: no sequence of *)
(* registrations, moves, assignments and ends forgets or doubles one.      *)
OneOrderPerCourier ==
  Undisturbed =>
    \A c \in CourierId :
      /\ Cardinality(ServedBy(c)) <= 1
      /\ Operating = {} /\ c \in Known => couriers[c].assigned = (ServedBy(c) # {})

(* Whatever overlaps, an order is announced no more often than once and    *)
(* once more for each fault: a redelivered or retried record is the only   *)
(* way to a second courier (assignCourierToOrder).                         *)
AnnouncedOncePerAttempt ==
  \A o \in OrderId : Cardinality(Announcements(o)) <= 1 + (MaxFaults - faultsLeft)

(* Every record is handled in the end, and its offset committed: no        *)
(* record, exception or crash stops the consumer of a partition.           *)
EveryRecordHandled ==
  \A p \in Partition : []<>(offset[p] = Len(records[p]))
=============================================================================
