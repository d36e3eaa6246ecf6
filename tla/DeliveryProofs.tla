---------------------------- MODULE DeliveryProofs ----------------------------
(***************************************************************************)
(* Proofs about Delivery, for any number of partitions, orders, couriers,  *)
(* requests and faults: an order is announced once for each attempt, and   *)
(* as long as nothing overlaps or fails a courier has one order and the    *)
(* flag says whether it has one.                                           *)
(***************************************************************************)
EXTENDS Delivery, FiniteSetTheorems, TLAPS

(* The inductive invariant.  Where the consumers are.                      *)
Positions ==
  /\ position \in [Partition -> Nat]
  /\ offset \in [Partition -> Nat]

(* What a consumer or a request is at, and the courier it has in memory.   *)
Stage(a) ==
  /\ a \in Partition => pc[a] \in {"poll", "save", "publish", "free"}
  /\ a \in Request => pc[a] \in {"idle", "store", "done"}
  /\ pc[a] \in Busy => copy[a] # None
  /\ pc[a] \in {"save", "publish", "free"} =>
       position[a] < Len(records[a]) /\ copy[a].id \in Known
  /\ pc[a] \in {"save", "publish"} => WantsCourier(Current(a))
  /\ pc[a] = "free" => Frees(Current(a)) /\ copy[a].id = Current(a).courier

Alone ==
  /\ IsFiniteSet(Operating)
  /\ ~ overlapped => \A a, b \in Operating : a = b

Once(type) ==
  \A o \in OrderId, p, q \in Partition :
    \A j \in EventsOf(p, o, type), k \in EventsOf(q, o, type) : p = q /\ j = k
EndsKnown(o) ==
  \A p \in Partition : \A k \in EventsOf(p, o, "ended") :
    records[p][k].courier \in Announced(o) \union {None}

(* What the topic holds of an order.                                       *)
History ==
  /\ Once("created") /\ Once("ended")
  /\ \A o \in OrderId, p \in Partition :
       EventsOf(p, o, "ended") # {} => EventsOf(p, o, "created") # {}
  /\ \A o \in OrderId : EndsKnown(o) /\ Announced(o) \subseteq Known

(* A record of a new order that is still to be handled leaves room for one *)
(* announcement more.                                                      *)
CreatedHandled(o) ==
  \E p \in Partition : \E k \in EventsOf(p, o, "created") : k <= position[p]
Attempts(o) ==
  /\ IsFiniteSet(Announcements(o))
  /\ Cardinality(Announcements(o)) <=
       (IF CreatedHandled(o) THEN 1 ELSE 0) + (MaxFaults - faultsLeft)

(* In calm: the copy of a courier is as good as its row, and the flag of a *)
(* courier is set from the save of an assignment on until that of its end. *)
Promised(c) == \E p \in Partition : pc[p] = "publish" /\ copy[p].id = c
Fresh(a) ==
  /\ pc[a] \in {"save", "free"} => copy[a] = couriers[copy[a].id]
  /\ pc[a] = "save" => ~ copy[a].assigned
  /\ pc[a] = "store" =>
       IF copy[a].id \in Known THEN copy[a].assigned = couriers[copy[a].id].assigned
       ELSE ~ copy[a].assigned
Flags(c) ==
  /\ \A m, n \in ServedBy(c) : m = n
  /\ c \in Known => (couriers[c].assigned <=> ServedBy(c) # {} \/ Promised(c))
  /\ Promised(c) => ServedBy(c) = {}

IInv ==
  /\ TypeOK /\ Positions /\ Alone /\ History
  /\ \A a \in Actor : Stage(a)
  /\ \A o \in OrderId : Attempts(o)
  /\ Undisturbed => /\ \A a \in Actor : Fresh(a)
                    /\ \A c \in CourierId : Flags(c)
-----------------------------------------------------------------------------
(* Rows and records.                                                       *)
LEMMA ActorKinds ==
  /\ \A p \in Partition : p \in Actor /\ p \notin Request
  /\ \A q \in Request : q \in Actor /\ q \notin Partition
  /\ \A a \in Actor : a \in Partition \/ a \in Request
BY DeliveryAssumption DEF Actor

LEMMA CourierFields ==
  ASSUME NEW k \in Courier
  PROVE  /\ k.id \in CourierId /\ k.user \in User /\ k.location \in Place
         /\ k.assigned \in BOOLEAN /\ k # None
BY DeliveryAssumption DEF Courier

LEMMA KnownRows ==
  ASSUME IInv
  PROVE  /\ \A c \in Known : c \in CourierId /\ couriers[c] \in Courier /\ couriers[c].id = c
         /\ \A c \in CourierId : c \notin Known => couriers[c] = None
BY DEF IInv, TypeOK, Known

LEMMA Topic ==
  ASSUME IInv, NEW p \in Partition
  PROVE  /\ records[p] \in Seq(Message) /\ Len(records[p]) \in Nat
         /\ \A k \in 1..Len(records[p]) : records[p][k] \in Message
         /\ position[p] \in Nat /\ offset[p] \in Nat
         /\ offset[p] <= position[p] /\ position[p] <= Len(records[p])
         /\ position[p] < Len(records[p]) =>
              Current(p) \in Message /\ position[p] + 1 \in 1..Len(records[p])
BY DEF IInv, TypeOK, Positions, Current

(* A partition is only appended to.                                        *)
Grown ==
  \A p \in Partition :
    /\ Len(records'[p]) \in Nat /\ Len(records[p]) <= Len(records'[p])
    /\ \A k \in 1..Len(records[p]) : records'[p][k] = records[p][k]

LEMMA GrownRest ==
  ASSUME IInv, UNCHANGED records
  PROVE  Grown /\ records' \in [Partition -> Seq(Message)]
BY Topic DEF Grown, IInv, TypeOK

LEMMA AppendGrown ==
  ASSUME IInv, NEW q \in Partition, NEW m \in Message,
         records' = [records EXCEPT ![q] = Append(@, m)]
  PROVE  /\ Grown /\ records' \in [Partition -> Seq(Message)]
         /\ Len(records'[q]) = Len(records[q]) + 1 /\ records'[q][Len(records[q]) + 1] = m
         /\ \A p \in Partition : p # q => records'[p] = records[p]
<1>1. /\ records'[q] = Append(records[q], m)
      /\ \A p \in Partition : p # q => records'[p] = records[p]
      /\ records \in [Partition -> Seq(Message)]
  BY DEF IInv, TypeOK
<1>2. records[q] \in Seq(Message)
  BY <1>1
<1>3. /\ records'[q] \in Seq(Message) /\ Len(records'[q]) = Len(records[q]) + 1
      /\ records'[q][Len(records[q]) + 1] = m
      /\ \A k \in 1..Len(records[q]) : records'[q][k] = records[q][k]
  BY <1>1, <1>2
<1>4. records' \in [Partition -> Seq(Message)]
  BY <1>1, <1>3
<1>5. ASSUME NEW p \in Partition
      PROVE  /\ Len(records'[p]) \in Nat /\ Len(records[p]) <= Len(records'[p])
             /\ \A k \in 1..Len(records[p]) : records'[p][k] = records[p][k]
  <2>1. CASE p = q
    BY <1>2, <1>3, <2>1, Topic
  <2>2. CASE p # q
    BY <1>1, <2>2, Topic
  <2> QED
    BY <2>1, <2>2
<1> QED
  BY <1>1, <1>3, <1>4, <1>5 DEF Grown

LEMMA AnnouncedIs ==
  ASSUME NEW o
  PROVE  /\ \A c : c \in Announced(o) <=>
              \E p \in Partition : \E k \in EventsOf(p, o, "updated") : records[p][k].courier = c
         /\ \A x : x \in Announcements(o) <=>
              \E p \in Partition : \E k \in EventsOf(p, o, "updated") : x = <<p, k>>
BY DEF Announced, Announcements, EventsOf

LEMMA EventsSame ==
  ASSUME UNCHANGED records
  PROVE  /\ \A p, o, type : EventsOf(p, o, type)' = EventsOf(p, o, type)
         /\ \A o : Announced(o)' = Announced(o) /\ Announcements(o)' = Announcements(o)
BY DEF EventsOf, Announced, Announcements

LEMMA EventsAppended ==
  ASSUME IInv, NEW q \in Partition, NEW m \in Message,
         records' = [records EXCEPT ![q] = Append(@, m)]
  PROVE  /\ \A o, type : \A p \in Partition :
              p # q \/ o # m.order \/ type # m.type => EventsOf(p, o, type)' = EventsOf(p, o, type)
         /\ EventsOf(q, m.order, m.type)' =
              EventsOf(q, m.order, m.type) \union {Len(records[q]) + 1}
<1> PICK n : n = Len(records[q]) + 1
  OBVIOUS
<1>1. /\ Len(records'[q]) = n /\ records'[q][n] = m /\ n \in Nat
      /\ \A p \in Partition : p # q => records'[p] = records[p]
      /\ \A k \in 1..Len(records[q]) : records'[q][k] = records[q][k]
  BY AppendGrown, Topic DEF Grown
<1>2. 1..n = (1..Len(records[q])) \union {n} /\ n \notin 1..Len(records[q])
  BY Topic
<1>3. ASSUME NEW p \in Partition, NEW o, NEW type, p # q \/ o # m.order \/ type # m.type
      PROVE  EventsOf(p, o, type)' = EventsOf(p, o, type)
  <2>1. CASE p # q
    BY <1>1, <2>1 DEF EventsOf
  <2>2. CASE p = q /\ (o # m.order \/ type # m.type)
    BY <1>1, <1>2, <2>2 DEF EventsOf
  <2> QED
    BY <1>3, <2>1, <2>2
<1>4. EventsOf(q, m.order, m.type)' = EventsOf(q, m.order, m.type) \union {n}
  BY <1>1, <1>2 DEF EventsOf
<1> QED
  BY <1>3, <1>4

LEMMA AnnouncedAppended ==
  ASSUME IInv, NEW q \in Partition, NEW m \in Message,
         records' = [records EXCEPT ![q] = Append(@, m)]
  PROVE  /\ \A o : o # m.order \/ m.type # "updated" =>
              Announced(o)' = Announced(o) /\ Announcements(o)' = Announcements(o)
         /\ m.type = "updated" =>
              /\ Announced(m.order)' = Announced(m.order) \union {m.courier}
              /\ Announcements(m.order)' =
                   Announcements(m.order) \union {<<q, Len(records[q]) + 1>>}
<1>0. /\ \A o, type : \A p \in Partition :
           p # q \/ o # m.order \/ type # m.type => EventsOf(p, o, type)' = EventsOf(p, o, type)
      /\ EventsOf(q, m.order, m.type)' =
           EventsOf(q, m.order, m.type) \union {Len(records[q]) + 1}
  BY EventsAppended
<1> PICK n : n = Len(records[q]) + 1
  OBVIOUS
<1>1. /\ records'[q][n] = m /\ n \notin 1..Len(records[q])
      /\ \A p \in Partition : \A k \in 1..Len(records[p]) : records'[p][k] = records[p][k]
  <2>1. Grown /\ records'[q][n] = m
    BY AppendGrown
  <2> QED
    BY <2>1, Topic DEF Grown
<1>2. \A p, o : EventsOf(p, o, "updated") \subseteq 1..Len(records[p])
  BY DEF EventsOf
<1>3. \A o : /\ \A c : c \in Announced(o)' <=>
                  \E p \in Partition : \E k \in EventsOf(p, o, "updated")' : records'[p][k].courier = c
             /\ \A x : x \in Announcements(o)' <=>
                  \E p \in Partition : \E k \in EventsOf(p, o, "updated")' : x = <<p, k>>
  BY DEF Announced, Announcements, EventsOf
<1>4. ASSUME NEW o, o # m.order \/ m.type # "updated"
      PROVE  Announced(o)' = Announced(o) /\ Announcements(o)' = Announcements(o)
  <2>1. \A p \in Partition : EventsOf(p, o, "updated")' = EventsOf(p, o, "updated")
    BY <1>4, <1>0
  <2>2. \A c : c \in Announced(o)' <=> c \in Announced(o)
    BY <1>1, <1>2, <1>3, <2>1, AnnouncedIs
  <2>3. \A x : x \in Announcements(o)' <=> x \in Announcements(o)
    BY <1>3, <2>1, AnnouncedIs
  <2> QED
    BY <2>2, <2>3
<1>5. ASSUME m.type = "updated"
      PROVE  /\ Announced(m.order)' = Announced(m.order) \union {m.courier}
             /\ Announcements(m.order)' = Announcements(m.order) \union {<<q, n>>}
  <2>1. /\ \A p \in Partition : p # q =>
             EventsOf(p, m.order, "updated")' = EventsOf(p, m.order, "updated")
        /\ EventsOf(q, m.order, "updated")' = EventsOf(q, m.order, "updated") \union {n}
    BY <1>5, <1>0
  <2>2. \A c : c \in Announced(m.order)' <=> c \in Announced(m.order) \/ c = m.courier
    BY <1>1, <1>2, <1>3, <2>1, AnnouncedIs
  <2>3. \A x : x \in Announcements(m.order)' <=> x \in Announcements(m.order) \/ x = <<q, n>>
    BY <1>3, <2>1, AnnouncedIs
  <2> QED
    BY <2>2, <2>3
<1> QED
  BY <1>4, <1>5
-----------------------------------------------------------------------------
(* What the consumers have handled.                                        *)
LEMMA EventsBefore ==
  ASSUME IInv, Grown, NEW p \in Partition, NEW o, NEW type, NEW k \in 1..Len(records[p])
  PROVE  /\ k \in EventsOf(p, o, type)' <=> k \in EventsOf(p, o, type)
         /\ records'[p][k] = records[p][k]
<1>1. /\ k \in 1..Len(records'[p]) /\ records'[p][k] = records[p][k]
  BY Topic DEF Grown
<1> QED
  BY <1>1 DEF EventsOf

LEMMA MarksSame ==
  ASSUME IInv, Grown, UNCHANGED position
  PROVE  /\ \A o : CreatedHandled(o)' <=> CreatedHandled(o)
         /\ \A o, c : EndHandled(o, c)' <=> EndHandled(o, c)
<1>1. ASSUME NEW o, NEW type, NEW p \in Partition, NEW k, k <= position[p]
      PROVE  /\ k \in EventsOf(p, o, type)' <=> k \in EventsOf(p, o, type)
             /\ k \in EventsOf(p, o, type) => records'[p][k] = records[p][k]
  <2>1. CASE k \in 1..Len(records[p])
    BY <2>1, EventsBefore
  <2>2. CASE k \notin 1..Len(records[p])
    BY <1>1, <2>2, Topic DEF EventsOf, Grown
  <2> QED
    BY <2>1, <2>2
<1>2. ASSUME NEW o PROVE CreatedHandled(o)' <=> CreatedHandled(o)
  BY <1>1 DEF CreatedHandled
<1>3. ASSUME NEW o, NEW c PROVE EndHandled(o, c)' <=> EndHandled(o, c)
  BY <1>1 DEF EndHandled
<1> QED
  BY <1>2, <1>3

(* One more record is handled.                                             *)
LEMMA MarksStep ==
  ASSUME IInv, Grown, NEW p \in Partition, position[p] < Len(records[p]),
         position' = [position EXCEPT ![p] = @ + 1]
  PROVE  /\ \A o : CreatedHandled(o)' <=>
              CreatedHandled(o) \/ (Current(p).order = o /\ Current(p).type = "created")
         /\ \A o, c : EndHandled(o, c)' <=>
              \/ EndHandled(o, c)
              \/ Current(p).order = o /\ Current(p).type = "ended" /\ Current(p).courier = c
<1> PICK n : n = position[p] + 1
  OBVIOUS
<1>1. /\ position'[p] = n /\ \A q \in Partition : q # p => position'[q] = position[q]
      /\ n \in 1..Len(records[p]) /\ Current(p) = records[p][n]
      /\ position[p] \in Nat
  BY Topic DEF IInv, Positions, Current
<1>2. ASSUME NEW o, NEW type, NEW q \in Partition, NEW k
      PROVE  /\ k \in EventsOf(q, o, type)' /\ k <= position'[q] <=>
                  /\ k \in EventsOf(q, o, type)
                  /\ k <= position[q] \/ (q = p /\ k = n)
             /\ k \in EventsOf(q, o, type) => records'[q][k] = records[q][k]
  <2>1. k \in EventsOf(q, o, type) => k \in 1..Len(records[q])
    BY DEF EventsOf
  <2>2. k \in EventsOf(q, o, type)' /\ k <= position'[q] => k \in 1..Len(records[q])
    <3>1. k \in EventsOf(q, o, type)' => k \in 1..Len(records'[q])
      BY DEF EventsOf
    <3>2. Len(records'[q]) \in Nat /\ Len(records[q]) \in Nat /\ position[q] \in Nat
          /\ position[q] <= Len(records[q])
      BY Topic DEF Grown
    <3>3. position'[q] <= Len(records[q])
      BY <1>1, <3>2
    <3>4. position'[q] \in Nat
      BY <1>1, <3>2
    <3> QED
      BY <3>1, <3>2, <3>3, <3>4
  <2>3. k \in 1..Len(records[q]) =>
          (k <= position'[q] <=> k <= position[q] \/ (q = p /\ k = n))
    BY <1>1, Topic
  <2> QED
    BY <2>1, <2>2, <2>3, EventsBefore
<1>3. ASSUME NEW o, NEW type
      PROVE  n \in EventsOf(p, o, type) <=> Current(p).order = o /\ Current(p).type = type
  BY <1>1 DEF EventsOf
<1>4. ASSUME NEW o
      PROVE  CreatedHandled(o)' <=>
               CreatedHandled(o) \/ (Current(p).order = o /\ Current(p).type = "created")
  BY <1>2, <1>3 DEF CreatedHandled
<1>5. ASSUME NEW o, NEW c
      PROVE  EndHandled(o, c)' <=>
               \/ EndHandled(o, c)
               \/ Current(p).order = o /\ Current(p).type = "ended" /\ Current(p).courier = c
  <2>1. \A k : \A q \in Partition :
          /\ k \in EventsOf(q, o, "ended")' /\ k <= position'[q] /\ records'[q][k].courier = c
          <=> \/ /\ k \in EventsOf(q, o, "ended") /\ k <= position[q]
                 /\ records[q][k].courier = c
              \/ /\ q = p /\ k = n /\ n \in EventsOf(p, o, "ended")
                 /\ records[p][n].courier = c
    BY <1>2
  <2> QED
    BY <1>1, <1>3, <2>1 DEF EndHandled
<1> QED
  BY <1>4, <1>5

(* A record that is still to be handled is the only one of its kind: the   *)
(* order is new to the consumers, or has not ended for them.               *)
LEMMA NotHandledYet ==
  ASSUME IInv, NEW p \in Partition, position[p] < Len(records[p]),
         NEW o \in OrderId, Current(p).order = o
  PROVE  /\ Current(p).type = "created" => ~ CreatedHandled(o)
         /\ Current(p).type = "ended" => \A c : ~ EndHandled(o, c)
<1> PICK n : n = position[p] + 1
  OBVIOUS
<1>1. n \in EventsOf(p, o, Current(p).type) /\ ~ (n <= position[p])
  BY Topic DEF EventsOf, Current
<1>2. CASE Current(p).type = "created"
  BY <1>1, <1>2 DEF CreatedHandled, IInv, History, Once
<1>3. CASE Current(p).type = "ended"
  BY <1>1, <1>3 DEF EndHandled, IInv, History, Once
<1> QED
  BY <1>2, <1>3

-----------------------------------------------------------------------------
(* The history of the topic.                                               *)
LEMMA HistoryRest ==
  ASSUME IInv, UNCHANGED records, Known \subseteq Known'
  PROVE  History'
<1>1. /\ \A p, o, type : EventsOf(p, o, type)' = EventsOf(p, o, type)
      /\ \A o : Announced(o)' = Announced(o)
  BY EventsSame
<1>2. ASSUME NEW o \in OrderId PROVE EndsKnown(o)' /\ Announced(o)' \subseteq Known'
  BY <1>1 DEF IInv, History, EndsKnown
<1>3. Once("created")' /\ Once("ended")'
  BY <1>1 DEF IInv, History, Once
<1>4. ASSUME NEW o \in OrderId, NEW p \in Partition, EventsOf(p, o, "ended")' # {}
      PROVE  EventsOf(p, o, "created")' # {}
  BY <1>1, <1>4 DEF IInv, History
<1> QED
  BY <1>2, <1>3, <1>4 DEF History

LEMMA HistoryAppended ==
  ASSUME IInv, NEW q \in Partition, NEW m \in Message, Known \subseteq Known',
         records' = [records EXCEPT ![q] = Append(@, m)],
         m.type = "created" => \A p \in Partition : EventsOf(p, m.order, "created") = {},
         m.type = "ended" => /\ EventsOf(q, m.order, "created") # {}
                             /\ EventsOf(q, m.order, "ended") = {}
                             /\ m.courier \in Announced(m.order) \union {None},
         m.type = "updated" => m.courier \in Known
  PROVE  History'
<1> PICK n : n = Len(records[q]) + 1
  OBVIOUS
<1>1. m.order \in OrderId /\ m.type \in {"created", "updated", "ended"}
  BY DEF Message
<1>2. \A o, type : \A p \in Partition :
        p # q \/ o # m.order \/ type # m.type => EventsOf(p, o, type)' = EventsOf(p, o, type)
  BY EventsAppended
<1>3. EventsOf(q, m.order, m.type)' = EventsOf(q, m.order, m.type) \union {n}
  BY EventsAppended
<1>4. /\ \A o : Announced(o) \subseteq Announced(o)'
      /\ \A o, c : c \in Announced(o)' =>
           c \in Announced(o) \/ (m.type = "updated" /\ c = m.courier)
  <2>1. /\ \A o : o # m.order \/ m.type # "updated" => Announced(o)' = Announced(o)
        /\ m.type = "updated" =>
             Announced(m.order)' = Announced(m.order) \union {m.courier}
    BY AnnouncedAppended
  <2> QED
    BY <2>1
<1>5. Grown /\ records'[q][n] = m
  BY AppendGrown
<1>6. Once("created")'
  <2>1. Once("created")
    BY DEF IInv, History
  <2>2. CASE m.type # "created"
    BY <1>2, <2>1, <2>2 DEF Once
  <2>3. CASE m.type = "created"
    <3>1. \A o : \A p \in Partition : EventsOf(p, o, "created")' =
                                     IF o = m.order THEN IF p = q THEN {n} ELSE {}
                                     ELSE EventsOf(p, o, "created")
      BY <1>2, <1>3, <2>3
    <3> QED
      BY <2>1, <3>1 DEF Once
  <2> QED
    BY <2>2, <2>3
<1>7. \A o \in OrderId, p \in Partition :
        EventsOf(p, o, "ended")' # {} => EventsOf(p, o, "created")' # {}
  BY <1>1, <1>2, <1>3 DEF IInv, History
<1>8. Once("ended")'
  <2>1. ASSUME m.type = "ended", NEW p \in Partition
        PROVE  EventsOf(p, m.order, "ended") = {}
    BY <1>1, <2>1 DEF IInv, History, Once
  <2> QED
    BY <1>1, <1>2, <1>3, <2>1 DEF IInv, History, Once
<1>9. ASSUME NEW o \in OrderId PROVE EndsKnown(o)'
  <2> SUFFICES ASSUME NEW p \in Partition, NEW k \in EventsOf(p, o, "ended")'
               PROVE  records'[p][k].courier \in Announced(o)' \union {None}
    BY DEF EndsKnown
  <2>1. CASE k \in EventsOf(p, o, "ended")
    <3>1. k \in 1..Len(records[p])
      BY <2>1 DEF EventsOf
    <3>2. records'[p][k] = records[p][k]
      BY <1>5, <3>1 DEF Grown
    <3> QED
      BY <1>4, <2>1, <3>2 DEF IInv, History, EndsKnown
  <2>2. CASE k \notin EventsOf(p, o, "ended")
    <3>1. p = q /\ o = m.order /\ m.type = "ended" /\ k = n
      BY <1>2, <1>3, <2>2
    <3> QED
      BY <1>4, <1>5, <3>1
  <2> QED
    BY <2>1, <2>2
<1>10. ASSUME NEW o \in OrderId PROVE Announced(o)' \subseteq Known'
  <2>1. Announced(o) \subseteq Known
    BY DEF IInv, History
  <2> QED
    BY <1>4, <2>1
<1> QED
  BY <1>6, <1>7, <1>8, <1>9, <1>10 DEF History
-----------------------------------------------------------------------------
(* Faults, overlaps and announcements.                                     *)
Counts == overlapped' = (overlapped \/ Cardinality(Operating') > 1)

LEMMA Outcomes ==
  ASSUME IInv, NEW o \in Outcome, Spend(o)
  PROVE  /\ faultsLeft' \in 0..faultsLeft /\ o \in {"ok", "failed", "unknown"}
         /\ o # "ok" => faultsLeft' < faultsLeft /\ ~ Undisturbed'
         /\ o = "ok" => faultsLeft' = faultsLeft
BY DeliveryAssumption DEF IInv, TypeOK, Outcome, Spend, Undisturbed

LEMMA Spared ==
  ASSUME IInv, UNCHANGED faultsLeft
  PROVE  faultsLeft' \in 0..faultsLeft
BY DeliveryAssumption DEF IInv, TypeOK

LEMMA CalmBefore ==
  ASSUME IInv, Counts, faultsLeft' \in 0..faultsLeft, Undisturbed'
  PROVE  Undisturbed /\ faultsLeft' = faultsLeft
<1>1. ~ overlapped
  BY Zenon DEF Undisturbed, Counts
<1>2. faultsLeft' = MaxFaults /\ faultsLeft \in 0..MaxFaults
  BY DEF Undisturbed, IInv, TypeOK
<1>3. faultsLeft = MaxFaults
  BY <1>2, DeliveryAssumption
<1> QED
  BY <1>1, <1>2, <1>3 DEF Undisturbed

LEMMA AttemptsKept ==
  ASSUME IInv, NEW o \in OrderId, faultsLeft' \in 0..faultsLeft,
         Announcements(o)' = Announcements(o),
         CreatedHandled(o) => CreatedHandled(o)' \/ faultsLeft' < faultsLeft
  PROVE  Attempts(o)'
<1> PICK n : n = Cardinality(Announcements(o))
  OBVIOUS
<1>1. /\ IsFiniteSet(Announcements(o)) /\ n \in Nat
      /\ n <= (IF CreatedHandled(o) THEN 1 ELSE 0) + (MaxFaults - faultsLeft)
  BY FS_CardinalityType DEF IInv, Attempts
<1>2. /\ IsFiniteSet(Announcements(o)') /\ Cardinality(Announcements(o)') = n
  BY <1>1
<1>3. MaxFaults \in Nat /\ faultsLeft \in 0..MaxFaults
  BY DeliveryAssumption DEF IInv, TypeOK
<1>4. n <= (IF CreatedHandled(o)' THEN 1 ELSE 0) + (MaxFaults - faultsLeft')
  <2>1. CASE CreatedHandled(o)' \/ ~ CreatedHandled(o)
    BY <1>1, <1>3, <2>1
  <2>2. CASE CreatedHandled(o) /\ ~ CreatedHandled(o)'
    BY <1>1, <1>3, <2>2
  <2> QED
    BY <2>1, <2>2
<1> QED
  BY <1>2, <1>4 DEF Attempts

LEMMA AttemptsAnnounced ==
  ASSUME IInv, NEW o \in OrderId, UNCHANGED faultsLeft, NEW x,
         Announcements(o)' = Announcements(o) \union {x},
         ~ CreatedHandled(o), CreatedHandled(o)'
  PROVE  Attempts(o)'
<1> PICK n : n = Cardinality(Announcements(o))
  OBVIOUS
<1>1. /\ IsFiniteSet(Announcements(o)) /\ n \in Nat
      /\ n <= 0 + (MaxFaults - faultsLeft)
  BY FS_CardinalityType DEF IInv, Attempts
<1>2. /\ IsFiniteSet(Announcements(o)')
      /\ Cardinality(Announcements(o)') = n \/ Cardinality(Announcements(o)') = n + 1
  BY <1>1, FS_AddElement
<1>3. MaxFaults \in Nat /\ faultsLeft \in 0..MaxFaults
  BY DeliveryAssumption DEF IInv, TypeOK
<1>4. Cardinality(Announcements(o)') <= 1 + (MaxFaults - faultsLeft')
  BY <1>1, <1>2, <1>3
<1> QED
  BY <1>2, <1>4 DEF Attempts

LEMMA AtMostOne ==
  ASSUME NEW S, IsFiniteSet(S), ~ (Cardinality(S) > 1)
  PROVE  \A a, b \in S : a = b
<1> SUFFICES ASSUME NEW a \in S, NEW b \in S, a # b PROVE FALSE
  OBVIOUS
<1>1. IsFiniteSet({a}) /\ Cardinality({a}) = 1
  BY FS_Singleton
<1>2. {a, b} = {a} \union {b} /\ b \notin {a}
  OBVIOUS
<1>3. IsFiniteSet({a, b}) /\ Cardinality({a, b}) = 2
  BY <1>1, <1>2, FS_AddElement
<1>4. Cardinality({a, b}) <= Cardinality(S) /\ Cardinality(S) \in Nat
  BY <1>3, FS_Subset, FS_CardinalityType
<1> QED
  BY <1>3, <1>4

LEMMA AloneStep ==
  ASSUME IInv, Counts, NEW a \in Actor, NEW l, pc' = [pc EXCEPT ![a] = l]
  PROVE  Alone' /\ overlapped' \in BOOLEAN
<1>1. Operating' \subseteq Operating \union {a}
  BY DEF Operating, IInv, TypeOK
<1>2. IsFiniteSet(Operating \union {a})
  BY FS_AddElement DEF IInv, Alone
<1>3. IsFiniteSet(Operating')
  BY <1>1, <1>2, FS_Subset
<1>4. ~ overlapped' => ~ (Cardinality(Operating') > 1)
  BY Zenon DEF Counts
<1>5. overlapped' \in BOOLEAN
  BY Zenon DEF Counts
<1> QED
  BY <1>3, <1>4, <1>5, AtMostOne DEF Alone

-----------------------------------------------------------------------------
(* A step of one consumer or request, seen from all the others.            *)
RowsOK ==
  /\ couriers \in [CourierId -> Courier \union {None}]
  /\ \A c \in CourierId : couriers[c] # None => couriers[c].id = c
CalmParts ==
  Undisturbed => /\ \A a \in Actor : Fresh(a)
                 /\ \A c \in CourierId : Flags(c)

LEMMA StageKept ==
  ASSUME IInv, Grown, Known \subseteq Known', NEW b \in Actor,
         UNCHANGED <<pc[b], copy[b]>>,
         pc[b] \in {"save", "publish", "free"} => UNCHANGED position[b]
  PROVE  Stage(b)'
<1>1. Stage(b)
  BY DEF IInv
<1>2. ASSUME pc[b] \in {"save", "publish", "free"}
      PROVE  /\ position'[b] < Len(records'[b])
             /\ Current(b)' = Current(b)
  <2>1. b \in Partition
    BY <1>1, <1>2, ActorKinds DEF Stage
  <2>2. position[b] < Len(records[b])
    BY <1>1, <1>2 DEF Stage
  <2>3. position[b] + 1 \in 1..Len(records[b])
    BY <2>1, <2>2, Topic
  <2> QED
    BY <1>2, <2>1, <2>2, <2>3, Topic DEF Grown, Current
<1> QED
  BY <1>1, <1>2 DEF Stage, WantsCourier, Frees

LEMMA Frame ==
  ASSUME IInv, Counts, faultsLeft' \in 0..faultsLeft,
         NEW a \in Actor, NEW l, NEW row \in Courier \union {None},
         pc' = [pc EXCEPT ![a] = l], copy' = [copy EXCEPT ![a] = row],
         RowsOK', Known \subseteq Known',
         Grown, records' \in [Partition -> Seq(Message)],
         position' \in [Partition -> Nat], offset' \in [Partition -> Nat],
         \A p \in Partition : offset'[p] <= position'[p] /\ position'[p] <= Len(records'[p]),
         \A p \in Partition : p # a => position'[p] = position[p],
         Stage(a)', History', \A o \in OrderId : Attempts(o)', CalmParts'
  PROVE  IInv'
<1>1. /\ pc'[a] = l /\ copy'[a] = row
      /\ \A b \in Actor : b # a => UNCHANGED <<pc[b], copy[b]>>
  BY DEF IInv, TypeOK
<1>2. \A b \in Actor : Stage(b)'
  <2> SUFFICES ASSUME NEW b \in Actor, b # a PROVE Stage(b)'
    OBVIOUS
  <2>1. pc[b] \in {"save", "publish", "free"} => b \in Partition
    BY ActorKinds DEF IInv, Stage
  <2> QED
    BY <1>1, <2>1, StageKept
<1>3. TypeOK'
  <2>1. l \in {"poll", "idle", "done"} \union Busy
    BY <1>1, ActorKinds DEF Stage, Busy
  <2>2. /\ pc' \in [Actor -> {"poll", "idle", "done"} \union Busy]
        /\ copy' \in [Actor -> Courier \union {None}]
    BY <2>1 DEF IInv, TypeOK
  <2>3. faultsLeft' \in 0..MaxFaults
    BY DeliveryAssumption DEF IInv, TypeOK
  <2>4. \A p \in Partition : 0 <= offset'[p]
    OBVIOUS
  <2>5. overlapped' \in BOOLEAN
    BY AloneStep
  <2> QED
    BY <2>2, <2>3, <2>4, <2>5 DEF TypeOK, RowsOK
<1>4. Positions'
  BY DEF Positions
<1>5. Alone'
  BY AloneStep
<1> QED
  BY <1>2, <1>3, <1>4, <1>5 DEF IInv, CalmParts
-----------------------------------------------------------------------------
(* What a step does to rows and to records.                                *)
LEMMA RowWritten ==
  ASSUME IInv, NEW row \in Courier, SaveRow(row)
  PROVE  /\ RowsOK' /\ Known' = Known \union {row.id} /\ row.id \in CourierId
         /\ couriers'[row.id] = row
         /\ \A c \in CourierId : c # row.id => couriers'[c] = couriers[c]
<1> PICK i \in CourierId : i = row.id
  BY CourierFields
<1>1. row # None
  BY CourierFields
<1>2. couriers' = [couriers EXCEPT ![i] = row]
  BY DEF SaveRow
<1>3. couriers'[i] = row /\ \A c \in CourierId : c # i => couriers'[c] = couriers[c]
  BY <1>2 DEF IInv, TypeOK
<1>4. RowsOK'
  BY <1>2, <1>3 DEF IInv, TypeOK, RowsOK
<1>5. Known' = Known \union {i}
  BY <1>1, <1>3 DEF Known
<1> QED
  BY <1>3, <1>4, <1>5

LEMMA RowsRest ==
  ASSUME IInv, UNCHANGED couriers
  PROVE  RowsOK' /\ Known' = Known
BY DEF IInv, TypeOK, RowsOK, Known

(* A step that leaves the topic and the consumers' places alone.           *)
LEMMA TopicRest ==
  ASSUME IInv, Counts, faultsLeft' \in 0..faultsLeft,
         NEW a \in Actor, NEW l, NEW row \in Courier \union {None},
         pc' = [pc EXCEPT ![a] = l], copy' = [copy EXCEPT ![a] = row],
         RowsOK', Known \subseteq Known', UNCHANGED <<records, position, offset>>,
         Stage(a)', CalmParts'
  PROVE  IInv'
<1>1. Grown /\ records' \in [Partition -> Seq(Message)]
  BY GrownRest
<1>2. History'
  BY HistoryRest
<1>3. \A o \in OrderId : Attempts(o)'
  BY <1>1, MarksSame, EventsSame, AttemptsKept
<1>4. /\ position' \in [Partition -> Nat] /\ offset' \in [Partition -> Nat]
      /\ \A p \in Partition : /\ offset'[p] <= position'[p]
                              /\ position'[p] <= Len(records'[p])
                              /\ position'[p] = position[p]
  BY Topic DEF IInv, Positions
<1> QED
  BY <1>1, <1>2, <1>3, <1>4, Frame

LEMMA HandledPlaces ==
  ASSUME IInv, Grown, NEW p \in Partition, Handled(p), position[p] < Len(records[p])
  PROVE  /\ position' = [position EXCEPT ![p] = @ + 1] /\ UNCHANGED offset
         /\ position' \in [Partition -> Nat] /\ offset' \in [Partition -> Nat]
         /\ \A q \in Partition : offset'[q] <= position'[q] /\ position'[q] <= Len(records'[q])
         /\ \A q \in Partition : q # p => position'[q] = position[q]
         /\ pc' = [pc EXCEPT ![p] = "poll"] /\ copy' = [copy EXCEPT ![p] = None]
         /\ Stage(p)' /\ Fresh(p)'
<1>1. /\ position' = [position EXCEPT ![p] = position[p] + 1] /\ UNCHANGED offset
      /\ pc' = [pc EXCEPT ![p] = "poll"] /\ copy' = [copy EXCEPT ![p] = None]
  BY DEF Handled, Goto
<1>2. /\ position' \in [Partition -> Nat] /\ offset' \in [Partition -> Nat]
      /\ position'[p] = position[p] + 1
      /\ \A q \in Partition : q # p => position'[q] = position[q]
  BY <1>1 DEF IInv, Positions
<1>3. \A q \in Partition : offset'[q] <= position'[q] /\ position'[q] <= Len(records'[q])
  <2> SUFFICES ASSUME NEW q \in Partition
               PROVE  offset'[q] <= position'[q] /\ position'[q] <= Len(records'[q])
    OBVIOUS
  <2>1. /\ Len(records[q]) \in Nat /\ Len(records'[q]) \in Nat
        /\ Len(records[q]) <= Len(records'[q]) /\ position[q] \in Nat /\ offset[q] \in Nat
        /\ offset[q] <= position[q] /\ position[q] <= Len(records[q])
    BY Topic DEF Grown
  <2>2. CASE q = p
    BY <1>1, <1>2, <2>1, <2>2
  <2>3. CASE q # p
    BY <1>1, <1>2, <2>1, <2>3
  <2> QED
    BY <2>2, <2>3
<1>4. pc'[p] = "poll"
  BY <1>1, ActorKinds DEF IInv, TypeOK
<1>5. Stage(p)' /\ Fresh(p)'
  BY <1>4, ActorKinds DEF Stage, Fresh, Busy
<1> QED
  BY <1>1, <1>2, <1>3, <1>5

(* A record is handled, and nothing new is published.                      *)
LEMMA HandledRest ==
  ASSUME IInv, Counts, faultsLeft' \in 0..faultsLeft, NEW p \in Partition, Handled(p),
         position[p] < Len(records[p]), UNCHANGED records,
         RowsOK', Known \subseteq Known', CalmParts'
  PROVE  IInv'
<1>1. Grown /\ records' \in [Partition -> Seq(Message)]
  BY GrownRest
<1>2. History'
  BY HistoryRest
<1>3. position' = [position EXCEPT ![p] = @ + 1]
  BY <1>1, HandledPlaces
<1>4. \A o \in OrderId : Attempts(o)'
  BY <1>1, <1>3, MarksStep, EventsSame, AttemptsKept
<1>5. p \in Actor /\ None \in Courier \union {None}
  BY ActorKinds
<1> QED
  BY <1>1, <1>2, <1>4, <1>5, HandledPlaces, Frame

-----------------------------------------------------------------------------
(* Calm steps.                                                             *)
LEMMA CalmAlone ==
  ASSUME IInv, Undisturbed, NEW a \in Actor, pc[a] \in Busy
  PROVE  /\ \A b \in Actor : b # a => pc[b] \notin Busy
         /\ \A c : Promised(c) => pc[a] = "publish" /\ copy[a].id = c
<1>1. \A b \in Actor : b # a => pc[b] \notin Busy
  BY DEF IInv, Alone, Operating, Undisturbed
<1> QED
  BY <1>1, ActorKinds DEF Promised, Busy

LEMMA ServedSame ==
  ASSUME NEW c, \A o \in OrderId : /\ c \in Announced(o)' <=> c \in Announced(o)
                                   /\ EndHandled(o, c)' <=> EndHandled(o, c)
  PROVE  ServedBy(c)' = ServedBy(c)
BY DEF ServedBy

(* Only what one consumer or request is at has changed.                    *)
LEMMA CalmKept ==
  ASSUME IInv, Counts, faultsLeft' \in 0..faultsLeft,
         NEW a \in Actor, NEW l, NEW row,
         pc' = [pc EXCEPT ![a] = l], copy' = [copy EXCEPT ![a] = row], UNCHANGED couriers,
         Undisturbed' => /\ \A c \in CourierId : ServedBy(c)' = ServedBy(c)
                         /\ l = "publish" <=> pc[a] = "publish"
                         /\ l = "publish" => row = copy[a]
                         /\ Fresh(a)'
  PROVE  CalmParts'
<1> SUFFICES ASSUME Undisturbed'
             PROVE  (\A b \in Actor : Fresh(b)') /\ (\A c \in CourierId : Flags(c)')
  BY DEF CalmParts
<1>1. Undisturbed
  BY CalmBefore
<1>2. /\ pc'[a] = l /\ copy'[a] = row
      /\ \A b \in Actor : b # a => pc'[b] = pc[b] /\ copy'[b] = copy[b]
  BY DEF IInv, TypeOK
<1>3. ASSUME NEW b \in Actor PROVE Fresh(b)'
  <2>1. CASE b = a
    BY <2>1
  <2>2. CASE b # a
    <3>1. Fresh(b)
      BY <1>1 DEF IInv
    <3> QED
      BY <1>2, <2>2, <3>1 DEF Fresh, Known
  <2> QED
    BY <2>1, <2>2
<1>4. ASSUME NEW c PROVE Promised(c)' <=> Promised(c)
  <2>1. \A p \in Partition : /\ pc'[p] = "publish" <=> pc[p] = "publish"
                             /\ pc[p] = "publish" => copy'[p] = copy[p]
    BY <1>2, ActorKinds
  <2> QED
    BY <2>1 DEF Promised
<1>5. ASSUME NEW c \in CourierId PROVE Flags(c)'
  <2>1. Flags(c) /\ ServedBy(c)' = ServedBy(c) /\ (Promised(c)' <=> Promised(c))
    BY <1>1, <1>4 DEF IInv
  <2> QED
    BY <2>1 DEF Flags, Known
<1> QED
  BY <1>3, <1>5
(* The one that was at work goes on: the others have nothing in memory.    *)
LEMMA CalmWork ==
  ASSUME IInv, Undisturbed, NEW a \in Actor, pc[a] \in Busy,
         NEW l \in {"poll", "done", "publish"}, NEW row,
         pc' = [pc EXCEPT ![a] = l], copy' = [copy EXCEPT ![a] = row]
  PROVE  /\ \A b \in Actor : Fresh(b)'
         /\ \A c : Promised(c)' <=> a \in Partition /\ l = "publish" /\ row.id = c
<1>1. /\ pc'[a] = l /\ copy'[a] = row
      /\ \A b \in Actor : b # a => pc'[b] = pc[b] /\ pc[b] \notin Busy
  BY CalmAlone DEF IInv, TypeOK
<1>2. \A b \in Actor : pc'[b] \notin {"save", "free", "store"}
  BY <1>1 DEF Busy
<1>3. \A c : Promised(c)' <=> a \in Partition /\ l = "publish" /\ row.id = c
  BY <1>1, ActorKinds DEF Promised, Busy
<1> QED
  BY <1>2, <1>3 DEF Fresh

-----------------------------------------------------------------------------
(* The consumer.                                                           *)
LEMMA AgainStep ==
  ASSUME IInv, Counts, faultsLeft' \in 0..faultsLeft, ~ Undisturbed', NEW p \in Partition,
         Again(p), UNCHANGED records, RowsOK', Known \subseteq Known'
  PROVE  IInv'
<1>1. /\ pc' = [pc EXCEPT ![p] = "poll"] /\ copy' = [copy EXCEPT ![p] = None]
      /\ UNCHANGED <<position, offset>> /\ p \in Actor
  BY ActorKinds DEF Again, Goto
<1>2. pc'[p] = "poll"
  BY <1>1 DEF IInv, TypeOK
<1>3. Stage(p)'
  BY <1>2, ActorKinds DEF Stage, Busy
<1>4. CalmParts'
  BY DEF CalmParts
<1> QED
  BY <1>1, <1>3, <1>4, TopicRest

(* A record that frees nobody is handled.                                  *)
LEMMA PassedStep ==
  ASSUME IInv, Counts, UNCHANGED <<faultsLeft, couriers, records>>, NEW p \in Partition,
         pc[p] = "poll", position[p] < Len(records[p]), Handled(p),
         Current(p).type = "ended" => Current(p).courier \notin Known
  PROVE  IInv'
<1>1. Grown /\ faultsLeft' \in 0..faultsLeft /\ p \in Actor
  BY GrownRest, Spared, ActorKinds
<1>2. /\ position' = [position EXCEPT ![p] = @ + 1] /\ Fresh(p)'
      /\ pc' = [pc EXCEPT ![p] = "poll"] /\ copy' = [copy EXCEPT ![p] = None]
  BY <1>1, HandledPlaces
<1>3. \A o : Announced(o)' = Announced(o)
  BY EventsSame
<1>4. \A o, c : EndHandled(o, c)' <=>
        EndHandled(o, c) \/ (Current(p).order = o /\ Current(p).type = "ended" /\ Current(p).courier = c)
  BY <1>1, <1>2, MarksStep
<1>5. ASSUME NEW c \in CourierId PROVE ServedBy(c)' = ServedBy(c)
  <2>1. CASE c \in Known
    <3>1. \A o \in OrderId : /\ c \in Announced(o)' <=> c \in Announced(o)
                             /\ EndHandled(o, c)' <=> EndHandled(o, c)
      BY <1>3, <1>4, <2>1
    <3> QED
      BY <3>1, ServedSame
  <2>2. CASE c \notin Known
    BY <1>3, <2>2 DEF ServedBy, IInv, History
  <2> QED
    BY <2>1, <2>2
<1>6. CalmParts'
  BY <1>1, <1>2, <1>5, CalmKept
<1>7. RowsOK' /\ Known \subseteq Known'
  BY RowsRest
<1> QED
  BY <1>1, <1>6, <1>7, HandledRest

(* A courier is read.                                                      *)
LEMMA ReadStep ==
  ASSUME IInv, Counts, UNCHANGED <<faultsLeft, couriers, records, position, offset>>,
         NEW p \in Partition, pc[p] = "poll", position[p] < Len(records[p]),
         NEW c \in Known, NEW l \in {"save", "free"}, Goto(p, l, couriers[c]),
         l = "save" => WantsCourier(Current(p)) /\ ~ couriers[c].assigned,
         l = "free" => Frees(Current(p)) /\ Current(p).courier = c
  PROVE  IInv'
<1>1. /\ pc' = [pc EXCEPT ![p] = l] /\ copy' = [copy EXCEPT ![p] = couriers[c]]
      /\ couriers[c] \in Courier /\ couriers[c].id = c /\ couriers[c] # None
      /\ p \in Actor /\ faultsLeft' \in 0..faultsLeft
  BY KnownRows, CourierFields, ActorKinds, Spared DEF Goto
<1>2. pc'[p] = l /\ copy'[p] = couriers[c]
  BY <1>1 DEF IInv, TypeOK
<1>3. Current(p)' = Current(p) /\ Known' = Known
  BY DEF Current, Known
<1>4. Stage(p)'
  BY <1>1, <1>2, <1>3, ActorKinds DEF Stage, WantsCourier, Frees
<1>5. Fresh(p)'
  BY <1>1, <1>2 DEF Fresh
<1>6. \A d : ServedBy(d)' = ServedBy(d)
  BY GrownRest, MarksSame, EventsSame, ServedSame
<1>7. CalmParts'
  BY <1>1, <1>5, <1>6, CalmKept
<1>8. RowsOK' /\ Known \subseteq Known'
  BY RowsRest
<1> QED
  BY <1>1, <1>4, <1>7, <1>8, TopicRest

LEMMA PollStep ==
  ASSUME IInv, Counts, NEW p \in Partition, Poll(p)
  PROVE  IInv'
<1> PICK m : m = Current(p)
  OBVIOUS
<1>1. /\ pc[p] = "poll" /\ position[p] < Len(records[p]) /\ UNCHANGED <<couriers, records>>
      /\ m \in Message
  BY Topic DEF Poll
<1>2. CASE WantsCourier(m) /\ SeekCourier(p, m.location) /\ UNCHANGED faultsLeft
  <2>1. ASSUME NEW c \in Closest(m.location)
        PROVE  c \in Known /\ ~ couriers[c].assigned
    BY DEF Closest
  <2>2. CASE \E c \in Closest(m.location) :
               Goto(p, "save", couriers[c]) /\ UNCHANGED <<position, offset>>
    BY <1>1, <1>2, <2>1, <2>2, ReadStep
  <2>3. CASE Handled(p)
    <3>1. m.type # "ended"
      BY <1>2 DEF WantsCourier
    <3> QED
      BY <1>1, <1>2, <2>3, <3>1, PassedStep
  <2> QED
    BY <1>2, <2>2, <2>3 DEF SeekCourier
<1>3. CASE /\ Frees(m) /\ m.courier \in Known /\ UNCHANGED faultsLeft
           /\ Goto(p, "free", couriers[m.courier]) /\ UNCHANGED <<position, offset>>
  BY <1>1, <1>3, ReadStep
<1>4. CASE Frees(m) /\ m.courier \notin Known /\ Handled(p) /\ UNCHANGED faultsLeft
  BY <1>1, <1>4, PassedStep
<1>5. CASE ~ WantsCourier(m) /\ ~ Frees(m) /\ Handled(p) /\ UNCHANGED faultsLeft
  <2>1. m.type = "ended" => m.courier \notin Known
    BY <1>5, DeliveryAssumption DEF Frees, Known
  <2> QED
    BY <1>1, <1>5, <2>1, PassedStep
<1>6. CASE "failed" \in Outcome /\ Spend("failed") /\ Again(p)
  BY <1>1, <1>6, Outcomes, RowsRest, AgainStep
<1> QED
  BY <1>2, <1>3, <1>4, <1>5, <1>6 DEF Poll
LEMMA SaveAssignedStep ==
  ASSUME IInv, Counts, NEW p \in Partition, SaveAssigned(p)
  PROVE  IInv'
<1>1. pc[p] = "save" /\ UNCHANGED records /\ p \in Actor /\ pc[p] \in Busy
  BY ActorKinds DEF SaveAssigned, Busy
<1> PICK k \in Courier : k = copy[p]
  BY <1>1 DEF IInv, Stage, TypeOK
<1> DEFINE row == [k EXCEPT !.assigned = TRUE]
<1>2. PICK o \in Outcome :
        /\ Spend(o)
        /\ IF Took(o) THEN SaveRow(row) ELSE UNCHANGED couriers
        /\ \/ o = "ok" /\ Goto(p, "publish", k) /\ UNCHANGED <<position, offset>>
           \/ o # "ok" /\ Again(p)
  BY <1>1 DEF SaveAssigned
<1>3. row \in Courier /\ row.id = k.id /\ row.assigned = TRUE
  BY DEF Courier
<1> HIDE DEF row
<1>4. RowsOK' /\ Known \subseteq Known'
  BY <1>2, <1>3, RowWritten, RowsRest
<1>5. CASE o # "ok"
  BY <1>1, <1>2, <1>4, <1>5, Outcomes, AgainStep
<1>6. CASE o = "ok"
  <2>1. /\ SaveRow(row) /\ UNCHANGED <<position, offset>>
        /\ pc' = [pc EXCEPT ![p] = "publish"] /\ copy' = [copy EXCEPT ![p] = k]
    BY <1>2, <1>6 DEF Took, Goto
  <2>2. /\ pc'[p] = "publish" /\ copy'[p] = k
    BY <1>1, <2>1 DEF IInv, TypeOK
  <2>3. /\ position[p] < Len(records[p]) /\ k.id \in Known /\ WantsCourier(Current(p))
        /\ k # None
    BY <1>1, CourierFields DEF IInv, Stage
  <2>4. Current(p)' = Current(p)
    BY <1>1, <2>1 DEF Current
  <2>5. Stage(p)'
    BY <1>1, <1>4, <2>1, <2>2, <2>3, <2>4, ActorKinds DEF Stage, WantsCourier
  <2>6. faultsLeft' \in 0..faultsLeft
    BY <1>2, Outcomes
  <2>7. ASSUME Undisturbed'
        PROVE  (\A b \in Actor : Fresh(b)') /\ (\A c \in CourierId : Flags(c)')
    <3>1. Undisturbed
      BY <2>6, <2>7, CalmBefore
    <3>2. /\ \A b \in Actor : Fresh(b)'
          /\ \A c : Promised(c)' <=> k.id = c
      BY <1>1, <2>1, <3>1, CalmWork
    <3>3. \A c : ~ Promised(c)
      BY <1>1, <3>1, CalmAlone
    <3>4. \A c : ServedBy(c)' = ServedBy(c)
      BY <1>1, <2>1, GrownRest, MarksSame, EventsSame, ServedSame
    <3>5. ServedBy(k.id) = {}
      <4>1. Fresh(p) /\ Flags(k.id)
        BY <1>1, <2>3, <3>1, KnownRows DEF IInv
      <4> QED
        BY <1>1, <2>3, <4>1 DEF Fresh, Flags
    <3>6. ASSUME NEW c \in CourierId PROVE Flags(c)'
      <4>1. Flags(c)
        BY <3>1 DEF IInv
      <4>2. CASE c = k.id
        BY <1>3, <2>1, <3>2, <3>4, <3>5, <4>1, <4>2, RowWritten DEF Flags
      <4>3. CASE c # k.id
        <5>1. couriers'[c] = couriers[c] /\ (c \in Known' <=> c \in Known)
          BY <1>3, <2>1, <4>3, RowWritten
        <5> QED
          BY <3>2, <3>3, <3>4, <4>1, <4>3, <5>1 DEF Flags
      <4> QED
        BY <4>2, <4>3
    <3> QED
      BY <3>2, <3>6
  <2>8. CalmParts'
    BY <2>7 DEF CalmParts
  <2> QED
    BY <1>1, <1>4, <2>1, <2>5, <2>6, <2>8, TopicRest
<1> QED
  BY <1>5, <1>6

LEMMA SaveFreedStep ==
  ASSUME IInv, Counts, NEW p \in Partition, SaveFreed(p)
  PROVE  IInv'
<1>1. pc[p] = "free" /\ UNCHANGED records /\ p \in Actor /\ pc[p] \in Busy
  BY ActorKinds DEF SaveFreed, Busy
<1> PICK k \in Courier : k = copy[p]
  BY <1>1 DEF IInv, Stage, TypeOK
<1> DEFINE row == [k EXCEPT !.assigned = FALSE]
<1>2. PICK o \in Outcome :
        /\ Spend(o)
        /\ IF Took(o) THEN SaveRow(row) ELSE UNCHANGED couriers
        /\ IF o = "ok" THEN Handled(p) ELSE Again(p)
  BY <1>1 DEF SaveFreed
<1>3. row \in Courier /\ row.id = k.id /\ row.assigned = FALSE
  BY DEF Courier
<1> HIDE DEF row
<1>4. RowsOK' /\ Known \subseteq Known'
  BY <1>2, <1>3, RowWritten, RowsRest
<1>5. CASE o # "ok"
  BY <1>1, <1>2, <1>4, <1>5, Outcomes, AgainStep
<1>6. CASE o = "ok"
  <2>1. SaveRow(row) /\ Handled(p)
    BY <1>2, <1>6 DEF Took
  <2>2. faultsLeft' \in 0..faultsLeft
    BY <1>2, Outcomes
  <2> PICK m : m = Current(p)
    OBVIOUS
  <2>3. /\ position[p] < Len(records[p]) /\ m.type = "ended" /\ m.courier = k.id
        /\ m.courier # None /\ m \in Message
    BY <1>1, Topic DEF IInv, Stage, Frees
  <2>4. Grown
    BY <1>1, GrownRest
  <2>5. /\ position' = [position EXCEPT ![p] = @ + 1]
        /\ pc' = [pc EXCEPT ![p] = "poll"] /\ copy' = [copy EXCEPT ![p] = None]
    BY <2>1, <2>3, <2>4, HandledPlaces
  <2>6. ASSUME Undisturbed'
        PROVE  (\A b \in Actor : Fresh(b)') /\ (\A c \in CourierId : Flags(c)')
    <3>1. Undisturbed
      BY <2>2, <2>6, CalmBefore
    <3>2. /\ \A b \in Actor : Fresh(b)'
          /\ \A c : ~ Promised(c)'
      BY <1>1, <2>5, <3>1, CalmWork
    <3>3. \A c : ~ Promised(c)
      BY <1>1, <3>1, CalmAlone
    <3>4. \A n : Announced(n)' = Announced(n)
      BY <1>1, EventsSame
    <3>5. \A n, c : EndHandled(n, c)' <=> EndHandled(n, c) \/ (m.order = n /\ k.id = c)
      BY <2>3, <2>4, <2>5, MarksStep
    <3>6. \A c : c # k.id => ServedBy(c)' = ServedBy(c)
      BY <3>4, <3>5, ServedSame
    <3>7. k.id \in CourierId /\ m.order \in OrderId
      BY <2>3, CourierFields DEF Message
    <3>8. m.order \in ServedBy(k.id)
      <4>1. position[p] + 1 \in EventsOf(p, m.order, "ended")
        BY <2>3, Topic DEF EventsOf, Current
      <4>2. k.id \in Announced(m.order)
        BY <2>3, <3>7, <4>1 DEF IInv, History, EndsKnown, Current
      <4>3. ~ EndHandled(m.order, k.id)
        BY <2>3, <3>7, NotHandledYet
      <4> QED
        BY <3>7, <4>2, <4>3 DEF ServedBy
    <3>9. ServedBy(k.id)' = {}
      <4>1. \A n \in ServedBy(k.id) : n = m.order
        BY <3>1, <3>7, <3>8 DEF IInv, Flags
      <4> QED
        BY <3>4, <3>5, <4>1 DEF ServedBy
    <3>10. ASSUME NEW c \in CourierId PROVE Flags(c)'
      <4>1. Flags(c)
        BY <3>1 DEF IInv
      <4>2. CASE c = k.id
        BY <1>3, <2>1, <3>2, <3>9, <4>2, RowWritten DEF Flags
      <4>3. CASE c # k.id
        <5>1. couriers'[c] = couriers[c] /\ (c \in Known' <=> c \in Known)
          BY <1>3, <2>1, <4>3, RowWritten
        <5> QED
          BY <3>2, <3>3, <3>6, <4>1, <4>3, <5>1 DEF Flags
      <4> QED
        BY <4>2, <4>3
    <3> QED
      BY <3>2, <3>10
  <2>7. CalmParts'
    BY <2>6 DEF CalmParts
  <2> QED
    BY <1>1, <1>4, <2>1, <2>2, <2>3, <2>7, HandledRest
<1> QED
  BY <1>5, <1>6
(* The first announcement of an order gives it its courier.                *)
LEMMA NothingAnnounced ==
  ASSUME IInv, Undisturbed, NEW o \in OrderId, ~ CreatedHandled(o)
  PROVE  /\ Announced(o) = {}
         /\ \A c \in CourierId : ~ EndHandled(o, c)
<1>1. Announcements(o) = {}
  <2>1. IsFiniteSet(Announcements(o)) /\ Cardinality(Announcements(o)) <= 0
    BY DeliveryAssumption DEF IInv, Attempts, Undisturbed
  <2> QED
    BY <2>1, FS_EmptySet, FS_CardinalityType
<1>2. Announced(o) = {}
  <2>1. /\ \A c : c \in Announced(o) <=>
             \E p \in Partition : \E k \in EventsOf(p, o, "updated") : records[p][k].courier = c
        /\ \A x : x \in Announcements(o) <=>
             \E p \in Partition : \E k \in EventsOf(p, o, "updated") : x = <<p, k>>
    BY AnnouncedIs
  <2>2. \A p \in Partition : EventsOf(p, o, "updated") = {}
    BY <1>1, <2>1
  <2> QED
    BY <2>1, <2>2
<1>3. ASSUME NEW c \in CourierId, EndHandled(o, c) PROVE FALSE
  <2>1. c \in Announced(o) \union {None}
    BY <1>3 DEF EndHandled, IInv, History, EndsKnown
  <2> QED
    BY <1>2, <2>1, DeliveryAssumption
<1> QED
  BY <1>2, <1>3

LEMMA AnnounceStep ==
  ASSUME IInv, Counts, NEW p \in Partition, pc[p] = "publish", NEW q \in Partition,
         records' = [records EXCEPT ![q] = Append(@, AnnouncementOf(p))],
         Handled(p), UNCHANGED <<couriers, faultsLeft>>
  PROVE  IInv'
<1>1. p \in Actor /\ pc[p] \in Busy
  BY ActorKinds DEF Busy
<1> PICK k \in Courier : k = copy[p]
  BY <1>1 DEF IInv, Stage, TypeOK
<1> PICK o : o = Current(p).order
  OBVIOUS
<1> PICK m : m = AnnouncementOf(p)
  OBVIOUS
<1>2. /\ position[p] < Len(records[p]) /\ Current(p) \in Message
      /\ Current(p).type = "created" /\ k.id \in Known /\ k.id \in CourierId
  BY <1>1, Topic, KnownRows DEF IInv, Stage, WantsCourier
<1>3. m \in Message /\ m.type = "updated" /\ m.order = o /\ m.courier = k.id /\ o \in OrderId
  BY <1>2 DEF AnnouncementOf, Message
<1>4. records' = [records EXCEPT ![q] = Append(@, m)]
  OBVIOUS
<1>5. Grown /\ records' \in [Partition -> Seq(Message)]
  BY <1>3, <1>4, AppendGrown
<1>6. /\ position' = [position EXCEPT ![p] = @ + 1]
      /\ pc' = [pc EXCEPT ![p] = "poll"] /\ copy' = [copy EXCEPT ![p] = None]
  BY <1>2, <1>5, HandledPlaces
<1>7. RowsOK' /\ Known' = Known /\ faultsLeft' \in 0..faultsLeft
  BY RowsRest, Spared
<1>8. History'
  BY <1>2, <1>3, <1>4, <1>7, HistoryAppended
<1>9. /\ \A n : CreatedHandled(n)' <=> CreatedHandled(n) \/ n = o
      /\ \A n, c : EndHandled(n, c)' <=> EndHandled(n, c)
  BY <1>2, <1>5, <1>6, MarksStep
<1>10. ~ CreatedHandled(o)
  BY <1>2, <1>3, NotHandledYet
<1>11. /\ \A n : n # o => Announced(n)' = Announced(n) /\ Announcements(n)' = Announcements(n)
       /\ Announced(o)' = Announced(o) \union {k.id}
       /\ \E x : Announcements(o)' = Announcements(o) \union {x}
  <2>1. /\ \A n : n # m.order \/ m.type # "updated" =>
             Announced(n)' = Announced(n) /\ Announcements(n)' = Announcements(n)
        /\ m.type = "updated" =>
             /\ Announced(m.order)' = Announced(m.order) \union {m.courier}
             /\ Announcements(m.order)' =
                  Announcements(m.order) \union {<<q, Len(records[q]) + 1>>}
    BY <1>3, <1>4, AnnouncedAppended
  <2> QED
    BY <1>3, <2>1
<1>12. ASSUME NEW n \in OrderId PROVE Attempts(n)'
  <2>1. CASE n = o
    BY <1>9, <1>10, <1>11, <2>1, AttemptsAnnounced
  <2>2. CASE n # o
    BY <1>7, <1>9, <1>11, <2>2, AttemptsKept
  <2> QED
    BY <2>1, <2>2
<1>13. ASSUME Undisturbed'
       PROVE  (\A b \in Actor : Fresh(b)') /\ (\A c \in CourierId : Flags(c)')
  <2>1. Undisturbed
    BY <1>7, <1>13, CalmBefore
  <2>2. /\ \A b \in Actor : Fresh(b)'
        /\ \A c : ~ Promised(c)'
    BY <1>1, <1>6, <2>1, CalmWork
  <2>3. /\ \A c : c # k.id => ~ Promised(c)
        /\ Promised(k.id)
    BY <1>1, <2>1, CalmAlone DEF Promised
  <2>4. ~ EndHandled(o, k.id)
    BY <1>2, <1>3, <1>10, <2>1, NothingAnnounced
  <2>5. ServedBy(k.id) = {} /\ couriers[k.id].assigned
    BY <1>2, <2>1, <2>3 DEF IInv, Flags
  <2>6. ServedBy(k.id)' = {o}
    BY <1>3, <1>9, <1>11, <2>4, <2>5 DEF ServedBy
  <2>7. \A c : c # k.id => ServedBy(c)' = ServedBy(c)
    BY <1>9, <1>11, ServedSame
  <2>8. ASSUME NEW c \in CourierId PROVE Flags(c)'
    <3>1. Flags(c)
      BY <2>1 DEF IInv
    <3>2. CASE c = k.id
      BY <2>2, <2>5, <2>6, <3>2 DEF Flags
    <3>3. CASE c # k.id
      BY <1>7, <2>2, <2>3, <2>7, <3>1, <3>3 DEF Flags
    <3> QED
      BY <3>2, <3>3
  <2> QED
    BY <2>2, <2>8
<1>14. CalmParts'
  BY <1>13 DEF CalmParts
<1>15. None \in Courier \union {None} /\ Known \subseteq Known'
  BY <1>7
<1> QED
  BY <1>1, <1>2, <1>5, <1>7, <1>8, <1>12, <1>14, <1>15, HandledPlaces, Frame

LEMMA PublishAssignmentStep ==
  ASSUME IInv, Counts, NEW p \in Partition, PublishAssignment(p)
  PROVE  IInv'
<1>1. pc[p] = "publish" /\ UNCHANGED couriers /\ p \in Actor
  BY ActorKinds DEF PublishAssignment
<1>2. CASE /\ \E q \in Partition :
                records' = [records EXCEPT ![q] = Append(@, AnnouncementOf(p))]
           /\ Handled(p) /\ UNCHANGED faultsLeft
  BY <1>1, <1>2, AnnounceStep
<1>3. CASE /\ "failed" \in Outcome /\ Spend("failed")
           /\ Handled(p) \/ Again(p)
           /\ UNCHANGED records
  <2>1. faultsLeft' \in 0..faultsLeft /\ ~ Undisturbed'
    BY <1>3, Outcomes
  <2>2. position[p] < Len(records[p])
    BY <1>1 DEF IInv, Stage
  <2>3. CalmParts' /\ RowsOK' /\ Known \subseteq Known'
    BY <1>1, <2>1, RowsRest DEF CalmParts
  <2>4. CASE Handled(p)
    BY <1>3, <2>1, <2>2, <2>3, <2>4, HandledRest
  <2>5. CASE Again(p)
    BY <1>3, <2>1, <2>3, <2>5, AgainStep
  <2> QED
    BY <1>3, <2>4, <2>5
<1> QED
  BY <1>2, <1>3 DEF PublishAssignment

LEMMA CommitOffsetStep ==
  ASSUME IInv, Counts, NEW p \in Partition, CommitOffset(p)
  PROVE  IInv'
<1>1. /\ offset' = [offset EXCEPT ![p] = position[p]]
      /\ UNCHANGED <<couriers, records, position, pc, copy, faultsLeft>>
      /\ p \in Actor
  BY ActorKinds DEF CommitOffset
<1>2. /\ pc' = [pc EXCEPT ![p] = pc[p]] /\ copy' = [copy EXCEPT ![p] = copy[p]]
      /\ copy[p] \in Courier \union {None}
  BY <1>1 DEF IInv, TypeOK
<1>3. /\ RowsOK' /\ Known \subseteq Known' /\ Grown /\ records' \in [Partition -> Seq(Message)]
      /\ History' /\ faultsLeft' \in 0..faultsLeft
  BY <1>1, RowsRest, GrownRest, HistoryRest, Spared
<1>4. \A o \in OrderId : Attempts(o)'
  BY <1>1, <1>3, MarksSame, EventsSame, AttemptsKept
<1>5. /\ position' \in [Partition -> Nat] /\ offset' \in [Partition -> Nat]
      /\ \A q \in Partition : offset'[q] <= position'[q] /\ position'[q] <= Len(records'[q])
  BY <1>1, Topic DEF IInv, Positions
<1>6. Stage(p)'
  BY <1>1, <1>3, StageKept
<1>7. \A c : ServedBy(c)' = ServedBy(c)
  BY <1>1, <1>3, MarksSame, EventsSame, ServedSame
<1>8. Undisturbed' => Fresh(p)'
  <2>1. Undisturbed' => Fresh(p)
    BY <1>1, <1>3, CalmBefore DEF IInv
  <2> QED
    BY <1>1, <2>1 DEF Fresh, Known
<1>9. CalmParts'
  BY <1>1, <1>2, <1>3, <1>7, <1>8, CalmKept
<1> QED
  BY <1>1, <1>2, <1>3, <1>4, <1>5, <1>6, <1>9, Frame

LEMMA CrashStep ==
  ASSUME IInv, Counts, NEW p \in Partition, Crash(p)
  PROVE  IInv'
<1>1. /\ position' = [position EXCEPT ![p] = offset[p]]
      /\ pc' = [pc EXCEPT ![p] = "poll"] /\ copy' = [copy EXCEPT ![p] = None]
      /\ UNCHANGED <<couriers, records, offset>>
      /\ faultsLeft' = faultsLeft - 1 /\ faultsLeft > 0 /\ p \in Actor
  BY ActorKinds DEF Crash, Goto, Spend
<1>2. faultsLeft' \in 0..faultsLeft /\ faultsLeft' < faultsLeft /\ ~ Undisturbed'
  BY <1>1, DeliveryAssumption DEF IInv, TypeOK, Undisturbed
<1>3. /\ RowsOK' /\ Known \subseteq Known' /\ Grown /\ records' \in [Partition -> Seq(Message)]
      /\ History'
  BY <1>1, RowsRest, GrownRest, HistoryRest
<1>4. \A o \in OrderId : Attempts(o)'
  BY <1>1, <1>2, EventsSame, AttemptsKept
<1>5. /\ position' \in [Partition -> Nat] /\ offset' \in [Partition -> Nat]
      /\ \A q \in Partition : /\ offset'[q] <= position'[q] /\ position'[q] <= Len(records'[q])
                              /\ q # p => position'[q] = position[q]
  BY <1>1, Topic DEF IInv, Positions
<1>6. pc'[p] = "poll"
  BY <1>1 DEF IInv, TypeOK
<1>7. Stage(p)'
  BY <1>6, ActorKinds DEF Stage, Busy
<1>8. CalmParts' /\ None \in Courier \union {None}
  BY <1>2 DEF CalmParts
<1> QED
  BY <1>1, <1>2, <1>3, <1>4, <1>5, <1>7, <1>8, Frame
-----------------------------------------------------------------------------
(* The HTTP requests.                                                      *)
LEMMA ArriveStep ==
  ASSUME IInv, Counts, faultsLeft' \in 0..faultsLeft, UNCHANGED <<couriers, topics>>,
         NEW q \in Request, pc[q] = "idle", NEW l \in {"done", "store"},
         NEW row \in Courier \union {None}, Goto(q, l, row),
         l = "store" =>
           /\ row # None
           /\ IF row.id \in Known THEN row.assigned = couriers[row.id].assigned
              ELSE ~ row.assigned
  PROVE  IInv'
<1>1. /\ pc' = [pc EXCEPT ![q] = l] /\ copy' = [copy EXCEPT ![q] = row]
      /\ UNCHANGED <<records, position, offset>> /\ q \in Actor
  BY ActorKinds DEF Goto, topics
<1>2. pc'[q] = l /\ copy'[q] = row
  BY <1>1 DEF IInv, TypeOK
<1>3. RowsOK' /\ Known' = Known
  BY RowsRest
<1>4. Stage(q)'
  BY <1>2, ActorKinds DEF Stage, Busy
<1>5. Fresh(q)'
  BY <1>2, <1>3 DEF Fresh
<1>6. \A c : ServedBy(c)' = ServedBy(c)
  BY <1>1, GrownRest, MarksSame, EventsSame, ServedSame
<1>7. CalmParts'
  BY <1>1, <1>5, <1>6, CalmKept
<1> QED
  BY <1>1, <1>3, <1>4, <1>7, TopicRest

LEMMA ReceiveStep ==
  ASSUME IInv, Counts, NEW q \in Request, Receive(q)
  PROVE  IInv'
<1>1. pc[q] = "idle" /\ UNCHANGED <<couriers, topics>>
  BY DEF Receive
<1>2. ASSUME Goto(q, "done", None), faultsLeft' \in 0..faultsLeft PROVE IInv'
  BY <1>1, <1>2, ArriveStep
<1>3. CASE "failed" \in Outcome /\ Spend("failed") /\ Goto(q, "done", None)
  BY <1>2, <1>3, Outcomes
<1>4. ASSUME UNCHANGED faultsLeft, NEW u \in User, RegisterCourier(q, u) PROVE IInv'
  <2>1. ASSUME NEW c \in CourierId \ Drawn, Goto(q, "store", NewCourier(c, u)) PROVE IInv'
    <3> DEFINE row == NewCourier(c, u)
    <3>1. row \in Courier /\ row.id = c /\ row.assigned = FALSE /\ c \notin Known
      BY <2>1, DeliveryAssumption DEF NewCourier, Courier, Drawn
    <3>2. row # None
      BY <3>1, CourierFields
    <3>3. Goto(q, "store", row)
      BY <2>1
    <3> HIDE DEF row
    <3> QED
      BY <1>1, <1>4, <3>1, <3>2, <3>3, Spared, ArriveStep
  <2> QED
    BY <1>2, <1>4, <2>1, Spared DEF RegisterCourier
<1>5. ASSUME UNCHANGED faultsLeft, NEW u \in User, UpdateCourier(q, u) PROVE IInv'
  <2>1. ASSUME NEW c \in OfUser(u), Goto(q, "store", couriers[c]) PROVE IInv'
    <3>1. c \in Known
      BY DEF OfUser
    <3>2. couriers[c] \in Courier /\ couriers[c].id = c /\ couriers[c] # None
      BY <3>1, KnownRows, CourierFields
    <3> QED
      BY <1>1, <1>5, <2>1, <3>1, <3>2, Spared, ArriveStep
  <2> QED
    BY <1>2, <1>5, <2>1, Spared DEF UpdateCourier
<1>6. ASSUME UNCHANGED faultsLeft, NEW c \in CourierId, NEW place \in Place,
             UpdatePosition(q, c, place)
      PROVE  IInv'
  <2>1. ASSUME c \in Known, Goto(q, "store", [couriers[c] EXCEPT !.location = place])
        PROVE  IInv'
    <3> DEFINE row == [couriers[c] EXCEPT !.location = place]
    <3>1. couriers[c] \in Courier /\ couriers[c].id = c
      BY <2>1, KnownRows
    <3>2. row \in Courier /\ row.id = c /\ row.assigned = couriers[c].assigned
      BY <3>1 DEF Courier
    <3>3. row # None
      BY <3>2, CourierFields
    <3>4. Goto(q, "store", row)
      BY <2>1
    <3> HIDE DEF row
    <3> QED
      BY <1>1, <1>6, <2>1, <3>2, <3>3, <3>4, Spared, ArriveStep
  <2> QED
    BY <1>2, <1>6, <2>1, Spared DEF UpdatePosition
<1> QED
  BY <1>3, <1>4, <1>5, <1>6 DEF Receive

LEMMA StoreStep ==
  ASSUME IInv, Counts, NEW q \in Request, Store(q)
  PROVE  IInv'
<1>1. /\ pc[q] = "store" /\ q \in Actor /\ q \notin Partition /\ pc[q] \in Busy
      /\ pc' = [pc EXCEPT ![q] = "done"] /\ copy' = [copy EXCEPT ![q] = None]
      /\ UNCHANGED <<records, position, offset>>
  BY ActorKinds DEF Store, Goto, Busy, topics
<1> PICK k \in Courier : k = copy[q]
  BY <1>1 DEF IInv, Stage, TypeOK
<1>2. PICK o \in Outcome :
        /\ Spend(o)
        /\ IF Took(o) THEN SaveRow(k) ELSE UNCHANGED couriers
  BY DEF Store
<1>3. RowsOK' /\ Known \subseteq Known' /\ faultsLeft' \in 0..faultsLeft
  BY <1>2, RowWritten, RowsRest, Outcomes
<1>4. pc'[q] = "done"
  BY <1>1 DEF IInv, TypeOK
<1>5. Stage(q)'
  BY <1>1, <1>4, ActorKinds DEF Stage, Busy
<1>6. ASSUME Undisturbed'
      PROVE  (\A b \in Actor : Fresh(b)') /\ (\A c \in CourierId : Flags(c)')
  <2>1. SaveRow(k)
    BY <1>2, <1>6, Outcomes DEF Took
  <2>2. Undisturbed
    BY <1>3, <1>6, CalmBefore
  <2>3. /\ \A b \in Actor : Fresh(b)'
        /\ \A c : ~ Promised(c)'
    BY <1>1, <2>2, CalmWork
  <2>4. \A c : ~ Promised(c)
    BY <1>1, <2>2, CalmAlone
  <2>5. \A c : ServedBy(c)' = ServedBy(c)
    BY <1>1, GrownRest, MarksSame, EventsSame, ServedSame
  <2>6. ASSUME NEW c \in CourierId PROVE Flags(c)'
    <3>1. Flags(c)
      BY <2>2 DEF IInv
    <3>2. CASE c # k.id
      <4>1. couriers'[c] = couriers[c] /\ (c \in Known' <=> c \in Known)
        BY <2>1, <3>2, RowWritten
      <4> QED
        BY <2>3, <2>4, <2>5, <3>1, <4>1 DEF Flags
    <3>3. CASE c = k.id
      <4>1. couriers'[c] = k
        BY <2>1, <3>3, RowWritten
      <4>2. IF c \in Known THEN k.assigned = couriers[c].assigned ELSE ~ k.assigned
        BY <1>1, <2>2, <3>3 DEF IInv, Fresh
      <4>3. c \notin Known => ServedBy(c) = {}
        BY DEF ServedBy, IInv, History
      <4>4. k.assigned <=> ServedBy(c) # {}
        BY <2>4, <3>1, <4>2, <4>3 DEF Flags
      <4> QED
        BY <2>3, <2>5, <3>1, <4>1, <4>4 DEF Flags
    <3> QED
      BY <3>2, <3>3
  <2> QED
    BY <2>3, <2>6
<1>7. CalmParts'
  BY <1>6 DEF CalmParts
<1> QED
  BY <1>1, <1>3, <1>5, <1>7, TopicRest

-----------------------------------------------------------------------------
(* The order service.                                                      *)
LEMMA EventStep ==
  ASSUME IInv, Counts, NEW p \in Partition, NEW m \in Message, PublishEvent(p, m),
         m.type \in {"created", "ended"}, History'
  PROVE  IInv'
<1>1. /\ records' = [records EXCEPT ![p] = Append(@, m)] /\ p \in Actor
      /\ UNCHANGED <<couriers, position, offset, pc, copy, faultsLeft>>
  BY ActorKinds DEF PublishEvent
<1>2. /\ pc' = [pc EXCEPT ![p] = pc[p]] /\ copy' = [copy EXCEPT ![p] = copy[p]]
      /\ copy[p] \in Courier \union {None}
  BY <1>1 DEF IInv, TypeOK
<1>3. /\ RowsOK' /\ Known \subseteq Known' /\ Grown /\ records' \in [Partition -> Seq(Message)]
      /\ faultsLeft' \in 0..faultsLeft
  BY <1>1, RowsRest, AppendGrown, Spared
<1>4. \A o : Announced(o)' = Announced(o) /\ Announcements(o)' = Announcements(o)
  BY <1>1, AnnouncedAppended
<1>5. \A o \in OrderId : Attempts(o)'
  BY <1>1, <1>3, <1>4, MarksSame, AttemptsKept
<1>6. /\ position' \in [Partition -> Nat] /\ offset' \in [Partition -> Nat]
      /\ \A q \in Partition : offset'[q] <= position'[q] /\ position'[q] <= Len(records'[q])
  <2> SUFFICES ASSUME NEW q \in Partition
               PROVE  offset'[q] <= position'[q] /\ position'[q] <= Len(records'[q])
    BY <1>1 DEF IInv, Positions
  <2> QED
    BY <1>1, <1>3, Topic DEF Grown
<1>7. Stage(p)'
  BY <1>1, <1>3, StageKept
<1>8. \A c : ServedBy(c)' = ServedBy(c)
  BY <1>1, <1>3, <1>4, MarksSame, ServedSame
<1>9. Undisturbed' => Fresh(p)'
  <2>1. Undisturbed' => Fresh(p)
    BY <1>1, <1>3, CalmBefore DEF IInv
  <2> QED
    BY <1>1, <2>1 DEF Fresh, Known
<1>10. CalmParts'
  BY <1>1, <1>2, <1>3, <1>8, <1>9, CalmKept
<1> QED
  BY <1>1, <1>2, <1>3, <1>5, <1>6, <1>7, <1>10, Frame

LEMMA OrderCreatedStep ==
  ASSUME IInv, Counts, NEW p \in Partition, NEW o \in OrderId, OrderCreated(p, o)
  PROVE  IInv'
<1>1. PICK l \in Place \union {None} :
        PublishEvent(p, [type |-> "created", order |-> o, location |-> l, courier |-> None])
  BY DEF OrderCreated
<1> DEFINE m == [type |-> "created", order |-> o, location |-> l, courier |-> None]
<1>2. m \in Message /\ m.type = "created" /\ m.order = o /\ PublishEvent(p, m)
  BY <1>1 DEF Message
<1> HIDE DEF m
<1>3. History'
  <2>1. records' = [records EXCEPT ![p] = Append(@, m)] /\ Known' = Known
    BY <1>2, RowsRest DEF PublishEvent
  <2>2. \A q \in Partition : EventsOf(q, m.order, "created") = {}
    BY <1>2 DEF OrderCreated
  <2> QED
    BY <1>2, <2>1, <2>2, HistoryAppended
<1> QED
  BY <1>2, <1>3, EventStep

LEMMA OrderEndedStep ==
  ASSUME IInv, Counts, NEW p \in Partition, NEW o \in OrderId, OrderEnded(p, o)
  PROVE  IInv'
<1>1. PICK c \in Announced(o) \union {None} :
        PublishEvent(p, [type |-> "ended", order |-> o, location |-> None, courier |-> c])
  BY DEF OrderEnded
<1> DEFINE m == [type |-> "ended", order |-> o, location |-> None, courier |-> c]
<1>2. /\ m \in Message /\ m.type = "ended" /\ m.order = o /\ m.courier = c
      /\ PublishEvent(p, m)
  <2>1. Announced(o) \subseteq CourierId
    BY DEF IInv, History, Known
  <2> QED
    BY <1>1, <2>1 DEF Message
<1> HIDE DEF m
<1>3. History'
  <2>1. records' = [records EXCEPT ![p] = Append(@, m)] /\ Known' = Known
    BY <1>2, RowsRest DEF PublishEvent
  <2>2. /\ EventsOf(p, m.order, "created") # {} /\ EventsOf(p, m.order, "ended") = {}
        /\ m.courier \in Announced(m.order) \union {None}
    BY <1>2 DEF OrderEnded
  <2> QED
    BY <1>2, <2>1, <2>2, HistoryAppended
<1> QED
  BY <1>2, <1>3, EventStep

-----------------------------------------------------------------------------
LEMMA QuietStep ==
  ASSUME IInv, UNCHANGED vars
  PROVE  IInv'
<1>1. UNCHANGED <<couriers, records, position, offset, pc, copy, overlapped, faultsLeft>>
  BY DEF vars, topics
<1>2. Grown /\ Known' = Known /\ History'
  BY <1>1, GrownRest, RowsRest, HistoryRest
<1>3. TypeOK' /\ Positions' /\ Alone' /\ (Undisturbed' <=> Undisturbed)
  BY <1>1 DEF IInv, TypeOK, Positions, Alone, Operating, Undisturbed
<1>4. \A a \in Actor : Stage(a)'
  BY <1>1, <1>2, StageKept
<1>5. \A o \in OrderId : Attempts(o)'
  BY <1>1, <1>2, MarksSame, EventsSame, Spared, AttemptsKept
<1>6. ASSUME Undisturbed, NEW a \in Actor PROVE Fresh(a)'
  BY <1>1, <1>2, <1>6 DEF IInv, Fresh
<1>7. ASSUME Undisturbed, NEW c \in CourierId PROVE Flags(c)'
  <2>1. ServedBy(c)' = ServedBy(c)
    BY <1>1, <1>2, MarksSame, EventsSame, ServedSame
  <2>2. Promised(c)' <=> Promised(c)
    BY <1>1 DEF Promised
  <2> QED
    BY <1>1, <1>2, <1>7, <2>1, <2>2 DEF IInv, Flags
<1> QED
  BY <1>2, <1>3, <1>4, <1>5, <1>6, <1>7 DEF IInv

LEMMA InitIInv == Init => IInv
<1> SUFFICES ASSUME Init PROVE IInv
  OBVIOUS
<1>1. \A p \in Partition : records[p] = <<>> /\ position[p] = 0 /\ offset[p] = 0
  BY DEF Init
<1>2. /\ \A p \in Partition, o \in OrderId : \A type : EventsOf(p, o, type) = {}
      /\ \A o \in OrderId : Announced(o) = {} /\ Announcements(o) = {}
  <2>1. \A p \in Partition, o \in OrderId : \A type : EventsOf(p, o, type) = {}
    BY <1>1 DEF EventsOf
  <2>2. ASSUME NEW o \in OrderId PROVE Announced(o) = {} /\ Announcements(o) = {}
    BY <1>1 DEF Announced, Announcements, EventsOf
  <2> QED
    BY <2>1, <2>2
<1>3. \A a \in Actor : pc[a] \in {"poll", "idle"} /\ (pc[a] = "poll" <=> a \in Partition)
  BY DEF Init
<1>4. Operating = {}
  BY <1>3 DEF Operating, Busy
<1>5. Alone
  BY <1>4, FS_EmptySet DEF Alone
<1>6. TypeOK
  <2>1. overlapped \in BOOLEAN
    BY Zenon DEF Init
  <2>2. /\ couriers \in [CourierId -> Courier \union {None}]
        /\ \A c \in CourierId : couriers[c] # None => couriers[c].id = c
    BY DEF Init
  <2>3. /\ records \in [Partition -> Seq(Message)]
        /\ \A p \in Partition : /\ 0 <= offset[p] /\ offset[p] <= position[p]
                                /\ position[p] <= Len(records[p])
    BY <1>1 DEF Init
  <2>4. /\ pc \in [Actor -> {"poll", "idle", "done"} \union Busy]
        /\ copy \in [Actor -> Courier \union {None}]
        /\ faultsLeft \in 0..MaxFaults
    BY DeliveryAssumption DEF Init
  <2> QED
    BY <2>1, <2>2, <2>3, <2>4 DEF TypeOK
<1>7. Positions
  BY DEF Init, Positions
<1>8. History
  BY <1>2 DEF History, Once, EndsKnown
<1>9. \A a \in Actor : Stage(a) /\ Fresh(a)
  BY <1>3, ActorKinds DEF Stage, Fresh, Busy
<1>10. ASSUME NEW o \in OrderId PROVE Attempts(o)
  <2>1. ~ CreatedHandled(o)
    BY <1>2 DEF CreatedHandled
  <2>2. IsFiniteSet(Announcements(o)) /\ Cardinality(Announcements(o)) = 0
    BY <1>2, FS_EmptySet
  <2> QED
    BY <2>1, <2>2, DeliveryAssumption DEF Init, Attempts
<1>11. ASSUME NEW c \in CourierId PROVE Flags(c)
  <2>1. ServedBy(c) = {}
    BY <1>2 DEF ServedBy
  <2>2. ~ Promised(c)
    BY <1>3, ActorKinds DEF Promised
  <2>3. c \in Known => ~ couriers[c].assigned
    BY DEF Init, Known
  <2> QED
    BY <2>1, <2>2, <2>3 DEF Flags
<1> QED
  BY <1>5, <1>6, <1>7, <1>8, <1>9, <1>10, <1>11 DEF IInv

LEMMA IInvStep == IInv /\ [Next]_vars => IInv'
<1> SUFFICES ASSUME IInv, [Next]_vars PROVE IInv'
  OBVIOUS
<1>1. ASSUME Counts, NEW p \in Partition, Consume(p) PROVE IInv'
  BY <1>1, PollStep, SaveAssignedStep, PublishAssignmentStep, SaveFreedStep DEF Consume
<1>2. ASSUME Counts, NEW p \in Partition, CommitOffset(p) \/ Crash(p) PROVE IInv'
  BY <1>2, CommitOffsetStep, CrashStep
<1>3. ASSUME Counts, NEW p \in Partition, NEW o \in OrderId,
             OrderCreated(p, o) \/ OrderEnded(p, o)
      PROVE  IInv'
  BY <1>3, OrderCreatedStep, OrderEndedStep
<1>4. ASSUME Counts, NEW q \in Request, Receive(q) \/ Store(q) PROVE IInv'
  BY <1>4, ReceiveStep, StoreStep
<1>5. CASE Quiet \/ UNCHANGED vars
  BY <1>5, QuietStep DEF Quiet
<1> QED
  BY <1>1, <1>2, <1>3, <1>4, <1>5 DEF Next, Steps, Counts

LEMMA IInvAlways == Spec => []IInv
<1>1. Init => IInv
  BY InitIInv
<1>2. IInv /\ [Next]_vars => IInv'
  BY IInvStep
<1> QED
  BY <1>1, <1>2, PTL DEF Spec

(* Rows, copies and records stay in their types, and no offset is ahead of *)
(* what was handled (OrderEventsListener.kt, CourierService.kt).           *)
THEOREM DeliveryTypes == Spec => []TypeOK
<1>1. IInv => TypeOK
  BY DEF IInv
<1> QED
  BY <1>1, IInvAlways, PTL

(* An order is announced once, and once more for each fault, however many  *)
(* consumers there are and however they overlap (assignCourierToOrder).    *)
THEOREM DeliveryAnnouncements == Spec => []AnnouncedOncePerAttempt
<1>1. IInv => AnnouncedOncePerAttempt
  <2> SUFFICES ASSUME IInv, NEW o \in OrderId
               PROVE  Cardinality(Announcements(o)) <= 1 + (MaxFaults - faultsLeft)
    BY DEF AnnouncedOncePerAttempt
  <2>1. /\ Cardinality(Announcements(o)) \in Nat
        /\ Cardinality(Announcements(o)) <=
             (IF CreatedHandled(o) THEN 1 ELSE 0) + (MaxFaults - faultsLeft)
    BY FS_CardinalityType DEF IInv, Attempts
  <2>2. MaxFaults \in Nat /\ faultsLeft \in 0..MaxFaults
    BY DeliveryAssumption DEF IInv, TypeOK
  <2> QED
    BY <2>1, <2>2
<1> QED
  BY <1>1, IInvAlways, PTL

(* As long as no two operations overlap and nothing fails, a courier has   *)
(* one order at most, and its flag says whether it has one.                *)
THEOREM DeliveryOneOrder == Spec => []OneOrderPerCourier
<1>1. IInv => OneOrderPerCourier
  <2> SUFFICES ASSUME IInv, Undisturbed, NEW c \in CourierId
               PROVE  /\ Cardinality(ServedBy(c)) <= 1
                      /\ Operating = {} /\ c \in Known =>
                           couriers[c].assigned = (ServedBy(c) # {})
    BY DEF OneOrderPerCourier
  <2>1. Flags(c)
    BY DEF IInv
  <2>2. Cardinality(ServedBy(c)) <= 1
    <3>1. CASE ServedBy(c) = {}
      BY <3>1, FS_EmptySet
    <3>2. CASE ServedBy(c) # {}
      <4>1. PICK o : ServedBy(c) = {o}
        BY <2>1, <3>2 DEF Flags
      <4>2. Cardinality({o}) = 1
        BY FS_Singleton
      <4> QED
        BY <4>1, <4>2
    <3> QED
      BY <3>1, <3>2
  <2>3. ASSUME Operating = {}, c \in Known
        PROVE  couriers[c].assigned = (ServedBy(c) # {})
    <3>1. ~ Promised(c)
      BY <2>3, ActorKinds DEF Promised, Operating, Busy
    <3>2. couriers[c].assigned <=> ServedBy(c) # {}
      BY <2>1, <2>3, <3>1 DEF Flags
    <3>3. couriers[c].assigned \in BOOLEAN
      BY <2>3, KnownRows, CourierFields
    <3> QED
      BY <3>2, <3>3
  <2> QED
    BY <2>2, <2>3
<1> QED
  BY <1>1, IInvAlways, PTL
=============================================================================
