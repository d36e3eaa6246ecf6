----------------------------- MODULE NotifyProofs -----------------------------
(***************************************************************************)
(* Proofs about Notify, for any number of users, requests, records, lives  *)
(* and faults: no record is passed over, and one is handled again only     *)
(* when an offset was lost.                                                *)
(***************************************************************************)
EXTENDS Notify, TLAPS

(* The inductive invariant.  What the HTTP API has, and what a request     *)
(* carries from one call of MongoDB to the next.                           *)
Api ==
  /\ contexts \in [User -> Channels \union {NoDoc}]
  /\ call \in [Request -> Call \union {NoCall}]
  /\ pc \in [Request -> {"idle", "answered", "lost"} \union Serving]
  /\ copy \in [Request -> Channels \union {NoDoc}]
  /\ answer \in [Request -> Codes \union {NoAnswer}]
  /\ \A r \in Request : /\ pc[r] \in Serving => call[r] # NoCall
                        /\ pc[r] = "write" => copy[r] # NoDoc

(* The offsets of the consumer, and where its thread may be.               *)
Offsets ==
  /\ topic \in Seq(Record) /\ Len(topic) <= MaxRecords
  /\ proc \in {"down", "up", "stopping", "closed"}
  /\ thread \in {"none", "connect", "poll", "handle", "send", "dead"}
  /\ thread = "none" <=> proc = "down"
  /\ committed \in Nat /\ position \in Nat /\ next \in Nat
  /\ committed <= position /\ next <= position /\ position <= Len(topic)
  /\ thread \in {"handle", "send"} => next < position
  /\ thread \in {"connect", "poll"} => next = position

(* What the consumer keeps besides.                                        *)
Keeps ==
  /\ chat \in Value \union {Unset}
  /\ running \in BOOLEAN /\ cutShort \in BOOLEAN
  /\ stats \in Stats
  /\ lives \in 0..MaxLives
  /\ lives = 0 => committed = 0 /\ thread = "none"
  /\ handled \in [1..MaxRecords -> Nat]
  /\ setbacks \in Nat /\ rewound \in Nat
  /\ faultsLeft \in 0..MaxFaults

(* A close() that could not commit has been paid for already.              *)
Spent ==
  \A k \in 1..MaxRecords : /\ handled[k] <= setbacks
                           /\ k > next => handled[k] < setbacks

(* All records up to the next one were handled.  What will be handled from *)
(* the offset on after a restart has a handling to its credit.             *)
Progress ==
  /\ NoneSkipped /\ AgainBySetback
  /\ ~ cutShort => \A k \in 1..next : handled[k] > 0
  /\ thread = "none" => \A k \in 1..MaxRecords : k > committed => handled[k] <= setbacks
  /\ proc = "closed" => committed = position \/ Spent

IInv == Api /\ Offsets /\ Keeps /\ Progress
-----------------------------------------------------------------------------
LEMMA CallFields ==
  ASSUME NEW c \in Call
  PROVE  /\ c.op \in {"create", "replace", "patch", "delete"} /\ c.user \in User
         /\ c.op # "delete" => c.body \in Body
         /\ c # NoCall
BY NotifyAssumption DEF Call

LEMMA FaultType ==
  ASSUME IInv, Fault \/ NoFault
  PROVE  faultsLeft' \in 0..MaxFaults
BY NotifyAssumption DEF IInv, Keeps, Fault, NoFault

(* What a partial map leaves out keeps its value (merge_channels).         *)
LEMMA MergeType ==
  ASSUME NEW old \in Channels, NEW partial \in Channels
  PROVE  Merge(old, partial) \in Channels
BY DEF Merge, Channels

-----------------------------------------------------------------------------
(* The requests.                                                           *)
LEMMA ServeApi ==
  ASSUME IInv, NEW r \in Request, Serve(r)
  PROVE  Api'
<1>1. /\ contexts \in [User -> Channels \union {NoDoc}]
      /\ pc \in [Request -> {"idle", "answered", "lost"} \union Serving]
      /\ copy \in [Request -> Channels \union {NoDoc}]
      /\ answer \in [Request -> Codes \union {NoAnswer}]
      /\ call[r] \in Call /\ pc[r] \in Serving
      /\ pc[r] = "write" => copy[r] \in Channels
  BY DEF IInv, Api, Serve
<1>2. /\ call[r].user \in User
      /\ call[r].op # "delete" => call[r].body \in Channels
      /\ NoDoc \notin Channels
  BY <1>1, CallFields, NotifyAssumption
<1>3. ASSUME NEW code \in Codes, Answer(r, code),
             contexts' \in [User -> Channels \union {NoDoc}]
      PROVE  Api'
  <2>1. /\ pc' = [pc EXCEPT ![r] = "answered"] /\ call' = call
        /\ answer' = [answer EXCEPT ![r] = code] /\ copy' = [copy EXCEPT ![r] = NoDoc]
    BY <1>3 DEF Answer
  <2>2. /\ pc' \in [Request -> {"idle", "answered", "lost"} \union Serving]
        /\ copy' \in [Request -> Channels \union {NoDoc}]
        /\ answer' \in [Request -> Codes \union {NoAnswer}]
    BY <1>1, <2>1
  <2>3. \A q \in Request : /\ pc'[q] \in Serving => call'[q] # NoCall
                           /\ pc'[q] = "write" => copy'[q] # NoDoc
    BY <1>1, <2>1 DEF IInv, Api, Serving
  <2> QED
    BY <1>3, <2>1, <2>2, <2>3 DEF IInv, Api
<1>4. ASSUME NEW l \in Serving, NEW doc \in Channels \union {NoDoc}, Goto(r, l, doc),
             l = "write" => doc # NoDoc,
             contexts' \in [User -> Channels \union {NoDoc}]
      PROVE  Api'
  <2>1. /\ pc' = [pc EXCEPT ![r] = l] /\ copy' = [copy EXCEPT ![r] = doc]
        /\ UNCHANGED <<call, answer>>
    BY <1>4 DEF Goto
  <2>2. /\ pc' \in [Request -> {"idle", "answered", "lost"} \union Serving]
        /\ copy' \in [Request -> Channels \union {NoDoc}]
    BY <1>1, <2>1
  <2>3. \A q \in Request : /\ pc'[q] \in Serving => call'[q] # NoCall
                           /\ pc'[q] = "write" => copy'[q] # NoDoc
    BY <1>1, <1>4, <2>1 DEF IInv, Api
  <2> QED
    BY <1>4, <2>1, <2>2, <2>3 DEF IInv, Api
<1>5. ASSUME NEW doc \in Channels \union {NoDoc}, Put(r, doc)
      PROVE  contexts' \in [User -> Channels \union {NoDoc}]
  BY <1>1, <1>2, <1>5 DEF Put
<1>6. UNCHANGED contexts => contexts' \in [User -> Channels \union {NoDoc}]
  BY <1>1
<1>7. \A code \in {200, 201, 204, 404, 409, 500} : code \in Codes
  BY DEF Codes
<1>8. CASE Create(r)
  BY <1>2, <1>3, <1>4, <1>5, <1>6, <1>7, <1>8 DEF Create, Serving
<1>9. CASE Replace(r)
  BY <1>2, <1>3, <1>5, <1>6, <1>7, <1>9 DEF Replace
<1>10. CASE Patch(r)
  <2>1. pc[r] = "write" => Merge(copy[r], call[r].body) \in Channels
    BY <1>1, <1>2, <1>10, MergeType DEF Patch
  <2>2. Known(r) => contexts[call[r].user] \in Channels /\ contexts[call[r].user] # NoDoc
    BY <1>1, <1>2 DEF Known
  <2> QED
    BY <1>3, <1>4, <1>5, <1>6, <1>7, <1>10, <2>1, <2>2 DEF Patch, Serving
<1>11. CASE Delete(r)
  BY <1>3, <1>5, <1>6, <1>7, <1>11 DEF Delete
<1>12. CASE MongoFails(r)
  <2>1. call[r].op = "patch" /\ pc[r] = "write" => Merge(copy[r], call[r].body) \in Channels
    BY <1>1, <1>2, MergeType
  <2>2. ASSUME Writes(r) PROVE contexts' \in [User -> Channels \union {NoDoc}]
    BY <1>2, <1>5, <2>1, <2>2 DEF Writes
  <2> QED
    BY <1>3, <1>6, <1>7, <1>12, <2>2 DEF MongoFails
<1> QED
  BY <1>8, <1>9, <1>10, <1>11, <1>12 DEF Serve

LEMMA ReceiveApi ==
  ASSUME IInv, NEW r \in Request, NEW c \in Call, Receive(r, c)
  PROVE  Api'
<1>1. /\ call' = [call EXCEPT ![r] = c] /\ pc' = [pc EXCEPT ![r] = "begin"]
      /\ UNCHANGED <<contexts, copy, answer>> /\ c # NoCall
  BY CallFields DEF Receive
<1> QED
  BY <1>1 DEF IInv, Api, Serving

LEMMA CrashApi ==
  ASSUME IInv, Crash
  PROVE  Api'
<1>1. /\ pc' = [r \in Request |-> IF r \in InService THEN "lost" ELSE pc[r]]
      /\ copy' = [r \in Request |-> NoDoc]
      /\ UNCHANGED <<contexts, call, answer>>
  BY DEF Crash
<1>2. \A r \in Request : pc'[r] \notin Serving /\ pc'[r] \in {"idle", "answered", "lost"}
  BY <1>1 DEF IInv, Api, InService, Serving
<1> QED
  BY <1>1, <1>2 DEF IInv, Api, Serving

(* A step that leaves the consumer and its topic alone.                    *)
LEMMA ConsumerRests ==
  ASSUME IInv, UNCHANGED <<kafka, consumer>>, faultsLeft' \in 0..MaxFaults
  PROVE  Offsets' /\ Keeps' /\ Progress'
BY DEF IInv, Offsets, Keeps, Progress, Spent, NoneSkipped, AgainBySetback, kafka, consumer,
       history

LEMMA ApiRests ==
  ASSUME IInv, UNCHANGED <<contexts, requests>>
  PROVE  Api'
BY DEF IInv, Api, requests

-----------------------------------------------------------------------------
(* The consumer.                                                           *)
Ways == {{"failed"}, {"skipped", "processed"}, {"sent", "processed"},
         {"telegramFailed", "processed"}}

LEMMA Counting ==
  ASSUME NEW s \in Stats, NEW t, NEW counted \in Ways,
         t = [c \in DOMAIN s |-> IF c \in counted THEN s[c] + 1 ELSE s[c]],
         s.processed = s.sent + s.skipped + s.telegramFailed
  PROVE  /\ t \in Stats
         /\ t.processed = t.sent + t.skipped + t.telegramFailed
         /\ t.processed + t.failed = s.processed + s.failed + 1
<1>1. DOMAIN s = {"processed", "failed", "sent", "skipped", "telegramFailed"}
  BY DEF Stats
<1>2. /\ s.processed \in Nat /\ s.failed \in Nat /\ s.sent \in Nat /\ s.skipped \in Nat
      /\ s.telegramFailed \in Nat
  BY DEF Stats
<1>3. /\ t.processed = IF "processed" \in counted THEN s.processed + 1 ELSE s.processed
      /\ t.failed = IF "failed" \in counted THEN s.failed + 1 ELSE s.failed
      /\ t.sent = IF "sent" \in counted THEN s.sent + 1 ELSE s.sent
      /\ t.skipped = IF "skipped" \in counted THEN s.skipped + 1 ELSE s.skipped
      /\ t.telegramFailed = IF "telegramFailed" \in counted THEN s.telegramFailed + 1
                            ELSE s.telegramFailed
  BY <1>1
<1>4. t = [processed |-> t.processed, failed |-> t.failed, sent |-> t.sent,
           skipped |-> t.skipped, telegramFailed |-> t.telegramFailed]
  BY <1>1
<1>5. t \in Stats
  BY <1>2, <1>3, <1>4 DEF Stats
<1> QED
  BY <1>2, <1>3, <1>5 DEF Ways

(* A record is done with.                                                  *)
LEMMA DoneStep ==
  ASSUME IInv, thread \in {"handle", "send"}, NEW counted \in Ways, Done(counted),
         Fault \/ NoFault,
         UNCHANGED <<kafka, proc, position, running, lives, cutShort, history>>
  PROVE  Offsets' /\ Keeps' /\ Progress'
<1>1. /\ next' = next + 1
      /\ thread' = IF next + 1 = position THEN "poll" ELSE "handle"
      /\ handled' = [handled EXCEPT ![next + 1] = @ + 1]
      /\ chat' = Unset
  BY DEF Done
<1>2. UNCHANGED <<topic, committed, proc, position, running, lives, cutShort, setbacks, rewound>>
  BY DEF kafka, history
<1>3. /\ next \in Nat /\ position \in Nat /\ next < position /\ position <= Len(topic)
      /\ topic \in Seq(Record) /\ Len(topic) <= MaxRecords /\ MaxRecords \in Nat
      /\ handled \in [1..MaxRecords -> Nat] /\ lives \in Nat
      /\ setbacks \in Nat /\ rewound \in Nat
      /\ Len(topic) \in Nat /\ committed \in Nat
  BY NotifyAssumption DEF IInv, Offsets, Keeps
<1>4. next + 1 \in 1..MaxRecords
  BY <1>3
<1>5. /\ handled'[next + 1] = handled[next + 1] + 1
      /\ \A k \in 1..MaxRecords : k # next + 1 => handled'[k] = handled[k]
      /\ handled' \in [1..MaxRecords -> Nat]
  BY <1>1, <1>3, <1>4
<1>6. /\ stats' \in Stats
      /\ stats'.processed = stats'.sent + stats'.skipped + stats'.telegramFailed
      /\ stats'.processed + stats'.failed = stats.processed + stats.failed + 1
  BY Counting DEF Done, IInv, Keeps, Progress, AgainBySetback
<1>7. Offsets'
  BY <1>1, <1>2, <1>3 DEF IInv, Offsets
<1>8. Keeps'
  BY <1>1, <1>2, <1>3, <1>5, <1>6, FaultType DEF IInv, Keeps
<1>9. AgainBySetback'
  <2>1. ASSUME NEW k \in 1..MaxRecords
        PROVE  /\ handled'[k] <= setbacks' + 1
               /\ k > next' => handled'[k] <= setbacks'
    <3>1. handled[k] <= setbacks + 1 /\ (k > next => handled[k] <= setbacks) /\ handled[k] \in Nat
      BY <1>3 DEF IInv, Progress, AgainBySetback
    <3> QED
      BY <1>1, <1>2, <1>3, <1>5, <3>1
  <2>2. /\ stats.processed + stats.failed <= next + rewound
        /\ lives = 1 => stats.processed + stats.failed = next + rewound
        /\ stats.processed \in Nat /\ stats.failed \in Nat
    BY DEF IInv, Progress, AgainBySetback, Keeps, Stats
  <2>3. PICK m \in Nat, n \in Nat :
          /\ m = stats.processed + stats.failed
          /\ n = stats'.processed + stats'.failed /\ n = m + 1
    BY <1>6, <2>2
  <2>4. m <= next + rewound /\ (lives = 1 => m = next + rewound)
    BY <2>2, <2>3
  <2>5. n <= next' + rewound' /\ (lives' = 1 => n = next' + rewound')
    BY <1>1, <1>2, <1>3, <2>3, <2>4
  <2> QED
    BY <1>6, <2>1, <2>3, <2>5 DEF AgainBySetback
<1>10. Progress'
  <2>1. ~ cutShort => \A k \in 1..next : handled[k] > 0
    BY DEF IInv, Progress
  <2>2. ~ cutShort' => \A k \in 1..next' : handled'[k] > 0
    BY <1>1, <1>2, <1>3, <1>5, <2>1
  <2>3. \A k \in 1..MaxRecords : handled[k] > 0 => handled'[k] > 0
    BY <1>3, <1>5
  <2>4. ~ cutShort => \A k \in 1..committed : handled[k] > 0 /\ k \in 1..MaxRecords
    BY <1>3 DEF IInv, Progress, NoneSkipped, Offsets
  <2>5. NoneSkipped'
    BY <1>2, <2>3, <2>4 DEF NoneSkipped
  <2>6. thread' # "none"
    BY <1>1
  <2>7. ASSUME Spent PROVE Spent'
    <3>1. ASSUME NEW k \in 1..MaxRecords
          PROVE  handled'[k] <= setbacks /\ (k > next + 1 => handled'[k] < setbacks)
      <4>1. handled[k] \in Nat /\ handled[k] <= setbacks /\ (k > next => handled[k] < setbacks)
        BY <1>3, <2>7 DEF Spent
      <4> QED
        BY <1>3, <1>5, <4>1
    <3> QED
      BY <1>1, <1>2, <3>1 DEF Spent
  <2>8. proc' = "closed" => committed' = position' \/ Spent'
    BY <1>2, <2>7 DEF IInv, Progress
  <2> QED
    BY <1>9, <2>2, <2>5, <2>6, <2>8 DEF Progress
<1> QED
  BY <1>7, <1>8, <1>10

(* The other steps handle nothing: they may move the offsets.              *)
LEMMA ProgressKept ==
  ASSUME IInv, UNCHANGED <<handled, lives, stats, next, cutShort, history>>,
         committed' = committed \/ committed' = next,
         thread # "none", thread' # "none",
         proc' = "closed" => proc = "closed" /\ UNCHANGED <<committed, position>>
  PROVE  Progress'
<1>1. NoneSkipped'
  BY DEF IInv, Progress, NoneSkipped
<1>2. AgainBySetback'
  BY DEF IInv, Progress, AgainBySetback, history
<1>3. proc' = "closed" => committed' = position' \/ Spent'
  BY DEF IInv, Progress, Spent, history
<1> QED
  BY <1>1, <1>2, <1>3 DEF IInv, Progress

LEMMA StartUpStep ==
  ASSUME IInv, StartUp
  PROVE  IInv'
<1>1. /\ proc = "down" /\ lives < MaxLives
      /\ proc' = "up" /\ thread' = "connect"
      /\ position' = committed /\ next' = committed
      /\ chat' = Unset /\ running' = FALSE /\ stats' = Zero
      /\ lives' = lives + 1 /\ rewound' = 0
      /\ NoFault
      /\ UNCHANGED <<contexts, requests, topic, committed, handled, cutShort, setbacks>>
  BY DEF StartUp, Assigned, kafka
<1>2. /\ lives \in Nat /\ MaxLives \in Nat /\ committed \in Nat /\ Len(topic) \in Nat
      /\ committed <= Len(topic) /\ handled \in [1..MaxRecords -> Nat]
      /\ lives = 0 => committed = 0
      /\ setbacks \in Nat /\ thread = "none"
  BY <1>1, NotifyAssumption DEF IInv, Offsets, Keeps
<1>3. /\ Zero \in Stats /\ Zero.processed = 0 /\ Zero.failed = 0 /\ Zero.sent = 0
      /\ Zero.skipped = 0 /\ Zero.telegramFailed = 0
  BY DEF Zero, Stats
<1>4. Api'
  BY <1>1, ApiRests
<1>5. Offsets'
  BY <1>1, <1>2 DEF IInv, Offsets
<1>6. Keeps'
  <2>1. running' \in BOOLEAN /\ cutShort' \in BOOLEAN
    BY <1>1, Zenon DEF IInv, Keeps
  <2>2. lives' \in 0..MaxLives /\ lives' # 0
    BY <1>1, <1>2
  <2>3. faultsLeft' \in 0..MaxFaults
    BY <1>1, FaultType
  <2> QED
    BY <1>1, <1>3, <2>1, <2>2, <2>3 DEF IInv, Keeps
<1>7. \A k \in 1..MaxRecords : /\ handled[k] <= setbacks + 1
                               /\ k > committed => handled[k] <= setbacks
  BY <1>2 DEF IInv, Progress, AgainBySetback
<1>8. AgainBySetback'
  BY <1>1, <1>2, <1>3, <1>7 DEF AgainBySetback
<1>9. Progress'
  BY <1>1, <1>2, <1>8 DEF IInv, Progress, NoneSkipped
<1> QED
  BY <1>4, <1>5, <1>6, <1>9 DEF IInv

LEMMA ProduceStep ==
  ASSUME IInv, NEW record \in Record, Produce(record)
  PROVE  IInv'
<1>1. /\ topic' = Append(topic, record) /\ Len(topic) < MaxRecords /\ NoFault
      /\ UNCHANGED <<contexts, requests, committed, consumer>>
  BY DEF Produce
<1>2. /\ topic' \in Seq(Record) /\ Len(topic') = Len(topic) + 1 /\ Len(topic) \in Nat
      /\ MaxRecords \in Nat
  BY <1>1, NotifyAssumption DEF IInv, Offsets
<1>3. Api'
  BY <1>1, ApiRests
<1>4. Offsets'
  BY <1>1, <1>2 DEF IInv, Offsets, consumer
<1>5. Keeps'
  BY <1>1, FaultType DEF IInv, Keeps, consumer, history
<1>6. Progress'
  BY <1>1 DEF IInv, Progress, Spent, NoneSkipped, AgainBySetback, consumer, history
<1> QED
  BY <1>3, <1>4, <1>5, <1>6 DEF IInv

LEMMA ConnectStep ==
  ASSUME IInv, Connect
  PROVE  IInv'
<1>1. /\ thread = "connect" /\ thread' \in {"poll", "dead"} /\ running' \in BOOLEAN
      /\ (Fault \/ NoFault)
      /\ UNCHANGED <<contexts, requests, topic, committed, proc, position, next, chat, stats,
                     lives, handled, cutShort, history>>
  BY DEF Connect, Die, kafka
<1>2. Api'
  BY <1>1, ApiRests
<1>3. Offsets'
  BY <1>1 DEF IInv, Offsets
<1>4. Keeps'
  BY <1>1, FaultType DEF IInv, Keeps, history
<1>5. Progress'
  BY <1>1, ProgressKept
<1> QED
  BY <1>2, <1>3, <1>4, <1>5 DEF IInv

LEMMA PollStep ==
  ASSUME IInv, Poll
  PROVE  IInv'
<1>1. /\ thread = "poll" /\ (Fault \/ NoFault)
      /\ UNCHANGED <<contexts, requests, topic, proc, chat, stats, lives, handled, cutShort>>
  BY DEF Poll
<1>2. /\ next = position /\ position \in Nat /\ Len(topic) \in Nat
      /\ committed \in Nat /\ committed <= position /\ position <= Len(topic)
      /\ proc # "down" /\ setbacks \in Nat /\ rewound \in Nat
  BY <1>1 DEF IInv, Offsets, Keeps
<1>3. Api'
  BY <1>1, ApiRests
<1>4. CASE \/ /\ proc = "up"
              /\ committed' \in {committed, position}
              /\ position' \in position..Len(topic)
              /\ thread' = IF position' > position THEN "handle" ELSE "poll"
              /\ UNCHANGED <<running, next, history>>
           \/ thread' = "dead" /\ running' = FALSE /\ UNCHANGED <<committed, position, next, history>>
  <2>1. Offsets'
    BY <1>1, <1>2, <1>4 DEF IInv, Offsets
  <2>2. Keeps'
    BY <1>1, <1>2, <1>4, FaultType DEF IInv, Keeps, history
  <2>3. Progress'
    BY <1>1, <1>2, <1>4, ProgressKept
  <2> QED
    BY <1>3, <2>1, <2>2, <2>3 DEF IInv
<1>5. CASE proc = "up" /\ Rewind
  <2>1. /\ position' = committed /\ next' = committed
        /\ rewound' = rewound + (next - committed) /\ setbacks' = setbacks + 1
        /\ UNCHANGED <<thread, running, committed>>
    BY <1>5 DEF Rewind, Assigned, SetBack
  <2>2. rewound' \in Nat /\ setbacks' \in Nat /\ next' + rewound' = next + rewound
    BY <1>2, <2>1
  <2>3. Offsets'
    BY <1>1, <1>2, <2>1 DEF IInv, Offsets
  <2>4. Keeps'
    BY <1>1, <2>1, <2>2, FaultType DEF IInv, Keeps
  <2>5. AgainBySetback'
    <3>1. \A k \in 1..MaxRecords : handled[k] \in Nat /\ handled[k] <= setbacks + 1
      BY DEF IInv, Keeps, Progress, AgainBySetback
    <3>2. \A k \in 1..MaxRecords : handled'[k] <= setbacks' /\ handled'[k] <= setbacks' + 1
      BY <1>1, <1>2, <2>1, <3>1
    <3>3. /\ stats'.processed = stats'.sent + stats'.skipped + stats'.telegramFailed
          /\ stats'.processed + stats'.failed <= next' + rewound'
          /\ lives' = 1 => stats'.processed + stats'.failed = next' + rewound'
      BY <1>1, <2>2 DEF IInv, Progress, AgainBySetback
    <3> QED
      BY <3>2, <3>3 DEF AgainBySetback
  <2>6. Progress'
    <3>1. NoneSkipped' /\ (~ cutShort' => \A k \in 1..next' : handled'[k] > 0)
      BY <1>1, <2>1 DEF IInv, Progress, NoneSkipped
    <3>2. thread' # "none" /\ proc' # "closed"
      BY <1>1, <1>5, <2>1
    <3> QED
      BY <2>5, <3>1, <3>2 DEF Progress
  <2> QED
    BY <1>3, <2>3, <2>4, <2>6 DEF IInv
<1> QED
  BY <1>4, <1>5 DEF Poll, Die

LEMMA HandleStep ==
  ASSUME IInv, Handle
  PROVE  IInv'
<1>1. /\ thread = "handle" /\ (Fault \/ NoFault)
      /\ UNCHANGED <<contexts, requests, kafka, proc, position, running, lives, cutShort, history>>
  BY DEF Handle
<1>2. topic[next + 1] \in Record
  BY <1>1 DEF IInv, Offsets
<1>3. PICK found : found = ChatOf(contexts[topic[next + 1].user])
  OBVIOUS
<1>4. found # Unset => found \in Value
  BY <1>3, NotifyAssumption DEF ChatOf
<1>5. \/ Done({"failed"})
      \/ Done({"skipped", "processed"})
      \/ /\ thread' = "send" /\ chat' = found /\ found # Unset
         /\ UNCHANGED <<next, handled, stats>>
  BY <1>3 DEF Handle
<1>6. Api'
  BY <1>1, ApiRests
<1>7. CASE \E counted \in Ways : Done(counted)
  BY <1>1, <1>6, <1>7, DoneStep DEF IInv
<1>8. CASE /\ thread' = "send" /\ chat' = found /\ found # Unset
           /\ UNCHANGED <<next, handled, stats>>
  <2>1. Offsets'
    BY <1>1, <1>8 DEF IInv, Offsets, kafka
  <2>2. Keeps'
    BY <1>1, <1>4, <1>8, FaultType DEF IInv, Keeps, kafka, history
  <2>3. Progress'
    BY <1>1, <1>8, ProgressKept DEF kafka
  <2> QED
    BY <1>6, <2>1, <2>2, <2>3 DEF IInv
<1> QED
  BY <1>5, <1>7, <1>8 DEF Ways

LEMMA SendStep ==
  ASSUME IInv, Send
  PROVE  IInv'
<1>1. /\ thread = "send" /\ (Fault \/ NoFault)
      /\ UNCHANGED <<contexts, requests, kafka, proc, position, running, lives, cutShort, history>>
      /\ \E counted \in Ways : Done(counted)
  BY DEF Send, Ways
<1>2. Api'
  BY <1>1, ApiRests
<1> QED
  BY <1>1, <1>2, DoneStep DEF IInv

(* The life cycle of the process after its start.                          *)
LEMMA StopStep ==
  ASSUME IInv, Stop
  PROVE  IInv'
<1>1. /\ proc = "up" /\ proc' = "stopping" /\ NoFault
      /\ UNCHANGED <<contexts, requests, topic, committed, thread, position, next, chat, running,
                     stats, lives, handled, cutShort, history>>
  BY DEF Stop, kafka
<1>2. thread # "none"
  BY <1>1 DEF IInv, Offsets
<1>3. Api'
  BY <1>1, ApiRests
<1>4. Offsets'
  BY <1>1 DEF IInv, Offsets
<1>5. Keeps'
  BY <1>1, FaultType DEF IInv, Keeps, history
<1>6. Progress'
  BY <1>1, <1>2, ProgressKept
<1> QED
  BY <1>3, <1>4, <1>5, <1>6 DEF IInv

LEMMA CloseStep ==
  ASSUME IInv, Close
  PROVE  IInv'
<1>1. /\ proc = "stopping" /\ proc' = "closed" /\ running' = FALSE /\ (Fault \/ NoFault)
      /\ \/ /\ committed' = position /\ cutShort' = (cutShort \/ next < position)
            /\ UNCHANGED setbacks
         \/ setbacks' = setbacks + 1 /\ UNCHANGED <<committed, cutShort>>
      /\ UNCHANGED <<contexts, requests, topic, thread, position, next, chat, stats,
                     lives, handled, rewound>>
  BY DEF Close, SetBack
<1>2. /\ next \in Nat /\ position \in Nat /\ next <= position /\ cutShort \in BOOLEAN
      /\ committed \in Nat /\ setbacks \in Nat /\ thread # "none" /\ lives # 0
      /\ position <= Len(topic) /\ Len(topic) \in Nat
  BY <1>1 DEF IInv, Offsets, Keeps
<1>3. Api'
  BY <1>1, ApiRests
<1>4. Offsets'
  BY <1>1, <1>2 DEF IInv, Offsets
<1>5. /\ cutShort' \in BOOLEAN /\ (cutShort => cutShort')
      /\ committed' = committed \/ committed' = next \/ cutShort'
  <2>1. next < position \/ next = position
    BY <1>2
  <2>2. CASE UNCHANGED <<committed, cutShort>>
    BY <1>2, <2>2, Zenon
  <2>3. CASE committed' = position /\ cutShort' = (cutShort \/ next < position)
    BY <1>2, <2>1, <2>3, Zenon
  <2> QED
    BY <1>1, <2>2, <2>3, Zenon
<1>6. Keeps'
  <2>1. running' \in BOOLEAN
    BY <1>1, Zenon
  <2>2. faultsLeft' \in 0..MaxFaults /\ setbacks' \in Nat
    BY <1>1, <1>2, FaultType
  <2> QED
    BY <1>1, <1>2, <1>5, <2>1, <2>2 DEF IInv, Keeps
<1>7. \A k \in 1..MaxRecords : /\ handled[k] \in Nat /\ handled[k] <= setbacks + 1
                               /\ k > next => handled[k] <= setbacks
  BY <1>2 DEF IInv, Keeps, Progress, AgainBySetback
<1>8. Progress'
  <2>1. NoneSkipped' /\ (~ cutShort' => \A k \in 1..next' : handled'[k] > 0)
    BY <1>1, <1>5 DEF IInv, Progress, NoneSkipped
  <2>2. AgainBySetback'
    <3>1. \A k \in 1..MaxRecords : /\ handled'[k] <= setbacks' + 1
                                   /\ k > next' => handled'[k] <= setbacks'
      BY <1>1, <1>2, <1>7
    <3> QED
      BY <1>1, <3>1 DEF IInv, Progress, AgainBySetback
  <2>3. committed' = position' \/ Spent'
    BY <1>1, <1>2, <1>7 DEF Spent
  <2> QED
    BY <1>1, <1>2, <2>1, <2>2, <2>3 DEF Progress
<1> QED
  BY <1>3, <1>4, <1>6, <1>8 DEF IInv

LEMMA EndStep ==
  ASSUME IInv, Exit \/ Crash
  PROVE  IInv'
<1>1. /\ proc # "down" /\ proc' = "down" /\ thread' = "none" /\ chat' = Unset /\ running' = FALSE
      /\ (Fault \/ NoFault)
      /\ setbacks' = setbacks + 1 \/ (proc = "closed" /\ setbacks' = setbacks)
      /\ UNCHANGED <<topic, committed, position, next, stats, lives, handled, cutShort, rewound>>
  BY DEF Exit, Crash, SetBack, kafka, history
<1>2. /\ next \in Nat /\ position \in Nat /\ committed \in Nat /\ next <= position
      /\ setbacks \in Nat /\ thread # "none"
  BY <1>1 DEF IInv, Offsets, Keeps
<1>3. Api'
  <2>1. Crash \/ UNCHANGED <<contexts, requests>>
    BY DEF Exit
  <2> QED
    BY <2>1, CrashApi, ApiRests
<1>4. Offsets'
  BY <1>1 DEF IInv, Offsets
<1>5. Keeps'
  <2>1. running' \in BOOLEAN
    BY <1>1, Zenon
  <2>2. faultsLeft' \in 0..MaxFaults /\ setbacks' \in Nat
    BY <1>1, <1>2, FaultType
  <2> QED
    BY <1>1, <2>1, <2>2 DEF IInv, Keeps
<1>6. \A k \in 1..MaxRecords : /\ handled[k] \in Nat /\ handled[k] <= setbacks + 1
                               /\ k > next => handled[k] <= setbacks
  BY <1>2 DEF IInv, Keeps, Progress, AgainBySetback
<1>7. \A k \in 1..MaxRecords : k > committed => handled[k] <= setbacks'
  <2>1. CASE setbacks' = setbacks + 1
    BY <1>6, <2>1
  <2>2. CASE proc = "closed" /\ setbacks' = setbacks /\ committed = position
    BY <1>2, <1>6, <2>2
  <2>3. CASE proc = "closed" /\ setbacks' = setbacks /\ Spent
    BY <2>3 DEF Spent
  <2> QED
    BY <1>1, <2>1, <2>2, <2>3 DEF IInv, Progress
<1>8. Progress'
  <2>1. NoneSkipped' /\ (~ cutShort' => \A k \in 1..next' : handled'[k] > 0)
    BY <1>1 DEF IInv, Progress, NoneSkipped
  <2>2. AgainBySetback'
    <3>1. \A k \in 1..MaxRecords : handled'[k] <= setbacks' + 1
      BY <1>1, <1>2, <1>6
    <3> QED
      BY <1>1, <3>1 DEF IInv, Progress, AgainBySetback
  <2> QED
    BY <1>1, <1>7, <2>1, <2>2 DEF Progress
<1> QED
  BY <1>3, <1>4, <1>5, <1>8 DEF IInv

LEMMA InitIInv == Init => IInv
<1> SUFFICES ASSUME Init PROVE IInv
  OBVIOUS
<1>1. Api
  BY NotifyAssumption DEF Init, Api, Serving
<1>2. Offsets
  BY NotifyAssumption DEF Init, Offsets
<1>3. Zero \in Stats /\ Zero.processed = 0 /\ Zero.failed = 0 /\ Zero.sent = 0
      /\ Zero.skipped = 0 /\ Zero.telegramFailed = 0
  BY DEF Zero, Stats
<1>4. Keeps
  <2>1. running \in BOOLEAN /\ cutShort \in BOOLEAN
    BY Zenon DEF Init
  <2>2. handled \in [1..MaxRecords -> Nat] /\ lives = 0 /\ lives \in 0..MaxLives
        /\ setbacks \in Nat /\ rewound \in Nat /\ faultsLeft \in 0..MaxFaults
    BY NotifyAssumption DEF Init
  <2>3. stats \in Stats /\ chat \in Value \union {Unset} /\ committed = 0 /\ thread = "none"
    BY <1>3 DEF Init
  <2> QED
    BY <2>1, <2>2, <2>3 DEF Keeps
<1>5. Progress
  BY <1>3, NotifyAssumption DEF Init, Progress, NoneSkipped, AgainBySetback
<1> QED
  BY <1>1, <1>2, <1>4, <1>5 DEF IInv

LEMMA IInvStep == IInv /\ [Next]_vars => IInv'
<1> SUFFICES ASSUME IInv, [Next]_vars PROVE IInv'
  OBVIOUS
<1>1. ASSUME NEW r \in Request, Serve(r) PROVE IInv'
  <2>1. Fault \/ NoFault
    BY <1>1 DEF Serve, MongoFails
  <2> QED
    BY <1>1, <2>1, ServeApi, FaultType, ConsumerRests DEF Serve, IInv
<1>2. ASSUME NEW r \in Request, NEW c \in Call, Receive(r, c) PROVE IInv'
  <2>1. NoFault /\ UNCHANGED <<kafka, consumer>>
    BY <1>2 DEF Receive
  <2> QED
    BY <1>2, <2>1, ReceiveApi, FaultType, ConsumerRests DEF IInv
<1>3. CASE Quiet \/ UNCHANGED vars
  <2>1. UNCHANGED <<contexts, requests, kafka, consumer, faultsLeft>>
    BY <1>3 DEF Quiet, vars
  <2> QED
    BY <2>1, ApiRests, ConsumerRests DEF IInv, Keeps
<1> QED
  BY <1>1, <1>2, <1>3, StartUpStep, ProduceStep, ConnectStep, PollStep, HandleStep, SendStep,
     StopStep, CloseStep, EndStep DEF Next, ThreadStep, Lifecycle

LEMMA IInvAlways == Spec => []IInv
<1>1. Init => IInv
  BY InitIInv
<1>2. IInv /\ [Next]_vars => IInv'
  BY IInvStep
<1> QED
  BY <1>1, <1>2, PTL DEF Spec

-----------------------------------------------------------------------------
(* Documents, offsets and counters stay in their types, and the thread is  *)
(* where the offsets say it is (consumer.py, storage.py).                  *)
THEOREM NotifyTypes == Spec => []TypeOK
<1>1. IInv => TypeOK
  BY DEF IInv, Api, Offsets, Keeps, TypeOK
<1> QED
  BY <1>1, IInvAlways, PTL

(* No record is passed over, whatever fails and whenever the process dies, *)
(* unless stop() closed the consumer in the middle of a batch.             *)
THEOREM NotifyNoneSkipped == Spec => []NoneSkipped
<1>1. IInv => NoneSkipped
  BY DEF IInv, Progress
<1> QED
  BY <1>1, IInvAlways, PTL

(* A message goes out again only when an offset was lost: to a death of    *)
(* the process, a close() that could not commit, or a partition taken away *)
(* while its batch was handled, one message more for each; and /stats      *)
(* counts every record handled once (consumer.py).                         *)
THEOREM NotifyAgainBySetback == Spec => []AgainBySetback
<1>1. IInv => AgainBySetback
  BY DEF IInv, Progress
<1> QED
  BY <1>1, IInvAlways, PTL
=============================================================================
