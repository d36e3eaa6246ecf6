------------------------------- MODULE Notify -------------------------------
(***************************************************************************)
(* The notification service (services/notification): a thread that reads   *)
(* the order topic and writes to the chats of the users, and an HTTP API   *)
(* for what each user chose, kept in MongoDB.                              *)
(*                                                                         *)
(* One process, one partition.  Positions are numbers of records: the      *)
(* records up to committed are never read again, those up to position have *)
(* been fetched, those up to next have been handled.  A restart begins at  *)
(* committed, and so does a consumer that lost the partition and got it    *)
(* back, in the middle of a life of the process.                           *)
(***************************************************************************)
EXTENDS Integers, Sequences, FiniteSets, FiniteSetsExt

CONSTANTS
  Request,      \* HTTP requests that change something
  User,
  Channel,      \* keys of a channel map
  Telegram,     \* the one that is written to
  Value,        \* what a channel is set to
  Chat,         \* the values with a usable chat_id (extract_telegram_chat_id)
  Unset,        \* the channel is not in the map
  Body,         \* the channel maps that requests send
  NoDoc,        \* no such document
  NoCall,
  MaxRecords,   \* bounds the topic
  MaxLives,     \* bounds the restarts of the process
  MaxFaults     \* bounds what fails

VARIABLES
  contexts,     \* the collection: user -> channel map or NoDoc
  call, pc, copy, answer,        \* requests: what for, where, read, answered
  topic,        \* the records, oldest first
  committed,    \* the group's offset in Kafka
  proc,         \* the process: down, up, stopping (stop() waits), closed
  thread,       \* the consumer thread: none, connect, poll, handle, send, dead
  position, next,
  chat,         \* where the message is to be sent
  running,      \* ConsumerState.running, shown by /health/ready
  stats,        \* the other counters of ConsumerState
  lives,        \* times the process was started
  handled,      \* how often each record was handled, in all lives
  cutShort,     \* stop() gave up waiting in the middle of a batch
  setbacks,     \* how often offsets were lost: crashes, commits that failed
  rewound,      \* records handled in this life and taken back by a rewind
  faultsLeft

requests == <<call, pc, copy, answer>>
history == <<setbacks, rewound>>
consumer == <<proc, thread, position, next, chat, running, stats, lives, handled, cutShort,
              history>>
kafka == <<topic, committed>>
vars == <<contexts, requests, kafka, consumer, faultsLeft>>
-----------------------------------------------------------------------------
Channels == [Channel -> Value \union {Unset}]
Record == [user : User, valid : BOOLEAN]
Call == [op : {"create", "replace", "patch"}, user : User, body : Body]
          \union [op : {"delete"}, user : User]
Stats == [processed : Nat, failed : Nat, sent : Nat, skipped : Nat, telegramFailed : Nat]
Zero == [processed |-> 0, failed |-> 0, sent |-> 0, skipped |-> 0, telegramFailed |-> 0]
Serving == {"begin", "readBack", "write"}
InService == {r \in Request : pc[r] \in Serving}
NoAnswer == 0
Codes == {200, 201, 204, 404, 409, 500}

ASSUME NotifyAssumption ==
  /\ Telegram \in Channel /\ Chat \subseteq Value /\ Unset \notin Value
  /\ Body \subseteq Channels /\ NoDoc \notin Channels /\ NoCall \notin Call
  /\ MaxRecords \in Nat /\ MaxLives \in Nat \ {0} /\ MaxFaults \in Nat

TypeOK ==
  /\ contexts \in [User -> Channels \union {NoDoc}]
  /\ call \in [Request -> Call \union {NoCall}]
  /\ pc \in [Request -> {"idle", "answered", "lost"} \union Serving]
  /\ copy \in [Request -> Channels \union {NoDoc}]
  /\ answer \in [Request -> Codes \union {NoAnswer}]
  /\ topic \in Seq(Record) /\ Len(topic) <= MaxRecords
  /\ committed \in 0..Len(topic)
  /\ proc \in {"down", "up", "stopping", "closed"}
  /\ thread \in {"none", "connect", "poll", "handle", "send", "dead"}
  /\ committed <= position /\ next <= position /\ position <= Len(topic)
  /\ thread \in {"handle", "send"} => next < position
  /\ thread = "poll" => next = position
  /\ chat \in Value \union {Unset}
  /\ running \in BOOLEAN
  /\ stats \in Stats
  /\ lives \in 0..MaxLives
  /\ handled \in [1..MaxRecords -> Nat]
  /\ cutShort \in BOOLEAN
  /\ setbacks \in Nat /\ rewound \in Nat
  /\ faultsLeft \in 0..MaxFaults

Init ==
  /\ contexts \in [User -> Body \union {NoDoc}]
  /\ call = [r \in Request |-> NoCall]
  /\ pc = [r \in Request |-> "idle"]
  /\ copy = [r \in Request |-> NoDoc]
  /\ answer = [r \in Request |-> NoAnswer]
  /\ topic = <<>> /\ committed = 0
  /\ proc = "down" /\ thread = "none"
  /\ position = 0 /\ next = 0
  /\ chat = Unset
  /\ running = FALSE
  /\ stats = Zero
  /\ lives = 0
  /\ handled = [k \in 1..MaxRecords |-> 0]
  /\ cutShort = FALSE
  /\ setbacks = 0 /\ rewound = 0
  /\ faultsLeft = MaxFaults

Fault == faultsLeft > 0 /\ faultsLeft' = faultsLeft - 1
NoFault == UNCHANGED faultsLeft
SetBack == setbacks' = setbacks + 1
-----------------------------------------------------------------------------
(* The order service publishes; a record may not be one of its messages.   *)
Produce(record) ==
  /\ Len(topic) < MaxRecords
  /\ topic' = Append(topic, record)
  /\ NoFault
  /\ UNCHANGED <<contexts, requests, committed, consumer>>

(* A mutant: the group's offset is not looked at.                          *)
AssignedLatest == Len(topic)

(* Where a consumer that joins the group begins: at its offset.            *)
Assigned == committed

(* lifespan, up to its yield: start().                                     *)
StartUp ==
  /\ proc = "down" /\ lives < MaxLives
  /\ proc' = "up" /\ thread' = "connect"
  /\ position' = Assigned /\ next' = Assigned
  /\ chat' = Unset /\ running' = FALSE /\ stats' = Zero
  /\ lives' = lives + 1 /\ rewound' = 0
  /\ NoFault
  /\ UNCHANGED <<contexts, requests, kafka, handled, cutShort, setbacks>>

(* The thread ends; in any case running is false then.                     *)
Die == thread' = "dead" /\ running' = FALSE

(* The constructor of KafkaConsumer; if it throws, the thread has ended.   *)
Connect ==
  /\ thread = "connect"
  /\ \/ thread' = "poll" /\ running' = TRUE /\ NoFault
     \/ Die /\ Fault
  /\ UNCHANGED <<contexts, requests, kafka, proc, position, next, chat, stats,
                 lives, handled, cutShort, history>>

(* poll() finds that the member is no longer in the group: the batch took  *)
(* longer than the client's poll interval (each message may take fifteen   *)
(* seconds), or the broker missed its heartbeats.  What was handled since  *)
(* the last commit is not committed; the consumer joins again and begins   *)
(* at the group's offset.                                                  *)
Rewind ==
  /\ position' = Assigned /\ next' = Assigned
  /\ rewound' = rewound + (next - next')
  /\ SetBack
  /\ UNCHANGED <<thread, running, committed>>

(* A mutant: the offset committed is that of the batch just fetched.       *)
PollAhead ==
  /\ thread = "poll"
  /\ \/ /\ proc = "up"
        /\ position' \in position..Len(topic)
        /\ committed' \in {committed, position'}
        /\ thread' = IF position' > position THEN "handle" ELSE "poll"
        /\ NoFault /\ UNCHANGED <<running, next, history>>
     \/ proc # "up" /\ Die /\ NoFault /\ UNCHANGED <<committed, position, next, history>>
     \/ /\ proc = "up" /\ Fault
        /\ \/ Die /\ UNCHANGED <<committed, position, next, history>>
           \/ Rewind
  /\ UNCHANGED <<contexts, requests, topic, proc, chat, stats, lives, handled, cutShort>>

(* The loop of _run_loop between two batches: it ends if stop() was        *)
(* called.  poll() first commits the position it has, every few seconds,   *)
(* and fetches some of the records that follow; it may throw, or find      *)
(* that the partition is lost.                                             *)
Poll ==
  /\ thread = "poll"
  /\ \/ /\ proc = "up"
        /\ committed' \in {committed, position}
        /\ position' \in position..Len(topic)
        /\ thread' = IF position' > position THEN "handle" ELSE "poll"
        /\ NoFault /\ UNCHANGED <<running, next, history>>
     \/ proc # "up" /\ Die /\ NoFault /\ UNCHANGED <<committed, position, next, history>>
     \/ /\ proc = "up" /\ Fault
        /\ \/ Die /\ UNCHANGED <<committed, position, next, history>>
           \/ Rewind
  /\ UNCHANGED <<contexts, requests, topic, proc, chat, stats, lives, handled, cutShort>>

(* A mutant: one round too many.                                           *)
DoneLate(counted) ==
  /\ next' = next + 1
  /\ thread' = IF next = position THEN "poll" ELSE "handle"
  /\ handled' = [handled EXCEPT ![next + 1] = @ + 1]
  /\ stats' = [c \in DOMAIN stats |-> IF c \in counted THEN stats[c] + 1 ELSE stats[c]]
  /\ chat' = Unset

(* A mutant: a record that failed is tried again.                          *)
DoneUnlessFailed(counted) ==
  /\ next' = IF "failed" \in counted THEN next ELSE next + 1
  /\ thread' = IF next' = position THEN "poll" ELSE "handle"
  /\ handled' = [handled EXCEPT ![next + 1] = @ + 1]
  /\ stats' = [c \in DOMAIN stats |-> IF c \in counted THEN stats[c] + 1 ELSE stats[c]]
  /\ chat' = Unset

(* The record is done with, in one way or another, and the next one comes. *)
Done(counted) ==
  /\ next' = next + 1
  /\ thread' = IF next + 1 = position THEN "poll" ELSE "handle"
  /\ handled' = [handled EXCEPT ![next + 1] = @ + 1]
  /\ stats' = [c \in DOMAIN stats |-> IF c \in counted THEN stats[c] + 1 ELSE stats[c]]
  /\ chat' = Unset

ChatOf(doc) == IF doc # NoDoc /\ doc[Telegram] \in Chat THEN doc[Telegram] ELSE Unset

(* _handle_message up to the call of Telegram.  A record that does not     *)
(* parse, or whose user cannot be looked up, fails; without a chat there   *)
(* is nothing to send.  After close() every look-up throws.                *)
Handle ==
  /\ thread = "handle"
  /\ LET record == topic[next + 1]
         found == ChatOf(contexts[record.user])
     IN \/ ~ record.valid /\ Done({"failed"}) /\ NoFault
        \/ record.valid /\ Done({"failed"}) /\ (IF proc = "closed" THEN NoFault ELSE Fault)
        \/ /\ record.valid /\ proc # "closed" /\ found = Unset
           /\ Done({"skipped", "processed"}) /\ NoFault
        \/ /\ record.valid /\ proc # "closed" /\ found # Unset
           /\ thread' = "send" /\ chat' = found
           /\ NoFault
           /\ UNCHANGED <<next, handled, stats>>
  /\ UNCHANGED <<contexts, requests, kafka, proc, position, running, lives, cutShort, history>>

(* send_message: it returned, it threw a TelegramNotifierError, or         *)
(* something else that is caught in _handle_message.                       *)
Send ==
  /\ thread = "send"
  /\ \/ Done({"sent", "processed"}) /\ NoFault
     \/ Done({"telegramFailed", "processed"}) /\ Fault
     \/ Done({"failed"}) /\ Fault
  /\ UNCHANGED <<contexts, requests, kafka, proc, position, running, lives, cutShort, history>>

(* The end of lifespan, after the requests in service: stop() waits for    *)
(* the thread, ten seconds at most, and closes the consumer under it,      *)
(* which commits its position, handled or not.                             *)
Stop ==
  /\ proc = "up" /\ lives < MaxLives
  /\ InService = {}
  /\ proc' = "stopping"
  /\ NoFault
  /\ UNCHANGED <<contexts, requests, kafka, thread, position, next, chat, running,
                 stats, lives, handled, cutShort, history>>

Close ==
  /\ proc = "stopping"
  /\ proc' = "closed" /\ running' = FALSE
  /\ \/ /\ committed' = position /\ cutShort' = (cutShort \/ next < position)
        /\ NoFault /\ UNCHANGED setbacks
     \/ Fault /\ SetBack /\ UNCHANGED <<committed, cutShort>>
  /\ UNCHANGED <<contexts, requests, topic, thread, position, next, chat, stats,
                 lives, handled, rewound>>

Exit ==
  /\ proc = "closed"
  /\ proc' = "down" /\ thread' = "none" /\ chat' = Unset /\ running' = FALSE
  /\ NoFault
  /\ UNCHANGED <<contexts, requests, kafka, position, next, stats, lives, handled, cutShort,
                 history>>

Crash ==
  /\ proc # "down" /\ lives < MaxLives
  /\ Fault /\ SetBack
  /\ proc' = "down" /\ thread' = "none" /\ chat' = Unset /\ running' = FALSE
  /\ pc' = [r \in Request |-> IF r \in InService THEN "lost" ELSE pc[r]]
  /\ copy' = [r \in Request |-> NoDoc]
  /\ UNCHANGED <<contexts, call, answer, kafka, position, next, stats, lives, handled, cutShort,
                 rewound>>
-----------------------------------------------------------------------------
(* The HTTP API.                                                           *)
Receive(r, c) ==
  /\ proc = "up"
  /\ pc[r] = "idle"
  /\ call' = [call EXCEPT ![r] = c]
  /\ pc' = [pc EXCEPT ![r] = "begin"]
  /\ NoFault
  /\ UNCHANGED <<contexts, copy, answer, kafka, consumer>>

Goto(r, l, doc) ==
  /\ pc' = [pc EXCEPT ![r] = l]
  /\ copy' = [copy EXCEPT ![r] = doc]
  /\ UNCHANGED <<call, answer>>

Answer(r, code) ==
  /\ pc' = [pc EXCEPT ![r] = "answered"]
  /\ answer' = [answer EXCEPT ![r] = code]
  /\ copy' = [copy EXCEPT ![r] = NoDoc]
  /\ UNCHANGED call

Known(r) == contexts[call[r].user] # NoDoc
Put(r, doc) == contexts' = [contexts EXCEPT ![call[r].user] = doc]

Merge(old, partial) == [c \in Channel |-> IF partial[c] # Unset THEN partial[c] ELSE old[c]]

(* create: insert_one, which the unique index refuses, and the read back.  *)
Create(r) ==
  /\ call[r].op = "create"
  /\ \/ /\ pc[r] = "begin"
        /\ IF Known(r) THEN Answer(r, 409) /\ UNCHANGED contexts
           ELSE Put(r, call[r].body) /\ Goto(r, "readBack", NoDoc)
     \/ /\ pc[r] = "readBack"
        /\ Answer(r, IF Known(r) THEN 201 ELSE 500)
        /\ UNCHANGED contexts

(* replace: one find_one_and_update.                                       *)
Replace(r) ==
  /\ call[r].op = "replace" /\ pc[r] = "begin"
  /\ IF Known(r) THEN Put(r, call[r].body) /\ Answer(r, 200)
     ELSE Answer(r, 404) /\ UNCHANGED contexts

(* patch_merge_channels: find_one, then the merge replaces what is there.  *)
Patch(r) ==
  /\ call[r].op = "patch"
  /\ \/ /\ pc[r] = "begin"
        /\ IF Known(r) THEN Goto(r, "write", contexts[call[r].user]) ELSE Answer(r, 404)
        /\ UNCHANGED contexts
     \/ /\ pc[r] = "write"
        /\ IF Known(r) THEN Put(r, Merge(copy[r], call[r].body)) /\ Answer(r, 200)
           ELSE Answer(r, 404) /\ UNCHANGED contexts

Delete(r) ==
  /\ call[r].op = "delete" /\ pc[r] = "begin"
  /\ IF Known(r) THEN Put(r, NoDoc) /\ Answer(r, 204)
     ELSE Answer(r, 404) /\ UNCHANGED contexts

(* What the call of MongoDB that r makes now writes, if it does.           *)
Writes(r) ==
  \/ call[r].op = "create" /\ pc[r] = "begin" /\ ~ Known(r) /\ Put(r, call[r].body)
  \/ call[r].op = "replace" /\ pc[r] = "begin" /\ Known(r) /\ Put(r, call[r].body)
  \/ call[r].op = "patch" /\ pc[r] = "write" /\ Known(r) /\ Put(r, Merge(copy[r], call[r].body))
  \/ call[r].op = "delete" /\ pc[r] = "begin" /\ Known(r) /\ Put(r, NoDoc)

(* A call of MongoDB fails, before or after it took effect there.          *)
MongoFails(r) ==
  /\ pc[r] \in Serving
  /\ Fault
  /\ Answer(r, 500)
  /\ Writes(r) \/ UNCHANGED contexts

Serve(r) ==
  /\ proc = "up" /\ pc[r] \in Serving
  /\ \/ NoFault /\ (Create(r) \/ Replace(r) \/ Patch(r) \/ Delete(r))
     \/ MongoFails(r)
  /\ UNCHANGED <<kafka, consumer>>
-----------------------------------------------------------------------------
ThreadStep == Connect \/ Poll \/ Handle \/ Send
Lifecycle == StartUp \/ Stop \/ Close \/ Exit \/ Crash

(* The thread is gone and nothing else is going on.                        *)
Quiet == proc = "up" /\ thread = "dead" /\ UNCHANGED vars

Next ==
  \/ ThreadStep \/ Lifecycle
  \/ \E record \in Record : Produce(record)
  \/ \E r \in Request : Serve(r) \/ \E c \in Call : Receive(r, c)
  \/ Quiet

Spec == Init /\ [][Next]_vars

(* The thread runs, records are fetched when there are any, the process is *)
(* started again, and a stop comes to its end (ten seconds).               *)
Fairness ==
  /\ WF_vars(ThreadStep)
  /\ WF_vars(StartUp \/ Close \/ Exit)
FairSpec == Spec /\ Fairness
-----------------------------------------------------------------------------
(* No record is passed over: what is committed was handled, unless stop()  *)
(* lost patience in the middle of a batch.                                 *)
NoneSkipped == ~ cutShort => \A k \in 1..committed : handled[k] > 0

(* A message goes out again only for a reason: each time a record is       *)
(* handled but the first is paid for by a setback of its own, be it that   *)
(* the process died, that close() could not commit or that the partition   *)
(* was lost; a record that fails, a restart or a stop that timed out is    *)
(* none.  /stats counts every record handled in this life once, those that *)
(* were taken back and came again included, and nothing else.              *)
AgainBySetback ==
  /\ \A k \in 1..MaxRecords :
       /\ handled[k] <= setbacks + 1
       /\ k > next /\ thread # "none" => handled[k] <= setbacks
  /\ stats.processed = stats.sent + stats.skipped + stats.telegramFailed
  /\ stats.processed + stats.failed <= next + rewound
  /\ lives = 1 => stats.processed + stats.failed = next + rewound

(* Every record is handled in the end, unless stop() cut a batch short or  *)
(* the thread died by an exception: the process goes on without it.        *)
EveryRecordHandled ==
  \A k \in 1..MaxRecords :
    (k <= Len(topic)) ~> (handled[k] > 0 \/ cutShort \/ [](thread = "dead"))
=============================================================================
