----------------------------- MODULE Businesses -----------------------------
(***************************************************************************)
(* The businesses service (services/businesses/src): its handlers on the   *)
(* repositories of businesses and meals.                                   *)
(*                                                                         *)
(* Every request is one SQL statement, which the server executes as one    *)
(* step.  What is hard is the way to the server: each repository has ONE   *)
(* connection of libpq, which all threads of facil.io use without a lock,  *)
(* and which is never opened again when it breaks.  Two calls that use a   *)
(* connection at the same time are a data race.  The outcomes taken for it *)
(* are a call that is refused, answers that are mixed up or swallowed, a   *)
(* thread that waits for an answer another one took, and a reply that      *)
(* nobody reads: it stays on the connection, and a later call, which may   *)
(* have the connection to itself, takes it for its own.                    *)
(***************************************************************************)
EXTENDS Router, FiniteSets, SequencesExt

CONSTANTS
  MaxRequests,  \* requests, which arrive in the order of their numbers
  MaxId,        \* ids a SERIAL column gives: bounds the model
  Lines,        \* what clients put in the first line: <<path, method>>
  Found,        \* businesses with a meal each that the service finds
  Text,         \* what can be said of a business
  NoRow,        \* no such row
  NoCall,       \* a request that has not arrived
  Threads,      \* BUSINESSES_THREADS
  Faults,       \* "failed", "broken", "unknown", "crash"
  MaxFaults     \* how many of them may happen: bounds the model

Request == 1..MaxRequests
Id == 1..MaxId
Before == 0     \* stands for the requests of an earlier life of the service

VARIABLES
  business,     \* table businesses: id -> text or NoRow
  meal,         \* table meals: id -> business_id or NoRow
  drawn,        \* the sequences of both id columns: who drew each id
  conn,         \* the connection of each repository
  call,         \* what each request asks for
  pc,           \* where each request is
  result,       \* what the server sent for the statement of a request
  sharers,      \* whose replies a request may read in place of its own
  left,         \* requests that are over and whose replies may be unread
  changed,      \* requests whose statement changed a row
  answer,       \* what each request was answered
  faultsLeft    \* faults that may still happen

tables == <<business, meal, drawn, changed>>
vars == <<tables, conn, call, pc, result, sharers, left, answer, faultsLeft>>

-----------------------------------------------------------------------------
Create == [op : {"create"}, text : Text]
Update == [op : {"update"}, business : Id, text : Text]
OnBusiness == [op : {"delete", "get", "list", "add"}, business : Id]
DeleteMeal == [op : {"deleteMeal"}, business : Id, meal : Id]
Call == Create \union Update \union OnBusiness \union DeleteMeal
Operation == {c.op : c \in Call}

Repositories == {"business", "meal"}

(* main: the handlers by the name of their operation.                      *)
Registrations ==
  << <<"health", "/health", "GET">>,
     <<"create", "/v1/business", "POST">>, <<"update", "/v1/business", "PUT">>,
     <<"delete", "/v1/business", "DELETE">>, <<"get", "/v1/business/get", "POST">>,
     <<"list", "/v1/meals/list", "POST">>,
     <<"add", "/v1/menu/meal", "POST">>, <<"deleteMeal", "/v1/menu/meal", "DELETE">> >>
Routes == FoldLeft(LAMBDA t, x : Register(t, x[1], x[2], x[3]), NoRoutes, Registrations)
HandlerOf == [l \in Lines |-> Route(Routes, l[1], l[2], FALSE)]

(* The repository a handler calls.                                         *)
Repository(c) ==
  IF c.op \in {"create", "update", "delete", "get"} THEN "business" ELSE "meal"

(* A PGresult.  The rows of a SELECT carry all columns, those of INSERT .. *)
(* RETURNING the id alone; affected is what PQcmdTuples says.              *)
Result ==
  [status : {"tuples"}, ids : SUBSET Id, wide : BOOLEAN, text : Text \union {NoRow}]
    \union [status : {"command"}, affected : {0, 1}]
    \union [status : {"error"}]
Error == [status |-> "error"]
Returned(id) == [status |-> "tuples", ids |-> {id}, wide |-> FALSE, text |-> NoRow]
Selected(ids, t) == [status |-> "tuples", ids |-> ids, wide |-> TRUE, text |-> t]
Affected(n) == [status |-> "command", affected |-> n]

Answer == [code : {0, 200, 204, 400, 404, 405, 500}, ids : SUBSET Id, text : Text \union {NoRow}]
Plain(code) == [code |-> code, ids |-> {}, text |-> NoRow]
NoAnswer == Plain(0)

ASSUME BusinessesAssumption ==
  /\ MaxRequests \in Nat /\ MaxId \in Nat /\ Found \in 0..MaxId
  /\ Text # {} /\ Threads \in Nat \ {0}
  /\ NoRow \notin Text \union Id \union Request \union {Before}
  /\ NoCall \notin Call
  /\ \A l \in Lines : l \in STRING \X STRING
  /\ Faults \subseteq {"failed", "broken", "unknown", "crash"}
  /\ MaxFaults \in Nat

InService == {r \in Request : pc[r] = "waiting"}

TypeOK ==
  /\ business \in [Id -> Text \union {NoRow}]
  /\ meal \in [Id -> Id \union {NoRow}]
  /\ drawn \in [Repositories -> Seq({Before} \union Request)]
  /\ \A k \in Repositories : Len(drawn[k]) <= MaxId
  /\ \A i \in Id : business[i] # NoRow => i \in DOMAIN drawn["business"]
  /\ \A i \in Id : meal[i] # NoRow => /\ i \in DOMAIN drawn["meal"]
                                      /\ business[meal[i]] # NoRow
  /\ conn \in [Repositories -> {"ok", "bad", "closed"}]
  /\ call \in [Request -> Call \union {NoCall}]
  /\ pc \in [Request -> {"idle", "waiting", "answered", "lost"}]
  /\ result \in [Request -> Result]
  /\ sharers \in [Request -> SUBSET Request]
  /\ left \in [Repositories -> SUBSET Request]
  /\ changed \subseteq Request
  /\ answer \in [Request -> Answer]
  /\ faultsLeft \in 0..MaxFaults

(* The service starts on the tables of its earlier lives.                  *)
Init ==
  /\ business = [i \in Id |-> IF i <= Found THEN CHOOSE t \in Text : TRUE ELSE NoRow]
  /\ meal = [i \in Id |-> IF i <= Found THEN i ELSE NoRow]
  /\ drawn = [k \in Repositories |-> [i \in 1..Found |-> Before]]
  /\ conn = [k \in Repositories |-> "ok"]
  /\ call = [r \in Request |-> NoCall]
  /\ pc = [r \in Request |-> "idle"]
  /\ result = [r \in Request |-> Error]
  /\ sharers = [r \in Request |-> {}]
  /\ left = [k \in Repositories |-> {}]
  /\ changed = {}
  /\ answer = [r \in Request |-> NoAnswer]
  /\ faultsLeft = MaxFaults

-----------------------------------------------------------------------------
(* The statements: what the server sends back, and what it does.  One that *)
(* inserts draws its id from the sequence of the column even if a          *)
(* constraint then refuses the row.                                        *)

Following(k) == Len(drawn[k]) + 1
Draw(r, k) == drawn' = [drawn EXCEPT ![k] = Append(@, r)]

ResultOf(c) ==
  LET found == business[c.business] # NoRow IN
    CASE c.op = "create" -> Returned(Following("business"))
      [] c.op \in {"update", "delete"} -> Affected(IF found THEN 1 ELSE 0)
      [] c.op = "get" -> IF found THEN Selected({c.business}, business[c.business])
                         ELSE Selected({}, NoRow)
      [] c.op = "add" -> IF found THEN Returned(Following("meal")) ELSE Error
      [] c.op = "list" -> Selected({m \in Id : meal[m] = c.business}, NoRow)
      [] c.op = "deleteMeal" -> Affected(IF meal[c.meal] = c.business THEN 1 ELSE 0)

Change(r) == changed' = changed \union {r}

InsertBusiness(r, c) ==
  /\ Following("business") \in Id
  /\ business' = [business EXCEPT ![Following("business")] = c.text]
  /\ Draw(r, "business") /\ Change(r)
  /\ UNCHANGED meal

(* A mutant: an upsert.                                                    *)
UpsertBusiness(r, c) ==
  /\ business' = [business EXCEPT ![c.business] = c.text]
  /\ Change(r)
  /\ UNCHANGED <<meal, drawn>>

UpdateBusiness(r, c) ==
  /\ business[c.business] # NoRow
  /\ business' = [business EXCEPT ![c.business] = c.text]
  /\ Change(r)
  /\ UNCHANGED <<meal, drawn>>

(* A mutant: the table of meals is declared without ON DELETE CASCADE.     *)
DeleteBusinessAlone(r, c) ==
  /\ business[c.business] # NoRow
  /\ business' = [business EXCEPT ![c.business] = NoRow]
  /\ Change(r)
  /\ UNCHANGED <<meal, drawn>>

(* The foreign key takes the meals with the business (ON DELETE CASCADE).  *)
DeleteBusiness(r, c) ==
  /\ business[c.business] # NoRow
  /\ business' = [business EXCEPT ![c.business] = NoRow]
  /\ meal' = [m \in Id |-> IF meal[m] = c.business THEN NoRow ELSE meal[m]]
  /\ Change(r)
  /\ UNCHANGED drawn

(* The foreign key refuses a meal of a business that is not there.         *)
InsertMeal(r, c) ==
  /\ Following("meal") \in Id
  /\ Draw(r, "meal")
  /\ UNCHANGED business
  /\ \/ /\ business[c.business] # NoRow
        /\ meal' = [meal EXCEPT ![Following("meal")] = c.business]
        /\ Change(r)
     \/ business[c.business] = NoRow /\ UNCHANGED <<meal, changed>>

RemoveMeal(r, c) ==
  /\ meal[c.meal] = c.business
  /\ meal' = [meal EXCEPT ![c.meal] = NoRow]
  /\ Change(r)
  /\ UNCHANGED <<business, drawn>>

Effect(r, c) ==
  \/ c.op = "create" /\ InsertBusiness(r, c)
  \/ c.op = "update" /\ UpdateBusiness(r, c)
  \/ c.op = "delete" /\ DeleteBusiness(r, c)
  \/ c.op = "add" /\ InsertMeal(r, c)
  \/ c.op = "deleteMeal" /\ RemoveMeal(r, c)
  \/ /\ c.op \in {"get", "list"} \/ ResultOf(c) = Affected(0)
     /\ UNCHANGED tables

-----------------------------------------------------------------------------
(* What a handler makes of the result it reads.                            *)

Reply(r, a) ==
  /\ pc' = [pc EXCEPT ![r] = "answered"]
  /\ answer' = [answer EXCEPT ![r] = a]
  /\ UNCHANGED conn

(* The process dies.                                                       *)
Die ==
  /\ pc' = [r \in Request |-> IF r \in InService THEN "lost" ELSE pc[r]]
  /\ conn' = [k \in Repositories |-> "closed"]
  /\ UNCHANGED answer

HasRows(res) == res.status = "tuples" /\ res.ids # {}

(* insert_business and insert_meal read the first column of the first row, *)
(* which is a null pointer if there is no row.                             *)
ReplyInserted(r, res, otherwise) ==
  \/ /\ HasRows(res)
     /\ \E i \in res.ids : Reply(r, [code |-> 200, ids |-> {i}, text |-> NoRow])
  \/ res.status = "tuples" /\ res.ids = {} /\ Die
  \/ res.status # "tuples" /\ Reply(r, Plain(otherwise))

(* A mutant: an empty result counts as done.                               *)
ReplyUncounted(r, res) ==
  Reply(r, Plain(IF res.status = "command" THEN 204 ELSE 500))

(* update_business and delete_business count the rows.                     *)
ReplyCounted(r, res) ==
  IF res.status = "command"
  THEN Reply(r, Plain(IF res.affected = 1 THEN 204 ELSE 404))
  ELSE Reply(r, Plain(500))

(* delete_meal does not count them, and takes a failure for none.          *)
ReplyMealDeleted(r, res) ==
  Reply(r, Plain(IF res.status = "command" THEN 204 ELSE 404))

(* get_business and get_meals_by_business copy all columns of the rows;    *)
(* those that are not there are null pointers.                             *)
ReplySelected(r, res, none, otherwise) ==
  \/ HasRows(res) /\ res.wide /\ Reply(r, [code |-> 200, ids |-> res.ids, text |-> res.text])
  \/ HasRows(res) /\ ~ res.wide /\ Die
  \/ res.status = "tuples" /\ res.ids = {} /\ Reply(r, Plain(none))
  \/ res.status # "tuples" /\ Reply(r, Plain(otherwise))

Handle(r, op, res) ==
  \/ op = "create" /\ ReplyInserted(r, res, 500)
  \/ op = "add" /\ ReplyInserted(r, res, 404)
  \/ op \in {"update", "delete"} /\ ReplyCounted(r, res)
  \/ op = "deleteMeal" /\ ReplyMealDeleted(r, res)
  \/ op = "get" /\ ReplySelected(r, res, 404, 404)
  \/ op = "list" /\ ReplySelected(r, res, 200, 500)

-----------------------------------------------------------------------------
(* A call of PQexecParams: from here to Finish the thread is inside it.    *)

Users(k) == {q \in InService : Repository(call[q]) = k}
Join(qs, r) == [q \in Request |-> IF q \in qs THEN sharers[q] \union {r} ELSE sharers[q]]

(* The call sends nothing and returns no result: the connection is broken, *)
(* or libpq finds the command of another thread in progress, whose reply   *)
(* it may have thrown away before it noticed.                              *)
Refuse(r, c) ==
  LET k == Repository(c) IN
    /\ conn[k] = "bad" \/ Users(k) # {}
    /\ sharers' = Join(Users(k), r)
    /\ Handle(r, c.op, Error)
    /\ UNCHANGED <<tables, result, left, faultsLeft>>

(* The server executes the statement and sends its result.                 *)
Execute(r, c) ==
  /\ conn[Repository(c)] = "ok"
  /\ Effect(r, c)
  /\ result' = [result EXCEPT ![r] = ResultOf(c)]
  /\ UNCHANGED <<conn, faultsLeft>>

(* The statement fails, or the connection breaks before it is executed, or *)
(* after ("unknown").  init_postgres_conn is not called again.             *)
Fail(r, c) ==
  /\ conn[Repository(c)] = "ok" /\ faultsLeft > 0
  /\ \E f \in Faults \ {"crash"} :
       /\ IF f = "unknown" THEN Effect(r, c) ELSE UNCHANGED tables
       /\ conn' = IF f = "failed" THEN conn
                  ELSE [conn EXCEPT ![Repository(c)] = "bad"]
  /\ result' = [result EXCEPT ![r] = Error]
  /\ faultsLeft' = faultsLeft - 1

(* The statement is sent, and the thread waits for a reply: its own, that  *)
(* of a call in progress, or one that was left on the connection.          *)
Send(r, c) ==
  LET k == Repository(c) IN
    /\ pc' = [pc EXCEPT ![r] = "waiting"]
    /\ sharers' = [Join(Users(k), r) EXCEPT ![r] = Users(k) \union left[k]]
    /\ Execute(r, c) \/ Fail(r, c)
    /\ UNCHANGED <<answer, left>>

(* The handler does nothing shared before it calls its repository.         *)
Submit(r, c) ==
  /\ call' = [call EXCEPT ![r] = c]
  /\ Refuse(r, c) \/ Send(r, c)

(* The router, the check of health, or a handler that finds no body, sends *)
(* an answer at once.                                                      *)
AnswerAtOnce(r, code) ==
  /\ pc' = [pc EXCEPT ![r] = "answered"]
  /\ answer' = [answer EXCEPT ![r] = Plain(code)]

(* The router returns without an answer; what facil.io then makes of the   *)
(* request is not modelled.                                                *)
Unanswered(r) == pc' = [pc EXCEPT ![r] = "lost"] /\ UNCHANGED answer

(* A request arrives: on_request of facil.io is the router.                *)
Arrive(r) ==
  /\ pc[r] = "idle" /\ \A q \in 1..(r - 1) : pc[q] # "idle"
  /\ \A k \in Repositories : conn[k] # "closed"
  /\ Cardinality(InService) < Threads
  /\ \E line \in Lines :
       LET handler == HandlerOf[line] IN
         \/ \E c \in Call : c.op = handler /\ Submit(r, c)
         \/ /\ \/ handler = "not found" /\ AnswerAtOnce(r, 404)
               \/ handler = "not allowed" /\ AnswerAtOnce(r, 405)
               \/ handler = "no answer" /\ Unanswered(r)
               \/ handler = "health" /\ AnswerAtOnce(r, 200)
               \/ handler \in Operation /\ AnswerAtOnce(r, 400)
            /\ UNCHANGED <<tables, conn, call, result, sharers, left, faultsLeft>>

(* The results the thread of r may find: its own; and if the connection    *)
(* was used at the same time, or replies were left on it, also another     *)
(* one, or none because another thread took it.                            *)
Visible(r) ==
  {result[q] : q \in sharers[r] \union {r}}
    \union (IF sharers[r] = {} THEN {} ELSE {Error})

(* A thread that finds another reply than its own leaves its own behind.   *)
(* Its call may be the one that finds the connection empty in the end: the *)
(* loop over PQgetResult that begins and ends each call reads what is      *)
(* there and throws it away.  From a broken connection nobody reads.       *)
Leave(r) ==
  LET k == Repository(call[r]) IN
    IF sharers[r] = {} \/ conn[k] # "ok" THEN UNCHANGED left
    ELSE \E rest \in {left[k] \union {r}, {}} : left' = [left EXCEPT ![k] = rest]

Finish(r) ==
  /\ pc[r] = "waiting"
  /\ \E res \in Visible(r) : Handle(r, call[r].op, res)
  /\ Leave(r)
  /\ UNCHANGED <<tables, call, result, sharers, faultsLeft>>

Crash ==
  /\ "crash" \in Faults /\ faultsLeft > 0
  /\ InService # {}
  /\ Die
  /\ faultsLeft' = faultsLeft - 1
  /\ UNCHANGED <<tables, call, result, sharers, left>>

(* The container is started again: init_handlers_global_state opens both   *)
(* connections anew, and the migrations find their tables.                 *)
Restart ==
  /\ \E k \in Repositories : conn[k] = "closed"
  /\ conn' = [k \in Repositories |-> "ok"]
  /\ left' = [k \in Repositories |-> {}]
  /\ UNCHANGED <<tables, call, pc, result, sharers, answer, faultsLeft>>

(* Nothing is left to serve.                                               *)
Quiet ==
  /\ \A r \in Request : pc[r] \in {"answered", "lost"}
  /\ UNCHANGED vars

Next ==
  \/ \E r \in Request : Finish(r) \/ Arrive(r)
  \/ Crash \/ Restart \/ Quiet

(* No fairness: a thread that shares its connection may wait for ever for  *)
(* what another thread has read.                                           *)
Spec == Init /\ [][Next]_vars
-----------------------------------------------------------------------------
(* What the properties speak of.                                           *)
AnswerLost == "unknown" \in Faults /\ faultsLeft < MaxFaults
DrawnBy(k, i) == IF i \in DOMAIN drawn[k] THEN drawn[k][i] ELSE NoRow
Written(b) ==
  {call[q].text : q \in {q \in changed : \/ call[q].op = "create" /\ DrawnBy("business", b) = q
                                         \/ call[q].op = "update" /\ call[q].business = b}}

OfMenu(m, b) ==
  \/ DrawnBy("meal", m) = Before /\ b = m
  \/ \E q \in changed : DrawnBy("meal", m) = q /\ call[q].business = b

(* The meal is not on the menu, unless a later request put it there.       *)
Gone(r) ==
  LET c == call[r]
  IN meal[c.meal] = c.business => \E q \in Request : q > r /\ DrawnBy("meal", c.meal) = q

ToldTheTruth(r) ==
  pc[r] = "answered" /\ call[r] # NoCall /\ sharers[r] = {} =>
    LET a == answer[r]
        c == call[r]
    IN /\ c.op = "create" /\ a.code = 200 => \E i \in Id : a.ids = {i} /\ DrawnBy("business", i) = r
       /\ c.op = "add" /\ a.code = 200 => \E i \in Id : a.ids = {i} /\ DrawnBy("meal", i) = r
       /\ c.op \in {"update", "delete"} /\ a.code = 204 => r \in changed
       /\ c.op = "delete" /\ a.code = 204 => business[c.business] = NoRow
       /\ c.op = "deleteMeal" /\ a.code = 204 => Gone(r)
       /\ c.op = "get" /\ a.code = 200 =>
            /\ a.ids = {c.business}
            /\ a.text \in Written(c.business) \/ DrawnBy("business", c.business) = Before
       /\ c.op = "list" /\ a.code = 200 => \A m \in a.ids : OfMenu(m, c.business)
       /\ a.code \in {404, 500} => r \notin changed \/ AnswerLost

KeepsKind(r) ==
  answer[r].code = 200 =>
    \A i \in answer[r].ids : DrawnBy(Repository(call[r]), i) \in changed \union {Before}

OwnMeals(r) ==
  r \in changed /\ call[r].op = "deleteMeal" => OfMenu(call[r].meal, call[r].business)

(* A request is told the truth, whatever becomes of the others, unless its *)
(* connection was in use by another thread at the same time or still held  *)
(* a reply that such threads had left there: the id of a create or an      *)
(* added meal is the one it made; a deleted business is gone and stays     *)
(* gone; a meal whose deletion is confirmed is not on that menu, unless it *)
(* was added afterwards (whether there was such a meal is not told: 204    *)
(* in either case); what is read was written; a menu holds meals of its    *)
(* business alone; and a refusal means that nothing changed, unless the    *)
(* connection broke after the statement.                                   *)
(* Of everybody, mixed up or not: an id that a client is given for a       *)
(* business is that of a business that was made, and an id given for a     *)
(* meal that of a meal, as the repositories have connections of their own; *)
(* and a meal is only removed in the name of the business that offered it  *)
(* (handlers.c, postgres.c).                                               *)
AnswerIsTrue == \A r \in Request : ToldTheTruth(r) /\ KeepsKind(r) /\ OwnMeals(r)

(* The tables keep what their keys promise, through mixed-up answers,      *)
(* failures and restarts (postgres_apply_migration and the queries).       *)
Kept == INSTANCE Catalogue
          WITH BusinessId <- Id, MealId <- Id,
               shop <- business, menu <- meal,
               used <- [business |-> DOMAIN drawn["business"],
                        meal |-> DOMAIN drawn["meal"]]
ImplementsCatalogue == Kept!CatalogueSpec
=============================================================================
