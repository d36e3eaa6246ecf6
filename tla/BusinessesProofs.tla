-------------------------- MODULE BusinessesProofs --------------------------
(***************************************************************************)
(* Proofs about Businesses, for any number of requests, threads, rows and  *)
(* faults, and whatever the clients send: what the service answers is      *)
(* true, and its tables keep what their keys promise.                      *)
(*                                                                         *)
(* And about the Router it is built on, for every table: the paths keep    *)
(* places of their own, and a request reaches the callback registered last *)
(* for its path and method, and no other.                                  *)
(***************************************************************************)
EXTENDS Businesses, FiniteSetTheorems, WellFoundedInduction, TLAPS

(* The inductive invariant.  Who asked for what, and whose replies may be  *)
(* read in place of whose: those of calls on the same connection.          *)
Calls ==
  \A r \in Request :
    /\ pc[r] = "idle" => call[r] = NoCall /\ answer[r] = NoAnswer
    /\ pc[r] = "waiting" => call[r] # NoCall /\ answer[r] = NoAnswer
    /\ call[r] = NoCall => /\ sharers[r] = {} /\ r \notin changed
                           /\ answer[r].ids = {} /\ result[r] = Error
    /\ \A q \in sharers[r] : call[q] # NoCall /\ Repository(call[q]) = Repository(call[r])
OfConnection(qs, k) == \A q \in qs : call[q] # NoCall /\ Repository(call[q]) = k
LeftBehind ==
  \A k \in Repositories : \A q \in left[k] : call[q] # NoCall /\ Repository(call[q]) = k

(* Requests arrive in the order of their numbers.                          *)
InOrder == \A q, r \in Request : q < r /\ pc[r] # "idle" => pc[q] # "idle"
Turn(r) == pc[r] # "idle" \/ \A q \in 1..(r - 1) : pc[q] # "idle"

(* What a row shows was written by requests that changed something, or was *)
(* there before; a business deleted is gone for good.                      *)
MadeBy(k, i) == DrawnBy(k, i) \in changed \union {Before}
Texts(b, t) == t \in Written(b) \/ DrawnBy("business", b) = Before
Rows ==
  /\ \A b \in Id, t \in Text : business[b] = t => Texts(b, t) /\ MadeBy("business", b)
  /\ \A m \in Id, b \in Id : meal[m] = b => OfMenu(m, b)
  /\ \A r \in changed : call[r].op = "delete" =>
       call[r].business \in DOMAIN drawn["business"] /\ business[call[r].business] = NoRow
  /\ \A r \in changed : call[r].op = "deleteMeal" => OfMenu(call[r].meal, call[r].business)

(* What the server sent for a statement is true of it.                     *)
Inserted(r, res) ==
  /\ res.status = "tuples" /\ ~ res.wide /\ r \in changed
  /\ \E i \in Id : res.ids = {i} /\ DrawnBy(Repository(call[r]), i) = r
Counted(r, res) == res.status = "command" /\ (res.affected = 1 <=> r \in changed)
Got(r, res) ==
  /\ res.status = "tuples" /\ res.wide /\ r \notin changed
  /\ \A i \in res.ids : i = call[r].business /\ Texts(i, res.text) /\ MadeBy("business", i)
Listed(r, res) ==
  /\ res.status = "tuples" /\ res.wide /\ r \notin changed
  /\ \A m \in res.ids : OfMenu(m, call[r].business)
Tells(r, res) ==
  \/ res = Error /\ (r \notin changed \/ AnswerLost)
  \/ call[r].op \in {"create", "add"} /\ Inserted(r, res)
  \/ call[r].op \in {"update", "delete"} /\ Counted(r, res)
  \/ call[r].op = "deleteMeal" /\ Counted(r, res) /\ Gone(r)
  \/ call[r].op = "get" /\ Got(r, res)
  \/ call[r].op = "list" /\ Listed(r, res)

IInv ==
  /\ TypeOK /\ Calls /\ LeftBehind /\ InOrder /\ Rows /\ AnswerIsTrue
  /\ \A r \in Request : call[r] # NoCall => Tells(r, result[r])

-----------------------------------------------------------------------------
(* Calls, and what their statements return.                                *)

LEMMA CallFields ==
  ASSUME NEW c \in Call
  PROVE  /\ c.op \in {"create", "update", "delete", "get", "list", "add", "deleteMeal"}
         /\ c.op # "create" => c.business \in Id
         /\ c.op \in {"create", "update"} => c.text \in Text
         /\ c.op = "deleteMeal" => c.meal \in Id
         /\ c # NoCall
BY BusinessesAssumption DEF Call, Create, Update, OnBusiness, DeleteMeal

LEMMA ResultCases ==
  ASSUME NEW c
  PROVE  /\ c.op = "create" => ResultOf(c) = Returned(Following("business"))
         /\ c.op \in {"update", "delete"} =>
              ResultOf(c) = Affected(IF business[c.business] # NoRow THEN 1 ELSE 0)
         /\ c.op = "get" =>
              ResultOf(c) = IF business[c.business] # NoRow
                            THEN Selected({c.business}, business[c.business])
                            ELSE Selected({}, NoRow)
         /\ c.op = "add" =>
              ResultOf(c) = IF business[c.business] # NoRow
                            THEN Returned(Following("meal")) ELSE Error
         /\ c.op = "list" => ResultOf(c) = Selected({m \in Id : meal[m] = c.business}, NoRow)
         /\ c.op = "deleteMeal" =>
              ResultOf(c) = Affected(IF meal[c.meal] = c.business THEN 1 ELSE 0)
BY DEF ResultOf

LEMMA Results ==
  /\ Error \in Result
  /\ \A i \in Id : Returned(i) \in Result
  /\ \A ids \in SUBSET Id, t \in Text \union {NoRow} : Selected(ids, t) \in Result
  /\ \A n \in {0, 1} : Affected(n) \in Result
BY DEF Error, Returned, Selected, Affected, Result

LEMMA Answers ==
  /\ \A code \in {0, 200, 204, 400, 404, 405, 500} :
       /\ Plain(code) \in Answer /\ Plain(code).code = code /\ Plain(code).ids = {}
  /\ \A ids \in SUBSET Id, t \in Text \union {NoRow} :
       [code |-> 200, ids |-> ids, text |-> t] \in Answer
BY DEF Plain, Answer

LEMMA Numbers ==
  /\ MaxId \in Nat /\ Id \subseteq Nat /\ Before \notin Request /\ Before # NoRow
  /\ NoRow \notin Request /\ NoRow \notin Id /\ NoRow \notin Text
BY BusinessesAssumption DEF Id, Request, Before

-----------------------------------------------------------------------------
(* What a statement can only add to: the ids drawn, the changes that were  *)
(* made, and the businesses that are gone.                                 *)
Grows ==
  /\ changed \subseteq changed'
  /\ \A k \in Repositories : \A i \in DOMAIN drawn[k] :
       i \in DOMAIN drawn'[k] /\ drawn'[k][i] = drawn[k][i]
  /\ \A b \in Id : b \in DOMAIN drawn["business"] /\ business[b] = NoRow => business'[b] = NoRow
  /\ \A q \in Request : call[q] # NoCall => call'[q] = call[q]

LEMMA GrowKeeps ==
  ASSUME IInv, Grows
  PROVE  /\ \A i : \A k \in Repositories : \A q \in Request \union {Before} :
              DrawnBy(k, i) = q => DrawnBy(k, i)' = q
         /\ \A i : \A k \in Repositories : MadeBy(k, i) => MadeBy(k, i)'
         /\ \A b, t : Texts(b, t) => Texts(b, t)'
         /\ \A m, b : OfMenu(m, b) => OfMenu(m, b)'
<1>1. \A i : \A k \in Repositories : \A q \in Request \union {Before} :
        DrawnBy(k, i) = q => DrawnBy(k, i)' = q
  BY Numbers DEF DrawnBy, Grows
<1>2. changed \subseteq Request /\ changed \subseteq changed'
      /\ \A q \in changed : call'[q] = call[q]
  BY DEF IInv, TypeOK, Calls, Grows
<1>3. \A i : \A k \in Repositories : MadeBy(k, i) => MadeBy(k, i)'
  BY <1>1, <1>2 DEF MadeBy
<1>4. "business" \in Repositories /\ "meal" \in Repositories
  BY DEF Repositories
<1>5. \A b : Written(b) \subseteq Written(b)'
  BY <1>1, <1>2, <1>4 DEF Written
<1>6. \A b, t : Texts(b, t) => Texts(b, t)'
  BY <1>1, <1>4, <1>5 DEF Texts
<1>7. \A m, b : OfMenu(m, b) => OfMenu(m, b)'
  BY <1>1, <1>2, <1>4 DEF OfMenu
<1> QED
  BY <1>1, <1>3, <1>6, <1>7

(* The meals that appear are those the request r draws an id for; a meal   *)
(* that is not on a menu may be on it again only by a later request.       *)
NewMeals(r) ==
  \A m \in Id, b \in Id : meal'[m] = b => meal[m] = b \/ DrawnBy("meal", m)' = r

LEMMA GoneStays ==
  ASSUME IInv, Grows, NEW r \in Request, pc[r] = "idle", NewMeals(r),
         NEW q \in Request, call[q] # NoCall, call[q].op = "deleteMeal", Gone(q)
  PROVE  Gone(q)'
<1>1. call'[q] = call[q] /\ pc[q] # "idle"
  BY DEF Grows, IInv, Calls
<1>2. r > q
  BY <1>1, BusinessesAssumption DEF IInv, InOrder, Request
<1>3. PICK m \in Id, b \in Id : m = call[q].meal /\ b = call[q].business
  BY CallFields DEF IInv, TypeOK
<1> SUFFICES ASSUME meal'[m] = b
             PROVE  \E p \in Request : p > q /\ DrawnBy("meal", m)' = p
  BY <1>1, <1>3 DEF Gone
<1>4. CASE meal[m] = b
  <2>1. PICK p \in Request : p > q /\ DrawnBy("meal", m) = p
    BY <1>3, <1>4 DEF Gone
  <2> QED
    BY <2>1, GrowKeeps DEF Repositories
<1>5. CASE DrawnBy("meal", m)' = r
  BY <1>2, <1>5
<1> QED
  BY <1>4, <1>5 DEF NewMeals

(* What was said of another request is still true.                         *)
LEMMA TellsStays ==
  ASSUME IInv, Grows, NEW r \in Request, NEW q \in Request, q # r, call[q] # NoCall,
         pc[r] = "idle", NewMeals(r),
         changed' \subseteq changed \union {r}, AnswerLost => AnswerLost',
         NEW res, Tells(q, res)
  PROVE  Tells(q, res)'
<1>1. call'[q] = call[q] /\ (q \in changed' <=> q \in changed)
  BY DEF Grows
<1>2. Repository(call[q]) \in Repositories
  BY DEF Repository, Repositories
<1>3. Inserted(q, res) => Inserted(q, res)'
  BY <1>1, <1>2, GrowKeeps DEF Inserted
<1>4. Counted(q, res) => Counted(q, res)'
  BY <1>1 DEF Counted
<1>5. Got(q, res) => Got(q, res)'
  BY <1>1, GrowKeeps DEF Got, Repositories
<1>6. Listed(q, res) => Listed(q, res)'
  BY <1>1, GrowKeeps DEF Listed
<1>7. call[q].op = "deleteMeal" /\ Gone(q) => Gone(q)'
  BY GoneStays
<1> QED
  BY <1>1, <1>3, <1>4, <1>5, <1>6, <1>7 DEF Tells

LEMMA TruthStays ==
  ASSUME IInv, Grows, NEW r \in Request, NEW q \in Request, q # r, call'[q] = call[q],
         pc[r] = "idle", NewMeals(r),
         changed' \subseteq changed \union {r}, AnswerLost => AnswerLost', Rows',
         pc'[q] = pc[q], answer'[q] = answer[q], pc[q] = "answered" => sharers'[q] = sharers[q]
  PROVE  ToldTheTruth(q)' /\ KeepsKind(q)' /\ OwnMeals(q)'
<1>1. q \in changed' <=> q \in changed
  BY DEF Grows
<1>2. ToldTheTruth(q) /\ KeepsKind(q)
  BY DEF IInv, AnswerIsTrue
<1>3. Repository(call[q]) \in Repositories
  BY DEF Repository, Repositories
<1>4. KeepsKind(q)'
  BY <1>2, <1>3, GrowKeeps DEF KeepsKind, MadeBy
<1>5. ToldTheTruth(q)'
  <2> SUFFICES ASSUME pc[q] = "answered", call[q] # NoCall, sharers[q] = {}
               PROVE  ToldTheTruth(q)'
    BY DEF ToldTheTruth
  <2> DEFINE a == answer[q]
             c == call[q]
  <2>1. /\ c.op = "create" /\ a.code = 200 =>
             \E i \in Id : a.ids = {i} /\ DrawnBy("business", i)' = q
        /\ c.op = "add" /\ a.code = 200 =>
             \E i \in Id : a.ids = {i} /\ DrawnBy("meal", i)' = q
    BY <1>2, GrowKeeps DEF ToldTheTruth, Repositories
  <2>2. /\ c.op \in {"update", "delete"} /\ a.code = 204 => q \in changed'
        /\ a.code \in {404, 500} => q \notin changed' \/ AnswerLost'
    BY <1>1, <1>2 DEF ToldTheTruth
  <2>3. c.op = "delete" /\ a.code = 204 => business'[c.business] = NoRow
    BY <2>2 DEF Rows
  <2>4. c.op = "get" /\ a.code = 200 => a.ids = {c.business} /\ Texts(c.business, a.text)'
    BY <1>2, GrowKeeps DEF ToldTheTruth, Texts
  <2>5. c.op = "list" /\ a.code = 200 => \A m \in a.ids : OfMenu(m, c.business)'
    BY <1>2, GrowKeeps DEF ToldTheTruth
  <2>6. c.op = "deleteMeal" /\ a.code = 204 => Gone(q)'
    BY <1>2, GoneStays DEF ToldTheTruth
  <2> QED
    BY <2>1, <2>2, <2>3, <2>4, <2>5, <2>6 DEF ToldTheTruth, Texts
<1>6. OwnMeals(q)'
  BY DEF Rows, OwnMeals
<1> QED
  BY <1>4, <1>5, <1>6

-----------------------------------------------------------------------------
(* The statements.  Each leaves the tables in their types and their rows   *)
(* accounted for, adds to what was made, and its result tells of it.       *)
TablesOK ==
  /\ business \in [Id -> Text \union {NoRow}]
  /\ meal \in [Id -> Id \union {NoRow}]
  /\ drawn \in [Repositories -> Seq({Before} \union Request)]
  /\ \A k \in Repositories : Len(drawn[k]) <= MaxId
  /\ \A i \in Id : business[i] # NoRow => i \in DOMAIN drawn["business"]
  /\ \A i \in Id : meal[i] # NoRow => /\ i \in DOMAIN drawn["meal"]
                                      /\ business[meal[i]] # NoRow
  /\ changed \subseteq Request
Executed(r, x) ==
  /\ TablesOK' /\ Grows /\ changed' \subseteq changed \union {r} /\ NewMeals(r)
  /\ Rows' /\ x \in Result /\ Tells(r, x)'

LEMMA TablesFacts ==
  ASSUME IInv
  PROVE  /\ TablesOK /\ Rows
         /\ "business" \in Repositories /\ "meal" \in Repositories
         /\ \A k \in Repositories : Len(drawn[k]) \in Nat /\ DOMAIN drawn[k] = 1..Len(drawn[k])
BY DEF IInv, TypeOK, TablesOK, Repositories

(* An id is drawn.                                                         *)
LEMMA DrawStep ==
  ASSUME IInv, NEW r \in Request, NEW k \in Repositories, Following(k) \in Id, Draw(r, k)
  PROVE  /\ drawn' \in [Repositories -> Seq({Before} \union Request)]
         /\ \A j \in Repositories : Len(drawn'[j]) <= MaxId
         /\ \A j \in Repositories : \A i \in DOMAIN drawn[j] :
              i \in DOMAIN drawn'[j] /\ drawn'[j][i] = drawn[j][i]
         /\ Following(k) \notin DOMAIN drawn[k]
         /\ DOMAIN drawn'[k] = DOMAIN drawn[k] \union {Following(k)}
         /\ \A j \in Repositories : j # k => drawn'[j] = drawn[j]
         /\ drawn'[k][Following(k)] = r
<1>1. /\ drawn \in [Repositories -> Seq({Before} \union Request)]
      /\ drawn[k] \in Seq({Before} \union Request)
      /\ Len(drawn[k]) \in Nat /\ DOMAIN drawn[k] = 1..Len(drawn[k])
      /\ \A j \in Repositories : Len(drawn[j]) <= MaxId
  BY TablesFacts DEF TablesOK
<1>2. drawn'[k] = Append(drawn[k], r) /\ \A j \in Repositories : j # k => drawn'[j] = drawn[j]
  BY <1>1 DEF Draw
<1>3. /\ drawn'[k] \in Seq({Before} \union Request)
      /\ Len(drawn'[k]) = Len(drawn[k]) + 1
      /\ DOMAIN drawn'[k] = 1..(Len(drawn[k]) + 1)
      /\ \A i \in 1..Len(drawn[k]) : drawn'[k][i] = drawn[k][i]
      /\ drawn'[k][Len(drawn[k]) + 1] = r
  BY <1>1, <1>2
<1>4. Len(drawn[k]) + 1 <= MaxId
  BY BusinessesAssumption DEF Following, Id
<1> QED
  BY <1>1, <1>2, <1>3, <1>4 DEF Draw, Following

(* Rows stay accounted for if those that are new are.                      *)
LEMMA RowsGrow ==
  ASSUME IInv, Grows, NEW r \in Request, changed' \subseteq changed \union {r},
         \A i \in Id, t \in Text : business'[i] = t =>
           business[i] = t \/ (Texts(i, t)' /\ MadeBy("business", i)'),
         \A m \in Id, b \in Id : meal'[m] = b => meal[m] = b \/ OfMenu(m, b)',
         r \in changed' /\ call'[r].op = "delete" =>
           /\ call'[r].business \in DOMAIN drawn'["business"]
           /\ business'[call'[r].business] = NoRow,
         r \in changed' /\ call'[r].op = "deleteMeal" =>
           OfMenu(call[r].meal, call[r].business)'
  PROVE  Rows'
<1>1. Rows /\ "business" \in Repositories
  BY TablesFacts
<1>2. \A i \in Id, t \in Text : business'[i] = t => Texts(i, t)' /\ MadeBy("business", i)'
  BY <1>1, GrowKeeps DEF Rows
<1>3. \A m \in Id, b \in Id : meal'[m] = b => OfMenu(m, b)'
  BY <1>1, GrowKeeps DEF Rows
<1>4. ASSUME NEW q \in changed', call'[q].op = "delete"
      PROVE  /\ call'[q].business \in DOMAIN drawn'["business"]
             /\ business'[call'[q].business] = NoRow
  <2>1. CASE q = r
    BY <1>4, <2>1
  <2>2. CASE q # r
    <3>1. q \in changed /\ q \in Request /\ call[q] # NoCall /\ call'[q] = call[q]
      BY <1>4, <2>2 DEF IInv, TypeOK, Calls, Grows
    <3>2. /\ call[q].business \in DOMAIN drawn["business"]
          /\ business[call[q].business] = NoRow
      BY <1>1, <1>4, <3>1 DEF Rows
    <3>3. call[q].business \in Id
      BY <1>4, <3>1, CallFields DEF IInv, TypeOK
    <3> QED
      BY <1>1, <3>1, <3>2, <3>3 DEF Grows
  <2> QED
    BY <2>1, <2>2
<1>5. ASSUME NEW q \in changed', call'[q].op = "deleteMeal"
      PROVE  OfMenu(call[q].meal, call[q].business)'
  <2>1. CASE q = r
    BY <1>5, <2>1
  <2>2. CASE q # r
    <3>1. q \in changed /\ q \in Request /\ call[q] # NoCall /\ call'[q] = call[q]
      BY <1>5, <2>2 DEF IInv, TypeOK, Calls, Grows
    <3>2. PICK m, b : m = call[q].meal /\ b = call[q].business
      OBVIOUS
    <3>3. OfMenu(m, b)'
      BY <1>1, <1>5, <3>1, <3>2, GrowKeeps DEF Rows
    <3> QED
      BY <3>1, <3>2, <3>3
  <2> QED
    BY <2>1, <2>2
<1>6. \A q \in changed' : call'[q].op = "deleteMeal" =>
         OfMenu(call[q].meal, call[q].business)'
  BY <1>5
<1> QED
  BY <1>2, <1>3, <1>4, <1>6 DEF Rows

LEMMA CreateExecuted ==
  ASSUME IInv, NEW r \in Request, call[r] = NoCall, NEW c \in Call, c.op = "create",
         InsertBusiness(r, c), call' = [call EXCEPT ![r] = c], NEW x, x = ResultOf(c)
  PROVE  Executed(r, x)
<1> PICK b \in Id : b = Following("business")
  BY DEF InsertBusiness
<1>1. /\ business' = [business EXCEPT ![b] = c.text] /\ meal' = meal
      /\ changed' = changed \union {r} /\ c.text \in Text /\ r \notin changed
      /\ call'[r] = c /\ \A q \in Request : q # r => call'[q] = call[q]
  BY CallFields DEF InsertBusiness, Change, IInv, Calls, TypeOK
<1>2. /\ drawn' \in [Repositories -> Seq({Before} \union Request)]
      /\ \A j \in Repositories : Len(drawn'[j]) <= MaxId
      /\ \A j \in Repositories : \A i \in DOMAIN drawn[j] :
           i \in DOMAIN drawn'[j] /\ drawn'[j][i] = drawn[j][i]
      /\ b \notin DOMAIN drawn["business"]
      /\ DOMAIN drawn'["business"] = DOMAIN drawn["business"] \union {b}
      /\ drawn'["meal"] = drawn["meal"]
      /\ drawn'["business"][b] = r
  BY TablesFacts, DrawStep DEF InsertBusiness
<1>3. /\ business'[b] = c.text /\ c.text # NoRow /\ business[b] = NoRow
      /\ \A i \in Id : i # b => business'[i] = business[i]
  BY <1>1, <1>2, TablesFacts, Numbers DEF TablesOK
<1>4. TablesOK'
  BY <1>1, <1>2, <1>3, TablesFacts, Numbers DEF TablesOK
<1>5. Grows
  BY <1>1, <1>2, <1>3, Numbers DEF Grows
<1>6. DrawnBy("business", b)' = r
  BY <1>2 DEF DrawnBy
<1>7. Rows'
  <2>1. Texts(b, c.text)' /\ MadeBy("business", b)'
    BY <1>1, <1>6 DEF Texts, Written, MadeBy
  <2> QED
    BY <1>1, <1>3, <1>5, <2>1, RowsGrow
<1>8. x = Returned(b) /\ x \in Result
  BY ResultCases, Results
<1>9. Tells(r, x)'
  <2>1. Inserted(r, x)'
    BY <1>1, <1>6, <1>8 DEF Inserted, Returned, Repository
  <2> QED
    BY <1>1, <2>1 DEF Tells
<1> QED
  BY <1>1, <1>4, <1>5, <1>7, <1>8, <1>9 DEF Executed, NewMeals

(* The statements that draw no id.                                         *)
LEMMA StandingIds ==
  ASSUME IInv, NEW r \in Request, call[r] = NoCall, NEW c \in Call,
         call' = [call EXCEPT ![r] = c], drawn' = drawn, changed \subseteq changed',
         \A b \in Id : business[b] = NoRow => business'[b] = NoRow
  PROVE  /\ Grows
         /\ call'[r] = c /\ \A q \in Request : q # r => call'[q] = call[q]
         /\ r \notin changed
BY DEF Grows, IInv, TypeOK, Calls

LEMMA UpdateExecuted ==
  ASSUME IInv, NEW r \in Request, call[r] = NoCall, NEW c \in Call, c.op = "update",
         UpdateBusiness(r, c), call' = [call EXCEPT ![r] = c], NEW x, x = ResultOf(c)
  PROVE  Executed(r, x)
<1> PICK b \in Id : b = c.business
  BY CallFields
<1>1. /\ business' = [business EXCEPT ![b] = c.text] /\ UNCHANGED <<meal, drawn>>
      /\ changed' = changed \union {r} /\ c.text \in Text /\ business[b] # NoRow
  BY CallFields DEF UpdateBusiness, Change
<1>2. /\ business'[b] = c.text /\ c.text # NoRow
      /\ \A i \in Id : i # b => business'[i] = business[i]
  BY <1>1, TablesFacts, Numbers DEF TablesOK
<1>3. TablesOK'
  BY <1>1, <1>2, TablesFacts, Numbers DEF TablesOK
<1>4. /\ Grows /\ call'[r] = c /\ r \notin changed
      /\ \A q \in Request : q # r => call'[q] = call[q]
  BY <1>1, <1>2, StandingIds
<1>5. Rows'
  <2>1. Texts(b, c.text)' /\ MadeBy("business", b)'
    <3>1. MadeBy("business", b)
      BY <1>1, TablesFacts, Numbers DEF Rows, TablesOK
    <3> QED
      BY <1>1, <1>4, <3>1, TablesFacts, GrowKeeps DEF Texts, Written
  <2> QED
    BY <1>1, <1>2, <1>4, <2>1, RowsGrow
<1>6. x = Affected(1) /\ x \in Result
  BY <1>1, ResultCases, Results
<1>7. Tells(r, x)'
  BY <1>1, <1>4, <1>6 DEF Tells, Counted, Affected
<1> QED
  BY <1>1, <1>3, <1>4, <1>5, <1>6, <1>7 DEF Executed, NewMeals

LEMMA DeleteExecuted ==
  ASSUME IInv, NEW r \in Request, call[r] = NoCall, NEW c \in Call, c.op = "delete",
         DeleteBusiness(r, c), call' = [call EXCEPT ![r] = c], NEW x, x = ResultOf(c)
  PROVE  Executed(r, x)
<1> PICK b \in Id : b = c.business
  BY CallFields
<1>1. /\ business' = [business EXCEPT ![b] = NoRow] /\ UNCHANGED drawn
      /\ meal' = [m \in Id |-> IF meal[m] = b THEN NoRow ELSE meal[m]]
      /\ changed' = changed \union {r} /\ business[b] # NoRow
  BY DEF DeleteBusiness, Change
<1>2. /\ business'[b] = NoRow
      /\ \A i \in Id : i # b => business'[i] = business[i]
  BY <1>1, TablesFacts, Numbers DEF TablesOK
<1>3. TablesOK'
  BY <1>1, <1>2, TablesFacts, Numbers DEF TablesOK
<1>4. /\ Grows /\ call'[r] = c /\ r \notin changed
      /\ \A q \in Request : q # r => call'[q] = call[q]
  BY <1>1, <1>2, StandingIds
<1>8. \A m \in Id, i \in Id : meal'[m] = i => meal[m] = i
  BY <1>1, Numbers
<1>5. Rows'
  <2>1. b \in DOMAIN drawn'["business"]
    BY <1>1, TablesFacts DEF TablesOK
  <2>2. \A i \in Id, t \in Text : business'[i] = t => business[i] = t
    BY <1>2, Numbers
  <2> QED
    BY <1>1, <1>2, <1>4, <1>8, <2>1, <2>2, RowsGrow
<1>6. x = Affected(1) /\ x \in Result
  BY <1>1, ResultCases, Results
<1>7. Tells(r, x)'
  BY <1>1, <1>4, <1>6 DEF Tells, Counted, Affected
<1> QED
  BY <1>1, <1>3, <1>4, <1>5, <1>6, <1>7, <1>8 DEF Executed, NewMeals

LEMMA RemoveMealExecuted ==
  ASSUME IInv, NEW r \in Request, call[r] = NoCall, NEW c \in Call, c.op = "deleteMeal",
         RemoveMeal(r, c), call' = [call EXCEPT ![r] = c], NEW x, x = ResultOf(c)
  PROVE  Executed(r, x)
<1>1. /\ c.meal \in Id /\ meal[c.meal] = c.business
      /\ meal' = [meal EXCEPT ![c.meal] = NoRow] /\ UNCHANGED <<business, drawn>>
      /\ changed' = changed \union {r}
  BY CallFields DEF RemoveMeal, Change
<1>2. /\ meal'[c.meal] = NoRow
      /\ \A i \in Id : i # c.meal => meal'[i] = meal[i]
  BY <1>1, TablesFacts, Numbers DEF TablesOK
<1>3. TablesOK'
  BY <1>1, <1>2, TablesFacts, Numbers DEF TablesOK
<1>4. /\ Grows /\ call'[r] = c /\ r \notin changed
      /\ \A q \in Request : q # r => call'[q] = call[q]
  BY <1>1, StandingIds
<1>5. \A m \in Id, i \in Id : meal'[m] = i => meal[m] = i
  BY <1>2, Numbers
<1>6. Rows'
  <2>1. OfMenu(c.meal, c.business)'
    BY <1>1, <1>4, CallFields, TablesFacts, GrowKeeps DEF Rows
  <2> QED
    BY <1>1, <1>4, <1>5, <2>1, RowsGrow
<1>7. x = Affected(1) /\ x \in Result
  BY <1>1, ResultCases, Results
<1>8. Gone(r)'
  BY <1>2, <1>4, CallFields, Numbers DEF Gone
<1>9. Tells(r, x)'
  BY <1>1, <1>4, <1>7, <1>8 DEF Tells, Counted, Affected
<1> QED
  BY <1>1, <1>3, <1>4, <1>5, <1>6, <1>7, <1>9 DEF Executed, NewMeals

(* A meal is added to a business that is there; otherwise its id is lost.  *)
LEMMA AddExecuted ==
  ASSUME IInv, NEW r \in Request, call[r] = NoCall, NEW c \in Call, c.op = "add",
         InsertMeal(r, c), call' = [call EXCEPT ![r] = c], NEW x, x = ResultOf(c)
  PROVE  Executed(r, x)
<1> PICK m \in Id : m = Following("meal")
  BY DEF InsertMeal
<1>1. /\ business' = business /\ c.business \in Id /\ r \notin changed
      /\ call'[r] = c /\ \A q \in Request : q # r => call'[q] = call[q]
  BY CallFields DEF InsertMeal, IInv, Calls, TypeOK
<1>2. /\ drawn' \in [Repositories -> Seq({Before} \union Request)]
      /\ \A j \in Repositories : Len(drawn'[j]) <= MaxId
      /\ \A j \in Repositories : \A i \in DOMAIN drawn[j] :
           i \in DOMAIN drawn'[j] /\ drawn'[j][i] = drawn[j][i]
      /\ m \notin DOMAIN drawn["meal"]
      /\ DOMAIN drawn'["meal"] = DOMAIN drawn["meal"] \union {m}
      /\ drawn'["business"] = drawn["business"]
      /\ drawn'["meal"][m] = r
  BY TablesFacts, DrawStep DEF InsertMeal
<1>3. DrawnBy("meal", m)' = r
  BY <1>2 DEF DrawnBy
<1>4. CASE /\ business[c.business] # NoRow
           /\ meal' = [meal EXCEPT ![m] = c.business]
           /\ changed' = changed \union {r}
  <2>1. /\ meal'[m] = c.business
        /\ \A i \in Id : i # m => meal'[i] = meal[i]
    BY <1>4, TablesFacts DEF TablesOK
  <2>2. TablesOK'
    BY <1>1, <1>2, <1>4, <2>1, TablesFacts, Numbers DEF TablesOK
  <2>3. Grows
    BY <1>1, <1>2, <1>4, Numbers DEF Grows
  <2>4. OfMenu(m, c.business)'
    BY <1>1, <1>3, <1>4 DEF OfMenu
  <2>5. Rows'
    BY <1>1, <1>4, <2>1, <2>3, <2>4, RowsGrow
  <2>6. x = Returned(m) /\ x \in Result
    BY <1>4, ResultCases, Results
  <2>7. Inserted(r, x)'
    BY <1>1, <1>3, <1>4, <2>6 DEF Inserted, Returned, Repository
  <2>8. NewMeals(r)
    BY <1>3, <2>1 DEF NewMeals
  <2> QED
    BY <1>1, <1>4, <2>2, <2>3, <2>5, <2>6, <2>7, <2>8 DEF Executed, Tells
<1>5. CASE business[c.business] = NoRow /\ UNCHANGED <<meal, changed>>
  <2>1. TablesOK'
    BY <1>1, <1>2, <1>5, TablesFacts, Numbers DEF TablesOK
  <2>2. Grows
    BY <1>1, <1>2, <1>5, Numbers DEF Grows
  <2>3. Rows'
    BY <1>1, <1>5, <2>2, RowsGrow
  <2>4. x = Error /\ x \in Result
    BY <1>5, ResultCases, Results
  <2> QED
    BY <1>1, <1>5, <2>1, <2>2, <2>3, <2>4 DEF Executed, Tells, NewMeals
<1> QED
  BY <1>4, <1>5 DEF InsertMeal, Change

(* A statement that changes nothing: it reads, or finds no row.            *)
LEMMA IdleExecuted ==
  ASSUME IInv, NEW r \in Request, call[r] = NoCall, NEW c \in Call,
         c.op \in {"get", "list"} \/ ResultOf(c) = Affected(0),
         UNCHANGED tables, call' = [call EXCEPT ![r] = c], NEW x, x = ResultOf(c)
  PROVE  Executed(r, x)
<1>1. UNCHANGED <<business, meal, drawn, changed>>
  BY DEF tables
<1>2. /\ Grows /\ call'[r] = c /\ r \notin changed
      /\ \A q \in Request : q # r => call'[q] = call[q]
  BY <1>1, StandingIds
<1>3. TablesOK' /\ Rows' /\ NewMeals(r)
  BY <1>1, <1>2, TablesFacts, RowsGrow DEF TablesOK, NewMeals
<1>4. CASE c.op = "get"
  <2> PICK b \in Id : b = c.business
    BY <1>4, CallFields
  <2>1. CASE business[b] = NoRow
    <3>1. x = Selected({}, NoRow) /\ x \in Result
      BY <1>4, <2>1, ResultCases, Results
    <3>2. Got(r, x)'
      BY <1>1, <1>2, <3>1 DEF Got, Selected
    <3> QED
      BY <1>1, <1>2, <1>3, <1>4, <3>1, <3>2 DEF Executed, Tells
  <2>2. CASE business[b] # NoRow
    <3>1. PICK t \in Text : business[b] = t
      BY <2>2, TablesFacts DEF TablesOK
    <3>2. x = Selected({b}, t) /\ x \in Result
      BY <1>4, <2>2, <3>1, ResultCases, Results
    <3>3. Texts(b, t)' /\ MadeBy("business", b)'
      BY <1>2, <3>1, TablesFacts, GrowKeeps DEF Rows
    <3>4. Got(r, x)'
      BY <1>1, <1>2, <3>2, <3>3 DEF Got, Selected
    <3> QED
      BY <1>1, <1>2, <1>3, <1>4, <3>2, <3>4 DEF Executed, Tells
  <2> QED
    BY <2>1, <2>2
<1>5. CASE c.op = "list"
  <2>1. x = Selected({m \in Id : meal[m] = c.business}, NoRow) /\ x \in Result
    BY <1>5, ResultCases, Results
  <2>2. \A m \in Id : meal[m] = c.business => OfMenu(m, c.business)'
    BY <1>2, <1>5, CallFields, TablesFacts, GrowKeeps DEF Rows
  <2>3. Listed(r, x)'
    BY <1>1, <1>2, <2>1, <2>2 DEF Listed, Selected
  <2> QED
    BY <1>1, <1>2, <1>3, <1>5, <2>1, <2>3 DEF Executed, Tells
<1>6. CASE x = Affected(0) /\ c.op \notin {"get", "list"}
  <2>1. c.op \in {"update", "delete", "deleteMeal"}
    <3>1. x.status = "command"
      BY <1>6 DEF Affected
    <3>2. c.op # "create"
      <4>1. \A i : Returned(i).status = "tuples"
        BY DEF Returned
      <4> QED
        BY <3>1, <4>1, ResultCases
    <3>3. c.op # "add"
      <4>1. Error.status = "error" /\ \A i : Returned(i).status = "tuples"
        BY DEF Returned, Error
      <4> QED
        BY <3>1, <4>1, ResultCases
    <3> QED
      BY <1>6, <3>2, <3>3, CallFields
  <2>2. Counted(r, x)' /\ x \in Result
    BY <1>1, <1>2, <1>6, Results DEF Counted, Affected
  <2>3. c.op = "deleteMeal" => Gone(r)'
    <3>1. ASSUME c.op = "deleteMeal" PROVE meal[c.meal] # c.business
      <4>1. x = Affected(IF meal[c.meal] = c.business THEN 1 ELSE 0)
        BY <3>1, ResultCases
      <4>2. Affected(1).affected = 1 /\ Affected(0).affected = 0
        BY DEF Affected
      <4> QED
        BY <1>6, <4>1, <4>2
    <3> QED
      BY <1>1, <1>2, <3>1 DEF Gone
  <2> QED
    BY <1>1, <1>2, <1>3, <2>1, <2>2, <2>3 DEF Executed, Tells
<1> QED
  BY <1>4, <1>5, <1>6

LEMMA EffectExecuted ==
  ASSUME IInv, NEW r \in Request, call[r] = NoCall, NEW c \in Call, Effect(r, c),
         call' = [call EXCEPT ![r] = c]
  PROVE  \E x : x = ResultOf(c) /\ Executed(r, x)
<1> PICK x : x = ResultOf(c)
  OBVIOUS
<1>1. Executed(r, x)
  BY CreateExecuted, UpdateExecuted, DeleteExecuted, RemoveMealExecuted, AddExecuted,
     IdleExecuted DEF Effect
<1> QED
  BY <1>1

-----------------------------------------------------------------------------
(* A call of the connection.  Whatever becomes of it, the tables are in    *)
(* order and the result that is kept tells the truth of the request.       *)
Outcome(r) ==
  /\ TablesOK' /\ Grows /\ changed' \subseteq changed \union {r} /\ Rows' /\ NewMeals(r)
  /\ AnswerLost => AnswerLost'
  /\ conn' \in [Repositories -> {"ok", "bad", "closed"}]
  /\ faultsLeft' \in 0..MaxFaults
  /\ \E x \in Result : result' = [result EXCEPT ![r] = x] /\ Tells(r, x)'

LEMMA NothingDone ==
  ASSUME IInv, NEW r \in Request, call[r] = NoCall, NEW c \in Call,
         UNCHANGED tables, call' = [call EXCEPT ![r] = c]
  PROVE  /\ TablesOK' /\ Grows /\ changed' \subseteq changed \union {r} /\ Rows' /\ NewMeals(r)
         /\ r \notin changed'
<1>1. UNCHANGED <<business, meal, drawn, changed>>
  BY DEF tables
<1>2. Grows /\ r \notin changed
  BY <1>1, StandingIds
<1> QED
  BY <1>1, <1>2, TablesFacts, RowsGrow DEF TablesOK, NewMeals

LEMMA CallOutcome ==
  ASSUME IInv, NEW r \in Request, call[r] = NoCall, NEW c \in Call,
         Execute(r, c) \/ Fail(r, c),
         call' = [call EXCEPT ![r] = c]
  PROVE  Outcome(r)
<1> USE DEF Outcome
<1>1. /\ conn \in [Repositories -> {"ok", "bad", "closed"}]
      /\ faultsLeft \in 0..MaxFaults /\ MaxFaults \in Nat
      /\ Error \in Result
  BY BusinessesAssumption, Results DEF IInv, TypeOK
<1>2. CASE Execute(r, c)
  <2>1. Effect(r, c) /\ result' = [result EXCEPT ![r] = ResultOf(c)]
        /\ UNCHANGED <<conn, faultsLeft>>
    BY <1>2 DEF Execute
  <2>2. PICK x : x = ResultOf(c) /\ Executed(r, x)
    BY <2>1, EffectExecuted
  <2> QED
    BY <1>1, <2>1, <2>2 DEF Executed, AnswerLost
<1>3. CASE Fail(r, c)
  <2>1. PICK f \in Faults \ {"crash"} :
          /\ IF f = "unknown" THEN Effect(r, c) ELSE UNCHANGED tables
          /\ conn' = IF f = "failed" THEN conn ELSE [conn EXCEPT ![Repository(c)] = "bad"]
    BY <1>3 DEF Fail
  <2>2. /\ result' = [result EXCEPT ![r] = Error]
        /\ faultsLeft' = faultsLeft - 1 /\ faultsLeft > 0
    BY <1>3 DEF Fail
  <2>3. /\ faultsLeft' \in 0..MaxFaults /\ faultsLeft' < MaxFaults
        /\ conn' \in [Repositories -> {"ok", "bad", "closed"}]
    <3>1. faultsLeft' \in 0..MaxFaults /\ faultsLeft' < MaxFaults
      BY <1>1, <2>2
    <3>2. conn' \in [Repositories -> {"ok", "bad", "closed"}]
      <4>1. PICK old : old = conn
        OBVIOUS
      <4>2. old \in [Repositories -> {"ok", "bad", "closed"}]
        BY <1>1, <4>1
      <4>3. conn' = old \/ conn' = [old EXCEPT ![Repository(c)] = "bad"]
        BY <2>1, <4>1
      <4> QED
        BY <4>2, <4>3
    <3> QED
      BY <3>1, <3>2
  <2>4. AnswerLost => AnswerLost'
    BY <2>3 DEF AnswerLost
  <2>5. CASE f = "unknown"
    <3>1. PICK x : x = ResultOf(c) /\ Executed(r, x)
      BY <2>1, <2>5, EffectExecuted
    <3>2. AnswerLost'
      BY <2>3, <2>5 DEF AnswerLost
    <3>3. Tells(r, Error)'
      BY <3>2 DEF Tells
    <3> QED
      BY <1>1, <2>2, <2>3, <2>4, <3>1, <3>3 DEF Executed
  <2>6. CASE f # "unknown"
    <3>1. /\ TablesOK' /\ Grows /\ changed' \subseteq changed \union {r} /\ Rows'
          /\ NewMeals(r) /\ r \notin changed'
      BY <2>1, <2>6, NothingDone
    <3>2. Tells(r, Error)'
      BY <3>1 DEF Tells
    <3> QED
      BY <1>1, <2>2, <2>3, <2>4, <3>1, <3>2
  <2> QED
    BY <2>5, <2>6
<1> QED
  BY <1>2, <1>3

(* Requests go on, or arrive when all before them have arrived.            *)
LEMMA OrderKept ==
  ASSUME IInv,
         \A r \in Request : /\ pc[r] # "idle" => pc'[r] # "idle"
                            /\ pc'[r] # "idle" => Turn(r)
  PROVE  InOrder'
<1> SUFFICES ASSUME NEW q \in Request, NEW r \in Request, q < r, pc'[r] # "idle"
             PROVE  pc'[q] # "idle"
  BY DEF InOrder
<1>1. q \in 1..(r - 1)
  BY BusinessesAssumption DEF Request
<1>2. pc[q] # "idle"
  BY <1>1 DEF IInv, InOrder, Turn
<1> QED
  BY <1>2

(* A request that arrives with a call: it waits, or it is refused and      *)
(* answered, and may join the sharers of the calls in progress.            *)
Goes(r, s, a) ==
  \/ s = "waiting" /\ a = NoAnswer
  \/ s = "answered" /\ a.code \in {404, 500} /\ r \notin changed'
LEMMA TakenUp ==
  ASSUME IInv, NEW r \in Request, pc[r] = "idle", InOrder',
         NEW c \in Call, call' = [call EXCEPT ![r] = c], Outcome(r),
         NEW s, pc' = [pc EXCEPT ![r] = s],
         NEW a \in Answer, answer' = [answer EXCEPT ![r] = a],
         Goes(r, s, a),
         NEW k, k = Repository(c), NEW mine \in SUBSET Request,
         sharers' = [Join(Users(k), r) EXCEPT ![r] = mine],
         OfConnection(mine, k),
         UNCHANGED left
  PROVE  IInv'
<1>1. /\ call[r] = NoCall /\ sharers[r] = {} /\ c # NoCall
      /\ NoAnswer.code = 0 /\ NoAnswer.ids = {}
  BY CallFields, Answers DEF IInv, Calls, NoAnswer
<1>2. s \in {"waiting", "answered"} /\ (s = "waiting" => a = NoAnswer)
  BY DEF Goes
<1>3. /\ call'[r] = c /\ pc'[r] = s /\ answer'[r] = a
      /\ \A q \in Request : q # r => /\ call'[q] = call[q] /\ pc'[q] = pc[q]
                                     /\ answer'[q] = answer[q]
  BY DEF IInv, TypeOK
<1>4. PICK x \in Result : result' = [result EXCEPT ![r] = x] /\ Tells(r, x)'
  BY DEF Outcome
<1>5. PICK beside : beside = Users(k)
  OBVIOUS
<1>6. /\ beside \subseteq Request /\ r \notin beside
      /\ \A q \in beside : /\ pc[q] = "waiting" /\ call[q] # NoCall
                           /\ Repository(call[q]) = k
  BY <1>5 DEF Users, InService, IInv, Calls
<1>7. /\ sharers'[r] = mine
      /\ \A q \in beside : sharers'[q] = sharers[q] \union {r}
      /\ \A q \in Request : q # r /\ q \notin beside => sharers'[q] = sharers[q]
      /\ sharers' \in [Request -> SUBSET Request]
  <2>1. Join(beside, r) =
          [q \in Request |-> IF q \in beside THEN sharers[q] \union {r} ELSE sharers[q]]
    BY DEF Join
  <2>2. sharers \in [Request -> SUBSET Request]
    BY DEF IInv, TypeOK
  <2>3. Join(beside, r) \in [Request -> SUBSET Request]
    BY <2>1, <2>2
  <2> QED
    BY <1>5, <1>6, <2>1, <2>3
<1>8. /\ result'[r] = x
      /\ \A q \in Request : q # r => result'[q] = result[q]
  BY <1>4 DEF IInv, TypeOK
<1>9. TypeOK'
  <2>1. /\ call' \in [Request -> Call \union {NoCall}]
        /\ pc' \in [Request -> {"idle", "waiting", "answered", "lost"}]
        /\ result' \in [Request -> Result]
        /\ answer' \in [Request -> Answer]
        /\ left' \in [Repositories -> SUBSET Request]
    BY <1>4, <1>2 DEF IInv, TypeOK
  <2> QED
    BY <1>7, <2>1 DEF TypeOK, TablesOK, Outcome
<1>10. Calls'
  <2> SUFFICES ASSUME NEW p \in Request
               PROVE  /\ pc'[p] = "idle" => call'[p] = NoCall /\ answer'[p] = NoAnswer
                      /\ pc'[p] = "waiting" => call'[p] # NoCall /\ answer'[p] = NoAnswer
                      /\ call'[p] = NoCall => /\ sharers'[p] = {} /\ p \notin changed'
                                              /\ answer'[p].ids = {} /\ result'[p] = Error
                      /\ \A q \in sharers'[p] : /\ call'[q] # NoCall
                                                /\ Repository(call'[q]) = Repository(call'[p])
    BY DEF Calls
  <2>1. CASE p = r
    <3>1. \A q \in mine : /\ q # r /\ call'[q] = call[q]
                           /\ call[q] # NoCall /\ Repository(call[q]) = k
      BY <1>1, <1>3 DEF OfConnection
    <3> QED
      BY <1>1, <1>3, <1>7, <1>2, <2>1, <3>1
  <2>2. CASE p # r
    <3>1. /\ pc[p] = "idle" => call[p] = NoCall /\ answer[p] = NoAnswer
          /\ pc[p] = "waiting" => call[p] # NoCall /\ answer[p] = NoAnswer
          /\ call[p] = NoCall => /\ sharers[p] = {} /\ p \notin changed
                                 /\ answer[p].ids = {} /\ result[p] = Error
          /\ \A q \in sharers[p] : call[q] # NoCall /\ Repository(call[q]) = Repository(call[p])
          /\ sharers[p] \subseteq Request
      BY DEF IInv, Calls, TypeOK
    <3>2. p \notin changed => p \notin changed'
      BY <2>2 DEF Outcome
    <3>3. r \notin sharers[p]
      BY <1>1, <3>1
    <3>4. \A q \in sharers'[p] : /\ call'[q] # NoCall
                                 /\ Repository(call'[q]) = Repository(call'[p])
      <4>1. CASE p \in beside
        BY <1>1, <1>3, <1>6, <1>7, <2>2, <3>1, <3>3, <4>1
      <4>2. CASE p \notin beside
        BY <1>3, <1>7, <2>2, <3>1, <3>3, <4>2
      <4> QED
        BY <4>1, <4>2
    <3>5. call'[p] = NoCall => sharers'[p] = {}
      BY <1>3, <1>6, <1>7, <2>2, <3>1
    <3> QED
      BY <1>3, <1>8, <2>2, <3>1, <3>2, <3>4, <3>5
  <2> QED
    BY <2>1, <2>2
<1>11. LeftBehind'
  BY <1>1, <1>3 DEF IInv, LeftBehind, TypeOK
<1>12. AnswerIsTrue'
  <2> SUFFICES ASSUME NEW p \in Request
               PROVE  ToldTheTruth(p)' /\ KeepsKind(p)' /\ OwnMeals(p)'
    BY DEF AnswerIsTrue
  <2>1. CASE p = r
    <3>1. OwnMeals(p)'
      BY DEF Outcome, Rows, OwnMeals
    <3>2. KeepsKind(p)'
      BY <1>1, <1>3, <2>1 DEF KeepsKind, Goes
    <3>3. ToldTheTruth(p)'
      BY <1>1, <1>3, <2>1 DEF ToldTheTruth, Goes
    <3> QED
      BY <3>1, <3>2, <3>3
  <2>2. CASE p # r
    <3>1. pc[p] = "answered" => sharers'[p] = sharers[p]
      BY <1>6, <1>7, <2>2
    <3> QED
      BY <1>3, <2>2, <3>1, TruthStays DEF Outcome
  <2> QED
    BY <2>1, <2>2
<1>13. ASSUME NEW p \in Request, call'[p] # NoCall
       PROVE  Tells(p, result[p])'
  <2>1. CASE p = r
    BY <1>4, <1>8, <2>1
  <2>2. CASE p # r
    <3>1. PICK y : y = result[p]
      OBVIOUS
    <3>2. Tells(p, y) /\ call[p] # NoCall
      BY <1>3, <1>13, <2>2, <3>1 DEF IInv
    <3>3. Tells(p, y)'
      BY <2>2, <3>2, TellsStays DEF Outcome
    <3> QED
      BY <1>8, <2>2, <3>1, <3>3
  <2> QED
    BY <2>1, <2>2
<1> QED
  BY <1>9, <1>10, <1>11, <1>12, <1>13 DEF IInv, Outcome

(* A handler that gets no result answers 404 or 500.                       *)
LEMMA RefusedPlain ==
  ASSUME NEW r, NEW op, Handle(r, op, Error)
  PROVE  \E code \in {404, 500} : Reply(r, Plain(code))
<1>1. Error.status = "error"
  BY DEF Error
<1> QED
  BY <1>1 DEF Handle, ReplyInserted, ReplyCounted, ReplyMealDeleted, ReplySelected, HasRows

LEMMA SubmitStep ==
  ASSUME IInv, NEW r \in Request, pc[r] = "idle", Turn(r), NEW c \in Call, Submit(r, c)
  PROVE  IInv'
<1>1. /\ call[r] = NoCall /\ sharers[r] = {} /\ result[r] = Error
      /\ answer[r] = NoAnswer /\ NoAnswer \in Answer
      /\ call' = [call EXCEPT ![r] = c]
      /\ pc \in [Request -> {"idle", "waiting", "answered", "lost"}]
      /\ sharers \in [Request -> SUBSET Request]
  BY Answers DEF IInv, Calls, TypeOK, Submit, NoAnswer
<1>2. PICK k : k = Repository(c)
  OBVIOUS
<1>3. /\ Users(k) \subseteq Request /\ r \notin Users(k)
      /\ \A q \in Users(k) : call[q] # NoCall /\ Repository(call[q]) = k
  BY DEF Users, InService, IInv, Calls
<1>4. \A s \in {"waiting", "answered"} : pc' = [pc EXCEPT ![r] = s] => InOrder'
  BY <1>1, OrderKept DEF Turn
<1>5. CASE Refuse(r, c)
  <2>1. /\ UNCHANGED <<tables, result, left, faultsLeft>>
        /\ sharers' = Join(Users(k), r)
    BY <1>2, <1>5 DEF Refuse
  <2>2. PICK code \in {404, 500} : Reply(r, Plain(code))
    BY <1>5, RefusedPlain DEF Refuse
  <2>3. /\ pc' = [pc EXCEPT ![r] = "answered"]
        /\ answer' = [answer EXCEPT ![r] = Plain(code)] /\ UNCHANGED conn
        /\ Plain(code) \in Answer /\ Plain(code).code = code
    BY <2>2, Answers DEF Reply
  <2>4. /\ TablesOK' /\ Grows /\ changed' \subseteq changed \union {r} /\ Rows' /\ NewMeals(r)
        /\ r \notin changed'
    BY <1>1, <2>1, NothingDone
  <2>5. Outcome(r)
    <3>1. result' = [result EXCEPT ![r] = Error] /\ Error \in Result
      BY <1>1, <2>1, Results DEF IInv, TypeOK
    <3>2. Tells(r, Error)'
      BY <2>4 DEF Tells
    <3> QED
      BY <2>1, <2>3, <2>4, <3>1, <3>2 DEF Outcome, AnswerLost, IInv, TypeOK
  <2>6. sharers' = [Join(Users(k), r) EXCEPT ![r] = {}]
    <3>1. /\ Join(Users(k), r) = [q \in Request |-> Join(Users(k), r)[q]]
          /\ Join(Users(k), r)[r] = {}
      BY <1>1, <1>3 DEF Join
    <3> QED
      BY <2>1, <3>1
  <2>7. InOrder'
    BY <1>4, <2>3
  <2>8. PICK a \in Answer : a = Plain(code)
    BY <2>3
  <2>9. PICK s : s = "answered"
    OBVIOUS
  <2>10. PICK mine \in SUBSET Request : mine = {}
    OBVIOUS
  <2>11. /\ answer' = [answer EXCEPT ![r] = a] /\ UNCHANGED left
         /\ pc' = [pc EXCEPT ![r] = s]
         /\ Goes(r, s, a)
    BY <2>1, <2>3, <2>4, <2>8, <2>9 DEF Goes
  <2>12. /\ sharers' = [Join(Users(k), r) EXCEPT ![r] = mine] /\ OfConnection(mine, k)
    BY <2>6, <2>10 DEF OfConnection
  <2> QED
    BY <1>1, <1>2, <2>5, <2>7, <2>11, <2>12, TakenUp
<1>6. CASE Send(r, c)
  <2>1. /\ pc' = [pc EXCEPT ![r] = "waiting"]
        /\ sharers' = [Join(Users(k), r) EXCEPT ![r] = Users(k) \union left[k]]
        /\ Execute(r, c) \/ Fail(r, c)
        /\ UNCHANGED <<answer, left>>
    BY <1>2, <1>6 DEF Send
  <2>2. Outcome(r)
    BY <1>1, <2>1, CallOutcome
  <2>3. answer' = [answer EXCEPT ![r] = NoAnswer]
    BY <1>1, <2>1 DEF IInv, TypeOK
  <2>4. /\ Users(k) \union left[k] \subseteq Request
        /\ \A q \in Users(k) \union left[k] : call[q] # NoCall /\ Repository(call[q]) = k
    <3>1. k \in Repositories
      BY <1>2 DEF Repository, Repositories
    <3> QED
      BY <1>3, <3>1 DEF IInv, LeftBehind, TypeOK
  <2>5. InOrder'
    BY <1>4, <2>1
  <2> PICK mine \in SUBSET Request : mine = Users(k) \union left[k]
    BY <2>4
  <2>6. /\ sharers' = [Join(Users(k), r) EXCEPT ![r] = mine] /\ UNCHANGED left
        /\ OfConnection(mine, k)
    BY <2>1, <2>4 DEF OfConnection
  <2>7. PICK s : s = "waiting" /\ pc' = [pc EXCEPT ![r] = s] /\ Goes(r, s, NoAnswer)
    BY <2>1 DEF Goes
  <2> QED
    BY <1>1, <1>2, <2>2, <2>3, <2>5, <2>6, <2>7, TakenUp
<1> QED
  BY <1>5, <1>6 DEF Submit

-----------------------------------------------------------------------------
(* Requests that are answered or lost.                                     *)
Truth(r, a) ==
  LET c == call[r] IN
    /\ c.op = "create" /\ a.code = 200 => \E i \in Id : a.ids = {i} /\ DrawnBy("business", i) = r
    /\ c.op = "add" /\ a.code = 200 => \E i \in Id : a.ids = {i} /\ DrawnBy("meal", i) = r
    /\ c.op \in {"update", "delete"} /\ a.code = 204 => r \in changed
    /\ c.op = "delete" /\ a.code = 204 => business[c.business] = NoRow
    /\ c.op = "deleteMeal" /\ a.code = 204 => Gone(r)
    /\ c.op = "get" /\ a.code = 200 => a.ids = {c.business} /\ Texts(c.business, a.text)
    /\ c.op = "list" /\ a.code = 200 => \A m \in a.ids : OfMenu(m, c.business)
    /\ a.code \in {404, 500} => r \notin changed \/ AnswerLost
Kind(r, a) == a.code = 200 => \A i \in a.ids : MadeBy(Repository(call[r]), i)
Honest(r, a) ==
  /\ call[r] # NoCall /\ sharers[r] = {} => Truth(r, a)
  /\ call[r] = NoCall => a.ids = {}
  /\ Kind(r, a)

(* A step that sends honest answers, loses requests and nothing more.      *)
LEMMA Settles ==
  ASSUME IInv, UNCHANGED <<tables, call, result, sharers>>,
         faultsLeft' \in 0..faultsLeft,
         conn' \in [Repositories -> {"ok", "bad", "closed"}],
         pc' \in [Request -> {"idle", "waiting", "answered", "lost"}], InOrder',
         left' \in [Repositories -> SUBSET Request], LeftBehind',
         answer' \in [Request -> Answer],
         \A r \in Request : \/ pc'[r] \in {pc[r], "lost"} /\ answer'[r] = answer[r]
                            \/ pc'[r] = "answered" /\ Honest(r, answer'[r])
  PROVE  IInv'
<1>1. UNCHANGED <<business, meal, drawn, changed>>
  BY DEF tables
<1>2. faultsLeft' \in 0..MaxFaults /\ (AnswerLost => AnswerLost')
  BY BusinessesAssumption DEF AnswerLost, IInv, TypeOK
<1>3. TypeOK'
  BY <1>1, <1>2 DEF IInv, TypeOK
<1>4. /\ \A k, i : DrawnBy(k, i)' = DrawnBy(k, i)
      /\ \A b : Written(b)' = Written(b)
      /\ \A m, b : OfMenu(m, b)' = OfMenu(m, b)
      /\ \A q \in Request : Gone(q)' <=> Gone(q)
  BY <1>1 DEF DrawnBy, Written, OfMenu, Gone
<1>5. /\ \A k, i : MadeBy(k, i)' = MadeBy(k, i)
      /\ \A b, t : Texts(b, t)' = Texts(b, t)
  BY <1>1, <1>4 DEF MadeBy, Texts
<1>6. Calls'
  BY <1>1 DEF IInv, Calls, Honest
<1>7. Rows'
  BY <1>1, <1>4, <1>5 DEF IInv, Rows
<1>8. AnswerIsTrue'
  <2> SUFFICES ASSUME NEW r \in Request
               PROVE  ToldTheTruth(r)' /\ KeepsKind(r)'
    BY <1>7 DEF AnswerIsTrue, Rows, OwnMeals
  <2>1. CASE pc'[r] \in {pc[r], "lost"} /\ answer'[r] = answer[r]
    <3>1. ToldTheTruth(r) /\ KeepsKind(r)
      BY DEF IInv, AnswerIsTrue
    <3>2. KeepsKind(r)'
      BY <1>1, <1>4, <2>1, <3>1 DEF KeepsKind
    <3>3. ToldTheTruth(r)'
      BY <1>1, <1>2, <1>4, <2>1, <3>1 DEF ToldTheTruth
    <3> QED
      BY <3>2, <3>3
  <2>2. CASE pc'[r] = "answered" /\ Honest(r, answer'[r])
    <3>1. KeepsKind(r)'
      BY <1>1, <1>4, <2>2 DEF KeepsKind, Honest, Kind, MadeBy
    <3>2. ToldTheTruth(r)'
      BY <1>1, <1>2, <1>4, <2>2 DEF ToldTheTruth, Honest, Truth, Texts
    <3> QED
      BY <3>1, <3>2
  <2> QED
    BY <2>1, <2>2
<1>9. ASSUME NEW r \in Request, call[r] # NoCall
      PROVE  Tells(r, result[r])'
  <2>1. Tells(r, result[r])
    BY <1>9 DEF IInv
  <2> QED
    BY <1>1, <1>2, <1>4, <1>5, <2>1 DEF Tells, Inserted, Counted, Got, Listed
<1> QED
  BY <1>3, <1>6, <1>7, <1>8, <1>9 DEF IInv

(* What a result says, whoever it was meant for.                           *)
LEMMA ResultFields ==
  ASSUME NEW res \in Result
  PROVE  /\ res.status \in {"tuples", "command", "error"}
         /\ res.status = "tuples" => /\ res.ids \subseteq Id
                                     /\ res.text \in Text \union {NoRow}
BY DEF Result

LEMMA KindOfResult ==
  ASSUME IInv, NEW q \in Request, call[q] # NoCall, NEW res, Tells(q, res),
         res.status = "tuples"
  PROVE  \A i \in res.ids : MadeBy(Repository(call[q]), i)
<1>1. CASE call[q].op \in {"create", "add"} /\ Inserted(q, res)
  BY <1>1 DEF Inserted, MadeBy
<1>2. CASE call[q].op = "get" /\ Got(q, res)
  BY <1>2 DEF Got, Repository
<1>3. CASE call[q].op = "list" /\ Listed(q, res)
  <2>1. \A i \in res.ids : MadeBy("meal", i)
    BY <1>3 DEF Listed, OfMenu, MadeBy
  <2> QED
    BY <1>3, <2>1 DEF Repository
<1> QED
  BY <1>1, <1>2, <1>3 DEF Tells, Error, Counted

LEMMA VisibleFacts ==
  ASSUME IInv, NEW r \in Request, pc[r] = "waiting", NEW res \in Visible(r)
  PROVE  /\ res \in Result
         /\ res.status = "tuples" => \A i \in res.ids : MadeBy(Repository(call[r]), i)
         /\ sharers[r] = {} => Tells(r, res)
<1>1. call[r] # NoCall /\ Tells(r, result[r]) /\ result \in [Request -> Result]
  BY DEF IInv, Calls, TypeOK
<1>2. CASE res = result[r]
  BY <1>1, <1>2, KindOfResult
<1>3. CASE res = Error /\ sharers[r] # {}
  BY <1>3, Results DEF Error
<1>4. ASSUME NEW q \in sharers[r], res = result[q] PROVE
         /\ res \in Result
         /\ res.status = "tuples" => \A i \in res.ids : MadeBy(Repository(call[r]), i)
  <2>1. q \in Request /\ call[q] # NoCall /\ Repository(call[q]) = Repository(call[r])
    BY DEF IInv, Calls, TypeOK
  <2>2. Tells(q, res)
    BY <1>4, <2>1 DEF IInv
  <2>3. res.status = "tuples" => \A i \in res.ids : MadeBy(Repository(call[q]), i)
    BY <2>1, <2>2, KindOfResult
  <2> QED
    BY <1>1, <1>4, <2>1, <2>3
<1>5. \/ res = result[r]
      \/ res = Error /\ sharers[r] # {}
      \/ \E q \in sharers[r] : res = result[q]
  BY DEF Visible
<1> QED
  BY <1>2, <1>3, <1>4, <1>5

(* Every reply of a handler is honest.                                     *)
LEMMA PlainHonest ==
  ASSUME IInv, NEW r \in Request, call[r] # NoCall, NEW code \in {200, 204, 404, 500},
         sharers[r] = {} =>
           /\ code = 200 => call[r].op = "list"
           /\ code = 204 /\ call[r].op \in {"update", "delete"} => r \in changed
           /\ code = 204 /\ call[r].op = "deleteMeal" => Gone(r)
           /\ code \in {404, 500} => r \notin changed \/ AnswerLost
  PROVE  Honest(r, Plain(code))
<1>1. Plain(code).code = code /\ Plain(code).ids = {}
  BY Answers
<1>2. r \in changed /\ call[r].op = "delete" => business[call[r].business] = NoRow
  BY TablesFacts DEF Rows
<1>3. Kind(r, Plain(code))
  BY <1>1 DEF Kind
<1>4. sharers[r] = {} => Truth(r, Plain(code))
  BY <1>1, <1>2 DEF Truth
<1> QED
  BY <1>3, <1>4 DEF Honest

LEMMA InsertedHonest ==
  ASSUME IInv, NEW r \in Request, pc[r] = "waiting", NEW res \in Visible(r),
         call[r].op \in {"create", "add"}, NEW code \in {404, 500},
         ReplyInserted(r, res, code)
  PROVE  Die \/ \E a \in Answer : Reply(r, a) /\ Honest(r, a)
<1>1. /\ res \in Result /\ call[r] # NoCall
      /\ res.status = "tuples" => \A i \in res.ids : MadeBy(Repository(call[r]), i)
      /\ sharers[r] = {} => Tells(r, res)
  BY VisibleFacts DEF IInv, Calls
<1>2. ASSUME HasRows(res), NEW i \in res.ids,
             Reply(r, [code |-> 200, ids |-> {i}, text |-> NoRow])
      PROVE  \E a \in Answer : Reply(r, a) /\ Honest(r, a)
  <2> DEFINE a == [code |-> 200, ids |-> {i}, text |-> NoRow]
  <2>1. a \in Answer
    BY <1>1, <1>2, ResultFields, Answers DEF HasRows
  <2>2. Kind(r, a)
    BY <1>1, <1>2 DEF Kind, HasRows
  <2>3. sharers[r] = {} => Truth(r, a)
    <3>1. sharers[r] = {} => Inserted(r, res)
      BY <1>1, <1>2 DEF Tells, HasRows, Error
    <3>2. sharers[r] = {} => i \in Id /\ DrawnBy(Repository(call[r]), i) = r
      BY <1>2, <3>1 DEF Inserted
    <3> QED
      BY <3>2 DEF Truth, Repository
  <2> QED
    BY <1>1, <1>2, <2>1, <2>2, <2>3 DEF Honest
<1>3. CASE res.status # "tuples" /\ Reply(r, Plain(code))
  <2>1. sharers[r] = {} => r \notin changed \/ AnswerLost
    BY <1>1, <1>3 DEF Tells, Inserted
  <2>2. Honest(r, Plain(code))
    BY <1>1, <2>1, PlainHonest
  <2> QED
    BY <1>3, <2>2, Answers
<1> QED
  BY <1>2, <1>3 DEF ReplyInserted

LEMMA CountedHonest ==
  ASSUME IInv, NEW r \in Request, pc[r] = "waiting", NEW res \in Visible(r),
         \/ call[r].op \in {"update", "delete"} /\ ReplyCounted(r, res)
         \/ call[r].op = "deleteMeal" /\ ReplyMealDeleted(r, res)
  PROVE  \E a \in Answer : Reply(r, a) /\ Honest(r, a)
<1>1. call[r] # NoCall /\ (sharers[r] = {} => Tells(r, res))
  BY VisibleFacts DEF IInv, Calls
<1>2. PICK code \in {204, 404, 500} :
        /\ Reply(r, Plain(code))
        /\ res.status = "command" /\ code = 404 => res.affected # 1
        /\ code = 204 /\ call[r].op \in {"update", "delete"} =>
             res.status = "command" /\ res.affected = 1
        /\ code = 204 => res.status = "command"
        /\ code = 500 => res.status # "command"
  BY DEF ReplyCounted, ReplyMealDeleted
<1>3. sharers[r] = {} =>
        \/ res.status = "error" /\ (r \notin changed \/ AnswerLost)
        \/ /\ res.status = "command" /\ (res.affected = 1 <=> r \in changed)
           /\ call[r].op = "deleteMeal" => Gone(r)
  BY <1>1 DEF Tells, Counted, Error
<1>4. Honest(r, Plain(code))
  BY <1>1, <1>2, <1>3, PlainHonest
<1> QED
  BY <1>2, <1>4, Answers

LEMMA SelectedHonest ==
  ASSUME IInv, NEW r \in Request, pc[r] = "waiting", NEW res \in Visible(r),
         NEW none \in {200, 404}, NEW code \in {404, 500},
         (call[r].op = "get" /\ none = 404) \/ call[r].op = "list",
         ReplySelected(r, res, none, code)
  PROVE  Die \/ \E a \in Answer : Reply(r, a) /\ Honest(r, a)
<1>1. /\ res \in Result /\ call[r] # NoCall
      /\ res.status = "tuples" => \A i \in res.ids : MadeBy(Repository(call[r]), i)
      /\ sharers[r] = {} => Tells(r, res)
  BY VisibleFacts DEF IInv, Calls
<1>2. sharers[r] = {} =>
        \/ res.status = "error" /\ (r \notin changed \/ AnswerLost)
        \/ call[r].op = "get" /\ Got(r, res)
        \/ call[r].op = "list" /\ Listed(r, res)
  BY <1>1 DEF Tells, Error
<1>3. CASE HasRows(res) /\ Reply(r, [code |-> 200, ids |-> res.ids, text |-> res.text])
  <2> DEFINE a == [code |-> 200, ids |-> res.ids, text |-> res.text]
  <2>1. a \in Answer
    BY <1>1, <1>3, ResultFields, Answers DEF HasRows
  <2>2. Kind(r, a)
    BY <1>1, <1>3 DEF Kind, HasRows
  <2>3. sharers[r] = {} => Truth(r, a)
    <3>1. CASE call[r].op = "get"
      <4>1. sharers[r] = {} => Got(r, res)
        BY <1>2, <1>3, <3>1 DEF HasRows
      <4>2. sharers[r] = {} =>
              res.ids = {call[r].business} /\ Texts(call[r].business, res.text)
        BY <1>3, <4>1 DEF Got, HasRows
      <4> QED
        BY <3>1, <4>2 DEF Truth
    <3>2. CASE call[r].op = "list"
      <4>1. sharers[r] = {} => Listed(r, res)
        BY <1>2, <1>3, <3>2 DEF HasRows
      <4> QED
        BY <3>2, <4>1 DEF Truth, Listed
    <3> QED
      BY <3>1, <3>2
  <2> QED
    BY <1>1, <1>3, <2>1, <2>2, <2>3 DEF Honest
<1>4. CASE res.status = "tuples" /\ Reply(r, Plain(none))
  <2>1. sharers[r] = {} => r \notin changed
    BY <1>2, <1>4 DEF Got, Listed
  <2>2. Honest(r, Plain(none))
    BY <1>1, <2>1, PlainHonest
  <2> QED
    BY <1>4, <2>2, Answers
<1>5. CASE res.status # "tuples" /\ Reply(r, Plain(code))
  <2>1. sharers[r] = {} => r \notin changed \/ AnswerLost
    BY <1>2, <1>5 DEF Got, Listed
  <2>2. Honest(r, Plain(code))
    BY <1>1, <2>1, PlainHonest
  <2> QED
    BY <1>5, <2>2, Answers
<1> QED
  BY <1>3, <1>4, <1>5 DEF ReplySelected

LEMMA HandleHonest ==
  ASSUME IInv, NEW r \in Request, pc[r] = "waiting", NEW res \in Visible(r), Handle(r, call[r].op, res)
  PROVE  Die \/ \E a \in Answer : Reply(r, a) /\ Honest(r, a)
BY InsertedHonest, CountedHonest, SelectedHonest DEF Handle

-----------------------------------------------------------------------------
(* The steps.                                                              *)
LEMMA DieStep ==
  ASSUME IInv, Die, UNCHANGED <<tables, call, result, sharers>>,
         left' \in [Repositories -> SUBSET Request], LeftBehind',
         faultsLeft' \in 0..faultsLeft
  PROVE  IInv'
<1>1. /\ pc' = [r \in Request |-> IF r \in InService THEN "lost" ELSE pc[r]]
      /\ conn' = [k \in Repositories |-> "closed"] /\ UNCHANGED answer
  BY DEF Die
<1>2. /\ pc' \in [Request -> {"idle", "waiting", "answered", "lost"}]
      /\ answer' \in [Request -> Answer]
  BY <1>1 DEF IInv, TypeOK
<1>3. \A r \in Request : pc'[r] \in {pc[r], "lost"} /\ answer'[r] = answer[r]
  BY <1>1
<1>4. InOrder'
  BY <1>1, OrderKept DEF InService, Turn
<1> QED
  BY <1>1, <1>2, <1>3, <1>4, Settles

LEMMA ReplyStep ==
  ASSUME IInv, NEW r \in Request, NEW a \in Answer, Honest(r, a),
         pc' = [pc EXCEPT ![r] = "answered"], answer' = [answer EXCEPT ![r] = a],
         Turn(r), left' \in [Repositories -> SUBSET Request], LeftBehind',
         UNCHANGED <<tables, conn, call, result, sharers, faultsLeft>>
  PROVE  IInv'
<1>1. /\ pc \in [Request -> {"idle", "waiting", "answered", "lost"}]
      /\ answer \in [Request -> Answer]
      /\ conn' \in [Repositories -> {"ok", "bad", "closed"}]
      /\ faultsLeft' \in 0..faultsLeft
  BY BusinessesAssumption DEF IInv, TypeOK
<1>2. /\ pc' \in [Request -> {"idle", "waiting", "answered", "lost"}]
      /\ answer' \in [Request -> Answer]
  BY <1>1
<1>3. \A q \in Request : \/ pc'[q] \in {pc[q], "lost"} /\ answer'[q] = answer[q]
                         \/ pc'[q] = "answered" /\ Honest(q, answer'[q])
  BY <1>1
<1>4. InOrder'
  BY <1>1, OrderKept DEF Turn
<1> QED
  BY <1>1, <1>2, <1>3, <1>4, Settles

LEMMA LeaveKept ==
  ASSUME IInv, NEW r \in Request, pc[r] = "waiting", UNCHANGED call, Leave(r)
  PROVE  left' \in [Repositories -> SUBSET Request] /\ LeftBehind'
<1>1. /\ left \in [Repositories -> SUBSET Request] /\ LeftBehind
      /\ call[r] # NoCall
  BY DEF IInv, TypeOK, Calls
<1>2. PICK k : k = Repository(call[r])
  OBVIOUS
<1>3. \/ left' = left
      \/ \E rest \in {left[k] \union {r}, {}} : left' = [left EXCEPT ![k] = rest]
  BY <1>2 DEF Leave
<1>4. k \in Repositories
  BY <1>2 DEF Repository, Repositories
<1>5. CASE left' = left
  BY <1>1, <1>5 DEF LeftBehind
<1>6. ASSUME NEW rest \in {left[k] \union {r}, {}}, left' = [left EXCEPT ![k] = rest]
      PROVE  left' \in [Repositories -> SUBSET Request] /\ LeftBehind'
  <2>1. rest \subseteq Request /\ \A q \in rest : call[q] # NoCall /\ Repository(call[q]) = k
    BY <1>1, <1>2, <1>4, <1>6 DEF LeftBehind
  <2>2. left'[k] = rest /\ \A j \in Repositories : j # k => left'[j] = left[j]
    BY <1>1, <1>4, <1>6
  <2> QED
    BY <1>1, <1>4, <1>6, <2>1, <2>2 DEF LeftBehind
<1> QED
  BY <1>3, <1>5, <1>6

LEMMA FinishStep ==
  ASSUME IInv, NEW r \in Request, Finish(r)
  PROVE  IInv'
<1>1. PICK res \in Visible(r) : Handle(r, call[r].op, res)
  BY DEF Finish
<1>2. pc[r] = "waiting" /\ UNCHANGED <<tables, call, result, sharers, faultsLeft>>
  BY DEF Finish
<1>3. left' \in [Repositories -> SUBSET Request] /\ LeftBehind'
  BY <1>2, LeaveKept DEF Finish
<1>4. CASE Die
  <2>1. faultsLeft' \in 0..faultsLeft
    BY <1>2, BusinessesAssumption DEF IInv, TypeOK
  <2> QED
    BY <1>2, <1>3, <1>4, <2>1, DieStep
<1>5. ASSUME NEW a \in Answer, Reply(r, a), Honest(r, a) PROVE IInv'
  BY <1>2, <1>3, <1>5, ReplyStep DEF Reply, Turn
<1> QED
  BY <1>1, <1>2, <1>4, <1>5, HandleHonest

LEMMA ArriveStep ==
  ASSUME IInv, NEW r \in Request, Arrive(r)
  PROVE  IInv'
<1>1. /\ pc[r] = "idle" /\ call[r] = NoCall
      /\ Turn(r)
      /\ left' = left /\ UNCHANGED call =>
           left' \in [Repositories -> SUBSET Request] /\ LeftBehind'
  BY DEF Arrive, IInv, Calls, TypeOK, LeftBehind, Turn
<1>2. ASSUME NEW c \in Call, Submit(r, c) PROVE IInv'
  BY <1>1, <1>2, SubmitStep
<1>3. ASSUME NEW code \in {200, 400, 404, 405}, AnswerAtOnce(r, code),
             UNCHANGED <<tables, conn, call, result, sharers, left, faultsLeft>>
      PROVE  IInv'
  <2>1. Plain(code) \in Answer /\ Honest(r, Plain(code))
    BY <1>1, Answers DEF Honest, Kind
  <2>2. left' \in [Repositories -> SUBSET Request] /\ LeftBehind'
    BY <1>1, <1>3
  <2> PICK a \in Answer : a = Plain(code)
    BY <2>1
  <2>3. /\ pc' = [pc EXCEPT ![r] = "answered"] /\ answer' = [answer EXCEPT ![r] = a]
        /\ Honest(r, a) /\ UNCHANGED <<tables, conn, call, result, sharers, faultsLeft>>
    BY <1>3, <2>1 DEF AnswerAtOnce
  <2> QED
    BY <1>1, <2>2, <2>3, ReplyStep
<1>4. ASSUME Unanswered(r), UNCHANGED <<tables, conn, call, result, sharers, left, faultsLeft>>
      PROVE  IInv'
  <2>1. pc' = [pc EXCEPT ![r] = "lost"] /\ UNCHANGED answer
    BY <1>4 DEF Unanswered
  <2>2. /\ conn' \in [Repositories -> {"ok", "bad", "closed"}]
        /\ faultsLeft' \in 0..faultsLeft
        /\ pc' \in [Request -> {"idle", "waiting", "answered", "lost"}]
        /\ answer' \in [Request -> Answer]
        /\ \A q \in Request : pc'[q] \in {pc[q], "lost"} /\ answer'[q] = answer[q]
    BY <1>4, <2>1, BusinessesAssumption DEF IInv, TypeOK
  <2>3. InOrder'
    <3>1. pc \in [Request -> {"idle", "waiting", "answered", "lost"}]
      BY DEF IInv, TypeOK
    <3> QED
      BY <1>1, <2>1, <3>1, OrderKept DEF Turn
  <2> QED
    BY <1>1, <1>4, <2>2, <2>3, Settles
<1>5. PICK line \in Lines :
        LET handler == HandlerOf[line] IN
          \/ \E c \in Call : c.op = handler /\ Submit(r, c)
          \/ /\ \/ handler = "not found" /\ AnswerAtOnce(r, 404)
                \/ handler = "not allowed" /\ AnswerAtOnce(r, 405)
                \/ handler = "no answer" /\ Unanswered(r)
                \/ handler = "health" /\ AnswerAtOnce(r, 200)
                \/ handler \in Operation /\ AnswerAtOnce(r, 400)
             /\ UNCHANGED <<tables, conn, call, result, sharers, left, faultsLeft>>
  BY DEF Arrive
<1>6. \/ \E c \in Call : Submit(r, c)
      \/ /\ \/ AnswerAtOnce(r, 404) \/ AnswerAtOnce(r, 405) \/ AnswerAtOnce(r, 200)
            \/ AnswerAtOnce(r, 400) \/ Unanswered(r)
         /\ UNCHANGED <<tables, conn, call, result, sharers, left, faultsLeft>>
  BY <1>5, Zenon
<1> QED
  BY <1>2, <1>3, <1>4, <1>6

LEMMA RestartStep ==
  ASSUME IInv, Restart \/ Quiet \/ UNCHANGED vars
  PROVE  IInv'
<1>1. UNCHANGED <<tables, call, pc, result, sharers, answer, faultsLeft>>
  BY DEF Restart, Quiet, vars
<1>2. conn' = [k \in Repositories |-> "ok"] \/ conn' = conn
  BY DEF Restart, Quiet, vars
<1>3. /\ conn' \in [Repositories -> {"ok", "bad", "closed"}]
      /\ faultsLeft' \in 0..faultsLeft
      /\ pc' \in [Request -> {"idle", "waiting", "answered", "lost"}]
      /\ answer' \in [Request -> Answer]
      /\ \A q \in Request : pc'[q] \in {pc[q], "lost"} /\ answer'[q] = answer[q]
  BY <1>1, <1>2, BusinessesAssumption DEF IInv, TypeOK
<1>4. left' \in [Repositories -> SUBSET Request] /\ LeftBehind'
  BY <1>1 DEF Restart, Quiet, vars, IInv, TypeOK, LeftBehind
<1>5. InOrder'
  BY <1>1, OrderKept DEF Turn
<1> QED
  BY <1>1, <1>3, <1>4, <1>5, Settles

LEMMA IInvStep == IInv /\ [Next]_vars => IInv'
<1> SUFFICES ASSUME IInv, [Next]_vars PROVE IInv'
  OBVIOUS
<1>1. ASSUME NEW r \in Request, Finish(r) \/ Arrive(r) PROVE IInv'
  BY <1>1, FinishStep, ArriveStep
<1>2. CASE Crash
  <2>1. /\ Die /\ UNCHANGED <<tables, call, result, sharers>>
        /\ faultsLeft' \in 0..faultsLeft
    BY <1>2, BusinessesAssumption DEF Crash, IInv, TypeOK
  <2>2. left' \in [Repositories -> SUBSET Request] /\ LeftBehind'
    BY <1>2 DEF Crash, IInv, TypeOK, LeftBehind
  <2> QED
    BY <2>1, <2>2, DieStep
<1>3. CASE Restart \/ Quiet \/ UNCHANGED vars
  BY <1>3, RestartStep
<1> QED
  BY <1>1, <1>2, <1>3 DEF Next

LEMMA InitIInv == Init => IInv
<1> SUFFICES ASSUME Init PROVE IInv
  OBVIOUS
<1> PICK t \in Text : t = CHOOSE u \in Text : TRUE
  BY BusinessesAssumption
<1>1. /\ business = [i \in Id |-> IF i <= Found THEN t ELSE NoRow]
      /\ meal = [i \in Id |-> IF i <= Found THEN i ELSE NoRow]
      /\ drawn = [k \in Repositories |-> [i \in 1..Found |-> Before]]
      /\ changed = {}
  BY DEF Init
<1>2. /\ Found \in Nat /\ Found <= MaxId /\ MaxFaults \in Nat /\ MaxId \in Nat
      /\ NoRow \notin Id /\ NoRow \notin Text
  BY BusinessesAssumption
<1>3. /\ "business" \in Repositories /\ "meal" \in Repositories
      /\ \A k \in Repositories : drawn[k] = [i \in 1..Found |-> Before]
  BY <1>1 DEF Repositories
<1>4. /\ [i \in 1..Found |-> Before] \in Seq({Before} \union Request)
      /\ Len([i \in 1..Found |-> Before]) = Found
  BY <1>2
<1>5. /\ Error \in Result /\ NoAnswer \in Answer /\ NoAnswer.code = 0 /\ NoAnswer.ids = {}
  BY Results, Answers DEF NoAnswer
<1>6. TypeOK
  <2>1. /\ drawn \in [Repositories -> Seq({Before} \union Request)]
        /\ \A k \in Repositories : Len(drawn[k]) <= MaxId
    BY <1>1, <1>2, <1>3, <1>4
  <2>2. /\ business \in [Id -> Text \union {NoRow}]
        /\ meal \in [Id -> Id \union {NoRow}]
        /\ \A i \in Id : business[i] # NoRow => i \in DOMAIN drawn["business"]
        /\ \A i \in Id : meal[i] # NoRow => /\ i \in DOMAIN drawn["meal"]
                                            /\ business[meal[i]] # NoRow
    BY <1>1, <1>2, <1>3 DEF Id
  <2> QED
    BY <1>2, <1>5, <2>1, <2>2 DEF Init, TypeOK
<1>7. Calls /\ LeftBehind /\ InOrder
  BY <1>5 DEF Init, Calls, LeftBehind, InOrder
<1>8. Rows
  <2>1. /\ \A i \in Id : i <= Found => DrawnBy("business", i) = Before /\ DrawnBy("meal", i) = Before
    BY <1>2, <1>3 DEF DrawnBy, Id
  <2>2. \A b \in Id, u \in Text : business[b] = u => b <= Found
    BY <1>1, <1>2
  <2>3. \A m \in Id, b \in Id : meal[m] = b => m <= Found /\ b = m
    BY <1>1, <1>2
  <2> QED
    BY <1>1, <2>1, <2>2, <2>3 DEF Rows, Texts, MadeBy, OfMenu
<1>9. AnswerIsTrue
  BY <1>5 DEF Init, AnswerIsTrue, ToldTheTruth, KeepsKind, OwnMeals
<1>10. \A r \in Request : call[r] = NoCall
  BY DEF Init
<1> QED
  BY <1>6, <1>7, <1>8, <1>9, <1>10 DEF IInv

-----------------------------------------------------------------------------
LEMMA IInvAlways == Spec => []IInv
<1>1. Init => IInv
  BY InitIInv
<1>2. IInv /\ [Next]_vars => IInv'
  BY IInvStep
<1> QED
  BY <1>1, <1>2, PTL DEF Spec

(* The tables, the connections and the requests stay in their types; the   *)
(* rows of a menu belong to businesses that are there (postgres.c).        *)
THEOREM BusinessesTypes == Spec => []TypeOK
<1>1. IInv => TypeOK
  BY DEF IInv
<1> QED
  BY <1>1, IInvAlways, PTL

(* What a request is answered is true of the tables unless another thread  *)
(* used its connection at the same time or had left a reply on it; ids     *)
(* that are given keep their kind and meals are removed in the name of     *)
(* their own business even then (handlers.c, postgres.c).                  *)
THEOREM BusinessesAnswers == Spec => []AnswerIsTrue
<1>1. IInv => AnswerIsTrue
  BY DEF IInv
<1> QED
  BY <1>1, IInvAlways, PTL

-----------------------------------------------------------------------------
(* The refinement of the catalogue.                                        *)
Given == [business |-> DOMAIN drawn["business"], meal |-> DOMAIN drawn["meal"]]

LEMMA EffectKept ==
  ASSUME IInv, NEW r \in Request, NEW c \in Call, Effect(r, c)
  PROVE  Kept!CatalogueNext \/ UNCHANGED <<business, meal, Given>>
<1> USE DEF Given
<1>1. TablesOK
  BY TablesFacts
<1>2. CASE c.op = "create" /\ InsertBusiness(r, c)
  <2>1. PICK b \in Id : b = Following("business")
    BY <1>2 DEF InsertBusiness
  <2>2. /\ business' = [business EXCEPT ![b] = c.text] /\ meal' = meal
        /\ c.text \in Text
    BY <1>2, <2>1, CallFields DEF InsertBusiness
  <2>3. /\ b \notin DOMAIN drawn["business"]
        /\ DOMAIN drawn'["business"] = DOMAIN drawn["business"] \union {b}
        /\ drawn'["meal"] = drawn["meal"]
    BY <1>2, <2>1, TablesFacts, DrawStep DEF InsertBusiness
  <2>4. Kept!Open(b, c.text)
    BY <2>2, <2>3 DEF Kept!Open
  <2> QED
    BY <2>2, <2>4 DEF Kept!CatalogueNext
<1>3. CASE c.op = "update" /\ UpdateBusiness(r, c)
  <2>1. c.business \in Id /\ c.text \in Text
    BY <1>3, CallFields
  <2>2. Kept!Change(c.business, c.text)
    BY <1>3 DEF Kept!Change, UpdateBusiness
  <2> QED
    BY <2>1, <2>2 DEF Kept!CatalogueNext
<1>4. CASE c.op = "delete" /\ DeleteBusiness(r, c)
  <2>1. c.business \in Id
    BY <1>4, CallFields
  <2>2. Kept!Close(c.business)
    BY <1>4 DEF Kept!Close, DeleteBusiness
  <2> QED
    BY <2>1, <2>2 DEF Kept!CatalogueNext
<1>5. CASE c.op = "add" /\ InsertMeal(r, c)
  <2>1. PICK m \in Id : m = Following("meal")
    BY <1>5 DEF InsertMeal
  <2>2. c.business \in Id
    BY <1>5, CallFields
  <2>3. /\ m \notin DOMAIN drawn["meal"]
        /\ DOMAIN drawn'["meal"] = DOMAIN drawn["meal"] \union {m}
        /\ drawn'["business"] = drawn["business"]
    BY <1>5, <2>1, TablesFacts, DrawStep DEF InsertMeal
  <2>4. CASE business[c.business] = NoRow /\ UNCHANGED <<meal, changed>>
    <3>1. Kept!Waste(m)
      BY <1>5, <2>3, <2>4 DEF Kept!Waste, InsertMeal
    <3> QED
      BY <3>1 DEF Kept!CatalogueNext
  <2>5. CASE business[c.business] # NoRow /\ meal' = [meal EXCEPT ![m] = c.business]
    <3>1. business' = business
      BY <1>5 DEF InsertMeal
    <3>2. Given' = [Given EXCEPT !.meal = @ \union {m}]
      BY <2>3
    <3>3. Kept!Offer(m, c.business)
      BY <2>3, <2>5, <3>1, <3>2 DEF Kept!Offer
    <3> QED
      BY <2>2, <3>3 DEF Kept!CatalogueNext
  <2> QED
    BY <1>5, <2>1, <2>4, <2>5 DEF InsertMeal
<1>6. CASE c.op = "deleteMeal" /\ RemoveMeal(r, c)
  <2>1. c.meal \in Id /\ c.business \in Id /\ c.business # NoRow
    BY <1>6, CallFields, Numbers
  <2>2. Kept!Withdraw(c.meal)
    BY <1>6, <2>1 DEF Kept!Withdraw, RemoveMeal
  <2> QED
    BY <2>1, <2>2 DEF Kept!CatalogueNext
<1>7. CASE UNCHANGED tables
  BY <1>7 DEF tables
<1> QED
  BY <1>2, <1>3, <1>4, <1>5, <1>6, <1>7 DEF Effect

LEMMA StepKept ==
  IInv /\ [Next]_vars => [Kept!CatalogueNext]_<<business, meal, Given>>
<1> SUFFICES ASSUME IInv, [Next]_vars
             PROVE  Kept!CatalogueNext \/ UNCHANGED <<business, meal, Given>>
  OBVIOUS
<1>1. UNCHANGED tables => UNCHANGED <<business, meal, Given>>
  BY DEF tables, Given
<1>2. ASSUME NEW r \in Request, Arrive(r)
      PROVE  \/ UNCHANGED tables
             \/ \E c \in Call : Effect(r, c)
  <2>1. \/ \E c \in Call : Submit(r, c)
        \/ UNCHANGED <<tables, conn, call, result, sharers, left, faultsLeft>>
    BY <1>2, Zenon DEF Arrive
  <2>2. ASSUME NEW c \in Call, Submit(r, c) PROVE UNCHANGED tables \/ Effect(r, c)
    BY <2>2 DEF Submit, Refuse, Send, Execute, Fail
  <2> QED
    BY <2>1, <2>2
<1>3. ASSUME NEW r \in Request, Finish(r) PROVE UNCHANGED tables
  BY <1>3 DEF Finish
<1>4. Crash \/ Restart \/ Quiet \/ UNCHANGED vars => UNCHANGED tables
  BY DEF Crash, Restart, Quiet, vars
<1> QED
  BY <1>1, <1>2, <1>3, <1>4, EffectKept DEF Next

LEMMA InitKept == Init => Kept!CatalogueInit
<1> SUFFICES ASSUME Init PROVE Kept!CatalogueInit
  OBVIOUS
<1>1. IInv /\ TablesOK
  BY InitIInv, TablesFacts
<1>2. \A k \in Repositories : DOMAIN drawn[k] \subseteq Id
  BY <1>1, TablesFacts, Numbers DEF TablesOK, Id
<1> QED
  BY <1>1, <1>2, TablesFacts DEF Kept!CatalogueInit, TablesOK

(* The tables keep what their keys promise: a meal belongs to a business   *)
(* that is there and goes with it, and no id is given twice (postgres.c).  *)
THEOREM BusinessesImplementCatalogue == Spec => ImplementsCatalogue
<1>1. Init => Kept!CatalogueInit
  BY InitKept
<1>2. IInv /\ [Next]_vars => [Kept!CatalogueNext]_<<business, meal, Given>>
  BY StepKept
<1>3. IInv /\ [Next]_vars => [Kept!CatalogueNext]_Kept!catalogueVars
  BY <1>2 DEF Kept!catalogueVars, Given
<1> QED
  BY <1>1, <1>3, IInvAlways, PTL DEF Spec, ImplementsCatalogue, Kept!CatalogueSpec

-----------------------------------------------------------------------------
(* The router.                                                             *)

(* The states the router can be in, its paths being any values.            *)
Table(t) ==
  /\ t = [place |-> t.place, buffer |-> t.buffer, middleware |-> t.middleware]
  /\ t.place = [p \in Known(t) |-> t.place[p]]
  /\ \E Callback : t.buffer \in Seq([Methods -> Callback])
  /\ \A p \in Known(t) : t.place[p] \in 1..Len(t.buffer)
  /\ \A p, q \in Known(t) : t.place[p] = t.place[q] => p = q

-----------------------------------------------------------------------------
(* The router before the first registration.                               *)
LEMMA NoRoutesSound == Table(NoRoutes)
<1>1. NoRoutes.buffer \in Seq([Methods -> {}])
  BY DEF NoRoutes
<1> QED
  BY <1>1 DEF Table, NoRoutes, Known

(* fio_router_new_or_existent_callback_index: the path has a place then,   *)
(* and what was there is still there.                                      *)
LEMMA WithPathSound ==
  ASSUME NEW t, NEW path, Table(t)
  PROVE  LET u == WithPath(t, path) IN
         /\ Table(u)
         /\ Known(u) = Known(t) \union {path}
         /\ \A p \in Known(t) : u.place[p] = t.place[p]
         /\ \A p \in Known(t) : u.buffer[u.place[p]] = t.buffer[t.place[p]]
         /\ path \notin Known(t) => u.buffer[u.place[path]] = [m \in Methods |-> NoHandler]
         /\ u.middleware = t.middleware
<1> DEFINE u == WithPath(t, path)
           row == [m \in Methods |-> NoHandler]
           end == Len(t.buffer) + 1
<1>1. CASE path \in Known(t)
  <2>1. u = t
    BY <1>1 DEF WithPath
  <2> QED
    BY <1>1, <2>1
<1>2. CASE path \notin Known(t)
  <2>1. /\ u.place = [p \in Known(t) \union {path} |-> IF p = path THEN end ELSE t.place[p]]
        /\ u.buffer = Append(t.buffer, row)
        /\ u.middleware = t.middleware
        /\ u = [place |-> u.place, buffer |-> u.buffer, middleware |-> u.middleware]
    BY <1>2 DEF WithPath, Table
  <2>2. PICK Callback : t.buffer \in Seq([Methods -> Callback])
    BY DEF Table
  <2>3. u.buffer \in Seq([Methods -> Callback \union {NoHandler}])
    <3>1. [Methods -> Callback] \subseteq [Methods -> Callback \union {NoHandler}]
      OBVIOUS
    <3>2. t.buffer \in Seq([Methods -> Callback \union {NoHandler}])
      BY <2>2, <3>1
    <3>3. row \in [Methods -> Callback \union {NoHandler}]
      OBVIOUS
    <3> QED
      BY <2>1, <3>2, <3>3
  <2>4. /\ Len(t.buffer) \in Nat
        /\ Len(u.buffer) = end
        /\ u.buffer[end] = row
        /\ \A k \in 1..Len(t.buffer) : u.buffer[k] = t.buffer[k]
    BY <2>1, <2>2
  <2>5. /\ Known(u) = Known(t) \union {path}
        /\ u.place[path] = end
        /\ \A p \in Known(t) : u.place[p] = t.place[p]
    BY <1>2, <2>1 DEF Known
  <2>6. \A p \in Known(t) : t.place[p] \in 1..Len(t.buffer)
    BY DEF Table
  <2>7. \A p \in Known(u) : u.place[p] \in 1..Len(u.buffer)
    BY <2>4, <2>5, <2>6
  <2>8. \A p, q \in Known(u) : u.place[p] = u.place[q] => p = q
    <3>1. \A p \in Known(t) : u.place[p] # u.place[path]
      BY <2>4, <2>5, <2>6
    <3>2. \A p, q \in Known(t) : u.place[p] = u.place[q] => p = q
      BY <2>5 DEF Table
    <3> QED
      BY <2>5, <3>1, <3>2
  <2>9. u.place = [p \in Known(u) |-> u.place[p]]
    BY <2>1, <2>5
  <2>10. Table(u)
    BY <2>1, <2>3, <2>7, <2>8, <2>9 DEF Table
  <2> QED
    BY <1>2, <2>1, <2>4, <2>5, <2>6, <2>10
<1> QED
  BY <1>1, <1>2

(* fio_router_register_callback: one cell of the table changes.            *)
LEMMA RegisterCell ==
  ASSUME NEW t, NEW path, NEW callback, NEW method \in Methods, Table(t)
  PROVE  LET u == WithPath(t, path)
             v == Register(t, callback, path, method) IN
         /\ Table(v)
         /\ Known(v) = Known(u) /\ v.place = u.place /\ v.middleware = u.middleware
         /\ \A p \in Known(u) : \A m \in Methods :
              v.buffer[v.place[p]][m] =
                IF p = path /\ m = method THEN callback ELSE u.buffer[u.place[p]][m]
<1> DEFINE u == WithPath(t, path)
           v == Register(t, callback, path, method)
           k == u.place[path]
<1>1. Table(u) /\ path \in Known(u)
  BY WithPathSound
<1> HIDE DEF u
<1>2. PICK Callback : u.buffer \in Seq([Methods -> Callback])
  BY <1>1 DEF Table
<1>3. /\ v = [place |-> u.place, buffer |-> v.buffer, middleware |-> u.middleware]
      /\ v.buffer = [u.buffer EXCEPT ![k] = [u.buffer[k] EXCEPT ![method] = callback]]
  <2>1. v = [u EXCEPT !.buffer = [u.buffer EXCEPT ![k] = [u.buffer[k] EXCEPT ![method] = callback]]]
    BY Zenon DEF Register, u
  <2>2. u = [place |-> u.place, buffer |-> u.buffer, middleware |-> u.middleware]
    BY <1>1 DEF Table
  <2> HIDE DEF v, k
  <2> QED
    BY <2>1, <2>2
<1> HIDE DEF v
<1>4. v.place = u.place /\ v.middleware = u.middleware /\ Known(v) = Known(u)
  BY <1>3 DEF Known
<1>5. k \in 1..Len(u.buffer)
  BY <1>1 DEF Table
<1> DEFINE All == Callback \union {callback}
<1>6. u.buffer[k] \in [Methods -> Callback]
  BY <1>2, <1>5
<1>7. [u.buffer[k] EXCEPT ![method] = callback] \in [Methods -> All]
  BY <1>6
<1>8. u.buffer \in Seq([Methods -> All])
  <2>1. [Methods -> Callback] \subseteq [Methods -> All]
    OBVIOUS
  <2> QED
    BY <1>2, <2>1
<1>9. /\ v.buffer \in Seq([Methods -> All])
      /\ Len(v.buffer) = Len(u.buffer)
  BY <1>3, <1>5, <1>7, <1>8
<1>10. Table(v)
  BY <1>1, <1>3, <1>4, <1>9 DEF Table
<1>11. ASSUME NEW p \in Known(u), NEW m \in Methods
       PROVE  v.buffer[v.place[p]][m] =
                IF p = path /\ m = method THEN callback ELSE u.buffer[u.place[p]][m]
  <2>1. u.place[p] \in 1..Len(u.buffer) /\ (u.place[p] = k => p = path)
    BY <1>1, <1>11 DEF Table
  <2>2. CASE p = path
    BY <1>2, <1>3, <1>4, <1>5, <1>6, <2>2
  <2>3. CASE p # path
    BY <1>2, <1>3, <1>4, <2>1, <2>3
  <2> QED
    BY <2>2, <2>3
<1> QED
  BY <1>4, <1>10, <1>11 DEF u, v

(* fio_router_on_request_route, case by case.                              *)
LEMMA RouteCases ==
  ASSUME NEW t, NEW p, NEW m, NEW aborts \in BOOLEAN, t.middleware \in BOOLEAN
  PROVE  LET callback == t.buffer[t.place[p]][m]
             given == Route(t, p, m, aborts) IN
         /\ p \notin Known(t) => given = "not found"
         /\ p \in Known(t) /\ m \notin Methods => given = "no answer"
         /\ p \in Known(t) /\ m \in Methods /\ callback = NoHandler => given = "not allowed"
         /\ p \in Known(t) /\ m \in Methods /\ callback # NoHandler =>
              given = IF t.middleware /\ aborts THEN "aborted" ELSE callback
  BY DEF Route

-----------------------------------------------------------------------------
(* Whatever has been registered, one registration more leaves no two paths *)
(* on one place and none beyond the part of the buffer that is in use      *)
(* (fio_router_register_callback).                                         *)
THEOREM RegisterSound ==
  ASSUME NEW t, NEW path, NEW callback, NEW method \in Methods, Table(t)
  PROVE  /\ Table(Register(t, callback, path, method))
         /\ RoutesSound(Register(t, callback, path, method))
<1> DEFINE v == Register(t, callback, path, method)
<1>1. Table(v)
  BY RegisterCell
<1> HIDE DEF v
<1>2. PICK Callback : v.buffer \in Seq([Methods -> Callback])
  BY <1>1 DEF Table
<1>3. \A k \in 1..Len(v.buffer) : DOMAIN v.buffer[k] = Methods
  BY <1>2
<1> QED
  BY <1>1, <1>3 DEF RoutesSound, Table, v

(* After a registration its path and method lead to the callback, unless   *)
(* the middleware keeps the request; every other path and method leads     *)
(* where it led before, and those of a path that is new to "not allowed"   *)
(* (fio_router_register_callback, fio_router_on_request_route).            *)
THEOREM RegisterRoutes ==
  ASSUME NEW t, NEW path, NEW callback, NEW method \in Methods, Table(t),
         t.middleware \in BOOLEAN, callback # NoHandler,
         NEW p, NEW m, NEW aborts \in BOOLEAN
  PROVE  Route(Register(t, callback, path, method), p, m, aborts) =
           IF p = path /\ m = method
           THEN IF t.middleware /\ aborts THEN "aborted" ELSE callback
           ELSE IF p = path /\ path \notin Known(t) /\ m \in Methods THEN "not allowed"
           ELSE IF p = path /\ path \notin Known(t) THEN "no answer"
           ELSE Route(t, p, m, aborts)
<1> DEFINE u == WithPath(t, path)
           v == Register(t, callback, path, method)
<1>1. /\ Known(u) = Known(t) \union {path}
      /\ \A q \in Known(t) : u.buffer[u.place[q]] = t.buffer[t.place[q]]
      /\ path \notin Known(t) => u.buffer[u.place[path]] = [n \in Methods |-> NoHandler]
      /\ u.middleware = t.middleware
  BY WithPathSound
<1>2. /\ Known(v) = Known(u) /\ v.middleware = u.middleware
      /\ \A q \in Known(u) : \A n \in Methods :
           v.buffer[v.place[q]][n] =
             IF q = path /\ n = method THEN callback ELSE u.buffer[u.place[q]][n]
  BY RegisterCell
<1> HIDE DEF u, v
<1>3. v.middleware \in BOOLEAN
  BY <1>1, <1>2
<1>4. CASE p \notin Known(v)
  <2>1. p # path /\ p \notin Known(t)
    BY <1>1, <1>2, <1>4
  <2>2. Route(v, p, m, aborts) = "not found"
    BY <1>4 DEF Route
  <2>3. Route(t, p, m, aborts) = "not found"
    BY <2>1 DEF Route
  <2> QED
    BY <2>1, <2>2, <2>3 DEF v
<1>5. CASE p \in Known(v) /\ m \notin Methods
  <2>1. m # method /\ (p \in Known(t) \/ p = path)
    BY <1>1, <1>2, <1>5
  <2>2. Route(v, p, m, aborts) = "no answer"
    BY <1>3, <1>5, RouteCases
  <2>3. p \in Known(t) => Route(t, p, m, aborts) = "no answer"
    BY <1>5, RouteCases
  <2> QED
    BY <1>5, <2>1, <2>2, <2>3 DEF v
<1>6. CASE p \in Known(v) /\ m \in Methods /\ p = path /\ m = method
  <2>1. v.buffer[v.place[p]][m] = callback
    BY <1>2, <1>6
  <2>2. Route(v, p, m, aborts) = IF v.middleware /\ aborts THEN "aborted" ELSE callback
    BY <1>3, <1>6, <2>1, RouteCases
  <2> QED
    BY <1>1, <1>2, <1>6, <2>2 DEF v
<1>7. CASE p \in Known(v) /\ m \in Methods /\ ~ (p = path /\ m = method)
  <2>1. v.buffer[v.place[p]][m] = u.buffer[u.place[p]][m]
    BY <1>2, <1>7
  <2>2. CASE p \in Known(t)
    <3>1. v.buffer[v.place[p]][m] = t.buffer[t.place[p]][m]
      BY <1>1, <2>1, <2>2
    <3>2. Route(v, p, m, aborts) = Route(t, p, m, aborts)
      <4>1. CASE t.buffer[t.place[p]][m] = NoHandler
        <5>1. Route(v, p, m, aborts) = "not allowed"
          BY <1>3, <1>7, <3>1, <4>1, RouteCases
        <5>2. Route(t, p, m, aborts) = "not allowed"
          BY <1>7, <2>2, <4>1, RouteCases
        <5> QED
          BY <5>1, <5>2
      <4>2. CASE t.buffer[t.place[p]][m] # NoHandler
        <5> DEFINE kept(w) == IF w /\ aborts THEN "aborted" ELSE t.buffer[t.place[p]][m]
        <5>1. Route(v, p, m, aborts) = kept(v.middleware)
          BY <1>3, <1>7, <3>1, <4>2, RouteCases
        <5>2. Route(t, p, m, aborts) = kept(t.middleware)
          BY <1>7, <2>2, <4>2, RouteCases
        <5> QED
          BY <1>1, <1>2, <5>1, <5>2
      <4> QED
        BY <4>1, <4>2
    <3> QED
      BY <1>7, <2>2, <3>2 DEF v
  <2>3. CASE p \notin Known(t)
    <3>1. p = path /\ v.buffer[v.place[p]][m] = NoHandler
      BY <1>1, <1>2, <1>7, <2>1, <2>3
    <3>2. Route(v, p, m, aborts) = "not allowed"
      BY <1>3, <1>7, <3>1, RouteCases
    <3> QED
      BY <1>7, <2>3, <3>1, <3>2 DEF v
  <2> QED
    BY <2>2, <2>3
<1> QED
  BY <1>4, <1>5, <1>6, <1>7

-----------------------------------------------------------------------------
(* Any number of registrations.  FoldLeft of the community modules is a    *)
(* fold over the subsets of the places of a sequence, which it takes from  *)
(* the largest to the smallest; it is shown to make the registrations one  *)
(* after the other.  The inductions look at the smallest number for which  *)
(* a law would fail.                                                       *)
LEMMA SmallestNumber ==
  ASSUME NEW T \in SUBSET Nat, T # {}
  PROVE  \E n \in T : \A m \in T : n <= m
<1> DEFINE R == StrictSubsetOrdering(Nat)
           W == FiniteSubsetsOf(Nat)
           U == {0..n : n \in T}
<1>1. IsWellFoundedOn(R, W)
  BY FS_StrictSubsetOrderingWellFounded
<1>2. U \subseteq W /\ U # {}
  <2>1. \A n \in T : IsFiniteSet(0..n) /\ 0..n \in SUBSET Nat
    BY FS_Interval
  <2> QED
    BY <2>1 DEF FiniteSubsetsOf
<1>3. \A s, t \in U : t \subseteq s /\ t # s => <<t, s>> \in R
  BY DEF StrictSubsetOrdering
<1> HIDE DEF R, W
<1>4. PICK u \in U : \A v \in U : ~ (<<v, u>> \in R)
  <2> HIDE DEF U
  <2> QED
    BY <1>1, <1>2, WFMin
<1>5. PICK n \in T : u = 0..n
  BY <1>4
<1>6. ASSUME NEW m \in T, m < n PROVE FALSE
  <2>1. 0..m \in U /\ 0..m \subseteq u /\ 0..m # u
    BY <1>5, <1>6
  <2> QED
    BY <1>3, <1>4, <2>1
<1> QED
  BY <1>6

LEMMA Induct ==
  ASSUME NEW T \in SUBSET Nat, 0 \in T, \A n \in T : n + 1 \in T
  PROVE  \A n \in Nat : n \in T
<1> DEFINE U == Nat \ T
<1> SUFFICES ASSUME U # {} PROVE FALSE
  OBVIOUS
<1>1. PICK n \in U : \A m \in U : n <= m
  BY SmallestNumber
<1>2. n # 0
  BY <1>1
<1>3. n - 1 \in Nat /\ n - 1 \notin U
  BY <1>1, <1>2
<1>4. (n - 1) + 1 \in T /\ (n - 1) + 1 = n
  BY <1>3
<1> QED
  BY <1>1, <1>4

(* The largest of some places.                                             *)
LEMMA LastPlace ==
  ASSUME NEW n \in Nat, NEW S \in SUBSET (1..n), S # {}
  PROVE  Max(S) \in S /\ \A i \in S : i <= Max(S)
<1> DEFINE T == {n - i : i \in S}
<1>1. T \in SUBSET Nat /\ T # {}
  <2>1. \A i \in S : n - i \in Nat
    OBVIOUS
  <2> QED
    BY <2>1
<1>2. PICK k \in T : \A m \in T : k <= m
  <2> HIDE DEF T
  <2> QED
    BY <1>1, SmallestNumber
<1>3. PICK i \in S : k = n - i
  BY <1>2
<1>4. \A j \in S : i >= j
  BY <1>2, <1>3
<1>5. Max(S) \in S /\ \A j \in S : Max(S) >= j
  BY <1>3, <1>4 DEF Max
<1> QED
  BY <1>5

(* What FoldLeft tabulates: k[s] is the table after the registrations at   *)
(* the places in s.                                                        *)
RegisterAll(regs) ==
  FoldLeft(LAMBDA t, x : Register(t, x[1], x[2], x[3]), NoRoutes, regs)
After(t, x) == Register(t, x[1], x[2], x[3])
Makes(k, regs, n) ==
  k = [s \in SUBSET (1..n) |->
         IF s = {} THEN NoRoutes ELSE After(k[s \ {Max(s)}], regs[Max(s)])]

LEMMA MakesOne ==
  ASSUME NEW k, NEW regs, NEW n, Makes(k, regs, n), NEW s \in SUBSET (1..n)
  PROVE  k[s] = IF s = {} THEN NoRoutes ELSE After(k[s \ {Max(s)}], regs[Max(s)])
BY DEF Makes

LEMMA MakesSome ==
  ASSUME NEW regs, NEW n \in Nat
  PROVE  \E k : Makes(k, regs, n)
<1> DEFINE T == {j \in Nat : \E k : Makes(k, regs, j)}
<1>1. 0 \in T
  <2> DEFINE k == [s \in SUBSET (1..0) |-> NoRoutes]
  <2>1. 1..0 = {}
    OBVIOUS
  <2>2. k = [s \in SUBSET (1..0) |->
               IF s = {} THEN NoRoutes ELSE After(k[s \ {Max(s)}], regs[Max(s)])]
    BY <2>1
  <2> HIDE DEF k
  <2> QED
    BY <2>2 DEF Makes
<1>2. ASSUME NEW j \in T PROVE j + 1 \in T
  <2>1. PICK l : Makes(l, regs, j)
    BY <1>2
  <2> DEFINE e == j + 1
             k == [s \in SUBSET (1..e) |->
                     IF e \in s THEN After(l[s \ {e}], regs[e]) ELSE l[s]]
  <2>2. ASSUME NEW s \in SUBSET (1..e)
        PROVE  k[s] = IF s = {} THEN NoRoutes ELSE After(k[s \ {Max(s)}], regs[Max(s)])
    <3>1. CASE s = {}
      <4>1. s \in SUBSET (1..j) /\ e \notin s
        BY <3>1
      <4> HIDE DEF e
      <4> QED
        BY <2>1, <3>1, <4>1, MakesOne
    <3>2. CASE s # {} /\ e \in s
      <4>1. Max(s) = e
        <5>1. e \in Nat
          OBVIOUS
        <5>2. Max(s) \in s /\ \A i \in s : i <= Max(s)
          BY <3>2, <5>1, LastPlace
        <5>3. Max(s) \in 1..e
          BY <5>2
        <5> QED
          BY <3>2, <5>1, <5>2, <5>3
      <4>2. s \ {e} \in SUBSET (1..e) /\ e \notin s \ {e}
        OBVIOUS
      <4> HIDE DEF e
      <4> QED
        BY <3>2, <4>1, <4>2
    <3>3. CASE s # {} /\ e \notin s
      <4>1. s \in SUBSET (1..j)
        BY <3>3
      <4>2. Max(s) \in s
        BY <3>3, <4>1, LastPlace
      <4>3. s \ {Max(s)} \in SUBSET (1..e) /\ e \notin s \ {Max(s)}
        BY <3>3
      <4> HIDE DEF e
      <4> QED
        BY <2>1, <3>3, <4>1, <4>2, <4>3, MakesOne
    <3> QED
      BY <3>1, <3>2, <3>3
  <2>3. k = [s \in SUBSET (1..e) |-> k[s]]
    OBVIOUS
  <2> HIDE DEF k
  <2>4. Makes(k, regs, e)
    BY <2>2, <2>3 DEF Makes
  <2> QED
    BY <2>4
<1> HIDE DEF T
<1>3. n \in T
  <2>1. T \in SUBSET Nat
    BY DEF T
  <2> QED
    BY <1>1, <1>2, <2>1, Induct
<1> QED
  BY <1>3 DEF T

(* One registration after the other.                                       *)
LEMMA OneByOne ==
  ASSUME NEW regs, NEW n \in Nat, DOMAIN regs = 1..n
  PROVE  \E h : /\ h[0] = NoRoutes /\ h[n] = RegisterAll(regs)
                /\ \A j \in 1..n : h[j] = After(h[j - 1], regs[j])
<1> DEFINE F(k) == [s \in SUBSET (1..n) |->
                      IF s = {} THEN NoRoutes
                      ELSE Register(k[s \ {Max(s)}], regs[Max(s)][1], regs[Max(s)][2], regs[Max(s)][3])]
           k == CHOOSE f : f = F(f)
<1>1. RegisterAll(regs) = k[1..n]
  BY DEF RegisterAll, FoldLeft, MapThenFoldSet
<1>2. \A f : Makes(f, regs, n) <=> f = F(f)
  BY DEF Makes, After
<1> HIDE DEF F
<1>3. k = F(k)
  BY <1>2, MakesSome
<1> HIDE DEF k
<1>4. Makes(k, regs, n)
  BY <1>2, <1>3
<1> DEFINE h == [j \in 0..n |-> k[1..j]]
<1>5. h[0] = NoRoutes
  <2>1. 1..0 = {} /\ {} \in SUBSET (1..n) /\ 0 \in 0..n
    OBVIOUS
  <2>2. k[{}] = NoRoutes
    BY <1>4, <2>1, MakesOne
  <2> QED
    BY <2>1, <2>2
<1>6. h[n] = RegisterAll(regs)
  BY <1>1
<1>7. ASSUME NEW j \in 1..n PROVE h[j] = After(h[j - 1], regs[j])
  <2>0. j \in Nat /\ j - 1 \in Nat /\ j \in 0..n /\ j - 1 \in 0..n /\ j \in 1..j
    OBVIOUS
  <2>1. 1..j \in SUBSET (1..n) /\ 1..j # {}
    <3>1. \A i \in 1..j : i \in 1..n
      OBVIOUS
    <3> QED
      BY <2>0, <3>1
  <2>4. (1..j) \ {j} = 1..(j - 1)
    <3>1. \A i : i \in (1..j) \ {j} => i \in 1..(j - 1)
      BY <2>0
    <3>2. \A i : i \in 1..(j - 1) => i \in (1..j) \ {j}
      BY <2>0
    <3> QED
      BY <3>1, <3>2
  <2>2. Max(1..j) = j
    <3>1. j \in Nat /\ 1..j \in SUBSET (1..j)
      OBVIOUS
    <3>2. Max(1..j) \in 1..j /\ \A i \in 1..j : i <= Max(1..j)
      BY <2>0, <2>1, <3>1, LastPlace
    <3>3. Max(1..j) \in Nat
      BY <3>2
    <3> QED
      BY <2>0, <3>2, <3>3
  <2>3. k[1..j] = After(k[1..(j - 1)], regs[j])
    <3>1. k[1..j] = IF 1..j = {} THEN NoRoutes
                    ELSE After(k[(1..j) \ {Max(1..j)}], regs[Max(1..j)])
      <4> HIDE DEF h
      <4>1. \A s \in SUBSET (1..n) :
              k[s] = IF s = {} THEN NoRoutes ELSE After(k[s \ {Max(s)}], regs[Max(s)])
        BY <1>4 DEF Makes
      <4> QED
        BY <2>1, <4>1
    <3>2. k[1..j] = After(k[(1..j) \ {j}], regs[j])
      BY <2>1, <2>2, <3>1
    <3> QED
      BY <2>4, <3>2
  <2>5. h[j] = k[1..j] /\ h[j - 1] = k[1..(j - 1)]
    BY <2>0
  <2> QED
    BY <2>3, <2>5
<1> HIDE DEF h
<1> QED
  BY <1>5, <1>6, <1>7

(* A registration adds its path to those the router knows.                 *)
LEMMA RegisterKnown ==
  ASSUME NEW t, NEW path, NEW callback, NEW method \in Methods, Table(t)
  PROVE  LET v == Register(t, callback, path, method) IN
         /\ Table(v) /\ v.middleware = t.middleware
         /\ Known(v) = Known(t) \union {path}
<1> DEFINE u == WithPath(t, path)
           v == Register(t, callback, path, method)
<1>1. Known(u) = Known(t) \union {path} /\ u.middleware = t.middleware
  BY WithPathSound
<1>2. Table(v) /\ v.middleware = u.middleware /\ Known(v) = Known(u)
  BY RegisterCell
<1> HIDE DEF u, v
<1> QED
  BY <1>1, <1>2 DEF v

(* Where a request for path p and method m is meant to go after the first  *)
(* j registrations: to the callback registered last for both, or to what   *)
(* the router answers itself.                                              *)
Same(regs, j, p, m) == {i \in 1..j : regs[i][2] = p /\ regs[i][3] = m}
Missing == "not found"
Silence == "no answer"
Refused == "not allowed"
Unknown(regs, j, p) == \A i \in 1..j : regs[i][2] # p
LastOf(regs, s) == IF s = {} THEN Refused ELSE regs[Max(s)][1]
MeantAfter(regs, j, p, m) ==
  IF Unknown(regs, j, p) THEN Missing
  ELSE IF m \notin Methods THEN Silence
  ELSE LastOf(regs, Same(regs, j, p, m))

(* What the registration at place j makes of what is meant before it.      *)
MeansNext(regs, j, p, m, r) ==
  /\ p = regs[j][2] /\ m = regs[j][3] => MeantAfter(regs, j, p, m) = regs[j][1]
  /\ p = regs[j][2] /\ m # regs[j][3] /\ m \in Methods /\ Unknown(regs, j - 1, p) =>
       MeantAfter(regs, j, p, m) = Refused
  /\ p = regs[j][2] /\ m \notin Methods /\ Unknown(regs, j - 1, p) =>
       MeantAfter(regs, j, p, m) = Silence
  /\ /\ p # regs[j][2] \/ (m # regs[j][3] /\ ~ Unknown(regs, j - 1, p))
     /\ MeantAfter(regs, j, p, m) = r
     => MeantAfter(regs, j - 1, p, m) = r

LEMMA MeantStep ==
  ASSUME NEW regs, NEW n \in Nat, NEW j \in 1..n, NEW p, NEW m, NEW r,
         \A i \in 1..n : regs[i][3] \in Methods
  PROVE  MeansNext(regs, j, p, m, r)
<1> DEFINE now == Same(regs, j, p, m)
           old == Same(regs, j - 1, p, m)
<1>1. j \in Nat /\ j - 1 \in Nat /\ j \in 1..j /\ j \notin 1..(j - 1)
  OBVIOUS
<1>2. \A i : i \in 1..j <=> i \in 1..(j - 1) \/ i = j
  BY <1>1
<1>3. regs[j][3] \in Methods
  OBVIOUS
<1>4. /\ \A i : i \in now <=> (i \in 1..j /\ regs[i][2] = p /\ regs[i][3] = m)
      /\ \A i : i \in old <=> (i \in 1..(j - 1) /\ regs[i][2] = p /\ regs[i][3] = m)
  BY DEF Same
<1>5. /\ MeantAfter(regs, j, p, m) =
           IF Unknown(regs, j, p) THEN Missing
           ELSE IF m \notin Methods THEN Silence
           ELSE LastOf(regs, now)
      /\ MeantAfter(regs, j - 1, p, m) =
           IF Unknown(regs, j - 1, p) THEN Missing
           ELSE IF m \notin Methods THEN Silence
           ELSE LastOf(regs, old)
  BY Zenon DEF MeantAfter
<1>6. now \in SUBSET (1..j)
  BY <1>4
<1> HIDE DEF now, old
<1>7. CASE p = regs[j][2] /\ m = regs[j][3]
  <2>1. j \in now
    BY <1>1, <1>4, <1>7
  <2>2. Max(now) = j
    <3>1. Max(now) \in now /\ \A i \in now : i <= Max(now)
      BY <1>1, <1>6, <2>1, LastPlace
    <3>2. Max(now) \in 1..j
      BY <1>6, <3>1
    <3> QED
      BY <1>1, <2>1, <3>1, <3>2
  <2>3. ~ Unknown(regs, j, p) /\ m \in Methods /\ now # {}
    BY <1>1, <1>3, <1>7, <2>1 DEF Unknown
  <2> QED
    BY <1>5, <1>7, <2>2, <2>3 DEF LastOf, MeansNext
<1>8. CASE p = regs[j][2] /\ m # regs[j][3] /\ Unknown(regs, j - 1, p)
  <2>1. now = {}
    BY <1>2, <1>4, <1>8 DEF Unknown
  <2>2. ~ Unknown(regs, j, p)
    BY <1>1, <1>8 DEF Unknown
  <2> QED
    BY <1>5, <1>8, <2>1, <2>2 DEF LastOf, MeansNext
<1>9. CASE ~ (p = regs[j][2] /\ m = regs[j][3])
           /\ ~ (p = regs[j][2] /\ Unknown(regs, j - 1, p))
  <2>1. now = old
    <3>1. \A i : i \in now <=> i \in old
      BY <1>2, <1>4, <1>9 DEF Unknown
    <3> QED
      BY <3>1
  <2>2. Unknown(regs, j, p) <=> Unknown(regs, j - 1, p)
    BY <1>2, <1>9 DEF Unknown
  <2>3. MeantAfter(regs, j, p, m) = MeantAfter(regs, j - 1, p, m)
    <3>1. CASE Unknown(regs, j, p)
      BY Zenon, <1>5, <2>2, <3>1
    <3>2. CASE ~ Unknown(regs, j, p) /\ m \notin Methods
      BY Zenon, <1>5, <2>2, <3>2
    <3>3. CASE ~ Unknown(regs, j, p) /\ m \in Methods
      <4>1. MeantAfter(regs, j, p, m) = LastOf(regs, now)
        BY Zenon, <1>5, <3>3
      <4>2. MeantAfter(regs, j - 1, p, m) = LastOf(regs, old)
        BY Zenon, <1>5, <2>2, <3>3
      <4> QED
        BY Zenon, <2>1, <4>1, <4>2
    <3> QED
      BY <3>1, <3>2, <3>3
  <2> QED
    BY <1>9, <2>3 DEF MeansNext
<1> QED
  BY <1>7, <1>8, <1>9

-----------------------------------------------------------------------------
(* A list of registrations that service code can make: with a callback, on *)
(* a method the router has a name for.                                     *)
Registrable(regs, n) ==
  /\ DOMAIN regs = 1..n
  /\ \A i \in 1..n : regs[i][1] # NoHandler /\ regs[i][3] \in Methods

(* Where a request goes while no middleware is set.                        *)
Led(t, p, m) == Route(t, p, m, FALSE)

Cell(t, p, m) == t.buffer[t.place[p]][m]

LEMMA LedCases ==
  ASSUME NEW t, NEW p, NEW m, t.middleware = FALSE
  PROVE  /\ p \notin Known(t) => Led(t, p, m) = Missing
         /\ p \in Known(t) /\ m \notin Methods => Led(t, p, m) = Silence
         /\ p \in Known(t) /\ m \in Methods /\ Cell(t, p, m) = NoHandler =>
              Led(t, p, m) = Refused
         /\ p \in Known(t) /\ m \in Methods /\ Cell(t, p, m) # NoHandler =>
              Led(t, p, m) = Cell(t, p, m)
  BY DEF Led, Cell, Route, Missing, Silence, Refused

(* Where table v leads that a registration made of table t.                *)
LeadsNext(v, t, callback, path, method, p, m, r) ==
  /\ p = path /\ m = method => Led(v, p, m) = callback
  /\ p = path /\ m # method /\ m \in Methods /\ p \notin Known(t) => Led(v, p, m) = Refused
  /\ p = path /\ m \notin Methods /\ p \notin Known(t) => Led(v, p, m) = Silence
  /\ /\ p # path \/ (m # method /\ p \in Known(t))
     /\ Led(t, p, m) = r
     => Led(v, p, m) = r

LEMMA RegisterLeads ==
  ASSUME NEW t, NEW path, NEW callback, NEW method \in Methods, NEW p, NEW m, NEW r,
         Table(t), t.middleware = FALSE, callback # NoHandler
  PROVE  LeadsNext(Register(t, callback, path, method), t, callback, path, method, p, m, r)
<1> DEFINE u == WithPath(t, path)
           v == Register(t, callback, path, method)
<1>1. /\ Known(u) = Known(t) \union {path} /\ u.middleware = t.middleware
      /\ \A q \in Known(t) : u.buffer[u.place[q]] = t.buffer[t.place[q]]
      /\ path \notin Known(t) => u.buffer[u.place[path]] = [n \in Methods |-> NoHandler]
  BY WithPathSound
<1>2. /\ Known(v) = Known(u) /\ v.middleware = u.middleware
      /\ \A q \in Known(u) : \A n \in Methods :
           v.buffer[v.place[q]][n] =
             IF q = path /\ n = method THEN callback ELSE u.buffer[u.place[q]][n]
  BY RegisterCell
<1> HIDE DEF u, v
<1>3. Known(v) = Known(t) \union {path} /\ v.middleware = FALSE
  BY <1>1, <1>2
<1>4. p = path /\ m = method => Led(v, p, m) = callback
  <2>1. p = path /\ m = method => Cell(v, p, m) = callback
    BY <1>1, <1>2 DEF Cell
  <2> SUFFICES ASSUME p = path, m = method PROVE Led(v, p, m) = callback
    OBVIOUS
  <2>2. p \in Known(v) /\ m \in Methods /\ Cell(v, p, m) # NoHandler
    BY <1>3, <2>1
  <2>3. Led(v, p, m) = Cell(v, p, m)
    BY <1>3, <2>2, LedCases
  <2> QED
    BY <2>1, <2>3
<1>5. p = path /\ m # method /\ m \in Methods /\ p \notin Known(t) => Led(v, p, m) = Refused
  <2>1. p = path /\ m # method /\ m \in Methods /\ p \notin Known(t) =>
          Cell(v, p, m) = NoHandler
    BY <1>1, <1>2 DEF Cell
  <2> QED
    BY <1>3, <2>1, LedCases
<1>6. p = path /\ m \notin Methods /\ p \notin Known(t) => Led(v, p, m) = Silence
  BY <1>3, LedCases
<1>7. ASSUME p # path \/ (m # method /\ p \in Known(t)), Led(t, p, m) = r
      PROVE  Led(v, p, m) = r
  <2>1. CASE p \notin Known(t)
    BY <1>3, <1>7, <2>1, LedCases
  <2>2. CASE p \in Known(t) /\ m \notin Methods
    BY <1>3, <1>7, <2>2, LedCases
  <2>3. CASE p \in Known(t) /\ m \in Methods
    <3>1. Cell(v, p, m) = Cell(t, p, m)
      BY <1>1, <1>2, <1>7, <2>3 DEF Cell
    <3>2. p \in Known(v)
      BY <1>3, <2>3
    <3>3. CASE Cell(t, p, m) = NoHandler
      <4>1. Led(t, p, m) = Refused
        BY <2>3, <3>3, LedCases
      <4>2. Led(v, p, m) = Refused
        BY <1>3, <2>3, <3>1, <3>2, <3>3, LedCases
      <4> QED
        BY <1>7, <4>1, <4>2
    <3>4. CASE Cell(t, p, m) # NoHandler
      <4>1. Led(t, p, m) = Cell(t, p, m)
        BY <2>3, <3>4, LedCases
      <4>2. Led(v, p, m) = Cell(v, p, m)
        BY <1>3, <2>3, <3>1, <3>2, <3>4, LedCases
      <4> QED
        BY <1>7, <3>1, <4>1, <4>2
    <3> QED
      BY <3>3, <3>4
  <2> QED
    BY <2>1, <2>2, <2>3
<1> QED
  BY <1>4, <1>5, <1>6, <1>7 DEF v, LeadsNext

(* However many callbacks a service registers, on whatever paths, in       *)
(* whatever order and how often: the paths share no place, none lies       *)
(* beyond the part of the buffer in use, and every request goes to the     *)
(* callback that was registered last for its path and method, or to what   *)
(* the router does itself where there is none (fio_router_register_callback*)
(* and fio_router_on_request_route).                                       *)
THEOREM RoutesAsRegistered ==
  ASSUME NEW regs, NEW n \in Nat, Registrable(regs, n)
  PROVE  /\ RoutesSound(RegisterAll(regs))
         /\ \A p, m : Route(RegisterAll(regs), p, m, FALSE) = MeantAfter(regs, n, p, m)
<1>1. PICK h : /\ h[0] = NoRoutes /\ h[n] = RegisterAll(regs)
               /\ \A j \in 1..n : h[j] = After(h[j - 1], regs[j])
  BY OneByOne DEF Registrable
<1> DEFINE Right(j) ==
             /\ Table(h[j]) /\ RoutesSound(h[j]) /\ h[j].middleware = FALSE
             /\ \A p : p \in Known(h[j]) <=> \E i \in 1..j : regs[i][2] = p
             /\ \A p, m, r : MeantAfter(regs, j, p, m) = r => Led(h[j], p, m) = r
           T == {j \in Nat : j <= n => Right(j)}
<1>2. 0 \in T
  <2>1. Table(NoRoutes) /\ NoRoutes.middleware = FALSE /\ Known(NoRoutes) = {}
    BY NoRoutesSound DEF NoRoutes, Known
  <2>2. RoutesSound(NoRoutes)
    BY DEF NoRoutes, RoutesSound, Known
  <2>3. \A i \in 1..0 : FALSE
    OBVIOUS
  <2>4. \A p, m : Led(NoRoutes, p, m) = Missing
    BY <2>1, LedCases
  <2>5. \A p, m : MeantAfter(regs, 0, p, m) = Missing
    BY <2>3 DEF MeantAfter, Unknown
  <2> QED
    BY <1>1, <2>1, <2>2, <2>3, <2>4, <2>5
<1>3. ASSUME NEW k \in T PROVE k + 1 \in T
  <2> DEFINE last == k + 1
  <2> HIDE DEF Right
  <2> SUFFICES ASSUME last <= n PROVE Right(last)
    OBVIOUS
  <2>1. k \in Nat /\ k <= n /\ last \in 1..n /\ last - 1 = k
    OBVIOUS
  <2>2. Right(k)
    BY <2>1
  <2> USE DEF Right
  <2>3. \A i : i \in 1..last <=> i \in 1..k \/ i = last
    BY <2>1
  <2> DEFINE called == regs[last][1]
             there == regs[last][2]
             verb == regs[last][3]
  <2>4. called # NoHandler /\ verb \in Methods
    BY <2>1 DEF Registrable
  <2>5. h[last] = Register(h[k], called, there, verb)
    BY <1>1, <2>1 DEF After
  <2>6. ASSUME NEW p, NEW m, NEW r
        PROVE  /\ p = there /\ m = verb => MeantAfter(regs, last, p, m) = called
               /\ p = there /\ m # verb /\ m \in Methods /\ Unknown(regs, k, p) =>
                    MeantAfter(regs, last, p, m) = Refused
               /\ p = there /\ m \notin Methods /\ Unknown(regs, k, p) =>
                    MeantAfter(regs, last, p, m) = Silence
               /\ /\ p # there \/ (m # verb /\ ~ Unknown(regs, k, p))
                  /\ MeantAfter(regs, last, p, m) = r
                  => MeantAfter(regs, k, p, m) = r
    <3>1. \A i \in 1..n : regs[i][3] \in Methods
      BY DEF Registrable
    <3> HIDE DEF last, Right, T
    <3>2. last \in 1..n /\ last - 1 = k /\ there = regs[last][2] /\ verb = regs[last][3]
            /\ called = regs[last][1]
      BY <2>1
    <3> HIDE DEF called, there, verb
    <3>3. MeansNext(regs, last, p, m, r)
      BY <3>1, <3>2, MeantStep
    <3> QED
      BY <3>2, <3>3 DEF MeansNext
  <2> HIDE DEF last, called, there, verb
  <2>7. /\ Table(h[last]) /\ RoutesSound(h[last]) /\ h[last].middleware = FALSE
        /\ Known(h[last]) = Known(h[k]) \union {there}
    BY <2>2, <2>4, <2>5, RegisterKnown, RegisterSound
  <2>8. ASSUME NEW p, NEW m, NEW r
        PROVE  /\ p = there /\ m = verb => Led(h[last], p, m) = called
               /\ p = there /\ m # verb /\ m \in Methods /\ p \notin Known(h[k]) =>
                    Led(h[last], p, m) = Refused
               /\ p = there /\ m \notin Methods /\ p \notin Known(h[k]) =>
                    Led(h[last], p, m) = Silence
               /\ /\ p # there \/ (m # verb /\ p \in Known(h[k]))
                  /\ Led(h[k], p, m) = r
                  => Led(h[last], p, m) = r
    <3>1. Table(h[k]) /\ h[k].middleware = FALSE
      BY <2>2
    <3> HIDE DEF Right, T
    <3>2. LeadsNext(h[last], h[k], called, there, verb, p, m, r)
      BY <2>4, <2>5, <3>1, RegisterLeads
    <3> QED
      BY <3>2 DEF LeadsNext
  <2>9. \A p : p \in Known(h[last]) <=> \E i \in 1..last : regs[i][2] = p
    BY <2>2, <2>3, <2>7 DEF there
  <2>10. ASSUME NEW p, NEW m, NEW r, MeantAfter(regs, last, p, m) = r
         PROVE  Led(h[last], p, m) = r
    <3>1. p \in Known(h[k]) <=> ~ Unknown(regs, k, p)
      BY <2>2 DEF Unknown
    <3>2. MeantAfter(regs, k, p, m) = r => Led(h[k], p, m) = r
      BY <2>2
    <3>3. CASE p = there /\ m = verb
      BY <2>6, <2>8, <2>10, <3>3
    <3>4. CASE p = there /\ m # verb /\ p \notin Known(h[k])
      <4>1. CASE m \in Methods
        BY <2>6, <2>8, <2>10, <3>1, <3>4, <4>1
      <4>2. CASE m \notin Methods
        BY <2>6, <2>8, <2>10, <3>1, <3>4, <4>2
      <4> QED
        BY <4>1, <4>2
    <3>5. CASE p # there \/ (m # verb /\ p \in Known(h[k]))
      <4>1. MeantAfter(regs, k, p, m) = r
        BY <2>6, <2>10, <3>1, <3>5
      <4> QED
        BY <2>8, <3>2, <3>5, <4>1
    <3> QED
      BY <3>3, <3>4, <3>5
  <2> QED
    BY <2>7, <2>9, <2>10
<1> HIDE DEF T
<1>4. n \in T
  <2>1. T \in SUBSET Nat
    BY DEF T
  <2> QED
    BY <1>2, <1>3, <2>1, Induct
<1>5. Right(n)
  <2> HIDE DEF Right
  <2> QED
    BY <1>4 DEF T
<1>6. \A p, m, r : MeantAfter(regs, n, p, m) = r => Led(RegisterAll(regs), p, m) = r
  BY <1>1, <1>5
<1>7. ASSUME NEW p, NEW m
      PROVE  Route(RegisterAll(regs), p, m, FALSE) = MeantAfter(regs, n, p, m)
  BY <1>6 DEF Led
<1>8. RoutesSound(RegisterAll(regs))
  BY <1>1, <1>5
<1> QED
  BY <1>7, <1>8

(* The table that main makes: the paths of the service share no place, and *)
(* every request goes to the operation that main registered last for its   *)
(* path and method.                                                        *)
THEOREM ServiceRoutes ==
  ASSUME {"GET", "POST", "PUT", "DELETE"} \subseteq Methods,
         \A i \in 1..8 : Registrations[i][1] # NoHandler
  PROVE  /\ RoutesSound(Routes)
         /\ \A p, m : Route(Routes, p, m, FALSE) = MeantAfter(Registrations, 8, p, m)
<1>1. Registrable(Registrations, 8)
  <2>1. DOMAIN Registrations = 1..8
    BY DEF Registrations
  <2>2. \A i \in 1..8 : Registrations[i][3] \in {"GET", "POST", "PUT", "DELETE"}
    BY DEF Registrations
  <2> QED
    BY <2>1, <2>2 DEF Registrable
<1>2. Routes = RegisterAll(Registrations)
  BY Zenon DEF Routes, RegisterAll
<1>3. RoutesSound(RegisterAll(Registrations))
  BY <1>1, RoutesAsRegistered
<1>4. \A p, m : Route(RegisterAll(Registrations), p, m, FALSE) = MeantAfter(Registrations, 8, p, m)
  BY <1>1, RoutesAsRegistered
<1> QED
  BY Zenon, <1>2, <1>3, <1>4
=============================================================================
