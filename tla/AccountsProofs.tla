---------------------------- MODULE AccountsProofs ----------------------------
(***************************************************************************)
(* Proofs about Accounts, for any number of users, requests and faults:    *)
(* no two users share a name, what the service answers is true, and as     *)
(* long as all is calm its statements add up to the steps of SessionBook.  *)
(***************************************************************************)
EXTENDS Accounts, FiniteSetTheorems, TLAPS

(* The inductive invariant.  What a request is about at each statement,    *)
(* and what it carries there.                                              *)
Stage(r) ==
  /\ pc[r] \in Serving => call[r] # NoCall /\ answer[r] = NoAnswer /\ tokens[r] = NoRow
  /\ pc[r] = "idle" => call[r] = NoCall /\ answer[r] = NoAnswer /\ tokens[r] = NoRow
  /\ answer[r] # NoAnswer => call[r] # NoCall
  /\ pc[r] = "insert" => call[r].op = "create"
  /\ pc[r] = "find" => call[r].op \in {"update", "change"}
  /\ pc[r] = "write" => /\ call[r].op \in {"update", "change"}
                        /\ copy[r] # NoRow /\ copy[r].id = call[r].id
  /\ pc[r] = "revokeAll" => call[r].op = "change" /\ copy[r] # NoRow
  /\ pc[r] = "findName" => call[r].op = "login" \/ (call[r].op = "change" /\ copy[r] # NoRow)
  /\ pc[r] = "issue" => call[r].op \in {"login", "change"} /\ copy[r] # NoRow
  /\ pc[r] = "findToken" => call[r].op = "refresh"
  /\ pc[r] = "revoke" => call[r].op = "refresh" /\ tokens[call[r].token] # NoRow

(* In calm a request is in service alone, and what it read is still there. *)
Alone ==
  /\ IsFiniteSet(InService)
  /\ ~ overlapped => \A p, q \in InService : p = q
Names(r, u) ==
  call[r] # NoCall /\ call[r].op \in {"create", "update", "change"} /\ call[r].id = u
Current(r) ==
  /\ pc[r] = "insert" =>
       /\ users[call[r].id] = NoRow
       /\ \A q \in Request : q # r => ~ Names(q, call[r].id)
  /\ pc[r] = "write" => /\ users[call[r].id] # NoRow
                        /\ copy[r] = Updated(call[r], users[call[r].id])
  /\ pc[r] \in {"revokeAll", "findName"} /\ call[r].op = "change" =>
       users[call[r].id] = copy[r] /\ copy[r].password = call[r].password
  /\ pc[r] = "issue" =>
       users[copy[r].id] = copy[r] /\ copy[r].password = call[r].password
  /\ pc[r] = "revoke" => Unrevoked(call[r].token) /\ tokens[call[r].token].expired

(* What an answer says of the tables.                                      *)
Honest(r, code) ==
  /\ code = 200 /\ call[r].op \in {"login", "change"} =>
       tokens[r] # NoRow /\ tokens[r].password = call[r].password
  /\ code \in {201, 204} =>
       call[r].op \in {"create", "update", "change"} /\ users[call[r].id] # NoRow
  /\ code \in {403, 404} => tokens[r] = NoRow
  /\ Calm /\ code \in {403, 404} /\ call[r].op = "change" => users[call[r].id] = NoRow

IInv ==
  /\ TypeOK /\ Alone
  /\ \A r \in Request : Stage(r) /\ Honest(r, answer[r])
  /\ Calm => \A r \in Request : Current(r)
-----------------------------------------------------------------------------
(* Rows, tokens and calls.                                                 *)
LEMMA RowFields ==
  ASSUME NEW row \in Row
  PROVE  row.id \in User /\ row.name \in Name /\ row.password \in Password /\ row # NoRow
BY AccountsAssumption DEF Row

LEMMA TokenFields ==
  ASSUME NEW t \in Token
  PROVE  /\ t.user \in User /\ t.password \in Password /\ t # NoRow
         /\ t.expired \in BOOLEAN /\ t.revoked \in BOOLEAN
BY AccountsAssumption DEF Token

LEMMA CallFields ==
  ASSUME NEW c \in Call
  PROVE  /\ c.op \in {"create", "update", "change", "login", "refresh"} /\ c # NoCall
         /\ c.op \in {"create", "update", "change"} => c.id \in User
         /\ c.op \in {"create", "login"} => c.name \in Name
         /\ c.op = "update" => c.name \in Name \union {Keep}
         /\ c.op \in {"create", "change", "login"} => c.password \in Password
         /\ c.op = "refresh" => c.token \in Request
BY AccountsAssumption DEF Call, Create, Update, Change, Login, Refresh

LEMMA UpdatedRow ==
  ASSUME NEW c \in Call, c.op \in {"update", "change"}, NEW row \in Row
  PROVE  /\ Updated(c, row) \in Row /\ Updated(c, row).id = row.id
         /\ c.op = "change" => /\ Updated(c, row).password = c.password
                               /\ Updated(c, row).name = row.name
         /\ c.op = "update" => Updated(c, row).password = row.password
BY CallFields DEF Updated, Row

(* Closing a token, or letting it expire, leaves it the token it was.      *)
LEMMA TokenKept ==
  ASSUME NEW t \in Token
  PROVE  /\ [t EXCEPT !.revoked = TRUE] \in Token
         /\ [t EXCEPT !.revoked = TRUE].password = t.password
         /\ [t EXCEPT !.expired = TRUE] \in Token
         /\ [t EXCEPT !.expired = TRUE].password = t.password
BY DEF Token

LEMMA Stages ==
  ASSUME IInv, NEW r \in Request, pc[r] \in Serving
  PROVE  /\ call[r] \in Call /\ answer[r] = NoAnswer /\ tokens[r] = NoRow /\ Stage(r)
         /\ copy[r] # NoRow => copy[r] \in Row
         /\ Calm => Current(r)
BY DEF IInv, TypeOK, Stage

LEMMA Outcomes ==
  ASSUME IInv, NEW o \in Outcome, Spend(o)
  PROVE  /\ faultsLeft' \in 0..faultsLeft /\ o \in {"ok", "failed", "unknown"}
         /\ o # "ok" => ~ Calm'
         /\ o = "ok" => faultsLeft' = faultsLeft
BY AccountsAssumption DEF IInv, TypeOK, Outcome, Spend, Calm

-----------------------------------------------------------------------------
(* What every step of a request does to the tables.                        *)
TablesOK ==
  /\ users \in [User -> Row \union {NoRow}]
  /\ \A u \in User : users[u] # NoRow => users[u].id = u
  /\ UniqueNames(users)
  /\ tokens \in [Request -> Token \union {NoRow}]
Lawful(r) ==
  /\ TablesOK'
  /\ \A u \in User : users[u] # NoRow => users'[u] # NoRow
  /\ \A t \in Request : tokens[t] # NoRow =>
       tokens'[t] # NoRow /\ tokens'[t].password = tokens[t].password
  /\ \A t \in Request : t # r /\ tokens[t] = NoRow => tokens'[t] = NoRow
  /\ Calm' => \A q \in Request, u \in User :
       q # r /\ Names(q, u) /\ users[u] = NoRow => users'[u] = NoRow
  /\ faultsLeft' \in 0..faultsLeft
  /\ overlapped' = (overlapped \/ Cardinality(InService') > 1)

LEMMA CalmBefore ==
  ASSUME IInv, overlapped' = (overlapped \/ Cardinality(InService') > 1),
         faultsLeft' \in 0..faultsLeft, Calm'
  PROVE  Calm /\ faultsLeft' = faultsLeft
<1>1. ~ overlapped
  BY Zenon DEF Calm
<1>2. faultsLeft' = MaxFaults /\ faultsLeft \in 0..MaxFaults
  BY DEF Calm, IInv, TypeOK
<1>3. faultsLeft = MaxFaults
  BY <1>2, AccountsAssumption
<1> QED
  BY <1>1, <1>2, <1>3 DEF Calm

LEMMA TablesRest ==
  ASSUME IInv, NEW r \in Request, UNCHANGED tables, faultsLeft' \in 0..faultsLeft,
         overlapped' = (overlapped \/ Cardinality(InService') > 1)
  PROVE  Lawful(r)
<1>1. UNCHANGED <<users, tokens>>
  BY DEF tables
<1>2. TablesOK
  BY DEF IInv, TypeOK, TablesOK
<1> QED
  BY <1>1, <1>2 DEF Lawful, TablesOK, UniqueNames

(* What remains true of the other requests.                                *)
LEMMA OthersKept ==
  ASSUME IInv, NEW r \in Request, Lawful(r), NEW q \in Request, q # r,
         UNCHANGED <<call[q], pc[q], copy[q], answer[q]>>
  PROVE  Stage(q)' /\ Honest(q, answer[q])'
<1>1. Stage(q) /\ Honest(q, answer[q])
  BY DEF IInv
<1>2. call[q] # NoCall => call[q] \in Call
  BY DEF IInv, TypeOK
<1>3. Stage(q)'
  <2>1. /\ tokens[q] = NoRow => tokens'[q] = NoRow
        /\ \A t \in Request : tokens[t] # NoRow => tokens'[t] # NoRow
    BY DEF Lawful
  <2>2. pc[q] = "revoke" => call[q].token \in Request
    BY <1>1, <1>2, CallFields DEF Stage, Serving
  <2> QED
    BY <1>1, <2>1, <2>2 DEF Stage
<1>4. Calm' => Calm
  BY CalmBefore DEF Lawful
<1>5. answer[q] # NoAnswer => call[q] # NoCall
  BY <1>1 DEF Stage
<1>6. Honest(q, answer[q])'
  <2> PICK a : a = answer[q]
    OBVIOUS
  <2> PICK c : c = call[q]
    OBVIOUS
  <2>1. a = 200 /\ c.op \in {"login", "change"} =>
          tokens'[q] # NoRow /\ tokens'[q].password = c.password
    BY <1>1 DEF Honest, Lawful
  <2>2. a \in {201, 204} =>
          c.op \in {"create", "update", "change"} /\ users'[c.id] # NoRow
    <3>1. a \in {201, 204} => c \in Call
      BY <1>2, <1>5 DEF NoAnswer
    <3> QED
      BY <1>1, <3>1, CallFields DEF Honest, Lawful
  <2>3. a \in {403, 404} => tokens'[q] = NoRow
    BY <1>1 DEF Honest, Lawful
  <2>4. ASSUME Calm', a \in {403, 404}, c.op = "change"
        PROVE  users'[c.id] = NoRow
    <3>1. c # NoCall /\ c.id \in User
      BY <1>2, <1>5, <2>4, CallFields DEF NoAnswer
    <3>2. users[c.id] = NoRow
      BY <1>1, <1>4, <2>4 DEF Honest
    <3>3. Names(q, c.id)
      BY <2>4, <3>1 DEF Names
    <3> QED
      BY <2>4, <3>1, <3>2, <3>3 DEF Lawful
  <2> QED
    BY <2>1, <2>2, <2>3, <2>4 DEF Honest
<1> QED
  BY <1>3, <1>6

LEMMA AloneKept ==
  ASSUME IInv, NEW r \in Request, pc[r] \in Serving, Lawful(r), NEW l,
         pc' = [pc EXCEPT ![r] = l]
  PROVE  Alone' /\ overlapped' \in BOOLEAN
<1>1. InService' \subseteq InService
  BY DEF InService, IInv, TypeOK
<1>2. IsFiniteSet(InService')
  BY <1>1, FS_Subset DEF IInv, Alone
<1>3. ~ overlapped' => ~ overlapped
  BY Zenon DEF Lawful
<1>4. overlapped' \in BOOLEAN
  BY Zenon DEF Lawful
<1> QED
  BY <1>1, <1>2, <1>3, <1>4 DEF IInv, Alone

LEMMA ServedStep ==
  ASSUME IInv, NEW r \in Request, pc[r] \in Serving, Lawful(r),
         NEW l \in Serving \union {"answered"}, NEW row \in Row \union {NoRow},
         NEW code \in Codes \union {NoAnswer},
         pc' = [pc EXCEPT ![r] = l], copy' = [copy EXCEPT ![r] = row],
         answer' = [answer EXCEPT ![r] = code], UNCHANGED call,
         Stage(r)', Honest(r, code)', Calm' => Current(r)'
  PROVE  IInv'
<1>1. /\ pc'[r] = l /\ copy'[r] = row /\ answer'[r] = code
      /\ \A q \in Request : q # r =>
           UNCHANGED <<call[q], pc[q], copy[q], answer[q]>>
  BY DEF IInv, TypeOK
<1>2. TypeOK'
  <2>1. faultsLeft' \in 0..MaxFaults
    BY AccountsAssumption DEF IInv, TypeOK, Lawful
  <2>2. /\ pc' \in [Request -> {"idle", "answered", "lost"} \union Serving]
        /\ copy' \in [Request -> Row \union {NoRow}]
        /\ answer' \in [Request -> Codes \union {NoAnswer}]
        /\ call' \in [Request -> Call \union {NoCall}]
    BY DEF IInv, TypeOK
  <2>3. overlapped' \in BOOLEAN
    BY AloneKept
  <2> QED
    BY <2>1, <2>2, <2>3 DEF TypeOK, Lawful, TablesOK
<1>3. \A q \in Request : Stage(q)'
  BY <1>1, OthersKept
<1>4. \A q \in Request : Honest(q, answer[q])'
  <2> SUFFICES ASSUME NEW q \in Request PROVE Honest(q, answer[q])'
    OBVIOUS
  <2>1. CASE q = r
    BY <1>1, <2>1 DEF Honest
  <2>2. CASE q # r
    BY <1>1, <2>2, OthersKept
  <2> QED
    BY <2>1, <2>2
<1>5. Calm' => \A q \in Request : Current(q)'
  <2> SUFFICES ASSUME Calm', NEW q \in Request, q # r PROVE Current(q)'
    OBVIOUS
  <2>1. Calm
    BY CalmBefore DEF Lawful
  <2>2. pc[q] \notin Serving
    BY <2>1 DEF IInv, Alone, InService, Calm
  <2> QED
    BY <1>1, <2>2 DEF Current, Serving
<1> QED
  BY <1>2, <1>3, <1>4, <1>5, AloneKept DEF IInv

LEMMA AnswerStep ==
  ASSUME IInv, NEW r \in Request, pc[r] \in Serving, Lawful(r),
         NEW code \in Codes, Answer(r, code), Honest(r, code)'
  PROVE  IInv'
<1>1. /\ pc' = [pc EXCEPT ![r] = "answered"] /\ answer' = [answer EXCEPT ![r] = code]
      /\ copy' = [copy EXCEPT ![r] = NoRow] /\ UNCHANGED call
  BY DEF Answer
<1>2. pc'[r] = "answered" /\ call'[r] # NoCall
  BY <1>1, Stages, CallFields DEF IInv, TypeOK
<1>3. Stage(r)' /\ Current(r)'
  BY <1>2 DEF Stage, Current, Serving
<1> QED
  BY <1>1, <1>3, ServedStep

LEMMA GotoStep ==
  ASSUME IInv, NEW r \in Request, pc[r] \in Serving, Lawful(r),
         NEW l \in Serving, NEW row \in Row \union {NoRow}, Goto(r, l, row),
         Stage(r)', Calm' => Current(r)'
  PROVE  IInv'
<1>1. /\ pc' = [pc EXCEPT ![r] = l] /\ copy' = [copy EXCEPT ![r] = row]
      /\ UNCHANGED <<call, answer>>
  BY DEF Goto
<1>2. answer' = [answer EXCEPT ![r] = NoAnswer]
  BY <1>1, Stages DEF IInv, TypeOK
<1>3. Honest(r, NoAnswer)'
  BY DEF Honest, NoAnswer
<1> QED
  BY <1>1, <1>2, <1>3, ServedStep

(* A failure is honest.                                                    *)
LEMMA ErrorStep ==
  ASSUME IInv, NEW r \in Request, pc[r] \in Serving, Lawful(r), Answer(r, 500)
  PROVE  IInv'
<1>1. 500 \in Codes /\ Honest(r, 500)'
  BY DEF Codes, Honest
<1> QED
  BY <1>1, AnswerStep

LEMMA ThrewStep ==
  ASSUME IInv, NEW r \in Request, pc[r] \in Serving, Threw(r), UNCHANGED tables,
         overlapped' = (overlapped \/ Cardinality(InService') > 1)
  PROVE  IInv'
<1>1. "failed" \in Outcome /\ Spend("failed") /\ Answer(r, 500)
  BY DEF Threw
<1>2. Lawful(r)
  BY <1>1, Outcomes, TablesRest
<1> QED
  BY <1>1, <1>2, ErrorStep

-----------------------------------------------------------------------------
(* The statements on table users.                                          *)
Counts == overlapped' = (overlapped \/ Cardinality(InService') > 1)

LEMMA RestStep ==
  ASSUME IInv, NEW r \in Request, UNCHANGED <<tables, faultsLeft>>, Counts
  PROVE  Lawful(r) /\ UNCHANGED <<users, tokens, faultsLeft>>
<1>1. faultsLeft' \in 0..faultsLeft
  BY AccountsAssumption DEF IInv, TypeOK
<1> QED
  BY <1>1, TablesRest DEF Counts, tables

(* A row is written, and nobody else speaks of it if it is new.            *)
LEMMA WrittenLawful ==
  ASSUME IInv, NEW r \in Request, NEW row \in Row,
         UniqueNames([users EXCEPT ![row.id] = row]),
         users' = [users EXCEPT ![row.id] = row], UNCHANGED tokens,
         faultsLeft' \in 0..faultsLeft, Counts,
         Calm => \A q \in Request : q # r /\ Names(q, row.id) => users[row.id] # NoRow
  PROVE  Lawful(r) /\ users'[row.id] = row
<1>1. row.id \in User /\ row # NoRow
  BY RowFields
<1>2. /\ users'[row.id] = row
      /\ \A u \in User : u # row.id => users'[u] = users[u]
  BY <1>1 DEF IInv, TypeOK
<1>3. TablesOK'
  BY <1>1, <1>2 DEF IInv, TypeOK, TablesOK
<1>4. Calm' => Calm
  BY CalmBefore DEF Counts
<1> QED
  BY <1>1, <1>2, <1>3, <1>4 DEF Lawful, Counts

(* Store ends in an error, or the row is there and the request goes on.    *)
LEMMA StoreStep ==
  ASSUME IInv, NEW r \in Request, pc[r] \in Serving, NEW row \in Row, NEW code, NEW next,
         Store(r, row, code, next), Counts,
         Calm => \A q \in Request : q # r /\ Names(q, row.id) => users[row.id] # NoRow
  PROVE  \/ IInv'
         \/ /\ Lawful(r) /\ users' = [users EXCEPT ![row.id] = row]
            /\ users'[row.id] = row /\ UNCHANGED <<tokens, faultsLeft>>
            /\ IF next = "answered" THEN Answer(r, code) ELSE Goto(r, next, copy[r])
<1>1. CASE /\ UniqueNames([users EXCEPT ![row.id] = row])
           /\ \E o \in Outcome :
                /\ Write(o, users' = [users EXCEPT ![row.id] = row] /\ UNCHANGED tokens)
                /\ IF o # "ok" THEN Answer(r, 500)
                   ELSE IF next = "answered" THEN Answer(r, code) ELSE Goto(r, next, copy[r])
  <2>1. PICK o \in Outcome :
          /\ Write(o, users' = [users EXCEPT ![row.id] = row] /\ UNCHANGED tokens)
          /\ IF o # "ok" THEN Answer(r, 500)
             ELSE IF next = "answered" THEN Answer(r, code) ELSE Goto(r, next, copy[r])
    BY <1>1
  <2>2. /\ Spend(o)
        /\ \/ users' = [users EXCEPT ![row.id] = row] /\ UNCHANGED tokens
           \/ o # "ok" /\ UNCHANGED tables
    BY <2>1 DEF Write, Took
  <2>3. Lawful(r)
    BY <1>1, <2>2, Outcomes, WrittenLawful, TablesRest DEF Counts
  <2>4. CASE o # "ok"
    BY <2>1, <2>3, <2>4, ErrorStep
  <2>5. CASE o = "ok"
    BY <1>1, <2>1, <2>2, <2>3, <2>5, Outcomes, WrittenLawful
  <2> QED
    BY <2>4, <2>5
<1>2. CASE Answer(r, 500) /\ UNCHANGED <<tables, faultsLeft>>
  BY <1>2, RestStep, ErrorStep
<1> QED
  BY <1>1, <1>2 DEF Store

LEMMA InsertStep ==
  ASSUME IInv, NEW r \in Request, Insert(r), Counts
  PROVE  IInv'
<1> DEFINE c == call[r]
           row == [id |-> c.id, name |-> c.name, password |-> c.password]
<1>1. pc[r] = "insert" /\ pc[r] \in Serving /\ Store(r, row, 201, "answered")
  BY DEF Insert, Serving
<1>2. /\ c \in Call /\ c.op = "create" /\ c.id \in User /\ c.name \in Name
      /\ c.password \in Password /\ c # NoCall
  BY <1>1, Stages, CallFields DEF Stage
<1>3. row \in Row /\ row.id = c.id
  BY <1>2 DEF Row
<1>4. Calm => \A q \in Request : q # r /\ Names(q, c.id) => users[c.id] # NoRow
  BY <1>1 DEF IInv, Current
<1>5. CASE /\ Lawful(r) /\ users'[c.id] = row
           /\ Answer(r, 201)
  <2>1. call'[r] = c
    BY <1>5 DEF Answer
  <2>2. Honest(r, 201)' /\ 201 \in Codes
    BY <1>2, <1>3, <1>5, <2>1, RowFields DEF Honest, Codes
  <2> QED
    BY <1>1, <1>5, <2>2, AnswerStep
<1> HIDE DEF row
<1> QED
  BY <1>1, <1>3, <1>4, <1>5, StoreStep

LEMMA FindStep ==
  ASSUME IInv, NEW r \in Request, Find(r), Counts
  PROVE  IInv'
<1>1. pc[r] = "find" /\ pc[r] \in Serving /\ UNCHANGED tables
  BY DEF Find, Serving
<1> PICK c \in Call : c = call[r]
  BY <1>1, Stages
<1>2. /\ c.op \in {"update", "change"} /\ c.id \in User /\ c # NoCall
      /\ answer[r] = NoAnswer /\ tokens[r] = NoRow
  BY <1>1, Stages, CallFields DEF Stage
<1>3. CASE users[c.id] = NoRow /\ Refused(r, 404)
  <2>1. Lawful(r) /\ UNCHANGED <<users, tokens, faultsLeft>> /\ Answer(r, 404)
    BY <1>1, <1>3, RestStep DEF Refused
  <2>2. call'[r] = c
    BY <2>1 DEF Answer
  <2>3. Honest(r, 404)' /\ 404 \in Codes
    BY <1>2, <1>3, <2>1, <2>2 DEF Honest, Codes
  <2> QED
    BY <1>1, <2>1, <2>3, AnswerStep
<1>4. CASE /\ users[c.id] # NoRow /\ UNCHANGED faultsLeft
           /\ Goto(r, "write", Updated(c, users[c.id]))
  <2> PICK row : row = Updated(c, users[c.id])
    OBVIOUS
  <2>1. Lawful(r) /\ UNCHANGED <<users, tokens, faultsLeft>> /\ "write" \in Serving
    BY <1>1, <1>4, RestStep DEF Serving
  <2>2. row \in Row /\ row.id = c.id
    BY <1>2, <1>4, UpdatedRow DEF IInv, TypeOK
  <2>3. /\ pc'[r] = "write" /\ copy'[r] = row /\ call'[r] = c /\ answer'[r] = NoAnswer
        /\ tokens'[r] = NoRow
    BY <1>2, <1>4, <2>1 DEF Goto, IInv, TypeOK
  <2>4. Stage(r)'
    BY <1>2, <2>2, <2>3, RowFields DEF Stage
  <2>5. Current(r)'
    BY <1>4, <2>1, <2>3 DEF Current, Updated
  <2> QED
    BY <1>1, <1>4, <2>1, <2>2, <2>4, <2>5, GotoStep
<1>5. CASE Threw(r)
  BY <1>1, <1>5, ThrewStep DEF Counts
<1> QED
  BY <1>3, <1>4, <1>5 DEF Find

LEMMA WriteUserStep ==
  ASSUME IInv, NEW r \in Request, WriteUser(r), Counts
  PROVE  IInv'
<1>1. /\ pc[r] = "write" /\ pc[r] \in Serving
      /\ Store(r, copy[r], 204, IF call[r].op = "change" THEN "revokeAll" ELSE "answered")
  BY DEF WriteUser, Serving
<1> PICK c \in Call : c = call[r]
  BY <1>1, Stages
<1> PICK row \in Row : row = copy[r]
  BY <1>1, Stages DEF Stage
<1>2. /\ c.op \in {"update", "change"} /\ c.id \in User /\ c # NoCall /\ row.id = c.id
      /\ answer[r] = NoAnswer /\ tokens[r] = NoRow
  BY <1>1, Stages, CallFields DEF Stage
<1>3. Calm => users[c.id] # NoRow /\ row = Updated(c, users[c.id])
  BY <1>1, Stages DEF Current
<1>4. CASE /\ Lawful(r) /\ users'[c.id] = row /\ UNCHANGED <<tokens, faultsLeft>>
           /\ c.op = "update" /\ Answer(r, 204)
  <2>1. call'[r] = c
    BY <1>4 DEF Answer
  <2>2. Honest(r, 204)' /\ 204 \in Codes
    BY <1>2, <1>4, <2>1, RowFields DEF Honest, Codes
  <2> QED
    BY <1>1, <1>4, <2>2, AnswerStep
<1>5. CASE /\ Lawful(r) /\ users'[c.id] = row /\ UNCHANGED <<tokens, faultsLeft>>
           /\ c.op = "change" /\ Goto(r, "revokeAll", row)
  <2>1. /\ pc'[r] = "revokeAll" /\ copy'[r] = row /\ call'[r] = c /\ answer'[r] = NoAnswer
        /\ tokens'[r] = NoRow /\ "revokeAll" \in Serving
    BY <1>2, <1>5 DEF Goto, IInv, TypeOK, Serving
  <2>2. Stage(r)'
    BY <1>2, <1>5, <2>1, RowFields DEF Stage
  <2>3. Calm' => row.password = c.password
    <3>1. Calm' => Calm
      BY <1>5, CalmBefore DEF Lawful
    <3>2. users[c.id] # NoRow => users[c.id] \in Row
      BY <1>2 DEF IInv, TypeOK
    <3> QED
      BY <1>3, <1>5, <3>1, <3>2, UpdatedRow
  <2>4. Calm' => Current(r)'
    BY <1>5, <2>1, <2>3 DEF Current
  <2> QED
    BY <1>1, <1>5, <2>1, <2>2, <2>4, GotoStep
<1>6. \/ IInv'
      \/ /\ Lawful(r) /\ users'[row.id] = row /\ UNCHANGED <<tokens, faultsLeft>>
         /\ IF c.op = "change" THEN Goto(r, "revokeAll", row) ELSE Answer(r, 204)
  <2> PICK next : next = IF c.op = "change" THEN "revokeAll" ELSE "answered"
    OBVIOUS
  <2>1. Store(r, row, 204, next)
    BY <1>1
  <2>2. Calm => \A q \in Request : q # r /\ Names(q, row.id) => users[row.id] # NoRow
    BY <1>2, <1>3
  <2> QED
    BY <1>1, <2>1, <2>2, StoreStep
<1> QED
  BY <1>2, <1>4, <1>5, <1>6

-----------------------------------------------------------------------------
(* The statements on table refresh_tokens.                                 *)
LEMMA TokensLawful ==
  ASSUME IInv, NEW r \in Request, UNCHANGED users,
         tokens' \in [Request -> Token \union {NoRow}],
         \A t \in Request : tokens[t] # NoRow =>
           tokens'[t] # NoRow /\ tokens'[t].password = tokens[t].password,
         \A t \in Request : t # r /\ tokens[t] = NoRow => tokens'[t] = NoRow,
         faultsLeft' \in 0..faultsLeft, Counts
  PROVE  Lawful(r)
BY DEF IInv, TypeOK, Lawful, TablesOK, UniqueNames, Counts

(* What is revoked is the token it was.                                    *)
LEMMA RevokedToken ==
  ASSUME IInv, NEW t \in Request, tokens[t] # NoRow
  PROVE  /\ Revoked(t) \in Token /\ Revoked(t) # NoRow
         /\ Revoked(t).password = tokens[t].password
BY TokenKept, TokenFields DEF IInv, TypeOK, Revoked

LEMMA RevokeAllStep ==
  ASSUME IInv, NEW r \in Request, RevokeAll(r), Counts
  PROVE  IInv'
<1>1. pc[r] = "revokeAll" /\ pc[r] \in Serving
  BY DEF RevokeAll, Serving
<1> PICK c \in Call : c = call[r]
  BY <1>1, Stages
<1> PICK row \in Row : row = copy[r]
  BY <1>1, Stages DEF Stage
<1>2. c.op = "change" /\ answer[r] = NoAnswer /\ tokens[r] = NoRow /\ c # NoCall
  BY <1>1, Stages, CallFields DEF Stage
<1>3. PICK o \in Outcome :
        /\ Write(o, /\ tokens' = [t \in Request |->
                          IF t \in TokensOf(c.id) THEN Revoked(t) ELSE tokens[t]]
                    /\ UNCHANGED users)
        /\ IF o = "ok" THEN Goto(r, "findName", row) ELSE Answer(r, 500)
  BY DEF RevokeAll
<1>4. /\ Spend(o)
      /\ \/ /\ tokens' = [t \in Request |-> IF t \in TokensOf(c.id) THEN Revoked(t)
                                            ELSE tokens[t]]
            /\ UNCHANGED users
         \/ o # "ok" /\ UNCHANGED tables
  BY <1>3 DEF Write, Took
<1>5. Lawful(r) /\ UNCHANGED users
  <2>1. CASE UNCHANGED tables
    BY <1>4, <2>1, Outcomes, TablesRest DEF tables, Counts
  <2>2. CASE /\ UNCHANGED users
             /\ tokens' = [t \in Request |-> IF t \in TokensOf(c.id) THEN Revoked(t)
                                             ELSE tokens[t]]
    <3>1. tokens' \in [Request -> Token \union {NoRow}]
      BY <2>2, RevokedToken DEF IInv, TypeOK, TokensOf
    <3>2. \A t \in Request : tokens[t] # NoRow =>
            tokens'[t] # NoRow /\ tokens'[t].password = tokens[t].password
      BY <2>2, RevokedToken
    <3>3. \A t \in Request : t # r /\ tokens[t] = NoRow => tokens'[t] = NoRow
      BY <2>2 DEF TokensOf
    <3> QED
      BY <1>4, <2>2, <3>1, <3>2, <3>3, Outcomes, TokensLawful
  <2> QED
    BY <1>4, <2>1, <2>2
<1>6. CASE o # "ok"
  BY <1>1, <1>3, <1>5, <1>6, ErrorStep
<1>7. CASE o = "ok"
  <2>1. /\ pc'[r] = "findName" /\ copy'[r] = row /\ call'[r] = c /\ answer'[r] = NoAnswer
        /\ "findName" \in Serving /\ Goto(r, "findName", row)
    BY <1>2, <1>3, <1>7 DEF Goto, IInv, TypeOK, Serving
  <2>2. tokens'[r] = NoRow
    BY <1>2, <1>4, <1>7 DEF TokensOf
  <2>3. Stage(r)'
    BY <1>2, <2>1, <2>2, RowFields DEF Stage
  <2>4. Calm' => Calm
    BY <1>5, CalmBefore DEF Lawful
  <2>5. Calm' => Current(r)'
    BY <1>1, <1>2, <1>5, <2>1, <2>4, Stages DEF Current
  <2> QED
    BY <1>1, <1>5, <2>1, <2>3, <2>5, GotoStep
<1> QED
  BY <1>6, <1>7

LEMMA FindByNameStep ==
  ASSUME IInv, NEW r \in Request, FindByName(r), Counts
  PROVE  IInv'
<1>1. pc[r] = "findName" /\ pc[r] \in Serving /\ UNCHANGED tables
  BY DEF FindByName, Serving
<1> PICK c \in Call : c = call[r]
  BY <1>1, Stages
<1>2. /\ c.op \in {"login", "change"} /\ c # NoCall
      /\ answer[r] = NoAnswer /\ tokens[r] = NoRow
  BY <1>1, Stages, CallFields DEF Stage
<1>3. Calm /\ c.op = "change" =>
        /\ NameFor(r) = users[c.id].name /\ users[c.id] # NoRow /\ c.id \in User
        /\ users[c.id].password = c.password
  BY <1>1, <1>2, Stages, CallFields DEF Stage, Current, NameFor
<1>4. ASSUME NEW code \in {403, 404}, Refused(r, code), Calm => c.op # "change"
      PROVE  IInv'
  <2>1. Lawful(r) /\ UNCHANGED <<users, tokens, faultsLeft>> /\ Answer(r, code)
    BY <1>1, <1>4, RestStep DEF Refused
  <2>2. call'[r] = c /\ tokens'[r] = NoRow
    BY <1>2, <2>1 DEF Answer
  <2>3. Calm' => Calm
    BY <2>1, CalmBefore DEF Lawful
  <2>4. Honest(r, code)' /\ code \in Codes
    BY <1>4, <2>2, <2>3 DEF Honest, Codes
  <2> QED
    BY <1>1, <2>1, <2>4, AnswerStep
<1>5. CASE Bearers(NameFor(r)) = {} /\ Refused(r, 404)
  <2>1. Calm => c.op # "change"
    BY <1>3, <1>5 DEF Bearers
  <2> QED
    BY <1>4, <1>5, <2>1
<1>6. ASSUME NEW u \in Bearers(NameFor(r)), users[u].password # c.password, Refused(r, 403)
      PROVE  IInv'
  <2>1. Calm => c.op # "change"
    <3>1. u \in User /\ users[u] # NoRow /\ users[u].name = NameFor(r)
      BY DEF Bearers
    <3> QED
      BY <1>3, <1>6, <3>1 DEF IInv, TypeOK, UniqueNames
  <2> QED
    BY <1>4, <1>6, <2>1
<1>7. ASSUME NEW u \in Bearers(NameFor(r)), users[u].password = c.password,
             Goto(r, "issue", users[u]), UNCHANGED faultsLeft
      PROVE  IInv'
  <2> PICK row \in Row : row = users[u]
    BY DEF Bearers, IInv, TypeOK
  <2>1. Lawful(r) /\ UNCHANGED <<users, tokens, faultsLeft>> /\ "issue" \in Serving
    BY <1>1, <1>7, RestStep DEF Serving
  <2>2. row.id = u /\ u \in User
    BY RowFields DEF Bearers, IInv, TypeOK
  <2>3. /\ pc'[r] = "issue" /\ copy'[r] = row /\ call'[r] = c /\ answer'[r] = NoAnswer
        /\ tokens'[r] = NoRow
    BY <1>2, <1>7, <2>1 DEF Goto, IInv, TypeOK
  <2>4. Stage(r)'
    BY <1>2, <2>3, RowFields DEF Stage
  <2>5. Current(r)'
    BY <1>7, <2>1, <2>2, <2>3 DEF Current
  <2> QED
    BY <1>1, <1>7, <2>1, <2>4, <2>5, GotoStep
<1>8. CASE Threw(r)
  BY <1>1, <1>8, ThrewStep DEF Counts
<1> QED
  BY <1>5, <1>6, <1>7, <1>8 DEF FindByName

LEMMA IssueStep ==
  ASSUME IInv, NEW r \in Request, Issue(r), Counts
  PROVE  IInv'
<1>1. pc[r] = "issue" /\ pc[r] \in Serving
  BY DEF Issue, Serving
<1> PICK c \in Call : c = call[r]
  BY <1>1, Stages
<1> PICK row \in Row : row = copy[r]
  BY <1>1, Stages DEF Stage
<1>2. c.op \in {"login", "change"} /\ c.password \in Password /\ row.id \in User
  BY <1>1, Stages, CallFields, RowFields DEF Stage
<1> PICK t \in Token : t = [user |-> row.id, password |-> c.password,
                            expired |-> FALSE, revoked |-> FALSE]
  BY <1>2 DEF Token
<1>3. t.password = c.password /\ t # NoRow /\ tokens[r] = NoRow
  BY <1>1, TokenFields, Stages
<1>4. PICK o \in Outcome :
        /\ Spend(o)
        /\ IF Took(o) THEN tokens' = [tokens EXCEPT ![r] = t] /\ UNCHANGED users
           ELSE UNCHANGED tables
        /\ Answer(r, IF o = "ok" THEN 200 ELSE 500)
  BY DEF Issue, Write
<1>5. /\ Spend(o)
      /\ \/ tokens' = [tokens EXCEPT ![r] = t] /\ UNCHANGED users
         \/ o # "ok" /\ UNCHANGED tables
  BY <1>4 DEF Took
<1>6. Lawful(r)
  <2>1. CASE UNCHANGED tables
    BY <1>5, <2>1, Outcomes, TablesRest DEF Counts
  <2>2. CASE tokens' = [tokens EXCEPT ![r] = t] /\ UNCHANGED users
    <3>1. /\ tokens' \in [Request -> Token \union {NoRow}]
          /\ \A q \in Request : q # r => tokens'[q] = tokens[q]
      BY <2>2 DEF IInv, TypeOK
    <3> QED
      BY <1>3, <1>5, <2>2, <3>1, Outcomes, TokensLawful
  <2> QED
    BY <1>5, <2>1, <2>2
<1>7. CASE o # "ok"
  BY <1>1, <1>4, <1>6, <1>7, ErrorStep
<1>8. CASE o = "ok"
  <2>1. tokens'[r] = t /\ call'[r] = c /\ Answer(r, 200)
    BY <1>4, <1>5, <1>8 DEF Answer, IInv, TypeOK
  <2>2. Honest(r, 200)' /\ 200 \in Codes
    BY <1>3, <2>1 DEF Honest, Codes
  <2> QED
    BY <1>1, <1>6, <2>1, <2>2, AnswerStep
<1> QED
  BY <1>7, <1>8

LEMMA FindTokenStep ==
  ASSUME IInv, NEW r \in Request, FindToken(r), Counts
  PROVE  IInv'
<1>1. pc[r] = "findToken" /\ pc[r] \in Serving /\ UNCHANGED tables
  BY DEF FindToken, Serving
<1> PICK c \in Call : c = call[r]
  BY <1>1, Stages
<1>2. /\ c.op = "refresh" /\ c.token \in Request /\ c # NoCall
      /\ answer[r] = NoAnswer /\ tokens[r] = NoRow
  BY <1>1, Stages, CallFields DEF Stage
<1>3. ASSUME NEW code \in {200, 403}, Refused(r, code)
      PROVE  IInv'
  <2>1. Lawful(r) /\ UNCHANGED <<users, tokens, faultsLeft>> /\ Answer(r, code)
    BY <1>1, <1>3, RestStep DEF Refused
  <2>2. call'[r] = c /\ tokens'[r] = NoRow
    BY <1>2, <2>1 DEF Answer
  <2>3. Honest(r, code)' /\ code \in Codes
    BY <1>2, <2>2 DEF Honest, Codes
  <2> QED
    BY <1>1, <2>1, <2>3, AnswerStep
<1>4. CASE /\ Unrevoked(c.token) /\ tokens[c.token].expired
           /\ Goto(r, "revoke", NoRow) /\ UNCHANGED faultsLeft
  <2>1. Lawful(r) /\ UNCHANGED <<users, tokens, faultsLeft>> /\ "revoke" \in Serving
    BY <1>1, <1>4, RestStep DEF Serving
  <2>2. /\ pc'[r] = "revoke" /\ call'[r] = c /\ answer'[r] = NoAnswer /\ tokens'[r] = NoRow
    BY <1>2, <1>4, <2>1 DEF Goto, IInv, TypeOK
  <2>3. Stage(r)'
    BY <1>2, <1>4, <2>1, <2>2 DEF Stage, Unrevoked
  <2>4. Current(r)'
    BY <1>2, <1>4, <2>1, <2>2 DEF Current, Unrevoked
  <2> QED
    BY <1>1, <1>4, <2>1, <2>3, <2>4, GotoStep
<1>5. CASE Threw(r)
  BY <1>1, <1>5, ThrewStep DEF Counts
<1> QED
  BY <1>3, <1>4, <1>5 DEF FindToken

LEMMA RevokeOneStep ==
  ASSUME IInv, NEW r \in Request, RevokeOne(r), Counts
  PROVE  IInv'
<1>1. pc[r] = "revoke" /\ pc[r] \in Serving
  BY DEF RevokeOne, Serving
<1> PICK c \in Call : c = call[r]
  BY <1>1, Stages
<1>2. c.op = "refresh" /\ c.token \in Request /\ tokens[c.token] # NoRow /\ tokens[r] = NoRow
  BY <1>1, Stages, CallFields DEF Stage
<1>3. PICK o \in Outcome :
        /\ Spend(o)
        /\ IF Took(o) THEN /\ tokens' = [tokens EXCEPT ![c.token] = Revoked(c.token)]
                           /\ UNCHANGED users
           ELSE UNCHANGED tables
        /\ Answer(r, IF o = "ok" THEN 403 ELSE 500)
  BY DEF RevokeOne, Write
<1>4. /\ Spend(o)
      /\ \/ /\ tokens' = [tokens EXCEPT ![c.token] = Revoked(c.token)]
            /\ UNCHANGED users
         \/ UNCHANGED tables
  BY <1>3
<1>5. Lawful(r) /\ tokens'[r] = NoRow
  <2>1. CASE UNCHANGED tables
    BY <1>2, <1>4, <2>1, Outcomes, TablesRest DEF Counts, tables
  <2>2. CASE tokens' = [tokens EXCEPT ![c.token] = Revoked(c.token)] /\ UNCHANGED users
    <3>1. /\ Revoked(c.token) \in Token /\ Revoked(c.token) # NoRow
          /\ Revoked(c.token).password = tokens[c.token].password
      BY <1>2, RevokedToken
    <3>2. /\ tokens' \in [Request -> Token \union {NoRow}]
          /\ tokens'[c.token] = Revoked(c.token)
          /\ \A q \in Request : q # c.token => tokens'[q] = tokens[q]
      BY <1>2, <2>2, <3>1 DEF IInv, TypeOK
    <3> QED
      BY <1>2, <1>4, <2>2, <3>1, <3>2, Outcomes, TokensLawful
  <2> QED
    BY <1>4, <2>1, <2>2
<1>6. PICK code \in {403, 500} : Answer(r, code)
  BY <1>3
<1>7. call'[r] = c
  BY <1>6 DEF Answer
<1>8. Honest(r, code)' /\ code \in Codes
  BY <1>2, <1>5, <1>7 DEF Honest, Codes
<1> QED
  BY <1>1, <1>5, <1>6, <1>8, AnswerStep

LEMMA ServeStep ==
  ASSUME IInv, NEW r \in Request, Serve(r), Counts
  PROVE  IInv'
BY InsertStep, FindStep, WriteUserStep, RevokeAllStep, FindByNameStep, IssueStep,
   FindTokenStep, RevokeOneStep DEF Serve

-----------------------------------------------------------------------------
(* The steps that are no statement.                                        *)

(* Two requests in service at a time are counted.                          *)
LEMMA OneInService ==
  ASSUME NEW S, IsFiniteSet(S), ~ (Cardinality(S) > 1)
  PROVE  \A p, q \in S : p = q
<1> SUFFICES ASSUME NEW p \in S, NEW q \in S, p # q PROVE FALSE
  OBVIOUS
<1>1. IsFiniteSet({p, q}) /\ Cardinality({p, q}) = 2
  <2>1. IsFiniteSet({p}) /\ Cardinality({p}) = 1
    BY FS_Singleton
  <2>2. {p, q} = {p} \union {q} /\ q \notin {p}
    OBVIOUS
  <2> QED
    BY <2>1, <2>2, FS_AddElement
<1>2. Cardinality({p, q}) <= Cardinality(S) /\ Cardinality(S) \in Nat
  BY <1>1, FS_Subset, FS_CardinalityType
<1> QED
  BY <1>1, <1>2

LEMMA ReceiveStep ==
  ASSUME IInv, NEW r \in Request, NEW c \in Call, Receive(r, c), Counts
  PROVE  IInv'
<1>1. /\ pc[r] = "idle" /\ call' = [call EXCEPT ![r] = c]
      /\ pc' = [pc EXCEPT ![r] = Entry(c.op)]
      /\ UNCHANGED <<users, tokens, copy, answer, faultsLeft>>
      /\ c.op = "create" => /\ users[c.id] = NoRow
                            /\ \A q \in Request : ~ Names(q, c.id)
  BY DEF Receive, tables, Names
<1>2. /\ c.op \in {"create", "update", "change", "login", "refresh"} /\ c # NoCall
      /\ Entry(c.op) \in {"insert", "find", "findName", "findToken"}
      /\ Entry(c.op) = "insert" => c.op = "create"
      /\ Entry(c.op) = "find" => c.op \in {"update", "change"}
      /\ Entry(c.op) = "findName" => c.op = "login"
      /\ Entry(c.op) = "findToken" => c.op = "refresh"
  BY CallFields DEF Entry
<1>3. /\ call'[r] = c /\ pc'[r] = Entry(c.op)
      /\ \A q \in Request : q # r => call'[q] = call[q] /\ pc'[q] = pc[q]
  BY <1>1 DEF IInv, TypeOK
<1>4. Stage(r) /\ call[r] = NoCall /\ answer[r] = NoAnswer /\ tokens[r] = NoRow
  BY <1>1 DEF IInv, Stage
<1>5. InService' = InService \union {r} /\ r \notin InService
  BY <1>1, <1>2, <1>3 DEF InService, Serving
<1>6. IsFiniteSet(InService')
  BY <1>5, FS_AddElement DEF IInv, Alone
<1>7. overlapped' \in BOOLEAN
  BY Zenon DEF Counts
<1>8. ~ overlapped' => ~ (Cardinality(InService') > 1)
  BY Zenon DEF Counts
<1>9. Alone'
  BY <1>6, <1>8, OneInService DEF Alone
<1>10. TypeOK'
  BY <1>1, <1>2, <1>7 DEF IInv, TypeOK, UniqueNames, Serving
<1>11. \A q \in Request : Stage(q)' /\ Honest(q, answer[q])'
  <2> SUFFICES ASSUME NEW q \in Request PROVE Stage(q)' /\ Honest(q, answer[q])'
    OBVIOUS
  <2>1. CASE q = r
    BY <1>1, <1>2, <1>3, <1>4, <2>1 DEF Stage, Honest, NoAnswer, Serving
  <2>2. CASE q # r
    <3>1. Stage(q) /\ Honest(q, answer[q])
      BY DEF IInv
    <3>2. Calm' => Calm
      BY <1>1, CalmBefore, AccountsAssumption DEF IInv, TypeOK, Counts
    <3> QED
      BY <1>1, <1>3, <2>2, <3>1, <3>2 DEF Stage, Honest
  <2> QED
    BY <2>1, <2>2
<1>12. Calm' => \A q \in Request : Current(q)'
  <2> SUFFICES ASSUME Calm', NEW q \in Request PROVE Current(q)'
    OBVIOUS
  <2>1. CASE q = r
    BY <1>1, <1>2, <1>3, <2>1 DEF Current, Names
  <2>2. CASE q # r
    <3>1. q \notin InService'
      BY <1>5, <1>9, <2>2 DEF Alone, Calm
    <3> QED
      BY <1>3, <2>2, <3>1 DEF Current, InService, Serving
  <2> QED
    BY <2>1, <2>2
<1> QED
  BY <1>9, <1>10, <1>11, <1>12 DEF IInv

LEMMA ExpireStep ==
  ASSUME IInv, NEW t \in Request, Expire(t), Counts
  PROVE  IInv'
<1>1. /\ tokens[t] # NoRow /\ tokens' = [tokens EXCEPT ![t].expired = TRUE]
      /\ UNCHANGED <<users, call, pc, copy, answer, faultsLeft>>
  BY DEF Expire
<1>2. /\ tokens'[t] = [tokens[t] EXCEPT !.expired = TRUE]
      /\ \A q \in Request : q # t => tokens'[q] = tokens[q]
      /\ tokens[t] \in Token
  BY <1>1 DEF IInv, TypeOK
<1>3. /\ tokens'[t] \in Token /\ tokens'[t] # NoRow
      /\ tokens'[t].password = tokens[t].password /\ tokens'[t].expired = TRUE
      /\ tokens'[t].revoked = tokens[t].revoked
  BY <1>2, TokenKept, TokenFields DEF Token
<1>4. InService' = InService
  BY <1>1 DEF InService
<1>5. ~ overlapped' => ~ overlapped
  BY Zenon DEF Counts
<1>6. overlapped' \in BOOLEAN
  BY Zenon DEF Counts
<1>7. Alone'
  BY <1>4, <1>5 DEF IInv, Alone
<1>8. TypeOK'
  <2>1. tokens' \in [Request -> Token \union {NoRow}]
    BY <1>1, <1>2, <1>3 DEF IInv, TypeOK
  <2> QED
    BY <1>1, <1>6, <2>1 DEF IInv, TypeOK, UniqueNames
<1>9. Calm' => Calm
  BY <1>1, CalmBefore, AccountsAssumption DEF IInv, TypeOK, Counts
<1>10. ASSUME NEW q \in Request PROVE Stage(q)' /\ Honest(q, answer[q])'
  <2>1. Stage(q) /\ Honest(q, answer[q])
    BY DEF IInv
  <2>2. pc[q] = "revoke" => call[q].token \in Request
    <3>1. pc[q] = "revoke" => call[q] \in Call /\ call[q].op = "refresh"
      BY <2>1 DEF Stage, Serving, IInv, TypeOK
    <3> QED
      BY <3>1, CallFields
  <2>3. \A p \in Request : (tokens'[p] = NoRow <=> tokens[p] = NoRow)
                           /\ tokens'[p].password = tokens[p].password
    BY <1>1, <1>2, <1>3
  <2> QED
    BY <1>1, <1>9, <2>1, <2>2, <2>3 DEF Stage, Honest
<1>11. ASSUME Calm', NEW q \in Request PROVE Current(q)'
  <2>1. Current(q)
    BY <1>9, <1>11 DEF IInv
  <2>2. ASSUME pc[q] = "revoke"
        PROVE  Unrevoked(call[q].token)' /\ tokens'[call[q].token].expired
    <3>1. Unrevoked(call[q].token) /\ tokens[call[q].token].expired
      BY <2>1, <2>2 DEF Current
    <3>2. call[q] \in Call /\ call[q].op = "refresh"
      BY <2>2 DEF IInv, Stage, Serving, TypeOK
    <3>3. call[q].token \in Request
      BY <3>2, CallFields
    <3>4. CASE call[q].token = t
      BY <1>1, <1>2, <1>3, <3>1, <3>4 DEF Unrevoked
    <3>5. CASE call[q].token # t
      BY <1>1, <1>2, <3>1, <3>3, <3>5 DEF Unrevoked
    <3> QED
      BY <3>4, <3>5
  <2> QED
    BY <1>1, <2>1, <2>2 DEF Current, Names, Unrevoked
<1> QED
  BY <1>7, <1>8, <1>10, <1>11 DEF IInv

LEMMA CrashStep ==
  ASSUME IInv, Crash, Counts
  PROVE  IInv'
<1>1. /\ pc' = [r \in Request |-> IF r \in InService THEN "lost" ELSE pc[r]]
      /\ UNCHANGED <<users, tokens, call, copy, answer>>
      /\ faultsLeft' = faultsLeft - 1 /\ faultsLeft > 0
  BY DEF Crash, tables, Spend
<1>2. /\ faultsLeft' \in 0..MaxFaults /\ faultsLeft' # MaxFaults
  BY <1>1, AccountsAssumption DEF IInv, TypeOK
<1>3. ~ Calm'
  BY <1>2 DEF Calm
<1>4. \A r \in Request : /\ pc'[r] \notin Serving /\ pc'[r] \in {"idle", "answered", "lost"}
                         /\ pc'[r] = "idle" => pc[r] = "idle"
  BY <1>1 DEF IInv, TypeOK, InService, Serving
<1>5. InService' = {}
  BY <1>4 DEF InService
<1>6. Alone'
  BY <1>5, FS_EmptySet DEF Alone
<1>7. overlapped' \in BOOLEAN
  BY Zenon DEF Counts
<1>8. TypeOK'
  BY <1>1, <1>2, <1>4, <1>7 DEF IInv, TypeOK, UniqueNames, Serving
<1>9. \A r \in Request : Stage(r)' /\ Honest(r, answer[r])'
  <2> SUFFICES ASSUME NEW r \in Request PROVE Stage(r)' /\ Honest(r, answer[r])'
    OBVIOUS
  <2>1. Stage(r) /\ Honest(r, answer[r])
    BY DEF IInv
  <2> QED
    BY <1>1, <1>3, <1>4, <2>1 DEF Stage, Honest, Serving
<1> QED
  BY <1>3, <1>6, <1>8, <1>9 DEF IInv

LEMMA InitIInv == Init => IInv
<1> SUFFICES ASSUME Init PROVE IInv
  OBVIOUS
<1>1. InService = {}
  BY DEF Init, InService, Serving
<1>2. Alone
  BY <1>1, FS_EmptySet DEF Alone
<1>3. TypeOK
  <2>1. overlapped \in BOOLEAN
    BY Zenon DEF Init
  <2>2. \A u \in User : users[u] # NoRow => users[u].id = u
    BY DEF Init
  <2> QED
    BY <2>1, <2>2, AccountsAssumption DEF Init, TypeOK
<1>4. \A r \in Request : Stage(r) /\ Honest(r, answer[r]) /\ Current(r)
  BY DEF Init, Stage, Honest, Current, NoAnswer, Serving
<1> QED
  BY <1>2, <1>3, <1>4 DEF IInv

LEMMA IInvStep == IInv /\ [Next]_vars => IInv'
<1> SUFFICES ASSUME IInv, [Next]_vars PROVE IInv'
  OBVIOUS
<1>1. ASSUME NEW r \in Request, Serve(r) \/ Expire(r) \/ \E c \in Call : Receive(r, c), Counts
      PROVE  IInv'
  BY <1>1, ServeStep, ExpireStep, ReceiveStep
<1>2. ASSUME Crash, Counts PROVE IInv'
  BY <1>2, CrashStep
<1>3. CASE Quiet \/ UNCHANGED vars
  <2>1. UNCHANGED <<users, tokens, call, pc, copy, answer, overlapped, faultsLeft>>
    BY <1>3 DEF Quiet, vars, tables
  <2>2. TypeOK' /\ Alone' /\ (Calm' <=> Calm)
    BY <2>1 DEF IInv, TypeOK, UniqueNames, Alone, InService, Calm
  <2>3. \A r \in Request : Stage(r)' /\ Honest(r, answer[r])'
    BY <2>1, <2>2 DEF IInv, Stage, Honest
  <2>4. Calm => \A r \in Request : Current(r)'
    BY <2>1 DEF IInv, Current, Names, Unrevoked
  <2> QED
    BY <2>2, <2>3, <2>4 DEF IInv
<1> QED
  BY <1>1, <1>2, <1>3 DEF Next, Counts

LEMMA IInvAlways == Spec => []IInv
<1>1. Init => IInv
  BY InitIInv
<1>2. IInv /\ [Next]_vars => IInv'
  BY IInvStep
<1> QED
  BY <1>1, <1>2, PTL DEF Spec

(* Rows, tokens and copies stay in their types, and no two users have the  *)
(* same name (update_user.rs, create_user.rs).                             *)
THEOREM AccountsTypes == Spec => []TypeOK
<1>1. IInv => TypeOK
  BY DEF IInv
<1> QED
  BY <1>1, IInvAlways, PTL

(* What the user service answers is true, whatever runs beside it.         *)
THEOREM AccountsAnswers == Spec => []AnswerIsTrue
<1>1. IInv => AnswerIsTrue
  BY DEF IInv, AnswerIsTrue, Honest
<1> QED
  BY <1>1, IInvAlways, PTL

-----------------------------------------------------------------------------
(* The refinement of the book of sessions, while all is calm.              *)
LEMMA AccountFacts ==
  ASSUME IInv
  PROVE  /\ \A u \in User : users[u] # NoRow =>
              /\ TheAccounts[u] = Account(u) /\ Account(u) # NoRow
              /\ Account(u).name = users[u].name /\ Account(u).password = users[u].password
              /\ users[u] \in Row /\ users[u].id = u
         /\ \A u \in User : users[u] = NoRow => TheAccounts[u] = NoRow
<1> SUFFICES ASSUME NEW u \in User, users[u] # NoRow
             PROVE  /\ TheAccounts[u] = Account(u) /\ Account(u) # NoRow
                    /\ Account(u).name = users[u].name
                    /\ Account(u).password = users[u].password
                    /\ users[u] \in Row /\ users[u].id = u
  BY DEF TheAccounts
<1>1. users[u] \in Row /\ users[u].id = u
  BY DEF IInv, TypeOK
<1>2. Account(u) \in [name : Name, password : Password]
  BY <1>1, RowFields DEF Account
<1> QED
  BY <1>1, <1>2, AccountsAssumption DEF TheAccounts, Account

(* Nothing the book knows of has changed.                                  *)
LEMMA SameBook ==
  ASSUME UNCHANGED <<users, tokens>>, Calm, Calm',
         \A q \in Request : /\ pc'[q] = "revokeAll" <=> pc[q] = "revokeAll"
                            /\ pc[q] = "revokeAll" => call'[q] = call[q]
  PROVE  UNCHANGED <<TheAccounts, TheSessions, Calm>>
<1>1. \A u : BeingRevoked(u)' <=> BeingRevoked(u)
  BY DEF BeingRevoked
<1>2. OpenSessions' = OpenSessions
  BY <1>1 DEF OpenSessions, Unrevoked
<1>3. TheSessions' = TheSessions
  BY <1>2 DEF TheSessions, Session
<1>4. TheAccounts' = TheAccounts
  BY DEF TheAccounts, Account
<1>5. Calm' = Calm
  BY Zenon DEF Calm
<1> QED
  BY <1>3, <1>4, <1>5

(* Sessions are the same if their tokens are, and nothing is being revoked *)
(* that was not.                                                           *)
LEMMA SameSessions ==
  ASSUME UNCHANGED tokens,
         \A q \in Request : /\ pc'[q] = "revokeAll" <=> pc[q] = "revokeAll"
                            /\ pc[q] = "revokeAll" => call'[q] = call[q]
  PROVE  TheSessions' = TheSessions
<1>1. \A u : BeingRevoked(u)' <=> BeingRevoked(u)
  BY DEF BeingRevoked
<1>2. OpenSessions' = OpenSessions
  BY <1>1 DEF OpenSessions, Unrevoked
<1> QED
  BY <1>2 DEF TheSessions, Session

(* A row is written: only its account changes.                             *)
LEMMA AccountWritten ==
  ASSUME IInv, NEW row \in Row, UniqueNames(users'),
         users' = [users EXCEPT ![row.id] = row]
  PROVE  /\ TheAccounts' = [TheAccounts EXCEPT ![row.id] =
                              [name |-> row.name, password |-> row.password]]
         /\ Book!NameIsFree(row.id, row.name)
<1> PICK p \in User : p = row.id
  BY RowFields
<1>1. /\ users'[p] = row /\ row # NoRow
      /\ \A u \in User : u # p => users'[u] = users[u]
  BY RowFields DEF IInv, TypeOK
<1>2. TheAccounts' = [TheAccounts EXCEPT ![p] =
                        [name |-> row.name, password |-> row.password]]
  BY <1>1 DEF TheAccounts, Account
<1>3. Book!NameIsFree(p, row.name)
  <2> SUFFICES ASSUME NEW q \in User \ {p}, TheAccounts[q] # NoRow
               PROVE  TheAccounts[q].name # row.name
    BY DEF Book!NameIsFree
  <2>1. users[q] # NoRow /\ TheAccounts[q].name = users[q].name
    BY AccountFacts
  <2> QED
    BY <1>1, <2>1 DEF UniqueNames
<1> QED
  BY <1>2, <1>3

BookMoves == Book!BookNext \/ UNCHANGED <<TheAccounts, TheSessions, Calm>>

LEMMA CalmAlone ==
  ASSUME IInv, Calm, NEW r \in Request, pc[r] \in Serving
  PROVE  \A q \in Request : q # r => pc[q] # "revokeAll"
BY DEF IInv, Alone, InService, Calm, Serving

LEMMA ServedQuiet ==
  ASSUME IInv, NEW r \in Request, pc[r] \in Serving, pc[r] # "revokeAll",
         UNCHANGED <<users, tokens, call>>, Calm, Calm',
         NEW l, l # "revokeAll", pc' = [pc EXCEPT ![r] = l]
  PROVE  UNCHANGED <<TheAccounts, TheSessions, Calm>>
<1>1. \A q \in Request : pc'[q] = "revokeAll" <=> pc[q] = "revokeAll"
  BY DEF IInv, TypeOK
<1> QED
  BY <1>1, SameBook

LEMMA StoreCalm ==
  ASSUME IInv, NEW r \in Request, NEW row \in Row, NEW code, NEW next,
         Store(r, row, code, next), Calm'
  PROVE  \/ Answer(r, 500) /\ UNCHANGED <<users, tokens>>
         \/ /\ UniqueNames(users') /\ users' = [users EXCEPT ![row.id] = row]
            /\ UNCHANGED tokens
            /\ IF next = "answered" THEN Answer(r, code) ELSE Goto(r, next, copy[r])
<1>1. CASE /\ UniqueNames([users EXCEPT ![row.id] = row])
           /\ \E o \in Outcome :
                /\ Write(o, users' = [users EXCEPT ![row.id] = row] /\ UNCHANGED tokens)
                /\ IF o # "ok" THEN Answer(r, 500)
                   ELSE IF next = "answered" THEN Answer(r, code) ELSE Goto(r, next, copy[r])
  <2>1. PICK o \in Outcome :
          /\ Write(o, users' = [users EXCEPT ![row.id] = row] /\ UNCHANGED tokens)
          /\ IF o # "ok" THEN Answer(r, 500)
             ELSE IF next = "answered" THEN Answer(r, code) ELSE Goto(r, next, copy[r])
    BY <1>1
  <2>2. o = "ok"
    BY <2>1, Outcomes DEF Write
  <2> QED
    BY <1>1, <2>1, <2>2 DEF Write, Took
<1>2. CASE Answer(r, 500) /\ UNCHANGED <<tables, faultsLeft>>
  BY <1>2 DEF tables
<1> QED
  BY <1>1, <1>2 DEF Store

LEMMA InsertBook ==
  ASSUME IInv, NEW r \in Request, Insert(r), Calm, Calm'
  PROVE  BookMoves
<1> DEFINE c == call[r]
           row == [id |-> c.id, name |-> c.name, password |-> c.password]
<1>1. pc[r] = "insert" /\ pc[r] \in Serving /\ Store(r, row, 201, "answered")
  BY DEF Insert, Serving
<1>2. /\ c \in Call /\ c.op = "create" /\ c.id \in User /\ c.name \in Name
      /\ c.password \in Password
  BY <1>1, Stages, CallFields DEF Stage
<1>3. row \in Row /\ row.id = c.id /\ row.name = c.name /\ row.password = c.password
  BY <1>2 DEF Row
<1>4. users[c.id] = NoRow
  BY <1>1, Stages DEF Current
<1> HIDE DEF row
<1>5. PICK code : Answer(r, code) /\ UNCHANGED tokens
  BY <1>1, <1>3, StoreCalm
<1>6. pc' = [pc EXCEPT ![r] = "answered"] /\ call' = call /\ UNCHANGED tokens
  BY <1>5 DEF Answer
<1>7. CASE UNCHANGED users
  BY <1>1, <1>6, <1>7, ServedQuiet DEF BookMoves
<1>8. CASE UniqueNames(users') /\ users' = [users EXCEPT ![row.id] = row]
  <2>1. /\ TheAccounts' = [TheAccounts EXCEPT ![c.id] = [name |-> c.name, password |-> c.password]]
        /\ Book!NameIsFree(c.id, c.name)
    BY <1>3, <1>8, AccountWritten
  <2>2. \A q \in Request : pc'[q] = "revokeAll" <=> pc[q] = "revokeAll"
    BY <1>1, <1>6 DEF IInv, TypeOK
  <2>3. TheSessions' = TheSessions
    BY <1>6, <2>2, SameSessions
  <2>4. TheAccounts[c.id] = NoRow
    BY <1>2, <1>4, AccountFacts
  <2>5. Book!SignUp(c.id, [name |-> c.name, password |-> c.password])
    BY <2>1, <2>3, <2>4 DEF Book!SignUp
  <2> QED
    BY <1>2, <2>5 DEF BookMoves, Book!BookNext
<1> QED
  BY <1>1, <1>3, <1>7, <1>8, StoreCalm

LEMMA WriteUserBook ==
  ASSUME IInv, NEW r \in Request, WriteUser(r), Calm, Calm'
  PROVE  BookMoves
<1>1. /\ pc[r] = "write" /\ pc[r] \in Serving
      /\ Store(r, copy[r], 204, IF call[r].op = "change" THEN "revokeAll" ELSE "answered")
  BY DEF WriteUser, Serving
<1> PICK c \in Call : c = call[r]
  BY <1>1, Stages
<1> PICK row \in Row : row = copy[r]
  BY <1>1, Stages DEF Stage
<1>2. /\ c.op \in {"update", "change"} /\ c.id \in User /\ row.id = c.id
      /\ users[c.id] # NoRow /\ row = Updated(c, users[c.id])
  BY <1>1, Stages, CallFields DEF Stage, Current
<1>3. /\ users[c.id] \in Row /\ TheAccounts[c.id] = Account(c.id) /\ Account(c.id) # NoRow
      /\ Account(c.id).name = users[c.id].name
      /\ Account(c.id).password = users[c.id].password
  BY <1>2, AccountFacts
<1>4. \/ Answer(r, 500) /\ UNCHANGED <<users, tokens>>
      \/ /\ UniqueNames(users') /\ users' = [users EXCEPT ![row.id] = row]
         /\ UNCHANGED tokens
         /\ IF c.op = "change" THEN Goto(r, "revokeAll", row) ELSE Answer(r, 204)
  <2> PICK next : next = IF c.op = "change" THEN "revokeAll" ELSE "answered"
    OBVIOUS
  <2>1. Store(r, row, 204, next)
    BY <1>1
  <2> QED
    BY <2>1, StoreCalm
<1>5. CASE Answer(r, 500) /\ UNCHANGED <<users, tokens>>
  BY <1>1, <1>5, ServedQuiet DEF BookMoves, Answer
<1>6. ASSUME UniqueNames(users'), users' = [users EXCEPT ![row.id] = row]
      PROVE  /\ TheAccounts' = [TheAccounts EXCEPT ![c.id] =
                                  [name |-> row.name, password |-> row.password]]
             /\ Book!NameIsFree(c.id, row.name)
  BY <1>2, <1>6, AccountWritten
<1>7. CASE /\ UniqueNames(users') /\ users' = [users EXCEPT ![row.id] = row]
           /\ UNCHANGED tokens /\ c.op = "update" /\ Answer(r, 204)
  <2>1. row.password = users[c.id].password /\ row.name \in Name
    BY <1>2, <1>3, <1>7, UpdatedRow, RowFields
  <2>2. [Account(c.id) EXCEPT !.name = row.name] = [name |-> row.name, password |-> row.password]
    BY <2>1 DEF Account
  <2>3. TheAccounts' = [TheAccounts EXCEPT ![c.id].name = row.name]
    BY <1>3, <1>6, <1>7, <2>2 DEF TheAccounts
  <2>4. \A q \in Request : pc'[q] = "revokeAll" <=> pc[q] = "revokeAll"
    BY <1>1, <1>7 DEF Answer, IInv, TypeOK
  <2>5. TheSessions' = TheSessions
    BY <1>7, <2>4, SameSessions DEF Answer
  <2>6. Book!Rename(c.id, row.name)
    BY <1>3, <1>6, <1>7, <2>3, <2>5 DEF Book!Rename
  <2> QED
    BY <1>2, <2>1, <2>6 DEF BookMoves, Book!BookNext
<1>8. CASE /\ UniqueNames(users') /\ users' = [users EXCEPT ![row.id] = row]
           /\ UNCHANGED tokens /\ c.op = "change" /\ Goto(r, "revokeAll", row)
  <2>1. /\ row.password = c.password /\ row.name = users[c.id].name
        /\ c.password \in Password
    BY <1>2, <1>3, <1>8, UpdatedRow, CallFields
  <2>2. [Account(c.id) EXCEPT !.password = c.password] =
          [name |-> row.name, password |-> row.password]
    BY <2>1 DEF Account
  <2>3. TheAccounts' = [TheAccounts EXCEPT ![c.id].password = c.password]
    BY <1>3, <1>6, <1>8, <2>2 DEF TheAccounts
  <2>4. TheSessions' = {s \in TheSessions : s.owner # c.id}
    <3>1. \A u : ~ BeingRevoked(u)
      BY <1>1, CalmAlone DEF BeingRevoked
    <3>2. \A u : BeingRevoked(u)' <=> u = c.id
      BY <1>1, <1>8, CalmAlone DEF BeingRevoked, Goto, IInv, TypeOK
    <3>3. OpenSessions' = {t \in OpenSessions : tokens[t].user # c.id}
      BY <1>8, <3>1, <3>2 DEF OpenSessions, Unrevoked
    <3>4. \A t \in Request : Session(t)' = Session(t) /\ Session(t).owner = tokens[t].user
      BY <1>8 DEF Session
    <3> QED
      BY <3>3, <3>4 DEF TheSessions, OpenSessions
  <2>5. Book!ChangePassword(c.id, c.password)
    BY <1>3, <2>3, <2>4 DEF Book!ChangePassword
  <2> QED
    BY <1>2, <2>1, <2>5 DEF BookMoves, Book!BookNext
<1> QED
  BY <1>2, <1>4, <1>5, <1>7, <1>8

LEMMA RevokeAllBook ==
  ASSUME IInv, NEW r \in Request, RevokeAll(r), Calm, Calm'
  PROVE  BookMoves
<1>1. pc[r] = "revokeAll" /\ pc[r] \in Serving
  BY DEF RevokeAll, Serving
<1> PICK c : c = call[r]
  OBVIOUS
<1>2. PICK o \in Outcome :
        /\ Write(o, /\ tokens' = [t \in Request |->
                          IF t \in TokensOf(c.id) THEN Revoked(t) ELSE tokens[t]]
                    /\ UNCHANGED users)
        /\ IF o = "ok" THEN Goto(r, "findName", copy[r]) ELSE Answer(r, 500)
  BY DEF RevokeAll
<1>3. o = "ok"
  BY <1>2, Outcomes DEF Write
<1>4. /\ tokens' = [t \in Request |-> IF t \in TokensOf(c.id) THEN Revoked(t) ELSE tokens[t]]
      /\ UNCHANGED users /\ Goto(r, "findName", copy[r])
  BY <1>2, <1>3 DEF Write, Took
<1>5. /\ \A u : BeingRevoked(u) <=> u = c.id
      /\ \A u : ~ BeingRevoked(u)'
  BY <1>1, <1>4, CalmAlone DEF BeingRevoked, Goto, IInv, TypeOK
<1>6. ASSUME NEW t \in Request, tokens[t] # NoRow, tokens[t].user = c.id
      PROVE  tokens'[t].revoked
  <2>1. tokens'[t] = Revoked(t) /\ tokens[t] \in Token
    BY <1>4, <1>6 DEF TokensOf, IInv, TypeOK
  <2> QED
    BY <2>1 DEF Revoked, Token
<1>7. ASSUME NEW t \in Request, ~ (tokens[t] # NoRow /\ tokens[t].user = c.id)
      PROVE  tokens'[t] = tokens[t]
  BY <1>4, <1>7 DEF TokensOf
<1>8. OpenSessions' = OpenSessions
  BY <1>5, <1>6, <1>7 DEF OpenSessions, Unrevoked
<1>9. \A t \in OpenSessions : Session(t)' = Session(t)
  BY <1>5, <1>7 DEF OpenSessions, Session
<1>10. TheSessions' = TheSessions
  BY <1>8, <1>9 DEF TheSessions
<1>11. TheAccounts' = TheAccounts
  BY <1>4 DEF TheAccounts, Account
<1>12. Calm' = Calm
  BY Zenon DEF Calm
<1> QED
  BY <1>10, <1>11, <1>12 DEF BookMoves

LEMMA IssueBook ==
  ASSUME IInv, NEW r \in Request, Issue(r), Calm, Calm'
  PROVE  BookMoves
<1>1. pc[r] = "issue" /\ pc[r] \in Serving
  BY DEF Issue, Serving
<1> PICK c : c = call[r]
  OBVIOUS
<1> PICK row \in Row : row = copy[r]
  BY <1>1, Stages DEF Stage
<1> DEFINE t == [user |-> row.id, password |-> c.password, expired |-> FALSE, revoked |-> FALSE]
<1>2. PICK o \in Outcome :
        /\ Spend(o)
        /\ IF Took(o) THEN tokens' = [tokens EXCEPT ![r] = t] /\ UNCHANGED users
           ELSE UNCHANGED tables
        /\ Answer(r, IF o = "ok" THEN 200 ELSE 500)
  BY DEF Issue, Write
<1>3. o = "ok"
  BY <1>2, Outcomes
<1>4. /\ tokens' = [tokens EXCEPT ![r] = t] /\ UNCHANGED users
      /\ call' = call /\ pc' = [pc EXCEPT ![r] = "answered"]
  BY <1>2, <1>3 DEF Took, Answer
<1>5. tokens'[r] = t /\ \A q \in Request : q # r => tokens'[q] = tokens[q]
  BY <1>4 DEF IInv, TypeOK
<1>6. /\ tokens[r] = NoRow /\ row.id \in User /\ users[row.id] = row /\ c.password = row.password
      /\ row # NoRow
  BY <1>1, Stages, RowFields DEF Current
<1>7. t # NoRow
  <2>1. c.password \in Password
    BY <1>6, RowFields
  <2>2. t \in Token
    BY <1>6, <2>1 DEF Token
  <2> QED
    BY <2>2, TokenFields
<1>8. /\ TheAccounts[row.id] # NoRow /\ TheAccounts[row.id].password = c.password
  BY <1>6, AccountFacts
<1>9. \A u : ~ BeingRevoked(u) /\ ~ BeingRevoked(u)'
  BY <1>1, <1>4, CalmAlone DEF BeingRevoked, IInv, TypeOK
<1>10. OpenSessions' = OpenSessions \union {r} /\ r \notin OpenSessions
  BY <1>5, <1>6, <1>7, <1>9 DEF OpenSessions, Unrevoked
<1>11. \A q \in OpenSessions : Session(q)' = Session(q)
  BY <1>5, <1>10 DEF OpenSessions, Session
<1>12. Session(r)' = [key |-> r, owner |-> row.id, password |-> TheAccounts[row.id].password,
                      expired |-> FALSE]
  BY <1>5, <1>8 DEF Session
<1>13. TheSessions' = TheSessions \union {Session(r)'}
  BY <1>10, <1>11 DEF TheSessions
<1>14. \A s \in TheSessions : s.key # r
  BY <1>10 DEF TheSessions, Session
<1>15. TheAccounts' = TheAccounts
  BY <1>4 DEF TheAccounts, Account
<1>16. Book!OpenSession(r, row.id)
  BY <1>8, <1>12, <1>13, <1>14, <1>15 DEF Book!OpenSession
<1> QED
  BY <1>6, <1>16 DEF BookMoves, Book!BookNext

LEMMA RevokeOneBook ==
  ASSUME IInv, NEW r \in Request, RevokeOne(r), Calm, Calm'
  PROVE  BookMoves
<1>1. pc[r] = "revoke" /\ pc[r] \in Serving
  BY DEF RevokeOne, Serving
<1> PICK t : t = call[r].token
  OBVIOUS
<1>2. t \in Request /\ Unrevoked(t) /\ tokens[t].expired
  BY <1>1, Stages, CallFields DEF Stage, Current
<1>3. PICK o \in Outcome :
        /\ Spend(o)
        /\ IF Took(o) THEN /\ tokens' = [tokens EXCEPT ![t] = Revoked(t)]
                           /\ UNCHANGED users
           ELSE UNCHANGED tables
        /\ Answer(r, IF o = "ok" THEN 403 ELSE 500)
  BY DEF RevokeOne, Write
<1>4. o = "ok"
  BY <1>3, Outcomes
<1>5. /\ tokens' = [tokens EXCEPT ![t] = Revoked(t)] /\ UNCHANGED users
      /\ call' = call /\ pc' = [pc EXCEPT ![r] = "answered"]
  BY <1>3, <1>4 DEF Took, Answer
<1>6. /\ tokens'[t] = Revoked(t) /\ \A q \in Request : q # t => tokens'[q] = tokens[q]
      /\ tokens[t] \in Token
  BY <1>2, <1>5 DEF IInv, TypeOK, Unrevoked
<1>7. tokens'[t].revoked
  BY <1>6 DEF Revoked, Token
<1>8. \A u : ~ BeingRevoked(u) /\ ~ BeingRevoked(u)'
  BY <1>1, <1>5, CalmAlone DEF BeingRevoked, IInv, TypeOK
<1>9. OpenSessions' = OpenSessions \ {t} /\ t \in OpenSessions
  BY <1>2, <1>6, <1>7, <1>8 DEF OpenSessions, Unrevoked
<1>10. \A q \in OpenSessions \ {t} : Session(q)' = Session(q) /\ Session(q) # Session(t)
  BY <1>6 DEF OpenSessions, Session
<1>11. TheSessions' = TheSessions \ {Session(t)} /\ Session(t) \in TheSessions
  BY <1>9, <1>10 DEF TheSessions
<1>12. TheAccounts' = TheAccounts
  BY <1>5 DEF TheAccounts, Account
<1>13. Session(t).expired
  BY <1>2 DEF Session
<1>14. Book!CloseSession(Session(t))
  BY <1>11, <1>12, <1>13 DEF Book!CloseSession
<1> QED
  BY <1>11, <1>14 DEF BookMoves, Book!BookNext

(* A request that only reads goes on, or is answered.                      *)
LEMMA ReadBook ==
  ASSUME IInv, NEW r \in Request, Calm, Calm',
         pc[r] \in {"find", "findName", "findToken"}, UNCHANGED tables,
         \/ \E code : Answer(r, code)
         \/ \E l, row : l # "revokeAll" /\ Goto(r, l, row)
  PROVE  BookMoves
<1>1. pc[r] \in Serving /\ pc[r] # "revokeAll" /\ UNCHANGED <<users, tokens>>
  BY DEF Serving, tables
<1>2. \E l : l # "revokeAll" /\ pc' = [pc EXCEPT ![r] = l] /\ UNCHANGED call
  BY DEF Answer, Goto
<1> QED
  BY <1>1, <1>2, ServedQuiet DEF BookMoves

LEMMA FindBook ==
  ASSUME IInv, NEW r \in Request, Find(r), Calm, Calm'
  PROVE  BookMoves
<1>1. /\ pc[r] = "find" /\ UNCHANGED tables
      /\ \/ \E code : Answer(r, code)
         \/ \E row : Goto(r, "write", row)
  BY DEF Find, Refused, Threw
<1> QED
  BY <1>1, ReadBook

LEMMA FindByNameBook ==
  ASSUME IInv, NEW r \in Request, FindByName(r), Calm, Calm'
  PROVE  BookMoves
<1>1. /\ pc[r] = "findName" /\ UNCHANGED tables
      /\ \/ \E code : Answer(r, code)
         \/ \E row : Goto(r, "issue", row)
  BY DEF FindByName, Refused, Threw
<1> QED
  BY <1>1, ReadBook

LEMMA FindTokenBook ==
  ASSUME IInv, NEW r \in Request, FindToken(r), Calm, Calm'
  PROVE  BookMoves
<1>1. /\ pc[r] = "findToken" /\ UNCHANGED tables
      /\ \/ \E code : Answer(r, code)
         \/ \E row : Goto(r, "revoke", row)
  BY DEF FindToken, Refused, Threw
<1> QED
  BY <1>1, ReadBook

LEMMA ReceiveBook ==
  ASSUME IInv, NEW r \in Request, NEW c \in Call, Receive(r, c), Calm, Calm'
  PROVE  BookMoves
<1>1. /\ pc[r] = "idle" /\ UNCHANGED <<users, tokens>>
      /\ pc' = [pc EXCEPT ![r] = Entry(c.op)] /\ call' = [call EXCEPT ![r] = c]
  BY DEF Receive, tables
<1>2. Entry(c.op) # "revokeAll"
  BY CallFields DEF Entry
<1>3. \A q \in Request : /\ pc'[q] = "revokeAll" <=> pc[q] = "revokeAll"
                         /\ pc[q] = "revokeAll" => call'[q] = call[q]
  BY <1>1, <1>2 DEF IInv, TypeOK
<1> QED
  BY <1>1, <1>3, SameBook DEF BookMoves

(* A session that is open expires; one that is closed is no matter.        *)
LEMMA ExpireBook ==
  ASSUME IInv, NEW t \in Request, Expire(t), Calm, Calm'
  PROVE  BookMoves
<1>1. /\ tokens[t] # NoRow /\ UNCHANGED <<users, call, pc>>
      /\ tokens' = [tokens EXCEPT ![t].expired = TRUE]
  BY DEF Expire
<1>2. tokens[t] \in Token /\ tokens'[t] = [tokens[t] EXCEPT !.expired = TRUE]
  BY <1>1 DEF IInv, TypeOK
<1>3. \A q \in Request : q # t => tokens'[q] = tokens[q]
  BY <1>1 DEF IInv, TypeOK
<1>4. /\ tokens'[t] # NoRow /\ tokens'[t].user = tokens[t].user
      /\ tokens'[t].password = tokens[t].password /\ tokens'[t].expired = TRUE
  BY <1>2, TokenKept, TokenFields DEF Token
<1>5. tokens'[t].revoked <=> tokens[t].revoked
  BY <1>2 DEF Token
<1>6. \A u : BeingRevoked(u)' <=> BeingRevoked(u)
  BY <1>1 DEF BeingRevoked
<1>7. OpenSessions' = OpenSessions
  BY <1>1, <1>3, <1>4, <1>5, <1>6 DEF OpenSessions, Unrevoked
<1>8. \A q \in Request : q # t => Session(q)' = Session(q)
  BY <1>3 DEF Session
<1>9. TheAccounts' = TheAccounts
  BY <1>1 DEF TheAccounts, Account
<1>10. Calm' = Calm
  BY Zenon DEF Calm
<1>11. CASE t \notin OpenSessions
  <2>1. TheSessions' = TheSessions
    BY <1>7, <1>8, <1>11 DEF TheSessions, OpenSessions
  <2> QED
    BY <1>9, <1>10, <2>1 DEF BookMoves
<1>12. CASE t \in OpenSessions
  <2>1. Session(t)' = [Session(t) EXCEPT !.expired = TRUE]
    <3> DEFINE late == [key |-> t, owner |-> tokens[t].user, password |-> tokens[t].password,
                        expired |-> TRUE]
    <3>1. Session(t)' = late
      BY <1>4 DEF Session
    <3>2. [Session(t) EXCEPT !.expired = TRUE] = late
      <4>1. PICK u, p, e, v : /\ u = tokens[t].user /\ p = tokens[t].password
                              /\ e = tokens[t].expired /\ v = TRUE
        BY Zenon
      <4>2. PICK s : s = [key |-> t, owner |-> u, password |-> p, expired |-> e]
        BY Zenon
      <4>3. [s EXCEPT !.expired = v] =
              [key |-> t, owner |-> u, password |-> p, expired |-> v]
        BY <4>2
      <4>4. s = Session(t)
        BY <4>1, <4>2, Zenon DEF Session
      <4> QED
        BY <4>1, <4>3, <4>4, Zenon
    <3> QED
      BY <3>1, <3>2
  <2>2. \A q \in OpenSessions : q # t => Session(q) # Session(t)
    BY DEF Session
  <2>3. TheSessions' = (TheSessions \ {Session(t)}) \union {Session(t)'}
    BY <1>7, <1>8, <1>12, <2>2 DEF TheSessions, OpenSessions
  <2>4. Book!ExpireSession(Session(t))
    BY <1>9, <2>1, <2>3 DEF Book!ExpireSession
  <2>5. Session(t) \in TheSessions
    BY <1>12 DEF TheSessions
  <2> QED
    BY <2>4, <2>5 DEF BookMoves, Book!BookNext
<1> QED
  BY <1>11, <1>12

-----------------------------------------------------------------------------
(* A statement spends one of the faults, or none.                          *)
LEMMA FaultsSpent ==
  ASSUME IInv, NEW r \in Request, Serve(r) \/ Expire(r) \/ \E c \in Call : Receive(r, c)
  PROVE  faultsLeft' \in 0..faultsLeft
<1>1. UNCHANGED faultsLeft => faultsLeft' \in 0..faultsLeft
  BY AccountsAssumption DEF IInv, TypeOK
<1>2. (\E o \in Outcome : Spend(o)) => faultsLeft' \in 0..faultsLeft
  BY Outcomes
<1>3. UNCHANGED faultsLeft \/ \E o \in Outcome : Spend(o)
  <2>1. ASSUME NEW row, NEW code, NEW next, Store(r, row, code, next)
        PROVE  UNCHANGED faultsLeft \/ \E o \in Outcome : Spend(o)
    BY <2>1, Zenon DEF Store, Write
  <2>2. CASE Insert(r) \/ WriteUser(r)
    BY <2>1, <2>2, Zenon DEF Insert, WriteUser
  <2>3. CASE Find(r) \/ FindByName(r) \/ FindToken(r)
    BY <2>3, Zenon DEF Find, FindByName, FindToken, Refused, Threw
  <2>4. CASE RevokeAll(r) \/ Issue(r) \/ RevokeOne(r)
    BY <2>4, Zenon DEF RevokeAll, Issue, RevokeOne, Write
  <2>5. CASE Expire(r) \/ \E c \in Call : Receive(r, c)
    BY <2>5, Zenon DEF Expire, Receive
  <2> QED
    BY <2>2, <2>3, <2>4, <2>5 DEF Serve
<1> QED
  BY <1>1, <1>2, <1>3

LEMMA StepBook == IInv /\ [Next]_vars => [Book!BookNext]_<<TheAccounts, TheSessions, Calm>>
<1> SUFFICES ASSUME IInv, [Next]_vars PROVE BookMoves
  BY DEF BookMoves
<1>1. ASSUME ~ Calm' PROVE BookMoves
  BY <1>1 DEF BookMoves, Book!BookNext
<1>2. ASSUME NEW r \in Request, Serve(r) \/ Expire(r) \/ \E c \in Call : Receive(r, c),
             Counts, Calm'
      PROVE  BookMoves
  <2>1. Calm
    BY <1>2, FaultsSpent, CalmBefore DEF Counts
  <2>2. CASE Serve(r)
    BY <1>2, <2>1, <2>2, InsertBook, FindBook, WriteUserBook, RevokeAllBook, FindByNameBook,
       IssueBook, FindTokenBook, RevokeOneBook DEF Serve
  <2> QED
    BY <1>2, <2>1, <2>2, ExpireBook, ReceiveBook
<1>3. ASSUME Crash PROVE ~ Calm'
  BY <1>3, AccountsAssumption DEF IInv, TypeOK, Crash, Spend, Calm
<1>4. ASSUME Quiet \/ UNCHANGED vars PROVE BookMoves
  <2>1. UNCHANGED <<users, tokens, call, pc, overlapped, faultsLeft>>
    BY <1>4 DEF Quiet, vars, tables
  <2>2. Calm' <=> Calm
    BY <2>1 DEF Calm
  <2>3. CASE Calm
    BY <2>1, <2>2, <2>3, SameBook DEF BookMoves
  <2> QED
    BY <1>1, <2>2, <2>3
<1> QED
  BY <1>1, <1>2, <1>3, <1>4 DEF Next, Counts

LEMMA InitBook == Init => Book!BookInit
<1> SUFFICES ASSUME Init PROVE Book!BookInit
  OBVIOUS
<1>1. TheAccounts \in [User -> [name : Name, password : Password] \union {NoRow}]
  <2>1. ASSUME NEW u \in User, users[u] # NoRow
        PROVE  Account(u) \in [name : Name, password : Password]
    BY <2>1, RowFields DEF Init, Account
  <2> QED
    BY <2>1 DEF TheAccounts
<1>2. TheSessions = {}
  BY DEF Init, TheSessions, OpenSessions, Unrevoked
<1>3. Calm = TRUE
  BY Zenon DEF Init, Calm
<1> QED
  BY <1>1, <1>2, <1>3 DEF Book!BookInit

(* In calm the service is the book of sessions: whoever has a session      *)
(* open got it with the password the account has now, and a change of the  *)
(* password closes them all (update_auth_details, issue_token).            *)
THEOREM AccountsImplementBook == Spec => ImplementsSessionBook
<1>1. Init => Book!BookInit
  BY InitBook
<1>2. IInv /\ [Next]_vars => [Book!BookNext]_<<TheAccounts, TheSessions, Calm>>
  BY StepBook
<1>3. IInv /\ [Next]_vars => [Book!BookNext]_Book!bookVars
  BY <1>2 DEF Book!bookVars
<1> QED
  BY <1>1, <1>3, IInvAlways, PTL DEF Spec, ImplementsSessionBook, Book!SessionBookSpec
=============================================================================
