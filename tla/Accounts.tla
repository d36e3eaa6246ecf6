------------------------------ MODULE Accounts ------------------------------
(***************************************************************************)
(* The user service (services/user_service): accounts, passwords and the   *)
(* refresh tokens of sessions.                                             *)
(*                                                                         *)
(* A request runs through a few statements of PostgreSQL, each a           *)
(* transaction of its own on a pooled connection: between two of them any  *)
(* other request may run, any of them may fail, and the process may die.   *)
(* A row of table users is read, changed in memory and written whole.      *)
(***************************************************************************)
EXTENDS Integers, FiniteSets, FiniteSetsExt

CONSTANTS
  Request,      \* HTTP requests that change something, each sent once
  User,         \* random UUIDs of users
  Name,
  Password,     \* a hash verifies against the password it was made of only
  Member,       \* the users there are before we look
  NoRow,        \* no such row, no copy of one
  Keep,         \* a name that a PATCH leaves out
  NoCall,       \* a request that has not arrived
  Threads,      \* requests in service at a time: bounds the model
  Faults,       \* the faults that may happen: "failed", "unknown", "crash"
  MaxFaults     \* how many of them may happen: bounds the model

VARIABLES
  users,        \* table users: id -> row or NoRow
  tokens,       \* table refresh_tokens: the token that a request issued
  call,         \* what each request asks for
  pc,           \* the statement a request makes next
  copy,         \* the row of users in the memory of a request
  answer,       \* the HTTP status it was answered with
  overlapped,   \* two requests have been in service at a time
  faultsLeft    \* faults that may still happen

tables == <<users, tokens>>
vars == <<tables, call, pc, copy, answer, overlapped, faultsLeft>>

-----------------------------------------------------------------------------
Row == [id : User, name : Name, password : Password]

(* A token, with the password that was verified when it was issued in      *)
(* place of its hash and secret.                                           *)
Token == [user : User, password : Password, expired : BOOLEAN, revoked : BOOLEAN]

(* The requests.  A user id is drawn by create_user; it is part of the     *)
(* call here, and nobody has named it before.  A refresh token is sent     *)
(* with the right secret or a wrong one.                                   *)
Create == [op : {"create"}, id : User, name : Name, password : Password]
Update == [op : {"update"}, id : User, name : Name \union {Keep}]
Change == [op : {"change"}, id : User, password : Password]
Login == [op : {"login"}, name : Name, password : Password]
Refresh == [op : {"refresh"}, token : Request, genuine : BOOLEAN]
Call == Create \union Update \union Change \union Login \union Refresh

ASSUME AccountsAssumption ==
  /\ NoRow \notin Row /\ NoRow \notin Token
  /\ NoRow \notin [name : Name, password : Password]
  /\ Keep \notin Name
  /\ NoCall \notin Call
  /\ Member \subseteq User
  /\ Threads \in Nat \ {0}
  /\ Faults \subseteq {"failed", "unknown", "crash"}
  /\ MaxFaults \in Nat

Entry(op) ==
  CASE op = "create" -> "insert"
    [] op \in {"update", "change"} -> "find"
    [] op = "login" -> "findName"
    [] op = "refresh" -> "findToken"

Serving == {"insert", "find", "write", "revokeAll", "findName", "issue",
            "findToken", "revoke"}
InService == {r \in Request : pc[r] \in Serving}
Codes == {200, 201, 204, 403, 404, 500}
NoAnswer == 0

(* No two users have the same name: the UNIQUE of the table.               *)
UniqueNames(table) ==
  \A u, v \in User :
    table[u] # NoRow /\ table[v] # NoRow /\ table[u].name = table[v].name => u = v

TypeOK ==
  /\ users \in [User -> Row \union {NoRow}]
  /\ \A u \in User : users[u] # NoRow => users[u].id = u
  /\ UniqueNames(users)
  /\ tokens \in [Request -> Token \union {NoRow}]
  /\ call \in [Request -> Call \union {NoCall}]
  /\ pc \in [Request -> {"idle", "answered", "lost"} \union Serving]
  /\ copy \in [Request -> Row \union {NoRow}]
  /\ answer \in [Request -> Codes \union {NoAnswer}]
  /\ overlapped \in BOOLEAN
  /\ faultsLeft \in 0..MaxFaults

Init ==
  /\ users \in [User -> Row \union {NoRow}]
  /\ \A u \in User : IF u \in Member THEN users[u] # NoRow /\ users[u].id = u
                     ELSE users[u] = NoRow
  /\ UniqueNames(users)
  /\ tokens = [r \in Request |-> NoRow]
  /\ call = [r \in Request |-> NoCall]
  /\ pc = [r \in Request |-> "idle"]
  /\ copy = [r \in Request |-> NoRow]
  /\ answer = [r \in Request |-> NoAnswer]
  /\ overlapped = FALSE
  /\ faultsLeft = MaxFaults

-----------------------------------------------------------------------------
(* How a statement ends, as seen by its request: it returned, it failed    *)
(* and changed nothing, or its answer was lost.                            *)
Outcome ==
  {"ok"} \union (IF faultsLeft > 0 THEN Faults \cap {"failed", "unknown"} ELSE {})
Took(o) == o \in {"ok", "unknown"}
Spend(o) == faultsLeft' = IF o = "ok" THEN faultsLeft ELSE faultsLeft - 1

Goto(r, l, row) ==
  /\ pc' = [pc EXCEPT ![r] = l]
  /\ copy' = [copy EXCEPT ![r] = row]
  /\ UNCHANGED <<call, answer>>

(* ApiError::into_response, or the handler's own status.                   *)
Answer(r, code) ==
  /\ pc' = [pc EXCEPT ![r] = "answered"]
  /\ answer' = [answer EXCEPT ![r] = code]
  /\ copy' = [copy EXCEPT ![r] = NoRow]
  /\ UNCHANGED call

(* A writing statement: its effect if it took, then on, or 500.            *)
Write(o, Effect) == Spend(o) /\ IF Took(o) THEN Effect ELSE UNCHANGED tables

(* Nothing was found, or the statement threw, and the request ends here.   *)
Refused(r, code) == Answer(r, code) /\ UNCHANGED faultsLeft
Threw(r) ==
  /\ "failed" \in Outcome /\ Spend("failed")
  /\ Answer(r, 500)

Receive(r, c) ==
  /\ pc[r] = "idle"
  /\ Cardinality(InService) < Threads
  /\ c.op = "create" =>
       /\ users[c.id] = NoRow
       /\ \A q \in Request :
            call[q] # NoCall /\ call[q].op \in {"create", "update", "change"} =>
              call[q].id # c.id
  /\ call' = [call EXCEPT ![r] = c]
  /\ pc' = [pc EXCEPT ![r] = Entry(c.op)]
  /\ UNCHANGED <<tables, copy, answer, faultsLeft>>

-----------------------------------------------------------------------------
(* users.                                                                  *)

(* A mutant: the column name is not unique.                                *)
StoreAny(r, row, code, next) ==
  \E o \in Outcome :
    /\ Write(o, users' = [users EXCEPT ![row.id] = row] /\ UNCHANGED tokens)
    /\ IF o # "ok" THEN Answer(r, 500)
       ELSE IF next = "answered" THEN Answer(r, code) ELSE Goto(r, next, copy[r])

(* INSERT or UPDATE of a row: the database refuses a name that another     *)
(* user has.  next is the statement that follows, "answered" if none does. *)
Store(r, row, code, next) ==
  \/ /\ UniqueNames([users EXCEPT ![row.id] = row])
     /\ \E o \in Outcome :
          /\ Write(o, users' = [users EXCEPT ![row.id] = row] /\ UNCHANGED tokens)
          /\ IF o # "ok" THEN Answer(r, 500)
             ELSE IF next = "answered" THEN Answer(r, code) ELSE Goto(r, next, copy[r])
  \/ /\ ~ UniqueNames([users EXCEPT ![row.id] = row])
     /\ Answer(r, 500)
     /\ UNCHANGED <<tables, faultsLeft>>

(* create_user.                                                            *)
Insert(r) ==
  /\ pc[r] = "insert"
  /\ Store(r, [id |-> call[r].id, name |-> call[r].name, password |-> call[r].password],
           201, "answered")

(* update_user_model and update_user_model_auth.                           *)
Updated(c, row) ==
  IF c.op = "change" THEN [row EXCEPT !.password = c.password]
  ELSE [row EXCEPT !.name = IF c.name = Keep THEN @ ELSE c.name]

(* get_user at the head of update_user and update_user_auth.               *)
Find(r) ==
  /\ pc[r] = "find"
  /\ \/ /\ users[call[r].id] = NoRow
        /\ Refused(r, 404)
     \/ /\ users[call[r].id] # NoRow
        /\ Goto(r, "write", Updated(call[r], users[call[r].id]))
        /\ UNCHANGED faultsLeft
     \/ Threw(r)
  /\ UNCHANGED tables

(* update_user of the repository writes both columns, whatever is there by *)
(* now.  A change of the password goes on to the tokens.                   *)
WriteUser(r) ==
  /\ pc[r] = "write"
  /\ Store(r, copy[r], 204, IF call[r].op = "change" THEN "revokeAll" ELSE "answered")

-----------------------------------------------------------------------------
(* refresh_tokens.                                                         *)
Unrevoked(t) == tokens[t] # NoRow /\ ~ tokens[t].revoked
Revoked(t) == [tokens[t] EXCEPT !.revoked = TRUE]
TokensOf(u) == {t \in Request : tokens[t] # NoRow /\ tokens[t].user = u}

(* A mutant: only a token that expired is revoked.                         *)
RevokeExpired(r) ==
  /\ pc[r] = "revokeAll"
  /\ \E o \in Outcome :
       /\ Write(o, /\ tokens' = [t \in Request |->
                          IF t \in TokensOf(call[r].id) /\ tokens[t].expired
                          THEN Revoked(t) ELSE tokens[t]]
                   /\ UNCHANGED users)
       /\ IF o = "ok" THEN Goto(r, "findName", copy[r]) ELSE Answer(r, 500)

(* revoke_refresh_tokens_for_user.                                         *)
RevokeAll(r) ==
  /\ pc[r] = "revokeAll"
  /\ \E o \in Outcome :
       /\ Write(o, /\ tokens' = [t \in Request |->
                          IF t \in TokensOf(call[r].id) THEN Revoked(t) ELSE tokens[t]]
                   /\ UNCHANGED users)
       /\ IF o = "ok" THEN Goto(r, "findName", copy[r]) ELSE Answer(r, 500)

(* The name that issue_token looks up: the one asked for, or the one a     *)
(* change of the password read at its start.                               *)
NameFor(r) == IF call[r].op = "change" THEN copy[r].name ELSE call[r].name
Bearers(n) == {u \in User : users[u] # NoRow /\ users[u].name = n}

(* The first half of issue_token: the user by name, and the password.      *)
FindByName(r) ==
  /\ pc[r] = "findName"
  /\ \/ /\ Bearers(NameFor(r)) = {}
        /\ Refused(r, 404)
     \/ \E u \in Bearers(NameFor(r)) :
          \/ /\ users[u].password = call[r].password
             /\ Goto(r, "issue", users[u])
             /\ UNCHANGED faultsLeft
          \/ /\ users[u].password # call[r].password
             /\ Refused(r, 403)
     \/ Threw(r)
  /\ UNCHANGED tables

(* A mutant: the answer does not wait for the INSERT.                      *)
IssueUnawaited(r) ==
  /\ pc[r] = "issue"
  /\ \E o \in Outcome :
       /\ Write(o, /\ tokens' = [tokens EXCEPT ![r] =
                        [user |-> copy[r].id, password |-> call[r].password,
                         expired |-> FALSE, revoked |-> FALSE]]
                   /\ UNCHANGED users)
       /\ Answer(r, 200)

(* The second half: the INSERT of the token, and the answer with it.       *)
Issue(r) ==
  /\ pc[r] = "issue"
  /\ \E o \in Outcome :
       /\ Write(o, /\ tokens' = [tokens EXCEPT ![r] =
                        [user |-> copy[r].id, password |-> call[r].password,
                         expired |-> FALSE, revoked |-> FALSE]]
                   /\ UNCHANGED users)
       /\ Answer(r, IF o = "ok" THEN 200 ELSE 500)

(* refresh_token: unknown, revoked, expired and forged tokens are refused  *)
(* in this order; one that expired is revoked first.                       *)
FindToken(r) ==
  /\ pc[r] = "findToken"
  /\ LET t == call[r].token IN
       \/ /\ ~ Unrevoked(t)
          /\ Refused(r, 403)
       \/ /\ Unrevoked(t) /\ tokens[t].expired
          /\ Goto(r, "revoke", NoRow)
          /\ UNCHANGED faultsLeft
       \/ /\ Unrevoked(t) /\ ~ tokens[t].expired
          /\ Refused(r, IF call[r].genuine THEN 200 ELSE 403)
       \/ Threw(r)
  /\ UNCHANGED tables

(* revoke_refresh_token.                                                   *)
RevokeOne(r) ==
  /\ pc[r] = "revoke"
  /\ \E o \in Outcome :
       /\ Write(o, /\ tokens' = [tokens EXCEPT ![call[r].token] = Revoked(call[r].token)]
                   /\ UNCHANGED users)
       /\ Answer(r, IF o = "ok" THEN 403 ELSE 500)

-----------------------------------------------------------------------------
(* Time passes.                                                            *)
Expire(t) ==
  /\ tokens[t] # NoRow /\ ~ tokens[t].expired
  /\ tokens' = [tokens EXCEPT ![t].expired = TRUE]
  /\ UNCHANGED <<users, call, pc, copy, answer, faultsLeft>>

Crash ==
  /\ "crash" \in Faults /\ faultsLeft > 0
  /\ InService # {}
  /\ Spend("crash")
  /\ pc' = [r \in Request |-> IF r \in InService THEN "lost" ELSE pc[r]]
  /\ UNCHANGED <<tables, call, copy, answer>>

Serve(r) ==
  \/ Insert(r) \/ Find(r) \/ WriteUser(r)
  \/ RevokeAll(r) \/ FindByName(r) \/ Issue(r)
  \/ FindToken(r) \/ RevokeOne(r)

Quiet ==
  /\ \A r \in Request : pc[r] \in {"answered", "lost"}
  /\ \A t \in Request : tokens[t] # NoRow => tokens[t].expired
  /\ UNCHANGED vars

Next ==
  \/ /\ \/ \E r \in Request : Serve(r) \/ Expire(r) \/ \E c \in Call : Receive(r, c)
        \/ Crash
     /\ overlapped' = (overlapped \/ Cardinality(InService') > 1)
  \/ Quiet

Spec == Init /\ [][Next]_vars
-----------------------------------------------------------------------------
(* Nothing has failed and no two requests have been in service at a time.  *)
Calm == ~ overlapped /\ faultsLeft = MaxFaults

(* In calm, the statements of a request add up to one step of SessionBook: *)
(* in particular a change of the password closes every session that was    *)
(* opened with an old one, and an open session is one whose password is    *)
(* the account's (update_auth_details and issue_token).  A change counts   *)
(* from the write of the password on.                                      *)
BeingRevoked(u) == \E r \in Request : pc[r] = "revokeAll" /\ call[r].id = u
OpenSessions == {t \in Request : Unrevoked(t) /\ ~ BeingRevoked(tokens[t].user)}
Account(u) == [name |-> users[u].name, password |-> users[u].password]
Session(t) == [key |-> t, owner |-> tokens[t].user, password |-> tokens[t].password,
               expired |-> tokens[t].expired]
TheAccounts == [u \in User |-> IF users[u] = NoRow THEN NoRow ELSE Account(u)]
TheSessions == {Session(t) : t \in OpenSessions}
Book == INSTANCE SessionBook
          WITH Person <- User, Secret <- Password, Key <- Request, Absent <- NoRow,
               account <- TheAccounts, session <- TheSessions, calm <- Calm
ImplementsSessionBook == Book!SessionBookSpec

(* The answer is true, whatever ran beside the request and failed: with    *)
(* 200 a login or a change has a token that is stored and was got with the *)
(* password sent; a request that was refused has none.  In calm a change   *)
(* of the password is refused only if there is no such user; otherwise it  *)
(* may be refused, and the password be changed.                            *)
AnswerIsTrue ==
  \A r \in Request :
    /\ answer[r] = 200 /\ call[r].op \in {"login", "change"} =>
         tokens[r] # NoRow /\ tokens[r].password = call[r].password
    /\ answer[r] \in {201, 204} => users[call[r].id] # NoRow
    /\ answer[r] \in {403, 404} => tokens[r] = NoRow
    /\ Calm /\ answer[r] \in {403, 404} /\ call[r].op = "change" =>
         users[call[r].id] = NoRow
=============================================================================
