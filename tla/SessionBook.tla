---------------------------- MODULE SessionBook ----------------------------
(***************************************************************************)
(* What the user service (services/user_service) does for its clients, as  *)
(* long as all is calm: an account has one name and one password, nobody   *)
(* shares a name, a session is opened with the password the account has at *)
(* that moment, and a change of the password closes every session of the   *)
(* account.  Nothing is promised once requests have overlapped or a call   *)
(* has failed.                                                             *)
(***************************************************************************)
CONSTANTS
  Person,
  Name,
  Secret,       \* passwords
  Key,          \* what tells one session from another
  Absent        \* no such account

VARIABLES
  account,      \* account[p]: name and password of p, or Absent
  session,      \* open sessions: records with key, owner, password, expired
  calm          \* nothing has been disturbed yet

bookVars == <<account, session, calm>>

BookInit ==
  /\ account \in [Person -> [name : Name, password : Secret] \union {Absent}]
  /\ session = {}
  /\ calm = TRUE

NameIsFree(p, n) == \A q \in Person \ {p} : account[q] # Absent => account[q].name # n

SignUp(p, row) ==
  /\ account[p] = Absent /\ NameIsFree(p, row.name)
  /\ account' = [account EXCEPT ![p] = row]
  /\ UNCHANGED session

Rename(p, n) ==
  /\ account[p] # Absent /\ NameIsFree(p, n)
  /\ account' = [account EXCEPT ![p].name = n]
  /\ UNCHANGED session

ChangePassword(p, secret) ==
  /\ account[p] # Absent
  /\ account' = [account EXCEPT ![p].password = secret]
  /\ session' = {s \in session : s.owner # p}

OpenSession(k, p) ==
  /\ account[p] # Absent
  /\ \A s \in session : s.key # k
  /\ session' = session \union
       {[key |-> k, owner |-> p, password |-> account[p].password, expired |-> FALSE]}
  /\ UNCHANGED account

ExpireSession(s) ==
  /\ session' = (session \ {s}) \union {[s EXCEPT !.expired = TRUE]}
  /\ UNCHANGED account

CloseSession(s) ==
  /\ s.expired
  /\ session' = session \ {s}
  /\ UNCHANGED account

BookNext ==
  \/ ~ calm'
  \/ /\ calm /\ calm'
     /\ \/ \E p \in Person :
             \/ \E n \in Name : Rename(p, n)
             \/ \E secret \in Secret : ChangePassword(p, secret)
             \/ \E n \in Name, secret \in Secret : SignUp(p, [name |-> n, password |-> secret])
             \/ \E k \in Key : OpenSession(k, p)
        \/ \E s \in session : ExpireSession(s) \/ CloseSession(s)

SessionBookSpec == BookInit /\ [][BookNext]_bookVars
=============================================================================
