------------------------- MODULE LoginSessionsProofs -------------------------
(***************************************************************************)
(* What LoginSessions claims holds for any number of accounts, addresses   *)
(* and requests.  The invariant adds to the types what a code remembers:   *)
(* it was made of the account whose password was checked, with the address *)
(* that account has.                                                       *)
(***************************************************************************)
EXTENDS LoginSessions, TLAPS

\* A code remembers the account that was asked, and its address.
CodesAreOfTheAsked ==
    \A c \in codes :
        /\ c.user \in DOMAIN address
        /\ c.sub = address[c.user] /\ c.asked = c.user

\* The inductive invariant.
IInv == TypeOK /\ CodesAreOfTheAsked /\ TwoStepsOneAccount

\* No account, no request, nothing sent.
LEMMA InitIInv == Init => IInv
  BY DEF Init, IInv, TypeOK, CodesAreOfTheAsked, TwoStepsOneAccount, IsTable,
         EmptyTable, RequestRow, Stages, Idle

\* An address is registered for a new uuid: everything that was sent keeps its
\* meaning.
LEMMA InsertUserStep ==
  ASSUME IInv, NEW u \in UserId, NEW e \in Email, InsertUser(u, e), UNCHANGED sent
  PROVE  /\ IsTable(address', UserId, Email)
         /\ DOMAIN address' = DOMAIN address \cup {u}
         /\ \A v \in DOMAIN address : address'[v] = address[v]
         /\ accounts' \subseteq DOMAIN address' /\ twoFactor' \subseteq accounts'
         /\ \A v, w \in accounts' : address'[v] = address'[w] => v = w
         /\ refresh' \subseteq {[sub |-> v, email |-> address'[v]] : v \in DOMAIN address'}
         /\ codes' \subseteq Code /\ access' \subseteq DOMAIN address'
         /\ CodesAreOfTheAsked'
<1> USE DEF IInv, TypeOK, InsertUser, sent
<1>1. IsTable(address', UserId, Email)
  BY DEF IsTable, With, Row
<1>2. /\ DOMAIN address' = DOMAIN address \cup {u}
      /\ \A v \in DOMAIN address : address'[v] = address[v]
      /\ address'[u] = e
  BY DEF With, Row
<1>3. /\ accounts' \subseteq DOMAIN address' /\ twoFactor' \subseteq accounts'
  BY <1>2
<1>4. \A v, w \in accounts' : address'[v] = address'[w] => v = w
  BY <1>2 DEF FindByEmail
<1>5. refresh' \subseteq {[sub |-> v, email |-> address'[v]] : v \in DOMAIN address'}
  BY <1>2
<1>6. /\ codes' \subseteq Code /\ access' \subseteq DOMAIN address'
      /\ CodesAreOfTheAsked'
  BY <1>2 DEF CodesAreOfTheAsked
<1> QED BY <1>1, <1>2, <1>3, <1>4, <1>5, <1>6

\* A request changes; the accounts and what was sent do not.
LEMMA RequestStep ==
  ASSUME IInv, UNCHANGED <<tables, sent>>, NEW r \in Request, NEW row \in RequestRow,
         Goes(r, row), row # Idle => row.user \in DOMAIN address,
         row.asked # NoUser => row.user = row.asked
  PROVE  IInv'
<1> USE DEF IInv, TypeOK, Goes, tables, sent
<1>1. \A q \in Request : request'[q] = IF q = r THEN row ELSE request[q]
  OBVIOUS
<1>2. TypeOK'
  BY <1>1
<1>3. CodesAreOfTheAsked'
  BY DEF CodesAreOfTheAsked
<1>4. TwoStepsOneAccount'
  BY <1>1 DEF TwoStepsOneAccount
<1> QED BY <1>2, <1>3, <1>4

\* A handler ends, having deleted accounts and sent what belongs to them.
LEMMA EndStep ==
  ASSUME IInv, UNCHANGED address, accounts' \subseteq accounts, twoFactor' \subseteq accounts',
         request' \in [Request -> RequestRow],
         \A r \in Request : request'[r] \in {Idle, request[r]},
         codes' \subseteq Code, CodesAreOfTheAsked',
         access' \subseteq DOMAIN address,
         refresh' \subseteq {[sub |-> v, email |-> address[v]] : v \in DOMAIN address}
  PROVE  IInv'
<1> USE DEF IInv, TypeOK
<1>1. TypeOK'
  OBVIOUS
<1>2. TwoStepsOneAccount'
  BY DEF TwoStepsOneAccount, Idle
<1> QED BY <1>1, <1>2

\* The rows a request in progress goes through.
LEMMA Rows ==
  ASSUME IInv, NEW u \in DOMAIN address, NEW s \in Stages
  PROVE  /\ Doing(s, u) \in RequestRow /\ Doing(s, u).user = u /\ Doing(s, u).asked = NoUser
         /\ Idle \in RequestRow
         /\ u \in UserId /\ address[u] \in Email
  BY DEF IInv, TypeOK, IsTable, Doing, RequestRow, Idle, Stages

\* Every step keeps the invariant.
LEMMA NextIInv == IInv /\ [Next]_vars => IInv'
<1> SUFFICES ASSUME IInv, [Next]_vars PROVE IInv'
  OBVIOUS
<1> USE DEF tables, sent
<1>1. ASSUME NEW r \in Request, NEW u \in UserId, NEW e \in Email, CreateUser(r, u, e)
      PROVE  IInv'
  <2>1. PICK row \in RequestRow : row = Doing("tokens", u)
    BY DEF Doing, RequestRow, Stages
  <2>2. /\ request' = [request EXCEPT ![r] = row]
        /\ row.user = u /\ row.asked = NoUser
    BY <1>1, <2>1 DEF CreateUser, Goes, Doing
  <2>3. /\ request' \in [Request -> RequestRow]
        /\ \A q \in Request : request'[q] = IF q = r THEN row ELSE request[q]
    BY <2>2 DEF IInv, TypeOK
  <2>4. TypeOK' /\ CodesAreOfTheAsked'
    BY <1>1, <2>2, <2>3, InsertUserStep DEF CreateUser, IInv, TypeOK
  <2>5. TwoStepsOneAccount'
    BY <2>2, <2>3 DEF IInv, TwoStepsOneAccount
  <2> QED BY <2>4, <2>5 DEF IInv
<1>2. ASSUME NEW r \in Request, NEW e \in Email, CheckPassword(r, e)
      PROVE  IInv'
  <2>1. PICK u \in FindByEmail(e) : Goes(r, LaunchTFA(u))
    BY <1>2 DEF CheckPassword
  <2>2. u \in DOMAIN address
    BY <2>1 DEF FindByEmail, IInv, TypeOK
  <2>3. LaunchTFA(u) = Doing("code", u) \/ LaunchTFA(u) = Doing("tokens", u)
    BY DEF LaunchTFA
  <2> QED BY <1>2, <2>1, <2>2, <2>3, Rows, RequestStep DEF CheckPassword, Stages
<1>3. ASSUME NEW r \in Request, NEW c \in codes, CheckTFACode(r, c)
      PROVE  IInv'
  <2>1. PICK u \in FindByEmail(c.sub) : Signs(c, u) /\ Goes(r, Login(u, c.asked))
    BY <1>3 DEF CheckTFACode
  <2>2. u \in DOMAIN address /\ c.asked = u
    BY <2>1 DEF FindByEmail, Signs, IInv, TypeOK, CodesAreOfTheAsked
  <2>3. /\ Login(u, c.asked) \in RequestRow /\ Login(u, c.asked).user = u
        /\ Login(u, c.asked).asked = u
    BY <2>2 DEF Login, RequestRow, Stages, IInv, TypeOK, IsTable
  <2> QED BY <1>3, <2>1, <2>2, <2>3, RequestStep DEF CheckTFACode
<1>4. ASSUME NEW r \in Request, NEW t \in refresh, RefreshTokens(r, t)
      PROVE  IInv'
  <2>1. PICK u \in FindByEmail(t.email) : Goes(r, Doing("tokens", u))
    BY <1>4 DEF RefreshTokens, RefreshToken
  <2>2. u \in DOMAIN address
    BY <2>1 DEF FindByEmail, IInv, TypeOK
  <2> QED BY <1>4, <2>1, <2>2, Rows, RequestStep DEF RefreshTokens, Stages
<1>5. ASSUME NEW r \in Request, NEW u \in access, JwtGuard(r, u)
      PROVE  IInv'
  <2>1. PICK s \in {"update", "delete"} : Goes(r, Doing(s, u))
    BY <1>5 DEF JwtGuard
  <2>2. u \in DOMAIN address
    BY DEF IInv, TypeOK
  <2> QED BY <1>5, <2>1, <2>2, Rows, RequestStep DEF JwtGuard, Stages
<1>6. ASSUME NEW r \in Request, Handle(r)
      PROVE  IInv'
  <2> DEFINE u == request[r].user
  <2>0. /\ request[r] # Idle /\ u \in DOMAIN address
        /\ u \in UserId /\ address[u] \in Email /\ Idle \in RequestRow
    BY <1>6 DEF Handle, GenTFA, UpdateUser, DeleteUser, CreateToken, Idle, IInv, TypeOK,
                IsTable, RequestRow, Stages
  <2>1. CASE GenTFA(r)
    <3>1. codes' \subseteq Code /\ CodesAreOfTheAsked'
      BY <2>1, <2>0 DEF GenTFA, NewCode, Code, FindById, IInv, TypeOK, CodesAreOfTheAsked
    <3> QED BY <2>1, <2>0, <3>1, EndStep DEF GenTFA, Goes, IInv, TypeOK
  <2>2. CASE UpdateUser(r)
    BY <2>2, <2>0, Rows, RequestStep DEF UpdateUser, Stages
  <2>3. CASE DeleteUser(r)
    <3>1. CodesAreOfTheAsked'
      BY <2>3 DEF DeleteUser, DeleteAccount, IInv, CodesAreOfTheAsked
    <3> QED BY <2>3, <2>0, <3>1, EndStep DEF DeleteUser, DeleteAccount, Goes, IInv, TypeOK
  <2>4. CASE CreateToken(r)
    <3>1. CodesAreOfTheAsked'
      BY <2>4 DEF CreateToken, IInv, CodesAreOfTheAsked
    <3> QED BY <2>4, <2>0, <3>1, EndStep DEF CreateToken, Goes, IInv, TypeOK
  <2> QED BY <1>6, <2>1, <2>2, <2>3, <2>4 DEF Handle
<1>7. ASSUME NEW u \in UserId, NEW e \in Email, CreateEmployee(u, e)
      PROVE  IInv'
  <2>1. TypeOK' /\ CodesAreOfTheAsked'
    BY <1>7, InsertUserStep DEF CreateEmployee, IInv, TypeOK
  <2>2. TwoStepsOneAccount'
    BY <1>7 DEF CreateEmployee, IInv, TwoStepsOneAccount
  <2> QED BY <2>1, <2>2 DEF IInv
<1>8. ASSUME NEW u \in UserId, SwitchTwoFactor(u) \/ RemoveEmployee(u)
      PROVE  IInv'
  <2>1. /\ UNCHANGED <<address, request, sent>> /\ accounts' \subseteq accounts
        /\ twoFactor' \subseteq accounts'
    BY <1>8 DEF SwitchTwoFactor, RemoveEmployee, DeleteAccount, IInv, TypeOK
  <2>2. CodesAreOfTheAsked'
    BY <2>1 DEF IInv, CodesAreOfTheAsked
  <2> QED BY <2>1, <2>2, EndStep DEF IInv, TypeOK
<1>9. CASE Crash
  <2>1. CodesAreOfTheAsked'
    BY <1>9 DEF Crash, IInv, CodesAreOfTheAsked
  <2>2. Idle \in RequestRow
    BY DEF Idle, RequestRow, Stages
  <2> QED BY <1>9, <2>1, <2>2, EndStep DEF Crash, IInv, TypeOK
<1>10. CASE UNCHANGED vars
  BY <1>10 DEF vars, IInv, TypeOK, CodesAreOfTheAsked, TwoStepsOneAccount
<1> QED BY <1>1, <1>2, <1>3, <1>4, <1>5, <1>6, <1>7, <1>8, <1>9, <1>10 DEF Next

\* Whatever happens between a guard and its handler, tables, requests and what
\* was sent stay well formed, and no two accounts share an address.
THEOREM TypeCorrect == Spec => []TypeOK
<1>1. IInv => TypeOK
  BY DEF IInv
<1> QED BY InitIInv, NextIInv, <1>1, PTL DEF Spec

\* The two steps of a two-factor login are about one account, however often
\* its address changes hands in between.
THEOREM TwoStepsAreOneAccounts == Spec => []TwoStepsOneAccount
<1>1. IInv => TwoStepsOneAccount
  BY DEF IInv
<1> QED BY InitIInv, NextIInv, <1>1, PTL DEF Spec

\* No step starts a request for an account that is gone: guards find accounts
\* that exist, a new account has a new uuid, and handlers go on with their own.
LEMMA DeletedStaysOutStep ==
  ASSUME IInv, [Next]_vars, NEW u \in DOMAIN address \ accounts, NEW r \in Request,
         request'[r].user = u
  PROVE  request[r].user = u
<1>0. u \in UserId /\ u # NoUser /\ request \in [Request -> RequestRow]
  BY NoUserIsNoAccount DEF IInv, TypeOK, IsTable
<1> USE <1>0 DEF Goes
<1>1. ASSUME NEW q \in Request, NEW v \in UserId, NEW e \in Email, CreateUser(q, v, e)
      PROVE  request[r].user = u
  BY <1>1 DEF CreateUser, InsertUser, Doing
<1>2. ASSUME NEW q \in Request, NEW e \in Email, CheckPassword(q, e)
      PROVE  request[r].user = u
  BY <1>2 DEF CheckPassword, FindByEmail, LaunchTFA, Doing
<1>3. ASSUME NEW q \in Request, NEW c \in codes, CheckTFACode(q, c)
      PROVE  request[r].user = u
  BY <1>3 DEF CheckTFACode, FindByEmail, Login
<1>4. ASSUME NEW q \in Request, NEW t \in refresh, RefreshTokens(q, t)
      PROVE  request[r].user = u
  BY <1>4 DEF RefreshTokens, RefreshToken, FindByEmail, Doing
<1>5. ASSUME NEW q \in Request, NEW v \in access, JwtGuard(q, v)
      PROVE  request[r].user = u
  BY <1>5 DEF JwtGuard, FindById, Doing
<1>6. ASSUME NEW q \in Request, Handle(q)
      PROVE  request[r].user = u
  BY <1>6 DEF Handle, GenTFA, UpdateUser, DeleteUser, CreateToken, Idle, Doing
<1>7. ASSUME NEW v \in UserId, NEW e \in Email, CreateEmployee(v, e)
      PROVE  request[r].user = u
  BY <1>7 DEF CreateEmployee
<1>8. ASSUME NEW v \in UserId, SwitchTwoFactor(v) \/ RemoveEmployee(v)
      PROVE  request[r].user = u
  BY <1>8 DEF SwitchTwoFactor, RemoveEmployee
<1>9. CASE Crash
  BY <1>9 DEF Crash, Idle
<1>10. CASE UNCHANGED vars
  BY <1>10 DEF vars
<1> QED BY <1>1, <1>2, <1>3, <1>4, <1>5, <1>6, <1>7, <1>8, <1>9, <1>10 DEF Next

\* Nothing that is left of a deleted account starts a request for it again.
THEOREM DeletedStayOut == Spec => DeletedStaysOut
<1>1. IInv /\ [Next]_vars =>
        [\A u \in DOMAIN address \ accounts, r \in Request :
            request'[r].user = u => request[r].user = u]_vars
  BY DeletedStaysOutStep
<1> QED BY InitIInv, NextIInv, <1>1, PTL DEF Spec, DeletedStaysOut
=============================================================================
